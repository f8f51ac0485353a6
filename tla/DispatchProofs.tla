--------------------------- MODULE DispatchProofs ---------------------------
(***************************************************************************)
(* Theorems about the dispatcher: the plans of Delegation, for every       *)
(* number of tasks and panes, any tabs, requests and settings, and the     *)
(* loop of SpawnPrompt.                                                    *)
(***************************************************************************)
EXTENDS SpawnPrompt, Delegation, FiniteSetTheorems, SequenceTheorems, WellFoundedInduction, TLAPS

Tab == [id : 1..MaxPane, name : TabNames, panes : SUBSET (1..MaxPane)]
Role == Tasks \cup {"other", "none"}

Seed == [status : {"none", "planned", "progressed"}, at : Nat]
Job == [pc : {"none", "planned", "approving", "binding", "running", "stuck", "refused", "over"}, until : Nat]
PaneSeen == [id : 1..MaxPane, role : Role]
PeerSeen == [id : 1..MaxPane, role : Role, index : Nat, name : TabNames, here : BOOLEAN]
Dispatcher(place) ==
    [pc : {"idle", "panes", "peers", "spawn"}, task : Tasks \cup {"none"}, req : Requests \cup {NoRequest},
     panes : SUBSET PaneSeen, peers : SUBSET PeerSeen, place : {place}, seen : Seq(Tab)]

DelegationTypeOK ==
    /\ org \in Orgs
    /\ tabs \in Seq(Tab)
    /\ roles \in [1..MaxPane -> Role]
    /\ bound \subseteq 1..MaxPane
    /\ seed \in [Tasks -> Seed]
    /\ instr \subseteq Tasks
    /\ dispatcher \in Dispatcher(dispatcher.place)
    /\ job \in [Tasks -> Job]
    /\ clock \in Nat

\* A pane is in one tab and a tab has a pane; peers are open panes, and an open pane is somebody's.
Laid ==
    /\ tabs # << >>
    /\ \A k \in DOMAIN tabs : tabs[k].panes # {}
    /\ \A j, k \in DOMAIN tabs : \A p \in tabs[j].panes : p \in tabs[k].panes => j = k
    /\ \A k \in DOMAIN tabs : \A p \in tabs[k].panes : roles[p] # "none"
    /\ \A p \in bound : \E k \in DOMAIN tabs : p \in tabs[k].panes

Allowance(pc) ==
    CASE pc = "planned" -> Headroom [] pc = "approving" -> Headroom + Approval [] pc = "binding" -> Window

\* While a worker is on its way to be a peer its seed reserves its place: its steps end within
\* the window of the seed.
Underway(t) ==
    job[t].pc \in {"planned", "approving", "binding"}
        => /\ seed[t].status = "planned"
           /\ clock <= job[t].until /\ job[t].until <= seed[t].at + Allowance(job[t].pc)

Seen(t) == job[t].pc = "running" => \E p \in bound : roles[p] = t
Retried(t) == job[t].pc = "refused" => seed[t] = NoSeed /\ t \notin instr
Within(t) == org.transport = "broker" /\ t \in Alive => \E p \in tabs[Caller].panes : roles[p] = t

\* What the snapshots say of the workers alive, until the plan is made.
Counted(t) ==
    /\ dispatcher.pc \in {"panes", "peers"} /\ org.transport = "broker" /\ t \in Alive
          => \E e \in dispatcher.panes : e.role = t
    /\ dispatcher.pc = "peers" /\ t \in Alive
          => \/ \E e \in dispatcher.peers : e.role = t
             \/ seed[t].status = "planned" /\ clock - seed[t].at <= Window

Worker(t) == Underway(t) /\ Seen(t) /\ Retried(t) /\ Within(t) /\ Counted(t)

\* A pane that was seen in a tab is in this tab, or gone.
Followed ==
    dispatcher.pc \in {"peers", "spawn"} =>
        /\ \A k \in DOMAIN tabs, j \in DOMAIN dispatcher.seen : \A p \in tabs[k].panes :
             p \in dispatcher.seen[j].panes => tabs[k].id = dispatcher.seen[j].id
        /\ \A q \in dispatcher.peers :
             q.index \in DOMAIN dispatcher.seen /\ q.id \in dispatcher.seen[q.index].panes

\* The plan: the broker's stays in the caller's tab, and a known index has become a pane of its tab.
Directed ==
    LET index == dispatcher.req.tab.value
    IN dispatcher.pc = "spawn" =>
        /\ dispatcher.task \in Tasks /\ job[dispatcher.task].pc = "planned"
        /\ org.transport = "broker" => dispatcher.place.kind = "caller"
        /\ /\ org.transport # "broker" /\ dispatcher.req.tab.kind = "index" /\ dispatcher.req.peers
           /\ \E q \in dispatcher.peers : q.index = index
           => /\ dispatcher.place.kind = "existing" /\ dispatcher.place.selector.kind = "pane"
              /\ dispatcher.place.selector.value \in dispatcher.seen[index].panes

DelegationInv ==
    /\ DelegationTypeOK
    /\ Laid
    /\ \A t \in Tasks : Worker(t)
    /\ Followed
    /\ Directed
-----------------------------------------------------------------------------
LEMMA RemovedAt ==
    ASSUME NEW S, NEW s \in Seq(S), NEW k \in 1..Len(s)
    PROVE  /\ RemoveAt(s, k) \in Seq(S) /\ Len(RemoveAt(s, k)) = Len(s) - 1
           /\ \A i \in 1..(Len(s) - 1) : RemoveAt(s, k)[i] = IF i < k THEN s[i] ELSE s[i + 1]
<1> DEFINE a == SubSeq(s, 1, k - 1)
           b == SubSeq(s, k + 1, Len(s))
<1>0. Len(s) \in Nat /\ k \in Nat  OBVIOUS
<1>1. a \in Seq(S) /\ Len(a) = k - 1 /\ \A i \in 1..(k - 1) : a[i] = s[i]  OBVIOUS
<1>2. b \in Seq(S) /\ Len(b) = Len(s) - k /\ \A i \in 1..(Len(s) - k) : b[i] = s[k + i]  OBVIOUS
<1>3. RemoveAt(s, k) = a \o b  BY DEF RemoveAt
<1> HIDE DEF a, b
<1>4. /\ a \o b \in Seq(S) /\ Len(a \o b) = Len(a) + Len(b)
      /\ \A i \in 1..(Len(a) + Len(b)) : (a \o b)[i] = IF i <= Len(a) THEN a[i] ELSE b[i - Len(a)]
  BY <1>1, <1>2, ConcatProperties
<1>5. ASSUME NEW i \in 1..(Len(s) - 1)
      PROVE  (a \o b)[i] = IF i < k THEN s[i] ELSE s[i + 1]
  <2>1. CASE i < k
    <3>1. i \in 1..(Len(a) + Len(b)) /\ i <= Len(a) /\ i \in 1..(k - 1)  BY <1>0, <1>1, <1>2, <2>1
    <3>. QED  BY <1>1, <1>4, <2>1, <3>1
  <2>2. CASE ~(i < k)
    <3>1. /\ i - Len(a) \in 1..(Len(s) - k) /\ k + (i - Len(a)) = i + 1
          /\ i \in 1..(Len(a) + Len(b)) /\ ~(i <= Len(a))
      BY <1>0, <1>1, <1>2, <2>2
    <3>. QED  BY <1>2, <1>4, <2>2, <3>1
  <2>. QED  BY <2>1, <2>2
<1>6. Len(a \o b) = Len(s) - 1  BY <1>0, <1>1, <1>2, <1>4
<1>. QED  BY <1>3, <1>4, <1>5, <1>6

-----------------------------------------------------------------------------
LEMMA Least ==
    ASSUME NEW S \in SUBSET Nat, S # {}
    PROVE  Min(S) \in S /\ \A y \in S : Min(S) <= y
<1> DEFINE Below == {ss \in Nat \X Nat : ss[1] < ss[2]}
<1>1. IsWellFoundedOn(Below, Nat)  BY NatLessThanWellFounded, Zenon DEF OpToRel
<1>2. PICK x \in S : \A y \in S : ~(<<y, x>> \in Below)
  <2> HIDE DEF Below
  <2>. QED  BY <1>1, WFMin
<1>3. \A y \in S : x <= y
  <2> TAKE y \in S
  <2>1. <<y, x>> \in Nat \X Nat /\ <<y, x>>[1] = y /\ <<y, x>>[2] = x  OBVIOUS
  <2>2. ~(y < x)  BY <1>2, <2>1
  <2>. QED  BY <2>2
<1>. QED  BY <1>3 DEF Min

LEMMA NextPaneIsFree ==
    ASSUME DelegationTypeOK, \E p \in 1..MaxPane : roles[p] = "none"
    PROVE  NextPane \in 1..MaxPane /\ roles[NextPane] = "none"
<1>1. {p \in 1..MaxPane : roles[p] = "none"} \in SUBSET Nat  BY DelegationAssumption
<1>. QED  BY <1>1, Least DEF NextPane

\* Whatever it is asked for, a plan that is ready is one of these.
LEMMA PlansAreBounded ==
    ASSUME NEW t, NEW req, NEW panes, NEW peers,
           BuildPlan(t, req, panes, peers).status = "ready_to_spawn"
    PROVE  /\ seed[t] = NoSeed /\ t \notin instr
           /\ org.transport = "broker" =>
                /\ BuildPlan(t, req, panes, peers).place.kind = "caller"
                /\ ~(Cardinality(Population(panes, IF req.peers THEN peers ELSE {})) >= org.ceiling)
           /\ org.transport # "broker" /\ BuildPlan(t, req, panes, peers).place.kind = "new" /\ req.tab = NoTab =>
                /\ req.peers
                /\ ~(Cardinality(Population(panes, peers)) + Cardinality(Reserved(Population(panes, peers))) >= org.ceiling)
<1> DEFINE seen == IF req.peers THEN peers ELSE {}
<1>1. ~Refused(t, req, panes, seen)  BY DEF BuildPlan, Invalid, Outcome
<1>2. seed[t] = NoSeed /\ t \notin instr  BY <1>1 DEF Refused
<1>3. CASE org.transport = "broker"
  <2>1. BrokerPlan(Cardinality(Population(panes, seen))) = BuildPlan(t, req, panes, peers)
    BY <1>3 DEF BuildPlan, Invalid, Outcome
  <2>. QED  BY <1>2, <1>3, <2>1 DEF BrokerPlan, Exceeded, Ready, Outcome, Place
<1>4. CASE org.transport # "broker"
  <2>1. RengaPlan(req, panes, seen) = BuildPlan(t, req, panes, peers)
    BY <1>4 DEF BuildPlan, Invalid, Outcome
  <2>2. SUFFICES ASSUME BuildPlan(t, req, panes, peers).place.kind = "new", req.tab = NoTab
                 PROVE  /\ req.peers
                        /\ ~(Cardinality(Population(panes, seen)) + Cardinality(Reserved(Population(panes, seen))) >= org.ceiling)
    BY <1>2, <1>4
  <2>3. \E place : OverflowPlan(req, place, Population(panes, seen)) = BuildPlan(t, req, panes, peers)
    BY <2>1, <2>2 DEF RengaPlan, Invalid, Exceeded, Ready, Outcome, Place
  <2>. QED  BY <2>2, <2>3 DEF OverflowPlan, Invalid, Exceeded, Ready, Outcome
<1>. QED  BY <1>3, <1>4

-----------------------------------------------------------------------------
(* How tabs change: a spawn opens a new pane in one of them, a pane that     *)
(* closes may take its tab with it.                                          *)

LEMMA Tabs ==
    ASSUME DelegationTypeOK
    PROVE  /\ tabs \in Seq(Tab) /\ Len(tabs) \in Nat /\ DOMAIN tabs = 1..Len(tabs)
           /\ \A k \in DOMAIN tabs :
                /\ tabs[k] \in Tab /\ tabs[k].id \in 1..MaxPane /\ tabs[k].name \in TabNames
                /\ tabs[k].panes \subseteq 1..MaxPane
<1>1. tabs \in Seq(Tab)  BY DEF DelegationTypeOK
<1>2. \A k \in DOMAIN tabs : tabs[k] \in Tab  BY <1>1
<1>3. \A k \in DOMAIN tabs : tabs[k].id \in 1..MaxPane /\ tabs[k].name \in TabNames /\ tabs[k].panes \subseteq 1..MaxPane
  BY <1>2 DEF Tab
<1>. QED  BY <1>1, <1>2, <1>3

LEMMA TabHolds ==
    ASSUME NEW p, \E k \in DOMAIN tabs : p \in tabs[k].panes
    PROVE  TabOf(p) \in DOMAIN tabs /\ p \in tabs[TabOf(p)].panes
BY DEF TabOf

\* A pane p is added to tab k and to no other: an old tab, or one opened for it.
Extended(k, p) ==
    /\ tabs' \in Seq(Tab)
    /\ Len(tabs') \in {Len(tabs), Len(tabs) + 1} /\ k \in 1..Len(tabs')
    /\ Len(tabs') # Len(tabs) => k = Len(tabs')
    /\ \A i \in 1..Len(tabs) :
         tabs'[i].id = tabs[i].id /\ tabs'[i].panes = IF i = k THEN tabs[i].panes \cup {p} ELSE tabs[i].panes
    /\ k > Len(tabs) => tabs'[k].panes = {p}

LEMMA OpensOne ==
    ASSUME DelegationTypeOK, Laid, NEW p \in 1..MaxPane, NEW place, Opens(p, place)
    PROVE  \E k \in 1..Len(tabs') :
             /\ Extended(k, p)
             /\ place.kind = "caller" => k = Caller
             /\ place.kind \notin {"caller", "new"} => k \in Hosts(place.selector)
<1>0. tabs # << >>  BY DEF Laid
<1>1. CASE place.kind = "new"
  <2> DEFINE tab == [id |-> p, name |-> "worker", panes |-> {p}]
  <2>1. tabs' = Append(tabs, tab)  BY <1>1 DEF Opens
  <2>2. tab \in Tab  BY DEF Tab, TabNames
  <2>3. tab.panes = {p}  OBVIOUS
  <2> HIDE DEF tab
  <2>4. /\ tabs' \in Seq(Tab) /\ Len(tabs') = Len(tabs) + 1
        /\ \A i \in 1..Len(tabs) : tabs'[i] = tabs[i]
        /\ tabs'[Len(tabs) + 1] = tab
    BY <2>1, <2>2, Tabs
  <2>5. Len(tabs) \in Nat /\ ~(Len(tabs) + 1 \in 1..Len(tabs))  BY Tabs
  <2>6. \A i \in 1..Len(tabs) : i # Len(tabs) + 1  BY <2>5
  <2>7. tabs'[Len(tabs) + 1].panes = {p}  BY <2>3, <2>4
  <2>8. Extended(Len(tabs) + 1, p)  BY <2>4, <2>5, <2>6, <2>7 DEF Extended
  <2>9. Len(tabs) + 1 \in 1..Len(tabs')  BY <2>4, <2>5
  <2>. QED  BY <1>1, <2>8, <2>9
<1>2. CASE place.kind # "new"
  <2>1. PICK k \in IF place.kind = "caller" THEN {Caller} ELSE Hosts(place.selector) :
             tabs' = [tabs EXCEPT ![k].panes = @ \cup {p}]
    BY <1>2 DEF Opens
  <2>2. k \in DOMAIN tabs  BY <1>0, <2>1, Tabs DEF Caller, Hosts, Named
  <2>3. [tabs[k] EXCEPT !.panes = @ \cup {p}] \in Tab  BY <2>2, Tabs DEF Tab
  <2>4. /\ tabs' \in Seq(Tab) /\ Len(tabs') = Len(tabs)
        /\ \A i \in 1..Len(tabs) : tabs'[i] = IF i = k THEN [tabs[k] EXCEPT !.panes = @ \cup {p}] ELSE tabs[i]
    BY <2>1, <2>2, <2>3, Tabs
  <2>5. \A i \in 1..Len(tabs) :
           tabs'[i].id = tabs[i].id /\ tabs'[i].panes = IF i = k THEN tabs[i].panes \cup {p} ELSE tabs[i].panes
    BY <2>4, Tabs DEF Tab
  <2>6. Extended(k, p)
    <3>1. Len(tabs) \in Nat /\ k \in Nat /\ k <= Len(tabs) /\ k \in 1..Len(tabs)  BY <2>2, Tabs
    <3>2. k \in 1..Len(tabs') /\ Len(tabs') \in {Len(tabs), Len(tabs) + 1} BY <2>4, <3>1
    <3>3. ~(k > Len(tabs))  BY <3>1
    <3>4. \A i \in 1..Len(tabs) :
         tabs'[i].id = tabs[i].id /\ tabs'[i].panes = IF i = k THEN tabs[i].panes \cup {p} ELSE tabs[i].panes
         BY <2>5
    <3>. QED  BY <2>4, <3>2, <3>3, <3>4 DEF Extended
  <2>7. (place.kind = "caller" => k = Caller) /\ (place.kind # "caller" => k \in Hosts(place.selector))  BY <2>1
  <2>8. k \in 1..Len(tabs')  BY <2>2, <2>4, Tabs
  <2>. QED  BY <2>6, <2>7, <2>8
<1>. QED  BY <1>1, <1>2

\* Pane p leaves its tab k; a tab it was alone in closes, and the indices after it shift.
Before(k, i) == IF Len(tabs') < Len(tabs) /\ i >= k THEN i + 1 ELSE i
Shortened(k, p) ==
    /\ tabs' \in Seq(Tab)
    /\ Len(tabs') \in {Len(tabs), Len(tabs) - 1} /\ k \in 1..Len(tabs) /\ p \in tabs[k].panes
    /\ IF Len(tabs') < Len(tabs) THEN k # Caller /\ tabs[k].panes = {p} ELSE tabs[k].panes # {p}
    /\ \A i \in 1..Len(tabs') :
         tabs'[i].id = tabs[Before(k, i)].id /\ tabs'[i].panes = tabs[Before(k, i)].panes \ {p}

LEMMA ClosesOne ==
    ASSUME DelegationTypeOK, Laid, NEW p \in Open \ {Min(tabs[Caller].panes)}, tabs' = TabsWithout(p)
    PROVE  Shortened(TabOf(p), p)
<1> DEFINE k == TabOf(p)
<1>1. k \in 1..Len(tabs) /\ p \in tabs[k].panes  BY Tabs, TabHolds DEF Open
<1> HIDE DEF k
<1>2. CASE tabs[k].panes = {p}
  <2>1. Min({p}) = p  BY DEF Min
  <2>2. k # Caller  BY <1>2, <2>1
  <2>3. tabs' = RemoveAt(tabs, k)  BY <1>2 DEF TabsWithout, k
  <2>4. /\ tabs' \in Seq(Tab) /\ Len(tabs') = Len(tabs) - 1
        /\ \A i \in 1..(Len(tabs) - 1) : tabs'[i] = IF i < k THEN tabs[i] ELSE tabs[i + 1]
    BY <1>1, <2>3, Tabs, RemovedAt
  <2>5. \A j \in 1..Len(tabs) : j # k => p \notin tabs[j].panes  BY <1>1, Tabs DEF Laid
  <2>6. \A i \in 1..Len(tabs') : tabs'[i] = tabs[Before(k, i)] /\ Before(k, i) \in 1..Len(tabs) /\ Before(k, i) # k
    BY <1>1, <2>4, Tabs DEF Before
  <2>. QED  BY <1>1, <1>2, <2>2, <2>4, <2>5, <2>6, Tabs DEF Shortened, k
<1>3. CASE tabs[k].panes # {p}
  <2>1. tabs' = [tabs EXCEPT ![k].panes = @ \ {p}]  BY <1>3 DEF TabsWithout, k
  <2>2. [tabs[k] EXCEPT !.panes = @ \ {p}] \in Tab  BY <1>1, Tabs DEF Tab
  <2>3. /\ tabs' \in Seq(Tab) /\ Len(tabs') = Len(tabs)
        /\ \A i \in 1..Len(tabs) : tabs'[i] = IF i = k THEN [tabs[k] EXCEPT !.panes = @ \ {p}] ELSE tabs[i]
    BY <1>1, <2>1, <2>2, Tabs
  <2>4. \A j \in 1..Len(tabs) : j # k => p \notin tabs[j].panes  BY <1>1, Tabs DEF Laid
  <2>5. \A i \in 1..Len(tabs) : tabs'[i].id = tabs[i].id /\ tabs'[i].panes = tabs[i].panes \ {p}
    BY <2>3, <2>4, Tabs DEF Tab
  <2>6. \A i \in 1..Len(tabs') : Before(k, i) = i  BY <2>3, Tabs DEF Before
  <2>. QED  BY <1>1, <1>3, <2>3, <2>5, <2>6, Tabs DEF Shortened, k
<1>. QED  BY <1>2, <1>3

-----------------------------------------------------------------------------
(* Types.                                                                    *)

LEMMA Snapshots ==
    ASSUME DelegationTypeOK, Laid
    PROVE  /\ ListPanes \subseteq PaneSeen
           /\ ListPeers \subseteq PeerSeen
           /\ \A q \in ListPeers : q.index \in DOMAIN tabs /\ q.id \in tabs[q.index].panes
<1>1. Caller \in DOMAIN tabs  BY Tabs DEF Laid, Caller
<1>2. \A p \in 1..MaxPane : roles[p] \in Role  BY DEF DelegationTypeOK
<1>3. ListPanes \subseteq PaneSeen  BY <1>1, <1>2, Tabs DEF ListPanes, PaneSeen
<1>4. ASSUME NEW p \in bound
      PROVE  /\ p \in 1..MaxPane /\ TabOf(p) \in DOMAIN tabs /\ p \in tabs[TabOf(p)].panes
             /\ TabOf(p) \in Nat /\ tabs[TabOf(p)].name \in TabNames
  <2>1. p \in 1..MaxPane /\ \E k \in DOMAIN tabs : p \in tabs[k].panes  BY DEF DelegationTypeOK, Laid
  <2>2. TabOf(p) \in DOMAIN tabs /\ p \in tabs[TabOf(p)].panes  BY <2>1, TabHolds
  <2>. QED  BY <2>1, <2>2, Tabs
<1>5. ASSUME NEW p \in bound
      PROVE  [id |-> p, role |-> roles[p], index |-> TabOf(p), name |-> tabs[TabOf(p)].name,
              here |-> TabOf(p) = Caller] \in PeerSeen
  <2>1. (TabOf(p) = Caller) \in BOOLEAN  OBVIOUS
  <2>. QED  BY <1>2, <1>4, <2>1, Zenon DEF PeerSeen
<1>6. ListPeers \subseteq PeerSeen  BY <1>5, Zenon DEF ListPeers
<1>7. \A q \in ListPeers : q.index \in DOMAIN tabs /\ q.id \in tabs[q.index].panes  BY <1>4 DEF ListPeers
<1>. QED  BY <1>3, <1>6, <1>7

LEMMA Times ==
    /\ MaxPane \in Nat /\ Headroom \in Nat /\ Approval \in Nat /\ Bind \in Nat
    /\ Window = Approval + Bind + Headroom
BY DelegationAssumption DEF Window

LEMMA NewJob ==
    ASSUME DelegationTypeOK, NEW t \in Tasks, NEW pc, NEW until \in Nat,
           pc \in {"none", "planned", "approving", "binding", "running", "stuck", "refused", "over"},
           job' = [job EXCEPT ![t] = [pc |-> pc, until |-> until]]
    PROVE  job' \in [Tasks -> Job]
<1>1. [pc |-> pc, until |-> until] \in Job  BY DEF Job
<1>. QED  BY <1>1 DEF DelegationTypeOK

LEMMA IsIdle == Idle \in Dispatcher(Idle.place)
BY DEF Idle, Dispatcher


LEMMA TypeStep ==
    ASSUME DelegationInv, [DelegationNext]_delegationVars
    PROVE  DelegationTypeOK'
<1>0. DelegationTypeOK /\ Laid /\ Directed  BY DEF DelegationInv
<1>1. CASE CapturesPanes
  <2>1. dispatcher' \in Dispatcher(dispatcher'.place)
    BY <1>0, <1>1, Snapshots DEF CapturesPanes, DelegationTypeOK, Dispatcher
  <2>. QED  BY <1>0, <1>1, <2>1 DEF CapturesPanes, DelegationTypeOK
<1>2. CASE CapturesPeers
  <2>1. dispatcher' \in Dispatcher(dispatcher'.place)
    BY <1>0, <1>2, Snapshots DEF CapturesPeers, DelegationTypeOK, Dispatcher
  <2>. QED  BY <1>0, <1>2, <2>1 DEF CapturesPeers, DelegationTypeOK
<1>3. ASSUME NEW t \in Tasks, NEW req \in Requests, NEW whole \in BOOLEAN, Plans(t, req, whole)
      PROVE  DelegationTypeOK'
  <2>1. seed' \in [Tasks -> Seed]
    <3>1. [status |-> "planned", at |-> clock] \in Seed  BY <1>0 DEF DelegationTypeOK, Seed
    <3>. QED  BY <1>0, <1>3, <3>1 DEF Plans, DelegationTypeOK
  <2>2. job' \in [Tasks -> Job]
    <3>1. clock + Headroom \in Nat  BY <1>0, Times DEF DelegationTypeOK
    <3>2. \/ job' = job
          \/ job' = [job EXCEPT ![t] = [pc |-> "planned", until |-> clock + Headroom]]
          \/ job' = [job EXCEPT ![t] = [pc |-> "none", until |-> 0]]
      BY <1>3 DEF Plans
    <3>. QED  BY <1>0, <3>1, <3>2, NewJob DEF DelegationTypeOK
  <2>3. instr' \subseteq Tasks  BY <1>0, <1>3 DEF Plans, DelegationTypeOK
  <2>4. dispatcher' \in Dispatcher(dispatcher'.place)
    <3>1. \/ dispatcher' = Idle
          \/ \E place : dispatcher' = [dispatcher EXCEPT !.pc = "spawn", !.task = t, !.req = req, !.place = place]
      BY <1>3 DEF Plans
    <3>. QED  BY <1>0, <3>1, IsIdle DEF DelegationTypeOK, Dispatcher
  <2>. QED  BY <1>0, <1>3, <2>1, <2>2, <2>3, <2>4 DEF Plans, DelegationTypeOK
<1>4. CASE Spawns
  <2>1. tabs' \in Seq(Tab)  BY <1>0, <1>4, NextPaneIsFree, OpensOne DEF Spawns, Extended
  <2>2. dispatcher.task \in Tasks  BY <1>0, <1>4 DEF Directed, Spawns
  <2>3. roles' \in [1..MaxPane -> Role]  BY <1>0, <1>4, <2>2 DEF Spawns, DelegationTypeOK, Role
  <2>4. job' \in [Tasks -> Job]
    <3>1. clock + Approval \in Nat  BY <1>0, Times DEF DelegationTypeOK
    <3>. QED  BY <1>0, <1>4, <2>2, <3>1, NewJob DEF Spawns
  <2>. QED  BY <1>0, <1>4, <2>1, <2>3, <2>4, IsIdle DEF Spawns, DelegationTypeOK
<1>5. ASSUME NEW error \in RecoveredErrors, SpawnFails(error)
      PROVE  DelegationTypeOK'
  <2>1. dispatcher.task \in Tasks  BY <1>0, <1>5 DEF Directed, SpawnFails
  <2>2. NoSeed \in Seed  BY DEF NoSeed, Seed
  <2>3. seed' \in [Tasks -> Seed]  BY <1>0, <1>5, <2>2 DEF SpawnFails, DelegationTypeOK
  <2>4. job' \in [Tasks -> Job]  BY <1>0, <1>5, <2>1, NewJob DEF SpawnFails
  <2>. QED  BY <1>0, <1>5, <2>3, <2>4, IsIdle DEF SpawnFails, DelegationTypeOK
<1>6. ASSUME NEW t \in Tasks, Binds(t)
      PROVE  DelegationTypeOK'
  <2>1. Open \subseteq 1..MaxPane  BY <1>0, Tabs DEF Open
  <2>2. job' \in [Tasks -> Job]  BY <1>0, <1>6, NewJob DEF Binds
  <2>. QED  BY <1>0, <1>6, <2>1, <2>2 DEF Binds, DelegationTypeOK
<1>7. ASSUME NEW t \in Tasks, BindLost(t)
      PROVE  DelegationTypeOK'
  <2>1. job' \in [Tasks -> Job]  BY <1>0, <1>7, NewJob DEF BindLost
  <2>. QED  BY <1>0, <1>7, <2>1 DEF BindLost, DelegationTypeOK
<1>8. ASSUME NEW t \in Tasks, Monitors(t)
      PROVE  DelegationTypeOK'
  <2>1. [status |-> "progressed", at |-> clock] \in Seed  BY <1>0 DEF DelegationTypeOK, Seed
  <2>. QED  BY <1>0, <1>8, <2>1 DEF Monitors, DelegationTypeOK
<1>9. ASSUME NEW t \in Tasks, NEW ok \in BOOLEAN, Approves(t, ok)
      PROVE  DelegationTypeOK'
  <2>1. clock + Bind \in Nat  BY <1>0, Times DEF DelegationTypeOK
  <2>2. job' \in [Tasks -> Job]  BY <1>0, <1>9, <2>1, NewJob DEF Approves
  <2>. QED  BY <1>0, <1>9, <2>2 DEF Approves, DelegationTypeOK
<1>10. ASSUME NEW p \in 1..MaxPane, PaneCloses(p)
       PROVE  DelegationTypeOK'
  <2>1. tabs' \in Seq(Tab)  BY <1>0, <1>10, ClosesOne DEF PaneCloses, Shortened
  <2>2. job' \in [Tasks -> Job]  BY <1>0, <1>10, NewJob DEF PaneCloses, DelegationTypeOK
  <2>. QED  BY <1>0, <1>10, <2>1, <2>2 DEF PaneCloses, DelegationTypeOK
<1>11. CASE DelegationTick  BY <1>0, <1>11 DEF DelegationTick, DelegationTypeOK
<1>12. CASE UNCHANGED delegationVars  BY <1>0, <1>12 DEF delegationVars, DelegationTypeOK
<1>. QED  BY <1>1, <1>2, <1>3, <1>4, <1>5, <1>6, <1>7, <1>8, <1>9, <1>10, <1>11, <1>12 DEF DelegationNext

-----------------------------------------------------------------------------
(* The tabs stay laid out.                                                   *)

LEMMA LaidOut ==
    ASSUME DelegationTypeOK, Laid
    PROVE  /\ Len(tabs) \in Nat /\ Len(tabs) > 0 /\ Caller \in 1..Len(tabs)
           /\ \A i \in 1..Len(tabs) : tabs[i].panes # {}
           /\ \A i, j \in 1..Len(tabs) : \A q \in tabs[i].panes : q \in tabs[j].panes => i = j
           /\ \A i \in 1..Len(tabs) : \A q \in tabs[i].panes : q \in 1..MaxPane /\ roles[q] # "none"
           /\ \A q \in bound : \E i \in 1..Len(tabs) : q \in tabs[i].panes
<1>1. DOMAIN tabs = 1..Len(tabs) /\ Len(tabs) \in Nat  BY Tabs
<1>2. Len(tabs) > 0  BY <1>1, Tabs DEF Laid
<1>. QED  BY <1>1, <1>2, Tabs DEF Laid, Caller

LEMMA LaidStep ==
    ASSUME DelegationInv, [DelegationNext]_delegationVars
    PROVE  Laid'
<1>0. DelegationTypeOK /\ Laid  BY DEF DelegationInv
<1>1. CASE Spawns
  <2> DEFINE p == NextPane
  <2>1. p \in 1..MaxPane /\ roles[p] = "none" /\ Opens(p, dispatcher.place) /\ bound' = bound
        /\ roles' = [roles EXCEPT ![p] = dispatcher.task]
    BY <1>0, <1>1, NextPaneIsFree DEF Spawns
  <2> HIDE DEF p
  <2>2. PICK k \in 1..Len(tabs') : Extended(k, p)  BY <1>0, <2>1, OpensOne
  <2>3. \A i \in 1..Len(tabs) : p \notin tabs[i].panes  BY <1>0, <2>1, LaidOut
  <2>4. Len(tabs') \in Nat /\ DOMAIN tabs' = 1..Len(tabs') /\ Len(tabs) \in Nat /\ Len(tabs) > 0
    BY <1>0, <2>2, LaidOut DEF Extended
  <2>14. Len(tabs') \in Nat /\ Len(tabs) \in Nat  BY <2>4
  <2>13. Len(tabs') = Len(tabs) \/ (Len(tabs') = Len(tabs) + 1 /\ k = Len(tabs) + 1 /\ tabs'[k].panes = {p})
    <3>1. Len(tabs') = Len(tabs) \/ (Len(tabs') = Len(tabs) + 1 /\ k = Len(tabs'))  BY <2>2, <2>4 DEF Extended
    <3>2. k > Len(tabs) => tabs'[k].panes = {p}  BY <2>2 DEF Extended
    <3>. QED  BY <2>14, <3>1, <3>2
  <2>5. ASSUME NEW i \in 1..Len(tabs')
        PROVE  i \in 1..Len(tabs) \/ (i = k /\ tabs'[i].panes = {p} /\ k > Len(tabs))
    BY <2>13, <2>14
  <2>6. \A i \in 1..Len(tabs') : \A q \in tabs'[i].panes : IF q = p THEN i = k ELSE i \in 1..Len(tabs) /\ q \in tabs[i].panes
    BY <2>2, <2>3, <2>5 DEF Extended
  <2>7. \A i \in 1..Len(tabs') : tabs'[i].panes # {}
    BY <1>0, <2>2, <2>5, LaidOut DEF Extended
  <2>8. \A i, j \in 1..Len(tabs') : \A q \in tabs'[i].panes : q \in tabs'[j].panes => i = j
    BY <1>0, <2>6, LaidOut
  <2>9. \A i \in 1..Len(tabs') : \A q \in tabs'[i].panes : roles'[q] # "none"
    <3>1. dispatcher.task \in Tasks  BY <1>1 DEF DelegationInv, Directed, Spawns
    <3>2. dispatcher.task # "none"  BY <3>1, DelegationAssumption
    <3>. QED  BY <1>0, <2>1, <2>6, <3>2, LaidOut DEF DelegationTypeOK
  <2>10. \A q \in bound : \E i \in 1..Len(tabs') : q \in tabs'[i].panes
    <3>1. \A i \in 1..Len(tabs) : i \in 1..Len(tabs')  BY <2>13, <2>14
    <3>2. \A i \in 1..Len(tabs) : tabs[i].panes \subseteq tabs'[i].panes  BY <2>2 DEF Extended
    <3>. QED  BY <1>0, <3>1, <3>2, LaidOut
  <2>11. tabs' # << >>
    <3>1. Len(tabs') > 0  BY <2>4
    <3>. QED  BY <3>1
  <2>. QED  BY <2>1, <2>4, <2>7, <2>8, <2>9, <2>10, <2>11 DEF Laid
<1>2. ASSUME NEW p \in 1..MaxPane, PaneCloses(p)
      PROVE  Laid'
  <2>1. PICK k \in 1..Len(tabs) : Shortened(k, p)
    <3>1. p \in Open  BY <1>2 DEF PaneCloses
    <3>2. TabOf(p) \in 1..Len(tabs)  BY <1>0, <3>1, Tabs, TabHolds DEF Open
    <3>. QED  BY <1>0, <1>2, <3>2, ClosesOne DEF PaneCloses
  <2>2. bound' = bound \ {p} /\ roles' = roles  BY <1>2 DEF PaneCloses
  <2>3. Len(tabs') \in Nat /\ DOMAIN tabs' = 1..Len(tabs') /\ Len(tabs) \in Nat /\ Len(tabs) > 0
    BY <1>0, <2>1, LaidOut DEF Shortened
  <2>4. \A i \in 1..Len(tabs') : Before(k, i) \in 1..Len(tabs)
    BY <2>1, <2>3 DEF Shortened, Before
  <2>5. \A i, j \in 1..Len(tabs') : Before(k, i) = Before(k, j) => i = j
    BY <2>1, <2>3 DEF Shortened, Before
  <2>6. \A i \in 1..Len(tabs) : (Len(tabs') < Len(tabs) /\ i = k) \/ \E j \in 1..Len(tabs') : Before(k, j) = i
    <3> TAKE i \in 1..Len(tabs)
    <3>1. CASE Len(tabs') < Len(tabs) /\ i > k
      <4>1. i - 1 \in 1..Len(tabs') /\ Before(k, i - 1) = i  BY <2>1, <2>3, <3>1 DEF Shortened, Before
      <4>. QED  BY <4>1
    <3>2. CASE Len(tabs') = Len(tabs) \/ i < k
      <4>1. i \in 1..Len(tabs') /\ Before(k, i) = i  BY <2>1, <2>3, <3>2 DEF Shortened, Before
      <4>. QED  BY <4>1
    <3>. QED  BY <2>1, <2>3, <3>1, <3>2 DEF Shortened
  <2>7. \A i \in 1..Len(tabs') : tabs'[i].panes # {}
    <3> TAKE i \in 1..Len(tabs')
    <3>1. tabs'[i].panes = tabs[Before(k, i)].panes \ {p} /\ tabs[Before(k, i)].panes # {}
      BY <1>0, <2>1, <2>4, LaidOut DEF Shortened
    <3>2. SUFFICES tabs[Before(k, i)].panes # {p}  BY <3>1
    <3>3. CASE Len(tabs') < Len(tabs)
      <4>1. Before(k, i) # k  BY <2>1, <2>3, <3>3 DEF Before
      <4>. QED  BY <1>0, <2>1, <2>4, <4>1, LaidOut DEF Shortened
    <3>4. CASE ~(Len(tabs') < Len(tabs))
      <4>1. tabs[k].panes # {p} /\ p \in tabs[k].panes  BY <2>1, <3>4 DEF Shortened
      <4>. QED  BY <1>0, <2>1, <2>4, <4>1, LaidOut
    <3>. QED  BY <3>3, <3>4
  <2>12. \A i \in 1..Len(tabs') : tabs'[i].panes \subseteq tabs[Before(k, i)].panes  BY <2>1 DEF Shortened
  <2>8. \A i, j \in 1..Len(tabs') : \A q \in tabs'[i].panes : q \in tabs'[j].panes => i = j
    <3> TAKE i, j \in 1..Len(tabs')
    <3> TAKE q \in tabs'[i].panes
    <3> HAVE q \in tabs'[j].panes
    <3>1. Before(k, i) = Before(k, j)  BY <1>0, <2>4, <2>12, LaidOut
    <3>. QED  BY <2>5, <3>1
  <2>9. \A i \in 1..Len(tabs') : \A q \in tabs'[i].panes : roles[q] # "none"
    BY <1>0, <2>4, <2>12, LaidOut
  <2>10. \A q \in bound \ {p} : \E i \in 1..Len(tabs') : q \in tabs'[i].panes
    <3> TAKE q \in bound \ {p}
    <3>1. PICK i \in 1..Len(tabs) : q \in tabs[i].panes  BY <1>0, LaidOut
    <3>2. ~(Len(tabs') < Len(tabs) /\ i = k)  BY <2>1, <3>1 DEF Shortened
    <3>3. PICK j \in 1..Len(tabs') : Before(k, j) = i  BY <2>6, <3>2
    <3>. QED  BY <2>1, <3>1, <3>3 DEF Shortened
  <2>11. tabs' # << >>
    <3>1. Caller \in 1..Len(tabs) /\ (Len(tabs') < Len(tabs) => k # Caller)  BY <2>1, <2>3 DEF Shortened, Caller
    <3>2. \E j \in 1..Len(tabs') : Before(k, j) = Caller  BY <2>6, <3>1
    <3>. QED  BY <2>3, <3>2
  <2>. QED  BY <2>2, <2>3, <2>7, <2>8, <2>9, <2>10, <2>11 DEF Laid
<1>3. ASSUME NEW t \in Tasks, Binds(t)
      PROVE  Laid'
  <2>1. PICK p \in Open : bound' = bound \cup {p}  BY <1>3 DEF Binds
  <2>2. UNCHANGED <<tabs, roles>>  BY <1>3 DEF Binds
  <2>3. \E k \in DOMAIN tabs : p \in tabs[k].panes  BY <1>0, <2>1 DEF Open
  <2>. QED  BY <1>0, <2>1, <2>2, <2>3 DEF Laid
<1>4. CASE UNCHANGED <<tabs, roles, bound>>  BY <1>0, <1>4 DEF Laid
<1>. QED
  BY <1>1, <1>2, <1>3, <1>4 DEF DelegationNext, CapturesPanes, CapturesPeers, Plans, SpawnFails, BindLost,
     Monitors, Approves, DelegationTick, delegationVars

-----------------------------------------------------------------------------
(* A worker's place is reserved until it is seen.                            *)

\* The steps of the dispatcher's recipes end by their deadlines.
LEMMA InTime ==
    ASSUME DelegationTypeOK, NEW t \in Tasks, Underway(t), job[t].pc \in {"planned", "approving", "binding"}
    PROVE  seed[t].status = "planned" /\ clock - seed[t].at <= Window
<1>1. clock \in Nat /\ job[t].until \in Nat /\ seed[t].at \in Nat  BY DEF DelegationTypeOK, Job, Seed
<1>2. Allowance(job[t].pc) \in Nat /\ Allowance(job[t].pc) <= Window  BY Times DEF Allowance
<1>3. Window \in Nat  BY Times
<1>4. seed[t].status = "planned" /\ clock <= job[t].until /\ job[t].until <= seed[t].at + Allowance(job[t].pc)
  BY DEF Underway
<1>. QED  BY <1>1, <1>2, <1>3, <1>4

\* Whoever is neither spawned nor ends its part is as before while the files and tabs are.
LEMMA WorkerKept ==
    ASSUME NEW t \in Tasks, Worker(t), job'[t] = job[t], seed'[t] = seed[t], t \in instr' => t \in instr,
           clock' = clock, UNCHANGED <<org, tabs, roles>>, bound \subseteq bound',
           dispatcher'.pc \notin {"panes", "peers"} \/ dispatcher' = dispatcher
    PROVE  Worker(t)'
<1>1. t \in Alive' <=> t \in Alive  BY DEF Alive
<1>2. Underway(t)'  BY DEF Worker, Underway
<1>3. Seen(t)'  BY DEF Worker, Seen
<1>4. Retried(t)'  BY DEF Worker, Retried
<1>5. Within(t)'  BY <1>1 DEF Worker, Within
<1>6. Counted(t)'  BY <1>1 DEF Worker, Counted
<1>. QED  BY <1>2, <1>3, <1>4, <1>5, <1>6 DEF Worker

LEMMA WorkerCaptured ==
    ASSUME DelegationInv, NEW t \in Tasks, CapturesPanes \/ CapturesPeers
    PROVE  Worker(t)'
<1>0. DelegationTypeOK /\ Laid /\ Worker(t)  BY DEF DelegationInv
<1>1. UNCHANGED <<org, tabs, roles, bound, seed, instr, job, clock>>  BY DEF CapturesPanes, CapturesPeers
<1>2. t \in Alive' <=> t \in Alive  BY <1>1 DEF Alive
<1>3. Underway(t)' /\ Seen(t)' /\ Retried(t)' /\ Within(t)'
  BY <1>0, <1>1, <1>2 DEF Worker, Underway, Seen, Retried, Within
<1>4. CASE CapturesPanes
  <2>1. dispatcher'.pc = "panes" /\ dispatcher'.panes = ListPanes
    BY <1>0, <1>4 DEF CapturesPanes, DelegationTypeOK, Dispatcher
  <2>2. ASSUME org.transport = "broker", t \in Alive
        PROVE  \E e \in ListPanes : e.role = t
    <3>1. PICK p \in tabs[Caller].panes : roles[p] = t  BY <1>0, <2>2 DEF Worker, Within
    <3>2. [id |-> p, role |-> roles[p]] \in ListPanes  BY DEF ListPanes
    <3>. QED  BY <3>1, <3>2
  <2>3. Counted(t)'  BY <1>1, <1>2, <2>1, <2>2 DEF Counted
  <2>. QED  BY <1>3, <2>3 DEF Worker
<1>5. CASE CapturesPeers
  <2>1. dispatcher.pc = "panes" /\ dispatcher'.panes = dispatcher.panes /\ dispatcher'.peers = ListPeers
    BY <1>0, <1>5 DEF CapturesPeers, DelegationTypeOK, Dispatcher
  <2>2. ASSUME t \in Alive
        PROVE  (\E e \in ListPeers : e.role = t) \/ (seed[t].status = "planned" /\ clock - seed[t].at <= Window)
    <3>1. CASE job[t].pc = "running"
      <4>1. PICK p \in bound : roles[p] = t  BY <1>0, <3>1 DEF Worker, Seen
      <4>2. [id |-> p, role |-> roles[p], index |-> TabOf(p), name |-> tabs[TabOf(p)].name,
             here |-> TabOf(p) = Caller] \in ListPeers
        BY <4>1, Zenon DEF ListPeers
      <4>. QED  BY <4>1, <4>2
    <3>2. CASE job[t].pc \in {"approving", "binding"}  BY <1>0, <3>2, InTime DEF Worker
    <3>. QED  BY <2>2, <3>1, <3>2 DEF Alive
  <2>3. Counted(t)'
    BY <1>0, <1>1, <1>2, <2>1, <2>2 DEF Worker, Counted
  <2>. QED  BY <1>3, <2>3 DEF Worker
<1>. QED  BY <1>4, <1>5

LEMMA WorkerPlanned ==
    ASSUME DelegationInv, NEW t \in Tasks, NEW u \in Tasks, NEW req, NEW whole, Plans(u, req, whole)
    PROVE  Worker(t)'
<1>0. DelegationTypeOK /\ Laid /\ Worker(t)  BY DEF DelegationInv
<1>1. UNCHANGED <<org, tabs, roles, bound, clock>> /\ dispatcher'.pc \in {"idle", "spawn"}
  BY <1>0 DEF Plans, Idle, DelegationTypeOK, Dispatcher
<1>2. CASE job' = job /\ seed' = seed /\ instr' = instr  BY <1>0, <1>1, <1>2, WorkerKept
<1>3. CASE t # u
  <2>1. job'[t] = job[t] /\ seed'[t] = seed[t] /\ (t \in instr' => t \in instr)
    BY <1>0, <1>3 DEF Plans, DelegationTypeOK
  <2>. QED  BY <1>0, <1>1, <2>1, WorkerKept
<1>4. CASE t = u /\ ~(job' = job /\ seed' = seed /\ instr' = instr)
  <2>1. /\ seed'[t] = [status |-> "planned", at |-> clock]
        /\ job'[t] \in {[pc |-> "planned", until |-> clock + Headroom], [pc |-> "none", until |-> 0]}
    BY <1>0, <1>4 DEF Plans, DelegationTypeOK
  <2>2. clock \in Nat /\ clock + Headroom \in Nat /\ clock <= clock + Headroom /\ Allowance("planned") = Headroom
    BY <1>0, Times DEF DelegationTypeOK, Allowance
  <2>3. Underway(t)'  BY <1>1, <2>1, <2>2 DEF Underway
  <2>4. t \notin Alive'  BY <2>1 DEF Alive
  <2>5. Seen(t)' /\ Retried(t)' /\ Within(t)' /\ Counted(t)'  BY <2>1, <2>4 DEF Seen, Retried, Within, Counted
  <2>. QED  BY <2>3, <2>5 DEF Worker
<1>. QED  BY <1>2, <1>3, <1>4

LEMMA WorkerSpawned ==
    ASSUME DelegationInv, NEW t \in Tasks, Spawns
    PROVE  Worker(t)'
<1> DEFINE u == dispatcher.task
           p == NextPane
<1>0. DelegationTypeOK /\ Laid /\ Worker(t) /\ Directed  BY DEF DelegationInv
<1>1. UNCHANGED <<org, bound, seed, instr, clock>> /\ dispatcher'.pc = "idle"  BY DEF Spawns, Idle
<1>2. u \in Tasks /\ job[u].pc = "planned" /\ (org.transport = "broker" => dispatcher.place.kind = "caller")
  BY <1>0 DEF Directed, Spawns
<1>3. p \in 1..MaxPane /\ roles[p] = "none" /\ Opens(p, dispatcher.place) /\ roles' = [roles EXCEPT ![p] = u]
      /\ job' = [job EXCEPT ![u] = [pc |-> "approving", until |-> clock + Approval]]
  BY <1>0, NextPaneIsFree DEF Spawns
<1> HIDE DEF u, p
<1>4. PICK k \in 1..Len(tabs') : Extended(k, p) /\ (dispatcher.place.kind = "caller" => k = Caller)
  BY <1>0, <1>3, OpensOne
<1>5. Caller \in 1..Len(tabs)  BY <1>0, LaidOut
<1>6. tabs'[Caller].panes = IF Caller = k THEN tabs[Caller].panes \cup {p} ELSE tabs[Caller].panes
  BY <1>4, <1>5 DEF Extended
<1>7. roles'[p] = u /\ \A q \in 1..MaxPane : roles[q] # "none" => roles'[q] = roles[q]
  BY <1>0, <1>3 DEF DelegationTypeOK
<1>8. t # "none"  BY DelegationAssumption
<1>9. CASE t # u
  <2>1. job'[t] = job[t]  BY <1>0, <1>3, <1>9 DEF DelegationTypeOK
  <2>2. t \in Alive' <=> t \in Alive  BY <2>1 DEF Alive
  <2>3. Underway(t)' /\ Retried(t)' /\ Counted(t)'
    BY <1>0, <1>1, <2>1 DEF Worker, Underway, Retried, Counted
  <2>4. Seen(t)'
    <3>1. \A q \in bound : q \in 1..MaxPane  BY <1>0 DEF DelegationTypeOK
    <3>. QED  BY <1>0, <1>1, <1>7, <1>8, <2>1, <3>1 DEF Worker, Seen
  <2>5. Within(t)'
    <3>1. \A q \in tabs[Caller].panes : q \in 1..MaxPane /\ roles[q] # "none" /\ q \in tabs'[Caller].panes
      BY <1>0, <1>5, <1>6, LaidOut
    <3>. QED  BY <1>0, <1>1, <1>7, <2>2, <3>1 DEF Worker, Within
  <2>. QED  BY <2>3, <2>4, <2>5 DEF Worker
<1>10. CASE t = u
  <2>1. job'[t] = [pc |-> "approving", until |-> clock + Approval]  BY <1>0, <1>2, <1>3, <1>10 DEF DelegationTypeOK
  <2>2. /\ clock \in Nat /\ job[t].until \in Nat /\ seed[t].at \in Nat /\ seed[t].status = "planned"
        /\ clock <= job[t].until /\ job[t].until <= seed[t].at + Headroom
    BY <1>0, <1>2, <1>10 DEF DelegationTypeOK, Job, Seed, Worker, Underway, Allowance
  <2>3. Allowance("approving") = Headroom + Approval  BY DEF Allowance
  <2>7. clock <= clock + Approval /\ clock + Approval <= seed[t].at + (Headroom + Approval)
    <3>1. Approval \in Nat /\ Headroom \in Nat  BY Times
    <3>. QED  BY <2>2, <3>1
  <2>4. Underway(t)'  BY <1>1, <2>1, <2>2, <2>3, <2>7 DEF Underway
  <2>5. Seen(t)' /\ Retried(t)' /\ Counted(t)'  BY <1>1, <2>1 DEF Seen, Retried, Counted
  <2>6. Within(t)'  BY <1>1, <1>2, <1>4, <1>6, <1>7, <1>10 DEF Within
  <2>. QED  BY <2>4, <2>5, <2>6 DEF Worker
<1>. QED  BY <1>9, <1>10

LEMMA WorkerRefused ==
    ASSUME DelegationInv, NEW t \in Tasks, NEW error \in RecoveredErrors, SpawnFails(error)
    PROVE  Worker(t)'
<1> DEFINE u == dispatcher.task
<1>0. DelegationTypeOK /\ Laid /\ Worker(t) /\ Directed  BY DEF DelegationInv
<1>1. UNCHANGED <<org, tabs, roles, bound, clock>> /\ dispatcher'.pc = "idle"  BY DEF SpawnFails, Idle
<1>2. u \in Tasks  BY <1>0 DEF Directed, SpawnFails
<1>3. CASE t # u
  <2>1. job'[t] = job[t] /\ seed'[t] = seed[t] /\ (t \in instr' => t \in instr)
    BY <1>0, <1>3 DEF SpawnFails, DelegationTypeOK
  <2>. QED  BY <1>0, <1>1, <2>1, WorkerKept
<1>4. CASE t = u
  <2>1. job'[t].pc = IF dispatcher.place.selector # NoTab THEN "refused" ELSE "none"
    BY <1>0, <1>4 DEF SpawnFails, DelegationTypeOK
  <2>2. dispatcher.place.selector # NoTab => seed'[t] = NoSeed /\ t \notin instr'
    BY <1>0, <1>4 DEF SpawnFails, DelegationTypeOK, Recovers
  <2>3. t \notin Alive' /\ Underway(t)' /\ Seen(t)' /\ Retried(t)'
    BY <2>1, <2>2 DEF Alive, Underway, Seen, Retried
  <2>. QED  BY <2>3 DEF Worker, Within, Counted
<1>. QED  BY <1>3, <1>4

LEMMA WorkerGoesOn ==
    ASSUME DelegationInv, NEW t \in Tasks, NEW u \in Tasks,
           Binds(u) \/ BindLost(u) \/ Monitors(u) \/ \E ok \in BOOLEAN : Approves(u, ok)
    PROVE  Worker(t)'
<1>0. DelegationTypeOK /\ Laid /\ Worker(t)  BY DEF DelegationInv
<1>1. UNCHANGED <<org, tabs, roles, instr, dispatcher, clock>> /\ bound \subseteq bound'
  BY DEF Binds, BindLost, Monitors, Approves
<1>2. CASE t # u
  <2>1. job'[t] = job[t] /\ seed'[t] = seed[t]
    BY <1>0, <1>2 DEF Binds, BindLost, Monitors, Approves, DelegationTypeOK
  <2>. QED  BY <1>0, <1>1, <2>1, WorkerKept
<1>3. CASE t = u /\ Binds(u)
  <2>1. job[t].pc = "binding" /\ job'[t] = [pc |-> "running", until |-> 0] /\ seed' = seed
        /\ \E p \in bound' : roles[p] = t
    BY <1>0, <1>3 DEF Binds, DelegationTypeOK
  <2>2. t \in Alive /\ t \in Alive'  BY <2>1 DEF Alive
  <2>3. Underway(t)' /\ Seen(t)' /\ Retried(t)'  BY <1>1, <2>1 DEF Underway, Seen, Retried
  <2>4. Within(t)' /\ Counted(t)'  BY <1>0, <1>1, <2>1, <2>2 DEF Worker, Within, Counted
  <2>. QED  BY <2>3, <2>4 DEF Worker
<1>4. CASE t = u /\ BindLost(u)
  <2>1. job'[t].pc = "stuck"  BY <1>0, <1>4 DEF BindLost, DelegationTypeOK
  <2>2. t \notin Alive'  BY <2>1 DEF Alive
  <2>. QED  BY <2>1, <2>2 DEF Worker, Underway, Seen, Retried, Within, Counted
<1>5. CASE t = u /\ Monitors(u)
  <2>1. dispatcher.pc = "idle" /\ job' = job /\ bound' = bound /\ job[t].pc \in {"running", "over"}
    BY <1>5 DEF Monitors
  <2>2. t \in Alive' <=> t \in Alive  BY <2>1 DEF Alive
  <2>. QED
    BY <1>0, <1>1, <2>1, <2>2 DEF Worker, Underway, Seen, Retried, Within, Counted
<1>6. ASSUME NEW ok \in BOOLEAN, t = u, Approves(u, ok)
      PROVE  Worker(t)'
  <2>1. job[t].pc = "approving" /\ seed' = seed /\ bound' = bound  BY <1>6 DEF Approves
  <2>2. CASE ok
    <3>1. job'[t] = [pc |-> "binding", until |-> clock + Bind]
      BY <1>0, <1>6, <2>2 DEF Approves, DelegationTypeOK
    <3>2. Allowance("approving") = Headroom + Approval /\ Allowance("binding") = Window  BY DEF Allowance
    <3>3. /\ clock \in Nat /\ job[t].until \in Nat /\ seed[t].at \in Nat /\ seed[t].status = "planned"
          /\ clock <= job[t].until /\ job[t].until <= seed[t].at + (Headroom + Approval)
      BY <1>0, <2>1, <3>2 DEF DelegationTypeOK, Job, Seed, Worker, Underway
    <3>4. clock <= clock + Bind /\ clock + Bind <= seed[t].at + Window  BY <3>3, Times
    <3>5. Underway(t)'  BY <1>1, <2>1, <3>1, <3>2, <3>3, <3>4 DEF Underway
    <3>6. t \in Alive /\ t \in Alive'  BY <2>1, <3>1 DEF Alive
    <3>7. Seen(t)' /\ Retried(t)'  BY <3>1 DEF Seen, Retried
    <3>8. Within(t)' /\ Counted(t)'  BY <1>0, <1>1, <2>1, <3>6 DEF Worker, Within, Counted
    <3>. QED  BY <3>5, <3>7, <3>8 DEF Worker
  <2>3. CASE ~ok
    <3>1. job'[t].pc = "stuck"  BY <1>0, <1>6, <2>3 DEF Approves, DelegationTypeOK
    <3>2. t \notin Alive'  BY <3>1 DEF Alive
    <3>. QED  BY <3>1, <3>2 DEF Worker, Underway, Seen, Retried, Within, Counted
  <2>. QED  BY <2>2, <2>3
<1>. QED  BY <1>2, <1>3, <1>4, <1>5, <1>6

LEMMA WorkerCloses ==
    ASSUME DelegationInv, NEW t \in Tasks, NEW p \in 1..MaxPane, PaneCloses(p)
    PROVE  Worker(t)'
<1>0. DelegationTypeOK /\ Laid /\ Worker(t)  BY DEF DelegationInv
<1>1. UNCHANGED <<org, roles, seed, instr, dispatcher, clock>> /\ bound' = bound \ {p}  BY DEF PaneCloses
<1>2. CASE t = roles[p]
  <2>1. job'[t].pc = "over"  BY <1>0, <1>2 DEF PaneCloses, DelegationTypeOK
  <2>2. t \notin Alive'  BY <2>1 DEF Alive
  <2>. QED  BY <2>1, <2>2 DEF Worker, Underway, Seen, Retried, Within, Counted
<1>3. CASE t # roles[p]
  <2>1. job'[t] = job[t]  BY <1>0, <1>3 DEF PaneCloses, DelegationTypeOK
  <2>2. t \in Alive' <=> t \in Alive  BY <2>1 DEF Alive
  <2>3. Underway(t)' /\ Retried(t)' /\ Counted(t)'
    BY <1>0, <1>1, <2>1, <2>2 DEF Worker, Underway, Retried, Counted
  <2>4. Seen(t)'  BY <1>0, <1>1, <1>3, <2>1 DEF Worker, Seen
  <2>5. Within(t)'
    <3>1. p \in Open  BY DEF PaneCloses
    <3>2. TabOf(p) \in 1..Len(tabs)  BY <1>0, <3>1, Tabs, TabHolds DEF Open
    <3>3. Shortened(TabOf(p), p)  BY <1>0, ClosesOne DEF PaneCloses
    <3>4. tabs'[Caller].panes = tabs[Caller].panes \ {p}
      <4>1. Len(tabs') \in Nat /\ Len(tabs) \in Nat /\ Caller \in 1..Len(tabs)
        BY <1>0, <3>3, LaidOut DEF Shortened
      <4>2. Caller \in 1..Len(tabs') /\ Before(TabOf(p), Caller) = Caller
        BY <3>2, <3>3, <4>1 DEF Shortened, Before, Caller
      <4>. QED  BY <3>3, <4>2 DEF Shortened
    <3>. QED  BY <1>0, <1>1, <1>3, <2>2, <3>4 DEF Worker, Within
  <2>. QED  BY <2>3, <2>4, <2>5 DEF Worker
<1>. QED  BY <1>2, <1>3

LEMMA WorkerTicks ==
    ASSUME DelegationInv, NEW t \in Tasks, DelegationTick
    PROVE  Worker(t)'
<1>0. DelegationTypeOK /\ Worker(t)  BY DEF DelegationInv
<1>1. UNCHANGED <<org, tabs, roles, bound, seed, instr, dispatcher, job>> /\ dispatcher.pc # "peers"
  BY DEF DelegationTick
<1>2. t \in Alive' <=> t \in Alive  BY <1>1 DEF Alive
<1>3. Underway(t)'
  <2>1. clock \in Nat /\ job[t].until \in Nat /\ clock' = clock + 1
    BY <1>0 DEF DelegationTick, DelegationTypeOK, Job
  <2>2. job[t].pc \in {"planned", "approving", "binding"} => clock < job[t].until  BY DEF DelegationTick
  <2>3. job[t].pc \in {"planned", "approving", "binding"} => clock + 1 <= job[t].until  BY <2>1, <2>2
  <2>. QED  BY <1>0, <1>1, <2>1, <2>3 DEF Worker, Underway
<1>4. Seen(t)' /\ Retried(t)' /\ Within(t)' /\ Counted(t)'
  BY <1>0, <1>1, <1>2 DEF Worker, Seen, Retried, Within, Counted
<1>. QED  BY <1>3, <1>4 DEF Worker

LEMMA WorkerStep ==
    ASSUME DelegationInv, [DelegationNext]_delegationVars, NEW t \in Tasks
    PROVE  Worker(t)'
<1>1. CASE UNCHANGED delegationVars
  <2>1. Worker(t)  BY DEF DelegationInv
  <2>. QED  BY <1>1, <2>1, WorkerKept DEF delegationVars
<1>2. CASE DelegationNext
  BY <1>2, WorkerCaptured, WorkerPlanned, WorkerSpawned, WorkerRefused, WorkerGoesOn, WorkerCloses, WorkerTicks
     DEF DelegationNext
<1>. QED  BY <1>1, <1>2

-----------------------------------------------------------------------------
(* A pane that was seen stays in its tab, and a plan names one.              *)

LEMMA FollowedStep ==
    ASSUME DelegationInv, [DelegationNext]_delegationVars
    PROVE  Followed'
<1>0. DelegationTypeOK /\ Laid /\ Followed  BY DEF DelegationInv
<1>t. Len(tabs) \in Nat /\ DOMAIN tabs = 1..Len(tabs)  BY <1>0, Tabs
<1>1. CASE CapturesPeers
  <2>1. tabs' = tabs /\ dispatcher'.seen = tabs /\ dispatcher'.peers = ListPeers
    BY <1>0, <1>1 DEF CapturesPeers, DelegationTypeOK, Dispatcher
  <2>2. \A k, j \in DOMAIN tabs : \A p \in tabs[k].panes : p \in tabs[j].panes => k = j  BY <1>0, Tabs, LaidOut
  <2>. QED  BY <1>0, <2>1, <2>2, Snapshots DEF Followed
<1>2. CASE CapturesPanes \/ Spawns \/ \E error \in RecoveredErrors : SpawnFails(error)
  <2>1. dispatcher'.pc \in {"panes", "idle"}
    <3>1. CASE CapturesPanes  BY <1>0, <3>1 DEF CapturesPanes, DelegationTypeOK, Dispatcher
    <3>2. CASE ~CapturesPanes  BY <1>2, <3>2 DEF Spawns, SpawnFails, Idle
    <3>. QED  BY <3>1, <3>2
  <2>. QED  BY <2>1 DEF Followed
<1>3. ASSUME NEW t \in Tasks, NEW req \in Requests, NEW whole \in BOOLEAN, Plans(t, req, whole)
      PROVE  Followed'
  <2>1. tabs' = tabs /\ dispatcher.pc = "peers"  BY <1>3 DEF Plans
  <2>2. \/ dispatcher'.pc = "idle"
        \/ dispatcher'.seen = dispatcher.seen /\ dispatcher'.peers = dispatcher.peers
    BY <1>0, <1>3 DEF Plans, Idle, DelegationTypeOK, Dispatcher
  <2>. QED  BY <1>0, <2>1, <2>2 DEF Followed
<1>4. ASSUME NEW p \in 1..MaxPane, PaneCloses(p)
      PROVE  Followed'
  <2>1. p \in Open /\ dispatcher' = dispatcher  BY <1>4 DEF PaneCloses
  <2>2. PICK k \in 1..Len(tabs) : Shortened(k, p)
    <3>1. TabOf(p) \in 1..Len(tabs)  BY <1>0, <2>1, Tabs, TabHolds DEF Open
    <3>. QED  BY <1>0, <1>4, <3>1, ClosesOne DEF PaneCloses
  <2>3. Len(tabs') \in Nat /\ DOMAIN tabs' = 1..Len(tabs') /\ Len(tabs) \in Nat
    BY <1>0, <2>2, LaidOut DEF Shortened
  <2>4. \A i \in 1..Len(tabs') : Before(k, i) \in 1..Len(tabs)  BY <2>2, <2>3 DEF Shortened, Before
  <2>5. \A i \in 1..Len(tabs') : tabs'[i].id = tabs[Before(k, i)].id /\ tabs'[i].panes \subseteq tabs[Before(k, i)].panes
    BY <2>2 DEF Shortened
  <2>. QED  BY <1>0, <1>t, <2>1, <2>3, <2>4, <2>5 DEF Followed
<1>5. CASE UNCHANGED <<tabs, dispatcher>>  BY <1>0, <1>5 DEF Followed
<1>. QED
  BY <1>1, <1>2, <1>3, <1>4, <1>5 DEF DelegationNext, Binds, BindLost, Monitors, Approves, DelegationTick,
     delegationVars

\* An index that some peer is seen under is translated into a pane of that tab.
LEMMA IndexBecomesPane ==
    ASSUME NEW t, NEW req \in Requests, NEW panes, NEW index, NEW peers, NEW q \in peers,
           \A e \in peers : e.id \in Nat,
           BuildPlan(t, req, panes, peers).status = "ready_to_spawn",
           org.transport # "broker", req.peers, req.tab.kind = "index", req.tab.value = index, q.index = index
    PROVE  /\ BuildPlan(t, req, panes, peers).place.kind = "existing"
           /\ BuildPlan(t, req, panes, peers).place.selector.kind = "pane"
           /\ \E e \in peers : e.index = index /\ BuildPlan(t, req, panes, peers).place.selector.value = e.id
<1> DEFINE callerIds == {p.id : p \in panes}
           entry(i) == [index |-> i, here |-> \E e \in {x \in peers : x.index = i} : e.here,
                        ids |-> {e.id : e \in {x \in peers : x.index = i}}]
           known == {c \in Census(peers) : c.index = index}
           target == CHOOSE c \in known : TRUE
           place == ResolveTab(req, Census(peers), callerIds)
           least == Place("existing", [kind |-> "pane", value |-> Min(target.ids)], "none")
<1>1. RengaPlan(req, panes, peers) = BuildPlan(t, req, panes, peers)  BY DEF BuildPlan, Invalid, Outcome
<1>2. req.tab # NoTab  BY DEF NoTab
<1>3. target \in known
  <2>1. entry(index) \in Census(peers)  BY Zenon DEF Census
  <2>2. entry(index).index = index  OBVIOUS
  <2>. QED  BY <2>1, <2>2
<1>4. /\ target.ids \in SUBSET Nat /\ target.ids # {}
      /\ \A i \in target.ids : \E e \in peers : e.index = index /\ e.id = i
  <2>1. PICK i \in {e.index : e \in peers} : target = entry(i)  BY <1>3, Zenon DEF Census
  <2>2. i = index  BY <1>3, <2>1
  <2>3. entry(index).ids = {e.id : e \in {x \in peers : x.index = index}}  OBVIOUS
  <2>4. target.ids = {e.id : e \in {x \in peers : x.index = index}}
    <3> HIDE DEF entry, target
    <3>. QED  BY <2>1, <2>2, <2>3
  <2> HIDE DEF target
  <2>. QED  BY <2>4
<1>5. Min(target.ids) \in target.ids  BY <1>4, Least
<1>6. place \in {Place("caller", NoTab, "server_too_old"), Place("existing", NoTab, "target_tab_mismatch"), least}
  <2> HIDE DEF target
  <2>1. ResolveExisting(req.tab, Census(peers), callerIds)
          \in {Place("existing", NoTab, "target_tab_mismatch"), least}
    BY <1>3 DEF ResolveExisting, target
  <2>. QED  BY <1>2, <2>1 DEF ResolveTab
<1> HIDE DEF place, target
<1>7. place = least /\ BuildPlan(t, req, panes, peers) = Ready(least)
  BY <1>1, <1>2, <1>6 DEF RengaPlan, Place, Ready, Invalid, Outcome, place
<1>. QED  BY <1>4, <1>5, <1>7 DEF Ready, Outcome, Place

LEMMA DirectedStep ==
    ASSUME DelegationInv, [DelegationNext]_delegationVars
    PROVE  Directed'
<1>0. DelegationTypeOK /\ Laid /\ Directed /\ Followed  BY DEF DelegationInv
<1>1. CASE CapturesPanes \/ CapturesPeers
  <2>1. dispatcher'.pc # "spawn"
    BY <1>0, <1>1 DEF CapturesPanes, CapturesPeers, DelegationTypeOK, Dispatcher
  <2>. QED  BY <2>1 DEF Directed
<1>2. CASE Spawns \/ \E error \in RecoveredErrors : SpawnFails(error)
  <2>1. dispatcher'.pc = "idle"  BY <1>2 DEF Spawns, SpawnFails, Idle
  <2>. QED  BY <2>1 DEF Directed
<1>3. ASSUME NEW t \in Tasks, NEW req \in Requests, NEW whole \in BOOLEAN, Plans(t, req, whole)
      PROVE  Directed'
  <2> DEFINE plan == BuildPlan(t, req, dispatcher.panes, dispatcher.peers)
  <2>1. SUFFICES ASSUME dispatcher'.pc = "spawn" PROVE Directed'  BY DEF Directed
  <2>2. /\ plan.status = "ready_to_spawn" /\ whole /\ dispatcher.pc = "peers" /\ UNCHANGED org
        /\ dispatcher' = [dispatcher EXCEPT !.pc = "spawn", !.task = t, !.req = req, !.place = plan.place]
        /\ job' = [job EXCEPT ![t] = [pc |-> "planned", until |-> clock + Headroom]]
    BY <1>3, <2>1 DEF Plans, Idle
  <2> HIDE DEF plan
  <2>3. /\ dispatcher'.task = t /\ dispatcher'.req = req /\ dispatcher'.place = plan.place
        /\ dispatcher'.peers = dispatcher.peers /\ dispatcher'.seen = dispatcher.seen
        /\ job'[t].pc = "planned"
    BY <1>0, <2>2 DEF DelegationTypeOK, Dispatcher
  <2>4. org.transport = "broker" => plan.place.kind = "caller"  BY <2>2, PlansAreBounded DEF plan
  <2>5. ASSUME org.transport # "broker", req.tab.kind = "index", req.peers,
               NEW q \in dispatcher.peers, q.index = req.tab.value
        PROVE  /\ plan.place.kind = "existing" /\ plan.place.selector.kind = "pane"
               /\ plan.place.selector.value \in dispatcher.seen[req.tab.value].panes
    <3>1. \A e \in dispatcher.peers : e.id \in Nat
      BY <1>0, Times DEF DelegationTypeOK, Dispatcher, PeerSeen
    <3>2. /\ plan.place.kind = "existing" /\ plan.place.selector.kind = "pane"
          /\ \E e \in dispatcher.peers : e.index = req.tab.value /\ plan.place.selector.value = e.id
      BY <2>2, <2>5, <3>1, IndexBecomesPane DEF plan
    <3>3. \A e \in dispatcher.peers : e.id \in dispatcher.seen[e.index].panes  BY <1>0, <2>2 DEF Followed
    <3>. QED  BY <3>2, <3>3
  <2>. QED  BY <2>2, <2>3, <2>4, <2>5 DEF Directed
<1>4. CASE UNCHANGED <<org, job, dispatcher>>  BY <1>0, <1>4 DEF Directed
<1>5. ASSUME NEW u \in Tasks, job[u].pc # "planned", UNCHANGED <<org, dispatcher>>,
             \E new : job' = [job EXCEPT ![u] = new]
      PROVE  Directed'
  <2>1. dispatcher.pc = "spawn" => dispatcher.task \in Tasks /\ dispatcher.task # u  BY <1>0, <1>5 DEF Directed
  <2>2. dispatcher.pc = "spawn" => job'[dispatcher.task] = job[dispatcher.task]
    BY <1>0, <1>5, <2>1 DEF DelegationTypeOK
  <2>. QED  BY <1>0, <1>5, <2>2 DEF Directed
<1>6. ASSUME NEW u \in Tasks, Binds(u) \/ BindLost(u) \/ \E ok \in BOOLEAN : Approves(u, ok)
      PROVE  Directed'
  <2>1. job[u].pc # "planned" /\ UNCHANGED <<org, dispatcher>> /\ \E new : job' = [job EXCEPT ![u] = new]
    BY <1>6 DEF Binds, BindLost, Approves
  <2>. QED  BY <1>5, <2>1
<1>7. ASSUME NEW p \in 1..MaxPane, PaneCloses(p)
      PROVE  Directed'
  <2>1. UNCHANGED <<org, dispatcher>>  BY <1>7 DEF PaneCloses
  <2>2. CASE roles[p] \in Tasks
    <3>1. job[roles[p]].pc # "planned" /\ \E new : job' = [job EXCEPT ![roles[p]] = new]
      BY <1>7, <2>2 DEF PaneCloses
    <3>. QED  BY <1>5, <2>1, <2>2, <3>1
  <2>3. CASE roles[p] \notin Tasks
    <3>1. job' = job  BY <1>7, <2>3 DEF PaneCloses
    <3>. QED  BY <1>4, <2>1, <3>1
  <2>. QED  BY <2>2, <2>3
<1>. QED
  BY <1>1, <1>2, <1>3, <1>4, <1>6, <1>7 DEF DelegationNext, Monitors, DelegationTick, delegationVars

-----------------------------------------------------------------------------
LEMMA InitiallySound == DelegationInit => DelegationInv
<1> SUFFICES ASSUME DelegationInit PROVE DelegationInv  OBVIOUS
<1>1. PICK l \in Layouts : tabs = l.tabs /\ bound = l.peers  BY DEF DelegationInit
<1>2. /\ l.tabs \in Seq(Tab) \ {<< >>}
      /\ \A i \in DOMAIN l.tabs : l.tabs[i].panes # {}
      /\ \A i, j \in DOMAIN l.tabs : i # j => l.tabs[i].panes \cap l.tabs[j].panes = {}
      /\ l.peers \subseteq UNION {l.tabs[i].panes : i \in DOMAIN l.tabs}
  BY DelegationAssumption DEF Tab
<1>3. tabs \in Seq(Tab) /\ \A k \in DOMAIN tabs : tabs[k].panes \subseteq 1..MaxPane
  <2>1. tabs \in Seq(Tab)  BY <1>1, <1>2
  <2>2. \A k \in DOMAIN tabs : tabs[k] \in Tab  BY <2>1
  <2>. QED  BY <2>1, <2>2 DEF Tab
<1>4. bound \subseteq Open /\ Open \subseteq 1..MaxPane  BY <1>1, <1>2, <1>3 DEF Open
<1>5. roles \in [1..MaxPane -> Role] /\ \A p \in Open : roles[p] # "none"
  BY <1>4 DEF DelegationInit, Role
<1>6. DelegationTypeOK
  <2>1. NoSeed \in Seed /\ [pc |-> "none", until |-> 0] \in Job  BY DEF NoSeed, Seed, Job
  <2>. QED  BY <1>3, <1>4, <1>5, <2>1, IsIdle DEF DelegationInit, DelegationTypeOK
<1>7. Laid  BY <1>1, <1>2, <1>4, <1>5 DEF Laid, Open
<1>8. dispatcher.pc = "idle"  BY DEF DelegationInit, Idle
<1>9. ASSUME NEW t \in Tasks
      PROVE  Worker(t)
  <2>1. job[t].pc = "none" /\ t \notin Alive  BY DEF DelegationInit, Alive
  <2>. QED  BY <1>8, <2>1 DEF Worker, Underway, Seen, Retried, Within, Counted
<1>. QED  BY <1>6, <1>7, <1>8, <1>9 DEF DelegationInv, Followed, Directed

THEOREM DelegationInvariance == DelegationSpec => []DelegationInv
<1>1. DelegationInit => DelegationInv  BY InitiallySound
<1>2. DelegationInv /\ [DelegationNext]_delegationVars => DelegationInv'
  BY TypeStep, LaidStep, WorkerStep, FollowedStep, DirectedStep DEF DelegationInv
<1>. QED  BY <1>1, <1>2, PTL DEF DelegationSpec

-----------------------------------------------------------------------------
(* What the plans keep to.                                                   *)

\* Every worker alive is counted when a plan is made: seen, or still reserved by its seed.
LEMMA AliveAreCounted ==
    ASSUME DelegationInv, dispatcher.pc = "peers"
    PROVE  /\ org.transport = "broker" =>
                \A peers : Alive \subseteq Population(dispatcher.panes, peers)
           /\ Alive \subseteq Population(dispatcher.panes, dispatcher.peers)
                      \cup Reserved(Population(dispatcher.panes, dispatcher.peers))
<1>1. \A t \in Alive : t \in Tasks /\ Counted(t)  BY DEF DelegationInv, Worker, Alive
<1>2. ASSUME org.transport = "broker", NEW peers, NEW t \in Alive
      PROVE  t \in Population(dispatcher.panes, peers)
  <2>1. PICK e \in dispatcher.panes : e.role = t  BY <1>1, <1>2 DEF Counted
  <2>. QED  BY <1>1, <2>1 DEF Population
<1>3. ASSUME NEW t \in Alive, NEW counted, counted = Population(dispatcher.panes, dispatcher.peers)
      PROVE  t \in counted \cup Reserved(counted)
  <2>1. CASE \E e \in dispatcher.peers : e.role = t  BY <1>1, <1>3, <2>1 DEF Population
  <2>2. CASE seed[t].status = "planned" /\ clock - seed[t].at <= Window
    BY <1>1, <2>2 DEF Reserved
  <2>. QED  BY <1>1, <2>1, <2>2 DEF Counted
<1>. QED  BY <1>2, <1>3

LEMMA SumBounds ==
    ASSUME NEW A, NEW B \in SUBSET Tasks, NEW C \in SUBSET Tasks, NEW n \in Nat,
           A \subseteq B \cup C, ~(Cardinality(B) + Cardinality(C) >= n)
    PROVE  Cardinality(A) < n
<1>1. IsFiniteSet(B) /\ IsFiniteSet(C)  BY DelegationAssumption, FS_Subset
<1>2. IsFiniteSet(B \cup C) /\ Cardinality(B \cup C) = Cardinality(B) + Cardinality(C) - Cardinality(B \cap C)
  BY <1>1, FS_Union
<1>3. IsFiniteSet(B \cap C)  BY <1>1, FS_Subset
<1>4. A \in SUBSET (B \cup C)  OBVIOUS
<1>5. IsFiniteSet(A) /\ Cardinality(A) <= Cardinality(B \cup C)  BY <1>2, <1>4, FS_Subset
<1>6. /\ Cardinality(A) \in Nat /\ Cardinality(B) \in Nat /\ Cardinality(C) \in Nat
      /\ Cardinality(B \cap C) \in Nat
  BY <1>1, <1>3, <1>5, FS_CardinalityType
<1>. QED  BY <1>2, <1>5, <1>6

\* AdmitsBelowTheCeiling: while a plan is made every worker alive is in its snapshots or
\* under a reservation that has not lapsed, whatever was captured when.
THEOREM PlansKeepTheCeiling == DelegationSpec => AdmitsBelowTheCeiling
<1> DEFINE Bounded ==
      \A t \in Tasks :
         /\ job[t].pc # "planned" /\ job'[t].pc = "planned"
         /\ org.transport = "broker" \/ (dispatcher'.place.kind = "new" /\ dispatcher'.req.tab = NoTab)
         => Cardinality(Alive) < org.ceiling
<1>1. ASSUME DelegationInv, DelegationNext PROVE Bounded
  <2> SUFFICES ASSUME NEW t \in Tasks, job[t].pc # "planned", job'[t].pc = "planned",
                      org.transport = "broker" \/ (dispatcher'.place.kind = "new" /\ dispatcher'.req.tab = NoTab)
               PROVE  Cardinality(Alive) < org.ceiling
    OBVIOUS
  <2>0. DelegationTypeOK  BY <1>1 DEF DelegationInv
  <2>1. \E u \in Tasks, req \in Requests, whole \in BOOLEAN : Plans(u, req, whole)
    <3>1. CASE Spawns  BY <2>0, <3>1 DEF Spawns, DelegationTypeOK
    <3>2. CASE \E error \in RecoveredErrors : SpawnFails(error)  BY <2>0, <3>2 DEF SpawnFails, DelegationTypeOK
    <3>3. CASE \E u \in Tasks : Binds(u) \/ BindLost(u) \/ Monitors(u) \/ \E ok \in BOOLEAN : Approves(u, ok)
      BY <2>0, <3>3 DEF Binds, BindLost, Monitors, Approves, DelegationTypeOK
    <3>4. CASE \E p \in 1..MaxPane : PaneCloses(p)  BY <2>0, <3>4 DEF PaneCloses, DelegationTypeOK
    <3>5. CASE CapturesPanes \/ CapturesPeers \/ DelegationTick
      BY <3>5 DEF CapturesPanes, CapturesPeers, DelegationTick
    <3>. QED  BY <1>1, <3>1, <3>2, <3>3, <3>4, <3>5 DEF DelegationNext
  <2>2. PICK u \in Tasks, req \in Requests, whole \in BOOLEAN : Plans(u, req, whole)  BY <2>1
  <2> DEFINE plan == BuildPlan(u, req, dispatcher.panes, dispatcher.peers)
  <2>3. plan.status = "ready_to_spawn" /\ dispatcher.pc = "peers"  BY <2>2 DEF Plans
  <2>4. whole /\ dispatcher' = [dispatcher EXCEPT !.pc = "spawn", !.task = u, !.req = req, !.place = plan.place]
    <3>1. whole  BY <2>0, <2>2, <2>3 DEF Plans, DelegationTypeOK
    <3>. QED  BY <2>2, <2>3, <3>1 DEF Plans
  <2> HIDE DEF plan
  <2>5. dispatcher'.place = plan.place /\ dispatcher'.req = req  BY <2>0, <2>4 DEF DelegationTypeOK, Dispatcher
  <2>6. org.ceiling \in Nat  BY <2>0, DelegationAssumption DEF DelegationTypeOK
  <2>7. \A panes, peers : Population(panes, peers) \in SUBSET Tasks  BY DEF Population
  <2>8. \A counted : Reserved(counted) \in SUBSET Tasks  BY DEF Reserved
  <2>9. CASE org.transport = "broker"
    <3> DEFINE counted == Population(dispatcher.panes, IF req.peers THEN dispatcher.peers ELSE {})
    <3>1. ~(Cardinality(counted) >= org.ceiling)  BY <2>3, <2>9, PlansAreBounded DEF plan
    <3>2. Alive \subseteq counted  BY <1>1, <2>3, <2>9, AliveAreCounted
    <3>3. counted \in SUBSET Tasks  BY <2>7
    <3> HIDE DEF counted
    <3>4. Cardinality({}) = 0 /\ Cardinality(counted) \in Nat
      BY <3>3, DelegationAssumption, FS_EmptySet, FS_Subset, FS_CardinalityType
    <3>. QED  BY <2>6, <3>1, <3>2, <3>3, <3>4, SumBounds
  <2>10. CASE org.transport # "broker"
    <3> DEFINE counted == Population(dispatcher.panes, dispatcher.peers)
    <3>1. ~(Cardinality(counted) + Cardinality(Reserved(counted)) >= org.ceiling)
      BY <2>3, <2>5, <2>10, PlansAreBounded DEF plan
    <3>2. Alive \subseteq counted \cup Reserved(counted)  BY <1>1, <2>3, AliveAreCounted
    <3>. QED  BY <2>6, <2>7, <2>8, <3>1, <3>2, SumBounds
  <2>. QED  BY <2>9, <2>10
<1>2. DelegationInv /\ [DelegationNext]_delegationVars => [Bounded]_delegationVars  BY <1>1
<1>3. AdmitsBelowTheCeiling <=> [][Bounded]_delegationVars  BY DEF AdmitsBelowTheCeiling
<1>. QED  BY <1>2, <1>3, DelegationInvariance, PTL DEF DelegationSpec

\* IndexFollowsTheTab: the plan turned the index into a pane of the tab, and a pane leaves
\* its tab only by closing.
THEOREM WorkersLandWhereDirected == DelegationSpec => IndexFollowsTheTab
<1> DEFINE Lands ==
      LET index == dispatcher.req.tab.value
      IN /\ dispatcher.pc = "spawn" /\ roles' # roles /\ org.transport # "broker"
         /\ dispatcher.req.tab.kind = "index" /\ dispatcher.req.peers
         /\ \E q \in dispatcher.peers : q.index = index
         => \E k \in DOMAIN tabs' :
              NextPane \in tabs'[k].panes /\ tabs'[k].id = dispatcher.seen[index].id
<1>1. ASSUME DelegationInv, DelegationNext PROVE Lands
  <2> DEFINE index == dispatcher.req.tab.value
             v == dispatcher.place.selector.value
             p == NextPane
  <2> SUFFICES ASSUME dispatcher.pc = "spawn", roles' # roles, org.transport # "broker",
                      dispatcher.req.tab.kind = "index", dispatcher.req.peers,
                      NEW q \in dispatcher.peers, q.index = index
               PROVE  \E k \in DOMAIN tabs' : p \in tabs'[k].panes /\ tabs'[k].id = dispatcher.seen[index].id
    OBVIOUS
  <2>0. DelegationTypeOK /\ Laid /\ Directed /\ Followed  BY <1>1 DEF DelegationInv
  <2>1. Spawns
    BY <1>1 DEF DelegationNext, CapturesPanes, CapturesPeers, Plans, SpawnFails, Binds, BindLost, Monitors,
       Approves, PaneCloses, DelegationTick
  <2>2. p \in 1..MaxPane /\ Opens(p, dispatcher.place)  BY <2>0, <2>1, NextPaneIsFree DEF Spawns
  <2>3. /\ dispatcher.place.kind = "existing" /\ dispatcher.place.selector.kind = "pane"
        /\ v \in dispatcher.seen[index].panes
    BY <2>0 DEF Directed
  <2>4. index \in DOMAIN dispatcher.seen  BY <2>0 DEF Followed
  <2> HIDE DEF p, index
  <2>5. PICK k \in 1..Len(tabs') : Extended(k, p) /\ k \in Hosts(dispatcher.place.selector)
    BY <2>0, <2>2, <2>3, OpensOne
  <2>6. k \in DOMAIN tabs /\ v \in tabs[k].panes  BY <2>3, <2>5 DEF Hosts
  <2>7. tabs[k].id = dispatcher.seen[index].id  BY <2>0, <2>3, <2>4, <2>6 DEF Followed
  <2>8. k \in 1..Len(tabs)  BY <2>0, <2>6, Tabs
  <2>9. tabs'[k].id = tabs[k].id /\ p \in tabs'[k].panes  BY <2>5, <2>8 DEF Extended
  <2>10. DOMAIN tabs' = 1..Len(tabs')  BY <2>5 DEF Extended
  <2>. QED  BY <2>7, <2>9, <2>10
<1>2. DelegationInv /\ [DelegationNext]_delegationVars => [Lands]_delegationVars  BY <1>1
<1>3. IndexFollowsTheTab <=> [][Lands]_delegationVars  BY DEF IndexFollowsTheTab
<1>. QED  BY <1>2, <1>3, DelegationInvariance, PTL DEF DelegationSpec

\* RefusedSpawnsCanBeRetried: the recovery removes both files, and nobody writes them again
\* before the retry.
THEOREM RefusedLeaveNothing == DelegationSpec => []RefusedSpawnsCanBeRetried
<1>1. DelegationInv => RefusedSpawnsCanBeRetried  BY DEF DelegationInv, Worker, Retried, RefusedSpawnsCanBeRetried
<1>. QED  BY <1>1, DelegationInvariance, PTL

\* OverflowIsAFallback: where the caller's tab can be split an armed overflow changes nothing.
LEMMA OverflowOnlyHelps ==
    ASSUME NEW t, NEW panes, NEW peers, NEW req \in Requests, req.ceiling = "good"
    PROVE  \/ BuildPlan(t, [req EXCEPT !.overflow = TRUE], panes, peers)
                = BuildPlan(t, [req EXCEPT !.overflow = FALSE], panes, peers)
           \/ BuildPlan(t, [req EXCEPT !.overflow = FALSE], panes, peers).status = "split_capacity_exceeded"
<1> DEFINE on == [req EXCEPT !.overflow = TRUE]
           off == [req EXCEPT !.overflow = FALSE]
           seen == IF req.peers THEN peers ELSE {}
<1>1. /\ on.overflow = TRUE /\ off.overflow = FALSE
      /\ on.sound = req.sound /\ on.tab = req.tab /\ on.peers = req.peers /\ on.ceiling = "good"
      /\ off.sound = req.sound /\ off.tab = req.tab /\ off.peers = req.peers /\ off.ceiling = "good"
  BY DelegationAssumption
<1> HIDE DEF on, off
<1>2. (BadFlags(on) <=> BadFlags(off)) /\ (Refused(t, on, panes, seen) <=> Refused(t, off, panes, seen))
  BY <1>1 DEF BadFlags, Refused
<1>3. \/ RengaPlan(on, panes, seen) = RengaPlan(off, panes, seen)
      \/ RengaPlan(off, panes, seen).status = "split_capacity_exceeded"
  <2> DEFINE census == Census(seen)
             ids == {p.id : p \in panes}
  <2>1. CASE req.tab # NoTab
    <3>1. ResolveTab(on, census, ids) = ResolveTab(off, census, ids)  BY <1>1, <2>1 DEF ResolveTab
    <3>. QED  BY <1>1, <2>1, <3>1 DEF RengaPlan, OverflowPlan
  <2>2. CASE req.tab = NoTab
    <3>1. ResolveTab(off, census, ids) = Place("caller", NoTab, "none")  BY <1>1, <2>2 DEF ResolveTab
    <3>2. \/ ResolveTab(on, census, ids) = Place("caller", NoTab, "none")
          \/ ResolveTab(on, census, ids).kind = "new" /\ ResolveTab(on, census, ids).error \in {"none", "tab_limit_reached"}
      BY <1>1, <2>2 DEF ResolveTab, NewTab, Place
    <3>3. CASE Cardinality(panes) <= Room
      BY <1>1, <2>2, <3>1, <3>2, <3>3 DEF RengaPlan, Place
    <3>4. CASE ~(Cardinality(panes) <= Room)
      BY <3>1, <3>4 DEF RengaPlan, Place, Exceeded, Outcome
    <3>. QED  BY <3>3, <3>4
  <2>. QED  BY <2>1, <2>2
<1>4. \/ BuildPlan(t, on, panes, peers) = BuildPlan(t, off, panes, peers)
      \/ BuildPlan(t, off, panes, peers).status = "split_capacity_exceeded"
  BY <1>1, <1>2, <1>3 DEF BuildPlan
<1>. QED  BY <1>4 DEF on, off

THEOREM OverflowFallsBack == DelegationSpec => []OverflowIsAFallback
<1>1. OverflowIsAFallback  BY OverflowOnlyHelps DEF OverflowIsAFallback
<1>. QED  BY <1>1, PTL

\* The broker reads neither the tab nor the overflow of a request.
LEMMA TabIsInert ==
    ASSUME org.transport = "broker", NEW t, NEW panes, NEW peers, NEW req,
           NEW r, r.sound = req.sound, r.peers = req.peers, r.ceiling = req.ceiling
    PROVE  BuildPlan(t, req, panes, peers) = BuildPlan(t, r, panes, peers)
<1> DEFINE seen == IF req.peers THEN peers ELSE {}
<1>1. (BadFlags(req) <=> BadFlags(r)) /\ (Refused(t, req, panes, seen) <=> Refused(t, r, panes, seen))
  BY DEF BadFlags, CeilingApplies, Refused
<1>. QED  BY <1>1 DEF BuildPlan

\* The other transports read the ceiling only for an overflow without a tab.
LEMMA CeilingIsInert ==
    ASSUME org.transport # "broker", NEW t, NEW panes, NEW peers, NEW req \in Requests,
           ~(req.overflow /\ req.tab = NoTab), NEW r, r = [req EXCEPT !.ceiling = "good"]
    PROVE  BuildPlan(t, req, panes, peers) = BuildPlan(t, r, panes, peers)
<1> DEFINE seen == IF req.peers THEN peers ELSE {}
<1>1. r.sound = req.sound /\ r.peers = req.peers /\ r.tab = req.tab /\ r.overflow = req.overflow
  BY DelegationAssumption
<1>2. (BadFlags(req) <=> BadFlags(r)) /\ (Refused(t, req, panes, seen) <=> Refused(t, r, panes, seen))
  BY <1>1 DEF BadFlags, CeilingApplies, Refused
<1>3. RengaPlan(req, panes, seen) = RengaPlan(r, panes, seen)
  BY <1>1 DEF RengaPlan, ResolveTab, OverflowPlan
<1>. QED  BY <1>1, <1>2, <1>3 DEF BuildPlan

\* IgnoredFlagsAreInert: each transport's plan reads only the flags its run supports.
THEOREM IgnoredFlagsDoNothing == DelegationSpec => []IgnoredFlagsAreInert
<1>1. ASSUME NEW t \in Tasks, NEW req \in Requests, org.transport = "broker" \/ ~(req.overflow /\ req.tab = NoTab),
             NEW plain, plain = IF org.transport = "broker" THEN [req EXCEPT !.tab = NoTab, !.overflow = FALSE]
                                ELSE [req EXCEPT !.ceiling = "good"]
      PROVE  BuildPlan(t, req, dispatcher.panes, dispatcher.peers)
               = BuildPlan(t, plain, dispatcher.panes, dispatcher.peers)
  <2>1. CASE org.transport = "broker"
    <3>1. plain.sound = req.sound /\ plain.peers = req.peers /\ plain.ceiling = req.ceiling
      BY <1>1, <2>1, DelegationAssumption
    <3>. QED  BY <2>1, <3>1, TabIsInert
  <2>2. CASE org.transport # "broker"
    <3>1. plain = [req EXCEPT !.ceiling = "good"]  BY <1>1, <2>2
    <3>2. ~(req.overflow /\ req.tab = NoTab)  BY <1>1, <2>2
    <3>. QED  BY <2>2, <3>1, <3>2, CeilingIsInert
  <2>. QED  BY <2>1, <2>2
<1>2. IgnoredFlagsAreInert  BY <1>1, Zenon DEF IgnoredFlagsAreInert
<1>. QED  BY <1>2, PTL

-----------------------------------------------------------------------------
(* The prompts: what the loop knows of the dialog its key will reach.        *)

States == {"starting", "trust", "dev", "ready", "exited"}
Kinds == {"trustYes", "trustNo", "devYes", "devExit", "footer", "composer", "text"}
Screens == Seq([kind : Kinds, cursor : BOOLEAN])

PromptTypeOK ==
    /\ claude \in [at : States, cursor : 1..2, order : {"yesFirst", "noFirst"}, trusted : {"before", "never"}]
    /\ drawn \in [screen : Screens, late : Nat]
    /\ approver \in [pc : {"inspect", "decide", "send", "done", "escalated"}, screen : Screens, previous : Screens,
                     keys : {"none", "Enter", "Down", "Up"}, step : 0..1]

\* The screen shows the dialog claude waits in, or none at all.
Fresh(screen) == screen \in Frames(claude) \/ Recognized(screen) = {}

\* Two inspections, and at most one of them late: if both gave the same screen it is fresh.
Compared ==
    /\ approver.pc = "inspect" /\ approver.previous # NoScreen
          => Fresh(approver.previous) \/ Fresh(drawn.screen) \/ drawn.late >= 1
    /\ approver.pc = "decide"
          => /\ Fresh(approver.screen) \/ Fresh(drawn.screen) \/ drawn.late >= 1
             /\ approver.screen = approver.previous => approver.previous = NoScreen \/ Fresh(approver.screen)
    /\ approver.pc = "send" => approver.previous = NoScreen

\* Enter is on its way only to the option that accepts.
Aimed ==
    approver.pc = "send" /\ approver.keys = "Enter"
        => claude.at \in {"trust", "dev"} /\ Options(claude.at, claude.order)[claude.cursor] = Accept(claude.at)

\* Until the first dialog no screen shows one.
Blank ==
    claude.at = "starting" =>
        Recognized(drawn.screen) = {} /\ Recognized(approver.screen) = {} /\ Recognized(approver.previous) = {}

PromptInv == PromptTypeOK /\ Compared /\ Aimed /\ Blank /\ WorkerNeverExits

\* A dialog on the screen: its two options, the cursor on one of them, and the footer.
LEMMA DialogShown ==
    ASSUME NEW c, c.at \in {"trust", "dev"}, NEW cursor \in BOOLEAN, NEW shown, shown = Shown(c, cursor)
    PROVE  /\ shown \in Screens /\ DOMAIN shown = 1..3 /\ Len(shown) = 3
           /\ \A j \in 1..2 : /\ shown[j].kind = Options(c.at, c.order)[j]
                              /\ shown[j].cursor <=> cursor /\ j = c.cursor
           /\ shown[3].kind = "footer"
<1> DEFINE S == [kind : Kinds, cursor : BOOLEAN]
           options == [i \in 1..2 |-> Row(Options(c.at, c.order)[i], cursor /\ i = c.cursor)]
           foot == <<Row("footer", FALSE)>>
<1>1. \A i \in 1..2 : Options(c.at, c.order)[i] \in Kinds  BY DEF Options, Accept, Reject, Kinds
<1>2. options \in Seq(S) /\ Len(options) = 2  BY <1>1 DEF Row
<1>3. foot \in Seq(S) /\ Len(foot) = 1 /\ foot[1].kind = "footer"  BY DEF Row, Kinds
<1>4. shown = options \o foot  BY DEF Shown
<1>5. \A j \in 1..2 : /\ options[j].kind = Options(c.at, c.order)[j]
                      /\ options[j].cursor <=> cursor /\ j = c.cursor
  BY DEF Row
<1> HIDE DEF options, foot, S
<1>6. /\ shown \in Seq(S) /\ Len(shown) = 3 /\ \A j \in 1..2 : shown[j] = options[j]
      /\ shown[3] = foot[1]
  BY <1>2, <1>3, <1>4, ConcatProperties
<1>7. shown \in Screens  BY <1>6 DEF S, Screens
<1>8. DOMAIN shown = 1..3  BY <1>6
<1>. QED  BY <1>3, <1>5, <1>6, <1>7, <1>8

LEMMA FramesAreScreens ==
    ASSUME PromptTypeOK
    PROVE  \A f \in Frames(claude) : f \in Screens
<1>1. ASSUME NEW c, NEW cursor \in BOOLEAN PROVE Shown(c, cursor) \in Screens
  <2>1. CASE c.at \in {"trust", "dev"}  BY <2>1, DialogShown
  <2>2. CASE c.at = "ready"  BY <2>2 DEF Shown, Screens, Row, Kinds
  <2>3. CASE c.at \notin {"trust", "dev", "ready"}
    <3>1. Shown(c, cursor) = <<Row("text", FALSE)>>  BY <2>3 DEF Shown
    <3>. QED  BY <3>1 DEF Screens, Row, Kinds
  <2>. QED  BY <2>1, <2>2, <2>3
<1>2. ASSUME NEW c PROVE Shown(c, TRUE) \o Shown(claude, TRUE) \in Screens
  <2>1. Shown(c, TRUE) \in Screens /\ Shown(claude, TRUE) \in Screens  BY <1>1
  <2>. QED  BY <2>1, ConcatProperties DEF Screens
<1>3. Shown(claude, TRUE) \in Screens /\ Shown(claude, FALSE) \in Screens  BY <1>1
<1>4. ASSUME NEW f \in Frames(claude) PROVE f \in Screens
  <2> DEFINE c == [claude EXCEPT !.at = "trust", !.cursor = IF claude.order = "noFirst" THEN 2 ELSE 1]
  <2>1. f = Shown(claude, TRUE) \/ f = Shown(claude, FALSE) \/ f = Shown(c, TRUE) \o Shown(claude, TRUE)
    BY DEF Frames
  <2> HIDE DEF c
  <2>. QED  BY <1>2, <1>3, <2>1
<1>. QED  BY <1>4

\* Enter is told for the option under the cursor, of the one dialog on the screen, seen twice.
LEMMA EnterAccepts ==
    ASSUME NEW screen \in Screens, NEW previous, DecideScreen(screen, previous).keys = "Enter"
    PROVE  /\ previous # NoScreen /\ screen = previous
           /\ \E s \in {"trust", "dev"}, i \in DOMAIN screen :
                 Recognized(screen) = {s} /\ screen[i].kind = Accept(s) /\ screen[i].cursor
<1>1. Cardinality(Recognized(screen)) = 1
  BY DEF DecideScreen, Wait, Decision
<1>2. PICK s : Recognized(screen) = {s}
  <2>1. Recognized(screen) \subseteq {"trust", "dev"}  BY DEF Recognized
  <2>2. IsFiniteSet({"trust"} \cup {"dev"})  BY FS_Singleton, FS_Union
  <2>3. IsFiniteSet(Recognized(screen))  BY <2>1, <2>2, FS_Subset
  <2>. QED  BY <1>1, <2>3, FS_Singleton
<1>3. (CHOOSE x \in Recognized(screen) : TRUE) = s  BY <1>2
<1>4. s \in {"trust", "dev"}  BY <1>2 DEF Recognized
<1>5. DecideDialog(screen, previous, s).keys = "Enter"
  <2>1. DecideScreen(screen, previous) = DecideDialog(screen, previous, CHOOSE x \in Recognized(screen) : TRUE)
    BY <1>1 DEF DecideScreen
  <2>. QED  BY <1>3, <2>1
<1> DEFINE accepts == RowsOf(screen, Accept(s))
           rejects == RowsOf(screen, Reject(s))
           cursors == {i \in DOMAIN screen : screen[i].cursor /\ i >= Min(accepts \cup rejects)}
<1>6. Settled(screen, previous) /\ cursors # {} /\ Min(cursors) = Min(accepts)
  BY <1>5 DEF DecideDialog, Wait, Decision
<1>7. accepts # {}  BY <1>2 DEF Recognized
<1>8. accepts \subseteq DOMAIN screen /\ cursors \subseteq DOMAIN screen /\ DOMAIN screen \subseteq Nat
  BY DEF RowsOf, Screens
<1>9. \A i \in accepts : screen[i].kind = Accept(s)  BY DEF RowsOf
<1>10. \A i \in cursors : screen[i].cursor  OBVIOUS
<1> HIDE DEF accepts, cursors
<1>11. Min(accepts) \in accepts /\ Min(cursors) \in cursors  BY <1>6, <1>7, <1>8, Least DEF Min
<1>. QED  BY <1>2, <1>4, <1>6, <1>8, <1>9, <1>10, <1>11 DEF Settled

\* The crux: a key Enter told for a frame of the worker's dialog accepts this dialog.
LEMMA FrameAccepts ==
    ASSUME PromptTypeOK, NEW screen \in Frames(claude), NEW previous,
           DecideScreen(screen, previous).keys = "Enter"
    PROVE  claude.at \in {"trust", "dev"} /\ Options(claude.at, claude.order)[claude.cursor] = Accept(claude.at)
<1>1. screen \in Screens  BY FramesAreScreens
<1>2. PICK s \in {"trust", "dev"}, i \in DOMAIN screen :
         Recognized(screen) = {s} /\ screen[i].kind = Accept(s) /\ screen[i].cursor
  BY <1>1, EnterAccepts
<1>3. claude.at \in States /\ claude.cursor \in 1..2  BY DEF PromptTypeOK
<1>4. ASSUME claude.at \in {"trust", "dev"}, NEW cursor \in BOOLEAN, screen = Shown(claude, cursor)
      PROVE  Options(claude.at, claude.order)[claude.cursor] = Accept(claude.at)
  <2>1. /\ DOMAIN screen = 1..3 /\ screen[3].kind = "footer"
        /\ \A j \in 1..2 : /\ screen[j].kind = Options(claude.at, claude.order)[j]
                           /\ screen[j].cursor <=> cursor /\ j = claude.cursor
    BY <1>4, DialogShown
  <2>2. i # 3  BY <1>2, <2>1 DEF Accept
  <2>3. i \in 1..2  BY <2>1, <2>2
  <2>4. i = claude.cursor /\ Options(claude.at, claude.order)[i] = Accept(s)  BY <1>2, <2>1, <2>3
  <2>5. Options(claude.at, claude.order)[i] \in {Accept(claude.at), Reject(claude.at)}  BY <2>3 DEF Options
  <2>6. s = claude.at  BY <1>2, <1>4, <2>4, <2>5 DEF Accept, Reject
  <2>. QED  BY <2>4, <2>6
<1>5. ASSUME claude.at \notin {"trust", "dev"}, NEW cursor \in BOOLEAN, screen = Shown(claude, cursor)
      PROVE  FALSE
  <2>1. DOMAIN screen = {1} /\ screen[1].kind \in {"composer", "text"}  BY <1>5 DEF Shown, Row
  <2>. QED  BY <1>2, <2>1 DEF Accept
<1>6. ASSUME claude.at = "dev", NEW c, c.at = "trust", NEW cursor \in BOOLEAN,
             screen = Shown(c, cursor) \o Shown(claude, cursor)
      PROVE  FALSE
  <2> DEFINE above == Shown(c, cursor)
             below == Shown(claude, cursor)
             S == [kind : Kinds, cursor : BOOLEAN]
  <2>1. /\ above \in Screens /\ Len(above) = 3
        /\ \A j \in 1..2 : above[j].kind = Options(c.at, c.order)[j]
    BY <1>6, DialogShown
  <2>2. /\ below \in Screens /\ Len(below) = 3
        /\ \A j \in 1..2 : below[j].kind = Options(claude.at, claude.order)[j]
    BY <1>6, DialogShown
  <2>3. \E j \in 1..2 : Options(c.at, c.order)[j] = Accept("trust")  BY <1>6 DEF Options
  <2>4. Options(claude.at, claude.order)[1] = Accept("dev")  BY <1>6 DEF Options
  <2>5. screen = above \o below  BY <1>6
  <2> HIDE DEF above, below
  <2>6. /\ DOMAIN screen = 1..6 /\ (\A j \in 1..3 : screen[j] = above[j])
        /\ screen[4] = below[1]
    <3>1. above \in Seq(S) /\ below \in Seq(S)  BY <2>1, <2>2 DEF Screens
    <3> HIDE DEF S
    <3>2. Len(above) = 3 /\ Len(below) = 3  BY <2>1, <2>2
    <3>3. /\ above \o below \in Seq(S) /\ Len(above \o below) = Len(above) + Len(below)
          /\ \A j \in 1..Len(above) + Len(below) :
               (above \o below)[j] = IF j <= Len(above) THEN above[j] ELSE below[j - Len(above)]
      BY <3>1, ConcatProperties
    <3>4. /\ screen \in Seq(S) /\ Len(screen) = 6
          /\ \A j \in 1..6 : screen[j] = IF j <= 3 THEN above[j] ELSE below[j - 3]
      BY <2>5, <3>2, <3>3
    <3>5. DOMAIN screen = 1..6  BY <3>4
    <3>6. (\A j \in 1..3 : screen[j] = above[j]) /\ screen[4] = below[1]  BY <3>4
    <3>. QED  BY <3>5, <3>6
  <2>7. PICK j \in 1..2 : screen[j].kind = Accept("trust")  BY <2>1, <2>3, <2>6
  <2>8. screen[4].kind = Accept("dev")  BY <2>2, <2>4, <2>6
  <2>9. "trust" \in Recognized(screen) /\ "dev" \in Recognized(screen)
    BY <2>6, <2>7, <2>8 DEF Recognized, RowsOf
  <2>. QED  BY <1>2, <2>9
<1>7. \/ screen = Shown(claude, TRUE) \/ screen = Shown(claude, FALSE)
      \/ claude.at = "dev" /\ \E c : c.at = "trust" /\ screen = Shown(c, TRUE) \o Shown(claude, TRUE)
  <2> DEFINE c == [claude EXCEPT !.at = "trust", !.cursor = IF claude.order = "noFirst" THEN 2 ELSE 1]
  <2>1. c.at = "trust"  BY DEF PromptTypeOK
  <2>2. \/ screen = Shown(claude, TRUE) \/ screen = Shown(claude, FALSE)
        \/ claude.at = "dev" /\ screen = Shown(c, TRUE) \o Shown(claude, TRUE)
    BY DEF Frames
  <2> HIDE DEF c
  <2>. QED  BY <2>1, <2>2
<1>. QED  BY <1>4, <1>5, <1>6, <1>7

LEMMA PromptStarts == PromptInit => PromptInv
<1> SUFFICES ASSUME PromptInit PROVE PromptInv  OBVIOUS
<1>1. claude \in [at : States, cursor : 1..2, order : {"yesFirst", "noFirst"}, trusted : {"before", "never"}]
  BY DEF PromptInit, States
<1>2. claude.at = "starting" /\ Shown(claude, TRUE) = <<Row("text", FALSE)>>  BY DEF PromptInit, Shown
<1>3. drawn.screen = <<Row("text", FALSE)>> /\ drawn \in [screen : Screens, late : Nat]
  <2>1. drawn = [screen |-> <<Row("text", FALSE)>>, late |-> 0]  BY <1>2 DEF PromptInit
  <2>2. <<Row("text", FALSE)>> \in Screens  BY DEF Screens, Row, Kinds
  <2>. QED  BY <2>1, <2>2
<1>4. NoScreen \in Screens  BY DEF NoScreen, Screens
<1>5. PromptTypeOK
  <2>1. approver = [pc |-> "inspect", screen |-> NoScreen, previous |-> NoScreen, keys |-> "none", step |-> 0]
    BY DEF PromptInit
  <2>. QED  BY <1>1, <1>3, <1>4, <2>1 DEF PromptTypeOK
<1>6. Recognized(drawn.screen) = {}  BY <1>3 DEF Recognized, RowsOf, Row, Accept
<1>7. Recognized(NoScreen) = {}  BY DEF Recognized, RowsOf, NoScreen
<1>8. Compared /\ Aimed /\ Blank
  BY <1>5, <1>6, <1>7 DEF PromptInit, PromptTypeOK, Compared, Aimed, Blank
<1>. QED  BY <1>2, <1>5, <1>8 DEF PromptInv, WorkerNeverExits

\* Before the first dialog a frame shows none.
LEMMA BlankFrames ==
    ASSUME claude.at = "starting"
    PROVE  \A f \in Frames(claude) : Recognized(f) = {}
<1>1. \A f \in Frames(claude) : f = <<Row("text", FALSE)>>  BY DEF Frames, Shown
<1>. QED  BY <1>1 DEF Recognized, RowsOf, Row, Accept

LEMMA DialogStarts == PromptInv /\ Starts => PromptInv'
<1> SUFFICES ASSUME PromptInv, Starts PROVE PromptInv'  OBVIOUS
<1> USE DEF Starts, PromptInv
<1>1. PromptTypeOK'  BY DEF PromptTypeOK, States
<1>2. claude'.at \in {"trust", "dev"} /\ drawn'.screen = drawn.screen  BY DEF PromptTypeOK
<1>3. Compared'
  BY <1>2 DEF Compared, Fresh, Blank
<1>4. Aimed'  BY DEF Aimed
<1>5. Blank' /\ WorkerNeverExits'  BY <1>2 DEF Blank, WorkerNeverExits
<1>. QED  BY <1>1, <1>3, <1>4, <1>5

LEMMA ScreenRedraws == PromptInv /\ Redraws => PromptInv'
<1> SUFFICES ASSUME PromptInv, Redraws PROVE PromptInv'  OBVIOUS
<1>1. drawn'.screen \in Frames(claude) /\ drawn' = [screen |-> drawn'.screen, late |-> 0]
      /\ UNCHANGED <<claude, approver, record, wall>>
  BY DEF Redraws
<1>2. drawn'.screen \in Screens  BY <1>1, FramesAreScreens DEF PromptInv
<1>3. PromptTypeOK'  BY <1>1, <1>2 DEF PromptInv, PromptTypeOK
<1>4. Compared'  BY <1>1 DEF PromptInv, Compared, Fresh
<1>5. Aimed' /\ WorkerNeverExits'  BY <1>1 DEF PromptInv, Aimed, WorkerNeverExits
<1>6. Blank'  BY <1>1, BlankFrames DEF PromptInv, Blank
<1>. QED  BY <1>3, <1>4, <1>5, <1>6 DEF PromptInv

LEMMA LoopInspects == PromptInv /\ Inspects /\ Late <= 1 => PromptInv'
<1> SUFFICES ASSUME PromptInv, Inspects, Late <= 1 PROVE PromptInv'  OBVIOUS
<1>0. PromptTypeOK /\ Late \in Nat  BY PromptAssumption DEF PromptInv
<1>1. /\ claude' = claude /\ drawn'.screen = drawn.screen /\ drawn' \in [screen : Screens, late : Nat]
      /\ approver' = [approver EXCEPT !.pc = "decide", !.screen = drawn.screen]
  BY <1>0 DEF Inspects, PromptTypeOK
<1>2. drawn.screen \in Frames(claude) \/ (drawn.late = 0 /\ drawn'.late = 1)
  <2>1. drawn.late \in Nat /\ drawn = [screen |-> drawn.screen, late |-> drawn.late]
    BY <1>0 DEF PromptTypeOK
  <2>2. drawn.screen \in Frames(claude) \/ (drawn.late < Late /\ drawn'.late = drawn.late + 1)
    BY <2>1 DEF Inspects
  <2>3. drawn.late < Late => drawn.late = 0  BY <1>0, <2>1
  <2>4. drawn.late = 0 => drawn.late + 1 = 1  OBVIOUS
  <2>. QED  BY <2>2, <2>3, <2>4
<1>3. /\ approver'.pc = "decide" /\ approver'.screen = drawn.screen /\ approver'.previous = approver.previous
      /\ approver.pc = "inspect"
  BY <1>0, <1>1 DEF Inspects, PromptTypeOK
<1>4. PromptTypeOK'  BY <1>0, <1>1 DEF PromptTypeOK
<1>5. Fresh(drawn.screen)' <=> Fresh(drawn.screen)  BY <1>1 DEF Fresh
<1>6. Compared'
  <2>1. drawn.screen = approver.previous => approver.previous = NoScreen \/ Fresh(drawn.screen)
    BY <1>2, <1>3 DEF PromptInv, Compared, Fresh
  <2>. QED  BY <1>1, <1>2, <1>3, <2>1 DEF Compared, Fresh
<1>7. Aimed' /\ Blank' /\ WorkerNeverExits'  BY <1>1, <1>3 DEF PromptInv, Aimed, Blank, WorkerNeverExits
<1>. QED  BY <1>4, <1>6, <1>7 DEF PromptInv

LEMMA LoopSteps == ASSUME PromptInv, NEW ok \in BOOLEAN, Steps(ok) PROVE PromptInv'
<1> DEFINE d == Decide(approver.screen, approver.previous, wall)
<1>0. PromptTypeOK  BY DEF PromptInv
<1>1. /\ d = DecideScreen(approver.screen, approver.previous) \/ d = Decision("escalate", "none")
      /\ d.keys = "Enter" => DecideScreen(approver.screen, approver.previous).keys = "Enter"
  BY DEF Decide, Decision
<1>2. d.action \in {"wait", "send_keys", "done", "escalate"} /\ d.keys \in {"none", "Enter", "Down", "Up"}
  BY <1>1 DEF DecideScreen, DecideDialog, Decision, Wait
<1> HIDE DEF d
<1>3. /\ approver.pc = "decide" /\ claude' = claude /\ drawn' = drawn /\ wall' = wall
      /\ approver'.keys = d.keys /\ approver'.screen = NoScreen /\ approver'.step = 1 - approver.step
      /\ approver'.previous = IF d.action = "wait" THEN approver.screen ELSE NoScreen
      /\ approver'.pc \in {"inspect", "send", "done", "escalated"}
      /\ approver'.pc = "inspect" => d.action = "wait"
      /\ approver'.pc = "send" => d.action = "send_keys"
      /\ approver' = [pc |-> approver'.pc, screen |-> approver'.screen, previous |-> approver'.previous,
                      keys |-> approver'.keys, step |-> approver'.step]
  BY <1>0, <1>2 DEF Steps, d, PromptTypeOK
<1>4. NoScreen \in Screens /\ Recognized(NoScreen) = {}  BY DEF NoScreen, Screens, Recognized, RowsOf
<1>5. PromptTypeOK'  BY <1>0, <1>2, <1>3, <1>4 DEF PromptTypeOK
<1>6. Compared'  BY <1>3 DEF PromptInv, Compared, Fresh
<1>7. Aimed'
  <2> SUFFICES ASSUME d.keys = "Enter"
               PROVE  /\ claude.at \in {"trust", "dev"}
                      /\ Options(claude.at, claude.order)[claude.cursor] = Accept(claude.at)
    BY <1>3 DEF Aimed
  <2>1. DecideScreen(approver.screen, approver.previous).keys = "Enter"  BY <1>1
  <2>2. approver.screen \in Screens  BY <1>0 DEF PromptTypeOK
  <2>3. approver.previous # NoScreen /\ approver.screen = approver.previous /\ Recognized(approver.screen) # {}
    BY <2>1, <2>2, EnterAccepts
  <2>4. approver.screen \in Frames(claude)  BY <1>3, <2>3 DEF PromptInv, Compared, Fresh
  <2>. QED  BY <1>0, <2>1, <2>4, FrameAccepts
<1>8. Blank' /\ WorkerNeverExits'  BY <1>3, <1>4 DEF PromptInv, Blank, WorkerNeverExits
<1>. QED  BY <1>5, <1>6, <1>7, <1>8 DEF PromptInv

LEMMA LoopSends == PromptInv /\ Sends => PromptInv'
<1> SUFFICES ASSUME PromptInv, Sends PROVE PromptInv'  OBVIOUS
<1>0. PromptTypeOK  BY DEF PromptInv
<1>1. CASE ReadRecord.keys = approver.keys
  <2>1. /\ claude' = Answered(claude, approver.keys) /\ drawn' = [drawn EXCEPT !.late = 0]
        /\ approver.pc = "send" /\ approver' = [approver EXCEPT !.pc = "inspect", !.keys = "none"]
    BY <1>1 DEF Sends
  <2>2. /\ claude' \in [at : States, cursor : 1..2, order : {"yesFirst", "noFirst"}, trusted : {"before", "never"}]
        /\ claude'.at = "starting" => claude.at = "starting"
    <3>1. claude.cursor \in 1..2 /\ 3 - claude.cursor \in 1..2  BY <1>0 DEF PromptTypeOK
    <3>2. \/ claude' = claude \/ claude' = [claude EXCEPT !.cursor = 3 - claude.cursor]
          \/ claude' = [claude EXCEPT !.at = "exited"] \/ claude' = [claude EXCEPT !.at = "ready"]
          \/ claude' = [claude EXCEPT !.at = "dev", !.cursor = 1]
      BY <2>1 DEF Answered
    <3>3. claude \in [at : States, cursor : 1..2, order : {"yesFirst", "noFirst"}, trusted : {"before", "never"}]
      BY <1>0 DEF PromptTypeOK
    <3>4. "exited" \in States /\ "ready" \in States /\ "dev" \in States  BY DEF States
    <3>5. CASE claude' = claude \/ claude' = [claude EXCEPT !.cursor = 3 - claude.cursor]
      BY <3>1, <3>3, <3>5
    <3>6. ASSUME NEW at \in {"exited", "ready", "dev"}, NEW cursor \in 1..2,
                 claude' = [claude EXCEPT !.at = at, !.cursor = cursor]
          PROVE  /\ claude' \in [at : States, cursor : 1..2, order : {"yesFirst", "noFirst"},
                                 trusted : {"before", "never"}]
                 /\ claude'.at # "starting"
      BY <3>3, <3>4, <3>6
    <3>7. ASSUME NEW at \in {"exited", "ready"}, claude' = [claude EXCEPT !.at = at]
          PROVE  claude' = [claude EXCEPT !.at = at, !.cursor = claude.cursor]
      BY <3>3, <3>7
    <3>8. CASE claude' = [claude EXCEPT !.at = "exited"]  BY <3>1, <3>6, <3>7, <3>8
    <3>9. CASE claude' = [claude EXCEPT !.at = "ready"]  BY <3>1, <3>6, <3>7, <3>9
    <3>10. CASE claude' = [claude EXCEPT !.at = "dev", !.cursor = 1]  BY <3>6, <3>10
    <3>. QED  BY <3>2, <3>5, <3>8, <3>9, <3>10
  <2>3. claude'.at # "exited"
    <3>1. CASE approver.keys = "Enter" /\ claude.at \in {"trust", "dev"}
      <4>1. Options(claude.at, claude.order)[claude.cursor] # Reject(claude.at)
        BY <2>1, <3>1 DEF PromptInv, Aimed, Accept, Reject
      <4>. QED  BY <1>0, <2>1, <3>1, <4>1 DEF Answered, PromptTypeOK
    <3>2. CASE ~(approver.keys = "Enter" /\ claude.at \in {"trust", "dev"})
      BY <1>0, <2>1, <3>2 DEF PromptInv, WorkerNeverExits, Answered, PromptTypeOK
    <3>. QED  BY <3>1, <3>2
  <2>4. /\ drawn'.screen = drawn.screen /\ drawn' \in [screen : Screens, late : Nat]
        /\ approver'.pc = "inspect" /\ approver'.screen = approver.screen
        /\ approver'.previous = NoScreen
    BY <1>0, <2>1 DEF PromptTypeOK, PromptInv, Compared
  <2>5. PromptTypeOK'  BY <1>0, <2>1, <2>2, <2>4 DEF PromptTypeOK
  <2>6. Recognized(NoScreen) = {}  BY DEF NoScreen, Recognized, RowsOf
  <2>7. Blank'
    BY <2>2, <2>4, <2>6 DEF PromptInv, Blank
  <2>. QED  BY <2>3, <2>4, <2>5, <2>7 DEF PromptInv, Compared, Aimed, WorkerNeverExits
<1>2. CASE ReadRecord.keys # approver.keys
  <2>1. /\ approver' = [approver EXCEPT !.pc = "escalated"] /\ UNCHANGED <<claude, drawn>>
    BY <1>2 DEF Sends
  <2>2. /\ approver'.pc = "escalated" /\ approver'.screen = approver.screen
        /\ approver'.previous = approver.previous
    BY <1>0, <2>1 DEF PromptTypeOK
  <2>3. PromptTypeOK'  BY <1>0, <2>1 DEF PromptTypeOK
  <2>. QED  BY <2>1, <2>2, <2>3 DEF PromptInv, Compared, Aimed, Blank, WorkerNeverExits
<1>. QED  BY <1>1, <1>2

THEOREM PromptInvariance == ASSUME Late <= 1 PROVE PromptSpec => []PromptInv
<1>1. ASSUME PromptInv, [PromptNext]_promptVars PROVE PromptInv'
  <2>1. CASE Starts  BY <1>1, <2>1, DialogStarts
  <2>2. CASE Redraws  BY <1>1, <2>2, ScreenRedraws
  <2>3. CASE Inspects  BY <1>1, <2>3, LoopInspects
  <2>4. CASE \E ok \in BOOLEAN : Steps(ok)  BY <1>1, <2>4, LoopSteps
  <2>5. CASE Sends  BY <1>1, <2>5, LoopSends
  <2>6. CASE InspectFails
    BY <1>1, <2>6 DEF InspectFails, PromptInv, PromptTypeOK, Compared, Fresh, Aimed, Blank, WorkerNeverExits
  <2>7. CASE PromptTick \/ UNCHANGED promptVars
    BY <1>1, <2>7 DEF PromptTick, promptVars, PromptInv, PromptTypeOK, Compared, Fresh, Aimed, Blank, WorkerNeverExits
  <2>. QED  BY <1>1, <2>1, <2>2, <2>3, <2>4, <2>5, <2>6, <2>7 DEF PromptNext, LoopStep
<1>. QED  BY <1>1, PromptStarts, PTL DEF PromptSpec

\* WorkerNeverExits: Enter is told only on two equal inspections, and of two one is fresh
\* as long as no more than one may be late.
THEOREM NoKeyExitsTheWorker == ASSUME Late <= 1 PROVE PromptSpec => []WorkerNeverExits
<1>1. PromptInv => WorkerNeverExits  BY DEF PromptInv
<1>. QED  BY <1>1, PromptInvariance, PTL

\* RecordIsLatest: each step writes its own record or removes the one before.
THEOREM RecordsAreLatest == PromptSpec => []RecordIsLatest
<1> DEFINE Latest == record = NoRecord \/ record.step = approver.step
           Shape == approver \in [pc : {approver.pc}, screen : {approver.screen}, previous : {approver.previous},
                                  keys : {approver.keys}, step : {approver.step}]
           Pair == Shape /\ Latest
<1>1. PromptInit => Pair
  <2>1. PromptInit => Shape  BY DEF PromptInit
  <2>. QED  BY <2>1 DEF PromptInit
<1>2. Pair /\ [PromptNext]_promptVars => Pair'
  <2> SUFFICES ASSUME Pair, [PromptNext]_promptVars PROVE Pair'  OBVIOUS
  <2>1. ASSUME NEW ok \in BOOLEAN, Steps(ok) PROVE Pair'
    <3>1. approver'.step = 1 - approver.step /\ Shape'  BY <2>1 DEF Steps
    <3>2. record' = NoRecord \/ record'.step = 1 - approver.step  BY <2>1 DEF Steps, Recorded
    <3>. QED  BY <3>1, <3>2
  <2>2. CASE Starts \/ Redraws \/ PromptTick \/ UNCHANGED promptVars
    BY <2>2 DEF Starts, Redraws, PromptTick, promptVars
  <2>3. CASE Inspects \/ InspectFails \/ Sends  BY <2>3 DEF Inspects, InspectFails, Sends
  <2>. QED  BY <2>1, <2>2, <2>3 DEF PromptNext, LoopStep
<1>3. Pair => RecordIsLatest  BY DEF RecordIsLatest, ReadRecord
<1>. QED  BY <1>1, <1>2, <1>3, PTL DEF PromptSpec
=============================================================================
