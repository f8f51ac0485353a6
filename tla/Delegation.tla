----------------------------- MODULE Delegation -----------------------------
(***************************************************************************)
(* Delegations of workers (dispatcher/runner.py): the dispatcher captures  *)
(* list_panes and list_peers, runs delegate-plan on them, spawns what the  *)
(* plan says and follows its after_spawn steps, several workers' steps at  *)
(* a time.  delegate-plan decides from the two snapshots and from the      *)
(* worker files of the state directory, and writes the files of the worker *)
(* it plans.  Terminal, tabs and workers are external: renga 2.0, where    *)
(* list_panes shows the caller's tab and tab indices shift, or the broker, *)
(* which has one tab.                                                      *)
(***************************************************************************)
EXTENDS Integers, SequencesExt, FiniteSetsExt

CONSTANTS Tasks,
          Orgs,         \* settings: transport, asserted spawn_tab, new tab fits, ceiling
          Requests,     \* arguments of a delegate-plan but its task
          Layouts,      \* tabs open before the first delegation, and the panes in them that are peers
          Room,         \* workers the caller's tab has rects for (choose_split)
          MaxTabs,      \* RENGA_MAX_TABS
          Approval, Bind, Headroom,     \* the parts of WORKER_BIND_WINDOW_SECONDS
          MaxPane, MaxClock             \* bounds of pane numbers and of the clock

TabNames == {"worker"} \cup UNION {{l.tabs[i].name : i \in DOMAIN l.tabs} : l \in Layouts}

\* Tasks are no roles of other panes; every pane is in one tab, and the caller's has one.
ASSUME DelegationAssumption ==
    /\ {Room, MaxTabs, Approval, Bind, Headroom, MaxPane, MaxClock} \subseteq Nat
    /\ IsFiniteSet(Tasks) /\ Tasks \cap {"none", "other"} = {}
    /\ \A o \in Orgs : o.ceiling \in Nat
    /\ Requests \subseteq [sound : BOOLEAN, tab : {req.tab : req \in Requests}, overflow : BOOLEAN,
                            peers : BOOLEAN, ceiling : {"good", "bad"}]
    /\ \A l \in Layouts :
         /\ l.tabs \in Seq([id : 1..MaxPane, name : TabNames, panes : SUBSET (1..MaxPane)]) \ {<< >>}
         /\ \A i \in DOMAIN l.tabs : l.tabs[i].panes # {}
         /\ \A i, j \in DOMAIN l.tabs : i # j => l.tabs[i].panes \cap l.tabs[j].panes = {}
         /\ l.peers \subseteq UNION {l.tabs[i].panes : i \in DOMAIN l.tabs}

Window == Approval + Bind + Headroom

VARIABLES
    org,        \* the settings of this organisation
    tabs,       \* the open tabs by index; the caller's is tab 1
    roles,      \* whom a pane number belongs to: a task's worker, another peer, or nobody
    bound,      \* the panes that are peers
    seed,       \* worker files by task: status and modification time
    instr,      \* tasks with an instruction file in the outbox
    dispatcher, \* what the dispatcher does next, its snapshots (seen: the tabs, ghost), its plan
    job,        \* a task's after_spawn steps and when the present one ends at the latest
    clock

delegationVars == <<org, tabs, roles, bound, seed, instr, dispatcher, job, clock>>

NoSeed == [status |-> "none", at |-> 0]
NoTab == [kind |-> "none", value |-> 0]
Caller == 1

(***************************************************************************)
(* Snapshots (Pane, Peer, _parse_panes, _parse_peers) and what they say of *)
(* tabs and workers.                                                       *)
(***************************************************************************)
TabOf(pane) == CHOOSE k \in DOMAIN tabs : pane \in tabs[k].panes
Open == UNION {tabs[k].panes : k \in DOMAIN tabs}

ListPanes == {[id |-> p, role |-> roles[p]] : p \in tabs[Caller].panes}
ListPeers == {[id |-> p, role |-> roles[p], index |-> TabOf(p), name |-> tabs[TabOf(p)].name,
               here |-> TabOf(p) = Caller] : p \in bound}

\* TabCensus: one entry per tab some peer is seen in.
Census(peers) ==
    {LET group == {q \in peers : q.index = i}
     IN [index |-> i, here |-> \E q \in group : q.here, ids |-> {q.id : q \in group}] :
        i \in {q.index : q \in peers}}

\* The union of worker panes and worker peers, by name.
Population(panes, peers) == {e.role : e \in {x \in panes \cup peers : x.role \in Tasks}}

\* Mutant: the window of a reservation does not cover the approval of the prompts.
BugReserved(counted) ==
    {t \in Tasks \ counted : seed[t].status = "planned" /\ clock - seed[t].at <= Bind + Headroom}

\* _seed_status, count_unbound_reservations.
Reserved(counted) ==
    {t \in Tasks \ counted : seed[t].status = "planned" /\ clock - seed[t].at <= Window}

(***************************************************************************)
(* Placement (_new_tab_placement, resolve_tab_placement).                  *)
(***************************************************************************)
Place(kind, selector, error) == [kind |-> kind, selector |-> selector, error |-> error]

NewTab(census) ==
    IF Cardinality(census) >= MaxTabs THEN Place("new", NoTab, "tab_limit_reached")
    ELSE Place("new", [kind |-> "new", value |-> 0], "none")

\* Mutant: every selector goes out as it is.
BugResolveExisting(selector, census, callerIds) == Place("existing", selector, "none")

\* An index the census knows becomes the pane number of the tab's anchor; names and
\* unknown indices go out as they are, for renga to judge.
ResolveExisting(selector, census, callerIds) ==
    LET known == {c \in census : IF selector.kind = "index" THEN c.index = selector.value
                                 ELSE selector.kind = "pane" /\ selector.value \in c.ids}
        target == CHOOSE c \in known : TRUE
        address == IF selector.kind = "index" THEN Min(target.ids) ELSE selector.value
    IN IF known = {} THEN Place("existing", selector, "none")
       ELSE IF ~target.here /\ address \in callerIds THEN Place("existing", NoTab, "target_tab_mismatch")
       ELSE Place("existing", [kind |-> "pane", value |-> address], "none")

ResolveTab(req, census, callerIds) ==
    IF req.tab = NoTab /\ ~(req.overflow /\ org.spawnTab) THEN Place("caller", NoTab, "none")
    ELSE IF ~org.spawnTab THEN Place("caller", NoTab, "server_too_old")
    ELSE IF req.tab = NoTab \/ req.tab.kind = "new" THEN NewTab(census)
    ELSE ResolveExisting(req.tab, census, callerIds)

(***************************************************************************)
(* The plan (cmd_delegate_plan, build_plan).                               *)
(***************************************************************************)
Outcome(status, place) == [status |-> status, place |-> place]
Nowhere == Place("none", NoTab, "none")
Invalid == Outcome("input_invalid", Nowhere)
Exceeded == Outcome("split_capacity_exceeded", Nowhere)
Ready(place) == Outcome("ready_to_spawn", place)

\* Mutant: the ceiling is parsed on every run.
BugBadFlags(req) == req.tab.kind = "bad" \/ req.ceiling = "bad"

\* Flags are parsed only where they can have an effect.
CeilingApplies(req) == org.transport = "broker" \/ (req.overflow /\ req.tab = NoTab)
BadFlags(req) ==
    \/ org.transport = "renga" /\ req.tab.kind = "bad"
    \/ CeilingApplies(req) /\ req.ceiling = "bad"

\* validate_task_id and the checks beside it, and the identity guards.
Refused(task, req, panes, peers) ==
    \/ ~req.sound
    \/ \E e \in panes \cup peers : e.role = task
    \/ seed[task] # NoSeed \/ task \in instr

BrokerPlan(workers) ==
    IF workers >= org.ceiling THEN Exceeded ELSE Ready(Place("caller", NoTab, "none"))

\* A full caller's tab overflows into a new one: the census and the reservations bound it.
OverflowPlan(req, place, counted) ==
    IF place.error = "tab_limit_reached" THEN Exceeded
    ELSE IF req.tab # NoTab THEN Ready(place)
    ELSE IF ~req.peers THEN Invalid
    ELSE IF Cardinality(counted) + Cardinality(Reserved(counted)) >= org.ceiling \/ ~org.fits THEN Exceeded
    ELSE Ready(place)

\* Mutant: an armed overflow is refused before the caller's tab is asked for a split.
BugRengaPlan(req, panes, peers) ==
    LET place == ResolveTab(req, Census(peers), {p.id : p \in panes})
        splits == Cardinality(panes) <= Room
    IN IF place.error # "none" THEN Invalid
       ELSE IF place.kind = "caller" THEN (IF splits THEN Ready(place) ELSE Exceeded)
       ELSE IF place.kind = "new" THEN OverflowPlan(req, place, Population(panes, peers))
       ELSE Ready(place)
RengaPlan(req, panes, peers) ==
    LET place == ResolveTab(req, Census(peers), {p.id : p \in panes})
        splits == Cardinality(panes) <= Room
    IN IF place.error \in {"server_too_old", "target_tab_mismatch"} THEN Invalid
       ELSE IF place.kind = "caller" THEN (IF splits THEN Ready(place) ELSE Exceeded)
       ELSE IF place.kind = "new" /\ req.tab = NoTab /\ splits THEN Ready(Place("caller", NoTab, "none"))
       ELSE IF place.kind = "new" THEN OverflowPlan(req, place, Population(panes, peers))
       ELSE Ready(place)

BuildPlan(task, req, panes, captured) ==
    LET peers == IF req.peers THEN captured ELSE {}
    IN IF BadFlags(req) \/ Refused(task, req, panes, peers) THEN Invalid
       ELSE IF org.transport = "broker" THEN BrokerPlan(Cardinality(Population(panes, peers)))
       ELSE RengaPlan(req, panes, peers)

(***************************************************************************)
(* What renga answers to the spawn of a plan, external.                    *)
(***************************************************************************)
Named(name) == {k \in DOMAIN tabs : tabs[k].name = name}
Hosts(selector) ==
    CASE selector.kind = "index" -> {selector.value} \cap DOMAIN tabs
      [] selector.kind = "name" -> Named(selector.value)
      [] selector.kind = "pane" -> {k \in DOMAIN tabs : selector.value \in tabs[k].panes}
      [] OTHER -> {}

SpawnErrors(place) ==
    CASE place.kind = "caller" -> {"split_refused"}
      [] place.kind = "new" -> {"split_refused"} \cup (IF Len(tabs) >= MaxTabs THEN {"tab_limit_reached"} ELSE {})
      [] OTHER -> {"split_refused"}
            \cup CASE Hosts(place.selector) = {} ->
                        {IF place.selector.kind = "pane" THEN "pane_not_found" ELSE "tab_not_found"}
                   [] Cardinality(Hosts(place.selector)) > 1 -> {"tab_ambiguous"}
                   [] OTHER -> {}

\* tab_spawn_error_actions: every error of a tab-directed spawn has its files removed.
RecoveredErrors ==
    {"tab_not_found", "tab_ambiguous", "tab_limit_reached", "target_tab_mismatch", "pane_not_found",
     "server_too_old", "split_refused"}
\* Mutant: no recovery for the anchor that died before the spawn.
BugRecovers(place, error) == place.selector # NoTab /\ error \in RecoveredErrors \ {"pane_not_found"}
Recovers(place, error) == place.selector # NoTab /\ error \in RecoveredErrors

(***************************************************************************)
(* Actions.                                                                *)
(***************************************************************************)
NoRequest == [sound |-> TRUE, tab |-> NoTab, overflow |-> FALSE, peers |-> FALSE, ceiling |-> "good"]
Idle == [pc |-> "idle", panes |-> {}, peers |-> {}, task |-> "none", req |-> NoRequest,
         place |-> Nowhere, seen |-> << >>]

DelegationInit ==
    /\ org \in Orgs
    /\ \E layout \in Layouts : tabs = layout.tabs /\ bound = layout.peers
    /\ roles = [p \in 1..MaxPane |-> IF p \in Open THEN "other" ELSE "none"]
    /\ seed = [t \in Tasks |-> NoSeed]
    /\ instr = {}
    /\ dispatcher = Idle
    /\ job = [t \in Tasks |-> [pc |-> "none", until |-> 0]]
    /\ clock = 0

CapturesPanes ==
    /\ dispatcher.pc = "idle"
    /\ dispatcher' = [dispatcher EXCEPT !.pc = "panes", !.panes = ListPanes]
    /\ UNCHANGED <<org, tabs, roles, bound, seed, instr, job, clock>>

CapturesPeers ==
    /\ dispatcher.pc = "panes"
    /\ dispatcher' = [dispatcher EXCEPT !.pc = "peers", !.peers = ListPeers, !.seen = tabs]
    /\ UNCHANGED <<org, tabs, roles, bound, seed, instr, job, clock>>

\* delegate-plan; the second of its two files may fail to be written.
Plans(task, req, whole) ==
    LET plan == BuildPlan(task, req, dispatcher.panes, dispatcher.peers)
        ready == plan.status = "ready_to_spawn"
    IN /\ dispatcher.pc = "peers"
       /\ seed' = IF ready THEN [seed EXCEPT ![task] = [status |-> "planned", at |-> clock]] ELSE seed
       /\ instr' = IF ready /\ whole THEN instr \cup {task} ELSE instr
       /\ dispatcher' = IF ready /\ whole
                        THEN [dispatcher EXCEPT !.pc = "spawn", !.task = task, !.req = req, !.place = plan.place]
                        ELSE Idle
       /\ job' = IF ready THEN [job EXCEPT ![task] = IF whole THEN [pc |-> "planned", until |-> clock + Headroom]
                                                       ELSE [pc |-> "none", until |-> 0]]
                 ELSE job
       /\ UNCHANGED <<org, tabs, roles, bound, clock>>

Opens(pane, place) ==
    IF place.kind = "new"
    THEN Len(tabs) < MaxTabs /\ tabs' = Append(tabs, [id |-> pane, name |-> "worker", panes |-> {pane}])
    ELSE \E k \in IF place.kind = "caller" THEN {Caller} ELSE Hosts(place.selector) :
            /\ place.kind = "existing" => Cardinality(Hosts(place.selector)) = 1
            /\ tabs' = [tabs EXCEPT ![k].panes = @ \cup {pane}]

\* A number is given once: the lowest no pane ever had.
NextPane == Min({p \in 1..MaxPane : roles[p] = "none"})

Spawns ==
    /\ dispatcher.pc = "spawn"
    /\ \E p \in 1..MaxPane : roles[p] = "none"
    /\ Opens(NextPane, dispatcher.place)
    /\ roles' = [roles EXCEPT ![NextPane] = dispatcher.task]
    /\ job' = [job EXCEPT ![dispatcher.task] = [pc |-> "approving", until |-> clock + Approval]]
    /\ dispatcher' = Idle
    /\ UNCHANGED <<org, bound, seed, instr, clock>>

\* The spawn fails; the dispatcher does what the plan's recovery table says.
SpawnFails(error) ==
    LET t == dispatcher.task
        recovers == Recovers(dispatcher.place, error)
    IN /\ dispatcher.pc = "spawn"
       /\ error \in SpawnErrors(dispatcher.place)
       /\ seed' = IF recovers THEN [seed EXCEPT ![t] = NoSeed] ELSE seed
       /\ instr' = IF recovers THEN instr \ {t} ELSE instr
       /\ job' = [job EXCEPT ![t] = [pc |-> IF dispatcher.place.selector # NoTab THEN "refused" ELSE "none",
                                     until |-> 0]]
       /\ dispatcher' = Idle
       /\ UNCHANGED <<org, tabs, roles, bound, clock>>

\* approve_spawn_prompts ends in time, approved or with an escalation.
Approves(t, approved) ==
    /\ job[t].pc = "approving"
    /\ job' = [job EXCEPT ![t] = IF approved THEN [pc |-> "binding", until |-> clock + Bind]
                                 ELSE [pc |-> "stuck", until |-> 0]]
    /\ UNCHANGED <<org, tabs, roles, bound, seed, instr, dispatcher, clock>>

\* The worker registers as a peer, in time or, seen by nobody's step, never.
Binds(t) ==
    /\ job[t].pc = "binding"
    /\ \E p \in Open : roles[p] = t /\ bound' = bound \cup {p}
    /\ job' = [job EXCEPT ![t] = [pc |-> "running", until |-> 0]]
    /\ UNCHANGED <<org, tabs, roles, seed, instr, dispatcher, clock>>

BindLost(t) ==
    /\ job[t].pc = "binding"
    /\ job' = [job EXCEPT ![t] = [pc |-> "stuck", until |-> 0]]
    /\ UNCHANGED <<org, tabs, roles, bound, seed, instr, dispatcher, clock>>

\* An empty tab goes with its last pane, and the indices after it shift.
TabsWithout(pane) ==
    LET k == TabOf(pane)
    IN IF tabs[k].panes = {pane} THEN RemoveAt(tabs, k) ELSE [tabs EXCEPT ![k].panes = @ \ {pane}]

\* A pane closes, a worker that runs or one nobody awaits any more.
PaneCloses(p) ==
    /\ p \in Open \ {Min(tabs[Caller].panes)}
    /\ roles[p] \in Tasks => job[roles[p]].pc \in {"running", "stuck"}
    /\ tabs' = TabsWithout(p)
    /\ bound' = bound \ {p}
    /\ job' = IF roles[p] \in Tasks THEN [job EXCEPT ![roles[p]] = [pc |-> "over", until |-> 0]] ELSE job
    /\ UNCHANGED <<org, roles, seed, instr, dispatcher, clock>>

\* The dispatcher's monitoring loop records a worker's progress, between delegations.
Monitors(t) ==
    /\ dispatcher.pc = "idle"
    /\ job[t].pc \in {"running", "over"} /\ seed[t].status = "planned"
    /\ seed' = [seed EXCEPT ![t] = [status |-> "progressed", at |-> clock]]
    /\ UNCHANGED <<org, tabs, roles, bound, instr, dispatcher, job, clock>>

\* Steps end by their deadlines, and a plan is made at once from its list_peers: the
\* window leaves no time for a worker to bind and outlive its seed behind an old snapshot.
DelegationTick ==
    /\ clock < MaxClock /\ dispatcher.pc # "peers"
    /\ \A t \in Tasks : job[t].pc \in {"planned", "approving", "binding"} => clock < job[t].until
    /\ clock' = clock + 1
    /\ UNCHANGED <<org, tabs, roles, bound, seed, instr, dispatcher, job>>

DelegationNext ==
    \/ CapturesPanes \/ CapturesPeers \/ Spawns \/ DelegationTick
    \/ \E t \in Tasks, req \in Requests, whole \in BOOLEAN : Plans(t, req, whole)
    \/ \E error \in RecoveredErrors : SpawnFails(error)
    \/ \E t \in Tasks : Binds(t) \/ BindLost(t) \/ Monitors(t) \/ \E ok \in BOOLEAN : Approves(t, ok)
    \/ \E p \in 1..MaxPane : PaneCloses(p)

DelegationSpec == DelegationInit /\ [][DelegationNext]_delegationVars

(***************************************************************************)
(* Properties.                                                             *)
(***************************************************************************)
\* Workers that run, or that some step still waits for.
Alive == {t \in Tasks : job[t].pc \in {"approving", "binding", "running"}}

\* A plan bounded by max_concurrent_workers is made only while fewer workers than that
\* are alive, though both snapshots may miss a worker of another tab that is not a peer
\* yet: the reservations cover the time until it is (count_unbound_reservations).
AdmitsBelowTheCeiling ==
    [][ \A t \in Tasks :
          /\ job[t].pc # "planned" /\ job'[t].pc = "planned"
          /\ org.transport = "broker" \/ (dispatcher'.place.kind = "new" /\ dispatcher'.req.tab = NoTab)
          => Cardinality(Alive) < org.ceiling ]_delegationVars

\* A worker directed to a tab by an index the plan's census knew lands in the tab that had
\* this index then, or nowhere: not in one that moved up when a tab closed.
IndexFollowsTheTab ==
    [][ LET index == dispatcher.req.tab.value
        IN /\ dispatcher.pc = "spawn" /\ roles' # roles /\ org.transport # "broker"
           /\ dispatcher.req.tab.kind = "index" /\ dispatcher.req.peers
           /\ \E q \in dispatcher.peers : q.index = index
           => \E k \in DOMAIN tabs' :
                NextPane \in tabs'[k].panes /\ tabs'[k].id = dispatcher.seen[index].id ]_delegationVars

\* A tab-directed spawn that renga refused, whatever its error, leaves no file that would
\* have the retry of its task refused (tab_spawn_error_actions).
RefusedSpawnsCanBeRetried ==
    \A t \in Tasks : job[t].pc = "refused" => seed[t] = NoSeed /\ t \notin instr

\* Arming --overflow-to-new-tab changes nothing but an escalation for want of room: it
\* never refuses or moves a worker that would have been placed ("a fallback, never a
\* preference"), provided that the ceiling flag, which it has read, is well formed.
OverflowIsAFallback ==
    dispatcher.pc = "peers" =>
        \A t \in Tasks, req \in Requests :
            LET Under(overflow) == BuildPlan(t, [req EXCEPT !.overflow = overflow],
                                             dispatcher.panes, dispatcher.peers)
            IN req.ceiling = "good" /\ Under(TRUE) # Under(FALSE)
                 => Under(FALSE).status = "split_capacity_exceeded"

\* Flags said to be ignored are: --tab and --overflow-to-new-tab by the broker, the
\* ceiling by renga unless overflow can happen, whatever their values.
IgnoredFlagsAreInert ==
    dispatcher.pc = "peers" =>
        \A t \in Tasks, req \in Requests :
            LET plain == IF org.transport = "broker" THEN [req EXCEPT !.tab = NoTab, !.overflow = FALSE]
                         ELSE [req EXCEPT !.ceiling = "good"]
                Plan(r) == BuildPlan(t, r, dispatcher.panes, dispatcher.peers)
            IN org.transport = "broker" \/ ~(req.overflow /\ req.tab = NoTab) => Plan(req) = Plan(plain)

=============================================================================
