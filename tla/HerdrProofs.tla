---------------------------- MODULE HerdrProofs -----------------------------
(***************************************************************************)
(* Theorems about Herdr, for any projects, workspaces, panes, daemons and  *)
(* number of failing requests, and with all three threads at once.         *)
(***************************************************************************)
EXTENDS Herdr, TLAPS

----------------------------------------------------------------------------
(* The inductive invariant *)

Threads == {"spawner", "poller", "reaper"}
Placing == {"present", "split", "start", "discard", "root"}
Working == Placing \cup {"create"}
Pcs == Working \cup {"off", "boot", "idle", "list", "close", "escape", "drop", "scan", "empties",
                     "retry", "sweep", "sole", "closeSole"}
Kinds == {"none", "dead", "root", "starting", "agent", "human"}
Kept == [ws : Spaces, root : 0..MaxPanes]
Thread == [pc : Pcs, key : Keys \cup {"none", "pending"}, ws : 0..MaxSpace, root : 0..MaxPanes,
           pane : 0..MaxPanes, new : BOOLEAN, seen : SUBSET PaneIds, todo : SUBSET Keys,
           due : SUBSET Kept]
Labels == [Spaces -> [gen : Nat, space : Keys \cup {"none"}]]
Panes == [PaneIds -> [ws : 0..MaxSpace, kind : Kinds, boot : Nat]]
Registered == [Keys -> [ws : 0..MaxSpace, root : 0..MaxPanes, misses : Nat]]
Records == [PaneIds -> [space : Keys \cup {"none"}, ws : 0..MaxSpace]]

HerdrTypeOK ==
    /\ label \in Labels /\ pane \in Panes
    /\ spaces \in Registered /\ owned \in Records /\ pending \in SUBSET Kept
    /\ lock \in Threads \cup {"none"}
    /\ thread \in [Threads -> Thread]
    /\ gen \in Nat /\ boots \in Nat /\ forgot \in BOOLEAN /\ faults \in Nat

\* Without a daemon that serves there is no registry.
Shut ==
    /\ Spawner.pc \in {"off", "boot"} =>
          pending = {} /\ lock = "none" /\ Poller = Off /\ Reaper = Off
    /\ Spawner.pc = "off" =>
          spaces = [k \in Keys |-> NoSpace] /\ owned = [p \in PaneIds |-> NoPaneRecord]

\* The number of a root pane is never given to an agent.
Plain(r) == r # 0 => pane[r].kind \in {"root", "dead", "human"}

\* A workspace that is nobody's space any more.
Unused(w) ==
    /\ \A k \in Keys : spaces[k].ws # w
    /\ \A p \in PaneIds : owned[p].ws # w
    /\ \A th \in Threads : thread[th].pc \in Placing => thread[th].ws # w

\* One that is kept for a retry.
Retired(s) == label[s.ws].space \in Keys /\ Unused(s.ws) /\ Plain(s.root)

\* Whatever is known of a workspace knows it by the key in its label.
Shared ==
    /\ \A p \in PaneIds : pane[p].ws # 0 =>
          label[pane[p].ws].space \in Keys /\ pane[p].kind \notin {"none", "dead"}
    /\ \A k \in Keys : Plain(spaces[k].root) /\ (spaces[k].ws # 0 => label[spaces[k].ws].space = k)
    /\ \A p \in PaneIds : owned[p].ws # 0 =>
          owned[p].space \in Keys /\ label[owned[p].ws].space = owned[p].space
    /\ \A s \in pending : Retired(s)

\* What a thread has to hold: a spawn the lock; a sweep of a space the lock and an empty
\* space, a sweep for a retry a workspace nobody uses; and workspace.close ends a root
\* pane or a person's.
Spawns(th) ==
    /\ thread[th].pc \in Working => lock = th /\ thread[th].key \in Keys
    /\ thread[th].pc \in Placing => thread[th].ws # 0 /\ label[thread[th].ws].space = thread[th].key
    /\ thread[th].pc = "start" => thread[th].pane \in PaneIds
Sweeping(th) ==
    /\ thread[th].pc \in {"list", "close"} => thread[th].ws # 0 /\ label[thread[th].ws].space \in Keys
    /\ thread[th].pc \in {"list", "close"} /\ thread[th].key = "pending" => Unused(thread[th].ws)
    /\ thread[th].pc \in {"list", "close"} /\ thread[th].key # "pending" =>
          /\ lock = th /\ thread[th].key = label[thread[th].ws].space
          /\ \A p \in PaneIds : owned[p].space # thread[th].key
          /\ spaces[thread[th].key].ws \in {0, thread[th].ws}
Closing(th) ==
    thread[th].pc = "close" =>
        /\ thread[th].seen \subseteq {thread[th].root}
        /\ \A p \in PaneIds : pane[p].ws = thread[th].ws => pane[p].kind \in {"root", "human"}
Keeps(th) ==
    /\ Plain(thread[th].root)
    /\ thread[th].pc = "sweep" => thread[th].key \in Keys
    /\ thread[th].pc = "closeSole" => lock = th
    /\ \A s \in thread[th].due :
          label[s.ws].space \in Keys /\ (thread[th].pc # "boot" => Retired(s))
Sound(th) == Spawns(th) /\ Sweeping(th) /\ Closing(th) /\ Keeps(th)

\* The generation of a label is the daemon that made the workspace and its agents.
Genuine ==
    /\ gen = boots
    /\ \A k \in Keys : spaces[k].ws # 0 => label[spaces[k].ws].gen = gen
    /\ \A p \in PaneIds : pane[p].kind \in {"starting", "agent"} =>
          pane[p].ws # 0 /\ pane[p].boot = label[pane[p].ws].gen
    /\ \A p \in PaneIds : owned[p].ws # 0 /\ pane[p].kind = "agent" => pane[p].boot = boots
    /\ \A th \in Threads : thread[th].pc \in Placing => label[thread[th].ws].gen = gen
    /\ \A th \in Threads : thread[th].pc = "start" /\ pane[thread[th].pane].kind = "starting" =>
          pane[thread[th].pane].boot = boots
Dated == ~forgot => Genuine

HerdrInv == HerdrTypeOK /\ Shut /\ Shared /\ (\A th \in Threads : Sound(th)) /\ Dated

----------------------------------------------------------------------------
(* Lemmas *)

LEMMA Constants ==
    /\ MaxSpace \in Nat /\ MaxPanes \in Nat
    /\ Control \in Keys /\ "none" \notin Keys /\ "pending" \notin Keys
    /\ \A w \in 0..MaxSpace : w # 0 <=> w \in Spaces
    /\ \A p \in 0..MaxPanes : p # 0 <=> p \in PaneIds
    /\ NoPaneRecord.space = "none" /\ NoPaneRecord.ws = 0
    /\ NoPaneRecord \in [space : Keys \cup {"none"}, ws : 0..MaxSpace]
    /\ NoSpace.ws = 0 /\ NoSpace.root = 0 /\ NoSpace \in [ws : 0..MaxSpace, root : 0..MaxPanes, misses : Nat]
    /\ Dead.ws = 0 /\ Dead.kind = "dead" /\ Dead \in [ws : 0..MaxSpace, kind : Kinds, boot : Nat]
BY HerdrAssumption DEF Control, Keys, Spaces, PaneIds, NoPaneRecord, NoSpace, Dead, Never, Kinds

LEMMA OffThread ==
    /\ Off \in Thread /\ Off.pc = "off" /\ Off.ws = 0 /\ Off.root = 0 /\ Off.due = {}
    /\ \A pc \in Pcs : LET r == [Off EXCEPT !.pc = pc]
                       IN r \in Thread /\ r.pc = pc /\ r.ws = 0 /\ r.root = 0 /\ r.due = {}
<1>1. Off \in Thread /\ Off.pc = "off" /\ Off.ws = 0 /\ Off.root = 0 /\ Off.due = {}
  BY Constants DEF Off, Thread, Pcs
<1>. QED  BY <1>1 DEF Thread

\* A step that changes one thread's record.
LEMMA OneThread ==
    ASSUME HerdrTypeOK, NEW t \in Threads, NEW r \in Thread, thread' = [thread EXCEPT ![t] = r]
    PROVE  /\ thread' \in [Threads -> Thread] /\ thread'[t] = r
           /\ \A th \in Threads \ {t} : thread'[th] = thread[th]
BY DEF HerdrTypeOK

\* What is known of workspaces and panes is of them.
LEMMA Numbers ==
    ASSUME HerdrTypeOK
    PROVE  /\ \A k \in Keys : spaces[k].root # 0 => spaces[k].root \in PaneIds
           /\ \A k \in Keys : spaces[k].ws # 0 => spaces[k].ws \in Spaces
           /\ \A p \in PaneIds : owned[p].ws # 0 => owned[p].ws \in Spaces
           /\ \A p \in PaneIds : pane[p].ws # 0 => pane[p].ws \in Spaces
<1>1. \A k \in Keys : spaces[k].root \in 0..MaxPanes /\ spaces[k].ws \in 0..MaxSpace
  BY DEF HerdrTypeOK, Registered
<1>2. \A p \in PaneIds : owned[p].ws \in 0..MaxSpace /\ pane[p].ws \in 0..MaxSpace
  BY DEF HerdrTypeOK, Records, Panes
<1>. QED  BY <1>1, <1>2, Constants DEF HerdrTypeOK

LEMMA KeptNumbers ==
    ASSUME NEW s \in Kept
    PROVE  s.ws \in Spaces /\ s.ws # 0 /\ (s.root # 0 => s.root \in PaneIds)
BY Constants DEF Kept, Spaces

LEMMA ThreadNumbers ==
    ASSUME HerdrTypeOK, NEW th \in Threads
    PROVE  /\ thread[th] \in Thread
           /\ thread[th].root # 0 => thread[th].root \in PaneIds
           /\ thread[th].ws # 0 => thread[th].ws \in Spaces
           /\ \A s \in thread[th].due : s \in Kept
<1>1. thread[th] \in Thread  BY DEF HerdrTypeOK
<1>2. thread[th].root \in 0..MaxPanes /\ thread[th].ws \in 0..MaxSpace /\ thread[th].due \in SUBSET Kept
  BY <1>1 DEF Thread
<1>. QED  BY <1>1, <1>2, Constants

----------------------------------------------------------------------------
(* Steps that make no workspace and nobody's pane a space's: panes end, the *)
(* registry shrinks, a person opens a pane, a spawn splits one off.         *)

\* Panes stay or end; a person's may open, or one in the workspace thread t spawns in.
PanesMove(t) ==
    /\ pane' \in Panes
    /\ \A p \in PaneIds :
          \/ pane'[p] = pane[p]
          \/ pane'[p] = Dead
          \/ /\ pane[p].kind \in {"none", "dead"} /\ pane'[p].kind = "human"
             /\ pane'[p].ws \in Spaces /\ label[pane'[p].ws].space \in Keys
          \/ /\ pane[p].kind = "none" /\ pane'[p].kind = "starting"
             /\ thread[t].pc \in Placing /\ pane'[p].ws = thread[t].ws /\ pane'[p].boot = boots

RegistryShrinks ==
    /\ spaces' \in Registered /\ owned' \in Records /\ pending' \in SUBSET Kept
    /\ \A k \in Keys : spaces'[k].ws \in {0, spaces[k].ws} /\ spaces'[k].root \in {0, spaces[k].root}
    /\ \A p \in PaneIds : owned'[p] \in {NoPaneRecord, owned[p]}

\* The lock is taken or given back by thread t only, which goes on as r.
GoesOnAs(t, r) ==
    /\ thread' = [thread EXCEPT ![t] = r]
    /\ lock' # lock => {lock, lock'} = {t, "none"}
    /\ r.pc \in Placing => \/ thread[t].pc \in Placing /\ r.ws = thread[t].ws
                           \/ \E k \in Keys : spaces[k].ws = r.ws
    /\ r.pc = "start" => r = thread[t] \/ (r.pane \in PaneIds /\ pane'[r.pane].boot = boots)

AddsRetired == \A s \in pending' \ pending : Retired(s)'

\* What such a step leaves as it was.
LEMMA Undisturbed ==
    ASSUME HerdrInv, NEW t \in Threads, NEW r \in Thread, PanesMove(t), RegistryShrinks, GoesOnAs(t, r),
           UNCHANGED label
    PROVE  /\ \A p \in PaneIds : Plain(p) => Plain(p)'
           /\ \A w \in Spaces : Unused(w) => Unused(w)'
           /\ \A s \in Kept : Retired(s) => Retired(s)'
<1>1. \A p \in PaneIds : Plain(p) => Plain(p)'  BY Constants DEF Plain, PanesMove
<1>2. ASSUME NEW w \in Spaces, Unused(w) PROVE Unused(w)'
  <2>1. w # 0  BY Constants DEF Spaces
  <2>2. \A k \in Keys : spaces'[k].ws # w  BY <1>2, <2>1 DEF RegistryShrinks, Unused
  <2>3. \A p \in PaneIds : owned'[p].ws # w  BY <1>2, <2>1, Constants DEF RegistryShrinks, Unused
  <2>4. \A th \in Threads : thread'[th].pc \in Placing => thread'[th].ws # w
    <3>1. /\ thread'[t] = r /\ \A th \in Threads \ {t} : thread'[th] = thread[th]
      BY OneThread DEF HerdrInv, GoesOnAs
    <3>2. r.pc \in Placing => r.ws # w  BY <1>2 DEF GoesOnAs, Unused
    <3>. QED  BY <1>2, <3>1, <3>2 DEF Unused
  <2>. QED  BY <2>2, <2>3, <2>4 DEF Unused
<1>3. Plain(0)'  BY DEF Plain
<1>4. \A s \in Kept : s.ws \in Spaces /\ (s.root # 0 => s.root \in PaneIds)  BY KeptNumbers
<1>. QED  BY <1>1, <1>2, <1>3, <1>4 DEF Retired

\* The workspace a spawn works in is no other thread's to close.
LEMMA SpawnedIn ==
    ASSUME HerdrInv, NEW t \in Threads, thread[t].pc \in Placing
    PROVE  /\ lock = t /\ thread[t].ws \in Spaces /\ label[thread[t].ws].space \in Keys
           /\ \A u \in Threads : thread[u].pc = "close" => thread[u].ws # thread[t].ws
<1>1. Sound(t)  BY DEF HerdrInv
<1>2. /\ lock = t /\ thread[t].key \in Keys
      /\ thread[t].ws # 0 /\ label[thread[t].ws].space = thread[t].key
  BY <1>1 DEF Sound, Spawns, Working
<1>3. thread[t].ws \in Spaces  BY <1>2, ThreadNumbers DEF HerdrInv
<1>4. ASSUME NEW u \in Threads, thread[u].pc = "close", thread[u].ws = thread[t].ws
      PROVE  FALSE
  <2>1. Sweeping(u)  BY DEF HerdrInv, Sound
  <2>2. Unused(thread[u].ws) => thread[t].ws # thread[u].ws  BY DEF Unused
  <2>3. u # t  BY <1>4 DEF Placing
  <2>. QED  BY <1>2, <1>4, <2>1, <2>2, <2>3 DEF Sweeping
<1>. QED  BY <1>2, <1>3, <1>4

\* A thread that does not move keeps what it has to hold.
LEMMA Stays ==
    ASSUME HerdrInv, NEW t \in Threads, NEW r \in Thread, PanesMove(t), RegistryShrinks, GoesOnAs(t, r),
           UNCHANGED label, NEW u \in Threads, thread'[u] = thread[u], lock = u => lock' = u
    PROVE  Sound(u)'
<1>1. /\ \A p \in PaneIds : Plain(p) => Plain(p)'
      /\ \A w \in Spaces : Unused(w) => Unused(w)'
      /\ \A s \in Kept : Retired(s) => Retired(s)'
  BY Undisturbed
<1>2. Sound(u)  BY DEF HerdrInv
<1>3. Spawns(u)'  BY <1>2 DEF Sound, Spawns
<1>4. Sweeping(u)'
  <2>1. thread[u].ws # 0 => thread[u].ws \in Spaces  BY ThreadNumbers DEF HerdrInv
  <2>2. \A p \in PaneIds : owned'[p].space \in {"none", owned[p].space}
    BY Constants DEF RegistryShrinks
  <2>3. thread[u].key # "none" =>
            \A p \in PaneIds : owned[p].space # thread[u].key => owned'[p].space # thread[u].key
    BY <2>2
  <2>4. thread[u].key \in Keys =>
            thread[u].key # "none" /\ spaces'[thread[u].key].ws \in {0, spaces[thread[u].key].ws}
    BY Constants DEF RegistryShrinks
  <2>. QED  BY <1>1, <1>2, <2>1, <2>3, <2>4 DEF Sound, Sweeping
<1>5. Closing(u)'
  <2>1. SUFFICES ASSUME thread[u].pc = "close", NEW p \in PaneIds, pane'[p].ws = thread[u].ws
                 PROVE  pane'[p].kind \in {"root", "human"}
    BY <1>2 DEF Sound, Closing
  <2>2. thread[u].ws # 0 /\ (pane[p].ws = thread[u].ws => pane[p].kind \in {"root", "human"})
    BY <1>2, <2>1 DEF Sound, Sweeping, Closing
  <2>3. thread[t].pc \in Placing => thread[u].ws # thread[t].ws  BY <2>1, SpawnedIn
  <2>. QED  BY <2>1, <2>2, <2>3, Constants DEF PanesMove
<1>6. Keeps(u)'
  <2>1. Plain(thread[u].root)'
    <3>1. thread[u].root # 0 => thread[u].root \in PaneIds  BY ThreadNumbers DEF HerdrInv
    <3>2. Plain(thread[u].root)  BY <1>2 DEF Sound, Keeps
    <3>3. CASE thread[u].root = 0  BY <3>3 DEF Plain
    <3>4. CASE thread[u].root # 0  BY <1>1, <3>1, <3>2, <3>4 DEF Plain
    <3>. QED  BY <3>3, <3>4
  <2>2. \A s \in thread[u].due : s \in Kept  BY ThreadNumbers DEF HerdrInv
  <2>. QED  BY <1>1, <1>2, <2>1, <2>2 DEF Sound, Keeps
<1>. QED  BY <1>3, <1>4, <1>5, <1>6 DEF Sound

LEMMA Shrinks ==
    ASSUME HerdrInv, NEW t \in Threads, NEW r \in Thread,
           PanesMove(t), RegistryShrinks, GoesOnAs(t, r),
           UNCHANGED <<label, gen, boots, forgot>>, faults' \in Nat,
           Shut', Sound(t)', AddsRetired
    PROVE  HerdrInv'
<1>1. /\ thread' \in [Threads -> Thread] /\ thread'[t] = r
      /\ \A th \in Threads \ {t} : thread'[th] = thread[th]
  BY OneThread DEF HerdrInv, GoesOnAs
<1>2. HerdrTypeOK'
  <2>1. lock' \in Threads \cup {"none"}
    <3>1. lock' # lock => lock' \in {t, "none"}  BY DEF GoesOnAs
    <3>. QED  BY <3>1 DEF HerdrInv, HerdrTypeOK
  <2>. QED  BY <1>1, <2>1 DEF HerdrInv, HerdrTypeOK, PanesMove, RegistryShrinks
<1>3. /\ \A p \in PaneIds : Plain(p) => Plain(p)'
      /\ \A w \in Spaces : Unused(w) => Unused(w)'
      /\ \A s \in Kept : Retired(s) => Retired(s)'
  BY Undisturbed
<1>4. Plain(0)'  BY DEF Plain
<1>5. thread[t].pc \in Placing => thread[t].ws \in Spaces /\ label[thread[t].ws].space \in Keys
  BY SpawnedIn
<1>6. Shared'
  <2>1. ASSUME NEW p \in PaneIds, pane'[p].ws # 0
        PROVE  label[pane'[p].ws].space \in Keys /\ pane'[p].kind \notin {"none", "dead"}
    BY <2>1, <1>5, Constants DEF PanesMove, HerdrInv, Shared
  <2>2. ASSUME NEW k \in Keys
        PROVE  Plain(spaces[k].root)' /\ (spaces'[k].ws # 0 => label[spaces'[k].ws].space = k)
    <3>1. Plain(spaces[k].root) /\ spaces'[k].root \in {0, spaces[k].root}
      BY DEF RegistryShrinks, HerdrInv, Shared
    <3>2. spaces[k].root # 0 => spaces[k].root \in PaneIds  BY Numbers DEF HerdrInv
    <3>3. Plain(spaces[k].root)'
      <4>1. CASE spaces'[k].root = 0  BY <4>1 DEF Plain
      <4>2. CASE spaces'[k].root # 0
        <5>1. spaces'[k].root = spaces[k].root /\ spaces[k].root \in PaneIds  BY <3>1, <3>2, <4>2
        <5>. QED  BY <1>3, <3>1, <5>1 DEF Plain
      <4>. QED  BY <4>1, <4>2
    <3>. QED  BY <3>3 DEF RegistryShrinks, HerdrInv, Shared
  <2>3. ASSUME NEW p \in PaneIds, owned'[p].ws # 0
        PROVE  owned'[p].space \in Keys /\ label[owned'[p].ws].space = owned'[p].space
    BY <2>3, Constants DEF RegistryShrinks, HerdrInv, Shared
  <2>4. \A s \in pending' : Retired(s)'
    <3>1. \A s \in pending : s \in Kept  BY DEF HerdrInv, HerdrTypeOK
    <3>. QED  BY <1>3, <3>1 DEF HerdrInv, Shared, AddsRetired
  <2>. QED  BY <2>1, <2>2, <2>3, <2>4 DEF Shared
<1>7. ASSUME NEW u \in Threads \ {t} PROVE Sound(u)'
  <2>1. u # "none" /\ u # t  BY DEF Threads
  <2>2. lock' # lock => lock \in {t, "none"}  BY DEF GoesOnAs
  <2>. QED  BY <1>1, <2>1, <2>2, Stays
<1>8. Genuine => Genuine'
  <2>. SUFFICES ASSUME Genuine PROVE Genuine'  OBVIOUS
  <2>1. \A k \in Keys : spaces'[k].ws # 0 => label[spaces'[k].ws].gen = gen
    BY DEF RegistryShrinks, Genuine
  <2>2. ASSUME NEW p \in PaneIds, pane'[p].kind \in {"starting", "agent"}
        PROVE  pane'[p].ws # 0 /\ pane'[p].boot = label[pane'[p].ws].gen
    <3>1. thread[t].pc \in Placing => thread[t].ws # 0 /\ label[thread[t].ws].gen = boots
      BY <1>5, Constants DEF Genuine, Spaces
    <3>. QED  BY <2>2, <3>1, Constants DEF PanesMove, Genuine
  <2>3. ASSUME NEW p \in PaneIds, owned'[p].ws # 0, pane'[p].kind = "agent" PROVE pane'[p].boot = boots
    BY <2>3, Constants DEF PanesMove, RegistryShrinks, Genuine
  <2>4. ASSUME NEW th \in Threads, thread'[th].pc \in Placing PROVE label[thread'[th].ws].gen = gen
    <3>1. CASE th # t  BY <1>1, <2>4, <3>1 DEF Genuine
    <3>2. CASE th = t
      <4>1. r.ws # 0  BY <1>1, <2>4, <3>2 DEF Sound, Spawns
      <4>. QED  BY <1>1, <2>4, <3>2, <4>1 DEF GoesOnAs, Genuine
    <3>. QED  BY <3>1, <3>2
  <2>5. ASSUME NEW th \in Threads, thread'[th].pc = "start", pane'[thread'[th].pane].kind = "starting"
        PROVE  pane'[thread'[th].pane].boot = boots
    <3>1. thread'[th] = thread[th] \/ (th = t /\ r.pane \in PaneIds /\ pane'[r.pane].boot = boots)
      BY <1>1, <2>5 DEF GoesOnAs
    <3>2. CASE thread'[th] = thread[th]
      <4>1. thread[th].pane \in PaneIds  BY <2>5, <3>2 DEF HerdrInv, Sound, Spawns
      <4>. QED  BY <2>5, <3>2, <4>1, Constants DEF PanesMove, Genuine
    <3>. QED  BY <1>1, <3>1, <3>2
  <2>. QED  BY <2>1, <2>2, <2>3, <2>4, <2>5 DEF Genuine
<1>9. Dated'  BY <1>8 DEF HerdrInv, Dated
<1>. QED  BY <1>2, <1>6, <1>7, <1>9 DEF HerdrInv

----------------------------------------------------------------------------
(* The steps of the threads of a daemon that serves *)

LEMMA Serving ==
    ASSUME HerdrInv, NEW t \in Threads, thread[t].pc \notin {"off", "boot"}
    PROVE  Spawner.pc \notin {"off", "boot"}
BY OffThread DEF HerdrInv, Shut, Threads, Spawner, Poller, Reaper

LEMMA Charges == ASSUME HerdrTypeOK, NEW o, Charged(o) PROVE faults' \in Nat
BY DEF HerdrTypeOK, Charged

LEMMA ServingStep ==
    ASSUME HerdrInv, NEW t \in Threads, NEW r \in Thread, {thread[t].pc, r.pc} \cap {"off", "boot"} = {},
           PanesMove(t), RegistryShrinks, GoesOnAs(t, r), AddsRetired,
           UNCHANGED <<label, bootVars>>, faults' \in Nat, Sound(t)'
    PROVE  HerdrInv'
<1>1. /\ thread' \in [Threads -> Thread] /\ thread'[t] = r
      /\ \A th \in Threads \ {t} : thread'[th] = thread[th]
  BY OneThread DEF HerdrInv, GoesOnAs
<1>2. thread'["spawner"].pc \notin {"off", "boot"}  BY <1>1, Serving DEF Threads, Spawner
<1>3. Shut'  BY <1>2 DEF Shut, Spawner
<1>. QED  BY <1>3, Shrinks DEF bootVars

\* A thread that is not in the midst of a spawn or a sweep.
LEMMA Rests ==
    ASSUME HerdrInv, NEW t \in Threads, NEW r \in Thread, thread[t].pc \notin {"off", "boot"},
           r.pc \in {"idle", "escape", "drop", "scan", "empties", "retry", "sweep", "sole", "closeSole"},
           r.pc = "sweep" => r.key \in Keys, r.pc = "closeSole" => lock' = t,
           r.root \in {0, thread[t].root}, r.due \subseteq thread[t].due \cup pending,
           thread' = [thread EXCEPT ![t] = r],
           lock' # lock => (lock = t /\ lock' = "none") \/ (lock = "none" /\ lock' = t),
           PanesMove(t), RegistryShrinks, AddsRetired, UNCHANGED <<label, bootVars>>, faults' \in Nat
    PROVE  HerdrInv'
<1>1. GoesOnAs(t, r)  BY DEF GoesOnAs, Placing
<1>2. thread'[t] = r  BY OneThread DEF HerdrInv
<1>3. /\ \A p \in PaneIds : Plain(p) => Plain(p)'
      /\ \A w \in Spaces : Unused(w) => Unused(w)'
      /\ \A s \in Kept : Retired(s) => Retired(s)'
  BY <1>1, Undisturbed DEF bootVars
<1>4. Plain(r.root)'
  <2>1. thread[t].root # 0 => thread[t].root \in PaneIds /\ Plain(thread[t].root)
    BY ThreadNumbers DEF HerdrInv, Sound, Keeps
  <2>2. CASE r.root = 0  BY <2>2 DEF Plain
  <2>3. CASE r.root # 0 /\ r.root = thread[t].root  BY <1>3, <2>1, <2>3
  <2>. QED  BY <2>2, <2>3
<1>5. ASSUME NEW s \in r.due PROVE label'[s.ws].space \in Keys /\ Retired(s)'
  <2>1. s \in Kept  BY DEF Thread
  <2>2. Retired(s)
    <3>1. CASE s \in pending  BY <3>1 DEF HerdrInv, Shared
    <3>2. CASE s \in thread[t].due  BY <3>2 DEF HerdrInv, Sound, Keeps
    <3>. QED  BY <3>1, <3>2
  <2>3. Retired(s)'  BY <1>3, <2>1, <2>2
  <2>. QED  BY <2>3 DEF Retired
<1>6. Sound(t)'
  <2>1. Spawns(t)'  BY <1>2 DEF Spawns, Working, Placing
  <2>2. Sweeping(t)'  BY <1>2 DEF Sweeping
  <2>3. Closing(t)'  BY <1>2 DEF Closing
  <2>4. Keeps(t)'  BY <1>2, <1>4, <1>5 DEF Keeps
  <2>. QED  BY <2>1, <2>2, <2>3, <2>4 DEF Sound
<1>. QED  BY <1>1, <1>6, ServingStep

\* A spawn that goes on where it was.
LEMMA GoesOn ==
    ASSUME HerdrInv, NEW r \in Thread, Spawner.pc \in Working, r.pc \in Working,
           r.pc \in Placing => Spawner.pc \in Placing,
           r.key = Spawner.key, r.ws = Spawner.ws, r.root = Spawner.root, r.due = Spawner.due,
           r.pc = "start" => r.pane \in PaneIds /\ pane'[r.pane].boot = boots,
           thread' = [thread EXCEPT !["spawner"] = r], UNCHANGED lock,
           PanesMove("spawner"), RegistryShrinks, UNCHANGED <<label, pending, bootVars>>, faults' \in Nat
    PROVE  HerdrInv'
<1> DEFINE t == "spawner"
<1>0. t \in Threads  BY DEF Threads
<1>1. GoesOnAs(t, r) /\ AddsRetired  BY DEF GoesOnAs, AddsRetired, Spawner
<1>2. thread'[t] = r  BY <1>0, OneThread DEF HerdrInv
<1>3. /\ \A p \in PaneIds : Plain(p) => Plain(p)'
      /\ \A w \in Spaces : Unused(w) => Unused(w)'
      /\ \A s \in Kept : Retired(s) => Retired(s)'
  BY <1>0, <1>1, Undisturbed DEF bootVars
<1>4. Sound(t)  BY <1>0 DEF HerdrInv
<1>5. Plain(r.root)'
  <2>1. r.root # 0 => r.root \in PaneIds /\ Plain(r.root)
    BY <1>0, <1>4, ThreadNumbers DEF HerdrInv, Sound, Keeps, Spawner
  <2>2. CASE r.root = 0  BY <2>2 DEF Plain
  <2>3. CASE r.root # 0  BY <1>3, <2>1, <2>3
  <2>. QED  BY <2>2, <2>3
<1>6. ASSUME NEW s \in r.due PROVE label'[s.ws].space \in Keys /\ Retired(s)'
  <2>1. s \in Kept  BY DEF Thread
  <2>2. Retired(s)  BY <1>4 DEF Sound, Keeps, Working, Placing, Spawner
  <2>3. Retired(s)'  BY <1>3, <2>1, <2>2
  <2>. QED  BY <2>3 DEF Retired
<1>7. Sound(t)'
  <2>1. Spawns(t)'  BY <1>2, <1>4 DEF Sound, Spawns, Spawner
  <2>2. Sweeping(t)'  BY <1>2 DEF Sweeping, Working, Placing
  <2>3. Closing(t)'  BY <1>2 DEF Closing, Working, Placing
  <2>4. Keeps(t)'  BY <1>2, <1>5, <1>6 DEF Keeps, Working, Placing
  <2>. QED  BY <2>1, <2>2, <2>3, <2>4 DEF Sound
<1>. QED  BY <1>0, <1>1, <1>7, ServingStep DEF Working, Placing, Spawner

\* A sweep that has the lock takes up a space without records.
LEMMA TakesUp ==
    ASSUME HerdrInv, NEW t \in Threads, NEW r \in Thread, thread[t].pc \notin {"off", "boot"},
           NEW k \in Keys, Sweepable(k), r.pc = "list", r.key = k,
           r.ws = spaces[k].ws, r.root = spaces[k].root,
           r.due \subseteq thread[t].due,
           thread' = [thread EXCEPT ![t] = r], lock \in {t, "none"}, lock' = t,
           PanesMove(t), UNCHANGED <<label, registry, bootVars>>, faults' \in Nat
    PROVE  HerdrInv'
<1>1. GoesOnAs(t, r) /\ RegistryShrinks /\ AddsRetired
  BY DEF GoesOnAs, Placing, RegistryShrinks, AddsRetired, registry, HerdrInv, HerdrTypeOK
<1>2. thread'[t] = r  BY OneThread DEF HerdrInv
<1>3. /\ \A p \in PaneIds : Plain(p) => Plain(p)'
      /\ \A s \in Kept : Retired(s) => Retired(s)'
  BY <1>1, Undisturbed DEF bootVars
<1>4. Plain(r.root)'
  <2>1. r.root # 0 => r.root \in PaneIds /\ Plain(r.root)
    BY Numbers DEF HerdrInv, Shared
  <2>2. CASE r.root = 0  BY <2>2 DEF Plain
  <2>3. CASE r.root # 0  BY <1>3, <2>1, <2>3
  <2>. QED  BY <2>2, <2>3
<1>5. ASSUME NEW s \in r.due PROVE label'[s.ws].space \in Keys /\ Retired(s)'
  <2>1. s \in Kept  BY DEF Thread
  <2>2. Retired(s)  BY DEF HerdrInv, Sound, Keeps
  <2>3. Retired(s)'  BY <1>3, <2>1, <2>2
  <2>. QED  BY <2>3 DEF Retired
<1>6. Sound(t)'
  <2>1. Spawns(t)'  BY <1>2 DEF Spawns, Working, Placing
  <2>2. Sweeping(t)'  BY <1>2, Constants DEF Sweeping, Sweepable, registry, HerdrInv, Shared
  <2>3. Closing(t)'  BY <1>2 DEF Closing
  <2>4. Keeps(t)'  BY <1>2, <1>4, <1>5 DEF Keeps
  <2>. QED  BY <2>1, <2>2, <2>3, <2>4 DEF Sound
<1>. QED  BY <1>1, <1>6, ServingStep

LEMMA Ends ==
    ASSUME HerdrTypeOK, NEW t, pane' = pane \/ \E panes : pane' = PanesEnded(panes)
    PROVE  PanesMove(t)
<1>1. CASE pane' = pane  BY <1>1 DEF PanesMove, HerdrTypeOK
<1>2. ASSUME NEW panes, pane' = PanesEnded(panes) PROVE PanesMove(t)
  BY <1>2, Constants DEF PanesMove, PanesEnded, HerdrTypeOK, Panes
<1>. QED  BY <1>1, <1>2

LEMMA DropShrinks ==
    ASSUME HerdrTypeOK, NEW keys, Drop(keys)
    PROVE  /\ spaces' \in Registered /\ owned' \in Records
           /\ \A k \in Keys : spaces'[k] = IF k \in keys THEN NoSpace ELSE spaces[k]
           /\ \A p \in PaneIds : owned'[p] \in {NoPaneRecord, owned[p]}
           /\ \A p \in PaneIds : (\E k \in keys : spaces[k].ws = owned[p].ws) => owned'[p] = NoPaneRecord
<1>1. spaces' \in Registered  BY Constants DEF Drop, HerdrTypeOK, Registered
<1>2. owned' \in Records  BY Constants DEF Drop, HerdrTypeOK, Records
<1>. QED  BY <1>1, <1>2 DEF Drop

LEMMA DropRegistry ==
    ASSUME HerdrTypeOK, NEW keys, Drop(keys), pending' \subseteq pending
    PROVE  RegistryShrinks /\ AddsRetired
<1>1. pending' \in SUBSET Kept  BY DEF HerdrTypeOK
<1>2. AddsRetired  BY DEF AddsRetired
<1>3. \A k \in Keys : spaces'[k].ws \in {0, spaces[k].ws} /\ spaces'[k].root \in {0, spaces[k].root}
  BY DropShrinks, Constants
<1>. QED  BY <1>1, <1>2, <1>3, DropShrinks DEF RegistryShrinks

LEMMA SameRegistry ==
    ASSUME HerdrTypeOK, UNCHANGED registry
    PROVE  RegistryShrinks /\ AddsRetired
BY DEF HerdrTypeOK, RegistryShrinks, AddsRetired, registry

LEMMA SweptRecord ==
    ASSUME HerdrTypeOK, NEW th \in Threads
    PROVE  \E r \in Thread :
              /\ Swept(th) = [thread EXCEPT ![th] = r]
              /\ r.pc \in {"retry", "empties", "idle"} /\ r.root = 0 /\ r.due \subseteq thread[th].due
<1> DEFINE pc == IF thread[th].key = "pending" THEN "retry" ELSE "empties"
           r == [Off EXCEPT !.pc = pc, !.todo = thread[th].todo, !.due = thread[th].due]
           idle == [Off EXCEPT !.pc = "idle"]
<1>1. CASE th = "poller"
  <2>1. thread[th].todo \in SUBSET Keys /\ thread[th].due \in SUBSET Kept  BY DEF HerdrTypeOK, Thread
  <2>2. r \in Thread /\ r.pc = pc /\ r.root = 0 /\ r.due = thread[th].due
    BY <2>1, OffThread DEF Thread, Pcs
  <2>3. Swept(th) = [thread EXCEPT ![th] = r]  BY <1>1 DEF Swept
  <2>. QED  BY <2>2, <2>3
<1>2. CASE th # "poller"
  <2>1. idle \in Thread /\ idle.pc = "idle" /\ idle.root = 0 /\ idle.due = {}
    BY OffThread DEF Pcs
  <2>2. Swept(th) = [thread EXCEPT ![th] = idle]  BY <1>2 DEF Swept, Resting
  <2>. QED  BY <2>1, <2>2
<1>. QED  BY <1>1, <1>2

\* What a sweep leaves for a retry is no space any more, and nobody's.
LEMMA LeavesUnused ==
    ASSUME HerdrInv, NEW th \in Threads, thread[th].pc \in {"list", "close"}, thread[th].key # "pending",
           Drop({thread[th].key}), NEW w, w # 0, w = spaces[thread[th].key].ws,
           \A u \in Threads : thread'[u].pc \in Placing => thread'[u] = thread[u]
    PROVE  Unused(w)'
<1> DEFINE k == thread[th].key
<1>1. lock = th /\ k \in Keys /\ w = thread[th].ws /\ label[w].space = k
  <2>1. Sweeping(th)  BY DEF HerdrInv, Sound
  <2>. QED  BY <2>1 DEF Sweeping, HerdrInv, Shared
<1>2. \A j \in Keys : spaces'[j].ws # w
  <2>1. \A j \in Keys : spaces'[j] = IF j = k THEN NoSpace ELSE spaces[j]
    BY DropShrinks DEF HerdrInv
  <2>2. \A j \in Keys : j # k => spaces[j].ws # w  BY <1>1 DEF HerdrInv, Shared
  <2>. QED  BY <2>1, <2>2, Constants
<1>3. \A p \in PaneIds : owned'[p].ws # w
  <2>1. \A p \in PaneIds : owned'[p] \in {NoPaneRecord, owned[p]} /\ (owned[p].ws = w => owned'[p] = NoPaneRecord)
    BY DropShrinks DEF HerdrInv
  <2>. QED  BY <2>1, Constants
<1>4. ASSUME NEW u \in Threads, thread'[u].pc \in Placing PROVE thread'[u].ws # w
  <2>1. thread'[u] = thread[u] /\ thread[u].pc \in Placing  BY <1>4
  <2>2. lock = u  BY <2>1 DEF HerdrInv, Sound, Spawns, Working
  <2>. QED  BY <1>1, <2>1, <2>2 DEF Placing
<1>. QED  BY <1>2, <1>3, <1>4 DEF Unused

LEMMA SweepDone ==
    ASSUME HerdrInv, NEW th \in Threads, thread[th].pc \in {"list", "close"},
           NEW status, SweepEnds(th, status),
           pane' = pane \/ \E panes : pane' = PanesEnded(panes), UNCHANGED <<label, bootVars>>, faults' \in Nat
    PROVE  HerdrInv'
<1> DEFINE k == thread[th].key
<1>0. HerdrTypeOK /\ Sweeping(th)  BY DEF HerdrInv, Sound
<1>1. PanesMove(th)  BY <1>0, Ends
<1>2. PICK r \in Thread :
         /\ thread' = [thread EXCEPT ![th] = r]
         /\ r.pc \in {"retry", "empties", "idle"} /\ r.root = 0 /\ r.due \subseteq thread[th].due
  BY <1>0, SweptRecord DEF SweepEnds
<1>3. lock' # lock => lock = th /\ lock' = "none"  BY <1>0 DEF SweepEnds, Sweeping
<1>4. RegistryShrinks /\ AddsRetired
  <2>1. CASE k = "pending"
    <3>1. UNCHANGED <<spaces, owned>> /\ pending' \subseteq pending  BY <2>1 DEF SweepEnds
    <3>. QED  BY <1>0, <3>1 DEF RegistryShrinks, AddsRetired, HerdrTypeOK
  <2>2. CASE k # "pending" /\ status = "unknown"
    <3>1. UNCHANGED <<spaces, owned>> /\ pending' = pending  BY <2>2 DEF SweepEnds
    <3>. QED  BY <1>0, <3>1, SameRegistry DEF registry
  <2>3. CASE k # "pending" /\ status # "unknown" /\ ~(status \in {"occupied", "close_failed"} /\ spaces[k].ws # 0)
    <3>1. Drop({k}) /\ pending' = pending  BY <2>3 DEF SweepEnds
    <3>. QED  BY <1>0, <3>1, DropRegistry
  <2>4. CASE k # "pending" /\ status # "unknown" /\ status \in {"occupied", "close_failed"} /\ spaces[k].ws # 0
    <3>0. PICK s : s = [ws |-> spaces[k].ws, root |-> spaces[k].root]  OBVIOUS
    <3>1. Drop({k}) /\ pending' = pending \cup {s}  BY <2>4, <3>0 DEF SweepEnds
    <3>2. k \in Keys /\ s.ws = spaces[k].ws /\ s.root = spaces[k].root
      BY <1>0, <2>4, <3>0 DEF Sweeping
    <3>3. s \in Kept /\ (s.root # 0 => s.root \in PaneIds)
      <4>1. spaces[k].ws \in Spaces /\ spaces[k].root \in 0..MaxPanes
        BY <1>0, <2>4, <3>2, Numbers DEF HerdrTypeOK, Registered
      <4>. QED  BY <3>0, <3>2, <4>1, Constants DEF Kept
    <3>4. RegistryShrinks
      <4>1. pending' \in SUBSET Kept  BY <1>0, <3>1, <3>3 DEF HerdrTypeOK
      <4>2. \A j \in Keys : spaces'[j].ws \in {0, spaces[j].ws} /\ spaces'[j].root \in {0, spaces[j].root}
        BY <1>0, <3>1, DropShrinks, Constants
      <4>. QED  BY <1>0, <3>1, <4>1, <4>2, DropShrinks DEF RegistryShrinks
    <3>5. GoesOnAs(th, r)  BY <1>2, <1>3 DEF GoesOnAs, Placing
    <3>6. Plain(s.root)'
      <4>1. Plain(s.root)  BY <3>2 DEF HerdrInv, Shared
      <4>2. \A p \in PaneIds : Plain(p) => Plain(p)'  BY <1>1, <3>4, <3>5, Undisturbed DEF bootVars
      <4>3. CASE s.root = 0  BY <4>3 DEF Plain
      <4>4. CASE s.root # 0  BY <3>3, <4>1, <4>2, <4>4
      <4>. QED  BY <4>3, <4>4
    <3>7. Unused(s.ws)'
      <4>1. \A u \in Threads : thread'[u].pc \in Placing => thread'[u] = thread[u]
        BY <1>0, <1>2, OneThread DEF Placing
      <4>. QED  BY <2>4, <3>1, <3>2, <4>1, LeavesUnused
    <3>8. label'[s.ws].space \in Keys  BY <2>4, <3>2 DEF HerdrInv, Shared
    <3>9. Retired(s)'  BY <3>6, <3>7, <3>8 DEF Retired
    <3>. QED  BY <3>1, <3>4, <3>9 DEF AddsRetired
  <2>. QED  BY <2>1, <2>2, <2>3, <2>4
<1>. QED  BY <1>0, <1>1, <1>2, <1>3, <1>4, Rests

----------------------------------------------------------------------------
(* One lemma per action *)

LEMMA Turned ==
    ASSUME NEW x \in Thread, NEW pc \in Pcs, NEW r, r = [x EXCEPT !.pc = pc]
    PROVE  /\ r \in Thread /\ r.pc = pc /\ r.key = x.key /\ r.ws = x.ws /\ r.root = x.root
           /\ r.pane = x.pane /\ r.todo = x.todo /\ r.due = x.due /\ r.seen = x.seen
BY DEF Thread

LEMMA Unmoved ==
    ASSUME HerdrInv, PanesMove("poller"), UNCHANGED <<label, registry, lock, thread, bootVars, faults>>
    PROVE  HerdrInv'
<1>1. RegistryShrinks /\ AddsRetired  BY SameRegistry DEF HerdrInv
<1>2. "poller" \in Threads /\ Poller \in Thread /\ thread' = [thread EXCEPT !["poller"] = Poller]
  BY DEF Threads, HerdrInv, HerdrTypeOK, Poller
<1>3. GoesOnAs("poller", Poller)  BY <1>2 DEF GoesOnAs, Poller
<1>4. Shut'  BY DEF HerdrInv, Shut, registry, Spawner, Poller, Reaper
<1>5. Sound("poller")'  BY <1>1, <1>2, <1>3, Stays
<1>6. faults' \in Nat  BY DEF HerdrInv, HerdrTypeOK
<1>. QED  BY <1>1, <1>2, <1>3, <1>4, <1>5, <1>6, Shrinks DEF bootVars

LEMMA PaneExit == ASSUME HerdrInv, NEW p \in PaneIds, PaneExits(p) PROVE HerdrInv'
<1>1. PanesMove("poller")  BY Ends DEF PaneExits, HerdrInv
<1>. QED  BY <1>1, Unmoved DEF PaneExits

LEMMA HumanOpen == ASSUME HerdrInv, NEW w \in Spaces, NEW p \in PaneIds, HumanOpens(w, p) PROVE HerdrInv'
<1>1. label[w].space \in Keys  BY DEF HumanOpens, Living, PanesOf, HerdrInv, Shared
<1>2. pane[p].kind \in {"none", "dead"}  BY DEF HumanOpens, Fresh
<1>3. pane' \in Panes
  <2>1. w \in 0..MaxSpace /\ "human" \in Kinds /\ boots \in Nat
    BY Constants DEF Spaces, Kinds, HerdrInv, HerdrTypeOK
  <2>. QED  BY <2>1 DEF HumanOpens, Made, HerdrInv, HerdrTypeOK, Panes
<1>4. pane' = [pane EXCEPT ![p] = [ws |-> w, kind |-> "human", boot |-> boots]]  BY DEF HumanOpens, Made
<1>5. pane'[p].kind = "human" /\ pane'[p].ws = w /\ \A q \in PaneIds \ {p} : pane'[q] = pane[q]
  BY <1>4 DEF HerdrInv, HerdrTypeOK, Panes
<1>6. PanesMove("poller")  BY <1>1, <1>2, <1>3, <1>5 DEF PanesMove
<1>. QED  BY <1>6, Unmoved DEF HumanOpens

LEMMA Listed ==
    ASSUME HerdrInv, NEW th \in Threads, NEW o, Lists(th, o)
    PROVE  HerdrInv'
<1> DEFINE me == thread[th]
<1>0. HerdrTypeOK /\ faults' \in Nat /\ Sound(th) /\ me \in Thread
  BY Charges DEF HerdrInv, HerdrTypeOK, Lists
<1>1. CASE \E status : SweepEnds(th, status)
  BY <1>0, <1>1, SweepDone DEF Lists, server
<1>2. CASE ~\E status : SweepEnds(th, status)
  <2>0. PICK r : r = [me EXCEPT !.pc = "close", !.seen = PanesOf(me.ws)]  OBVIOUS
  <2>1. /\ thread' = [thread EXCEPT ![th].pc = "close", ![th].seen = PanesOf(me.ws)]
        /\ UNCHANGED <<registry, lock>> /\ PanesOf(me.ws) \subseteq OwnPanes(me.ws, me.root)
    BY <1>2 DEF Lists
  <2>2. thread' = [thread EXCEPT ![th] = r]  BY <1>0, <2>0, <2>1 DEF HerdrTypeOK
  <2>3. /\ r \in Thread /\ r.pc = "close" /\ r.key = me.key /\ r.ws = me.ws /\ r.root = me.root
        /\ r.due = me.due /\ r.seen = PanesOf(me.ws)
    BY <1>0, <2>0 DEF Thread, Pcs, PanesOf
  <2>4. GoesOnAs(th, r)  BY <2>1, <2>2, <2>3 DEF GoesOnAs, Placing
  <2>5. PanesMove(th) /\ RegistryShrinks /\ AddsRetired
    BY <1>0, <2>1, Ends, SameRegistry DEF Lists, server
  <2>6. /\ \A w \in Spaces : Unused(w) => Unused(w)'
        /\ \A s \in Kept : Retired(s) => Retired(s)'
    BY <2>3, <2>4, <2>5, Undisturbed DEF Lists, server
  <2>7. thread'[th] = r  BY <1>0, <2>2, <2>3, OneThread
  <2>8. me.pc = "list" /\ me.ws # 0 /\ me.ws \in Spaces
    BY <1>0, ThreadNumbers DEF Lists, Sound, Sweeping
  <2>9. \A p \in PaneIds : owned[p].ws # me.ws
    <3>1. CASE me.key = "pending"  BY <1>0, <2>8, <3>1 DEF Sound, Sweeping, Unused
    <3>2. CASE me.key # "pending"  BY <1>0, <2>8, <3>2 DEF Sound, Sweeping, HerdrInv, Shared
    <3>. QED  BY <3>1, <3>2
  <2>10. PanesOf(me.ws) \subseteq {me.root}  BY <2>1, <2>9 DEF OwnPanes
  <2>11. Spawns(th)'  BY <2>3, <2>7 DEF Spawns, Working, Placing
  <2>12. Sweeping(th)'
    BY <1>0, <2>1, <2>3, <2>6, <2>7, <2>8 DEF Sound, Sweeping, Lists, server, registry
  <2>13. Closing(th)'
    <3>1. \A p \in PaneIds : pane[p].ws = me.ws => p = me.root  BY <2>10 DEF PanesOf
    <3>2. \A p \in PaneIds : pane[p].ws = me.ws => pane[p].kind \in {"root", "human"}
      <4>1. Plain(me.root)  BY <1>0 DEF Sound, Keeps
      <4>2. me.root \in PaneIds => me.root # 0  BY DEF PaneIds
      <4>. QED  BY <2>8, <3>1, <4>1, <4>2 DEF Plain, HerdrInv, Shared
    <3>. QED  BY <2>3, <2>7, <2>10, <3>2 DEF Closing, Lists, server
  <2>14. Keeps(th)'
    <3>1. \A s \in me.due : s \in Kept  BY <1>0, ThreadNumbers
    <3>2. Plain(r.root)'  BY <1>0, <2>3 DEF Sound, Keeps, Plain, Lists, server
    <3>. QED  BY <1>0, <2>3, <2>6, <2>7, <2>8, <3>1, <3>2 DEF Sound, Keeps, Lists, server
  <2>15. Sound(th)'  BY <2>11, <2>12, <2>13, <2>14 DEF Sound
  <2>. QED  BY <1>0, <2>3, <2>4, <2>5, <2>8, <2>15, ServingStep DEF Lists, server
<1>. QED  BY <1>1, <1>2

LEMMA Closed ==
    ASSUME HerdrInv, NEW th \in Threads, NEW o, ClosesIfEmpty(th, o)
    PROVE  HerdrInv'
<1>1. faults' \in Nat  BY Charges DEF HerdrInv, ClosesIfEmpty
<1>2. pane' = pane \/ \E panes : pane' = PanesEnded(panes)  BY DEF ClosesIfEmpty
<1>3. \E status : SweepEnds(th, status)  BY DEF ClosesIfEmpty
<1>. QED  BY <1>1, <1>2, <1>3, SweepDone DEF ClosesIfEmpty

LEMMA SpawnBegun == ASSUME HerdrInv, NEW k \in Keys, SpawnBegins(k) PROVE HerdrInv'
<1> DEFINE pc == IF spaces[k].ws = 0 THEN "create" ELSE "present"
<1>0. "spawner" \in Threads /\ HerdrTypeOK /\ Spawner \in Thread /\ Sound("spawner")
  BY DEF Threads, HerdrInv, HerdrTypeOK, Spawner
<1>1. PICK r : r = [Spawner EXCEPT !.pc = pc, !.key = k, !.ws = spaces[k].ws, !.root = spaces[k].root]
  OBVIOUS
<1>2. /\ thread' = [thread EXCEPT !["spawner"] = r] /\ r \in Thread
      /\ r.pc = pc /\ r.key = k /\ r.ws = spaces[k].ws /\ r.root = spaces[k].root
      /\ r.due = Spawner.due
  <2>1. thread' = [thread EXCEPT !["spawner"] = r]  BY <1>1 DEF SpawnBegins, Spawner
  <2>. QED  BY <1>0, <1>1, <2>1, Constants DEF HerdrTypeOK, Registered, Thread, Pcs, Working, Placing
<1>3. GoesOnAs("spawner", r)  BY <1>2 DEF GoesOnAs, Placing, SpawnBegins
<1>4. PanesMove("spawner") /\ RegistryShrinks /\ AddsRetired
  BY <1>0, Ends, SameRegistry DEF SpawnBegins, server
<1>5. \A s \in Kept : Retired(s) => Retired(s)'
  BY <1>0, <1>2, <1>3, <1>4, Undisturbed DEF SpawnBegins, server
<1>6. thread'["spawner"] = r  BY <1>0, <1>2, OneThread
<1>7. Sound("spawner")'
  <2>1. Spawns("spawner")'
    BY <1>2, <1>6 DEF Spawns, Working, Placing, SpawnBegins, server, HerdrInv, Shared
  <2>2. Sweeping("spawner")'  BY <1>2, <1>6 DEF Sweeping
  <2>3. Closing("spawner")'  BY <1>2, <1>6 DEF Closing
  <2>4. Keeps("spawner")'
    <3>1. \A s \in Spawner.due : s \in Kept /\ Retired(s) /\ label[s.ws].space \in Keys
      BY <1>0, ThreadNumbers DEF Sound, Keeps, SpawnBegins, Spawner
    <3>2. Plain(r.root)'  BY <1>2 DEF SpawnBegins, server, Plain, HerdrInv, Shared
    <3>. QED  BY <1>2, <1>5, <1>6, <3>1, <3>2 DEF Keeps, SpawnBegins, server
  <2>. QED  BY <2>1, <2>2, <2>3, <2>4 DEF Sound
<1>8. faults' \in Nat  BY <1>0 DEF SpawnBegins, HerdrTypeOK
<1>. QED  BY <1>0, <1>2, <1>3, <1>4, <1>7, <1>8, ServingStep DEF SpawnBegins, server, Spawner

LEMMA SpaceFound == ASSUME HerdrInv, NEW o, FindsSpace(o) PROVE HerdrInv'
<1> DEFINE k == Spawner.key
<1>0. "spawner" \in Threads /\ HerdrTypeOK /\ Spawner \in Thread /\ faults' \in Nat
  BY Charges DEF Threads, HerdrInv, HerdrTypeOK, Spawner, FindsSpace
<1>1. PanesMove("spawner")  BY <1>0, Ends DEF FindsSpace, server
<1>2. PICK pc, r : /\ pc \in {"split", "create"} /\ r = [Spawner EXCEPT !.pc = pc]
                  /\ thread' = [thread EXCEPT !["spawner"] = r]
  BY DEF FindsSpace, Go, Spawner
<1>3. pc \in Pcs /\ pc \in Working /\ (pc \in Placing <=> pc = "split")  BY <1>2 DEF Pcs, Working, Placing
<1>4. /\ r \in Thread /\ r.pc = pc /\ r.key = Spawner.key /\ r.ws = Spawner.ws /\ r.root = Spawner.root
      /\ r.due = Spawner.due
  BY <1>0, <1>2, <1>3, Turned
<1>5. RegistryShrinks
  <2>1. CASE Drop({k})
    BY <1>0, <2>1, DropRegistry DEF FindsSpace
  <2>2. CASE spaces' = spaces /\ UNCHANGED owned
    BY <1>0, <2>2 DEF FindsSpace, RegistryShrinks, HerdrTypeOK
  <2>3. CASE spaces' = [spaces EXCEPT ![k].misses = 0] /\ UNCHANGED owned
    <3>1. spaces' \in Registered  BY <1>0, <2>3 DEF HerdrTypeOK, Registered
    <3>2. \A j \in Keys : spaces'[j].ws = spaces[j].ws /\ spaces'[j].root = spaces[j].root
      BY <1>0, <2>3 DEF HerdrTypeOK, Registered
    <3>. QED  BY <1>0, <2>3, <3>1, <3>2 DEF FindsSpace, RegistryShrinks, HerdrTypeOK
  <2>. QED  BY <2>1, <2>2, <2>3 DEF FindsSpace
<1>. QED  BY <1>0, <1>1, <1>2, <1>3, <1>4, <1>5, GoesOn DEF FindsSpace, Working, Placing, server

LEMMA Rested ==
    ASSUME HerdrInv, NEW t \in Threads, thread[t].pc \notin {"off", "boot"}, thread' = Resting(t),
           lock' # lock => lock = t /\ lock' = "none",
           PanesMove(t), RegistryShrinks, AddsRetired, UNCHANGED <<label, bootVars>>, faults' \in Nat
    PROVE  HerdrInv'
<1>1. PICK r : r = [Off EXCEPT !.pc = "idle"]  OBVIOUS
<1>2. r \in Thread /\ r.pc = "idle" /\ r.root = 0 /\ r.due = {}  BY <1>1, OffThread DEF Pcs
<1>3. thread' = [thread EXCEPT ![t] = r]  BY <1>1 DEF Resting
<1>. QED  BY <1>2, <1>3, Rests

LEMMA SpawnFailed ==
    ASSUME HerdrInv, Spawner.pc \in Working, SpawnErrs,
           PanesMove("spawner"), UNCHANGED <<label, registry, bootVars>>, faults' \in Nat
    PROVE  HerdrInv'
<1> DEFINE k == Spawner.key
<1>0. "spawner" \in Threads /\ HerdrTypeOK /\ Spawner \in Thread /\ Sound("spawner")
  BY DEF Threads, HerdrInv, HerdrTypeOK, Spawner
<1>1. k \in Keys /\ lock = "spawner"  BY <1>0 DEF Sound, Spawns, Spawner
<1>2. CASE Spawner.new /\ Sweepable(k)
  <2>1. PICK r : r = [Spawner EXCEPT !.pc = "list", !.key = k, !.ws = spaces[k].ws, !.root = spaces[k].root]
    OBVIOUS
  <2>2. /\ r \in Thread /\ r.pc = "list" /\ r.key = k /\ r.ws = spaces[k].ws /\ r.root = spaces[k].root
        /\ r.due = Spawner.due
    BY <1>0, <1>1, <2>1 DEF HerdrTypeOK, Registered, Thread, Pcs
  <2>3. thread' = [thread EXCEPT !["spawner"] = r] /\ lock' = "spawner"
    BY <1>0, <1>2, <2>1 DEF SpawnErrs, Failing, Released, Listing, Spawner, HerdrTypeOK
  <2>. QED  BY <1>0, <1>1, <1>2, <2>2, <2>3, TakesUp DEF Working, Placing, Spawner
<1>3. CASE ~(Spawner.new /\ Sweepable(k))
  <2>1. thread' = Resting("spawner") /\ lock' = "none"  BY <1>3 DEF SpawnErrs, Failing, Released
  <2>. QED  BY <1>0, <1>1, <2>1, SameRegistry, Rested DEF Working, Placing, Spawner
<1>. QED  BY <1>2, <1>3

LEMMA OnePane ==
    ASSUME HerdrTypeOK, NEW p \in PaneIds, NEW w \in Spaces, NEW kind \in Kinds, pane' = Made(p, w, kind)
    PROVE  /\ pane' \in Panes /\ pane'[p].kind = kind /\ pane'[p].ws = w /\ pane'[p].boot = boots
           /\ \A q \in PaneIds \ {p} : pane'[q] = pane[q]
<1>1. w \in 0..MaxSpace /\ boots \in Nat  BY Constants DEF Spaces, HerdrTypeOK
<1>2. pane' \in Panes  BY <1>1 DEF Made, HerdrTypeOK, Panes
<1>. QED  BY <1>2 DEF Made, HerdrTypeOK, Panes

LEMMA PaneSplit == ASSUME HerdrInv, NEW o, Splits(o) PROVE HerdrInv'
<1>0. /\ "spawner" \in Threads /\ HerdrTypeOK /\ Spawner \in Thread /\ faults' \in Nat
      /\ Spawner.pc \in Placing /\ Spawner.pc \in Working
  BY Charges DEF Threads, HerdrInv, HerdrTypeOK, Spawner, Splits, Placing, Working
<1>1. CASE SpawnErrs /\ UNCHANGED pane
  <2>1. PanesMove("spawner")  BY <1>0, <1>1, Ends
  <2>. QED  BY <1>0, <1>1, <2>1, SpawnFailed DEF Splits
<1>2. ASSUME NEW p \in Fresh, pane' = Made(p, Spawner.ws, "starting"), SpawnErrs PROVE HerdrInv'
  <2>1. p \in PaneIds /\ pane[p].kind = "none" /\ Spawner.ws \in Spaces
    BY <1>0, SpawnedIn DEF Fresh, Spawner
  <2>2. /\ pane' \in Panes /\ pane'[p].kind = "starting" /\ pane'[p].ws = Spawner.ws /\ pane'[p].boot = boots
        /\ \A q \in PaneIds \ {p} : pane'[q] = pane[q]
    BY <1>0, <1>2, <2>1, OnePane DEF Kinds
  <2>3. PanesMove("spawner")  BY <1>0, <2>1, <2>2 DEF PanesMove, Spawner
  <2>. QED  BY <1>0, <1>2, <2>3, SpawnFailed DEF Splits
<1>3. ASSUME NEW p \in Fresh, pane' = Made(p, Spawner.ws, "starting"), UNCHANGED lock,
             thread' = [thread EXCEPT !["spawner"].pc = "start", !["spawner"].pane = p]
      PROVE  HerdrInv'
  <2>1. p \in PaneIds /\ pane[p].kind = "none" /\ Spawner.ws \in Spaces
    BY <1>0, SpawnedIn DEF Fresh, Spawner
  <2>2. /\ pane' \in Panes /\ pane'[p].kind = "starting" /\ pane'[p].ws = Spawner.ws /\ pane'[p].boot = boots
        /\ \A q \in PaneIds \ {p} : pane'[q] = pane[q]
    BY <1>0, <1>3, <2>1, OnePane DEF Kinds
  <2>3. PanesMove("spawner")  BY <1>0, <2>1, <2>2 DEF PanesMove, Spawner
  <2>4. PICK r : r = [Spawner EXCEPT !.pc = "start", !.pane = p]  OBVIOUS
  <2>5. p \in 0..MaxPanes /\ "start" \in Pcs  BY <2>1, Constants DEF PaneIds, Pcs, Working, Placing
  <2>6. /\ r \in Thread /\ r.pc = "start" /\ r.key = Spawner.key /\ r.ws = Spawner.ws /\ r.root = Spawner.root
        /\ r.due = Spawner.due /\ r.pane = p
    BY <1>0, <2>4, <2>5 DEF Thread
  <2>7. thread' = [thread EXCEPT !["spawner"] = r]  BY <1>0, <1>3, <2>4 DEF HerdrTypeOK, Spawner
  <2>8. RegistryShrinks  BY <1>0, SameRegistry DEF Splits
  <2>. QED
    BY <1>0, <1>3, <2>1, <2>2, <2>3, <2>6, <2>7, <2>8, GoesOn DEF Splits, Working, Placing, registry
<1>. QED  BY <1>1, <1>2, <1>3 DEF Splits

LEMMA AgentStarted == ASSUME HerdrInv, NEW o, StartsAgent(o) PROVE HerdrInv'
<1> DEFINE t == "spawner"
<1>0. /\ t \in Threads /\ HerdrTypeOK /\ Spawner \in Thread /\ faults' \in Nat
      /\ Spawner.pc \in Placing /\ Spawner.pc \in Working /\ Spawner.pc = "start"
  BY Charges DEF Threads, HerdrInv, HerdrTypeOK, Spawner, StartsAgent, Placing, Working
<1>1. CASE ~(o = "ok" /\ pane[Spawner.pane].kind = "starting")
  <2>1. PICK r : r = [Spawner EXCEPT !.pc = "discard"]  OBVIOUS
  <2>2. "discard" \in Pcs  BY DEF Pcs, Working, Placing
  <2>3. /\ r \in Thread /\ r.pc = "discard" /\ r.key = Spawner.key
        /\ r.ws = Spawner.ws /\ r.root = Spawner.root
        /\ r.due = Spawner.due
    BY <1>0, <2>1, <2>2, Turned
  <2>4. thread' = [thread EXCEPT ![t] = r] /\ UNCHANGED <<pane, registry, lock>>
    BY <1>1, <2>1 DEF StartsAgent, Go, Spawner, registry
  <2>5. PanesMove(t) /\ RegistryShrinks  BY <1>0, <2>4, Ends, SameRegistry
  <2>. QED  BY <1>0, <2>3, <2>4, <2>5, GoesOn DEF StartsAgent, Working, Placing, registry
<1>2. CASE o = "ok" /\ pane[Spawner.pane].kind = "starting"
  <2>1. PICK p, w, k : p = Spawner.pane /\ w = Spawner.ws /\ k = Spawner.key  OBVIOUS
  <2>2. lock = t /\ w \in Spaces /\ k \in Keys /\ label[w].space = k /\ Plain(Spawner.root)
        /\ \A u \in Threads : thread[u].pc = "close" => thread[u].ws # w
    BY <1>0, <2>1, SpawnedIn DEF Spawner, HerdrInv, Sound, Spawns, Keeps
  <2>3. p \in PaneIds /\ pane[p].kind = "starting"  BY <1>0, <1>2, <2>1 DEF HerdrInv, Sound, Spawns, Spawner
  <2>4. PICK r : /\ thread' = [thread EXCEPT ![t] = r] /\ r \in Thread
                 /\ r.root \in {0, Spawner.root} /\ r.due \in {{}, Spawner.due}
                 /\ \/ r.pc = "idle" /\ lock' = "none"
                    \/ r.pc = "root" /\ r.key = k /\ r.ws = w /\ UNCHANGED lock
    <3>1. CASE Spawner.root = 0
      <4>1. PICK r : r = [Off EXCEPT !.pc = "idle"]  OBVIOUS
      <4>2. r \in Thread /\ r.pc = "idle" /\ r.root = 0 /\ r.due = {}  BY <4>1, OffThread DEF Pcs
      <4>3. thread' = [thread EXCEPT ![t] = r] /\ lock' = "none"
        BY <1>2, <3>1, <4>1 DEF StartsAgent, Resting
      <4>. QED  BY <4>2, <4>3
    <3>2. CASE Spawner.root # 0
      <4>1. PICK r : r = [Spawner EXCEPT !.pc = "root"]  OBVIOUS
      <4>2. "root" \in Pcs  BY DEF Pcs, Working, Placing
      <4>3. /\ r \in Thread /\ r.pc = "root" /\ r.key = Spawner.key /\ r.ws = Spawner.ws
            /\ r.root = Spawner.root /\ r.due = Spawner.due
        BY <1>0, <4>1, <4>2, Turned
      <4>4. thread' = [thread EXCEPT ![t] = r] /\ UNCHANGED lock
        BY <1>2, <3>2, <4>1 DEF StartsAgent, Go, Spawner
      <4>. QED  BY <2>1, <4>3, <4>4
    <3>. QED  BY <3>1, <3>2
  <2>5. /\ pane' \in Panes /\ pane'[p].kind = "agent"
        /\ pane'[p].ws = pane[p].ws /\ pane'[p].boot = pane[p].boot
        /\ \A q \in PaneIds \ {p} : pane'[q] = pane[q]
    <3>1. pane' = [pane EXCEPT ![p].kind = "agent"]  BY <1>2, <2>1 DEF StartsAgent
    <3>2. "agent" \in Kinds  BY DEF Kinds
    <3>3. pane' \in Panes  BY <1>0, <3>1, <3>2 DEF HerdrTypeOK, Panes
    <3>. QED  BY <1>0, <2>3, <3>1, <3>3 DEF HerdrTypeOK, Panes
  <2>6. /\ owned' \in Records /\ owned'[p].ws = w /\ owned'[p].space = k
        /\ \A q \in PaneIds \ {p} : owned'[q] = owned[q]
    <3>1. owned' = [owned EXCEPT ![p] = [space |-> k, ws |-> w]]  BY <1>2, <2>1 DEF StartsAgent
    <3>2. [space |-> k, ws |-> w] \in [space : Keys \cup {"none"}, ws : 0..MaxSpace]
      BY <2>2, Constants DEF Spaces
    <3>3. owned' \in Records  BY <1>0, <3>1, <3>2 DEF HerdrTypeOK, Records
    <3>. QED  BY <1>0, <2>3, <3>1, <3>3 DEF HerdrTypeOK, Records
  <2>7. UNCHANGED <<label, spaces, pending, bootVars>>  BY DEF StartsAgent
  <2>8. /\ thread' \in [Threads -> Thread] /\ thread'[t] = r
        /\ \A th \in Threads \ {t} : thread'[th] = thread[th]
    BY <1>0, <2>4, OneThread
  <2>9. \A x \in PaneIds : Plain(x) => Plain(x)'  BY <2>3, <2>5 DEF Plain
  <2>10. ASSUME NEW v \in Spaces, Unused(v) PROVE Unused(v)'
    <3>1. v # w  BY <1>0, <2>1, <2>10 DEF Unused, Spawner
    <3>2. \A q \in PaneIds : owned'[q].ws # v  BY <2>6, <2>10, <3>1 DEF Unused
    <3>3. \A th \in Threads : thread'[th].pc \in Placing => thread'[th].ws # v
      BY <2>4, <2>8, <2>10, <3>1 DEF Unused, Placing
    <3>. QED  BY <2>7, <2>10, <3>2, <3>3 DEF Unused
  <2>11. ASSUME NEW x, x # 0 => x \in PaneIds, Plain(x) PROVE Plain(x)'
    <3>1. CASE x = 0  BY <3>1 DEF Plain
    <3>2. CASE x # 0  BY <2>9, <2>11, <3>2
    <3>. QED  BY <3>1, <3>2
  <2>12. ASSUME NEW s \in Kept, Retired(s) PROVE Retired(s)'
    BY <2>7, <2>10, <2>11, <2>12, KeptNumbers DEF Retired
  <2>13. HerdrTypeOK'
    BY <1>0, <2>4, <2>5, <2>6, <2>7, <2>8 DEF HerdrTypeOK, bootVars
  <2>14. Shut'  BY <2>4, <2>8 DEF Shut, Spawner
  <2>15. Shared'
    <3>1. \A q \in PaneIds : pane'[q].ws # 0 =>
             label'[pane'[q].ws].space \in Keys /\ pane'[q].kind \notin {"none", "dead"}
      BY <2>5, <2>7 DEF HerdrInv, Shared
    <3>2. ASSUME NEW j \in Keys
         PROVE  Plain(spaces[j].root)' /\ (spaces'[j].ws # 0 => label'[spaces'[j].ws].space = j)
      <4>1. (spaces[j].root # 0 => spaces[j].root \in PaneIds) /\ Plain(spaces[j].root)
        BY <1>0, Numbers DEF HerdrInv, Shared
      <4>. QED  BY <2>7, <2>9, <4>1 DEF Plain, HerdrInv, Shared
    <3>3. \A q \in PaneIds : owned'[q].ws # 0 =>
             owned'[q].space \in Keys /\ label'[owned'[q].ws].space = owned'[q].space
      BY <2>2, <2>6, <2>7 DEF HerdrInv, Shared
    <3>4. \A s \in pending' : Retired(s)'  BY <1>0, <2>7, <2>12 DEF HerdrInv, Shared, HerdrTypeOK
    <3>. QED  BY <3>1, <3>2, <3>3, <3>4 DEF Shared
  <2>16. ASSUME NEW u \in Threads PROVE Sound(u)'
    <3>0. Sound(u)  BY DEF HerdrInv
    <3>1. Spawns(u)'
      <4>1. CASE u = t  BY <1>0, <2>2, <2>4, <2>7, <2>8, <4>1 DEF Spawns, Working, Placing, Spaces
      <4>2. CASE u # t  BY <2>2, <2>7, <2>8, <3>0, <4>2 DEF Sound, Spawns
      <4>. QED  BY <4>1, <4>2
    <3>2. thread'[u].pc \in {"list", "close"} => u # t /\ thread'[u] = thread[u] /\ thread[u].key = "pending"
      BY <2>2, <2>4, <2>8, <3>0 DEF Sound, Sweeping
    <3>3. Sweeping(u)'
      <4>1. thread[u].ws # 0 => thread[u].ws \in Spaces  BY <1>0, ThreadNumbers
      <4>. QED  BY <2>7, <2>10, <3>0, <3>2, <4>1 DEF Sound, Sweeping
    <3>4. Closing(u)'
      BY <2>3, <2>5, <3>0, <3>2 DEF Sound, Closing
    <3>5. Keeps(u)'
      <4>1. /\ thread'[u].root \in {0, thread[u].root} /\ thread'[u].due \subseteq thread[u].due
            /\ thread'[u].pc \in {"sweep", "closeSole", "boot"} => u # t /\ thread'[u] = thread[u]
        BY <2>4, <2>8 DEF Spawner
      <4>2. /\ thread[u].root # 0 => thread[u].root \in PaneIds
            /\ \A s \in thread[u].due : s \in Kept
        BY <1>0, ThreadNumbers
      <4>3. Plain(thread[u].root)'
        <5>1. thread'[u].root # 0 => thread'[u].root = thread[u].root  BY <4>1
        <5>. QED  BY <2>9, <3>0, <4>2, <5>1 DEF Plain, Sound, Keeps
      <4>4. ASSUME NEW s \in thread'[u].due
            PROVE  label'[s.ws].space \in Keys /\ (thread'[u].pc # "boot" => Retired(s)')
        <5>1. s \in Kept /\ label[s.ws].space \in Keys /\ (thread[u].pc # "boot" => Retired(s))
          BY <3>0, <4>1, <4>2 DEF Sound, Keeps
        <5>2. thread'[u].pc # "boot" => thread[u].pc # "boot"
          BY <1>0, <2>8 DEF Spawner, Placing
        <5>. QED  BY <2>7, <2>12, <5>1, <5>2
      <4>5. thread'[u].pc = "closeSole" => lock' = u
        BY <2>2, <3>0, <4>1 DEF Sound, Keeps
      <4>. QED  BY <3>0, <4>1, <4>3, <4>4, <4>5 DEF Sound, Keeps
    <3>. QED  BY <3>1, <3>3, <3>4, <3>5 DEF Sound
  <2>17. Dated'
    <3>1. SUFFICES ASSUME Genuine PROVE Genuine'  BY <2>7 DEF HerdrInv, Dated, bootVars
    <3>2. pane[p].boot = boots  BY <1>0, <2>1, <2>3, <3>1 DEF Genuine, Spawner
    <3>3. \A q \in PaneIds : pane'[q].kind \in {"starting", "agent"} =>
             pane'[q].ws # 0 /\ pane'[q].boot = label'[pane'[q].ws].gen
      BY <2>3, <2>5, <2>7, <3>1 DEF Genuine
    <3>4. \A q \in PaneIds : owned'[q].ws # 0 /\ pane'[q].kind = "agent" => pane'[q].boot = boots
      BY <2>5, <2>6, <3>1, <3>2 DEF Genuine
    <3>5. ASSUME NEW th \in Threads, thread'[th].pc \in Placing PROVE label'[thread'[th].ws].gen = gen
      BY <1>0, <2>1, <2>4, <2>7, <2>8, <3>1, <3>5 DEF Genuine, Placing, Spawner
    <3>6. ASSUME NEW th \in Threads, thread'[th].pc = "start", pane'[thread'[th].pane].kind = "starting"
          PROVE  pane'[thread'[th].pane].boot = boots
      <4>1. th # t /\ thread'[th] = thread[th]  BY <2>4, <2>8, <3>6
      <4>2. lock = th  BY <3>6, <4>1 DEF HerdrInv, Sound, Spawns, Working, Placing
      <4>. QED  BY <2>2, <4>1, <4>2
    <3>. QED  BY <2>7, <3>1, <3>3, <3>4, <3>5, <3>6 DEF Genuine, bootVars
  <2>. QED  BY <2>13, <2>14, <2>15, <2>16, <2>17 DEF HerdrInv
<1>. QED  BY <1>1, <1>2

LEMMA PaneDiscarded == ASSUME HerdrInv, NEW o, Discards(o) PROVE HerdrInv'
<1>1. /\ HerdrTypeOK /\ faults' \in Nat /\ Spawner.pc \in Working
  BY Charges DEF HerdrInv, Discards, Placing, Working
<1>2. PanesMove("spawner")  BY <1>1, Ends DEF Discards
<1>. QED  BY <1>1, <1>2, SpawnFailed DEF Discards

LEMMA RootCleaned == ASSUME HerdrInv, NEW o, CleansRoot(o) PROVE HerdrInv'
<1> DEFINE t == "spawner"
<1>1. /\ t \in Threads /\ HerdrTypeOK /\ faults' \in Nat /\ Spawner.pc = "root"
  BY Charges DEF Threads, HerdrInv, CleansRoot
<1>2. lock = t /\ Spawner.pc \notin {"off", "boot"}
  BY <1>1 DEF HerdrInv, Sound, Spawns, Spawner, Working, Placing
<1>3. PanesMove(t)  BY <1>1, Ends DEF CleansRoot
<1>4. RegistryShrinks /\ AddsRetired
  <2>1. spaces' \in Registered
    <3>1. \A k \in Keys : [spaces[k] EXCEPT !.root = 0] \in [ws : 0..MaxSpace, root : 0..MaxPanes, misses : Nat]
      BY <1>1, Constants DEF HerdrTypeOK, Registered
    <3>. QED  BY <1>1, <3>1 DEF CleansRoot, HerdrTypeOK, Registered
  <2>2. \A k \in Keys : spaces'[k].ws = spaces[k].ws /\ spaces'[k].root \in {0, spaces[k].root}
    BY <1>1 DEF CleansRoot, HerdrTypeOK, Registered
  <2>. QED  BY <1>1, <2>1, <2>2 DEF CleansRoot, RegistryShrinks, AddsRetired, HerdrTypeOK
<1>. QED  BY <1>1, <1>2, <1>3, <1>4, Rested DEF CleansRoot, Spawner

LEMMA FreshIsOne == ASSUME NEW p \in Fresh, NEW q \in Fresh PROVE p = q
<1>1. p \in Nat /\ q \in Nat /\ p >= 1 /\ q >= 1 /\ pane[p].kind = "none" /\ pane[q].kind = "none"
  BY DEF Fresh, PaneIds
<1>2. ~(p < q) /\ ~(q < p)
  <2>1. p < q => p \in 1..(q - 1)  BY <1>1
  <2>2. q < p => q \in 1..(p - 1)  BY <1>1
  <2>. QED  BY <1>1, <2>1, <2>2 DEF Fresh
<1>. QED  BY <1>1, <1>2

LEMMA SpaceCreated == ASSUME HerdrInv, NEW o, CreatesSpace(o) PROVE HerdrInv'
<1> DEFINE t == "spawner"
<1>0. /\ t \in Threads /\ HerdrTypeOK /\ Spawner \in Thread /\ faults' \in Nat /\ Spawner.pc = "create"
  BY Charges DEF Threads, HerdrInv, HerdrTypeOK, Spawner, CreatesSpace
<1>1. PICK k : k = Spawner.key  OBVIOUS
<1>2. lock = t /\ k \in Keys
  BY <1>0, <1>1 DEF HerdrInv, Sound, Spawns, Spawner, Working, Placing
<1>3. UNCHANGED <<owned, pending, bootVars>>  BY DEF CreatesSpace
<1>4. CASE o = "fails"
  <2>1. UNCHANGED <<server, registry>> /\ thread' = Resting(t) /\ lock' = "none"
    BY <1>4 DEF CreatesSpace, registry
  <2>2. PanesMove(t) /\ RegistryShrinks /\ AddsRetired
    BY <1>0, <2>1, Ends, SameRegistry DEF server
  <2>. QED  BY <1>0, <1>2, <1>3, <2>1, <2>2, Rested DEF server, Spawner
<1>5. CASE o # "fails"
  <2>1. PICK w, root : /\ w \in Spaces /\ root \in Fresh /\ label[w] = NoLabel
                       /\ label' = [label EXCEPT ![w] = [gen |-> gen, space |-> k]]
                       /\ pane' = Made(root, w, "root")
    BY <1>1, <1>5 DEF CreatesSpace
  <2>2. root \in PaneIds /\ pane[root].kind = "none" /\ w # 0 /\ root # 0 /\ label[w].space \notin Keys
    BY <2>1, Constants DEF Fresh, NoLabel, Spaces, PaneIds
  <2>3. /\ label' \in Labels /\ label'[w].space = k /\ label'[w].gen = gen
        /\ \A v \in Spaces \ {w} : label'[v] = label[v]
    <3>1. [gen |-> gen, space |-> k] \in [gen : Nat, space : Keys \cup {"none"}]
      BY <1>0, <1>2 DEF HerdrTypeOK
    <3>. QED  BY <1>0, <2>1, <3>1 DEF HerdrTypeOK, Labels
  <2>4. /\ pane' \in Panes /\ pane'[root].kind = "root" /\ pane'[root].ws = w
        /\ \A q \in PaneIds \ {root} : pane'[q] = pane[q]
    BY <1>0, <2>1, <2>2, OnePane DEF Kinds
  \* Nobody has heard of the workspace yet.
  <2>5. /\ \A j \in Keys : spaces[j].ws # w
        /\ \A p \in PaneIds : owned[p].ws # w /\ pane[p].ws # w
        /\ \A s \in pending : s.ws # w
    BY <2>2 DEF HerdrInv, Shared, Retired
  <2>6. ASSUME NEW u \in Threads
        PROVE  /\ thread[u].pc \in Placing \cup {"list", "close"} => thread[u].ws # w
               /\ \A s \in thread[u].due : s.ws # w
    BY <2>2 DEF HerdrInv, Sound, Spawns, Sweeping, Keeps, Working
  <2>7. PICK r : /\ thread' = [thread EXCEPT ![t] = r] /\ r \in Thread
                 /\ \/ /\ r.pc = "idle" /\ r.root = 0 /\ r.due = {} /\ lock' = "none" /\ UNCHANGED spaces
                    \/ /\ r.pc = "split" /\ r.key = k /\ r.ws = w /\ r.root = root /\ r.due = Spawner.due
                       /\ UNCHANGED lock
                       /\ spaces' = [spaces EXCEPT ![k] = [ws |-> w, root |-> root, misses |-> 0]]
    <3>1. CASE o # "ok"
      <4>1. PICK r : r = [Off EXCEPT !.pc = "idle"]  OBVIOUS
      <4>2. r \in Thread /\ r.pc = "idle" /\ r.root = 0 /\ r.due = {}  BY <4>1, OffThread DEF Pcs
      <4>3. thread' = [thread EXCEPT ![t] = r] /\ lock' = "none" /\ UNCHANGED spaces
        BY <3>1, <4>1 DEF CreatesSpace, Resting
      <4>. QED  BY <4>2, <4>3
    <3>2. CASE o = "ok"
      <4>1. PICK v, x : /\ v \in Spaces /\ x \in Fresh /\ label[v] # label'[v] /\ UNCHANGED lock
                        /\ spaces' = [spaces EXCEPT ![k] = [ws |-> v, root |-> x, misses |-> 0]]
                        /\ thread' = [thread EXCEPT ![t] = [@ EXCEPT !.pc = "split", !.ws = v,
                                                             !.root = x, !.new = TRUE]]
        BY <1>1, <3>2 DEF CreatesSpace
      <4>2. v = w /\ x = root  BY <2>1, <2>3, <4>1, FreshIsOne
      <4>3. PICK r : r = [Spawner EXCEPT !.pc = "split", !.ws = w, !.root = root, !.new = TRUE]  OBVIOUS
      <4>4. "split" \in Pcs /\ w \in 0..MaxSpace /\ root \in 0..MaxPanes
        BY <2>1, <2>2, Constants DEF Pcs, Working, Placing, Spaces, PaneIds
      <4>5. /\ r \in Thread /\ r.pc = "split" /\ r.key = k /\ r.ws = w /\ r.root = root /\ r.due = Spawner.due
        BY <1>0, <1>1, <4>3, <4>4 DEF Thread
      <4>6. thread' = [thread EXCEPT ![t] = r]  BY <4>1, <4>2, <4>3 DEF Spawner
      <4>. QED  BY <4>1, <4>2, <4>5, <4>6
    <3>. QED  BY <3>1, <3>2
  <2>8. /\ thread' \in [Threads -> Thread] /\ thread'[t] = r
        /\ \A th \in Threads \ {t} : thread'[th] = thread[th]
    BY <1>0, <2>7, OneThread
  <2>9. /\ spaces' \in Registered
        /\ \A j \in Keys : \/ spaces'[j] = spaces[j]
                           \/ j = k /\ spaces'[j].ws = w /\ spaces'[j].root = root /\ r.pc = "split"
    <3>1. [ws |-> w, root |-> root, misses |-> 0] \in [ws : 0..MaxSpace, root : 0..MaxPanes, misses : Nat]
      BY <2>1, <2>2, Constants DEF Spaces, PaneIds
    <3>. QED  BY <1>0, <1>2, <2>7, <3>1 DEF HerdrTypeOK, Registered
  <2>10. \A x \in PaneIds : Plain(x) => Plain(x)'  BY <2>2, <2>4 DEF Plain
  <2>11. ASSUME NEW v \in Spaces, v # w, Unused(v) PROVE Unused(v)'
    <3>1. \A j \in Keys : spaces'[j].ws # v  BY <2>9, <2>11 DEF Unused
    <3>2. \A th \in Threads : thread'[th].pc \in Placing => thread'[th].ws # v
      BY <2>7, <2>8, <2>11 DEF Unused, Placing
    <3>. QED  BY <1>3, <2>11, <3>1, <3>2 DEF Unused
  <2>12. ASSUME NEW s \in Kept, s.ws # w, Retired(s) PROVE Retired(s)'
    <3>1. s.ws \in Spaces /\ (s.root # 0 => s.root \in PaneIds)  BY KeptNumbers
    <3>2. Plain(s.root)'
      <4>1. CASE s.root = 0  BY <4>1 DEF Plain
      <4>2. CASE s.root # 0  BY <2>10, <2>12, <3>1, <4>2 DEF Retired
      <4>. QED  BY <4>1, <4>2
    <3>. QED  BY <2>3, <2>11, <2>12, <3>1, <3>2 DEF Retired
  <2>13. HerdrTypeOK'
    BY <1>0, <1>2, <1>3, <2>3, <2>4, <2>7, <2>8, <2>9 DEF HerdrTypeOK, bootVars
  <2>14. Shut'  BY <2>7, <2>8 DEF Shut, Spawner
  <2>15. Shared'
    <3>1. ASSUME NEW p \in PaneIds, pane'[p].ws # 0
          PROVE  label'[pane'[p].ws].space \in Keys /\ pane'[p].kind \notin {"none", "dead"}
      <4>1. CASE p = root  BY <1>2, <2>3, <2>4, <4>1
      <4>2. CASE p # root
        <5>1. pane'[p] = pane[p] /\ pane[p].ws \in Spaces \ {w}
          BY <1>0, <2>4, <2>5, <3>1, <4>2, Numbers
        <5>. QED  BY <2>3, <3>1, <5>1 DEF HerdrInv, Shared
      <4>. QED  BY <4>1, <4>2
    <3>2. ASSUME NEW j \in Keys
         PROVE  Plain(spaces[j].root)' /\ (spaces'[j].ws # 0 => label'[spaces'[j].ws].space = j)
      <4>1. CASE spaces'[j] = spaces[j]
        <5>1. /\ spaces[j].root # 0 => spaces[j].root \in PaneIds
              /\ spaces[j].ws # 0 => spaces[j].ws \in Spaces \ {w}
              /\ Plain(spaces[j].root)
          BY <1>0, <2>5, Numbers DEF HerdrInv, Shared
        <5>2. Plain(spaces[j].root)'  BY <2>10, <4>1, <5>1 DEF Plain
        <5>. QED  BY <2>3, <4>1, <5>1, <5>2 DEF HerdrInv, Shared
      <4>2. CASE j = k /\ spaces'[j].ws = w /\ spaces'[j].root = root
        BY <2>3, <2>4, <4>2 DEF Plain
      <4>. QED  BY <2>9, <4>1, <4>2
    <3>3. ASSUME NEW p \in PaneIds, owned'[p].ws # 0
          PROVE  owned'[p].space \in Keys /\ label'[owned'[p].ws].space = owned'[p].space
      <4>1. owned'[p] = owned[p] /\ owned[p].ws \in Spaces \ {w}  BY <1>0, <1>3, <2>5, <3>3, Numbers
      <4>. QED  BY <2>3, <3>3, <4>1 DEF HerdrInv, Shared
    <3>4. \A s \in pending' : Retired(s)'  BY <1>0, <1>3, <2>5, <2>12 DEF HerdrInv, Shared, HerdrTypeOK
    <3>. QED  BY <3>1, <3>2, <3>3, <3>4 DEF Shared
  <2>16. ASSUME NEW u \in Threads PROVE Sound(u)'
    <3>0. Sound(u) /\ (thread[u].ws # 0 => thread[u].ws \in Spaces)  BY <1>0, ThreadNumbers DEF HerdrInv
    <3>1. Spawns(u)'
      <4>1. CASE u = t  BY <1>2, <2>2, <2>3, <2>7, <2>8, <4>1 DEF Spawns, Working, Placing
      <4>2. CASE u # t  BY <1>2, <2>8, <3>0, <4>2 DEF Sound, Spawns, Working
      <4>. QED  BY <4>1, <4>2
    <3>2. thread'[u].pc \in {"list", "close"} => /\ u # t /\ thread'[u] = thread[u] /\ thread[u].key = "pending"
                                                 /\ thread[u].ws \in Spaces \ {w}
      BY <1>2, <2>6, <2>7, <2>8, <3>0 DEF Sound, Sweeping
    <3>3. Sweeping(u)'  BY <2>3, <2>11, <3>0, <3>2 DEF Sound, Sweeping
    <3>4. Closing(u)'  BY <2>4, <3>0, <3>2 DEF Sound, Closing
    <3>5. Keeps(u)'
      <4>1. /\ thread'[u].root = thread[u].root \/ thread'[u].root \in {0, root}
            /\ thread'[u].due \subseteq thread[u].due
            /\ thread'[u].pc \in {"sweep", "closeSole", "boot"} => u # t /\ thread'[u] = thread[u]
        BY <2>7, <2>8 DEF Spawner
      <4>2. /\ thread[u].root # 0 => thread[u].root \in PaneIds
            /\ \A s \in thread[u].due : s \in Kept
        BY <1>0, ThreadNumbers
      <4>3. Plain(thread[u].root)'
        <5>1. CASE thread'[u].root = 0  BY <5>1 DEF Plain
        <5>2. CASE thread'[u].root = root  BY <2>4, <5>2 DEF Plain
        <5>3. CASE thread'[u].root = thread[u].root /\ thread[u].root # 0
          BY <2>10, <3>0, <4>2, <5>3 DEF Plain, Sound, Keeps
        <5>. QED  BY <4>1, <5>1, <5>2, <5>3
      <4>4. ASSUME NEW s \in thread'[u].due
            PROVE  label'[s.ws].space \in Keys /\ (thread'[u].pc # "boot" => Retired(s)')
        <5>1. /\ s \in Kept /\ label[s.ws].space \in Keys /\ (thread[u].pc # "boot" => Retired(s))
              /\ s.ws \in Spaces \ {w}
          BY <2>6, <3>0, <4>1, <4>2, KeptNumbers DEF Sound, Keeps
        <5>2. thread'[u].pc # "boot" => thread[u].pc # "boot"
          BY <1>0, <2>8 DEF Spawner
        <5>. QED  BY <2>3, <2>12, <5>1, <5>2
      <4>5. thread'[u].pc = "closeSole" => lock' = u
        BY <1>2, <3>0, <4>1 DEF Sound, Keeps
      <4>. QED  BY <3>0, <4>1, <4>3, <4>4, <4>5 DEF Sound, Keeps
    <3>. QED  BY <3>1, <3>3, <3>4, <3>5 DEF Sound
  <2>17. Dated'
    <3>1. SUFFICES ASSUME Genuine PROVE Genuine'  BY <1>3 DEF HerdrInv, Dated, bootVars
    <3>2. \A j \in Keys : spaces'[j].ws # 0 => label'[spaces'[j].ws].gen = gen
      <4>1. \A j \in Keys : spaces[j].ws # 0 => spaces[j].ws \in Spaces \ {w}  BY <1>0, <2>5, Numbers
      <4>. QED  BY <2>3, <2>9, <3>1, <4>1 DEF Genuine
    <3>3. ASSUME NEW q \in PaneIds, pane'[q].kind \in {"starting", "agent"}
          PROVE  pane'[q].ws # 0 /\ pane'[q].boot = label'[pane'[q].ws].gen
      <4>1. q # root /\ pane'[q] = pane[q]  BY <2>4, <3>3
      <4>2. pane[q].ws # 0 /\ pane[q].boot = label[pane[q].ws].gen  BY <3>1, <3>3, <4>1 DEF Genuine
      <4>3. pane[q].ws \in Spaces \ {w}  BY <1>0, <2>5, <4>2, Numbers
      <4>. QED  BY <2>3, <4>1, <4>2, <4>3
    <3>4. \A q \in PaneIds : owned'[q].ws # 0 /\ pane'[q].kind = "agent" => pane'[q].boot = boots
      BY <1>3, <2>4, <3>1 DEF Genuine
    <3>5. ASSUME NEW th \in Threads, thread'[th].pc \in Placing PROVE label'[thread'[th].ws].gen = gen
      <4>1. CASE th = t  BY <2>3, <2>7, <2>8, <3>5, <4>1 DEF Placing
      <4>2. CASE th # t  BY <1>2, <2>8, <3>5, <4>2 DEF HerdrInv, Sound, Spawns, Working
      <4>. QED  BY <4>1, <4>2
    <3>6. ASSUME NEW th \in Threads PROVE thread'[th].pc # "start"
      BY <1>2, <2>7, <2>8 DEF HerdrInv, Sound, Spawns, Working, Placing
    <3>. QED  BY <1>3, <3>1, <3>2, <3>3, <3>4, <3>5, <3>6 DEF Genuine, bootVars
  <2>. QED  BY <2>13, <2>14, <2>15, <2>16, <2>17 DEF HerdrInv
<1>. QED  BY <1>4, <1>5

LEMMA Least == ASSUME NEW a \in Nat, NEW b \in Nat PROVE Min({a, b}) \in Nat
<1>1. \E x \in {a, b} : \A y \in {a, b} : x <= y
  <2>1. CASE a <= b  BY <2>1
  <2>2. CASE b <= a  BY <2>2
  <2>. QED  BY <2>1, <2>2
<1>. QED  BY <1>1 DEF Min

LEMMA Polled == ASSUME HerdrInv, Polls PROVE HerdrInv'
<1> DEFINE t == "poller"
<1>0. /\ t \in Threads /\ HerdrTypeOK /\ Poller \in Thread /\ faults \in Nat /\ Poller.pc = "idle"
  BY DEF Threads, HerdrInv, HerdrTypeOK, Poller, Polls
<1>1. PanesMove(t)  BY <1>0, Ends DEF Polls, server
<1>2. PICK r : /\ thread' = [thread EXCEPT ![t] = r] /\ r \in Thread /\ r.pc \in {"retry", "escape"}
               /\ r.root = Poller.root /\ r.due \subseteq Poller.due \cup pending
  <2>1. CASE thread' = [thread EXCEPT !["poller"].pc = "retry", !["poller"].due = pending]
    <3>1. PICK r : r = [Poller EXCEPT !.pc = "retry", !.due = pending]  OBVIOUS
    <3>2. r \in Thread /\ r.pc = "retry" /\ r.root = Poller.root /\ r.due = pending
      BY <1>0, <3>1 DEF Thread, Pcs, HerdrTypeOK
    <3>3. thread' = [thread EXCEPT ![t] = r]  BY <1>0, <2>1, <3>1 DEF Poller, HerdrTypeOK
    <3>. QED  BY <3>2, <3>3
  <2>2. CASE thread' = Go("poller", "escape")
    <3>1. PICK r : r = [Poller EXCEPT !.pc = "escape"]  OBVIOUS
    <3>2. r \in Thread /\ r.pc = "escape" /\ r.root = Poller.root /\ r.due = Poller.due
      BY <1>0, <3>1, Turned DEF Pcs
    <3>3. thread' = [thread EXCEPT ![t] = r]  BY <2>2, <3>1 DEF Go, Poller
    <3>. QED  BY <3>2, <3>3
  <2>. QED  BY <2>1, <2>2 DEF Polls
<1>3. faults' \in Nat  BY <1>0 DEF Polls, Charged
<1>4. /\ spaces' \in Registered
      /\ \A k \in Keys : spaces'[k].ws \in {0, spaces[k].ws} /\ spaces'[k].root \in {0, spaces[k].root}
  <2>1. CASE UNCHANGED spaces  BY <1>0, <2>1 DEF HerdrTypeOK
  <2>2. CASE ~UNCHANGED spaces
    <3>1. PICK missed : spaces' = [k \in Keys |->
                    IF spaces[k].ws = 0 THEN NoSpace
                    ELSE [spaces[k] EXCEPT !.misses = IF spaces[k].ws \in missed \/ ~Living(spaces[k].ws)
                                                     THEN Min({@ + 1, Misses}) ELSE 0]]
      BY <2>2 DEF Polls
    <3>2. ASSUME NEW k \in Keys
          PROVE  /\ spaces'[k] \in [ws : 0..MaxSpace, root : 0..MaxPanes, misses : Nat]
                 /\ spaces'[k].ws \in {0, spaces[k].ws} /\ spaces'[k].root \in {0, spaces[k].root}
      <4>1. spaces[k] \in [ws : 0..MaxSpace, root : 0..MaxPanes, misses : Nat]
        BY <1>0 DEF HerdrTypeOK, Registered
      <4>2. Min({spaces[k].misses + 1, Misses}) \in Nat  BY <4>1, Least, HerdrAssumption
      <4>3. spaces'[k] = NoSpace \/ \E m \in Nat : spaces'[k] = [spaces[k] EXCEPT !.misses = m]
        BY <3>1, <4>2
      <4>. QED  BY <4>1, <4>3, Constants
    <3>3. spaces' = [k \in Keys |-> spaces'[k]]  BY <3>1
    <3>4. spaces' \in Registered  BY <3>2, <3>3 DEF Registered
    <3>. QED  BY <3>2, <3>4
  <2>. QED  BY <2>1, <2>2
<1>5. RegistryShrinks /\ AddsRetired
  BY <1>0, <1>4 DEF RegistryShrinks, AddsRetired, Polls, HerdrTypeOK
<1>. QED  BY <1>0, <1>1, <1>2, <1>3, <1>5, Rests DEF Polls, server, Poller

\* Steps of the poller that only decide what to do next.
LEMMA PollerTurns ==
    ASSUME HerdrInv, Poller.pc \notin {"off", "boot"}, NEW r \in Thread,
           r.pc \in {"idle", "drop", "scan", "empties", "retry"},
           r.root \in {0, Poller.root}, r.due \subseteq Poller.due \cup pending,
           thread' = [thread EXCEPT !["poller"] = r], UNCHANGED <<server, lock, bootVars>>,
           RegistryShrinks, AddsRetired, faults' \in Nat
    PROVE  HerdrInv'
<1>1. "poller" \in Threads  BY DEF Threads
<1>2. PanesMove("poller")  BY Ends DEF server, HerdrInv
<1>. QED  BY <1>1, <1>2, Rests DEF server, Poller

LEMMA Escaped == ASSUME HerdrInv, NEW o, Escapes(o) PROVE HerdrInv'
<1>0. HerdrTypeOK /\ Poller \in Thread /\ faults' \in Nat /\ Poller.pc = "escape"
  BY Charges DEF Threads, HerdrInv, HerdrTypeOK, Poller, Escapes
<1>1. PICK pc, gone : /\ pc \in {"scan", "drop"} /\ gone \subseteq Keys
                      /\ thread' = [thread EXCEPT !["poller"].pc = pc, !["poller"].todo = gone]
  BY DEF Escapes
<1>2. PICK r : r = [Poller EXCEPT !.pc = pc, !.todo = gone]  OBVIOUS
<1>3. r \in Thread /\ r.pc = pc /\ r.root = Poller.root /\ r.due = Poller.due
  BY <1>0, <1>1, <1>2 DEF Thread, Pcs
<1>4. thread' = [thread EXCEPT !["poller"] = r]
  BY <1>0, <1>1, <1>2 DEF HerdrTypeOK, Poller, Threads
<1>. QED  BY <1>0, <1>1, <1>3, <1>4, PollerTurns, SameRegistry DEF Escapes

LEMMA Dropped == ASSUME HerdrInv, Drops PROVE HerdrInv'
<1>0. HerdrTypeOK /\ Poller \in Thread /\ faults' \in Nat /\ Poller.pc = "drop"
  BY DEF Threads, HerdrInv, HerdrTypeOK, Poller, Drops
<1>1. PICK r : r = [Poller EXCEPT !.pc = "scan", !.todo = {}]  OBVIOUS
<1>2. r \in Thread /\ r.pc = "scan" /\ r.root = Poller.root /\ r.due = Poller.due
  BY <1>0, <1>1 DEF Thread, Pcs
<1>3. thread' = [thread EXCEPT !["poller"] = r]
  BY <1>0, <1>1 DEF HerdrTypeOK, Poller, Threads, Drops
<1>4. RegistryShrinks /\ AddsRetired  BY <1>0, DropRegistry DEF Drops
<1>. QED  BY <1>0, <1>2, <1>3, <1>4, PollerTurns DEF Drops

LEMMA Scanned == ASSUME HerdrInv, Scans PROVE HerdrInv'
<1>0. HerdrTypeOK /\ Poller \in Thread /\ faults' \in Nat /\ Poller.pc = "scan"
  BY DEF Threads, HerdrInv, HerdrTypeOK, Poller, Scans
<1>1. PICK todo : /\ todo \subseteq Keys
                   /\ thread' = [thread EXCEPT !["poller"].pc = "empties", !["poller"].todo = todo]
  BY DEF Scans
<1>2. PICK r : r = [Poller EXCEPT !.pc = "empties", !.todo = todo]  OBVIOUS
<1>3. r \in Thread /\ r.pc = "empties" /\ r.root = Poller.root /\ r.due = Poller.due
  BY <1>0, <1>1, <1>2 DEF Thread, Pcs
<1>4. thread' = [thread EXCEPT !["poller"] = r]
  BY <1>0, <1>1, <1>2 DEF HerdrTypeOK, Poller, Threads
<1>. QED  BY <1>0, <1>3, <1>4, PollerTurns, SameRegistry DEF Scans

LEMMA SweptNext == ASSUME HerdrInv, SweepsNext PROVE HerdrInv'
<1>0. /\ "poller" \in Threads /\ HerdrTypeOK /\ Poller \in Thread /\ faults' \in Nat /\ Poller.pc = "empties"
      /\ UNCHANGED <<server, registry, bootVars>>
  BY DEF Threads, HerdrInv, HerdrTypeOK, Poller, SweepsNext
<1>1. PanesMove("poller") /\ RegistryShrinks /\ AddsRetired  BY <1>0, Ends, SameRegistry DEF server
<1>2. CASE Poller.todo = {}
  <2>1. PICK r : r = [Poller EXCEPT !.pc = "retry", !.due = pending]  OBVIOUS
  <2>2. r \in Thread /\ r.pc = "retry" /\ r.root = Poller.root /\ r.due = pending
    BY <1>0, <2>1 DEF Thread, Pcs, HerdrTypeOK
  <2>3. thread' = [thread EXCEPT !["poller"] = r] /\ UNCHANGED lock
    BY <1>0, <1>2, <2>1 DEF Poller, HerdrTypeOK, SweepsNext
  <2>. QED  BY <1>0, <1>1, <2>2, <2>3, PollerTurns
<1>3. ASSUME NEW k \in Poller.todo, lock = "none", ~Sweepable(k), lock' = "none",
             thread' = [thread EXCEPT !["poller"].todo = @ \ {k}]
      PROVE  HerdrInv'
  <2>1. PICK r : r = [Poller EXCEPT !.todo = @ \ {k}]  OBVIOUS
  <2>2. r \in Thread /\ r.pc = "empties" /\ r.root = Poller.root /\ r.due = Poller.due
    BY <1>0, <2>1 DEF Thread
  <2>3. thread' = [thread EXCEPT !["poller"] = r]  BY <1>3, <2>1 DEF Poller
  <2>. QED  BY <1>0, <1>1, <1>3, <2>2, <2>3, PollerTurns
<1>4. ASSUME NEW k \in Poller.todo, lock = "none", Sweepable(k), lock' = "poller",
             thread' = [Listing("poller", k) EXCEPT !["poller"].todo = @ \ {k}]
      PROVE  HerdrInv'
  <2>1. PICK r : r = [Poller EXCEPT !.pc = "list", !.key = k, !.ws = spaces[k].ws, !.root = spaces[k].root,
                                    !.todo = @ \ {k}]  OBVIOUS
  <2>2. k \in Keys /\ Poller.todo \in SUBSET Keys  BY <1>0 DEF Thread
  <2>3. /\ r \in Thread /\ r.pc = "list" /\ r.key = k /\ r.ws = spaces[k].ws /\ r.root = spaces[k].root
        /\ r.due = Poller.due
    BY <1>0, <2>1, <2>2 DEF Thread, Pcs, HerdrTypeOK, Registered
  <2>4. thread' = [thread EXCEPT !["poller"] = r]
    <3>1. PICK m, x : /\ m = Listing("poller", k) /\ m = [thread EXCEPT !["poller"] = x]
                      /\ x = [Poller EXCEPT !.pc = "list", !.key = k, !.ws = spaces[k].ws,
                                           !.root = spaces[k].root]
      BY <1>0 DEF Poller, HerdrTypeOK, Listing
    <3>2. r = [x EXCEPT !.todo = @ \ {k}]  BY <1>0, <2>1, <3>1 DEF Thread
    <3>. QED  BY <1>0, <1>4, <3>1, <3>2 DEF HerdrTypeOK
  <2>. QED  BY <1>0, <1>1, <1>4, <2>2, <2>3, <2>4, TakesUp DEF server, Poller
<1>. QED  BY <1>2, <1>3, <1>4 DEF SweepsNext

LEMMA Retried == ASSUME HerdrInv, Retries PROVE HerdrInv'
<1> DEFINE t == "poller"
<1>0. /\ t \in Threads /\ HerdrTypeOK /\ Poller \in Thread /\ faults' \in Nat /\ Poller.pc = "retry"
      /\ UNCHANGED <<server, registry, lock, bootVars>> /\ Sound(t)
  BY DEF Threads, HerdrInv, HerdrTypeOK, Poller, Retries
<1>1. PanesMove(t) /\ RegistryShrinks /\ AddsRetired  BY <1>0, Ends, SameRegistry DEF server
<1>2. CASE Poller.due = {}
  BY <1>0, <1>1, <1>2, Rested DEF Retries, server, Poller
<1>3. CASE Poller.due # {}
  <2>1. PICK s \in Poller.due :
           thread' = [thread EXCEPT !["poller"] = [Poller EXCEPT !.pc = "list", !.key = "pending",
                                            !.ws = s.ws, !.root = s.root, !.due = @ \ {s}]]
    BY <1>3 DEF Retries
  <2>2. PICK r : r = [Poller EXCEPT !.pc = "list", !.key = "pending",
                         !.ws = s.ws, !.root = s.root, !.due = @ \ {s}]
    OBVIOUS
  <2>3. /\ s \in Kept /\ Retired(s)
        /\ s.ws \in Spaces /\ s.ws # 0 /\ \A x \in Poller.due : x \in Kept /\ Retired(x)
    BY <1>0, ThreadNumbers, KeptNumbers DEF Sound, Keeps, Poller
  <2>4. /\ r \in Thread /\ r.pc = "list" /\ r.key = "pending" /\ r.ws = s.ws /\ r.root = s.root
        /\ r.due \subseteq Poller.due
    <3>1. s.ws \in 0..MaxSpace /\ s.root \in 0..MaxPanes  BY <2>3 DEF Kept, Spaces
    <3>2. Poller.due \ {s} \in SUBSET Kept  BY <2>3
    <3>. QED  BY <1>0, <2>2, <3>1, <3>2 DEF Thread, Pcs
  <2>5. thread' = [thread EXCEPT ![t] = r] /\ thread'[t] = r
    <3>1. thread' = [thread EXCEPT ![t] = r]  BY <2>1, <2>2 DEF Poller
    <3>. QED  BY <1>0, <2>4, <3>1, OneThread
  <2>6. GoesOnAs(t, r)  BY <1>0, <2>4, <2>5 DEF GoesOnAs, Placing
  <2>7. /\ \A w \in Spaces : Unused(w) => Unused(w)'
        /\ \A x \in Kept : Retired(x) => Retired(x)'
    BY <1>0, <1>1, <2>4, <2>6, Undisturbed DEF server
  <2>8. Sound(t)'
    <3>1. Spawns(t)'  BY <2>4, <2>5 DEF Spawns, Working, Placing
    <3>2. Sweeping(t)'  BY <1>0, <2>3, <2>4, <2>5, <2>7 DEF Sweeping, Retired, server
    <3>3. Closing(t)'  BY <2>4, <2>5 DEF Closing
    <3>4. Keeps(t)'  BY <1>0, <2>3, <2>4, <2>5, <2>7 DEF Keeps, Retired, Plain, server
    <3>. QED  BY <3>1, <3>2, <3>3, <3>4 DEF Sound
  <2>. QED  BY <1>0, <1>1, <2>4, <2>6, <2>8, ServingStep DEF server, Poller
<1>. QED  BY <1>2, <1>3

LEMMA SweepBegun ==
    ASSUME HerdrInv, NEW t \in Threads, thread[t].pc \notin {"off", "boot"}, NEW k \in Keys, SweepBegins(t, k)
    PROVE  HerdrInv'
<1>0. HerdrTypeOK /\ faults' \in Nat /\ thread[t] \in Thread /\ UNCHANGED <<server, registry, bootVars>>
  BY DEF HerdrInv, HerdrTypeOK, SweepBegins
<1>1. PanesMove(t) /\ RegistryShrinks /\ AddsRetired  BY <1>0, Ends, SameRegistry DEF server
<1>2. CASE Sweepable(k)
  <2>1. PICK r : r = [thread[t] EXCEPT !.pc = "list", !.key = k, !.ws = spaces[k].ws, !.root = spaces[k].root]
    OBVIOUS
  <2>2. /\ r \in Thread /\ r.pc = "list" /\ r.key = k /\ r.ws = spaces[k].ws /\ r.root = spaces[k].root
        /\ r.due = thread[t].due
    BY <1>0, <2>1 DEF Thread, Pcs, HerdrTypeOK, Registered
  <2>3. thread' = [thread EXCEPT ![t] = r] /\ lock = "none" /\ lock' = t
    BY <1>0, <1>2, <2>1 DEF HerdrTypeOK, Listing, SweepBegins
  <2>. QED  BY <1>0, <1>1, <1>2, <2>2, <2>3, TakesUp DEF server
<1>3. CASE ~Sweepable(k)
  <2>1. PICK r \in Thread :
           /\ thread' = [thread EXCEPT ![t] = r]
           /\ r.pc \in {"retry", "empties", "idle"} /\ r.root = 0 /\ r.due \subseteq thread[t].due
    BY <1>0, <1>3, SweptRecord DEF SweepBegins
  <2>2. UNCHANGED lock  BY <1>3 DEF SweepBegins
  <2>. QED  BY <1>0, <1>1, <2>1, <2>2, Rests DEF server
<1>. QED  BY <1>2, <1>3

LEMMA Forgotten ==
    ASSUME HerdrInv, Reaper.pc = "idle", NEW p \in PaneIds, owned[p].ws # 0, NEW sweep \in BOOLEAN,
           Forgets(p, sweep),
           pane' = pane \/ \E panes : pane' = PanesEnded(panes),
           UNCHANGED <<label, spaces, pending, lock, bootVars>>, faults' \in Nat
    PROVE  HerdrInv'
<1>0. "reaper" \in Threads /\ HerdrTypeOK /\ Reaper \in Thread /\ owned[p].space \in Keys
  BY DEF Threads, HerdrInv, HerdrTypeOK, Reaper, Shared
<1>1. PanesMove("reaper")  BY <1>0, Ends
<1>2. RegistryShrinks /\ AddsRetired
  <2>1. owned' = [owned EXCEPT ![p] = NoPaneRecord]  BY DEF Forgets
  <2>2. owned' \in Records /\ \A q \in PaneIds : owned'[q] \in {NoPaneRecord, owned[q]}
    BY <1>0, <2>1, Constants DEF HerdrTypeOK, Records
  <2>. QED  BY <1>0, <2>2 DEF RegistryShrinks, AddsRetired, HerdrTypeOK
<1>3. PICK r : /\ thread' = [thread EXCEPT !["reaper"] = r] /\ r \in Thread /\ r.pc \in {"idle", "sweep"}
               /\ r.root = Reaper.root /\ r.due = Reaper.due /\ (r.pc = "sweep" => r.key \in Keys)
  <2>1. CASE sweep
    <3>1. PICK r : r = [Reaper EXCEPT !.pc = "sweep", !.key = owned[p].space]  OBVIOUS
    <3>2. /\ r \in Thread /\ r.pc = "sweep" /\ r.key = owned[p].space
          /\ r.root = Reaper.root /\ r.due = Reaper.due
      BY <1>0, <3>1 DEF Thread, Pcs
    <3>3. thread' = [thread EXCEPT !["reaper"] = r]
      BY <1>0, <2>1, <3>1 DEF Forgets, Reaper, HerdrTypeOK
    <3>. QED  BY <1>0, <3>2, <3>3
  <2>2. CASE ~sweep
    <3>1. thread' = [thread EXCEPT !["reaper"] = Reaper]  BY <1>0, <2>2 DEF Forgets, Reaper, HerdrTypeOK
    <3>. QED  BY <1>0, <3>1
  <2>. QED  BY <2>1, <2>2
<1>. QED  BY <1>0, <1>1, <1>2, <1>3, Rests DEF Reaper

LEMMA Looked == ASSUME HerdrInv, NEW p \in PaneIds, Looks(p) PROVE HerdrInv'
<1>1. faults' \in Nat  BY DEF HerdrInv, HerdrTypeOK, Looks
<1>. QED  BY <1>1, Forgotten DEF Looks, server

LEMMA Killed == ASSUME HerdrInv, NEW p \in PaneIds, NEW o, Kills(p, o) PROVE HerdrInv'
<1>0. "reaper" \in Threads /\ HerdrTypeOK /\ Reaper \in Thread /\ faults \in Nat /\ Reaper.pc = "idle"
  BY DEF Threads, HerdrInv, HerdrTypeOK, Reaper, Kills
<1>1. faults' \in Nat
  <2>1. faults' = faults \/ Charged(o)  BY DEF Kills
  <2>. QED  BY <1>0, <2>1, Charges
<1>2. pane' = pane \/ \E panes : pane' = PanesEnded(panes)  BY DEF Kills
<1>3. CASE Forgets(p, TRUE)
  BY <1>0, <1>1, <1>2, <1>3, Forgotten DEF Kills
<1>4. CASE ~Forgets(p, TRUE)
  <2>1. /\ thread' = [thread EXCEPT !["reaper"] = [@ EXCEPT !.pc = "sole", !.pane = p, !.ws = owned[p].ws]]
        /\ UNCHANGED <<label, registry, lock, bootVars>>
    BY <1>4 DEF Kills, registry
  <2>2. PICK r : r = [Reaper EXCEPT !.pc = "sole", !.pane = p, !.ws = owned[p].ws]  OBVIOUS
  <2>3. p \in 0..MaxPanes /\ owned[p].ws \in 0..MaxSpace
    BY <1>0, Constants DEF PaneIds, HerdrTypeOK, Records
  <2>4. r \in Thread /\ r.pc = "sole" /\ r.root = Reaper.root /\ r.due = Reaper.due
    BY <1>0, <2>2, <2>3 DEF Thread, Pcs
  <2>5. thread' = [thread EXCEPT !["reaper"] = r]  BY <2>1, <2>2 DEF Reaper
  <2>6. PanesMove("reaper") /\ RegistryShrinks /\ AddsRetired  BY <1>0, <1>2, <2>1, Ends, SameRegistry
  <2>. QED  BY <1>0, <1>1, <2>1, <2>4, <2>5, <2>6, Rests DEF Reaper
<1>. QED  BY <1>3, <1>4

LEMMA ReaperSwept == ASSUME HerdrInv, Sweeps PROVE HerdrInv'
<1>1. "reaper" \in Threads /\ Reaper.key \in Keys /\ Reaper.pc = "sweep"
  BY DEF Threads, HerdrInv, Sound, Keeps, Reaper, Sweeps
<1>. QED  BY <1>1, SweepBegun DEF Sweeps, Reaper

LEMMA SoleListed == ASSUME HerdrInv, NEW o, ListsSole(o) PROVE HerdrInv'
<1>0. /\ "reaper" \in Threads /\ HerdrTypeOK /\ Reaper \in Thread /\ faults' \in Nat /\ Reaper.pc = "sole"
      /\ UNCHANGED <<server, registry, bootVars>> /\ lock = "none"
  BY Charges DEF Threads, HerdrInv, HerdrTypeOK, Reaper, ListsSole
<1>1. PanesMove("reaper") /\ RegistryShrinks /\ AddsRetired  BY <1>0, Ends, SameRegistry DEF server
<1>2. CASE lock' = "reaper" /\ thread' = Go("reaper", "closeSole")
  <2>1. PICK r : r = [Reaper EXCEPT !.pc = "closeSole"]  OBVIOUS
  <2>2. r \in Thread /\ r.pc = "closeSole" /\ r.root = Reaper.root /\ r.due = Reaper.due
    BY <1>0, <2>1, Turned DEF Pcs
  <2>3. thread' = [thread EXCEPT !["reaper"] = r]  BY <1>2, <2>1 DEF Go, Reaper
  <2>. QED  BY <1>0, <1>1, <1>2, <2>2, <2>3, Rests DEF server, Reaper
<1>3. CASE lock' = "none" /\ thread' = Resting("reaper")
  BY <1>0, <1>1, <1>3, Rested DEF server, Reaper
<1>. QED  BY <1>2, <1>3 DEF ListsSole

LEMMA SoleClosed == ASSUME HerdrInv, NEW o, ClosesSole(o) PROVE HerdrInv'
<1>0. "reaper" \in Threads /\ HerdrTypeOK /\ faults' \in Nat /\ Reaper.pc = "closeSole" /\ lock = "reaper"
  BY Charges DEF Threads, HerdrInv, Sound, Keeps, Reaper, ClosesSole
<1>1. PanesMove("reaper")  BY <1>0, Ends DEF ClosesSole
<1>2. RegistryShrinks /\ AddsRetired
  <2>1. CASE UNCHANGED registry  BY <1>0, <2>1, SameRegistry
  <2>2. ASSUME NEW keys, Drop(keys), pending' \subseteq pending PROVE RegistryShrinks /\ AddsRetired
    BY <1>0, <2>2, DropRegistry
  <2>. QED  BY <2>1, <2>2 DEF ClosesSole
<1>. QED  BY <1>0, <1>1, <1>2, Rested DEF ClosesSole, Reaper

\* A thread that is off, boots or waits.
LEMMA Quiet ==
    ASSUME NEW th \in Threads, thread'[th].pc \in {"off", "boot", "idle"}, Plain(thread[th].root)',
           \A s \in thread'[th].due : label'[s.ws].space \in Keys /\ thread'[th].pc = "boot"
    PROVE  Sound(th)'
<1>1. Spawns(th)'  BY DEF Spawns, Working, Placing
<1>2. Sweeping(th)'  BY DEF Sweeping
<1>3. Closing(th)'  BY DEF Closing
<1>4. Keeps(th)'  BY DEF Keeps
<1>. QED  BY <1>1, <1>2, <1>3, <1>4 DEF Sound

LEMMA AllOff ==
    ASSUME NEW pc \in {"off", "idle"}, thread' = [th \in Threads |-> [Off EXCEPT !.pc = pc]]
    PROVE  /\ thread' \in [Threads -> Thread]
           /\ \A th \in Threads : thread'[th].pc = pc /\ Sound(th)'
<1>1. PICK r : r = [Off EXCEPT !.pc = pc]  OBVIOUS
<1>2. r \in Thread /\ r.pc = pc /\ r.root = 0 /\ r.due = {}  BY <1>1, OffThread DEF Pcs
<1>3. \A th \in Threads : thread'[th] = r  BY <1>1
<1>4. ASSUME NEW th \in Threads PROVE Sound(th)'
  <2>1. Plain(thread[th].root)'  BY <1>2, <1>3 DEF Plain
  <2>. QED  BY <1>2, <1>3, <2>1, Quiet
<1>. QED  BY <1>1, <1>2, <1>3, <1>4

LEMMA NothingKnown ==
    /\ [k \in Keys |-> NoSpace] \in Registered
    /\ [p \in PaneIds |-> NoPaneRecord] \in Records
BY Constants DEF Registered, Records

LEMMA Crashed == ASSUME HerdrInv, Crashes PROVE HerdrInv'
<1>0. HerdrTypeOK /\ UNCHANGED <<label, pane, gen, boots, forgot, faults>>
  BY DEF HerdrInv, Crashes, server, bootVars
<1>1. thread' = [th \in Threads |-> [Off EXCEPT !.pc = "off"]]
  BY <1>0 DEF Crashes, HerdrTypeOK, Off
<1>2. thread' \in [Threads -> Thread] /\ \A th \in Threads : thread'[th].pc = "off" /\ Sound(th)'
  BY <1>1, AllOff
<1>3. /\ spaces' = [k \in Keys |-> NoSpace] /\ owned' = [p \in PaneIds |-> NoPaneRecord] /\ pending' = {}
      /\ lock' = "none" /\ \A th \in Threads : thread'[th] = Off
  BY <1>0 DEF Crashes, HerdrTypeOK
<1>4. HerdrTypeOK'  BY <1>0, <1>2, <1>3, NothingKnown DEF HerdrTypeOK
<1>5. Shut'  BY <1>3 DEF Shut, Poller, Reaper, Threads
<1>6. Shared'  BY <1>0, <1>3, Constants DEF Shared, Plain, HerdrInv
<1>7. Dated'  BY <1>0, <1>2, <1>3, Constants DEF Dated, Genuine, Placing, HerdrInv
<1>. QED  BY <1>2, <1>4, <1>5, <1>6, <1>7 DEF HerdrInv

LEMMA ShownUnchanged ==
    ASSUME HerdrInv, UNCHANGED <<server, registry, lock, thread>>
    PROVE  Shut' /\ Shared' /\ \A th \in Threads : Sound(th)'
<1>0. UNCHANGED <<label, pane, spaces, owned, pending, lock, thread>>  BY DEF server, registry
<1>1. Shut'  BY <1>0 DEF HerdrInv, Shut, Spawner, Poller, Reaper
<1>2. Shared'  BY <1>0 DEF HerdrInv, Shared, Plain, Retired, Unused
<1>3. ASSUME NEW th \in Threads PROVE Sound(th)'
  <2>1. Sound(th)  BY DEF HerdrInv
  <2>. QED  BY <1>0, <2>1 DEF Sound, Spawns, Sweeping, Closing, Keeps, Retired, Unused, Plain
<1>. QED  BY <1>1, <1>2, <1>3

LEMMA GenerationLost == ASSUME HerdrInv, LosesGeneration PROVE HerdrInv'
<1>1. faults' \in Nat  BY Charges DEF HerdrInv, LosesGeneration
<1>2. HerdrTypeOK'  BY <1>1 DEF HerdrInv, HerdrTypeOK, LosesGeneration, server, registry
<1>3. Dated'  BY DEF Dated, LosesGeneration
<1>. QED  BY <1>2, <1>3, ShownUnchanged DEF HerdrInv, LosesGeneration

LEMMA Stuttered == ASSUME HerdrInv, UNCHANGED herdrVars PROVE HerdrInv'
<1>0. UNCHANGED <<label, pane, spaces, owned, pending, lock, thread, gen, boots, forgot, faults>>
  BY DEF herdrVars, server, registry, bootVars
<1>1. HerdrTypeOK'  BY <1>0 DEF HerdrInv, HerdrTypeOK
<1>2. Dated'  BY <1>0 DEF HerdrInv, Dated, Genuine
<1>. QED  BY <1>0, <1>1, <1>2, ShownUnchanged DEF HerdrInv, server, registry

LEMMA Booted == ASSUME HerdrInv, Boots PROVE HerdrInv'
<1> DEFINE t == "spawner"
<1>0. /\ t \in Threads /\ HerdrTypeOK /\ Spawner \in Thread /\ Spawner.pc = "off"
      /\ UNCHANGED <<label, pane, spaces, owned, pending, lock, forgot, faults>>
      /\ gen' = gen + 1 /\ boots' = boots + 1
  BY DEF Threads, HerdrInv, HerdrTypeOK, Spawner, Boots, Bumped, server, registry
<1>1. /\ spaces = [k \in Keys |-> NoSpace] /\ owned = [p \in PaneIds |-> NoPaneRecord] /\ pending = {}
      /\ lock = "none" /\ Poller = Off /\ Reaper = Off
  BY <1>0 DEF HerdrInv, Shut
<1>2. PICK found : /\ found \subseteq {w \in Spaces : Living(w)}
                   /\ thread' = [thread EXCEPT !["spawner"].pc = "boot",
                                   !["spawner"].due = {[ws |-> w, root |-> 0] : w \in found}]
  BY DEF Boots
<1>3. PICK due : due = {[ws |-> w, root |-> 0] : w \in found}  OBVIOUS
<1>4. \A s \in due : s \in Kept /\ label[s.ws].space \in Keys
  <2>1. ASSUME NEW w \in found PROVE [ws |-> w, root |-> 0] \in Kept /\ label[w].space \in Keys
    BY <1>2, Constants DEF Kept, Living, PanesOf, HerdrInv, Shared
  <2>. QED  BY <1>3, <2>1
<1>5. PICK r : r = [Spawner EXCEPT !.pc = "boot", !.due = due]  OBVIOUS
<1>6. r \in Thread /\ r.pc = "boot" /\ r.due = due /\ r.root = Spawner.root
  BY <1>0, <1>4, <1>5 DEF Thread, Pcs
<1>7. thread' = [thread EXCEPT ![t] = r]  BY <1>0, <1>2, <1>3, <1>5 DEF HerdrTypeOK, Spawner
<1>8. /\ thread' \in [Threads -> Thread] /\ thread'[t] = r
      /\ \A th \in Threads \ {t} : thread'[th] = thread[th] /\ thread[th] = Off
  BY <1>0, <1>1, <1>6, <1>7, OneThread DEF Poller, Reaper, Threads
<1>9. HerdrTypeOK'  BY <1>0, <1>8 DEF HerdrTypeOK
<1>10. Shut'  BY <1>0, <1>1, <1>6, <1>8 DEF Shut, Spawner, Poller, Reaper, Threads
<1>11. Shared'  BY <1>0, <1>1 DEF HerdrInv, Shared, Plain
<1>12. ASSUME NEW th \in Threads PROVE Sound(th)'
  <2>1. CASE th = t
    <3>1. Plain(Spawner.root)  BY <1>0 DEF HerdrInv, Sound, Keeps, Spawner
    <3>2. Plain(thread[th].root)'  BY <1>0, <1>6, <1>8, <2>1, <3>1 DEF Plain
    <3>. QED  BY <1>0, <1>4, <1>6, <1>8, <2>1, <3>2, Quiet
  <2>2. CASE th # t
    <3>1. Plain(thread[th].root)'  BY <1>8, <2>2, OffThread DEF Plain
    <3>. QED  BY <1>8, <2>2, <3>1, OffThread, Quiet
  <2>. QED  BY <2>1, <2>2
<1>13. Dated'
  <2>1. SUFFICES ASSUME Genuine PROVE Genuine'  BY <1>0 DEF HerdrInv, Dated
  <2>2. \A th \in Threads : thread'[th].pc \in {"off", "boot"}  BY <1>6, <1>8, OffThread
  <2>. QED  BY <1>0, <1>1, <2>1, <2>2, Constants DEF Genuine, Placing
<1>. QED  BY <1>9, <1>10, <1>11, <1>12, <1>13 DEF HerdrInv

LEMMA BootSwept ==
    ASSUME HerdrInv, NEW s \in Spawner.due, NEW closed, NEW listed, BootSweeps(s, closed, listed)
    PROVE  HerdrInv'
<1> DEFINE t == "spawner"
           w == s.ws
           k == label[w].space
           adopts == label[w].gen = gen /\ listed = "ok" /\ Living(w) /\ spaces[k].ws = 0
<1>0. /\ t \in Threads /\ HerdrTypeOK /\ Spawner \in Thread /\ Spawner.pc = "boot"
      /\ UNCHANGED <<label, pending, lock, gen, boots, forgot>>
  BY DEF Threads, HerdrInv, HerdrTypeOK, Spawner, BootSweeps, bootVars
<1>1. pending = {} /\ lock = "none" /\ Poller = Off /\ Reaper = Off
  BY <1>0 DEF HerdrInv, Shut
<1>2. faults' \in Nat
  <2>1. \E o : Charged(o)  BY DEF BootSweeps
  <2>. QED  BY <1>0, <2>1, Charges
<1>3. w \in Spaces /\ w # 0 /\ k \in Keys
  BY <1>0, ThreadNumbers, KeptNumbers DEF HerdrInv, Sound, Keeps, Spawner
<1>4. PICK r : r = [Spawner EXCEPT !.due = @ \ {s}]  OBVIOUS
<1>5. r \in Thread /\ r.pc = "boot" /\ r.due \subseteq Spawner.due /\ r.root = Spawner.root
  BY <1>0, <1>4 DEF Thread
<1>6. thread' = [thread EXCEPT ![t] = r]  BY <1>4 DEF BootSweeps, Spawner
<1>7. /\ thread' \in [Threads -> Thread] /\ thread'[t] = r
      /\ \A th \in Threads \ {t} : thread'[th] = thread[th] /\ thread[th] = Off
  BY <1>0, <1>1, <1>5, <1>6, OneThread DEF Poller, Reaper, Threads
<1>8. /\ pane' \in Panes
      /\ \A p \in PaneIds : pane'[p] \in {pane[p], Dead}
      /\ adopts => pane' = pane
  <2>1. pane' = pane \/ \E panes : pane' = PanesEnded(panes)  BY DEF BootSweeps
  <2>2. adopts => pane' = pane  BY DEF BootSweeps
  <2>3. CASE pane' = pane  BY <1>0, <2>3 DEF HerdrTypeOK
  <2>4. ASSUME NEW panes, pane' = PanesEnded(panes)
        PROVE  pane' \in Panes /\ \A p \in PaneIds : pane'[p] \in {pane[p], Dead}
    BY <1>0, <2>4, Constants DEF PanesEnded, HerdrTypeOK, Panes
  <2>. QED  BY <2>1, <2>2, <2>3, <2>4
<1>9. /\ spaces' \in Registered
      /\ \A j \in Keys : \/ spaces'[j] = spaces[j]
                         \/ adopts /\ j = k /\ spaces'[j].ws = w /\ spaces'[j].root = 0
  <2>1. spaces' = IF adopts THEN [spaces EXCEPT ![k] = [ws |-> w, root |-> 0, misses |-> 0]] ELSE spaces
    BY DEF BootSweeps
  <2>2. [ws |-> w, root |-> 0, misses |-> 0] \in [ws : 0..MaxSpace, root : 0..MaxPanes, misses : Nat]
    BY <1>3, Constants DEF Spaces
  <2> HIDE DEF w, k, adopts
  <2>. QED  BY <1>0, <1>3, <2>1, <2>2 DEF HerdrTypeOK, Registered
<1>10. /\ owned' \in Records
       /\ \A p \in PaneIds : \/ owned'[p] = owned[p]
                             \/ adopts /\ pane[p].ws = w /\ owned'[p].ws = w /\ owned'[p].space = k
  <2>1. owned' = [p \in PaneIds |-> IF adopts /\ p \in PanesOf(w) THEN [space |-> k, ws |-> w] ELSE owned[p]]
    BY DEF BootSweeps
  <2>2. [space |-> k, ws |-> w] \in [space : Keys \cup {"none"}, ws : 0..MaxSpace]
    BY <1>3 DEF Spaces
  <2> HIDE DEF w, k, adopts
  <2>. QED  BY <1>0, <2>1, <2>2 DEF HerdrTypeOK, Records, PanesOf
<1>11. HerdrTypeOK'  BY <1>0, <1>2, <1>7, <1>8, <1>9, <1>10 DEF HerdrTypeOK
<1>12. Shut'  BY <1>0, <1>1, <1>5, <1>7 DEF Shut, Spawner, Poller, Reaper, Threads
<1>13. ASSUME NEW x, x # 0 => x \in PaneIds, Plain(x) PROVE Plain(x)'
  BY <1>8, <1>13, Constants DEF Plain
<1>14. Shared'
  <2>1. \A p \in PaneIds : pane'[p].ws # 0 =>
            label'[pane'[p].ws].space \in Keys /\ pane'[p].kind \notin {"none", "dead"}
    BY <1>0, <1>8, Constants DEF HerdrInv, Shared
  <2>2. ASSUME NEW j \in Keys
       PROVE  Plain(spaces[j].root)' /\ (spaces'[j].ws # 0 => label'[spaces'[j].ws].space = j)
    <3>1. CASE spaces'[j] = spaces[j]
      <4>1. (spaces[j].root # 0 => spaces[j].root \in PaneIds) /\ Plain(spaces[j].root)
        BY <1>0, Numbers DEF HerdrInv, Shared
      <4>2. Plain(spaces[j].root)'  BY <1>8, <3>1, <4>1, Constants DEF Plain
      <4>. QED  BY <1>0, <3>1, <4>2 DEF HerdrInv, Shared
    <3>2. CASE j = k /\ spaces'[j].ws = w /\ spaces'[j].root = 0
      BY <1>0, <3>2 DEF Plain
    <3>. QED  BY <1>9, <3>1, <3>2
  <2>3. \A p \in PaneIds : owned'[p].ws # 0 =>
            owned'[p].space \in Keys /\ label'[owned'[p].ws].space = owned'[p].space
    BY <1>0, <1>3, <1>10 DEF HerdrInv, Shared
  <2>. QED  BY <1>0, <1>1, <2>1, <2>2, <2>3 DEF Shared
<1>15. ASSUME NEW th \in Threads PROVE Sound(th)'
  <2>1. CASE th = t
    <3>1. /\ Plain(Spawner.root) /\ (Spawner.root # 0 => Spawner.root \in PaneIds)
          /\ \A x \in Spawner.due : label[x.ws].space \in Keys
      BY <1>0, ThreadNumbers DEF HerdrInv, Sound, Keeps, Spawner
    <3>2. Plain(thread[th].root)'  BY <1>5, <1>7, <1>8, <2>1, <3>1, Constants DEF Plain
    <3>. QED  BY <1>0, <1>5, <1>7, <2>1, <3>1, <3>2, Quiet
  <2>2. CASE th # t
    <3>1. Plain(thread[th].root)'  BY <1>7, <2>2, OffThread DEF Plain
    <3>. QED  BY <1>7, <2>2, <3>1, OffThread, Quiet
  <2>. QED  BY <2>1, <2>2
<1>16. Dated'
  <2>1. SUFFICES ASSUME Genuine PROVE Genuine'  BY <1>0 DEF HerdrInv, Dated
  <2>2. \A th \in Threads : thread'[th].pc \in {"off", "boot"}  BY <1>5, <1>7, OffThread
  <2>3. \A j \in Keys : spaces'[j].ws # 0 => label'[spaces'[j].ws].gen = gen
    BY <1>0, <1>9, <2>1 DEF Genuine
  <2>4. \A p \in PaneIds : pane'[p].kind \in {"starting", "agent"} =>
           pane'[p].ws # 0 /\ pane'[p].boot = label'[pane'[p].ws].gen
    BY <1>0, <1>8, <2>1, Constants DEF Genuine
  <2>5. ASSUME NEW p \in PaneIds, owned'[p].ws # 0, pane'[p].kind = "agent" PROVE pane'[p].boot = boots
    <3>1. pane'[p] = pane[p]  BY <1>8, <2>5, Constants
    <3>2. CASE owned'[p] = owned[p]  BY <2>1, <2>5, <3>1, <3>2 DEF Genuine
    <3>3. CASE adopts /\ pane[p].ws = w  BY <2>1, <2>5, <3>1, <3>3 DEF Genuine
    <3>. QED  BY <1>10, <3>2, <3>3
  <2>. QED  BY <1>0, <2>1, <2>2, <2>3, <2>4, <2>5 DEF Genuine, Placing
<1>. QED  BY <1>11, <1>12, <1>14, <1>15, <1>16 DEF HerdrInv

LEMMA Served == ASSUME HerdrInv, Serves PROVE HerdrInv'
<1>0. HerdrTypeOK /\ UNCHANGED <<label, pane, spaces, owned, pending, lock, gen, boots, forgot, faults>>
  BY DEF HerdrInv, Serves, server, registry, bootVars
<1>1. thread' = [th \in Threads |-> [Off EXCEPT !.pc = "idle"]]
  BY <1>0 DEF Serves, HerdrTypeOK
<1>2. thread' \in [Threads -> Thread] /\ \A th \in Threads : thread'[th].pc = "idle" /\ Sound(th)'
  BY <1>1, AllOff
<1>3. HerdrTypeOK'  BY <1>0, <1>2 DEF HerdrTypeOK
<1>4. Shut'  BY <1>2 DEF Shut, Spawner, Threads
<1>5. pending = {}  BY DEF HerdrInv, Shut, Serves
<1>6. Shared'  BY <1>0, <1>5 DEF HerdrInv, Shared, Plain
<1>7. Dated'  BY <1>0, <1>2 DEF HerdrInv, Dated, Genuine, Placing
<1>. QED  BY <1>2, <1>3, <1>4, <1>6, <1>7 DEF HerdrInv


----------------------------------------------------------------------------
(* The invariant *)

LEMMA HerdrStart == HerdrInit => HerdrInv
<1>. SUFFICES ASSUME HerdrInit PROVE HerdrInv  OBVIOUS
<1>1. \A th \in Threads : thread[th] = Off  BY DEF HerdrInit, Threads
<1>2. Spawner = Off /\ Poller = Off /\ Reaper = Off  BY <1>1 DEF Threads, Spawner, Poller, Reaper
<1>3. /\ \A w \in Spaces : label[w].space = "none"
      /\ \A p \in PaneIds : pane[p].ws = 0 /\ pane[p].kind = "none"
      /\ \A p \in PaneIds : owned[p].ws = 0
      /\ \A k \in Keys : spaces[k].ws = 0 /\ spaces[k].root = 0
      /\ pending = {} /\ gen = boots
  BY Constants DEF HerdrInit, NoLabel, Never
<1>4. HerdrTypeOK
  <2>1. label \in Labels  BY DEF HerdrInit, NoLabel, Labels
  <2>2. Never \in [ws : 0..MaxSpace, kind : Kinds, boot : Nat]  BY Constants DEF Never, Kinds
  <2>3. pane \in Panes  BY <2>2 DEF HerdrInit, Panes
  <2>4. thread \in [Threads -> Thread]  BY OffThread DEF HerdrInit, Threads
  <2>. QED  BY <2>1, <2>3, <2>4, NothingKnown DEF HerdrTypeOK, HerdrInit
<1>5. Shut  BY <1>2 DEF Shut, HerdrInit
<1>6. Shared  BY <1>3 DEF Shared, Plain
<1>7. ASSUME NEW th \in Threads PROVE Sound(th)
  <2>1. thread[th].pc = "off" /\ thread[th].root = 0 /\ thread[th].due = {}  BY <1>1, OffThread
  <2>. QED  BY <2>1 DEF Sound, Spawns, Sweeping, Closing, Keeps, Working, Placing, Plain
<1>8. \A th \in Threads : thread[th].pc = "off"  BY <1>1, OffThread
<1>9. Dated  BY <1>3, <1>8 DEF Dated, Genuine, Placing
<1>. QED  BY <1>4, <1>5, <1>6, <1>7, <1>9 DEF HerdrInv

LEMMA HerdrStep == HerdrInv /\ [HerdrNext]_herdrVars => HerdrInv'
<1>. SUFFICES ASSUME HerdrInv, [HerdrNext]_herdrVars PROVE HerdrInv'  OBVIOUS
<1>1. DOMAIN thread = Threads  BY DEF HerdrInv, HerdrTypeOK
<1>2. CASE \E p \in PaneIds : PaneExits(p) \/ Looks(p) \/ \E w \in Spaces : HumanOpens(w, p)
  BY <1>2, PaneExit, Looked, HumanOpen
<1>3. CASE \E o \in Outcomes, th \in Threads : Lists(th, o) \/ ClosesIfEmpty(th, o)
  BY <1>3, Listed, Closed
<1>4. CASE \E o \in Outcomes : \/ FindsSpace(o) \/ CreatesSpace(o) \/ Splits(o)
                               \/ StartsAgent(o) \/ Discards(o) \/ CleansRoot(o)
  BY <1>4, SpaceFound, SpaceCreated, PaneSplit, AgentStarted, PaneDiscarded, RootCleaned
<1>5. CASE \E o \in Outcomes : Escapes(o) \/ ListsSole(o) \/ ClosesSole(o)
  BY <1>5, Escaped, SoleListed, SoleClosed
<1>6. CASE \E o \in Outcomes, p \in PaneIds : Kills(p, o)  BY <1>6, Killed
<1>7. CASE \E o \in Outcomes, s \in Spawner.due, listed \in Outcomes : BootSweeps(s, o, listed)
  BY <1>7, BootSwept
<1>8. CASE \E k \in Keys : SpawnBegins(k)  BY <1>8, SpawnBegun
<1>9. CASE Polls \/ Drops \/ Scans \/ SweepsNext \/ Retries \/ Sweeps
  BY <1>9, Polled, Dropped, Scanned, SweptNext, Retried, ReaperSwept
<1>10. CASE Crashes \/ LosesGeneration \/ Boots \/ Serves
  BY <1>10, Crashed, GenerationLost, Booted, Served
<1>11. CASE UNCHANGED herdrVars  BY <1>11, Stuttered
<1>. QED
  BY <1>1, <1>2, <1>3, <1>4, <1>5, <1>6, <1>7, <1>8, <1>9, <1>10, <1>11 DEF HerdrNext

\* A daemon without a serving thread knows nothing; what is known of a workspace agrees
\* with its label; who spawns or sweeps a space has the lock and what it relies on (the
\* sweep, an empty space; the retry, a workspace nobody uses); and unless the generation
\* file was lost, a label's generation is the daemon that made the workspace.
THEOREM HerdrInvariance == HerdrSpec => []HerdrInv
<1>. QED  BY HerdrStart, HerdrStep, PTL DEF HerdrSpec

\* No agent of a dead daemon is in _owned_panes as one of this daemon's, unless the
\* generation file was lost: _bump_generation is written before any workspace is made.
THEOREM DeadAgentsStayOut == HerdrSpec => []AdoptsNoDeadAgents
<1>1. HerdrInv => AdoptsNoDeadAgents  BY DEF HerdrInv, Dated, Genuine, AdoptsNoDeadAgents
<1>. QED  BY <1>1, HerdrInvariance, PTL


----------------------------------------------------------------------------
(* What a sweep may close *)

Others(t) == \A u \in Threads \ {t} : thread'[u] = thread[u]

LEMMA Alone ==
    ASSUME HerdrTypeOK, NEW t \in Threads, NEW r, thread' = [thread EXCEPT ![t] = r]
    PROVE  Others(t)
BY DEF HerdrTypeOK, Others

LEMMA SweepsAlone ==
    ASSUME HerdrTypeOK, NEW t \in Threads, NEW status, SweepEnds(t, status)
    PROVE  Others(t)
<1>1. thread' = Swept(t)  BY DEF SweepEnds
<1>. QED  BY <1>1, SweptRecord, Alone

LEMMA FailsAlone == ASSUME HerdrTypeOK, SpawnErrs PROVE Others("spawner")
<1>1. "spawner" \in Threads  BY DEF Threads
<1>. QED  BY <1>1, Alone DEF SpawnErrs, Failing, Listing, Resting, HerdrTypeOK, Others

\* A step moves one thread at most, or it is the end or the start of them all.
LEMMA OneMoves ==
    ASSUME HerdrInv, HerdrNext
    PROVE  \/ UNCHANGED thread
           \/ \E t \in Threads : thread[t].pc # "close" /\ Others(t)
           \/ \E t \in Threads, o \in Outcomes : ClosesIfEmpty(t, o) /\ Others(t)
           \/ Crashes \/ Serves
<1> DEFINE Moves(t) == thread[t].pc # "close" /\ Others(t)
<1>0. HerdrTypeOK /\ thread \in [Threads -> Thread] /\ DOMAIN thread = Threads
  BY DEF HerdrInv, HerdrTypeOK
<1>1. "spawner" \in Threads /\ "poller" \in Threads /\ "reaper" \in Threads  BY DEF Threads
<1>2. ASSUME NEW t \in Threads, NEW o \in Outcomes, Lists(t, o) PROVE Moves(t)
  <2>1. CASE \E status : SweepEnds(t, status)  BY <1>0, <1>2, <2>1, SweepsAlone DEF Lists
  <2>2. CASE ~\E status : SweepEnds(t, status)
    <3>1. thread' = [thread EXCEPT ![t].pc = "close", ![t].seen = PanesOf(thread[t].ws)]
      BY <1>2, <2>2 DEF Lists
    <3>. QED  BY <1>0, <1>2, <3>1 DEF Lists, Others
  <2>. QED  BY <2>1, <2>2
<1>3. ASSUME NEW t \in Threads, NEW o \in Outcomes, ClosesIfEmpty(t, o) PROVE ClosesIfEmpty(t, o) /\ Others(t)
  <2>1. \E status : SweepEnds(t, status)  BY <1>3 DEF ClosesIfEmpty
  <2>. QED  BY <1>0, <1>3, <2>1, SweepsAlone
<1>4. ASSUME NEW o \in Outcomes, FindsSpace(o) \/ CreatesSpace(o) PROVE Moves("spawner")
  <2>1. CASE FindsSpace(o)  BY <1>0, <2>1 DEF FindsSpace, Go, Others, Spawner
  <2>2. CASE CreatesSpace(o)
    <3>1. CASE thread' = Resting("spawner")
      BY <1>0, <1>1, <2>2, <3>1, Alone DEF CreatesSpace, Resting, Spawner
    <3>2. CASE thread' # Resting("spawner")
      BY <1>0, <1>1, <2>2, <3>2, Alone DEF CreatesSpace, Spawner
    <3>. QED  BY <3>1, <3>2
  <2>. QED  BY <1>4, <2>1, <2>2
<1>5. ASSUME NEW o \in Outcomes, \/ Splits(o) \/ StartsAgent(o) \/ Discards(o) \/ CleansRoot(o)
      PROVE  Moves("spawner")
  <2>1. CASE SpawnErrs  BY <1>0, <1>5, <2>1, FailsAlone DEF Splits, StartsAgent, Discards, CleansRoot, Spawner
  <2>2. CASE Splits(o) /\ ~SpawnErrs  BY <1>0, <2>2 DEF Splits, Others, Spawner
  <2>3. CASE StartsAgent(o)  BY <1>0, <2>3 DEF StartsAgent, Go, Resting, Others, Spawner
  <2>4. CASE CleansRoot(o)  BY <1>0, <2>4 DEF CleansRoot, Resting, Others, Spawner
  <2>. QED  BY <1>5, <2>1, <2>2, <2>3, <2>4 DEF Discards
<1>6. ASSUME NEW k \in Keys, SpawnBegins(k) PROVE Moves("spawner")
  BY <1>0, <1>1, <1>6, Alone DEF SpawnBegins, Spawner
<1>7. ASSUME NEW o \in Outcomes, NEW s \in Spawner.due, NEW listed \in Outcomes, BootSweeps(s, o, listed)
      PROVE  Moves("spawner")
  BY <1>0, <1>7 DEF BootSweeps, Others, Spawner
<1>8. ASSUME Boots PROVE Moves("spawner")
  BY <1>0, <1>8 DEF Boots, Others, Spawner
<1>9. ASSUME NEW o \in Outcomes, Escapes(o) PROVE Moves("poller")
  BY <1>0, <1>9 DEF Escapes, Others, Poller
<1>10. ASSUME \/ Polls \/ Drops \/ Scans PROVE Moves("poller")
  BY <1>0, <1>10 DEF Polls, Go, Drops, Scans, Others, Poller
<1>11. ASSUME SweepsNext PROVE Moves("poller")
  BY <1>0, <1>11 DEF SweepsNext, Listing, Others, Poller
<1>12. ASSUME Retries PROVE Moves("poller")
  BY <1>0, <1>12 DEF Retries, Resting, Others, Poller
<1>13. ASSUME NEW o \in Outcomes, ListsSole(o) \/ ClosesSole(o) PROVE Moves("reaper")
  BY <1>0, <1>13 DEF ListsSole, ClosesSole, Go, Resting, Others, Reaper
<1>14. ASSUME NEW p \in PaneIds, Looks(p) PROVE Moves("reaper")
  BY <1>0, <1>14 DEF Looks, Forgets, Others, Reaper
<1>15. ASSUME NEW o \in Outcomes, NEW p \in PaneIds, Kills(p, o) PROVE Moves("reaper")
  <2>1. thread["reaper"].pc # "close"  BY <1>15 DEF Kills, Reaper
  <2>. QED  BY <1>0, <1>15, <2>1 DEF Kills, Forgets, Others
<1>16. ASSUME Sweeps PROVE Moves("reaper")
  <2>1. thread' = Listing("reaper", Reaper.key) \/ thread' = Swept("reaper")
    BY <1>16 DEF Sweeps, SweepBegins
  <2>2. CASE thread' = Listing("reaper", Reaper.key)  BY <1>0, <1>16, <2>2 DEF Listing, Others, Sweeps, Reaper
  <2>3. CASE thread' = Swept("reaper")
    BY <1>0, <1>1, <1>16, <2>3, SweptRecord, Alone DEF Sweeps, Reaper
  <2>. QED  BY <2>1, <2>2, <2>3
<1>17. ASSUME \/ \E p \in PaneIds : PaneExits(p) \/ \E w \in Spaces : HumanOpens(w, p)
              \/ LosesGeneration
       PROVE  UNCHANGED thread
  BY <1>17 DEF PaneExits, HumanOpens, LosesGeneration
<1>. HIDE DEF Moves
<1>18. \/ UNCHANGED thread \/ Crashes \/ Serves
       \/ \E t \in Threads : Moves(t)
       \/ \E t \in Threads, o \in Outcomes : ClosesIfEmpty(t, o) /\ Others(t)
  BY <1>0, <1>1, <1>2, <1>3, <1>4, <1>5, <1>6, <1>7, <1>8, <1>9, <1>10, <1>11, <1>12, <1>13, <1>14,
     <1>15, <1>16, <1>17 DEF HerdrNext
<1>. QED  BY <1>18 DEF Moves

LEMMA SpareStep ==
    ASSUME HerdrInv, [HerdrNext]_herdrVars, NEW th \in Threads,
           thread[th].pc = "close", thread'[th].pc \notin {"close", "off"},
           NEW p \in PaneIds, pane[p].ws # pane'[p].ws
    PROVE  \/ pane[p].kind = "root"
           \/ pane[p].kind = "human" /\ p \notin thread[th].seen \ {thread[th].root}
<1>1. HerdrNext /\ thread' # thread  BY DEF herdrVars
<1>2. ~Crashes
  BY OffThread DEF Crashes, HerdrInv, HerdrTypeOK
<1>3. ~Serves  BY OffThread DEF HerdrInv, Shut, Serves, Threads, Spawner, Poller, Reaper
<1>4. PICK o \in Outcomes : ClosesIfEmpty(th, o)
  BY <1>1, <1>2, <1>3, OneMoves DEF Others
<1>5. pane[p].ws = thread[th].ws
  <2>1. pane' = pane \/ pane' = PanesEnded(PanesOf(thread[th].ws))  BY <1>4 DEF ClosesIfEmpty
  <2>. QED  BY <2>1 DEF PanesEnded, PanesOf
<1>6. Closing(th)  BY DEF HerdrInv, Sound
<1>. QED  BY <1>5, <1>6 DEF Closing

\* What a sweep's workspace.close ends is a root pane or a person's pane its list had not
\* shown under another number: no agent and no starting one, whatever runs beside it
\* (_close_workspace_if_empty).
THEOREM SweepsSpareAgents == HerdrSpec => SweepsCloseOnlyTheirOwn
<1>1. HerdrInv /\ [HerdrNext]_herdrVars =>
        [ \A th \in DOMAIN thread :
            thread[th].pc = "close" /\ thread'[th].pc \notin {"close", "off"} =>
              \A p \in PaneIds : pane[p].ws # pane'[p].ws =>
                \/ pane[p].kind = "root"
                \/ pane[p].kind = "human" /\ p \notin thread[th].seen \ {thread[th].root} ]_herdrVars
  <2>1. HerdrInv => DOMAIN thread = Threads  BY DEF HerdrInv, HerdrTypeOK
  <2>. QED  BY <2>1, SpareStep
<1>. QED  BY <1>1, HerdrInvariance, PTL DEF HerdrSpec, SweepsCloseOnlyTheirOwn

=============================================================================
