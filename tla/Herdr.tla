-------------------------------- MODULE Herdr --------------------------------
(***************************************************************************)
(* The Herdr backend (terminal/herdr.py): one workspace per space of the   *)
(* org, made when first needed, and swept when its last pane is gone; the  *)
(* threads of the broker that spawn, poll and reap panes through it; what  *)
(* a daemon finds of its predecessor's workspaces.  A step is a request to *)
(* the herdr server with what the thread does until the next one.  Panes   *)
(* of a workspace that agents, people or the adapter close may have their  *)
(* numbers used again; a workspace goes with its last pane.                *)
(***************************************************************************)
EXTENDS Integers, FiniteSetsExt

CONSTANTS Projects,     \* space keys of project spaces, besides SPACE_CONTROL
          Misses,       \* degraded_max_misses
          MaxSpace, MaxPanes, MaxBoots,     \* bounds: workspaces, pane numbers, daemons
          MaxFaults     \* bound of requests that fail, lose their answer or answer late

ASSUME HerdrAssumption ==
    /\ {Misses, MaxSpace, MaxPanes, MaxBoots, MaxFaults} \subseteq Nat
    /\ Misses > 0
    /\ Projects \cap {"none", "pending"} = {}

Control == "control"
Keys == Projects \cup {Control}

VARIABLES
    label,      \* of a workspace of this org: generation and space key, once it was made
    pane,       \* by number: its workspace, what runs in it, and the daemon that made it
    spaces,     \* _spaces: workspace, root pane, missing_count (DEGRADED if not 0)
    owned,      \* _owned_panes: the space and the workspace of a pane
    pending,    \* _pending_sweep: workspaces and their root panes
    lock,       \* the thread in _spawn_lock
    thread,     \* one that spawns (and boots), one that polls, one that closes and reaps
    gen,        \* the generation file
    boots,      \* daemons so far
    forgot,     \* the generation file was lost once
    faults      \* requests that did not do as they should

server == <<label, pane>>
registry == <<spaces, owned, pending>>
bootVars == <<gen, boots, forgot>>
herdrVars == <<server, registry, lock, thread, bootVars, faults>>

NoLabel == [gen |-> 0, space |-> "none"]
Never == [ws |-> 0, kind |-> "none", boot |-> 0]
Dead == [Never EXCEPT !.kind = "dead"]
NoSpace == [ws |-> 0, root |-> 0, misses |-> 0]
NoPaneRecord == [space |-> "none", ws |-> 0]
Off == [pc |-> "off", key |-> "none", ws |-> 0, root |-> 0, pane |-> 0, new |-> FALSE,
        seen |-> {}, todo |-> {}, due |-> {}]
Resting(th) == [thread EXCEPT ![th] = [Off EXCEPT !.pc = "idle"]]
Go(th, pc) == [thread EXCEPT ![th].pc = pc]

(***************************************************************************)
(* The server, external.                                                   *)
(***************************************************************************)
Spaces == 1..MaxSpace
PaneIds == 1..MaxPanes
PanesOf(w) == {p \in PaneIds : pane[p].ws = w}
Living(w) == w # 0 /\ PanesOf(w) # {}
PanesEnded(panes) == [p \in PaneIds |-> IF p \in panes THEN Dead ELSE pane[p]]
Fresh == {p \in PaneIds : pane[p].kind = "none" /\ \A q \in 1..(p - 1) : pane[q].kind # "none"}
Made(p, w, kind) == [pane EXCEPT ![p] = [ws |-> w, kind |-> kind, boot |-> boots]]

\* A request is answered, fails, or is done and its answer lost.
Outcomes == {"ok", "fails", "lost"}
Charged(o) == IF o = "ok" THEN UNCHANGED faults ELSE faults < MaxFaults /\ faults' = faults + 1

\* An agent or a shell ends, or somebody closes its pane.
PaneExits(p) ==
    /\ pane[p].ws # 0
    /\ pane' = PanesEnded({p})
    /\ UNCHANGED <<label, registry, lock, thread, bootVars, faults>>

\* A person opens a pane in a workspace of the org; its number may have been another's.
HumanOpens(w, p) ==
    /\ Living(w) /\ \A q \in PaneIds : pane[q].kind # "human"
    /\ pane[p].kind = "dead" \/ p \in Fresh
    /\ pane' = Made(p, w, "human")
    /\ UNCHANGED <<label, registry, lock, thread, bootVars, faults>>

(***************************************************************************)
(* Sweeps (_sweep_if_empty, _close_workspace_if_empty, _sweep_space,       *)
(* _retry_pending_sweep), run by every thread.                             *)
(***************************************************************************)
\* _drop_space: the space a key has now, and the records of its panes.
Drop(keys) ==
    /\ spaces' = [k \in Keys |-> IF k \in keys THEN NoSpace ELSE spaces[k]]
    /\ owned' = [p \in PaneIds |->
                    IF \E k \in keys : spaces[k].ws = owned[p].ws THEN NoPaneRecord ELSE owned[p]]

\* Mutant: a space is empty whatever its records say.
BugSweepable(k) == k # Control /\ spaces[k].ws # 0
\* The grace of a young space is left out: what protects a spawn is the lock.
Sweepable(k) == k # Control /\ spaces[k].ws # 0 /\ \A p \in PaneIds : owned[p].space # k

OwnPanes(w, root) == {root} \cup {p \in PaneIds : owned[p].ws = w}

Listing(th, k) ==
    [thread EXCEPT ![th].pc = "list", ![th].key = k, ![th].ws = spaces[k].ws, ![th].root = spaces[k].root]

\* Where a thread goes on after a sweep.
Swept(th) ==
    IF th = "poller"
    THEN [thread EXCEPT ![th] = [Off EXCEPT !.pc = IF thread[th].key = "pending" THEN "retry" ELSE "empties",
                                            !.todo = thread[th].todo, !.due = thread[th].due]]
    ELSE Resting(th)

SweepEnds(th, status) ==
    LET me == thread[th]
    IN /\ thread' = Swept(th)
       /\ IF me.key = "pending"
          THEN /\ pending' = IF status \in {"closed", "gone"} THEN {s \in pending : s.ws # me.ws} ELSE pending
               /\ UNCHANGED <<spaces, owned, lock>>
          ELSE /\ lock' = "none"
               /\ IF status = "unknown" THEN UNCHANGED <<spaces, owned>> ELSE Drop({me.key})
               /\ pending' = IF status \in {"occupied", "close_failed"} /\ spaces[me.key].ws # 0
                             THEN pending \cup {[ws |-> spaces[me.key].ws, root |-> spaces[me.key].root]}
                             ELSE pending

\* _sweep_if_empty once it has the lock.
SweepBegins(th, k) ==
    /\ lock = "none"
    /\ IF Sweepable(k) THEN lock' = th /\ thread' = Listing(th, k)
       ELSE thread' = Swept(th) /\ UNCHANGED lock
    /\ UNCHANGED <<server, registry, bootVars, faults>>

\* pane.list, which may fail, or still show a pane that was closed.
Lists(th, o) ==
    LET me == thread[th]
    IN /\ me.pc = "list"
       /\ Charged(o)
       /\ IF o = "fails" THEN SweepEnds(th, "unknown")
          ELSE IF o = "ok" /\ ~Living(me.ws) THEN SweepEnds(th, "gone")
          ELSE IF o = "lost" \/ ~(PanesOf(me.ws) \subseteq OwnPanes(me.ws, me.root)) THEN SweepEnds(th, "occupied")
          ELSE /\ thread' = [thread EXCEPT ![th].pc = "close", ![th].seen = PanesOf(me.ws)]
               /\ UNCHANGED <<registry, lock>>
       /\ UNCHANGED <<server, bootVars>>

\* workspace.close ends every pane in it.
ClosesIfEmpty(th, o) ==
    LET me == thread[th]
    IN /\ me.pc = "close"
       /\ Charged(o)
       /\ pane' = IF o = "fails" THEN pane ELSE PanesEnded(PanesOf(me.ws))
       /\ SweepEnds(th, IF o # "ok" THEN "close_failed" ELSE IF Living(me.ws) THEN "closed" ELSE "gone")
       /\ UNCHANGED <<label, bootVars>>

(***************************************************************************)
(* spawn                                                                   *)
(***************************************************************************)
Spawner == thread["spawner"]
Failing == IF Spawner.new /\ Sweepable(Spawner.key) THEN Listing("spawner", Spawner.key) ELSE Resting("spawner")
Released == IF Spawner.new /\ Sweepable(Spawner.key) THEN "spawner" ELSE "none"
SpawnErrs == thread' = Failing /\ lock' = Released

SpawnBegins(k) ==
    /\ Spawner.pc = "idle" /\ lock = "none"
    /\ lock' = "spawner"
    /\ thread' = [thread EXCEPT !["spawner"] =
                    [@ EXCEPT !.pc = IF spaces[k].ws = 0 THEN "create" ELSE "present",
                              !.key = k, !.ws = spaces[k].ws, !.root = spaces[k].root]]
    /\ UNCHANGED <<server, registry, bootVars, faults>>

\* _workspace_present: a failing workspace.list counts as yes.
FindsSpace(o) ==
    LET k == Spawner.key
        same == spaces[k].ws = Spawner.ws
    IN /\ Spawner.pc = "present" /\ o \in {"ok", "fails"}
       /\ Charged(o)
       /\ IF o = "fails" \/ Living(Spawner.ws)
          THEN /\ spaces' = IF same THEN [spaces EXCEPT ![k].misses = 0] ELSE spaces
               /\ thread' = Go("spawner", "split") /\ UNCHANGED owned
          ELSE Drop({k}) /\ thread' = Go("spawner", "create")
       /\ UNCHANGED <<server, pending, lock, bootVars>>

CreatesSpace(o) ==
    /\ Spawner.pc = "create"
    /\ Charged(o)
    /\ IF o = "fails" THEN UNCHANGED server
       ELSE \E w \in Spaces, root \in Fresh :
              /\ label[w] = NoLabel /\ \A v \in 1..(w - 1) : label[v] # NoLabel
              /\ label' = [label EXCEPT ![w] = [gen |-> gen, space |-> Spawner.key]]
              /\ pane' = Made(root, w, "root")
    /\ IF o = "ok"
       THEN \E w \in Spaces, root \in Fresh :
              /\ label[w] # label'[w]
              /\ spaces' = [spaces EXCEPT ![Spawner.key] = [ws |-> w, root |-> root, misses |-> 0]]
              /\ thread' = [thread EXCEPT !["spawner"] =
                              [@ EXCEPT !.pc = "split", !.ws = w, !.root = root, !.new = TRUE]]
              /\ UNCHANGED lock
       ELSE thread' = Resting("spawner") /\ lock' = "none" /\ UNCHANGED spaces
    /\ UNCHANGED <<owned, pending, bootVars>>

\* _split_agent_pane
Splits(o) ==
    /\ Spawner.pc = "split"
    /\ Charged(o)
    /\ IF o # "fails" /\ Living(Spawner.ws)
       THEN \E p \in Fresh :
              /\ pane' = Made(p, Spawner.ws, "starting")
              /\ IF o = "ok" THEN thread' = [thread EXCEPT !["spawner"].pc = "start", !["spawner"].pane = p]
                                  /\ UNCHANGED lock
                 ELSE SpawnErrs
       ELSE SpawnErrs /\ UNCHANGED pane
    /\ UNCHANGED <<label, registry, bootVars>>

\* The path of the venv, agent.start and its retries; then the record of the pane.
StartsAgent(o) ==
    LET p == Spawner.pane
    IN /\ Spawner.pc = "start" /\ o \in {"ok", "fails"}
       /\ Charged(o)
       /\ IF o = "ok" /\ pane[p].kind = "starting"
          THEN /\ pane' = [pane EXCEPT ![p].kind = "agent"]
               /\ owned' = [owned EXCEPT ![p] = [space |-> Spawner.key, ws |-> Spawner.ws]]
               /\ IF Spawner.root = 0 THEN thread' = Resting("spawner") /\ lock' = "none"
                  ELSE thread' = Go("spawner", "root") /\ UNCHANGED lock
          ELSE thread' = Go("spawner", "discard") /\ UNCHANGED <<pane, owned, lock>>
       /\ UNCHANGED <<label, spaces, pending, bootVars>>

\* _discard_pane
Discards(o) ==
    /\ Spawner.pc = "discard" /\ o \in {"ok", "fails"}
    /\ Charged(o)
    /\ pane' = IF o = "ok" THEN PanesEnded({Spawner.pane}) ELSE pane
    /\ SpawnErrs
    /\ UNCHANGED <<label, registry, bootVars>>

\* _cleanup_root_pane: the root pane is forgotten, closed or not.
CleansRoot(o) ==
    /\ Spawner.pc = "root" /\ o \in {"ok", "fails"}
    /\ Charged(o)
    /\ pane' = IF o = "ok" /\ pane[Spawner.root].ws # 0 THEN PanesEnded({Spawner.root}) ELSE pane
    /\ spaces' = [k \in Keys |-> IF spaces[k].ws = Spawner.ws THEN [spaces[k] EXCEPT !.root = 0] ELSE spaces[k]]
    /\ thread' = Resting("spawner") /\ lock' = "none"
    /\ UNCHANGED <<label, owned, pending, bootVars>>

(***************************************************************************)
(* list_panes                                                              *)
(***************************************************************************)
Poller == thread["poller"]

\* The lists of all workspaces; one that is there may be missed for a moment.
Polls ==
    LET query == ({spaces[k].ws : k \in Keys} \cup {owned[p].ws : p \in PaneIds}) \ {0}
    IN /\ Poller.pc = "idle"
       /\ \/ query = {} /\ UNCHANGED <<spaces, faults>>
             /\ thread' = [thread EXCEPT !["poller"].pc = "retry", !["poller"].due = pending]
          \/ \E missed \in {{}} \cup {{w} : w \in {v \in query : Living(v)}} :
               /\ query # {}
               /\ Charged(IF missed = {} THEN "ok" ELSE "fails")
               /\ spaces' = [k \in Keys |->
                    IF spaces[k].ws = 0 THEN NoSpace
                    ELSE [spaces[k] EXCEPT !.misses = IF spaces[k].ws \in missed \/ ~Living(spaces[k].ws)
                                                     THEN Min({@ + 1, Misses}) ELSE 0]]
               /\ thread' = Go("poller", "escape")
    /\ UNCHANGED <<server, owned, pending, lock, bootVars>>

\* _escape_degraded: which of the suspects are gone from workspace.list ...
Escapes(o) ==
    LET suspects == {k \in Keys : spaces[k].ws # 0 /\ spaces[k].misses >= Misses}
        gone == {k \in suspects : o = "ok" /\ ~Living(spaces[k].ws)}
    IN /\ Poller.pc = "escape" /\ o \in {"ok", "fails"}
       /\ Charged(o)
       /\ thread' = [thread EXCEPT !["poller"].pc = IF gone = {} THEN "scan" ELSE "drop", !["poller"].todo = gone]
       /\ UNCHANGED <<server, registry, lock, bootVars>>

\* ... and their keys are dropped.
Drops ==
    /\ Poller.pc = "drop"
    /\ Drop(Poller.todo)
    /\ thread' = [thread EXCEPT !["poller"].pc = "scan", !["poller"].todo = {}]
    /\ UNCHANGED <<server, pending, lock, bootVars, faults>>

\* _sweep_empty_project_spaces: candidates without a spawn in flight, one by one; then
\* the workspaces of _pending_sweep.
Scans ==
    /\ Poller.pc = "scan"
    /\ thread' = [thread EXCEPT !["poller"].pc = "empties",
                    !["poller"].todo = {k \in Keys : Sweepable(k) /\ ~(lock = "spawner" /\ Spawner.key = k)}]
    /\ UNCHANGED <<server, registry, lock, bootVars, faults>>

SweepsNext ==
    /\ Poller.pc = "empties"
    /\ IF Poller.todo = {}
       THEN /\ thread' = [thread EXCEPT !["poller"].pc = "retry", !["poller"].due = pending]
            /\ UNCHANGED <<server, registry, lock, bootVars, faults>>
       ELSE \E k \in Poller.todo :
              /\ lock = "none"
              /\ lock' = IF Sweepable(k) THEN "poller" ELSE "none"
              /\ thread' = [(IF Sweepable(k) THEN Listing("poller", k) ELSE thread)
                                EXCEPT !["poller"].todo = @ \ {k}]
              /\ UNCHANGED <<server, registry, bootVars, faults>>

Retries ==
    /\ Poller.pc = "retry"
    /\ IF Poller.due = {} THEN thread' = Resting("poller")
       ELSE \E s \in Poller.due :
              thread' = [thread EXCEPT !["poller"] = [Poller EXCEPT !.pc = "list", !.key = "pending",
                                            !.ws = s.ws, !.root = s.root, !.due = @ \ {s}]]
    /\ UNCHANGED <<server, registry, lock, bootVars, faults>>

(***************************************************************************)
(* pane_liveness and kill_pane                                             *)
(***************************************************************************)
Reaper == thread["reaper"]

\* _forget_pane; only a pane that is gone has its space swept.
Forgets(p, sweep) ==
    /\ owned' = [owned EXCEPT ![p] = NoPaneRecord]
    /\ thread' = IF sweep THEN [thread EXCEPT !["reaper"].pc = "sweep", !["reaper"].key = owned[p].space]
                 ELSE thread

\* pane.get: GONE, or REUSED when the terminal is another; else nothing changes.
Looks(p) ==
    /\ Reaper.pc = "idle" /\ owned[p].ws # 0
    /\ pane[p].kind \in {"dead", "human"}
    /\ Forgets(p, pane[p].kind = "dead")
    /\ UNCHANGED <<server, spaces, pending, lock, bootVars, faults>>

\* pane.close; a refusal, which the only pane of a workspace may meet, is looked into.
Kills(p, o) ==
    /\ Reaper.pc = "idle" /\ owned[p].ws # 0
    /\ \/ /\ o = "ok" /\ Forgets(p, TRUE) /\ UNCHANGED faults
          /\ pane' = IF pane[p].ws = 0 THEN pane ELSE PanesEnded({p})
       \/ /\ IF Living(pane[p].ws) /\ PanesOf(pane[p].ws) = {p} /\ o = "fails" THEN UNCHANGED faults ELSE o # "ok" /\ Charged(o)
          /\ pane' = IF o = "lost" /\ pane[p].ws # 0 THEN PanesEnded({p}) ELSE pane
          /\ thread' = [thread EXCEPT !["reaper"] = [@ EXCEPT !.pc = "sole", !.pane = p, !.ws = owned[p].ws]]
          /\ UNCHANGED owned
    /\ UNCHANGED <<label, spaces, pending, lock, bootVars>>

Sweeps == Reaper.pc = "sweep" /\ SweepBegins("reaper", Reaper.key)

ListsSole(o) ==
    LET sole == o = "ok" /\ PanesOf(Reaper.ws) = {Reaper.pane} /\ \E k \in Keys : spaces[k].ws = Reaper.ws
    IN /\ Reaper.pc = "sole" /\ lock = "none" /\ o \in {"ok", "fails"}
       /\ Charged(o)
       /\ lock' = IF sole THEN "reaper" ELSE "none"
       /\ thread' = IF sole THEN Go("reaper", "closeSole") ELSE Resting("reaper")
       /\ UNCHANGED <<server, registry, bootVars>>

\* close_workspace of one workspace; a failure keeps what is known of it.
ClosesSole(o) ==
    LET keys == {k \in Keys : spaces[k].ws = Reaper.ws}
    IN /\ Reaper.pc = "closeSole"
       /\ Charged(o)
       /\ pane' = IF o = "fails" THEN pane ELSE PanesEnded(PanesOf(Reaper.ws))
       /\ IF o = "ok" THEN Drop(keys) /\ pending' = {s \in pending : s.ws # Reaper.ws}
          ELSE UNCHANGED registry
       /\ lock' = "none" /\ thread' = Resting("reaper")
       /\ UNCHANGED <<label, bootVars>>

(***************************************************************************)
(* Daemons (__post_init__, _startup_sweep)                                 *)
(***************************************************************************)
HerdrInit ==
    /\ label = [w \in Spaces |-> NoLabel] /\ pane = [p \in PaneIds |-> Never]
    /\ spaces = [k \in Keys |-> NoSpace] /\ owned = [p \in PaneIds |-> NoPaneRecord] /\ pending = {}
    /\ lock = "none" /\ thread = [th \in {"spawner", "poller", "reaper"} |-> Off]
    /\ gen = 0 /\ boots = 0 /\ forgot = FALSE /\ faults = 0

Crashes ==
    /\ Spawner.pc # "off" /\ boots < MaxBoots
    /\ spaces' = [k \in Keys |-> NoSpace] /\ owned' = [p \in PaneIds |-> NoPaneRecord] /\ pending' = {}
    /\ lock' = "none" /\ thread' = [th \in DOMAIN thread |-> Off]
    /\ UNCHANGED <<server, bootVars, faults>>

\* The generation file cannot be read: the count starts anew.
LosesGeneration ==
    /\ Spawner.pc = "off" /\ gen > 0 /\ Charged("fails")
    /\ gen' = 0 /\ forgot' = TRUE
    /\ UNCHANGED <<server, registry, lock, thread, boots>>

\* Mutant: the new generation is not written before it is used.
BugBumped(saved) == Max({saved, 1})
\* _bump_generation: written before any workspace is made.
Bumped(saved) == saved + 1

\* The startup sweep is left out while another process holds its lock, or herdr is silent.
Boots ==
    /\ Spawner.pc = "off" /\ boots < MaxBoots
    /\ gen' = Bumped(gen) /\ boots' = boots + 1
    /\ \E found \in {{}, {w \in Spaces : Living(w)}} :
          thread' = [thread EXCEPT !["spawner"].pc = "boot",
                        !["spawner"].due = {[ws |-> w, root |-> 0] : w \in found}]
    /\ UNCHANGED <<server, registry, lock, forgot, faults>>

\* _sweep_old_generation closes, _adopt_or_sweep_current takes over a workspace with panes
\* unless it cannot list them or has one for its key; a later generation is left alone.
BootSweeps(s, closed, listed) ==
    LET w == s.ws
        k == label[w].space
        current == label[w].gen = gen
        adopts == current /\ listed = "ok" /\ Living(w) /\ spaces[k].ws = 0
        closes == label[w].gen <= gen /\ ~adopts
    IN /\ Spawner.pc = "boot" /\ s \in Spawner.due
       /\ listed \in IF current THEN {"ok", "fails"} ELSE {"ok"}
       /\ closed \in IF closes THEN Outcomes ELSE {"ok"}
       /\ Charged(IF listed = "ok" THEN closed ELSE listed)
       /\ pane' = IF closes /\ closed # "fails" THEN PanesEnded(PanesOf(w)) ELSE pane
       /\ spaces' = IF adopts THEN [spaces EXCEPT ![k] = [ws |-> w, root |-> 0, misses |-> 0]] ELSE spaces
       /\ owned' = [p \in PaneIds |-> IF adopts /\ p \in PanesOf(w) THEN [space |-> k, ws |-> w] ELSE owned[p]]
       /\ thread' = [thread EXCEPT !["spawner"].due = @ \ {s}]
       /\ UNCHANGED <<label, pending, lock, bootVars>>

Serves ==
    /\ Spawner.pc = "boot" /\ Spawner.due = {}
    /\ thread' = [th \in DOMAIN thread |-> [Off EXCEPT !.pc = "idle"]]
    /\ UNCHANGED <<server, registry, lock, bootVars, faults>>

HerdrNext ==
    \/ \E p \in PaneIds : PaneExits(p) \/ Looks(p) \/ \E w \in Spaces : HumanOpens(w, p)
    \/ \E o \in Outcomes :
          \/ \E th \in DOMAIN thread : Lists(th, o) \/ ClosesIfEmpty(th, o)
          \/ FindsSpace(o) \/ CreatesSpace(o) \/ Splits(o) \/ StartsAgent(o) \/ Discards(o) \/ CleansRoot(o)
          \/ Escapes(o) \/ ListsSole(o) \/ ClosesSole(o)
          \/ \E p \in PaneIds : Kills(p, o)
          \/ \E s \in Spawner.due, listed \in Outcomes : BootSweeps(s, o, listed)
    \/ \E k \in Keys : SpawnBegins(k)
    \/ Polls \/ Drops \/ Scans \/ SweepsNext \/ Retries \/ Sweeps
    \/ Crashes \/ LosesGeneration \/ Boots \/ Serves

HerdrSpec == HerdrInit /\ [][HerdrNext]_herdrVars

(***************************************************************************)
(* Properties.                                                             *)
(***************************************************************************)
\* A sweep that closes a workspace ends no agent and no starting one, whatever spawns and
\* polls beside it, and nobody's pane that its list had shown, even one that has the number
\* of a pane of the adapter; only the root pane's number is trusted without a look at its
\* terminal (_close_workspace_if_empty, the in-flight guard).
SweepsCloseOnlyTheirOwn ==
    [][ \A th \in DOMAIN thread :
          thread[th].pc = "close" /\ thread'[th].pc \notin {"close", "off"} =>
            \A p \in PaneIds : pane[p].ws # pane'[p].ws =>
                \/ pane[p].kind = "root"
                \/ pane[p].kind = "human" /\ p \notin thread[th].seen \ {thread[th].root} ]_herdrVars

\* A daemon takes no agent of a dead daemon for its own, unless the generation file was
\* lost ("gN with workspaces, crash, gN again": _bump_generation).
AdoptsNoDeadAgents ==
    \A p \in PaneIds : owned[p].ws # 0 /\ pane[p].kind = "agent" => forgot \/ pane[p].boot = boots

\* The comment on _owned_panes: a record goes when its pane is gone, reused or closed; so
\* an agent that runs is in it from its spawn on, and list_panes shows it.
LiveAgentsAreTracked ==
    \A p \in PaneIds : pane[p].kind = "agent" /\ pane[p].boot = boots /\ Spawner.pc # "off" => owned[p].ws # 0

=============================================================================
