---------------------------- MODULE OrgLifecycle ----------------------------
(***************************************************************************)
(* org up and org down (broker/launcher.py) around the daemons they start  *)
(* and stop (run in broker/cli.py): the two files by which a daemon of a   *)
(* state directory is found (daemon.json and admin.token), its journal,    *)
(* and the gate of the resident sweep.                                     *)
(*                                                                         *)
(* One action is one file access or one admin RPC.  There is no lock       *)
(* between a command and the daemons; there is one operator, who runs one  *)
(* command at a time.  What an RPC does inside the daemon is the subject   *)
(* of DeliveryStore; here it is the secretary's name, taken or not.  A     *)
(* command stands for the command with --reap: without it the sweep only   *)
(* prints.                                                                 *)
(***************************************************************************)
CONSTANTS
    Daemons,  \* pool of daemon processes; a dead one nobody refers to is reused
    None      \* no daemon

ASSUME NoneIsNoDaemon == None \notin Daemons

VARIABLES
    daemon,    \* the daemon processes
    json,      \* daemon.json: the daemon whose address it has, or None
    token,     \* admin.token: the daemon whose token it has, or None
    session,   \* the daemons a secretary TUI is connected to
    cmd,       \* the command that is run
    operator   \* "free", or "advised": does only what the last command advises

vars == <<daemon, json, token, session, cmd, operator>>

----------------------------------------------------------------------------
(* Data *)

\* run().  "listen" serves but is not published, "half" has written
\* daemon.json, "up" admin.token as well; "closed" serves no more, "noted" has
\* journalled broker_stopped, "unlinked" has removed daemon.json.
DaemonPcs == {"boot", "listen", "half", "up", "closed", "noted", "unlinked", "gone"}

\* slice: the journal has a broker_stopped line after the daemon's
\* journal_offset.  taken: an agent named secretary is bound.
DaemonState == [pc : DaemonPcs, slice : BOOLEAN, asked : BOOLEAN, taken : BOOLEAN]

UpPcs   == {"resolve", "grace", "probe", "mint", "cold", "spawn", "wait", "waitkey",
            "fresh", "launch"}
DownPcs == {"find", "key", "control", "ask", "await", "recheck", "forget", "forgetkey",
            "gate", "reap"}

\* at and key: the daemon.json and the admin.token that were read; mine: the
\* daemon the command started; advice: what to run next.
Command == [pc : UpPcs \cup DownPcs \cup {"idle"},
            at : Daemons \cup {None}, key : Daemons \cup {None},
            mine : Daemons \cup {None}, reached : BOOLEAN,
            advice : {"up", "down", "rm"}]

\* The steps of a command that use the address it read.
Addressed == {"grace", "probe", "mint", "waitkey", "fresh", "launch",
              "key", "control", "ask", "await", "recheck", "forget", "forgetkey"}

Ended(advice) == [pc |-> "idle", at |-> None, key |-> None, mine |-> None,
                  reached |-> FALSE, advice |-> advice]

TypeOK ==
    /\ daemon \in [Daemons -> DaemonState]
    /\ json \in Daemons \cup {None} /\ token \in Daemons \cup {None}
    /\ session \in SUBSET Daemons
    /\ cmd \in Command
    /\ cmd.pc \in Addressed => cmd.at # None
    /\ operator \in {"free", "advised"}

Init ==
    /\ daemon = [d \in Daemons |->
          [pc |-> "gone", slice |-> FALSE, asked |-> FALSE, taken |-> FALSE]]
    /\ json = None /\ token = None
    /\ session = {}
    /\ cmd = Ended("up")
    /\ operator = "free"

Serving(d) == daemon[d].pc \in {"listen", "half", "up"}
Gone(d)    == daemon[d].pc = "gone"

\* What an admin RPC to the address of d with the token of k meets.
Reachable(d)     == Serving(d)
Authorized(d, k) == Serving(d) /\ k = d

----------------------------------------------------------------------------
(* The daemon: run() *)

DaemonAt(d, pc) == daemon' = [daemon EXCEPT ![d].pc = pc]

\* The process is gone, and with it its bindings and connections.
Exits(d) ==
    /\ daemon' = [daemon EXCEPT ![d].pc = "gone", ![d].asked = FALSE, ![d].taken = FALSE]
    /\ session' = session \ {d}

\* Mutant: org down searches the whole journal.
BugNewRun(d) == [daemon[d] EXCEPT !.pc = "listen"]

\* journal_offset is taken, then start() listens.
NewRun(d) == [daemon[d] EXCEPT !.pc = "listen", !.slice = FALSE]

DaemonStarts(d) ==
    /\ daemon[d].pc = "boot"
    /\ daemon' = [daemon EXCEPT ![d] = NewRun(d)]
    /\ UNCHANGED <<json, token, session, cmd, operator>>

DaemonWritesSidecar(d) ==
    /\ daemon[d].pc = "listen"
    /\ DaemonAt(d, "half") /\ json' = d
    /\ UNCHANGED <<token, session, cmd, operator>>

DaemonWritesToken(d) ==
    /\ daemon[d].pc = "half"
    /\ DaemonAt(d, "up") /\ token' = d
    /\ UNCHANGED <<json, session, cmd, operator>>

\* wait_for_shutdown returns; stop() closes the server, then journals.
DaemonCloses(d) ==
    /\ daemon[d].pc = "up" /\ daemon[d].asked
    /\ DaemonAt(d, "closed")
    /\ UNCHANGED <<json, token, session, cmd, operator>>

DaemonJournals(d) ==
    /\ daemon[d].pc = "closed"
    /\ daemon' = [e \in Daemons |->
          [daemon[e] EXCEPT !.slice = TRUE, !.pc = IF e = d THEN "noted" ELSE @]]
    /\ UNCHANGED <<json, token, session, cmd, operator>>

\* remove_sidecar: whatever is in the two files.
DaemonRemovesSidecar(d) ==
    /\ daemon[d].pc = "noted"
    /\ DaemonAt(d, "unlinked") /\ json' = None
    /\ UNCHANGED <<token, session, cmd, operator>>

DaemonRemovesToken(d) ==
    /\ daemon[d].pc = "unlinked"
    /\ Exits(d) /\ token' = None
    /\ UNCHANGED <<json, cmd, operator>>

DaemonStep(d) ==
    \/ DaemonStarts(d) \/ DaemonWritesSidecar(d) \/ DaemonWritesToken(d)
    \/ DaemonCloses(d) \/ DaemonJournals(d)
    \/ DaemonRemovesSidecar(d) \/ DaemonRemovesToken(d)

----------------------------------------------------------------------------
(* The operator *)

Idle == cmd.pc = "idle"

\* The operator gives a daemon the time to write its daemon.json, and one that
\* was told to stop the time to exit, before running a command.
Settled == \A d \in Daemons : Gone(d) \/ (daemon[d].pc \in {"half", "up"} /\ ~daemon[d].asked)

\* Nothing is left to be done.
OrgIsUp == \E d \in session : daemon[d].pc = "up" /\ ~daemon[d].asked

Begin(advised, pc) ==
    /\ cmd.pc = "idle" /\ Settled
    /\ operator = "advised" => cmd.advice = advised /\ ~OrgIsUp
    /\ cmd' = [cmd EXCEPT !.pc = pc, !.advice = "up"]
    /\ UNCHANGED <<daemon, json, token, session, operator>>

RunOrgUp   == Begin("up", "resolve")
RunOrgDown == Begin("down", "find")

\* "remove the stale sidecar: rm daemon.json", of a process confirmed dead.
RemoveStaleSidecar ==
    /\ cmd.pc = "idle" /\ cmd.advice = "rm"
    /\ json # None /\ Gone(json)
    /\ json' = None
    /\ cmd' = Ended("up")
    /\ UNCHANGED <<daemon, token, session, operator>>

\* kill PID, Ctrl-C
Terminate(d) ==
    /\ operator = "free" /\ Idle
    /\ Serving(d) /\ ~daemon[d].asked
    /\ daemon' = [daemon EXCEPT ![d].asked = TRUE]
    /\ UNCHANGED <<json, token, session, cmd, operator>>

QuitSecretary(d) ==
    /\ operator = "free"
    /\ d \in session
    /\ session' = session \ {d}
    /\ UNCHANGED <<daemon, json, token, cmd, operator>>

\* From here on the operator follows the advice, and nothing else goes wrong:
\* a daemon that lives is in time for SIDECAR_WAIT_TIMEOUT.
FollowAdvice ==
    /\ operator = "free" /\ operator' = "advised"
    /\ UNCHANGED <<daemon, json, token, session, cmd>>

Crash(d) ==
    /\ operator = "free"
    /\ ~Gone(d)
    /\ Exits(d)
    /\ UNCHANGED <<json, token, cmd, operator>>

----------------------------------------------------------------------------
(* org up *)

Goto(pc) == cmd' = [cmd EXCEPT !.pc = pc]
End(advice) == cmd' = Ended(advice)
OnlyCmd == UNCHANGED <<daemon, json, token, session, operator>>

\* _resolve_existing_daemon
UpReadsSidecar ==
    /\ cmd.pc = "resolve"
    /\ IF json = None THEN Goto("cold")
       ELSE cmd' = [cmd EXCEPT !.pc = "grace", !.at = json]
    /\ OnlyCmd

\* Mutant: a half-published daemon is taken for an absent one.
BugUpReadsToken ==
    /\ cmd.pc = "grace"
    /\ IF token = None THEN Goto("cold")
       ELSE cmd' = [cmd EXCEPT !.pc = "probe", !.key = token]
    /\ OnlyCmd

\* token_missing after the grace: not a second daemon over the same state_dir.
UpReadsToken ==
    /\ cmd.pc = "grace"
    /\ IF token = None THEN End("down")
       ELSE cmd' = [cmd EXCEPT !.pc = "probe", !.key = token]
    /\ OnlyCmd

\* The unnamed probe and the MCP round trip: unreachable is stale, refused is
\* unhealthy.
UpProbes ==
    /\ cmd.pc = "probe"
    /\ IF ~Reachable(cmd.at) THEN Goto("cold")
       ELSE IF Authorized(cmd.at, cmd.key) THEN Goto("mint")
       ELSE End("down")
    /\ OnlyCmd

\* conflict: the daemon runs another backend than the one asked for.
UpFindsOtherBackend ==
    /\ operator = "free" /\ cmd.pc = "mint"
    /\ End("down")
    /\ OnlyCmd

\* name_taken: already up.
UpMints ==
    LET d == cmd.at
    IN /\ cmd.pc = "mint"
       /\ IF Serving(d) /\ ~daemon[d].taken
          THEN daemon' = [daemon EXCEPT ![d].taken = TRUE] /\ Goto("launch")
          ELSE UNCHANGED daemon /\ End("down")
       /\ UNCHANGED <<json, token, session, operator>>

\* preflight_residents, on a cold start only.
UpSweeps == cmd.pc = "cold" /\ Goto("spawn") /\ OnlyCmd

\* _spawn_daemon.  The files of a stale daemon stay where they are.
Unused(d) == Gone(d) /\ d \notin {json, token} /\ d \notin {cmd.at, cmd.key, cmd.mine}

UpSpawnsDaemon ==
    /\ cmd.pc = "spawn"
    /\ \E d \in Daemons :
          /\ Unused(d)
          /\ DaemonAt(d, "boot")
          /\ cmd' = [cmd EXCEPT !.pc = "wait", !.mine = d]
    /\ UNCHANGED <<json, token, session, operator>>

\* One turn of _wait_for_sidecar is two reads.
UpFindsSidecar ==
    /\ cmd.pc = "wait" /\ json # None
    /\ cmd' = [cmd EXCEPT !.pc = "waitkey", !.at = json]
    /\ OnlyCmd

UpFindsToken ==
    /\ cmd.pc = "waitkey"
    /\ IF token = None THEN Goto("wait")
       ELSE cmd' = [cmd EXCEPT !.pc = "fresh", !.key = token]
    /\ OnlyCmd

\* SIDECAR_WAIT_TIMEOUT: the daemon died, or it is slow.
UpTimesOut ==
    /\ cmd.pc = "wait"
    /\ operator = "advised" => Gone(cmd.mine)
    /\ End("up") /\ OnlyCmd

UpMintsFresh ==
    LET d == cmd.at
    IN /\ cmd.pc = "fresh"
       /\ IF Authorized(d, cmd.key) /\ ~daemon[d].taken
          THEN daemon' = [daemon EXCEPT ![d].taken = TRUE] /\ Goto("launch")
          ELSE UNCHANGED daemon /\ End("up")
       /\ UNCHANGED <<json, token, session, operator>>

UpLaunches ==
    /\ cmd.pc = "launch"
    /\ session' = session \cup {d \in {cmd.at} : ~Gone(d)}
    /\ End("up")
    /\ UNCHANGED <<daemon, json, token, operator>>

\* A write error, or an argument that build_up_argv refuses.
UpFailsToLaunch ==
    /\ operator = "free" /\ cmd.pc = "launch"
    /\ End("up")
    /\ OnlyCmd

UpStep ==
    \/ UpReadsSidecar \/ UpReadsToken \/ UpProbes \/ UpFindsOtherBackend
    \/ UpMints \/ UpSweeps \/ UpSpawnsDaemon \/ UpFindsSidecar
    \/ UpFindsToken \/ UpTimesOut \/ UpMintsFresh \/ UpLaunches
    \/ UpFailsToLaunch

----------------------------------------------------------------------------
(* org down *)

\* Mutant: no early return without a daemon.json.
BugDownReadsSidecar ==
    /\ cmd.pc = "find"
    /\ cmd' = [cmd EXCEPT !.pc = "key", !.at = json]
    /\ OnlyCmd

DownReadsSidecar ==
    /\ cmd.pc = "find"
    /\ cmd' = [cmd EXCEPT !.pc = IF json = None THEN "gate" ELSE "key", !.at = json]
    /\ OnlyCmd

DownReadsToken ==
    /\ cmd.pc = "key"
    /\ cmd' = [cmd EXCEPT !.pc = IF token = None THEN "await" ELSE "control",
                          !.key = token]
    /\ OnlyCmd

\* The unnamed control token, and the panes that are closed with it.
DownMintsControl ==
    /\ cmd.pc = "control"
    /\ cmd' = [cmd EXCEPT !.pc = "ask", !.reached = Reachable(cmd.at)]
    /\ OnlyCmd

DownRequestsShutdown ==
    LET d == cmd.at
    IN /\ cmd.pc = "ask"
       /\ cmd' = [cmd EXCEPT !.pc = "await", !.reached = @ \/ Reachable(d)]
       /\ daemon' = [daemon EXCEPT ![d].asked = @ \/ Authorized(d, cmd.key)]
       /\ UNCHANGED <<json, token, session, operator>>

\* Mutant: issue 140, "investigate the daemon, then retry".
BugGuidance(d) == "down"

\* _half_dead_daemon_guidance
Guidance(d) == IF Gone(d) THEN "rm" ELSE "down"

\* Mutant: the sidecar goes whether or not the daemon does.
BugNotStopped == Goto("forget")

\* broker_stopped was not seen.  The files go only if the daemon never answered.
NotStopped ==
    IF cmd.key # None /\ ~cmd.reached
    THEN Goto("forget")
    ELSE cmd' = [cmd EXCEPT !.pc = "gate",
                            !.advice = IF cmd.key = None THEN Guidance(cmd.at) ELSE "down"]

\* _wait_for_stop
DownSeesStopped ==
    /\ cmd.pc = "await" /\ daemon[cmd.at].slice
    /\ Goto("forget")
    /\ OnlyCmd

DownSeesNoSidecar ==
    /\ cmd.pc = "await" /\ json = None
    /\ Goto("recheck")
    /\ OnlyCmd

DownRechecks ==
    /\ cmd.pc = "recheck"
    /\ IF daemon[cmd.at].slice THEN Goto("forget") ELSE NotStopped
    /\ OnlyCmd

DownTimesOut ==
    /\ cmd.pc = "await" /\ ~daemon[cmd.at].slice
    /\ NotStopped
    /\ OnlyCmd

\* remove_sidecar: whatever is in the two files.
DownRemovesSidecar ==
    /\ cmd.pc = "forget"
    /\ json' = None /\ Goto("forgetkey")
    /\ UNCHANGED <<daemon, token, session, operator>>

DownRemovesToken ==
    /\ cmd.pc = "forgetkey"
    /\ token' = None /\ Goto("gate")
    /\ UNCHANGED <<daemon, json, session, operator>>

\* Mutant: --reap is obeyed whatever became of the daemon.
BugDownGates == cmd.pc = "gate" /\ Goto("reap") /\ OnlyCmd

\* daemon_confirmed_down
DownGates ==
    /\ cmd.pc = "gate"
    /\ IF json = None THEN Goto("reap") ELSE End(cmd.advice)
    /\ OnlyCmd

DownSweeps == cmd.pc = "reap" /\ End(cmd.advice) /\ OnlyCmd

DownStep ==
    \/ DownReadsSidecar \/ DownReadsToken \/ DownMintsControl
    \/ DownRequestsShutdown \/ DownSeesStopped \/ DownSeesNoSidecar
    \/ DownRechecks \/ DownTimesOut \/ DownRemovesSidecar
    \/ DownRemovesToken \/ DownGates \/ DownSweeps

----------------------------------------------------------------------------

Operates == RunOrgUp \/ RunOrgDown \/ RemoveStaleSidecar

\* Ctrl-C in a command.
Interrupt ==
    /\ operator = "free" /\ ~Idle
    /\ End(cmd.advice)
    /\ OnlyCmd

Mishap(d) == Terminate(d) \/ QuitSecretary(d) \/ Crash(d)

Next ==
    \/ \E d \in Daemons : DaemonStep(d) \/ Mishap(d)
    \/ UpStep \/ DownStep \/ Operates \/ Interrupt \/ FollowAdvice

Spec == Init /\ [][Next]_vars

\* Processes run, and a poll that keeps coming round meets its deadline.  An
\* operator who follows advice does follow it; one who is free promises nothing.
Fairness ==
    /\ \A d \in Daemons : WF_vars(DaemonStep(d))
    /\ WF_vars(UpStep) /\ WF_vars(DownStep)
    /\ SF_vars(UpTimesOut)
    /\ WF_vars(operator = "advised" /\ Operates)

FairSpec == Spec /\ Fairness

----------------------------------------------------------------------------
(* Properties *)

\* No second daemon over the same state directory (launcher.py, token_missing
\* and conflict), however daemons crash and commands fail.
OneDaemon == \A d, e \in Daemons : d # e => Gone(d) \/ Gone(e)

\* A daemon that is up is found by the next command: nobody takes away its two
\* files (_org_down_daemon: the sidecar of a live daemon is never removed).
LiveDaemonIsFound ==
    \A d \in Daemons : daemon[d].pc = "up" => json = d /\ token = d

\* org down removes the files only of the daemon it found, and only when that
\* one serves no more: it never takes the broker_stopped of an earlier run, or
\* a refusal, for the end of this one.
ForgetsOnlyDeadDaemon ==
    cmd.pc \in {"forget", "forgetkey"} =>
        ~Serving(cmd.at) /\ json \in {None, cmd.at} /\ token \in {None, cmd.key, cmd.at}

\* --reap never runs against the residents of a running org (docs/cli.md,
\* resident pre-flight).
ReapSparesLiveOrg ==
    cmd.pc \in {"cold", "reap"} => \A d \in session : ~Serving(d)

\* docs/cli.md: org up discovers the port of the daemon it started "from the
\* newly published sidecar".
UpFindsItsOwnDaemon ==
    cmd.pc = "fresh" => cmd.at = cmd.mine

\* From every state that crashes, refused arguments and interrupted commands
\* lead to, doing what the commands print leads back to a running org.
AdviceLeadsUp == (operator = "advised") ~> OrgIsUp

=============================================================================
