----------------------------- MODULE Residents -----------------------------
(***************************************************************************)
(* The sweep of broker-unmanaged residents (broker/residents.py), run by   *)
(* org up on a cold start and by org down after teardown, against the      *)
(* processes it looks at and the registrants that write the registry       *)
(* meanwhile.  One action is one look at a process, one signal, or one     *)
(* access to a registration; the kernel and the registrants may act        *)
(* between any two.  Any look at a live process may fail.                  *)
(*                                                                         *)
(* Assumed: two processes of one pid start further apart than              *)
(* START_TIME_TOLERANCE, so starts are compared for equality.              *)
(***************************************************************************)
EXTENDS Naturals

CONSTANTS
    Pids,        \* process ids
    Files,       \* names of <state-dir>/residents/*.json
    MaxStarts,   \* bound on processes started
    FastReuse    \* BOOLEAN: a pid may be reused between two looks 50 ms apart

ASSUME ResidentConstants ==
    MaxStarts \in Nat /\ FastReuse \in BOOLEAN /\ 0 \notin Pids

VARIABLES
    proc,      \* the process of each pid
    started,   \* how many processes have been started
    files,     \* the registry
    sweep      \* the running preflight_residents

residentVars == <<proc, started, files, sweep>>

----------------------------------------------------------------------------
(* Data *)

\* A process: when it started (0 for no process), whether it is a resident of
\* this org, of another one or neither, and whether its executable or working
\* directory is no longer what it registered.
Process == [start : Nat, org : {"mine", "other", "none"}, moved : BOOLEAN]
NoProcess == [start |-> 0, org |-> "none", moved |-> FALSE]

\* A registration: what _load_record makes of it, whose it is (fingerprint of
\* host, root_cwd and state_dir), and pid and started_at.  pid = 0 is no file.
Record == [form : {"ok", "unknown_version", "malformed"}, owner : {"mine", "other"},
           pid : Pids \cup {0}, start : Nat]
NoRecord == [form |-> "malformed", owner |-> "other", pid |-> 0, start |-> 0]

\* unseen: _terminate_process looked and could not observe the process.
SweepPcs == {"idle", "next", "alive", "observe", "look", "term", "grace", "kill",
             "dying", "reread", "unlink"}
Sweep == [pc : SweepPcs, reap : BOOLEAN, posix : BOOLEAN, todo : SUBSET Files,
          file : Files \cup {"none"}, rec : Record, unseen : BOOLEAN]
NoSweep == [pc |-> "idle", reap |-> FALSE, posix |-> FALSE, todo |-> {},
            file |-> "none", rec |-> NoRecord, unseen |-> FALSE]

ResidentsTypeOK ==
    /\ proc \in [Pids -> Process]
    /\ started \in Nat
    /\ files \in [Files -> Record]
    /\ sweep \in Sweep

ResidentsInit ==
    /\ proc = [p \in Pids |-> NoProcess]
    /\ started = 0
    /\ files = [n \in Files |-> NoRecord]
    /\ sweep = NoSweep

----------------------------------------------------------------------------
(* Processes and registrants *)

\* _pid_alive (a zombie counts as dead, as on Linux).
Running(p) == proc[p].start # 0

\* The process a registration speaks of lives.
Lives(rec) == rec.pid \in Pids /\ rec.start # 0 /\ proc[rec.pid].start = rec.start

\* From its last look on, _terminate_process looks at the pid every 50 ms.
Watched(p) == sweep.rec.pid = p /\ sweep.pc \in {"term", "grace", "kill", "dying"}

ProcessStarts(p) ==
    /\ ~Running(p) /\ started < MaxStarts
    /\ FastReuse \/ ~Watched(p)
    /\ started' = started + 1
    /\ \E org \in {"mine", "other", "none"} :
           proc' = [proc EXCEPT ![p] = [start |-> started + 1, org |-> org, moved |-> FALSE]]
    /\ UNCHANGED <<files, sweep>>

ProcessExits(p) ==
    /\ Running(p)
    /\ proc' = [proc EXCEPT ![p] = NoProcess]
    /\ UNCHANGED <<started, files, sweep>>

\* chdir, or an executable replaced on disk.
ProcessMoves(p) ==
    /\ Running(p) /\ ~proc[p].moved
    /\ proc' = [proc EXCEPT ![p].moved = TRUE]
    /\ UNCHANGED <<started, files, sweep>>

\* A registrant publishes its own pid and start by os.replace; its version may
\* be one this runtime does not know, its start not a number (0).
Registers(p, n) ==
    /\ Running(p) /\ proc[p].org # "none"
    /\ \E form \in {"ok", "unknown_version"}, finite \in BOOLEAN :
           files' = [files EXCEPT ![n] = [form |-> form, owner |-> proc[p].org, pid |-> p,
                                         start |-> IF finite THEN proc[p].start ELSE 0]]
    /\ UNCHANGED <<proc, started, sweep>>

----------------------------------------------------------------------------
(* The sweep *)

Goes(pc) == sweep' = [sweep EXCEPT !.pc = pc]
OnlySweep == UNCHANGED <<proc, started, files>>

\* identity_match of an observation; seen = FALSE is None.
Identity(rec, seen) ==
    IF ~seen \/ rec.start = 0 THEN "unknown"
    ELSE IF proc[rec.pid].start # rec.start \/ proc[rec.pid].moved THEN "mismatch"
    ELSE "match"

\* Whether an observation of p succeeds: /proc or ps may fail, a handle be refused, and
\* what is observed may lack the start time.
Seen(p) == IF Running(p) THEN BOOLEAN ELSE {FALSE}

SweepBegins ==
    /\ sweep.pc = "idle"
    /\ \E reap, posix \in BOOLEAN :
           sweep' = [NoSweep EXCEPT !.pc = "next", !.reap = reap, !.posix = posix,
                                   !.todo = {n \in Files : files[n].pid # 0}]
    /\ OnlySweep

\* _load_record: a file that has vanished reads as malformed.  What is not
\* understood, not owned or not to be reaped is announced and passed over.
LoadsRecord ==
    /\ sweep.pc = "next"
    /\ \E n \in sweep.todo :
           sweep' = [sweep EXCEPT !.todo = @ \ {n}, !.file = n, !.rec = files[n], !.unseen = FALSE,
                        !.pc = IF files[n].form = "ok" /\ files[n].owner = "mine" /\ sweep.reap
                               THEN "alive" ELSE "next"]
    /\ OnlySweep

SweepEnds ==
    /\ sweep.pc = "next" /\ sweep.todo = {}
    /\ sweep' = NoSweep
    /\ OnlySweep

\* STALE_OWNED, or a process to be identified.
ChecksAlive ==
    /\ sweep.pc = "alive"
    /\ Goes(IF Running(sweep.rec.pid) THEN "observe" ELSE "reread")
    /\ OnlySweep

\* observe, identity_match, _classify_row: LIVE_REAPABLE, RECYCLED or UNVERIFIABLE.
Identifies ==
    /\ sweep.pc = "observe"
    /\ \E seen \in Seen(sweep.rec.pid) :
           Goes(CASE Identity(sweep.rec, seen) = "match" -> "look"
                  [] Identity(sweep.rec, seen) = "mismatch" -> "reread"
                  [] Identity(sweep.rec, seen) = "unknown" -> "next")
    /\ OnlySweep

\* Mutant of LooksAgain: it does not look.
BugLooksAgain == sweep.pc = "look" /\ Goes("term") /\ OnlySweep

\* _terminate_process looks again before it signals.  What it cannot see is "gone" (no
\* observation) or "recycled" (no start time), as is what has gone or was recycled.
LooksAgain ==
    /\ sweep.pc = "look"
    /\ \E seen \in Seen(sweep.rec.pid) :
           sweep' = [sweep EXCEPT !.unseen = ~seen,
                        !.pc = IF seen /\ proc[sweep.rec.pid].start = sweep.rec.start
                               THEN "term" ELSE "reread"]
    /\ OnlySweep

\* SIGTERM, or taskkill without /F.  The process may ignore it, and the signal
\* may be refused (EPERM: "still_alive").
Terminates ==
    /\ sweep.pc = "term"
    /\ \/ ~Running(sweep.rec.pid) /\ Goes(IF sweep.posix THEN "reread" ELSE "grace")
       \/ Running(sweep.rec.pid) /\ Goes("grace")
       \/ Running(sweep.rec.pid) /\ sweep.posix /\ Goes("next")
    /\ OnlySweep

\* _wait_dead.
SeesDead ==
    /\ sweep.pc \in {"grace", "dying"} /\ ~Running(sweep.rec.pid)
    /\ Goes("reread")
    /\ OnlySweep

\* Mutant of AfterGrace: what was signalled counts as gone.
BugAfterGrace == IF sweep.posix THEN "reread" ELSE "next"
\* SIGKILL follows on POSIX; Windows prints what to do by hand ("guidance").
AfterGrace == IF sweep.posix THEN "kill" ELSE "next"

GraceEnds ==
    /\ sweep.pc = "grace" /\ Running(sweep.rec.pid)
    /\ Goes(AfterGrace)
    /\ OnlySweep

\* SIGKILL, without another look at the start time.
Kills ==
    /\ sweep.pc = "kill"
    /\ \/ ~Running(sweep.rec.pid) /\ Goes("reread")
       \/ Running(sweep.rec.pid) /\ Goes("dying")
       \/ Running(sweep.rec.pid) /\ Goes("next")
    /\ OnlySweep

\* A process in the kernel outlives its SIGKILL: "still_alive".
DyingTakesTooLong ==
    /\ sweep.pc = "dying" /\ Running(sweep.rec.pid)
    /\ Goes("next")
    /\ OnlySweep

\* _delete_registration: only what was classified is removed (NaN equals nothing) ...
Rereads ==
    LET now == files[sweep.file]
    IN /\ sweep.pc = "reread"
       /\ Goes(IF now.pid = sweep.rec.pid /\ now.start = sweep.rec.start /\ now.start # 0
               THEN "unlink" ELSE "next")
       /\ OnlySweep

\* ... as it was when it was read again.
Unlinks ==
    /\ sweep.pc = "unlink"
    /\ files' = [files EXCEPT ![sweep.file] = NoRecord]
    /\ Goes("next")
    /\ UNCHANGED <<proc, started>>

SweepStep ==
    \/ LoadsRecord \/ SweepEnds \/ ChecksAlive \/ Identifies \/ LooksAgain
    \/ Terminates \/ SeesDead \/ GraceEnds \/ Kills \/ DyingTakesTooLong
    \/ Rereads \/ Unlinks

ResidentsNext ==
    \/ SweepBegins \/ SweepStep
    \/ \E p \in Pids : ProcessStarts(p) \/ ProcessExits(p) \/ ProcessMoves(p)
    \/ \E p \in Pids, n \in Files : Registers(p, n)

ResidentsSpec == ResidentsInit /\ [][ResidentsNext]_residentVars

----------------------------------------------------------------------------
(* Properties *)

\* A signal reaches only the very process that registered, and one of this org
\* (registry contract, section 7, TERMINATE and the TOCTOU guard): not one that
\* got its pid while the sweep was busy with other records.
SignalsOnlyRegistered ==
    sweep.pc \in {"term", "kill"} /\ Running(sweep.rec.pid) =>
        Lives(sweep.rec) /\ proc[sweep.rec.pid].org = "mine"

\* The registration that is about to be removed speaks of a process that is gone
\* (section 7: "on confirmed exit"), or that no longer is what it registered, unless
\* _terminate_process could not observe it: a process that was signalled is forgotten only
\* once it is dead, and one that cannot be observed in the first place is left alone.
ForgetsOnlyTheGone ==
    sweep.pc \in {"reread", "unlink"} =>
        ~Lives(sweep.rec) \/ proc[sweep.rec.pid].moved \/ sweep.unseen

\* DELETE-STALE (section 7): no registration is removed but of a process that is dead or
\* is seen to be another one; "where a platform cannot observe ... never reaped".
DeletesOnlyStale ==
    sweep.pc = "unlink" => ~Lives(sweep.rec) \/ proc[sweep.rec.pid].moved

=============================================================================
