-------------------------- MODULE OrgLifecycleProofs --------------------------
(***************************************************************************)
(* The safety of org up and org down, for any number of daemon processes.  *)
(* One invariant carries all four properties: which daemon can be alive,   *)
(* and in which phase, while a command is at a given step.                 *)
(***************************************************************************)
EXTENDS OrgLifecycle, TLAPS

\* The steps of org up before it starts a daemon, and those of org down after
\* it has read daemon.json.
Looking == {"resolve", "grace", "probe", "mint", "cold", "spawn"}
Pointed == {"grace", "probe", "mint", "key", "control", "ask", "await", "recheck",
            "forget", "forgetkey", "gate", "reap"}
Keyed   == {"control", "ask", "await", "recheck", "forget", "forgetkey"}

\* A published daemon has the two files, unless an org down that saw it stop
\* was faster.
Published == \A d \in Daemons :
    /\ daemon[d].pc \in {"half", "up", "closed"} => json = d
    /\ daemon[d].pc = "up" => token = d

\* broker_stopped is in the slice of a daemon that serves no more.
StopIsLast == \A d \in Daemons :
    daemon[d].slice => daemon[d].pc \notin {"listen", "half", "up", "closed"}

\* While a command looks for the daemon none appears, ...
NoneAppears ==
    /\ cmd.pc \in Looking \cup {"find"} =>
          \A d \in Daemons : Gone(d) \/ (daemon[d].pc \in {"half", "up"} /\ ~daemon[d].asked)
    /\ cmd.pc \in DownPcs => \A d \in Daemons : daemon[d].pc \notin {"boot", "listen"}

\* ... the one that lives is the one it found, ...
FoundIsAlive ==
    cmd.pc \in Pointed =>
        /\ \A d \in Daemons : Gone(d) \/ d = cmd.at
        /\ json \in {None, cmd.at}
        /\ cmd.pc = "reap" => json = None

\* ... a cold start has found none, ...
ColdMeansNone == cmd.pc \in {"cold", "spawn"} => \A d \in Daemons : Gone(d)

\* ... org down waits for one that it reached or that is dead, ...
Reached ==
    /\ cmd.pc \in {"key", "control", "ask"} =>
          Gone(cmd.at) \/ (daemon[cmd.at].pc \in {"half", "up"} /\ ~daemon[cmd.at].asked)
    /\ cmd.pc \in {"ask", "await", "recheck"} /\ cmd.key # None =>
          cmd.reached \/ Gone(cmd.at)

\* ... and removes the files of one that serves no more.
Forgets ==
    /\ cmd.pc \in {"forget", "forgetkey"} =>
          daemon[cmd.at].pc \in {"noted", "unlinked", "gone"}
    /\ cmd.pc \in Keyed => token \in {None, cmd.key, cmd.at}

IInv ==
    /\ TypeOK /\ OneDaemon /\ Published /\ StopIsLast /\ NoneAppears
    /\ FoundIsAlive /\ ColdMeansNone /\ Reached /\ Forgets

----------------------------------------------------------------------------
(* What an update of the command or of a daemon leaves behind *)

Pcs == UpPcs \cup DownPcs \cup {"idle"}

\* The command is at step p, with address a and key k; r: it reached the daemon.
CmdIs(c, p, a, k, r) ==
    /\ c \in Command
    /\ c.pc = p /\ c.at = a /\ c.key = k /\ c.reached = r

\* Daemon d is at p and nothing else happened to the daemons; sl and as: its
\* slice and its asked.
DaemonIs(d, p, sl, as) ==
    /\ daemon' \in [Daemons -> DaemonState]
    /\ daemon'[d].pc = p /\ daemon'[d].slice = sl /\ daemon'[d].asked = as
    /\ \A e \in Daemons : e # d => daemon'[e] = daemon[e]

\* The updates of a command.
LEMMA CmdPc ==
    ASSUME NEW c \in Command, NEW p \in Pcs
    PROVE CmdIs([c EXCEPT !.pc = p], p, c.at, c.key, c.reached)
BY DEF CmdIs, Command, Pcs

LEMMA CmdAt ==
    ASSUME NEW c \in Command, NEW p \in Pcs, NEW a \in Daemons \cup {None}
    PROVE CmdIs([c EXCEPT !.pc = p, !.at = a], p, a, c.key, c.reached)
BY DEF CmdIs, Command, Pcs

LEMMA CmdKey ==
    ASSUME NEW c \in Command, NEW p \in Pcs, NEW k \in Daemons \cup {None}
    PROVE CmdIs([c EXCEPT !.pc = p, !.key = k], p, c.at, k, c.reached)
BY DEF CmdIs, Command, Pcs

LEMMA CmdMine ==
    ASSUME NEW c \in Command, NEW p \in Pcs, NEW d \in Daemons
    PROVE CmdIs([c EXCEPT !.pc = p, !.mine = d], p, c.at, c.key, c.reached)
BY DEF CmdIs, Command, Pcs

LEMMA CmdReached ==
    ASSUME NEW c \in Command, NEW p \in Pcs, NEW r \in BOOLEAN
    PROVE CmdIs([c EXCEPT !.pc = p, !.reached = r], p, c.at, c.key, r)
BY DEF CmdIs, Command, Pcs

LEMMA CmdAdvises ==
    ASSUME NEW c \in Command, NEW p \in Pcs, NEW adv \in {"up", "down", "rm"}
    PROVE CmdIs([c EXCEPT !.pc = p, !.advice = adv], p, c.at, c.key, c.reached)
BY DEF CmdIs, Command, Pcs

LEMMA CmdEnds ==
    ASSUME NEW adv \in {"up", "down", "rm"}
    PROVE CmdIs(Ended(adv), "idle", None, None, FALSE)
BY DEF CmdIs, Command, Pcs, Ended

\* The updates of a daemon.
LEMMA RecPc ==
    ASSUME NEW r \in DaemonState, NEW p \in DaemonPcs
    PROVE /\ [r EXCEPT !.pc = p] \in DaemonState
          /\ [r EXCEPT !.pc = p].pc = p
          /\ [r EXCEPT !.pc = p].slice = r.slice
          /\ [r EXCEPT !.pc = p].asked = r.asked
BY DEF DaemonState

LEMMA DaemonMoves ==
    ASSUME daemon \in [Daemons -> DaemonState], NEW d \in Daemons, NEW p \in DaemonPcs,
           DaemonAt(d, p)
    PROVE DaemonIs(d, p, daemon[d].slice, daemon[d].asked)
<1>1. daemon' = [daemon EXCEPT ![d] = [daemon[d] EXCEPT !.pc = p]] BY DEF DaemonAt
<1> QED BY <1>1, RecPc DEF DaemonIs

LEMMA RecExit ==
    ASSUME NEW r \in DaemonState
    PROVE LET x == [r EXCEPT !.pc = "gone", !.asked = FALSE, !.taken = FALSE]
          IN x \in DaemonState /\ x.pc = "gone" /\ x.slice = r.slice /\ x.asked = FALSE
BY DEF DaemonState, DaemonPcs

LEMMA DaemonExits ==
    ASSUME daemon \in [Daemons -> DaemonState], NEW d \in Daemons, Exits(d)
    PROVE DaemonIs(d, "gone", daemon[d].slice, FALSE)
<1>1. daemon' = [daemon EXCEPT ![d] =
          [daemon[d] EXCEPT !.pc = "gone", !.asked = FALSE, !.taken = FALSE]] BY DEF Exits
<1> QED BY <1>1, RecExit DEF DaemonIs

LEMMA RecNewRun ==
    ASSUME NEW r \in DaemonState
    PROVE LET x == [r EXCEPT !.pc = "listen", !.slice = FALSE]
          IN x \in DaemonState /\ x.pc = "listen" /\ x.slice = FALSE /\ x.asked = r.asked
BY DEF DaemonState, DaemonPcs

LEMMA DaemonRuns ==
    ASSUME daemon \in [Daemons -> DaemonState], NEW d \in Daemons,
           daemon' = [daemon EXCEPT ![d] = NewRun(d)]
    PROVE DaemonIs(d, "listen", FALSE, daemon[d].asked)
BY RecNewRun DEF DaemonIs, NewRun

LEMMA RecAsked ==
    ASSUME NEW r \in DaemonState, NEW b \in BOOLEAN
    PROVE LET x == [r EXCEPT !.asked = b]
          IN x \in DaemonState /\ x.pc = r.pc /\ x.slice = r.slice /\ x.asked = b
BY DEF DaemonState

LEMMA DaemonIsAsked ==
    ASSUME daemon \in [Daemons -> DaemonState], NEW d \in Daemons, NEW b \in BOOLEAN,
           daemon' = [daemon EXCEPT ![d].asked = b]
    PROVE DaemonIs(d, daemon[d].pc, daemon[d].slice, b)
<1>1. daemon' = [daemon EXCEPT ![d] = [daemon[d] EXCEPT !.asked = b]] OBVIOUS
<1> QED BY <1>1, RecAsked DEF DaemonIs

LEMMA RecTaken ==
    ASSUME NEW r \in DaemonState
    PROVE LET x == [r EXCEPT !.taken = TRUE]
          IN x \in DaemonState /\ x.pc = r.pc /\ x.slice = r.slice /\ x.asked = r.asked
BY DEF DaemonState

LEMMA NameIsTaken ==
    ASSUME daemon \in [Daemons -> DaemonState], NEW d \in Daemons,
           daemon' = [daemon EXCEPT ![d].taken = TRUE]
    PROVE DaemonIs(d, daemon[d].pc, daemon[d].slice, daemon[d].asked)
<1>1. daemon' = [daemon EXCEPT ![d] = [daemon[d] EXCEPT !.taken = TRUE]] OBVIOUS
<1> QED BY <1>1, RecTaken DEF DaemonIs

----------------------------------------------------------------------------
(* The steps of a daemon *)

LEMMA DaemonStartsStep ==
    ASSUME IInv, NEW d \in Daemons, DaemonStarts(d) PROVE IInv'
<1>1. DaemonIs(d, "listen", FALSE, daemon[d].asked)
  BY DaemonRuns DEF DaemonStarts, IInv, TypeOK
<1> QED BY <1>1 DEF DaemonStarts, DaemonIs, Exits, Idle, Serving,
                     IInv, TypeOK, OneDaemon, Published, StopIsLast, NoneAppears, FoundIsAlive,
                     ColdMeansNone, Reached, Forgets, Gone, Looking, Pointed, Keyed,
                     DownPcs, Addressed

LEMMA DaemonWritesSidecarStep ==
    ASSUME IInv, NEW d \in Daemons, DaemonWritesSidecar(d) PROVE IInv'
<1>1. DaemonIs(d, "half", daemon[d].slice, daemon[d].asked)
  BY DaemonMoves DEF DaemonWritesSidecar, IInv, TypeOK, DaemonPcs
<1> QED BY <1>1 DEF DaemonWritesSidecar, DaemonIs, Exits, Idle, Serving,
                     IInv, TypeOK, OneDaemon, Published, StopIsLast, NoneAppears, FoundIsAlive,
                     ColdMeansNone, Reached, Forgets, Gone, Looking, Pointed, Keyed,
                     DownPcs, Addressed

LEMMA DaemonWritesTokenStep ==
    ASSUME IInv, NEW d \in Daemons, DaemonWritesToken(d) PROVE IInv'
<1>1. DaemonIs(d, "up", daemon[d].slice, daemon[d].asked)
  BY DaemonMoves DEF DaemonWritesToken, IInv, TypeOK, DaemonPcs
<1> QED BY <1>1 DEF DaemonWritesToken, DaemonIs, Exits, Idle, Serving,
                     IInv, TypeOK, OneDaemon, Published, StopIsLast, NoneAppears, FoundIsAlive,
                     ColdMeansNone, Reached, Forgets, Gone, Looking, Pointed, Keyed,
                     DownPcs, Addressed

LEMMA DaemonClosesStep ==
    ASSUME IInv, NEW d \in Daemons, DaemonCloses(d) PROVE IInv'
<1>1. DaemonIs(d, "closed", daemon[d].slice, daemon[d].asked)
  BY DaemonMoves DEF DaemonCloses, IInv, TypeOK, DaemonPcs
<1> QED BY <1>1 DEF DaemonCloses, DaemonIs, Exits, Idle, Serving,
                     IInv, TypeOK, OneDaemon, Published, StopIsLast, NoneAppears, FoundIsAlive,
                     ColdMeansNone, Reached, Forgets, Gone, Looking, Pointed, Keyed,
                     DownPcs, Addressed

LEMMA DaemonRemovesSidecarStep ==
    ASSUME IInv, NEW d \in Daemons, DaemonRemovesSidecar(d) PROVE IInv'
<1>1. DaemonIs(d, "unlinked", daemon[d].slice, daemon[d].asked)
  BY DaemonMoves DEF DaemonRemovesSidecar, IInv, TypeOK, DaemonPcs
<1> QED BY <1>1 DEF DaemonRemovesSidecar, DaemonIs, Exits, Idle, Serving,
                     IInv, TypeOK, OneDaemon, Published, StopIsLast, NoneAppears, FoundIsAlive,
                     ColdMeansNone, Reached, Forgets, Gone, Looking, Pointed, Keyed,
                     DownPcs, Addressed

LEMMA DaemonRemovesTokenStep ==
    ASSUME IInv, NEW d \in Daemons, DaemonRemovesToken(d) PROVE IInv'
<1>1. DaemonIs(d, "gone", daemon[d].slice, FALSE)
  BY DaemonExits DEF DaemonRemovesToken, IInv, TypeOK
<1> QED BY <1>1 DEF DaemonRemovesToken, DaemonIs, Exits, Idle, Serving,
                     IInv, TypeOK, OneDaemon, Published, StopIsLast, NoneAppears, FoundIsAlive,
                     ColdMeansNone, Reached, Forgets, Gone, Looking, Pointed, Keyed,
                     DownPcs, Addressed

LEMMA TerminateStep ==
    ASSUME IInv, NEW d \in Daemons, Terminate(d) PROVE IInv'
<1>1. DaemonIs(d, daemon[d].pc, daemon[d].slice, TRUE)
  BY DaemonIsAsked DEF Terminate, IInv, TypeOK
<1> QED BY <1>1 DEF Terminate, DaemonIs, Exits, Idle, Serving,
                     IInv, TypeOK, OneDaemon, Published, StopIsLast, NoneAppears, FoundIsAlive,
                     ColdMeansNone, Reached, Forgets, Gone, Looking, Pointed, Keyed,
                     DownPcs, Addressed

LEMMA CrashStep ==
    ASSUME IInv, NEW d \in Daemons, Crash(d) PROVE IInv'
<1>1. DaemonIs(d, "gone", daemon[d].slice, FALSE)
  BY DaemonExits DEF Crash, IInv, TypeOK
<1> QED BY <1>1 DEF Crash, DaemonIs, Exits, Idle, Serving,
                     IInv, TypeOK, OneDaemon, Published, StopIsLast, NoneAppears, FoundIsAlive,
                     ColdMeansNone, Reached, Forgets, Gone, Looking, Pointed, Keyed,
                     DownPcs, Addressed

LEMMA RecNoted ==
    ASSUME NEW r \in DaemonState, NEW p \in DaemonPcs
    PROVE /\ [r EXCEPT !.slice = TRUE, !.pc = p] \in DaemonState
          /\ [r EXCEPT !.slice = TRUE, !.pc = p].pc = p
BY DEF DaemonState

LEMMA DaemonJournalsStep ==
    ASSUME IInv, NEW d \in Daemons, DaemonJournals(d) PROVE IInv'
<1>1. ASSUME NEW e \in Daemons
      PROVE /\ daemon'[e] \in DaemonState
            /\ daemon'[e].pc = IF e = d THEN "noted" ELSE daemon[e].pc
  <2> DEFINE p == IF e = d THEN "noted" ELSE daemon[e].pc
  <2>1. daemon'[e] = [daemon[e] EXCEPT !.slice = TRUE, !.pc = p]
    BY DEF DaemonJournals
  <2>2. daemon[e] \in DaemonState
    BY DEF IInv, TypeOK
  <2>3. p \in DaemonPcs
    BY <2>2 DEF DaemonState, DaemonPcs
  <2> HIDE DEF p
  <2>4. daemon'[e] \in DaemonState /\ daemon'[e].pc = p
    BY <2>1, <2>2, <2>3, RecNoted
  <2> QED BY <2>4 DEF p
<1>2. daemon' \in [Daemons -> DaemonState]
  BY <1>1 DEF DaemonJournals
<1>3. \A e \in Daemons : e # d => Gone(e)
  BY DEF IInv, OneDaemon, DaemonJournals, Gone
<1>4. daemon'[d].pc = "noted" /\ \A e \in Daemons : e # d => daemon'[e].pc = "gone"
  BY <1>1, <1>3 DEF Gone
<1> QED BY <1>2, <1>3, <1>4 DEF DaemonJournals,
                     IInv, TypeOK, OneDaemon, Published, StopIsLast, NoneAppears, FoundIsAlive,
                     ColdMeansNone, Reached, Forgets, Gone, Looking, Pointed, Keyed,
                     DownPcs, Addressed

LEMMA QuitSecretaryStep ==
    ASSUME IInv, NEW d \in Daemons, QuitSecretary(d) PROVE IInv'
BY DEF QuitSecretary, IInv, TypeOK, OneDaemon, Published, StopIsLast, NoneAppears, FoundIsAlive,
                     ColdMeansNone, Reached, Forgets, Gone, Looking, Pointed, Keyed,
                     DownPcs, Addressed

----------------------------------------------------------------------------
(* The steps of org up *)

LEMMA UpReadsSidecarStep ==
    ASSUME IInv, UpReadsSidecar PROVE IInv'
<1>1. json = None => CmdIs(cmd', "cold", cmd.at, cmd.key, cmd.reached)
  BY CmdPc DEF UpReadsSidecar, IInv, TypeOK, Goto, End, Pcs, UpPcs, DownPcs
<1>2. json # None => CmdIs(cmd', "grace", json, cmd.key, cmd.reached)
  BY CmdAt DEF UpReadsSidecar, IInv, TypeOK, Goto, End, Pcs, UpPcs, DownPcs
<1> QED BY <1>1, <1>2, NoneIsNoDaemon DEF UpReadsSidecar, OnlyCmd, CmdIs,
                     IInv, TypeOK, OneDaemon, Published, StopIsLast, NoneAppears, FoundIsAlive,
                     ColdMeansNone, Reached, Forgets, Gone, Looking, Pointed, Keyed,
                     DownPcs, Addressed

LEMMA UpReadsTokenStep ==
    ASSUME IInv, UpReadsToken PROVE IInv'
<1>1. token = None => CmdIs(cmd', "idle", None, None, FALSE)
  BY CmdEnds DEF UpReadsToken, IInv, TypeOK, Goto, End, Pcs, UpPcs, DownPcs
<1>2. ASSUME token # None PROVE CmdIs(cmd', "probe", cmd.at, token, cmd.reached)
  <2>1. cmd' = [cmd EXCEPT !.pc = "probe", !.key = token]
    BY <1>2 DEF UpReadsToken
  <2> QED BY <2>1, CmdKey DEF IInv, TypeOK, Pcs, UpPcs, DownPcs
<1> QED BY <1>1, <1>2, NoneIsNoDaemon DEF UpReadsToken, OnlyCmd, CmdIs,
                     IInv, TypeOK, OneDaemon, Published, StopIsLast, NoneAppears, FoundIsAlive,
                     ColdMeansNone, Reached, Forgets, Gone, Looking, Pointed, Keyed,
                     DownPcs, Addressed

LEMMA UpProbesStep ==
    ASSUME IInv, UpProbes PROVE IInv'
<1>1. ~Reachable(cmd.at) => CmdIs(cmd', "cold", cmd.at, cmd.key, cmd.reached)
  BY CmdPc DEF UpProbes, IInv, TypeOK, Goto, End, Pcs, UpPcs, DownPcs
<1>2. Reachable(cmd.at) => CmdIs(cmd', "mint", cmd.at, cmd.key, cmd.reached) \/ CmdIs(cmd', "idle", None, None, FALSE)
  BY CmdPc, CmdEnds DEF UpProbes, IInv, TypeOK, Goto, End, Pcs, UpPcs, DownPcs
<1> QED BY <1>1, <1>2, NoneIsNoDaemon DEF UpProbes, OnlyCmd, CmdIs, Reachable, Serving,
                     IInv, TypeOK, OneDaemon, Published, StopIsLast, NoneAppears, FoundIsAlive,
                     ColdMeansNone, Reached, Forgets, Gone, Looking, Pointed, Keyed,
                     DownPcs, Addressed

LEMMA UpFindsOtherBackendStep ==
    ASSUME IInv, UpFindsOtherBackend PROVE IInv'
<1>1. CmdIs(cmd', "idle", None, None, FALSE)
  BY CmdEnds DEF UpFindsOtherBackend, IInv, TypeOK, Goto, End, Pcs, UpPcs, DownPcs
<1> QED BY <1>1, NoneIsNoDaemon DEF UpFindsOtherBackend, OnlyCmd, CmdIs,
                     IInv, TypeOK, OneDaemon, Published, StopIsLast, NoneAppears, FoundIsAlive,
                     ColdMeansNone, Reached, Forgets, Gone, Looking, Pointed, Keyed,
                     DownPcs, Addressed

LEMMA UpMintsStep ==
    ASSUME IInv, UpMints PROVE IInv'
<1>1. cmd.at \in Daemons
  BY DEF UpMints, IInv, TypeOK, Addressed, Command
<1>2. CmdIs(cmd', "launch", cmd.at, cmd.key, cmd.reached) \/ CmdIs(cmd', "idle", None, None, FALSE)
  BY CmdPc, CmdEnds DEF UpMints, IInv, TypeOK, Goto, End, Pcs, UpPcs, DownPcs
<1>3. UNCHANGED daemon \/ DaemonIs(cmd.at, daemon[cmd.at].pc, daemon[cmd.at].slice, daemon[cmd.at].asked)
  BY <1>1, NameIsTaken DEF UpMints, IInv, TypeOK
<1> QED BY <1>1, <1>2, <1>3, NoneIsNoDaemon DEF UpMints, OnlyCmd, CmdIs, DaemonIs,
                     IInv, TypeOK, OneDaemon, Published, StopIsLast, NoneAppears, FoundIsAlive,
                     ColdMeansNone, Reached, Forgets, Gone, Looking, Pointed, Keyed,
                     DownPcs, Addressed

LEMMA UpSweepsStep ==
    ASSUME IInv, UpSweeps PROVE IInv'
<1>1. CmdIs(cmd', "spawn", cmd.at, cmd.key, cmd.reached)
  BY CmdPc DEF UpSweeps, IInv, TypeOK, Goto, End, Pcs, UpPcs, DownPcs
<1> QED BY <1>1, NoneIsNoDaemon DEF UpSweeps, OnlyCmd, CmdIs,
                     IInv, TypeOK, OneDaemon, Published, StopIsLast, NoneAppears, FoundIsAlive,
                     ColdMeansNone, Reached, Forgets, Gone, Looking, Pointed, Keyed,
                     DownPcs, Addressed

LEMMA UpSpawnsDaemonStep ==
    ASSUME IInv, UpSpawnsDaemon PROVE IInv'
<1> PICK d \in Daemons :
          /\ Unused(d)
          /\ DaemonAt(d, "boot")
          /\ cmd' = [cmd EXCEPT !.pc = "wait", !.mine = d]
  BY DEF UpSpawnsDaemon
<1>1. DaemonIs(d, "boot", daemon[d].slice, daemon[d].asked)
  BY DaemonMoves DEF IInv, TypeOK, DaemonPcs
<1>2. CmdIs(cmd', "wait", cmd.at, cmd.key, cmd.reached)
  BY CmdMine DEF IInv, TypeOK, Pcs, UpPcs, DownPcs
<1> QED BY <1>1, <1>2 DEF UpSpawnsDaemon, DaemonIs, CmdIs,
                     IInv, TypeOK, OneDaemon, Published, StopIsLast, NoneAppears, FoundIsAlive,
                     ColdMeansNone, Reached, Forgets, Gone, Looking, Pointed, Keyed,
                     DownPcs, Addressed

LEMMA UpFindsSidecarStep ==
    ASSUME IInv, UpFindsSidecar PROVE IInv'
<1>1. CmdIs(cmd', "waitkey", json, cmd.key, cmd.reached)
  BY CmdAt DEF UpFindsSidecar, IInv, TypeOK, Goto, End, Pcs, UpPcs, DownPcs
<1> QED BY <1>1, NoneIsNoDaemon DEF UpFindsSidecar, OnlyCmd, CmdIs,
                     IInv, TypeOK, OneDaemon, Published, StopIsLast, NoneAppears, FoundIsAlive,
                     ColdMeansNone, Reached, Forgets, Gone, Looking, Pointed, Keyed,
                     DownPcs, Addressed

LEMMA UpFindsTokenStep ==
    ASSUME IInv, UpFindsToken PROVE IInv'
<1>1. CmdIs(cmd', "wait", cmd.at, cmd.key, cmd.reached) \/ CmdIs(cmd', "fresh", cmd.at, token, cmd.reached)
  <2>1. CASE token = None
    BY <2>1, CmdPc DEF UpFindsToken, IInv, TypeOK, Goto, Pcs, UpPcs, DownPcs
  <2>2. CASE token # None
    <3>1. cmd' = [cmd EXCEPT !.pc = "fresh", !.key = token]
      BY <2>2 DEF UpFindsToken
    <3> QED BY <3>1, CmdKey DEF IInv, TypeOK, Pcs, UpPcs, DownPcs
  <2> QED BY <2>1, <2>2
<1> QED BY <1>1, NoneIsNoDaemon DEF UpFindsToken, OnlyCmd, CmdIs,
                     IInv, TypeOK, OneDaemon, Published, StopIsLast, NoneAppears, FoundIsAlive,
                     ColdMeansNone, Reached, Forgets, Gone, Looking, Pointed, Keyed,
                     DownPcs, Addressed

LEMMA UpTimesOutStep ==
    ASSUME IInv, UpTimesOut PROVE IInv'
<1>1. CmdIs(cmd', "idle", None, None, FALSE)
  BY CmdEnds DEF UpTimesOut, IInv, TypeOK, Goto, End, Pcs, UpPcs, DownPcs
<1> QED BY <1>1, NoneIsNoDaemon DEF UpTimesOut, OnlyCmd, CmdIs,
                     IInv, TypeOK, OneDaemon, Published, StopIsLast, NoneAppears, FoundIsAlive,
                     ColdMeansNone, Reached, Forgets, Gone, Looking, Pointed, Keyed,
                     DownPcs, Addressed

LEMMA UpMintsFreshStep ==
    ASSUME IInv, UpMintsFresh PROVE IInv'
<1>1. cmd.at \in Daemons
  BY DEF UpMintsFresh, IInv, TypeOK, Addressed, Command
<1>2. CmdIs(cmd', "launch", cmd.at, cmd.key, cmd.reached) \/ CmdIs(cmd', "idle", None, None, FALSE)
  BY CmdPc, CmdEnds DEF UpMintsFresh, IInv, TypeOK, Goto, End, Pcs, UpPcs, DownPcs
<1>3. UNCHANGED daemon \/ DaemonIs(cmd.at, daemon[cmd.at].pc, daemon[cmd.at].slice, daemon[cmd.at].asked)
  BY <1>1, NameIsTaken DEF UpMintsFresh, IInv, TypeOK
<1> QED BY <1>1, <1>2, <1>3, NoneIsNoDaemon DEF UpMintsFresh, OnlyCmd, CmdIs, DaemonIs,
                     IInv, TypeOK, OneDaemon, Published, StopIsLast, NoneAppears, FoundIsAlive,
                     ColdMeansNone, Reached, Forgets, Gone, Looking, Pointed, Keyed,
                     DownPcs, Addressed

LEMMA UpLaunchesStep ==
    ASSUME IInv, UpLaunches PROVE IInv'
<1>1. CmdIs(cmd', "idle", None, None, FALSE)
  BY CmdEnds DEF UpLaunches, IInv, TypeOK, Goto, End, Pcs, UpPcs, DownPcs
<1> QED BY <1>1, NoneIsNoDaemon DEF UpLaunches, OnlyCmd, CmdIs, Command,
                     IInv, TypeOK, OneDaemon, Published, StopIsLast, NoneAppears, FoundIsAlive,
                     ColdMeansNone, Reached, Forgets, Gone, Looking, Pointed, Keyed,
                     DownPcs, Addressed

LEMMA UpFailsToLaunchStep ==
    ASSUME IInv, UpFailsToLaunch PROVE IInv'
<1>1. CmdIs(cmd', "idle", None, None, FALSE)
  BY CmdEnds DEF UpFailsToLaunch, IInv, TypeOK, Goto, End, Pcs, UpPcs, DownPcs
<1> QED BY <1>1, NoneIsNoDaemon DEF UpFailsToLaunch, OnlyCmd, CmdIs,
                     IInv, TypeOK, OneDaemon, Published, StopIsLast, NoneAppears, FoundIsAlive,
                     ColdMeansNone, Reached, Forgets, Gone, Looking, Pointed, Keyed,
                     DownPcs, Addressed

----------------------------------------------------------------------------
(* The steps of org down *)

LEMMA DownReadsSidecarStep ==
    ASSUME IInv, DownReadsSidecar PROVE IInv'
<1>1. json = None => CmdIs(cmd', "gate", None, cmd.key, cmd.reached)
  BY CmdAt DEF DownReadsSidecar, IInv, TypeOK, Goto, End, Pcs, UpPcs, DownPcs
<1>2. json # None => CmdIs(cmd', "key", json, cmd.key, cmd.reached)
  BY CmdAt DEF DownReadsSidecar, IInv, TypeOK, Goto, End, Pcs, UpPcs, DownPcs
<1> QED BY <1>1, <1>2, NoneIsNoDaemon DEF DownReadsSidecar, OnlyCmd, CmdIs,
                     IInv, TypeOK, OneDaemon, Published, StopIsLast, NoneAppears, FoundIsAlive,
                     ColdMeansNone, Reached, Forgets, Gone, Looking, Pointed, Keyed,
                     DownPcs, Addressed

LEMMA DownReadsTokenStep ==
    ASSUME IInv, DownReadsToken PROVE IInv'
<1>1. token = None => CmdIs(cmd', "await", cmd.at, None, cmd.reached)
  BY CmdKey DEF DownReadsToken, IInv, TypeOK, Goto, End, Pcs, UpPcs, DownPcs
<1>2. token # None => CmdIs(cmd', "control", cmd.at, token, cmd.reached)
  BY CmdKey DEF DownReadsToken, IInv, TypeOK, Goto, End, Pcs, UpPcs, DownPcs
<1> QED BY <1>1, <1>2, NoneIsNoDaemon DEF DownReadsToken, OnlyCmd, CmdIs,
                     IInv, TypeOK, OneDaemon, Published, StopIsLast, NoneAppears, FoundIsAlive,
                     ColdMeansNone, Reached, Forgets, Gone, Looking, Pointed, Keyed,
                     DownPcs, Addressed

LEMMA DownMintsControlStep ==
    ASSUME IInv, DownMintsControl PROVE IInv'
<1>1. CmdIs(cmd', "ask", cmd.at, cmd.key, Reachable(cmd.at))
  <2>1. Reachable(cmd.at) \in BOOLEAN
    BY DEF Reachable, Serving
  <2>2. cmd' = [cmd EXCEPT !.pc = "ask", !.reached = Reachable(cmd.at)]
    BY DEF DownMintsControl
  <2> QED BY <2>1, <2>2, CmdReached DEF IInv, TypeOK, Pcs, UpPcs, DownPcs
<1> QED BY <1>1, NoneIsNoDaemon DEF DownMintsControl, OnlyCmd, CmdIs, Reachable, Serving,
                     IInv, TypeOK, OneDaemon, Published, StopIsLast, NoneAppears, FoundIsAlive,
                     ColdMeansNone, Reached, Forgets, Gone, Looking, Pointed, Keyed,
                     DownPcs, Addressed

LEMMA DownRequestsShutdownStep ==
    ASSUME IInv, DownRequestsShutdown PROVE IInv'
<1>1. cmd.at \in Daemons /\ cmd.reached \in BOOLEAN /\ daemon[cmd.at].asked \in BOOLEAN
  BY DEF DownRequestsShutdown, IInv, TypeOK, Addressed, Command, DaemonState
<1>2. CmdIs(cmd', "await", cmd.at, cmd.key, cmd.reached \/ Reachable(cmd.at))
  BY <1>1, CmdReached DEF DownRequestsShutdown, IInv, TypeOK, Goto, End, Pcs, UpPcs, DownPcs, Reachable, Serving
<1>3. DaemonIs(cmd.at, daemon[cmd.at].pc, daemon[cmd.at].slice, daemon[cmd.at].asked \/ Authorized(cmd.at, cmd.key))
  BY <1>1, DaemonIsAsked DEF DownRequestsShutdown, IInv, TypeOK, Goto, End, Pcs, UpPcs, DownPcs, Authorized, Serving
<1> QED BY <1>1, <1>2, <1>3, NoneIsNoDaemon DEF DownRequestsShutdown, OnlyCmd, CmdIs, DaemonIs,
                     IInv, TypeOK, OneDaemon, Published, StopIsLast, NoneAppears, FoundIsAlive,
                     ColdMeansNone, Reached, Forgets, Gone, Looking, Pointed, Keyed,
                     DownPcs, Addressed

LEMMA DownSeesStoppedStep ==
    ASSUME IInv, DownSeesStopped PROVE IInv'
<1>1. CmdIs(cmd', "forget", cmd.at, cmd.key, cmd.reached)
  BY CmdPc DEF DownSeesStopped, IInv, TypeOK, Goto, End, Pcs, UpPcs, DownPcs
<1>2. cmd.at \in Daemons
  BY DEF DownSeesStopped, IInv, TypeOK, Addressed, Command
<1> QED BY <1>1, <1>2, NoneIsNoDaemon DEF DownSeesStopped, OnlyCmd, CmdIs, DaemonState, DaemonPcs,
                     IInv, TypeOK, OneDaemon, Published, StopIsLast, NoneAppears, FoundIsAlive,
                     ColdMeansNone, Reached, Forgets, Gone, Looking, Pointed, Keyed,
                     DownPcs, Addressed

LEMMA DownSeesNoSidecarStep ==
    ASSUME IInv, DownSeesNoSidecar PROVE IInv'
<1>1. CmdIs(cmd', "recheck", cmd.at, cmd.key, cmd.reached)
  BY CmdPc DEF DownSeesNoSidecar, IInv, TypeOK, Goto, End, Pcs, UpPcs, DownPcs
<1> QED BY <1>1, NoneIsNoDaemon DEF DownSeesNoSidecar, OnlyCmd, CmdIs,
                     IInv, TypeOK, OneDaemon, Published, StopIsLast, NoneAppears, FoundIsAlive,
                     ColdMeansNone, Reached, Forgets, Gone, Looking, Pointed, Keyed,
                     DownPcs, Addressed

\* What NotStopped does to the command.
LEMMA NotStoppedMoves ==
    ASSUME IInv, NotStopped
    PROVE IF cmd.key # None /\ ~cmd.reached
          THEN CmdIs(cmd', "forget", cmd.at, cmd.key, cmd.reached)
          ELSE CmdIs(cmd', "gate", cmd.at, cmd.key, cmd.reached)
<1>1. CASE cmd.key # None /\ ~cmd.reached
  BY <1>1, CmdPc DEF NotStopped, IInv, TypeOK, Goto, Pcs, UpPcs, DownPcs
<1>2. CASE ~(cmd.key # None /\ ~cmd.reached)
  <2> DEFINE adv == IF cmd.key = None THEN Guidance(cmd.at) ELSE "down"
  <2>1. adv \in {"up", "down", "rm"}
    BY DEF Guidance
  <2>2. cmd' = [cmd EXCEPT !.pc = "gate", !.advice = adv]
    BY <1>2 DEF NotStopped
  <2> HIDE DEF adv
  <2> QED BY <1>2, <2>1, <2>2, CmdAdvises DEF IInv, TypeOK, Pcs, UpPcs, DownPcs
<1> QED BY <1>1, <1>2

LEMMA DownRechecksStep ==
    ASSUME IInv, DownRechecks PROVE IInv'
<1>1. IF daemon[cmd.at].slice \/ (cmd.key # None /\ ~cmd.reached)
      THEN CmdIs(cmd', "forget", cmd.at, cmd.key, cmd.reached)
      ELSE CmdIs(cmd', "gate", cmd.at, cmd.key, cmd.reached)
  BY CmdPc, NotStoppedMoves DEF DownRechecks, IInv, TypeOK, Goto, End, Pcs, UpPcs, DownPcs
<1>2. cmd.at \in Daemons
  BY DEF DownRechecks, IInv, TypeOK, Addressed, Command
<1> QED BY <1>1, <1>2, NoneIsNoDaemon DEF DownRechecks, OnlyCmd, CmdIs, DaemonState, DaemonPcs,
                     IInv, TypeOK, OneDaemon, Published, StopIsLast, NoneAppears, FoundIsAlive,
                     ColdMeansNone, Reached, Forgets, Gone, Looking, Pointed, Keyed,
                     DownPcs, Addressed

LEMMA DownTimesOutStep ==
    ASSUME IInv, DownTimesOut PROVE IInv'
<1>1. IF cmd.key # None /\ ~cmd.reached
      THEN CmdIs(cmd', "forget", cmd.at, cmd.key, cmd.reached)
      ELSE CmdIs(cmd', "gate", cmd.at, cmd.key, cmd.reached)
  BY NotStoppedMoves DEF DownTimesOut
<1>2. cmd.at \in Daemons
  BY DEF DownTimesOut, IInv, TypeOK, Addressed, Command
<1> QED BY <1>1, <1>2, NoneIsNoDaemon DEF DownTimesOut, OnlyCmd, CmdIs,
                     IInv, TypeOK, OneDaemon, Published, StopIsLast, NoneAppears, FoundIsAlive,
                     ColdMeansNone, Reached, Forgets, Gone, Looking, Pointed, Keyed,
                     DownPcs, Addressed

LEMMA DownRemovesSidecarStep ==
    ASSUME IInv, DownRemovesSidecar PROVE IInv'
<1>1. CmdIs(cmd', "forgetkey", cmd.at, cmd.key, cmd.reached)
  BY CmdPc DEF DownRemovesSidecar, IInv, TypeOK, Goto, End, Pcs, UpPcs, DownPcs
<1> QED BY <1>1, NoneIsNoDaemon DEF DownRemovesSidecar, OnlyCmd, CmdIs,
                     IInv, TypeOK, OneDaemon, Published, StopIsLast, NoneAppears, FoundIsAlive,
                     ColdMeansNone, Reached, Forgets, Gone, Looking, Pointed, Keyed,
                     DownPcs, Addressed

LEMMA DownRemovesTokenStep ==
    ASSUME IInv, DownRemovesToken PROVE IInv'
<1>1. CmdIs(cmd', "gate", cmd.at, cmd.key, cmd.reached)
  BY CmdPc DEF DownRemovesToken, IInv, TypeOK, Goto, End, Pcs, UpPcs, DownPcs
<1> QED BY <1>1, NoneIsNoDaemon DEF DownRemovesToken, OnlyCmd, CmdIs,
                     IInv, TypeOK, OneDaemon, Published, StopIsLast, NoneAppears, FoundIsAlive,
                     ColdMeansNone, Reached, Forgets, Gone, Looking, Pointed, Keyed,
                     DownPcs, Addressed

LEMMA DownGatesStep ==
    ASSUME IInv, DownGates PROVE IInv'
<1>1. IF json = None THEN CmdIs(cmd', "reap", cmd.at, cmd.key, cmd.reached)
      ELSE CmdIs(cmd', "idle", None, None, FALSE)
  <2>1. CASE json = None
    BY <2>1, CmdPc DEF DownGates, IInv, TypeOK, Goto, Pcs, UpPcs, DownPcs
  <2>2. CASE json # None
    BY <2>2, CmdEnds DEF DownGates, IInv, TypeOK, End, Command
  <2> QED BY <2>1, <2>2
<1> QED BY <1>1, NoneIsNoDaemon DEF DownGates, OnlyCmd, CmdIs,
                     IInv, TypeOK, OneDaemon, Published, StopIsLast, NoneAppears, FoundIsAlive,
                     ColdMeansNone, Reached, Forgets, Gone, Looking, Pointed, Keyed,
                     DownPcs, Addressed

LEMMA DownSweepsStep ==
    ASSUME IInv, DownSweeps PROVE IInv'
<1>1. CmdIs(cmd', "idle", None, None, FALSE)
  BY CmdEnds DEF DownSweeps, IInv, TypeOK, Goto, End, Pcs, UpPcs, DownPcs, Command
<1> QED BY <1>1, NoneIsNoDaemon DEF DownSweeps, OnlyCmd, CmdIs,
                     IInv, TypeOK, OneDaemon, Published, StopIsLast, NoneAppears, FoundIsAlive,
                     ColdMeansNone, Reached, Forgets, Gone, Looking, Pointed, Keyed,
                     DownPcs, Addressed

----------------------------------------------------------------------------
(* The operator *)

LEMMA RunOrgUpStep ==
    ASSUME IInv, RunOrgUp PROVE IInv'
<1>1. CmdIs(cmd', "resolve", cmd.at, cmd.key, cmd.reached)
  BY CmdAdvises DEF RunOrgUp, IInv, TypeOK, Goto, End, Pcs, UpPcs, DownPcs, Begin
<1> QED BY <1>1, NoneIsNoDaemon DEF RunOrgUp, OnlyCmd, CmdIs, Begin, Settled,
                     IInv, TypeOK, OneDaemon, Published, StopIsLast, NoneAppears, FoundIsAlive,
                     ColdMeansNone, Reached, Forgets, Gone, Looking, Pointed, Keyed,
                     DownPcs, Addressed

LEMMA RunOrgDownStep ==
    ASSUME IInv, RunOrgDown PROVE IInv'
<1>1. CmdIs(cmd', "find", cmd.at, cmd.key, cmd.reached)
  BY CmdAdvises DEF RunOrgDown, IInv, TypeOK, Goto, End, Pcs, UpPcs, DownPcs, Begin
<1> QED BY <1>1, NoneIsNoDaemon DEF RunOrgDown, OnlyCmd, CmdIs, Begin, Settled,
                     IInv, TypeOK, OneDaemon, Published, StopIsLast, NoneAppears, FoundIsAlive,
                     ColdMeansNone, Reached, Forgets, Gone, Looking, Pointed, Keyed,
                     DownPcs, Addressed

LEMMA RemoveStaleSidecarStep ==
    ASSUME IInv, RemoveStaleSidecar PROVE IInv'
<1>1. CmdIs(cmd', "idle", None, None, FALSE)
  BY CmdEnds DEF RemoveStaleSidecar, IInv, TypeOK, Goto, End, Pcs, UpPcs, DownPcs
<1> QED BY <1>1, NoneIsNoDaemon DEF RemoveStaleSidecar, OnlyCmd, CmdIs,
                     IInv, TypeOK, OneDaemon, Published, StopIsLast, NoneAppears, FoundIsAlive,
                     ColdMeansNone, Reached, Forgets, Gone, Looking, Pointed, Keyed,
                     DownPcs, Addressed

LEMMA InterruptStep ==
    ASSUME IInv, Interrupt PROVE IInv'
<1>1. CmdIs(cmd', "idle", None, None, FALSE)
  BY CmdEnds DEF Interrupt, IInv, TypeOK, Goto, End, Pcs, UpPcs, DownPcs, Command
<1> QED BY <1>1, NoneIsNoDaemon DEF Interrupt, OnlyCmd, CmdIs,
                     IInv, TypeOK, OneDaemon, Published, StopIsLast, NoneAppears, FoundIsAlive,
                     ColdMeansNone, Reached, Forgets, Gone, Looking, Pointed, Keyed,
                     DownPcs, Addressed

LEMMA FollowAdviceStep ==
    ASSUME IInv, FollowAdvice PROVE IInv'
BY DEF FollowAdvice, IInv, TypeOK, OneDaemon, Published, StopIsLast, NoneAppears, FoundIsAlive,
                     ColdMeansNone, Reached, Forgets, Gone, Looking, Pointed, Keyed,
                     DownPcs, Addressed

----------------------------------------------------------------------------

(* The invariant and what follows from it *)

LEMMA InvInit == Init => IInv
<1> SUFFICES ASSUME Init PROVE IInv
  OBVIOUS
<1>1. TypeOK
  BY CmdEnds DEF Init, TypeOK, DaemonState, DaemonPcs, CmdIs, Addressed
<1>2. cmd.pc = "idle" /\ \A d \in Daemons : daemon[d].pc = "gone" /\ ~daemon[d].slice
  BY DEF Init, Ended
<1> QED BY <1>1, <1>2 DEF IInv, OneDaemon, Published, StopIsLast, NoneAppears, FoundIsAlive,
                     ColdMeansNone, Reached, Forgets, Gone, Looking, Pointed, Keyed, DownPcs

LEMMA InvStutters ==
    ASSUME IInv, UNCHANGED vars PROVE IInv'
BY DEF vars, IInv, TypeOK, OneDaemon, Published, StopIsLast, NoneAppears, FoundIsAlive,
                     ColdMeansNone, Reached, Forgets, Gone, Looking, Pointed, Keyed,
                     DownPcs, Addressed

\* IInv is inductive.
LEMMA InvStep == IInv /\ [Next]_vars => IInv'
<1> SUFFICES ASSUME IInv, [Next]_vars PROVE IInv'
  OBVIOUS
<1>1. ASSUME NEW d \in Daemons, DaemonStep(d) PROVE IInv'
  BY <1>1, DaemonStartsStep, DaemonWritesSidecarStep, DaemonWritesTokenStep,
     DaemonClosesStep, DaemonJournalsStep, DaemonRemovesSidecarStep,
     DaemonRemovesTokenStep DEF DaemonStep
<1>2. ASSUME NEW d \in Daemons, Mishap(d) PROVE IInv'
  BY <1>2, TerminateStep, QuitSecretaryStep, CrashStep DEF Mishap
<1>3. CASE UpStep
  BY <1>3, UpReadsSidecarStep, UpReadsTokenStep, UpProbesStep, UpFindsOtherBackendStep,
     UpMintsStep, UpSweepsStep, UpSpawnsDaemonStep, UpFindsSidecarStep,
     UpFindsTokenStep, UpTimesOutStep, UpMintsFreshStep, UpLaunchesStep,
     UpFailsToLaunchStep DEF UpStep
<1>4. CASE DownStep
  BY <1>4, DownReadsSidecarStep, DownReadsTokenStep, DownMintsControlStep,
     DownRequestsShutdownStep, DownSeesStoppedStep, DownSeesNoSidecarStep,
     DownRechecksStep, DownTimesOutStep, DownRemovesSidecarStep,
     DownRemovesTokenStep, DownGatesStep, DownSweepsStep DEF DownStep
<1>5. CASE Operates
  BY <1>5, RunOrgUpStep, RunOrgDownStep, RemoveStaleSidecarStep DEF Operates
<1>6. CASE Interrupt \/ FollowAdvice
  BY <1>6, InterruptStep, FollowAdviceStep
<1>7. CASE UNCHANGED vars
  BY <1>7, InvStutters
<1> QED BY <1>1, <1>2, <1>3, <1>4, <1>5, <1>6, <1>7 DEF Next

LEMMA InvAlways == Spec => []IInv
BY InvInit, InvStep, PTL DEF Spec

\* Daemons, files and commands keep their types, and a command that uses an
\* address has read one.
THEOREM LifecycleTypes == Spec => []TypeOK
<1>1. IInv => TypeOK
  BY DEF IInv
<1> QED BY <1>1, InvAlways, PTL

\* However daemons crash and commands are interrupted, an operator who lets
\* daemons settle never gets a second one over the same state directory.
THEOREM NeverTwoDaemons == Spec => []OneDaemon
<1>1. IInv => OneDaemon
  BY DEF IInv
<1> QED BY <1>1, InvAlways, PTL

\* Nothing takes daemon.json or admin.token away from a daemon that is up.
THEOREM LiveDaemonsAreFound == Spec => []LiveDaemonIsFound
<1>1. IInv => LiveDaemonIsFound
  BY DEF IInv, Published, LiveDaemonIsFound
<1> QED BY <1>1, InvAlways, PTL

\* org down removes the files of the daemon it found, and only once that one
\* serves no more.
THEOREM OnlyTheDeadAreForgotten == Spec => []ForgetsOnlyDeadDaemon
<1>1. IInv => ForgetsOnlyDeadDaemon
  BY DEF IInv, FoundIsAlive, Forgets, ForgetsOnlyDeadDaemon, Serving, Pointed, Keyed
<1> QED BY <1>1, InvAlways, PTL

\* The resident sweep runs with --reap only when no daemon with a session
\* serves.
THEOREM LiveOrgIsSpared == Spec => []ReapSparesLiveOrg
<1>1. IInv => ReapSparesLiveOrg
  BY NoneIsNoDaemon DEF IInv, TypeOK, Published, NoneAppears, FoundIsAlive, ColdMeansNone,
                        ReapSparesLiveOrg, Serving, Gone, DownPcs, Pointed
<1> QED BY <1>1, InvAlways, PTL

=============================================================================
