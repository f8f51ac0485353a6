---------------------------- MODULE WakeupProofs ----------------------------
(***************************************************************************)
(* Proofs about Wakeups: its types, the lease watch and the pane.          *)
(***************************************************************************)
EXTENDS Wakeups, TLAPS

----------------------------------------------------------------------------
(* Types *)

LEMMA CallerTypes ==
  /\ Idle \in CallerState
  /\ [pc |-> "arm", arm |-> TRUE] \in CallerState
  /\ \A b \in BOOLEAN : [pc |-> "trigger", arm |-> b] \in CallerState
  /\ \A x \in CallerState : [x EXCEPT !.pc = "start"] \in CallerState
BY DEF Idle, CallerState

LEMMA ProceedTypes ==
  ASSUME TypeOK, NEW c \in Callers, NEW t, NEW a, t \in BOOLEAN, a \in BOOLEAN,
         Proceed(c, t, a)
  PROVE  caller' \in [Callers -> CallerState]
<1>1. (IF t THEN [pc |-> "trigger", arm |-> a]
       ELSE IF a THEN [pc |-> "arm", arm |-> TRUE] ELSE Idle) \in CallerState
  BY CallerTypes
<1>. QED  BY <1>1 DEF Proceed, TypeOK

LEMMA WorkerTypes0 ==
  ASSUME NEW pc \in {"dead", "new", "check", "look", "write", "type", "enter", "leave"},
         NEW n \in 0..MaxTries
  PROVE  [pc |-> pc, tries |-> n] \in WorkerState
BY DEF WorkerState

LEMMA GotoTypes ==
  ASSUME TypeOK, NEW w \in Workers,
         NEW pc \in {"look", "write", "type", "enter", "leave"}, Goto(w, pc)
  PROVE  worker' \in [Workers -> WorkerState]
<1>1. worker[w].tries \in 0..MaxTries
  BY DEF TypeOK, WorkerState
<1>2. 0 \in 0..MaxTries
  BY ConstantsOK
<1>3. [pc |-> pc, tries |-> IF pc = "leave" THEN 0 ELSE worker[w].tries] \in WorkerState
  BY <1>1, <1>2, WorkerTypes0
<1>. QED  BY <1>3 DEF Goto, TypeOK

LEMMA DeferTypes ==
  ASSUME TypeOK, NEW w \in Workers, Defer(w)
  PROVE  worker' \in [Workers -> WorkerState]
<1>1. worker[w].tries \in 0..MaxTries
  BY DEF TypeOK, WorkerState
<1>2. CASE worker[w].tries + 1 < MaxTries
  <2>1. worker[w].tries + 1 \in 0..MaxTries
    BY <1>1, <1>2, ConstantsOK
  <2>2. [pc |-> "check", tries |-> worker[w].tries + 1] \in WorkerState
    BY <2>1, WorkerTypes0
  <2>. QED  BY <1>2, <2>2 DEF Defer, TypeOK
<1>3. CASE ~(worker[w].tries + 1 < MaxTries)
  <2>1. [pc |-> "leave", tries |-> 0] \in WorkerState
    BY WorkerTypes0, ConstantsOK
  <2>. QED  BY <1>3, <2>1 DEF Defer, TypeOK
<1>. QED  BY <1>2, <1>3

LEMMA RequestTypes ==
  ASSUME TypeOK, NEW c \in Callers, RequestStep(c)
  PROVE  TypeOK'
<1>1. CASE \E r \in Rows : Enqueue(c, r)
  <2>1. PICK r \in Rows : Enqueue(c, r)
    BY <1>1
  <2>2. caller' \in [Callers -> CallerState]
    BY <2>1, ProceedTypes DEF Enqueue
  <2>. QED  BY <2>1, <2>2 DEF Enqueue, TypeOK, RowStates, paneVars
<1>2. CASE PollClaims(c)
  <2>1. PICK due \in Overdue, holder \in BOOLEAN :
          LET reaped  == [r \in Rows |-> IF r \in due THEN "renotified" ELSE row[r]]
              claimed == {r \in Rows : Reaped(reaped[r]) = "undelivered"}
          IN  /\ IF holder /\ registered
                 THEN /\ row' = [r \in Rows |-> IF r \in claimed THEN "claimed" ELSE reaped[r]]
                      /\ Proceed(c, due # {}, claimed # {})
                 ELSE /\ row' = reaped
                      /\ Proceed(c, due # {} /\ registered, FALSE)
              /\ UNCHANGED <<registered, slot, armed, worker, paneVars>>
    BY <1>2 DEF PollClaims
  <2> DEFINE reaped  == [r \in Rows |-> IF r \in due THEN "renotified" ELSE row[r]]
             claimed == {r \in Rows : Reaped(reaped[r]) = "undelivered"}
  <2>2. reaped \in [Rows -> RowStates]
    BY DEF TypeOK, RowStates
  <2>3. row' \in [Rows -> RowStates]
    BY <2>1, <2>2 DEF RowStates
  <2>4. caller' \in [Callers -> CallerState]
    BY <2>1, ProceedTypes DEF TypeOK
  <2>. QED  BY <2>1, <2>3, <2>4 DEF TypeOK, paneVars
<1>3. CASE Drain(c)
  <2>1. caller' \in [Callers -> CallerState]
    BY <1>3, ProceedTypes DEF Drain
  <2>. QED  BY <1>3, <2>1 DEF Drain, TypeOK, RowStates, paneVars
<1>. QED  BY <1>1, <1>2, <1>3 DEF RequestStep

LEMMA WatchTypes ==
  ASSUME TypeOK, NEW c \in Callers, LeaseWatchFires(c)
  PROVE  TypeOK'
<1>1. row' \in [Rows -> RowStates]
  BY DEF LeaseWatchFires, Reaped, TypeOK, RowStates
<1>2. (registered /\ \E r \in Rows : Waiting(r)') \in BOOLEAN
      /\ (\E r \in Rows : Claimed(r)') \in BOOLEAN
  OBVIOUS
<1>3. Proceed(c, registered /\ \E r \in Rows : Waiting(r)', \E r \in Rows : Claimed(r)')
  BY DEF LeaseWatchFires
<1>4. caller' \in [Callers -> CallerState]
  BY <1>2, <1>3, ProceedTypes
<1>. QED  BY <1>1, <1>4 DEF LeaseWatchFires, TypeOK, paneVars

LEMMA CallerStepTypes ==
  ASSUME TypeOK, NEW c \in Callers, CallerStep(c)
  PROVE  TypeOK'
<1>0. AfterTrigger(c) \in CallerState /\ [caller[c] EXCEPT !.pc = "start"] \in CallerState
  BY CallerTypes DEF AfterTrigger, TypeOK
<1>1. CASE TriggerFindsWorker(c)
  BY <1>0, <1>1 DEF TriggerFindsWorker, TypeOK, paneVars
<1>2. CASE TriggerCreatesWorker(c)
  <2>1. caller' = [caller EXCEPT ![c] = [caller[c] EXCEPT !.pc = "start"]]
    BY <1>2 DEF TriggerCreatesWorker
  <2>2. PICK w \in Workers : slot' = w
               /\ worker' = [worker EXCEPT ![w] = [pc |-> "new", tries |-> 0]]
    BY <1>2 DEF TriggerCreatesWorker
  <2>3. [pc |-> "new", tries |-> 0] \in WorkerState
    BY WorkerTypes0, ConstantsOK
  <2>. QED  BY <1>0, <1>2, <2>1, <2>2, <2>3 DEF TriggerCreatesWorker, TypeOK, paneVars
<1>3. CASE \E w \in Workers : StartWorker(c, w)
  <2>1. PICK w \in Workers : StartWorker(c, w)
    BY <1>3
  <2>2. worker' = [worker EXCEPT ![w] = [worker[w] EXCEPT !.pc = "check"]]
    BY <2>1 DEF StartWorker
  <2>3. [worker[w] EXCEPT !.pc = "check"] \in WorkerState
    BY DEF WorkerState, TypeOK
  <2>. QED  BY <1>0, <2>1, <2>2, <2>3 DEF StartWorker, TypeOK, paneVars
<1>4. CASE ArmLeaseWatch(c)
  BY <1>4, CallerTypes DEF ArmLeaseWatch, TypeOK, paneVars
<1>. QED  BY <1>1, <1>2, <1>3, <1>4 DEF CallerStep

LEMMA WorkerStepTypes ==
  ASSUME TypeOK, NEW w \in Workers, WorkerStep(w)
  PROVE  TypeOK'
<1> USE DEF TypeOK, rowVars, paneVars, Writers
<1>1. CASE WorkerChecks(w)
  <2>1. worker' \in [Workers -> WorkerState]
    BY <1>1, GotoTypes DEF WorkerChecks
  <2>. QED  BY <1>1, <2>1 DEF WorkerChecks
<1>2. CASE WorkerLooks(w)
  <2>1. worker' \in [Workers -> WorkerState]
    BY <1>2, GotoTypes, DeferTypes DEF WorkerLooks
  <2>. QED  BY <1>2, <2>1 DEF WorkerLooks
<1>3. CASE WorkerLocks(w)
  <2>1. worker' \in [Workers -> WorkerState]
    BY <1>3, GotoTypes, DeferTypes DEF WorkerLocks
  <2>. QED  BY <1>3, <2>1 DEF WorkerLocks
<1>4. CASE WorkerTypes(w)
  <2>1. worker' \in [Workers -> WorkerState]
    BY <1>4, GotoTypes DEF WorkerTypes
  <2>. QED  BY <1>4, <2>1 DEF WorkerTypes
<1>5. CASE WorkerEnters(w)
  <2>1. worker' \in [Workers -> WorkerState]
    BY <1>5, GotoTypes DEF WorkerEnters
  <2>. QED  BY <1>5, <2>1 DEF WorkerEnters, PressEnter
<1>6. CASE WorkerEnds(w)
  <2>1. [pc |-> "dead", tries |-> 0] \in WorkerState
    BY WorkerTypes0, ConstantsOK
  <2>. QED  BY <1>6, <2>1 DEF WorkerEnds
<1>. QED  BY <1>1, <1>2, <1>3, <1>4, <1>5, <1>6 DEF WorkerStep

LEMMA TurnTypes0 ==
  ASSUME TypeOK, NEW t \in Turns, TurnBegins(t) \/ TurnStep(t)
  PROVE  TypeOK'
<1> USE DEF TypeOK, rowVars, paneVars, Writers, GotoTurn, Stall, TurnState
<1>1. CASE TurnBegins(t)
  BY <1>1 DEF TurnBegins
<1>2. CASE TurnReads(t)
  BY <1>2 DEF TurnReads
<1>3. CASE TurnTypes(t)
  BY <1>3 DEF TurnTypes
<1>4. CASE TurnSettles(t)
  BY <1>4 DEF TurnSettles
<1>5. CASE TurnEnters(t)
  BY <1>5 DEF TurnEnters, PressEnter
<1>6. CASE TurnObserves(t)
  BY <1>6 DEF TurnObserves
<1>. QED  BY <1>1, <1>2, <1>3, <1>4, <1>5, <1>6 DEF TurnStep

LEMMA EnvironmentTypes ==
  ASSUME TypeOK, Environment \/ \E r \in Rows : ClaimLapses(r)
  PROVE  TypeOK'
<1> USE DEF TypeOK, rowVars, paneVars, RowStates
<1>1. CASE \E r \in Rows : Reply(r) \/ Confirm(r) \/ GiveBack(r) \/ ClaimLapses(r)
  BY <1>1 DEF Reply, Confirm, GiveBack, ClaimLapses
<1>2. CASE Reconnect
  BY <1>2 DEF Reconnect
<1>3. CASE AgentWorks
  BY <1>3 DEF AgentWorks
<1>4. CASE HumanEdits
  BY <1>4 DEF HumanEdits
<1>. QED  BY <1>1, <1>2, <1>3, <1>4 DEF Environment

\* The state of the nudge and lease-watch threads and of the pane stays in its
\* types, whatever the number of messages and threads (server.py, store.py).
THEOREM WakeupTypes == Spec => []TypeOK
<1>1. Init => TypeOK
  <2>1. [pc |-> "dead", tries |-> 0] \in WorkerState
    BY WorkerTypes0, ConstantsOK
  <2>2. Init => worker \in [Workers -> WorkerState] /\ caller \in [Callers -> CallerState]
    BY <2>1, CallerTypes DEF Init
  <2>3. Init => row \in [Rows -> RowStates] /\ turn \in [Turns -> TurnState]
    BY DEF Init, RowStates, TurnState
  <2>. QED  BY <2>2, <2>3 DEF Init, TypeOK
<1>2. TypeOK /\ [Next]_vars => TypeOK'
  <2> SUFFICES ASSUME TypeOK, [Next]_vars PROVE TypeOK'
    OBVIOUS
  <2>1. CASE UNCHANGED vars
    BY <2>1 DEF TypeOK, vars, rowVars, paneVars
  <2>2. CASE Next
    BY <2>2, RequestTypes, WatchTypes, CallerStepTypes, WorkerStepTypes, TurnTypes0,
       EnvironmentTypes DEF Next, Callers
  <2>. QED  BY <2>1, <2>2
<1>. QED  BY <1>1, <1>2, PTL DEF Spec

----------------------------------------------------------------------------
(* The lease watch *)

\* A thread that is to arm the watch still is after its trigger.
LEMMA ProceedArms ==
  ASSUME TypeOK, NEW c \in Callers, NEW t, NEW a, t \in BOOLEAN, a \in BOOLEAN,
         Proceed(c, t, a)
  PROVE  caller'[c].arm = a
BY DEF Proceed, TypeOK, Idle

LEMMA WatchStep ==
  ASSUME TypeOK, TypeOK', ClaimWatched, [Next]_vars
  PROVE  ClaimWatched'
<1> USE DEF ClaimWatched, Claimed
<1>1. ASSUME NEW c \in Requests, RequestStep(c)
      PROVE  ClaimWatched'
  <2>0. c \in Callers
    BY DEF Callers
  <2>1. CASE \E r \in Rows : Enqueue(c, r)
    <3>1. PICK r \in Rows : Enqueue(c, r)
      BY <2>1
    <3>2. caller[c].arm = FALSE
      BY <3>1 DEF Enqueue, Idle
    <3>3. \A d \in Callers \ {c} : caller'[d] = caller[d]
      BY <3>1 DEF Enqueue, Proceed, TypeOK
    <3>. QED  BY <3>1, <3>2, <3>3 DEF Enqueue, TypeOK
  <2>2. CASE Drain(c)
    <3>0. caller[c].arm = FALSE
      BY <2>2 DEF Drain, Idle
    <3>1. \A d \in Callers \ {c} : caller'[d] = caller[d]
      BY <2>2 DEF Drain, Proceed, TypeOK
    <3>2. \A r \in Rows : Claimed(r)' => Claimed(r)
      BY <2>2 DEF Drain, TypeOK
    <3>. QED  BY <2>2, <3>0, <3>1, <3>2 DEF Drain
  <2>3. CASE PollClaims(c)
    <3>1. PICK due \in Overdue, holder \in BOOLEAN :
            LET reaped  == [r \in Rows |-> IF r \in due THEN "renotified" ELSE row[r]]
                claimed == {r \in Rows : Reaped(reaped[r]) = "undelivered"}
            IN  /\ caller[c] = Idle
                /\ IF holder /\ registered
                   THEN /\ row' = [r \in Rows |-> IF r \in claimed THEN "claimed" ELSE reaped[r]]
                        /\ Proceed(c, due # {}, claimed # {})
                   ELSE /\ row' = reaped
                        /\ Proceed(c, due # {} /\ registered, FALSE)
                /\ UNCHANGED <<registered, slot, armed, worker, paneVars>>
      BY <2>3 DEF PollClaims
    <3> DEFINE reaped  == [r \in Rows |-> IF r \in due THEN "renotified" ELSE row[r]]
               claimed == {r \in Rows : Reaped(reaped[r]) = "undelivered"}
    <3>2. caller[c].arm = FALSE /\ armed' = armed
      BY <3>1 DEF Idle
    <3>3. CASE holder /\ registered /\ claimed # {}
      <4>1. Proceed(c, due # {}, TRUE)
        BY <3>1, <3>3
      <4>2. caller'[c] = [pc |-> "trigger", arm |-> TRUE]
            \/ caller'[c] = [pc |-> "arm", arm |-> TRUE]
        BY <2>0, <4>1 DEF Proceed, TypeOK
      <4>3. caller'[c].arm = TRUE
        BY <4>2
      <4>. QED  BY <2>0, <4>3
    <3>4. CASE ~(holder /\ registered /\ claimed # {})
      <4>0. row' = reaped
        <5>1. CASE holder /\ registered
          <6>1. claimed = {}
            BY <3>4, <5>1
          <6>2. row' = [r \in Rows |-> reaped[r]]
            BY <3>1, <5>1, <6>1
          <6>. QED  BY <6>2
        <5>2. CASE ~(holder /\ registered)
          BY <3>1, <5>2
        <5>. QED  BY <5>1, <5>2
      <4>1. \A r \in Rows : Claimed(r)' => Claimed(r)
        BY <4>0
      <4>2. \A d \in Callers \ {c} : caller'[d] = caller[d]
        BY <3>1 DEF Proceed, TypeOK
      <4>. QED  BY <3>2, <4>1, <4>2
    <3>. QED  BY <3>3, <3>4
  <2>. QED  BY <1>1, <2>1, <2>2, <2>3 DEF RequestStep
<1>2. ASSUME NEW c \in Timers, LeaseWatchFires(c)
      PROVE  ClaimWatched'
  <2>1. c \in Callers
    BY DEF Callers
  <2>2. (\E r \in Rows : Claimed(r)') => caller'[c].arm
    BY <1>2, <2>1, ProceedArms DEF LeaseWatchFires, TypeOK
  <2>. QED  BY <2>1, <2>2
<1>3. ASSUME NEW c \in Callers, CallerStep(c)
      PROVE  ClaimWatched'
  <2>1. row' = row
    BY <1>3 DEF CallerStep, TriggerFindsWorker, TriggerCreatesWorker, StartWorker, ArmLeaseWatch
  <2>2. CASE ArmLeaseWatch(c)
    BY <2>2 DEF ArmLeaseWatch
  <2>3. CASE ~ArmLeaseWatch(c)
    <3>1. armed' = armed
      BY <1>3, <2>3 DEF CallerStep, TriggerFindsWorker, TriggerCreatesWorker, StartWorker
    <3>2. caller[c].arm => caller'[c].arm
      <4>1. CASE TriggerCreatesWorker(c)
        BY <4>1 DEF TriggerCreatesWorker, TypeOK, CallerState
      <4>2. CASE ~TriggerCreatesWorker(c)
        BY <1>3, <2>3, <4>2 DEF CallerStep, TriggerFindsWorker, StartWorker, AfterTrigger, TypeOK
      <4>. QED  BY <4>1, <4>2
    <3>3. \A d \in Callers \ {c} : caller'[d] = caller[d]
      BY <1>3, <2>3 DEF CallerStep, TriggerFindsWorker, TriggerCreatesWorker, StartWorker, TypeOK
    <3>. QED  BY <2>1, <3>1, <3>2, <3>3
  <2>. QED  BY <2>2, <2>3
<1>4. CASE \E r \in Rows : ClaimLapses(r)
  BY <1>4 DEF ClaimLapses, TypeOK
<1>5. CASE (\E w \in Workers : WorkerStep(w))
           \/ \E t \in Turns : TurnBegins(t) \/ TurnStep(t)
  <2>1. row' = row /\ armed' = armed /\ caller' = caller
    BY <1>5 DEF WorkerStep, WorkerChecks, WorkerLooks, WorkerLocks, WorkerTypes,
         WorkerEnters, WorkerEnds, TurnBegins, TurnStep, TurnReads, TurnTypes,
         TurnSettles, TurnEnters, TurnObserves, rowVars
  <2>. QED  BY <2>1
<1>6. CASE Environment
  BY <1>6 DEF Environment, Reply, Confirm, GiveBack, Reconnect, AgentWorks, HumanEdits,
       rowVars, TypeOK
<1>7. CASE UNCHANGED vars
  BY <1>7 DEF vars, rowVars
<1>. QED  BY <1>1, <1>2, <1>3, <1>4, <1>5, <1>6, <1>7 DEF Next

\* Every claim is watched (_arm_lease_watch), for any number of messages, daemon
\* threads and timers: ClaimWatched is inductive beside the types.
THEOREM ClaimsAreWatched == Spec => []ClaimWatched
<1>1. Init => ClaimWatched
  BY DEF Init, ClaimWatched, Claimed
<1>2. TypeOK /\ TypeOK' /\ ClaimWatched /\ [Next]_vars => ClaimWatched'
  BY WatchStep
<1>. QED  BY <1>1, <1>2, WakeupTypes, PTL DEF Spec

----------------------------------------------------------------------------
(* The pane *)

\* The discipline of the pane's write lock: who writes holds it, and what is about
\* to type has seen an empty composer.
OneWriter ==
    /\ \A w \in Workers : worker[w].pc \in {"type", "enter"} => lock = w
    /\ \A t \in Turns : turn[t] # "idle" => lock = t
    /\ \A w \in Workers : worker[w].pc = "type" => draft = {}
    /\ \A t \in Turns : turn[t] = "type" => draft = {}
    /\ BrokerTextsApart

LEMMA OneWriterStep ==
  ASSUME TypeOK, TypeOK', OneWriter, [Next]_vars
  PROVE  OneWriter'
<1> USE DEF BrokerTextsApart
<1>0. NoOne \notin Workers /\ NoOne \notin Turns /\ Workers \cap Turns = {}
  BY ConstantsOK DEF Writers
<1>1. ASSUME NEW w \in Workers, WorkerStep(w)
      PROVE  OneWriter'
  <2>1. \A v \in Workers \ {w} : worker'[v] = worker[v]
    BY <1>1 DEF TypeOK, WorkerStep, WorkerChecks, WorkerLooks, WorkerLocks, WorkerTypes,
         WorkerEnters, WorkerEnds, Goto, Defer
  <2>2. turn' = turn
    BY <1>1 DEF WorkerStep, WorkerChecks, WorkerLooks, WorkerLocks, WorkerTypes,
         WorkerEnters, WorkerEnds, paneVars
  <2>3. CASE WorkerChecks(w) \/ WorkerLooks(w) \/ WorkerEnds(w)
    <3>1. worker'[w].pc \notin {"type", "enter"}
      BY <2>3 DEF WorkerChecks, WorkerLooks, WorkerEnds, Goto, Defer, TypeOK
    <3>2. UNCHANGED <<draft, lock, turn>>
      BY <2>3 DEF WorkerChecks, WorkerLooks, WorkerEnds, paneVars
    <3>. QED  BY <2>1, <3>1, <3>2 DEF OneWriter
  <2>4. CASE WorkerLocks(w)
    <3>1. lock = NoOne /\ draft' = draft
      BY <2>4 DEF WorkerLocks
    <3>2. (\A v \in Workers : worker[v].pc \notin {"type", "enter"})
          /\ \A t \in Turns : turn[t] = "idle"
      BY <1>0, <3>1 DEF OneWriter
    <3>3. worker'[w].pc \in {"type", "enter"} =>
            worker'[w].pc = "type" /\ lock' = w /\ draft = {}
      BY <2>4 DEF WorkerLocks, Goto, Defer, TypeOK
    <3>. QED  BY <2>1, <2>2, <3>1, <3>2, <3>3 DEF OneWriter
  <2>5. CASE WorkerTypes(w)
    <3>1. lock = w /\ draft = {} /\ worker[w].pc = "type"
      BY <2>5 DEF WorkerTypes, OneWriter
    <3>2. \A v \in Workers \ {w} : worker[v].pc \notin {"type", "enter"}
      BY <3>1 DEF OneWriter
    <3>3. \A t \in Turns : turn[t] = "idle"
      BY <1>0, <3>1 DEF OneWriter
    <3>4. /\ worker'[w].pc # "type" /\ (worker'[w].pc = "enter" => lock' = w)
          /\ draft' \in {{}, {w}}
      BY <2>5, <3>1 DEF WorkerTypes, Goto, TypeOK
    <3>. QED  BY <2>1, <2>2, <3>2, <3>3, <3>4 DEF OneWriter
  <2>6. CASE WorkerEnters(w)
    <3>1. lock = w
      BY <2>6 DEF WorkerEnters, OneWriter
    <3>2. (\A v \in Workers \ {w} : worker[v].pc \notin {"type", "enter"})
          /\ \A t \in Turns : turn[t] = "idle"
      BY <1>0, <3>1 DEF OneWriter
    <3>3. worker'[w].pc \notin {"type", "enter"} /\ draft' \in {{}, draft}
      BY <2>6 DEF WorkerEnters, PressEnter, Goto, TypeOK
    <3>. QED  BY <2>1, <2>2, <3>2, <3>3 DEF OneWriter
  <2>. QED  BY <1>1, <2>3, <2>4, <2>5, <2>6 DEF WorkerStep
<1>2. ASSUME NEW t \in Turns, TurnBegins(t) \/ TurnStep(t)
      PROVE  OneWriter'
  <2>1. worker' = worker /\ \A u \in Turns \ {t} : turn'[u] = turn[u]
    BY <1>2 DEF TypeOK, TurnBegins, TurnStep, TurnReads, TurnTypes, TurnSettles,
         TurnEnters, TurnObserves, GotoTurn, Stall
  <2>2. lock \in {t, NoOne}
    BY <1>2 DEF OneWriter, TurnBegins, TurnStep, TurnReads, TurnTypes, TurnSettles,
         TurnEnters, TurnObserves
  <2>3. (\A w \in Workers : worker[w].pc \notin {"type", "enter"})
        /\ \A u \in Turns \ {t} : turn[u] = "idle"
    BY <1>0, <2>2 DEF OneWriter
  <2>4. turn'[t] # "idle" => lock' = t
    <3>1. turn[t] # "idle" => lock = t
      BY DEF OneWriter
    <3>. QED  BY <1>2, <3>1 DEF TypeOK, TurnBegins, TurnStep, TurnReads, TurnTypes,
                TurnSettles, TurnEnters, TurnObserves, GotoTurn, Stall
  <2>5. turn'[t] = "type" => draft' = {}
    BY <1>2 DEF TypeOK, TurnBegins, TurnStep, TurnReads, TurnTypes, TurnSettles,
         TurnEnters, TurnObserves, GotoTurn, Stall
  <2>6. BrokerTextsApart'
    <3>1. CASE TurnTypes(t)
      <4>1. draft = {}
        BY <3>1 DEF TurnTypes, OneWriter
      <4>2. draft' \in {{}, {t}}
        BY <3>1, <4>1 DEF TurnTypes
      <4>. QED  BY <4>2
    <3>2. CASE ~TurnTypes(t)
      <4>1. draft' \in {{}, draft}
        BY <1>2, <3>2 DEF TurnBegins, TurnStep, TurnReads, TurnSettles, TurnEnters,
             TurnObserves, PressEnter
      <4>. QED  BY <4>1 DEF OneWriter
    <3>. QED  BY <3>1, <3>2
  <2>. QED  BY <2>1, <2>3, <2>4, <2>5, <2>6 DEF OneWriter
<1>3. ASSUME NEW c \in Callers, CallerStep(c)
      PROVE  OneWriter'
  <2>1. UNCHANGED <<draft, lock, turn>>
    BY <1>3 DEF CallerStep, TriggerFindsWorker, TriggerCreatesWorker, StartWorker,
         ArmLeaseWatch, paneVars
  <2>2. \A w \in Workers :
          worker'[w].pc \in {"type", "enter"} => worker'[w].pc = worker[w].pc
    <3>1. CASE \E w \in Workers : StartWorker(c, w)
      <4>1. PICK w \in Workers : StartWorker(c, w)
        BY <3>1
      <4>2. worker'[w].pc = "check" /\ \A v \in Workers \ {w} : worker'[v] = worker[v]
        BY <4>1 DEF StartWorker, TypeOK, WorkerState
      <4>. QED  BY <4>2
    <3>2. CASE ~\E w \in Workers : StartWorker(c, w)
      BY <1>3, <3>2 DEF CallerStep, TriggerFindsWorker, TriggerCreatesWorker,
           ArmLeaseWatch, TypeOK
    <3>. QED  BY <3>1, <3>2
  <2>. QED  BY <2>1, <2>2 DEF OneWriter
<1>4. CASE (\E c \in Requests : RequestStep(c)) \/ (\E c \in Timers : LeaseWatchFires(c))
           \/ (\E r \in Rows : ClaimLapses(r)) \/ Environment \/ UNCHANGED vars
  <2>1. worker' = worker /\ UNCHANGED <<lock, turn>> /\ draft' \in {{}, draft}
    BY <1>4 DEF RequestStep, Enqueue, PollClaims, Drain, LeaseWatchFires, ClaimLapses,
         Environment, Reply, Confirm, GiveBack, Reconnect, AgentWorks, HumanEdits,
         vars, paneVars
  <2>. QED  BY <2>1 DEF OneWriter
<1>. QED  BY <1>1, <1>2, <1>3, <1>4 DEF Next

\* A nudge and a user turn are never in the composer together (_nudge_worker,
\* user_turn.py), for any number of nudge threads and turns: they hold the pane's
\* write lock from the look at an empty composer to the end of what they type.
THEOREM BrokerTextsStayApart == Spec => []BrokerTextsApart
<1>1. Init => OneWriter
  BY DEF Init, OneWriter, BrokerTextsApart
<1>2. TypeOK /\ TypeOK' /\ OneWriter /\ [Next]_vars => OneWriter'
  BY OneWriterStep
<1>3. OneWriter => BrokerTextsApart
  BY DEF OneWriter
<1>. QED  BY <1>1, <1>2, <1>3, WakeupTypes, PTL DEF Spec

=============================================================================
