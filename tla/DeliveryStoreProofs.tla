------------------------ MODULE DeliveryStoreProofs ------------------------
(***************************************************************************)
(* Theorems about DeliveryStore, for every set of agents, owners, instance *)
(* ids and rows, and every bound: its types, what a step may do to one     *)
(* message, and what follows from it: claims are fenced, receipts are      *)
(* awaited once, delivery is final, and the store implements FencedQueue.  *)
(***************************************************************************)
EXTENDS DeliveryStore, TLAPS

----------------------------------------------------------------------------
(* Rows *)

LEMMA BlankRowType == BlankRow \in QueueRow
  BY DEF BlankRow, QueueRow, RowStates, Receipts

LEMMA FreshRowTypes ==
  ASSUME NEW s \in Agents, NEW t \in Agents
  PROVE  /\ [BlankRow EXCEPT !.st = "UNDELIVERED", !.to = t, !.from = s] \in QueueRow
         /\ [BlankRow EXCEPT !.st = "GONE"] \in QueueRow
  BY BlankRowType DEF QueueRow, RowStates

\* What handlers assign to single fields.
LEMMA RowUpdateTypes ==
  ASSUME NEW row \in QueueRow
  PROVE  /\ [row EXCEPT !.receipt = "none"] \in QueueRow
         /\ [row EXCEPT !.receipt = "due"] \in QueueRow
         /\ [row EXCEPT !.lapsed = TRUE] \in QueueRow
         /\ [row EXCEPT !.st = "DELIVERED"] \in QueueRow
         /\ [row EXCEPT !.st = "DELIVERED", !.epoch = 0, !.gen = 0,
                        !.receipt = "waiting"] \in QueueRow
  BY DEF QueueRow, RowStates, Receipts

\* The row helpers take rows to rows.
LEMMA RowHelperTypes ==
  ASSUME NEW row \in QueueRow, NEW a
  PROVE  /\ Requeue(row) \in QueueRow
         /\ Release(row, a) \in QueueRow
         /\ Reap(row) \in QueueRow
         /\ Renotified(row) \in QueueRow
  BY DEF Requeue, Release, Reap, Renotified, QueueRow, RowStates, Receipts

LEMMA ClaimType ==
  ASSUME NEW row \in QueueRow, NEW a, NEW g \in Nat, epoch[a] \in Nat
  PROVE  Claim(row, a, g) \in QueueRow
  BY DEF Claim, QueueRow, RowStates

----------------------------------------------------------------------------
(* Type correctness *)

LEMMA BlankRecordTypes ==
  /\ NoLease \in ObserverLease /\ NoPending \in PendingAdoption
  /\ NoBind \in AgentBind /\ NoPane \in PaneMeta /\ NoSpawn \in Spawn
  BY DEF NoLease, ObserverLease, Phases, NoPending, PendingAdoption, AdoptRollback,
         NoBind, AgentBind, NoPane, PaneMeta, NoSpawn, Spawn

\* What handlers assign to single fields.
LEMMA LeaseUpdateTypes ==
  ASSUME NEW l \in ObserverLease, NEW ph \in Phases
  PROVE  [l EXCEPT !.phase = ph] \in ObserverLease
  BY DEF ObserverLease

LEMMA BindUpdateTypes ==
  ASSUME NEW b \in AgentBind, NEW n \in Nat, NEW up \in BOOLEAN
  PROVE  /\ [b EXCEPT !.token = n, !.open = FALSE] \in AgentBind
         /\ [NoBind EXCEPT !.token = n, !.live = TRUE] \in AgentBind
         /\ [b EXCEPT !.live = up] \in AgentBind
         /\ [b EXCEPT !.live = FALSE, !.registered = FALSE] \in AgentBind
         /\ [b EXCEPT !.registered = up, !.open = up] \in AgentBind
  BY DEF AgentBind, NoBind

LEMMA SpawnUpdateTypes ==
  ASSUME NEW sp \in Spawn, NEW n \in Nat, NEW pc \in {"idle", "pane"}
  PROVE  [sp EXCEPT !.secret = n, !.pc = pc] \in Spawn
  BY DEF Spawn

LEMMA PcUpdateTypes ==
  ASSUME NEW sp \in Spawn, NEW pc,
         pc \in {"idle", "cred", "lease", "undo_token", "undo_cred", "undo_lease"}
  PROVE  [sp EXCEPT !.pc = pc] \in Spawn
  BY DEF Spawn

LEMMA PaneUpdateTypes ==
  ASSUME NEW q \in PaneMeta, NEW away \in BOOLEAN
  PROVE  [q EXCEPT !.away = away] \in PaneMeta
  BY DEF PaneMeta

\* The sweep of failed adoptions keeps the types.
LEMMA SweptTypes ==
  ASSUME TypeOK
  PROVE  /\ SweptPending \in [Agents -> PendingAdoption]
         /\ SweptGen \in [Agents -> Nat]
         /\ SweptInst \in [Agents -> Instances \cup {None}]
         /\ SweptLease \in [Agents -> ObserverLease]
         /\ SweptBind \in [Agents -> AgentBind]
         /\ SweptPane \in [Agents -> PaneMeta]
<1> USE DEF TypeOK
<1>1. SweptPending \in [Agents -> PendingAdoption]
  BY BlankRecordTypes DEF SweptPending
<1>2. \A a \in Agents : pending[a].back \in AdoptRollback
  BY DEF PendingAdoption
<1>3. SweptGen \in [Agents -> Nat]
  BY <1>2 DEF SweptGen, AdoptRollback
<1>4. SweptInst \in [Agents -> Instances \cup {None}]
  BY <1>2 DEF SweptInst, AdoptRollback
<1>5. SweptLease \in [Agents -> ObserverLease]
  BY <1>2, BlankRecordTypes DEF SweptLease, AdoptRollback
<1>6. SweptBind \in [Agents -> AgentBind]
  <2>1. ASSUME NEW a \in Agents
        PROVE  [bind[a] EXCEPT !.token = pending[a].back.token, !.open = FALSE] \in AgentBind
    <3>1. bind[a] \in AgentBind /\ pending[a].back.token \in Nat
      BY <1>2 DEF AdoptRollback
    <3>. QED  BY <3>1 DEF AgentBind
  <2>. QED  BY <2>1 DEF SweptBind
<1>7. SweptPane \in [Agents -> PaneMeta]
  BY DEF SweptPane, PaneMeta
<1>. QED  BY <1>1, <1>3, <1>4, <1>5, <1>6, <1>7

LEMMA InitTypeOK == Init => TypeOK
<1> SUFFICES ASSUME Init PROVE TypeOK
  OBVIOUS
<1>. QED  BY BlankRowType, BlankRecordTypes DEF Init, TypeOK, Cleanups

\* Operations on messages.
LEMMA MessageSteps ==
  ASSUME TypeOK, Messages \/ Sweep
  PROVE  TypeOK'
<1> USE SweptTypes, RowHelperTypes DEF TypeOK, SweepOwners
<1>1. ASSUME NEW s \in Agents, NEW t \in Agents, NEW r \in Rows, Enqueue(s, t, r)
      PROVE  TypeOK'
  <2>1. rows' \in [Rows -> QueueRow]
    BY <1>1, FreshRowTypes, RowUpdateTypes DEF Enqueue
  <2>. QED  BY <1>1, <2>1 DEF Enqueue
<1>2. ASSUME NEW a \in Agents, Drain(a)
      PROVE  TypeOK'
  <2>1. \A r \in Rows : Renotified(Reap(rows[r])) \in QueueRow
    OBVIOUS
  <2>2. rows' \in [Rows -> QueueRow]
    BY <1>2, <2>1, RowUpdateTypes DEF Drain
  <2>. QED  BY <1>2, <2>2 DEF Drain
<1>3. CASE Sweep
  BY <1>3 DEF Sweep
<1>. QED  BY <1>1, <1>2, <1>3 DEF Messages

\* Calls of the channel sidecars.
LEMMA SidecarSteps ==
  ASSUME TypeOK, NEW a \in Agents, Register(a) \/ Deliver(a)
  PROVE  TypeOK'
<1> USE SweptTypes, RowHelperTypes DEF TypeOK, SweepOwners
<1>1. ASSUME NEW i \in Instances, NEW s \in 0..minted[a], RegisterInstance(a, i, s)
      PROVE  TypeOK'
  <2> DEFINE l == SweptLease[a]
  <2>1. l \in ObserverLease /\ [l EXCEPT !.phase = "active"] \in ObserverLease
    BY LeaseUpdateTypes DEF Phases
  <2>2. lease' \in [Agents -> ObserverLease]
    BY <1>1, <2>1, BlankRecordTypes DEF RegisterInstance
  <2>3. pending' \in [Agents -> PendingAdoption]
    BY <1>1, BlankRecordTypes DEF RegisterInstance
  <2>4. rows' \in [Rows -> QueueRow]
    BY <1>1 DEF RegisterInstance
  <2>5. gen' \in [Agents -> Nat] /\ inst' \in [Agents -> Instances \cup {None}]
    BY <1>1 DEF RegisterInstance
  <2>. QED  BY <1>1, <2>2, <2>3, <2>4, <2>5 DEF RegisterInstance
<1>2. ASSUME NEW g \in 0..MaxGen, NEW i \in Instances, PollStale(a, g, i)
      PROVE  TypeOK'
  BY <1>2 DEF PollStale
<1>3. ASSUME NEW g \in 0..MaxGen, NEW i \in Instances, PollCurrent(a, g, i)
      PROVE  TypeOK'
  <2> DEFINE l == SweptLease[a]
  <2>1. l \in ObserverLease /\ [l EXCEPT !.phase = "active"] \in ObserverLease
    BY LeaseUpdateTypes DEF Phases
  <2>2. lease' \in [Agents -> ObserverLease]
    BY <1>3, <2>1 DEF PollCurrent
  <2>3. \A r \in Rows : Reap(Renotified(rows[r])) \in QueueRow
    OBVIOUS
  <2>4. \A row \in QueueRow : Claim(row, a, g) \in QueueRow
    BY ConstantsOK, ClaimType
  <2>5. rows' \in [Rows -> QueueRow]
    BY <1>3, <2>3, <2>4 DEF PollCurrent
  <2>. QED  BY <1>3, <2>2, <2>5 DEF PollCurrent
<1>4. ASSUME NEW r \in Rows, NEW row \in QueueRow, ConfirmWith(r, row)
      PROVE  TypeOK'
  <2>1. rows' \in [Rows -> QueueRow]
    BY <1>4 DEF ConfirmWith
  <2>. QED  BY <1>4, <2>1 DEF ConfirmWith, ownerVars, bindVars
<1>5. ASSUME NEW r \in Rows, NEW e \in 0..MaxEpoch, NEW g \in 0..MaxGen, NEW i \in Instances,
             \/ ConfirmElsewhere(a, r)
             \/ ConfirmStaleSidecar(a, r, g, i)
             \/ ConfirmStaleEpoch(a, r, e, g, i)
             \/ ConfirmDelivered(a, r, e, g, i)
      PROVE  TypeOK'
  <2> DEFINE row == Reap(rows[r])
  <2>1. row \in QueueRow
    OBVIOUS
  <2>2. Requeue(row) \in QueueRow
    BY <2>1
  <2>3. [row EXCEPT !.st = "DELIVERED", !.epoch = 0, !.gen = 0, !.receipt = "waiting"]
          \in QueueRow
    BY <2>1, RowUpdateTypes
  <2>4. CASE ConfirmElsewhere(a, r)
    BY <2>4, <2>1, <1>4 DEF ConfirmElsewhere
  <2>5. CASE ConfirmStaleSidecar(a, r, g, i)
    BY <2>5, <2>1, <2>2, <1>4 DEF ConfirmStaleSidecar
  <2>6. CASE ConfirmStaleEpoch(a, r, e, g, i)
    BY <2>6, <2>1, <2>2, <1>4 DEF ConfirmStaleEpoch
  <2>7. CASE ConfirmDelivered(a, r, e, g, i)
    BY <2>7, <2>1, <2>3, <1>4 DEF ConfirmDelivered
  <2>. QED  BY <1>5, <2>4, <2>5, <2>6, <2>7
<1>. QED  BY <1>1, <1>2, <1>3, <1>5 DEF Register, Deliver

\* Operator commands.
LEMMA ControlSteps ==
  ASSUME TypeOK, NEW a \in Agents, Control(a)
  PROVE  TypeOK'
<1> USE SweptTypes, RowHelperTypes DEF TypeOK
<1>1. ASSUME NEW m \in {"PUSH", "PULL"}, FlipMode(a, m)
      PROVE  TypeOK'
  <2>1. rows' \in [Rows -> QueueRow]
    BY <1>1 DEF FlipMode
  <2>2. mode' \in [Agents -> {"PUSH", "PULL"}] /\ epoch' \in [Agents -> Nat]
    BY <1>1 DEF FlipMode
  <2>. QED  BY <1>1, <2>1, <2>2 DEF FlipMode, bindVars
<1>2. ASSUME NEW policy \in {"requeue", "drop"}, NEW force \in BOOLEAN,
             Adopt(a, policy, force)
      PROVE  TypeOK'
  <2> DEFINE n == minted[a] + 1
             g == SweptGen[a] + 1
  <2>1. n \in Nat /\ g \in Nat
    OBVIOUS
  <2>2. [secret |-> n, phase |-> "arming", adoption |-> n] \in ObserverLease
    BY <2>1 DEF ObserverLease, Phases
  <2>3. Rollback(a) \in AdoptRollback
    <3>1. Displaced(a) \in AdoptRollback
      BY DEF Displaced, AdoptRollback, AgentBind, PaneMeta
    <3>. QED  BY <3>1 DEF Rollback, PendingAdoption
  <2>4. [id |-> n, due |-> FALSE, fenced |-> g, back |-> Rollback(a)] \in PendingAdoption
    BY <2>1, <2>3 DEF PendingAdoption
  <2>5. lease' \in [Agents -> ObserverLease] /\ pending' \in [Agents -> PendingAdoption]
    BY <1>2, <2>2, <2>4 DEF Adopt
  <2>6. rows' \in [Rows -> QueueRow]
    BY <1>2, RowUpdateTypes DEF Adopt
  <2>7. gen' \in [Agents -> Nat] /\ inst' \in [Agents -> Instances \cup {None}]
    BY <1>2, <2>1 DEF Adopt
  <2>8. bind' \in [Agents -> AgentBind]
    <3>1. [SweptBind[a] EXCEPT !.token = n, !.open = FALSE] \in AgentBind
      BY <2>1, BindUpdateTypes
    <3>2. bind' = [SweptBind EXCEPT ![a] = [SweptBind[a] EXCEPT !.token = n, !.open = FALSE]]
      BY <1>2 DEF Adopt
    <3>. QED  BY <3>1, <3>2
  <2>9. pane' \in [Agents -> PaneMeta]
    <3> DEFINE away == SweptPane[a].away \/ SweptPane[a].token # 0
    <3>1. [SweptPane[a] EXCEPT !.away = away] \in PaneMeta
      BY PaneUpdateTypes
    <3>2. pane' = [SweptPane EXCEPT ![a] = [SweptPane[a] EXCEPT !.away = away]]
      BY <1>2 DEF Adopt
    <3>. QED  BY <3>1, <3>2
  <2>10. minted' \in [Agents -> Nat]
    BY <1>2, <2>1 DEF Adopt, Mint
  <2>. QED  BY <1>2, <2>5, <2>6, <2>7, <2>8, <2>9, <2>10 DEF Adopt
<1>. QED  BY <1>1, <1>2 DEF Control

\* Minting, spawning and MCP sessions.
LEMMA SessionSteps ==
  ASSUME TypeOK, NEW a \in Agents, Session(a)
  PROVE  TypeOK'
<1> USE DEF TypeOK
<1>1. CASE IssueToken(a)
  <2> DEFINE n == minted[a] + 1
             pc == IF a \in Logical THEN "logical"
                   ELSE IF a \in Owners THEN "cred" ELSE "idle"
  <2>1. [NoBind EXCEPT !.token = n, !.live = TRUE] \in AgentBind
    <3>1. n \in Nat
      OBVIOUS
    <3>. QED  BY <3>1, BlankRecordTypes, BindUpdateTypes
  <2>2. [pc |-> pc, token |-> n, secret |-> 0] \in Spawn
    BY DEF Spawn
  <2>3. bind' \in [Agents -> AgentBind] /\ spawn' \in [Agents -> Spawn]
    BY <1>1, <2>1, <2>2 DEF IssueToken
  <2>. QED  BY <1>1, <2>3 DEF IssueToken, Mint, ownerVars
<1>2. CASE Initialize(a)
  <2>1. [bind[a] EXCEPT !.registered = TRUE, !.open = TRUE] \in AgentBind
    BY BindUpdateTypes
  <2>. QED  BY <1>2, <2>1 DEF Initialize, ownerVars
<1>3. CASE CloseLastSession(a)
  <2>1. [bind[a] EXCEPT !.registered = FALSE, !.open = FALSE] \in AgentBind
    BY BindUpdateTypes
  <2>. QED  BY <1>3, <2>1 DEF CloseLastSession, ownerVars
<1>. QED  BY <1>1, <1>2, <1>3 DEF Session

LEMMA SpawnAtType ==
  ASSUME TypeOK, NEW a \in Agents, NEW pc,
         pc \in {"idle", "cred", "lease", "undo_token", "undo_cred", "undo_lease"},
         SpawnAt(a, pc)
  PROVE  spawn' \in [Agents -> Spawn]
<1>1. [spawn[a] EXCEPT !.pc = pc] \in Spawn
  <2>1. spawn[a] \in Spawn
    BY DEF TypeOK
  <2>. QED  BY <2>1, PcUpdateTypes
<1>2. spawn' = [spawn EXCEPT ![a] = [spawn[a] EXCEPT !.pc = pc]]
  BY DEF SpawnAt
<1>. QED  BY <1>1, <1>2 DEF TypeOK

LEMMA SpawnSteps ==
  ASSUME TypeOK, NEW a \in Agents, SpawnStep(a)
  PROVE  TypeOK'
<1> USE SpawnAtType DEF TypeOK, ownerVars
<1>0. spawn[a].token \in Nat /\ spawn[a].secret \in Nat
  BY DEF Spawn
<1>1. CASE RegisterLogicalPane(a)
  <2>1. [token |-> spawn[a].token, away |-> FALSE] \in PaneMeta
    BY <1>0 DEF PaneMeta
  <2>. QED  BY <1>1, <2>1 DEF RegisterLogicalPane
<1>2. CASE IssueDeliveryCred(a)
  BY <1>0, <1>2 DEF IssueDeliveryCred
<1>3. CASE AssertObserver(a)
  <2> DEFINE n == minted[a] + 1
             ph == IF a \in Logical THEN "armed" ELSE "arming"
             pc == IF a \in Logical THEN "idle" ELSE "pane"
  <2>1. [secret |-> n, adoption |-> 0, phase |-> ph] \in ObserverLease
    BY DEF ObserverLease, Phases
  <2>2. [spawn[a] EXCEPT !.secret = n, !.pc = pc] \in Spawn
    <3>1. spawn[a] \in Spawn /\ n \in Nat /\ pc \in {"idle", "pane"}
      OBVIOUS
    <3>. QED  BY <3>1, SpawnUpdateTypes
  <2>3. lease' \in [Agents -> ObserverLease] /\ spawn' \in [Agents -> Spawn]
    BY <1>3, <2>1, <2>2 DEF AssertObserver
  <2>. QED  BY <1>3, <2>3 DEF AssertObserver, Mint
<1>4. CASE MintUnobserved(a)
  BY <1>4 DEF MintUnobserved
<1>5. CASE RegisterPane(a)
  <2>1. [token |-> spawn[a].token, away |-> FALSE] \in PaneMeta
    BY <1>0 DEF PaneMeta
  <2>. QED  BY <1>5, <2>1 DEF RegisterPane
<1>6. CASE SpawnFails(a)
  BY <1>6 DEF SpawnFails
<1>7. CASE UndoToken(a)
  <2> DEFINE up == bind[a].live /\ bind[a].token # spawn[a].token
  <2>1. [bind[a] EXCEPT !.live = up] \in AgentBind
    BY BindUpdateTypes
  <2>2. bind' = [bind EXCEPT ![a] = [bind[a] EXCEPT !.live = up]]
    BY <1>7 DEF UndoToken
  <2>3. bind' \in [Agents -> AgentBind]
    BY <2>1, <2>2
  <2>. QED  BY <1>7, <2>3 DEF UndoToken
<1>8. CASE UndoCred(a)
  BY <1>8 DEF UndoCred
<1>9. CASE UndoLease(a)
  <2>1. lease' \in [Agents -> ObserverLease]
    BY <1>9, BlankRecordTypes DEF UndoLease
  <2>. QED  BY <1>9, <2>1 DEF UndoLease
<1>. QED  BY <1>1, <1>2, <1>3, <1>4, <1>5, <1>6, <1>7, <1>8, <1>9 DEF SpawnStep

\* Closing a pane.
LEMMA CleanupSteps ==
  ASSUME TypeOK, NEW a \in Agents, CleanupPane(a)
  PROVE  TypeOK'
<1> USE RowHelperTypes, BlankRecordTypes DEF TypeOK, Cleanups
<1>1. CASE PopPane(a)
  <2>1. [bind[a] EXCEPT !.live = FALSE, !.registered = FALSE] \in AgentBind
    BY BindUpdateTypes
  <2>. QED  BY <1>1, <2>1 DEF PopPane, ownerVars
<1>2. CASE RevokeDeliveryCreds(a)
  BY <1>2 DEF RevokeDeliveryCreds, ownerVars
<1>3. CASE ResetDeliveryState(a)
  <2>1. rows' \in [Rows -> QueueRow]
    BY <1>3 DEF ResetDeliveryState
  <2>. QED  BY <1>3, <2>1 DEF ResetDeliveryState
<1>4. CASE DiscardAgentRows(a)
  <2>1. rows' \in [Rows -> QueueRow]
    BY <1>4, FreshRowTypes DEF DiscardAgentRows
  <2>. QED  BY <1>4, <2>1 DEF DiscardAgentRows, ownerVars
<1>. QED  BY <1>1, <1>2, <1>3, <1>4 DEF CleanupPane

\* Deadlines.
LEMMA ClockSteps ==
  ASSUME TypeOK, Clock
  PROVE  TypeOK'
<1> USE RowUpdateTypes DEF TypeOK, ownerVars, bindVars
<1>0. \A ph \in {"active", "arming"} : Later(ph) \in Phases
  BY DEF Later, Phases
<1>1. ASSUME NEW r \in Rows, ClaimLapses(r) \/ ReceiptDue(r)
      PROVE  TypeOK'
  <2>1. rows' \in [Rows -> QueueRow]
    <3>1. CASE ClaimLapses(r)
      BY <3>1 DEF ClaimLapses
    <3>2. CASE ReceiptDue(r)
      BY <3>2 DEF ReceiptDue
    <3>. QED  BY <1>1, <3>1, <3>2
  <2>. QED  BY <1>1, <2>1 DEF ClaimLapses, ReceiptDue
<1>2. ASSUME NEW a \in Agents, LeaseLapses(a)
      PROVE  TypeOK'
  <2>1. [lease[a] EXCEPT !.phase = Later(lease[a].phase)] \in ObserverLease
    BY <1>0, <1>2, LeaseUpdateTypes DEF LeaseLapses
  <2>2. lease' \in [Agents -> ObserverLease]
    BY <1>2, <2>1 DEF LeaseLapses
  <2>. QED  BY <1>2, <2>2 DEF LeaseLapses
<1>3. ASSUME NEW a \in Agents, SavedLeaseLapses(a)
      PROVE  TypeOK'
  <2> DEFINE l == pending[a].back.lease
  <2>1. pending[a] \in PendingAdoption /\ pending[a].back \in AdoptRollback /\ l \in ObserverLease
    BY DEF PendingAdoption, AdoptRollback
  <2>2. [l EXCEPT !.phase = Later(l.phase)] \in ObserverLease
    BY <1>0, <1>3, <2>1, LeaseUpdateTypes DEF SavedLeaseLapses
  <2>3. [pending[a].back EXCEPT !.lease = [l EXCEPT !.phase = Later(l.phase)]] \in AdoptRollback
    BY <2>1, <2>2 DEF AdoptRollback
  <2>4. pending' = [pending EXCEPT ![a] = [pending[a] EXCEPT !.back =
          [pending[a].back EXCEPT !.lease = [l EXCEPT !.phase = Later(l.phase)]]]]
    BY <1>3 DEF SavedLeaseLapses
  <2>5. pending' \in [Agents -> PendingAdoption]
    BY <2>1, <2>3, <2>4 DEF PendingAdoption
  <2>. QED  BY <1>3, <2>5 DEF SavedLeaseLapses
<1>4. ASSUME NEW a \in Agents, AdoptionDue(a)
      PROVE  TypeOK'
  <2>1. pending' \in [Agents -> PendingAdoption]
    BY <1>4 DEF AdoptionDue, PendingAdoption
  <2>. QED  BY <1>4, <2>1 DEF AdoptionDue
<1>. QED  BY <1>1, <1>2, <1>3, <1>4 DEF Clock

LEMMA StepTypeOK == TypeOK /\ [Next]_vars => TypeOK'
<1> SUFFICES ASSUME TypeOK, [Next]_vars PROVE TypeOK'
  OBVIOUS
<1>1. CASE UNCHANGED vars
  BY <1>1 DEF vars, ownerVars, bindVars, TypeOK
<1>2. CASE Next
  BY <1>2, ConstantsOK, MessageSteps, SidecarSteps, ControlSteps, SessionSteps,
     SpawnSteps, CleanupSteps, ClockSteps DEF Next, Others
<1>. QED  BY <1>1, <1>2

\* Every table of the store holds values of its type in every reachable state
\* (the records of broker/store.py and broker/tokens.py).
THEOREM TypeCorrect == Spec => []TypeOK
  BY InitTypeOK, StepTypeOK, PTL DEF Spec

----------------------------------------------------------------------------
(* The inductive invariant *)

\* An id that was not handed out is not addressed to anybody.
FreeIsUnaddressed == \A r \in Rows : rows[r].st = "FREE" => rows[r].to = None

QueueInv == TypeOK /\ ClaimFenced /\ ReceiptAwaitedOnce /\ FreeIsUnaddressed

----------------------------------------------------------------------------
(* The changes a row o can undergo in a step that makes it n *)

SameMessage(o, n) == n.to = o.to /\ n.renotified = o.renotified

IsKept(o, n) ==
    /\ n.st = o.st /\ SameMessage(o, n)
    /\ o.st = "CLAIMED" => n.gen = o.gen /\ n.epoch = o.epoch
    /\ n.receipt \in {o.receipt, "none"} \/ o.receipt # "none"
IsPut(o, n) ==
    /\ o.st = "FREE" /\ n.st = "UNDELIVERED" /\ n.to \in Agents
    /\ ~n.renotified /\ n.receipt = "none"
IsReturned(o, n) ==
    /\ o.st = "CLAIMED" /\ n.st = "UNDELIVERED"
    /\ SameMessage(o, n) /\ n.receipt = o.receipt
IsFinished(o, n) ==
    /\ o.st \in {"UNDELIVERED", "CLAIMED"} /\ n.st = "DELIVERED" /\ SameMessage(o, n)
    /\ n.receipt = o.receipt \/ (o.st = "CLAIMED" /\ n.receipt = "waiting")
IsRepeated(o, n) ==
    /\ o.st = "DELIVERED" /\ ~o.renotified /\ o.receipt = "due"
    /\ n.st \in {"UNDELIVERED", "DELIVERED"} /\ n.renotified /\ n.receipt = "none"
    /\ n.to = o.to
IsDiscarded(o, n) ==
    /\ o.st # "FREE" /\ n.st = "GONE" /\ ~n.renotified /\ n.receipt = "none"

\* What is the same before and after the step for an owner whose claims stand.
FenceKept(a) ==
    /\ gen'[a] = gen[a] /\ inst'[a] = inst[a]
    /\ epoch'[a] = epoch[a] /\ mode'[a] = mode[a]

\* A claim made in the step, by the owner's holder after it; the reaper may have
\* freed the row within the same step.
IsClaimed(o, n) ==
    /\ o.st \in {"UNDELIVERED", "CLAIMED"} /\ n.st = "CLAIMED" /\ SameMessage(o, n)
    /\ ~o.renotified /\ n.receipt = o.receipt
    /\ o.to \in Agents /\ n.gen = gen'[o.to] /\ n.epoch = epoch'[o.to]
    /\ inst'[o.to] # None /\ mode'[o.to] = "PUSH"

RowStep(r) ==
    LET o == rows[r]
        n == rows'[r]
    IN \/ IsPut(o, n) \/ IsReturned(o, n) \/ IsFinished(o, n) \/ IsRepeated(o, n)
       \/ IsDiscarded(o, n)
       \/ /\ IsKept(o, n) \/ IsClaimed(o, n)
          /\ o.st = "CLAIMED" => FenceKept(o.to)

----------------------------------------------------------------------------
(* Row helpers *)

LEMMA ReleaseMoves ==
  ASSUME NEW row \in QueueRow, NEW a
  PROVE  \/ Release(row, a) = row /\ ~(row.st = "CLAIMED" /\ row.to = a)
         \/ IsReturned(row, Release(row, a))
  BY DEF Release, Requeue, QueueRow, IsReturned, SameMessage

LEMMA ReapMoves ==
  ASSUME NEW row \in QueueRow
  PROVE  Reap(row) = row \/ IsReturned(row, Reap(row))
  BY DEF Reap, Requeue, QueueRow, IsReturned, SameMessage

LEMMA RenotifiedMoves ==
  ASSUME NEW row \in QueueRow,
         row.receipt # "none" => row.st = "DELIVERED" /\ ~row.renotified
  PROVE  \/ Renotified(row) = row
         \/ IsRepeated(row, Renotified(row)) /\ Renotified(row).st = "UNDELIVERED"
  BY DEF Renotified, Requeue, QueueRow, IsRepeated

LEMMA IdleRow == ASSUME NEW row \in QueueRow PROVE IsKept(row, row)
  BY DEF IsKept, SameMessage

\* The sweep lifts a fence only while nobody holds the owner.
LEMMA SweptFence ==
  ASSUME TypeOK, NEW a \in Agents, inst[a] # None
  PROVE  SweptGen[a] = gen[a] /\ SweptInst[a] = inst[a]
  BY DEF TypeOK, SweptGen, SweptInst, FenceIntact

----------------------------------------------------------------------------
(* Every step moves every row as above *)

\* A claimed row has a held owner, so the sweep leaves its fence alone.
LEMMA ClaimedOwner ==
  ASSUME QueueInv, NEW r \in Rows, rows[r].st = "CLAIMED"
  PROVE  /\ rows[r].to \in Agents /\ inst[rows[r].to] # None
         /\ SweptGen[rows[r].to] = gen[rows[r].to]
         /\ SweptInst[rows[r].to] = inst[rows[r].to]
  BY SweptFence DEF QueueInv, ClaimFenced

\* Steps that do no more to the rows than let a claim stand.
LEMMA QuietStep ==
  ASSUME QueueInv, NEW r \in Rows, rows'[r] = rows[r],
         rows[r].st = "CLAIMED" => FenceKept(rows[r].to)
  PROVE  RowStep(r)
  BY IdleRow DEF QueueInv, TypeOK, RowStep

LEMMA SweepKeepsFence ==
  ASSUME QueueInv, SweepOwners, UNCHANGED <<mode, epoch>>,
         NEW r \in Rows, rows[r].st = "CLAIMED"
  PROVE  FenceKept(rows[r].to)
  BY ClaimedOwner DEF SweepOwners, FenceKept

LEMMA MessageRowSteps ==
  ASSUME QueueInv, Messages \/ Sweep, NEW r \in Rows
  PROVE  RowStep(r)
<1> DEFINE o == rows[r]
           n == rows'[r]
<1>0. rows \in [Rows -> QueueRow] /\ o \in QueueRow
  BY DEF QueueInv, TypeOK
<1>1. ASSUME NEW s \in Agents, NEW t \in Agents, NEW q \in Rows, Enqueue(s, t, q)
      PROVE  RowStep(r)
  <2>1. o.st = "CLAIMED" => FenceKept(o.to)
    BY <1>1, SweepKeepsFence DEF Enqueue
  <2>2. CASE r = q
    <3>1. n = [BlankRow EXCEPT !.st = "UNDELIVERED", !.to = t, !.from = s] /\ o.st = "FREE"
      BY <1>1, <2>2 DEF Enqueue
    <3>. QED  BY <3>1 DEF RowStep, IsPut, BlankRow
  <2>3. CASE r # q
    <3>1. n = o \/ n = [o EXCEPT !.receipt = "none"]
      BY <1>1, <2>3 DEF Enqueue
    <3>2. IsKept(o, n)
      BY <1>0, <3>1 DEF IsKept, SameMessage, QueueRow
    <3>. QED  BY <2>1, <3>2 DEF RowStep
  <2>. QED  BY <2>2, <2>3
<1>2. ASSUME NEW a \in Agents, Drain(a)
      PROVE  RowStep(r)
  <2> DEFINE reaped == Reap(o)
             row == Renotified(reaped)
  <2>1. o.st = "CLAIMED" => FenceKept(o.to)
    BY <1>2, SweepKeepsFence DEF Drain
  <2>2. n = IF row.st = "UNDELIVERED" /\ row.to = a THEN [row EXCEPT !.st = "DELIVERED"]
                                                   ELSE row
    BY <1>2 DEF Drain
  <2>3. reaped = o \/ IsReturned(o, reaped)
    BY <1>0, ReapMoves
  <2>4. reaped \in QueueRow /\ row \in QueueRow
    BY <1>0, RowHelperTypes
  <2>5. o.receipt # "none" => o.st = "DELIVERED" /\ ~o.renotified
    BY DEF QueueInv, ReceiptAwaitedOnce
  <2>6. row = reaped \/ (IsRepeated(reaped, row) /\ row.st = "UNDELIVERED")
    BY <2>3, <2>4, <2>5, RenotifiedMoves DEF IsReturned, SameMessage
  <2>7. \/ row = o \/ IsReturned(o, row)
        \/ IsRepeated(o, row) /\ row.st = "UNDELIVERED"
    BY <2>3, <2>6 DEF IsReturned, IsRepeated
  <2>8. n = row \/ (row.st = "UNDELIVERED" /\ n.st = "DELIVERED" /\ SameMessage(row, n)
                      /\ n.receipt = row.receipt)
    BY <2>2, <2>4 DEF QueueRow, SameMessage
  <2>9. CASE row = o
    BY <2>1, <2>8, <2>9, <1>0, IdleRow DEF RowStep, IsFinished
  <2>10. CASE IsReturned(o, row)
    BY <2>8, <2>10 DEF RowStep, IsFinished, IsReturned, SameMessage
  <2>11. CASE IsRepeated(o, row) /\ row.st = "UNDELIVERED"
    BY <2>8, <2>11 DEF RowStep, IsRepeated, SameMessage
  <2>. QED  BY <2>7, <2>9, <2>10, <2>11
<1>3. CASE Sweep
  BY <1>3, SweepKeepsFence, QuietStep DEF Sweep
<1>. QED  BY <1>1, <1>2, <1>3 DEF Messages

\* A fence of a gives a's claims back and leaves the others' owners alone.
LEMMA FencingStep ==
  ASSUME QueueInv, NEW a \in Agents, NEW r \in Rows,
         rows'[r] = Release(rows[r], a),
         rows[r].st = "CLAIMED" /\ rows[r].to # a => FenceKept(rows[r].to)
  PROVE  RowStep(r)
<1> DEFINE o == rows[r]
<1>1. o \in QueueRow
  BY DEF QueueInv, TypeOK
<1>2. CASE IsReturned(o, Release(o, a))
  BY <1>2 DEF RowStep
<1>3. CASE Release(o, a) = o /\ ~(o.st = "CLAIMED" /\ o.to = a)
  BY <1>1, <1>3, QuietStep
<1>. QED  BY <1>1, <1>2, <1>3, ReleaseMoves

\* A confirmation: one row as the handler says, the others reaped.
LEMMA ConfirmRowSteps ==
  ASSUME QueueInv, NEW q \in Rows, NEW row, ConfirmWith(q, row), NEW r \in Rows,
         \/ row = Reap(rows[q])
         \/ Reap(rows[q]).st = "CLAIMED" /\ row = Requeue(Reap(rows[q]))
         \/ /\ Reap(rows[q]).st = "CLAIMED"
            /\ row = [Reap(rows[q]) EXCEPT !.st = "DELIVERED", !.epoch = 0, !.gen = 0,
                                           !.receipt = "waiting"]
  PROVE  RowStep(r)
<1> DEFINE o == rows[r]
<1>1. o \in QueueRow /\ rows[q] \in QueueRow
  BY DEF QueueInv, TypeOK
<1>2. o.st = "CLAIMED" => FenceKept(o.to)
  BY ClaimedOwner DEF ConfirmWith, ownerVars, FenceKept
<1>3. Reap(o) = o \/ IsReturned(o, Reap(o))
  BY <1>1, ReapMoves
<1>4. CASE rows'[r] = Reap(o)
  BY <1>2, <1>3, <1>4, QuietStep DEF RowStep
<1>5. CASE r = q /\ rows'[r] = row
  <2>1. CASE row = Reap(o)
    BY <2>1, <1>4, <1>5
  <2>2. CASE Reap(o).st = "CLAIMED" /\ row = Requeue(Reap(o))
    <3>1. Reap(o) = o
      BY <1>3, <2>2 DEF IsReturned
    <3>2. IsReturned(o, row)
      BY <1>1, <2>2, <3>1 DEF IsReturned, Requeue, SameMessage, QueueRow
    <3>. QED  BY <1>5, <3>2 DEF RowStep
  <2>3. CASE /\ Reap(o).st = "CLAIMED"
             /\ row = [Reap(o) EXCEPT !.st = "DELIVERED", !.epoch = 0, !.gen = 0,
                                      !.receipt = "waiting"]
    <3>1. Reap(o) = o
      BY <1>3, <2>3 DEF IsReturned
    <3>2. IsFinished(o, row)
      BY <1>1, <2>3, <3>1 DEF IsFinished, SameMessage, QueueRow
    <3>. QED  BY <1>5, <3>2 DEF RowStep
  <2>. QED  BY <1>5, <2>1, <2>2, <2>3
<1>. QED  BY <1>4, <1>5 DEF ConfirmWith

LEMMA PollRowSteps ==
  ASSUME QueueInv, NEW a \in Agents, NEW g \in Nat, NEW i \in Instances,
         PollStale(a, g, i) \/ PollCurrent(a, g, i), NEW r \in Rows
  PROVE  RowStep(r)
<1> DEFINE o == rows[r]
           n == rows'[r]
           again == Renotified(o)
           row == Reap(again)
<1>1. rows \in [Rows -> QueueRow] /\ o \in QueueRow /\ again \in QueueRow /\ row \in QueueRow
  BY RowHelperTypes DEF QueueInv, TypeOK
<1>2. o.st = "CLAIMED" => FenceKept(o.to)
  BY ClaimedOwner DEF PollStale, PollCurrent, SweepOwners, FenceKept
<1>3. again = o \/ (IsRepeated(o, again) /\ again.st = "UNDELIVERED")
  BY <1>1, RenotifiedMoves DEF QueueInv, ReceiptAwaitedOnce
<1>4. n = again \/ (n = Claim(row, a, g) /\ mode[a] = "PUSH" /\ IsCurrent(a, g, i))
  BY DEF PollStale, PollCurrent
<1>5. CASE n = again
  BY <1>1, <1>2, <1>3, <1>5, IdleRow DEF RowStep
<1>6. CASE n = Claim(row, a, g) /\ mode[a] = "PUSH" /\ IsCurrent(a, g, i)
  <2>1. row = again \/ IsReturned(again, row)
    BY <1>1, ReapMoves
  <2>2. \/ row = o \/ IsReturned(o, row)
        \/ IsRepeated(o, row) /\ row.st = "UNDELIVERED"
    BY <1>3, <2>1 DEF IsReturned, IsRepeated
  <2>3. CASE n = row
    BY <1>1, <1>2, <2>2, <2>3, IdleRow DEF RowStep
  <2>4. CASE n # row
    <3>1. /\ row.st = "UNDELIVERED" /\ row.to = a /\ ~row.renotified
          /\ n = [row EXCEPT !.st = "CLAIMED", !.epoch = epoch[a], !.gen = g]
      BY <1>6, <2>4 DEF Claim
    <3>2. /\ n.st = "CLAIMED" /\ SameMessage(row, n) /\ n.receipt = row.receipt
          /\ n.epoch = epoch[a] /\ n.gen = g
      BY <1>1, <3>1 DEF QueueRow, SameMessage
    <3>3. o.st \in {"UNDELIVERED", "CLAIMED"} /\ SameMessage(o, row) /\ row.receipt = o.receipt
      BY <2>2, <3>1 DEF IsReturned, IsRepeated, SameMessage
    <3>4. PollCurrent(a, g, i)
      <4>1. CASE PollStale(a, g, i)
        BY <4>1, <1>6 DEF PollStale
      <4>. QED  BY <4>1
    <3>5. gen'[a] = g /\ inst'[a] # None /\ epoch'[a] = epoch[a] /\ mode'[a] = "PUSH"
      BY <1>6, <3>4, ConstantsOK DEF PollCurrent, IsCurrent
    <3>6. IsClaimed(o, n)
      BY <3>1, <3>2, <3>3, <3>5 DEF IsClaimed, SameMessage
    <3>. QED  BY <1>2, <3>6 DEF RowStep
  <2>. QED  BY <2>3, <2>4
<1>. QED  BY <1>4, <1>5, <1>6

LEMMA SidecarRowSteps ==
  ASSUME QueueInv, NEW a \in Agents, Register(a) \/ Deliver(a), NEW r \in Rows
  PROVE  RowStep(r)
<1> USE DEF QueueInv
<1>1. ASSUME NEW i \in Instances, NEW s \in 0..minted[a], RegisterInstance(a, i, s)
      PROVE  RowStep(r)
  <2>1. rows'[r] = Release(rows[r], a)
    <3>1. CASE rows[r].st = "CLAIMED" /\ rows[r].to = a
      <4>1. rows[r].gen = gen[a] /\ SweptGen[a] = gen[a] /\ gen[a] \in Nat
        BY <3>1, ClaimedOwner DEF ClaimFenced, TypeOK
      <4>2. rows[r].gen # SweptGen[a] + 1
        BY <4>1
      <4>. QED  BY <1>1, <4>2 DEF RegisterInstance
    <3>2. CASE ~(rows[r].st = "CLAIMED" /\ rows[r].to = a)
      BY <1>1, <3>2 DEF RegisterInstance, Release
    <3>. QED  BY <3>1, <3>2
  <2>2. ASSUME rows[r].st = "CLAIMED", rows[r].to # a
        PROVE  FenceKept(rows[r].to)
    BY <1>1, <2>2, ClaimedOwner, SweptTypes DEF RegisterInstance, FenceKept
  <2>. QED  BY <2>1, <2>2, FencingStep
<1>2. ASSUME NEW g \in 0..MaxGen, NEW i \in Instances,
             PollStale(a, g, i) \/ PollCurrent(a, g, i)
      PROVE  RowStep(r)
  BY <1>2, ConstantsOK, PollRowSteps
<1>3. ASSUME NEW q \in Rows, NEW e \in 0..MaxEpoch, NEW g \in 0..MaxGen, NEW i \in Instances,
             \/ ConfirmElsewhere(a, q)
             \/ ConfirmStaleSidecar(a, q, g, i)
             \/ ConfirmStaleEpoch(a, q, e, g, i)
             \/ ConfirmDelivered(a, q, e, g, i)
      PROVE  RowStep(r)
  <2>1. CASE ConfirmElsewhere(a, q)
    BY <2>1, ConfirmRowSteps DEF ConfirmElsewhere
  <2>2. CASE ConfirmStaleSidecar(a, q, g, i)
    BY <2>2, ConfirmRowSteps DEF ConfirmStaleSidecar
  <2>3. CASE ConfirmStaleEpoch(a, q, e, g, i)
    BY <2>3, ConfirmRowSteps DEF ConfirmStaleEpoch
  <2>4. CASE ConfirmDelivered(a, q, e, g, i)
    BY <2>4, ConfirmRowSteps DEF ConfirmDelivered
  <2>. QED  BY <1>3, <2>1, <2>2, <2>3, <2>4
<1>. QED  BY <1>1, <1>2, <1>3 DEF Register, Deliver

LEMMA ControlRowSteps ==
  ASSUME QueueInv, NEW a \in Agents, Control(a), NEW r \in Rows
  PROVE  RowStep(r)
<1> DEFINE o == rows[r]
<1>0. TypeOK /\ o \in QueueRow
  BY DEF QueueInv, TypeOK
<1>1. ASSUME NEW m \in {"PUSH", "PULL"}, FlipMode(a, m)
      PROVE  RowStep(r)
  <2>1. rows'[r] = Release(o, a)
    BY <1>1 DEF FlipMode
  <2>2. ASSUME o.st = "CLAIMED", o.to # a
        PROVE  FenceKept(o.to)
    BY <1>0, <1>1, <2>2, ClaimedOwner DEF FlipMode, FenceKept, TypeOK
  <2>. QED  BY <2>1, <2>2, FencingStep
<1>2. ASSUME NEW policy \in {"requeue", "drop"}, NEW force \in BOOLEAN,
             Adopt(a, policy, force)
      PROVE  RowStep(r)
  <2>1. ASSUME o.st = "CLAIMED", o.to # a
        PROVE  FenceKept(o.to)
    BY <1>0, <1>2, <2>1, ClaimedOwner, SweptTypes DEF Adopt, FenceKept
  <2>2. CASE rows'[r] = Release(o, a)
    BY <2>1, <2>2, FencingStep
  <2>3. CASE /\ o.st = "CLAIMED"
             /\ rows'[r] = [Requeue(o) EXCEPT !.st = "DELIVERED"]
    <3>1. IsFinished(o, rows'[r])
      BY <1>0, <2>3 DEF IsFinished, SameMessage, Requeue, QueueRow
    <3>. QED  BY <3>1 DEF RowStep
  <2>. QED  BY <1>2, <2>2, <2>3 DEF Adopt
<1>. QED  BY <1>1, <1>2 DEF Control

LEMMA CleanupRowSteps ==
  ASSUME QueueInv, NEW a \in Agents, CleanupPane(a), NEW r \in Rows
  PROVE  RowStep(r)
<1> DEFINE o == rows[r]
<1>0. TypeOK /\ o \in QueueRow
  BY DEF QueueInv, TypeOK
<1>1. CASE PopPane(a) \/ RevokeDeliveryCreds(a)
  BY <1>1, QuietStep DEF PopPane, RevokeDeliveryCreds, ownerVars, FenceKept
<1>2. CASE ResetDeliveryState(a)
  <2>1. rows'[r] = Release(o, a)
    BY <1>2 DEF ResetDeliveryState
  <2>2. ASSUME o.st = "CLAIMED", o.to # a
        PROVE  FenceKept(o.to)
    BY <1>0, <1>2, <2>2, ClaimedOwner DEF ResetDeliveryState, FenceKept, TypeOK
  <2>. QED  BY <2>1, <2>2, FencingStep
<1>3. CASE DiscardAgentRows(a)
  <2>1. o.st = "CLAIMED" => FenceKept(o.to)
    BY <1>3 DEF DiscardAgentRows, ownerVars, FenceKept
  <2>2. CASE o.to # a
    BY <1>3, <2>1, <2>2, QuietStep DEF DiscardAgentRows
  <2>3. CASE o.to = a
    <3>1. o.st # "FREE"
      BY <2>3, ConstantsOK DEF QueueInv, FreeIsUnaddressed
    <3>2. rows'[r] = [BlankRow EXCEPT !.st = "GONE"]
      BY <1>3, <2>3 DEF DiscardAgentRows
    <3>. QED  BY <3>1, <3>2 DEF RowStep, IsDiscarded, BlankRow
  <2>. QED  BY <2>2, <2>3
<1>. QED  BY <1>1, <1>2, <1>3 DEF CleanupPane

\* Sessions, spawns and deadlines leave rows and fences alone, but for the
\* marks that a deadline has passed.
LEMMA OtherRowSteps ==
  ASSUME QueueInv, NEW r \in Rows,
         Clock \/ \E a \in Agents : Session(a) \/ SpawnStep(a)
  PROVE  RowStep(r)
<1> DEFINE o == rows[r]
<1>0. rows \in [Rows -> QueueRow] /\ o \in QueueRow
  BY DEF QueueInv, TypeOK
<1>1. ASSUME NEW a \in Agents, Session(a)
      PROVE  RowStep(r)
  BY <1>1, QuietStep DEF Session, IssueToken, Initialize, CloseLastSession, ownerVars, FenceKept
<1>2. ASSUME NEW a \in Agents, SpawnStep(a)
      PROVE  RowStep(r)
  <2>1. rows'[r] = o /\ UNCHANGED <<mode, epoch, gen, inst>>
    BY <1>2 DEF SpawnStep, RegisterLogicalPane, IssueDeliveryCred, AssertObserver,
           MintUnobserved, RegisterPane, SpawnFails, UndoToken, UndoCred, UndoLease, ownerVars
  <2>. QED  BY <2>1, QuietStep DEF FenceKept
<1>3. CASE Clock
  <2>1. UNCHANGED <<mode, epoch, gen, inst>>
    BY <1>3 DEF Clock, ClaimLapses, ReceiptDue, LeaseLapses, SavedLeaseLapses, AdoptionDue,
           ownerVars
  <2>2. \/ rows'[r] = o
        \/ o.st = "CLAIMED" /\ rows'[r] = [o EXCEPT !.lapsed = TRUE]
        \/ o.receipt = "waiting" /\ rows'[r] = [o EXCEPT !.receipt = "due"]
    BY <1>0, <1>3 DEF Clock, ClaimLapses, ReceiptDue, LeaseLapses, SavedLeaseLapses, AdoptionDue
  <2>3. IsKept(o, rows'[r])
    BY <1>0, <2>2 DEF IsKept, SameMessage, QueueRow
  <2>. QED  BY <2>1, <2>3 DEF RowStep, FenceKept
<1>. QED  BY <1>1, <1>2, <1>3

LEMMA EveryRowSteps ==
  ASSUME QueueInv, [Next]_vars, NEW r \in Rows
  PROVE  RowStep(r)
<1>1. CASE UNCHANGED vars
  BY <1>1, QuietStep DEF vars, ownerVars, FenceKept
<1>2. CASE Next
  BY <1>2, ConstantsOK, MessageRowSteps, SidecarRowSteps, ControlRowSteps, CleanupRowSteps,
     OtherRowSteps DEF Next, Others
<1>. QED  BY <1>1, <1>2

----------------------------------------------------------------------------
(* What follows *)

LEMMA InitQueueInv == Init => QueueInv
  BY InitTypeOK, ConstantsOK
     DEF Init, QueueInv, ClaimFenced, ReceiptAwaitedOnce, FreeIsUnaddressed, BlankRow

LEMMA StepQueueInv == QueueInv /\ [Next]_vars => QueueInv'
<1> SUFFICES ASSUME QueueInv, [Next]_vars PROVE QueueInv'
  OBVIOUS
<1> USE DEF IsKept, IsPut, IsReturned, IsFinished, IsRepeated, IsDiscarded, IsClaimed, SameMessage
<1>1. TypeOK'
  BY StepTypeOK DEF QueueInv
<1>2. \A r \in Rows : RowStep(r)
  BY EveryRowSteps
<1>3. ClaimFenced'
  BY <1>2 DEF QueueInv, ClaimFenced, RowStep, FenceKept
<1>4. ReceiptAwaitedOnce'
  BY <1>2 DEF QueueInv, ReceiptAwaitedOnce, RowStep
<1>5. FreeIsUnaddressed'
  BY <1>2 DEF QueueInv, FreeIsUnaddressed, RowStep
<1>. QED  BY <1>1, <1>3, <1>4, <1>5 DEF QueueInv

LEMMA QueueInvariance == Spec => []QueueInv
  BY InitQueueInv, StepQueueInv, PTL DEF Spec

\* A claim never survives a change of its owner's generation, instance, epoch or
\* mode: poll_claims, register_delivery_instance, flip_mode, adopt_delivery and
\* the clean-up of a pane agree on that.
THEOREM ClaimsAreFenced == Spec => []ClaimFenced
  BY QueueInvariance, PTL DEF QueueInv

\* _renotify_due_locked hands a row out a second time at most once, and push
\* never takes it.
THEOREM ReceiptsAreAwaitedOnce == Spec => []ReceiptAwaitedOnce
  BY QueueInvariance, PTL DEF QueueInv

\* A delivered row comes back only by the one renotification.
THEOREM DeliveryIsFinal == Spec => DeliveredIsFinal
<1> DEFINE Final(r) ==
      rows[r].st = "DELIVERED" /\ rows'[r].st # "DELIVERED" =>
          \/ rows'[r].st = "GONE"
          \/ /\ rows[r].receipt = "due" /\ ~rows[r].renotified
             /\ rows'[r].st = "UNDELIVERED" /\ rows'[r].renotified
<1>1. QueueInv /\ [Next]_vars => [\A r \in Rows : Final(r)]_rows
  <2> SUFFICES ASSUME QueueInv, [Next]_vars, NEW r \in Rows PROVE Final(r)
    OBVIOUS
  <2>1. RowStep(r)
    BY EveryRowSteps
  <2>. QED  BY <2>1 DEF RowStep, IsKept, IsPut, IsReturned, IsFinished, IsRepeated,
                        IsDiscarded, IsClaimed
<1>. QED  BY <1>1, QueueInvariance, PTL DEF Spec, DeliveredIsFinal

----------------------------------------------------------------------------
(* Refinement *)

LEMMA InitRefines == Init => Queue!Init
  BY DEF Init, Queue!Init, BlankRow, Phase, Holder

\* A fence that is kept keeps the holder.
LEMMA HolderKept ==
  ASSUME TypeOK, NEW a \in Agents, FenceKept(a)
  PROVE  Holder(a)' = Holder(a)
  BY DEF FenceKept, Holder

LEMMA PhaseValues ==
  ASSUME NEW row \in QueueRow
  PROVE  /\ row.st = "FREE" => Phase(row) = "absent"
         /\ row.st = "UNDELIVERED" => Phase(row) = "ready"
         /\ row.st = "CLAIMED" => Phase(row) = "leased"
         /\ row.st = "DELIVERED" => Phase(row) = "done"
         /\ row.st = "GONE" => Phase(row) = "gone"
  BY DEF Phase

\* Every change of a row is one of the queue's.
LEMMA RowRefines ==
  ASSUME QueueInv, TypeOK', NEW r \in Rows, RowStep(r)
  PROVE  \/ Queue!Put(r) \/ Queue!Lease(r) \/ Queue!Return(r) \/ Queue!Finish(r)
         \/ Queue!Repeat(r) \/ Queue!Discard(r) \/ Queue!Stay(r)
<1> DEFINE o == rows[r]
           n == rows'[r]
<1>1. o \in QueueRow /\ n \in QueueRow /\ o.st \in RowStates /\ n.st \in RowStates
  BY DEF QueueInv, TypeOK, QueueRow
<1>2. TypeOK
  BY DEF QueueInv
<1> USE <1>1, PhaseValues DEF SameMessage, RowStates
<1>3. CASE IsPut(o, n)
  BY <1>3 DEF IsPut, Queue!Put
<1>4. CASE IsReturned(o, n)
  BY <1>4 DEF IsReturned, Queue!Return, Queue!Keep
<1>5. CASE IsFinished(o, n)
  BY <1>5 DEF IsFinished, Queue!Finish, Queue!Keep
<1>6. CASE IsRepeated(o, n)
  BY <1>6 DEF IsRepeated, Queue!Repeat
<1>7. CASE IsDiscarded(o, n)
  BY <1>7 DEF IsDiscarded, Queue!Discard
<1>8. o.st = "CLAIMED" => o.to \in Agents
  BY DEF QueueInv, ClaimFenced
<1>9. CASE IsKept(o, n) /\ (o.st = "CLAIMED" => FenceKept(o.to))
  BY <1>2, <1>8, <1>9, HolderKept DEF IsKept, Queue!Stay, Queue!Keep
<1>10. CASE IsClaimed(o, n) /\ o.st = "CLAIMED" /\ FenceKept(o.to)
  BY <1>2, <1>8, <1>10, HolderKept DEF IsClaimed, Queue!Stay, Queue!Keep
<1>11. CASE IsClaimed(o, n) /\ o.st = "UNDELIVERED"
  <2>1. Holder(o.to)' # <<>>
    BY <1>11 DEF IsClaimed, Holder
  <2>. QED  BY <1>11, <2>1 DEF IsClaimed, Queue!Lease, Queue!Keep
<1>. QED  BY <1>3, <1>4, <1>5, <1>6, <1>7, <1>9, <1>10, <1>11 DEF RowStep, IsClaimed

LEMMA StepRefines == QueueInv /\ [Next]_vars => [Queue!Next]_(Queue!vars)
<1> SUFFICES ASSUME QueueInv, [Next]_vars PROVE Queue!Next
  OBVIOUS
<1>1. TypeOK'
  BY StepTypeOK DEF QueueInv
<1>. QED  BY <1>1, EveryRowSteps, RowRefines DEF Queue!Next

\* The store implements the abstract queue: whoever calls, whatever lapses, a
\* message is ready, leased to its recipient's present holder, or done.
THEOREM StoreImplementsQueue == Spec => ImplementsFencedQueue
  BY InitRefines, StepRefines, QueueInvariance, PTL DEF Spec, ImplementsFencedQueue, Queue!Spec

=============================================================================
