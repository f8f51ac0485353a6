----------------------- MODULE DeliveryAdoptionProofs -----------------------
(***************************************************************************)
(* What "org adopt" relies on: the fence of a pending adoption stands until *)
(* its session registers or its deadline passes, and is then lifted; what   *)
(* the rollback gives back is the incumbent, with the secret it showed.     *)
(***************************************************************************)
EXTENDS DeliveryHistory, DeliveryStoreProofs

----------------------------------------------------------------------------
(* The inductive invariant, owner by owner: lease l, pending adoption q,    *)
(* generation g and instance i fit together.                                *)

\* An adoption's lease carries the adoption's secret.
CarriesSecret(l) == l.adoption # 0 => l.adoption = l.secret

\* The fence of the pending adoption stands.
Stands(l, q, g, i) ==
    q.id # 0 /\ l.adoption = q.id =>
        /\ i = None /\ g = q.fenced
        /\ l.phase = "arming" \/ (l.phase = "expired" /\ q.due)

\* An unclaimed adoption's lease has its adoption pending.
Accounted(l, q) == l.adoption # 0 /\ l.phase \in {"arming", "expired"} => q.id = l.adoption

\* What the sweep would restore is not the unclaimed lease of an adoption.
Restorable(l) == l.adoption # 0 => l.phase \notin {"arming", "expired"}

Sound(l, q, g, i) ==
    /\ Stands(l, q, g, i) /\ Accounted(l, q)
    /\ CarriesSecret(l) /\ CarriesSecret(q.back.lease) /\ Restorable(q.back.lease)

SoundOwner(a) == Sound(lease[a], pending[a], gen[a], inst[a])

AdoptionInv == TypeOK /\ \A a \in Owners : SoundOwner(a)

SweptOwner(a) == Sound(SweptLease[a], SweptPending[a], SweptGen[a], SweptInst[a])

----------------------------------------------------------------------------
(* Facts about single owners *)

LEMMA BlankSound ==
  ASSUME NEW g, NEW i
  PROVE  Sound(NoLease, NoPending, g, i)
  BY DEF Sound, Stands, Accounted, CarriesSecret, Restorable, NoLease, NoPending

\* The sweep drops the lease together with the adoption that armed it.
LEMMA SweepSound ==
  ASSUME AdoptionInv, NEW a \in Owners
  PROVE  SweptOwner(a)
<1> DEFINE l == lease[a]
           q == pending[a]
<1>1. a \in Agents /\ TypeOK /\ Sound(l, q, gen[a], inst[a])
  BY ConstantsOK DEF AdoptionInv, SoundOwner
<1>2. CASE ~Failed(a)
  BY <1>1, <1>2 DEF SweptOwner, SweptLease, SweptPending, SweptGen, SweptInst
<1>3. CASE Failed(a) /\ OwnLease(a)
  <2>1. SweptPending[a] = NoPending /\ SweptLease[a] \in {q.back.lease, NoLease}
    BY <1>1, <1>3 DEF SweptPending, SweptLease
  <2>. QED  BY <1>1, <2>1 DEF SweptOwner, Sound, Stands, Accounted, CarriesSecret,
                              Restorable, NoLease, NoPending
<1>4. CASE Failed(a) /\ ~OwnLease(a)
  <2>1. SweptPending[a] = NoPending /\ SweptLease[a] = l
    BY <1>1, <1>4 DEF SweptPending, SweptLease
  <2>2. ~(l.adoption # 0 /\ l.phase \in {"arming", "expired"})
    BY <1>1, <1>4 DEF Sound, Accounted, CarriesSecret, Failed, OwnLease
  <2>. QED  BY <1>1, <2>1, <2>2 DEF SweptOwner, Sound, Stands, Accounted, CarriesSecret,
                                    Restorable, NoLease, NoPending
<1>. QED  BY <1>2, <1>3, <1>4

----------------------------------------------------------------------------
(* Steps.  Each leaves all owners but one as they were, or swept.           *)

AsItWas(b) == UNCHANGED <<lease[b], pending[b], gen[b], inst[b]>>
JustSwept(b) ==
    /\ lease'[b] = SweptLease[b] /\ pending'[b] = SweptPending[b]
    /\ gen'[b] = SweptGen[b] /\ inst'[b] = SweptInst[b]

LEMMA Undisturbed ==
  ASSUME AdoptionInv, NEW b \in Owners, AsItWas(b) \/ JustSwept(b)
  PROVE  SoundOwner(b)'
  BY SweepSound DEF AdoptionInv, SoundOwner, SweptOwner, AsItWas, JustSwept

\* A registration retires the adoption it completes, and leaves no unclaimed
\* lease behind.
LEMMA RegisterSound ==
  ASSUME AdoptionInv, NEW a \in Owners, NEW i \in Instances, NEW s \in Nat,
         RegisterInstance(a, i, s), NEW b \in Owners
  PROVE  SoundOwner(b)'
<1> DEFINE l == SweptLease[a]
           q == SweptPending[a]
<1>1. a \in Agents /\ b \in Agents /\ TypeOK
  BY ConstantsOK DEF AdoptionInv
<1>2. CASE b # a
  BY <1>1, <1>2, SweptTypes, Undisturbed DEF RegisterInstance, JustSwept
<1>3. CASE b = a
  <2>1. l \in ObserverLease /\ SweptOwner(a)
    BY <1>1, SweptTypes, SweepSound
  <2>2. CASE Fences(l)
    <3>1. /\ lease'[a] = [l EXCEPT !.phase = "active"]
          /\ pending'[a] = IF Completes(l, q) THEN NoPending ELSE q
      BY <1>1, <2>2, SweptTypes DEF RegisterInstance
    <3>2. /\ lease'[a].phase = "active" /\ lease'[a].adoption = l.adoption
          /\ lease'[a].secret = l.secret
      BY <2>1, <3>1 DEF ObserverLease
    <3>3. Completes(l, q) \/ q.id = 0 \/ l.adoption # q.id
      BY DEF Completes
    <3>. QED  BY <1>3, <2>1, <3>1, <3>2, <3>3 DEF SoundOwner, SweptOwner, Sound, Stands,
                 Accounted, CarriesSecret, Restorable, NoPending, NoLease
  <2>3. CASE ~Fences(l)
    <3>1. lease'[a] = NoLease /\ pending'[a] = q
      BY <1>1, <2>3, SweptTypes DEF RegisterInstance
    <3>. QED  BY <1>3, <2>1, <3>1 DEF SoundOwner, SweptOwner, Sound, Stands, Accounted,
                 CarriesSecret, Restorable, NoLease
  <2>. QED  BY <2>2, <2>3
<1>. QED  BY <1>2, <1>3

\* The holder's poll: while a fence stands nobody is the holder.
LEMMA PollSound ==
  ASSUME AdoptionInv, NEW a \in Owners, NEW g \in Nat, NEW i \in Instances,
         PollStale(a, g, i) \/ PollCurrent(a, g, i), NEW b \in Owners
  PROVE  SoundOwner(b)'
<1> DEFINE l == SweptLease[a]
           q == SweptPending[a]
<1>1. a \in Agents /\ b \in Agents /\ TypeOK /\ i # None
  BY ConstantsOK DEF AdoptionInv
<1>2. CASE PollStale(a, g, i)
  BY <1>1, <1>2, Undisturbed DEF PollStale, SweepOwners, JustSwept
<1>3. CASE PollCurrent(a, g, i) /\ b # a
  BY <1>1, <1>3, SweptTypes, Undisturbed DEF PollCurrent, JustSwept
<1>4. CASE PollCurrent(a, g, i) /\ b = a
  <2>1. CASE l.phase # "stale"
    BY <1>1, <1>4, <2>1, SweptTypes, Undisturbed DEF PollCurrent, JustSwept
  <2>2. CASE l.phase = "stale"
    <3>1. l \in ObserverLease /\ SweptOwner(a)
      BY <1>1, SweptTypes, SweepSound
    <3>2. /\ lease'[a] = [l EXCEPT !.phase = "active"]
          /\ pending'[a] = q /\ gen'[a] = SweptGen[a] /\ inst'[a] = SweptInst[a]
      BY <1>1, <1>4, <2>2, SweptTypes DEF PollCurrent
    <3>3. /\ lease'[a].phase = "active" /\ lease'[a].adoption = l.adoption
          /\ lease'[a].secret = l.secret
      BY <3>1, <3>2 DEF ObserverLease
    <3>4. SweptInst[a] # None
      BY <1>1, <1>4 DEF PollCurrent, IsCurrent
    <3>. QED  BY <1>4, <2>2, <3>1, <3>2, <3>3, <3>4 DEF SoundOwner, SweptOwner, Sound,
                 Stands, Accounted, CarriesSecret, Restorable
  <2>. QED  BY <2>1, <2>2
<1>. QED  BY <1>2, <1>3, <1>4

\* An adoption arms a lease with its own secret; what it displaces or inherits
\* is nobody's unclaimed lease.
LEMMA AdoptSound ==
  ASSUME AdoptionInv, NEW a \in Owners, NEW policy, NEW force,
         Adopt(a, policy, force), NEW b \in Owners
  PROVE  SoundOwner(b)'
<1> DEFINE n == minted[a] + 1
           g == SweptGen[a] + 1
<1>1. a \in Agents /\ b \in Agents /\ TypeOK
  BY ConstantsOK DEF AdoptionInv
<1>2. CASE b # a
  BY <1>1, <1>2, SweptTypes, Undisturbed DEF Adopt, JustSwept
<1>3. CASE b = a
  <2>1. /\ lease'[a] = [secret |-> n, phase |-> "arming", adoption |-> n]
        /\ pending'[a] = [id |-> n, due |-> FALSE, fenced |-> g, back |-> Rollback(a)]
        /\ gen'[a] = g /\ inst'[a] = None
    BY <1>1, SweptTypes DEF Adopt
  <2>2. SweptOwner(a)
    BY SweepSound
  <2>3. CarriesSecret(Rollback(a).lease) /\ Restorable(Rollback(a).lease)
    <3>1. CASE SweptPending[a].id = 0
      <4>1. Rollback(a).lease = SweptLease[a]
        BY <3>1 DEF Rollback, Displaced
      <4>. QED  BY <2>2, <3>1, <4>1 DEF SweptOwner, Sound, Accounted, Restorable
    <3>2. CASE SweptPending[a].id # 0
      BY <2>2, <3>2 DEF SweptOwner, Sound, Rollback
    <3>. QED  BY <3>1, <3>2
  <2>. QED  BY <1>3, <2>1, <2>3 DEF SoundOwner, Sound, Stands, Accounted, CarriesSecret
<1>. QED  BY <1>2, <1>3

\* The leases of spawns and launchers, and the reset of a closed pane.
LEMMA LeaseResetSound ==
  ASSUME AdoptionInv, NEW a \in Owners, NEW b \in Owners,
         AssertObserver(a) \/ UndoLease(a) \/ ResetDeliveryState(a)
  PROVE  SoundOwner(b)'
<1>1. a \in Agents /\ b \in Agents /\ TypeOK /\ SoundOwner(b)
  BY ConstantsOK DEF AdoptionInv
<1>2. CASE b # a
  BY <1>1, <1>2, Undisturbed
     DEF AssertObserver, UndoLease, ResetDeliveryState, AsItWas, TypeOK
<1>3. CASE b = a /\ AssertObserver(a)
  <2>1. /\ lease'[a].adoption = 0 /\ pending'[a] = pending[a]
        /\ gen'[a] = gen[a] /\ inst'[a] = inst[a]
    BY <1>1, <1>3 DEF AssertObserver, TypeOK
  <2>. QED  BY <1>1, <1>3, <2>1 DEF SoundOwner, Sound, Stands, Accounted, CarriesSecret
<1>4. CASE b = a /\ UndoLease(a)
  <2>1. /\ lease'[a] \in {lease[a], NoLease} /\ pending'[a] = pending[a]
        /\ gen'[a] = gen[a] /\ inst'[a] = inst[a]
    BY <1>1, <1>4 DEF UndoLease, TypeOK
  <2>. QED  BY <1>1, <1>4, <2>1 DEF SoundOwner, Sound, Stands, Accounted, CarriesSecret, NoLease
<1>5. CASE b = a /\ ResetDeliveryState(a)
  <2>1. lease'[a] = NoLease /\ pending'[a] = NoPending
    BY <1>1, <1>5 DEF ResetDeliveryState, TypeOK
  <2>. QED  BY <1>5, <2>1, BlankSound DEF SoundOwner
<1>. QED  BY <1>2, <1>3, <1>4, <1>5

\* Deadlines.
LEMMA ClockSound ==
  ASSUME AdoptionInv, Clock, NEW b \in Owners
  PROVE  SoundOwner(b)'
<1>1. b \in Agents /\ TypeOK /\ SoundOwner(b)
  BY ConstantsOK DEF AdoptionInv
<1>2. lease[b] \in ObserverLease /\ pending[b] \in PendingAdoption
      /\ pending[b].back \in AdoptRollback /\ pending[b].back.lease \in ObserverLease
  BY <1>1 DEF TypeOK, PendingAdoption, AdoptRollback
<1> USE DEF SoundOwner, Sound, Stands, Accounted, CarriesSecret, Restorable
<1>3. ASSUME NEW r \in Rows, ClaimLapses(r) \/ ReceiptDue(r)
      PROVE  SoundOwner(b)'
  BY <1>3, <1>1 DEF ClaimLapses, ReceiptDue, ownerVars
<1>4. ASSUME NEW a \in Agents, LeaseLapses(a)
      PROVE  SoundOwner(b)'
  <2>1. CASE a # b
    BY <1>1, <1>4, <2>1 DEF LeaseLapses, TypeOK
  <2>2. CASE a = b
    <3>1. /\ lease'[b] = [lease[b] EXCEPT !.phase = Later(lease[b].phase)]
          /\ pending'[b] = pending[b] /\ gen'[b] = gen[b] /\ inst'[b] = inst[b]
      BY <1>1, <1>4, <2>2 DEF LeaseLapses, TypeOK
    <3>2. /\ lease'[b].adoption = lease[b].adoption /\ lease'[b].secret = lease[b].secret
          /\ lease'[b].phase = Later(lease[b].phase)
      BY <1>2, <3>1 DEF ObserverLease
    <3>3. CASE lease[b].phase = "active"
      <4>1. lease'[b].phase = "stale"
        BY <3>2, <3>3 DEF Later
      <4>. QED  BY <1>1, <3>1, <3>2, <3>3, <4>1
    <3>4. CASE lease[b].phase = "arming"
      <4>1. lease'[b].phase = "expired"
        BY <3>2, <3>4 DEF Later
      <4>. QED  BY <1>1, <1>4, <2>2, <3>1, <3>2, <3>4, <4>1 DEF LeaseLapses
    <3>. QED  BY <1>4, <2>2, <3>3, <3>4 DEF LeaseLapses
  <2>. QED  BY <2>1, <2>2
<1>5. ASSUME NEW a \in Agents, SavedLeaseLapses(a)
      PROVE  SoundOwner(b)'
  <2> DEFINE l == pending[b].back.lease
             m == pending'[b].back.lease
  <2>1. CASE a # b
    BY <1>1, <1>5, <2>1 DEF SavedLeaseLapses, TypeOK
  <2>2. CASE a = b
    <3>1. /\ pending'[b] = [pending[b] EXCEPT !.back =
                 [pending[b].back EXCEPT !.lease = [l EXCEPT !.phase = Later(l.phase)]]]
          /\ lease'[b] = lease[b] /\ gen'[b] = gen[b] /\ inst'[b] = inst[b]
      BY <1>1, <1>5, <2>2 DEF SavedLeaseLapses, TypeOK
    <3>2. /\ pending'[b].id = pending[b].id /\ pending'[b].due = pending[b].due
          /\ pending'[b].fenced = pending[b].fenced
          /\ m.adoption = l.adoption /\ m.secret = l.secret /\ m.phase = Later(l.phase)
      BY <1>2, <3>1 DEF PendingAdoption, AdoptRollback, ObserverLease
    <3>3. l.phase = "active" => m.phase = "stale"
      BY <3>2 DEF Later
    <3>4. l.phase = "arming" => l.adoption = 0
      BY <1>1
    <3>. QED  BY <1>1, <1>5, <2>2, <3>1, <3>2, <3>3, <3>4 DEF SavedLeaseLapses
  <2>. QED  BY <2>1, <2>2
<1>6. ASSUME NEW a \in Agents, AdoptionDue(a)
      PROVE  SoundOwner(b)'
  <2>1. \/ pending'[b] = pending[b]
        \/ pending'[b] = [pending[b] EXCEPT !.due = TRUE]
    BY <1>1, <1>6 DEF AdoptionDue, TypeOK
  <2>2. /\ pending'[b].id = pending[b].id /\ pending'[b].fenced = pending[b].fenced
        /\ pending'[b].back = pending[b].back /\ (pending[b].due => pending'[b].due)
    BY <1>2, <2>1 DEF PendingAdoption
  <2>3. UNCHANGED <<lease, gen, inst>>
    BY <1>6 DEF AdoptionDue
  <2>. QED  BY <1>1, <2>2, <2>3
<1>. QED  BY <1>3, <1>4, <1>5, <1>6 DEF Clock

----------------------------------------------------------------------------

LEMMA InitAdoptionInv == Init => AdoptionInv
  BY InitTypeOK, BlankSound, ConstantsOK DEF Init, AdoptionInv, SoundOwner

LEMMA StepAdoptionInv == AdoptionInv /\ [Next]_vars => AdoptionInv'
<1> SUFFICES ASSUME AdoptionInv, [Next]_vars PROVE AdoptionInv'
  OBVIOUS
<1>1. TypeOK'
  BY StepTypeOK DEF AdoptionInv
<1>2. ASSUME NEW b \in Owners
      PROVE  SoundOwner(b)'
  <2>0. b \in Agents
    BY ConstantsOK
  <2>1. CASE Messages \/ Sweep
    BY <2>0, <2>1, Undisturbed DEF Messages, Sweep, Enqueue, Drain, SweepOwners, JustSwept
  <2>2. ASSUME NEW a \in Agents, Session(a)
        PROVE  SoundOwner(b)'
    BY <2>2, Undisturbed DEF Session, IssueToken, Initialize, CloseLastSession, ownerVars, AsItWas
  <2>3. ASSUME NEW a \in Owners, Register(a) \/ Deliver(a)
        PROVE  SoundOwner(b)'
    <3>1. ASSUME NEW i \in Instances, NEW s \in 0..minted[a], RegisterInstance(a, i, s)
          PROVE  SoundOwner(b)'
      BY <3>1, RegisterSound
    <3>2. ASSUME NEW g \in 0..MaxGen, NEW i \in Instances,
                 PollStale(a, g, i) \/ PollCurrent(a, g, i)
          PROVE  SoundOwner(b)'
      BY <3>2, ConstantsOK, PollSound
    <3>3. ASSUME NEW r \in Rows, NEW e \in 0..MaxEpoch, NEW g \in 0..MaxGen,
                 NEW i \in Instances,
                 \/ ConfirmElsewhere(a, r) \/ ConfirmStaleSidecar(a, r, g, i)
                 \/ ConfirmStaleEpoch(a, r, e, g, i) \/ ConfirmDelivered(a, r, e, g, i)
          PROVE  SoundOwner(b)'
      BY <3>3, Undisturbed DEF ConfirmElsewhere, ConfirmStaleSidecar, ConfirmStaleEpoch,
         ConfirmDelivered, ConfirmWith, ownerVars, AsItWas
    <3>. QED  BY <2>3, <3>1, <3>2, <3>3 DEF Register, Deliver
  <2>4. ASSUME NEW a \in Owners, Control(a)
        PROVE  SoundOwner(b)'
    <3>1. ASSUME NEW m, FlipMode(a, m)
          PROVE  SoundOwner(b)'
      BY <3>1, Undisturbed DEF FlipMode, AsItWas
    <3>. QED  BY <2>4, <3>1, AdoptSound DEF Control
  <2>5. ASSUME NEW a \in Owners, SpawnStep(a)
        PROVE  SoundOwner(b)'
    <3>1. CASE AssertObserver(a) \/ UndoLease(a)
      BY <3>1, LeaseResetSound
    <3>2. CASE ~(AssertObserver(a) \/ UndoLease(a))
      BY <2>5, <3>2, Undisturbed DEF SpawnStep, RegisterLogicalPane, IssueDeliveryCred,
         MintUnobserved, RegisterPane, SpawnFails, UndoToken, UndoCred, ownerVars, AsItWas
    <3>. QED  BY <3>1, <3>2
  <2>6. ASSUME NEW a \in Owners, CleanupPane(a)
        PROVE  SoundOwner(b)'
    <3>1. CASE ResetDeliveryState(a)
      BY <3>1, LeaseResetSound
    <3>2. CASE ~ResetDeliveryState(a)
      BY <2>6, <3>2, Undisturbed DEF CleanupPane, PopPane, RevokeDeliveryCreds,
         DiscardAgentRows, ownerVars, AsItWas
    <3>. QED  BY <3>1, <3>2
  <2>7. CASE Clock
    BY <2>7, ClockSound
  <2>8. CASE UNCHANGED vars
    BY <2>8, Undisturbed DEF vars, ownerVars, AsItWas
  <2>. QED  BY <2>1, <2>2, <2>3, <2>4, <2>5, <2>6, <2>7, <2>8 DEF Next, Others
<1>. QED  BY <1>1, <1>2 DEF AdoptionInv

LEMMA AdoptionInvariance == Spec => []AdoptionInv
  BY InitAdoptionInv, StepAdoptionInv, PTL DEF Spec

\* Between adopt_delivery and the registration of the adopting session nobody is
\* the holder, and the fence is one that the deadline will lift.
THEOREM AdoptionsFence == Spec => []AdoptionFence
<1>1. AdoptionInv => AdoptionFence
  BY DEF AdoptionInv, SoundOwner, Sound, Stands, AdoptionFence
<1>. QED  BY <1>1, AdoptionInvariance, PTL

\* An adoption that failed, was superseded or was reset has taken its lease with
\* it: no sidecar is locked out by a secret whose session will never come.
THEOREM FencesAreNotOrphaned == Spec => []NoOrphanedFence
<1>1. AdoptionInv => NoOrphanedFence
  BY DEF AdoptionInv, SoundOwner, Sound, Accounted, NoOrphanedFence
<1>. QED  BY <1>1, AdoptionInvariance, PTL

-----------------------------------------------------------------------------
(* The histories.  First, what the adoption is to give back is known.        *)

\* The incumbent is the holder, or the one the pending adoptions displaced.
Remembered(a) ==
    /\ inst[a] # None => incumbent[a] = [generation |-> gen[a], instance |-> inst[a]]
    /\ inst[a] = None /\ pending[a].id = 0 => incumbent[a] = NoIncumbent

\* The pending adoption's fence is all there is: its lease stands, no spawn is under way, and
\* no pane can take the owner down.
Undivided(a) ==
    /\ lease[a].adoption = pending[a].id
    /\ spawn[a].pc = "idle" /\ bind[a].live
    /\ pane[a].token = 0 \/ pane[a].away

Promised(a) ==
    pending[a].id # 0 /\ ~raced[a] =>
        /\ Undivided(a)
        /\ incumbent[a] # NoIncumbent =>
              /\ pending[a].back.instance = incumbent[a].instance
              /\ pending[a].back.generation = incumbent[a].generation

PromiseInv == AdoptionInv /\ \A a \in Owners : Remembered(a) /\ Promised(a) /\ pending[a].id <= minted[a]


\* Every step is a step of the store, or the registration of one with its secret recorded.
LEMMA HistoryIsStore ==
    ASSUME AdoptionInv, [HistoryNext]_<<vars, historyVars>>
    PROVE  AdoptionInv'
<1>1. [Next]_vars
  <2>1. ASSUME NEW a \in Owners, RegisterWithProof(a) PROVE Register(a)
    BY <2>1 DEF RegisterWithProof, Register
  <2>. QED  BY <2>1 DEF HistoryNext, Next
<1>. QED  BY <1>1, StepAdoptionInv

\* An adoption that goes on is the one it was, and if nothing else touched its owner nothing does now.
Continues(a) ==
    /\ pending'[a].id = pending[a].id
    /\ pending'[a].back.instance = pending[a].back.instance
    /\ pending'[a].back.generation = pending[a].back.generation
    /\ Undivided(a) => Undivided(a)'

LEMMA PromiseKept ==
    ASSUME NEW a \in Owners, AdoptionInv', Promised(a), Remember, Continues(a)
    PROVE  Promised(a)'
<1> SUFFICES ASSUME pending'[a].id # 0, ~raced'[a]
             PROVE  /\ Undivided(a)'
                    /\ incumbent'[a] # NoIncumbent =>
                          /\ pending'[a].back.instance = incumbent'[a].instance
                          /\ pending'[a].back.generation = incumbent'[a].generation
  BY DEF Promised
<1>0. a \in Agents  BY ConstantsOK
<1>1. ~raced[a]  BY <1>0 DEF Remember
<1>2. Undivided(a)'  BY <1>1 DEF Continues, Promised
<1>3. inst'[a] = None
  BY <1>2 DEF AdoptionInv, SoundOwner, Sound, Stands, Undivided
<1>4. incumbent'[a] = incumbent[a]  BY <1>0, <1>3 DEF Remember, Ousted, Continues
<1>. QED  BY <1>1, <1>2, <1>4 DEF Promised, Continues

\* Owners a step leaves alone, or only sweeps.
LEMMA SweptContinues ==
    ASSUME TypeOK, NEW a \in Owners, pending'[a] = SweptPending[a], lease'[a] = SweptLease[a],
           bind'[a] = SweptBind[a], pane'[a] = SweptPane[a], spawn'[a] = spawn[a]
    PROVE  pending'[a].id = 0 \/ Continues(a)
<1>0. a \in Agents  BY ConstantsOK
<1>1. CASE Failed(a)  BY <1>0, <1>1 DEF SweptPending, NoPending
<1>2. CASE ~Failed(a)
  BY <1>0, <1>2 DEF SweptPending, SweptLease, SweptBind, SweptPane, Continues, Undivided
<1>. QED  BY <1>1, <1>2

LEMMA IdleContinues ==
    ASSUME NEW a \in Owners, pending'[a] = pending[a], lease'[a] = lease[a],
           bind'[a].live = bind[a].live, pane'[a] = pane[a], spawn'[a] = spawn[a]
    PROVE  Continues(a)
  BY DEF Continues, Undivided

LEMMA RegisterContinues ==
    ASSUME AdoptionInv, NEW a \in Owners, NEW i, NEW s, RegisterInstance(a, i, s), NEW b \in Owners,
           pending[b].id # 0 => Undivided(b)
    PROVE  pending'[b].id = 0 \/ Continues(b)
<1>0. a \in Agents /\ b \in Agents /\ TypeOK  BY ConstantsOK DEF AdoptionInv
<1>1. CASE b # a
  BY <1>0, <1>1, SweptTypes, SweptContinues DEF RegisterInstance
<1>2. CASE b = a /\ Failed(a)
  <2>1. SweptPending[a].id = 0  BY <1>0, <1>2 DEF SweptPending, NoPending
  <2>. QED  BY <1>0, <1>2, <2>1, SweptTypes DEF RegisterInstance, NoPending
<1>3. CASE b = a /\ ~Failed(a) /\ pending[a].id # 0
  <2>1. lease[a].adoption = pending[a].id  BY <1>2, <1>3 DEF Undivided
  <2>2. lease[a].phase = "arming"  BY <1>3, <2>1 DEF AdoptionInv, SoundOwner, Sound, Stands, Failed
  <2>3. SweptLease[a] = lease[a] /\ SweptPending[a] = pending[a]
    BY <1>0, <1>3 DEF SweptLease, SweptPending
  <2>4. pending'[a] = NoPending
    BY <1>0, <1>3, <2>1, <2>2, <2>3, SweptTypes DEF RegisterInstance, Fences, Completes
  <2>. QED  BY <1>3, <2>4 DEF NoPending
<1>4. CASE b = a /\ pending[a].id = 0
  <2>1. SweptPending[a] = pending[a]  BY <1>0, <1>4 DEF SweptPending, Failed
  <2>. QED  BY <1>0, <1>4, <2>1, SweptTypes DEF RegisterInstance, NoPending
<1>. QED  BY <1>1, <1>2, <1>3, <1>4

LEMMA PollContinues ==
    ASSUME TypeOK, NEW a \in Owners, NEW g, NEW i, PollStale(a, g, i) \/ PollCurrent(a, g, i), NEW b \in Owners
    PROVE  pending'[b].id = 0 \/ Continues(b)
<1>0. a \in Agents /\ b \in Agents  BY ConstantsOK
<1>1. pending' = SweptPending /\ bind' = SweptBind /\ pane' = SweptPane /\ spawn' = spawn
  BY DEF PollStale, PollCurrent, SweepOwners
<1>2. lease'[b] = SweptLease[b] \/ lease'[b] = [SweptLease[b] EXCEPT !.phase = "active"]
  BY <1>0, SweptTypes DEF PollStale, PollCurrent, SweepOwners
<1>3. lease'[b].adoption = SweptLease[b].adoption
  BY <1>0, <1>2, SweptTypes DEF ObserverLease
<1>4. CASE Failed(b)  BY <1>0, <1>1, <1>4 DEF SweptPending, NoPending
<1>5. CASE ~Failed(b)
  BY <1>0, <1>1, <1>3, <1>5 DEF SweptPending, SweptLease, SweptBind, SweptPane, Continues, Undivided
<1>. QED  BY <1>4, <1>5

\* A spawn or a closed pane ends an adoption's owner only after taking it apart.
LEMMA SessionContinues ==
    ASSUME TypeOK, NEW a \in Agents, Session(a), NEW b \in Owners
    PROVE  Continues(b)
<1>0. b \in Agents  BY ConstantsOK
<1>1. pending' = pending /\ lease' = lease /\ pane' = pane
  BY DEF Session, IssueToken, Initialize, CloseLastSession, ownerVars
<1>2. CASE IssueToken(a)
  <2>1. a # b => spawn'[b] = spawn[b] /\ bind'[b] = bind[b]  BY <1>0, <1>2 DEF IssueToken, TypeOK
  <2>2. a = b => ~Undivided(b)  BY <1>2 DEF IssueToken, Undivided
  <2>. QED  BY <1>1, <2>1, <2>2 DEF Continues, Undivided
<1>3. CASE Initialize(a) \/ CloseLastSession(a)
  <2>1. spawn' = spawn /\ bind'[b].live = bind[b].live
    BY <1>0, <1>3 DEF Initialize, CloseLastSession, TypeOK, AgentBind
  <2>. QED  BY <1>1, <2>1 DEF Continues, Undivided
<1>. QED  BY <1>2, <1>3 DEF Session

LEMMA SpawnContinues ==
    ASSUME TypeOK, NEW a \in Owners, SpawnStep(a), NEW b \in Owners
    PROVE  Continues(b)
<1>0. a \in Agents /\ b \in Agents  BY ConstantsOK
<1>1. pending' = pending
  BY DEF SpawnStep, RegisterLogicalPane, IssueDeliveryCred, AssertObserver, MintUnobserved, RegisterPane,
         SpawnFails, UndoToken, UndoCred, UndoLease, ownerVars
<1>2. CASE a = b
  <2>1. spawn[a].pc # "idle"
    BY DEF SpawnStep, RegisterLogicalPane, IssueDeliveryCred, AssertObserver, MintUnobserved, RegisterPane,
           SpawnFails, UndoToken, UndoCred, UndoLease
  <2>. QED  BY <1>1, <1>2, <2>1 DEF Continues, Undivided
<1>3. CASE a # b
  <2>1. lease'[b] = lease[b] /\ bind'[b] = bind[b] /\ pane'[b] = pane[b] /\ spawn'[b] = spawn[b]
    BY <1>0, <1>3 DEF SpawnStep, SpawnAt, RegisterLogicalPane, IssueDeliveryCred, AssertObserver, MintUnobserved,
           RegisterPane, SpawnFails, UndoToken, UndoCred, UndoLease, ownerVars, TypeOK
  <2>. QED  BY <1>1, <2>1, IdleContinues
<1>. QED  BY <1>2, <1>3

LEMMA CleanupContinues ==
    ASSUME TypeOK, NEW a \in Owners, CleanupPane(a), NEW b \in Owners
    PROVE  pending'[b].id = 0 \/ Continues(b)
<1>0. a \in Agents /\ b \in Agents  BY ConstantsOK
<1>1. CASE a # b
  BY <1>0, <1>1, IdleContinues DEF CleanupPane, PopPane, RevokeDeliveryCreds, ResetDeliveryState, DiscardAgentRows,
     ownerVars, TypeOK
<1>2. CASE a = b /\ PopPane(a)
  <2>1. pending' = pending /\ lease' = lease /\ spawn' = spawn /\ pane'[a] = NoPane
    BY <1>0, <1>2 DEF PopPane, ownerVars, TypeOK
  <2>2. Undivided(a) => bind'[a] = bind[a]  BY <1>0, <1>2 DEF PopPane, Undivided, TypeOK
  <2>. QED  BY <1>2, <2>1, <2>2 DEF Continues, Undivided, NoPane
<1>3. CASE a = b /\ ResetDeliveryState(a)
  BY <1>0, <1>3 DEF ResetDeliveryState, NoPending, TypeOK
<1>4. CASE RevokeDeliveryCreds(a) \/ DiscardAgentRows(a)
  BY <1>4, IdleContinues DEF RevokeDeliveryCreds, DiscardAgentRows, ownerVars
<1>. QED  BY <1>1, <1>2, <1>3, <1>4 DEF CleanupPane

LEMMA ClockContinues ==
    ASSUME TypeOK, Clock, NEW b \in Owners
    PROVE  Continues(b)
<1>0. b \in Agents  BY ConstantsOK
<1>1. spawn' = spawn /\ bind' = bind /\ pane' = pane
  BY DEF Clock, ClaimLapses, ReceiptDue, LeaseLapses, SavedLeaseLapses, AdoptionDue, bindVars
<1>2. lease'[b].adoption = lease[b].adoption
  <2>1. lease' = lease \/ \E a \in Agents : LeaseLapses(a)
    BY DEF Clock, ClaimLapses, ReceiptDue, SavedLeaseLapses, AdoptionDue, ownerVars
  <2>2. ASSUME NEW a \in Agents, LeaseLapses(a) PROVE lease'[b].adoption = lease[b].adoption
    BY <1>0, <2>2 DEF LeaseLapses, TypeOK, ObserverLease
  <2>. QED  BY <2>1, <2>2
<1> DEFINE Goes == /\ pending'[b].id = pending[b].id
                   /\ pending'[b].back.instance = pending[b].back.instance
                   /\ pending'[b].back.generation = pending[b].back.generation
<1>3. Goes
  <2>0. pending[b] \in PendingAdoption /\ pending[b].back \in AdoptRollback  BY <1>0 DEF TypeOK, PendingAdoption
  <2>1. pending' = pending \/ \E a \in Agents : SavedLeaseLapses(a) \/ AdoptionDue(a)
    BY DEF Clock, ClaimLapses, ReceiptDue, LeaseLapses, ownerVars
  <2>2. ASSUME NEW a \in Agents, SavedLeaseLapses(a), a = b PROVE Goes
    BY <1>0, <2>0, <2>2 DEF SavedLeaseLapses, TypeOK, PendingAdoption, AdoptRollback
  <2>3. ASSUME NEW a \in Agents, AdoptionDue(a), a = b PROVE Goes
    BY <1>0, <2>0, <2>3 DEF AdoptionDue, TypeOK, PendingAdoption
  <2>4. ASSUME NEW a \in Agents, SavedLeaseLapses(a) \/ AdoptionDue(a), a # b PROVE pending'[b] = pending[b]
    BY <1>0, <2>4 DEF SavedLeaseLapses, AdoptionDue, TypeOK
  <2>. QED  BY <2>1, <2>2, <2>3, <2>4
<1>. QED  BY <1>1, <1>2, <1>3 DEF Continues, Undivided

\* An adoption begins: it displaces the incumbent, or inherits what the one before displaced.
LEMMA AdoptPromises ==
    ASSUME PromiseInv, NEW a \in Owners, NEW policy, NEW force, Adopt(a, policy, force), Remember
    PROVE  Promised(a)'
<1> DEFINE n == minted[a] + 1
<1>0. a \in Agents /\ TypeOK /\ SoundOwner(a) /\ Remembered(a) /\ Promised(a) /\ pending[a].id <= minted[a]
      /\ minted[a] \in Nat /\ pending[a].id \in Nat
  BY ConstantsOK DEF PromiseInv, AdoptionInv, TypeOK, PendingAdoption
<1>1. /\ pending'[a] = [id |-> n, due |-> FALSE, fenced |-> SweptGen[a] + 1, back |-> Rollback(a)]
      /\ lease'[a].adoption = n /\ inst'[a] = None /\ spawn' = spawn
  BY <1>0, SweptTypes DEF Adopt
<1>2. n # 0 /\ n # pending[a].id  BY <1>0
<1>3. bind'[a].live /\ (pane'[a].token = 0 \/ pane'[a].away)
  <2>1. bind[a].live /\ SweptBind[a] \in AgentBind /\ SweptPane[a] \in PaneMeta
    BY <1>0, SweptTypes DEF Adopt
  <2>2. SweptBind[a].live = bind[a].live
    BY <1>0 DEF SweptBind, TypeOK, AgentBind
  <2>3. /\ bind'[a] = [SweptBind[a] EXCEPT !.token = n, !.open = FALSE]
        /\ pane'[a] = [SweptPane[a] EXCEPT !.away = SweptPane[a].away \/ SweptPane[a].token # 0]
    BY <1>0, SweptTypes DEF Adopt
  <2>4. bind'[a].live = SweptBind[a].live  BY <2>1, <2>3 DEF AgentBind
  <2>5. pane'[a].token = SweptPane[a].token /\ (pane'[a].away <=> SweptPane[a].away \/ SweptPane[a].token # 0)
    BY <2>1, <2>3 DEF PaneMeta
  <2>. QED  BY <2>1, <2>2, <2>4, <2>5
<1> SUFFICES ASSUME ~raced'[a]
             PROVE  /\ Undivided(a)'
                    /\ incumbent'[a] # NoIncumbent =>
                          /\ Rollback(a).instance = incumbent'[a].instance
                          /\ Rollback(a).generation = incumbent'[a].generation
  BY <1>1 DEF Promised
<1>4. ~raced[a] /\ spawn[a].pc = "idle"  BY <1>0, <1>1, <1>2 DEF Remember
<1>5. Undivided(a)'  BY <1>1, <1>3, <1>4 DEF Undivided
<1>6. incumbent'[a] = IF Failed(a) /\ PaneGone(a) THEN NoIncumbent ELSE incumbent[a]
  BY <1>0, <1>1, <1>2 DEF Remember, Ousted
<1>7. CASE pending[a].id = 0
  <2>1. SweptPending[a].id = 0 /\ SweptGen[a] = gen[a] /\ SweptInst[a] = inst[a] /\ ~Failed(a)
    BY <1>0, <1>7 DEF SweptPending, SweptGen, SweptInst, Failed
  <2>2. Rollback(a).instance = inst[a] /\ Rollback(a).generation = gen[a]
    BY <2>1 DEF Rollback, Displaced
  <2>. QED  BY <1>0, <1>5, <1>6, <1>7, <2>1, <2>2 DEF Remembered
<1>8. CASE pending[a].id # 0 /\ ~Failed(a)
  <2>1. SweptPending[a] = pending[a]  BY <1>0, <1>8 DEF SweptPending
  <2>. QED  BY <1>0, <1>4, <1>5, <1>6, <1>8, <2>1 DEF Promised, Rollback
<1>9. CASE pending[a].id # 0 /\ Failed(a)
  <2>1. FenceIntact(a)
    BY <1>0, <1>4, <1>9 DEF Promised, Undivided, SoundOwner, Sound, Stands, FenceIntact
  <2>2. SweptPending[a].id = 0 /\ SweptGen[a] = pending[a].back.generation
        /\ (~PaneGone(a) => SweptInst[a] = pending[a].back.instance)
    BY <1>0, <1>9, <2>1 DEF SweptPending, SweptGen, SweptInst, NoPending
  <2>3. Rollback(a).generation = pending[a].back.generation
        /\ (~PaneGone(a) => Rollback(a).instance = pending[a].back.instance)
    BY <2>2 DEF Rollback, Displaced
  <2>. QED  BY <1>0, <1>4, <1>5, <1>6, <1>9, <2>3 DEF Promised
<1>. QED  BY <1>7, <1>8, <1>9

\* Another owner's adoption only sweeps this one's.
LEMMA AdoptContinues ==
    ASSUME TypeOK, NEW a \in Owners, NEW policy, NEW force, Adopt(a, policy, force), NEW b \in Owners, a # b
    PROVE  pending'[b].id = 0 \/ Continues(b)
<1>1. a \in Agents /\ b \in Agents  BY ConstantsOK
<1>2. /\ pending'[b] = SweptPending[b] /\ lease'[b] = SweptLease[b] /\ bind'[b] = SweptBind[b]
      /\ pane'[b] = SweptPane[b] /\ spawn' = spawn
  BY <1>1, SweptTypes DEF Adopt
<1>. QED  BY <1>2, SweptContinues

LEMMA StepContinues ==
    ASSUME AdoptionInv, Next, NEW b \in Owners, pending[b].id # 0 => Undivided(b)
    PROVE  \/ pending'[b].id = 0 \/ Continues(b)
           \/ \E policy, force : Adopt(b, policy, force)
<1>0. TypeOK  BY DEF AdoptionInv
<1>1. CASE Messages \/ Sweep
  BY <1>0, <1>1, SweptContinues DEF Messages, Sweep, Enqueue, Drain, SweepOwners
<1>2. ASSUME NEW a \in Agents, Session(a) PROVE Continues(b)  BY <1>0, <1>2, SessionContinues
<1>3. ASSUME NEW a \in Owners, Register(a) PROVE pending'[b].id = 0 \/ Continues(b)
  BY <1>3, RegisterContinues DEF Register
<1>4. ASSUME NEW a \in Owners, Deliver(a) PROVE pending'[b].id = 0 \/ Continues(b)
  <2>1. ASSUME NEW r \in Rows, NEW e \in 0..MaxEpoch, NEW g \in 0..MaxGen, NEW i \in Instances,
               \/ ConfirmElsewhere(a, r) \/ ConfirmStaleSidecar(a, r, g, i)
               \/ ConfirmStaleEpoch(a, r, e, g, i) \/ ConfirmDelivered(a, r, e, g, i)
        PROVE  Continues(b)
    BY <2>1, IdleContinues DEF ConfirmElsewhere, ConfirmStaleSidecar, ConfirmStaleEpoch, ConfirmDelivered,
       ConfirmWith, ownerVars, bindVars
  <2>. QED  BY <1>0, <1>4, <2>1, PollContinues DEF Deliver
<1>5. ASSUME NEW a \in Owners, Control(a)
      PROVE  pending'[b].id = 0 \/ Continues(b) \/ \E policy, force : Adopt(b, policy, force)
  <2>1. ASSUME NEW m, FlipMode(a, m) PROVE Continues(b)
    BY <2>1, IdleContinues DEF FlipMode, bindVars
  <2>2. ASSUME NEW policy, NEW force, Adopt(a, policy, force)
        PROVE  pending'[b].id = 0 \/ Continues(b) \/ a = b
    BY <1>0, <2>2, AdoptContinues
  <2>. QED  BY <1>5, <2>1, <2>2 DEF Control
<1>6. ASSUME NEW a \in Owners, SpawnStep(a) \/ CleanupPane(a) PROVE pending'[b].id = 0 \/ Continues(b)
  BY <1>0, <1>6, SpawnContinues, CleanupContinues
<1>7. CASE Clock  BY <1>0, <1>7, ClockContinues
<1>. QED  BY <1>1, <1>2, <1>3, <1>4, <1>5, <1>6, <1>7 DEF Next, Others

LEMMA StepRemembered ==
    ASSUME Remember, NEW b \in Owners
    PROVE  Remembered(b)'
<1>1. b \in Agents  BY ConstantsOK
<1>. QED  BY <1>1 DEF Remember, Remembered

\* The numbers of adoptions are minted.
LEMMA StepMinted ==
    ASSUME TypeOK, Next, NEW b \in Owners, pending[b].id <= minted[b]
    PROVE  pending'[b].id <= minted'[b]
<1>0. b \in Agents  BY ConstantsOK
<1>1. minted[b] \in Nat /\ pending[b].id \in Nat  BY <1>0 DEF TypeOK, PendingAdoption
<1>2. SweptPending[b].id \in {0, pending[b].id}  BY <1>0 DEF SweptPending, NoPending
<1> DEFINE Counts == minted'[b] \in {minted[b], minted[b] + 1} /\ pending'[b].id \in {0, pending[b].id}
<1>3. ASSUME NEW a \in Owners, NEW policy, NEW force, Adopt(a, policy, force)
      PROVE  Counts \/ (pending'[b].id = minted[b] + 1 /\ minted'[b] = minted[b] + 1)
  <2>1. a \in Agents  BY ConstantsOK
  <2>2. \/ a = b /\ pending'[b].id = minted[b] + 1 /\ minted'[b] = minted[b] + 1
        \/ a # b /\ pending'[b].id = SweptPending[b].id /\ minted'[b] = minted[b]
    BY <1>0, <1>3, <2>1, SweptTypes DEF Adopt, Mint, TypeOK
  <2>. QED  BY <1>2, <2>2
<1>4. ASSUME NEW m \in {"PUSH", "PULL"}, NEW a \in Owners, FlipMode(a, m) PROVE Counts
  BY <1>4 DEF FlipMode, bindVars
<1>5. CASE Messages \/ Sweep
  <2>. Counts  BY <1>2, <1>5 DEF Messages, Enqueue, Drain, Sweep, SweepOwners
  <2>. QED  BY <1>1
<1>6. ASSUME NEW a \in Owners, Register(a) \/ Deliver(a) PROVE Counts
  <2>1. ASSUME NEW i, NEW s, RegisterInstance(a, i, s) PROVE Counts
    <3>1. pending'[b] \in {SweptPending[b], NoPending} /\ minted' = minted
      BY <1>0, <2>1, SweptTypes DEF RegisterInstance
    <3>. QED  BY <1>2, <3>1 DEF NoPending
  <2>2. ASSUME NEW g, NEW i, PollStale(a, g, i) \/ PollCurrent(a, g, i) PROVE Counts
    BY <1>2, <2>2 DEF PollStale, PollCurrent, SweepOwners
  <2>3. ASSUME NEW r, NEW e, NEW g, NEW i,
               \/ ConfirmElsewhere(a, r) \/ ConfirmStaleSidecar(a, r, g, i)
               \/ ConfirmStaleEpoch(a, r, e, g, i) \/ ConfirmDelivered(a, r, e, g, i)
        PROVE  Counts
    BY <2>3 DEF ConfirmElsewhere, ConfirmStaleSidecar, ConfirmStaleEpoch, ConfirmDelivered, ConfirmWith, ownerVars,
       bindVars
  <2> HIDE DEF Counts
  <2>. QED  BY <1>6, <2>1, <2>2, <2>3 DEF Register, Deliver
<1>7. ASSUME NEW a \in Agents, Session(a) PROVE Counts
  <2>1. pending'[b].id = pending[b].id  BY <1>7, SessionContinues DEF Continues
  <2>2. minted'[b] \in {minted[b], minted[b] + 1}
    BY <1>0, <1>7 DEF Session, IssueToken, Initialize, CloseLastSession, Mint, TypeOK
  <2>. QED  BY <2>1, <2>2
<1>8. ASSUME NEW a \in Owners, SpawnStep(a) PROVE Counts
  <2>1. pending'[b].id = pending[b].id  BY <1>8, SpawnContinues DEF Continues
  <2>2. minted'[b] \in {minted[b], minted[b] + 1}
    BY <1>0, <1>8, ConstantsOK DEF SpawnStep, RegisterLogicalPane, IssueDeliveryCred, AssertObserver, MintUnobserved,
       RegisterPane, SpawnFails, UndoToken, UndoCred, UndoLease, Mint, TypeOK
  <2>. QED  BY <2>1, <2>2
<1>9. ASSUME NEW a \in Owners, CleanupPane(a) PROVE Counts
  BY <1>0, <1>9 DEF CleanupPane, PopPane, RevokeDeliveryCreds, ResetDeliveryState, DiscardAgentRows, ownerVars,
     NoPending, TypeOK
<1>10. CASE Clock
  <2>1. pending'[b].id = pending[b].id  BY <1>10, ClockContinues DEF Continues
  <2>2. minted' = minted
    BY <1>10 DEF Clock, ClaimLapses, ReceiptDue, LeaseLapses, SavedLeaseLapses, AdoptionDue, bindVars
  <2>. QED  BY <1>1, <2>1, <2>2
<1>11. Counts => pending'[b].id <= minted'[b]  BY <1>1
<1>. QED
  BY <1>1, <1>3, <1>4, <1>5, <1>6, <1>7, <1>8, <1>9, <1>10, <1>11 DEF Next, Others, Control

LEMMA StepPromise ==
    ASSUME PromiseInv, [HistoryNext]_<<vars, historyVars>>
    PROVE  PromiseInv'
<1>1. AdoptionInv' /\ AdoptionInv /\ TypeOK  BY HistoryIsStore DEF PromiseInv, AdoptionInv
<1>2. CASE UNCHANGED <<vars, historyVars>>
  <2>1. UNCHANGED <<pending, lease, inst, gen, spawn, bind, pane, minted, incumbent, raced>>
    BY <1>2 DEF vars, historyVars, ownerVars, bindVars
  <2>. QED  BY <1>1, <2>1 DEF PromiseInv, Remembered, Promised, Undivided
<1>3. CASE HistoryNext
  <2>1. Remember /\ Next  BY <1>3 DEF HistoryNext, RegisterWithProof, Register, Next
  <2>2. ASSUME NEW b \in Owners PROVE Promised(b)'
    <3>0. b \in Agents /\ Promised(b)  BY ConstantsOK DEF PromiseInv
    <3>1. CASE raced[b] /\ pending[b].id # 0
      <4>1. pending'[b].id = 0 \/ raced'[b]  BY <2>1, <3>0, <3>1 DEF Remember
      <4>. QED  BY <4>1 DEF Promised
    <3>2. CASE ~(raced[b] /\ pending[b].id # 0)
      <4>1. pending[b].id # 0 => Undivided(b)  BY <3>0, <3>2 DEF Promised
      <4>2. CASE pending'[b].id = 0  BY <4>2 DEF Promised
      <4>3. CASE Continues(b)  BY <1>1, <2>1, <3>0, <4>3, PromiseKept
      <4>4. CASE \E policy, force : Adopt(b, policy, force)  BY <2>1, <4>4, AdoptPromises
      <4>. QED  BY <1>1, <2>1, <4>1, <4>2, <4>3, <4>4, StepContinues
    <3>. QED  BY <3>1, <3>2
  <2>3. ASSUME NEW b \in Owners PROVE Remembered(b)' /\ pending'[b].id <= minted'[b]
    BY <1>1, <2>1, StepRemembered, StepMinted DEF PromiseInv
  <2>. QED  BY <1>1, <2>2, <2>3 DEF PromiseInv
<1>. QED  BY <1>2, <1>3

LEMMA InitPromise == HistoryInit => PromiseInv
<1> SUFFICES ASSUME HistoryInit PROVE PromiseInv  OBVIOUS
<1>1. AdoptionInv  BY InitAdoptionInv DEF HistoryInit
<1>2. ASSUME NEW b \in Owners PROVE Remembered(b) /\ Promised(b) /\ pending[b].id <= minted[b]
  <2>1. b \in Agents  BY ConstantsOK
  <2>2. pending[b].id = 0 /\ minted[b] = 0 /\ inst[b] = None /\ incumbent[b] = NoIncumbent
    BY <2>1 DEF HistoryInit, Init, NoPending
  <2>. QED  BY <2>2 DEF Remembered, Promised
<1>. QED  BY <1>1, <1>2 DEF PromiseInv

\* AdoptRestoresIncumbent: an adoption displaces the incumbent or inherits what the one before
\* it displaced, and while its fence stands there is no other holder.
THEOREM AdoptionsGiveBack == HistorySpec => []AdoptRestoresIncumbent
<1>1. PromiseInv => AdoptRestoresIncumbent  BY DEF PromiseInv, Promised, AdoptRestoresIncumbent
<1>. QED  BY <1>1, InitPromise, StepPromise, PTL DEF HistorySpec

-----------------------------------------------------------------------------
(* The secret of a lease is known to the holder it has now and will have     *)
(* again.  Owner by owner: proofs p, lease l, pending adoption q,            *)
(* generation g and instance i.                                              *)

Knows(p, l, g, i) ==
    i # None => /\ g \in 1..MaxGen
                /\ l.phase \in {"active", "stale"} => p[g] = l.secret

\* What is to be restored was known then, under an older generation; and while nobody has
\* registered behind the fence no lease has been taken.
Recoverable(p, l, q, g, i) ==
    q.id # 0 => /\ Knows(p, q.back.lease, q.back.generation, q.back.instance)
                /\ q.back.generation < q.fenced /\ q.fenced <= g
                /\ i = None /\ g = q.fenced => l.phase \notin {"active", "stale"}

Known(p, l, q, g, i) == Knows(p, l, g, i) /\ Recoverable(p, l, q, g, i)

KnownOwner(a) == Known(proof[a], lease[a], pending[a], gen[a], inst[a])

SecretInv ==
    /\ TypeOK
    /\ proof \in [Agents -> [1..MaxGen -> Nat]]
    /\ \A a \in Owners : KnownOwner(a)

LEMMA SweptKnown ==
    ASSUME SecretInv, NEW a \in Owners
    PROVE  Known(proof[a], SweptLease[a], SweptPending[a], SweptGen[a], SweptInst[a])
<1> DEFINE l == lease[a]
           q == pending[a]
<1>1. a \in Agents /\ Known(proof[a], l, q, gen[a], inst[a])  BY ConstantsOK DEF SecretInv, KnownOwner
<1>2. CASE ~Failed(a)
  BY <1>1, <1>2 DEF SweptLease, SweptPending, SweptGen, SweptInst
<1>3. CASE Failed(a)
  <2>1. SweptPending[a].id = 0  BY <1>1, <1>3 DEF SweptPending, NoPending
  <2>2. CASE ~FenceIntact(a)
    <3>1. SweptGen[a] = gen[a] /\ SweptInst[a] = inst[a] /\ SweptLease[a] \in {l, NoLease}
      BY <1>1, <2>2 DEF SweptGen, SweptInst, SweptLease
    <3>. QED  BY <1>1, <2>1, <3>1 DEF Known, Knows, Recoverable, NoLease
  <2>3. CASE FenceIntact(a) /\ PaneGone(a)
    <3>1. SweptInst[a] = None  BY <1>1, <2>3 DEF SweptInst, FenceIntact
    <3>. QED  BY <2>1, <3>1 DEF Known, Knows, Recoverable
  <2>4. CASE FenceIntact(a) /\ ~PaneGone(a)
    <3>1. SweptGen[a] = q.back.generation /\ SweptInst[a] = q.back.instance
      BY <1>1, <1>3, <2>4 DEF SweptGen, SweptInst
    <3>2. SweptLease[a] = q.back.lease \/ SweptLease[a] = l
      BY <1>1, <1>3, <2>4 DEF SweptLease
    <3>. QED
      BY <1>1, <1>3, <2>1, <2>4, <3>1, <3>2 DEF Known, Knows, Recoverable, FenceIntact, Failed
  <2>. QED  BY <2>2, <2>3, <2>4
<1>. QED  BY <1>2, <1>3

LEMMA Unaffected ==
    ASSUME SecretInv, NEW b \in Owners, AsItWas(b) \/ JustSwept(b), proof'[b] = proof[b]
    PROVE  KnownOwner(b)'
  BY SweptKnown DEF SecretInv, KnownOwner, AsItWas, JustSwept

\* Who registers has shown the secret of the lease it takes, under a generation of its own.
LEMMA RegisterKnown ==
    ASSUME SecretInv, NEW a \in Owners, RegisterWithProof(a), NEW b \in Owners
    PROVE  KnownOwner(b)'
<1>0. /\ a \in Agents /\ b \in Agents /\ TypeOK /\ proof \in [Agents -> [1..MaxGen -> Nat]] /\ MaxGen \in Nat
  BY ConstantsOK DEF SecretInv
<1>1. PICK i \in Instances, s \in 0..minted[a] :
         /\ RegisterInstance(a, i, s)
         /\ proof' = [proof EXCEPT ![a][gen'[a]] = IF Fences(SweptLease[a]) THEN s ELSE 0]
  BY DEF RegisterWithProof
<1>2. CASE b # a
  BY <1>0, <1>1, <1>2, SweptTypes, Unaffected DEF RegisterInstance, JustSwept
<1>3. CASE b = a
  <2> DEFINE l == SweptLease[a]
             q == SweptPending[a]
             g == SweptGen[a] + 1
  <2>0. l \in ObserverLease /\ SweptGen[a] \in Nat  BY <1>0, SweptTypes
  <2>1. /\ gen'[a] = g /\ inst'[a] = i /\ i # None /\ SweptGen[a] < MaxGen /\ Admits(l, s)
        /\ lease'[a] = IF Fences(l) THEN [l EXCEPT !.phase = "active"] ELSE NoLease
        /\ pending'[a] = NoPending \/ pending'[a] = q
    BY <1>0, <1>1, SweptTypes, ConstantsOK DEF RegisterInstance
  <2>2. g \in 1..MaxGen  BY <1>0, <2>0, <2>1
  <2>3. proof'[a] = [proof[a] EXCEPT ![g] = IF Fences(l) THEN s ELSE 0]
    BY <1>0, <1>1, <2>1
  <2>4. lease'[a].phase \in {"active", "stale"} => proof'[a][g] = lease'[a].secret
    <3>1. CASE Fences(l)
      BY <1>0, <2>0, <2>1, <2>2, <2>3, <3>1 DEF Admits, ObserverLease
    <3>2. CASE ~Fences(l)  BY <2>1, <3>2 DEF NoLease
    <3>. QED  BY <3>1, <3>2
  <2>5. Known(proof[a], l, q, SweptGen[a], SweptInst[a])  BY SweptKnown
  <2>6. q \in PendingAdoption /\ q.fenced \in Nat /\ q.back \in AdoptRollback /\ q.back.generation \in Nat
    BY <1>0, SweptTypes DEF PendingAdoption, AdoptRollback
  <2>7. \A x \in 1..MaxGen : x # g => proof'[a][x] = proof[a][x]  BY <1>0, <2>3
  <2>8. CASE pending'[a] = NoPending
    BY <1>3, <2>1, <2>2, <2>4, <2>8 DEF KnownOwner, Known, Knows, Recoverable, NoPending
  <2>9. CASE pending'[a] = q /\ q.id # 0
    <3>1. q.back.generation < q.fenced /\ q.fenced <= SweptGen[a] /\ q.back.generation # g /\ q.fenced <= g
      BY <2>0, <2>5, <2>6, <2>9 DEF Known, Recoverable
    <3>2. Knows(proof'[a], q.back.lease, q.back.generation, q.back.instance)
      BY <2>5, <2>7, <2>9, <3>1 DEF Known, Recoverable, Knows
    <3> HIDE DEF q, g
    <3>. QED
      BY <1>3, <2>1, <2>2, <2>4, <2>9, <3>1, <3>2 DEF KnownOwner, Known, Knows, Recoverable
  <2>10. CASE pending'[a] = q /\ q.id = 0
    BY <1>3, <2>1, <2>2, <2>4, <2>10 DEF KnownOwner, Known, Knows, Recoverable
  <2>. QED  BY <2>1, <2>8, <2>9, <2>10
<1>. QED  BY <1>2, <1>3

LEMMA PollKnown ==
    ASSUME SecretInv, NEW a \in Owners, NEW g, NEW i \in Instances, PollStale(a, g, i) \/ PollCurrent(a, g, i),
           UNCHANGED proof, NEW b \in Owners
    PROVE  KnownOwner(b)'
<1>0. a \in Agents /\ b \in Agents /\ TypeOK /\ i # None  BY ConstantsOK DEF SecretInv
<1>1. CASE PollStale(a, g, i)
  BY <1>0, <1>1, Unaffected DEF PollStale, SweepOwners, JustSwept
<1>2. CASE PollCurrent(a, g, i) /\ b # a
  BY <1>0, <1>2, SweptTypes, Unaffected DEF PollCurrent, JustSwept
<1>3. CASE PollCurrent(a, g, i) /\ b = a
  <2> DEFINE l == SweptLease[a]
  <2>1. l \in ObserverLease /\ SweptInst[a] # None  BY <1>0, <1>3, SweptTypes DEF PollCurrent, IsCurrent
  <2>2. /\ lease'[a] = IF l.phase = "stale" THEN [l EXCEPT !.phase = "active"] ELSE l
        /\ pending'[a] = SweptPending[a] /\ gen'[a] = SweptGen[a] /\ inst'[a] = SweptInst[a]
    BY <1>0, <1>3, SweptTypes DEF PollCurrent
  <2>3. lease'[a].secret = l.secret /\ (lease'[a].phase \in {"active", "stale"} => l.phase \in {"active", "stale"})
    BY <2>1, <2>2 DEF ObserverLease
  <2>4. Known(proof[a], l, SweptPending[a], SweptGen[a], SweptInst[a])  BY SweptKnown
  <2>. QED  BY <1>3, <2>1, <2>2, <2>3, <2>4 DEF KnownOwner, Known, Knows, Recoverable
<1>. QED  BY <1>1, <1>2, <1>3

LEMMA AdoptKnown ==
    ASSUME SecretInv, NEW a \in Owners, NEW policy, NEW force, Adopt(a, policy, force), UNCHANGED proof,
           NEW b \in Owners
    PROVE  KnownOwner(b)'
<1>0. a \in Agents /\ b \in Agents /\ TypeOK  BY ConstantsOK DEF SecretInv
<1>1. CASE b # a
  BY <1>0, <1>1, SweptTypes, Unaffected DEF Adopt, JustSwept
<1>2. CASE b = a
  <2> DEFINE n == minted[a] + 1
             g == SweptGen[a] + 1
             q == SweptPending[a]
  <2>0. /\ q \in PendingAdoption /\ q.fenced \in Nat /\ q.back \in AdoptRollback /\ q.back.generation \in Nat
        /\ SweptGen[a] \in Nat
    BY <1>0, SweptTypes DEF PendingAdoption, AdoptRollback
  <2>1. /\ lease'[a] = [secret |-> n, phase |-> "arming", adoption |-> n]
        /\ pending'[a] = [id |-> n, due |-> FALSE, fenced |-> g, back |-> Rollback(a)]
        /\ gen'[a] = g /\ inst'[a] = None
    BY <1>0, SweptTypes DEF Adopt
  <2>2. Known(proof[a], SweptLease[a], q, SweptGen[a], SweptInst[a])  BY SweptKnown
  <2>3. /\ Knows(proof[a], Rollback(a).lease, Rollback(a).generation, Rollback(a).instance)
        /\ Rollback(a).generation < g
    <3>1. CASE q.id = 0
      <4>1. /\ Rollback(a).lease = SweptLease[a] /\ Rollback(a).generation = SweptGen[a]
            /\ Rollback(a).instance = SweptInst[a]
        BY <3>1 DEF Rollback, Displaced
      <4>. QED  BY <2>0, <2>2, <4>1 DEF Known
    <3>2. CASE q.id # 0
      <4>1. Rollback(a) = q.back  BY <3>2 DEF Rollback
      <4>. QED  BY <2>0, <2>2, <3>2, <4>1 DEF Known, Recoverable
    <3>. QED  BY <3>1, <3>2
  <2>4. g <= g  BY <2>0
  <2> HIDE DEF g, n, q
  <2>. QED  BY <1>2, <2>1, <2>3, <2>4 DEF KnownOwner, Known, Knows, Recoverable
<1>. QED  BY <1>1, <1>2

LEMMA LeaseResetKnown ==
    ASSUME SecretInv, NEW a \in Owners, AssertObserver(a) \/ UndoLease(a) \/ ResetDeliveryState(a),
           UNCHANGED proof, NEW b \in Owners
    PROVE  KnownOwner(b)'
<1>0. a \in Agents /\ b \in Agents /\ TypeOK /\ KnownOwner(b)  BY ConstantsOK DEF SecretInv
<1>1. CASE b # a
  BY <1>0, <1>1, Unaffected DEF AssertObserver, UndoLease, ResetDeliveryState, AsItWas, TypeOK
<1>2. CASE b = a /\ (AssertObserver(a) \/ UndoLease(a))
  <2>1. /\ lease'[a] = lease[a] \/ lease'[a].phase \in {"armed", "arming", "none"}
        /\ pending'[a] = pending[a] /\ gen'[a] = gen[a] /\ inst'[a] = inst[a]
    BY <1>0, <1>2 DEF AssertObserver, UndoLease, NoLease, TypeOK
  <2>. QED  BY <1>0, <1>2, <2>1 DEF KnownOwner, Known, Knows, Recoverable
<1>3. CASE b = a /\ ResetDeliveryState(a)
  <2>1. pending'[a] = NoPending /\ inst'[a] = None  BY <1>0, <1>3 DEF ResetDeliveryState, TypeOK
  <2>. QED  BY <1>3, <2>1 DEF KnownOwner, Known, Knows, Recoverable, NoPending
<1>. QED  BY <1>1, <1>2, <1>3

\* A lease that lapses is still the one whose secret was shown.
LEMMA LaterIsNoTaking ==
    ASSUME NEW l \in ObserverLease, l.phase \in {"active", "arming"}, NEW m, m = [l EXCEPT !.phase = Later(l.phase)]
    PROVE  /\ m.secret = l.secret
           /\ m.phase \in {"active", "stale"} => l.phase \in {"active", "stale"}
<1>1. m.secret = l.secret /\ m.phase = Later(l.phase)  BY DEF ObserverLease
<1>2. l.phase = "arming" => Later(l.phase) = "expired"  BY DEF Later
<1>. QED  BY <1>1, <1>2

LEMMA ClockKnown ==
    ASSUME SecretInv, Clock, UNCHANGED proof, NEW b \in Owners
    PROVE  KnownOwner(b)'
<1>0. b \in Agents /\ TypeOK /\ KnownOwner(b)  BY ConstantsOK DEF SecretInv
<1>1. ASSUME NEW r \in Rows, ClaimLapses(r) \/ ReceiptDue(r) PROVE KnownOwner(b)'
  BY <1>1, Unaffected DEF ClaimLapses, ReceiptDue, ownerVars, AsItWas
<1>2. ASSUME NEW a \in Agents, LeaseLapses(a) PROVE KnownOwner(b)'
  <2>1. CASE a # b  BY <1>0, <1>2, <2>1, Unaffected DEF LeaseLapses, AsItWas, TypeOK
  <2>2. CASE a = b
    <3>1. /\ lease[b] \in ObserverLease /\ lease[b].phase \in {"active", "arming"}
          /\ lease'[b] = [lease[b] EXCEPT !.phase = Later(lease[b].phase)]
          /\ pending'[b] = pending[b] /\ gen'[b] = gen[b] /\ inst'[b] = inst[b]
      BY <1>0, <1>2, <2>2 DEF LeaseLapses, TypeOK
    <3>2. /\ lease'[b].secret = lease[b].secret
          /\ lease'[b].phase \in {"active", "stale"} => lease[b].phase \in {"active", "stale"}
      BY <3>1, LaterIsNoTaking
    <3>. QED  BY <1>0, <3>1, <3>2 DEF KnownOwner, Known, Knows, Recoverable
  <2>. QED  BY <2>1, <2>2
<1>3. ASSUME NEW a \in Agents, SavedLeaseLapses(a) PROVE KnownOwner(b)'
  <2>1. CASE a # b  BY <1>0, <1>3, <2>1, Unaffected DEF SavedLeaseLapses, AsItWas, TypeOK
  <2>2. CASE a = b
    <3> DEFINE q == pending[b]
               l == q.back.lease
               m == [l EXCEPT !.phase = Later(l.phase)]
    <3>1. l \in ObserverLease /\ q \in PendingAdoption /\ q.back \in AdoptRollback
      BY <1>0 DEF TypeOK, PendingAdoption, AdoptRollback
    <3>2. /\ l.phase \in {"active", "arming"}
          /\ pending'[b] = [q EXCEPT !.back = [q.back EXCEPT !.lease = m]]
          /\ lease'[b] = lease[b] /\ gen'[b] = gen[b] /\ inst'[b] = inst[b]
      BY <1>0, <1>3, <2>2 DEF SavedLeaseLapses, TypeOK
    <3>3. m.secret = l.secret /\ (m.phase \in {"active", "stale"} => l.phase \in {"active", "stale"})
      BY <3>1, <3>2, LaterIsNoTaking
    <3> HIDE DEF m
    <3>4. /\ pending'[b].id = q.id /\ pending'[b].fenced = q.fenced /\ pending'[b].back.lease = m
          /\ pending'[b].back.generation = q.back.generation /\ pending'[b].back.instance = q.back.instance
      BY <3>1, <3>2 DEF PendingAdoption, AdoptRollback
    <3>. QED  BY <1>0, <3>2, <3>3, <3>4 DEF KnownOwner, Known, Knows, Recoverable
  <2>. QED  BY <2>1, <2>2
<1>4. ASSUME NEW a \in Agents, AdoptionDue(a) PROVE KnownOwner(b)'
  <2>1. pending'[b] = pending[b] \/ pending'[b] = [pending[b] EXCEPT !.due = TRUE]
    BY <1>0, <1>4 DEF AdoptionDue, TypeOK
  <2>2. /\ pending'[b].id = pending[b].id /\ pending'[b].fenced = pending[b].fenced
        /\ pending'[b].back = pending[b].back
    BY <1>0, <2>1 DEF TypeOK, PendingAdoption
  <2>3. UNCHANGED <<lease, gen, inst>>  BY <1>4 DEF AdoptionDue
  <2>. QED  BY <1>0, <2>2, <2>3 DEF KnownOwner, Known, Knows, Recoverable
<1>. QED  BY <1>1, <1>2, <1>3, <1>4 DEF Clock

LEMMA OthersKnown ==
    ASSUME SecretInv, Others, UNCHANGED proof, NEW b \in Owners
    PROVE  KnownOwner(b)'
<1>0. b \in Agents  BY ConstantsOK
<1>1. CASE Messages \/ Sweep
  BY <1>0, <1>1, Unaffected DEF Messages, Sweep, Enqueue, Drain, SweepOwners, JustSwept
<1>2. ASSUME NEW a \in Agents, Session(a) PROVE KnownOwner(b)'
  BY <1>2, Unaffected DEF Session, IssueToken, Initialize, CloseLastSession, ownerVars, AsItWas
<1>3. ASSUME NEW a \in Owners, Deliver(a) PROVE KnownOwner(b)'
  <2>1. ASSUME NEW r \in Rows, NEW e \in 0..MaxEpoch, NEW g \in 0..MaxGen, NEW i \in Instances,
               \/ ConfirmElsewhere(a, r) \/ ConfirmStaleSidecar(a, r, g, i)
               \/ ConfirmStaleEpoch(a, r, e, g, i) \/ ConfirmDelivered(a, r, e, g, i)
        PROVE  KnownOwner(b)'
    BY <2>1, Unaffected DEF ConfirmElsewhere, ConfirmStaleSidecar, ConfirmStaleEpoch, ConfirmDelivered,
       ConfirmWith, ownerVars, AsItWas
  <2>. QED  BY <1>3, <2>1, PollKnown DEF Deliver
<1>4. ASSUME NEW a \in Owners, Control(a) PROVE KnownOwner(b)'
  <2>1. ASSUME NEW m, FlipMode(a, m) PROVE KnownOwner(b)'
    BY <2>1, Unaffected DEF FlipMode, AsItWas
  <2>. QED  BY <1>4, <2>1, AdoptKnown DEF Control
<1>5. ASSUME NEW a \in Owners, SpawnStep(a) PROVE KnownOwner(b)'
  <2>1. CASE ~(AssertObserver(a) \/ UndoLease(a))
    BY <1>5, <2>1, Unaffected DEF SpawnStep, RegisterLogicalPane, IssueDeliveryCred, MintUnobserved, RegisterPane,
       SpawnFails, UndoToken, UndoCred, ownerVars, AsItWas
  <2>. QED  BY <2>1, LeaseResetKnown
<1>6. ASSUME NEW a \in Owners, CleanupPane(a) PROVE KnownOwner(b)'
  <2>1. CASE ~ResetDeliveryState(a)
    BY <1>6, <2>1, Unaffected DEF CleanupPane, PopPane, RevokeDeliveryCreds, DiscardAgentRows, ownerVars, AsItWas
  <2>. QED  BY <2>1, LeaseResetKnown
<1>7. CASE Clock  BY <1>7, ClockKnown
<1>. QED  BY <1>1, <1>2, <1>3, <1>4, <1>5, <1>6, <1>7 DEF Others

LEMMA StepSecret ==
    ASSUME SecretInv, [HistoryNext]_<<vars, historyVars>>
    PROVE  SecretInv'
<1>1. CASE UNCHANGED <<vars, historyVars>>
  <2>1. TypeOK'  BY <1>1, StepTypeOK DEF SecretInv
  <2>. QED  BY <1>1, <2>1, Unaffected DEF SecretInv, vars, historyVars, ownerVars, AsItWas
<1>2. CASE Others /\ UNCHANGED proof
  <2>1. TypeOK'  BY <1>2, StepTypeOK DEF SecretInv, Next
  <2>. QED  BY <1>2, <2>1, OthersKnown DEF SecretInv
<1>3. ASSUME NEW a \in Owners, RegisterWithProof(a) PROVE SecretInv'
  <2>0. a \in Agents /\ TypeOK  BY ConstantsOK DEF SecretInv
  <2>1. PICK i \in Instances, s \in 0..minted[a] :
           /\ RegisterInstance(a, i, s)
           /\ proof' = [proof EXCEPT ![a][gen'[a]] = IF Fences(SweptLease[a]) THEN s ELSE 0]
    BY <1>3 DEF RegisterWithProof
  <2>2. Next  BY <2>1 DEF Next, Register
  <2>3. TypeOK'  BY <2>2, StepTypeOK DEF SecretInv
  <2>4. s \in Nat  BY <2>0 DEF TypeOK
  <2>5. proof' \in [Agents -> [1..MaxGen -> Nat]]  BY <2>0, <2>1, <2>4 DEF SecretInv
  <2>. QED  BY <1>3, <2>3, <2>5, RegisterKnown DEF SecretInv
<1>. QED  BY <1>1, <1>2, <1>3 DEF HistoryNext

LEMMA InitSecret == HistoryInit => SecretInv
<1> SUFFICES ASSUME HistoryInit PROVE SecretInv  OBVIOUS
<1>1. TypeOK /\ proof \in [Agents -> [1..MaxGen -> Nat]]  BY InitTypeOK DEF HistoryInit
<1>2. ASSUME NEW a \in Owners PROVE KnownOwner(a)
  <2>1. a \in Agents  BY ConstantsOK
  <2>2. pending[a].id = 0 /\ inst[a] = None  BY <2>1 DEF HistoryInit, Init, NoPending
  <2>. QED  BY <2>2 DEF KnownOwner, Known, Knows, Recoverable
<1>. QED  BY <1>1, <1>2 DEF SecretInv

\* LeaseHolderKnowsSecret: taking a lease means showing its secret, and a rollback gives the
\* lease and the generation it was shown under back together.
THEOREM HoldersKnowSecrets == HistorySpec => []LeaseHolderKnowsSecret
<1>1. SecretInv => LeaseHolderKnowsSecret
  BY DEF SecretInv, KnownOwner, Known, Knows, LeaseHolderKnowsSecret
<1>. QED  BY <1>1, InitSecret, StepSecret, PTL DEF HistorySpec

=============================================================================
