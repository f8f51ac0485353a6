--------------------------- MODULE DeliveryStore ---------------------------
(***************************************************************************)
(* The broker's message store: StoreMixin (broker/store.py), the part of   *)
(* TokenMixin (broker/tokens.py) it depends on, and the pane bookkeeping   *)
(* of Broker (broker/server.py) that owns its clean-up.                    *)
(*                                                                         *)
(* Granularity.  The daemon is a threaded HTTP server; all of this state   *)
(* is guarded by one non-reentrant lock, so ONE ACTION IS ONE LOCK SCOPE.  *)
(* Handlers that take the lock several times (_cleanup_pane) are several   *)
(* actions with a program counter; journal lines are written after the     *)
(* lock is released and are not modelled, and neither are the nudge and    *)
(* lease-watch threads started then.  The diagnostic tables (stand-downs,  *)
(* duplicate detection) influence only journal lines and are left out.     *)
(*                                                                         *)
(* Time.  A deadline is a flag ("lapsed", "due", a lease phase) that an    *)
(* environment action raises; the code compares it with the clock.         *)
(***************************************************************************)
EXTENDS Naturals

CONSTANTS
    Agents,      \* agent ids (bind.agent_id)
    Owners,      \* the agents that are given a delivery credential
    Logical,     \* the owners minted by the launcher (secretary), not spawned
    Instances,   \* instance ids of channel sidecar processes
    Rows,        \* pool of message ids; an id is used once
    None,        \* no instance / no agent
    Renotify,    \* BOOLEAN: renotify_seconds is configured
    MaxGen,      \* bound on delivery generations
    MaxEpoch,    \* bound on mode epochs
    MaxMint      \* bound on tokens and secrets minted per agent

ASSUME ConstantsOK ==
    /\ Owners \subseteq Agents /\ Logical \subseteq Owners
    /\ None \notin Agents \cup Instances
    /\ Renotify \in BOOLEAN
    /\ MaxGen \in Nat /\ MaxEpoch \in Nat /\ MaxMint \in Nat

VARIABLES
    rows,     \* _rows
    mode,     \* _delivery_modes (absent = PUSH)
    epoch,    \* _epochs (absent = 0)
    gen,      \* _delivery_generations (absent = 0)
    inst,     \* _delivery_instances (absent = None)
    lease,    \* _observer_leases
    pending,  \* _pending_adoptions
    bind,     \* the full-scope AgentBind of the agent in _binds
    cred,     \* the live delivery-scope AgentBinds of the agent in _binds
    pane,     \* the _pane_meta entry whose agent_id is the agent
    spawn,    \* the spawn_claude or admin_mint_token of the agent that runs
    cleanup,  \* what is left of a running _cleanup_pane of the agent
    minted    \* how many tokens and secrets have been generated

ownerVars == <<mode, epoch, gen, inst, lease, pending>>
bindVars  == <<bind, cred, pane, spawn, cleanup, minted>>
vars      == <<rows, ownerVars, bindVars>>

----------------------------------------------------------------------------
(* Data *)

\* QueueRow.  "FREE" is an id not handed out yet, "GONE" a deleted row.  The
\* claim fields (claim_epoch, claim_generation, lease_until) are read only
\* while the row is CLAIMED and are cleared when it is not; QueueRow.owner is
\* row.to while CLAIMED and is not read otherwise.  receipt is
\* awaiting_receipt_since: not awaited, awaited, awaited for renotify_seconds.
RowStates == {"FREE", "UNDELIVERED", "CLAIMED", "DELIVERED", "GONE"}
Receipts  == {"none", "waiting", "due"}
QueueRow  == [st : RowStates, to : Agents \cup {None}, from : Agents \cup {None},
              epoch : Nat, gen : Nat, lapsed : BOOLEAN,
              receipt : Receipts, renotified : BOOLEAN]
BlankRow  == [st |-> "FREE", to |-> None, from |-> None, epoch |-> 0, gen |-> 0,
              lapsed |-> FALSE, receipt |-> "none", renotified |-> FALSE]

\* ObserverLease.  The phases are the OBSERVER_* states, with the armed state
\* split by whether it has a deadline (arming_until): "armed" has none.
\* adoption is 0 for a lease that is not an adoption's.
Phases        == {"none", "armed", "arming", "expired", "active", "stale"}
ObserverLease == [secret : Nat, phase : Phases, adoption : Nat]
NoLease       == [secret |-> 0, phase |-> "none", adoption |-> 0]

\* AdoptRollback; hadPanes is "detached_panes is not empty".
AdoptRollback == [generation : Nat, instance : Instances \cup {None}, token : Nat,
                  hadPanes : BOOLEAN, lease : ObserverLease]

\* PendingAdoption.  One adopt mints an adoption id, a secret and a token
\* together; one number, id, stands for the three.  id = 0 is "no adoption".
PendingAdoption == [id : Nat, due : BOOLEAN, fenced : Nat, back : AdoptRollback]
NoPending == [id |-> 0, due |-> FALSE, fenced |-> 0,
              back |-> [generation |-> 0, instance |-> None, token |-> 0,
                        hadPanes |-> FALSE, lease |-> NoLease]]

\* live is ~revoked; open is "sessions is not empty".
AgentBind == [token : Nat, live : BOOLEAN, registered : BOOLEAN, open : BOOLEAN]
NoBind    == [token |-> 0, live |-> FALSE, registered |-> FALSE, open |-> FALSE]

\* A _pane_meta entry; away is its adopted_away mark.  token = 0 is "no pane".
\* Names are unique among binds and panes (issue_token(unique=True),
\* _reserve_name), so an agent has one entry at most.
PaneMeta == [token : Nat, away : BOOLEAN]
NoPane   == [token |-> 0, away |-> FALSE]

\* Locals of a spawn: where it is, and the token and secret it minted.  The
\* credential it issues carries the number of its token.
Spawn    == [pc : {"idle", "logical", "cred", "lease", "pane",
                   "undo_token", "undo_cred", "undo_lease"},
             token : Nat, secret : Nat]
NoSpawn  == [pc |-> "idle", token |-> 0, secret |-> 0]
Cleanups == {"idle", "creds", "reset", "rows"}

TypeOK ==
    /\ rows \in [Rows -> QueueRow]
    /\ mode \in [Agents -> {"PUSH", "PULL"}]
    /\ epoch \in [Agents -> Nat]
    /\ gen \in [Agents -> Nat]
    /\ inst \in [Agents -> Instances \cup {None}]
    /\ lease \in [Agents -> ObserverLease]
    /\ pending \in [Agents -> PendingAdoption]
    /\ bind \in [Agents -> AgentBind]
    /\ cred \in [Agents -> SUBSET Nat]
    /\ pane \in [Agents -> PaneMeta]
    /\ spawn \in [Agents -> Spawn]
    /\ cleanup \in [Agents -> Cleanups]
    /\ minted \in [Agents -> Nat]

Init ==
    /\ rows = [r \in Rows |-> BlankRow]
    /\ mode = [a \in Agents |-> "PUSH"]
    /\ epoch = [a \in Agents |-> 0]
    /\ gen = [a \in Agents |-> 0]
    /\ inst = [a \in Agents |-> None]
    /\ lease = [a \in Agents |-> NoLease]
    /\ pending = [a \in Agents |-> NoPending]
    /\ bind = [a \in Agents |-> NoBind]
    /\ cred = [a \in Agents |-> {}]
    /\ pane = [a \in Agents |-> NoPane]
    /\ spawn = [a \in Agents |-> NoSpawn]
    /\ cleanup = [a \in Agents |-> "idle"]
    /\ minted = [a \in Agents |-> 0]

----------------------------------------------------------------------------
(* What the row loops of the handlers do to one row *)

\* Mutant: the claim's epoch is reset to QueueRow's default, which no epoch is.
BugRequeue(row) == [row EXCEPT !.st = "UNDELIVERED", !.epoch = 0 - 1, !.gen = 0,
                               !.lapsed = FALSE]

Requeue(row) == [row EXCEPT !.st = "UNDELIVERED", !.epoch = 0, !.gen = 0,
                            !.lapsed = FALSE]

\* Mutant: the fence forgets to give the claims back and waits for their leases.
BugReleaseLater(row, a) == row

\* Mutant: the fence gives back what was delivered too.
BugReleaseAll(row, a) == IF row.st \in {"CLAIMED", "DELIVERED"} /\ row.to = a
                         THEN Requeue(row) ELSE row

\* Forced by a fence of the owner: flip, register, adopt, reset.
Release(row, a) == IF row.st = "CLAIMED" /\ row.to = a THEN Requeue(row) ELSE row

\* _reap_locked: every claim whose lease ran out goes back.
Reap(row) == IF row.st = "CLAIMED" /\ row.lapsed THEN Requeue(row) ELSE row

\* Mutant: a row that is handed out again is not marked.
BugRenotified(row) ==
    IF Renotify /\ row.receipt = "due"
    THEN [Requeue(row) EXCEPT !.receipt = "none"]
    ELSE row

\* _renotify_due_locked: delivered, no sign of receipt in time: once more, by
\* pull only.
Renotified(row) ==
    IF Renotify /\ row.receipt = "due"
    THEN [Requeue(row) EXCEPT !.receipt = "none", !.renotified = TRUE]
    ELSE row

\* Mutant: a renotified row is pushed again.
BugClaim(row, a, g) ==
    IF row.st = "UNDELIVERED" /\ row.to = a
    THEN [row EXCEPT !.st = "CLAIMED", !.epoch = epoch[a], !.gen = g]
    ELSE row

\* By the holder of generation g; a renotified row is left to pull.
Claim(row, a, g) ==
    IF row.st = "UNDELIVERED" /\ row.to = a /\ ~row.renotified
    THEN [row EXCEPT !.st = "CLAIMED", !.epoch = epoch[a], !.gen = g]
    ELSE row

----------------------------------------------------------------------------
(* _sweep_adoptions_locked: adoptions past their deadline have failed.  The *)
(* lease is dropped if it is still the adoption's; the fence is undone if   *)
(* nobody registered behind it; panes and token return to the old session.  *)

\* Mutant: a failed adoption leaves its lease in place.
BugOwnLease(a) == FALSE

Failed(a)     == pending[a].id # 0 /\ pending[a].due
OwnLease(a)   == lease[a].phase # "none" /\ lease[a].secret = pending[a].id
PaneGone(a)   == pending[a].back.hadPanes /\ ~pane[a].away
FenceIntact(a) == gen[a] = pending[a].fenced /\ inst[a] = None

SweptPending == [a \in Agents |-> IF Failed(a) THEN NoPending ELSE pending[a]]
SweptGen ==
    [a \in Agents |-> IF Failed(a) /\ FenceIntact(a)
                      THEN pending[a].back.generation ELSE gen[a]]
SweptInst ==
    [a \in Agents |-> IF Failed(a) /\ FenceIntact(a) /\ ~PaneGone(a)
                      THEN pending[a].back.instance ELSE inst[a]]
SweptLease ==
    [a \in Agents |-> IF ~(Failed(a) /\ OwnLease(a)) THEN lease[a]
                      ELSE IF FenceIntact(a) /\ ~PaneGone(a)
                      THEN pending[a].back.lease ELSE NoLease]
SweptBind ==
    [a \in Agents |-> IF Failed(a) /\ bind[a].token = pending[a].id
                      THEN [bind[a] EXCEPT !.token = pending[a].back.token, !.open = FALSE]
                      ELSE bind[a]]
SweptPane ==
    [a \in Agents |-> IF Failed(a) THEN [pane[a] EXCEPT !.away = FALSE] ELSE pane[a]]

\* What a handler leaves behind when the sweep is all it does to the owners.
SweepOwners ==
    /\ pending' = SweptPending /\ gen' = SweptGen /\ inst' = SweptInst
    /\ lease' = SweptLease /\ bind' = SweptBind /\ pane' = SweptPane

\* The sweep alone: adopt_status, and every register or adopt that is refused.
Sweep ==
    /\ \E a \in Agents : Failed(a)
    /\ SweepOwners
    /\ UNCHANGED <<rows, mode, epoch, cred, spawn, cleanup, minted>>

----------------------------------------------------------------------------
(* Pull side: enqueue and drain (send_message, check_messages) *)

\* The sweep is a lock scope of its own before these two; it touches nothing
\* they read.  A message from the recipient of a delivered row back to its
\* sender is the sign of receipt that stops the renotify clock.
Enqueue(s, t, r) ==
    /\ bind[s].live /\ bind[s].open
    /\ bind[t].live /\ bind[t].registered
    /\ rows[r].st = "FREE"
    /\ rows' = [q \in Rows |->
          IF q = r THEN [BlankRow EXCEPT !.st = "UNDELIVERED", !.to = t, !.from = s]
          ELSE IF rows[q].to = s /\ rows[q].from = t
          THEN [rows[q] EXCEPT !.receipt = "none"] ELSE rows[q]]
    /\ SweepOwners
    /\ UNCHANGED <<mode, epoch, cred, spawn, cleanup, minted>>

Drain(a) ==
    /\ bind[a].live /\ bind[a].open
    /\ rows' = [r \in Rows |->
          LET row == Renotified(Reap(rows[r]))
          IN IF row.st = "UNDELIVERED" /\ row.to = a
             THEN [row EXCEPT !.st = "DELIVERED"] ELSE row]
    /\ SweepOwners
    /\ UNCHANGED <<mode, epoch, cred, spawn, cleanup, minted>>

----------------------------------------------------------------------------
(* Push side: register, poll and confirm, called by channel sidecars that   *)
(* hold a delivery credential                                               *)

\* Mutant: the registration the adoption waited for does not retire it.
BugCompletes(l, q) == FALSE

\* The lease by which a registration completes the pending adoption q.
Completes(l, q) == l.adoption # 0 /\ l.adoption = q.id

\* A lease in any phase but these two refuses whoever lacks its secret.
Fences(l) == l.phase \notin {"none", "expired"}

\* Mutant: a lease whose holder has gone quiet keeps nobody out.
BugAdmits(l, s) == Fences(l) /\ l.phase # "stale" => s = l.secret

Admits(l, s) == Fences(l) => s = l.secret

\* A sidecar instance i presenting secret s (0: none) becomes the holder.
RegisterInstance(a, i, s) ==
    LET l == SweptLease[a]
    IN /\ cred[a] # {}
       /\ Admits(l, s)
       /\ SweptGen[a] < MaxGen
       /\ gen' = [SweptGen EXCEPT ![a] = @ + 1]
       /\ inst' = [SweptInst EXCEPT ![a] = i]
       /\ lease' = [SweptLease EXCEPT
                      ![a] = IF Fences(l) THEN [l EXCEPT !.phase = "active"] ELSE NoLease]
       /\ pending' = [SweptPending EXCEPT
                      ![a] = IF Fences(l) /\ Completes(l, @) THEN NoPending ELSE @]
       /\ rows' = [r \in Rows |-> IF rows[r].gen # SweptGen[a] + 1
                                  THEN Release(rows[r], a) ELSE rows[r]]
       /\ bind' = SweptBind /\ pane' = SweptPane
       /\ UNCHANGED <<mode, epoch, cred, spawn, cleanup, minted>>

IsCurrent(a, g, i) == SweptGen[a] # 0 /\ g = SweptGen[a] /\ i = SweptInst[a]

\* Not the current (generation, instance): stale_sidecar.
PollStale(a, g, i) ==
    /\ cred[a] # {}
    /\ ~IsCurrent(a, g, i)
    /\ rows' = [r \in Rows |-> Renotified(rows[r])]
    /\ SweepOwners
    /\ UNCHANGED <<mode, epoch, cred, spawn, cleanup, minted>>

\* The holder's poll renews its lease, and claims all that is waiting for the
\* owner if the owner takes pushes and its session is registered.
PollCurrent(a, g, i) ==
    LET l == SweptLease[a]
    IN /\ cred[a] # {}
       /\ IsCurrent(a, g, i)
       /\ lease' = [SweptLease EXCEPT
                      ![a] = IF l.phase = "stale" THEN [l EXCEPT !.phase = "active"] ELSE l]
       /\ rows' = [r \in Rows |->
             IF mode[a] = "PUSH" /\ bind[a].live /\ bind[a].registered
             THEN Claim(Reap(Renotified(rows[r])), a, g)
             ELSE Renotified(rows[r])]
       /\ pending' = SweptPending /\ gen' = SweptGen /\ inst' = SweptInst
       /\ bind' = SweptBind /\ pane' = SweptPane
       /\ UNCHANGED <<mode, epoch, cred, spawn, cleanup, minted>>

\* confirm_delivered(r) of a claim made under epoch e and generation g.  Every
\* outcome reaps first; the refusals give the row back only if it is still
\* held under the very claim that is being confirmed.
HolderConfirms(a, g, i) == gen[a] # 0 /\ g = gen[a] /\ i = inst[a]

ConfirmWith(r, row) ==
    /\ rows' = [q \in Rows |-> IF q = r THEN row ELSE Reap(rows[q])]
    /\ UNCHANGED <<ownerVars, bindVars>>

\* No such row, or another owner's.
ConfirmElsewhere(a, r) ==
    /\ cred[a] # {} /\ rows[r].to # a
    /\ ConfirmWith(r, Reap(rows[r]))

ConfirmStaleSidecar(a, r, g, i) ==
    LET row == Reap(rows[r])
    IN /\ cred[a] # {} /\ row.to = a
       /\ ~HolderConfirms(a, g, i)
       /\ ConfirmWith(r, IF g # gen[a] /\ row.st = "CLAIMED" /\ row.gen = g
                         THEN Requeue(row) ELSE row)

ConfirmStaleEpoch(a, r, e, g, i) ==
    LET row == Reap(rows[r])
    IN /\ cred[a] # {} /\ row.to = a
       /\ HolderConfirms(a, g, i)
       /\ e # epoch[a]
       /\ ConfirmWith(r, IF row.st = "CLAIMED" /\ row.epoch = e
                         THEN Requeue(row) ELSE row)

\* Delivered, and from now on a sign of receipt is awaited.  A row that is
\* DELIVERED already (idempotent) or no longer claimed is left as it is.
ConfirmDelivered(a, r, e, g, i) ==
    LET row == Reap(rows[r])
    IN /\ cred[a] # {} /\ row.to = a
       /\ HolderConfirms(a, g, i)
       /\ e = epoch[a]
       /\ ConfirmWith(r, IF row.st = "CLAIMED" /\ row.epoch = e /\ row.gen = g
                         THEN [row EXCEPT !.st = "DELIVERED", !.epoch = 0, !.gen = 0,
                                          !.receipt = "waiting"]
                         ELSE row)

----------------------------------------------------------------------------
(* Control surface *)

FlipMode(a, m) ==
    /\ m # mode[a]
    /\ epoch[a] < MaxEpoch
    /\ mode' = [mode EXCEPT ![a] = m]
    /\ epoch' = [epoch EXCEPT ![a] = @ + 1]
    /\ rows' = [r \in Rows |-> Release(rows[r], a)]
    /\ UNCHANGED <<gen, inst, lease, pending, bindVars>>

Mint(a) == minted[a] < MaxMint /\ minted' = [minted EXCEPT ![a] = @ + 1]

\* adopt_delivery: fence the owner's sidecar now, for a session that has yet to
\* register.  What the fence displaced is remembered; an adoption forced over
\* another one inherits what the first displaced.
Displaced(a) == [generation |-> SweptGen[a], instance |-> SweptInst[a],
                 token |-> SweptBind[a].token,
                 hadPanes |-> SweptPane[a].token # 0 /\ ~SweptPane[a].away,
                 lease |-> SweptLease[a]]
\* Mutant: an adoption forced over another remembers the other's fence.
BugRollback(a) == Displaced(a)

Rollback(a) == IF SweptPending[a].id = 0 THEN Displaced(a) ELSE SweptPending[a].back

Adopt(a, policy, force) ==
    LET n == minted[a] + 1
        g == SweptGen[a] + 1
    IN /\ bind[a].live /\ cred[a] # {}
       /\ SweptPending[a].id = 0 \/ force
       /\ SweptGen[a] < MaxGen
       /\ Mint(a)
       /\ pane' = [SweptPane EXCEPT ![a].away = @ \/ SweptPane[a].token # 0]
       /\ lease' = [SweptLease EXCEPT
                      ![a] = [secret |-> n, phase |-> "arming", adoption |-> n]]
       /\ gen' = [SweptGen EXCEPT ![a] = g]
       /\ inst' = [SweptInst EXCEPT ![a] = None]
       /\ rows' = [r \in Rows |->
             IF rows[r].st = "CLAIMED" /\ rows[r].to = a /\ policy = "drop"
             THEN [Requeue(rows[r]) EXCEPT !.st = "DELIVERED"]
             ELSE Release(rows[r], a)]
       /\ bind' = [SweptBind EXCEPT ![a].token = n, ![a].open = FALSE]
       /\ pending' = [SweptPending EXCEPT
                        ![a] = [id |-> n, due |-> FALSE, fenced |-> g, back |-> Rollback(a)]]
       /\ UNCHANGED <<mode, epoch, cred, spawn, cleanup>>

----------------------------------------------------------------------------
(* Sessions: spawn_claude, admin_mint_token, initialize, DELETE *)

SpawnAt(a, pc) == spawn' = [spawn EXCEPT ![a].pc = pc]

\* issue_token(unique=True), after _reserve_name found no pane of that name.
\* An agent without a channel (codex, a plain mint) is complete with it.
IssueToken(a) ==
    /\ ~bind[a].live /\ pane[a].token = 0 /\ spawn[a].pc = "idle"
    /\ Mint(a)
    /\ bind' = [bind EXCEPT
                  ![a] = [NoBind EXCEPT !.token = minted[a] + 1, !.live = TRUE]]
    /\ spawn' = [spawn EXCEPT ![a] =
          [pc |-> IF a \in Logical THEN "logical" ELSE IF a \in Owners THEN "cred" ELSE "idle",
           token |-> minted[a] + 1, secret |-> 0]]
    /\ UNCHANGED <<rows, ownerVars, cred, pane, cleanup>>

\* register_logical_pane: the human-driven root session has a pane entry too.
RegisterLogicalPane(a) ==
    /\ spawn[a].pc = "logical"
    /\ pane' = [pane EXCEPT ![a] = [token |-> spawn[a].token, away |-> FALSE]]
    /\ SpawnAt(a, "cred")
    /\ UNCHANGED <<rows, ownerVars, bind, cred, cleanup, minted>>

IssueDeliveryCred(a) ==
    /\ spawn[a].pc = "cred"
    /\ cred' = [cred EXCEPT ![a] = @ \cup {spawn[a].token}]
    /\ SpawnAt(a, "lease")
    /\ UNCHANGED <<rows, ownerVars, bind, pane, cleanup, minted>>

\* assert_observer: rotate the lease, with a deadline for a spawn and without
\* one for a launcher.
AssertObserver(a) ==
    /\ spawn[a].pc = "lease"
    /\ Mint(a)
    /\ lease' = [lease EXCEPT ![a] =
          [secret |-> minted[a] + 1, adoption |-> 0,
           phase |-> IF a \in Logical THEN "armed" ELSE "arming"]]
    /\ spawn' = [spawn EXCEPT ![a].secret = minted[a] + 1,
                             ![a].pc = IF a \in Logical THEN "idle" ELSE "pane"]
    /\ UNCHANGED <<rows, mode, epoch, gen, inst, pending, bind, cred, pane, cleanup>>

\* A launcher that does not ask for an observer lease.
MintUnobserved(a) ==
    /\ a \in Logical /\ spawn[a].pc = "lease"
    /\ SpawnAt(a, "idle")
    /\ UNCHANGED <<rows, ownerVars, bind, cred, pane, cleanup, minted>>

\* bind_pane and _register_pane once the terminal has started the pane.  If an
\* adoption has rekeyed the token meanwhile, bind_pane raises and the spawn
\* ends there, outside its undo.
RegisterPane(a) ==
    /\ spawn[a].pc = "pane"
    /\ pane' = IF bind[a].token = spawn[a].token
               THEN [pane EXCEPT ![a] = [token |-> spawn[a].token, away |-> FALSE]]
               ELSE pane
    /\ SpawnAt(a, "idle")
    /\ UNCHANGED <<rows, ownerVars, bind, cred, cleanup, minted>>

\* The terminal did not start the pane: _revoke_token twice, clear_observer.
SpawnFails(a) ==
    /\ spawn[a].pc = "pane"
    /\ SpawnAt(a, "undo_token")
    /\ UNCHANGED <<rows, ownerVars, bind, cred, pane, cleanup, minted>>

UndoToken(a) ==
    /\ spawn[a].pc = "undo_token"
    /\ bind' = [bind EXCEPT ![a].live = @ /\ bind[a].token # spawn[a].token]
    /\ SpawnAt(a, "undo_cred")
    /\ UNCHANGED <<rows, ownerVars, cred, pane, cleanup, minted>>

UndoCred(a) ==
    /\ spawn[a].pc = "undo_cred"
    /\ cred' = [cred EXCEPT ![a] = @ \ {spawn[a].token}]
    /\ SpawnAt(a, "undo_lease")
    /\ UNCHANGED <<rows, ownerVars, bind, pane, cleanup, minted>>

\* clear_observer takes back its own lease only.
UndoLease(a) ==
    /\ spawn[a].pc = "undo_lease"
    /\ lease' = [lease EXCEPT ![a] = IF @.secret = spawn[a].secret THEN NoLease ELSE @]
    /\ SpawnAt(a, "idle")
    /\ UNCHANGED <<rows, mode, epoch, gen, inst, pending, bind, cred, pane, cleanup, minted>>

\* initialize opens an MCP session; a DELETE of the last one deregisters.  The
\* first and the last are told apart, not how many are open.
Initialize(a) ==
    /\ bind[a].live /\ ~bind[a].open
    /\ bind' = [bind EXCEPT ![a].registered = TRUE, ![a].open = TRUE]
    /\ UNCHANGED <<rows, ownerVars, cred, pane, spawn, cleanup, minted>>

CloseLastSession(a) ==
    /\ bind[a].live /\ bind[a].open
    /\ bind' = [bind EXCEPT ![a].registered = FALSE, ![a].open = FALSE]
    /\ UNCHANGED <<rows, ownerVars, cred, pane, spawn, cleanup, minted>>

----------------------------------------------------------------------------
(* Panes *)

\* _cleanup_pane: four lock scopes.  A pane that was adopted away takes only its
\* entry with it; the others end the owner's session and its delivery state.
PopPane(a) ==
    /\ a \notin Logical
    /\ pane[a].token # 0 /\ cleanup[a] = "idle"
    /\ pane' = [pane EXCEPT ![a] = NoPane]
    /\ bind' = [bind EXCEPT ![a] =
          IF @.token = pane[a].token /\ ~pane[a].away
          THEN [@ EXCEPT !.live = FALSE, !.registered = FALSE] ELSE @]
    /\ cleanup' = [cleanup EXCEPT ![a] = IF pane[a].away THEN @ ELSE "creds"]
    /\ UNCHANGED <<rows, ownerVars, cred, spawn, minted>>

RevokeDeliveryCreds(a) ==
    /\ cleanup[a] = "creds"
    /\ cleanup' = [cleanup EXCEPT ![a] = "reset"]
    /\ cred' = [cred EXCEPT ![a] = {}]
    /\ UNCHANGED <<rows, ownerVars, bind, pane, spawn, minted>>

\* reset_delivery_state
ResetDeliveryState(a) ==
    /\ cleanup[a] = "reset"
    /\ cleanup' = [cleanup EXCEPT ![a] = "rows"]
    /\ mode' = [mode EXCEPT ![a] = "PUSH"]
    /\ epoch' = [epoch EXCEPT ![a] = 0]
    /\ gen' = [gen EXCEPT ![a] = 0]
    /\ inst' = [inst EXCEPT ![a] = None]
    /\ lease' = [lease EXCEPT ![a] = NoLease]
    /\ pending' = [pending EXCEPT ![a] = NoPending]
    /\ rows' = [r \in Rows |-> Release(rows[r], a)]
    /\ UNCHANGED <<bind, cred, pane, spawn, minted>>

\* discard_agent_rows
DiscardAgentRows(a) ==
    /\ cleanup[a] = "rows"
    /\ cleanup' = [cleanup EXCEPT ![a] = "idle"]
    /\ rows' = [r \in Rows |-> IF rows[r].to = a
                               THEN [BlankRow EXCEPT !.st = "GONE"] ELSE rows[r]]
    /\ UNCHANGED <<ownerVars, bind, cred, pane, spawn, minted>>

----------------------------------------------------------------------------
(* The clock passes a deadline *)

Later(phase) == CASE phase = "active" -> "stale" [] phase = "arming" -> "expired"

ClaimLapses(r) ==
    /\ rows[r].st = "CLAIMED" /\ ~rows[r].lapsed
    /\ rows' = [rows EXCEPT ![r].lapsed = TRUE]
    /\ UNCHANGED <<ownerVars, bindVars>>

ReceiptDue(r) ==
    /\ Renotify /\ rows[r].receipt = "waiting"
    /\ rows' = [rows EXCEPT ![r].receipt = "due"]
    /\ UNCHANGED <<ownerVars, bindVars>>

\* An adoption's lease is armed after the adoption's own deadline is computed,
\* from the same clock: it is never the first of the two to pass.
LeaseLapses(a) ==
    /\ lease[a].phase \in {"active", "arming"}
    /\ (lease[a].phase = "arming" /\ lease[a].adoption # 0
          /\ lease[a].adoption = pending[a].id) => pending[a].due
    /\ lease' = [lease EXCEPT ![a].phase = Later(@)]
    /\ UNCHANGED <<rows, mode, epoch, gen, inst, pending, bindVars>>

\* The lease an adoption displaced goes on ageing.
SavedLeaseLapses(a) ==
    /\ pending[a].back.lease.phase \in {"active", "arming"}
    /\ pending' = [pending EXCEPT ![a].back.lease.phase = Later(@)]
    /\ UNCHANGED <<rows, mode, epoch, gen, inst, lease, bindVars>>

AdoptionDue(a) ==
    /\ pending[a].id # 0 /\ ~pending[a].due
    /\ pending' = [pending EXCEPT ![a].due = TRUE]
    /\ UNCHANGED <<rows, mode, epoch, gen, inst, lease, bindVars>>

----------------------------------------------------------------------------

Messages ==
    \/ \E s, t \in Agents, r \in Rows : Enqueue(s, t, r)
    \/ \E a \in Agents : Drain(a)

Register(a) == \E i \in Instances, s \in 0..minted[a] : RegisterInstance(a, i, s)

Deliver(a) ==
    \/ \E g \in 0..MaxGen, i \in Instances :
          PollStale(a, g, i) \/ PollCurrent(a, g, i)
    \/ \E r \in Rows, e \in 0..MaxEpoch, g \in 0..MaxGen, i \in Instances :
          \/ ConfirmElsewhere(a, r)
          \/ ConfirmStaleSidecar(a, r, g, i)
          \/ ConfirmStaleEpoch(a, r, e, g, i)
          \/ ConfirmDelivered(a, r, e, g, i)

Control(a) ==
    \/ \E m \in {"PUSH", "PULL"} : FlipMode(a, m)
    \/ \E policy \in {"requeue", "drop"}, force \in BOOLEAN : Adopt(a, policy, force)

Session(a) == IssueToken(a) \/ Initialize(a) \/ CloseLastSession(a)

SpawnStep(a) ==
    \/ RegisterLogicalPane(a) \/ IssueDeliveryCred(a)
    \/ AssertObserver(a) \/ MintUnobserved(a) \/ RegisterPane(a)
    \/ SpawnFails(a) \/ UndoToken(a) \/ UndoCred(a) \/ UndoLease(a)

CleanupPane(a) ==
    \/ PopPane(a)
    \/ RevokeDeliveryCreds(a) \/ ResetDeliveryState(a) \/ DiscardAgentRows(a)

Clock ==
    \/ \E r \in Rows : ClaimLapses(r) \/ ReceiptDue(r)
    \/ \E a \in Agents : LeaseLapses(a) \/ SavedLeaseLapses(a) \/ AdoptionDue(a)

Others ==
    \/ Messages
    \/ Sweep
    \/ \E a \in Agents : Session(a)
    \/ \E a \in Owners : Deliver(a) \/ Control(a) \/ SpawnStep(a) \/ CleanupPane(a)
    \/ Clock

Next == Others \/ \E a \in Owners : Register(a)

Spec == Init /\ [][Next]_vars

----------------------------------------------------------------------------
(* Properties *)

\* A claim exists only under the owner's present fence: the current generation,
\* the current mode epoch, a current holder and push mode.  Every operation
\* that moves one of the four gives the claims back in the same lock scope.
ClaimFenced ==
    \A r \in Rows : rows[r].st = "CLAIMED" =>
        LET a == rows[r].to
        IN /\ a \in Agents
           /\ rows[r].gen = gen[a] /\ rows[r].epoch = epoch[a]
           /\ inst[a] # None /\ mode[a] = "PUSH"

\* A receipt is awaited only for a row that was pushed and confirmed, and a row
\* that was handed out again for want of one is never claimed or awaited again:
\* at most one repetition, and that by pull.
ReceiptAwaitedOnce ==
    \A r \in Rows :
        /\ rows[r].receipt # "none" => rows[r].st = "DELIVERED" /\ ~rows[r].renotified
        /\ rows[r].renotified => rows[r].st \in {"UNDELIVERED", "DELIVERED"}

\* While an adoption's lease waits for its session nobody holds the owner, the
\* generation is the one the adoption fenced with, and the fence is still one
\* the deadline will lift.
AdoptionFence ==
    \A a \in Owners : pending[a].id # 0 /\ lease[a].adoption = pending[a].id =>
        /\ inst[a] = None /\ gen[a] = pending[a].fenced
        /\ lease[a].phase = "arming" \/ (lease[a].phase = "expired" /\ pending[a].due)

\* A lease that an adoption armed never outlives it unclaimed: if no session
\* has presented its secret, the adoption that will drop it is still pending.
NoOrphanedFence ==
    \A a \in Owners : lease[a].adoption # 0 /\ lease[a].phase \in {"arming", "expired"} =>
        pending[a].id = lease[a].adoption

\* A delivered row leaves that state only by being discarded with its owner, or
\* once, after its receipt was overdue.
DeliveredIsFinal ==
    [][\A r \in Rows : rows[r].st = "DELIVERED" /\ rows'[r].st # "DELIVERED" =>
          \/ rows'[r].st = "GONE"
          \/ /\ rows[r].receipt = "due" /\ ~rows[r].renotified
             /\ rows'[r].st = "UNDELIVERED" /\ rows'[r].renotified]_rows

\* What "org adopt" tells the operator: closing a pane whose owner has been
\* given a new token does not touch the owner's session.
ClosingHuskIsHarmless ==
    [][\A a \in Agents :
          pane[a].token # 0 /\ pane'[a] = NoPane /\ bind[a].live
            /\ pane[a].token # bind[a].token => cleanup'[a] = "idle"]_<<pane, bind, cleanup>>

----------------------------------------------------------------------------
(* The store implements FencedQueue: the holder of an agent is its current  *)
(* (generation, instance) in its current mode epoch.                        *)

Holder(a) == IF inst[a] = None THEN <<>> ELSE <<gen[a], inst[a], epoch[a]>>
Phase(row) == CASE row.st = "FREE" -> "absent" [] row.st = "UNDELIVERED" -> "ready"
                [] row.st = "CLAIMED" -> "leased" [] row.st = "DELIVERED" -> "done"
                [] row.st = "GONE" -> "gone"

Queue == INSTANCE FencedQueue WITH
            NoOne <- None, NoHolder <- <<>>,
            phase <- [r \in Rows |-> Phase(rows[r])],
            to <- [r \in Rows |-> rows[r].to],
            again <- [r \in Rows |-> rows[r].renotified],
            holder <- [a \in Agents |-> Holder(a)]

ImplementsFencedQueue == Queue!Spec

=============================================================================
