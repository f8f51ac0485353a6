------------------------------ MODULE Wakeups ------------------------------
(***************************************************************************)
(* How a recipient is told that messages wait: the nudge threads and the   *)
(* user turns that write to its pane (Broker._trigger_nudge,               *)
(* _nudge_worker, user_turn.py), and the lease watch that follows up       *)
(* claims nobody confirms (StoreMixin._arm_lease_watch).                   *)
(*                                                                         *)
(* All of this is per recipient (keyed by its agent id and its pane), so   *)
(* one recipient is modelled; it has a pane, as every spawned agent has.   *)
(* Queue rows are as in DeliveryStore, without fences.  One action is one  *)
(* scope of the broker's lock or one call to the terminal.                 *)
(***************************************************************************)
EXTENDS Naturals

CONSTANTS
    Rows,      \* message ids
    Requests,  \* daemon threads serving enqueue, poll_claims, check_messages
    Timers,    \* threads of expired lease-watch timers
    Workers,   \* nudge threads
    Turns,     \* daemon threads serving a user_turn, one body each
    NoOne,     \* no thread
    MaxTries   \* nudge_defer_max_tries

Callers == Requests \cup Timers
Writers == Workers \cup Turns

ASSUME ConstantsOK ==
    /\ MaxTries \in Nat \ {0}
    /\ NoOne \notin Writers /\ Workers \cap Turns = {}

VARIABLES
    row,         \* the state of each row
    registered,  \* the recipient's full bind is registered and not revoked
    caller,      \* the requests and timers that may still trigger or arm
    slot,        \* _nudge_threads[agent_id]
    worker,      \* the nudge threads
    armed,       \* the recipient is in _lease_watch_armed: a timer runs
    draft,       \* the threads that have text in the recipient's composer
    busy,        \* the screen shows the recipient working, a dialog, or text that
                 \* is not the broker's: anything but an empty composer or draft
    lock,        \* _pane_write_locks[pane]
    turn         \* the user turns

rowVars  == <<row, registered, caller, slot, armed>>
paneVars == <<draft, busy, lock, turn>>
vars     == <<rowVars, worker, paneVars>>

----------------------------------------------------------------------------
(* Data *)

\* QueueRow.state.  "lapsed" is CLAIMED with its lease over, "pushed" is
\* DELIVERED by a push whose receipt is awaited, "renotified" UNDELIVERED again
\* and for check_messages only.
RowStates == {"free", "undelivered", "claimed", "lapsed", "pushed", "renotified", "delivered"}
Waiting(r) == row[r] \in {"undelivered", "renotified"}
Claimed(r) == row[r] \in {"claimed", "lapsed"}

\* arm: the thread goes on to call _arm_lease_watch after the trigger.
CallerState == [pc : {"idle", "trigger", "start", "arm"}, arm : BOOLEAN]
Idle == [pc |-> "idle", arm |-> FALSE]

\* "new" is created but not started; "leave" is past its last decision, in the
\* journal call before its return.
WorkerState == [pc : {"dead", "new", "check", "look", "write", "type", "enter", "leave"},
                tries : 0..MaxTries]
Alive(w) == worker[w].pc \notin {"dead", "new"}

TurnState == {"idle", "read", "type", "settle", "enter", "observe"}

TypeOK ==
    /\ row \in [Rows -> RowStates]
    /\ registered \in BOOLEAN
    /\ caller \in [Callers -> CallerState]
    /\ slot \in Workers \cup {NoOne}
    /\ worker \in [Workers -> WorkerState]
    /\ armed \in BOOLEAN
    /\ draft \in SUBSET Writers
    /\ busy \in BOOLEAN
    /\ lock \in Writers \cup {NoOne}
    /\ turn \in [Turns -> TurnState]

Init ==
    /\ row = [r \in Rows |-> "free"]
    /\ registered = TRUE
    /\ caller = [c \in Callers |-> Idle]
    /\ slot = NoOne
    /\ worker = [w \in Workers |-> [pc |-> "dead", tries |-> 0]]
    /\ armed = FALSE
    /\ draft = {} /\ busy = FALSE /\ lock = NoOne
    /\ turn = [t \in Turns |-> "idle"]

----------------------------------------------------------------------------
(* Rows: enqueue, poll_claims, confirm_delivered, drain *)

\* What thread c does after its lock scope.
Proceed(c, trigger, arm) ==
    caller' = [caller EXCEPT ![c] =
        IF trigger THEN [pc |-> "trigger", arm |-> arm]
        ELSE IF arm THEN [pc |-> "arm", arm |-> TRUE] ELSE Idle]

\* _reap_locked and _renotify_due_locked on the row in state s; due is the set
\* of rows whose receipt is overdue.
BugReaped(s) == s
Reaped(s) == IF s = "lapsed" THEN "undelivered" ELSE s
Overdue   == SUBSET {r \in Rows : row[r] = "pushed"}

Enqueue(c, r) ==
    /\ caller[c] = Idle /\ registered /\ row[r] = "free"
    /\ row' = [row EXCEPT ![r] = "undelivered"]
    /\ Proceed(c, TRUE, FALSE)
    /\ UNCHANGED <<registered, slot, armed, worker, paneVars>>

\* The recipient replies to the sender: the receipt of a pushed row.
Reply(r) ==
    /\ row[r] = "pushed"
    /\ row' = [row EXCEPT ![r] = "delivered"]
    /\ UNCHANGED <<registered, caller, slot, armed, worker, paneVars>>

\* A poll of the current holder in PUSH mode; one by another only renotifies.
PollClaims(c) ==
    \E due \in Overdue, holder \in BOOLEAN :
        LET reaped  == [r \in Rows |-> IF r \in due THEN "renotified" ELSE row[r]]
            claimed == {r \in Rows : Reaped(reaped[r]) = "undelivered"}
        IN  /\ caller[c] = Idle
            /\ IF holder /\ registered
               THEN /\ row' = [r \in Rows |-> IF r \in claimed THEN "claimed" ELSE reaped[r]]
                    /\ Proceed(c, due # {}, claimed # {})
               ELSE /\ row' = reaped
                    /\ Proceed(c, due # {} /\ registered, FALSE)
            /\ UNCHANGED <<registered, slot, armed, worker, paneVars>>

Confirm(r) ==
    /\ Claimed(r)
    /\ \E s \in {"pushed", "delivered"} : row' = [row EXCEPT ![r] = s]
    /\ UNCHANGED <<registered, caller, slot, armed, worker, paneVars>>

\* flip_mode, register_delivery_instance and adopt_delivery give claims back
\* without a nudge.
GiveBack(r) ==
    /\ Claimed(r)
    /\ row' = [row EXCEPT ![r] = "undelivered"]
    /\ UNCHANGED <<registered, caller, slot, armed, worker, paneVars>>

ClaimLapses(r) ==
    /\ row[r] = "claimed"
    /\ row' = [row EXCEPT ![r] = "lapsed"]
    /\ UNCHANGED <<registered, caller, slot, armed, worker, paneVars>>

\* check_messages of the recipient.
Drain(c) ==
    \E due \in Overdue :
        /\ caller[c] = Idle /\ registered
        /\ row' = [r \in Rows |->
              IF r \in due \/ row[r] \in {"lapsed", "undelivered", "renotified"}
              THEN "delivered" ELSE row[r]]
        /\ Proceed(c, due # {}, FALSE)
        /\ UNCHANGED <<registered, slot, armed, worker, paneVars>>

\* initialize and DELETE of the recipient's session.
Reconnect ==
    /\ registered' = ~registered
    /\ UNCHANGED <<row, caller, slot, armed, worker, paneVars>>

----------------------------------------------------------------------------
(* Lease watch: _arm_lease_watch, _lease_watch_fire *)

\* The timer starts in the step that enters the owner in _lease_watch_armed:
\* nobody reads whether it has started.
ArmLeaseWatch(c) ==
    /\ caller[c].pc = "arm"
    /\ armed' = TRUE
    /\ caller' = [caller EXCEPT ![c] = Idle]
    /\ UNCHANGED <<row, registered, slot, worker, paneVars>>

\* It may fire before the leases it finds are over (claims made since).
LeaseWatchFires(c) ==
    /\ armed /\ caller[c] = Idle
    /\ armed' = FALSE
    /\ row' = [r \in Rows |-> Reaped(row[r])]
    /\ Proceed(c, registered /\ \E r \in Rows : Waiting(r)', \E r \in Rows : Claimed(r)')
    /\ UNCHANGED <<registered, slot, worker, paneVars>>

----------------------------------------------------------------------------
(* Nudges: _trigger_nudge, _nudge_worker *)

NudgeRuns == IF slot = NoOne THEN FALSE ELSE Alive(slot)
BugAfterTrigger(c) == Idle
AfterTrigger(c) == IF caller[c].arm THEN [pc |-> "arm", arm |-> TRUE] ELSE Idle

\* The check-and-set under the lock: a live nudge thread is left to it.
TriggerFindsWorker(c) ==
    /\ caller[c].pc = "trigger"
    /\ NudgeRuns
    /\ caller' = [caller EXCEPT ![c] = AfterTrigger(c)]
    /\ UNCHANGED <<row, registered, slot, armed, worker, paneVars>>

TriggerCreatesWorker(c) ==
    /\ caller[c].pc = "trigger"
    /\ ~NudgeRuns
    /\ \E w \in Workers :
          /\ worker[w].pc = "dead"
          /\ slot' = w
          /\ worker' = [worker EXCEPT ![w] = [pc |-> "new", tries |-> 0]]
    /\ caller' = [caller EXCEPT ![c].pc = "start"]
    /\ UNCHANGED <<row, registered, armed, paneVars>>

\* t.start(), after the lock; each caller starts the thread it created, and
\* which of two new threads that is makes no difference.
StartWorker(c, w) ==
    /\ caller[c].pc = "start" /\ worker[w].pc = "new"
    /\ worker' = [worker EXCEPT ![w].pc = "check"]
    /\ caller' = [caller EXCEPT ![c] = AfterTrigger(c)]
    /\ UNCHANGED <<row, registered, slot, armed, paneVars>>

Goto(w, pc) == worker' = [worker EXCEPT
    ![w] = [pc |-> pc, tries |-> IF pc = "leave" THEN 0 ELSE worker[w].tries]]

BugDefer(w) == worker' = [worker EXCEPT
    ![w] = [pc |-> "check", tries |-> worker[w].tries + 1]]

\* nudge_deferred, the sleep and the end of one turn of the loop.
Defer(w) ==
    worker' = [worker EXCEPT ![w] =
        IF worker[w].tries + 1 < MaxTries
        THEN [pc |-> "check", tries |-> worker[w].tries + 1]
        ELSE [pc |-> "leave", tries |-> 0]]

\* A row claimed by a sidecar is pending as well.
WorkerChecks(w) ==
    /\ worker[w].pc = "check"
    /\ IF \E r \in Rows : Waiting(r) \/ Claimed(r)
       THEN Goto(w, "look")
       ELSE Goto(w, "leave")
    /\ UNCHANGED <<rowVars, paneVars>>

\* classify_pane_state reads the first row of the composer only: a draft with an
\* empty first row looks idle.  A terminal error ends the thread.
WorkerLooks(w) ==
    /\ worker[w].pc = "look"
    /\ \/ ~busy /\ Goto(w, "write")
       \/ (busy \/ draft # {}) /\ Defer(w)
       \/ Goto(w, "leave")
    /\ UNCHANGED <<rowVars, paneVars>>

BugWorkerLocks(w) ==
    /\ worker[w].pc = "write" /\ lock = NoOne /\ ~busy
    /\ lock' = w /\ Goto(w, "type")
    /\ UNCHANGED <<rowVars, draft, busy, turn>>

\* The screen is read again under the pane's write lock, now with
\* user_turn.assess_screen, which sees the whole draft.
WorkerLocks(w) ==
    /\ worker[w].pc = "write" /\ lock = NoOne
    /\ \/ ~busy /\ draft = {} /\ lock' = w /\ Goto(w, "type")
       \/ (busy \/ draft # {}) /\ Defer(w) /\ UNCHANGED lock
       \/ Goto(w, "leave") /\ UNCHANGED lock
    /\ UNCHANGED <<rowVars, draft, busy, turn>>

\* send_line: the text, then Enter.  Either call may fail.
WorkerTypes(w) ==
    /\ worker[w].pc = "type"
    /\ \/ draft' = draft \cup {w} /\ Goto(w, "enter") /\ UNCHANGED lock
       \/ draft' = draft /\ Goto(w, "leave") /\ lock' = NoOne
    /\ UNCHANGED <<rowVars, busy, turn>>

\* An Enter the recipient takes submits the draft; a dialog that came up
\* meanwhile swallows it.
PressEnter == \/ draft' = {} /\ busy' = TRUE
              \/ UNCHANGED <<draft, busy>>

WorkerEnters(w) ==
    /\ worker[w].pc = "enter"
    /\ PressEnter
    /\ lock' = NoOne
    /\ Goto(w, "leave")
    /\ UNCHANGED <<rowVars, turn>>

WorkerEnds(w) ==
    /\ worker[w].pc = "leave"
    /\ worker' = [worker EXCEPT ![w] = [pc |-> "dead", tries |-> 0]]
    /\ UNCHANGED <<rowVars, paneVars>>

----------------------------------------------------------------------------
(* User turns: deliver_user_turn *)

GotoTurn(t, pc) == turn' = [turn EXCEPT ![t] = pc]

\* The lock is tried, not waited for: a turn that finds it taken is refused, and
\* one that repeats the last body within DUPLICATE_WINDOW is suppressed; neither
\* leaves a trace, so a turn that begins is one that is not.
TurnBegins(t) ==
    /\ turn[t] = "idle" /\ registered
    /\ lock = NoOne /\ lock' = t
    /\ GotoTurn(t, "read")
    /\ UNCHANGED <<rowVars, worker, draft, busy>>

\* EMPTY must be proven, or the turn is refused.
TurnReads(t) ==
    /\ turn[t] = "read"
    /\ \/ ~busy /\ draft = {} /\ GotoTurn(t, "type") /\ UNCHANGED lock
       \/ GotoTurn(t, "idle") /\ lock' = NoOne
    /\ UNCHANGED <<rowVars, worker, draft, busy>>

BugStall(t) == GotoTurn(t, "idle") /\ UNCHANGED lock
Stall(t) == GotoTurn(t, "idle") /\ lock' = NoOne

\* A failed call may have typed the body.
TurnTypes(t) ==
    /\ turn[t] = "type"
    /\ \/ draft' = draft \cup {t} /\ GotoTurn(t, "settle") /\ UNCHANGED lock
       \/ draft' \in {draft, draft \cup {t}} /\ Stall(t)
    /\ UNCHANGED <<rowVars, worker, busy>>

\* _wait_stable_draft: Enter only if the draft shows, and is (a body of one
\* line) its own.  The wait may time out.
TurnSettles(t) ==
    /\ turn[t] = "settle"
    /\ \/ ~busy /\ t \in draft /\ GotoTurn(t, "enter") /\ UNCHANGED lock
       \/ Stall(t)
    /\ UNCHANGED <<rowVars, worker, draft, busy>>

TurnEnters(t) ==
    /\ turn[t] = "enter"
    /\ \/ PressEnter /\ GotoTurn(t, "observe") /\ UNCHANGED lock
       \/ UNCHANGED <<draft, busy>> /\ Stall(t)
    /\ UNCHANGED <<rowVars, worker>>

\* _wait_submitted: busy or empty is success, else the turn is stalled.
TurnObserves(t) ==
    /\ turn[t] = "observe"
    /\ GotoTurn(t, "idle") /\ lock' = NoOne
    /\ UNCHANGED <<rowVars, worker, draft, busy>>

----------------------------------------------------------------------------
(* The recipient's terminal: the agent and the operator *)

AgentWorks ==
    /\ busy' = ~busy
    /\ UNCHANGED <<rowVars, worker, draft, lock, turn>>

\* The operator submits or clears a draft that was left.
HumanEdits ==
    /\ ~busy /\ draft # {}
    /\ draft' = {} /\ busy' \in BOOLEAN
    /\ UNCHANGED <<rowVars, worker, lock, turn>>

----------------------------------------------------------------------------
CallerStep(c) ==
    \/ TriggerFindsWorker(c) \/ TriggerCreatesWorker(c)
    \/ \E w \in Workers : StartWorker(c, w)
    \/ ArmLeaseWatch(c)

WorkerStep(w) ==
    \/ WorkerChecks(w) \/ WorkerLooks(w) \/ WorkerLocks(w)
    \/ WorkerTypes(w) \/ WorkerEnters(w) \/ WorkerEnds(w)

TurnStep(t) ==
    \/ TurnReads(t) \/ TurnTypes(t) \/ TurnSettles(t) \/ TurnEnters(t) \/ TurnObserves(t)

RequestStep(c) ==
    \/ \E r \in Rows : Enqueue(c, r)
    \/ PollClaims(c) \/ Drain(c)

Environment ==
    \/ \E r \in Rows : Reply(r) \/ Confirm(r) \/ GiveBack(r)
    \/ Reconnect \/ AgentWorks \/ HumanEdits

Next ==
    \/ \E c \in Callers : CallerStep(c)
    \/ \E c \in Requests : RequestStep(c)
    \/ \E c \in Timers : LeaseWatchFires(c)
    \/ \E r \in Rows : ClaimLapses(r)
    \/ \E w \in Workers : WorkerStep(w)
    \/ \E t \in Turns : TurnBegins(t) \/ TurnStep(t)
    \/ Environment

Spec == Init /\ [][Next]_vars

\* Threads run and time passes; nothing is assumed of the agent, the operator,
\* the sidecar, or who calls the daemon.
Fairness ==
    /\ \A c \in Callers : WF_vars(CallerStep(c))
    /\ \A c \in Timers : WF_vars(LeaseWatchFires(c))
    /\ \A r \in Rows : WF_vars(ClaimLapses(r))
    /\ \A w \in Workers : WF_vars(WorkerStep(w)) /\ SF_vars(WorkerLocks(w))
    /\ \A t \in Turns : WF_vars(TurnStep(t))
FairSpec == Spec /\ Fairness

----------------------------------------------------------------------------
(* Properties *)

\* _arm_lease_watch: every claim has a timer that will look at it, or a thread
\* about to start one; a sidecar that dies between claim and confirm is noticed
\* without any other call.
ClaimWatched ==
    (\E r \in Rows : Claimed(r)) => armed \/ \E c \in Callers : caller[c].arm

\* _nudge_worker and deliver_user_turn share the pane's write lock and look at
\* the whole composer: a nudge is never put into the draft of a user turn, stalled
\* ones included, nor a turn into a nudge or another turn.
BrokerTextsApart == \A x, y \in draft : x = y

\* _lease_watch_fire: a claim whose lease is over does not stay one for ever; it
\* is reaped, confirmed or claimed anew, whatever the sidecar and the callers do.
LapsedClaimsReaped == \A r \in Rows : row[r] = "lapsed" ~> row[r] # "lapsed"

\* _nudge_worker: a nudge thread ends, so it is not found alive by every later
\* trigger; it does not wait for ever for a pane whose writer is gone.
WorkersEnd == \A w \in Workers : Alive(w) ~> ~Alive(w)

=============================================================================
