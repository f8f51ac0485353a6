----------------------------- MODULE FencedQueue -----------------------------
(***************************************************************************)
(* What the broker promises about a message, whoever calls it and whatever *)
(* deadline passes: a message is ready, leased to the present holder of    *)
(* its recipient, or done.  A lease never outlives the holder it was given *)
(* to.  A done message is presented at most once more, and then only to be *)
(* pulled, not leased.                                                     *)
(***************************************************************************)
CONSTANTS
    Rows,      \* message ids
    Agents,    \* recipients
    NoOne,     \* a message's recipient before it is put
    NoHolder   \* the holder of an agent nobody holds

VARIABLES
    phase,     \* where a message is
    to,        \* its recipient
    again,     \* whether it has been presented a second time
    holder     \* who may lease the messages of an agent

vars == <<phase, to, again, holder>>

Phases == {"absent", "ready", "leased", "done", "gone"}

Init ==
    /\ phase = [r \in Rows |-> "absent"]
    /\ to = [r \in Rows |-> NoOne]
    /\ again = [r \in Rows |-> FALSE]
    /\ holder = [a \in Agents |-> NoHolder]

Keep(r) == to'[r] = to[r] /\ again'[r] = again[r]

Put(r) ==
    /\ phase[r] = "absent" /\ phase'[r] = "ready"
    /\ to'[r] \in Agents /\ ~again'[r]

\* A new lease is the present holder's.
Lease(r) ==
    /\ phase[r] = "ready" /\ phase'[r] = "leased"
    /\ ~again[r] /\ holder'[to[r]] # NoHolder
    /\ Keep(r)

Return(r) == phase[r] = "leased" /\ phase'[r] = "ready" /\ Keep(r)

Finish(r) == phase[r] \in {"ready", "leased"} /\ phase'[r] = "done" /\ Keep(r)

\* The one repetition; its pull may be part of the same step.
Repeat(r) ==
    /\ phase[r] = "done" /\ phase'[r] \in {"ready", "done"}
    /\ ~again[r] /\ again'[r] /\ to'[r] = to[r]

Discard(r) == phase[r] # "absent" /\ phase'[r] = "gone"

\* Nothing happens to the message: its lease, if any, has kept its holder.
Stay(r) ==
    /\ phase'[r] = phase[r] /\ Keep(r)
    /\ phase[r] = "leased" => holder'[to[r]] = holder[to[r]]

Next ==
    \A r \in Rows :
        \/ Put(r) \/ Lease(r) \/ Return(r) \/ Finish(r) \/ Repeat(r) \/ Discard(r)
        \/ Stay(r)

Spec == Init /\ [][Next]_vars

=============================================================================
