--------------------------- MODULE WakeupHistory ---------------------------
(***************************************************************************)
(* Wakeups with a history variable: the rows the lease watch took back and *)
(* triggered a nudge for, that no nudge thread has seen since.             *)
(***************************************************************************)
EXTENDS Wakeups

VARIABLE owed

Triggered == \E c \in Timers : caller[c].pc = "idle" /\ caller'[c].pc = "trigger"
Seen      == \E w \in Workers : worker[w].pc = "check" /\ worker'[w].pc # "check"

\* A row that leaves the queue, or whose recipient disconnects, is owed nothing.
Remember ==
    owed' = {r \in Rows : /\ Waiting(r)' /\ registered' /\ ~Seen
                          /\ r \in owed \/ (Triggered /\ row[r] = "lapsed")}

HistorySpec == /\ Init /\ owed = {}
               /\ [][Next /\ Remember]_<<vars, owed>>
               /\ Fairness

\* CHANGELOG, issue 78: the timer "reaps the expired claim and re-nudges the
\* recipient"; so a nudge thread looks at the queue after the reap.
ReapedRowsAreNudged == \A r \in Rows : r \in owed ~> r \notin owed

=============================================================================
