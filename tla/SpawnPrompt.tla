---------------------------- MODULE SpawnPrompt -----------------------------
(***************************************************************************)
(* The startup prompts of a worker (dispatcher/spawn_prompt.py).  Claude   *)
(* Code shows a folder-trust and a dev-channel dialog before its composer; *)
(* a wrong Enter ends the worker.  The dispatcher loops: inspect the pane, *)
(* run spawn-prompt-step on this screen and the previous one, do as told.  *)
(* Each step leaves a decision record, or removes it, for the hook that    *)
(* lets send_keys through.  A screen is a sequence of rows, a row its kind *)
(* and whether the cursor glyph leads it.                                  *)
(***************************************************************************)
EXTENDS Integers, Sequences, FiniteSetsExt

CONSTANTS Deadline,     \* DEFAULT_APPROVAL_DEADLINE_MS
          Ttl,          \* RECORD_TTL_MS
          Late,         \* inspections after a change that may still show an older screen
          MaxTime       \* bound of the clock

ASSUME PromptAssumption ==
    /\ {Deadline, Ttl, Late, MaxTime} \subseteq Nat
    /\ Deadline <= MaxTime

VARIABLES
    claude,     \* the worker: what it waits for, the cursor's option, the options' order
    drawn,      \* the screen an inspection returns, and the inspections it has been late for
    approver,   \* the dispatcher's loop: what is next, this screen, the previous, the keys told
    record,     \* the decision record of the pane, or NoRecord
    wall        \* wall clock, from the start of the step

promptVars == <<claude, drawn, approver, record, wall>>

NoRecord == [keys |-> "none", step |-> 0, expires |-> 0]
NoScreen == << >>
Row(kind, cursor) == [kind |-> kind, cursor |-> cursor]

(***************************************************************************)
(* Claude Code, external: its dialogs, and how they reach the screen.      *)
(***************************************************************************)
Accept(state) == IF state = "trust" THEN "trustYes" ELSE "devYes"
Reject(state) == IF state = "trust" THEN "trustNo" ELSE "devExit"
Options(state, order) ==
    IF state = "trust" /\ order = "noFirst" THEN <<Reject(state), Accept(state)>>
    ELSE <<Accept(state), Reject(state)>>

Shown(c, cursor) ==
    IF c.at \in {"trust", "dev"}
    THEN [i \in 1..2 |-> Row(Options(c.at, c.order)[i], cursor /\ i = c.cursor)] \o <<Row("footer", FALSE)>>
    ELSE <<IF c.at = "ready" THEN Row("composer", TRUE) ELSE Row("text", FALSE)>>

\* A frame may lack its cursor, or stand below what the dialog before it left.
Frames(c) ==
    {Shown(c, TRUE), Shown(c, FALSE)}
        \cup IF c.at = "dev" /\ c.trusted # "before"
             THEN {Shown([c EXCEPT !.at = "trust", !.cursor = IF c.order = "noFirst" THEN 2 ELSE 1], TRUE)
                        \o Shown(c, TRUE)}
             ELSE {}

Answered(c, key) ==
    IF c.at \notin {"trust", "dev"} THEN c
    ELSE IF key # "Enter" THEN [c EXCEPT !.cursor = 3 - @]
    ELSE IF Options(c.at, c.order)[c.cursor] = Reject(c.at) THEN [c EXCEPT !.at = "exited"]
    ELSE IF c.at = "trust" THEN [c EXCEPT !.at = "dev", !.cursor = 1]
    ELSE [c EXCEPT !.at = "ready"]

\* The first dialog appears: the trust dialog with the cursor on its first option, or,
\* in a directory trusted before, the dev-channel dialog.
Starts ==
    /\ claude.at = "starting"
    /\ claude' = [claude EXCEPT !.at = IF claude.trusted = "before" THEN "dev" ELSE "trust"]
    /\ drawn' = [drawn EXCEPT !.late = 0]
    /\ UNCHANGED <<approver, record, wall>>

Redraws ==
    /\ \E f \in Frames(claude) : f # drawn.screen /\ drawn' = [screen |-> f, late |-> 0]
    /\ UNCHANGED <<claude, approver, record, wall>>

(***************************************************************************)
(* The decision (_find_dialog, _composer_visible, _settled, _decide).      *)
(***************************************************************************)
RowsOf(screen, kind) == {i \in DOMAIN screen : screen[i].kind = kind}

Recognized(screen) == {s \in {"trust", "dev"} : RowsOf(screen, Accept(s)) # {}}
ComposerVisible(screen) == RowsOf(screen, "composer") # {}
\* Mutant: one inspection suffices for a key.
BugSettled(screen, previous) == TRUE
Settled(screen, previous) == previous # NoScreen /\ screen = previous

Decision(action, keys) == [action |-> action, keys |-> keys]
Wait == Decision("wait", "none")

\* A recognised dialog: rows above its first option are ignored.
DecideDialog(screen, previous, s) ==
    LET accepts == RowsOf(screen, Accept(s))
        rejects == RowsOf(screen, Reject(s))
        cursors == {i \in DOMAIN screen : screen[i].cursor /\ i >= Min(accepts \cup rejects)}
        accept == Min(accepts)
        cursor == Min(cursors)
    IN IF \/ \E rows \in {accepts, rejects, cursors} : Cardinality(rows) > 1
          \/ cursors \cap (accepts \cup rejects) = {}
          \/ ~Settled(screen, previous)
       THEN Wait
       ELSE Decision("send_keys", IF cursor = accept THEN "Enter"
                                  ELSE IF accept > cursor THEN "Down" ELSE "Up")

DecideScreen(screen, previous) ==
    IF Cardinality(Recognized(screen)) > 1 THEN Wait
    ELSE IF Cardinality(Recognized(screen)) = 1
    THEN DecideDialog(screen, previous, CHOOSE s \in Recognized(screen) : TRUE)
    ELSE IF RowsOf(screen, "footer") = {} /\ ComposerVisible(screen) THEN Decision("done", "none")
    ELSE Wait

\* Mutant: no deadline.
BugDecide(screen, previous, elapsed) == DecideScreen(screen, previous)
Decide(screen, previous, elapsed) ==
    LET d == DecideScreen(screen, previous)
    IN IF elapsed >= Deadline /\ d.action # "done" THEN Decision("escalate", "none") ELSE d

(***************************************************************************)
(* The decision record (write_decision_record, read_decision_record).      *)
(***************************************************************************)
\* Mutant: a step that sends no key leaves the record as it is.
BugRecorded(d, step) ==
    IF d.action = "send_keys" THEN [keys |-> d.keys, step |-> step, expires |-> wall + Ttl] ELSE record
Recorded(d, step) ==
    IF d.action \in {"send_keys", "done"}
    THEN [keys |-> d.keys, step |-> step, expires |-> wall + Ttl] ELSE NoRecord

ReadRecord == IF wall >= record.expires THEN NoRecord ELSE record

(***************************************************************************)
(* The loop (approve_spawn_prompts_step, cmd_spawn_prompt_step).           *)
(***************************************************************************)
Looping == approver.pc \in {"inspect", "decide", "send"}

PromptInit ==
    /\ claude \in [at : {"starting"}, cursor : 1..2, order : {"yesFirst", "noFirst"},
                   trusted : {"before", "never"}]
    /\ drawn = [screen |-> Shown(claude, TRUE), late |-> 0]
    /\ approver = [pc |-> "inspect", screen |-> NoScreen, previous |-> NoScreen, keys |-> "none", step |-> 0]
    /\ record = NoRecord
    /\ wall = 0

Inspects ==
    /\ approver.pc = "inspect"
    /\ IF drawn.screen \in Frames(claude) THEN UNCHANGED drawn
       ELSE drawn.late < Late /\ drawn' = [drawn EXCEPT !.late = @ + 1]
    /\ approver' = [approver EXCEPT !.pc = "decide", !.screen = drawn.screen]
    /\ UNCHANGED <<claude, record, wall>>

\* The inspection fails: nothing decides, the dispatcher escalates.
InspectFails ==
    /\ approver.pc = "inspect"
    /\ approver' = [approver EXCEPT !.pc = "escalated"]
    /\ UNCHANGED <<claude, drawn, record, wall>>

\* The step runs; its record may not be writable (exit 2: the old one is removed).
Steps(writable) ==
    LET d == Decide(approver.screen, approver.previous, wall)
        removed == d.action \notin {"send_keys", "done"}
    IN /\ approver.pc = "decide"
       /\ record' = IF writable THEN Recorded(d, 1 - approver.step) ELSE NoRecord
       /\ approver' = [approver EXCEPT
            !.step = 1 - @, !.keys = d.keys, !.screen = NoScreen,
            !.previous = IF d.action = "wait" THEN approver.screen ELSE NoScreen,
            !.pc = IF ~(writable \/ removed) THEN "escalated"
                   ELSE IF d.action = "wait" THEN "inspect"
                   ELSE IF d.action = "send_keys" THEN "send"
                   ELSE IF d.action = "done" THEN "done" ELSE "escalated"]
       /\ UNCHANGED <<claude, drawn, wall>>

\* send_keys, exactly as told; the hook reads the record and may refuse.
Sends ==
    /\ approver.pc = "send"
    /\ IF ReadRecord.keys = approver.keys
       THEN /\ claude' = Answered(claude, approver.keys)
            /\ drawn' = [drawn EXCEPT !.late = 0]
            /\ approver' = [approver EXCEPT !.pc = "inspect", !.keys = "none"]
       ELSE approver' = [approver EXCEPT !.pc = "escalated"] /\ UNCHANGED <<claude, drawn>>
    /\ UNCHANGED <<record, wall>>

PromptTick ==
    /\ wall < MaxTime
    /\ wall' = wall + 1
    /\ UNCHANGED <<claude, drawn, approver, record>>

LoopStep == Inspects \/ Sends \/ \E ok \in BOOLEAN : Steps(ok)
PromptNext == Starts \/ Redraws \/ InspectFails \/ PromptTick \/ LoopStep
PromptSpec == PromptInit /\ [][PromptNext]_promptVars

(***************************************************************************)
(* Properties.                                                             *)
(***************************************************************************)
\* As long as no two inspections in a row return an older screen (Late = 1), no key the
\* loop sends exits the worker, whatever order the options have and however the dialogs
\* are drawn (the incident spawn_prompt.py opens with): of the two inspections that agreed
\* one shows the dialog the key reaches.
WorkerNeverExits == claude.at # "exited"

\* While the loop runs, a record the hook accepts is the decision of the last step: one
\* left over from an earlier key pass does not authorise a key on a later screen
\* (write_decision_record).
RecordIsLatest == Looping /\ ReadRecord # NoRecord => record.step = approver.step

\* The loop ends by its deadline, with the composer seen or with an escalation.
ApprovalEnds == wall > 0 ~> approver.pc \in {"done", "escalated"}

=============================================================================
