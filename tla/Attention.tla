----------------------------- MODULE Attention -----------------------------
(***************************************************************************)
(* The attention watcher (attention/): what it reads out of the state      *)
(* directory, what it makes of it, and which of that reaches the operator, *)
(* once, beside the Secretary, the daemon and the dispatcher that write    *)
(* there and a scan the operator runs by hand.                             *)
(*                                                                         *)
(* One action is one access to the state directory or one notification.    *)
(* One entry of pending_decisions.json, one row of state.db and one owner  *)
(* in the journal are followed per id.                                     *)
(***************************************************************************)
EXTENDS JournalTail

CONSTANTS
    Rows,       \* ids of rows of state.db events
    RowForms,   \* the <<kind, payload kind or status>> they may have
    Tasks,      \* tasks of pending decisions
    Lines,      \* the <<event, incident, length>> the daemon may append
    Stampers,   \* threads of the daemon that write the journal
    RawConfigs, \* attention configs an operator may have written
    Defaults,   \* the defaults of AttentionConfig
    Chunk, Cap, \* BROKER_JOURNAL_CHUNK_BYTES, BROKER_JOURNAL_MAX_SCAN_BYTES
    MaxNow,     \* bound on the clock
    MaxLines,   \* bound on the journal
    MaxSpoils   \* bound on what disturbs the dedup state

Thresholds == {"cooldown", "pendingMin", "repliedMin", "pendingMax", "pendingDrop",
               "duplicateWindow", "deliveryWindow", "eventWindow"}
Absent == -3
Bad == -4
Never == -1
Garbled == -2

ASSUME AttentionConstants ==
    /\ MaxNow \in Nat /\ MaxLines \in Nat /\ MaxSpoils \in Nat
    /\ Chunk \in Nat \ {0} /\ Cap \in Nat \ {0}
    /\ Defaults \in [Thresholds -> Nat]
    /\ Defaults.pendingMin < Defaults.pendingMax /\ Defaults.repliedMin < Defaults.pendingMax
    /\ Defaults.pendingMax < Defaults.pendingDrop
    /\ \A r \in RawConfigs, f \in Thresholds : r[f] \in Nat \cup {Absent, Bad}
    /\ \A l \in Lines : l[3] \in Nat \ {0}

VARIABLES
    now,       \* the clock
    row,       \* state.db events
    decision,  \* pending_decisions.json
    journal,   \* queue.jsonl
    stamp,     \* the time a thread has taken for the line it is to append
    raw,       \* the operator's config
    notified,  \* attention_notified.json: when each key was
    scanner,   \* the watcher, and a scan run by hand
    rang,      \* history: when each key last reached the operator
    spoils,    \* history: what disturbed the dedup state since a key first rang
    repeats    \* history: how often each key rang again too early

worldVars == <<row, decision, journal, stamp, raw>>
attentionVars == <<now, worldVars, notified, scanner, rang, spoils, repeats>>

----------------------------------------------------------------------------
(* Configuration *)

\* A raw config gives some thresholds (or Bad: no number, or a negative one), whether the
\* desktop and which sound is wanted, and pins severities.
Given(r, f) == IF r[f] = Absent THEN Defaults[f] ELSE r[f]

\* Mutant of ScaledMax: it clears only one of the two lower bounds.
BugScaledMax(r) ==
    IF r.pendingMax # Absent THEN r.pendingMax
    ELSE Max({Defaults.pendingMax, Given(r, "pendingMin") + 1})
\* A config older than the ladder is scaled up to a valid one.
ScaledMax(r) ==
    IF r.pendingMax # Absent THEN r.pendingMax
    ELSE Max({Defaults.pendingMax, Given(r, "pendingMin") + 1, Given(r, "repliedMin") + 1})
ScaledDrop(r) ==
    IF r.pendingDrop # Absent THEN r.pendingDrop
    ELSE IF ScaledMax(r) >= Defaults.pendingDrop THEN ScaledMax(r) + 1
    ELSE Defaults.pendingDrop

\* load_config and AttentionConfig.__post_init__; a config that does not load is
\* refused before anything runs.
Loads(r) ==
    /\ \A f \in Thresholds : r[f] # Bad
    /\ ScaledMax(r) > Given(r, "pendingMin") /\ ScaledMax(r) > Given(r, "repliedMin")
    /\ ScaledDrop(r) > ScaledMax(r)

Setting(f) ==
    IF f = "pendingMax" THEN ScaledMax(raw)
    ELSE IF f = "pendingDrop" THEN ScaledDrop(raw) ELSE Given(raw, f)

----------------------------------------------------------------------------
(* Classification *)

SubkindKind == [approval_blocked |-> "approval_blocked",
                relay_gap_suspected |-> "relay_gap_suspected",
                pane_output_without_peer_msg |-> "silent_worker_output",
                pane_silent |-> "pane_silent", pane_crashed |-> "pane_crashed",
                worker_stalled |-> "worker_stalled",
                worker_not_reported |-> "worker_not_reported",
                error |-> "worker_error", awaiting_user |-> "secretary_awaiting_user"]

\* classify_event of a row read_events selects.
RowKind(form) ==
    CASE form[1] = "notify_sent" /\ form[2] \in DOMAIN SubkindKind -> SubkindKind[form[2]]
      [] form[1] = "ci_completed" /\ form[2] \in {"success", "succeeded", "passed"} -> "ci_passed"
      [] form[1] = "ci_completed" /\ form[2] \in {"failed", "canceled", "incomplete"} -> "ci_failed"
      [] form[1] \in {"worker_completed", "pr_merged"} -> form[1]
      [] OTHER -> "none"

\* DEFAULT_NOTIFY, the pins of the config (notify_map), and the demotion of what is old.
UrgentKinds == {"approval_blocked", "ci_failed", "ci_passed", "pending_decision",
                "user_reply_not_forwarded", "pane_crashed", "secretary_awaiting_user",
                "duplicate_sidecar", "delivery_superseded", "delivery_adopt_expired"}
Severity(kind, demote) ==
    IF kind \in DOMAIN raw.pins THEN raw.pins[kind]
    ELSE IF kind \in UrgentKinds /\ ~demote THEN "urgent" ELSE "normal"

\* _minutes_since: what cannot be read is Forever ago.
Forever == -5
MinutesSince(since, at) == IF since = Garbled THEN Forever ELSE at - since

\* _ttl_ladder.
Ladder(age, min) ==
    IF age = Forever THEN "urgent"
    ELSE IF age < min THEN "fresh"
    ELSE IF age >= Setting("pendingDrop") THEN "drop"
    ELSE IF age >= Setting("pendingMax") THEN "demote" ELSE "urgent"

\* The lines of the journal that are signals.
SignalKind == [duplicate_sidecar_detected |-> "duplicate_sidecar",
               delivery_register_superseded |-> "delivery_superseded",
               delivery_adopt_expired |-> "delivery_adopt_expired"]

\* An AttentionEvent.  "events" is remembered for good, the rest cools down.
Alert(ns, kind, id, severity, suppressed) ==
    [key |-> <<ns, kind, id>>, severity |-> severity, suppressed |-> suppressed]
Keys == ({"events"} \X {"event"} \X Rows)
        \cup ({"pending"} \X {"pending_decision", "user_reply_not_forwarded"} \X Tasks)
        \cup {<<"pending", l[1], l[2]>> : l \in {m \in Lines : m[1] \in DOMAIN SignalKind}}

\* classify_event, and classify_all for its age.
RowAlerts(i, at) ==
    LET kind == RowKind(row[i].form)
        old  == /\ Setting("eventWindow") > 0 /\ row[i].at # Garbled
                /\ at - row[i].at > Setting("eventWindow")
    IN IF kind = "none" THEN {}
       ELSE {Alert("events", "event", i, Severity(kind, FALSE), old)}

\* classify_pending.
Laddered(kind, t, since, at, min) ==
    LET tier == Ladder(MinutesSince(since, at), min)
    IN IF tier = "fresh" THEN {}
       ELSE {Alert("pending", kind, t, Severity(kind, tier \in {"demote", "drop"}), tier = "drop")}
DecisionAlerts(t, at) ==
    LET d == decision[t]
    IN IF d.status = "pending"
       THEN Laddered("pending_decision", t, d.received, at, Setting("pendingMin"))
       ELSE IF d.status = "escalated" /\ d.replied # Never /\ ~d.forwarded
       THEN Laddered("user_reply_not_forwarded", t, d.replied, at, Setting("repliedMin"))
       ELSE {}

\* What the journal still says, one alert for each incident.
DuplicateLines(at) ==
    BrokerEvents(journal, {"duplicate_sidecar_detected"}, at - Setting("duplicateWindow"), Chunk, Cap)
SignalLines(at) ==
    BrokerEvents(journal, {"delivery_register_superseded", "delivery_adopt_expired"},
                 at - Setting("deliveryWindow"), Chunk, Cap)
LineAlert(line) ==
    Alert("pending", line.event, line.of, Severity(SignalKind[line.event], FALSE), FALSE)
DuplicateAlerts(at) == {LineAlert(journal[l]) : l \in DuplicateLines(at)}
SignalAlerts(at) == {LineAlert(journal[l]) : l \in SignalLines(at)}

----------------------------------------------------------------------------
(* The processes that write the state directory *)

NoDecision == [status |-> "none", received |-> Never, replied |-> Never, forwarded |-> FALSE]

Ticks ==
    /\ now < MaxNow
    /\ now' = now + 1
    /\ UNCHANGED <<worldVars, notified, scanner, rang, spoils, repeats>>

World == UNCHANGED <<now, raw, notified, scanner, rang, spoils, repeats>>

RowIsWritten(i) ==
    /\ row[i].at = Never
    /\ \E form \in RowForms, at \in {now, Garbled} : row' = [row EXCEPT ![i] = [at |-> at, form |-> form]]
    /\ UNCHANGED <<decision, journal, stamp>> /\ World

DecisionChanges(t) ==
    /\ \/ /\ decision[t].status = "none"
          /\ \E at \in {now, Garbled} :
                decision' = [decision EXCEPT ![t] = [@ EXCEPT !.status = "pending", !.received = at]]
       \/ /\ decision[t].status = "pending"
          /\ decision' = [decision EXCEPT ![t].status = "escalated"]
       \/ /\ decision[t].status = "escalated" /\ decision[t].replied = Never
          /\ decision' = [decision EXCEPT ![t].replied = now]
       \/ /\ decision[t].status = "escalated" /\ ~decision[t].forwarded
          /\ decision' = [decision EXCEPT ![t].forwarded = TRUE]
       \/ /\ decision[t].status # "none"
          /\ decision' = [decision EXCEPT ![t] = NoDecision]
    /\ UNCHANGED <<row, journal, stamp>> /\ World

\* StoreMixin._journal: the time is taken before the lock.
Stamps(w) ==
    /\ stamp[w] = Never /\ Len(journal) < MaxLines
    /\ stamp' = [stamp EXCEPT ![w] = now]
    /\ UNCHANGED <<row, decision, journal>> /\ World
Appends(w) ==
    /\ stamp[w] # Never /\ Len(journal) < MaxLines
    /\ \E l \in Lines, dated \in BOOLEAN :
          journal' = Append(journal, [event |-> l[1], of |-> l[2], off |-> FileSize(journal),
                                      len |-> l[3], ts |-> IF dated THEN stamp[w] ELSE Undated])
    /\ stamp' = [stamp EXCEPT ![w] = Never]
    /\ UNCHANGED <<row, decision>> /\ World

----------------------------------------------------------------------------
(* The scan *)

Scanners == {"watch", "scan"}
Fresh(pc, dry) == [pc |-> pc, at |-> 0, todo |-> {}, memo |-> [k \in Keys |-> Never],
                   dirty |-> FALSE, dry |-> dry]
Off == Fresh("off", FALSE)
Busy(p) == scanner[p].pc \in {"notify", "save"}
Scan == UNCHANGED <<now, worldVars>>
History == UNCHANGED <<rang, spoils, repeats>>

\* cmd_attention_watch: handlers first, then, guarded, the config.  cmd_attention_scan.
Starts(p) ==
    /\ scanner[p].pc = "off"
    /\ \E dry \in IF p = "scan" THEN BOOLEAN ELSE {FALSE} :
           scanner' = [scanner EXCEPT ![p] =
               Fresh(IF p = "watch" /\ ~Loads(raw) THEN "off" ELSE "read", dry)]
    /\ (p = "scan" => Loads(raw))
    /\ Scan /\ History /\ UNCHANGED notified

\* read_events and read_pending_decisions: what cannot be read is empty.
EventRows(readable) == {i \in Rows : readable /\ row[i].at # Never}
PendingTasks(readable) == {t \in Tasks : readable /\ decision[t].status # "none"}

\* classify_all, but for its order.
Alerts(at, rows, file) ==
    (UNION {RowAlerts(i, at) : i \in EventRows(rows)})
        \cup (UNION {DecisionAlerts(t, at) : t \in PendingTasks(file)})
        \cup DuplicateAlerts(at) \cup SignalAlerts(at)

\* Anything that disturbs what one scan remembers for the next.
Spoils == spoils < MaxSpoils /\ spoils' = spoils + 1

\* One pass reads everything (a source that cannot be read is empty), then the dedup
\* state.  Two passes at once do not see each other's.
Reads(p, rows, file) ==
    /\ scanner[p].pc = "read"
    /\ scanner' = [scanner EXCEPT ![p] =
          [@ EXCEPT !.pc = "notify", !.at = now, !.memo = notified, !.todo = Alerts(now, rows, file)]]
    /\ IF \E q \in Scanners \ {p} : Busy(q) THEN Spoils ELSE UNCHANGED spoils
    /\ Scan /\ UNCHANGED <<notified, rang, repeats>>

\* Mutant of ShouldNotify: everything is remembered for one pass only.
BugShouldNotify(memo, key, at) == memo[key] = Never \/ at # memo[key]
\* Mutant of ShouldNotify: what rang once is never asked again.
DeafShouldNotify(memo, key, at) == memo[key] = Never
\* should_notify.
ShouldNotify(memo, key, at) ==
    \/ memo[key] = Never
    \/ key[1] # "events" /\ at - memo[key] >= Setting("cooldown")

\* Whether the backend shows a notification, and whether the bell rings: a toast that
\* is shown beeps itself.
DesktopIntended == raw.desktop /\ raw.backend # "stdout"
Dispatched(works) == DesktopIntended /\ works
PlaysSound(severity) ==
    raw.sound = "all" \/ (raw.sound = "urgent-only" /\ severity = "urgent")
Bell(severity, works) ==
    PlaysSound(severity) /\ ~(raw.backend = "windows-toast" /\ Dispatched(works))
\* FormattedNotification.reached_user: where no desktop is wanted, the log is enough.
Reached(severity, works) ==
    Dispatched(works) \/ Bell(severity, works) \/ ~DesktopIntended

Skips(p) ==
    /\ scanner[p].pc = "notify"
    /\ \E a \in scanner[p].todo :
          /\ a.suppressed \/ ~ShouldNotify(scanner[p].memo, a.key, scanner[p].at)
          /\ scanner' = [scanner EXCEPT ![p].todo = @ \ {a}]
    /\ Scan /\ History /\ UNCHANGED notified

\* Mutant of Marks: what was sent counts as notified.
BugMarks(p, severity, works) == TRUE
\* A dry run tells nobody and remembers nothing; a notification that reached nobody
\* is retried at the next pass.
Marks(p, severity, works) == ~scanner[p].dry /\ Reached(severity, works)

\* rang and repeats: whether this notification came again too early.
Early(key, at) ==
    rang[key] # Never /\ (key[1] = "events" \/ at - rang[key] < Setting("cooldown"))

Notifies(p, works) ==
    /\ scanner[p].pc = "notify"
    /\ \E a \in scanner[p].todo :
          /\ ~a.suppressed /\ ShouldNotify(scanner[p].memo, a.key, scanner[p].at)
          /\ scanner' = [scanner EXCEPT ![p] =
                IF Marks(p, a.severity, works)
                THEN [scanner[p] EXCEPT !.todo = @ \ {a}, !.memo[a.key] = scanner[p].at, !.dirty = TRUE]
                ELSE [scanner[p] EXCEPT !.todo = @ \ {a}]]
          /\ IF ~scanner[p].dry /\ Reached(a.severity, works)
             THEN /\ rang' = [rang EXCEPT ![a.key] = Max({@, scanner[p].at})]
                  /\ repeats' = [repeats EXCEPT ![a.key] =
                        IF Early(a.key, scanner[p].at) THEN @ + 1 ELSE @]
             ELSE UNCHANGED <<rang, repeats>>
    /\ Scan /\ UNCHANGED <<notified, spoils>>

\* save_state, once a pass: what this pass remembers replaces the file.
Saved(p) == IF scanner[p].dirty THEN scanner[p].memo ELSE notified

Saves(p) ==
    /\ scanner[p].pc = "notify" /\ scanner[p].todo = {}
    /\ notified' = Saved(p)
    /\ scanner' = [scanner EXCEPT ![p] = Fresh(IF p = "watch" THEN "read" ELSE "off", FALSE)]
    /\ Scan /\ History

\* SIGTERM, SIGHUP, an interrupt or an error anywhere in a pass (attention_watch_stopped
\* is recorded where it can be), or the save fails: what it remembers is lost.
Stops(p) ==
    /\ scanner[p].pc # "off"
    /\ scanner' = [scanner EXCEPT ![p] = Off]
    /\ IF scanner[p].dirty THEN Spoils ELSE UNCHANGED spoils
    /\ Scan /\ UNCHANGED <<notified, rang, repeats>>

\* The file is removed, or is not what load_state understands: it is empty.
DedupFileIsLost ==
    /\ Spoils
    /\ notified' = [k \in Keys |-> Never]
    /\ Scan /\ UNCHANGED <<scanner, rang, repeats>>

----------------------------------------------------------------------------
(* Specification *)

AttentionInit ==
    /\ now = 0
    /\ row = [i \in Rows |-> [at |-> Never, form |-> <<"none", "none">>]]
    /\ decision = [t \in Tasks |-> NoDecision]
    /\ journal = <<>>
    /\ stamp = [w \in Stampers |-> Never]
    /\ raw \in RawConfigs
    /\ notified = [k \in Keys |-> Never]
    /\ scanner = [p \in Scanners |-> Off]
    /\ rang = [k \in Keys |-> Never]
    /\ spoils = 0
    /\ repeats = [k \in Keys |-> 0]

Writes ==
    \/ Ticks
    \/ \E i \in Rows : RowIsWritten(i)
    \/ \E t \in Tasks : DecisionChanges(t)
    \/ \E w \in Stampers : Stamps(w) \/ Appends(w)
Finishes(p) == Skips(p) \/ Saves(p) \/ \E works \in BOOLEAN : Notifies(p, works)
AttentionNext ==
    \/ Writes
    \/ \E p \in Scanners : Starts(p) \/ Finishes(p) \/ Stops(p)
    \/ \E p \in Scanners, rows, file \in BOOLEAN : Reads(p, rows, file)
    \/ DedupFileIsLost

AttentionSpec == AttentionInit /\ [][AttentionNext]_attentionVars

----------------------------------------------------------------------------
(* Properties *)

\* Nothing is remembered as notified that did not reach the operator then or later
\* (cli._scan_once, FormattedNotification.reached_user): whatever scans overlap or
\* stop half-way, no alarm is silenced unheard.
SilencedOnlyAfterRinging ==
    \A k \in Keys : /\ notified[k] <= rang[k]
                    /\ \A p \in Scanners : scanner[p].memo[k] <= rang[k]

\* A row rings once and the rest no more than once in a cooldown (dedup.py), but for
\* two repetitions for each time a pass was cut short, ran beside another one (it rings
\* itself, and its older times replace the newer) or found the file gone.
RepeatsHaveACause == \A k \in Keys : repeats[k] <= 2 * spoils

\* No urgent alarm stays due forever while the watcher runs: what is lost or fails in
\* one pass is made good by a later one.
Due(k) ==
    /\ scanner["watch"].pc # "off" /\ raw.sound # "off"
    /\ \E a \in Alerts(now, TRUE, TRUE) :
          a.key = k /\ ~a.suppressed /\ a.severity = "urgent"
    /\ rang[k] = Never \/ (k[1] # "events" /\ now - rang[k] >= Setting("cooldown"))
UrgentAlarmsRing == \A k \in Keys : []<>~Due(k)

\* The walk back through the journal, in whatever chunks, finds every line the window
\* asks for or says that it was capped (readers._tail_lines_back_to), provided that
\* the lines are in the order of their times.
InOrder(lines) == \A i, j \in DOMAIN lines : i < j /\ lines[j].ts # Undated => lines[i].ts <= lines[j].ts
TailReads(cutoff, chunk, cap) ==
    \/ {i \in DOMAIN journal : journal[i].ts >= cutoff}
           \subseteq TailLines(journal, cutoff, chunk, cap)
    \/ TailCapped(journal, cutoff, chunk, cap)
Walks == (1..now) \X (1..4) \X {4, FileSize(journal) + 1}
TailReadsWindow == InOrder(journal) => \A w \in Walks : TailReads(w[1], w[2], w[3])

\* "The journal is a single daemon appending in time order" (_chunk_reaches_cutoff): then
\* the walk finds the lines of the window without that proviso.
TailReadsAlways == \A w \in Walks : TailReads(w[1], w[2], w[3])

\* A config that only raises lower bounds keeps loading (load_config, Issue #26), and
\* under every config that loads, a pending decision and an unforwarded reply each
\* have a time at which they are urgent, and get no louder afterwards.
\* (The config does not change: it is enough to ask at first.)
Quieter == [urgent |-> {"urgent", "demote", "drop"}, demote |-> {"demote", "drop"},
            drop |-> {"drop"}]
LadderIsClimbed(min) ==
    /\ \E age \in 0..Setting("pendingDrop") : Ladder(age, min) = "urgent"
    /\ \A age \in 0..Setting("pendingDrop") :
          Ladder(age, min) # "fresh" => Ladder(age + 1, min) \in Quieter[Ladder(age, min)]
ConfigsMakeALadder == now = 0 =>
    /\ (\A f \in Thresholds : raw[f] # Bad) /\ raw.pendingMax = Absent /\ raw.pendingDrop = Absent
          => Loads(raw)
    /\ Loads(raw) => LadderIsClimbed(Setting("pendingMin")) /\ LadderIsClimbed(Setting("repliedMin"))

=============================================================================
