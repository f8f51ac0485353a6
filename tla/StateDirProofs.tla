--------------------------- MODULE StateDirProofs ---------------------------
(***************************************************************************)
(* Theorems about the programs that work on the state directory.           *)
(* Attention, for any rows, decisions, journal and configs: nothing is     *)
(* silenced unheard, every config that loads makes a ladder, the walk back *)
(* through the journal misses no line, and what rings again too early has  *)
(* a cause.  Residents, for any processes, files and length of run: the    *)
(* sweep signals and forgets only what it should.                          *)
(***************************************************************************)
EXTENDS Attention, Residents, FiniteSetTheorems, WellFoundedInduction, TLAPS

----------------------------------------------------------------------------
(* What was notified, and when it rang *)

Times == [Keys -> Int]

\* A scanner is a record of these fields, whatever it has to do.
IsScanner(s) == s \in [pc : {"off", "read", "notify"}, at : Nat, todo : {s.todo}, memo : Times,
                       dirty : BOOLEAN, dry : BOOLEAN]

Remembered ==
    /\ now \in Nat /\ notified \in Times /\ rang \in Times
    /\ scanner = [p \in Scanners |-> scanner[p]]
    /\ \A p \in Scanners : IsScanner(scanner[p])
    /\ \A k \in Keys : rang[k] >= Never

AttentionInv == Remembered /\ SilencedOnlyAfterRinging

LEMMA MaxOfTwo == ASSUME NEW a \in Int, NEW b \in Int
                  PROVE  Max({a, b}) \in {a, b} /\ Max({a, b}) >= a /\ Max({a, b}) >= b
<1>1. \E x \in {a, b} : \A y \in {a, b} : x >= y
  <2>1. CASE a >= b  BY <2>1
  <2>2. CASE b >= a  BY <2>2
  <2>. QED  BY <2>1, <2>2
<1>2. Max({a, b}) \in {a, b} /\ \A y \in {a, b} : Max({a, b}) >= y  BY <1>1 DEF Max
<1>. QED  BY <1>2

\* A scanner that has just started, or stopped.
LEMMA FreshIsScanner ==
    ASSUME NEW pc \in {"off", "read", "notify"}, NEW dry \in BOOLEAN
    PROVE  IsScanner(Fresh(pc, dry)) /\ \A k \in Keys : Fresh(pc, dry).memo[k] = Never
<1>. DEFINE memo == [k \in Keys |-> Never]
<1>1. memo \in Times /\ \A k \in Keys : memo[k] = Never  BY DEF Times, Never
<1>2. Fresh(pc, dry).memo = memo /\ Fresh(pc, dry).todo = {}  BY DEF Fresh
<1>. HIDE DEF memo
<1>3. Fresh(pc, dry) = [pc |-> pc, at |-> 0, todo |-> {}, memo |-> memo, dirty |-> FALSE, dry |-> dry]
  BY DEF Fresh, memo
<1>4. Fresh(pc, dry) \in [pc : {"off", "read", "notify"}, at : Nat, todo : {{}}, memo : Times,
                         dirty : BOOLEAN, dry : BOOLEAN]
  BY <1>1, <1>3
<1>. QED  BY <1>1, <1>2, <1>4 DEF IsScanner

LEMMA OffIsScanner == IsScanner(Off) /\ \A k \in Keys : Off.memo[k] = Never
BY FreshIsScanner DEF Off

----------------------------------------------------------------------------
(* The steps *)

\* A step that changes one scanner only, to one that remembers nothing new.
LEMMA OneScanner ==
    ASSUME AttentionInv, NEW p \in Scanners, NEW s, IsScanner(s),
           scanner' = [scanner EXCEPT ![p] = s], now' \in Nat, UNCHANGED <<notified, rang>>,
           \A k \in Keys : s.memo[k] <= rang[k]
    PROVE  AttentionInv'
<1>1. scanner'[p] = s /\ \A q \in Scanners \ {p} : scanner'[q] = scanner[q]
  BY DEF AttentionInv, Remembered
<1>2. scanner' = [q \in Scanners |-> scanner'[q]]  BY DEF AttentionInv, Remembered
<1>3. Remembered'  BY <1>1, <1>2 DEF AttentionInv, Remembered, IsScanner
<1>4. SilencedOnlyAfterRinging'  BY <1>1 DEF AttentionInv, SilencedOnlyAfterRinging
<1>. QED  BY <1>3, <1>4 DEF AttentionInv

LEMMA StartsKeeps ==
    ASSUME AttentionInv, NEW p \in Scanners, Starts(p)
    PROVE  AttentionInv'
<1>1. PICK dry \in BOOLEAN, pc \in {"off", "read"} :
         scanner' = [scanner EXCEPT ![p] = Fresh(pc, dry)]
  BY DEF Starts
<1>3. now' \in Nat /\ UNCHANGED <<notified, rang>>
  BY DEF Starts, Scan, History, AttentionInv, Remembered
<1>4. \A k \in Keys : Fresh(pc, dry).memo[k] <= rang[k]
  BY FreshIsScanner DEF AttentionInv, Remembered, Times, Never
<1>. QED  BY <1>1, <1>3, <1>4, FreshIsScanner, OneScanner

LEMMA ReadsKeeps ==
    ASSUME AttentionInv, NEW p \in Scanners, NEW rows, NEW file, Reads(p, rows, file)
    PROVE  AttentionInv'
<1>. DEFINE s == [scanner[p] EXCEPT !.pc = "notify", !.at = now, !.memo = notified,
                                    !.todo = Alerts(now, rows, file)]
<1>1. scanner' = [scanner EXCEPT ![p] = s]  BY DEF Reads
<1>2. IsScanner(s) /\ s.memo = notified  BY DEF AttentionInv, Remembered, IsScanner
<1>3. now' \in Nat /\ UNCHANGED <<notified, rang>>  BY DEF Reads, Scan, AttentionInv, Remembered
<1>4. \A k \in Keys : s.memo[k] <= rang[k]
  BY <1>2 DEF AttentionInv, SilencedOnlyAfterRinging
<1>. HIDE DEF s
<1>. QED  BY <1>1, <1>2, <1>3, <1>4, OneScanner

LEMMA SkipsKeeps ==
    ASSUME AttentionInv, NEW p \in Scanners, Skips(p)
    PROVE  AttentionInv'
<1>1. PICK a : scanner' = [scanner EXCEPT ![p].todo = @ \ {a}]  BY DEF Skips
<1>. DEFINE s == [scanner[p] EXCEPT !.todo = @ \ {a}]
<1>2. scanner' = [scanner EXCEPT ![p] = s]  BY <1>1 DEF AttentionInv, Remembered
<1>3. IsScanner(s) /\ s.memo = scanner[p].memo  BY DEF AttentionInv, Remembered, IsScanner
<1>4. now' \in Nat /\ UNCHANGED <<notified, rang>>
  BY DEF Skips, Scan, History, AttentionInv, Remembered
<1>5. \A k \in Keys : s.memo[k] <= rang[k]
  BY <1>3 DEF AttentionInv, SilencedOnlyAfterRinging
<1>. HIDE DEF s
<1>. QED  BY <1>2, <1>3, <1>4, <1>5, OneScanner

\* What is marked as notified has just rung.
LEMMA NotifiesKeeps ==
    ASSUME AttentionInv, NEW p \in Scanners, NEW works, Notifies(p, works)
    PROVE  AttentionInv'
<1>. DEFINE old == scanner[p]
            s(a) == IF Marks(p, a.severity, works)
                    THEN [old EXCEPT !.todo = @ \ {a}, !.memo[a.key] = old.at, !.dirty = TRUE]
                    ELSE [old EXCEPT !.todo = @ \ {a}]
            top(a) == Max({rang[a.key], old.at})
<1>3. /\ IsScanner(old) /\ rang \in Times /\ notified \in Times /\ now \in Nat
      /\ old.at \in Int /\ old.memo \in Times /\ scanner = [q \in Scanners |-> scanner[q]]
  BY DEF AttentionInv, Remembered, IsScanner
<1>1. PICK a :
         /\ scanner' = [scanner EXCEPT ![p] = s(a)]
         /\ IF ~old.dry /\ Reached(a.severity, works)
            THEN rang' = [rang EXCEPT ![a.key] = top(a)]
            ELSE rang' = rang
  <2>1. PICK a :
         /\ scanner' = [scanner EXCEPT ![p] =
                IF Marks(p, a.severity, works)
                THEN [scanner[p] EXCEPT !.todo = @ \ {a}, !.memo[a.key] = scanner[p].at, !.dirty = TRUE]
                ELSE [scanner[p] EXCEPT !.todo = @ \ {a}]]
         /\ IF ~scanner[p].dry /\ Reached(a.severity, works)
            THEN rang' = [rang EXCEPT ![a.key] = Max({@, scanner[p].at})]
            ELSE UNCHANGED <<rang, repeats>>
    BY DEF Notifies
  <2>2. scanner' = [scanner EXCEPT ![p] = s(a)]  BY <2>1, <1>3
  <2>3. ~old.dry /\ Reached(a.severity, works) => rang' = [rang EXCEPT ![a.key] = top(a)]
    <3>1. CASE a.key \in Keys
      BY <2>1, <3>1, <1>3 DEF Times
    <3>2. CASE a.key \notin Keys
      BY <2>1, <3>2, <1>3 DEF Times
    <3>. QED  BY <3>1, <3>2
  <2>. QED  BY <2>1, <2>2, <2>3
<1>2. now' = now /\ notified' = notified  BY DEF Notifies, Scan
<1>4. rang' \in Times /\ \A k \in Keys : rang'[k] >= rang[k]
  <2>1. CASE a.key \in Keys
    <3>1. rang[a.key] \in Int  BY <1>3, <2>1 DEF Times
    <3>2. top(a) \in Int /\ top(a) >= rang[a.key]
      BY <1>3, <3>1, MaxOfTwo
    <3>. HIDE DEF old, s, top
    <3>. QED  BY <1>1, <1>3, <3>2 DEF Times
  <2>2. CASE a.key \notin Keys
    <3>1. rang' = rang  BY <1>1, <1>3, <2>2 DEF Times
    <3>. QED  BY <3>1, <1>3 DEF Times
  <2>. QED  BY <2>1, <2>2
<1>5. IsScanner(s(a))
  <2>. DEFINE memo == [old.memo EXCEPT ![a.key] = old.at]
  <2>1. memo \in Times  BY <1>3 DEF Times
  <2>2. s(a) \in {[old EXCEPT !.todo = @ \ {a}],
                 [old EXCEPT !.todo = @ \ {a}, !.memo = memo, !.dirty = TRUE]}
    BY <1>3 DEF IsScanner
  <2>. HIDE DEF memo, old
  <2>3. IsScanner([old EXCEPT !.todo = @ \ {a}])  BY <1>3 DEF IsScanner
  <2>4. IsScanner([old EXCEPT !.todo = @ \ {a}, !.memo = memo, !.dirty = TRUE])
    BY <1>3, <2>1 DEF IsScanner
  <2>. QED  BY <2>2, <2>3, <2>4
<1>6. \A k \in Keys : s(a).memo[k] <= rang'[k]
  <2>. SUFFICES ASSUME NEW k \in Keys PROVE s(a).memo[k] <= rang'[k]
    OBVIOUS
  <2>1. old.memo[k] <= rang[k] /\ old.memo[k] \in Int /\ rang[k] \in Int /\ rang'[k] \in Int
    BY <1>3, <1>4 DEF AttentionInv, SilencedOnlyAfterRinging, Times
  <2>2. CASE Marks(p, a.severity, works) /\ k = a.key
    <3>1. ~old.dry /\ Reached(a.severity, works)  BY <2>2 DEF Marks
    <3>2. rang'[k] = Max({rang[k], old.at})  BY <1>1, <1>3, <2>2, <3>1 DEF Times
    <3>3. rang'[k] >= old.at  BY <1>3, <2>1, <3>2, MaxOfTwo
    <3>4. s(a).memo[k] = old.at
      <4>1. s(a).memo = [old.memo EXCEPT ![a.key] = old.at]  BY <1>3, <2>2 DEF IsScanner
      <4>. QED  BY <4>1, <1>3, <2>2 DEF Times
    <3>. QED  BY <3>3, <3>4
  <2>3. CASE ~(Marks(p, a.severity, works) /\ k = a.key)
    <3>1. s(a).memo[k] = old.memo[k]
      <4>1. s(a).memo = old.memo \/ (s(a).memo = [old.memo EXCEPT ![a.key] = old.at] /\ k # a.key)
        BY <1>3, <2>3 DEF IsScanner
      <4>. QED  BY <4>1, <1>3 DEF Times
    <3>. QED  BY <3>1, <2>1, <1>4
  <2>. QED  BY <2>2, <2>3
<1>7. scanner' = [scanner EXCEPT ![p] = s(a)]  BY <1>1
<1>. HIDE DEF s, old
<1>8. /\ scanner' = [q \in Scanners |-> scanner'[q]] /\ scanner'[p] = s(a)
      /\ \A q \in Scanners \ {p} : scanner'[q] = scanner[q]
  BY <1>3, <1>7
<1>9. Remembered'
  <2>1. \A k \in Keys : rang'[k] >= Never
    BY <1>3, <1>4 DEF AttentionInv, Remembered, Times, Never
  <2>2. \A q \in Scanners : IsScanner(scanner[q])'
    BY <1>5, <1>8 DEF AttentionInv, Remembered, IsScanner
  <2>. QED  BY <1>2, <1>3, <1>4, <1>8, <2>1, <2>2 DEF Remembered
<1>10. SilencedOnlyAfterRinging'
  <2>1. \A k \in Keys : notified'[k] <= rang'[k]
    BY <1>2, <1>3, <1>4 DEF AttentionInv, SilencedOnlyAfterRinging, Times
  <2>2. \A k \in Keys, q \in Scanners \ {p} : scanner'[q].memo[k] <= rang'[k]
    BY <1>3, <1>4, <1>8 DEF AttentionInv, SilencedOnlyAfterRinging, Remembered, IsScanner, Times
  <2>. QED  BY <1>6, <1>8, <2>1, <2>2 DEF SilencedOnlyAfterRinging
<1>. QED  BY <1>9, <1>10 DEF AttentionInv

LEMMA SavesKeeps ==
    ASSUME AttentionInv, NEW p \in Scanners, Saves(p)
    PROVE  AttentionInv'
<1>1. PICK pc \in {"off", "read"} : scanner' = [scanner EXCEPT ![p] = Fresh(pc, FALSE)]
  BY DEF Saves
<1>. DEFINE s == Fresh(pc, FALSE)
<1>2. scanner' = [scanner EXCEPT ![p] = s]  BY <1>1
<1>3. /\ notified' \in {notified, scanner[p].memo} /\ now' = now /\ rang' = rang
  BY DEF Saves, Saved, Scan, History
<1>4. IsScanner(s) /\ \A k \in Keys : s.memo[k] = Never
  <2>1. FALSE \in BOOLEAN /\ pc \in {"off", "read", "notify"}  OBVIOUS
  <2>. QED  BY <2>1, FreshIsScanner
<1>. HIDE DEF s
<1>5. /\ scanner' = [q \in Scanners |-> scanner'[q]] /\ scanner'[p] = s
      /\ \A q \in Scanners \ {p} : scanner'[q] = scanner[q]
  BY <1>2 DEF AttentionInv, Remembered
<1>6. Remembered'
  <2>1. notified' \in Times  BY <1>3 DEF AttentionInv, Remembered, IsScanner
  <2>2. \A q \in Scanners : IsScanner(scanner[q])'
    BY <1>4, <1>5 DEF AttentionInv, Remembered, IsScanner
  <2>. QED  BY <1>3, <1>5, <2>1, <2>2 DEF AttentionInv, Remembered
<1>7. SilencedOnlyAfterRinging'
  <2>1. \A k \in Keys : notified'[k] <= rang[k]
    BY <1>3 DEF AttentionInv, SilencedOnlyAfterRinging
  <2>2. \A k \in Keys : s.memo[k] <= rang[k]
    BY <1>4 DEF AttentionInv, Remembered, Times, Never
  <2>. QED  BY <1>3, <1>5, <2>1, <2>2 DEF AttentionInv, SilencedOnlyAfterRinging
<1>. QED  BY <1>6, <1>7 DEF AttentionInv

LEMMA StopsKeeps ==
    ASSUME AttentionInv, NEW p \in Scanners, Stops(p)
    PROVE  AttentionInv'
<1>1. scanner' = [scanner EXCEPT ![p] = Off] /\ now' \in Nat /\ UNCHANGED <<notified, rang>>
  BY DEF Stops, Scan, AttentionInv, Remembered
<1>2. \A k \in Keys : Off.memo[k] <= rang[k]
  BY OffIsScanner DEF AttentionInv, Remembered, Times, Never
<1>. QED  BY <1>1, <1>2, OffIsScanner, OneScanner

LEMMA DedupFileIsLostKeeps ==
    ASSUME AttentionInv, DedupFileIsLost
    PROVE  AttentionInv'
<1>1. /\ notified' = [k \in Keys |-> Never] /\ UNCHANGED <<now, scanner, rang>>
  BY DEF DedupFileIsLost, Scan
<1>2. notified' \in Times /\ \A k \in Keys : notified'[k] <= rang[k]
  BY <1>1 DEF AttentionInv, Remembered, Times, Never
<1>. QED  BY <1>1, <1>2 DEF AttentionInv, Remembered, SilencedOnlyAfterRinging

LEMMA WritesKeeps ==
    ASSUME AttentionInv, Writes
    PROVE  AttentionInv'
<1>1. now' \in Nat /\ UNCHANGED <<notified, scanner, rang>>
  <2>1. CASE Ticks  BY <2>1 DEF Ticks, AttentionInv, Remembered
  <2>2. ASSUME NEW i \in Rows, RowIsWritten(i) PROVE World
    BY <2>2 DEF RowIsWritten
  <2>3. ASSUME NEW t \in Tasks, DecisionChanges(t) PROVE World
    BY <2>3 DEF DecisionChanges
  <2>4. ASSUME NEW w \in Stampers, Stamps(w) \/ Appends(w) PROVE World
    BY <2>4 DEF Stamps, Appends
  <2>5. World => now' \in Nat /\ UNCHANGED <<notified, scanner, rang>>
    BY DEF World, AttentionInv, Remembered
  <2>. QED  BY <2>1, <2>2, <2>3, <2>4, <2>5 DEF Writes
<1>. QED  BY <1>1 DEF AttentionInv, Remembered, SilencedOnlyAfterRinging

LEMMA AttentionStart == AttentionInit => AttentionInv
<1>. SUFFICES ASSUME AttentionInit PROVE AttentionInv
  OBVIOUS
<1>1. IsScanner(Off) /\ \A k \in Keys : Off.memo[k] = Never  BY OffIsScanner
<1>. QED
  BY <1>1 DEF AttentionInit, AttentionInv, Remembered, SilencedOnlyAfterRinging, Times, Never

LEMMA AttentionStep == AttentionInv /\ [AttentionNext]_attentionVars => AttentionInv'
<1>. SUFFICES ASSUME AttentionInv, [AttentionNext]_attentionVars PROVE AttentionInv'
  OBVIOUS
<1>1. CASE Writes  BY <1>1, WritesKeeps
<1>2. ASSUME NEW p \in Scanners, Starts(p) \/ Finishes(p) \/ Stops(p) PROVE AttentionInv'
  BY <1>2, StartsKeeps, SkipsKeeps, NotifiesKeeps, SavesKeeps, StopsKeeps DEF Finishes
<1>3. ASSUME NEW p \in Scanners, NEW rows \in BOOLEAN, NEW file \in BOOLEAN,
             Reads(p, rows, file)
      PROVE  AttentionInv'
  BY <1>3, ReadsKeeps
<1>4. CASE DedupFileIsLost  BY <1>4, DedupFileIsLostKeeps
<1>5. CASE UNCHANGED attentionVars
  BY <1>5 DEF attentionVars, AttentionInv, Remembered, SilencedOnlyAfterRinging
<1>. QED  BY <1>1, <1>2, <1>3, <1>4, <1>5 DEF AttentionNext

\* Whatever scans overlap, stop half-way or find the dedup file gone, and whatever
\* backends fail: nothing is silenced that did not reach the operator at that time or
\* later (cli._scan_once marks only what FormattedNotification.reached_user).
THEOREM AttentionHeard == AttentionSpec => []SilencedOnlyAfterRinging
<1>1. AttentionInv => SilencedOnlyAfterRinging  BY DEF AttentionInv
<1>. QED  BY <1>1, AttentionStart, AttentionStep, PTL DEF AttentionSpec

----------------------------------------------------------------------------
(* Configurations *)

LEMMA MaxOfThree == ASSUME NEW a \in Int, NEW b \in Int, NEW c \in Int
                    PROVE  /\ Max({a, b, c}) \in Int
                           /\ Max({a, b, c}) >= a /\ Max({a, b, c}) >= b /\ Max({a, b, c}) >= c
<1>1. \E x \in {a, b, c} : \A y \in {a, b, c} : x >= y
  <2>1. CASE a >= b /\ a >= c  BY <2>1
  <2>2. CASE b >= a /\ b >= c  BY <2>2
  <2>3. CASE c >= a /\ c >= b  BY <2>3
  <2>. QED  BY <2>1, <2>2, <2>3
<1>2. Max({a, b, c}) \in {a, b, c} /\ \A y \in {a, b, c} : Max({a, b, c}) >= y  BY <1>1 DEF Max
<1>. QED  BY <1>2

\* The thresholds of a config without a bad one.
LEMMA GivenThresholds ==
    ASSUME NEW r \in RawConfigs, \A f \in Thresholds : r[f] # Bad
    PROVE  /\ \A f \in Thresholds : Given(r, f) \in Nat
           /\ ScaledMax(r) \in Int /\ ScaledDrop(r) \in Int
           /\ r.pendingMax = Absent =>
                 ScaledMax(r) > Given(r, "pendingMin") /\ ScaledMax(r) > Given(r, "repliedMin")
           /\ r.pendingDrop = Absent => ScaledDrop(r) > ScaledMax(r)
<1>1. Defaults \in [Thresholds -> Nat] /\ \A f \in Thresholds : r[f] \in Nat \cup {Absent}
  BY AttentionConstants
<1>2. \A f \in Thresholds : Given(r, f) \in Nat /\ Defaults[f] \in Nat  BY <1>1 DEF Given
<1>3. /\ Given(r, "pendingMin") \in Nat /\ Given(r, "repliedMin") \in Nat
      /\ Defaults.pendingMax \in Nat /\ Defaults.pendingDrop \in Nat
      /\ r.pendingMax \in Nat \cup {Absent} /\ r.pendingDrop \in Nat \cup {Absent}
  BY <1>1, <1>2 DEF Thresholds
<1>4. PICK m \in Int : /\ m = Max({Defaults.pendingMax, Given(r, "pendingMin") + 1, Given(r, "repliedMin") + 1})
                       /\ m > Given(r, "pendingMin") /\ m > Given(r, "repliedMin")
  <2>1. PICK a \in Int, b \in Int, c \in Int :
           a = Defaults.pendingMax /\ b = Given(r, "pendingMin") + 1 /\ c = Given(r, "repliedMin") + 1
    BY <1>3
  <2>2. /\ Max({a, b, c}) \in Int
        /\ Max({a, b, c}) > Given(r, "pendingMin") /\ Max({a, b, c}) > Given(r, "repliedMin")
    <3>1. Max({a, b, c}) \in Int /\ Max({a, b, c}) >= b /\ Max({a, b, c}) >= c
      BY MaxOfThree
    <3>. QED  BY <1>3, <2>1, <3>1
  <2>. QED  BY <2>1, <2>2, Zenon
<1>5. ScaledMax(r) = IF r.pendingMax # Absent THEN r.pendingMax ELSE m  BY <1>4 DEF ScaledMax
<1>6. ScaledMax(r) \in Int  BY <1>3, <1>5 DEF Absent
<1>7. ScaledDrop(r) \in Int /\ (r.pendingDrop = Absent => ScaledDrop(r) > ScaledMax(r))
  BY <1>3, <1>6 DEF ScaledDrop, Absent
<1>. QED  BY <1>2, <1>4, <1>5, <1>6, <1>7

LEMMA LadderOf ==
    ASSUME raw \in RawConfigs, Loads(raw), NEW min \in Nat, min < ScaledMax(raw)
    PROVE  LadderIsClimbed(min)
<1>1. PICK top \in Int, end \in Int : /\ top = Setting("pendingMax") /\ end = Setting("pendingDrop")
                                      /\ min < top /\ top < end
  <2>1. ScaledMax(raw) \in Int /\ ScaledDrop(raw) \in Int  BY GivenThresholds DEF Loads
  <2>. QED  BY <2>1 DEF Setting, Loads
<1>2. \A age \in Nat : Ladder(age, min) = IF age < min THEN "fresh" ELSE IF age >= end THEN "drop"
                                          ELSE IF age >= top THEN "demote" ELSE "urgent"
  BY <1>1 DEF Ladder, Forever
<1>3. min \in 0..Setting("pendingDrop") /\ Ladder(min, min) = "urgent"  BY <1>1, <1>2
<1>4. ASSUME NEW age \in 0..Setting("pendingDrop"), Ladder(age, min) # "fresh"
      PROVE  Ladder(age + 1, min) \in Quieter[Ladder(age, min)]
  <2>1. age \in Nat /\ age + 1 \in Nat  BY <1>1
  <2>2. /\ Quieter["urgent"] = {"urgent", "demote", "drop"}
        /\ Quieter["demote"] = {"demote", "drop"} /\ Quieter["drop"] = {"drop"}
    BY DEF Quieter
  <2>3. age >= min  BY <1>2, <1>4, <2>1
  <2>4. CASE age >= end
    <3>1. Ladder(age, min) = "drop" /\ Ladder(age + 1, min) = "drop"  BY <1>1, <1>2, <2>1, <2>3, <2>4
    <3>. QED  BY <2>2, <3>1
  <2>5. CASE age < end /\ age >= top
    <3>1. Ladder(age, min) = "demote" /\ Ladder(age + 1, min) \in {"demote", "drop"}
      BY <1>1, <1>2, <2>1, <2>3, <2>5
    <3>. QED  BY <2>2, <3>1
  <2>6. CASE age < top
    <3>1. Ladder(age, min) = "urgent" /\ Ladder(age + 1, min) \in {"urgent", "demote", "drop"}
      BY <1>1, <1>2, <2>1, <2>3, <2>6
    <3>. QED  BY <2>2, <3>1
  <2>. QED  BY <1>1, <2>1, <2>4, <2>5, <2>6
<1>. QED  BY <1>3, <1>4 DEF LadderIsClimbed

Configured == raw \in RawConfigs

LEMMA ConfigStep == Configured /\ [AttentionNext]_attentionVars => Configured'
<1>. SUFFICES ASSUME Configured, [AttentionNext]_attentionVars PROVE UNCHANGED raw
  BY DEF Configured
<1>1. CASE Writes
  <2>1. World => UNCHANGED raw  BY DEF World
  <2>. QED  BY <1>1, <2>1 DEF Writes, Ticks, worldVars, RowIsWritten, DecisionChanges, Stamps, Appends
<1>2. Scan => UNCHANGED raw  BY DEF Scan, worldVars
<1>3. ASSUME NEW p \in Scanners, Starts(p) \/ Finishes(p) \/ Stops(p) PROVE Scan
  BY <1>3 DEF Starts, Finishes, Stops, Skips, Saves, Notifies
<1>4. ASSUME NEW p \in Scanners, NEW rows, NEW file, Reads(p, rows, file) PROVE Scan
  BY <1>4 DEF Reads
<1>5. CASE DedupFileIsLost  BY <1>2, <1>5 DEF DedupFileIsLost
<1>6. CASE UNCHANGED attentionVars  BY <1>6 DEF attentionVars, worldVars
<1>. QED  BY <1>1, <1>2, <1>3, <1>4, <1>5, <1>6 DEF AttentionNext

\* Every config that only raises lower bounds loads, and under every one that loads what
\* waits becomes urgent at some age and never louder afterwards (load_config, _ttl_ladder).
THEOREM EveryConfigMakesALadder == AttentionSpec => []ConfigsMakeALadder
<1>1. AttentionInit => Configured  BY DEF AttentionInit, Configured
<1>2. Configured => ConfigsMakeALadder
  <2>. SUFFICES ASSUME raw \in RawConfigs PROVE ConfigsMakeALadder
    BY DEF Configured
  <2>1. ASSUME \A f \in Thresholds : raw[f] # Bad, raw.pendingMax = Absent, raw.pendingDrop = Absent
        PROVE  Loads(raw)
    BY <2>1, GivenThresholds DEF Loads
  <2>2. ASSUME Loads(raw)
        PROVE  LadderIsClimbed(Setting("pendingMin")) /\ LadderIsClimbed(Setting("repliedMin"))
    <3>1. \A f \in Thresholds : Given(raw, f) \in Nat  BY <2>2, GivenThresholds DEF Loads
    <3>2. /\ Setting("pendingMin") = Given(raw, "pendingMin") /\ Given(raw, "pendingMin") \in Nat
          /\ Setting("repliedMin") = Given(raw, "repliedMin") /\ Given(raw, "repliedMin") \in Nat
      BY <3>1 DEF Setting, Thresholds
    <3>3. Given(raw, "pendingMin") < ScaledMax(raw) /\ Given(raw, "repliedMin") < ScaledMax(raw)
      <4>1. ScaledMax(raw) \in Int  BY <2>2, GivenThresholds DEF Loads
      <4>. QED  BY <2>2, <3>2, <4>1 DEF Loads
    <3>. QED  BY <2>2, <3>2, <3>3, LadderOf
  <2>. QED  BY <2>1, <2>2 DEF ConfigsMakeALadder
<1>. QED  BY <1>1, <1>2, ConfigStep, PTL DEF AttentionSpec

----------------------------------------------------------------------------
(* The walk through the journal *)

LEMMA LeastNatural ==
    ASSUME NEW S \in SUBSET Nat, S # {}
    PROVE  Min(S) \in S /\ \A y \in S : Min(S) <= y
<1>. DEFINE R == StrictSubsetOrdering(Nat)
            T == {0..x : x \in S}
<1>1. T \subseteq FiniteSubsetsOf(Nat)
  <2>1. \A x \in S : IsFiniteSet(0..x) /\ 0..x \subseteq Nat  BY FS_Interval
  <2>. QED  BY <2>1 DEF FiniteSubsetsOf
<1>2. IsWellFoundedOn(R, FiniteSubsetsOf(Nat))  BY FS_StrictSubsetOrderingWellFounded
<1>3. T # {}  OBVIOUS
<1>. HIDE DEF R, T
<1>4. PICK t \in T : \A u \in T : <<u, t>> \notin R  BY <1>1, <1>2, <1>3, WFMin
<1>5. PICK x \in S : t = 0..x  BY DEF T
<1>6. ASSUME NEW y \in S PROVE x <= y
  <2>1. 0..y \in T  BY DEF T
  <2>2. <<0..y, 0..x>> \notin R  BY <1>4, <1>5, <2>1
  <2>3. SUFFICES ASSUME y < x PROVE FALSE  OBVIOUS
  <2>4. 0..y \subseteq 0..x /\ 0..y # 0..x /\ 0..x \subseteq Nat  BY <2>3
  <2>. QED  BY <2>2, <2>4 DEF R, StrictSubsetOrdering
<1>. QED  BY <1>6 DEF Min

Line == [event : {l[1] : l \in Lines}, of : {l[2] : l \in Lines}, off : Nat, len : Nat \ {0}, ts : Int]

\* Every line begins where the one before it ends.
Laid == \A i, j \in DOMAIN journal : i < j => journal[i].off < journal[j].off
JournalInv == journal \in Seq(Line) /\ stamp \in [Stampers -> Int] /\ now \in Nat /\ Laid

LEMMA SizeOfFile == ASSUME journal \in Seq(Line) PROVE FileSize(journal) \in Nat
<1>1. CASE journal = <<>>  BY <1>1 DEF FileSize
<1>2. CASE journal # <<>>
  <2>1. journal[Len(journal)] \in Line  BY <1>2
  <2>. QED  BY <1>2, <2>1 DEF FileSize, Line
<1>. QED  BY <1>1, <1>2

LEMMA StartOfChunk ==
    ASSUME journal \in Seq(Line), NEW chunk \in Nat \ {0}, NEW k \in Nat
    PROVE  /\ ChunkStart(journal, chunk, k) \in Nat
           /\ k = FileSize(journal) => ChunkStart(journal, chunk, k) = 0
<1>1. PICK n \in Nat : n = FileSize(journal)  BY SizeOfFile
<1>2. PICK x \in Int : x = n - k * chunk  OBVIOUS
<1>3. ChunkStart(journal, chunk, k) = Max({0, x})  BY <1>1, <1>2 DEF ChunkStart
<1>4. Max({0, x}) \in {0, x} /\ Max({0, x}) >= 0 /\ Max({0, x}) >= x
  <2>1. PICK zero \in Int : zero = 0  OBVIOUS
  <2>2. Max({zero, x}) \in {zero, x} /\ Max({zero, x}) >= zero /\ Max({zero, x}) >= x  BY MaxOfTwo
  <2>. QED  BY <2>1, <2>2
<1>5. ASSUME k = n PROVE x <= 0
  <2>1. k * chunk >= k  OBVIOUS
  <2>. QED  BY <1>2, <1>5, <2>1
<1>. QED  BY <1>1, <1>3, <1>4, <1>5

\* The walk ends after some chunk.
LEMMA WalkEnds ==
    ASSUME journal \in Seq(Line), NEW cutoff, NEW chunk \in Nat \ {0}, NEW cap
    PROVE  ChunksRead(journal, cutoff, chunk, cap) \in Nat
<1>1. PICK n \in Nat : n = FileSize(journal)  BY SizeOfFile
<1>2. PICK S : S = {k \in 0..n :
            \/ ChunkStart(journal, chunk, k) = 0
            \/ n - ChunkStart(journal, chunk, k) >= cap
            \/ k > 0 /\ ReachesCutoff(journal, cutoff, chunk, k)}
  OBVIOUS
<1>3. S \in SUBSET Nat /\ n \in S
  <2>1. ChunkStart(journal, chunk, n) = 0 /\ n \in 0..n  BY <1>1, StartOfChunk
  <2>2. n \in S  BY <1>2, <2>1
  <2>3. S \subseteq 0..n  BY <1>2
  <2>. QED  BY <2>2, <2>3
<1>4. Min(S) \in Nat  BY <1>3, LeastNatural
<1>. QED  BY <1>1, <1>2, <1>4 DEF ChunksRead

\* In whatever chunks it walks, it returns every line of the window or says that it was
\* capped.
LEMMA TailIsRead ==
    ASSUME JournalInv, InOrder(journal), NEW cutoff \in Nat, NEW chunk \in Nat \ {0}, NEW cap
    PROVE  TailReads(cutoff, chunk, cap)
<1>1. PICK k \in Nat : k = ChunksRead(journal, cutoff, chunk, cap)  BY WalkEnds DEF JournalInv
<1>2. PICK start \in Nat : start = ChunkStart(journal, chunk, k)  BY StartOfChunk DEF JournalInv
<1>3. SUFFICES ASSUME ~TailCapped(journal, cutoff, chunk, cap),
                      NEW i \in DOMAIN journal, journal[i].ts >= cutoff
               PROVE  start = 0 \/ journal[i].off > start
  BY <1>1, <1>2 DEF TailReads, TailLines
<1>4. SUFFICES ASSUME start # 0 PROVE journal[i].off > start
  OBVIOUS
<1>5. ReachesCutoff(journal, cutoff, chunk, k)  BY <1>1, <1>2, <1>3, <1>4 DEF TailCapped
<1>6. PICK dated : dated = {j \in Whole(journal, chunk, k) : journal[j].ts # Undated}  OBVIOUS
<1>7. PICK m : m = Min(dated)  OBVIOUS
<1>8. m \in dated /\ journal[m].ts < cutoff
  <2>1. dated # {} /\ journal[m].ts < cutoff  BY <1>5, <1>6, <1>7 DEF ReachesCutoff
  <2>2. dated \in SUBSET Nat  BY <1>6 DEF Whole, JournalInv
  <2>. QED  BY <1>7, <2>1, <2>2, LeastNatural
<1>9. m \in DOMAIN journal /\ journal[m].off > start /\ journal[m].ts # Undated
  BY <1>2, <1>4, <1>6, <1>8 DEF Whole
<1>10. /\ i \in Nat /\ m \in Nat /\ journal[i].ts \in Int /\ journal[m].ts \in Int
       /\ journal[i].off \in Nat /\ journal[m].off \in Nat
  <2>1. journal[i] \in Line /\ journal[m] \in Line /\ DOMAIN journal \subseteq Nat
    BY <1>9 DEF JournalInv
  <2>. QED  BY <1>9, <2>1 DEF Line
<1>11. i > m
  <2>1. i < m => journal[i].ts <= journal[m].ts  BY <1>9 DEF InOrder
  <2>. QED  BY <1>3, <1>8, <1>10, <2>1
<1>. QED  BY <1>9, <1>10, <1>11 DEF JournalInv, Laid

LEMMA AppendsLays == ASSUME JournalInv, NEW w \in Stampers, Appends(w) PROVE JournalInv'
<1>1. PICK l \in Lines, dated \in BOOLEAN :
         journal' = Append(journal, [event |-> l[1], of |-> l[2], off |-> FileSize(journal),
                                     len |-> l[3], ts |-> IF dated THEN stamp[w] ELSE Undated])
  BY DEF Appends
<1>2. PICK line : line = [event |-> l[1], of |-> l[2], off |-> FileSize(journal),
                          len |-> l[3], ts |-> IF dated THEN stamp[w] ELSE Undated]
  OBVIOUS
<1>3. line \in Line /\ line.off = FileSize(journal)
  BY <1>2, SizeOfFile, AttentionConstants DEF JournalInv, Line, Undated
<1>4. journal' = Append(journal, line) /\ journal' \in Seq(Line)  BY <1>1, <1>2, <1>3 DEF JournalInv
<1>5. /\ Len(journal') = Len(journal) + 1 /\ journal'[Len(journal) + 1] = line
      /\ \A i \in DOMAIN journal : journal'[i] = journal[i]
  BY <1>3, <1>4 DEF JournalInv
<1>6. \A i \in DOMAIN journal : journal[i].off < FileSize(journal)
  <2>1. SUFFICES ASSUME NEW i \in DOMAIN journal PROVE journal[i].off < FileSize(journal)
    OBVIOUS
  <2>2. PICK n \in Nat : n = Len(journal) /\ DOMAIN journal = 1..n  BY DEF JournalInv
  <2>3. n \in DOMAIN journal /\ journal # <<>> /\ FileSize(journal) = journal[n].off + journal[n].len
    BY <2>2 DEF FileSize
  <2>4. journal[i] \in Line /\ journal[n] \in Line  BY <2>3 DEF JournalInv
  <2>5. i < n => journal[i].off < journal[n].off  BY <2>3 DEF JournalInv, Laid
  <2>. QED  BY <2>2, <2>3, <2>4, <2>5 DEF Line
<1>7. Laid'
  <2>1. SUFFICES ASSUME NEW i \in DOMAIN journal', NEW j \in DOMAIN journal', i < j
                 PROVE  journal'[i].off < journal'[j].off
    BY DEF Laid
  <2>2. i \in 1..Len(journal) + 1 /\ j \in 1..Len(journal) + 1 /\ DOMAIN journal = 1..Len(journal)
    BY <1>4, <1>5 DEF JournalInv
  <2>3. CASE j \in DOMAIN journal  BY <1>5, <2>1, <2>2, <2>3 DEF JournalInv, Laid
  <2>4. CASE j \notin DOMAIN journal  BY <1>3, <1>5, <1>6, <2>1, <2>2, <2>4 DEF JournalInv
  <2>. QED  BY <2>3, <2>4
<1>8. stamp' \in [Stampers -> Int] /\ now' \in Nat  BY DEF Appends, World, JournalInv, Never
<1>. QED  BY <1>4, <1>7, <1>8 DEF JournalInv

LEMMA JournalStep == JournalInv /\ [AttentionNext]_attentionVars => JournalInv'
<1>. SUFFICES ASSUME JournalInv, [AttentionNext]_attentionVars PROVE JournalInv'
  OBVIOUS
<1>1. ASSUME UNCHANGED <<journal, stamp>>, now' \in Nat PROVE JournalInv'
  BY <1>1 DEF JournalInv, Laid
<1>2. CASE Ticks  BY <1>1, <1>2 DEF Ticks, worldVars, JournalInv
<1>3. ASSUME NEW i \in Rows, RowIsWritten(i) PROVE JournalInv'
  BY <1>1, <1>3 DEF RowIsWritten, World, JournalInv
<1>4. ASSUME NEW t \in Tasks, DecisionChanges(t) PROVE JournalInv'
  <2>1. UNCHANGED <<journal, stamp, now>>  BY <1>4 DEF DecisionChanges, World
  <2>. QED  BY <1>1, <2>1 DEF JournalInv
<1>5. ASSUME NEW w \in Stampers, Stamps(w) PROVE JournalInv'
  BY <1>5 DEF Stamps, World, JournalInv, Laid
<1>6. ASSUME NEW w \in Stampers, Appends(w) PROVE JournalInv'  BY <1>6, AppendsLays
<1>7. ASSUME Scan PROVE JournalInv'  BY <1>1, <1>7 DEF Scan, worldVars, JournalInv
<1>8. ASSUME NEW p \in Scanners, Starts(p) \/ Finishes(p) \/ Stops(p) PROVE Scan
  BY <1>8 DEF Starts, Finishes, Stops, Skips, Saves, Notifies
<1>9. ASSUME NEW p \in Scanners, NEW rows, NEW file, Reads(p, rows, file) PROVE Scan
  BY <1>9 DEF Reads
<1>10. DedupFileIsLost => Scan  BY DEF DedupFileIsLost
<1>11. CASE UNCHANGED attentionVars  BY <1>1, <1>11 DEF attentionVars, worldVars, JournalInv
<1>. QED
  BY <1>2, <1>3, <1>4, <1>5, <1>6, <1>7, <1>8, <1>9, <1>10, <1>11 DEF AttentionNext, Writes

\* As long as the lines are in the order of their times, the walk back through the journal
\* finds every line the window asks for or says that it was capped, whatever the chunks
\* (_tail_lines_back_to).
THEOREM TailsAreRead == AttentionSpec => []TailReadsWindow
<1>1. AttentionInit => JournalInv
  BY DEF AttentionInit, JournalInv, Laid, Never
<1>2. JournalInv => TailReadsWindow
  <2>. SUFFICES ASSUME JournalInv, InOrder(journal), NEW w \in Walks PROVE TailReads(w[1], w[2], w[3])
    BY DEF TailReadsWindow
  <2>1. w[1] \in Nat /\ w[2] \in Nat \ {0}  BY DEF Walks, JournalInv
  <2>. QED  BY <2>1, TailIsRead
<1>. QED  BY <1>1, <1>2, JournalStep, PTL DEF AttentionSpec

----------------------------------------------------------------------------
(* Repetitions *)

\* How often a key k may yet ring too early before anything else goes wrong, if it last rang
\* at last, file is its time in the dedup file, and s and t are the two scanners.

Runs(s) == s.pc = "notify"
UpToDate(s, k, last) == s.memo[k] = last
MayRing(s, k) == IF \E a \in s.todo : a.key = k THEN 1 ELSE 0

\* No pass is under way: the next one, if the file is behind.
Idle(file, last) == IF file = last THEN 0 ELSE 1
\* One pass: a later one, if this one leaves the file behind; this one, if it is behind, and
\* a later one once more if this one's time is older than the last ring.
Alone(s, k, file, last) ==
    IF UpToDate(s, k, last)
    THEN IF file # last /\ (~s.dirty \/ MayRing(s, k) = 1) THEN 1 ELSE 0
    ELSE IF s.at < last THEN 1 + MayRing(s, k) ELSE 1
\* Two: each of them, and a later one after the older of them has saved; but of two that
\* are up to date the first does not ring too early.
Both(s, t, k, last) ==
    IF UpToDate(s, k, last) /\ UpToDate(t, k, last)
    THEN IF MayRing(s, k) + MayRing(t, k) = 2 THEN 2 ELSE 1
    ELSE MayRing(s, k) + MayRing(t, k) + 1
Dues(s, t, k, file, last) ==
    IF Runs(s)
    THEN IF Runs(t) THEN Both(s, t, k, last) ELSE Alone(s, k, file, last)
    ELSE IF Runs(t) THEN Alone(t, k, file, last) ELSE Idle(file, last)

Owed(k) == Dues(scanner["watch"], scanner["scan"], k, notified[k], rang[k])
Repeated ==
    /\ spoils \in Nat /\ repeats \in [Keys -> Nat]
    /\ \A k \in Keys : repeats[k] + Owed(k) <= 2 * spoils

\* A config that loaded is in force, nothing rang later than now, and a pass has one alert
\* for a key.
Passing == \A p \in Scanners : scanner[p].pc # "off" => Loads(raw)
Timed == /\ \A k \in Keys : rang[k] <= now
         /\ \A p \in Scanners : scanner[p].at <= now
OnePerKey(alerts) == \A a, b \in alerts : a.key = b.key => a = b
Single == \A p \in Scanners : OnePerKey(scanner[p].todo)

RepeatInv == AttentionInv /\ Configured /\ Passing /\ Timed /\ Single /\ Repeated

LEMMA ScannerFields ==
    ASSUME NEW s, IsScanner(s)
    PROVE  /\ s.at \in Nat /\ s.dirty \in BOOLEAN /\ s.pc \in {"off", "read", "notify"}
           /\ \A k \in Keys : s.memo[k] \in Int
BY DEF IsScanner, Times

LEMMA DuesRange ==
    ASSUME NEW s, NEW t, NEW k, NEW file, NEW last
    PROVE  /\ MayRing(s, k) \in {0, 1} /\ Idle(file, last) \in {0, 1}
           /\ Alone(s, k, file, last) \in {0, 1, 2} /\ Both(s, t, k, last) \in {1, 2, 3}
           /\ Dues(s, t, k, file, last) \in Nat
<1>1. /\ MayRing(s, k) \in {0, 1} /\ MayRing(t, k) \in {0, 1} /\ Idle(file, last) \in {0, 1}
  BY DEF MayRing, Idle
<1>2. Alone(s, k, file, last) \in {0, 1, 2} /\ Alone(t, k, file, last) \in {0, 1, 2}
  BY <1>1 DEF Alone, MayRing
<1>3. Both(s, t, k, last) \in {1, 2, 3}  BY <1>1 DEF Both
<1>. QED  BY <1>1, <1>2, <1>3 DEF Dues

LEMMA DuesOfEither ==
    ASSUME NEW s, NEW t, NEW k, NEW file, NEW last
    PROVE  Dues(s, t, k, file, last) = Dues(t, s, k, file, last)
<1>1. Both(s, t, k, last) = Both(t, s, k, last)  BY DuesRange DEF Both
<1>. QED  BY <1>1 DEF Dues

\* An alert is done with: its key did not ring.
LEMMA DuesPassOn ==
    ASSUME NEW s, NEW u, NEW t, NEW k, NEW file, NEW last,
           u.pc = s.pc, u.at = s.at, u.memo[k] = s.memo[k], s.dirty => u.dirty, u.todo \subseteq s.todo
    PROVE  Dues(u, t, k, file, last) <= Dues(s, t, k, file, last)
<1>1. MayRing(u, k) <= MayRing(s, k)  BY DEF MayRing
<1>2. /\ MayRing(u, k) \in {0, 1} /\ MayRing(s, k) \in {0, 1} /\ MayRing(t, k) \in {0, 1}
  BY DuesRange
<1>3. UpToDate(u, k, last) <=> UpToDate(s, k, last)  BY DEF UpToDate
<1>4. Alone(u, k, file, last) <= Alone(s, k, file, last)  BY <1>1, <1>2, <1>3 DEF Alone
<1>5. Both(u, t, k, last) <= Both(s, t, k, last)  BY <1>1, <1>2, <1>3 DEF Both
<1>6. Dues(s, t, k, file, last) \in Nat  BY DuesRange
<1>. QED  BY <1>4, <1>5, <1>6 DEF Dues, Runs

\* The key rings, too early if early is 1.
LEMMA DuesRing ==
    ASSUME NEW s, NEW u, NEW t, NEW k \in Keys, NEW file, NEW last \in Int, NEW early \in {0, 1},
           Runs(s), u.pc = s.pc, s.at \in Nat, u.at = s.at, u.memo[k] = s.at, u.dirty,
           MayRing(s, k) = 1, MayRing(u, k) = 0,
           UpToDate(s, k, last) => early = 0 /\ s.at >= last
    PROVE  early + Dues(u, t, k, file, IF s.at >= last THEN s.at ELSE last) <= Dues(s, t, k, file, last)
<1>1. PICK top \in Int : top = IF s.at >= last THEN s.at ELSE last  OBVIOUS
<1>2. UpToDate(u, k, top) <=> s.at >= last  BY <1>1 DEF UpToDate
<1>3. Runs(u) /\ MayRing(t, k) \in {0, 1}  BY DuesRange DEF Runs
<1>4. early + Alone(u, k, file, top) <= Alone(s, k, file, last)
  BY <1>1, <1>2 DEF Alone
<1>5. early + Both(u, t, k, top) <= Both(s, t, k, last)
  BY <1>1, <1>2, <1>3 DEF Both
<1>. QED  BY <1>1, <1>3, <1>4, <1>5 DEF Dues

\* A pass is over; what it remembers is saved if it rang anything.
LEMMA DuesSaved ==
    ASSUME NEW s, NEW u, NEW t, NEW k \in Keys, NEW file, NEW last, ~Runs(u),
           NEW kept, kept = IF s.dirty THEN s.memo[k] ELSE file, Runs(s)
    PROVE  Dues(u, t, k, kept, last) <= Dues(s, t, k, file, last)
<1>1. MayRing(s, k) \in {0, 1} /\ MayRing(t, k) \in {0, 1}  BY DuesRange
<1>2. Idle(kept, last) <= Alone(s, k, file, last)  BY <1>1 DEF Idle, Alone, UpToDate
<1>3. Alone(t, k, kept, last) <= Both(s, t, k, last)  BY <1>1 DEF Alone, Both
<1>. QED  BY <1>2, <1>3 DEF Dues

\* A pass is over, and what it remembers is lost.
LEMMA DuesDropped ==
    ASSUME NEW s, NEW u, NEW t, NEW k \in Keys, NEW file, NEW last, ~Runs(u)
    PROVE  /\ Dues(u, t, k, file, last) <= Dues(s, t, k, file, last) + 2
           /\ ~s.dirty \/ ~Runs(s) => Dues(u, t, k, file, last) <= Dues(s, t, k, file, last)
<1>1. MayRing(s, k) \in {0, 1} /\ MayRing(t, k) \in {0, 1}  BY DuesRange
<1>2. Alone(s, k, file, last) \in {0, 1, 2} /\ Idle(file, last) \in {0, 1}  BY DuesRange
<1>3. ~s.dirty => Idle(file, last) <= Alone(s, k, file, last)  BY <1>1 DEF Idle, Alone, UpToDate
<1>4. Alone(t, k, file, last) <= Both(s, t, k, last)  BY <1>1 DEF Alone, Both
<1>5. Dues(s, t, k, file, last) \in Nat /\ Both(s, t, k, last) \in Nat /\ Alone(t, k, file, last) \in Nat
  BY DuesRange
<1>. QED  BY <1>2, <1>3, <1>4, <1>5 DEF Dues

\* A pass reads the file, beside another one or not.
LEMMA DuesRead ==
    ASSUME NEW s, NEW u, NEW t, NEW k \in Keys, NEW file, NEW last \in Int, ~Runs(s), Runs(u),
           u.memo[k] = file, u.at \in Int, u.at >= last
    PROVE  Dues(u, t, k, file, last) <= Dues(s, t, k, file, last) + IF Runs(t) THEN 2 ELSE 0
<1>1. MayRing(u, k) \in {0, 1} /\ MayRing(t, k) \in {0, 1}  BY DuesRange
<1>2. Alone(u, k, file, last) <= Idle(file, last)  BY <1>1 DEF Idle, Alone, UpToDate
<1>3. Both(u, t, k, last) <= Alone(t, k, file, last) + 2  BY <1>1 DEF Alone, Both, UpToDate
<1>4. Idle(file, last) \in {0, 1} /\ Alone(u, k, file, last) \in {0, 1, 2}  BY DuesRange
<1>. QED  BY <1>2, <1>3, <1>4 DEF Dues

LEMMA DuesOfLostFile ==
    ASSUME NEW s, NEW t, NEW k, NEW file, NEW other, NEW last
    PROVE  Dues(s, t, k, other, last) <= Dues(s, t, k, file, last) + 2
<1>1. /\ Alone(s, k, other, last) \in {0, 1, 2} /\ Alone(t, k, other, last) \in {0, 1, 2}
      /\ Alone(s, k, file, last) \in {0, 1, 2} /\ Alone(t, k, file, last) \in {0, 1, 2}
      /\ Idle(other, last) \in {0, 1} /\ Idle(file, last) \in {0, 1} /\ Both(s, t, k, last) \in {1, 2, 3}
  BY DuesRange
<1>. QED  BY <1>1 DEF Dues

\* The pass that goes on as u owes no more than it did, what rang and went wrong counted.
Other(p) == IF p = "watch" THEN "scan" ELSE "watch"

LEMMA OnePassMoves ==
    ASSUME AttentionInv, Repeated, NEW p \in Scanners, NEW u, scanner' = [scanner EXCEPT ![p] = u],
           spoils' \in Nat, repeats' \in [Keys -> Nat],
           \A k \in Keys :
              repeats'[k] + Dues(u, scanner[Other(p)], k, notified'[k], rang'[k])
                 <= repeats[k] + Dues(scanner[p], scanner[Other(p)], k, notified[k], rang[k])
                       + 2 * (spoils' - spoils)
    PROVE  Repeated'
<1>1. /\ scanner'[p] = u /\ scanner'[Other(p)] = scanner[Other(p)]
      /\ {p, Other(p)} = {"watch", "scan"}
  BY DEF AttentionInv, Remembered, Scanners, Other
<1>2. SUFFICES ASSUME NEW k \in Keys PROVE repeats'[k] + Owed(k)' <= 2 * spoils'
  BY DEF Repeated
<1>3. Owed(k) = Dues(scanner[p], scanner[Other(p)], k, notified[k], rang[k])
  BY <1>1, DuesOfEither DEF Owed, Other, Scanners
<1>4. Owed(k)' = Dues(u, scanner[Other(p)], k, notified'[k], rang'[k])
  BY <1>1, DuesOfEither DEF Owed, Other, Scanners
<1>5. Owed(k) \in Nat /\ Owed(k)' \in Nat
  <2>1. Dues(scanner[p], scanner[Other(p)], k, notified[k], rang[k]) \in Nat
    BY DuesRange
  <2>2. Dues(u, scanner[Other(p)], k, notified'[k], rang'[k]) \in Nat  BY DuesRange
  <2>. QED  BY <1>3, <1>4, <2>1, <2>2
<1>6. repeats[k] \in Nat /\ repeats'[k] \in Nat /\ spoils \in Nat /\ repeats[k] + Owed(k) <= 2 * spoils
  BY DEF Repeated
<1>7. repeats'[k] + Owed(k)' <= repeats[k] + Owed(k) + 2 * (spoils' - spoils)
  BY <1>3, <1>4
<1>. QED  BY <1>5, <1>6, <1>7

\* A step of one scanner keeps what is said of each.
LEMMA OneScannerOf ==
    ASSUME RepeatInv, NEW p \in Scanners, NEW u, scanner' = [scanner EXCEPT ![p] = u],
           UNCHANGED <<now, raw>>, u.pc # "off" => Loads(raw), u.at <= now,
           \A k \in Keys : rang'[k] <= now, OnePerKey(u.todo),
           AttentionInv', Repeated'
    PROVE  RepeatInv'
<1>1. scanner'[p] = u /\ \A q \in Scanners \ {p} : scanner'[q] = scanner[q]
  BY DEF RepeatInv, AttentionInv, Remembered
<1>2. Configured'  BY DEF RepeatInv, Configured
<1>3. Passing'
  <2>1. Loads(raw)' <=> Loads(raw)  BY DEF Loads, ScaledMax, ScaledDrop, Given
  <2>. QED  BY <1>1, <2>1 DEF RepeatInv, Passing
<1>4. Timed'  BY <1>1 DEF RepeatInv, Timed
<1>5. Single'  BY <1>1 DEF RepeatInv, Single
<1>. QED  BY <1>2, <1>3, <1>4, <1>5 DEF RepeatInv

----------------------------------------------------------------------------
(* The alerts of a pass *)

LEMMA RowAlertsOnePerKey ==
    ASSUME NEW at, NEW rows, NEW a \in UNION {RowAlerts(i, at) : i \in EventRows(rows)}
    PROVE  \E i : a.key = <<"events", "event", i>> /\ RowAlerts(i, at) = {a}
<1>1. PICK i \in EventRows(rows) : a \in RowAlerts(i, at)  OBVIOUS
<1>2. PICK severity, old : RowAlerts(i, at) \subseteq {Alert("events", "event", i, severity, old)}
  BY DEF RowAlerts
<1>. QED  BY <1>1, <1>2 DEF Alert

LEMMA DecisionAlertsOnePerKey ==
    ASSUME NEW at, NEW file, NEW a \in UNION {DecisionAlerts(t, at) : t \in PendingTasks(file)}
    PROVE  \E t : /\ a.key \in {<<"pending", "pending_decision", t>>,
                                <<"pending", "user_reply_not_forwarded", t>>}
                  /\ DecisionAlerts(t, at) = {a}
<1>1. PICK t \in PendingTasks(file) : a \in DecisionAlerts(t, at)  OBVIOUS
<1>2. PICK kind, since, min :
         /\ kind \in {"pending_decision", "user_reply_not_forwarded"}
         /\ DecisionAlerts(t, at) \subseteq Laddered(kind, t, since, at, min)
  BY <1>1 DEF DecisionAlerts
<1>3. PICK severity, drop :
         Laddered(kind, t, since, at, min) \subseteq {Alert("pending", kind, t, severity, drop)}
  BY DEF Laddered
<1>. QED  BY <1>1, <1>2, <1>3 DEF Alert

LEMMA LineAlertsOnePerKey ==
    ASSUME NEW at, NEW a \in DuplicateAlerts(at) \cup SignalAlerts(at)
    PROVE  \E l : /\ a = LineAlert(l) /\ a.key = <<"pending", l.event, l.of>>
                  /\ l.event \in DOMAIN SignalKind
<1>1. PICK i : /\ a = LineAlert(journal[i])
               /\ journal[i].event \in {"duplicate_sidecar_detected", "delivery_register_superseded",
                                        "delivery_adopt_expired"}
  BY DEF DuplicateAlerts, SignalAlerts, DuplicateLines, SignalLines, BrokerEvents
<1>. QED  BY <1>1 DEF LineAlert, Alert, SignalKind

LEMMA AlertsOnePerKey == ASSUME NEW at, NEW rows, NEW file PROVE OnePerKey(Alerts(at, rows, file))
<1>. DEFINE R == UNION {RowAlerts(i, at) : i \in EventRows(rows)}
            D == UNION {DecisionAlerts(t, at) : t \in PendingTasks(file)}
            L == DuplicateAlerts(at) \cup SignalAlerts(at)
            kinds == {"pending_decision", "user_reply_not_forwarded"}
<1>1. Alerts(at, rows, file) = R \cup D \cup L
  <2>1. Alerts(at, rows, file) = R \cup D \cup DuplicateAlerts(at) \cup SignalAlerts(at)
    BY Zenon DEF Alerts
  <2>. HIDE DEF R, D
  <2>. QED  BY <2>1
<1>2. SUFFICES ASSUME NEW a \in R \cup D \cup L, NEW b \in R \cup D \cup L, a.key = b.key
               PROVE  a = b
  BY <1>1 DEF OnePerKey
<1>3. \A x \in R : \E i : x.key = <<"events", "event", i>> /\ RowAlerts(i, at) = {x}
  BY RowAlertsOnePerKey
<1>4. \A x \in D : \E t : x.key \in {<<"pending", kind, t>> : kind \in kinds} /\ DecisionAlerts(t, at) = {x}
  BY DecisionAlertsOnePerKey
<1>5. \A x \in L : \E l : /\ x = LineAlert(l) /\ x.key = <<"pending", l.event, l.of>>
                          /\ l.event \in DOMAIN SignalKind
  BY LineAlertsOnePerKey
<1>. HIDE DEF R, D, L
<1>6. CASE a \in R
  <2>1. b \in R  BY <1>2, <1>3, <1>4, <1>5, <1>6
  <2>. QED  BY <1>2, <1>3, <1>6, <2>1
<1>7. CASE a \in D
  <2>1. b \in D
    <3>1. kinds \cap DOMAIN SignalKind = {}  BY DEF SignalKind
    <3>. HIDE DEF kinds
    <3>. QED  BY <1>2, <1>3, <1>4, <1>5, <1>7, <3>1
  <2>. QED  BY <1>2, <1>4, <1>7, <2>1
<1>8. CASE a \in L
  <2>1. b \in L
    <3>1. kinds \cap DOMAIN SignalKind = {}  BY DEF SignalKind
    <3>. HIDE DEF kinds
    <3>. QED  BY <1>2, <1>3, <1>4, <1>5, <1>8, <3>1
  <2>2. PICK l, m : /\ a = LineAlert(l) /\ b = LineAlert(m) /\ l.event = m.event /\ l.of = m.of
    BY <1>2, <1>5, <1>8, <2>1
  <2>. QED  BY <2>2 DEF LineAlert, Alert, Severity
<1>. QED  BY <1>2, <1>6, <1>7, <1>8

----------------------------------------------------------------------------
(* What each step owes *)

LEMMA TypesHere ==
    ASSUME RepeatInv, NEW p \in Scanners
    PROVE  /\ IsScanner(scanner[p]) /\ scanner[p].at \in Nat /\ scanner[p].dirty \in BOOLEAN
           /\ scanner[p].memo \in Times /\ scanner[p].at <= now
           /\ now \in Nat /\ rang \in Times /\ notified \in Times
           /\ spoils \in Nat /\ repeats \in [Keys -> Nat]
           /\ Other(p) \in Scanners /\ OnePerKey(scanner[p].todo)
BY DEF RepeatInv, AttentionInv, Remembered, IsScanner, Timed, Single, Repeated, Other, Scanners

\* Neither the file, what rang nor the count changes, and the scanner's own dues do not grow.
LEMMA MovesOn ==
    ASSUME RepeatInv, AttentionInv', NEW p \in Scanners, NEW u, scanner' = [scanner EXCEPT ![p] = u],
           UNCHANGED <<now, raw, notified, rang, spoils, repeats>>,
           u.pc # "off" => Loads(raw), u.at <= now, OnePerKey(u.todo),
           \A k \in Keys : Dues(u, scanner[Other(p)], k, notified[k], rang[k])
                              <= Dues(scanner[p], scanner[Other(p)], k, notified[k], rang[k])
    PROVE  RepeatInv'
<1>1. spoils \in Nat /\ repeats \in [Keys -> Nat]  BY TypesHere
<1>2. ASSUME NEW k \in Keys
      PROVE  repeats'[k] + Dues(u, scanner[Other(p)], k, notified'[k], rang'[k])
                <= repeats[k] + Dues(scanner[p], scanner[Other(p)], k, notified[k], rang[k])
                      + 2 * (spoils' - spoils)
  <2>1. /\ Dues(u, scanner[Other(p)], k, notified[k], rang[k]) \in Nat
        /\ Dues(scanner[p], scanner[Other(p)], k, notified[k], rang[k]) \in Nat
    BY DuesRange
  <2>. QED  BY <1>1, <2>1
<1>3. Repeated'  BY <1>1, <1>2, OnePassMoves DEF RepeatInv
<1>4. \A k \in Keys : rang'[k] <= now  BY DEF RepeatInv, Timed
<1>. QED  BY <1>3, <1>4, OneScannerOf

LEMMA StartOwes == ASSUME RepeatInv, AttentionInv', NEW p \in Scanners, Starts(p) PROVE RepeatInv'
<1>1. PICK dry \in BOOLEAN, pc \in {"off", "read"} :
         scanner' = [scanner EXCEPT ![p] = Fresh(pc, dry)] /\ (pc # "off" => Loads(raw))
  BY DEF Starts, Scanners
<1>2. PICK u : u = Fresh(pc, dry)  OBVIOUS
<1>3. u.pc = pc /\ u.at = 0 /\ u.todo = {}  BY <1>2 DEF Fresh
<1>4. ~Runs(u) /\ ~Runs(scanner[p])  BY <1>3 DEF Runs, Starts
<1>5. \A k \in Keys : Dues(u, scanner[Other(p)], k, notified[k], rang[k])
                         <= Dues(scanner[p], scanner[Other(p)], k, notified[k], rang[k])
  BY <1>4, DuesDropped
<1>6. UNCHANGED <<now, raw, notified, rang, spoils, repeats>>  BY DEF Starts, Scan, History, worldVars
<1>7. u.at <= now /\ OnePerKey(u.todo)  BY <1>3, TypesHere DEF OnePerKey
<1>. QED  BY <1>1, <1>2, <1>3, <1>5, <1>6, <1>7, MovesOn

LEMMA SkipOwes == ASSUME RepeatInv, AttentionInv', NEW p \in Scanners, Skips(p) PROVE RepeatInv'
<1>1. PICK a : scanner' = [scanner EXCEPT ![p].todo = @ \ {a}]  BY DEF Skips
<1>2. PICK u : u = [scanner[p] EXCEPT !.todo = @ \ {a}]  OBVIOUS
<1>3. scanner' = [scanner EXCEPT ![p] = u]
  BY <1>1, <1>2 DEF RepeatInv, AttentionInv, Remembered
<1>4. /\ u.pc = scanner[p].pc /\ u.at = scanner[p].at /\ u.memo = scanner[p].memo
      /\ u.dirty = scanner[p].dirty /\ u.todo \subseteq scanner[p].todo
  BY <1>2, TypesHere DEF IsScanner
<1>5. UNCHANGED <<now, raw, notified, rang, spoils, repeats>>  BY DEF Skips, Scan, History, worldVars
<1>6. u.at <= now /\ OnePerKey(u.todo) /\ (u.pc # "off" => Loads(raw))
  BY <1>4, TypesHere DEF OnePerKey, RepeatInv, Passing
<1>7. \A k \in Keys : Dues(u, scanner[Other(p)], k, notified[k], rang[k])
                         <= Dues(scanner[p], scanner[Other(p)], k, notified[k], rang[k])
  BY <1>4, DuesPassOn
<1>. QED  BY <1>3, <1>5, <1>6, <1>7, MovesOn

LEMMA ReadOwes ==
    ASSUME RepeatInv, AttentionInv', NEW p \in Scanners, NEW rows, NEW file, Reads(p, rows, file)
    PROVE  RepeatInv'
<1>1. PICK u : u = [scanner[p] EXCEPT !.pc = "notify", !.at = now, !.memo = notified,
                                      !.todo = Alerts(now, rows, file)]
  OBVIOUS
<1>2. /\ scanner' = [scanner EXCEPT ![p] = u] /\ scanner[p].pc = "read"
      /\ UNCHANGED <<now, raw, notified, rang, repeats>>
  BY <1>1 DEF Reads, Scan, worldVars
<1>3. u.pc = "notify" /\ u.at = now /\ u.memo = notified /\ u.todo = Alerts(now, rows, file)
  BY <1>1, TypesHere DEF IsScanner
<1>4. spoils' \in Nat /\ spoils' >= spoils /\ (Runs(scanner[Other(p)]) => spoils' = spoils + 1)
  <2>1. Runs(scanner[Other(p)]) => Other(p) \in Scanners \ {p} /\ Busy(Other(p))
    BY DEF Runs, Busy, Other, Scanners
  <2>. QED  BY <2>1, TypesHere DEF Reads, Spoils
<1>5. ASSUME NEW k \in Keys
      PROVE  repeats'[k] + Dues(u, scanner[Other(p)], k, notified'[k], rang'[k])
                <= repeats[k] + Dues(scanner[p], scanner[Other(p)], k, notified[k], rang[k])
                      + 2 * (spoils' - spoils)
  <2>1. /\ Dues(u, scanner[Other(p)], k, notified[k], rang[k]) \in Nat
        /\ Dues(scanner[p], scanner[Other(p)], k, notified[k], rang[k]) \in Nat
    BY DuesRange
  <2>2. /\ ~Runs(scanner[p]) /\ Runs(u) /\ u.memo[k] = notified[k] /\ u.at \in Int
        /\ rang[k] \in Int /\ u.at >= rang[k]
    BY <1>2, <1>3, TypesHere DEF Runs, Times, RepeatInv, Timed
  <2>3. Dues(u, scanner[Other(p)], k, notified[k], rang[k])
           <= Dues(scanner[p], scanner[Other(p)], k, notified[k], rang[k])
                 + IF Runs(scanner[Other(p)]) THEN 2 ELSE 0
    BY <2>2, DuesRead
  <2>4. repeats[k] \in Nat /\ spoils \in Nat  BY TypesHere
  <2>. QED  BY <1>2, <1>4, <2>1, <2>3, <2>4
<1>6. Repeated'  BY <1>2, <1>4, <1>5, TypesHere, OnePassMoves DEF RepeatInv
<1>7. /\ OnePerKey(u.todo) /\ u.at <= now /\ (u.pc # "off" => Loads(raw))
      /\ \A k \in Keys : rang'[k] <= now
  BY <1>2, <1>3, AlertsOnePerKey, TypesHere DEF RepeatInv, Passing, Timed
<1>. QED  BY <1>2, <1>6, <1>7, OneScannerOf

LEMMA SaveOwes == ASSUME RepeatInv, AttentionInv', NEW p \in Scanners, Saves(p) PROVE RepeatInv'
<1>1. PICK u : u = Fresh(IF p = "watch" THEN "read" ELSE "off", FALSE)  OBVIOUS
<1>2. u.pc = (IF p = "watch" THEN "read" ELSE "off") /\ u.at = 0 /\ u.todo = {}  BY <1>1 DEF Fresh
<1>3. /\ scanner' = [scanner EXCEPT ![p] = u] /\ Runs(scanner[p]) /\ ~Runs(u)
      /\ UNCHANGED <<now, raw, rang, repeats, spoils>>
  BY <1>1, <1>2 DEF Saves, Scan, History, worldVars, Runs
<1>4. ASSUME NEW k \in Keys
      PROVE  repeats'[k] + Dues(u, scanner[Other(p)], k, notified'[k], rang'[k])
                <= repeats[k] + Dues(scanner[p], scanner[Other(p)], k, notified[k], rang[k])
                      + 2 * (spoils' - spoils)
  <2>1. notified'[k] = IF scanner[p].dirty THEN scanner[p].memo[k] ELSE notified[k]
    BY DEF Saves, Saved
  <2>2. Dues(u, scanner[Other(p)], k, notified'[k], rang[k])
           <= Dues(scanner[p], scanner[Other(p)], k, notified[k], rang[k])
    BY <1>3, <2>1, DuesSaved
  <2>3. /\ Dues(u, scanner[Other(p)], k, notified'[k], rang[k]) \in Nat
        /\ Dues(scanner[p], scanner[Other(p)], k, notified[k], rang[k]) \in Nat
    BY DuesRange
  <2>4. repeats[k] \in Nat /\ spoils \in Nat  BY TypesHere
  <2>. QED  BY <1>3, <2>2, <2>3, <2>4
<1>5. Repeated'  BY <1>3, <1>4, TypesHere, OnePassMoves DEF RepeatInv
<1>6. /\ OnePerKey(u.todo) /\ u.at <= now /\ (u.pc # "off" => Loads(raw))
      /\ \A k \in Keys : rang'[k] <= now
  BY <1>2, <1>3, TypesHere DEF OnePerKey, RepeatInv, Passing, Timed, Saves
<1>. QED  BY <1>3, <1>5, <1>6, OneScannerOf

LEMMA StopOwes == ASSUME RepeatInv, AttentionInv', NEW p \in Scanners, Stops(p) PROVE RepeatInv'
<1>1. Off.pc = "off" /\ Off.at = 0 /\ Off.todo = {} /\ ~Runs(Off)  BY DEF Off, Fresh, Runs
<1>2. /\ scanner' = [scanner EXCEPT ![p] = Off]
      /\ UNCHANGED <<now, raw, notified, rang, repeats>>
  BY DEF Stops, Scan, worldVars
<1>3. spoils' \in Nat /\ spoils' >= spoils /\ (scanner[p].dirty => spoils' = spoils + 1)
  BY TypesHere DEF Stops, Spoils
<1>4. ASSUME NEW k \in Keys
      PROVE  repeats'[k] + Dues(Off, scanner[Other(p)], k, notified'[k], rang'[k])
                <= repeats[k] + Dues(scanner[p], scanner[Other(p)], k, notified[k], rang[k])
                      + 2 * (spoils' - spoils)
  <2>1. /\ Dues(Off, scanner[Other(p)], k, notified[k], rang[k]) \in Nat
        /\ Dues(scanner[p], scanner[Other(p)], k, notified[k], rang[k]) \in Nat
    BY DuesRange
  <2>2. /\ Dues(Off, scanner[Other(p)], k, notified[k], rang[k])
              <= Dues(scanner[p], scanner[Other(p)], k, notified[k], rang[k]) + 2
        /\ ~scanner[p].dirty => Dues(Off, scanner[Other(p)], k, notified[k], rang[k])
                                   <= Dues(scanner[p], scanner[Other(p)], k, notified[k], rang[k])
    BY <1>1, DuesDropped
  <2>3. repeats[k] \in Nat /\ spoils \in Nat  BY TypesHere
  <2>. QED  BY <1>2, <1>3, <2>1, <2>2, <2>3
<1>5. Repeated'  BY <1>2, <1>3, <1>4, TypesHere, OnePassMoves DEF RepeatInv
<1>6. /\ OnePerKey(Off.todo) /\ Off.at <= now /\ \A k \in Keys : rang'[k] <= now
  BY <1>1, <1>2, TypesHere DEF OnePerKey, RepeatInv, Timed
<1>. QED  BY <1>1, <1>2, <1>5, <1>6, OneScannerOf

LEMMA LossOwes == ASSUME RepeatInv, AttentionInv', DedupFileIsLost PROVE RepeatInv'
<1>1. UNCHANGED <<now, raw, scanner, rang, repeats>> /\ spoils' = spoils + 1
  BY DEF DedupFileIsLost, Scan, Spoils, worldVars
<1>2. ASSUME NEW k \in Keys PROVE repeats'[k] + Owed(k)' <= 2 * spoils'
  <2>1. Dues(scanner["watch"], scanner["scan"], k, notified'[k], rang[k])
           <= Dues(scanner["watch"], scanner["scan"], k, notified[k], rang[k]) + 2
    BY DuesOfLostFile
  <2>2. Owed(k)' <= Owed(k) + 2  BY <1>1, <2>1 DEF Owed
  <2>3. Owed(k) \in Nat /\ Owed(k)' \in Nat  BY DuesRange DEF Owed
  <2>4. repeats[k] \in Nat /\ spoils \in Nat /\ repeats[k] + Owed(k) <= 2 * spoils
    BY DEF RepeatInv, Repeated
  <2>. QED  BY <1>1, <2>2, <2>3, <2>4
<1>3. Repeated'  BY <1>1, <1>2 DEF RepeatInv, Repeated
<1>4. Loads(raw)' <=> Loads(raw)  BY <1>1 DEF Loads, ScaledMax, ScaledDrop, Given
<1>. QED  BY <1>1, <1>3, <1>4 DEF RepeatInv, Configured, Passing, Timed, Single

LEMMA WriteOwes == ASSUME RepeatInv, AttentionInv', Writes PROVE RepeatInv'
<1>1. UNCHANGED <<raw, notified, scanner, rang, spoils, repeats>> /\ now' >= now /\ now' \in Nat
  <2>1. CASE Ticks  BY <2>1 DEF Ticks, worldVars, RepeatInv, AttentionInv, Remembered
  <2>2. CASE World  BY <2>2 DEF World, RepeatInv, AttentionInv, Remembered
  <2>3. ASSUME NEW i \in Rows, RowIsWritten(i) PROVE World  BY <2>3 DEF RowIsWritten
  <2>4. ASSUME NEW t \in Tasks, DecisionChanges(t) PROVE World  BY <2>4 DEF DecisionChanges
  <2>5. ASSUME NEW w \in Stampers, Stamps(w) \/ Appends(w) PROVE World  BY <2>5 DEF Stamps, Appends
  <2>. QED  BY <2>1, <2>2, <2>3, <2>4, <2>5 DEF Writes
<1>2. Loads(raw)' <=> Loads(raw)  BY <1>1 DEF Loads, ScaledMax, ScaledDrop, Given
<1>3. Timed'
  <2>1. \A p \in Scanners : scanner[p].at \in Nat  BY TypesHere
  <2>2. now \in Nat /\ \A k \in Keys : rang[k] \in Int  BY DEF RepeatInv, AttentionInv, Remembered, Times
  <2>. QED  BY <1>1, <2>1, <2>2 DEF RepeatInv, Timed
<1>. QED  BY <1>1, <1>2, <1>3 DEF RepeatInv, Configured, Passing, Single, Repeated, Owed

\* Whom should_notify lets ring although its time is up to date does not ring too early.
LEMMA InTime ==
    ASSUME RepeatInv, NEW p \in Scanners, NEW k \in Keys, scanner[p].pc # "off",
           ShouldNotify(scanner[p].memo, k, scanner[p].at), UpToDate(scanner[p], k, rang[k])
    PROVE  ~Early(k, scanner[p].at) /\ scanner[p].at >= rang[k]
<1>1. Setting("cooldown") \in Nat
  <2>1. Loads(raw) /\ raw \in RawConfigs  BY DEF RepeatInv, Passing, Configured
  <2>2. Given(raw, "cooldown") \in Nat  BY <2>1, GivenThresholds DEF Loads, Thresholds
  <2>. QED  BY <2>2 DEF Setting
<1>2. scanner[p].at \in Nat /\ rang[k] \in Int /\ scanner[p].memo[k] = rang[k]
  BY TypesHere DEF Times, UpToDate
<1>. QED  BY <1>1, <1>2 DEF ShouldNotify, Early, Never

\* What a notification that counts leaves of the scanner s, and of any other.
LEMMA MarkOwes ==
    ASSUME RepeatInv, NEW p \in Scanners, Runs(scanner[p]), NEW a \in scanner[p].todo,
           ShouldNotify(scanner[p].memo, a.key, scanner[p].at),
           NEW u, u.pc = scanner[p].pc, u.at = scanner[p].at, u.dirty,
           u.memo = [scanner[p].memo EXCEPT ![a.key] = scanner[p].at],
           u.todo = scanner[p].todo \ {a},
           rang' = [rang EXCEPT ![a.key] = Max({@, scanner[p].at})],
           repeats' = [repeats EXCEPT ![a.key] =
                          IF Early(a.key, scanner[p].at) THEN @ + 1 ELSE @],
           NEW k \in Keys
    PROVE  /\ repeats'[k] + Dues(u, scanner[Other(p)], k, notified[k], rang'[k])
                 <= repeats[k] + Dues(scanner[p], scanner[Other(p)], k, notified[k], rang[k])
           /\ rang'[k] <= now /\ repeats'[k] \in Nat
<1>1. PICK s : s = scanner[p]  OBVIOUS
<1>2. PICK t : t = scanner[Other(p)]  OBVIOUS
<1>3. /\ s.at \in Nat /\ s.memo \in Times /\ s.at <= now /\ now \in Nat
      /\ rang \in Times /\ rang[k] \in Int /\ rang[k] <= now
      /\ repeats \in [Keys -> Nat] /\ repeats[k] \in Nat /\ OnePerKey(s.todo) /\ a \in s.todo
  BY <1>1, TypesHere DEF Times, RepeatInv, Timed
<1>4. /\ Dues(u, t, k, notified[k], rang'[k]) \in Nat /\ Dues(s, t, k, notified[k], rang[k]) \in Nat
  BY DuesRange
<1>5. CASE k # a.key
  <2>1. rang'[k] = rang[k] /\ repeats'[k] = repeats[k] /\ u.memo[k] = s.memo[k]
    BY <1>1, <1>3, <1>5 DEF Times
  <2>2. Dues(u, t, k, notified[k], rang[k]) <= Dues(s, t, k, notified[k], rang[k])
    BY <1>1, <2>1, DuesPassOn
  <2>. QED  BY <1>1, <1>2, <1>3, <1>4, <2>1, <2>2
<1>6. CASE k = a.key
  <2>1. PICK early \in {0, 1} : early = IF Early(k, s.at) THEN 1 ELSE 0  OBVIOUS
  <2>2. u.memo[k] = s.at /\ repeats'[k] = repeats[k] + early
    BY <1>1, <1>3, <1>6, <2>1 DEF Times
  <2>3. rang'[k] = IF s.at >= rang[k] THEN s.at ELSE rang[k]
    <3>1. PICK last \in Int, at \in Int : last = rang[k] /\ at = s.at  BY <1>3
    <3>2. Max({last, at}) = IF at >= last THEN at ELSE last
      <4>1. Max({last, at}) \in {last, at} /\ Max({last, at}) >= last /\ Max({last, at}) >= at
        BY MaxOfTwo
      <4>. QED  BY <4>1
    <3>3. rang'[k] = Max({rang[k], s.at})  BY <1>1, <1>3, <1>6 DEF Times
    <3>4. rang'[k] = Max({last, at})  BY <3>1, <3>3, Zenon
    <3>. QED  BY <3>1, <3>2, <3>4
  <2>4. MayRing(s, k) = 1 /\ MayRing(u, k) = 0  BY <1>1, <1>3, <1>6 DEF MayRing, OnePerKey
  <2>5. UpToDate(s, k, rang[k]) => early = 0 /\ s.at >= rang[k]
    <3>1. scanner[p].pc # "off"  BY DEF Runs
    <3>. QED  BY <1>1, <1>6, <2>1, <3>1, InTime
  <2>6. early + Dues(u, t, k, notified[k], rang'[k]) <= Dues(s, t, k, notified[k], rang[k])
    BY <1>1, <1>3, <2>2, <2>3, <2>4, <2>5, DuesRing
  <2>. QED  BY <1>1, <1>2, <1>3, <1>4, <2>1, <2>2, <2>3, <2>6
<1>. QED  BY <1>5, <1>6

LEMMA NotifyOwes ==
    ASSUME RepeatInv, AttentionInv', NEW p \in Scanners, NEW works, Notifies(p, works)
    PROVE  RepeatInv'
<1>1. PICK a \in scanner[p].todo :
         /\ ShouldNotify(scanner[p].memo, a.key, scanner[p].at)
         /\ scanner' = [scanner EXCEPT ![p] =
                IF Marks(p, a.severity, works)
                THEN [scanner[p] EXCEPT !.todo = @ \ {a}, !.memo[a.key] = scanner[p].at, !.dirty = TRUE]
                ELSE [scanner[p] EXCEPT !.todo = @ \ {a}]]
         /\ IF ~scanner[p].dry /\ Reached(a.severity, works)
            THEN /\ rang' = [rang EXCEPT ![a.key] = Max({@, scanner[p].at})]
                 /\ repeats' = [repeats EXCEPT ![a.key] =
                        IF Early(a.key, scanner[p].at) THEN @ + 1 ELSE @]
            ELSE UNCHANGED <<rang, repeats>>
  BY DEF Notifies
<1>2. Runs(scanner[p]) /\ UNCHANGED <<now, raw, notified, spoils>>
  BY DEF Notifies, Runs, Scan, worldVars
<1>3. Loads(raw)  BY <1>2 DEF RepeatInv, Passing, Runs
<1>4. IsScanner(scanner[p]) /\ OnePerKey(scanner[p].todo) /\ scanner[p].at <= now
  BY TypesHere
<1>5. CASE ~Marks(p, a.severity, works)
  <2>1. PICK u : u = [scanner[p] EXCEPT !.todo = @ \ {a}]  OBVIOUS
  <2>2. scanner' = [scanner EXCEPT ![p] = u] /\ UNCHANGED <<rang, repeats>>
    BY <1>1, <1>5, <2>1 DEF Marks
  <2>3. /\ u.pc = scanner[p].pc /\ u.at = scanner[p].at /\ u.memo = scanner[p].memo
        /\ u.dirty = scanner[p].dirty /\ u.todo \subseteq scanner[p].todo
    BY <1>4, <2>1 DEF IsScanner
  <2>4. u.at <= now /\ OnePerKey(u.todo)  BY <1>4, <2>3 DEF OnePerKey
  <2>5. \A k \in Keys : Dues(u, scanner[Other(p)], k, notified[k], rang[k])
                           <= Dues(scanner[p], scanner[Other(p)], k, notified[k], rang[k])
    BY <2>3, DuesPassOn
  <2>. QED  BY <1>2, <1>3, <2>2, <2>4, <2>5, MovesOn
<1>6. CASE Marks(p, a.severity, works)
  <2>1. PICK u : u = [scanner[p] EXCEPT !.todo = @ \ {a}, !.memo[a.key] = scanner[p].at, !.dirty = TRUE]
    OBVIOUS
  <2>2. /\ scanner' = [scanner EXCEPT ![p] = u]
        /\ rang' = [rang EXCEPT ![a.key] = Max({@, scanner[p].at})]
        /\ repeats' = [repeats EXCEPT ![a.key] =
                          IF Early(a.key, scanner[p].at) THEN @ + 1 ELSE @]
    BY <1>1, <1>6, <2>1 DEF Marks
  <2>3. /\ u.pc = scanner[p].pc /\ u.at = scanner[p].at /\ u.dirty
        /\ u.memo = [scanner[p].memo EXCEPT ![a.key] = scanner[p].at]
        /\ u.todo = scanner[p].todo \ {a}
    BY <1>4, <2>1 DEF IsScanner
  <2>4. ASSUME NEW k \in Keys
        PROVE  /\ repeats'[k] + Dues(u, scanner[Other(p)], k, notified[k], rang'[k])
                     <= repeats[k] + Dues(scanner[p], scanner[Other(p)], k, notified[k], rang[k])
               /\ rang'[k] <= now /\ repeats'[k] \in Nat
    BY <1>1, <1>2, <2>2, <2>3, MarkOwes
  <2>5. spoils \in Nat /\ spoils' = spoils /\ notified' = notified /\ repeats' \in [Keys -> Nat]
    BY <1>2, <2>2, <2>4, TypesHere
  <2>6. Repeated'
    <3>1. 2 * (spoils' - spoils) = 0  BY <2>5
    <3>2. ASSUME NEW k \in Keys
          PROVE  repeats'[k] + Dues(u, scanner[Other(p)], k, notified'[k], rang'[k])
                    <= repeats[k] + Dues(scanner[p], scanner[Other(p)], k, notified[k], rang[k])
                          + 2 * (spoils' - spoils)
      <4>1. repeats[k] \in Nat /\ Dues(scanner[p], scanner[Other(p)], k, notified[k], rang[k]) \in Nat
        BY TypesHere, DuesRange
      <4>. QED  BY <2>4, <2>5, <3>1, <4>1
    <3>. QED  BY <2>2, <2>5, <3>2, OnePassMoves DEF RepeatInv
  <2>7. u.at <= now /\ OnePerKey(u.todo)  BY <1>4, <2>3 DEF OnePerKey
  <2>. QED  BY <1>2, <1>3, <2>2, <2>4, <2>6, <2>7, OneScannerOf
<1>. QED  BY <1>5, <1>6

LEMMA RepeatStart == AttentionInit => RepeatInv
<1>. SUFFICES ASSUME AttentionInit PROVE RepeatInv
  OBVIOUS
<1>1. AttentionInv  BY AttentionStart
<1>2. \A p \in Scanners : scanner[p] = Off  BY DEF AttentionInit
<1>3. Off.pc = "off" /\ Off.at = 0 /\ Off.todo = {}  BY DEF Off, Fresh
<1>4. Configured /\ Passing  BY <1>2, <1>3 DEF AttentionInit, Configured, Passing
<1>5. Timed /\ Single  BY <1>2, <1>3 DEF AttentionInit, Timed, Single, OnePerKey, Never
<1>6. Repeated
  <2>1. \A k \in Keys : Owed(k) = 0
    BY <1>2, <1>3 DEF AttentionInit, Scanners, Owed, Dues, Runs, Idle
  <2>. QED  BY <2>1 DEF AttentionInit, Repeated
<1>. QED  BY <1>1, <1>4, <1>5, <1>6 DEF RepeatInv

LEMMA RepeatStep == RepeatInv /\ [AttentionNext]_attentionVars => RepeatInv'
<1>. SUFFICES ASSUME RepeatInv, [AttentionNext]_attentionVars PROVE RepeatInv'
  OBVIOUS
<1>1. AttentionInv'  BY AttentionStep DEF RepeatInv
<1>2. CASE UNCHANGED attentionVars
  <2>1. UNCHANGED <<now, raw, notified, scanner, rang, spoils, repeats>>
    BY <1>2 DEF attentionVars, worldVars
  <2>2. Loads(raw)' <=> Loads(raw)  BY <2>1 DEF Loads, ScaledMax, ScaledDrop, Given
  <2>. QED  BY <1>1, <2>1, <2>2 DEF RepeatInv, Configured, Passing, Timed, Single, Repeated, Owed
<1>3. CASE Writes  BY <1>1, <1>3, WriteOwes
<1>4. ASSUME NEW p \in Scanners, Starts(p) \/ Stops(p) \/ Skips(p) \/ Saves(p) PROVE RepeatInv'
  BY <1>1, <1>4, StartOwes, StopOwes, SkipOwes, SaveOwes
<1>5. ASSUME NEW p \in Scanners, NEW works \in BOOLEAN, Notifies(p, works) PROVE RepeatInv'
  BY <1>1, <1>5, NotifyOwes
<1>6. ASSUME NEW p \in Scanners, NEW rows \in BOOLEAN, NEW file \in BOOLEAN, Reads(p, rows, file)
      PROVE  RepeatInv'
  BY <1>1, <1>6, ReadOwes
<1>7. CASE DedupFileIsLost  BY <1>1, <1>7, LossOwes
<1>. QED  BY <1>2, <1>3, <1>4, <1>5, <1>6, <1>7 DEF AttentionNext, Finishes

\* No key rings too early (a row twice, the rest within a cooldown) more than twice for each
\* pass that was cut short, ran beside another or found the dedup file gone (dedup.py,
\* cli._scan_once), however many of those there were.
THEOREM RepetitionsAreRare == AttentionSpec => []RepeatsHaveACause
<1>1. RepeatInv => RepeatsHaveACause
  <2>. SUFFICES ASSUME RepeatInv, NEW k \in Keys PROVE repeats[k] <= 2 * spoils
    BY DEF RepeatsHaveACause
  <2>1. Owed(k) \in Nat  BY DuesRange DEF Owed
  <2>2. repeats[k] \in Nat /\ spoils \in Nat /\ repeats[k] + Owed(k) <= 2 * spoils
    BY DEF RepeatInv, Repeated
  <2>. QED  BY <2>1, <2>2
<1>. QED  BY <1>1, RepeatStart, RepeatStep, PTL DEF AttentionSpec

----------------------------------------------------------------------------
(* Residents: the inductive invariant *)

\* Start times only grow: nothing speaks of a process yet to be started.
Dated ==
    /\ \A p \in Pids : proc[p].start <= started
    /\ \A n \in Files : files[n].start <= started
    /\ sweep.rec.start <= started

\* A registration is true of its process as long as that lives.
Honest(rec) == Lives(rec) => proc[rec.pid].org = rec.owner
Registry == (\A n \in Files : Honest(files[n])) /\ Honest(sweep.rec)

\* What the sweep has gone on with is a file of this org.
Mine == sweep.pc \notin {"idle", "next"} =>
            sweep.rec.owner = "mine" /\ sweep.rec.pid \in Pids /\ sweep.file \in Files

\* A pid it signals does not change hands, if none does between two looks 50 ms apart.
Held == ~FastReuse =>
            (sweep.pc \in {"term", "grace", "kill", "dying"} /\ Running(sweep.rec.pid)
                 => Lives(sweep.rec))

\* What reads as a registration names a process.
Formed == \A n \in Files : files[n].form = "ok" => files[n].pid \in Pids

ResidentsInv ==
    ResidentsTypeOK /\ Dated /\ Registry /\ Mine /\ Held /\ Formed /\ ForgetsOnlyTheGone

----------------------------------------------------------------------------
(* What a step of the sweep leaves of its record *)

LEMMA GoesType ==
    ASSUME ResidentsTypeOK, NEW pc \in SweepPcs, Goes(pc)
    PROVE  /\ sweep' \in Sweep
           /\ sweep'.pc = pc /\ sweep'.rec = sweep.rec /\ sweep'.file = sweep.file
           /\ sweep'.posix = sweep.posix /\ sweep'.unseen = sweep.unseen
<1>. DEFINE s == sweep
<1>1. s \in Sweep  BY DEF ResidentsTypeOK
<1>2. sweep' = [s EXCEPT !.pc = pc]  BY DEF Goes
<1>. HIDE DEF s
<1>3. sweep' \in Sweep /\ sweep'.pc = pc /\ sweep'.rec = s.rec /\ sweep'.file = s.file
         /\ sweep'.posix = s.posix /\ sweep'.unseen = s.unseen
  BY <1>1, <1>2 DEF Sweep
<1>. QED  BY <1>3 DEF s

\* A step that only moves the sweep on, and may note what it saw, keeps the invariant if
\* it keeps what the sweep may rely on there.
LEMMA SweepMovesOn ==
    ASSUME ResidentsInv, sweep' \in Sweep, OnlySweep, sweep.pc \notin {"idle", "next"},
           sweep'.rec = sweep.rec, sweep'.file = sweep.file,
           ~FastReuse /\ sweep'.pc \in {"term", "grace", "kill", "dying"} /\ Running(sweep.rec.pid)
               => Lives(sweep.rec),
           sweep'.pc \in {"reread", "unlink"} =>
               ~Lives(sweep.rec) \/ proc[sweep.rec.pid].moved \/ sweep'.unseen
    PROVE  ResidentsInv'
<1>1. ResidentsTypeOK'  BY DEF ResidentsInv, ResidentsTypeOK, OnlySweep
<1>2. Dated' /\ Registry' /\ Mine'
  BY DEF ResidentsInv, Dated, Registry, Honest, Lives, Mine, OnlySweep
<1>3. Held'  BY DEF Held, Lives, Running, OnlySweep
<1>4. Formed' /\ ForgetsOnlyTheGone'
  BY DEF ResidentsInv, Formed, ForgetsOnlyTheGone, Lives, OnlySweep
<1>. QED  BY <1>1, <1>2, <1>3, <1>4 DEF ResidentsInv

LEMMA GoesOn ==
    ASSUME ResidentsInv, NEW pc \in SweepPcs, Goes(pc), OnlySweep,
           sweep.pc \notin {"idle", "next"},
           ~FastReuse /\ pc \in {"term", "grace", "kill", "dying"} /\ Running(sweep.rec.pid)
               => Lives(sweep.rec),
           pc \in {"reread", "unlink"} =>
               ~Lives(sweep.rec) \/ proc[sweep.rec.pid].moved \/ sweep.unseen
    PROVE  ResidentsInv'
<1>1. /\ sweep' \in Sweep /\ sweep'.unseen = sweep.unseen
      /\ sweep'.pc = pc /\ sweep'.rec = sweep.rec /\ sweep'.file = sweep.file
  BY GoesType DEF ResidentsInv
<1>. QED  BY <1>1, SweepMovesOn

LEMMA NoSweepType ==
    /\ NoSweep \in Sweep /\ NoRecord \in Record
    /\ NoSweep.pc = "idle" /\ NoSweep.rec = NoRecord /\ NoRecord.pid = 0 /\ NoRecord.start = 0
BY DEF NoSweep, Sweep, SweepPcs, NoRecord, Record

----------------------------------------------------------------------------
(* Processes and registrants *)

\* Every process of any pid starts under a number nothing speaks of.
LEMMA ProcessStartsKeeps ==
    ASSUME ResidentsInv, NEW p \in Pids, ProcessStarts(p)
    PROVE  ResidentsInv'
<1>1. PICK org \in {"mine", "other", "none"} :
         proc' = [proc EXCEPT ![p] = [start |-> started + 1, org |-> org, moved |-> FALSE]]
  BY DEF ProcessStarts
<1>. DEFINE new == [start |-> started + 1, org |-> org, moved |-> FALSE]
<1>2. /\ started \in Nat /\ started' = started + 1 /\ UNCHANGED <<files, sweep>>
      /\ FastReuse \/ ~Watched(p)
      /\ proc \in [Pids -> Process]
  BY DEF ProcessStarts, ResidentsInv, ResidentsTypeOK
<1>3. new \in Process /\ new.start = started + 1  BY <1>2 DEF Process
<1>. HIDE DEF new
<1>4. /\ proc' \in [Pids -> Process] /\ proc'[p].start = started + 1
      /\ \A q \in Pids \ {p} : proc'[q] = proc[q]
  BY <1>1, <1>2, <1>3 DEF new
<1>5. ResidentsTypeOK'  BY <1>2, <1>4 DEF ResidentsInv, ResidentsTypeOK
<1>6. /\ \A n \in Files : files[n] \in Record /\ files[n].start \in Nat
      /\ sweep.rec \in Record /\ sweep.rec.start \in Nat
      /\ \A q \in Pids : proc[q].start \in Nat
  BY <1>2 DEF ResidentsInv, ResidentsTypeOK, Record, Sweep, Process
<1>7. Dated'  BY <1>2, <1>4, <1>6 DEF ResidentsInv, Dated
<1>8. \A rec \in Record : rec.start <= started /\ Lives(rec)' =>
         Lives(rec) /\ proc'[rec.pid] = proc[rec.pid]
  <2>. SUFFICES ASSUME NEW rec \in Record, rec.start <= started, Lives(rec)'
                PROVE  Lives(rec) /\ proc'[rec.pid] = proc[rec.pid]
    OBVIOUS
  <2>1. rec.pid \in Pids /\ rec.start \in Nat /\ proc'[rec.pid].start = rec.start
    BY DEF Lives, Record
  <2>2. rec.pid # p  BY <2>1, <1>2, <1>4
  <2>. QED  BY <2>1, <2>2, <1>4 DEF Lives
<1>9. Registry'
  BY <1>2, <1>6, <1>8 DEF ResidentsInv, Dated, Registry, Honest
<1>10. Mine'  BY <1>2 DEF ResidentsInv, Mine
<1>11. Held'
  <2>. SUFFICES ASSUME ~FastReuse, sweep.pc \in {"term", "grace", "kill", "dying"},
                       Running(sweep.rec.pid)'
                PROVE  Lives(sweep.rec)'
    BY <1>2 DEF Held
  <2>1. sweep.rec.pid # p /\ sweep.rec.pid \in Pids
    BY <1>2 DEF Watched, ResidentsInv, Mine
  <2>2. proc'[sweep.rec.pid] = proc[sweep.rec.pid]  BY <2>1, <1>4
  <2>. QED  BY <2>1, <2>2, <1>2 DEF ResidentsInv, Held, Running, Lives
<1>12. Formed'  BY <1>2 DEF ResidentsInv, Formed
<1>13. ForgetsOnlyTheGone'
  BY <1>2, <1>6, <1>8 DEF ResidentsInv, Dated, ForgetsOnlyTheGone
<1>. QED  BY <1>5, <1>7, <1>9, <1>10, <1>11, <1>12, <1>13 DEF ResidentsInv

LEMMA ProcessExitsKeeps ==
    ASSUME ResidentsInv, NEW p \in Pids, ProcessExits(p)
    PROVE  ResidentsInv'
<1>1. /\ proc' = [proc EXCEPT ![p] = NoProcess] /\ proc \in [Pids -> Process]
      /\ UNCHANGED <<started, files, sweep>> /\ started \in Nat
  BY DEF ProcessExits, ResidentsInv, ResidentsTypeOK
<1>2. NoProcess \in Process /\ NoProcess.start = 0  BY DEF NoProcess, Process
<1>3. /\ proc' \in [Pids -> Process] /\ proc'[p].start = 0
      /\ \A q \in Pids \ {p} : proc'[q] = proc[q]
  BY <1>1, <1>2
<1>4. ResidentsTypeOK'  BY <1>1, <1>3 DEF ResidentsInv, ResidentsTypeOK
<1>5. Dated'  BY <1>1, <1>3 DEF ResidentsInv, Dated
<1>6. Registry' /\ Mine' /\ Held'
  BY <1>1, <1>3 DEF ResidentsInv, Registry, Honest, Lives, Mine, Held, Running
<1>7. Formed' /\ ForgetsOnlyTheGone'
  BY <1>1, <1>3 DEF ResidentsInv, Formed, ForgetsOnlyTheGone, Lives
<1>. QED  BY <1>4, <1>5, <1>6, <1>7 DEF ResidentsInv

LEMMA ProcessMovesKeeps ==
    ASSUME ResidentsInv, NEW p \in Pids, ProcessMoves(p)
    PROVE  ResidentsInv'
<1>1. /\ proc' = [proc EXCEPT ![p].moved = TRUE] /\ proc \in [Pids -> Process]
      /\ UNCHANGED <<started, files, sweep>>
  BY DEF ProcessMoves, ResidentsInv, ResidentsTypeOK
<1>. DEFINE new == [proc[p] EXCEPT !.moved = TRUE]
<1>2. new \in Process /\ new.start = proc[p].start /\ new.org = proc[p].org /\ new.moved
  BY <1>1 DEF Process
<1>3. proc' = [proc EXCEPT ![p] = new]  BY <1>1
<1>. HIDE DEF new
<1>4. /\ proc' \in [Pids -> Process]
      /\ \A q \in Pids : /\ proc'[q].start = proc[q].start /\ proc'[q].org = proc[q].org
                         /\ proc[q].moved => proc'[q].moved
  BY <1>1, <1>2, <1>3
<1>5. ResidentsTypeOK'  BY <1>1, <1>4 DEF ResidentsInv, ResidentsTypeOK
<1>6. Dated'  BY <1>1, <1>4 DEF ResidentsInv, Dated
<1>7. Registry' /\ Mine'
  BY <1>1, <1>4 DEF ResidentsInv, Registry, Honest, Lives, Mine
<1>8. Held'
  BY <1>1, <1>4 DEF ResidentsInv, Held, Running, Lives, Mine
<1>9. Formed' /\ ForgetsOnlyTheGone'
  BY <1>1, <1>4 DEF ResidentsInv, Formed, ForgetsOnlyTheGone, Lives
<1>. QED  BY <1>5, <1>6, <1>7, <1>8, <1>9 DEF ResidentsInv

LEMMA RegistersKeeps ==
    ASSUME ResidentsInv, NEW p \in Pids, NEW n \in Files, Registers(p, n)
    PROVE  ResidentsInv'
<1>1. PICK form \in {"ok", "unknown_version"}, finite \in BOOLEAN :
         files' = [files EXCEPT ![n] = [form |-> form, owner |-> proc[p].org, pid |-> p,
                                       start |-> IF finite THEN proc[p].start ELSE 0]]
  BY DEF Registers
<1>. DEFINE new == [form |-> form, owner |-> proc[p].org, pid |-> p,
                    start |-> IF finite THEN proc[p].start ELSE 0]
<1>2. /\ UNCHANGED <<proc, started, sweep>> /\ proc[p] \in Process /\ proc[p].org # "none"
      /\ files \in [Files -> Record] /\ started \in Nat
  BY DEF Registers, ResidentsInv, ResidentsTypeOK
<1>3. new \in Record /\ new.pid = p /\ new.owner = proc[p].org
         /\ new.start \in {0, proc[p].start}
  BY <1>2 DEF Process, Record
<1>. HIDE DEF new
<1>4. /\ files' \in [Files -> Record] /\ files'[n] = new
      /\ \A q \in Files \ {n} : files'[q] = files[q]
  BY <1>1, <1>2, <1>3 DEF new
<1>5. ResidentsTypeOK'  BY <1>2, <1>4 DEF ResidentsInv, ResidentsTypeOK
<1>6. Dated'  BY <1>2, <1>3, <1>4 DEF ResidentsInv, Dated
<1>7. Honest(files[n])'
  <2>1. new.owner = proc[new.pid].org  BY <1>3
  <2>. QED  BY <2>1, <1>2, <1>4 DEF Honest, Lives
<1>8. Registry'
  <2>1. \A q \in Files : Honest(files[q])'
    BY <1>2, <1>4, <1>7 DEF ResidentsInv, Registry, Honest, Lives
  <2>2. Honest(sweep.rec)'  BY <1>2 DEF ResidentsInv, Registry, Honest, Lives
  <2>. QED  BY <2>1, <2>2 DEF Registry
<1>9. Mine' /\ Held'  BY <1>2 DEF ResidentsInv, Mine, Held, Running, Lives
<1>10. Formed'  BY <1>3, <1>4 DEF ResidentsInv, Formed
<1>11. ForgetsOnlyTheGone'  BY <1>2 DEF ResidentsInv, ForgetsOnlyTheGone, Lives
<1>. QED  BY <1>5, <1>6, <1>8, <1>9, <1>10, <1>11 DEF ResidentsInv

----------------------------------------------------------------------------
(* The sweep *)

LEMMA SweepBeginsKeeps ==
    ASSUME ResidentsInv, SweepBegins
    PROVE  ResidentsInv'
<1>1. PICK reap, posix \in BOOLEAN :
         sweep' = [NoSweep EXCEPT !.pc = "next", !.reap = reap, !.posix = posix,
                                 !.todo = {n \in Files : files[n].pid # 0}]
  BY DEF SweepBegins
<1>2. sweep' \in Sweep /\ sweep'.pc = "next" /\ sweep'.rec = NoRecord
  BY <1>1 DEF NoSweep, Sweep, SweepPcs, NoRecord, Record
<1>3. UNCHANGED <<proc, started, files>>  BY DEF SweepBegins, OnlySweep
<1>. QED
  BY <1>2, <1>3, NoSweepType
     DEF ResidentsInv, ResidentsTypeOK, Dated, Registry, Honest, Lives, Mine, Held,
         Formed, ForgetsOnlyTheGone

LEMMA LoadsRecordKeeps ==
    ASSUME ResidentsInv, LoadsRecord
    PROVE  ResidentsInv'
<1>1. PICK n \in sweep.todo :
         sweep' = [sweep EXCEPT !.todo = @ \ {n}, !.file = n, !.rec = files[n], !.unseen = FALSE,
                      !.pc = IF files[n].form = "ok" /\ files[n].owner = "mine" /\ sweep.reap
                             THEN "alive" ELSE "next"]
  BY DEF LoadsRecord
<1>. DEFINE s == sweep
            pc == IF files[n].form = "ok" /\ files[n].owner = "mine" /\ sweep.reap
                  THEN "alive" ELSE "next"
            r == files[n]
<1>2. s \in Sweep /\ n \in Files /\ r \in Record /\ started \in Nat
  BY DEF ResidentsInv, ResidentsTypeOK, Sweep
<1>3. sweep' = [s EXCEPT !.todo = s.todo \ {n}, !.file = n, !.rec = r, !.unseen = FALSE,
                          !.pc = pc]
  BY <1>1
<1>4. pc \in {"alive", "next"} /\ (pc = "alive" => r.owner = "mine" /\ r.form = "ok")
  OBVIOUS
<1>5. UNCHANGED <<proc, started, files>>  BY DEF LoadsRecord, OnlySweep
<1>. HIDE DEF s, pc, r
<1>6. /\ sweep' \in Sweep /\ sweep'.pc = pc /\ sweep'.rec = r /\ sweep'.file = n
  BY <1>2, <1>3, <1>4 DEF Sweep, SweepPcs
<1>7. ResidentsTypeOK'  BY <1>5, <1>6 DEF ResidentsInv, ResidentsTypeOK
<1>8. Dated' /\ Registry'
  BY <1>2, <1>5, <1>6 DEF ResidentsInv, Dated, Registry, Honest, Lives, r
<1>9. r.form = "ok" => r.pid \in Pids
  BY <1>2 DEF ResidentsInv, Formed, r
<1>10. Mine' /\ Held'  BY <1>2, <1>4, <1>6, <1>9 DEF Mine, Held
<1>11. Formed' /\ ForgetsOnlyTheGone'
  BY <1>4, <1>5, <1>6 DEF ResidentsInv, Formed, ForgetsOnlyTheGone
<1>. QED  BY <1>7, <1>8, <1>10, <1>11 DEF ResidentsInv

\* What the sweep knows of its record once it has taken it up.
LEMMA TakenUp ==
    ASSUME ResidentsInv, sweep.pc \notin {"idle", "next"}
    PROVE  /\ sweep \in Sweep /\ sweep.rec \in Record /\ sweep.rec.pid \in Pids
           /\ sweep.rec.start \in Nat /\ sweep.posix \in BOOLEAN /\ sweep.file \in Files
           /\ proc[sweep.rec.pid] \in Process
           /\ ~Running(sweep.rec.pid) => ~Lives(sweep.rec)
<1>1. sweep \in Sweep  BY DEF ResidentsInv, ResidentsTypeOK
<1>2. sweep.rec \in Record /\ sweep.posix \in BOOLEAN  BY <1>1 DEF Sweep
<1>3. sweep.rec.pid \in Pids /\ sweep.file \in Files  BY DEF ResidentsInv, Mine
<1>4. proc[sweep.rec.pid] \in Process  BY <1>3 DEF ResidentsInv, ResidentsTypeOK
<1>. QED  BY <1>1, <1>2, <1>3, <1>4 DEF Record, Running, Lives

LEMMA SweepEndsKeeps ==
    ASSUME ResidentsInv, SweepEnds
    PROVE  ResidentsInv'
<1>1. sweep' = NoSweep /\ UNCHANGED <<proc, started, files>>  BY DEF SweepEnds, OnlySweep
<1>. QED
  BY <1>1, NoSweepType
     DEF ResidentsInv, ResidentsTypeOK, Dated, Registry, Honest, Lives, Mine, Held,
         Formed, ForgetsOnlyTheGone

LEMMA ChecksAliveKeeps ==
    ASSUME ResidentsInv, ChecksAlive
    PROVE  ResidentsInv'
<1>1. sweep.pc \notin {"idle", "next"}  BY DEF ChecksAlive
<1>2. PICK pc \in {"observe", "reread"} : Goes(pc) /\ (pc = "reread" => ~Running(sweep.rec.pid))
  BY DEF ChecksAlive
<1>3. OnlySweep /\ pc \in SweepPcs  BY DEF ChecksAlive, SweepPcs
<1>. QED  BY <1>1, <1>2, <1>3, TakenUp, GoesOn

LEMMA IdentifiesKeeps ==
    ASSUME ResidentsInv, Identifies
    PROVE  ResidentsInv'
<1>1. sweep.pc \notin {"idle", "next"} /\ OnlySweep  BY DEF Identifies
<1>2. PICK seen \in Seen(sweep.rec.pid) :
         Goes(CASE Identity(sweep.rec, seen) = "match" -> "look"
                [] Identity(sweep.rec, seen) = "mismatch" -> "reread"
                [] Identity(sweep.rec, seen) = "unknown" -> "next")
  BY DEF Identifies
<1>3. Identity(sweep.rec, seen) \in {"match", "mismatch", "unknown"}  BY DEF Identity
<1>4. Identity(sweep.rec, seen) = "mismatch" =>
         ~Lives(sweep.rec) \/ proc[sweep.rec.pid].moved
  BY DEF Identity, Lives
<1>5. CASE Identity(sweep.rec, seen) = "match"
  <2>1. Goes("look")  BY <1>2, <1>5
  <2>2. "look" \in SweepPcs  BY DEF SweepPcs
  <2>. QED  BY <1>1, <2>1, <2>2, GoesOn
<1>6. CASE Identity(sweep.rec, seen) = "mismatch"
  <2>1. Goes("reread")  BY <1>2, <1>6
  <2>2. "reread" \in SweepPcs  BY DEF SweepPcs
  <2>. QED  BY <1>1, <1>4, <1>6, <2>1, <2>2, GoesOn
<1>7. CASE Identity(sweep.rec, seen) = "unknown"
  <2>1. Goes("next")  BY <1>2, <1>7
  <2>2. "next" \in SweepPcs  BY DEF SweepPcs
  <2>. QED  BY <1>1, <2>1, <2>2, GoesOn
<1>. QED  BY <1>3, <1>5, <1>6, <1>7

LEMMA LooksAgainKeeps ==
    ASSUME ResidentsInv, LooksAgain
    PROVE  ResidentsInv'
<1>1. sweep.pc \notin {"idle", "next"} /\ OnlySweep  BY DEF LooksAgain
<1>2. PICK seen \in BOOLEAN :
         /\ seen => Running(sweep.rec.pid)
         /\ sweep' = [sweep EXCEPT !.unseen = ~seen,
                         !.pc = IF seen /\ proc[sweep.rec.pid].start = sweep.rec.start
                                THEN "term" ELSE "reread"]
  BY DEF LooksAgain, Seen
<1>. DEFINE s == sweep
            pc == IF seen /\ proc[sweep.rec.pid].start = sweep.rec.start THEN "term" ELSE "reread"
<1>3. s \in Sweep /\ sweep' = [s EXCEPT !.unseen = ~seen, !.pc = pc]  BY <1>1, <1>2, TakenUp
<1>4. pc \in {"term", "reread"} /\ (pc = "term" => Lives(sweep.rec))
      /\ (pc = "reread" => ~Lives(sweep.rec) \/ ~seen)
  BY <1>1, <1>2, TakenUp DEF Lives, Running
<1>. HIDE DEF s, pc
<1>5. /\ sweep' \in Sweep /\ sweep'.pc = pc /\ sweep'.unseen = ~seen
      /\ sweep'.rec = s.rec /\ sweep'.file = s.file
  BY <1>3, <1>4 DEF Sweep, SweepPcs
<1>6. sweep'.rec = sweep.rec /\ sweep'.file = sweep.file  BY <1>5 DEF s
<1>. QED  BY <1>1, <1>4, <1>5, <1>6, SweepMovesOn

LEMMA TerminatesKeeps ==
    ASSUME ResidentsInv, Terminates
    PROVE  ResidentsInv'
<1>1. sweep.pc \notin {"idle", "next"} /\ sweep.pc = "term" /\ OnlySweep  BY DEF Terminates
<1>2. PICK pc \in {"reread", "grace", "next"} :
         Goes(pc) /\ (pc = "reread" => ~Running(sweep.rec.pid))
  BY DEF Terminates
<1>3. pc \in SweepPcs  BY DEF SweepPcs
<1>4. ~FastReuse /\ Running(sweep.rec.pid) => Lives(sweep.rec)  BY <1>1 DEF ResidentsInv, Held
<1>. QED  BY <1>1, <1>2, <1>3, <1>4, TakenUp, GoesOn

LEMMA SeesDeadKeeps ==
    ASSUME ResidentsInv, SeesDead
    PROVE  ResidentsInv'
<1>1. /\ sweep.pc \notin {"idle", "next"} /\ OnlySweep /\ ~Running(sweep.rec.pid)
      /\ Goes("reread") /\ "reread" \in SweepPcs
  BY DEF SeesDead, SweepPcs
<1>. QED  BY <1>1, TakenUp, GoesOn

LEMMA GraceEndsKeeps ==
    ASSUME ResidentsInv, GraceEnds
    PROVE  ResidentsInv'
<1>1. /\ sweep.pc \notin {"idle", "next"} /\ sweep.pc = "grace" /\ OnlySweep
      /\ Running(sweep.rec.pid)
  BY DEF GraceEnds
<1>2. PICK pc \in {"kill", "next"} : Goes(pc) /\ pc \in SweepPcs
  BY DEF GraceEnds, AfterGrace, SweepPcs
<1>3. ~FastReuse => Lives(sweep.rec)  BY <1>1 DEF ResidentsInv, Held
<1>. QED  BY <1>1, <1>2, <1>3, GoesOn

LEMMA KillsKeeps ==
    ASSUME ResidentsInv, Kills
    PROVE  ResidentsInv'
<1>1. sweep.pc \notin {"idle", "next"} /\ sweep.pc = "kill" /\ OnlySweep  BY DEF Kills
<1>2. PICK pc \in {"reread", "dying", "next"} :
         Goes(pc) /\ (pc = "reread" => ~Running(sweep.rec.pid))
  BY DEF Kills
<1>3. pc \in SweepPcs  BY DEF SweepPcs
<1>4. ~FastReuse /\ Running(sweep.rec.pid) => Lives(sweep.rec)  BY <1>1 DEF ResidentsInv, Held
<1>. QED  BY <1>1, <1>2, <1>3, <1>4, TakenUp, GoesOn

LEMMA DyingTakesTooLongKeeps ==
    ASSUME ResidentsInv, DyingTakesTooLong
    PROVE  ResidentsInv'
<1>1. /\ sweep.pc \notin {"idle", "next"} /\ OnlySweep
      /\ Goes("next") /\ "next" \in SweepPcs
  BY DEF DyingTakesTooLong, SweepPcs
<1>. QED  BY <1>1, GoesOn

LEMMA RereadsKeeps ==
    ASSUME ResidentsInv, Rereads
    PROVE  ResidentsInv'
<1>1. sweep.pc \notin {"idle", "next"} /\ sweep.pc = "reread" /\ OnlySweep  BY DEF Rereads
<1>2. PICK pc \in {"unlink", "next"} : Goes(pc) /\ pc \in SweepPcs
  BY DEF Rereads, SweepPcs
<1>3. ~Lives(sweep.rec) \/ proc[sweep.rec.pid].moved \/ sweep.unseen
  BY <1>1 DEF ResidentsInv, ForgetsOnlyTheGone
<1>. QED  BY <1>1, <1>2, <1>3, GoesOn

LEMMA UnlinksKeeps ==
    ASSUME ResidentsInv, Unlinks
    PROVE  ResidentsInv'
<1>1. /\ sweep.pc \notin {"idle", "next"} /\ Goes("next") /\ "next" \in SweepPcs
      /\ UNCHANGED <<proc, started>>
      /\ files' = [files EXCEPT ![sweep.file] = NoRecord]
  BY DEF Unlinks, SweepPcs
<1>2. ResidentsTypeOK /\ files \in [Files -> Record] /\ started \in Nat
  BY DEF ResidentsInv, ResidentsTypeOK
<1>3. sweep' \in Sweep /\ sweep'.pc = "next" /\ sweep'.rec = sweep.rec
  BY <1>1, <1>2, GoesType
<1>4. /\ files' \in [Files -> Record]
      /\ \A n \in Files : files'[n] = files[n] \/ files'[n] = NoRecord
  BY <1>1, <1>2, NoSweepType
<1>5. NoRecord.start <= started /\ ~Lives(NoRecord)' /\ NoRecord.form = "malformed"
  BY <1>2, NoSweepType DEF Lives, NoRecord
<1>6. ResidentsTypeOK'  BY <1>1, <1>3, <1>4 DEF ResidentsInv, ResidentsTypeOK
<1>7. Dated'  BY <1>1, <1>3, <1>4, <1>5 DEF ResidentsInv, Dated
<1>8. Registry'
  BY <1>1, <1>3, <1>4, <1>5 DEF ResidentsInv, Registry, Honest, Lives
<1>9. Mine' /\ Held' /\ ForgetsOnlyTheGone'  BY <1>3 DEF Mine, Held, ForgetsOnlyTheGone
<1>10. Formed'  BY <1>4, <1>5 DEF ResidentsInv, Formed
<1>. QED  BY <1>6, <1>7, <1>8, <1>9, <1>10 DEF ResidentsInv

----------------------------------------------------------------------------
(* The theorems *)

LEMMA ResidentsInitInv == ResidentConstants /\ ResidentsInit => ResidentsInv
<1>. SUFFICES ASSUME ResidentConstants, ResidentsInit PROVE ResidentsInv
  OBVIOUS
<1>1. NoProcess \in Process /\ NoProcess.start = 0  BY DEF NoProcess, Process
<1>2. ~Lives(NoRecord) /\ NoRecord.form = "malformed"
  BY DEF ResidentConstants, Lives, NoRecord
<1>. QED
  BY <1>1, <1>2, NoSweepType
     DEF ResidentsInit, ResidentsInv, ResidentsTypeOK, Dated, Registry, Honest, Mine, Held,
         Formed, ForgetsOnlyTheGone

LEMMA ResidentsStep == ResidentsInv /\ [ResidentsNext]_residentVars => ResidentsInv'
<1>. SUFFICES ASSUME ResidentsInv, [ResidentsNext]_residentVars PROVE ResidentsInv'
  OBVIOUS
<1>1. CASE SweepBegins  BY <1>1, SweepBeginsKeeps
<1>2. CASE SweepStep
  BY <1>2, LoadsRecordKeeps, SweepEndsKeeps, ChecksAliveKeeps, IdentifiesKeeps,
     LooksAgainKeeps, TerminatesKeeps, SeesDeadKeeps, GraceEndsKeeps, KillsKeeps,
     DyingTakesTooLongKeeps, RereadsKeeps, UnlinksKeeps DEF SweepStep
<1>3. ASSUME NEW p \in Pids, ProcessStarts(p) \/ ProcessExits(p) \/ ProcessMoves(p)
      PROVE  ResidentsInv'
  BY <1>3, ProcessStartsKeeps, ProcessExitsKeeps, ProcessMovesKeeps
<1>4. ASSUME NEW p \in Pids, NEW n \in Files, Registers(p, n) PROVE ResidentsInv'
  BY <1>4, RegistersKeeps
<1>5. CASE UNCHANGED residentVars
  BY <1>5 DEF residentVars, ResidentsInv, ResidentsTypeOK, Dated, Registry, Honest, Lives,
              Mine, Held, Running, Formed, ForgetsOnlyTheGone
<1>. QED  BY <1>1, <1>2, <1>3, <1>4, <1>5 DEF ResidentsNext

\* Unless a pid is reused between two looks 50 ms apart, a signal of a sweep reaches
\* only the very process that registered, whatever other processes start, exit or
\* register meanwhile (_terminate_process).
THEOREM ResidentsSignalled == ~FastReuse => (ResidentsSpec => []SignalsOnlyRegistered)
<1>. SUFFICES ASSUME ~FastReuse PROVE ResidentsSpec => []SignalsOnlyRegistered
  OBVIOUS
<1>1. ResidentsInv => SignalsOnlyRegistered
  <2>. SUFFICES ASSUME ResidentsInv, sweep.pc \in {"term", "kill"}, Running(sweep.rec.pid)
                PROVE  Lives(sweep.rec) /\ proc[sweep.rec.pid].org = "mine"
    BY DEF SignalsOnlyRegistered
  <2>1. Lives(sweep.rec)  BY DEF ResidentsInv, Held
  <2>. QED  BY <2>1 DEF ResidentsInv, Mine, Registry, Honest
<1>2. ResidentsInit => ResidentsInv  BY ResidentsInitInv, ResidentConstants
<1>3. ResidentsInv /\ [ResidentsNext]_residentVars => ResidentsInv'  BY ResidentsStep
<1>. QED  BY <1>1, <1>2, <1>3, PTL DEF ResidentsSpec

\* Whatever cannot be observed, whatever other processes do and whoever registers: a sweep
\* removes only the registration of a process that is gone, no longer what it registered,
\* or out of sight when it was about to be signalled (_terminate_process).
THEOREM ResidentsForgotten == ResidentsSpec => []ForgetsOnlyTheGone
<1>1. ResidentsInv => ForgetsOnlyTheGone  BY DEF ResidentsInv
<1>2. ResidentsInit => ResidentsInv  BY ResidentsInitInv, ResidentConstants
<1>3. ResidentsInv /\ [ResidentsNext]_residentVars => ResidentsInv'  BY ResidentsStep
<1>. QED  BY <1>1, <1>2, <1>3, PTL DEF ResidentsSpec

\* The sweep, the registry and the processes stay of their types.
THEOREM ResidentsTyped == ResidentsSpec => []ResidentsTypeOK
<1>1. ResidentsInv => ResidentsTypeOK  BY DEF ResidentsInv
<1>2. ResidentsInit => ResidentsInv  BY ResidentsInitInv, ResidentConstants
<1>3. ResidentsInv /\ [ResidentsNext]_residentVars => ResidentsInv'  BY ResidentsStep
<1>. QED  BY <1>1, <1>2, <1>3, PTL DEF ResidentsSpec

=============================================================================
