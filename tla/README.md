# claude-org-runtime: TLA+ models, model checking and proofs

claude-org-runtime runs an organisation of coding agents in terminal panes. A daemon (the *broker*)
keeps the agents' message queue, credentials and panes; a small *channel sidecar* beside each agent
session pushes messages into it; a *launcher* brings the daemon and the secretary's session up and
down; a *dispatcher* helper plans new workers and says how to answer their startup dialogs; an
*attention watcher* tells the human what needs him.

This directory models the parts of the code where steps of several actors meet, or where a long
sequence of legal calls could lead somewhere illegal. TLC checks the models on small instances;
TLAPS proves the most important safety properties for every value of the constants.

Paths below are relative to `src/src/claude_org_runtime/` unless they say otherwise.
`PROJECT.json` names, for every definition that models code, the lines it stands for.

* [1 Inventory](#1-inventory)
* [2 Modules and their correspondence with the code](#2-modules-and-their-correspondence-with-the-code)
* [3 Runs](#3-runs)
* [4 Fairness](#4-fairness)
* [5 Proofs](#5-proofs)
* [6 Findings](#6-findings)
* [7 What is left out, and why](#7-what-is-left-out-and-why)
* [8 Plan](#8-plan)

To run: `tlc -workers 2 -config MCDeliveryStore_claims.cfg MCDeliveryStore.tla`,
`tlapm OrgLifecycleProofs.tla`, and so on for each row of section 3 and section 5.

## 1 Inventory

| component (files) | state it keeps | what is hard | properties that make it correct | status |
|---|---|---|---|---|
| **message store** (`broker/store.py`) | queue rows; per owner: delivery mode, epoch, generation, instance, observer lease, pending adoption | two sidecars of one owner; a late confirm after a re-claim; a lapsed claim; an adoption that expires after a second was forced over it | `ClaimFenced`, `ReceiptAwaitedOnce`, `DeliveredIsFinal`, `AdoptionFence`, `NoOrphanedFence`, `ImplementsFencedQueue`, `AdoptRestoresIncumbent`, `LeaseHolderKnowsSecret` | `DeliveryStore`, `FencedQueue`, `DeliveryHistory` |
| **tokens and credentials** (`broker/tokens.py`) | `_binds`: token → agent, scope, sessions, revoked | names are freed by one lock scope, the rest of the agent goes in later ones | `NoCrossSessionDelivery` | in `DeliveryStore` |
| **daemon: sessions, spawn, panes** (`broker/server.py`) | `_pane_meta`, reserved names, HTTP sessions | spawn (four lock scopes and an undo path) against adopt, clean-up (four more) against re-use of the name, authentication in one scope and service in another | `ClosingHuskIsHarmless`, `NoCrossSessionDelivery` | in `DeliveryStore` |
| **nudges and user turns** (`broker/server.py`, `broker/user_turn.py`) | per recipient: one nudge thread, one lease-watch timer, one pane write lock; the composer | threads created before they start, a thread found alive that has decided to end, a screen read before a lock | `ClaimWatched`, `LapsedClaimsReaped`, `BrokerTextsApart`, `WorkersEnd` | `Wakeups`, `WakeupHistory` |
| **launcher: org up, adopt, down** (`broker/launcher.py`, `sidecar.py`, `rpc.py`, `cli.py`) | `daemon.json`, `admin.token`, the journal's `broker_stopped` line | daemons and commands die between any two file accesses; a stale file; a refusal taken for a stop | `OneDaemon`, `LiveDaemonIsFound`, `ForgetsOnlyDeadDaemon`, `ReapSparesLiveOrg`, `AdviceLeadsUp` | `OrgLifecycle` |
| **resident processes** (`broker/residents.py`) | registrations on disk; the process table | a pid reused while the sweep looks elsewhere; a process that cannot be observed; a registration replaced meanwhile | `SignalsOnlyRegistered`, `ForgetsOnlyTheGone`, `DeletesOnlyStale` | `Residents` |
| **attention watcher** (`attention/readers.py`, `classifier.py`, `dedup.py`, `cli.py`) | `attention_notified.json` | two scans at once, a scan stopped between ringing and saving, a lost file, a failing backend, a journal longer than a chunk | `SilencedOnlyAfterRinging`, `RepeatsHaveACause`, `UrgentAlarmsRing`, `TailReadsWindow` | `Attention`, `JournalTail` |
| **attention settings and notifiers** (`attention/config.py`, `notify.py`, `platform.py`) | none | a config older than the ladder of thresholds | `ConfigsMakeALadder` | in `Attention` |
| **dispatcher runner** (`dispatcher/runner.py`) | worker files and outbox files | snapshots that are stale when the spawn comes; workers no snapshot shows; indices that shift; geometry at its limits | `AdmitsBelowTheCeiling`, `IndexFollowsTheTab`, `RefusedSpawnsCanBeRetried`, `OverflowIsAFallback`, `IgnoredFlagsAreInert`, `PanesStayUsable`, `MeasuresTheTab`, `ViewportIsKept` | `Delegation`, `BalancedSplit` |
| **spawn prompt and prompts** (`dispatcher/spawn_prompt.py`, `prompts/`) | the previous screen, the decision record of a pane | a screen that lags behind a key, or is drawn over the dialog before it | `WorkerNeverExits`, `RecordIsLatest`, `ApprovalEnds` | `SpawnPrompt` |
| **herdr backend** (`terminal/herdr.py`) | spaces, pane records, pending sweeps, the generation file | a sweep against a spawn and a poll, requests that fail or lose their answer, a daemon that finds its predecessor's workspaces | `SweepsCloseOnlyTheirOwn`, `AdoptsNoDeadAgents`, `LiveAgentsAreTracked` | `Herdr` |
| **channel sidecar** (`broker/channel_sidecar.py`) | owner, generation, instance, claims it is pushing | restarts and forks | those of the store, whose callers it is one of | section 7 |
| **terminal backends** (`terminal/base.py`, `tmux.py`, `wezterm.py`, `keys.py`, `cockpit.py`) | the multiplexer's | external programs | | typing into tmux is in `Wakeups`; section 7 |
| **tool surface and tiers** (`broker/surface.py`, `placement.py`, `notify.py`, `context_usage.py`) | none | | a role's tools are the ones its tier declares | section 7 |
| **settings generator**, **sandbox doctor** (`settings/`) | none | layers that disagree | a deny is never weakened by a layer | section 7 |
| **state schema**, **state migration**, **transport descriptor**, **command line** (`schema/`, `migrate/`, `transport/`, `cli.py`) | none | | | section 7 |

How they interact. Agents and sidecars call the daemon over HTTP; each call is a thread, and all
state of the store, the tokens and the panes is behind one non-reentrant lock. After the lock is
released a call may write the journal, start a nudge thread and arm the lease-watch timer. The
launcher talks to the daemon over an admin RPC whose address and key it finds in two files, and
starts it as a process; `org up` and `org down` sweep the registry of residents. The daemon reaches
panes through a terminal backend, herdr's being the one with a registry of its own. The dispatcher's
commands read two snapshots of panes and peers that the dispatching agent captured, write worker
files, and tell it what to spawn and which keys to send. The attention watcher reads the daemon's
journal, the organisation's database and its pending decisions; nothing calls it.

`PROJECT.json` lists 40 hazards of this code with their lines. Each either names the properties
that would catch it or says why none does.

## 2 Modules and their correspondence with the code

```
FencedQueue  <--implements--  DeliveryStore <- MCDeliveryStore, DeliveryHistory <- MCDeliveryHistory
                              DeliveryStore <- DeliveryStoreProofs
DeliveryHistory, DeliveryStoreProofs    <- DeliveryAdoptionProofs
Wakeups      <- WakeupHistory, WakeupProofs
OrgLifecycle <- OrgLifecycleProofs
JournalTail  <- Attention
Attention, Residents                    <- StateDirProofs
Attention, Residents, OrgLifecycle      <- MCStateDir
SpawnPrompt, BalancedSplit, Delegation, Herdr  <- MCDispatch
SpawnPrompt, Delegation                 <- DispatchProofs
BalancedSplit                           <- BalancedSplitProofs
Herdr        <- HerdrProofs
```

`A <- B` reads "B extends A". The MC modules `MCStateDir` and `MCDispatch` put specifications
that share no state side by side: a variable `scene`, chosen at the start, says which of them a
behaviour is about, and the others do not move. What one checks in a scene is what one would check
of the module alone; no property spans two scenes.

### DeliveryStore

`StoreMixin` with the parts of `TokenMixin` and `Broker` it depends on. **One action is one lock
scope**: everything a handler does between taking and releasing the lock, its opening sweeps and its
resets included. Handlers that take the lock several times have a program counter: a spawn
(`spawn[a].pc`: token, credential, lease, pane, and three undo steps) and `_cleanup_pane`
(`cleanup[a]`: pane, credentials, reset, rows). `IssueToken` stands for the `issue_token` of a spawn
and of the launcher's `admin_mint_token`; an owner in `Logical` is launched, the others are spawned.

| variable | code |
|---|---|
| `rows` | `_rows` (with `FREE` for an id not handed out and `GONE` for a deleted row) |
| `mode`, `epoch`, `gen`, `inst` | `_delivery_modes`, `_epochs`, `_delivery_generations`, `_delivery_instances` |
| `lease`, `pending` | `_observer_leases`, `_pending_adoptions` |
| `bind`, `cred`, `pane` | `_binds` (full scope; delivery scope), `_pane_meta` |
| `spawn`, `cleanup` | locals of the handlers that span lock scopes |
| `minted` | how many tokens and secrets exist: a fresh number each, never guessed |

A deadline is a flag that an action of `Clock` raises (`lapsed`, `due`, a lease phase); the next lock
scope that sweeps acts on it, as in the code. A poll or confirm carries any generation and
instance, and a registration any secret minted so far: late calls of displaced sidecars, replays
and forks are all there without a channel of messages. `Next == Others \/ Register` is split so that `DeliveryHistory`
can record the secret a registration presented.

Modelling choices a reader of the code will look for:

* `QueueRow.owner` is `row.to` while the row is claimed and is not read otherwise; the claim fields
  are cleared when it is not claimed, because nothing reads them then.
* One number stands for the adoption id, the secret and the token that one `adopt` mints together;
  a delivery credential carries the number of its spawn's token.
* The tables that only feed journal lines (stand-downs, duplicate detection, reclaim counts) are
  left out, and so are panes without an owner whose id collides with one.
* An MCP call is served in the step that authenticates it (hazard `server.py:2310`).
* One clean-up per agent is in flight, and one spawn.
* A confirm may carry any epoch, generation and instance. Since every change of a fence gives the
  claims back in the same lock scope (`ClaimFenced`), the branches of a stale confirm that give a row
  back find nothing to give: they are a second line of defence and are modelled as they stand.

### FencedQueue

What the store promises, without sidecars, leases, sessions or time: a message is put once, leased
to the recipient's present holder, returned or finished, repeated at most once, discarded with its
recipient; a holder changes only while it has nothing leased. `DeliveryStore!ImplementsFencedQueue`
is its specification with `holder` the pair of generation and instance in the current epoch.

### DeliveryHistory

History variables that no action reads: which session of a name a row was sent to (`life`, `born`),
the holder the pending adoptions have displaced (`incumbent`), whether an adoption began during a
spawn (`raced`), and the secret the holder of each generation had to show (`proof`). `raced` excludes
one corner from `AdoptRestoresIncumbent`: the spawn asserts its lease over that of the adoption, its session
registers, and an adoption forced over the first inherits a rollback saved before that session was there.
The corner is named with the hazard `server.py:1757`.

### Wakeups and WakeupHistory

What happens after the lock is released, for one recipient that has a pane: daemon threads and timer
threads (`caller`), the timer (`armed`), nudge threads (`worker`, and `slot`, the entry of the thread
table), user turns (`turn`), the pane's write lock, and the composer (`draft`, `busy`). An action is
one lock scope of the daemon, or one read of the screen, or one write to it; a nudge thread is created
in one step and started in another, as `threading.Thread` is. The composer holds the texts the broker
typed and the human's (`HumanEdits`); the operator, the agent and the sidecar may do anything at any
time or nothing at all. A screen is read as empty, a draft or busy. The store is reduced to the
row states this part reads; `DeliveryStore` has them in full. `WakeupHistory` remembers which reaped
rows a lease watch has promised to announce.

### OrgLifecycle

`org up`, `org down` and `broker run` on one state directory. An action is **one access to a file or
one RPC**: a crash, an interrupt or a step of a daemon may come between any two. `json` and `token`
are `daemon.json` and `admin.token` (whose they are, or none). A daemon goes
`boot → listen → half → up` (socket, first file, second file) and on a stop
`closed → noted → unlinked → gone`. `slice` is "`broker_stopped` stands in the journal after
`journal_offset`". `cmd` is the running command: where it is, the address and key it has read, the
daemon it started, and the advice it will print. `FollowAdvice` is an operator who from then on does
what the commands print, with no more mishaps; this is what `AdviceLeadsUp` is about.

Assumptions, all of them in guards: one operator runs one command at a time; a command begins
only when every daemon is gone or has published at least its first file and was not asked to stop
(`Settled`; two commands at once are a hazard with no property, `launcher.py:574`); a signal from
outside (`Terminate`) comes while no command runs; crashes and interrupts come at any time while the
operator is free.

### Attention and JournalTail

One action is one access to the state directory or one notification. The world outside writes:
a row of `state.db` (`RowIsWritten`), an entry of `pending_decisions.json` (`DecisionChanges`: it
comes, is replied to, forwarded, withdrawn, or its times are garbled), a line of the journal, whose
time a daemon thread takes (`Stamps`) before it appends it (`Appends`). Two scanners, the watcher and a
scan by hand, each go `read → notify → save`: `Reads` takes all sources and the dedup file (a source
may be unreadable), `Skips` and `Notifies` handle one alert each in any order, `Saves` writes the whole
file, `Stops` may come at any time. `DedupFileIsLost` is a file that is missing or no longer JSON. An alert is
its key, kind, severity and whether it is suppressed; the tables of kinds, severities and the ladder of a pending
decision (`Ladder`: urgent, demoted, dropped, by age) are those of `classifier.py`. `raw` is a config as written;
`Loads`, `ScaledMax` and `ScaledDrop` say which configs load, and with which thresholds.

`rang`, `spoils` and `repeats` are history: when each key last reached the operator, what
disturbed the dedup state since (a stopped or overlapping pass, a lost file), and how often a key rang
again too early.

`JournalTail` is the walk back through the journal in chunks as operators on the lines with their
offsets and lengths: what a chunk holds whole, when it reaches the cutoff, what is read and whether the
walk was capped. Offsets are real byte counts of short lines, so chunk boundaries fall in every place.

### Residents

The sweep of one `org up` or `org down`, one look at a process, one signal or one access to a
registration per action, for POSIX and Windows, with or without `--reap`. `proc` is the process that
has a pid, if any (when it started, whose it is, whether its executable or working directory
moved); registrations are written by registrants at any time, with any of the three forms
`_load_record` tells apart. `Identity` is the comparison of owner, pid, start time and executable
with what is observed. Any look at a live process may fail (`Seen`); `sweep.unseen` notes that the look before
the signal did. The constant `FastReuse` says whether a pid may be reused between two looks 50 ms apart.

### SpawnPrompt

The dispatcher's loop around `spawn-prompt-step` (`approver`: inspect, decide, send), the decision
record with its lifetime, the hook that lets `send_keys` through only with a valid record, and
Claude Code behind its screen. A screen is a sequence of rows; a row is its kind (an option of one of
the dialogs, the footer, the composer, text) and whether the cursor leads it. Claude Code
may list its options in either order, may draw a frame without its cursor, or below what the dialog before left
(`Frames`), and an inspection may return an older screen `Late` times after a change.
`Decide` is `_decide` with `_find_dialog`, `_settled` and the deadline.

### BalancedSplit

`choose_split` over the life of a tab: renga's layout is a binary tree of cuts, a pane is a leaf,
and `Panes` gives the rectangles `list_panes` would report. A step splits the pane
that `ChooseSplit` picks, or closes one; the sibling takes its room. `PaneArea` is the
bounding box the code measures for a new tab. `Tree`, `DispatcherTab` and `BalancedSplitAssumption` say which
tabs may be there at the start: any tree of cuts with one dispatcher and the Secretary whose panes are usable.

### Delegation

The dispatching agent captures `list_panes` and, in another call, `list_peers`, runs `delegate-plan` on the
two, spawns and follows the plan's steps; meanwhile workers are approved, bind as
peers, run or end, panes close, tabs go and the indices after them shift, and the clock moves.
`BuildPlan` is `build_plan` with its refusals in their order: identity and worker files, the
broker's ceiling, tab resolution, the split, and the overflow with its census and reservations
(`Reserved`: seeds still "planned" within the window). `Plans` writes the seed, then the
instruction, and may fail between the two. `SpawnFails` does what the plan's recovery table
tells the dispatcher. `org` holds settings: transport, ceiling, whether the terminal can spawn into tabs.

### Herdr

A step is one request to the herdr server with what the thread does until its next one; a request is
answered, fails, or is done and its answer is lost (`Outcomes`). Three threads of the broker run
at once: one spawns, one polls (`list_panes` with `_escape_degraded`, `_sweep_empty_project_spaces` and
`_retry_pending_sweep`), one closes and reaps (`pane_liveness`, `kill_pane`). `lock` is `_spawn_lock`. Daemons crash
and boot: `Boots` bumps the generation, `BootSweeps` treats one workspace of a predecessor.

| variable | code |
|---|---|
| `label`, `pane` | the server: the label of a workspace, what runs in a pane; numbers of closed panes may be used again |
| `spaces`, `owned`, `pending` | `_spaces`, `_owned_panes`, `_pending_sweep` |
| `gen`, `forgot` | the generation file; that it was lost once |
| `thread` | locals of the three threads: the space, workspace, root pane and pane they work on, what their list showed |

Simplifications: the lists a poll makes of all its workspaces are one step, at the end of which one workspace may
be missed; `degraded_max_seconds` is left out, only misses count; the grace of a young space is left
out, which allows more sweeps than the code makes.

## 3 Runs

| run (module, cfg) | instance | what it shows |
|---|---|---|
| `store_claims` (`MCDeliveryStore`) | one owner per behaviour, spawned or launched (`subject`), and a peer; 2 sidecar instances, 1 row, renotification on, 2 generations, 1 epoch flip, 3 tokens; 165 840 states | types; claims are always under the present fence; a receipt is awaited once; an adoption keeps everyone out and is never orphaned; a delivery is final; the store implements `FencedQueue` |
| `adopt` (`MCDeliveryHistory`) | one owner per behaviour, of either kind; 4 generations, 5 tokens, no rows; 226 079 states | adoptions forced over one another, expired, completed, cut off by closing the pane: the right holder gets the owner back, and the holder of a live lease is the one that showed its secret |
| `wakeups_watch` (`Wakeups`) | 2 rows, 2 daemon threads, 1 timer, 1 nudge thread; 229 068 states | every claim is watched from the step that makes it; a lapsed claim is reaped although nobody calls |
| `wakeups_pane` (`Wakeups`) | 1 row, 2 daemon threads, 2 nudge threads, 2 user turns, 2 tries; 135 476 states | broker texts never meet in the composer; no nudge thread stays for ever |
| `state_dir` (`MCStateDir`) | scenes of one row, one decision, one owner's journal lines (3 lines, chunks of 1 to 4 bytes and caps), 6 561 ladder configs, one sweep of 1 file over 2 pids, 3 daemons; clock 0 to 3; 137 491 states | nothing is silenced unheard, repetitions have a cause, urgent alarms ring; the walk finds its window; configs make a ladder; the sweep signals only what registered, and forgets only what is gone or out of sight; one daemon, the files of a live one stay, its residents are spared, the printed advice leads back up |
| `dispatch` (`MCDispatch`) | scenes of one pane with both dialogs (deadline 5, lifetime 2, one late screen); tabs of three sizes up to 6 panes; 2 tasks under a ceiling of one; 1 task over 3 tabs and all selectors; for herdr (`poll`, `reap`, `boot`) 1 project beside the control space, 2 workspaces, 4 panes, 1 faulty request, 2 daemons; 362 884 states | a worker never exits by a key; panes stay usable and the viewport is kept; the ceiling holds though workers are unseen; an index keeps its tab; refused spawns can be retried; overflow is only a fallback; a sweep closes only what is the org's own, and no agent of a dead daemon is adopted |
| `husk_close`, `name_reuse`, `lost_nudge`, `stale_sidecar`, `herdr_orphan`, `residents_unseen` | small instances; counterexamples of 12, 11, 13, 18, 25 and 9 states | findings 1 to 6 of section 6, in this order |

Why the bounds suffice.

* *Rows of the store*: rows do not interact, except through their owner's fence, and every row loop treats
  them alike. *Two instances and two generations*: a displaced and a displacing sidecar; numbers
  are only compared for equality. One change of the epoch makes a stale one; resets to zero make numbers
  recur. *Four generations* (`adopt`) let two adoptions be forced over a first holder and one
  registration follow. *Tokens*: one for the session, one per adoption, one to spare for a second
  spawn under the same name. *One owner per behaviour* (`subject`): no operation touches two owners.
* *Two nudge threads*: the one in the slot, and one created in its place before it had started.
* *Three daemons*: one that died, one that runs or is dying, one that is started; a dead one nobody
  refers to is used again, so histories are not bounded.
* *Herdr*: two workspaces are the one of a space and the one that replaces it (or a dead daemon's and a live
  one's), four panes the two roots and two agents. `Misses` is 1, its smallest value: a space is suspected as soon as possible;
  `herdr_orphan` uses the 3 of the code. Threads run in pairs, each beside the spawner: the
  poller and the reaper meet only through `_spawn_lock`, which the spawner takes too.
* *Attention*: keys are independent but for the file that holds them, which is written whole; two
  scanners overlap. Three lines of a few bytes under chunks of one to four bytes put
  boundaries before, in and after each line. The clock runs through a cooldown of 2 and to the last rung of the ladder.
* *Dispatch*: a ceiling of one and two tasks make the contended last slot. Tabs have sizes just
  above the secretary's floors and the usual size, with odd and even sides, so halves are uneven. The lifetime of a record,
  2, is shorter than the deadline, 5: an expired record is reached.

Bounded counters stop in the store, attention, herdr and dispatch scenes and a running org rests, hence
`CHECK_DEADLOCK FALSE` there; the `Wakeups` runs check deadlock. Symmetry is used on rows and
instances, only in runs without liveness.

Every property of a passing run is shown to depend on the code by a mutation of a mapped definition
(the `Bug...` operators beside the definitions, "mutants" in `PROJECT.json`) under which TLC finds it violated.

## 4 Fairness

`Wakeups!FairSpec`: weak fairness of every daemon thread, timer, nudge thread and user turn (threads
are scheduled), of the fired timer and of the lapse of a claim (time passes), and strong fairness of
a nudge thread's acquisition of the pane's write lock, which other writers take and release (a
`threading.Lock` promises no order, but a waiter that finds it free again and again gets it).
Nothing is assumed of the agent, the human, the sidecar or the callers.

`OrgLifecycle!Fairness`: weak fairness of daemons and of a running command; strong fairness of the
expiry of `org up`'s wait, whose deadline is compared on every turn of the poll; and weak fairness of
the operator once he follows advice. A free operator, and all mishaps, promise nothing. A daemon that
lives publishes within `SIDECAR_WAIT_TIMEOUT` once nothing goes wrong any more.

`MCStateDir!ScansRun`: a pass that has read its sources handles its alerts and saves unless it is stopped
(weak), and a watcher that polls again and again finds a source readable and the backend works for it at
some time (strong, for the reading with all sources there; `read_events`: "let the next poll retry").
The watch loop itself may be stopped, and `UrgentAlarmsRing` is about one that is not.

`MCDispatch!ApprovalRuns`: the dispatcher goes on with its loop (its instructions are to repeat until told
otherwise), time passes, and Claude Code draws what it has. Nothing makes a dialog be answered or settle.

`DeliveryStore`, `Residents`, `BalancedSplit`, `Delegation` and `Herdr` state no fairness: they have only safety properties.

## 5 Proofs

All theorems hold for any finite or infinite sets of agents, rows, daemons, threads, pids, files, tasks
and any bounds, under the assumptions named in the modules (`DeliveryStore!ConstantsOK`,
`Wakeups!ConstantsOK`, `OrgLifecycle!NoneIsNoDaemon`, `Residents!ResidentConstants`,
`Attention!AttentionConstants`, `Delegation!DelegationAssumption`, `SpawnPrompt!PromptAssumption`,
`BalancedSplit!BalancedSplitAssumption`, `Herdr!HerdrAssumption`); TLC evaluates these on every run. Three theorems have a hypothesis of their
own, which the table names; each is false without it.

| module | theorem | argument |
|---|---|---|
| `DeliveryStoreProofs` | `TypeCorrect`: `Spec => []TypeOK`; `ClaimsAreFenced`, `ReceiptsAreAwaitedOnce`, `DeliveryIsFinal`, `StoreImplementsQueue` | `TypeOK` is inductive as it stands: one lemma per record that is updated, one per group of handlers; the rest below |
| `DeliveryAdoptionProofs` | `AdoptionsFence`, `FencesAreNotOrphaned`; of `DeliveryHistory`: `AdoptionsGiveBack`, `HoldersKnowSecrets` | below |
| `WakeupProofs` | `WakeupTypes`, `ClaimsAreWatched`, `BrokerTextsStayApart` | below |
| `OrgLifecycleProofs` | `LifecycleTypes`, `NeverTwoDaemons`, `LiveDaemonsAreFound`, `OnlyTheDeadAreForgotten`, `LiveOrgIsSpared` | below |
| `StateDirProofs` | of `Residents`: `ResidentsTyped`, `ResidentsSignalled` (if `~FastReuse`), `ResidentsForgotten`; of `Attention`: `AttentionHeard`, `EveryConfigMakesALadder`, `TailsAreRead`, `RepetitionsAreRare` | below |
| `HerdrProofs` | `HerdrInvariance`, `DeadAgentsStayOut`, `SweepsSpareAgents` | below |
| `DispatchProofs` | of `Delegation`: `DelegationInvariance`, `PlansKeepTheCeiling`, `WorkersLandWhereDirected`, `RefusedLeaveNothing`, `OverflowFallsBack`, `IgnoredFlagsDoNothing`; of `SpawnPrompt`: `PromptInvariance` and `NoKeyExitsTheWorker` (if `Late <= 1`), `RecordsAreLatest` | below |
| `BalancedSplitProofs` | `SplitInvariance`, `NoPaneTooSmall`, `PaneAreaIsTheTab`, `ViewportsAreKept` | below |

*Queue.* `QueueInv` is `TypeOK`, `ClaimFenced`, `ReceiptAwaitedOnce` and "a free row has no
recipient". The core is `RowStep(r)`: whatever the action, a row is kept with its owner's fence
unmoved (`FenceKept`), or put, claimed under the present fence, returned, finished, repeated or
discarded. One lemma per group of handlers shows it; from it follow, without another look at the
actions, the three invariants, `DeliveredIsFinal` and each step of the refinement. `ClaimFenced` is
needed there: when a holder changes, `FencedQueue` wants nothing leased to the old one, and
`ClaimFenced` says whose claims must be released for that.

*Adoption.* `AdoptionInv` is `TypeOK` and, for every owner, `Sound` of its lease, pending adoption,
generation and instance: the lease of a pending adoption stands fenced (`Stands`), an adoption
lease nobody has claimed is accounted for by its pending adoption (`Accounted`), a lease carries its
adoption's secret (`CarriesSecret`, so that registering with the secret ends both), and the lease a
rollback would restore is not an unclaimed adoption lease (`Restorable`, or restoring it would orphan
it). Two corollaries of `Sound` are the theorems. `SweepSound` shows that the sweep every handler
begins with keeps it, so the handlers are treated after their sweep.

*History.* `AdoptRestoresIncumbent` says what a rollback would give back, and is kept by no step alone: while
the fence of a pending adoption is intact, nothing else may be at work on the owner. `PromiseInv` adds to
`AdoptionInv` that the incumbent is the holder, or the one the pending adoptions displaced (`Remembered`), and that
an adoption nothing raced with is all there is (`Undivided`: its lease stands, no spawn is under way, the owner's
pane is gone or marked as adopted away) and saves the incumbent (`Promised`). `Continues` is what most
steps do to an adoption; `PromiseKept` shows once that such steps keep the promise, and what is left are
the adoption itself, which inherits the rollback of the one before it, and the steps that end one.
`SecretInv` says, for `LeaseHolderKnowsSecret`, that the holder of the generation showed the secret of the
lease (`Knows`), and that the lease, generation and instance a rollback would give back fit together
in the same way, with a generation older than the fence, so that no later registration overwrites what is
remembered of it (`Recoverable`).

*Wakeups.* `ClaimWatched` is inductive with `TypeOK`. `BrokerTextsApart` is not: `OneWriter` says
that every thread that is about to write, or has written and not yet let go, holds the pane lock, and that
one about to type has found the composer empty: then it adds its text to nothing, and a text a
stalled turn left behind keeps every later writer out.

*Lifecycle.* `IInv` adds to `TypeOK` and `OneDaemon`: a published daemon has its files (`Published`);
`broker_stopped` is in the slice only of a daemon that serves no more (`StopIsLast`); while a
command looks, no daemon appears (`NoneAppears`); the daemon that lives is the one the command found
(`FoundIsAlive`); a cold start has found none (`ColdMeansNone`); `org down` waits for one it has reached
or that is dead (`Reached`), and removes the files of one that serves no more (`Forgets`). There is
one lemma per action. `NoneAppears` rests on `Settled`, the assumption about when commands begin.

*Residents.* `ResidentsInv` says that starts are dated (`Dated`: no start is later than the count, so a
new process has a start no registration speaks of), that registrations are honest about a process that
lives (`Registry`), that what the sweep handles is its own org's (`Mine`), and that from its last look
on the process is the one registered or gone, if no pid changes hands between two looks (`Held`).
With them `ForgetsOnlyTheGone` is inductive without a hypothesis: what is to be removed was seen dead, seen to be
another, or not seen by the look before the signal.

*Attention.* `AttentionInv` is `SilencedOnlyAfterRinging` and the types of the times it compares
(`Remembered`): a scanner's memory may be older than the file it will overwrite, but never later than
what was heard, because a time is put in the memory only together with its ringing. The ladder is a
property of every config (`LadderOf`). The walk through the journal is one of every journal whose lines are
`Laid` one after the other: it stops at the least number of chunks that is enough, which exists because a nonempty set of naturals has a
least element (`LeastNatural`, from the library's theorem that
proper inclusion of finite sets is well-founded).

*Repetitions.* `RepeatsHaveACause` counts over a whole behaviour, and the passes that cause a repetition are not the
ones that suffer from it: a pass cut short leaves the file behind what rang, and the next pass pays for it. `RepeatInv`
therefore adds to the count what is still owed: `Dues` says how often a key may yet ring too early if nothing more goes
wrong, from who runs, who is up to date with the last ring, who has something to save and whether the file is (`Idle`,
`Alone`, `Both`). The invariant `repeats[k] + Owed(k) <= 2 * spoils` is then kept by every step: a ring that is too
early pays one due, a save or a skip adds none, and what spoils adds at most two. It needs that one pass has
one alert for a key (`AlertsOnePerKey`), that nothing rang later than now (`Timed`), and a config that
loads (`Passing`). TLC checked it on the run's instance with two spoils before it was proved.

*Herdr.* `HerdrInv` is about all three threads at once. Without a daemon that serves there is no registry (`Shut`);
everything that is known of a workspace knows it by the key in its label (`Shared`); each thread is `Sound`, which is what it
relies on at its place in the code: who spawns or sweeps holds `_spawn_lock` (`Spawns`, `Sweeping`), a sweep
closes a workspace that is nobody's space any more and in which it saw nothing but the root or a person's pane
(`Closing`), and retries only workspaces that nobody uses (`Keeps`, `Retired`). A space may be dropped without the lock (finding 5); the
invariant therefore says nothing of the panes *of* a space being recorded, only that what is recorded is right.
`Dated` and `Genuine` are for the adoption: unless the generation file was lost, the generation in a label
is that of the daemon that made the workspace, so a workspace of this generation holds no agent of another daemon.

*Dispatcher.* `DelegationInv` relates what the dispatcher captured to what has happened since. Tabs
and panes are `Laid` out: a pane is in one tab and has a worker or a peer behind it. Each `Worker` that is on its
way to be a peer has a seed that reserves its place until its steps have ended (`Underway`); one that runs is
bound (`Seen`); one refused has left no file (`Retried`); under the broker its pane is in the caller's tab (`Within`).
`Counted` is the reason the ceiling holds although the snapshots are of two moments: between
them and until the plan is made, every worker alive is in the panes seen, or else among the peers
seen or under a reservation that has not lapsed. `Followed` says that a pane seen in a tab is in that tab or gone, so
a plan that has turned an index into a pane of the tab (`Directed`) lands there or is refused, however the indices
shift; under the broker, which ignores `--tab`, `IndexFollowsTheTab` says nothing. `OverflowFallsBack` and
`IgnoredFlagsDoNothing` compare two plans made in the same state, for all of them (the first where the flag for
the ceiling is well formed: only an armed overflow reads it, and refuses the plan over a malformed one).

*Prompts.* `PromptInv` has the property itself and the reason for it: of two inspections at most one was
late, so two that agree show a screen Claude Code drew for the dialog it is in (`Compared`); from such
a screen Enter is chosen only with the cursor on the option that accepts, in either order of the options (`Aimed`). The
core are two lemmas on frames: what `Decide` takes from any frame of a dialog, whole, without its cursor or below
what was there before, is what Claude Code shows (`FrameAccepts`, `EnterAccepts`). The hypothesis `Late <= 1`
is needed: for `Late = 2` TLC shows a worker exited.

*Split.* `SplitInv` says that the tab is a `Tree` of cuts with one dispatcher and the Secretary, that its
paths are bounded (`Shallow`), and that its panes are usable. What is true of every path is shown by
`PathInduction`, for a set of paths: a shortest path outside it would have a shorter one outside. With it
`RectStep` gives the recursion of `Rect`, `NodeRects` keeps every rectangle within the frame, and `WithoutRects`
shows that whoever stays when a pane closes gets no smaller. Closing moves the subtree beside the leaf up (`Moved`);
that no two nodes come to the same place (`MovedApart`) holds because nothing lies below a leaf. `OptionFacts`
compares the floors with the smaller half of an odd side, `Chosen` that a first candidate exists. The tab is measured
right because the path that turns only one way, which ends as paths are bounded, leads to a pane at the
edge (`StraightLeaf`, `EdgeRects`).

Only model-checked:

* liveness (`LapsedClaimsReaped`, `WorkersEnd`, `AdviceLeadsUp`, `UrgentAlarmsRing`, `ApprovalEnds`),
  which TLAPS does not reach;
* `LiveAgentsAreTracked` and the five other properties that are violated.

## 6 Findings

1. **Closing a husk ends the adopted session** (`husk_close`, `broker/server.py:866`). An adoption
   marks the owner's old pane as adopted away, and the operator is told that closing it is harmless. If
   a *later* adoption of the same owner expires, the sweep removes the mark from every pane of the
   owner, the husk of the completed adoption included; closing it then revokes the session's delivery
   credential and discards its mail.
2. **A re-used name reads its predecessor's mail** (`name_reuse`, `broker/server.py:919`).
   `_cleanup_pane` frees the name in its first lock scope and deletes the rows in its last; a session
   started under the name between the two drains them. `discard_agent_rows` says it closes this leak.
3. **A wake-up is lost** (`lost_nudge`, `broker/server.py:521`). The lease watch leaves the reaped row
   to a nudge thread that `is_alive()`, though that thread has already made its last decision. The row
   stays queued and nobody looks at it until the next call.
4. **`org up` takes a dead daemon's files for the new one's** (`stale_sidecar`,
   `broker/launcher.py:155`). After a crash the stale files satisfy the wait for the newly published
   ones; the command fails against the dead address while the daemon it started comes up. (The advice
   it prints leads out of it: `AdviceLeadsUp`.)
5. **The space just made is dropped with its live agent** (`herdr_orphan`, `terminal/herdr.py:1422`).
   `_escape_degraded` finds a workspace gone and drops its space by *key*, without `_spawn_lock`; a
   spawn that replaced the workspace meanwhile loses its record, its pane is in no `list_panes`
   any more, and the next spawn makes a second workspace.
6. **A live resident is forgotten because it could not be seen** (`residents_unseen`, `broker/residents.py:504`).
   `_terminate_process` looks once more before it signals, and takes a process it cannot observe for gone, one
   without a start time for recycled; the registration is deleted and the process lives on, unknown to every
   later sweep. `docs/broker-residents-registry-contract.md:238` wants what cannot be observed left alone, and its
   DELETE-STALE (line 265) wants it dead or seen to be another. At the first look (`_classify_row`) it is left alone.
   `ForgetsOnlyTheGone`, checked and proved, is what does hold: what was read and is removed speaks of a process that
   is gone, that no longer is what it registered, or that was out of sight at that look.

Limits met while modelling, where a property holds only under the assumption it states:

* The walk through the journal relies on "a single daemon appending in time order"
  (`attention/readers.py:362`), but the daemon stamps a line before it takes the journal's lock
  (`store.py:354`): lines of two threads may be out of order, and a walk may stop before one it
  should find. `TailReadsAlways` is the property without the proviso of `TailReadsWindow`; TLC finds it violated.
* One stale frame of the screen before a key "can never confirm a second key" (`spawn_prompt.py:22`), but two can: inspections
  in a row that are both late are equal and count as settled (line 242). `WorkerNeverExits` holds with one late
  inspection (`Late = 1`); with two, a key meant for the trust dialog may reach the next with the cursor on "exit".
* The reservation of an overflowed worker ends 165 seconds after its plan, also when the worker's pane
  stays, stuck in a dialog: the slot is given twice. `AdmitsBelowTheCeiling` counts workers that run or
  that a step still waits for.
* A decision record is not consumed by the key it authorises; within its lifetime it would authorise the key again.
  `RecordIsLatest` says only that it is the last step's.
* A split that is refused in the caller's own tab leaves the worker's files, and the task's retries are refused
  until they are removed; only tab-directed spawns have a recovery table.
* `_cleanup_root_pane` forgets the root pane also when closing it failed (`terminal/herdr.py:1275`): its workspace
  then counts as occupied for ever. The number of a root pane is trusted without a look at its
  terminal, and `pane.list` and `workspace.close` are two requests: a pane that a person opened
  between them, or under the root's number, is closed. `SweepsCloseOnlyTheirOwn` names both exceptions.
* A `workspace.create` whose answer is lost leaves a workspace nobody knows until the next daemon's start.

## 7 What is left out, and why

* *Message store*: stand-down and duplicate records, the delivery dump, reclaim counts (journal only);
  the window between authentication and service of an MCP call; name reservations and the pane reaper.
* *Wakeups*: the text of screens and bodies, the duplicate window (needs clock values), recipients
  without a pane. A human who types, or a dialog that opens, between the daemon's read of the screen
  and its write is not excluded by the code; the model has him edit at any time, and
  `BrokerTextsApart` is about the broker's texts only.
* *Lifecycle*: `org adopt`, closing of panes inside `org down`, an RPC that a live daemon does not
  answer in time, re-use of a pid or port.
* *Channel sidecar*: one loop of HTTP calls. What its polls, confirms and registrations do to the daemon, with calls
  repeated, late or never made and by displaced sidecars and forks, is in `DeliveryStore`;
  what remains is JSON-RPC over its channel.
* *Attention*: titles, bodies, templates, the JSON of `scan --json`, the command lines of the notifiers.
* *Dispatcher*: texts of instructions and prompts, parsing of JSON, sandbox settings a spawn carries.
* *Spawn prompts*: how a row of text is recognised (regular expressions over rendered text).
* *Herdr*: probing of the protocol, screens and keys, the geometry of a pane view; `close_workspace` for all
  spaces at once, which nothing calls.
* *Tool surface and tiers, transport descriptor, command line*: tables, lookups and dispatch; nothing
  changes over time, and an invariant of a table restates it.
* *Settings generator and sandbox doctor*: one pass from tables to a JSON document, and probes of the host: what could
  go wrong there is in path strings and globs, which a model would have to spell out character by character.
* *State schema and migration*: validation of single records field by field, and one pass over a text
  file, line by line.
* *Terminal backends* other than herdr: command lines of multiplexers; typing into tmux is in `Wakeups`.

## 8 Plan

1. The window between authentication and service (`broker/server.py:2310`), reservations of names and the pane
   reaper, joined to `DeliveryStore`'s spawn and clean-up; `org adopt` in `OrgLifecycle`.
2. Two operators, or two commands at once, with the property that would have to be given up.
