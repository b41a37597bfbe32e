# gate-oc-audit in TLA+

gate-oc-audit is a plugin of the OpenClaw gateway that keeps a tamper-evident
audit log.  Hooks turn what the gateway does into audit events; a rate limiter
writes them to SQLite; every row gets a leaf pair in a sparse Merkle tree (SMT);
the tree's root is anchored to a remote service, Digital Evidence (DE); a
verifier replays the rows and compares roots.  This directory holds TLA+ models
of that pipeline, the TLC runs that check them, and TLAPS proofs about them.

Paths are relative to the repository: `smt-service.ts` is
`src/services/smt-service.ts`, and so on.  `PROJECT.json` maps every definition
to the lines it models, and lists hazards, findings, mutants and theorems.

## 1. The system

| Component | State it keeps | Operations | Hard behaviour |
|---|---|---|---|
| Hooks (`hooks.ts`, `scanner.ts`) | none of their own | one insert per host event, through `safeAppend` | events arrive at any point of the life cycle, before `start()` and after `stop()` too |
| Rate limiter (`rate-limiter.ts`) | buffer, window counter, drain timer | `append`, `drainBuffer`, `coalesceBuffer`, `flush` | full buffer, merging, drops, a drain racing the flush, appends after it |
| gateway.stop capture (`gateway-stop-capture.ts`) | the claim, signal listeners | `tryClaim`, `captureSignal`, `detachSignalListeners` | the hook path is asynchronous in effect (it may be buffered), the signal path is not |
| Audit store (`store/audit-store.ts`, `schema.ts`) | `audit_events`, `service_health`, checkpoints and their archive, manifests | `append`, `prune`, checkpoint and manifest operations, queries | inserts may fail; prune is one transaction over rows and checkpoints |
| SMT pipeline (`smt-service.ts`, `smt-logic.ts`, `smt-tree-manager.ts`, `smt-store.ts`) | tree, frozen set, seqNo counter, conversation chains, epoch entries, exported proofs, skip set, cursor; two files | insert, skip, checkpoint, restore, replay, prune an epoch | two files and a table that a crash leaves at different ages; capacity; replay numbering |
| DE anchoring (`de-anchor.ts`) | single flight, append counter, circuit breaker, not-found set | `notifyAppend`, timer, `doAnchor`, `verifyCheckpoints` | an await between reading a root and recording it; retries; prune and stop while it waits |
| Retention (`retention.ts`) | timer | `runPrune`; its `stop()` flushes the limiter and closes the store | prunes rows that checkpoints cover |
| Verifier (`verifier.ts`) | none | `verifyRange`: replay and compare at anchored checkpoints | the replay must take the decisions the live path took |
| Report pusher (`report-pusher.ts`, `util/webhook.ts`) | last reported day and week, in-flight flag, a row in `service_health` | tick, POST with one retry, persist, restart | delivered but not persisted; a reload while a tick waits; abort |
| Watchers (`file-watcher.ts`, `config-watcher.ts`, `cron-manifests.ts`, `inventory.ts`) | manifests in memory and in the store, chokidar's pending events | load, compare, record a change; list and count | changes while down; the manifest is stored before the event |
| Notifications (`notifications.ts`) | none | one POST per call | none of its own; callers decide how often |
| Reports (`reports/*.ts`) | none | projections, rollups, detectors, time windows | day and week boundaries across time zones and changes of the clocks; thresholds |
| Routes and export (`ui/*.ts`) | export slots | answers, event pages, a streamed export | an export while rows come and go; clients that leave |
| Browser (`control-ui/`) | one page: filters, offset, focus, loading | load, page, follow a link, refresh | loads that overlap; a log that moves under the pages |
| Life cycle (`index.ts`) | the services | register, start, stop, agent tools | the order of starts and stops |

**How they interact.**  A hook calls `limiter.append`, which calls
`store.append`, which calls the SMT's `onEventAppended` and the anchor's
`notifyAppend`, all in one synchronous call; JavaScript runs it to completion.
Concurrency enters at each `await` (file writes, the DE call, the webhook), at
timers, at signals, and between processes through the files.  The SMT's
checkpoints go to two files: a tree DB written in one transaction and
`_metadata.json` written by rename.  The anchor reads the SMT's root and writes
checkpoint rows; retention archives checkpoints whose events it deletes; the
verifier reads rows, checkpoints and the SMT's skip set.  Retention's `stop()` is
the one that detaches the signal listeners, flushes the limiter and closes the
store, so every service that stops after it finds the store closed.

**What makes each correct.**  *Limiter and stop capture*: every event is recorded
once and in order, merged with events of its own type only, or accounted lost;
nothing waits for ever; at most one gateway.stop row.  *SMT*: every row is a
leaf or a recorded skip; the durable cursor claims no leaf that is not durable;
leaf numbers are unique across restarts; a clean replay reaches the live tree; a
checkpointed leaf never disappears; every row becomes durable.  *Anchoring*: the
ranges of checkpoints are disjoint; range and root agree; a stop leaves no
accepted root unrecorded; retries are bounded; everything is anchored in the end; a
checkpoint DE does not know is notified once and one it confirms is marked.
*Watchers*: the manifest says what the log says, and changes are recorded, also
those made while the gateway was down.  *Pusher*: each period is delivered, and
again only if an answer or the process was lost; a saved marker is never ahead of the
webhook.  *Reports*: what is said of a time that is over stays true, windows cover each
event once, findings are true and bursts are found.  *Routes*: an export leaves out
nothing that was there throughout, and every slot comes back.  *Browser*: a page
shows the answer to what it asked last.

## 2. Modules

| Module | Models |
|---|---|
| `SmtService` | SMT pipeline of one gateway, its two files, the skip row, crash, stop, restart, the clean replay |
| `EventStream` | abstract: events wait, are recorded or are lost, oldest first |
| `RateLimiter` | the limiter on top of a store that may refuse |
| `GatewayStop` | composes `RateLimiter` with the gateway.stop capture and retention's stop; implements `EventStream` |
| `Anchoring` | anchor service, breaker, checkpoints, prune, life cycle, the verifier's verdict |
| `Verifier` | `verifyRange` step by step, over every table the other components and outside changes can leave |
| `Confirmation` | the second half of the anchor service: which service the configuration selects, passes over unverified checkpoints, the not-found set |
| `ReportPusher` | the digest pusher over restarts and reloads |
| `Watchers` | both watchers, the manifests, the inventory |
| `Hooks` | what each hook appends |
| `TimeWindow`, `Reports` | time windows and reports, as operators over the log `Hooks` writes |
| `AuditApi` | the HTTP routes and the export, over a log that moves |
| `ControlUi` | pages in the browser, on top of `AuditApi` |
| `MC*` | what TLC runs |
| `Trail_proofs` | theorems of `EventStream`, `Verifier`, and of `Reports` over `Hooks` |
| `*_proofs` | theorems of the module of that name (`AuditApi_proofs`: of `ControlUi` too) |

### SmtService

An event is its sequence number, and its two leaves are one record: the event,
the number of its raw leaf, and the event its `chainPrev` points to.  Two trees
have the same root exactly when they hold the same records, so hashes need not be
modelled.  `rows` holds each event's conversation; `treeFile`, `metaFile` and
`skipRow` are the durable state; `tree`, `frozen`, `seqNo`, `live` (epoch entries
and chains), `exported`, `lastInserted`, `skipped`, `needsFirst` are fields of
`SmtService` and `TreeManager`; `queued` and `writing` are the chain of checkpoint
promises; `phase` is where the life cycle stands.

`OnEventAppended` is one hook call: row, leaf or skip, and the first checkpoint's
request.  `StartRestore` and `FinishRestore` are `ensureReady` before and after
its await; `ReplayStep` and `ReplayDone` are `replayEvents`, during which nothing
else runs.  `StartCheckpoint` writes the tree DB and captures the metadata,
`FinishCheckpoint` writes `_metadata.json`; between them anything may happen.
`AutoPrune` and `PruneTool` are the two callers of `pruneEpoch`.  A crash may come
at any point and loses memory.

`Faults` names what the environment may do beyond that: events before the
restore, a crash or failure between the two writes of a checkpoint, pruning an
epoch a conversation ends in or the one still being filled, a lowered cap, a deleted
tree DB.  Each property is checked under as many faults as it survives: the
safe run has none, the faulty run all but `"early"`, and each violation run the one
that breaks the property it checks.

### RateLimiter and GatewayStop

An insert is its type and the set of events it covers.  Coalescing is a relation between
the buffer and its summaries: `Starts` are the positions where a run of one type begins,
`RunOf` is the run, and a `Listing` puts the starts in their order.  `AppendInsert`,
`DrainBuffer` and `FlushAndClose` are methods, each synchronous and so one step;
`SecondPasses` is the clock crossing the window.  A store that is open may refuse
any insert, a closed one refuses all.  `StopHook` and `CaptureSignal` are the two
ways of gateway.stop.  `GatewayStop` implements `EventStream` under the
substitution `pending <- Covered(buffer)`, `recorded <- Covered(rows)`,
`urgent <- direct` (the events the signal path wrote past the buffer).

### Anchoring

Since the tree has a leaf for every event ever appended, the root is the number of
events in it.  A checkpoint is its range and its root.  `AnchorIfNeeded` is the
whole synchronous part of `anchorIfNeeded` and `doAnchor`: stop test, single
flight, breaker, range, count, root.  It occurs in `NotifyAppend`, `TimerTick` and
`StartAnchors`, its three callers.  The awaited call is a flight that DE may accept
(`DeAccepts`); `AnchorSucceeds` is what follows the await, `AnchorFails` the catch
branch.  `Prune(k)` is the store's prune: it deletes a prefix of the rows
(nothing in the code sets `synced_at`, so the order of deletion is the order of
sequence) and archives the checkpoints that start in it.  Between
`StartAnchors` and `StartTimer` a stop may come.  `RootMismatch` and
`EventsMissing` are the verdicts of `Verifier.verifyRange` over the rows and
checkpoints that are left.

The breaker's delay is kept as `backoff`, which doubles up to the cap, instead of
the exponent it is computed from; the deadline is a number of ticks to go, so
no absolute clock is needed.

### Verifier

`History` builds a table: events with leaves or, the tree being full, skips;
checkpoints through a submission and its answer; a prune, also between the two; a
restart with a larger cap, whose replay gives skipped events their leaves; rows
altered or deleted behind the plugin's back.  Then `VerifyRange` begins, and as it
is synchronous nothing else happens until it returns.  `Fetch` is one turn of the
loop's query, `Replay` one event of the batch with the comparison that is due at
it, `FindTampered` one batch of the scan after a mismatch; `VerifierSpec` is the
specification.  `VerdictRight` states
the verdict without batches, cursor or index, and is the definition `Anchoring`
uses (`Met`, `RootMismatch`, `EventsMissing`).

### Confirmation

A pass is one call per unverified checkpoint, all made at once (`PassCalls`); DE
answers each with what it knows at that time (`Serve`), and the answer is handled
later (`Answer`), perhaps after another pass or when the store is closed.  `saved` is
the not-found set in `service_health`, `noted` the one in memory.  `sent` counts
notifications per checkpoint; `excuses` counts the events that may legitimately
cause a second one: a set that could not be saved, a 404 handled when DE knows the
checkpoint by then, and a failed removal.  `NotifiedOnce` says that there is no other
cause.

### ReportPusher

Each registration has a service object (`pushers[i]`), for a reload makes a new
one while a tick of the old one waits for its webhook.  `Tick` runs to the first
`await`; `Answer`, `Fail` and `Stop` run from one await to the next, so the daily phase's
outcome and the weekly phase's post are one step.  `received` is what the webhook
got, which may differ from what was answered.  A day is a number and a week has
`WeekLen` days; `excuses` counts lost answers, stores and processes that
went away under a tick, and clocks set back.

### Watchers

`disk` changes at any time, up too; chokidar looks at it (`Notice`) and emits later
(`HandleChange`), when the file may hold something else again.  ConfigWatcher gets an
add event for each file at the start, FileWatcher none.  `Record` is the rest of the
handler: manifest in memory, manifest in the store, event to the limiter, each of
which may fail alone.  `rows` and `queue` take the limiter at its word (what
`GatewayStop` implements): an event is written in order, or waits, or is lost; `Log` is
the two together, and `Says` the hash its last event about a path tells.
The inventory's listing and its separate counting are operators over disk and manifests.

### Hooks, TimeWindow, Reports

A row keeps the fields a report reads.  `Hooks` has an action for each hook reports
look into, and one for all others, whose table says which type, category and
session they give.  Time is in hours, and `Offset` gives the zone of each day, so that
days of 23 hours and weeks of 167 occur; `TimeWindow` has the code's own arithmetic
for dates, ISO weeks and `--since`.  `Reports` has the queries of the store and the
functions on top of them; `HooksSpec` is the specification.  `runs` is a history of what
each agent run really did, which `CronRowsTrue` compares with what the rollup makes of the rows.

Duplicates, spikes and the timeline are all made by one walk over rows in order, which
either lets a row join the group that is open or closes that one and opens the next.  `Opener`
is this walk as a recursive function, from a row to the row that opened its group; `Groups`
are the sets of rows with one opener; and each caller says which rows may join.

What the three modules assume: no two runs have the same id (openclaw's are UUIDs); the
digest of a body is its own (SHA-256); a zone is at most 14 hours from UTC and no
clock jumps a whole day.  `TotalsAgree` has one more hypothesis, `WeeksNumbered`: on 1 January
the clocks are not ahead of those of the week in question, or they are and the year does not
begin with a Friday.  That is where `isoWeek` is right (section 6).

### AuditApi and ControlUi

`Checks` lists what each route tests, in the order in which it does; a request is its route
and its defects.  A handler is one step, but for the export, which gives up
the thread where a write waits for the response to drain (`thread`, `Await`, `Resume`):
between two batches rows are appended and pruned and the store may close.
`ControlUi` is a page: `flights` are its requests under way, `Delivered` the rest of
`load()` after its await, whichever answer comes first.  An answer lists its rows by rank:
the row at place `i` is the one with `i - 1` rows of the filter before it.  `walk` records what
somebody who pages from first to last has seen.

## 3. Runs

| Run | Bounds | Shows |
|---|---|---|
| `smt_safe` | 2 conversations, 3 events, caps of 2 and 3 leaf pairs, 3 epochs, 1 crash | `ReplayAgrees`, `FrozenHasProof`; `AllDurable` under fairness |
| `smt_faulty` | 1 conversation, 3 events, 2 epochs, 2 mishaps, all faults but `"early"` | what survives every fault: `NothingLost`, `CursorHonest`, `DurableLeavesKept` |
| `smt_early` | 3 events, the fault `"early"` | a disagreement with what the code says of itself (section 6) |
| `gateway` | 3 types (one full-fidelity), threshold 1, buffer 2, 5 events, 1 refusal, 2 signals | `AtMostOneStop`, `Fidelity`, `NeverStuck`, the refinement `IsStream`; `AllSettled` under fairness |
| `anchor` | 4 events, threshold 2, breaker after 2 failures, delays 1, 2, 3, 1 prune, 1 stop, 1 crash or lost reply | `RangesDisjoint`, `CleanUnlessPruned`, `NoOrphans`, `NoStorm`; `AllAnchored` under fairness |
| `verifier` | 4 events, batches of 2, cap of 3 raised to 4, 1 prune, 2 rows altered or deleted | `VerdictRight`, `AlterationFound`, `NoFalseAlarm`; `Ends` |
| `verifier_hang` | 3 events, 1 prune, nothing altered | a verification that does not return (section 6) |
| `confirmation` | 1 checkpoint, 2 registrations, 2 passes at a time, 2 mishaps, a configuration that anchors and one that does not | `NotifiedOnce`, `FlagHonest`; `EachSettled` under fairness |
| `pusher` | weeks of 2 days, 5 days, 2 registrations, 1 failed post, 1 crash or step back of the clock | `RepeatsExplained`, `MarkHonest`; `AllReported` under fairness |
| `watchers` | one skill id under two roots, jobs.json and a legacy cron, a watched file, a plugin; 2 contents and a file too large to hash; 2 changes, 1 mishap | `ManifestMatchesLog`, `HashesChain`, `InventoryRight`; `ConfigRecorded` under fairness |
| `reports` | 2 runs of a job in one session (one without a run id), 5 rows, 4 hours about a midnight after a day of 23 hours | `TotalsAgree`, `BurstsNoticed`, `CronRowsTrue`, `SessionFaithful`; the action property `ReportFinal` |
| `ui` | 3 events, 2 exports, batches of 2, pages of 1, 1 slot, 2 checkpoints, 3 loads, 1 lost answer | `ExportExact`, `ShownAnswersLast`, `FocusLands`, `WalkComplete`; `SlotsFreed` under fairness |

Type invariants and inductive invariants are proved (section 5) and not repeated in the
runs.

**Why the bounds are enough.**  Three events fill a tree of two pairs and leave one
that is skipped, let a conversation have a chain of two links, and allow a row
before, inside and after a checkpoint.  Caps of two and three pairs let a restart
raise the cap, so that a skipped event gets its leaf in a later process.
Three epochs let the oldest fall behind the prune cutoff while a newer one is
filled.  Two mishaps allow a failed write followed by a crash.  A buffer of two with
five events fills, coalesces, fills again and drops, and a threshold of one makes
the second event of a second queue.  Four events and a threshold of two allow two
checkpoints, one of them by threshold and one by timer, with a prune between the
two; two failures trip the breaker, and delays of 1, 2 and 3 ticks pass through
doubling and the cap.  In the verifier, batches of two over four rows put each
boundary (last leaf, last checkpoint, last row) at the end, in the middle and at the
start of a batch; two changed rows make a bracket wider than one row, across
batches; and a cap of three leaves one event skipped inside an anchored range.

Checkpoints do not affect one another in `Confirmation` but through the saved
set, which is written as a whole; with one checkpoint the run covers
overlapping passes, answers after a stop and a second process, and the proof covers
several.  Weeks of two days let a week end within the pusher's five; two
registrations are a restart or a reload.  Two changes and a mishap in `Watchers` allow a
file to be written again between notice and handling, or to change while the
gateway is down, and a crash with an event in the buffer.  In `ui` either clients
export or one page is open (they share only the log); one slot, where the code has two,
makes two exports compete; batches of two over three rows leave a full and a short
batch, so a prune falls behind and ahead of the cursor; pages of one row make every
append shift a page.  Three loads let two overlap while a third is made.

In `reports` the actions are many and a report reads few of them, so `Uses` gives each
behaviour a group of hooks that bear on each other: five rows then hold two runs
with what they did, three denials (twice the threshold less one), or a message from two
hooks and a redaction.  The four instants lie before, at and after the midnight
between two weeks.  The duplicate window is one hour and the denial window two, so bursts
at exactly the window and beyond it both occur.  `FetchCap` is above the rows, so the
capped report, which says that it is capped, does not occur.

Deadlock is not checked: every model stops when its bounds are used up, as the
program stops when no event comes and no timer changes anything.

**Mutants.**  Each property of a passing run has a mutated definition,
written next to the original and marked `Mutant`, under which TLC finds it
violated: for example a cursor committed before the leaves, metadata without the
counter, a drain timer that fires once, a summary that covers its first event
only, callers that do not share a submission, a `stop()` that does not wait, markers saved
only at the start, a window that holds both its ends, an export that pages by offset.

## 4. Fairness

*SmtService*: weak fairness of start, restore, replay, the checkpoint interval and
the two file operations.  The host starts a registered plugin, `setInterval` keeps
firing, and file operations complete; a failed write is a mishap, and there are
finitely many.  Appending, stopping, crashing and pruning are not fair.
*GatewayStop*: weak fairness of the drain timer (an interval that exists while the
buffer is not empty) and of the clock.  *Anchoring*: weak fairness of the life
cycle, the timer, the clock and the answer to an accepted submission; strong
fairness of `DeAccepts`, that is, DE accepts if it is asked again and again.  No
code can guarantee this one; without it `AllAnchored` would ask the anchor service
to anchor without DE.  *Verifier*: weak fairness of the loop's steps, for a loop
that has begun runs on; nothing makes a verification begin.

*Confirmation*: weak fairness of the timers and of each checkpoint's calls, for every
call is answered or times out (`CallFails` is a mishap, and finitely many).  *ReportPusher*:
weak fairness of `Progress`, that is, ticks, posts, answers and retries of a service
that exists; days, failures and the life cycle are not fair, and `AllReported` asks only
for the periods over when a registration that stays up has the time.
*Watchers*: weak fairness of start, chokidar and its callbacks; stops, crashes and
changes are not fair, and `ConfigRecorded` speaks of behaviours in which the gateway
stays up in the end.  *AuditApi*: weak fairness of each stream's steps: its code runs
between awaits, and a client that does not leave reads on.  The code cannot
guarantee the latter: a client that stays connected and reads nothing holds its slot,
for there is no time-out.  `Hooks` and `Reports` need no fairness.

## 5. Proofs

All theorems hold for every value of the constants that satisfies the modules'
assumptions, which are no more than that bounds are naturals; the capacity, the
thresholds, a batch and a page positive; the breaker's base delay not above its cap; a
week within the days of the pusher's clock; and that exports have an identity each,
watched paths one kind each, agent runs an id of their own or none; that a zone's offset
is known around the moments of reports and stays within a day; and that there are
finitely many exports, config files and jobs. `TotalsAlwaysAgree` alone has a further
hypothesis (below). The inductive invariants stand at the end of the modules they are
about, part by part.

*SmtService_proofs.*  `TypeCorrect` needs nothing else.  `NothingLost` is not
inductive: it speaks of a serving process, and what a process serves comes from
files written by an earlier one.  `IInv` adds what links them: the cursor
in the tree DB claims only durable leaves and skips (`CursorHonest`); an unloaded
process holds nothing and writes nothing (`Unloaded`); the cursor stays inside the
log (`FileWithinLog`); a loaded process holds at least what the files hold
(`MemoryAhead`); the replay has covered what it has passed and starts above the
cursor (`ReplayProgress`).  `Inductive` proves it for every set of faults without
`"early"`, which is the one that breaks it: an early event checkpoints a tree
that was not restored.  `NothingIsLost`, `CursorIsHonest` and `LeavesAreKept` follow.

`TreeIsReplay` (the live tree is the one a clean replay of the rows builds, numbers and chain
links included) and `FrozenKeepsProof` hold for `Faults = {}` only: each fault is a
disagreement section 6 names, and breaks one or the other.  What remains are stops,
crashes between checkpoints, restarts with a larger tree, replays and prunes.  `RInv` says that the
tree is `Straight`, the tree of the first rows in their order (`InLine`); that
the metadata and the tree DB are of one moment, where the metadata on its way counts as
written (`FilesAgree`); that entries end every conversation where the rows do
(`ChainsEnd`), or the next leaf would link to another event; and that an epoch with
proofs is over (`ProofsKept`), or it would be exported again over them.

*ReportPusher_proofs.*  `MarkHonest` speaks of the saved row; a step that saves copies the
memory of a service, so `IInv` says the same of every service that can still save
(`Honest`), and, as the marker is set from the post's target when the answer comes, that
a post that is received is counted and has a period in range.  A service that has
not started must have its store open, and registrations come one after the other
(`InTurn`), or a new one could restore while an old one still writes.  One lemma says what the
code between two awaits may do to a service (`Onward`), and another what storing
the result does (`CommitStep`); each action cites the two.

`RepeatsAlwaysExplained` counts posts, so `PInv` counts those on their way as well
(`Posted`), and bounds them by the excuses (`Accounted`): one more at most, and none more of the
last completed period as long as somebody would still ask for it, which is the one service
with the store open (`OneOpen`), or the next one, which reads what was saved (`Saved`).  A
service that has marked a period never asks for it again (`Settled`) unless the clock goes
back, which is an excuse.

*Confirmation_proofs.*  `NotifiedOnce` counts over all processes, so `IInv` has to follow a
notification from one to the next: a checkpoint with one notification more than
excuses is either one DE knows by now, so that any later 404 for it is an excuse, or it
is in the saved set and in the set of the one service that can write (`Accounted`).  That
there is only one comes from `InTurn`.  `InStep` says that saved set and writer
agree about every checkpoint without an excuse, and gives `FlagHonest`.

*GatewayStop_proofs.*  `NothingIsStuck` is inductive with the type invariant.  For the rest,
`LimiterInv` says that an insert covers at least one event, all of its type, and only
one if that is full-fidelity (`Sound`); that no event is in two rows (`Apart`) or in a row and
the buffer; and that the buffer is in the order of arrival, summaries included (`Rising`).  The
lemmas about coalescing (`RunCovers`, `RunsApart`, `RunOneType`, `CoalescedSound`) say that it
keeps this and changes nothing of what the buffer covers.  `FidelityKept` follows.
`StopRecordedOnce` adds that at most one event is a gateway.stop, and none before
the claim (`OneStop`).  `GatewayIsStream` is the refinement: an append is `Arrive` (to wait,
be recorded or be lost), a drain or a flush is `Leave` of the oldest, everything else is a
stutter, coalescing among it.

*Trail_proofs.*  The promises of the abstract stream: each event is in exactly one place
(`StreamCorrect`), what queued is recorded oldest first (`StreamInOrder`).  Together with
`GatewayIsStream` they hold of the limiter.

For the verifier, `VerdictAlwaysRight`, `AlterationAlwaysFound` and `NeverFalseAlarm`
compare what a loop over batches does with what the table is.  `VerifierInv` says of the
table that rows without a leaf are skipped ones and that ranges follow one another, the one
of a submission under way included (`TableSound`), and that the roots of an untouched table are
those of its rows (`RootsOfRows`); of the replay, that up to `seen` it is the single pass: its
tree is that of the rows so far, the checkpoints before `cpIdx` were met and matched, and
the next one's row, if there is one, is still to come (`ReplayRight`); and of the
scan, that its bracket spans the altered rows up to `seen` (`Brackets`).  The lemmas
`Positions` (the positions of n checkpoints are 0 to n - 1, in the order of their ranges) and
`NextBatchIs` (a batch has no gaps, and a short one is the last) do the counting.

For the reports, `HooksInductive` proves of the log that rows are in the order of time
(`InTime`); that a cron run which began has one cron.executed row, under its own names
(`StartsKnown`); that a run has ended exactly if a row says so, and how, and that this row comes
after everything the run did (`EndsKnown`); that what it did comes after its start, in its
session (`WorkKnown`), in the number the history counts (`Counted`); and that only sessions
an execution began have rows with a job (`JobsKnown`).  `CronRowsAlwaysTrue` needs all of
it but the last: the rollup takes the first end that follows the start under the same run id and
session, and that this is the end of the same run is `StartsKnown`, `EndsKnown` and the
uniqueness of ids together.

`FinishedReportsStay`: rows that a step appends bear the present moment, so they are in no
window that is over; and every query a report makes, the look back of `FirstSeenTools` and the
fetch cap included, depends on the rows of such windows only.  A cron run's end, once found, stays
the first, and what is counted up to it is of the past.

`BurstsAlwaysNoticed` and `SessionAlwaysFaithful` are about the walk.  Lemmas show that the recursion
of `Opener` has a solution for any finite set of positions, that an opener opens its own
group, and that a group is a block: what lies between two of its rows is in it.  A row that is not
in its predecessor's group was not allowed to join, that is, it is too far from the opener
or has another body.  So a burst within the window touches at most two clusters, and of
twice the threshold less one denials one of the two has the threshold.

`TotalsAlwaysAgree` has three parts.  Midnights rise from day to day, so that `DayOf` is well defined
and the seven days of a week divide it, for any clocks at all; spend is a sum over a
partition of the calls, and does not depend on the key; and the week that `isoWeek` and
`isoWeekYear` name for a moment is one `parseWeek` accepts and which holds that moment.  Only
the last uses `WeeksNumbered`.

*Watchers_proofs.*  `ManifestsMatch` and `HashesAlwaysChain` belong to one invariant: a handler
takes `previousHash` from memory, so the chain holds if memory says what the log says.  `WInv`
adds that memory and store differ by failed writes only (`InStep`), that a change which
nobody has reported is one chokidar is still to see (`Known`), and that no process leaves a
buffer behind (`NoneWaits`).  `SaysChange`, `SaysNothing` and `ChainedOn` say what an
event at the end of the log does to what it says of a path.  `InventoryAlwaysRight` is an
argument about cardinalities: the separate count counts one winner per id, and so do the
listings; it needs that a path is its root and id, and a cron has one legacy file.

*AuditApi_proofs.*  `SlotsAlwaysCounted`: the slots in use are the streams under way, and
never more than the limit.  It needs to know that the export whose code runs is open
(`StreamsSound`), for otherwise it could end, and give its slot back, twice; and that a
request that finds every slot taken is refused.  One lemma (`Recount`) says how the count
follows the state of one stream.  Exports are finitely many, with an identity each.

`ExportAlwaysExact` rests on `ExportInv`: what a stream has written ends at its cursor,
what it has fetched comes after it, and a row of its start that is left and in neither comes
after both (`Exact`), whatever was appended or pruned in between.  That each line has the
anchor of its row is `FindAnchorIs`, the correctness of the binary search over the ranges
(`RightmostIs`, by induction on the distance of its bounds).

`LastAnswerShown`, `FocusAlwaysLands` and `WalkAlwaysComplete` are about the browser.  `UiInv`
says which question the flights ask and that answers hold full pages of the log as it
was (`AsksAsShown`); what is shown once the last load has its answer (`LastShown`); and that
what a walk has not seen, and is left, lies beyond the page it shows and the one it asks for
(`WalkSound`, `Beyond`).  The last is why Next misses nothing: newer rows come in front
and move rows to later pages, and only the oldest are pruned.  `SliceIs` and `PageIs` say which rows
a page holds, by their rank.

*Anchoring_proofs.*  `RangesDisjoint` depends on the flight that is about to add a
range, so `IInv` says that there is at most one, that it starts above every active
range and was let through by the breaker (`FlightContinues`); that ranges are not
empty and carry the root of their end (`RangesSound`); where an accepted root is
until its checkpoint exists (`RootsKept`); and how failures, trips and the clock are
related (`BurstCounted`).  `CleanUnlessPruned`, `NoOrphans` and `NoStorm` follow.

Where a proof needs induction over data (least and largest elements, a binary search, the
places of a listing), it takes a least counterexample, which `WFMin` and
`NatLessThanWellFounded` give; the library's induction schemes take an operator, which
no backend can instantiate.

Left to TLC: liveness (`AllDurable`, `AllSettled`, `AllAnchored`, `EachSettled`,
`AllReported`, `ConfigRecorded`, `SlotsFreed`, `Ends`), which is out of the prover's
reach.  Every invariant, the action property and the refinement that a passing run checks are
proved.

## 6. Findings

Two have a run of their own; the others were met while modelling, are quoted in
`PROJECT.json`, and are named excuses or limits of the properties.

* `smt_early`: an event before the restore overwrites the tree DB (its cursor then
  hides rows from the replay), where `smt-service.ts:268` says that no special case
  is needed.
* `verifier_hang`: with no row at the last checkpoint's end and rows above it, the
  batch loop never ends, where `verifier.ts:165` promises a mismatch; a prune while
  a submission waits is enough.
* After a crash between the two files of the tree leaf numbers repeat
  (`smt-logic.ts:36`); pruning an epoch drops the chain entry the conversation's next
  leaf would link to (`IMPLEMENTATION.md:269`); events skipped, anchored, and given leaves
  by a process with a larger `smt.maxTreeSize` make that range a mismatch.
* The hook claims gateway.stop and may write no row (`gateway-stop-capture.ts:28`);
  `eventCount` counts a summary as one event (`rate-limiter.ts:207`); coalescing looks at the
  type only (`FEATURES.md:295`).
* Checkpoints that a prune leaves active fail verification, because their roots cover
  pruned events too (`audit-store.ts:886`); the walk along the checkpoints stops
  at the first whose end row is gone (`verifier.ts:7`).
* A late 404 flags a checkpoint another pass has verified (`de-anchor.ts:399`).
* In the reverse order of stops that `index.ts:650` counts on, the store closes before the
  pusher stops, and a tick in between posts its period again after a reload.
* FileWatcher does not notify (`README.md:28`) and does not know files it has not seen
  change; `notifyDeAnchorDivergence` has no caller (`FEATURES.md:177`); the inventory's
  counts leave out orphaned plugins.
* `isoWeek` is one too high in some southern-hemisphere years (the hypothesis `WeeksNumbered` of
  `TotalsAlwaysAgree` excludes these and no others); runs of denials across
  the border of two clusters are missed (`detectors.ts:169`); one LLM call may have two
  rows and its cost no session; session integrity hashes a body cut to a preview; a cron
  row counts the next run's events of the same millisecond (`cron-rollup.ts:75`).
* An export compares `from` as text (`routes.ts:108`); two loads of a page may be
  answered in either order, and the older answer stays (`event-table.ts:250`).

## 7. What is not modelled

* Within modelled components: proof generation and verification, snapshots, trees
  other than the active one; retention's prune inside `SmtService` (its rows only
  grow); skipped events inside `Anchoring` (the root counts all); the clock running
  backwards outside `ReportPusher`; rows whose `created_at` is out of sequence when a prune goes by age;
  `synchronous=NORMAL` losing the newest commits at a power loss (section 1's
  hazard list has it); the count kept in a summary.
* In `Verifier`: the requested window beyond `lastCoversTo`, which is either answer
  at the end; numbers and chain links of the replayed leaves, which `SmtService`'s
  `CleanReplay` has.
* In `Hooks` and `Reports`: the limiter above its threshold (`GatewayStop` has it), prunes
  and capacity (the tree holds every row), texts beyond what a preview, a stored body
  and a cap tell apart, and the wording of reports; `status-snapshot.ts`.
* In `AuditApi`: the bodies of answers other than event pages and exports; the verify
  slots, which no handler can be inside of when another request comes, for verifying is
  synchronous; classification of events and proof lookup.
* In `ControlUi`: rendering, downloads, the detail page.
* No module composes all services in one process: each has the others' effect on it
  (the store closing, the limiter losing or delaying, rows pruned) as actions of its own.
* The CLI, the setup wizard, asset serving, host and path helpers: no state.  DE
  itself, the webhook, chokidar, the network and the host are external; they appear as
  `DeAccepts`, `Serve`, `Receive`, `Fail`, `Notice`, `NetworkFails`, `Crash` and `Register`.

## 8. Plan

Done, in this order: `SmtService`; `EventStream`, `RateLimiter`, `GatewayStop`;
`Anchoring`; `Verifier`; `ReportPusher`; `Watchers`; `Confirmation`; `AuditApi` and
`ControlUi`; `TimeWindow`, `Hooks`, `Reports`.  Proofs of every safety property the passing runs
check, and of the refinement `IsStream`.

Next:

1. A summary's count in `RateLimiter`, and the loss of the newest commits in `SmtService`.
2. Event classification and proof lookup on top of `SmtService`.
3. The default week in every zone, should `isoWeek` be corrected: `WeeksNumbered` would go.
