# Verification of seed-hunter

TLA+ models of [seed-hunter](../src/README.md), a program that goes through BIP-39 mnemonics, looks up
the balance of each one's addresses and records every attempt in SQLite so that an interrupted run
can be resumed. The models cover the parts where that promise can go wrong: the concurrent sweep
pipeline, the walk through the whole keyspace, its cursor, the store both write to, the command
that decides over a series of processes which of them goes on with what, several processes and resets
on one database file, and a run under way with its balance checker and its dashboard. TLC checks
them on small instances; TLAPS proves every safety property the runs check, the two refinements
among them, for every value of the constants.

- [The system](#the-system)
- [The modules](#the-modules)
- [What the runs check](#what-the-runs-check)
- [What is proved](#what-is-proved)
- [Disagreements between the code and its documentation](#disagreements-between-the-code-and-its-documentation)
- [Not modelled](#not-modelled)
- [Plan](#plan)

To repeat the checks: `tlc -config MCSweepFaults.cfg MCSweep` (likewise for the other
configurations), `tlapm SweepProofs.tla`.

## The system

### Components

**Position sweep pipeline** (`internal/pipeline/pipeline.go`, `stage.go`), `pipeline.Run`. One word of
a 12-word template is replaced by each of the 2048 words in turn.

    generate -> candidates -> derive x Workers -> derivedRaw -> reorder -> derived
             -> check -> checked -> logResults -> storage

- *State*: five channels, what each goroutine holds in its local variables, the context, `Run`'s
  position in its own body, the atomic counters of `Stats`, the batch of rows not yet written.
- *Operations*: at startup `MarkPausedAsCompleted` (`--reset`), `Resume`, `BeginSession`, or the end at
  once when nothing is left; then the stages; then the final status and `EndSession`.
- *Hard*: the derivers race; every stage notices a cancellation at its own time, and drops or
  forwards what it holds; the logger drains and flushes on a context of its own; a flush is two
  statements; `Run` waits for the logger and then for the generator; errors leave goroutines behind.
- *Correct when*: whatever a resume skips has been done, and recorded with the answer its lookup
  gave; nothing committed is redone; a completed session is exhausted and stays as it is; a run
  returns; what is shown in the end is what was written.

**Keyspace walk** (`internal/pipeline/walker.go`), `pipeline.Walk`. One goroutine counts a cursor up
from where the last walk stopped.

- *State*: the cursor, the batch, the session id, the context.
- *Operations*: load the cursor of the latest session, begin a session, try a candidate, flush a
  batch and persist the cursor, the final flush, the final status.
- *Hard*: the cursor is in memory and in the database, one ahead of or level with the other depending
  on where the walk is; the final flush steps it back; it wraps; a flush is two statements; a crash
  between any two steps.
- *Correct when*: no candidate before the persisted cursor is without a row, but for the ones that runs
  began with and were interrupted before they wrote; a walk that reports completed lacks none but these, one per
  earlier run at most; the cursor does not go back.

**Walk cursor** (`internal/pipeline/cursor.go`, `decCursor` in `walker.go`). An odometer of 12 digits
of base 2048, its increment with overflow, its decrement, its text form. *Correct when* the increment
passes over every value once and in order, and the decrement undoes it.

**Session store** (`internal/storage/repository.go`, `schema.sql`). Two tables behind a mutex.
*Operations*: `Resume`, `LatestResumable`, `BeginSession` (reuse the latest resumable row of a
signature, or insert one), `MarkPausedAsCompleted`, `Checkpoint` (never backwards),
`CheckpointCursor`, `EndSession`, `InsertAttempts` (one transaction), `Reset`, `Stats`,
`AggregateStats`, migrations. *Hard*: each is atomic, but no sequence of them is. *Correct when* a
signature has at most one resumable session.

**Run command** (`cmd/run.go`). Looks up the latest resumable session of all and inherits every
parameter the command line does not set; loops over the positions; goes on to the walk after a
completed sweep.

- *State*: flags and the configuration in force, the index in the list of positions; across processes
  only the sessions table.
- *Hard*: which session is found after which interruption, and whether the inherited fields lead back to
  it; positions swept by different processes must add up to a sweep; two processes on one file.
- *Correct when* a run without flags goes on with the one session there is to resume, and the walk
  follows a whole sweep only.

**Reset and stats commands** (`cmd/reset.go`, `cmd/stats.go`). `Reset` is two DELETE statements, the
second of which cascades; `stats` sums up the attempts of one session or of all.

- *State*: none of their own.
- *Hard*: the mutex of `Repository` is within a process; a run of another process may be anywhere in its
  startup or its flushes when a reset comes, and ids, checkpoints and indices it has read are stale.
- *Correct when* no row is left without its session, no run writes to a session that is not its own, and
  no word is passed over because of what another process did.

**Balance checker and rate limiter** (`internal/checker/`). One HTTP request per address, behind a
token bucket that is asked once per mnemonic.

- *State*: the credit of the bucket; the address it is at, the sum and the errors so far.
- *Hard*: failures are collected while the loop goes on; the context may be done before, during and
  after the wait, and between two addresses.
- *Correct when* a balance that is returned is the whole balance; upstream is not asked faster than
  promised; the call comes back.

**Dashboard** (`internal/dashboard/`). A goroutine that repaints every 200 ms from the atomic counters,
one load each, until its own context is done.

- *Hard*: a frame is put together from seven loads while the run stores and adds.
- *Correct when* what a frame says fits together, no number goes back from one frame to the next, and
  the goroutine ends with the run.

**Configuration and positions** (`config/`). Defaults, validation; the `--positions` syntax, which ends
up in the database and is read again by later processes. *Correct when* each position that is named is
swept once, in order.

**Candidate iterator and fingerprint** (`internal/bip39/`), **wordlist loader**
(`internal/wordlist/`), **address derivation** (`internal/derivation/`), **entry point, version,
release script**: functions without state, or wiring. That the iterator rejects a template with a
word outside the list, after the session has begun, is in `SweepPipeline` and `RunCommand`.

### How they interact

`cmd/run` opens the store, makes the context that a signal cancels, and calls `pipeline.Run` once per
position, then `pipeline.Walk`. These call the store for every state they keep across processes, the
iterator and the deriver as pure functions, and the checker, which may block, answer or fail. The
dashboard shares the counters with them. The store is all that survives a process: the sessions table
carries the checkpoint of a sweep (`last_word_index`) and of a walk (`cursor`).

## The modules

| Module | What it is |
| --- | --- |
| `Repository` | the tables, and each operation on them as an action |
| `SweepPipeline` | `pipeline.Run`: startup, five kinds of goroutines, end; extends `Repository` |
| `SweepProperties` | its properties and its inductive invariant |
| `ResumableScan` | the abstract sweep: what a single sequential scanner may do to the tables |
| `MCSweep` | instances of the sweep for TLC |
| `RepositoryProofs` | lemmas on the store's operations |
| `SweepProofs` | the theorems on the sweep |
| `Cursor` | the odometer |
| `CursorProofs` | that it counts |
| `KeyspaceWalk` | `pipeline.Walk`; extends `Repository` and `Cursor` |
| `WalkProperties` | its properties and its inductive invariant |
| `SequentialWalk` | the abstract walk: candidates one after the other, without batches |
| `MCWalk` | instances of the walk for TLC |
| `WalkProofs` | the theorems on the walk |
| `SequentialWalkProofs` | that `KeyspaceWalk` implements `SequentialWalk` |
| `Positions` | `ParsePositions` on tokens |
| `RunCommand` | `seed-hunter run` as a series of processes; extends `Repository`, `Cursor` and `Positions` |
| `RunProperties` | its properties, and the invariant of the proofs |
| `RunProofs` | the theorems on it, for every number of processes and any flags |
| `MCRun` | instances of the run command for TLC |
| `SharedStore` | several processes on one file: opening, sweeping, resetting; extends `Repository` |
| `SharedProperties` | its properties, and the invariant of the proofs |
| `SharedProofs` | the proofs about it, for every number of processes |
| `MCShared` | instances of the shared store for TLC |
| `RateLimitedChecker` | the token bucket and the requests of a lookup |
| `Dashboard` | the repaint loop and the loads of a frame |
| `LiveRun` | a run under way: composes the two with the goroutines of `Run` and `Walk` that look up and count |
| `LiveProperties` | its properties, and the invariant of the proofs |
| `LiveProofs` | the theorems on it, for every number of addresses, interval and wordlist |
| `MCLive` | instances of the live run for TLC |

### Repository

`sessions` is a function from ids to rows, `attempts` the sequence of rows in insertion order, `lastId`
the AUTOINCREMENT counter. A signature stands for the five columns `BeginSession` matches on, `meta` for
those it refreshes; columns no code reads back are left out. `Resume`, `LatestResumable`,
`BeginSession` and so on have the names of the Go methods. `LatestResumable` orders by the clock and
then by id, as the query does, and `BeginSession` by id alone, as its query does. Each action is one
statement or one transaction, which the mutex of `Repository` makes atomic (`Reset` is two statements:
`DeleteAttempts`, `DeleteSessions`). All of them may fail before they take effect: that is an action of
the caller. `StatsOf(rows)` is what `Stats` and `AggregateStats` compute.

### SweepPipeline

A behaviour is a history of runs against one database. `pc` is where `Run` is; a run starts (`Start`),
goes through `ClearPaused`, `LookupResume` and `Begin`, works (`pc = "run"`), and ends
(`Finish`, `EndRun`, or an error). After `Exit` or `Crash` another run finds what is in the tables.

| Code | Model |
| --- | --- |
| a buffered channel | the sequence of what is in it (`cand`, `raw`, `derived`, `checked`) with the code's capacities; closed when the goroutine that closes it has returned |
| `generate` | `GenerateSend`, `GenerateFails` (a rejected template), `GenerateCancelled`, `GenerateDone` |
| `derive`, one per worker | `DeriveRecv`, `DeriveSend`, `DeriveCancelled`, `DeriveClosed` on `hold[w]` |
| `reorder` | `ReorderRecv`, `ReorderEmit`, `ReorderCancelled`, `ReorderClosed` on `next`, `pending`, `emitting` |
| `check` | `CheckRecv`, `CheckLookup`, `CheckSend`, `CheckClosed` on `hand`; the send has no arm for cancellation, as in the code |
| `logResults` | `LogRecv`, `LogClosed`, `LogCancel`, `DrainDone`, and the flush: `FlushInsert`, `FlushCheckpoint`, `FlushError`; `after` says where it goes on |
| `select` with `ctx.Done()` | one action per arm; both may be enabled, and either is taken |
| the background context of the final flush | flush steps that do not ask for `~cancelled` |

A candidate is its word index. Mnemonic, hash and addresses are functions of it and of the template,
so they are not carried along. Whether its checksum is good and its addresses hold a balance are the
constants `Valid` and `Funded`.

### KeyspaceWalk and Cursor

`pc` is where `Walk` is, `cursor` and `batch` are its local variables, `overflow` is what the last `Inc`
returned, `final` says that the flush is the one behind the loop. `Advance` is `cursor.Inc()` with the
two ways on, `Tried` is the rest of an iteration after the lookup. `starts` is a history variable: the
cursors at which runs began. `OtherSweep` leaves a running sweep session in the tables between walks,
which is what an interrupted sweep does to the query of the next walk. In `Cursor` the digits of the
result are given directly; the Go code walks the slots from the right and stops at the first one that
does not wrap. The order in which the walk should go through the cursors, `Precedes`, is defined
independently of `Inc`: lexicographic.

`SequentialWalk` has no batch, and no two meanings of the cursor column: the walker is at `next`; `Record`
writes rows of a stretch of candidates from there on, `Advance` moves `next` and the column over a stretch
whose rows are there, `Close` says completed only when the last cursor was passed. The refinement maps `open`
to the session while the walk is in its loop, `next` to the first candidate of the batch in hand (or the cursor,
when there is none), `wrapped` to an overflow whose batch is flushed.

### RunCommand

`Invoke(f)` starts a process with flags `f`, `Lookup` is `runE` up to the sweep (one query, then
inheritance, template and start index, which nothing can interleave with), `NextPosition`,
`SweepInterrupted` and `SweepComplete` are the three ways on at the head of the loop, `Return` the end of
the process. `Run` and `Walk` are reduced to what they do to the row of their session, which is all a
later process sees: `Retire`, `BeginSweep`, `SweepOn` (a checkpoint moves forward), `SweepEnd` and the same
for the walk. That `Run` does no more is what `ImplementsScan` says, and `UncancelledIsExhausted` gives
the statuses it may end with, including `completed` for a cancelled sweep. `Walk` moves the cursor
forward, and from its end to zero, by `CursorForward`. `Validate` and `Reject` end a process whose
configuration is invalid, which it may have inherited; `GenerateFails` ends one whose template has a word that is
not in the list, which leaves its session running. The `--positions` text is a list of tokens (`Positions`): a
token is the range it stands for, or malformed; splitting and trimming are left out, order, ranges, bounds
and repetitions are not. `config.ParsePositions` and `startIndexInPositions` work on the resulting list, and it
is the text that is stored with a session and inherited. In `flags` and `cfg` the three settings that belong to the signature
(API, script type, number of addresses) are one field: each is inherited on its own, by the same
rule. `rate`, `wordlist` and `workers` are inherited too, and decide nothing here.

`given` is a history variable: the flags any process was given so far. Properties that hold for plain
runs only are stated for histories where it says so.

### SharedStore

Each process has its own `pc` and local variables in `proc[p]`; the tables are shared, and a step is one statement.
`Open` creates the table or finds it, then adds the migrated columns one by one, ignoring those that exist; the
file may be new (`NoTable`) or of an earlier release, which had none of them or the first ones only. Then a `sweep` or `fresh`
(`--reset`) process goes through `Retire`, `LookupResume`, and `BeginSession` as its two statements
(`SelectSession`, then `InsertNew` or `ReuseFound`), and works as the scanner of `ResumableScan` does: `Record`,
`Advance`, `End`. A `reset` process deletes attempts, then sessions. What happens to a process whose session is gone is
what SQLite does: an UPDATE changes no row and succeeds, an INSERT violates the foreign key and fails. `Fail` is
any failed statement, error return or crash. `torn` is a history variable, which says that a reset has come between
two readings of another process.

### RateLimitedChecker, Dashboard, LiveRun

`RateLimitedChecker` has one call at a time, as the code has one goroutine that looks up: `CheckAddresses` enters
(and returns at once on a cancelled context), `TakeToken` waits for `credit` to reach `Interval`, then
`SendRequest` and `Answered` or `RequestFails` for each address. Time is `Tick`, which fills the bucket; `watch` is
a history variable, an observer that begins to count requests and time at any moment, so that a
bound on what it counts is a bound for every window. The bucket and HTTP are external and modelled from their use.

`Dashboard` has the loads of `snapshot` one by one, in their order; `stats` are the counters it shares with the
run. `LiveRun` adds what `Run` and `Walk` do to both: the stores after `BeginSession`, one after the other
(`StoreSession`, `StoreResumedAt`, `StoreCursor`); trying candidates; the counters bumped one by one (`Take`,
`Bump`); the cursor of a walk stored after a flush; the end, which cancels the dashboard's context. In a sweep the `checked`
channel decouples `check` from `logResults`, in a walk the same goroutine does both; `mode` says which. The other stages
and the failing statements are in `SweepPipeline` and `KeyspaceWalk`.

### Faults

`Faults` switches on what may go wrong: `"database"` (any statement fails), `"api"` (a lookup fails),
`"cancel"` (the context is cancelled, at any time), `"crash"` (the process dies, at any step). A lookup or
a startup statement may fail in any run once the context is cancelled. A property is checked with all
faults, or with those under which it is meant to hold.

## What the runs check

| Run | Faults | Bounds | Shows |
| --- | --- | --- | --- |
| `sweep_faults` (`MCSweepFaults.cfg`) | all | 2 workers, 3 words, batch 2, 2 runs | `CheckpointCovered`, `UniqueResumable`, `NeverRedo`, `CompletedIsFinal`, `ImplementsScan`; and that the invariant of the proofs holds |
| `sweep_graceful` | api, cancel | 2 workers, 4 words, batch 2, 2 runs, a good and a bad template | `LogIsPrefix`, `StatsMatchRows`, `UncancelledIsExhausted` |
| `sweep_liveness` | api, cancel | 1 worker, 12 words, batch 1, 1 run, fair | `RunReturns`, `RunCompletes` |
| `walk_faults` (`MCWalkFaults.cfg`) | all but api | cursor of 2 digits of base 2, batch 2, 3 runs, a clock that may go back | `CoveredButStarts`, `CompletedCovered`, `CursorForward`, `ImplementsWalk`; and the invariant of the proofs |
| `walk_graceful` | api, cancel | the same cursor, 4 runs, fair | `WalkAscends`, `WalkExhausts` |
| `run_command` (`MCRunCommand.cfg`) | all but api | 3 processes, none or any one flag each; 3 templates and one with a wrong word, position lists 0-1, 5,1 and the invalid 0-1,1, 2 words, a cursor of base 2 | `ResumesLatest`, `WalkAfterWholeSweep`, `NothingForgotten`, `WalkForward`, `SessionsHandDown`, `EachPositionOnce`; and the invariant of the proofs |
| `shared_store` (`MCShared.cfg`) | any statement fails, any process dies | 2 processes at once, 3 in all, 2 signatures, 2 words, batch 2, 2 migrated columns | `SchemaReady`, `NothingSkipped`, `OwnSignature`, `NoOrphans`, `OneResumableEach`, `CheckpointForward`; and the invariant of the proofs |
| `live_run` (`MCLiveRun.cfg`) | api, cancel | sweep and walk, 4 words, batch 2, 2 addresses, a token every 2 units of time; watched from the screen or from upstream; fair | `AnswerComplete`, `RequestsPaced`, `AttemptsBetween`, `FrameFits`, `FramesForward`, `LookupReturns`, `DashboardStops`; and the invariant of the proofs |

and four runs that refute something the documentation says, see
[below](#disagreements-between-the-code-and-its-documentation).

**`CheckpointCovered`**: every index up to the checkpoint of a session has a row with the result a
lookup of that very index may have. It breaks when the reorder stage lets one index pass another,
when the checkpoint is written before the rows, or when an item is dropped with one behind it going
through. **`NeverRedo`**: a row is only added beyond the checkpoint. **`UniqueResumable`**: at most one
paused or running session per signature. **`CompletedIsFinal`**: nothing touches a completed session
again. **`LogIsPrefix`**: as long as no statement fails and no process dies, the rows of a session read
0, 1, 2, ... over all its runs, through any cancellations. **`StatsMatchRows`**: the
counters the dashboard shows are at every moment what `Repository.Stats` would count in the rows of that run
and in the batch the logger holds, which is empty when it is done.
**`UncancelledIsExhausted`**: only a cancelled run can be completed with words left.
**`ImplementsScan`**: projected to the database and the session at work, every behaviour is one of
`ResumableScan`, where a sequential scanner records the next indices, then moves the checkpoint over
what it recorded, and closes its session or abandons it.

**`CoveredButStarts`**: every cursor up to the persisted one has a row, or a run began with it. **`CompletedCovered`**: in the session of a walk
that returns completed, every cursor without a row is one that a run began with, and there are fewer of them than there were
runs. So a completed walk need not have been through the whole keyspace, but each run before it, however it was
interrupted, cost it one candidate at most, and the last one none; this includes a walk that only finds its session exhausted. **`CursorForward`**: the
persisted cursor of a walk only moves forward, but for the case of `walk_other_sweep`. **`WalkExhausts`**: a walk nobody
cancels comes to the last candidate and is completed.
**`ResumesLatest`**: unless it is told otherwise, a process first begins the session `LatestResumable`
found, whatever flags the processes before it had: inheritance, start index and signature lead back
to that row. **`WalkAfterWholeSweep`**: the walk is chained to a sweep only if every position of the
list is exhausted for the template, whichever processes did it. **`NothingForgotten`**: runs without flags leave
at most one session to resume in the whole table. **`WalkForward`**: they never take a walk back.
**`SessionsHandDown`**: from whatever row a process left, a later one
inherits positions and settings that pass the checks, and a list of positions that has the one the session was at (not so for the
words of a template, which are looked up too late). **`EachPositionOnce`**: the list of positions a process parses has each
one the text names, in order, without repetition.
**`ImplementsWalk`**: what the database sees is a behaviour of `SequentialWalk`.
**`WalkAscends`**: rows ascend, none is repeated, over any number of cancelled and resumed walks.

**`SchemaReady`**: whoever has opened the file finds every column, whichever release made it and
whoever else was migrating it or died over it. **`NothingSkipped`**: every index up to the checkpoint of a session has a row
of its signature, with two processes on it at once, one of which may even have closed the session under the other; only a
reset between another process's `Resume` and its `BeginSession`, or one that has stopped half way, breaks it.
**`OwnSignature`**: a process never writes to a session of another signature, although resets delete rows under it:
AUTOINCREMENT hands out no id twice. **`NoOrphans`**: the totals of `stats` are the sum over the sessions there are.
**`OneResumableEach`** is what is left of `UniqueResumable`: two processes may each insert a session.
**`CheckpointForward`**: the slower of two processes does not take a checkpoint back.

**`AnswerComplete`**: a balance that is returned is that of every address; a failure of one makes the lookup an
error, never a smaller sum. **`RequestsPaced`**: in any window, no more requests than those of two lookups and of one more for
every interval. **`AttemptsBetween`**: the attempts of a frame, `ResumedAt` and `Processed` loaded at different moments, are a
number the run went through while the frame was read. **`FrameFits`**: a frame that says resumed has its
session, and one of a walk no cursor beyond the candidates it counts. **`FramesForward`**: no number goes back.
**`LookupReturns`** and **`DashboardStops`**: a lookup and the repaint loop come to an end.

The type invariants are conjuncts of each `IndInv`, and checked with it.

### Why the bounds are enough

- *Two workers* already reorder, and every worker is the same (the symmetry TLC is told of: in these
  runs, which check no liveness, workers are interchangeable). The proofs hold for any number.
- *Three or four words with a batch of two* give a full batch, a rest that the final flush takes, a
  resume from a checkpoint in the middle, and a start at the end of the list.
- *Twelve words with one worker and a batch of one* are more than the goroutines and channels of that
  run hold together (candidates and derivedRaw two each, derived and checked one each, one item in
  the hands of each stage, and what reorder keeps), so each stage does wait for a full channel.
- *Two runs* show what one leaves for another, which may itself be cut off; the walk has three and
  four, because a cursor can be lost in one run and found wrong only in the third.
- *Two digits of base two* carry, wrap, and end inside a batch and at the end of one.
- *Three processes*: one is interrupted, another with a flag puts something beside or on top of its
  session, the third has to find the right one. All sessions of that run begin in the same second,
  so the latest is the one with the highest id, as it is with a clock that is never set back.
  Templates are interchangeable (symmetry). Signatures of three templates, three positions, two settings.
- *Two processes at once* race in each pair of statements; the third takes over from one that ended, or
  resets. Two signatures, so that an id handed out again could belong to the other one; two columns, so that a
  migration can stop between them. Processes are interchangeable (symmetry).
- *Two addresses*: one may hold a balance and the other fail. An interval of two units has an empty, a half and a
  full bucket. The four words of the live run are funded, valid and invalid ones; runs watched on the screen begin at
  word 2 with two earlier ones to resume from, those watched from upstream at word 0.
- `MaxRuns` bounds the number of runs; the last state rests instead of deadlocking, so deadlock is
  checked in every run.

### Fairness

`FairSpec` of the sweep has weak fairness for each goroutine separately (`Main`, `Generate`, `Derive(w)`,
`Reorder`, `Check`, `Log`): the Go scheduler runs what can run, an operation on a channel that stays ready is
eventually done, statements and HTTP requests come back (they have timeouts). It does not promise a
choice between ready arms of a `select`: that a run ends after a cancellation must not depend on
`ctx.Done()` being picked before the work runs out. Nobody has to start, cancel or kill a run. The
walk has one goroutine and weak fairness for it. The live run has weak fairness for the startup, the goroutine
that looks up, the one that counts, time (a token comes, and a request is answered or times out) and the
repaint loop; and strong fairness for `StopDashboard`: at the `select` of the dashboard the ticker is ready again and
again, and Go picks a ready arm at random, so the arm that stays ready is taken at last. Cancellation is not fair.

## What is proved

tlapm checks every theorem and lemma to its leaves. The assumptions are the named ASSUMEs on the
constants, which TLC evaluates in the runs:

- sizes: at least one word, one row per batch, one digit and a base of two, one address, an interval that is not
  zero; the workers are finitely many and at least one, the processes at once finitely many;
- what stands for data fits together: funded indices are valid, the migrations are a list, the columns of the
  sessions table can hold what the command writes there (`ColumnAssumption`), there are sessions to be had at all;
- the defaults of the command line are themselves accepted by `ParsePositions` and `Validate` (`RunAssumption`).

Two properties of the sweep and one of the walk are about histories with some faults only. There the theorem has the
restriction as a hypothesis (`Graceful`, `Undisturbed`), which the constants of `sweep_graceful` and `walk_graceful`
satisfy, and which leaves cancellation and failing lookups in.

### The sweep (`SweepProofs`)

`SweepInductive` is `Spec => []IndInv`, and from it `SweepTypeCorrect`, `SweepCheckpointCovered`,
`SweepUniqueResumable`, `SweepNeverRedo`, `SweepCompletedIsFinal`, `SweepImplementsScan` and
`SweepUncancelledIsExhausted`, with any number
of workers, runs and sessions, any wordlist length and batch size, and all faults.

`CheckpointCovered` alone is not inductive: a flush keeps it only if the batch is the run of indices right
after the checkpoint. `InOrder` says so of everything in flight at once: the batch, then the `checked`
channel, the item in check's hands, the `derived` channel, and the reorder stage's `next` continue one
another without a gap, starting at `Committed`. What lies before the reorder stage needs no invariant for that:
however the derivers race, reorder emits `next` only. `ResultsSound` keeps the answer with its index
through the stages. `SessionHeld` ties the run to its session: the session is running, is the one with
this run's signature, and its checkpoint is `Committed`; with `UniqueResumable` no other id can be
opened for that signature. `FlushReady` holds between the two statements of a flush. Every
action changes a few of these parts; the proof has a lemma for each goroutine and a step for each of
its actions. These parts are `PipelineInv`.

That a run nobody cancels ends with the last word needs the other half of the pipeline (`Uncancelled`):
`NothingDropped`, every index that was generated and not yet emitted is in a channel, in a worker's hands or in
`pending`; and `StopInTurn`, a stage stops only when the one before it has and has left nothing behind. When the logger
is done, then, `next` can be nothing but the end of the wordlist. `Concluded` says how a run got to its final status.

`SweepLogIsPrefix` and `SweepStatsMatchRows` are proved relative to that, by invariants that hold without failing
statements and crashes: each row's index is the number of rows of its session before it, and the checkpoint is the last of
them but for a flush under way; and the counters are those of the rows and the batch, for which the batch must be
what follows the rows, as `InOrder` says it is.

The refinement maps `open` to the session while `Run` works on it. A flush's insert is `Record`, its
checkpoint is `Advance`, the crash and the error returns are `Abandon`, and every channel operation is a
stutter.

### The cursor (`CursorProofs`)

`UptoInc`: an increment adds exactly one cursor to those passed (so none is left out), for every length
and base. `DecUndoesInc` and `IncUndoesDec`: the decrement is the inverse of the increment, where neither
wraps. All go by the digit where the carry stops, and the first digit in which two cursors differ, as does
the transitivity of their order.

### The walk (`WalkProofs`)

`WalkInductive` is `Spec => []IndInv`; from it `WalkTypeCorrect`, `WalkCoveredButStarts`,
`WalkCompletedCovered` and `WalkCursorForward`. The first part of the invariant, `WalkInv`, says which cursors a run has dealt with (`Done`: those before
`cursor`, and `cursor` itself during a flush inside the loop, which comes before the increment) and that each of
them is accounted for in the tables or still in the batch; between the statements of a flush, the
batch is in the table. The two ways to persist a cursor are then both up to what is done: the flush in
the loop persists the cursor just tried, the final flush the one before the next, where `cursor # Zero`
is needed for the decrement to mean that. `BeginReady` carries the cursor from the session that was
found at load time to the session `BeginSession` picks: with `UniqueResumable` they are the same.

`CompletedCovered` counts. `StartsCounted` says that there are no more entries in `starts` than runs, and one fewer as long
as the run at hand has begun no session; and that the candidate this run began with (`FirstTried`) is still the one to
try, in the batch, or in the table. When a run ends as completed it is in the table, by the overflow and the empty batch, so that the
candidates without a row are among the other entries (`FewUntried`, by the injection of a candidate into the entry it is the
start of). A walk that finds its session exhausted has begun none, and `CoveredButStarts` says the rest.

`CursorForward` needs to know of the persisted cursor that it is behind: `CursorAhead` keeps it up to the
cursor in hand, and before that one once there is a batch, so that the final flush, which steps back, does not write an
earlier one. `WalkRowsAscend` is for walks of one signature without failing statements and crashes (`Undisturbed`):
`BatchAscends`, the batch ascends and begins behind the rows, and `RowsBehind`, the persisted cursor of a session that can be
resumed is not before any of its rows, but between the statements of a flush or after a wrap. A crash
between the two statements is what breaks `RowsBehind`, and does make the code write rows a second time.

### The walk without batches (`SequentialWalkProofs`)

`WalkImplementsSequential` is `Spec => ImplementsWalk`. `WalkInv` says that what is done is accounted for, but not
that the batch is in order; `BatchFollows`, inductive relative to it, adds that the batch in hand is a stretch of
successors, with results their lookups may have had, and that the cursor is its last candidate during a flush in the
loop and the one after it else. A flush's insert is then `Record`, its checkpoint `Advance` (where the
step back of the final flush needs `DecUndoesInc`), `Begin` is `Open` by `BeginReady`, errors and crashes are
`Abandon`, and everything between two flushes is a stutter: `next` is the head of the batch while it grows.

### Several processes on one file (`SharedProofs`)

`SharedInductive` is `Spec => []IndInv`; from it `SharedSchemaReady`, `SharedNothingSkipped`, `SharedOwnSignature`,
`SharedNoOrphans`, `SharedOneResumableEach` and, with a lemma about each statement, `SharedCheckpointForward`, for any number of processes. With several processes nothing
can be said of a session between two statements but what no other process undoes, and that is what the invariant keeps
of each process: `OwnSignature`, since an id is never handed out again; `MigratedSoFar`, since
columns are only added; and `PlacesLogged`: what lies before the place of a process is logged for its signature, by whomever, as
long as it has a session to write that down in, or is about to begin one. The last of these cannot survive a reset between
`Resume` and `BeginSession`, which is what `torn` is for. `Growth` is what a step may do under the feet
of another process; each action has a lemma that shows `Growth`, the tables and its own process, and
`Assemble` adds the others. The two statements of a reset are not `Growth` and are proved apart.

`OneResumableEach` is a count, and not inductive: a process may pause a session that another completed meanwhile, and
one that found nothing will insert whatever has been inserted since. `Room` counts both: the sessions of a signature that are open
(resumable, or with a process at work in them) and the processes about to insert one are together no more than the processes. An
insert moves one from the second count to the first. The one step that adds to the counts without taking anything away is the query
that finds nothing, and when it finds nothing the open sessions all have a process, each its own, and none of these is about to
insert (`HeldApart`, by the injection that takes a session to its process).

### The run command (`RunProofs`)

`RunInductive` is `Spec => []IndInv`, for any number of processes, each with any of the flags, any lists of
positions, cut off anywhere; from it come `RunNothingForgotten`, `RunSessionsHandDown`, `RunEachPositionOnce`,
`RunResumesLatest`, `RunWalkAfterWholeSweep` and `RunWalkForward`. What survives a process is rows, so the invariant says first what any row
holds (`RowOK`: a template and a text that were valid when it was written, and a signature that follows from them; for a walk a
cursor), which makes what is inherited valid. `Control` ties the process to its row, and `LastHeld` keeps the row the
lookup returned: until another is begun it is still resumable, and without flags that change the identity it has the
signature `BeginSession` is about to look for. `ResumesLatest` follows with `UniqueResumable`. `NothingLeft` and `WholeSoFar` are for
histories of plain processes: a process that begins anew has found nothing to resume; and the positions before that of any
session, or of the loop, are exhausted for its template, whichever processes did it.

Most of the work is in the store: `Tended` is what every statement but the insert does to rows (status, checkpoint,
cursor, refreshed columns), and `BeginKeeps` is the insert or the reuse. `LatestHolds` shows that the query has an answer when there is something
to resume: the greatest `startedAt`, then the greatest id. `ParsePositions` flattens the ranges of its tokens; `FlattenSeq` is recursive, and since
induction theorems with an operator parameter cannot be used, the lemmas on it (`FlattenExists`, `ListFacts`) go by the least
number for which they fail (`UpTo`).

### The live run (`LiveProofs`)

`LiveInductive` is `Spec => []IndInv`; from it `LiveAnswerComplete`, `LiveRequestsPaced`, `LiveAttemptsBetween`,
`LiveFrameFits` and `LiveFramesForward`, for any number of addresses, interval of the bucket, wordlist and batch. It is a
conservation law for each of the three that share the state. For the bucket (`Pace`): the requests since the observer
began, and those the lookup under way may still send, are no more than the tokens handed out, which the time that passed and the
missing credit bound (`Budget`). For a lookup (`Fetching`): the sum is that of the addresses it has been to, unless it
failed. For the counters (`Counted`): what has been counted, what is still owed by the result last taken and what is in the channel make up the candidates
tried, and once what is owed is added no counter is ahead of the one it is part of (hits of valid ones, valid ones of all).

A frame is seven loads at seven moments, and no relation of the counters at one moment carries over to it. What does is the order: `Between` says
of each counter that what was loaded lies between the frame on the screen and the counter now, and `Painted` that a number is loaded
before the one that covers it (the resumed index before the session, the cursor before `processed`). Counters only grow, so
the later load is large enough.

### Out of the prover's reach

Liveness (`RunReturns`, `RunCompletes`, `WalkExhausts`, `LookupReturns`, `DashboardStops`) needs fairness and ENABLED, and is
model-checked only. The four properties of the next section that the code violates are of course not proved. Every other
property of a run is a theorem.

## Disagreements between the code and its documentation

Four have a run in which TLC finds the behaviour:

- `sweep_cancelled_completed`: a cancelled sweep may be marked completed. Whether the session becomes
  paused depends on whether the logger itself picks `ctx.Done()`; if the stages before it stop first and
  close `checked`, the logger ends as if the words had run out (`pipeline.go:191`,
  `docs/architecture.md:91`). The rest of the position is then never swept.
- `sweep_flush_hang`: after a failed flush `Run` waits for the generator, which waits for room in a
  channel nobody empties any more (`pipeline.go:177`).
- `run_between_positions`: a run that is stopped between two positions leaves no session to resume: the
  one that ended is completed, the next does not exist. The next run without flags starts over with a new
  template (`cmd/run.go:275` against `README.md:59`).
- `walk_other_sweep`: a walk looks for the latest session of any mode; after an interrupted sweep it
  starts at zero and overwrites the cursor of the paused walk (`walker.go:318` against `:78`).

These need no run:

- `pipeline.go:35` says that on cancellation the item in flight finishes. The lookup under way fails with the
  context's error, as do those of items still queued before `check`; they are written as error rows and
  the checkpoint moves past them, so that no later run makes them (`pipeline.go:348`).
- `walker.go:114` says that the persisted cursor is the last one processed, and `:252` calls a cancellation before the first
  flush harmless. `BeginSession` persists the first cursor to try (`walker.go:130`), a flush the last one tried, and a
  resume adds one to either: a walk that stops before its first flush skips a candidate, and a walk may be reported completed
  that has not tried it. `CoveredButStarts`, `CompletedCovered` and their proofs say that this is all that is ever lost.
- `ratelimit.go:9` promises no more than `rps` requests per second and no bursts. The limiter counts lookups, and a
  lookup is one request for each address, sent as fast as they are answered: `RequestsPaced` has the factor
  `NAddresses`, and no smaller one would hold.
- A frame of the dashboard may show more valid mnemonics than processed ones, or more hits than valid ones: the
  counters are loaded in the order in which they are bumped. And a dashboard that is painting when the run returns may still
  write its frame over the summary, if that takes longer than the 50 ms `runOne` waits (`cmd/run.go:229`).
- The comment at `repository.go:112` calls the store safe for concurrent use; that is so within a process. With two processes on one
  file, `UniqueResumable`, `NeverRedo` and `CompletedIsFinal` do not hold (both may insert a session, both record the same
  words, one goes on in a session the other has completed); what does hold is in `SharedProperties`.
- A `seed-hunter reset` between `Resume` and `BeginSession` of a run makes it begin a new session at the old index: the words before
  it are not swept (`pipeline.go:85`). `torn` in `NothingSkipped` stands for that window of time.
- A template of twelve words, one of them misspelt, passes `Validate` (`config.go:90` leaves it to the iterator). By the
  time the iterator rejects it the session has begun; it stays `running`, and every later run without flags inherits it and
  fails in the same way.

- `docs/architecture.md:86` says that every stage selects on `ctx.Done()`; the send in `check`
  (`pipeline.go:351`) does not, so that goroutine may outlive `Run`. It holds nothing but its channels.
- The comment at `pipeline.go:358` says that the counters are bumped after a successful commit; `logResults`
  bumps them when it takes an item (`pipeline.go:410`). `StatsMatchRows` shows by how much they are ahead of the rows: by the batch.
- The comment at `pipeline.go:291` says that the reorder buffer holds at most `workers` items; while one
  worker is slow with the next index, the others may deliver any number of later ones. `pending` has no
  bound in the model either, and no property needs one.
- The comment at `cmd/run.go:186` says that a run that does not resume a session starts at the head of
  the list. The inherited position is used even with `--template` or `--positions`: after a
  template interrupted at position 5, `run --template ...` sweeps the new one from position 5 on, and
  the walk follows. `WalkAfterWholeSweep` is stated for histories without these two flags.
- `--reset` retires sessions of the new signature only. The session it was to leave behind stays
  paused and comes back once the new one is completed, which is why `NothingForgotten` leaves it out.

## Not modelled

- *Derivation, hashing, mnemonics*: functions of the candidate by external libraries.
- *Wordlists*: the loader reads a list once and rejects a wrong one before a session begins. That the signature of a
  session does not have the list in it, so that a resume with another list would go on in the middle of that, is not modelled:
  candidates are indices.
- *Environment variables*: they change the defaults of flags and are overruled as defaults are. The checks of numbers and of the
  wordlist's path in `Validate`, and the validation at the start of `Run` and `Walk`, end a process without a change of state.
- *The start of a database*: the statements of `schema.sql` are one step. Each creates what is not there yet, so a process that dies
  between two of them leaves the rest to the next one.
- *A `--template` given as an empty text*: the flag counts as set (`run.go:388`), so no template is inherited and a new one is drawn;
  in the model a flag that is set has a value. `wordlist_path` is inherited and not modelled: a list that cannot be
  read any more ends a process before it begins a session.
- *The end of the keyspace on the screen*: when the last candidate overflows, the final flush stores the wrapped cursor, zero, in the
  counters, and the dashboard's cursor goes back (`walker.go:238-262`). `LiveRun` looks at a stretch of the
  keyspace that a walk does not come to the end of, and `FramesForward` is about that; `KeyspaceWalk` has the wrap, but no dashboard.
- *Walks in several processes at once*: `SharedStore` has sweeps, whose checkpoint is guarded against going back; the
  cursor of a walk is not, and two walks on one session would take each other back.
- *Time*: timeouts and the 200 ms and 50 ms of the dashboard are not timed; that a lookup takes
  any time is the interleaving. The token bucket has a time of its own. `startedAt` is read from a clock that may stand still
  or go back.
- *Layout*: elapsed time, rates and ETAs of a frame.
- *Goroutines left behind* by a `Run` that returned with an error are dropped at `Exit`: they hold only
  channels of their own.

## Plan

Done, in this order: `Repository`, `SweepPipeline` with `SweepProperties` and `MCSweep`, `ResumableScan`,
`SweepProofs`, `Cursor` with `CursorProofs`, `KeyspaceWalk` with `WalkProperties` and `MCWalk`, `WalkProofs`,
`RunCommand` with `RunProperties` and `MCRun`, `SharedStore`, `RateLimitedChecker`, `Dashboard` and `LiveRun`,
`Positions`, `SequentialWalk` with its proof, `SharedProofs`, `LiveProofs`, `RunProofs`, and the theorems on fault-free
histories in `SweepProofs` and `WalkProofs`.

To come: walks beside each other and beside sweeps in `SharedStore`.

Theorems to come: that the steps `RunCommand` takes for `Run` and `Walk` are those `ResumableScan` and `SequentialWalk` allow, so that the
abstraction the README argues for is itself a theorem; that a frame's `processed` never passes what the rows and the batch hold.
