# TLA+ models of metabasis

metabasis keeps Microsoft Entra group memberships in step with temporary
*intents*. A webhook delivers an intent (an identity, a subject, a window of
time, a cancelled flag), PostgreSQL stores it, and a reconciler brings the
subject's memberships to what the rules assert for the aggregate state of its
intents: pending, active or settled. These modules model that system, check it
with TLC on small instances and prove its main promises with TLAPS.

## The system

| Part | State it keeps | Operations | Module |
| --- | --- | --- | --- |
| `internal/intent` | none | `Validate`, `PhaseAt`, `NextTransitionAt` | `Intent` |
| `internal/config` (policy) | the configuration | validation of groups, rules, assertions, retry durations | `Config`, `Backoff` |
| `internal/config` (loading) | the documents being merged | `load`, `mergeNode`, `substituteEnvironment`, defaults, environment, validation | `Load` |
| `internal/expression` | compiled conditions | `Eval` | a set of users in `Config` |
| `internal/planner` | none | `Build` | `Planner` |
| `internal/store` | tables `intents`, `reconciliation_state`; advisory locks; the connection pool | `Open`, `Migrate`, `UpsertIntent`, `LockSubject`, `Close`, `ListIntents`, `GetState`, `RecordSuccess`, `RecordFailure`, `ListSubjects`, `ListSubjectsDue`, `NextWake`, `CollectMetrics` | `Store`, `Scheduler`, `Pool`, `Startup` |
| `internal/graph` | the directory's memberships (external) | `Resolve`, `AddGroupMember`, `RemoveGroupMember` | `Graph`, `ResolveCheck`, `ReconcileLate` |
| `internal/reconcile` | locals of an attempt | `ReconcileSubject`, `ReconcileDue`, `ReconcileAll`, `PlanEvent` | `Reconcile`, `Scheduler`, `Preview`, `Report` |
| `internal/httpapi` | none | `handleWebhook`, the readiness probe | `Reconcile`, `Scheduler`, `Pool` |
| `internal/metrics` | gauges read at each scrape | `Collect` | `Store` (`CollectMetrics`), `Pool` |
| `internal/app` | the parts of a process | `Build`, `Close` | `Startup`, `Shutdown` |
| `cmd/metabasis/loop.go` | timer, wake channel | `runLoop`, `runCycle` | `Scheduler` |
| `cmd/metabasis` (`run`, signals) | servers, contexts, exit code | `runService`, `signalContext`, `run` | `Shutdown` |
| `cmd/metabasis` (`apply`, `plan`) | results, the live region of the terminal | `applyCommand`, `subjectDone`, `writeApplyReport`, `writePlan`, `terminalProgress` | `Report`, `Preview`, `Terminal`, `Layout` |

**How they interact.** A webhook handler validates a delivery and runs
`UpsertIntent`: one transaction that locks the identity, reads the subject its
row names now, locks the affected subjects in order, replaces the intent, marks
the subjects due (`next_retry_at` = the delivery's instant) and commits. It
then puts a token into a one-place channel without blocking. The service loop
lists the due subjects and calls `ReconcileSubject` for each: a session lock on
the subject, the row, the intents, the user from Graph, the plan, the additions,
the removals, the recorded outcome, the unlock. It then sleeps until the next
mark in the database, the poll interval or a token. An operator's `apply` is a
reconciler in a process of its own; it shows its stages on the terminal, prints
a block for each subject and a report, and says with its exit code how it went.

**What is hard.** Handlers and reconcilers interleave at every statement. Each
database or Graph call may fail; a Graph write may take effect and lose its
answer, or arrive long after it was given up; a process may die between any two
calls; a database session may drop and free its lock under a running attempt.
Everyone who waits for a lock holds a connection of a small pool. Phase
boundaries pass while an attempt is in progress. The wake-up is sent without
blocking to a loop that may be anywhere. A clock goroutine repaints the terminal
while reports are printed to it. `PROJECT.json` lists these under `hazards`,
each at its line.

## The modules

* `Intent`, `Config`, `Planner`, `Store`, `Graph` hold the data and the
  operators of one package each. Texts are natural numbers in string order (0 is
  the empty text), since the code only compares, sorts and trims them; the
  constant `TrimSpace` is the trimming. Instants are natural numbers with 0 for
  Go's zero time and -1 (`Null`) for nil or NULL.
* `Reconcile` is the core. `intents`, `state`, `subjectLock` and `identityLock`
  are the database, `member` is the directory, `rec` and `hnd` are the locals of
  `ReconcileSubject` and `UpsertIntent` with a `pc` for the next call. There is
  one action for each call and for each way it can fail:

  | Code | Actions |
  | --- | --- |
  | `LockSubject` | `Begin`, `LockSubject`, `LockSubjectFails` |
  | `GetState` with the attempt's instant | `GetState`, `GetStateFails` |
  | `ListIntents`, `nextTransitionAt` | `ListIntents`, `ListIntentsFails` |
  | `Resolve`, `Build` | `Build`, `BuildFails` |
  | additions, then removals | `Add`, `Remove`, `WriteRefused`, `WriteAnswerLost` |
  | outcome | `RecordSuccess`, `RecordSuccessFails`, `RecordFailure`, `RecordFailureSkipped` |
  | `SubjectSession.Close` | `Close` |
  | `handleWebhook`, `UpsertIntent` | `Receive`, `LockIdentity`, `LockAffected`, `Commit`, `Rollback` |
  | crash, clock | `CrashReconciler`, `Rollback`, `Tick` |

  `Resolve` and `Build` are one step: only reconcilers write the managed groups,
  and they do so under the subject's lock. The writes of a transaction become
  visible at its commit, so they are one step with it.
* `Promise` is what the system promises, without locks, sessions, attempts or
  rows: deliveries take effect, time passes, memberships of *due* subjects are
  written one at a time and only towards what the intents ask for, and a subject
  stops being due only while it conforms. `Reconcile` implements it
  (`KeepsPromise`): intents, memberships and clock are the same, and `due` maps
  to `Due`, the subjects whose marks in `reconciliation_state` bring
  reconciliation back.
* `ReconcileLossy` adds `LoseSession`: PostgreSQL frees the lock, the reconciler
  goes on and learns of it at its next statement. `ReconcileLate` adds to that
  the membership writes that Graph carries out after their sender gave them up,
  and two history variables: whether an attempt has resolved its user after the
  last write outside of the lock (`seen`), and whether such a write has landed
  that no such attempt has repaired with a recorded success (`late`).
* `Pool` is the store seen as connections: each process has a pool of them,
  PostgreSQL keeps advisory locks per connection, reentrant, under the hash of a
  name, and refuses a lock when it finds a cycle of waits. Sessions, webhook
  transactions and single queries take a connection, then locks, and give both
  back, or close the connection when they cannot be sure of its locks. Whether
  Graph answers at all is chosen at the start (`answers`).
* `Startup` is `Open`, `Migrate` and `app.Build` in several processes at one
  time; `Shutdown` is the end of `run`: signals, two servers, the shutdown
  limit, the pool, the exit code. The code (`exitCode`) is the one `run` decides:
  a signal decides before the errors do, so that after a signal 130 or 143 does not
  tell a shutdown that gave up on a request from a complete one. No property is
  about the code itself; what `runService` reports is (`FailuresSkipNothing`).
* `PhaseCheck`, `PlanCheck`, `ResolveCheck` run operators over all small inputs
  against what they are to mean: phases and boundaries, plans, and the batches in
  which group IDs are checked. `Backoff` runs `retryDelay` in wrapping arithmetic
  against capped doubling. `Load` runs `load` step by step over files and
  environments. A document is a function from the paths of its nodes to what is
  there, so that `mergeNode` and `substituteEnvironment`, which recur over trees in
  the code, are one definition each; a text is a string only where the code looks
  at what it says (a placeholder, a number, a level).
* `Scheduler` is the loop, its channel and its queries. Its time has no end, so
  it writes an instant as its distance from now; an attempt is two steps here.
* `Report` is `apply` from its flags to its exit code; `Preview` is `plan --event`
  and the delivery of its event. `Terminal` is the live region with its two
  goroutines, where a line on the screen is a record and a write is one step
  inside the lock; `Layout` is how a row and a frame are fitted into the screen,
  with texts as widths.
* `Sequential` puts the parts that compute without a partner (`PhaseCheck`,
  `PlanCheck`, `Backoff`, `ResolveCheck`, `Layout`, `Preview`, `Load`, `Report`) side
  by side: `part` says which of them a behaviour runs, and the variables of the
  others are unused.
* The `MC` modules give the constants of the larger models their values. The files
  of `LoadInputs` are written as trees and flattened to their paths; `MCSequential`
  also states `mergeNode` call by call on those trees, and assumes, which TLC
  evaluates, that `Load` merges their paths to the same (`MergesAgree`).
* `ReconcileProofs` holds the theorems about `Reconcile`, its refinement of
  `Promise` and `ReconcileLate`; `SchedulerProofs`, `PoolProofs`, `StartupProofs`,
  `ShutdownProofs`, `TerminalProofs` and `SequentialProofs` those about the module of
  the same name. `NumberLemmas` has the lemmas they share: least and greatest
  elements, induction and recursion over the natural numbers, sums, and the
  ascending order of a finite set.

A definition named `X_Something` next to a definition `X` is a mutant: `X` with a
plausible mistake. No specification uses it. `PROJECT.json` pairs each property of
each run with a mutant that violates it.

## What the runs check

| Run | Instance | Properties |
| --- | --- | --- |
| `reconcile` | 1 subject, 2 reconcilers, 1 handler, one identity whose window opens, closes and is cancelled, 3 instants, 2 failures in a row | `TypeOK`, `UpToDateConforms`, `Serialized`, `RemainingWorkIsThePlan`, `RetryFollowsBackoff`, `Inductive`, `GaugesAgree`, `KeepsPromise` |
| `moves` | 2 subjects, 2 identities, 2 handlers, 1 reconciler | `NoLeakedLock`, `NoWaitCycle`, `KeepsPromise` |
| `faults` | 1 subject, 2 reconcilers whose sessions may drop, 1 handler, 1 write in flight | `OnlyLateWritesHarm` |
| `lossy_serialized` | 1 reconciler whose session may drop, 1 handler | `Serialized`, violated: finding 1 |
| `sequential` | the parts below | the properties below |
| `scheduler` | 2 subjects, 2 deliveries, boundaries, retries beyond the poll interval, an `apply` or a restart | `WakeNotLost`, `PollBoundsDelay`, `EventuallyCurrent`, `LoopStops` |
| `pool` | a `run` with 2 connections, the loop and 2 webhooks, an `apply` with 1; 5 names with 3 hashes | `PoolIsSound`, `Exclusive` |
| `pool_live` | the `run` alone, with a probe; Graph answers or does not | `EveryoneEnds` |
| `start` | 3 processes at one time, 5 starts, failures and crashes | `MigratedBeforeWork`, `FailedHoldsNothing`, `StartEnds` |
| `shutdown` | 3 signals, 1 request on each server | `QuietReturnIsComplete`, `FailuresSkipNothing`, `SecondSignalKills`, `Terminates` |
| `terminal` | 2 subjects, 2 writes, all four kinds of output | `PrintedTextStays`, `NoStaleFrame`, `CommandEnds` |
| `terminal_lines` | the same | `EverySubjectLeavesALine`, violated: finding 2 |

`TypeOK` of `Pool` is part of `PoolIsSound`; those of `Scheduler`, `Shutdown` and
`Terminal` are theorems (`SchedulerTypeCorrect`, `ShutdownTypeCorrect`,
`TerminalTypeCorrect`).

The parts of `sequential`:

| Part | Instance | Properties |
| --- | --- | --- |
| `phases` | every set of up to 3 windows on 5 instants | `BoundaryIsExact`, `StateFollowsWindows` |
| `plans` | every valid configuration of 3 aliases over 3 group IDs | `AppliedPlanSatisfies` |
| `backoff` | every pair of 7-bit durations, 9 failures | `DelayIsCappedDoubling` |
| `resolve` | 2 aliases with up to 2 of 4 IDs each, batches of 2, 1 change from elsewhere | `ResolvedIsConfirmed` |
| `layout` | widths 1 to 70, heights 1 to 9, up to 5 operations | `FrameFits` |
| `preview` | every stored state of 3 identities and 2 subjects, every event, every membership | `PreviewIsWhatHappens` |
| `load` | 3 files and an environment, in families for each section of the configuration | `EffectiveValues`, `UsableConfig` |
| `report` | 2 subjects, up to 3 writes each, every flag, an interrupt, a full output | `WritesAccounted`, `SuccessIsComplete` |

`UpToDateConforms` is the promise of the system: a subject that is neither due
nor waiting for a retry has exactly the memberships its intents ask for *now*.
Everything that can go wrong may leave a subject wrong for a while, but never
without a mark in the database that brings reconciliation back to it.
`KeepsPromise` says more of the way there: memberships change one at a time,
only while the subject has a mark, and only towards what was asked for at some
instant since. `OnlyLateWritesHarm` says how far the promise holds when Graph
carries out writes after they were given up, and when an attempt goes on writing
after it lost its session: such a write that lands before the last attempt
resolved its user is seen and repaired, one that collides with an attempt's own
write makes that attempt repeat; only one that lands later leaves a subject
wrong until its next boundary, delivery or full reconciliation. That does
happen: `UpToDateConforms` itself does not hold of `ReconcileLate`.

A pool whose connections are all waiting for locks gets going again, because a
session never needs a second connection and PostgreSQL breaks the cycles that
colliding hashes make possible (`EveryoneEnds`; with a session that read its
state through the pool it would not). A probe or a scrape ends even if Graph
never answers, which `EveryoneEnds` says too; a session, and a webhook for its
subject, may then wait for ever. `GaugesAgree` compares the metrics query, which
states phases and the due condition a second time in SQL, with the planner's
phases and the loop's listing. The precedence of configuration values is stated
without the merge, from the last file that speaks about a path
(`EffectiveValues`). `WritesAccounted` compares the printed block with the
requests that really went out.

**Bounds.** Two reconcilers are the loop and one `apply`; a third would wait
behind the same lock. Two handlers with two identities and two subjects make the
shortest cycle opposite moves could form. Three instants let a window be ahead,
open and over; `MaxRetries` = 2 lets backoff grow once. The configuration of
`MCReconcile` has a rule for each state with additions and removals together and
a selecting group. `PlanCheck` needs three aliases for two that share an ID and
one that stands for several. Seven bits make doubling overflow within nine
failures. In `Scheduler`, a retry of 3 exceeds and a boundary of 1 precedes a
poll interval of 2, and two deliveries fill the channel twice. In `faults` a
session may drop at any step; with one write in flight, a write outside of the
lock lands between any two steps of the other reconciler. In `Pool` three users share two
connections, two subjects share a hash and an identity shares one with a
subject, so that both an exhausted pool and a deadlock happen; in `pool_live`
two deliveries of both subjects make the loop and the webhooks wait for each
other, with a probe behind them. `MCPool.cfg` has a spare connection for one
whose end PostgreSQL has not seen. `Startup` needs three processes for one that
waits while a second crashes and a third goes on. Four IDs and a limit of two
give full, partial and empty last batches. Two subjects in `Terminal` let the
frame of one meet the block of the other. The widths of `Layout` span from less
than any part to more than all of them, and six lines, the most a frame has, are
fewer than five scoped operations need.

**Fairness.** `Reconcile` needs none: its properties are safety. `Scheduler`
assumes that the loop's goroutine and time go on (`WF`), that a handler that has
committed goes on to its send, and that a listing and an attempt that are tried
again and again succeed at last (`SF`): the code retries both for ever, and
without that no program could converge. Deliveries, `apply` runs and restarts are
finite; an `apply` that fails for ever just in time can hold a subject in backoff
for ever. `Shutdown` assumes that goroutines go on, that the loop ends once it is
cancelled (which is `Scheduler!LoopStops`) and that requests are answered:
`runService` does not cancel them, and `Store.Close` waits for their connections
even after the ten seconds, so a request that never ends can hold the process
until the second signal. `Pool` assumes that pgxpool and PostgreSQL serve those
who wait in turn (`SF` of `Acquire` and `TakeLock`), that deadlines pass and that
the deadlock detector runs; that Graph answers (`WF` of `EndWork`) is assumed only
where `answers` is TRUE, since the HTTP client sets no limit. `Terminal` assumes that
both goroutines go on, that `sync.Mutex` does not starve a waiter, that a
`select` with two ready channels takes each in the end, and that a stage ends.
`Startup` assumes only that a process goes on while it can.

`CHECK_DEADLOCK FALSE` is set where a behaviour really ends: a plan carried out,
the last instant, a process that has exited, a configuration loaded or refused.

## What is proved

For every value of the constants that satisfies the assumptions below:

| Module | Theorem | States |
| --- | --- | --- |
| `ReconcileProofs` | `TypeCorrect` | `TypeOK` |
| | `LocksAreOwned` | `NoLeakedLock`, with `ReconcilersHold` and `HandlersHold` |
| | `NoActorsWaitInACircle` | `NoWaitCycle` |
| | `ReconciliationIsSerialized` | `Serialized` |
| | `RetriesFollowBackoff` | `RetryFollowsBackoff` |
| | `PlansStayCurrent` | `RemainingWorkIsThePlan` |
| | `UpToDateSubjectsConform` | `UpToDateConforms` |
| | `InductiveInvariantHolds` | `Inductive` |
| | `GaugesAgreeWithTheLoop` | `GaugesAgree` |
| | `ReconcileKeepsPromise` | `KeepsPromise`: `Reconcile` implements `Promise` |
| | `OnlyLateWritesMatter` | `OnlyLateWritesHarm`, of `LSpec` |
| `SchedulerProofs` | `SchedulerTypeCorrect` | `TypeOK` |
| | `NoWakeIsLost` | `WakeNotLost` |
| | `PollingBoundsTheDelay` | `PollBoundsDelay` |
| `PoolProofs` | `PoolsAreSound` | `PoolIsSound` |
| | `LocksExclude` | `Exclusive` |
| `StartupProofs` | `MigrationComesFirst` | `MigratedBeforeWork` |
| | `FailuresHoldNothing` | `FailedHoldsNothing` |
| `ShutdownProofs` | `ShutdownTypeCorrect` | `TypeOK` |
| | `SecondSignalEndsTheProcess` | `SecondSignalKills`, an action property |
| | `QuietReturnsAreComplete` | `QuietReturnIsComplete` |
| | `FailuresAreTakenInStride` | `FailuresSkipNothing` |
| `SequentialProofs` | `BoundariesAreExact` | `BoundaryIsExact`, of `PhaseCheck` |
| | `StatesFollowWindows` | `StateFollowsWindows`, of `PhaseCheck` |
| | `DelaysDouble` | `DelayIsCappedDoubling`, of `Backoff` |
| | `ResolvedUsersAreConfirmed` | `ResolvedIsConfirmed`, of `ResolveCheck` |
| | `FramesFitTheScreen` | `FrameFits`, of `Layout` |
| | `AppliedPlansSatisfy` | `AppliedPlanSatisfies`, of `PlanCheck` |
| | `PreviewsComeTrue` | `PreviewIsWhatHappens`, of `Preview` |
| | `SuccessMeansComplete` | `SuccessIsComplete`, of `Report` |
| | `WritesAreAccountedFor` | `WritesAccounted`, of `Report` |
| | `ValuesTakeEffect` | `EffectiveValues`, of `Load` |
| | `LoadedConfigsAreUsable` | `UsableConfig`, of `Load` |
| `TerminalProofs` | `TerminalTypeCorrect` | `TypeOK` |
| | `PrintedTextIsNeverErased` | `PrintedTextStays`, an action property |
| | `FramesAreNeverStale` | `NoStaleFrame` |

With these, every safety and action property that a passing run checks is a theorem.

### Reconcile

`UpToDateConforms` is not inductive: it says nothing of attempts in progress. The
strengthening is built in layers, each used by the next.
1. *Types.*
2. *Locks* (`LockInv`): an actor at work holds the lock it relies on, and a lock
   held has an owner at work. A handler that has its identity's lock knows every
   subject its delivery affects, since nobody else can move that identity.
3. *Work* (`HeldWork`): captured and recorded instants are in the past and in
   order, the intents an attempt has listed are those stored, the boundary it
   will store is theirs, its failure count is the row's. A commit on the subject
   would break this and needs the lock that the attempt holds (`CommitFrame`). It
   is stated of the attempts that have their sessions, which in `Reconcile` are
   all of them (`AllWorkIsHeld`).
4. *Memberships* (`MemberInv`): what is left of a plan is what planning again
   would find, and a *clean* subject (no retry, boundary still ahead) is as its
   last success left it. A write cannot break the second part: a clean subject's
   plan is empty (`CleanMeansNoWork`).

The step from a clean subject to a conforming one is `StateHoldsUntilBoundary`:
no phase changes before the earliest transition, hence neither do the aggregate
state and the assertions.

`NoWaitCycle` needs `LocksInOrder`: a handler waits only for a subject beyond all
whose locks it holds, and the locked subjects have a greatest one. In a circle of
waits, who holds the greatest of the subjects waited for would wait for one
beyond it; who waits for an identity's lock holds nothing (`WaitsInTheMiddle`).

`GaugesAgree` needs `FailuresRetried`: a row has an error exactly when it counts
failures, and then names the next attempt. Its other parts equate the sets that
the SQL and the planner describe.

### The promise

The operators of `Promise` are shown equal to those of `Reconcile` (`Same...`),
then each action is mapped: `Commit` to a delivery, `Add`, `Remove` and
`WriteAnswerLost` to one write of a due subject, `RecordSuccess` to the end of
being due, `RecordFailure` to its beginning, `Tick` to time, everything else to a
stutter. A write is of a due
subject by `CleanMeansNoWork`, and towards what was asked for by
`RemainingWorkIsThePlan`; that a subject conforms where its last mark goes is
`CleanSinceSuccess`. `InstantsBegun` (attempts begin after the first instant) is
the one fact that only the refinement needs.

### Late writes

With sessions that drop, `ReconcilersHold` is false, so `LateInv` uses of the
layers above only what speaks of held sessions (`LocksKept`, `HeldWork`), and adds
that an attempt with its session either has seen everything, and then its plan is
current, or its subject has a late write nobody has repaired (`PlansSeen`); and
that a subject without one is right if it is clean (`RightUnlessLate`). A write of
an attempt without its session, or of one that gave it up, marks the subject in
the same step. A success repairs the mark only of an attempt that has seen the
write, whose plan is then current and done (`SuccessCleans`). `PlanStep` and
`CleanStep` are stated once for both proofs: they assume that a step that changes
a subject's memberships is a write of the holder of its lock, which in `Reconcile`
every one is.

### The loop, the pool, start and end

* `SleepInv`: the subject of an attempt in hand has nothing unseen; a subject that
  waits for an attempt is marked, so that a listing finds it; one that has been
  slept through is in the list at hand or before the next; and what it has waited
  plus what is left of the timer fits into the poll interval.
* `PoolInv`: what each kind of user holds at each place (`Progress`), that a used
  connection has one user, that a connection at rest holds no key, and that
  PostgreSQL grants a key to one connection. Names that share a hash are why
  `Progress` speaks of keys held and not of names: a webhook may hold one key for
  both of its subjects.
* `StartInv`: the migration lock is held exactly by a process that reads or applies
  the version, what it read is still so (`MigratorAlone`), and a process that has
  failed has closed its pool (`PoolClosed`).
* `RestoredFirst`: the notification is off before the cancellation is visible.
* `ShutSoFar`: how far the shutdown has come, whatever has failed meanwhile. A
  server it is past (`Past`) accepts nothing, and is quiet or named by an error;
  the loop has stopped or is named by one. None of this is undone (`ShutStays`):
  errors are only joined, and no request arrives at a closed listener. With no
  error it gives `QuietReturnIsComplete`, and once the pool is closed
  `FailuresSkipNothing`.

### The terminal

`PrintedTextStays` and `NoStaleFrame` follow from `TerminalInv`, which is inductive
with its four parts together. `OneActivity`: a stage in progress is the one row of
the one group, so closing it leaves nothing behind. `Turns`: who holds the lock,
whether there is a clock, and that a clock between its painting and its recording
has not been told to stop. `Region`: the live lines are exactly those below the
printed ones, as many as the last frame had, or the new one while it is being
recorded; erasing that many lines therefore erases the region and nothing else.
`BlocksBehind`: printed blocks are of subjects before the one at work and before
any on the screen, which is why no frame names a subject that is done. `Erased`,
`Painted` and `Printed` say what each write to the screen does to this.

### The parts of `Sequential`

The theorems are of `Sequential`: a behaviour stays in the part that it began in
(`PartsBegin`, `PartsStep`), so each is proved from that part's own steps, for all
its inputs instead of the small ones that `MCSequential` gives it.
* Phases: a phase changes between two instants exactly when the first transition
  after the earlier is not after the later (`PhaseChanges`), and the boundary is
  the least of those (`BoundaryIsLeast`, from `MinIsLeast`).
* Backoff: the delay and its reference are recursive functions over the failures.
  Each satisfies its own recursion (`DelayRecurs`, `DoubledRecurs`), no step of
  the code's wraps since it doubles only what is at most half the cap
  (`NothingToWrap`), and the two agree by induction.
* Look-ups (`LookupInv`): the group IDs are one ascending sequence that names every
  configured ID once (`OrderIsComplete`); those before `start` have been asked for
  once and are memberships as they were answered, those after it have not. Batches
  follow each other without a gap (`BatchNames`).
* Layout: what is measured decides which parts of a row are kept, so a row fits
  (`PartsFitted`, `RowsFit`); the lines of the groups add up one by one
  (`LinesRecur`), and a group is left out before the budget is passed
  (`LinesWithinBudget`).
* Plans (`PlanInv`): an asserted alias stands for one group and no two of a rule's
  state for the same one, which is what validation is for (`ConfigsAreValid`); so
  an alias holds exactly when its group does, and what is left of a plan is what
  the memberships still differ in, since a write changes no other asserted alias.
* Previews: laying the event over the listed intents is what its upsert does to
  them, because an intent is stored under its own key (`DeliveryIsOverlay`).
* Reports: the results so far, the one in progress and what is still to do are the
  scope, and who stops before its end has failed (`ScopeInv`); a failure is never
  forgotten (`FailureInv`); the report is of the results and the error that the
  exit code is computed from (`ReportedInv`). `WritesAreAccountedFor` needs two
  more. `BlockInv`: each result, closed or in progress, says what was answered to
  the writes of its subject, what it has done is a beginning of its plan (so the
  next write is a planned one), nothing has been sent for a subject not yet begun,
  and every block shows one of the results. `TotalsInv`: there are as many blocks
  as results that have one, up to the one at hand. The totals are sums over the
  results, and equal the number of requests of each kind because no two results
  are of one subject (`WritesTotal`, `StatusesAddUp`).
* Loading (`LoadInv`): at every path the document is what the files merged so far
  have said last, which is a statement about one path that the merge of one more
  file keeps (`MergedAt`, `NextWord`); later it is that with its placeholders
  replaced (`Filled`), and the configuration what it decodes to. What resolving
  does to each setting (`ResolvedFields`), and that a decoded setting is what was
  said (`SettingsAreSaid`), then give `EffectiveValues`. `UsableConfig` needs that
  what is run with is what was validated, after the environment.

The provers cannot instantiate the library's induction principles, which take an
operator. `NumberLemmas` states induction with a set of numbers (`Induction`), and
recursion with a function: a recursive function is a `CHOOSE` in TLA+, so that one
exists has to be shown first (`FollowsExists`, `Recursion`), and its value at each
number is then proved by `Induction`. `PartialSums` and `AscendingExists` do so for
the sums of `Report` and the sorted IDs of `ResolveCheck`.

### Assumptions

Each is named in the module that declares the constants, and TLC evaluates it in
the runs.
* `ConfigAssumption`: the configuration passed validation. `RetryAssumption`:
  delays are positive (`validateReconcile`). `DeliveriesAssumption`: accepted
  deliveries name known keys and subjects. `ActorsAssumption`: reconcilers and
  handlers are different actors. `SubjectsAssumption`: a subject is not blank
  (`Validate`).
* `PolicyStable` is a real restriction: no rule's condition depends on a group that
  some rule writes. The code does not check it; a policy that violates it can
  deselect a user by carrying out its own plan, and then has no fixed memberships
  to converge to.
* `SchedulerAssumption`: the poll interval and the retry delays are positive, and
  one of the delays is the longest, since `retryDelay` caps them.
* `PoolAssumption`: each process has connections of its own, finitely many and at
  least as many as its maximum, which is positive (pgxpool's own rule); a user is
  a session, a webhook or a query; a delivery affects one or two subjects, and
  every name has a hash. Nothing is assumed of the hash.
* `StartupAssumption`: no process has the name that stands for nobody.
* `TerminalAssumption`: an `apply` has a subject (`ReconcileAll` of none draws one
  activity and ends).
* `SequentialAssumption`: texts, widths and times are natural numbers (aliases and
  subjects are carried out in the order of their names); there are finitely many
  aliases to look up, and a batch takes at least one ID (`Resolve`'s constant is
  20); the longest duration of the machine is a number; the scope names each
  subject once (`ListSubjects` is a `UNION`), and a plan each alias
  (`uniqueSorted`); the key of an event is one of the table's; the files to load are a
  sequence; and the text `0` reads as zero.
* `WritesAreAccountedFor` is stated for a scope that is not empty, since an `apply`
  of one subject takes the first of the scope.

### Only model-checked

* Liveness (`EventuallyCurrent`, `LoopStops`, `EveryoneEnds`, `StartEnds`,
  `Terminates`, `CommandEnds`): the prover has no fairness and no `ENABLED`.
* `MergesAgree`, that merging by paths is what the code's recursion over trees
  does: it is a statement about a `RECURSIVE` operator, evaluated on every pair of
  the sections that the inputs are made of.
* `Serialized` of `ReconcileLossy` is false (finding 1), and so is
  `EverySubjectLeavesALine` of `Terminal` (finding 2).

## Findings

1. `README.md:169` says that webhook updates and reconciliation are serialized
   per subject through PostgreSQL advisory locks. The lock belongs to a database
   session that an attempt leaves unused while it talks to Graph. If the session
   drops there, the lock is free, an update commits, and the attempt goes on
   writing memberships for the old intents (run `lossy_serialized`). Its outcome
   cannot be recorded on the dead session, so the subject stays due and is put
   right later, unless another process has reconciled it to the end in between:
   then a write outside of the lock leaves it wrong until the next boundary,
   delivery or full reconciliation (run `faults`).
2. `diagnostics.go:122-124` says that on a terminal a subject the report leaves
   out still leaves its outcome line in place of its live activity. `subjectDone`
   returns without writing anything for such a subject (run `terminal_lines`).

A remark without a run: `metrics.go:136` describes
`metabasis_reconciliation_failed_subjects` as the subjects whose most recent
reconciliation failed. Only recorded failures are counted; an attempt that cannot
lock the subject, read its state or store its outcome is not.

## Not modelled

* CEL, the YAML library's aliases, merge keys and null values, the generated
  JSON schema, the fields of `connections`: libraries, or checks of one text.
* Bearer authentication, body limits, JSON decoding, tokens and encoding of the
  Graph client: they keep no state, and a request they refuse changes nothing.
* Process-local counters and histograms of `internal/metrics`: nothing reads them.
* Colours, escaping, the listings of `intents`, `schema` and `version`: output
  that no decision depends on. That a plain announcement is repeated after half a
  minute, and a terminal that is resized between two frames.
* Two names of one Entra user as two subjects, older deliveries of an identity
  that arrive after newer ones, and policies whose conditions read the groups they
  write: the code leaves them to the sources and to whoever writes the policy.

## What is left

Everything listed under "The modules" is built, and all its safety properties are
proved. What could follow needs other means: a proof of the liveness properties, a
proof of `MergesAgree` for trees of any depth, and a model of policies whose
conditions read the groups they write, for which the code makes no promise.
