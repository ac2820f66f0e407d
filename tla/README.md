# ironqueue in TLA+

A verification project for ironqueue, a job queue that keeps its whole state in
PostgreSQL. The modules model the jobs and leases tables, the guarded SQL
statements that move them, and the processes that send those statements. TLC
checks small instances; TLAPS proves every safety property that a passing run
checks, two refinements among them, for every instance.

## 1. Inventory

| component | state | operations | modelled in |
|---|---|---|---|
| `ironqueue.jobs` and its statements (`database.rs`, migration) | one row per job: status, attempts, max_attempts, worker_id, error, result, timestamps | insert, claim, finish, requeue, abort, sweep marks, recovery batches | `JobTable` |
| Worker attempts (`worker.rs`: `process`, `run_attempt`, `finalize`, `abort_loop`) | in-flight map keyed by (id, attempt), abort reason of each entry | run, poll for aborts, finalize with fallbacks | `AttemptProtocol` |
| Leases and shutdown (`worker.rs`, `write_worker_info`, `stop_worker_intake`) | lease row: expiry, `accepting`; phase of the process | heartbeat, close intake, drain, retire | `AttemptProtocol` |
| Consumers and `Attempt` handles (`queue.rs`) | settled flag of a handle | dequeue, heartbeat, finish, retry, drop | `AttemptProtocol` |
| Resolvers (`database.rs` 3347-3730) | the claims they were given | settle lost dequeues and dropped handles | `AttemptProtocol` |
| Sweeper (`sweeper.rs`, two batches in `database.rs`) | the snapshot of a pass | purge rows, purge leases, scan, mark, give back, abort | `AttemptProtocol` |
| Operator API (`queue.rs`) | - | abort, purge, manual retry | `AttemptProtocol` |
| Sweeper leadership (`sweeper.rs`, `run_sweep_loop`) | advisory session lock, the connection it is on, failed passes, the backlog of a drain | acquire, probe, release, drop at any await, pass, drain | `SweeperLeadership` |
| A worker's run (`worker.rs`: `run_until_inner`, `WorkerShutdown`, `worker_info_loop`) | tokens, tasks, the lease row, statements under way | start up, take back, spawn, five phases of shutdown with their deadlines | `WorkerRun` |
| Intake (`worker.rs`: `WorkerIntake`, `fetch_loop`, `processor_loop`, `next_job`) | buffer, demand, two generations, two `Notify` cells, burst budget | register demand, claim, fetch, refill, prove a drain, give up | `WorkerIntake` |
| Cron scheduling (`database.rs`: `reconcile_cron`, `schedule_cron`; `worker.rs`: `schedule_loop`; `job.rs`: `JobCronEntry`) | schedule rows with revision and cursor, occurrence claims, what a scheduler holds against each entry | reconcile, read due rows, lock, decide, publish, catch up, report | `CronSchedule` |
| Enqueue and dedupe (`database.rs`: `enqueue_batch_validated_in` and its single form) | advisory locks on key hashes, live rows of a key | lock in order, read holders, insert, re-read, refuse, commit | `EnqueueDedupe`, `AtomicEnqueue` |
| Notifications and waiters (`job.rs`: `JobHandle::wait`; the listener in `queue.rs`) | the row's awaited mark, subscriptions, inbox, what a waiter was told | mark, subscribe, poll, wake, refetch, give up | `CompletionWait` |
| Notify throttle (`database.rs`: `authorize_wakeup`, `take_throttle_slot`) | one atomic cell | read the clock, load, compare-and-exchange | `NotifyThrottle` |
| Worker health (`worker.rs`: `WorkerHealth`, `WorkerHealthReporter`) | failure map, two flags, a watch channel | fail, recover, publish, observe, forward the listener | `WorkerHealth` |
| Retry delay (`job.rs`: `retry_delay_for`) | - | doubling loop with ceiling and cap | `RetryBackoff` |
| Dashboard rounds (`dashboard.rs`: `RoundCache`, `queue_signals_round`) | a permit, a watch channel, the queries of a round | get, begin, ride on, publish, abandon | `RoundCache` |
| Dashboard server (`dashboard.rs`: `DashboardServer`, `serve_dashboard`, `enforce_request_limits`) | connection and request permits, tasks, tokens | accept, serve, refuse, time out, drain, abort | `DashboardServer` |
| Dashboard sign-in (`dashboard.rs`: `AuthThrottle`, `DashboardAuthState`) | token buckets; password with revision, sessions | spend, refund, evict; log in, change, log out | `AuthThrottle`, `DashboardSessions` |
| Dashboard pages, macros, migrations, job types | - | - | not modelled (section 6) |

Jobs and their owners interact through the jobs and leases tables. A worker and
the sweeper never talk to each other: the sweeper judges an owner by its lease
row, and the owner learns from the abort poll, or from a refused write, what
became of its row. What makes this hard:

* a statement acts on what an earlier statement, or a snapshot, said;
* a process may stall past its lease, lose its row and then carry on;
* the acknowledgement of any statement, `COMMIT` included, may be lost;
* a refund raises the budget, but not past a ceiling, and a refused refund must
  still end the row;
* the sweeper leaves the rows of a live lease alone, so a live worker that
  forgets a row leaves it stuck until the process exits;
* inside a process, tasks meet in cells that remember little: a `Notify` with
  one permit or none, a watch channel with its latest value, an atomic with
  relaxed loads;
* a future can be dropped at every await, with a lock, a permit or a statement
  still in its hands.

What has to hold: an attempt number is given out once; nobody's late write
decides a later attempt; a row under a live owner is known to it; operators'
aborts win over retries; two handlers of one key do not overlap while owners
keep their leases and handlers yield to an abort; what nobody runs is taken
back; nobody sleeps through a row; a burst ends, and only when the queue is
drained; an occurrence is published once while it is in time, and none
disappears; an enqueue's answer names a row; a waiter returns with the truth;
permits and locks come back however their holder ends. `PROJECT.json` lists each
hazard at its line with the properties that cover it.

## 2. Modules

* **`JobTable`** - rows, leases, and every guarded statement as a pair of
  operators: the guard (`FinishAllowed`, `RequeueAllowed`, ...: the `WHERE`
  clause) and the resulting row (`Finished`, `Requeued`, ...: the `SET` list).
  Timestamps are ages relative to `now()`, saturated at `AgeCap`, because every
  predicate compares a stored timestamp with PostgreSQL's clock. The age of
  `started_at` matters only for jobs with a timeout. `error` is one of three
  classes, since guards compare it with the sweeper's marker only. `NoRow`
  stands for ids with no row, before the insert and after the delete.
* **`AttemptProtocol`** - the processes. One action is one statement, one
  transaction, or one local step between two statements. `inflight` holds what
  processes know: buffered rows, running handlers, attempts in each stage of
  `try_finalize`, and the handles of consumers. `tx` is a claim transaction
  whose client no longer knows its fate: its rows are locked and the worker's
  claim lock is held until `CommitLands` or `CommitNeverLands`. `unacked` and
  `dropped` are the resolvers. `sweep` holds the snapshot of a pass between its
  statements. `late` is a heartbeat that had read `intake_open` before the stop.
  `runaway` holds the claims whose handler blocks its thread: it was aborted,
  did not yield within `ATTEMPT_ABORT_JOIN_GRACE`, and its attempt goes on
  without it. `Blocking` are the jobs with such a handler. `stalled`, `unlanded`
  and `succeeded` are history variables that only properties read.
* **`JobLifecycle`** - the abstract specification: what the queue promises about
  one job, whoever claims it. `AttemptProtocol!ImplementsLifecycle` is the
  refinement (`LifeOf` is the mapping).
* **`AttemptProofs`**, **`ProtocolProofs`** - the theorems about
  `AttemptProtocol`, rows first, then who owns what. **`RunProofs`**,
  **`IntakeProofs`**, **`HealthProofs`**, **`CronProofs`** - one for each
  component of `MCWorker`. **`QueueProofs`** - the throttle, leadership,
  enqueues, waiters and retry delays. **`DashboardProofs`** - the server,
  sessions, rounds and the credential throttle.
* **`SweeperLeadership`** - who sweeps. A session that may hold the lock is
  named by its process and by who has the connection: `self.conn`, the
  acquisition guard, a task that closes it, or the pool. An operation takes one
  batch off its backlog; the statements themselves are `AttemptProtocol`'s,
  where passes of two sweepers may overlap.
* **`WorkerRun`** - one run from `run_until` to its return. A lease statement
  that nobody waits for any more (its future dropped, its deadline over, its
  task aborted) becomes `stray` and may be executed later than everything sent
  after it. A task may end, or never; the deadlines of the shutdown
  (`GraceExpires`, `AbortProcessors`, `AbortTimers`, `RetireTimesOut`) are
  actions that may be taken while what they bound has not ended, as often as it
  takes. An aborted task stops at once; what tasks do with jobs is not here.
* **`WorkerIntake`** - processors and the fetcher. `permit` is the stored
  permit of `demand.notify_one`; `notified` marks the futures that were enabled
  when `refilled.notify_waiters` ran. `answer` is the snapshot of a dequeue on
  which the fetcher acts after further awaits. `dequeue_timeout` budgets may be
  over at any moment after they began to run.
* **`WorkerHealth`** - reports take the mutex, change the map, read the two
  flags and publish, load by load; `stopped` and `running` are stored outside
  the mutex.
* **`CronSchedule`** - workers whose definitions of a cron differ in revision,
  expression or misfire policy (`deployment`, chosen once), transactions cut
  where another session gets in between, the clock and the sweeper's purge
  included. `late` marks a job whose occurrence went out of time between the
  clock reading and the claim. An expression is the set of times at which it
  fires; parsing and calendars are left out.
* **`EnqueueDedupe`** - producers with batches, advisory locks on hashes that
  may collide, and an outsider that writes rows without a lock. A single
  enqueue is a batch of one. Statements read what is committed (READ
  COMMITTED), and uncommitted rows are seen only by the unique index.
* **`AtomicEnqueue`** - the abstract specification of an enqueue: no locks, no
  transactions, a batch takes effect in one step. `table` is what everybody
  sees, and `met` is what the jobs of a call have met under their keys: a handle
  may name a row that was live at some moment of the call, not only at its end.
  `EnqueueDedupe!ImplementsAtomicEnqueue` is the refinement: `PublicTable` has
  the committed rows, `MetRows` the foreign rows that the answers name so far,
  and an answer is public once the call has returned it. Reads of the holders
  map to `Meet`, the commit to `Take`, locks and inserts to nothing.
* **`CompletionWait`** - waiters of one job, the listener's connection and what
  is in transit to it; `assured` and `told` are history. A foreign session may
  announce a completion that is not one.
* **`NotifyThrottle`** - `take_throttle_slot` instruction by instruction. A
  relaxed load, or a failed exchange, returns any value of the cell's
  modification order that is not older than what the caller has seen.
* **`RetryBackoff`** - the doubling loop against the documented formula, in
  milliseconds. Rows include those that only hand-written SQL produces. `Power`
  is the power of two of the formula, as a recursive function.
* **`RoundCache`** - requests around a detached round; ages stop counting at
  their limits, so behaviours need no bound. `failFast` tells the two users of
  the cache apart.
* **`DashboardServer`** - the accept loop, connection tasks, permits and the
  bounded shutdown. A deadline that runs is an action that may be taken. Health
  probes pass the request limiter by (`Probe`).
* **`AuthThrottle`**, **`DashboardSessions`** - each critical section is one
  step; between the sections of one request everything else may happen.
* **`MCAttempt`**, **`MCWorker`**, **`MCQueue`**, **`MCDashboard`** - the
  instances.

`MCWorker`, `MCQueue` and `MCDashboard` hold several components each. These
components share no variable, so their product would only repeat each one's
states once for every state of the others. The variable `part` picks one of them
at the start; it moves, and the others stay in one initial state. A fairness
condition of a part is guarded by `part`, and is vacuous in the others. Rows of
the intake differ in nothing, so `RowsInOrder` fixes which is ready first.

Where components meet, one of them carries the other's effect as its
environment: `AttemptProtocol` has leases and claims of workers that
`WorkerRun` and `WorkerIntake` look at from the inside, `WorkerIntake` has the
lease, the database and other claimants as `Surroundings`, and `CronSchedule`
has the sweeper's purge of claims, the life of the published job and foreign
locks.

Each of these modules states what it must keep as named parts, and conjunctions
of them for the runs: `RunSafety`, `IntakeSafety`, `HealthSafety` and so on take
the type invariant with the invariants and action properties of a module,
`IntakeProgress`, `HealthProgress`, `RoundProgress`, `ServerProgress` and
`Settles` its liveness. Parts that stand for a protocol of their own, such as
`LeaseOutlivesWork`, `NothingStranded`, `DrainIsProved` or `PublishedOnce`, are
checked by themselves, so that a counterexample names them.

Operators whose comment starts with "Mutant:" are broken variants of the
definition that follows them; `PROJECT.json` names the property each of them
breaks.

### Correspondence worth knowing

* `Dequeue`/`DequeueLost` cover `dequeue_inner` with the claim statement; the
  guard that an earlier claim transaction of the same worker has ended is the
  transaction-scoped claim lock. The choice of rows is any set of claimable
  rows: priority, order and limit are abstracted.
* `Statement` is one round of `finalize`: applied and acknowledged, applied with
  the acknowledgement lost (then `finalize` retries from the first statement),
  or refused. `DrainOnShutdown` does the same for buffered rows.
* `FinalizeErrored`/`FinalizeCancelled`/`FinalizeUnhandled`/`FinalizeSuccess`
  are the arms of `try_finalize`; `RereadRefusal` and `FinishAbortedFallback`
  are its helpers, which are statements of their own and can be interleaved.
* `PollAbort` is the statement of a poll for one attempt, and keeps the answer
  in `polled`; `RequestAbort` applies it later, whatever the row is by then. The
  reason recorded first wins, as in `request_abort`.
* `HandlerCancelled` and a timeout in `HandlerEnds` wait for the handler in
  `JoinAfterAbort`, which leaves one that blocks behind. `RunawayReturns` ends
  it; its result reaches nobody.
* `SweepScan`, `SweepMark`, `SweepRetry`, `SweepAbort` are the four statements
  of `recover_stuck_jobs`; `SweepFails` ends a pass anywhere. Passes of several
  sweepers may overlap, as they can when leadership moves.
* `Crash` kills a process with its resolvers, but not its open transaction. A
  worker id is not reused: a restarted process is another member of `Runtime`.
* A resolver that finds its pool closed or its runtime gone is one whose process
  has exited.
* `Polled` and `Waiting` in `MCWorker` are fairness, not code; `Trouble`,
  `Failure` and the `Max...` constants bound how often something goes wrong.
* `CronSchedule!LockSchedule` waits for a locked row in a burst and skips it
  otherwise (`WaitsForRow`). `ReadTime` takes the enqueue lock, reads the clock
  and fixes the occurrence in `plan`; `ClaimOccurrence` tests and inserts the
  claim some time later. Nothing of it is visible before `CommitOccurrence`.
* `EnqueueDedupe!NextLock` takes the distinct lock ids in ascending order,
  which is what the `ORDER BY` of the locking statement does.
* `WorkerRun` has `DashboardFails` for the run's own dashboard; the shutdown of
  the server behind it is `DashboardServer`'s.

## 3. Runs

All bounds are named: `Ceiling` stands for 2147483646, `MaxUnacked` bounds
resolvers alive at once, `Stoppable` the runtimes that are asked to stop, and
`Grace`, `LeaseTtl`, `Timeout`, `RetryDelay`, `BounceDelay` are a few ticks.
One or two ticks are enough for every order of two deadlines, since each
predicate has one threshold. Deadlock is not checked: a job that is settled,
workers that are gone and a server that has returned are legitimate ends; what
must not get stuck is stated as liveness.

| run | instance | shows |
|---|---|---|
| `failover` | one job, two attempts, two workers, one of which never stalls | numbers unique, a healthy owner is left alone, no late write completes a job, types |
| `shutdown` | one job at the attempt ceiling, a worker that stops | schema checks, closed intake stays closed, refinement of `JobLifecycle` |
| `consumer` | one consumer, two attempts, retry delay, failed rows that expire | no forgotten row |
| `keys` | two timed jobs with one key, one of which may block its thread, an owner that keeps its lease | of the handlers of one key at most one keeps the others out |
| `liveness` | crashes, stalls, aborts | `Settles`: orphans are recovered, aborts settle |
| `liveness_shutdown` | shutdown, a blocking handler and commits in doubt, at the ceiling | the same, and no forgotten row |
| `never_landed` | one worker, commits in doubt | a violation, below |
| `drain_lease` | a stall, a purge and a stop | a violation, below |
| `worker` | a burst run of two slots, one timer and two faults; two processors, two rows, a budget of one, one change around them; two components and two observers; two schedulers under four deployments, three ticks, one mishap, one outside event | safety of `WorkerRun`, `WorkerIntake`, `WorkerHealth`, `CronSchedule` |
| `worker_progress` | the same with one slot, two timers, one row, one observer, one rollout and one tick | their liveness |
| `queue` | two producers, three keys on two locks, one outsider; two waiters, one of them in a hurry; two callers and a window of two; delays around a ceiling of 11; two sweepers, one of them healthy | `EnqueueDedupe`, `CompletionWait`, `NotifyThrottle`, `RetryBackoff`, `SweeperLeadership`, safety and liveness; refinement of `AtomicEnqueue` |
| `dashboard` | two requests, two queues, two swallowed connections; three clients on two connection permits and one request permit; three keys on two buckets; two overlapping handlers, two password changes | the four dashboard modules, safety and liveness |

`failover` constrains the second worker to stay healthy, and `keys` its only
owner: a stalled owner may run beside its successor by design, and the
properties exclude it anyway, so the constraints only cut states. In `keys` one
of the two jobs blocks; the jobs are alike in everything else, so what is left
out is that both do. `worker_progress` has a burst run, which can be asked to
stop as well as end by itself. Two slots and two timers have a run each: the
only timer of `worker` is the heartbeat, and the shutdown tells the other loops
from it in nothing but the statement they have under way.

Why these bounds: every race above is between two actors of a kind and at most
one fault that makes one of them late, so two of each and one or two faults
reach it. `RoundLimit` is more than `WaitLimit` and both more than one tick, so
a waiter can give up before its round, with it or arrive late. There are more
keys than buckets, more connections than permits and more rows than budget, so
that eviction, queueing and refusal happen. `MaxClock` lets an occurrence fall
due, be missed and be caught up with the next one due. The ceiling 11 is not a
power of two and there are twice as many attempts as doublings. Each property
of a passing run has a mutant of the code (`PROJECT.json`) that breaks it within
these bounds; the mutant of a conjunction breaks one of its parts.

**Fairness** (`FairSpec`): the clock ticks; the loops of a running worker, its
resolvers and its shutdown go on, all of which are loops or bounded waits in the
code; a claim transaction ends; sweep passes are started again and again and not
every one fails at the same statement (strong fairness of its statements, since
a failure sends the pass back to its scan). Nothing is assumed of handlers,
heartbeats, enqueues or operators. `GiveUp`, `Crash` and `SweepFails` are never
required.

For the others, in the MC modules: tasks and futures that are ready are polled,
critical sections end, statements are answered or run into their deadline, and
timers fire. Beyond that,

* `MCWorker`: of a run, only that its own task is polled and that its deadlines
  pass (`Main`, `Deadline`). Its processors, its timers and its fetcher may
  never end, and the caretaker of the fetcher may never move; that the run
  returns rests on the deadlines alone. For the other parts, strong fairness of
  `Waiting`, a single condition: a deadline or a budget that runs again and
  again elapses although its task is woken in between, and the mutex of the
  health map (and the select loop around it) is not unfair for ever. Handlers of
  the intake return; a scheduler that died is replaced; the surroundings may
  stay in any state for ever, so `BurstEnds` and
  `ReadyRowTaken` say for which of them they hold.
* `MCQueue`: nothing of the listener. A sweeper that is not asked in vain for
  ever (`MeetsFreeLock`: ticks of all processes fall into every sweep
  interval), and a caller of `Sweeper::sweep` that does not cancel every one of
  its passes (`NotAlwaysCancelled`): who does keeps the lock, and nobody
  sweeps.
* `MCDashboard`: queries that are not black-holed are answered and the clock
  moves. Nothing of handlers and clients.

### Findings

* `never_landed`: the comment on `requeue_unacknowledged_claims`
  (`database.rs:3389`) says that a claim whose commit never landed matches no
  row. The row goes back to `attempts = n - 1`, so the same worker's next
  dequeue produces the same (id, attempts, worker). If it comes before the
  resolver's pass, the resolver requeues and refunds an attempt that is running,
  and the job can run twice at once under a live lease. `LiveOwnerKeepsAttempt`
  and `ExclusiveHandlers` leave such claims (`unlanded`) out.
* `drain_lease`: the comment in `close_intake` (`worker.rs:1409`) says that
  clearing `intake_open` first makes a heartbeat recreate a purged lease closed.
  `write_worker_info` reads the flag and then awaits, so the heartbeat under way
  at that moment recreates it open. `IntakeStaysClosed` excepts exactly that
  heartbeat.

Observations made while modelling, which no run states:

* a cancelled attempt that the sweeper marked and that has no attempts left is
  finished with the error `swept` even if an operator's abort replaced the mark
  meanwhile, so the operator's reason is overwritten;
* the comment at `worker.rs:1144` says that an entry cut off by a burst's
  start-up budget is reported "not reconciled" and retried. That is so without
  a stored row; a stored row of a lower revision gives `Conflicting`
  (`database.rs:1753`), which disables the cron without a retry, and the burst
  returns `Ok`;
* a handler that blocks its thread is finalized without it after a grace
  (`worker.rs:2544`). Its key is free and its retry may start while it runs on,
  so occurrences of a cron can overlap, where `lib.rs:130` and `worker.rs:634`
  say without exception that they never do. The exception is documented with
  the timeout (`job.rs:266`) and abort (`lib.rs:220`), so this is a matter of
  wording. `ExclusiveHandlers` counts such a handler, but it no longer keeps
  others out;
* a scheduler that reads the clock just before the deadline of an occurrence
  (`database.rs:1831`) may insert its claim (`database.rs:1852`) after the
  deadline, and after the sweeper, which waits for no lock, has purged the claim
  of the first publication. With the row removed and written again from an old
  reading in between, the occurrence is published twice. The comment at
  `database.rs:1827` promises that none is published after its grace or
  successor. `PublishedOnce` has this second job, marked `late`, as its only
  exception;
* `Error::ResultExpired` is documented for a job that completed (`lib.rs:82`);
  `vanished` (`job.rs:2771`) also returns it for a queued job that was purged;
* a heartbeat abandoned in flight (`worker.rs:3514`) may be executed after the
  final expiry and renew the lease of a worker that is gone; `LeaseIsTakenBack`
  asks for an acknowledged expiry, not for an expired row;
* a schedule that a burst looked at early in its last pass can be removed and
  written again, due, by a peer that had read the clock before the boundary; the
  burst ends well without it. `BurstPublishesWhatIsDue` therefore speaks of the
  schedule looked at last, or of all of them when the last pass had none to look
  at. The instance of one key could not show this; the proof did;
* the statement that locks a schedule (`database.rs:1774`) compares revision and
  definition only, and the definition does not hold the expression or the
  policy. If two releases differ in those alone, which the documentation
  forbids (`worker.rs:656`, `job.rs:1163`), and the row is replaced between the
  read and the lock, the change goes unnoticed. `CronAssumption` leaves such
  deployments out;
* a request that joins a wedged round late is still waiting when the round is
  abandoned, where `dashboard.rs:225` says that its waiters gave up long ago.

## 4. Proofs

TLAPS checks the theorems below for every value of the constants that satisfies
the named assumptions (`ASSUME ...Assumption`): any sets of jobs, workers,
producers or connections, any budgets, delays, limits and clocks. A constant
that only bounds a run, such as `MaxFaults` or `MaxClock`, is any number.

### Jobs and attempts

| module | theorem | property |
|---|---|---|
| `AttemptProofs` | `TypeCorrect` | `TypeOK` |
| | `SchemaSafe` | `SchemaChecks` |
| | `NumbersUnique` | `UniqueClaim` |
| `ProtocolProofs` | `OwnersKeepAttempts` | `LiveOwnerKeepsAttempt` |
| | `HandlersAreExclusive` | `ExclusiveHandlers` |
| | `CompletionIsEarned` | `CompleteMeansSucceeded` |
| | `NoRowForgotten` | `NoForgottenRow` |
| | `LifecycleIsImplemented` | `ImplementsLifecycle` (the refinement) |
| | `ClosedIntakeStays` | `IntakeStaysClosed` |

`AttemptProofs`: none of its three is inductive alone. A claim increments
`attempts`, which stays in range only because a queued row is below its budget
(`SchemaChecks`). When a commit lands late, its rows must still be queued, which
needs `LocksHeld`: the rows of an undecided transaction are queued and belong to
no other transaction. A new attempt number is unused only because the counter of
a row is ahead of every attempt anybody still holds (`NumbersClaimed`). `IInv`
is the conjunction. The argument goes row by row: one lemma per statement shows
that it takes a sound row (typed, accepted by the schema) to a sound row and
*advances* it, that is, a deleted row stays deleted and a counter never
decreases. `RowStep` lifts that to an action, and `Preserved` to the invariant.

`ProtocolProofs` builds on it. `PInv` says what nobody may take from whom:

* `RowKept`: the row of an attempt whose owner has not stalled stays with it
  (`StaysWith`). Only a timed job without a key may be settled behind its back.
  `Leased` gives it a lease with time left, without which the sweeper could take
  the row, and `OneEach` and `KeysUnique` make exclusion of it. A handler left
  behind keeps others out only while its claim still holds the row.
* `Separate` and `Undoable`: a resolver holds no claim of an attempt unless the
  claim never landed, and what it holds was used, never will be, or still waits
  under the locks of its transaction. Without that a resolver could requeue an
  attempt that runs.
* `Remembered`: what an attempt knows of its row (superseded, swept, may be
  retried) is still so when it acts on it; the refusals and the fallbacks of
  `finalize` rest on that. `Unmarked` says that a queued row bears no mark.
* `Succeeded` ties a complete row to a handler that succeeded, through every
  retry of a lost statement.
* `Covered` and `AllKnown`: a claim in the table of a worker that is up belongs
  to an attempt or to a resolver.

Every statement is one of a few moves of single rows (`RowMove`: born, taken,
given back, over, asked, marked, deleted). Each part of `PInv` is kept by such
moves under a side condition, so an action owes only its conditions. The same
moves map to the steps of `JobLifecycle`, which is how the refinement is proved,
row after row, for statements that move many rows at once too.

### The components

| module | theorem | property |
|---|---|---|
| `RunProofs` | `LeaseIsLast` | `LeaseOutlivesWork` |
| | `RunReturnsClean` | `RunSafety` |
| `IntakeProofs` | `IntakeKeepsPromises` | `IntakeSafety` |
| | `NoRowStranded` | `NothingStranded` |
| | `DrainsAreProved` | `DrainIsProved` |
| `HealthProofs` | `HealthReported` | `HealthSafety` |
| `CronProofs` | `OccurrencesArePublishedOnce` | `PublishedOnce` |
| | `SchedulerReportsHonestly` | `HealthIsHonest` |
| | `SchedulersAreSafe` | `CronSafety` |
| `QueueProofs` | `ThrottleWorks` | `ThrottleSafety` |
| | `OneLeaderSweeps` | `LeadershipSafety` |
| | `AnswersAreTrue` | `EnqueueSafety` |
| | `EnqueueIsAtomic` | `ImplementsAtomicEnqueue` (the refinement) |
| | `WaitsAreAnswered` | `WaitSafety` |
| | `RetriesWaitAsDocumented` | `BackoffSafety` |
| `DashboardProofs` | `ServerKeepsPermits` | `ServerSafety` |
| | `SessionsFollowPassword` | `SessionSafety` |
| | `RoundsAreShared` | `RoundSafety` |
| | `GuessesAreBounded` | `AuthSafety` |

What each inductive invariant adds to the property, and why:

* **`RunInv`**: which tasks can be left in each phase, who waits for which
  statement, and that a panic not yet in `error` is of a task still to be
  joined. A row that was closed is closed until it is deleted, whatever stray
  statement lands (`Row`).
* **`IntakeInv`**: what the counters count. `idle` is the number of processors
  that ask, the budget and what was taken from it add up, and there is no more
  demand than somebody stands for. `Proofs` is the core of the burst drain:
  after a fetch that came back short and was begun for a processor, nothing
  that this processor saw ready can still be ready. `Wakeups` says that a row in
  the buffer has woken everybody, or is about to.
* **`HealthInv`**: who is about to send holds the mutex and has read the map as
  it is; whoever changed the flags since is still to publish.
* **`CronInv`**: `Remembered`, a published occurrence keeps its claim until the
  occurrence after it has passed, so that no cursor computed from an old clock
  reading can publish it again while it is in time; `Locked` and `Planned`, what
  a transaction has selected and decided stays so until its commit, except that
  time goes on and claims are purged (`Standing`); `Lists` and `Reported`, what
  is still to be reconciled is known to the next report; `Timed`, no reading is
  ahead of the clock. Rows are entries of some worker, and their cursors are
  occurrences (`Stored`). The decision is a lemma by cases over both misfire
  policies and both kinds of grace (`DecisionIs`), on lemmas about the order of
  occurrences (`NextIs`, `InTimeIs`, `LateBefore`).
* **`ThrottleInv`**: a caller on its way to the exchange has compared its
  reading with the stamp it holds, and stamps are never rewritten.
* **`LeaderInv`**: a process that waits for the answer to its lock statement has
  no leadership connection.
* **`EnqueueInv`**: a row that is not committed has its key locked by its
  producer, so only an outsider can come in between; each answer is followed
  from the first read of the holders to the commit (`AnswersFollowed`).
* **`AtomicInv`**: what the commit needs to be one step of `AtomicEnqueue`. The
  rows of a transaction are those of the jobs that are answered with a row of
  their own and were not dropped (`Landed`), one for each key; every other job
  has met a foreign row or shares its key with one of those (`OtherAnswer`).
  That a re-read never finds a row of its own batch follows, and `OutsideRows`
  is what a lost race can point at.
* **`WaitInv`**: what a waiter was told last is where it finds it again, and its
  mark is on the row for as long as it relies on the listener.
* **`BackoffInv`**: after n turns the delay is the base times the nth power, or
  has reached the bound and stays there (`LoopComputes`). What the recursive
  function `Power` computes is proved from its definition (`PowerIs`): its
  finite beginnings exist and agree, by a least counterexample, since the
  library's induction theorems are out of reach.
* **`ServerInv`**: a connection that is not open has nothing left, so permits
  are conserved; how the run and its server task go together.
* **`SessionInv`**: sessions in the map are of the current password and none of
  them is retired.
* **`RoundInv`**: the permit is away exactly when no round runs, a queue has one
  query or none, and between publication and release the value is fresh and
  whoever came before has been told.
* **`AuthInv`**: a conservation law. Each bucket is worth its tokens and the
  refills that are due to it by now; a spend, a refund, a displacement and a
  lapse each change the worth of one bucket by what `GuessesAreMetered` books
  for it. A sum over the map is a count here: the tokens are numbered
  (`SpendableTokens`), and the lemmas are about cardinalities.

`LocksHeld` and `NumbersClaimed` were checked with TLC on the instance of
`never_landed` before they were proved, and `CronInv` on deployments of one and
of two keys. `AtomicInv` was checked on the instance of `queue`.

### What the proofs found

* The history variable `unlanded` lost a claim too early when two resolvers held
  it at once; with `MaxUnacked` above one, `RowKept` was not inductive.
  `ResolveUnacknowledged` now keeps it while anybody holds it.
* `BurstPublishesWhatIsDue` was false for two keys (section 3, observations).
* `CronAssumption` needs two facts that the instances had satisfied: what one
  key stands for does not change under the same revision and definition, and an
  expression that fires fires again after the last moment looked at. The second
  holds of five-field expressions, which name no year.
* `AuthTypeOK` left out that the map of buckets stays within its bound, which
  the budget of guesses rests on; it says so now.
* The throttle's contract had mixed a safety property with one that needs the
  callers to move; it is now `ThrottleSafety`, with `SlotIsDecided` among the
  liveness properties.

### Only model-checked

* Liveness, since the prover has no fairness and no `ENABLED`: `Settles`,
  `RunReturns`, `IntakeProgress`, `HealthProgress`, `DueIsHandled`,
  `EnqueuesFinish`, `WaitReturns`, `BacklogIsSwept`, `RoundProgress`,
  `ServerProgress`.

## 5. Plan

The models cover what section 1 lists, and every safety property that a passing
run checks has its theorem. What a next step could add:

1. An abstract specification of occurrences, as `JobLifecycle` is for jobs and
   `AtomicEnqueue` for enqueues, with `CronSchedule` shown to implement it from
   `CronInv`.
2. Composition: what `AttemptProtocol` assumes of a worker's lease and intake,
   stated as an abstract worker that `WorkerRun` implements.
3. One table for `EnqueueDedupe` and `AttemptProtocol`: both keep rows under
   dedupe keys, and `JobEnds` stands for all of the latter.

## 6. Not modelled

* The dashboard's pages, JSON and static files are formatting over read-only
  queries; its write routes call the operator API. CSRF checks and proxy headers
  are parsing without state. The browser script is outside the crate's protocol.
* The macros generate code at compile time and have no state.
* Migrations and connection set-up are sqlx's migrator under its own lock, and
  pool options.
* Job types, builders and validation have no state; their result, validated
  configurations, is what the assumptions on constants say.
* Starvation of the sweeper's batches by rows that phase two keeps refusing
  needs more rows than a batch, past the reach of the row-by-row model.
* An abort takes effect at the next await of its task; except for the handlers
  in `Blocking`, that is taken to be at once. So the fetcher that
  `retire_fetcher` aborts and does not join (`worker.rs:1502`), and the
  connections that `finish_shutdown` drops and does not join
  (`dashboard.rs:990`), end with the step that aborts them. A thread left to
  finalize a blocked handler's attempt is assumed as well.
* A transaction of the caller that enqueues (`enqueue_batch_in`) does not end
  with a refused batch; producers have transactions of their own here.
* A notification loop whose listener is gone reports its component as failed and
  waits for the stop. In `WorkerHealth` that is a listener which turned ill and
  stays so.
