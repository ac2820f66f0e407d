------------------------------ MODULE JobTable ------------------------------
(***************************************************************************)
(* The rows of ironqueue.jobs and ironqueue.workers, and the guarded SQL   *)
(* statements that move them, as operators: a statement is a guard on the  *)
(* row it would write (its WHERE clause) and the row it leaves behind (its *)
(* SET list).  No statement of the program reads the clock of a process;   *)
(* each compares a stored timestamp with PostgreSQL's now().  A timestamp  *)
(* is therefore modelled as its age (now() - timestamp), saturated where   *)
(* no predicate can tell two ages apart, and a lease expiry as the time    *)
(* that is left of it.                                                     *)
(***************************************************************************)
EXTENDS Integers, FiniteSets

CONSTANTS
    Job,            \* job ids; each names at most one row, ever
    Runtime,        \* ids of Worker runtimes
    Consumer,       \* ids of custom Consumers
    NoWorker,       \* worker_id IS NULL
    NoKey,          \* dedupe_key IS NULL
    KeyOf,          \* the dedupe key a job is enqueued with
    MaxAttempts,    \* the max_attempts a job is enqueued with
    TimedJob,       \* jobs whose timeout_ms is not NULL
    CronJob,        \* jobs of kind 'cron'
    ResultTtl,      \* retention of a complete row: "delete", "expire", "forever"
    FailedTtl,      \* retention of a failed or aborted row
    Timeout,        \* the timeout of a timed job
    Grace,          \* sweep_grace
    LeaseTtl,       \* TTL a heartbeat grants
    RetryDelay,     \* next_retry_delay of every job
    BounceDelay,    \* UNHANDLED_REQUEUE_DELAY
    Ceiling         \* stands for 2147483646, the bound on max_attempts

Worker == Runtime \cup Consumer

Retention == {"delete", "expire", "forever"}

ASSUME PartiesAssumption ==
    /\ Runtime \cap Consumer = {}
    /\ NoWorker \notin Worker

ASSUME JobsAssumption ==
    /\ TimedJob \subseteq Job
    /\ CronJob \subseteq Job
    /\ ResultTtl \in [Job -> Retention]
    /\ FailedTtl \in [Job -> Retention]

ASSUME CeilingAssumption ==
    /\ Ceiling \in Nat \ {0}
    /\ MaxAttempts \in [Job -> 1..Ceiling]

ASSUME TimesAssumption ==
    /\ Timeout \in Nat
    /\ Grace \in Nat \ {0}
    /\ LeaseTtl \in Nat \ {0}
    /\ RetryDelay \in Nat
    /\ BounceDelay \in Nat

\* No predicate distinguishes ages past the larger stuckness threshold.
AgeCap == Timeout + Grace + 1

\* The longest delay a requeue writes.
WaitCap == RetryDelay + BounceDelay

-----------------------------------------------------------------------------
(***************************************************************************)
(* Rows                                                                    *)
(***************************************************************************)

Live == {"queued", "running", "aborting"}
Terminal == {"complete", "failed", "aborted"}

\* "unborn" and "gone" are ids with no row: not inserted yet, and deleted.
Status == Live \cup Terminal \cup {"unborn", "gone"}

\* What the `error` column holds: the sweeper's half of its marker, the reason
\* an operator gave to abort_job, or anything else, NULL included.
ErrorText == {"swept", "user", "other"}

\* What the `result` column holds: nothing, the sweeper's other half, a value.
ResultValue == {"none", "marker", "value"}

RowType ==
    [ status   : Status,
      attempts : 0..Ceiling,
      max      : 0..Ceiling,
      owner    : Worker \cup {NoWorker},
      error    : ErrorText,
      result   : ResultValue,
      started  : 0..AgeCap,      \* age of started_at, while it runs
      touched  : 0..AgeCap,      \* age of touched_at, while it runs
      wait     : 0..WaitCap,     \* time until scheduled_at
      retried  : BOOLEAN ]       \* retried_at IS NOT NULL

NoRow(status) ==
    [ status |-> status, attempts |-> 0, max |-> 0, owner |-> NoWorker,
      error |-> "other", result |-> "none", started |-> 0, touched |-> 0,
      wait |-> 0, retried |-> FALSE ]

\* A row as insert_job writes it.
NewRow(attempts, max, delay) ==
    [ NoRow("queued") EXCEPT !.attempts = attempts, !.max = max, !.wait = delay ]

\* is_swept_marked: the pair only the sweeper writes.
Swept(r) == r.error = "swept" /\ r.result = "marker"

\* JobRow::is_retryable
Retryable(r) == r.attempts < r.max

\* The (id, attempts, worker_id) guard every write of an attempt carries.
Owns(r, w, n) == r.attempts = n /\ r.owner = w

-----------------------------------------------------------------------------
(***************************************************************************)
(* Leases                                                                  *)
(***************************************************************************)

LeaseType ==
    [ present   : BOOLEAN,
      left      : (-2 * Grace)..LeaseTtl,
      accepting : BOOLEAN ]

NoLease == [ present |-> FALSE, left |-> 0, accepting |-> FALSE ]

LeaseLive(l) == l.present /\ l.left > 0

\* Mutant: every lease a heartbeat creates accepts work.
WrittenLeaseOpen(l, ttl, reopens, acceptsWhenCreated) ==
    [ present |-> TRUE, left |-> ttl,
      accepting |-> IF l.present THEN reopens \/ l.accepting ELSE TRUE ]

\* write_worker_info: an existing flag is kept unless the write reopens.
WrittenLease(l, ttl, reopens, acceptsWhenCreated) ==
    [ present |-> TRUE, left |-> ttl,
      accepting |-> IF l.present THEN reopens \/ l.accepting
                                 ELSE acceptsWhenCreated ]

\* stop_worker_intake, and the intake half of a shutdown requeue.
ClosedLease(l) == [ l EXCEPT !.accepting = FALSE ]

\* Mutant: stuckness is the age of the attempt, whatever the lease says.
JobIsStuckByAge(j, r, l) ==
    \/ j \in TimedJob /\ r.started > Timeout + Grace
    \/ r.touched > Grace

\* ironqueue.job_is_stuck; an absent lease row reads as -infinity.
JobIsStuck(j, r, l) ==
    \/ j \in TimedJob /\ r.started > Timeout + Grace
    \/ /\ r.touched > Grace
       /\ l.present => l.left + Grace <= 0

-----------------------------------------------------------------------------
(***************************************************************************)
(* Statements                                                              *)
(***************************************************************************)

\* COALESCE($n, error), where "keep" stands for a NULL parameter.
Coalesce(e, default) == IF e = "keep" THEN default ELSE e

\* The skeleton of finish_rows_sql!: a zero TTL deletes instead of updating.
FinishRow(j, r, status, error, result) ==
    IF (IF status = "complete" THEN ResultTtl[j] ELSE FailedTtl[j]) = "delete"
    THEN NoRow("gone")
    ELSE [ r EXCEPT !.status = status, !.error = error, !.result = result,
                    !.started = 0, !.touched = 0 ]

\* Mutant: the guard forgets the attempt number.
FinishAllowedByOwner(r, w, n, status) ==
    /\ \/ r.status = "running"
       \/ r.status = "aborting" /\ (status = "aborted" \/ Swept(r))
    /\ r.owner = w

\* Mutant: an owner may finish an aborting row with any outcome.
FinishAllowedAborting(r, w, n, status) ==
    r.status \in {"running", "aborting"} /\ Owns(r, w, n)

\* finish_with_guards
FinishAllowed(r, w, n, status) ==
    /\ \/ r.status = "running"
       \/ r.status = "aborting" /\ (status = "aborted" \/ Swept(r))
    /\ Owns(r, w, n)

Finished(j, r, status, error) ==
    FinishRow(j, r, status,
              IF status = "complete" THEN error ELSE Coalesce(error, r.error),
              IF status = "complete" THEN "value" ELSE "none")

\* Mutant: a refund is granted at the ceiling too.
RequeueAllowedAtCeiling(r, w, n, running, refund) ==
    /\ \/ running /\ r.status = "running"
       \/ r.status = "aborting" /\ Swept(r)
    /\ Owns(r, w, n)
    /\ refund \/ Retryable(r)

\* REQUEUE_GUARDED_SQL: `running` is $8, `refund` is $7; every caller accepts
\* a row that bears the sweeper's marker.
RequeueAllowed(r, w, n, running, refund) ==
    /\ \/ running /\ r.status = "running"
       \/ r.status = "aborting" /\ Swept(r)
    /\ Owns(r, w, n)
    /\ IF refund THEN r.attempts < Ceiling ELSE Retryable(r)

\* Mutant: no LEAST.
RefundedMaxUncapped(max) == max + 1

RefundedMax(max) == IF max < Ceiling THEN max + 1 ELSE Ceiling

\* Mutant: a refund takes the attempt back instead of raising the budget.
RequeuedUncounted(r, error, delay, refund) ==
    [ r EXCEPT !.status = "queued",
               !.attempts = IF refund THEN @ - 1 ELSE @,
               !.wait = IF delay = 0 THEN @ ELSE delay,
               !.error = Coalesce(error, @),
               !.result = "none", !.owner = NoWorker,
               !.started = 0, !.touched = 0 ]

Requeued(r, error, delay, refund) ==
    [ r EXCEPT !.status = "queued",
               !.max = IF refund THEN RefundedMax(@) ELSE @,
               !.wait = IF delay = 0 THEN @ ELSE delay,
               !.error = Coalesce(error, @),
               !.result = "none", !.owner = NoWorker,
               !.started = 0, !.touched = 0 ]

\* Mutant: only what the requeue should have taken is aborted.
AbortMarkedOnly(r, w, n) ==
    (r.status = "running" \/ Swept(r)) /\ Owns(r, w, n)

\* abort_unsettled_claim: the last word of both background resolvers.
AbortUnsettledAllowed(r, w, n) ==
    r.status \in {"running", "aborting"} /\ Owns(r, w, n)

AbortedUnsettled(j, r) ==
    FinishRow(j, r, "aborted",
              IF r.status = "running" \/ Swept(r) THEN "other" ELSE r.error,
              "none")

\* Database::abort
AbortAllowed(r) ==
    \/ r.status \in {"queued", "running"}
    \/ r.status = "aborting" /\ Swept(r)

AbortRequested(r) ==
    [ r EXCEPT !.status = IF @ = "queued" THEN "aborted" ELSE "aborting",
               !.error = "user", !.result = "none", !.touched = 0 ]

\* The claim of DEQUEUE_CLAIM_SQL.  `error` and `result` stay as they are.
Claimable(r) == r.status = "queued" /\ r.wait = 0

Claimed(r, w, age) ==
    [ r EXCEPT !.status = "running", !.attempts = @ + 1, !.owner = w,
               !.started = age, !.touched = age ]

\* Phase one of recover_stuck_jobs.
MarkAllowed(j, r, l, w, n) ==
    r.status = "running" /\ Owns(r, w, n) /\ JobIsStuck(j, r, l)

Marked(r) ==
    [ r EXCEPT !.status = "aborting", !.error = "swept", !.result = "marker",
               !.touched = 0 ]

\* The cooperative window both recovery batches grant: an owner whose lease
\* row is on disk keeps the whole grace from the abort request.
WindowOver(r, l) == ~l.present \/ r.touched >= Grace

\* retry_swept_abandoned_batch; the error stays "swept".
RetryAbandonedAllowed(r, l, w, n) ==
    /\ r.status = "aborting" /\ Swept(r)
    /\ Owns(r, w, n)
    /\ Retryable(r)
    /\ ~LeaseLive(l)
    /\ WindowOver(r, l)

\* abort_stuck_abandoned_batch
AbortAbandonedAllowed(j, r, l, w, n) ==
    /\ r.status \in {"running", "aborting"}
    /\ Owns(r, w, n)
    /\ JobIsStuck(j, r, l) \/ Swept(r)
    /\ KeyOf[j] = NoKey \/ ~LeaseLive(l)
    /\ WindowOver(r, l)

AbortedAbandoned(j, r) == FinishRow(j, r, "aborted", r.error, "none")

=============================================================================
