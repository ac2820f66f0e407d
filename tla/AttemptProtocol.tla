-------------------------- MODULE AttemptProtocol ---------------------------
(***************************************************************************)
(* The life of an attempt: workers and custom consumers that claim jobs    *)
(* under a lease, run them and settle them; operators that abort, purge    *)
(* and retry; the sweeper that takes back what a dead owner left; and the  *)
(* background resolvers for claims and attempts nobody holds any more.     *)
(* Every action is one SQL statement (or one transaction) against the      *)
(* tables, or one local step of a process; everything between two          *)
(* statements of a process can be interleaved with everybody else.         *)
(***************************************************************************)
EXTENDS JobTable

CONSTANTS
    Sweeper,        \* processes that run sweep passes
    Blocking,       \* jobs whose handler may block its thread, past any await
    BatchSize,      \* sweep_batch_size
    Stoppable,      \* bound: runtimes that are ever asked to shut down
    MaxUnacked      \* bound: unacknowledged-claim resolvers alive at a time

ASSUME BatchAssumption == BatchSize \in Nat \ {0}

ASSUME HandlerAssumption == Blocking \subseteq Job

ASSUME BoundsAssumption == Stoppable \subseteq Runtime /\ MaxUnacked \in Nat

VARIABLES
    row,            \* ironqueue.jobs, by job id
    lease,          \* ironqueue.workers, by worker id
    proc,           \* phase of each worker process
    inflight,       \* attempts a process knows it owns
    tx,             \* per worker: a claim transaction whose client is gone
    unacked,        \* batches held by unacknowledged-claim resolvers
    dropped,        \* claims held by dropped-attempt resolvers
    late,           \* workers with a heartbeat under way since before they stopped
    sweep,          \* per sweeper: where its pass is, and what it read
    stalled,        \* history: workers that let their lease lapse, or died
    unlanded,       \* history: claims that never committed, until they are
                    \* resolved and no attempt goes by their number
    succeeded,      \* history: attempts whose handler succeeded
    runaway         \* history: claims whose handler did not yield when it was
                    \* aborted and is still running; no process looks at it

vars == <<row, lease, proc, inflight, tx, unacked, dropped, late, sweep,
          stalled, unlanded, succeeded, runaway>>

tables == <<row, lease>>
pending == <<tx, unacked, dropped, late>>
history == <<stalled, unlanded, succeeded, runaway>>

-----------------------------------------------------------------------------
(***************************************************************************)
(* Types                                                                   *)
(***************************************************************************)

\* "stopping": intake is frozen, a fetch may still be in flight; "draining":
\* the fetcher has returned; "gone": crashed, or run_until has returned.
Phase == {"up", "stopping", "draining", "gone"}

ClaimType == [worker : Worker, job : Job, n : 1..Ceiling]

Stage == {"buffered", "handler", "held", "finalize", "reread", "fallback"}

\* WorkerAttemptResult, with Errored split by what try_finalize tells apart;
\* "drain" for a buffered row given back, and "unsure" for a consumer's
\* attempt whose last call lost its acknowledgement.
End == {"none", "success", "aborted", "errored", "fatal", "cancelled",
        "unhandled", "drain", "unsure"}

\* WorkerAbortReason, and "none" for an empty OnceLock.
Reason == {"none", "user", "swept", "missing", "superseded"}

AttemptType ==
    [ worker : Worker, job : Job, n : 1..Ceiling, retryable : BOOLEAN,
      stage : Stage, end : End, reason : Reason,
      polled : Reason ]     \* what the abort poll under way has read of it

\* DatabaseStuckJob: what a pass still needs of a row its scan saw; whether
\* the row was running and its owner gone matters until phase one is over,
\* whether it may be given back until the first half of phase two is.
StuckType ==
    [ job : Job, n : 0..Ceiling, owner : Worker \cup {NoWorker},
      running : BOOLEAN, gone : BOOLEAN, back : BOOLEAN ]

PassType == [ at : {"idle", "scanned", "marked", "retried"},
              seen : SUBSET StuckType ]

TypeOK ==
    /\ row \in [Job -> RowType]
    /\ lease \in [Worker -> LeaseType]
    /\ proc \in [Worker -> Phase]
    /\ inflight \subseteq AttemptType
    /\ tx \in [Worker -> [jobs : SUBSET Job, age : 0..AgeCap]]
    /\ unacked \subseteq SUBSET ClaimType
    /\ dropped \subseteq ClaimType
    /\ late \subseteq Runtime
    /\ sweep \in [Sweeper -> PassType]
    /\ stalled \subseteq Worker
    /\ unlanded \subseteq ClaimType
    /\ succeeded \subseteq Job \X (1..Ceiling)
    /\ runaway \subseteq ClaimType

-----------------------------------------------------------------------------
(***************************************************************************)
(* Helpers                                                                 *)
(***************************************************************************)

NoTx == [jobs |-> {}, age |-> 0]
Idle == [at |-> "idle", seen |-> {}]

LeaseOf(r) == IF r.owner \in Worker THEN lease[r.owner] ELSE NoLease

\* Rows under the locks of an unresolved claim transaction.
Locked == UNION {tx[w].jobs : w \in Worker}

\* Mutant: the partial index covers no aborting row.
KeyHeldUntilAbort(key) ==
    key # NoKey /\ \E j \in Job : /\ KeyOf[j] = key
                                 /\ row[j].status \in Live \ {"aborting"}

\* jobs_dedupe_key_idx: the key belongs to a live row.
KeyHeld(key) ==
    key # NoKey /\ \E j \in Job : KeyOf[j] = key /\ row[j].status \in Live

ClaimOf(a) == [worker |-> a.worker, job |-> a.job, n |-> a.n]

\* The row is running or aborting under this claim.
Holds(c) ==
    /\ row[c.job].status \in {"running", "aborting"}
    /\ Owns(row[c.job], c.worker, c.n)

Stopping(w) == proc[w] \in {"stopping", "draining"}

Older(x, y) == row[x].touched >= row[y].touched

Aged(n) == IF n < AgeCap THEN n + 1 ELSE n
Lapsed(n) == IF n > -2 * Grace THEN n - 1 ELSE n

-----------------------------------------------------------------------------
(***************************************************************************)
(* Producers and operators                                                 *)
(***************************************************************************)

\* Queue::enqueue: a live holder of the key deduplicates it.
Enqueue(j, delay) ==
    /\ row[j].status = "unborn"
    /\ ~KeyHeld(KeyOf[j])
    /\ row' = [row EXCEPT ![j] = NewRow(0, MaxAttempts[j], delay)]
    /\ UNCHANGED <<lease, proc, inflight, pending, sweep, history>>

\* Queue::abort_job
AbortJob(j) ==
    /\ j \notin Locked
    /\ AbortAllowed(row[j])
    /\ row' = [row EXCEPT ![j] = AbortRequested(@)]
    /\ UNCHANGED <<lease, proc, inflight, pending, sweep, history>>

\* Queue::purge_queued_jobs: SKIP LOCKED steps over a row under a claim.
PurgeQueuedJobs(S) ==
    /\ S # {}
    /\ \A j \in S : row[j].status = "queued" /\ j \notin Locked
    /\ row' = [j \in Job |-> IF j \in S THEN NoRow("gone") ELSE row[j]]
    /\ UNCHANGED <<lease, proc, inflight, pending, sweep, history>>

\* What the fresh occurrence copies; a cron occurrence leaves its key behind.
FreshOccurrence(j, k) ==
    /\ row[k].status = "unborn"
    /\ KeyOf[k] = (IF j \in CronJob THEN NoKey ELSE KeyOf[j])
    /\ ResultTtl[k] = ResultTtl[j] /\ FailedTtl[k] = FailedTtl[j]
    /\ j \in TimedJob <=> k \in TimedJob
    /\ j \in CronJob <=> k \in CronJob

\* Queue::retry_job: the mark on the source and the insert commit together,
\* and a key conflict rolls both back.
RetryJobOccurrence(j, k) ==
    /\ row[j].status \in Terminal
    /\ ~row[j].retried
    /\ row[j].attempts < Ceiling
    /\ FreshOccurrence(j, k)
    /\ ~KeyHeld(KeyOf[k])
    /\ row' = [row EXCEPT
                 ![j].retried = TRUE,
                 ![k] = NewRow(row[j].attempts, row[j].attempts + 1, 0)]
    /\ UNCHANGED <<lease, proc, inflight, pending, sweep, history>>

-----------------------------------------------------------------------------
(***************************************************************************)
(* Leases, shutdown and crashes                                            *)
(***************************************************************************)

\* worker_info_loop, and the fetcher caretaker once intake is closed.
WorkerHeartbeat(w) ==
    /\ w \in Runtime
    /\ proc[w] # "gone"
    /\ lease' = [lease EXCEPT
                   ![w] = WrittenLease(@, LeaseTtl, FALSE, proc[w] = "up")]
    /\ UNCHANGED <<row, proc, inflight, pending, sweep, history>>

\* Consumer::heartbeat is a request for work: it reopens.
ConsumerHeartbeat(w) ==
    /\ w \in Consumer
    /\ proc[w] = "up"
    /\ lease' = [lease EXCEPT ![w] = WrittenLease(@, LeaseTtl, TRUE, TRUE)]
    /\ UNCHANGED <<row, proc, inflight, pending, sweep, history>>

\* The local half of close_intake: no buffered row reaches a processor.
BeginShutdown(w) ==
    /\ w \in Stoppable
    /\ proc[w] = "up"
    /\ proc' = [proc EXCEPT ![w] = "stopping"]
    /\ late' \in {late, late \cup {w}}
    /\ UNCHANGED <<tables, inflight, tx, unacked, dropped, sweep, history>>

\* A heartbeat that had read intake_open before the stop lands after it.
LateHeartbeat(w) ==
    /\ w \in late
    /\ lease' = [lease EXCEPT ![w] = WrittenLease(@, LeaseTtl, FALSE, TRUE)]
    /\ late' = late \ {w}
    /\ UNCHANGED <<row, proc, inflight, tx, unacked, dropped, sweep, history>>

\* The durable half, stop_worker_intake; bounded, so it may never happen.
StopWorkerIntake(w) ==
    /\ Stopping(w)
    /\ lease[w].accepting
    /\ lease' = [lease EXCEPT ![w] = ClosedLease(@)]
    /\ UNCHANGED <<row, proc, inflight, pending, sweep, history>>

\* The fetch loop observes the stop token with no dequeue in flight.
FetcherStops(w) ==
    /\ proc[w] = "stopping"
    /\ proc' = [proc EXCEPT ![w] = "draining"]
    /\ UNCHANGED <<tables, inflight, pending, sweep, history>>

\* drain_processors and retire_fetcher are bounded: what has not settled by
\* then is aborted, its handler at the next await it reaches.  The final lease
\* write may fail too.
Retire(w) ==
    /\ proc[w] = "draining"
    /\ proc' = [proc EXCEPT ![w] = "gone"]
    /\ inflight' = {a \in inflight : a.worker # w}
    /\ \/ lease' = [lease EXCEPT ![w] = WrittenLease(@, 0, FALSE, FALSE)]
       \/ UNCHANGED lease
    /\ stalled' = stalled \cup {w}
    /\ late' = late \ {w}
    /\ \E S \in SUBSET {a \in inflight : /\ a.worker = w /\ a.stage = "handler"
                                         /\ a.job \in Blocking} :
          runaway' = runaway \cup {ClaimOf(a) : a \in S}
    /\ UNCHANGED <<row, tx, unacked, dropped, sweep, unlanded, succeeded>>

\* The process dies; its resolvers die with it, an open transaction does not.
Crash(w) ==
    /\ proc[w] # "gone"
    /\ proc' = [proc EXCEPT ![w] = "gone"]
    /\ inflight' = {a \in inflight : a.worker # w}
    /\ unacked' = {b \in unacked : \A c \in b : c.worker # w}
    /\ dropped' = {c \in dropped : c.worker # w}
    /\ late' = late \ {w}
    /\ stalled' = stalled \cup {w}
    /\ unlanded' = {c \in unlanded : c.worker # w}
    /\ runaway' = {c \in runaway : c.worker # w}
    /\ UNCHANGED <<tables, tx, sweep, succeeded>>

\* One tick of PostgreSQL's clock.
Tick ==
    /\ row' = [j \in Job |->
                 IF row[j].status \in {"running", "aborting"}
                 THEN [row[j] EXCEPT !.started = IF j \in TimedJob THEN Aged(@) ELSE @,
                                     !.touched = Aged(@)]
                 ELSE [row[j] EXCEPT !.wait = IF @ > 0 THEN @ - 1 ELSE 0]]
    /\ lease' = [w \in Worker |->
                   IF lease[w].present
                   THEN [lease[w] EXCEPT !.left = Lapsed(@)] ELSE lease[w]]
    /\ tx' = [w \in Worker |->
                IF tx[w].jobs # {} THEN [tx[w] EXCEPT !.age = Aged(@)] ELSE tx[w]]
    /\ stalled' = stalled \cup {w \in Worker : lease[w].present /\ lease[w].left <= 1}
    /\ UNCHANGED <<proc, inflight, unacked, dropped, late, sweep, unlanded,
                   succeeded, runaway>>

-----------------------------------------------------------------------------
(***************************************************************************)
(* Claiming                                                                *)
(***************************************************************************)

\* The claim statement runs: the lease is live and accepting, and no earlier
\* claim transaction of this worker still holds the claim lock.
MayClaim(w, S) ==
    /\ proc[w] \in {"up", "stopping"}
    /\ tx[w].jobs = {}
    /\ LeaseLive(lease[w]) /\ lease[w].accepting
    /\ S # {}
    /\ \A j \in S : Claimable(row[j]) /\ j \notin Locked

ClaimsOf(w, S) ==
    {[worker |-> w, job |-> j, n |-> row[j].attempts + 1] : j \in S}

NewAttempt(w, j) ==
    [ worker |-> w, job |-> j, n |-> row[j].attempts + 1,
      retryable |-> row[j].attempts + 1 < row[j].max,
      stage |-> IF w \in Consumer THEN "held" ELSE "buffered",
      end |-> "none", reason |-> "none", polled |-> "none" ]

ClaimRows(w, S, age) ==
    row' = [j \in Job |-> IF j \in S THEN Claimed(row[j], w, age) ELSE row[j]]

\* A fetch that ends once the worker is stopping is the fetch loop's last.
FetchEnds(w) ==
    proc' = [proc EXCEPT ![w] = IF @ = "stopping" THEN "draining" ELSE @]

\* dequeue_inner commits and returns the batch.
Dequeue(w, S) ==
    /\ MayClaim(w, S)
    /\ ClaimRows(w, S, 0)
    /\ inflight' = inflight \cup {NewAttempt(w, j) : j \in S}
    /\ FetchEnds(w)
    /\ UNCHANGED <<lease, pending, sweep, history>>

\* dequeue_inner fails or is dropped between sending COMMIT and returning:
\* the armed guard hands the claims to a resolver; the server is undecided.
DequeueLost(w, S) ==
    /\ MayClaim(w, S)
    /\ Cardinality(unacked) < MaxUnacked
    /\ tx' = [tx EXCEPT ![w] = [jobs |-> S, age |-> 0]]
    /\ unacked' = unacked \cup {ClaimsOf(w, S)}
    /\ FetchEnds(w)
    /\ UNCHANGED <<tables, inflight, dropped, late, sweep, history>>

\* The server commits the transaction after all.
CommitLands(w) ==
    /\ tx[w].jobs # {}
    /\ ClaimRows(w, tx[w].jobs, tx[w].age)
    /\ tx' = [tx EXCEPT ![w] = NoTx]
    /\ UNCHANGED <<lease, proc, inflight, unacked, dropped, late, sweep, history>>

\* The server never saw the COMMIT and rolls back.
CommitNeverLands(w) ==
    /\ tx[w].jobs # {}
    /\ tx' = [tx EXCEPT ![w] = NoTx]
    /\ unlanded' = unlanded \cup (ClaimsOf(w, tx[w].jobs) \cap UNION unacked)
    /\ UNCHANGED <<tables, proc, inflight, unacked, dropped, late, sweep,
                   stalled, succeeded, runaway>>

\* The row a resolver leaves: a guarded requeue, else a guarded abort.
Resolved(c, delay, refund) ==
    LET r == row[c.job]
    IN  IF RequeueAllowed(r, c.worker, c.n, TRUE, refund)
        THEN Requeued(r, "other", delay, refund)
        ELSE IF AbortUnsettledAllowed(r, c.worker, c.n)
             THEN AbortedUnsettled(c.job, r)
             ELSE r

\* Mutant: the resolver does not take the claim lock.
ResolveUnlocked(b) ==
    /\ row' = [j \in Job |->
                 IF \E c \in b : c.job = j
                 THEN Resolved(CHOOSE c \in b : c.job = j, 0, TRUE)
                 ELSE row[j]]
    /\ unacked' = unacked \ {b}
    /\ UNCHANGED <<lease, proc, inflight, tx, dropped, late, sweep, history>>

\* requeue_unacknowledged_claims: one transaction, behind the claim lock.  A
\* lost acknowledgement of its own runs the pass again.
ResolveUnacknowledged(b) ==
    /\ \A c \in b : tx[c.worker].jobs = {}
    /\ row' = [j \in Job |->
                 IF \E c \in b : c.job = j
                 THEN Resolved(CHOOSE c \in b : c.job = j, 0, TRUE)
                 ELSE row[j]]
    /\ \/ /\ unacked' = unacked \ {b}
          /\ unlanded' = unlanded \ {c \in b \ UNION (unacked \ {b}) :
                                        \A a \in inflight : ClaimOf(a) # c}
       \/ UNCHANGED <<unacked, unlanded>>
    /\ UNCHANGED <<lease, proc, inflight, tx, dropped, late, sweep, stalled,
                   succeeded, runaway>>

-----------------------------------------------------------------------------
(***************************************************************************)
(* Running an attempt on a Worker                                          *)
(***************************************************************************)

Becomes(a, stage, end) == [a EXCEPT !.stage = stage, !.end = end]

Replace(a, b) == inflight' = (inflight \ {a}) \cup {b}

Local == UNCHANGED <<tables, proc, pending, sweep, stalled, unlanded>>

\* A processor takes the row out of the buffer and finds its handler, or
\* finds none.
Process(a) ==
    /\ a.stage = "buffered"
    /\ proc[a.worker] = "up"
    /\ \/ Replace(a, Becomes(a, "handler", "none"))
       \/ Replace(a, Becomes(a, "finalize", "unhandled"))
    /\ Local /\ UNCHANGED <<succeeded, runaway>>

\* join_after_abort: an aborted handler ends at its next await; one that blocks
\* its thread is waited for ATTEMPT_ABORT_JOIN_GRACE and goes on without its
\* attempt.
JoinAfterAbort(a) ==
    \/ UNCHANGED runaway
    \/ a.job \in Blocking /\ runaway' = runaway \cup {ClaimOf(a)}

\* A handler whose attempt was finalized without it returns at last.
RunawayReturns(c) ==
    /\ c \in runaway
    /\ runaway' = runaway \ {c}
    /\ UNCHANGED <<tables, proc, inflight, pending, sweep, stalled, unlanded,
                   succeeded>>

\* The handler returns or panics, or it times out and is aborted; a forced
\* stop wins over it.
HandlerEnds(a, end) ==
    /\ a.stage = "handler"
    /\ a.reason \in {"none", "user"}
    /\ end \in {"success", "aborted", "errored", "fatal"}
    /\ end = "fatal" => a.retryable
    /\ Replace(a, [Becomes(a, "finalize", end) EXCEPT
                     !.reason = IF end = "aborted" THEN @ ELSE "none",
                     !.polled = IF end = "aborted" THEN @ ELSE "none"])
    /\ succeeded' = IF end = "success" THEN succeeded \cup {<<a.job, a.n>>}
                                       ELSE succeeded
    /\ \/ UNCHANGED runaway
       \/ end = "errored" /\ a.job \in TimedJob /\ JoinAfterAbort(a)
    /\ Local

\* The force token: an abort reason past its grace, or shutdown past its own.
HandlerCancelled(a) ==
    /\ a.stage = "handler"
    /\ a.reason # "none" \/ Stopping(a.worker)
    /\ Replace(a, Becomes(a, "finalize", "cancelled"))
    /\ JoinAfterAbort(a)
    /\ Local /\ UNCHANGED succeeded

\* aborting_of, as the abort loop maps it to a reason.
PolledReason(a) ==
    LET r == row[a.job]
    IN  CASE r.status = "gone" -> "missing"
          [] r.status # "gone" /\ ~Owns(r, a.worker, a.n) -> "superseded"
          [] /\ Owns(r, a.worker, a.n)
             /\ r.status \in {"aborting", "aborted"} -> IF Swept(r) THEN "swept" ELSE "user"
          [] OTHER -> "none"

\* The statement of abort_loop's poll.  The first reason recorded is the one
\* that counts, and past the handler only these two ends still look at it.
PollAbort(a) ==
    /\ \/ a.stage = "handler"
       \/ a.end \in {"aborted", "cancelled"}
    /\ a.reason = "none" /\ a.polled = "none"
    /\ PolledReason(a) # "none"
    /\ Replace(a, [a EXCEPT !.polled = PolledReason(a)])
    /\ Local /\ UNCHANGED <<succeeded, runaway>>

\* request_abort: the answer reaches the entry of that (id, attempt), if it is
\* still there, whatever its row has become in the meantime.
RequestAbort(a) ==
    /\ a.polled # "none"
    /\ Replace(a, [a EXCEPT !.reason = a.polled, !.polled = "none"])
    /\ Local /\ UNCHANGED <<succeeded, runaway>>

-----------------------------------------------------------------------------
(***************************************************************************)
(* Finalization                                                            *)
(***************************************************************************)

\* One guarded statement of an attempt.  When it is applied the attempt is
\* over, unless the acknowledgement is lost: then finalize starts again from
\* its first statement.  When it is refused the attempt becomes `refused`.
Statement(a, allowed, new, refused) ==
    \/ /\ allowed
       /\ row' = [row EXCEPT ![a.job] = new]
       /\ \/ inflight' = inflight \ {a}
          \/ Replace(a, [a EXCEPT !.stage = "finalize"])
    \/ /\ ~allowed
       /\ UNCHANGED row
       /\ inflight' = (inflight \ {a}) \cup refused

Fallback(a) == {[a EXCEPT !.stage = "fallback"]}
Reread(a) == {[a EXCEPT !.stage = "reread"]}
Unconfirmed == {}

FinishAttempt(a, status, error, refused) ==
    LET r == row[a.job]
    IN  /\ Statement(a, FinishAllowed(r, a.worker, a.n, status),
                     Finished(a.job, r, status, error), refused)
        /\ UNCHANGED <<lease, proc, pending, sweep, history>>

\* Database::retry; the swept form takes no running row and keeps the error.
RetryAttempt(a, running, error) ==
    LET r == row[a.job]
    IN  /\ Statement(a, RequeueAllowed(r, a.worker, a.n, running, FALSE),
                     Requeued(r, error, RetryDelay, FALSE), Reread(a))
        /\ UNCHANGED <<lease, proc, pending, sweep, history>>

\* Database::requeue_shutdown closes intake whether or not it requeues.
RequeueShutdown(a, refused) ==
    LET r == row[a.job]
    IN  /\ Statement(a, RequeueAllowed(r, a.worker, a.n, TRUE, TRUE),
                     Requeued(r, "other", 0, TRUE), refused)
        /\ lease' = [lease EXCEPT ![a.worker] = ClosedLease(@)]
        /\ UNCHANGED <<proc, pending, sweep, history>>

FinalizeSuccess(a) ==
    /\ a.end = "success"
    /\ FinishAttempt(a, "complete", "other", Fallback(a))

\* A handler that stopped because it was asked to, at shutdown, is refunded.
ShutdownRefund(a) ==
    a.end = "aborted" /\ Stopping(a.worker) /\ a.reason = "none"

FinalizeErrored(a) ==
    /\ a.end \in {"aborted", "errored", "fatal"}
    /\ \/ ShutdownRefund(a) /\ RequeueShutdown(a, Unconfirmed)
       \/ /\ ~ShutdownRefund(a) /\ a.retryable /\ a.end # "fatal"
          /\ RetryAttempt(a, TRUE, "other")
       \/ /\ ~ShutdownRefund(a) /\ ~(a.retryable /\ a.end # "fatal")
          /\ FinishAttempt(a, "failed", "other", Fallback(a))

\* A superseded attempt writes nothing.
FinalizeSuperseded(a) ==
    /\ inflight' = inflight \ {a}
    /\ Local /\ UNCHANGED <<succeeded, runaway>>

FinalizeCancelled(a) ==
    /\ a.end = "cancelled"
    /\ \/ a.reason = "swept" /\ a.retryable /\ RetryAttempt(a, FALSE, "keep")
       \/ /\ a.reason = "swept" /\ ~a.retryable
          /\ FinishAttempt(a, "aborted", "swept", Unconfirmed)
       \/ a.reason = "user" /\ FinishAttempt(a, "aborted", "user", Unconfirmed)
       \/ a.reason = "missing" /\ FinishAttempt(a, "aborted", "other", Unconfirmed)
       \/ a.reason = "superseded" /\ FinalizeSuperseded(a)
       \/ a.reason = "none" /\ RequeueShutdown(a, Unconfirmed)

\* Mutant: a refused bounce is taken for a row that moved on.
FinalizeUnhandledForgets(a) ==
    LET r == row[a.job]
    IN  /\ a.end = "unhandled"
        /\ Statement(a, RequeueAllowed(r, a.worker, a.n, TRUE, TRUE),
                     Requeued(r, "other", BounceDelay, TRUE), Unconfirmed)
        /\ UNCHANGED <<lease, proc, pending, sweep, history>>

\* Database::requeue_unhandled: refunded and hidden for a while.
FinalizeUnhandled(a) ==
    LET r == row[a.job]
    IN  /\ a.end = "unhandled"
        /\ Statement(a, RequeueAllowed(r, a.worker, a.n, TRUE, TRUE),
                     Requeued(r, "other", BounceDelay, TRUE), Fallback(a))
        /\ UNCHANGED <<lease, proc, pending, sweep, history>>

\* The first statement of try_finalize.
TryFinalize(a) ==
    /\ a.stage = "finalize"
    /\ FinalizeSuccess(a) \/ FinalizeErrored(a) \/ FinalizeCancelled(a)
       \/ FinalizeUnhandled(a)

\* drain_on_shutdown gives a buffered row back, or finishes its abort.
DrainOnShutdown(a) ==
    /\ \/ a.stage = "buffered" /\ proc[a.worker] = "draining"
       \/ a.stage = "finalize" /\ a.end = "drain"
    /\ LET d == [a EXCEPT !.end = "drain"]
           r == row[a.job]
       IN  /\ \/ /\ RequeueAllowed(r, a.worker, a.n, TRUE, TRUE)
                 /\ row' = [row EXCEPT ![a.job] = Requeued(r, "other", 0, TRUE)]
                 /\ inflight' \in {inflight \ {a},
                                  (inflight \ {a}) \cup {[d EXCEPT !.stage = "finalize"]}}
              \/ /\ ~RequeueAllowed(r, a.worker, a.n, TRUE, TRUE)
                 /\ UNCHANGED row
                 /\ inflight' = (inflight \ {a}) \cup Fallback(d)
           /\ lease' = [lease EXCEPT ![a.worker] = ClosedLease(@)]
    /\ UNCHANGED <<proc, pending, sweep, history>>

\* swept_retry_refusal_result reads the row to learn why it was refused.
RereadRefusal(a) ==
    LET r == row[a.job]
    IN  /\ a.stage = "reread"
        /\ IF \/ r.attempts > a.n
              \/ r.status \in {"queued", "running", "aborted", "gone"}
           THEN inflight' = inflight \ {a}
           ELSE inflight' = (inflight \ {a}) \cup Fallback(a)
        /\ Local /\ UNCHANGED <<succeeded, runaway>>

\* finish_aborted_fallback keeps the reason on the row.
FinishAbortedFallback(a) ==
    /\ a.stage = "fallback"
    /\ FinishAttempt(a, "aborted", "keep", Unconfirmed)

\* finalize gives up on a failing database once shutdown is forced.
GiveUp(a) ==
    /\ a.stage \in {"finalize", "reread", "fallback"}
    /\ a.end # "drain"
    /\ Stopping(a.worker)
    /\ inflight' = inflight \ {a}
    /\ Local /\ UNCHANGED <<succeeded, runaway>>

-----------------------------------------------------------------------------
(***************************************************************************)
(* Custom consumers                                                        *)
(***************************************************************************)

\* The capability is settled, unless the caller never hears of it.
Acknowledged(a) ==
    \/ inflight' = inflight \ {a}
    \/ Replace(a, [a EXCEPT !.end = "unsure"])

\* Attempt::finish.  A refusal changes nothing and leaves the capability with
\* the caller.
ConsumerFinish(a, status) ==
    LET r == row[a.job]
    IN  /\ a.stage = "held"
        /\ FinishAllowed(r, a.worker, a.n, status)
        /\ row' = [row EXCEPT ![a.job] =
                     Finished(a.job, r, status,
                              IF status = "aborted" THEN "keep" ELSE "other")]
        /\ Acknowledged(a)
        /\ succeeded' = IF status = "complete" THEN succeeded \cup {<<a.job, a.n>>}
                                               ELSE succeeded
        /\ UNCHANGED <<lease, proc, pending, sweep, stalled, unlanded, runaway>>

\* Attempt::retry
ConsumerRetry(a) ==
    LET r == row[a.job]
    IN  /\ a.stage = "held"
        /\ a.retryable
        /\ RequeueAllowed(r, a.worker, a.n, TRUE, FALSE)
        /\ row' = [row EXCEPT ![a.job] = Requeued(r, "other", RetryDelay, FALSE)]
        /\ Acknowledged(a)
        /\ UNCHANGED <<lease, proc, pending, sweep, history>>

\* Drop for Attempt: an unsettled capability goes to a background resolver.
DropAttempt(a) ==
    /\ a.stage = "held"
    /\ inflight' = inflight \ {a}
    /\ dropped' = dropped \cup {ClaimOf(a)}
    /\ UNCHANGED <<tables, proc, tx, unacked, late, sweep, history>>

\* resolve_dropped_attempt: the attempt is spent, not refunded.
ResolveDropped(c) ==
    /\ row' = [row EXCEPT ![c.job] = Resolved(c, RetryDelay, FALSE)]
    /\ dropped' \in {dropped, dropped \ {c}}
    /\ UNCHANGED <<lease, proc, inflight, tx, unacked, late, sweep, history>>

-----------------------------------------------------------------------------
(***************************************************************************)
(* The sweeper.  The two purges hand nothing on to the scan, and a drain   *)
(* repeats only what filled its batch, so each of the three may come next; *)
(* the statements of recover_stuck_jobs follow each other.  Passes of      *)
(* different sweepers overlap when leadership moves in between.            *)
(***************************************************************************)

Pass(s, at, seen) ==
    sweep' = [sweep EXCEPT ![s] =
                IF seen = {} THEN Idle ELSE [at |-> at, seen |-> seen]]

\* purge_expired_jobs: any terminal row that is not kept forever may be due.
SweepExpiredJobs(s, S) ==
    /\ sweep[s].at = "idle"
    /\ S # {}
    /\ \A j \in S : /\ row[j].status \in Terminal
                    /\ "forever" # IF row[j].status = "complete"
                                   THEN ResultTtl[j] ELSE FailedTtl[j]
    /\ row' = [j \in Job |-> IF j \in S THEN NoRow("gone") ELSE row[j]]
    /\ UNCHANGED <<lease, proc, inflight, pending, sweep, history>>

\* purge_worker_leases: SKIP LOCKED may spare a lease somebody has locked.
SweepWorkerLeases(s, W) ==
    /\ sweep[s].at = "idle"
    /\ W # {}
    /\ \A w \in W : lease[w].present /\ lease[w].left <= -2 * Grace
    /\ lease' = [w \in Worker |-> IF w \in W THEN NoLease ELSE lease[w]]
    /\ UNCHANGED <<row, proc, inflight, pending, sweep, history>>

\* Mutant: the scan looks for running rows only.
StuckRunningJob(j) ==
    row[j].status = "running" /\ JobIsStuck(j, row[j], LeaseOf(row[j]))

\* The scan of recover_stuck_jobs.
StuckJob(j) ==
    LET r == row[j]
        l == LeaseOf(r)
    IN  /\ r.status \in {"running", "aborting"}
        /\ JobIsStuck(j, r, l) \/ Swept(r)
        /\ \/ r.status = "running"
           \/ ~LeaseLive(l)
           \/ KeyOf[j] = NoKey /\ ~(Swept(r) /\ Retryable(r))

Seen(j) ==
    LET r == row[j]
    IN  [ job |-> j, n |-> r.attempts, owner |-> r.owner,
          running |-> r.status = "running",
          gone |-> r.status = "running" /\ ~LeaseOf(r).present,
          back |-> (r.status = "running" \/ Swept(r)) /\ Retryable(r) ]

\* The oldest rows first, as many as a batch holds.
Batches(S) ==
    {B \in SUBSET S : /\ Cardinality(B) <= BatchSize
                      /\ Cardinality(B) < BatchSize => B = S
                      /\ \A x \in B, y \in S \ B : Older(x, y)}

SweepScan(s) ==
    /\ sweep[s].at = "idle"
    /\ \E B \in Batches({j \in Job : StuckJob(j)}) :
          Pass(s, "scanned", {Seen(j) : j \in B})
    /\ UNCHANGED <<tables, proc, inflight, pending, history>>

MarkedNow(e) ==
    e.running /\ MarkAllowed(e.job, row[e.job], LeaseOf(row[e.job]), e.owner, e.n)

\* Phase one; a row it marks goes on to phase two of the same pass only when
\* its owner's lease row is gone.
SweepMark(s) ==
    /\ sweep[s].at = "scanned"
    /\ LET marked == {e \in sweep[s].seen : MarkedNow(e)}
           abandoned == {e \in sweep[s].seen : e.running => e.gone /\ e \in marked}
       IN  /\ row' = [j \in Job |-> IF \E e \in marked : e.job = j
                                    THEN Marked(row[j]) ELSE row[j]]
           /\ Pass(s, "marked", {[e EXCEPT !.running = FALSE, !.gone = FALSE] :
                                    e \in abandoned})
    /\ UNCHANGED <<lease, proc, inflight, pending, history>>

\* Phase two, first statement: retry_swept_abandoned_batch.
SweepRetry(s) ==
    /\ sweep[s].at = "marked"
    /\ LET given == {e \in sweep[s].seen :
                       e.back /\ RetryAbandonedAllowed(row[e.job], LeaseOf(row[e.job]),
                                                       e.owner, e.n)}
       IN  row' = [j \in Job |-> IF \E e \in given : e.job = j
                                 THEN Requeued(row[j], "keep", RetryDelay, FALSE)
                                 ELSE row[j]]
    /\ Pass(s, "retried", {e \in sweep[s].seen : ~e.back})
    /\ UNCHANGED <<lease, proc, inflight, pending, history>>

\* Phase two, second statement: abort_stuck_abandoned_batch.
SweepAbort(s) ==
    /\ sweep[s].at = "retried"
    /\ LET over == {e \in sweep[s].seen :
                      AbortAbandonedAllowed(e.job, row[e.job], LeaseOf(row[e.job]),
                                            e.owner, e.n)}
       IN  row' = [j \in Job |-> IF \E e \in over : e.job = j
                                 THEN AbortedAbandoned(j, row[j]) ELSE row[j]]
    /\ Pass(s, "idle", {})
    /\ UNCHANGED <<lease, proc, inflight, pending, history>>

\* A statement fails, the pass exceeds its deadline, or its process dies.
SweepFails(s) ==
    /\ sweep[s] # Idle
    /\ Pass(s, "idle", {})
    /\ UNCHANGED <<tables, proc, inflight, pending, history>>

-----------------------------------------------------------------------------
(***************************************************************************)
(* Specification                                                           *)
(***************************************************************************)

Init ==
    /\ row = [j \in Job |-> NoRow("unborn")]
    /\ lease = [w \in Worker |-> NoLease]
    /\ proc = [w \in Worker |-> "up"]
    /\ inflight = {}
    /\ tx = [w \in Worker |-> NoTx]
    /\ unacked = {}
    /\ dropped = {}
    /\ late = {}
    /\ sweep = [s \in Sweeper |-> Idle]
    /\ stalled = {}
    /\ unlanded = {}
    /\ succeeded = {}
    /\ runaway = {}

OperatorStep ==
    \/ \E j \in Job, delay \in 0..WaitCap : Enqueue(j, delay)
    \/ \E j \in Job : AbortJob(j)
    \/ \E S \in SUBSET Job : PurgeQueuedJobs(S)
    \/ \E j, k \in Job : RetryJobOccurrence(j, k)

ProcessStep ==
    \E w \in Worker :
        \/ WorkerHeartbeat(w)
        \/ ConsumerHeartbeat(w)
        \/ BeginShutdown(w)
        \/ LateHeartbeat(w)
        \/ StopWorkerIntake(w)
        \/ FetcherStops(w)
        \/ Retire(w)
        \/ Crash(w)
        \/ \E S \in SUBSET Job : Dequeue(w, S) \/ DequeueLost(w, S)
        \/ CommitLands(w)
        \/ CommitNeverLands(w)

AttemptStep ==
    \E a \in inflight :
        \/ Process(a)
        \/ \E end \in End : HandlerEnds(a, end)
        \/ HandlerCancelled(a)
        \/ PollAbort(a)
        \/ RequestAbort(a)
        \/ TryFinalize(a)
        \/ DrainOnShutdown(a)
        \/ RereadRefusal(a)
        \/ FinishAbortedFallback(a)
        \/ GiveUp(a)
        \/ \E status \in Terminal : ConsumerFinish(a, status)
        \/ ConsumerRetry(a)
        \/ DropAttempt(a)

ResolverStep ==
    \/ \E b \in unacked : ResolveUnacknowledged(b)
    \/ \E c \in dropped : ResolveDropped(c)

SweeperStep ==
    \E s \in Sweeper :
        \/ \E S \in SUBSET Job : SweepExpiredJobs(s, S)
        \/ \E W \in SUBSET Worker : SweepWorkerLeases(s, W)
        \/ SweepScan(s)
        \/ SweepMark(s)
        \/ SweepRetry(s)
        \/ SweepAbort(s)
        \/ SweepFails(s)

Next ==
    \/ Tick \/ OperatorStep \/ ProcessStep \/ AttemptStep \/ ResolverStep
    \/ SweeperStep \/ \E c \in runaway : RunawayReturns(c)

Spec == Init /\ [][Next]_vars

-----------------------------------------------------------------------------
(***************************************************************************)
(* Safety                                                                  *)
(***************************************************************************)

\* The CHECK constraints of ironqueue.jobs: no statement, in whatever order
\* the parties send them, produces a row the schema rejects.  A queued row can
\* still be claimed without passing its budget, and only a claimed row has an
\* owner.
RowOK(r) ==
    /\ r.attempts <= r.max
    /\ r.status = "queued" => r.attempts < r.max /\ r.owner = NoWorker
    /\ r.status \in {"running", "aborting"} => r.attempts > 0 /\ r.owner \in Worker

SchemaChecks == \A j \in Job : RowOK(row[j])

\* An (id, attempts) pair names one attempt: the in-flight map of a worker is
\* keyed by it, and every guarded write relies on it.  Refunds, recoveries and
\* lost acknowledgements never make a claim hand out a number twice.
UniqueClaim ==
    \A a, b \in inflight : a.job = b.job /\ a.n = b.n => a = b

\* While a worker is up, a row that is running or aborting under its id is
\* known to it: as an in-flight attempt, or by one of its resolvers.  The
\* abort poll sees only in-flight attempts and the sweeper leaves the rows of
\* a live lease alone, so any other row would be stuck until the worker exits.
NoForgottenRow ==
    \A j \in Job :
        LET r == row[j]
            c == [worker |-> r.owner, job |-> j, n |-> r.attempts]
        IN  r.status \in {"running", "aborting"} /\ r.owner \in Worker
              => \/ proc[r.owner] # "up"
                 \/ \E a \in inflight : ClaimOf(a) = c
                 \/ c \in dropped \cup UNION unacked

\* An attempt that has not ended, of a worker that never let its lease lapse.
Undisturbed(a) ==
    /\ a.stage \in {"buffered", "handler", "held"}
    /\ a.end = "none"
    /\ a.worker \notin stalled
    /\ ClaimOf(a) \notin unlanded

\* The sweeper does not take an untimed job from an owner that keeps its lease
\* alive: the row stays under the attempt, at most aborted by an operator.
LiveOwnerKeepsAttempt ==
    \A a \in inflight :
        Undisturbed(a) /\ a.job \notin TimedJob
          => Holds(ClaimOf(a)) /\ ~Swept(row[a.job])

\* The handlers that run, by the claims they were started under.
Running ==
    {ClaimOf(a) : a \in {b \in inflight : b.stage = "handler"}} \cup runaway

\* A running handler keeps others out while its row is still under its claim,
\* or while its attempt is undisturbed.
KeepsOut(c) ==
    \/ Holds(c)
    \/ \E a \in inflight : /\ ClaimOf(a) = c /\ a.stage = "handler"
                           /\ Undisturbed(a)

\* Mutual exclusion: of two handlers of one job, or of two jobs that share a
\* dedupe key, at most one keeps others out.  They run at the same time only
\* if one of them did not yield when it was aborted and its row was finalized
\* without it, or its worker let its lease lapse, or its claim never committed.
\* A row that is stuck under a live lease is not finished for that reason.
ExclusiveHandlers ==
    \A c, d \in Running :
        /\ \/ c.job = d.job
           \/ KeyOf[c.job] = KeyOf[d.job] /\ KeyOf[c.job] # NoKey
        /\ KeepsOut(c) /\ KeepsOut(d)
        => c = d

\* A complete row is complete because the handler of that very attempt
\* succeeded, never through the late write of an earlier one.
CompleteMeansSucceeded ==
    \A j \in Job : row[j].status = "complete" => <<j, row[j].attempts>> \in succeeded

\* Once a stopping worker's intake is closed it stays closed: not even a lease
\* that was purged and is written again by the drain's heartbeat opens it.  The
\* heartbeat that was under way when the worker stopped is the one exception.
IntakeStaysClosed ==
    [][\A w \in Runtime :
          proc[w] # "up" /\ w \notin late /\ ~lease[w].accepting
            => ~lease'[w].accepting]_vars

\* What close_intake is documented to achieve: a heartbeat that recreates a
\* purged lease during the drain recreates it closed.
DrainRecreatesClosed ==
    [][\A w \in Runtime :
          proc[w] # "up" /\ w \in stalled /\ ~lease[w].present
            => ~lease'[w].accepting]_vars

\* What the resolver of a lost dequeue is documented to rely on: a claim that
\* never committed matches no row.
NeverLandedMatchesNoRow ==
    \A c \in unlanded : c \in UNION unacked => ~Holds(c)

-----------------------------------------------------------------------------
(***************************************************************************)
(* Liveness                                                                *)
(***************************************************************************)

\* What a worker does about an attempt without the handler's cooperation.
Handles(a) ==
    \/ Process(a) \/ HandlerCancelled(a) \/ PollAbort(a) \/ RequestAbort(a)
    \/ TryFinalize(a) \/ DrainOnShutdown(a) \/ RereadRefusal(a)
    \/ FinishAbortedFallback(a)

\* Time passes; a worker's loops keep running, so do its resolvers and its
\* shutdown; a claim transaction ends; sweep passes go on, and not every one
\* of them fails.  A handler may run for ever, nobody has to send a heartbeat,
\* and an operator does nothing.
Fairness ==
    /\ WF_vars(Tick)
    /\ \A w \in Runtime :
          /\ WF_vars(FetcherStops(w))
          /\ WF_vars(Retire(w))
          /\ WF_vars(CommitLands(w) \/ CommitNeverLands(w))
          /\ WF_vars(\E a \in inflight : a.worker = w /\ Handles(a))
          /\ WF_vars(\E b \in unacked : (\A c \in b : c.worker = w) /\ ResolveUnacknowledged(b))
    /\ \A s \in Sweeper :
          /\ WF_vars(SweepScan(s))
          /\ SF_vars(SweepMark(s))
          /\ SF_vars(SweepRetry(s))
          /\ SF_vars(SweepAbort(s))

FairSpec == Spec /\ Fairness

\* A row whose attempt no process knows of any more (its worker died, gave up
\* or never heard of the claim) does not stay under that attempt: a resolver
\* or the sweeper takes it back.
OrphanRecovered ==
    \A w \in Runtime, j \in Job, n \in 1..Ceiling :
        LET c == [worker |-> w, job |-> j, n |-> n]
        IN  (Holds(c) /\ \A a \in inflight : ClaimOf(a) # c) ~> ~Holds(c)

\* An abort that was requested comes to an end, whether or not the handler
\* reacts to it and whether or not its worker survives.
AbortSettles ==
    \A j \in Job : (row[j].status = "aborting") ~> (row[j].status # "aborting")

\* Nothing stays as a dead, stuck or deaf worker has left it: claims nobody
\* knows of are taken back, and requested aborts come to their end.
Settles == OrphanRecovered /\ AbortSettles

-----------------------------------------------------------------------------
(***************************************************************************)
(* Refinement: the tables implement the life of a job                      *)
(***************************************************************************)

LifePhase(status) ==
    CASE status = "queued" -> "waiting"
      [] status \in {"running", "aborting"} -> "held"
      [] OTHER -> status

\* A row is cancelled when it is aborting and not by the sweeper's marker.
LifeOf(r) ==
    [ phase |-> LifePhase(r.status), tries |-> r.attempts,
      cancelled |-> r.status = "aborting" /\ ~Swept(r) ]

Lifecycle == INSTANCE JobLifecycle WITH life <- [j \in Job |-> LifeOf(row[j])]

\* Every statement of every party is a step of a job's life, or none.
ImplementsLifecycle == Lifecycle!Spec

=============================================================================
