---------------------------- MODULE CronSchedule ----------------------------
(***************************************************************************)
(* Durable cron scheduling.  Every worker registers its crons, reconciles  *)
(* them with the rows of ironqueue.cron_schedules, and then advances the   *)
(* cursor next_run_at of each row, publishing a job for the occurrence it  *)
(* passes.  The rows are the authority: between workers of two releases    *)
(* the higher revision wins.  A claim in ironqueue.cron_occurrences keeps  *)
(* an occurrence from being published twice after the cursor was lost.     *)
(*                                                                         *)
(* A continuous worker runs a pass per tick, skipping rows that are        *)
(* locked; a burst runs passes up to a fixed boundary, waits for locked    *)
(* rows, and ends.  Transactions are interrupted where another session can *)
(* get in between; what is not committed is not in the shared variables.   *)
(***************************************************************************)
EXTENDS Integers, Sequences, FiniteSets

CONSTANTS
    Worker, CronKey,
    Deployments,    \* which crons each worker registers, and which are bursts
    Fires,          \* the times at which each expression matches
    Second,         \* one second in units of the clock
    None,           \* no row, no time, no holder of a lock
    Stranger,       \* a session that is not a scheduler
    MaxClock, MaxMishaps, MaxEvents, MaxContended

Expression == DOMAIN Fires

Entry == [revision : Nat, expression : Expression, definition : Nat,
          misfire : {"skip", "fire_once"},
          grace : Nat]      \* 0 when the adaptive default is used

\* What a worker compares with a row before it uses it.
SameRelease(e, f) == e.revision = f.revision /\ e.definition = f.definition

\* A row of cron_schedules.
ScheduleRow == [entry : Entry, next : Nat]

\* A five-field expression that fires at all fires again and again, so also
\* after the last moment that is looked at.  What one key stands for is not
\* changed without a new revision, a deploy mistake.
ASSUME CronAssumption ==
    /\ IsFiniteSet(Worker) /\ IsFiniteSet(CronKey)
    /\ Fires \in [Expression -> SUBSET Nat]
    /\ \A x \in Expression :
        Fires[x] = {} \/ \E time \in Fires[x] : time > MaxClock
    /\ \A d \in Deployments :
        /\ d.burst \subseteq Worker
        /\ \A w \in Worker : /\ DOMAIN d.crons[w] \subseteq CronKey
                             /\ \A k \in DOMAIN d.crons[w] :
                                  d.crons[w][k] \in Entry
        /\ \A v, w \in Worker :
             \A k \in DOMAIN d.crons[v] \cap DOMAIN d.crons[w] :
               SameRelease(d.crons[v][k], d.crons[w][k]) =>
                 d.crons[v][k] = d.crons[w][k]
    /\ Second \in Nat \ {0}
    /\ None \notin Nat /\ None \notin ScheduleRow
    /\ None \notin Worker /\ Stranger \notin Worker
    /\ Stranger # None
    /\ {MaxClock, MaxMishaps, MaxEvents, MaxContended} \subseteq Nat

VARIABLES
    deployment, \* chosen once
    clock,      \* the database's clock
    schedule,   \* cron_schedules: the stored entry and next_run_at of a key
    rowLock,    \* who has the row of a key locked
    advisory,   \* who has the enqueue lock of a key
    claims,     \* cron_occurrences
    live,       \* a live job holds the dedupe key
    jobs,       \* the cron jobs published under a key
    \* each worker
    step, starting, through, todo, key,
    now,        \* the clock reading its statement goes by
    plan,       \* what schedule_cron decided and has not committed yet
    state,      \* CronSchedulingState, and whether this pass failed
    advanced,   \* this pass moved a cursor
    health,     \* what it last reported for WorkerComponent::Scheduler
    \* bounds
    mishaps, events

table == <<schedule, claims, live, jobs>>
locks == <<rowLock, advisory>>
local == <<step, starting, through, todo, key, now, plan, state, advanced,
           health>>
cronVars == <<clock, table, locks, local, mishaps, events>>

\* The crons of a worker, their keys, and the workers in burst mode.
Crons(w) == deployment.crons[w]
Registered(w) == DOMAIN Crons(w)
Bursts == deployment.burst

---------------------------------------------------------------------------
(* The algebra of occurrences.                                             *)

Earliest(times) == CHOOSE x \in times : \A y \in times : x <= y
Latest(times) == CHOOSE x \in times : \A y \in times : x >= y

\* The next fire time strictly after t; None for an expression that never
\* matches again.
NextOccurrence(e, t) ==
    LET later == {x \in Fires[e.expression] : x > t} IN
    IF later = {} THEN None ELSE Earliest(later)

\* The latest fire time at or before t.
PreviousOccurrence(e, t) == Latest({x \in Fires[e.expression] : x <= t})

Grace(e, occurrence, successor) ==
    CASE e.misfire = "fire_once" -> successor - occurrence
      [] e.misfire = "skip" /\ e.grace # 0 -> e.grace
      [] OTHER -> Latest({(successor - occurrence) \div 5, Second})

PublicationDeadline(e, occurrence) ==
    LET successor == NextOccurrence(e, occurrence) IN
    Earliest({successor, occurrence + Grace(e, occurrence, successor)})

InTime(e, occurrence, t) == t < PublicationDeadline(e, occurrence)

\* Mutant: a stale cursor jumps to the next occurrence.
JumpToNext(e, stored, t) ==
    [occurrence |-> stored, publish |-> InTime(e, stored, t)]

\* Which occurrence a Skip schedule publishes at t: the stored one, or else
\* the most recent one if that is still in time.
SkipCatchUp(e, stored, t) ==
    LET recent == PreviousOccurrence(e, t)
        behind == ~InTime(e, stored, t) /\ recent > stored
                                        /\ InTime(e, recent, t)
    IN  [occurrence |-> IF behind THEN recent ELSE stored,
         publish |-> behind \/ InTime(e, stored, t)]

FireOnce(e, t) == [occurrence |-> PreviousOccurrence(e, t), publish |-> TRUE]

\* A burst chooses its occurrence at its boundary.
SchedulingTime(w, current) == IF through[w] = None THEN current ELSE through[w]

\* Mutant: a claim lasts a second.
ExpiresInASecond(successor, current) == current + Second

ClaimExpiry(successor, current) == Latest({successor, current + Second})

\* What schedule_cron does about a row whose cursor is `stored`, at `current`.
Decision(w, e, stored, current) ==
    LET time == SchedulingTime(w, current)
        choice == IF e.misfire = "skip" THEN SkipCatchUp(e, stored, time)
                                        ELSE FireOnce(e, time)
        successor == NextOccurrence(e, choice.occurrence)
        publish == choice.publish /\ InTime(e, choice.occurrence, current)
    IN  [occurrence |-> choice.occurrence,
         publish |-> publish,
         next |-> IF publish THEN successor ELSE NextOccurrence(e, time),
         expires |-> ClaimExpiry(successor, current),
         late |-> FALSE]

NoPlan == [occurrence |-> 0, publish |-> FALSE, next |-> 0, expires |-> 0,
           late |-> FALSE]

---------------------------------------------------------------------------
FreshState == [disabled |-> {}, reasons |-> {}, unreconciled |-> {},
               rejected |-> {}, contended |-> [k \in CronKey |-> 0],
               failed |-> FALSE]

InPass == {"due", "observe", "lock", "decide", "claim", "insert", "reread"}
Reconciling == {"clock", "upsert"}

CronTypeOK ==
    /\ deployment \in Deployments
    /\ clock \in 0..MaxClock
    /\ \A k \in CronKey : schedule[k] = None \/
         /\ \E w \in Worker : /\ k \in Registered(w)
                             /\ schedule[k].entry = Crons(w)[k]
         /\ schedule[k].next \in Fires[schedule[k].entry.expression]
    /\ rowLock \in [CronKey -> Worker \cup {None, Stranger}]
    /\ advisory \in [CronKey -> Worker \cup {None, Stranger}]
    /\ live \in [CronKey -> BOOLEAN]
    /\ step \in [Worker -> {"down", "boundary", "idle", "done", "failed"}
                             \cup InPass \cup Reconciling]
    /\ todo \in [Worker -> SUBSET CronKey]
    /\ through \in [Worker -> 0..MaxClock \cup {None}]
    \* A cron is disabled, or to be reconciled, or neither.
    /\ \A w \in Worker : state[w].disabled \cap state[w].unreconciled = {}
    /\ \A w \in Worker : state[w].rejected \subseteq state[w].unreconciled
    \* A transaction that has read the row has it locked.
    /\ \A w \in Worker : step[w] \in {"decide", "claim", "insert", "reread"} =>
                             /\ rowLock[key[w]] = w
                             /\ schedule[key[w]] # None
    /\ \A w \in Worker : step[w] \in {"claim", "insert", "reread"} =>
                             advisory[key[w]] = w
    /\ health \in [Worker -> {"starting", "ok", "failed"}]
    /\ mishaps \in 0..MaxMishaps /\ events \in 0..MaxEvents

CronInit ==
    /\ deployment \in Deployments
    /\ clock = 0
    /\ schedule = [k \in CronKey |-> None]
    /\ rowLock = [k \in CronKey |-> None]
    /\ advisory = [k \in CronKey |-> None]
    /\ claims = [k \in CronKey |-> {}]
    /\ live = [k \in CronKey |-> FALSE]
    /\ jobs = [k \in CronKey |-> <<>>]
    /\ step = [w \in Worker |-> "down"]
    /\ starting = [w \in Worker |-> FALSE]
    /\ through = [w \in Worker |-> None]
    /\ todo = [w \in Worker |-> {}]
    /\ key = [w \in Worker |-> None]
    /\ now = [w \in Worker |-> None]
    /\ plan = [w \in Worker |-> NoPlan]
    /\ state = [w \in Worker |-> FreshState]
    /\ advanced = [w \in Worker |-> FALSE]
    /\ health = [w \in Worker |-> "starting"]
    /\ mishaps = 0 /\ events = 0

\* The local variables of a statement or a transaction that is over.
Finished(w) ==
    /\ key' = [key EXCEPT ![w] = None]
    /\ now' = [now EXCEPT ![w] = None]
    /\ plan' = [plan EXCEPT ![w] = NoPlan]

---------------------------------------------------------------------------
(* CronSchedulingState.                                                    *)

Disable(st, k) == [st EXCEPT !.disabled = @ \cup {k}, !.reasons = @ \cup {k},
                             !.unreconciled = @ \ {k}]

Postpone(st, k) == [st EXCEPT !.unreconciled = @ \cup {k},
                              !.rejected = @ \cup {k}]

Settle(st, k) == [st EXCEPT !.unreconciled = @ \ {k}]

\* Mutant: only reconciliation is retried.
TroubleNoted(st, k) == [st EXCEPT !.failed = TRUE]

\* schedule_cron returned an error.
Troubled(st, k) == [st EXCEPT !.unreconciled = @ \cup {k}, !.failed = TRUE]

Contended(st, k) ==
    [st EXCEPT !.contended[k] = IF @ < MaxContended THEN @ + 1 ELSE @]

\* Mutant: retried mishaps take the permanent ones with them.
ForgetReasons(st) == [st EXCEPT !.rejected = {}, !.reasons = {}]

\* A pass that retries reconciliation collects its mishaps anew.
ForgetRejected(st) == [st EXCEPT !.rejected = {}]

SchedulerHealth(st) ==
    IF \/ st.reasons \cup st.rejected # {}
       \/ \E k \in CronKey : st.contended[k] >= MaxContended
       \/ st.failed
    THEN "failed" ELSE "ok"

---------------------------------------------------------------------------
(* reconcile_all_crons and reconcile_crons_into.                           *)

\* The process starts; it may be a new one in the place of one that died.
StartScheduler(w) ==
    /\ step[w] = "down"
    /\ Registered(w) # {}
    /\ step' = [step EXCEPT ![w] = "clock"]
    /\ starting' = [starting EXCEPT ![w] = TRUE]
    /\ todo' = [todo EXCEPT ![w] = Registered(w)]
    /\ UNCHANGED <<clock, table, locks, through, key, now, plan, state,
                   advanced, health, mishaps, events>>

ReadClock(w) ==
    /\ step[w] = "clock"
    /\ \E k \in todo[w] : key' = [key EXCEPT ![w] = k]
    /\ now' = [now EXCEPT ![w] = clock]
    /\ step' = [step EXCEPT ![w] = "upsert"]
    /\ UNCHANGED <<clock, table, locks, starting, through, todo, plan, state,
                   advanced, health, mishaps, events>>

\* After the last cron the worker goes on with what it reconciled for.
AfterReconciling(w, rest) ==
    IF rest # {} THEN "clock"
    ELSE IF ~starting[w] THEN "due"
    ELSE IF w \in Bursts THEN "boundary" ELSE "idle"

\* Reconciliation of k is over, with the outcome in st.
Reconciled(w, k, st) ==
    LET rest == todo[w] \ {k} IN
    /\ state' = [state EXCEPT ![w] = st]
    /\ todo' = [todo EXCEPT ![w] = rest]
    /\ step' = [step EXCEPT ![w] = AfterReconciling(w, rest)]
    /\ health' = [health EXCEPT ![w] =
                    IF rest = {} /\ starting[w] THEN SchedulerHealth(st)
                                                ELSE @]
    /\ starting' = [starting EXCEPT ![w] = @ /\ rest # {}]
    /\ Finished(w)
    /\ UNCHANGED <<clock, rowLock, advisory, through, advanced, claims, live,
                   jobs, events>>

\* The row after the upsert of entry e, whose clock reading was t.  The cursor
\* is kept while the expression stays the same.
Upserted(e, t, row) ==
    IF row # None /\ row.entry.revision >= e.revision
    THEN row
    ELSE [entry |-> e,
          next |-> IF row # None /\ row.entry.expression = e.expression
                   THEN row.next
                   ELSE NextOccurrence(e, t)]

Upsert(w, k) ==
    /\ rowLock[k] = None
    /\ schedule' = [schedule EXCEPT ![k] = Upserted(Crons(w)[k], now[w], @)]

Reconcile(w) ==
    LET k == key[w]
        e == Crons(w)[k]
    IN
    /\ step[w] = "upsert"
    /\ \/ /\ NextOccurrence(e, now[w]) = None      \* Error::Config
          /\ Reconciled(w, k, Disable(state[w], k))
          /\ UNCHANGED schedule
       \/ /\ NextOccurrence(e, now[w]) # None
          /\ Upsert(w, k)
          /\ Reconciled(w, k, IF schedule'[k].entry = e
                              THEN Settle(state[w], k)
                              ELSE Disable(state[w], k))
    /\ UNCHANGED mishaps

\* The clock cannot be read, or the transaction fails or times out; it may
\* have been committed.
ReconcileFails(w) ==
    /\ mishaps < MaxMishaps /\ mishaps' = mishaps + 1
    /\ \/ /\ step[w] = "clock" /\ UNCHANGED schedule
          /\ \E k \in todo[w] : Reconciled(w, k, Postpone(state[w], k))
       \/ /\ step[w] = "upsert"
          /\ NextOccurrence(Crons(w)[key[w]], now[w]) # None
          /\ Upsert(w, key[w]) \/ UNCHANGED schedule
          /\ Reconciled(w, key[w], Postpone(state[w], key[w]))

\* The budget of a burst cuts its startup reconciliation off.
CutReconcile(w) ==
    /\ w \in Bursts /\ starting[w] /\ step[w] \in Reconciling
    /\ mishaps < MaxMishaps /\ mishaps' = mishaps + 1
    /\ \/ UNCHANGED schedule
       \/ /\ step[w] = "upsert"
          /\ NextOccurrence(Crons(w)[key[w]], now[w]) # None
          /\ Upsert(w, key[w])
    /\ step' = [step EXCEPT ![w] = "boundary"]
    /\ starting' = [starting EXCEPT ![w] = FALSE]
    /\ todo' = [todo EXCEPT ![w] = {}]
    /\ Finished(w)
    /\ UNCHANGED <<clock, claims, live, jobs, locks, through, state, advanced,
                   health, events>>

---------------------------------------------------------------------------
(* schedule_crons_once.                                                    *)

ReadBoundary(w) ==
    /\ step[w] = "boundary"
    /\ \/ /\ through' = [through EXCEPT ![w] = clock]
          /\ step' = [step EXCEPT ![w] = "idle"]
          /\ UNCHANGED <<health, mishaps>>
       \/ /\ mishaps < MaxMishaps /\ mishaps' = mishaps + 1
          /\ health' = [health EXCEPT ![w] = "failed"]
          \* The budget may be used up.
          /\ step' \in {step, [step EXCEPT ![w] = "failed"]}
          /\ UNCHANGED through
    /\ UNCHANGED <<clock, table, locks, starting, todo, key, now, plan, state,
                   advanced, events>>

BeginPass(w) ==
    LET retry == state[w].unreconciled # {} IN
    /\ step[w] = "idle"
    /\ step' = [step EXCEPT ![w] = IF retry THEN "clock" ELSE "due"]
    /\ todo' = [todo EXCEPT ![w] = state[w].unreconciled]
    /\ state' = [state EXCEPT ![w] = IF retry THEN ForgetRejected(@) ELSE @]
    /\ UNCHANGED <<clock, table, locks, starting, through, key, now, plan,
                   advanced, health, mishaps, events>>

\* The pass goes on with the rest of the crons that are due, or is over: a
\* burst ends when nothing moved and nothing is in trouble, or when trouble
\* has used up its budget.
AfterCron(w, rest, st, moved) ==
    IF rest # {} THEN {"observe"}
    ELSE IF w \notin Bursts THEN {"idle"}
    ELSE IF st.unreconciled # {} THEN {"idle", "failed"}
    ELSE IF moved THEN {"idle"} ELSE {"done"}

Proceed(w, rest, st, moved) ==
    /\ state' = [state EXCEPT ![w] = [st EXCEPT !.failed = @ /\ rest # {}]]
    /\ todo' = [todo EXCEPT ![w] = rest]
    /\ advanced' = [advanced EXCEPT ![w] = moved /\ rest # {}]
    /\ health' = [health EXCEPT ![w] =
                    IF rest = {} THEN SchedulerHealth(st) ELSE @]
    /\ Finished(w)
    /\ \E next \in AfterCron(w, rest, st, moved) :
         step' = [step EXCEPT ![w] = next]
    /\ UNCHANGED <<clock, starting, through, events>>

IsDue(row, t) == row = None \/ row.next <= t

ReadDue(w) ==
    LET candidates ==
            Registered(w) \ (state[w].disabled \cup state[w].unreconciled)
        Look(due) ==
            /\ Proceed(w, due,
                 [state[w] EXCEPT !.contended =
                     [k \in CronKey |-> IF k \in due THEN @[k] ELSE 0]], FALSE)
            /\ UNCHANGED <<table, locks>>
    IN
    /\ step[w] = "due"
    /\ \/ /\ Look({k \in candidates :
                     IsDue(schedule[k], SchedulingTime(w, clock))})
          /\ UNCHANGED mishaps
       \/ /\ candidates # {} /\ mishaps < MaxMishaps /\ mishaps' = mishaps + 1
          /\ Look(candidates)

\* schedule_cron, which leaves the table alone, is over with k.
DoneWith(w, k, st) ==
    /\ Proceed(w, todo[w] \ {k}, st, advanced[w])
    /\ UNCHANGED table

\* schedule_cron reads the row before it locks it; now() is the time at which
\* the transaction began.
ReadSchedule(w) ==
    /\ step[w] = "observe"
    /\ \E k \in todo[w] :
         LET e == Crons(w)[k]
             row == schedule[k]
             st == [state[w] EXCEPT !.contended[k] = 0]
         IN
         \/ /\ row = None
            /\ DoneWith(w, k, Troubled(st, k))
         \/ /\ row # None /\ row.entry # e     \* superseded or conflicting
            /\ DoneWith(w, k, Disable(st, k))
         \/ /\ row # None /\ row.entry = e
            /\ ~IsDue(row, SchedulingTime(w, clock))
            /\ DoneWith(w, k, st)
         \/ /\ row # None /\ row.entry = e
            /\ IsDue(row, SchedulingTime(w, clock))
            /\ key' = [key EXCEPT ![w] = k]
            /\ now' = [now EXCEPT ![w] = clock]
            /\ step' = [step EXCEPT ![w] = "lock"]
            /\ UNCHANGED <<clock, table, starting, through, todo, plan, state,
                           advanced, health, events>>
    /\ UNCHANGED <<locks, mishaps>>

\* What SELECT ... FOR UPDATE asks of the row.
Selected(w, k) ==
    LET e == Crons(w)[k]
        row == schedule[k]
    IN  /\ row # None
        /\ SameRelease(row.entry, e)
        /\ row.next <= SchedulingTime(w, now[w])

WaitsForRow(w) == w \in Bursts

LockRow(w, k) == rowLock' = [rowLock EXCEPT ![k] = w]

LockSchedule(w) ==
    LET k == key[w]
        st == [state[w] EXCEPT !.contended[k] = 0]
    IN
    /\ step[w] = "lock"
    /\ WaitsForRow(w) => rowLock[k] = None
    /\ \/ /\ rowLock[k] = None /\ Selected(w, k)
          /\ LockRow(w, k)
          /\ step' = [step EXCEPT ![w] = "decide"]
          /\ UNCHANGED <<clock, table, starting, through, todo, key, now, plan,
                         state, advanced, health, events>>
       \/ /\ rowLock[k] # None \/ ~Selected(w, k)
          /\ DoneWith(w, k, IF w \in Bursts THEN st
                                            ELSE Contended(state[w], k))
          /\ UNCHANGED rowLock
    /\ UNCHANGED <<advisory, mishaps>>

\* COMMIT and ROLLBACK let go of the locks of the transaction.
Unlock(w) ==
    /\ rowLock' = [k \in CronKey |-> IF rowLock[k] = w THEN None
                                                      ELSE rowLock[k]]
    /\ advisory' = [k \in CronKey |-> IF advisory[k] = w THEN None
                                                        ELSE advisory[k]]

\* The transaction on k is committed with its claim and its cursor; if the
\* answer to COMMIT is lost, it is an error to the worker.
CommitOccurrence(w, k, p, published) ==
    LET st == [state[w] EXCEPT !.contended[k] = 0]
        known == {c.at : c \in claims[k]}
    IN
    /\ claims' = [claims EXCEPT ![k] = IF p.occurrence \in known THEN @
                    ELSE @ \cup {[at |-> p.occurrence, expires |-> p.expires]}]
    /\ schedule' = [schedule EXCEPT ![k] = IF @ = None THEN @
                                           ELSE [@ EXCEPT !.next = p.next]]
    /\ Unlock(w)
    /\ jobs' = IF published
               THEN [jobs EXCEPT ![k] = Append(@, [at |-> p.occurrence,
                        expression |-> Crons(w)[k].expression,
                        revision |-> Crons(w)[k].revision,
                        late |-> p.late])]
               ELSE jobs
    /\ live' = IF published THEN [live EXCEPT ![k] = TRUE] ELSE live
    /\ \/ /\ Proceed(w, todo[w] \ {k}, st, w \in Bursts)
          /\ UNCHANGED mishaps
       \/ /\ mishaps < MaxMishaps /\ mishaps' = mishaps + 1
          /\ Proceed(w, todo[w] \ {k}, Troubled(st, k), advanced[w])

\* The enqueue lock of the key may have been held for long, so the clock is
\* read again once it is taken.
ReadTime(w) ==
    LET k == key[w] IN
    /\ step[w] = "decide"
    /\ advisory[k] = None
    /\ advisory' = [advisory EXCEPT ![k] = w]
    /\ plan' = [plan EXCEPT ![w] =
                  Decision(w, Crons(w)[k], schedule[k].next, clock)]
    /\ step' = [step EXCEPT ![w] = "claim"]
    /\ UNCHANGED <<clock, table, rowLock, starting, through, todo, key, now,
                   state, advanced, health, mishaps, events>>

\* The claim is inserted some time after the clock was read.  Already
\* published, stale and held occurrences are passed over.  `late` remembers
\* that the occurrence went out of time in between.
ClaimOccurrence(w) ==
    LET k == key[w]
        p == plan[w]
        pass == \/ \E c \in claims[k] : c.at = p.occurrence
                \/ ~p.publish
                \/ live[k]
    IN
    /\ step[w] = "claim"
    /\ \/ /\ pass
          /\ CommitOccurrence(w, k, p, FALSE)
       \/ /\ ~pass
          /\ plan' = [plan EXCEPT ![w].late =
                        ~InTime(Crons(w)[k], p.occurrence, clock)]
          /\ step' = [step EXCEPT ![w] = "insert"]
          /\ UNCHANGED <<clock, table, locks, starting, through, todo, key,
                         now, state, advanced, health, mishaps, events>>

\* A writer that does not take the enqueue lock may have got in between.
InsertJob(w) ==
    /\ step[w] = "insert"
    /\ \/ /\ ~live[key[w]]
          /\ CommitOccurrence(w, key[w], plan[w], TRUE)
       \/ /\ live[key[w]]
          /\ step' = [step EXCEPT ![w] = "reread"]
          /\ UNCHANGED <<clock, table, locks, starting, through, todo, key,
                         now, plan, state, advanced, health, mishaps, events>>

\* schedule_cron fails before its commit.
AbandonCron(w, k) ==
    /\ DoneWith(w, k, Troubled([state[w] EXCEPT !.contended[k] = 0], k))
    /\ Unlock(w)

\* Who blocked the insert is read once more; if it is gone, DedupeRace.
RereadHolder(w) ==
    /\ step[w] = "reread"
    /\ \/ /\ live[key[w]]
          /\ CommitOccurrence(w, key[w], plan[w], FALSE)
       \/ /\ ~live[key[w]]
          /\ AbandonCron(w, key[w]) /\ UNCHANGED mishaps

ScheduleFails(w) ==
    /\ mishaps < MaxMishaps /\ mishaps' = mishaps + 1
    /\ \/ /\ step[w] = "observe"
          /\ \E k \in todo[w] : AbandonCron(w, k)
       \/ /\ step[w] \in InPass \ {"due", "observe"}
          /\ AbandonCron(w, key[w])

\* WORKER_DB_OPERATION_TIMEOUT passes during the pass.
CutPass(w) ==
    /\ step[w] \in InPass \cup Reconciling /\ ~starting[w]
    /\ mishaps < MaxMishaps /\ mishaps' = mishaps + 1
    /\ Unlock(w)
    /\ health' = [health EXCEPT ![w] = "failed"]
    /\ \E next \in IF w \in Bursts THEN {"idle", "failed"} ELSE {"idle"} :
         step' = [step EXCEPT ![w] = next]
    /\ todo' = [todo EXCEPT ![w] = {}]
    /\ state' = [state EXCEPT ![w].failed = FALSE]
    /\ advanced' = [advanced EXCEPT ![w] = FALSE]
    /\ Finished(w)
    /\ \/ UNCHANGED schedule
       \/ /\ step[w] = "upsert"
          /\ NextOccurrence(Crons(w)[key[w]], now[w]) # None
          /\ Upsert(w, key[w])
    /\ UNCHANGED <<clock, claims, live, jobs, starting, through, events>>

\* The process dies, or its token is cancelled and the futures are dropped.
Die(w) ==
    /\ step[w] \notin {"down", "done", "failed"}
    /\ mishaps < MaxMishaps /\ mishaps' = mishaps + 1
    /\ step' = [step EXCEPT ![w] = "down"]
    /\ starting' = [starting EXCEPT ![w] = FALSE]
    /\ through' = [through EXCEPT ![w] = None]
    /\ todo' = [todo EXCEPT ![w] = {}]
    /\ state' = [state EXCEPT ![w] = FreshState]
    /\ advanced' = [advanced EXCEPT ![w] = FALSE]
    /\ health' = [health EXCEPT ![w] = "starting"]
    /\ Finished(w)
    /\ Unlock(w)
    /\ UNCHANGED <<clock, table, events>>

---------------------------------------------------------------------------
(* Everybody else.                                                         *)

Tick ==
    /\ clock < MaxClock /\ clock' = clock + 1
    /\ UNCHANGED <<table, locks, local, mishaps, events>>

\* Queue::remove_cron_schedule.
RemoveSchedule(k) ==
    /\ schedule[k] # None /\ rowLock[k] = None
    /\ events < MaxEvents /\ events' = events + 1
    /\ schedule' = [schedule EXCEPT ![k] = None]
    /\ UNCHANGED <<clock, claims, live, jobs, locks, local, mishaps>>

\* The sweeper's purge_cron_occurrences.
PurgeClaims(k) ==
    LET expired == {c \in claims[k] : c.expires <= clock} IN
    /\ expired # {}
    /\ claims' = [claims EXCEPT ![k] = @ \ expired]
    /\ UNCHANGED <<clock, schedule, live, jobs, locks, local, mishaps, events>>

\* A session outside holds the schedule row, or a producer's transaction the
\* enqueue lock.
OutsideLock(k) ==
    /\ events < MaxEvents /\ events' = events + 1
    /\ \/ /\ schedule[k] # None /\ rowLock[k] = None
          /\ rowLock' = [rowLock EXCEPT ![k] = Stranger]
          /\ UNCHANGED advisory
       \/ /\ advisory[k] = None
          /\ advisory' = [advisory EXCEPT ![k] = Stranger]
          /\ UNCHANGED rowLock
    /\ UNCHANGED <<clock, table, local, mishaps>>

OutsideUnlock(k) ==
    /\ rowLock[k] = Stranger \/ advisory[k] = Stranger
    /\ Unlock(Stranger)
    /\ UNCHANGED <<clock, table, local, mishaps, events>>

\* SQL that does not take the enqueue lock inserts a job under the key.
ForeignInsert(k) ==
    /\ ~live[k] /\ live' = [live EXCEPT ![k] = TRUE]
    /\ events < MaxEvents /\ events' = events + 1
    /\ UNCHANGED <<clock, schedule, claims, jobs, locks, local, mishaps>>

JobFinishes(k) ==
    /\ live[k] /\ live' = [live EXCEPT ![k] = FALSE]
    /\ UNCHANGED <<clock, schedule, claims, jobs, locks, local, mishaps,
                   events>>

---------------------------------------------------------------------------
CronStep(w) ==
    \/ StartScheduler(w) \/ ReadClock(w) \/ Reconcile(w) \/ ReadBoundary(w)
    \/ BeginPass(w) \/ ReadDue(w) \/ ReadSchedule(w) \/ LockSchedule(w)
    \/ ReadTime(w) \/ ClaimOccurrence(w) \/ InsertJob(w) \/ RereadHolder(w)

Failure(w) ==
    \/ ReconcileFails(w) \/ CutReconcile(w) \/ ScheduleFails(w) \/ CutPass(w)
    \/ Die(w)

Others(k) ==
    \/ RemoveSchedule(k) \/ PurgeClaims(k) \/ OutsideLock(k)
    \/ OutsideUnlock(k) \/ ForeignInsert(k) \/ JobFinishes(k)

CronNext ==
    /\ \/ Tick
       \/ \E w \in Worker :
            \/ CronStep(w) \/ Failure(w)
            \/ \E k \in Registered(w) : Others(k)
    /\ UNCHANGED deployment

CronSpec == CronInit /\ [][CronNext]_<<deployment, cronVars>>

---------------------------------------------------------------------------
(* Properties.                                                             *)

(***************************************************************************)
(* An occurrence of an expression becomes one job, and another only when   *)
(* schedule_cron claimed it out of time.  The cursor alone does not ensure *)
(* it: the row may be removed while a worker that read the clock before    *)
(* the occurrence is about to write a new one, and then only the claim     *)
(* tells that the occurrence was published.  The claim is kept for as long *)
(* as the occurrence is in time; the exception is a scheduler that reads   *)
(* the clock in time, is held up, and inserts its claim when the sweeper   *)
(* has purged the one before: the sweeper waits for no lock.               *)
(***************************************************************************)
PublishedOnce ==
    \A k \in CronKey : \A i, j \in DOMAIN jobs[k] :
        /\ i < j
        /\ jobs[k][i].at = jobs[k][j].at
        /\ jobs[k][i].expression = jobs[k][j].expression
        => jobs[k][j].late

(***************************************************************************)
(* A cursor never passes an occurrence in silence: every occurrence it     *)
(* leaves behind has a job or a claim already, gets its job now, was       *)
(* skipped because a live job held the key, or was too late to publish.    *)
(* This covers the catch-up after a pause, the switch to another revision  *)
(* of the schedule and the row another worker advanced in between.         *)
(***************************************************************************)
Accounted(k, e, x) ==
    \/ \E c \in claims[k] : c.at = x
    \/ \E i \in DOMAIN jobs'[k] : jobs'[k][i].at = x
    \/ live[k]
    \/ ~InTime(e, x, clock)

NothingSkippedSilently ==
    [][\A k \in CronKey :
         schedule[k] # None /\ schedule'[k] # None =>
           LET e == schedule[k].entry IN
           e.expression = schedule'[k].entry.expression =>
             \A x \in Fires[e.expression] :
               schedule[k].next <= x /\ x < schedule'[k].next =>
                 Accounted(k, e, x)]_cronVars

(***************************************************************************)
(* Once a row belongs to a revision, only that revision publishes: a       *)
(* worker that has read the row before a newer release took it over does   *)
(* not commit its job afterwards.                                          *)
(***************************************************************************)
OnlyTheAuthorityPublishes ==
    [][\A k \in CronKey : jobs'[k] # jobs[k] =>
         LET job == jobs'[k][Len(jobs'[k])]
         IN  /\ schedule[k] # None
             /\ job.revision = schedule[k].entry.revision]_cronVars

(***************************************************************************)
(* A burst publishes nothing that became due after its boundary, however   *)
(* long it waited for a lock.                                              *)
(***************************************************************************)
BurstStaysAtItsBoundary ==
    [][\A k \in CronKey : \A w \in Bursts :
         jobs'[k] # jobs[k] /\ rowLock[k] = w =>
             jobs'[k][Len(jobs'[k])].at <= through[w]]_cronVars

(***************************************************************************)
(* A burst ends well only when the schedule it looked at last, or each of  *)
(* its schedules when the last pass found none to look at, is not due at   *)
(* its boundary: also when a peer had the row locked meanwhile and then    *)
(* did not publish.  A schedule looked at earlier in that pass may have    *)
(* been removed since and written again, due, by a peer that had read the  *)
(* clock before the boundary.                                              *)
(***************************************************************************)
BurstPublishesWhatIsDue ==
    [][\A w \in Bursts : \A k \in Registered(w) :
         /\ step[w] # "done" /\ step'[w] = "done"
         /\ step[w] = "due" \/ k \in todo[w]
         /\ k \notin state'[w].disabled
         =>
           ~(/\ schedule[k] # None /\ schedule[k].entry = Crons(w)[k]
             /\ schedule[k].next <= through[w])]_cronVars

(***************************************************************************)
(* A worker that reports its scheduler healthy between passes has no cron  *)
(* that it gave up and none that it still has to reconcile; the recovery   *)
(* of one cron does not hide the permanent failure of another.             *)
(***************************************************************************)
HealthIsHonest ==
    \A w \in Worker : step[w] = "idle" /\ health[w] = "ok" =>
        state[w].disabled = {} /\ state[w].unreconciled = {}

\* A worker that stays is responsible for the key: no other release has a
\* higher revision, and the expression matches some date.
Kept(k) ==
    \E w \in Worker \ Bursts :
        /\ k \in Registered(w)
        /\ Fires[Crons(w)[k].expression] # {}
        /\ \A v \in Worker :
            k \in Registered(v) => Crons(v)[k].revision <= Crons(w)[k].revision

(***************************************************************************)
(* A schedule that is due is dealt with, and one that was removed under    *)
(* the workers is written again, whatever failed before.                   *)
(***************************************************************************)
DueIsHandled ==
    \A k \in CronKey :
        []<>(Kept(k) => schedule[k] # None /\ schedule[k].next > clock)

(***************************************************************************)
(* What a step of a cron scheduler may never do: pass over an occurrence   *)
(* without recording it, publish under a schedule that is not the stored   *)
(* one, or, in a burst, go past its boundary or leave behind what was due. *)
(***************************************************************************)
CronSafety ==
    /\ []CronTypeOK
    /\ NothingSkippedSilently
    /\ OnlyTheAuthorityPublishes
    /\ BurstStaysAtItsBoundary
    /\ BurstPublishesWhatIsDue
=============================================================================
