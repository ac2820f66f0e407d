---------------------------- MODULE WorkerIntake ----------------------------
(***************************************************************************)
(* How a worker gets its rows: one fetcher dequeues for all the processors *)
(* that wait, hands the rows over in a buffer, and proves to a burst when  *)
(* the queue is drained.  Both sides sleep on tokio's Notify: notify_one   *)
(* on `demand` keeps one permit, notify_waiters on `refilled` reaches only *)
(* the futures that are enabled at that moment.                            *)
(*                                                                         *)
(* What a claim does to a row, and what becomes of a claim whose answer is *)
(* lost, is the matter of AttemptProtocol.  Time is not counted here: a    *)
(* budget that has been running may be used up at any later moment.        *)
(***************************************************************************)
EXTENDS Integers, FiniteSets

CONSTANTS
    Row,            \* jobs of the queue
    Processor,      \* the slots of the worker, `concurrency` of them
    NoJob,          \* a processor that has no row
    MaxBurstJobs,   \* max_burst_jobs; at least Row's size if there is no cap
    MaxChanges,     \* bound on how often the environment changes
    Stoppable       \* whether somebody may ask the worker to stop

ASSUME IntakeAssumption ==
    /\ IsFiniteSet(Row) /\ IsFiniteSet(Processor)
    /\ NoJob \notin Row
    /\ Stoppable \in BOOLEAN
    /\ MaxBurstJobs \in Nat \ {0}
    /\ MaxChanges \in Nat

VARIABLES
    burst,      \* the worker runs in burst mode; chosen once
    place,      \* where each row is
    db,         \* dequeues reach the database
    leased,     \* the lease row is live and accepting
    beating,    \* heartbeats land: WorkerInfo is not failing
    changes,    \* changes of the environment so far
    \* WorkerIntake
    idle, demandGeneration, drainedGeneration, stopping, permit,
    \* the processors
    at, generation, notified, late, job, budget,
    seen,       \* history: rows that could be claimed ever since it asked
    \* the fetcher
    fetcher, want, fetchGeneration, answer, unclaimable, failing, shutout,
    \* the run
    stop        \* stop_intake is cancelled

environment == <<db, leased, beating, changes>>
intake == <<idle, demandGeneration, drainedGeneration, stopping>>
slots == <<at, generation, late, job, budget>>
fetching == <<want, fetchGeneration, answer, unclaimable, failing, shutout>>
intakeVars == <<place, environment, intake, permit, slots, notified, seen,
                fetcher, fetching, stop>>

\* "held" rows are due, but another transaction has them locked; "answer" rows
\* are committed to this worker and not in the buffer yet.
Place == {"future", "ready", "held", "answer", "buffer", "working", "done",
          "returned"}

In(p) == {r \in Row : place[r] = p}

Budget == {"off", "running", "over"}

\* A wait ends with a row or with the processor's exit, so there are no more
\* generations than this.
MaxGeneration == Cardinality(Row) + Cardinality(Processor)

IntakeTypeOK ==
    /\ burst \in BOOLEAN
    /\ place \in [Row -> Place]
    /\ {db, leased, beating, stopping, permit, stop} \subseteq BOOLEAN
    /\ changes \in 0..MaxChanges
    /\ idle \in 0..Cardinality(Processor)
    /\ demandGeneration \in 0..MaxGeneration
    /\ drainedGeneration \in 0..demandGeneration
    /\ at \in [Processor -> {"top", "asking", "enabled", "looked", "waiting",
                             "working", "drained", "exited"}]
    /\ generation \in [Processor -> 0..demandGeneration]
    /\ notified \in [Processor -> BOOLEAN]
    /\ late \in [Processor -> BOOLEAN]
    /\ job \in [Processor -> Row \cup {NoJob}]
    /\ budget \in 0..MaxBurstJobs
    /\ seen \in [Processor -> SUBSET Row]
    /\ fetcher \in {"top", "asked", "claimed", "answered", "extended",
                    "select", "draining", "exited"}
    /\ want \in 0..Cardinality(Processor)
    /\ fetchGeneration \in 0..demandGeneration
    /\ answer \in [open : BOOLEAN, work : BOOLEAN]
    /\ {unclaimable, failing, shutout} \subseteq Budget

IntakeInit ==
    /\ burst \in BOOLEAN
    /\ place \in [Row -> {"future", "ready"}]
    /\ db = TRUE /\ changes = 0
    /\ leased \in BOOLEAN /\ beating = leased   \* the startup heartbeat may fail
    /\ idle = 0 /\ demandGeneration = 0 /\ drainedGeneration = 0
    /\ stopping = FALSE /\ permit = FALSE
    /\ at = [p \in Processor |-> "top"]
    /\ generation = [p \in Processor |-> 0]
    /\ notified = [p \in Processor |-> FALSE]
    /\ late = [p \in Processor |-> FALSE]
    /\ job = [p \in Processor |-> NoJob]
    /\ budget = MaxBurstJobs
    /\ seen = [p \in Processor |-> {}]
    /\ fetcher = "top" /\ want = 0 /\ fetchGeneration = 0
    /\ answer = [open |-> TRUE, work |-> FALSE]
    /\ unclaimable = "off" /\ failing = "off" /\ shutout = "off"
    /\ stop = FALSE

\* Rows move; a row that is not ready any more is not owed to anybody.
Move(rows, to) ==
    /\ place' = [r \in Row |-> IF r \in rows THEN to ELSE place[r]]
    /\ seen' = [p \in Processor |-> seen[p] \ rows]

Stay == UNCHANGED <<place, seen>>

Goto(p, to) == at' = [at EXCEPT ![p] = to]

\* refilled.notify_waiters: processors whose future is enabled.
Waiters == {p \in Processor : at[p] \in {"enabled", "looked", "waiting"}}

NotifyWaiters ==
    notified' = [p \in Processor |-> notified[p] \/ p \in Waiters]

-----------------------------------------------------------------------------
(***************************************************************************)
(* A processor: processor_loop and next_job                                *)
(***************************************************************************)

\* A burst reserves its budget before it waits for a row.
Reserve(p) ==
    \/ budget = 0 /\ Goto(p, "exited") /\ UNCHANGED budget
    \/ budget > 0 /\ Goto(p, "asking") /\ budget' = budget - 1

StartLoop(p) ==
    /\ at[p] = "top"
    /\ IF burst THEN Reserve(p) ELSE Goto(p, "asking") /\ UNCHANGED budget
    /\ UNCHANGED <<place, seen, environment, intake, permit, generation, late,
                   job, notified, fetcher, fetching, stop>>

\* demand.notify_one: the permit stays until the fetcher sleeps on it.
NotifyFetcher == TRUE

\* register_demand, demand.notify_one, and the first enable() of refill.
RegisterDemand(p) ==
    /\ at[p] = "asking"
    /\ demandGeneration' = demandGeneration + 1
    /\ generation' = [generation EXCEPT ![p] = demandGeneration + 1]
    /\ idle' = idle + 1
    /\ permit' = NotifyFetcher
    /\ seen' = [seen EXCEPT ![p] = In("ready")]
    /\ Goto(p, "enabled")
    /\ UNCHANGED <<place, environment, drainedGeneration, stopping, late, job,
                   budget, notified, fetcher, fetching, stop>>

\* What next_job knows goes with it.
ForgetWait(p) ==
    /\ generation' = [generation EXCEPT ![p] = 0]
    /\ late' = [late EXCEPT ![p] = FALSE]
    /\ notified' = [notified EXCEPT ![p] = FALSE]

\* withdraw_demand and the budget that goes back, for a processor that leaves
\* without a row.
Leave(p, as) ==
    /\ Goto(p, as)
    /\ idle' = idle - 1
    /\ budget' = IF burst THEN budget + 1 ELSE budget
    /\ ForgetWait(p)
    /\ seen' = [seen EXCEPT ![p] = {}]
    /\ UNCHANGED <<place, environment, demandGeneration, drainedGeneration,
                   stopping, permit, job, fetcher, fetching, stop>>

StopSeen(p) ==
    /\ at[p] \in {"enabled", "waiting"}
    /\ stop
    /\ Leave(p, "exited")

\* WorkerIntake::claim; the demand is withdrawn under the same lock.
Claim(p) ==
    /\ at[p] = "enabled"
    /\ ~stop
    /\ ~stopping
    /\ \E r \in In("buffer") :
        /\ Move({r}, "working")
        /\ job' = [job EXCEPT ![p] = r]
    /\ idle' = idle - 1
    /\ Goto(p, "working")
    /\ ForgetWait(p)
    /\ UNCHANGED <<environment, demandGeneration, drainedGeneration, stopping,
                   permit, budget, fetcher, fetching, stop>>

NothingToClaim == stopping \/ In("buffer") = {}

\* demand_is_drained
DemandIsDrained(p) == drainedGeneration >= generation[p]

\* WorkerFetch::Drained
Drained(p) ==
    /\ at[p] = "enabled"
    /\ ~stop
    /\ NothingToClaim
    /\ late[p]
    /\ DemandIsDrained(p)
    /\ Leave(p, "drained")

\* The buffer is empty and the drain not proved.
Look(p) ==
    /\ at[p] = "enabled"
    /\ ~stop
    /\ NothingToClaim
    /\ ~(late[p] /\ DemandIsDrained(p))
    /\ Goto(p, "looked")
    /\ UNCHANGED <<place, seen, environment, intake, permit, generation, late,
                   job, budget, notified, fetcher, fetching, stop>>

\* Mutant: the future is made only now, and knows nothing of a refill since the
\* buffer was looked at.
NotifiedSinceNow(p) == [notified EXCEPT ![p] = FALSE]

\* The future was enabled before the buffer was looked at.
NotifiedSinceEnabled(p) == notified

\* The select.
Sleep(p) ==
    /\ at[p] = "looked"
    /\ Goto(p, "waiting")
    /\ notified' = NotifiedSinceEnabled(p)
    /\ UNCHANGED <<place, seen, environment, intake, permit, generation, late,
                   job, budget, fetcher, fetching, stop>>

\* The refill future fires and is replaced, or poll_interval has passed.
Wake(p) ==
    /\ at[p] = "waiting"
    /\ Goto(p, "enabled")
    /\ notified' = [notified EXCEPT ![p] = FALSE]
    /\ UNCHANGED <<place, seen, environment, intake, permit, generation, late,
                   job, budget, fetcher, fetching, stop>>

\* dequeue_timeout has passed since a burst began to wait.
DeadlinePasses(p) ==
    /\ burst
    /\ at[p] = "waiting"
    /\ ~late[p]
    /\ late' = [late EXCEPT ![p] = TRUE]
    /\ Goto(p, "enabled")
    /\ UNCHANGED <<place, seen, environment, intake, permit, generation, job,
                   budget, notified, fetcher, fetching, stop>>

\* process: the handler runs and the row is finalized.
Process(p) ==
    /\ at[p] = "working"
    /\ Move({job[p]}, "done")
    /\ job' = [job EXCEPT ![p] = NoJob]
    /\ Goto(p, "top")
    /\ UNCHANGED <<environment, intake, permit, generation, late, budget,
                   notified, fetcher, fetching, stop>>

-----------------------------------------------------------------------------
(***************************************************************************)
(* The fetcher: fetch_loop                                                 *)
(***************************************************************************)

Nobody == UNCHANGED <<at, generation, late, job, budget>>

\* demand_snapshot, saturating.
UnmetDemand ==
    LET buffered == Cardinality(In("buffer"))
    IN IF idle > buffered THEN idle - buffered ELSE 0

DemandSnapshot ==
    /\ fetcher = "top"
    /\ ~stop
    /\ want' = UnmetDemand
    /\ fetchGeneration' = demandGeneration
    /\ fetcher' = IF UnmetDemand = 0 THEN "select" ELSE "asked"
    /\ UNCHANGED <<place, seen, environment, intake, permit, slots, notified,
                   answer, unclaimable, failing, shutout, stop>>

\* The claim statement: with an open lease it takes what is ready and not
\* locked, up to the limit.
ClaimCommits ==
    /\ fetcher = "asked"
    /\ db
    /\ LET most == IF leased THEN want ELSE 0
       IN \E rows \in SUBSET In("ready") :
            /\ \/ Cardinality(rows) = most
               \/ rows = In("ready") /\ Cardinality(rows) < most
            /\ Move(rows, "answer")
    /\ fetcher' = "claimed"
    /\ UNCHANGED <<environment, intake, permit, slots, notified, fetching, stop>>

\* The probe of an underfilled batch, a statement of its own; when it fails
\* beside rows in hand the answer is the conservative one.
ProbeAnswers ==
    /\ fetcher = "claimed"
    /\ LET taken == Cardinality(In("answer"))
       IN \/ /\ taken = want
             /\ answer' = [open |-> TRUE, work |-> FALSE]
          \/ /\ taken < want /\ db
             /\ answer' = [open |-> leased,
                           work |-> In("ready") \cup In("held") # {}]
          \/ /\ 0 < taken /\ taken < want /\ ~db
             /\ answer' = [open |-> TRUE, work |-> TRUE]
    /\ failing' = "off"
    /\ fetcher' = "answered"
    /\ UNCHANGED <<place, seen, environment, intake, permit, slots, notified,
                   want, fetchGeneration, unclaimable, shutout, stop>>

\* Mutant: the proof covers whoever has asked by now.
ProveDrainOfAll ==
    /\ drainedGeneration' = demandGeneration
    /\ NotifyWaiters

\* The proof covers the demand the fetch was begun for.
ProveDrain ==
    /\ drainedGeneration' = IF fetchGeneration > drainedGeneration
                            THEN fetchGeneration ELSE drainedGeneration
    /\ NotifyWaiters

\* Only a burst compares the moment that is remembered with a budget.
Start(b) == IF burst /\ b = "off" THEN "running" ELSE b

\* Mutant: a burst has all the patience in the world.
NeverOutOfPatience(b) == FALSE

\* unclaimable_budget: a burst has `dequeue_timeout` for each kind of stall.
OutOfPatience(b) == burst /\ b = "over"

\* Nothing ready and nothing locked.
FoundNothing ==
    /\ fetcher = "answered" /\ In("answer") = {}
    /\ answer.open /\ ~answer.work
    /\ unclaimable' = "off" /\ shutout' = "off"
    /\ ProveDrain
    /\ fetcher' = "select"
    /\ Stay /\ Nobody
    /\ UNCHANGED <<environment, idle, demandGeneration, stopping, permit, want,
                   fetchGeneration, answer, failing, stop>>

\* Work that no claim can take: ask again, and count the fetch as a drain once
\* the burst's patience is used up.  The short waits of the ramp and the wait
\* for poll_interval behind it differ only in length.
FoundUnclaimable ==
    /\ fetcher = "answered" /\ In("answer") = {}
    /\ answer.open /\ answer.work
    /\ shutout' = "off"
    /\ unclaimable' = Start(unclaimable)
    /\ IF OutOfPatience(unclaimable)
       THEN /\ ProveDrain
            /\ fetcher' = "select"
       ELSE /\ fetcher' \in {"top", "select"}
            /\ UNCHANGED <<drainedGeneration, notified>>
    /\ Stay /\ Nobody
    /\ UNCHANGED <<environment, idle, demandGeneration, stopping, permit, want,
                   fetchGeneration, answer, failing, stop>>

\* The lease is closed: waited out, unless this worker cannot write it at all.
FoundClosed ==
    /\ fetcher = "answered" /\ In("answer") = {}
    /\ ~answer.open
    /\ unclaimable' = "off"
    /\ shutout' = IF beating THEN "off" ELSE Start(shutout)
    /\ fetcher' = IF ~beating /\ OutOfPatience(shutout) THEN "draining"
                                                        ELSE "select"
    /\ Stay /\ Nobody
    /\ UNCHANGED <<environment, intake, permit, notified, want, fetchGeneration,
                   answer, failing, stop>>

\* Rows enter the shared buffer before anything is awaited.
Extend ==
    /\ fetcher = "answered" /\ In("answer") # {}
    /\ unclaimable' = "off" /\ shutout' = "off"
    /\ want' = want - Cardinality(In("answer"))
    /\ Move(In("answer"), "buffer")
    /\ fetcher' = "extended"
    /\ Nobody
    /\ UNCHANGED <<environment, intake, permit, notified, fetchGeneration,
                   answer, failing, stop>>

\* Mutant: a dequeue that outlived the stop leaves its rows in the buffer.
RefilledAndGone(to) == IF stop THEN "exited" ELSE to

\* A stop that came while the dequeue was under way is seen here.
RefilledUnlessStopped(to) == IF stop THEN "draining" ELSE to

\* refilled.notify_waiters, and a batch that came back short is a drain proof.
Refilled ==
    /\ fetcher = "extended"
    /\ IF want > 0 /\ ~answer.work /\ ~stop
       THEN ProveDrain ELSE NotifyWaiters /\ UNCHANGED drainedGeneration
    /\ fetcher' = RefilledUnlessStopped(
                      IF want > 0 /\ ~answer.work THEN "select" ELSE "top")
    /\ Stay /\ Nobody
    /\ UNCHANGED <<environment, idle, demandGeneration, stopping, permit,
                   fetching, stop>>

\* The dequeue fails.  A burst that could not reach the database for its whole
\* budget ends as a failure.
DequeueFails ==
    /\ ~db
    /\ \/ fetcher = "asked"
       \/ fetcher = "claimed" /\ In("answer") = {} /\ want > 0
    /\ unclaimable' = "off"
    /\ failing' = Start(failing)
    /\ fetcher' = IF OutOfPatience(failing) THEN "draining" ELSE "select"
    /\ Stay /\ Nobody
    /\ UNCHANGED <<environment, intake, permit, notified, want, fetchGeneration,
                   answer, shutout, stop>>

\* The outer select: new demand, a notification, or poll_interval.
Poll ==
    /\ fetcher = "select"
    /\ ~stop
    /\ fetcher' = "top"
    /\ permit' \in {FALSE, permit}
    /\ UNCHANGED <<place, seen, environment, intake, slots, notified, fetching,
                   stop>>

FetcherStops ==
    /\ fetcher \in {"top", "select"}
    /\ stop
    /\ fetcher' = "draining"
    /\ UNCHANGED <<place, seen, environment, intake, permit, slots, notified,
                   fetching, stop>>

\* drain_on_shutdown: each row is given back or finished, until none is left.
DrainOnShutdown ==
    /\ fetcher = "draining"
    /\ \/ \E r \in In("buffer") :
            db /\ Move({r}, "returned") /\ UNCHANGED fetcher
       \/ In("buffer") = {} /\ fetcher' = "exited" /\ Stay
    /\ UNCHANGED <<environment, intake, permit, slots, notified, fetching, stop>>

-----------------------------------------------------------------------------
(***************************************************************************)
(* The run and its surroundings                                            *)
(***************************************************************************)

Gone == {p \in Processor : at[p] \in {"exited", "drained"}}

\* WorkerShutdown begins.  The intake is frozen under the buffer lock before
\* the token is cancelled.
Freeze ==
    /\ ~stop
    /\ stopping' = TRUE
    /\ stop' = TRUE
    /\ UNCHANGED <<place, seen, environment, idle, demandGeneration,
                   drainedGeneration, permit, slots, notified, fetcher,
                   fetching>>

StopAsked == Stoppable /\ Freeze

\* A burst's processors are all done, or the fetcher has ended.
StopIntake ==
    /\ \/ burst /\ Gone = Processor
       \/ fetcher = "exited"
    /\ Freeze

\* A budget that has been running is used up.
BudgetOver ==
    /\ \/ unclaimable = "running" /\ unclaimable' = "over"
          /\ UNCHANGED <<failing, shutout>>
       \/ failing = "running" /\ failing' = "over"
          /\ UNCHANGED <<unclaimable, shutout>>
       \/ shutout = "running" /\ shutout' = "over"
          /\ UNCHANGED <<unclaimable, failing>>
    /\ UNCHANGED <<place, seen, environment, intake, permit, slots, notified,
                   fetcher, want, fetchGeneration, answer, stop>>

\* Rows become due, are locked and let go by others; the database, the lease
\* and the heartbeat fail and recover.
Surroundings ==
    /\ changes < MaxChanges
    /\ changes' = changes + 1
    /\ \/ \E r \in In("future") :
            Move({r}, "ready") /\ UNCHANGED <<db, leased, beating>>
       \/ \E r \in In("ready") :
            Move({r}, "held") /\ UNCHANGED <<db, leased, beating>>
       \/ \E r \in In("held") :
            Move({r}, "ready") /\ UNCHANGED <<db, leased, beating>>
       \/ db' = ~db /\ Stay /\ UNCHANGED <<leased, beating>>
       \/ /\ leased' = ~leased
          /\ seen' = [p \in Processor |-> {}]
          /\ UNCHANGED <<place, db, beating>>
       \/ beating' = ~beating /\ Stay /\ UNCHANGED <<db, leased>>
    /\ UNCHANGED <<intake, permit, slots, notified, fetcher, fetching, stop>>

ProcessorStep(p) ==
    \/ StartLoop(p) \/ RegisterDemand(p) \/ StopSeen(p) \/ Claim(p)
    \/ Drained(p) \/ Look(p) \/ Sleep(p) \/ Wake(p) \/ Process(p)

FetcherStep ==
    \/ DemandSnapshot \/ ClaimCommits \/ ProbeAnswers \/ FoundNothing
    \/ FoundUnclaimable \/ FoundClosed \/ Extend \/ Refilled \/ DequeueFails
    \/ Poll \/ FetcherStops \/ DrainOnShutdown

IntakeNext ==
    /\ \/ \E p \in Processor : ProcessorStep(p) \/ DeadlinePasses(p)
       \/ FetcherStep
       \/ StopAsked \/ StopIntake
       \/ BudgetOver
       \/ Surroundings
    /\ UNCHANGED burst

IntakeSpec == IntakeInit /\ [][IntakeNext]_<<burst, intakeVars>>

-----------------------------------------------------------------------------
(***************************************************************************)
(* Properties                                                              *)
(***************************************************************************)

(***************************************************************************)
(* No wakeup is lost between fetch_loop and next_job: a processor sleeps   *)
(* beside a row in the buffer only if its notification has been sent or    *)
(* the fetcher is about to send it; polling is a fallback, never the way a *)
(* row is handed over.                                                     *)
(***************************************************************************)
NoLostWakeup ==
    \A p \in Processor :
        at[p] = "waiting" /\ In("buffer") # {} /\ ~stopping
            => notified[p] \/ fetcher = "extended"

(***************************************************************************)
(* Nor the other way: the fetcher sleeps beside demand that was registered *)
(* after the snapshot it acted on only if a permit of `demand` wakes it.   *)
(***************************************************************************)
DemandIsHeard ==
    fetcher = "select" /\ demandGeneration > fetchGeneration => permit

(***************************************************************************)
(* A continuous worker commits to no more rows than it has processors      *)
(* waiting for one, whatever was claimed or asked for while the dequeue    *)
(* was under way: no row is claimed to sit in the buffer behind a running  *)
(* handler.                                                                *)
(***************************************************************************)
ClaimedForAWaiter ==
    ~burst /\ ~stop =>
        Cardinality(In("answer")) + Cardinality(In("buffer")) <= idle

(***************************************************************************)
(* next_job reports Drained only on a fetch begun after the processor      *)
(* asked: a row that was ready when it asked and could be claimed ever     *)
(* since, unlocked and under an open lease, is not left behind by a burst. *)
(***************************************************************************)
DrainIsProved ==
    [][\A p \in Processor :
        at[p] # "drained" /\ at'[p] = "drained" => seen[p] = {}]_intakeVars

(***************************************************************************)
(* However a shutdown interleaves with a dequeue, the buffer and the       *)
(* processors: when fetcher and processors are gone every row that was     *)
(* committed to this worker has been processed or given back.              *)
(***************************************************************************)
NothingStranded ==
    fetcher = "exited" /\ Gone = Processor =>
        In("answer") \cup In("buffer") \cup In("working") = {}

(***************************************************************************)
(* Processors that wait together never take more than max_burst_jobs rows: *)
(* the budget is reserved before the wait and comes back only without a    *)
(* row.                                                                    *)
(***************************************************************************)
BurstBudgetKept ==
    burst => Cardinality(In("working")) + Cardinality(In("done"))
                 <= MaxBurstJobs

(***************************************************************************)
(* A burst ends: with the rows done, with a row that somebody keeps        *)
(* locked, with a database nobody can reach, with a lease it cannot write. *)
(* Only a lease that somebody else closed, under heartbeats that land, is  *)
(* waited out for ever; so is a buffered row while the database is away,   *)
(* until the hard shutdown timeout cuts the drain off.                     *)
(***************************************************************************)
BurstEnds ==
    \/ <>[](burst => Gone = Processor)
    \/ <>[](~leased /\ beating)

(***************************************************************************)
(* No row stays ready for ever beside a continuous worker that runs on and *)
(* whose database and lease stay usable, though every notification may be  *)
(* lost.                                                                   *)
(***************************************************************************)
ReadyRowTaken ==
    <>[](~burst /\ ~stop /\ db /\ leased) =>
        \A r \in Row : []<>(place[r] # "ready")

(***************************************************************************)
(* The hand-off between processors and the fetch loop in every state: no   *)
(* wakeup is lost and no demand goes unheard, rows are claimed for         *)
(* processors that wait, and a capped burst keeps its budget.              *)
(***************************************************************************)
IntakeSafety ==
    /\ IntakeTypeOK
    /\ NoLostWakeup
    /\ DemandIsHeard
    /\ ClaimedForAWaiter
    /\ BurstBudgetKept

(***************************************************************************)
(* The intake gets somewhere: a burst ends, and a continuous worker takes  *)
(* the rows that are ready.                                                *)
(***************************************************************************)
IntakeProgress ==
    /\ BurstEnds
    /\ ReadyRowTaken
=============================================================================
