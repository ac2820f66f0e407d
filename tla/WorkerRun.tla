----------------------------- MODULE WorkerRun ------------------------------
(***************************************************************************)
(* One run of a worker, from run_until to its return: the start-up steps   *)
(* and their cancellation, the tasks it spawns, the phases of              *)
(* WorkerShutdown, and the lease row that tells the rest of the fleet that *)
(* the worker is there.                                                    *)
(*                                                                         *)
(* A lease statement is sent by a task that may stop waiting for it: its   *)
(* future is dropped, its deadline passes, its task is aborted.  The       *)
(* server may still execute such a stray statement, later than anything    *)
(* that is sent afterwards.  What the tasks do with jobs is in             *)
(* AttemptProtocol and WorkerIntake; here they only run and end.           *)
(***************************************************************************)
EXTENDS Integers, FiniteSets

CONSTANTS
    Slot, Timer,   \* the tasks of the two JoinSets
    InfoLoop,           \* the timer that heartbeats the lease
    Fetcher,            \* the fetch loop
    Burst,              \* whether the run ends when the queue is drained
    MaxFaults           \* bound on panics, failed statements and lost time

Task == Slot \cup Timer \cup {Fetcher}

ASSUME RunAssumption ==
    /\ IsFiniteSet(Task) /\ Slot # {} /\ InfoLoop \in Timer
    /\ Fetcher \notin Slot \cup Timer /\ Slot \cap Timer = {}
    /\ Burst \in BOOLEAN /\ MaxFaults \in Nat

Sender == {"main", "loop", "care"}
Idle == [op |-> "idle", open |-> FALSE]
Close == [op |-> "close", open |-> FALSE]
Beat(open) == [op |-> "beat", open |-> open]
Expire(open) == [op |-> "expire", open |-> open]
Statement == {Close} \cup {Beat(o) : o \in BOOLEAN} \cup {Expire(o) : o \in BOOLEAN}

VARIABLES
    phase, asked,       \* the run, and its shutdown token or dropped future
    intakeOpen,         \* the flag a heartbeat reads
    forced, timerStop,  \* the other tokens that tasks obey
    lease, accepting,   \* the row of ironqueue.workers
    out, stray,         \* statements somebody waits for, and those nobody does
    task, caretaker,
    error,              \* run_error
    crashed,            \* history: a task of the run panicked
    shut, retired,      \* history: the close found the row; the final expiry was
                        \* acknowledged
    purged,             \* history: the row was deleted
    faults

leases == <<lease, accepting, purged>>
tokens == <<asked, intakeOpen, forced, timerStop>>
history == <<crashed, shut, retired>>
runVars == <<phase, tokens, leases, out, stray, task, caretaker, error, history,
          faults>>

Running(S) == {t \in S : task[t] = "running"}

RunTypeOK ==
    /\ phase \in {"setup", "lease", "spawn", "unclose", "unlease", "run",
                  "close", "drain", "force", "timers", "retire", "returned"}
    /\ asked \in {"no", "token", "dropped"}
    /\ {intakeOpen, forced, timerStop, crashed, shut, retired, purged}
           \subseteq BOOLEAN
    /\ lease \in {"none", "live", "expired"} /\ accepting \in BOOLEAN
    /\ lease = "none" => ~accepting
    /\ out \in [Sender -> Statement \cup {Idle}] /\ stray \subseteq Statement
    /\ task \in [Task -> {"none", "running", "done", "panicked", "aborted"}]
    /\ caretaker \in {"none", "tend", "hold", "final", "done", "aborted"}
    /\ error \in BOOLEAN /\ faults \in 0..MaxFaults
    \* A statement is waited for by a sender that is there to wait.
    /\ out["loop"] # Idle => task[InfoLoop] = "running"
    /\ out["care"] # Idle => caretaker \in {"tend", "hold", "final"}
    /\ out["main"] # Idle <=> phase \in {"lease", "unclose", "unlease", "close"}

RunInit ==
    /\ phase = "setup" /\ asked = "no" /\ intakeOpen = TRUE
    /\ forced = FALSE /\ timerStop = FALSE
    /\ lease = "none" /\ accepting = FALSE /\ purged = FALSE
    /\ out = [s \in Sender |-> Idle] /\ stray = {}
    /\ task = [t \in Task |-> "none"] /\ caretaker = "none"
    /\ error = FALSE /\ crashed = FALSE /\ shut = FALSE /\ retired = FALSE
    /\ faults = 0

Fault == faults < MaxFaults /\ faults' = faults + 1

---------------------------------------------------------------------------
(* The lease row.                                                          *)

\* A heartbeat leaves the flag of an existing row alone.
AcceptingAfter(s) == IF lease = "none" THEN s.open ELSE accepting

Execute(s) ==
    /\ IF s.op = "close"
       THEN lease' = lease /\ accepting' = FALSE
       ELSE /\ lease' = IF s.op = "beat" THEN "live" ELSE "expired"
            /\ accepting' = AcceptingAfter(s)
    /\ UNCHANGED purged

\* The lease runs out when nobody renews it, and a sweeper deletes it.
LeaseExpires ==
    /\ lease = "live" /\ lease' = "expired" /\ Fault
    /\ UNCHANGED <<phase, tokens, accepting, purged, out, stray, task, caretaker,
                   error, history>>

PurgeLease ==
    /\ lease = "expired" /\ lease' = "none" /\ accepting' = FALSE
    /\ purged' = TRUE
    /\ UNCHANGED <<phase, tokens, out, stray, task, caretaker, error, history,
                   faults>>

\* A statement that nobody waits for is executed late, or never.
StrayLands(s) ==
    /\ s \in stray /\ stray' = stray \ {s}
    /\ Execute(s) \/ UNCHANGED leases
    /\ UNCHANGED <<phase, tokens, out, task, caretaker, error, history, faults>>

\* What becomes of the statement the sender has sent, and what it sends next:
\* it is executed and acknowledged, or the sender stops waiting for it.
Answered(who, next) ==
    /\ Execute(out[who])
    /\ out' = [out EXCEPT ![who] = next]
    /\ UNCHANGED <<stray, faults>>

Abandon(who, next) ==
    /\ stray' = stray \cup ({out[who]} \ {Idle})
    /\ out' = [out EXCEPT ![who] = next]
    /\ UNCHANGED leases

\* It failed, or its deadline passed.
Unanswered(who, next) == Fault /\ Abandon(who, next)

---------------------------------------------------------------------------
(* Start-up.                                                               *)

\* The caller has cancelled its token, or dropped the future of run_until.
Asked == asked # "no"

Ask ==
    /\ asked = "no" /\ phase # "returned" /\ asked' \in {"token", "dropped"}
    /\ UNCHANGED <<phase, intakeOpen, forced, timerStop, leases, out, stray,
                   task, caretaker, error, history, faults>>

\* The dashboard is bound and the crons are reconciled, or that fails, or
\* before_shutdown cuts it short: no lease has been written.
Setup ==
    /\ phase = "setup"
    /\ \/ /\ ~Asked /\ phase' = "lease"
          /\ out' = [out EXCEPT !["main"] = Beat(intakeOpen)]
          /\ UNCHANGED <<error, faults>>
       \/ /\ Asked /\ phase' = "returned" /\ UNCHANGED <<out, error, faults>>
       \/ /\ ~Asked /\ Fault /\ error' = TRUE /\ phase' = "returned"
          /\ UNCHANGED out
    /\ UNCHANGED <<tokens, leases, stray, task, caretaker, history>>

\* The start-up heartbeat; its failure only shows in the worker's health.
LeaseWritten ==
    /\ phase = "lease" /\ ~Asked /\ phase' = "spawn"
    /\ Answered("main", Idle) \/ Unanswered("main", Idle)
    /\ UNCHANGED <<tokens, task, caretaker, error, history>>

\* retire_startup_lease closes the lease before it expires it.
RetireStartupLease ==
    phase' = "unclose" /\ Abandon("main", Close) /\ intakeOpen' = FALSE

CancelStart ==
    /\ phase \in {"lease", "spawn"} /\ Asked
    /\ RetireStartupLease
    /\ UNCHANGED <<asked, forced, timerStop, task, caretaker, error, history,
                   faults>>

StartupClosed ==
    /\ phase = "unclose" /\ phase' = "unlease"
    /\ \/ Answered("main", Expire(intakeOpen)) /\ shut' = (lease # "none")
       \/ Unanswered("main", Expire(intakeOpen)) /\ UNCHANGED shut
    /\ UNCHANGED <<tokens, task, caretaker, error, crashed, retired>>

StartupRetired ==
    /\ phase = "unlease" /\ phase' = "returned"
    /\ \/ Answered("main", Idle) /\ retired' = TRUE
       \/ Unanswered("main", Idle) /\ UNCHANGED retired
    /\ UNCHANGED <<tokens, task, caretaker, error, crashed, shut>>

Spawn ==
    /\ phase = "spawn" /\ ~Asked /\ phase' = "run"
    /\ task' = [t \in Task |-> "running"]
    /\ UNCHANGED <<tokens, leases, out, stray, caretaker, error, history, faults>>

---------------------------------------------------------------------------
(* The tasks.                                                              *)

\* The heartbeat loop reads the flag, sends and waits.
HeartbeatSent ==
    /\ task[InfoLoop] = "running" /\ ~timerStop /\ out["loop"] = Idle
    /\ out' = [out EXCEPT !["loop"] = Beat(intakeOpen)]
    /\ UNCHANGED <<phase, tokens, leases, stray, task, caretaker, error, history,
                   faults>>

HeartbeatEnds ==
    /\ out["loop"] # Idle
    /\ Answered("loop", Idle) \/ Unanswered("loop", Idle)
    /\ UNCHANGED <<phase, tokens, task, caretaker, error, history>>

\* A task that ends takes its wait for a statement with it.
EndAs(S, e) ==
    /\ task' = [t \in Task |-> IF t \in S THEN e ELSE task[t]]
    /\ IF InfoLoop \in S THEN Abandon("loop", Idle)
                         ELSE UNCHANGED <<leases, out, stray>>

\* Processors and fetcher stop once intake is closed, the fetcher when it has
\* given its rows back; in a burst, processors also when the queue is drained
\* and the fetcher when it cannot reach the database.  A timer loop stops at
\* its next await, in the middle of a statement too.
TaskEnds(t) ==
    /\ task[t] = "running" /\ EndAs({t}, "done")
    /\ \/ t \in Timer /\ timerStop /\ UNCHANGED faults
       \/ t \in Slot /\ (~intakeOpen \/ Burst) /\ UNCHANGED faults
       \/ t = Fetcher /\ ~intakeOpen /\ UNCHANGED faults
       \/ t = Fetcher /\ Burst /\ intakeOpen /\ Fault
    /\ UNCHANGED <<phase, tokens, caretaker, error, history>>

TaskPanics(t) ==
    /\ task[t] = "running" /\ EndAs({t}, "panicked") /\ Fault
    /\ crashed' = TRUE
    /\ UNCHANGED <<phase, tokens, caretaker, error, shut, retired>>

---------------------------------------------------------------------------
(* The run and its shutdown.                                               *)

Panicked(S) == \E t \in S : task[t] = "panicked"

\* What the select of run_until_inner waits for, and whether it is an error.
StopReason(e) ==
    \/ Asked /\ ~e
    \/ Burst /\ ~e /\ \A p \in Slot : task[p] = "done"
    \/ e /\ task[Fetcher] # "running"
    \/ e /\ \E t \in Slot \cup Timer : task[t] = "panicked"

\* close_intake clears the flag and cancels the tokens before it writes.
BeginShutdown(e) ==
    /\ phase = "run" /\ StopReason(e) /\ phase' = "close"
    /\ error' = e /\ intakeOpen' = FALSE
    /\ out' = [out EXCEPT !["main"] = Close]
    /\ UNCHANGED <<asked, forced, timerStop, leases, stray, task, caretaker,
                   history, faults>>

\* The dashboard server fails, which also ends the run.
DashboardFails ==
    /\ phase = "run" /\ Fault /\ phase' = "close"
    /\ error' = TRUE /\ intakeOpen' = FALSE
    /\ out' = [out EXCEPT !["main"] = Close]
    /\ UNCHANGED <<asked, forced, timerStop, leases, stray, task, caretaker,
                   history>>

\* The caretaker is spawned with the fetcher, unless that has ended the run.
IntakeClosed ==
    /\ phase = "close" /\ phase' = "drain"
    /\ \/ Answered("main", Idle) /\ shut' = (lease # "none")
       \/ Unanswered("main", Idle) /\ UNCHANGED shut
    /\ caretaker' = "tend"
    /\ UNCHANGED <<tokens, task, error, crashed, retired>>

\* Mutant: a task that failed during the shutdown is only logged.
JoinedOnly(S) == error' = error

\* join_all notes a task that failed.
Joined(S) == error' = (error \/ Panicked(S))

ProcessorsDrained ==
    /\ phase \in {"drain", "force"} /\ Running(Slot) = {}
    /\ phase' = "timers" /\ timerStop' = TRUE
    /\ Joined(Slot)
    /\ UNCHANGED <<asked, intakeOpen, forced, leases, out, stray, task, caretaker,
                   history, faults>>

GraceExpires ==
    /\ phase = "drain" /\ Running(Slot) # {}
    /\ phase' = "force" /\ forced' = TRUE
    /\ UNCHANGED <<asked, intakeOpen, timerStop, leases, out, stray, task,
                   caretaker, error, history, faults>>

\* Mutant: processors that were forced to stop are waited for.
WaitForForced == phase = "force" /\ ProcessorsDrained

\* Processors that do not end when they are forced to are aborted and joined.
AbortProcessors ==
    /\ phase = "force" /\ Running(Slot) # {}
    /\ EndAs(Running(Slot), "aborted")
    /\ error' = TRUE
    /\ phase' = "timers" /\ timerStop' = TRUE
    /\ UNCHANGED <<asked, intakeOpen, forced, caretaker, history, faults>>

TimersStopped ==
    /\ phase = "timers" /\ Running(Timer) = {}
    /\ phase' = "retire" /\ Joined(Timer)
    /\ UNCHANGED <<tokens, leases, out, stray, task, caretaker, history, faults>>

AbortTimers ==
    /\ phase = "timers" /\ Running(Timer) # {}
    /\ EndAs(Running(Timer), "aborted")
    /\ error' = TRUE /\ phase' = "retire"
    /\ UNCHANGED <<tokens, caretaker, history, faults>>

---------------------------------------------------------------------------
(* The caretaker of the fetcher and of the lease.                          *)

CaretakerBeats ==
    /\ caretaker \in {"tend", "hold"} /\ out["care"] = Idle
    /\ out' = [out EXCEPT !["care"] = Beat(intakeOpen)]
    /\ UNCHANGED <<phase, tokens, leases, stray, task, caretaker, error, history,
                   faults>>

CaretakerAnswered ==
    /\ caretaker \in {"tend", "hold"} /\ out["care"] # Idle
    /\ Answered("care", Idle) \/ Unanswered("care", Idle)
    /\ UNCHANGED <<phase, tokens, task, caretaker, error, history>>

FetcherJoined ==
    /\ caretaker = "tend" /\ out["care"] = Idle /\ task[Fetcher] # "running"
    /\ caretaker' = "hold"
    /\ UNCHANGED <<phase, tokens, leases, out, stray, task, error, history, faults>>

\* Mutant: the lease is given up with the fetcher.
ReleasedAtOnce == TRUE

\* release_fetcher_lease is cancelled when processors and timers are joined.
Released == phase = "retire"

FinalExpiry ==
    /\ caretaker = "hold" /\ out["care"] = Idle /\ Released
    /\ caretaker' = "final"
    /\ out' = [out EXCEPT !["care"] = Expire(intakeOpen)]
    /\ UNCHANGED <<phase, tokens, leases, stray, task, error, history, faults>>

CaretakerDone ==
    /\ caretaker = "final" /\ caretaker' = "done"
    /\ \/ Answered("care", Idle) /\ retired' = TRUE
       \/ Unanswered("care", Idle) /\ UNCHANGED retired
    /\ UNCHANGED <<phase, tokens, task, error, crashed, shut>>

FetcherRetired ==
    /\ phase = "retire" /\ caretaker = "done" /\ phase' = "returned"
    /\ Joined({Fetcher})
    /\ UNCHANGED <<tokens, leases, out, stray, task, caretaker, history, faults>>

\* The fetcher is aborted and not joined: it ends at its next await, which is
\* taken to be at once.
AbortFetcher ==
    task' = [task EXCEPT ![Fetcher] = IF @ = "running" THEN "aborted" ELSE @]

RetireTimesOut ==
    /\ phase = "retire" /\ caretaker # "done"
    /\ AbortFetcher /\ caretaker' = "aborted"
    /\ Abandon("care", Idle)
    /\ error' = TRUE /\ phase' = "returned"
    /\ UNCHANGED <<tokens, history, faults>>

---------------------------------------------------------------------------
Main ==
    \/ Setup \/ LeaseWritten \/ CancelStart \/ StartupClosed \/ StartupRetired
    \/ Spawn \/ \E e \in BOOLEAN : BeginShutdown(e)
    \/ IntakeClosed \/ ProcessorsDrained \/ TimersStopped \/ FetcherRetired

\* The deadlines of the shutdown: each passes when what it bounds has not ended,
\* however soon that is and whatever else fails.
Deadline ==
    \/ GraceExpires \/ AbortProcessors \/ AbortTimers \/ RetireTimesOut

\* The failures of its parts.
Trouble == DashboardFails \/ \E t \in Task : TaskPanics(t)

Caretaker ==
    \/ CaretakerBeats \/ CaretakerAnswered \/ FetcherJoined \/ FinalExpiry
    \/ CaretakerDone

Environment ==
    \/ Ask \/ LeaseExpires \/ PurgeLease \/ \E s \in Statement : StrayLands(s)

RunNext ==
    \/ Main \/ Deadline \/ Trouble \/ Caretaker \/ Environment
    \/ HeartbeatSent \/ HeartbeatEnds \/ \E t \in Task : TaskEnds(t)

RunSpec == RunInit /\ [][RunNext]_runVars

---------------------------------------------------------------------------
(***************************************************************************)
(* The lease outlives the work: the worker expires its lease only when no  *)
(* processor, timer or fetcher of the run can touch a job any more, so a   *)
(* sweeper never takes a row from a task that still runs.                  *)
(***************************************************************************)
LeaseOutlivesWork ==
    (\E s \in Sender : out[s].op = "expire") \/ retired => Running(Task) = {}

(***************************************************************************)
(* run_until leaves nothing behind: whatever deadline cut the shutdown     *)
(* short, no task of the run is alive when it returns.                     *)
(***************************************************************************)
NothingDetached ==
    phase = "returned" =>
        Running(Task) = {} /\ caretaker \in {"none", "done", "aborted"}

(***************************************************************************)
(* A run that closed its lease row is not advertised as taking work when   *)
(* it has returned, though heartbeats were abandoned on the way and land   *)
(* late (unless the row was deleted in between).                           *)
(***************************************************************************)
ReturnedIsNotAccepting ==
    phase = "returned" /\ shut /\ retired /\ ~purged =>
        ~(lease = "live" /\ accepting)

(***************************************************************************)
(* A run that wrote a lease has taken it back when it returns, unless a    *)
(* statement failed or the last deadline cut the caretaker off.            *)
(***************************************************************************)
LeaseIsTakenBack ==
    phase = "returned" /\ faults = 0 /\ caretaker # "aborted"
        /\ lease = "live" => retired

(***************************************************************************)
(* A panic is never lost: if a task of the run failed, before or during    *)
(* the shutdown, run_until returns an error.                               *)
(***************************************************************************)
PanicIsReported ==
    phase = "returned" /\ crashed => error

\* The run is cancelled or dropped, its burst is over, its fetcher or a task
\* of its own has failed, or its shutdown has begun.
EndIsDue ==
    \/ asked # "no" \/ ~intakeOpen
    \/ Burst /\ \A p \in Slot : task[p] = "done"
    \/ task[Fetcher] \notin {"none", "running"}
    \/ \E t \in Task : task[t] = "panicked"

(***************************************************************************)
(* A run that is asked to stop, whose burst is over, or that has lost its  *)
(* fetcher or another task, returns, although none of its tasks ever ends  *)
(* by itself and no statement of its caretaker is answered: the deadlines  *)
(* of the shutdown are enough.                                             *)
(***************************************************************************)
RunReturns == []<>(EndIsDue => phase = "returned")

(***************************************************************************)
(* A run of Worker::run returns cleanly: it has kept its types, leaves no  *)
(* task behind, is not accepting work, has taken its lease back, and       *)
(* reports the panic of any task.                                          *)
(***************************************************************************)
RunSafety ==
    /\ RunTypeOK
    /\ NothingDetached
    /\ ReturnedIsNotAccepting
    /\ LeaseIsTakenBack
    /\ PanicIsReported
=============================================================================
