------------------------------ MODULE RunProofs ------------------------------
(***************************************************************************)
(* A run of a worker, for any number of processors and timers and any      *)
(* number of faults: it gives its lease up after its work, and returns     *)
(* with nothing running, nothing advertised and no panic lost.             *)
(***************************************************************************)
EXTENDS WorkerRun, TLAPS

Startup == {"setup", "lease", "spawn", "unclose", "unlease"}

Flags ==
    /\ intakeOpen \in BOOLEAN /\ forced \in BOOLEAN /\ timerStop \in BOOLEAN
    /\ crashed \in BOOLEAN /\ retired \in BOOLEAN /\ error \in BOOLEAN
    /\ asked \in {"no", "token", "dropped"} /\ faults \in 0..MaxFaults

\* The row: once the close has found it, it exists and is not accepting until
\* a sweeper deletes it, whatever lands late.
Row ==
    /\ lease \in {"none", "live", "expired"} /\ accepting \in BOOLEAN
    /\ purged \in BOOLEAN /\ shut \in BOOLEAN
    /\ lease = "none" => ~accepting
    /\ shut /\ ~purged => lease # "none" /\ ~accepting

\* Who waits for which statement.
Outstanding ==
    /\ out \in [Sender -> Statement \cup {Idle}] /\ stray \subseteq Statement
    /\ out["main"] # Idle <=> phase \in {"lease", "unclose", "unlease", "close"}
    /\ phase \in {"unclose", "close"} => out["main"] = Close
    /\ out["main"].op = "expire" => phase = "unlease"
    /\ out["loop"] # Idle => task[InfoLoop] = "running"
    /\ out["loop"].op # "expire"
    /\ out["care"] # Idle => caretaker \in {"tend", "hold", "final"}
    /\ out["care"].op = "expire" => caretaker = "final"
    /\ caretaker = "final" => out["care"] # Idle

\* How far the tasks are in each phase of the run.
Tasks ==
    /\ phase \in Startup \cup {"run", "close", "drain", "force", "timers",
                               "retire", "returned"}
    /\ task \in [Task -> {"none", "running", "done", "panicked", "aborted"}]
    /\ caretaker \in {"none", "tend", "hold", "final", "done", "aborted"}
    /\ phase \in Startup => \A t \in Task : task[t] = "none"
    /\ phase \in Startup \cup {"run", "close"} => caretaker = "none"
    /\ phase \in {"drain", "force", "timers", "retire"} =>
           caretaker \in {"tend", "hold", "final", "done"}
    /\ phase \in {"timers", "retire", "returned"} =>
           \A t \in Slot : task[t] # "running"
    /\ phase \in {"retire", "returned"} => \A t \in Timer : task[t] # "running"
    /\ caretaker \in {"hold", "final", "done"} => task[Fetcher] # "running"
    /\ caretaker \in {"final", "done"} => phase \in {"retire", "returned"}
    /\ phase = "returned" => /\ task[Fetcher] # "running"
                             /\ caretaker \in {"none", "done", "aborted"}
    /\ retired => \/ phase = "returned"
                  \/ phase = "retire" /\ caretaker = "done"

\* A task that panicked is still to be joined, or has made the run an error.
Unjoined(t) ==
    \/ t \in Slot /\ phase \in {"run", "close", "drain", "force"}
    \/ t \in Timer /\ phase \in {"run", "close", "drain", "force", "timers"}
    \/ t = Fetcher /\ phase # "returned"

Panics ==
    /\ phase \in Startup => ~crashed
    /\ phase \in Startup \cup {"run"} => ~error
    /\ crashed => error \/ \E t \in Task : task[t] = "panicked" /\ Unjoined(t)

\* Without a fault, a run returns before it has written a lease, or after the
\* expiry was acknowledged.
GivenBack ==
    /\ phase = "setup" => lease = "none" /\ stray = {}
    /\ faults = 0 /\ caretaker = "done" => retired
    /\ phase = "returned" /\ faults = 0 /\ caretaker # "aborted" =>
           retired \/ (lease = "none" /\ stray = {})

RunInv == Flags /\ Row /\ Outstanding /\ Tasks /\ Panics /\ GivenBack

-----------------------------------------------------------------------------
\* The statements, as far as the proofs tell them apart.
LEMMA Statements ==
    /\ Idle \notin Statement /\ Idle.op = "idle"
    /\ Close \in Statement /\ Close.op = "close" /\ Close # Idle
    /\ \A o \in BOOLEAN : /\ Beat(o) \in Statement /\ Beat(o).op = "beat"
                          /\ Beat(o) # Idle
    /\ \A o \in BOOLEAN : /\ Expire(o) \in Statement /\ Expire(o).op = "expire"
                          /\ Expire(o) # Idle
    /\ \A s \in Statement : s.open \in BOOLEAN
<1>1. Idle.op = "idle" /\ Close.op = "close"
  BY DEF Idle, Close
<1>2. \A o \in BOOLEAN : Beat(o).op = "beat" /\ Expire(o).op = "expire"
  BY DEF Beat, Expire
<1>3. \A s \in Statement : s.op \in {"close", "beat", "expire"}
  BY <1>1, <1>2 DEF Statement
<1>4. /\ Close \in Statement
      /\ \A o \in BOOLEAN : Beat(o) \in Statement /\ Expire(o) \in Statement
  BY Zenon DEF Statement
<1>5. \A s \in Statement : s.open \in BOOLEAN
  <2>1. Close.open \in BOOLEAN
    BY DEF Close
  <2>2. \A o \in BOOLEAN : Beat(o).open = o /\ Expire(o).open = o
    BY DEF Beat, Expire
  <2>3. QED
    BY <2>1, <2>2, Zenon DEF Statement
<1>6. QED
  BY <1>1, <1>2, <1>3, <1>4, <1>5

LEMMA RunInitOK == RunInit => RunInv
<1> SUFFICES ASSUME RunInit PROVE RunInv
  OBVIOUS
<1>1. Flags
  <2>1. /\ intakeOpen \in BOOLEAN /\ forced \in BOOLEAN /\ timerStop \in BOOLEAN
        /\ crashed \in BOOLEAN /\ retired \in BOOLEAN /\ error \in BOOLEAN
    BY Zenon DEF RunInit
  <2>2. QED
    BY <2>1, RunAssumption DEF RunInit, Flags
<1>2. Row
  <2>1. accepting \in BOOLEAN /\ purged \in BOOLEAN /\ shut \in BOOLEAN
    BY Zenon DEF RunInit
  <2>2. QED
    BY <2>1 DEF RunInit, Row
<1>3. Outstanding
  BY Statements DEF RunInit, Outstanding, Sender
<1>4. Tasks
  BY RunAssumption DEF RunInit, Tasks, Startup, Task
<1>5. Panics /\ GivenBack
  BY DEF RunInit, Panics, GivenBack, Startup
<1>6. QED
  BY <1>1, <1>2, <1>3, <1>4, <1>5 DEF RunInv

-----------------------------------------------------------------------------
\* What every step does with the lease row.
RowStep ==
    \/ UNCHANGED <<leases, shut>>
    \/ UNCHANGED shut /\ \E s \in Statement : Execute(s)
    \/ Execute(Close) /\ shut' = (lease # "none")
    \/ lease = "live" /\ lease' = "expired" /\ UNCHANGED <<accepting, purged, shut>>
    \/ lease' = "none" /\ accepting' = FALSE /\ purged' = TRUE /\ UNCHANGED shut

LEMMA RowStepOK == Row /\ RowStep => Row'
<1> SUFFICES ASSUME Row, RowStep PROVE Row'
  OBVIOUS
<1>1. CASE UNCHANGED <<leases, shut>>
  BY <1>1 DEF Row, leases
<1>2. ASSUME UNCHANGED shut, NEW s \in Statement, Execute(s) PROVE Row'
  <2>1. s.open \in BOOLEAN
    BY Statements
  <2>2. accepting' \in BOOLEAN
    BY <1>2, <2>1 DEF Row, Execute, AcceptingAfter
  <2>3. QED
    BY <1>2, <2>2 DEF Row, Execute, AcceptingAfter
<1>3. CASE Execute(Close) /\ shut' = (lease # "none")
  <2>1. /\ lease' = lease /\ accepting' = FALSE /\ purged' = purged
        /\ shut' = (lease # "none")
    BY <1>3, Statements DEF Execute
  <2>2. accepting' \in BOOLEAN /\ shut' \in BOOLEAN
    BY <2>1
  <2>3. QED
    BY <2>1, <2>2 DEF Row
<1>4. CASE /\ lease = "live" /\ lease' = "expired"
           /\ UNCHANGED <<accepting, purged, shut>>
  BY <1>4 DEF Row
<1>5. CASE /\ lease' = "none" /\ accepting' = FALSE /\ purged' = TRUE
           /\ UNCHANGED shut
  <2>1. accepting' \in BOOLEAN /\ purged' \in BOOLEAN
    BY <1>5, Zenon
  <2>2. QED
    BY <1>5, <2>1 DEF Row
<1>6. QED
  BY <1>1, <1>2, <1>3, <1>4, <1>5 DEF RowStep

\* Every step of the run is such a step.
LEMMA EveryRowStep == RunInv /\ [RunNext]_runVars => RowStep
<1> SUFFICES ASSUME RunInv, [RunNext]_runVars PROVE RowStep
  OBVIOUS
<1>1. ASSUME NEW who \in Sender, out[who] # Idle
      PROVE  out[who] \in Statement
  BY <1>1 DEF RunInv, Outstanding
<1>2. out["main"] # Idle => out["main"] \in Statement
  BY <1>1 DEF Sender
<1>3. out["loop"] # Idle => out["loop"] \in Statement
  BY <1>1 DEF Sender
<1>4. out["care"] # Idle => out["care"] \in Statement
  BY <1>1 DEF Sender
<1>5. CASE UNCHANGED runVars
  BY <1>5 DEF runVars, RowStep, leases, history
<1>6. CASE Main
  <2>1. CASE LeaseWritten
    <3>1. out["main"] # Idle /\ UNCHANGED shut
      BY <2>1 DEF LeaseWritten, RunInv, Outstanding, history
    <3>2. CASE Answered("main", Idle)
      BY <3>1, <3>2, <1>2 DEF Answered, RowStep
    <3>3. CASE Unanswered("main", Idle)
      BY <3>1, <3>3 DEF Unanswered, Abandon, RowStep, leases
    <3>4. QED
      BY <2>1, <3>2, <3>3 DEF LeaseWritten
  <2>2. CASE StartupClosed \/ IntakeClosed
    <3>1. out["main"] = Close
      BY <2>2 DEF StartupClosed, IntakeClosed, RunInv, Outstanding
    <3>2. QED
      BY <2>2, <3>1 DEF StartupClosed, IntakeClosed, Answered, Unanswered,
                        Abandon, RowStep, leases
  <2>3. CASE StartupRetired
    <3>1. out["main"] # Idle
      BY <2>3 DEF StartupRetired, RunInv, Outstanding
    <3>2. QED
      BY <2>3, <3>1, <1>2 DEF StartupRetired, Answered, Unanswered, Abandon,
                              RowStep, leases
  <2>4. UNCHANGED <<leases, shut>> \/ LeaseWritten \/ StartupClosed
        \/ IntakeClosed \/ StartupRetired
    BY <1>6 DEF Main, Setup, CancelStart, RetireStartupLease, Abandon, Spawn,
                BeginShutdown, ProcessorsDrained, TimersStopped, FetcherRetired,
                leases, history
  <2>5. QED
    BY <2>1, <2>2, <2>3, <2>4 DEF RowStep
<1>7. CASE Deadline \/ Trouble
  <2>1. UNCHANGED <<leases, shut>>
    BY <1>7 DEF Deadline, Trouble, DashboardFails, GraceExpires, AbortProcessors,
                AbortTimers, RetireTimesOut, TaskPanics, EndAs, Abandon, leases,
                history
  <2>2. QED
    BY <2>1 DEF RowStep
<1>8. CASE Caretaker
  <2>1. CASE CaretakerAnswered \/ CaretakerDone
    <3>1. out["care"] # Idle /\ UNCHANGED shut
      BY <2>1 DEF CaretakerAnswered, CaretakerDone, RunInv, Outstanding, history
    <3>2. CASE Answered("care", Idle)
      BY <3>1, <3>2, <1>4 DEF Answered, RowStep
    <3>3. CASE Unanswered("care", Idle)
      BY <3>1, <3>3 DEF Unanswered, Abandon, RowStep, leases
    <3>4. QED
      BY <2>1, <3>2, <3>3 DEF CaretakerAnswered, CaretakerDone
  <2>2. CaretakerAnswered \/ CaretakerDone \/ UNCHANGED <<leases, shut>>
    BY <1>8 DEF Caretaker, CaretakerBeats, FetcherJoined, FinalExpiry, leases,
                history
  <2>3. QED
    BY <2>1, <2>2 DEF RowStep
<1>9. CASE Environment
  <2>1. ASSUME NEW s \in Statement, StrayLands(s) PROVE RowStep
    BY <2>1 DEF StrayLands, RowStep, leases, history
  <2>2. CASE Ask \/ LeaseExpires \/ PurgeLease
    BY <2>2 DEF Ask, LeaseExpires, PurgeLease, RowStep, leases, history
  <2>3. QED
    BY <1>9, <2>1, <2>2 DEF Environment
<1>10. CASE HeartbeatSent \/ HeartbeatEnds
  <2>1. CASE HeartbeatSent
    BY <2>1 DEF HeartbeatSent, RowStep, leases, history
  <2>2. CASE HeartbeatEnds
    BY <2>2, <1>3 DEF HeartbeatEnds, Answered, Unanswered, Abandon, RowStep,
                      leases, history
  <2>3. QED
    BY <1>10, <2>1, <2>2
<1>11. ASSUME NEW t \in Task, TaskEnds(t) PROVE RowStep
  BY <1>11 DEF TaskEnds, EndAs, Abandon, RowStep, leases, history
<1>12. QED
  BY <1>5, <1>6, <1>7, <1>8, <1>9, <1>10, <1>11 DEF RunNext

\* The phases, tasks and caretaker.
LEMMA TasksOK == RunInv /\ [RunNext]_runVars => Tasks'
<1> SUFFICES ASSUME RunInv, [RunNext]_runVars PROVE Tasks'
  OBVIOUS
<1> USE RunAssumption DEF Startup, Task
<1>0. Tasks
  BY DEF RunInv
<1>1. CASE UNCHANGED <<phase, task, caretaker, retired>>
  BY <1>0, <1>1 DEF Tasks
<1>2. CASE Main
  <2>1. CASE Setup \/ LeaseWritten \/ CancelStart \/ StartupClosed
    BY <1>0, <2>1 DEF Setup, LeaseWritten, CancelStart, RetireStartupLease,
                      StartupClosed, Tasks, history
  <2>2. CASE StartupRetired
    BY <1>0, <2>2 DEF StartupRetired, Tasks
  <2>3. CASE Spawn
    BY <1>0, <2>3 DEF Spawn, Tasks, history
  <2>4. CASE (\E e \in BOOLEAN : BeginShutdown(e)) \/ IntakeClosed
    BY <1>0, <2>4 DEF BeginShutdown, IntakeClosed, Tasks, history
  <2>5. CASE ProcessorsDrained \/ TimersStopped \/ FetcherRetired
    BY <1>0, <2>5 DEF ProcessorsDrained, TimersStopped, FetcherRetired, Running,
                      Tasks, history
  <2>6. QED
    BY <1>2, <2>1, <2>2, <2>3, <2>4, <2>5 DEF Main
<1>3. CASE Deadline \/ Trouble
  <2>1. CASE DashboardFails \/ GraceExpires
    BY <1>0, <2>1 DEF DashboardFails, GraceExpires, Tasks, history
  <2>2. CASE AbortProcessors
    BY <1>0, <2>2 DEF AbortProcessors, EndAs, Running, Tasks, history
  <2>3. CASE AbortTimers
    BY <1>0, <2>3 DEF AbortTimers, EndAs, Running, Tasks, history
  <2>4. CASE RetireTimesOut
    BY <1>0, <2>4 DEF RetireTimesOut, AbortFetcher, Tasks, history
  <2>5. ASSUME NEW t \in Task, TaskPanics(t) PROVE Tasks'
    BY <1>0, <2>5 DEF TaskPanics, EndAs, Tasks
  <2>6. QED
    BY <1>3, <2>1, <2>2, <2>3, <2>4, <2>5 DEF Deadline, Trouble
<1>4. CASE Caretaker
  BY <1>0, <1>4 DEF Caretaker, CaretakerBeats, CaretakerAnswered, FetcherJoined,
                    FinalExpiry, Released, CaretakerDone, Tasks, history
<1>5. ASSUME NEW t \in Task, TaskEnds(t) PROVE Tasks'
  BY <1>0, <1>5 DEF TaskEnds, EndAs, Tasks, history
<1>6. CASE Environment \/ HeartbeatSent \/ HeartbeatEnds \/ UNCHANGED runVars
  <2>1. UNCHANGED <<phase, task, caretaker, retired>>
    BY <1>6 DEF Environment, Ask, LeaseExpires, PurgeLease, StrayLands,
                HeartbeatSent, HeartbeatEnds, runVars, history
  <2>2. QED
    BY <1>1, <2>1
<1>7. QED
  BY <1>2, <1>3, <1>4, <1>5, <1>6 DEF RunNext

\* The tokens, the counters and the flags.
LEMMA FlagsOK == RunInv /\ [RunNext]_runVars => Flags'
<1> SUFFICES ASSUME RunInv, [RunNext]_runVars PROVE Flags'
  OBVIOUS
<1>1. Flags
  BY DEF RunInv
<1>2. /\ intakeOpen' \in {intakeOpen, FALSE} /\ forced' \in {forced, TRUE}
      /\ timerStop' \in {timerStop, TRUE} /\ crashed' \in {crashed, TRUE}
      /\ retired' \in {retired, TRUE}
      /\ asked' \in {asked, "token", "dropped"}
  BY DEF RunNext, Main, Setup, LeaseWritten, CancelStart, RetireStartupLease,
         StartupClosed, StartupRetired, Spawn, BeginShutdown, IntakeClosed,
         ProcessorsDrained, TimersStopped, FetcherRetired, Deadline, Trouble,
         DashboardFails, GraceExpires, AbortProcessors, AbortTimers,
         RetireTimesOut, TaskPanics, Caretaker, CaretakerBeats,
         CaretakerAnswered, FetcherJoined, FinalExpiry, CaretakerDone,
         Environment, Ask, LeaseExpires, PurgeLease, StrayLands, HeartbeatSent,
         HeartbeatEnds, TaskEnds, runVars, tokens, history
<1>3. error' \in {error, TRUE, FALSE}
  BY DEF RunNext, Main, Setup, LeaseWritten, CancelStart, RetireStartupLease,
         StartupClosed, StartupRetired, Spawn, BeginShutdown, IntakeClosed,
         ProcessorsDrained, TimersStopped, FetcherRetired, Deadline, Trouble,
         DashboardFails, GraceExpires, AbortProcessors, AbortTimers,
         RetireTimesOut, TaskPanics, Caretaker, CaretakerBeats,
         CaretakerAnswered, FetcherJoined, FinalExpiry, CaretakerDone,
         Environment, Ask, LeaseExpires, PurgeLease, StrayLands, HeartbeatSent,
         HeartbeatEnds, TaskEnds, runVars, Joined, Flags
<1>4. faults' = faults \/ Fault
  BY DEF RunNext, Main, Setup, LeaseWritten, CancelStart, RetireStartupLease,
         StartupClosed, StartupRetired, Spawn, BeginShutdown, IntakeClosed,
         ProcessorsDrained, TimersStopped, FetcherRetired, Deadline, Trouble,
         DashboardFails, GraceExpires, AbortProcessors, AbortTimers,
         RetireTimesOut, TaskPanics, Caretaker, CaretakerBeats,
         CaretakerAnswered, FetcherJoined, FinalExpiry, CaretakerDone,
         Environment, Ask, LeaseExpires, PurgeLease, StrayLands, HeartbeatSent,
         HeartbeatEnds, TaskEnds, runVars, Answered, Unanswered
<1>5. faults' \in 0..MaxFaults
  BY <1>1, <1>4, RunAssumption DEF Flags, Fault
<1>6. /\ intakeOpen' \in BOOLEAN /\ forced' \in BOOLEAN /\ timerStop' \in BOOLEAN
      /\ crashed' \in BOOLEAN /\ retired' \in BOOLEAN /\ error' \in BOOLEAN
  BY <1>1, <1>2, <1>3 DEF Flags
<1>7. QED
  BY <1>1, <1>2, <1>5, <1>6 DEF Flags

\* One sender's wait: what it becomes, and what is left stray.
LEMMA OutMoves ==
  ASSUME RunInv, NEW who \in Sender, NEW next \in Statement \cup {Idle},
         \/ Answered(who, next) \/ Unanswered(who, next) \/ Abandon(who, next)
         \/ out' = [out EXCEPT ![who] = next] /\ UNCHANGED stray
  PROVE  /\ out' \in [Sender -> Statement \cup {Idle}] /\ stray' \subseteq Statement
         /\ out'[who] = next /\ \A w \in Sender \ {who} : out'[w] = out[w]
<1>1. out \in [Sender -> Statement \cup {Idle}] /\ stray \subseteq Statement
  BY DEF RunInv, Outstanding
<1>2. out' = [out EXCEPT ![who] = next]
  BY DEF Answered, Unanswered, Abandon
<1>3. stray' \subseteq Statement
  BY <1>1 DEF Answered, Unanswered, Abandon
<1>4. QED
  BY <1>1, <1>2, <1>3

LEMMA OutstandingOK == RunInv /\ [RunNext]_runVars => Outstanding'
<1> SUFFICES ASSUME RunInv, [RunNext]_runVars PROVE Outstanding'
  OBVIOUS
<1> USE DEF Sender
<1>1. Outstanding /\ Tasks /\ intakeOpen \in BOOLEAN
  BY DEF RunInv, Flags
<1>2. CASE UNCHANGED <<out, phase, task, caretaker>> /\ stray' \subseteq stray
  BY <1>1, <1>2 DEF Outstanding
<1>3. CASE Main
  <2>1. CASE Setup
    <3>1. CASE out' = [out EXCEPT !["main"] = Beat(intakeOpen)]
      BY <1>1, <2>1, <3>1, OutMoves, Statements DEF Setup, Outstanding
    <3>2. CASE UNCHANGED out /\ phase' = "returned"
      BY <1>1, <2>1, <3>2 DEF Setup, Outstanding
    <3>3. QED
      BY <2>1, <3>1, <3>2 DEF Setup
  <2>2. CASE LeaseWritten
    BY <1>1, <2>2, OutMoves, Statements DEF LeaseWritten, Outstanding
  <2>3. CASE CancelStart
    BY <1>1, <2>3, OutMoves, Statements
       DEF CancelStart, RetireStartupLease, Outstanding
  <2>4. CASE StartupClosed
    BY <1>1, <2>4, OutMoves, Statements DEF StartupClosed, Outstanding
  <2>5. CASE StartupRetired
    BY <1>1, <2>5, OutMoves, Statements DEF StartupRetired, Outstanding
  <2>6. CASE Spawn
    BY <1>1, <2>6, RunAssumption DEF Spawn, Outstanding, Tasks, Startup, Task
  <2>7. CASE \E e \in BOOLEAN : BeginShutdown(e)
    BY <1>1, <2>7, OutMoves, Statements DEF BeginShutdown, Outstanding
  <2>8. CASE IntakeClosed
    BY <1>1, <2>8, OutMoves, Statements
       DEF IntakeClosed, Outstanding, Tasks, Startup
  <2>9. CASE ProcessorsDrained \/ TimersStopped \/ FetcherRetired
    BY <1>1, <2>9
       DEF ProcessorsDrained, TimersStopped, FetcherRetired, Outstanding
  <2>10. QED
    BY <1>3, <2>1, <2>2, <2>3, <2>4, <2>5, <2>6, <2>7, <2>8, <2>9 DEF Main
<1>4. ASSUME NEW S \in SUBSET Task, NEW e, EndAs(S, e),
             UNCHANGED caretaker, phase \in {"force", "timers"} \/ UNCHANGED phase,
             phase' \in {phase, "timers", "retire"}
      PROVE  Outstanding'
  <2>1. CASE InfoLoop \in S
    BY <1>1, <1>4, <2>1, OutMoves, Statements DEF EndAs, Outstanding
  <2>2. CASE InfoLoop \notin S
    BY <1>1, <1>4, <2>2, RunAssumption DEF EndAs, Outstanding, Task
  <2>3. QED
    BY <2>1, <2>2
<1>5. CASE Deadline \/ Trouble
  <2>1. CASE DashboardFails
    BY <1>1, <2>1, OutMoves, Statements DEF DashboardFails, Outstanding
  <2>2. CASE GraceExpires
    BY <1>1, <2>2 DEF GraceExpires, Outstanding
  <2>3. CASE AbortProcessors
    BY <1>4, <2>3 DEF AbortProcessors, Running, Task
  <2>4. CASE AbortTimers
    BY <1>4, <2>4 DEF AbortTimers, Running, Task
  <2>5. CASE RetireTimesOut
    BY <1>1, <2>5, OutMoves, Statements, RunAssumption
       DEF RetireTimesOut, AbortFetcher, Outstanding, Tasks, Task
  <2>6. ASSUME NEW t \in Task, TaskPanics(t) PROVE Outstanding'
    BY <1>4, <2>6 DEF TaskPanics
  <2>7. QED
    BY <1>5, <2>1, <2>2, <2>3, <2>4, <2>5, <2>6 DEF Deadline, Trouble
<1>6. CASE Caretaker
  <2>1. CASE CaretakerBeats
    BY <1>1, <2>1, OutMoves, Statements DEF CaretakerBeats, Outstanding
  <2>2. CASE CaretakerAnswered
    BY <1>1, <2>2, OutMoves, Statements DEF CaretakerAnswered, Outstanding
  <2>3. CASE FetcherJoined
    BY <1>1, <2>3, Statements DEF FetcherJoined, Outstanding
  <2>4. CASE FinalExpiry
    BY <1>1, <2>4, OutMoves, Statements DEF FinalExpiry, Outstanding
  <2>5. CASE CaretakerDone
    BY <1>1, <2>5, OutMoves, Statements DEF CaretakerDone, Outstanding
  <2>6. QED
    BY <1>6, <2>1, <2>2, <2>3, <2>4, <2>5 DEF Caretaker
<1>7. CASE HeartbeatSent
  BY <1>1, <1>7, OutMoves, Statements DEF HeartbeatSent, Outstanding
<1>8. CASE HeartbeatEnds
  BY <1>1, <1>8, OutMoves, Statements DEF HeartbeatEnds, Outstanding
<1>9. ASSUME NEW t \in Task, TaskEnds(t) PROVE Outstanding'
  BY <1>4, <1>9 DEF TaskEnds
<1>10. CASE Environment \/ UNCHANGED runVars
  BY <1>2, <1>10
     DEF Environment, Ask, LeaseExpires, PurgeLease, StrayLands, runVars
<1>11. QED
  BY <1>3, <1>5, <1>6, <1>7, <1>8, <1>9, <1>10 DEF RunNext

LEMMA PanicsOK == RunInv /\ [RunNext]_runVars => Panics'
<1> SUFFICES ASSUME RunInv, [RunNext]_runVars PROVE Panics'
  OBVIOUS
<1> USE RunAssumption DEF Startup, Task, Unjoined
<1>1. Panics /\ Tasks
  BY DEF RunInv
<1>2. CASE Main
  <2>1. CASE \/ Setup \/ LeaseWritten \/ CancelStart \/ StartupClosed
             \/ StartupRetired
    BY <1>1, <2>1 DEF Setup, LeaseWritten, CancelStart, RetireStartupLease,
                      StartupClosed, StartupRetired, Panics, Tasks, history
  <2>2. CASE Spawn
    BY <1>1, <2>2 DEF Spawn, Panics, Tasks, history
  <2>3. CASE (\E e \in BOOLEAN : BeginShutdown(e)) \/ IntakeClosed
    BY <1>1, <2>3 DEF BeginShutdown, IntakeClosed, Panics, Tasks, history
  <2>4. CASE ProcessorsDrained \/ TimersStopped \/ FetcherRetired
    \* A panicked task that the join passes is found by the join.
    <3>1. UNCHANGED <<task, crashed>> /\ phase' \in {"timers", "retire", "returned"}
      BY <2>4 DEF ProcessorsDrained, TimersStopped, FetcherRetired, history
    <3>2. error => error'
      BY <2>4 DEF ProcessorsDrained, TimersStopped, FetcherRetired, Joined
    <3>3. ASSUME NEW t \in Task, task[t] = "panicked", Unjoined(t)
          PROVE  Unjoined(t)' \/ error'
      BY <2>4, <3>3 DEF ProcessorsDrained, TimersStopped, FetcherRetired,
                        Joined, Panicked
    <3>4. QED
      BY <1>1, <3>1, <3>2, <3>3 DEF Panics
  <2>5. QED
    BY <1>2, <2>1, <2>2, <2>3, <2>4 DEF Main
<1>3. CASE Deadline \/ Trouble
  <2>1. CASE DashboardFails \/ GraceExpires
    BY <1>1, <2>1 DEF DashboardFails, GraceExpires, Panics, Tasks, history
  <2>2. CASE AbortProcessors \/ AbortTimers \/ RetireTimesOut
    BY <1>1, <2>2 DEF AbortProcessors, AbortTimers, RetireTimesOut, Panics,
                      Tasks, history
  <2>3. ASSUME NEW t \in Task, TaskPanics(t) PROVE Panics'
    BY <1>1, <2>3 DEF TaskPanics, EndAs, Panics, Tasks
  <2>4. QED
    BY <1>3, <2>1, <2>2, <2>3 DEF Deadline, Trouble
<1>4. ASSUME NEW t \in Task, TaskEnds(t) PROVE Panics'
  BY <1>1, <1>4 DEF TaskEnds, EndAs, Panics, Tasks, history
<1>5. CASE \/ Caretaker \/ Environment \/ HeartbeatSent \/ HeartbeatEnds
           \/ UNCHANGED runVars
  <2>1. UNCHANGED <<phase, task, error, crashed>>
    BY <1>5 DEF Caretaker, CaretakerBeats, CaretakerAnswered, FetcherJoined,
                FinalExpiry, CaretakerDone, Environment, Ask, LeaseExpires,
                PurgeLease, StrayLands, HeartbeatSent, HeartbeatEnds, runVars,
                history
  <2>2. QED
    BY <1>1, <2>1 DEF Panics
<1>6. QED
  BY <1>2, <1>3, <1>4, <1>5 DEF RunNext

LEMMA GivenBackOK == RunInv /\ [RunNext]_runVars => GivenBack'
<1> SUFFICES ASSUME RunInv, [RunNext]_runVars PROVE GivenBack'
  OBVIOUS
<1> USE DEF Startup
<1>1. GivenBack /\ Tasks /\ Outstanding /\ faults \in Nat
  BY RunAssumption DEF RunInv, Flags
<1>2. Fault => faults' \in Nat \ {0}
  BY <1>1 DEF Fault
<1>3. CASE Main
  <2>1. CASE Setup
    BY <1>1, <1>2, <2>1 DEF Setup, GivenBack, Tasks, leases, history
  <2>2. CASE LeaseWritten \/ CancelStart \/ StartupClosed \/ Spawn
    BY <1>1, <2>2 DEF LeaseWritten, CancelStart, RetireStartupLease,
                      StartupClosed, Spawn, GivenBack, Tasks
  <2>3. CASE StartupRetired
    BY <1>1, <1>2, <2>3 DEF StartupRetired, Unanswered, GivenBack, Tasks
  <2>4. CASE \/ \E e \in BOOLEAN : BeginShutdown(e)
             \/ IntakeClosed \/ ProcessorsDrained \/ TimersStopped
    BY <1>1, <2>4 DEF BeginShutdown, IntakeClosed, ProcessorsDrained,
                      TimersStopped, GivenBack, Tasks, history
  <2>5. CASE FetcherRetired
    BY <1>1, <2>5 DEF FetcherRetired, GivenBack, leases, history
  <2>6. QED
    BY <1>3, <2>1, <2>2, <2>3, <2>4, <2>5 DEF Main
<1>4. CASE Deadline \/ Trouble
  BY <1>1, <1>2, <1>4
     DEF Deadline, Trouble, DashboardFails, GraceExpires, AbortProcessors,
         AbortTimers, RetireTimesOut, TaskPanics, GivenBack, Tasks, history, Task
<1>5. CASE Caretaker
  BY <1>1, <1>2, <1>5
     DEF Caretaker, CaretakerBeats, CaretakerAnswered, FetcherJoined,
         FinalExpiry, CaretakerDone, Unanswered, GivenBack, Tasks, history
<1>6. CASE HeartbeatSent \/ HeartbeatEnds \/ \E t \in Task : TaskEnds(t)
  \* Some task runs, so the run is neither starting nor over.
  <2>1. phase \notin {"setup", "returned"} /\ UNCHANGED <<phase, caretaker, retired>>
    BY <1>1, <1>6, RunAssumption
       DEF HeartbeatSent, HeartbeatEnds, TaskEnds, Tasks, Outstanding, Task,
           history
  <2>2. faults' = faults \/ Fault
    BY <1>6 DEF HeartbeatSent, HeartbeatEnds, TaskEnds, Answered, Unanswered
  <2>3. QED
    BY <1>1, <1>2, <2>1, <2>2 DEF GivenBack
<1>7. CASE Environment \/ UNCHANGED runVars
  BY <1>1, <1>2, <1>7
     DEF Environment, Ask, LeaseExpires, PurgeLease, StrayLands, GivenBack,
         runVars, leases, history
<1>8. QED
  BY <1>3, <1>4, <1>5, <1>6, <1>7 DEF RunNext

LEMMA RunStepOK == RunInv /\ [RunNext]_runVars => RunInv'
BY FlagsOK, EveryRowStep, RowStepOK, OutstandingOK, TasksOK, PanicsOK, GivenBackOK
   DEF RunInv

LEMMA RunInvariant == RunSpec => []RunInv
BY RunInitOK, RunStepOK, PTL DEF RunSpec

-----------------------------------------------------------------------------
(***************************************************************************)
(* The lease outlives the work: no statement that expires the worker's     *)
(* lease is ever sent by run_until while a processor, timer or fetcher of  *)
(* the run can still touch a job.                                          *)
(***************************************************************************)
THEOREM LeaseIsLast == RunSpec => []LeaseOutlivesWork
<1>1. RunInv => LeaseOutlivesWork
  <2> SUFFICES ASSUME RunInv,
                      (\E s \in Sender : out[s].op = "expire") \/ retired
               PROVE  Running(Task) = {}
    BY DEF LeaseOutlivesWork
  <2>1. \/ phase \in Startup
        \/ phase \in {"retire", "returned"} /\ caretaker \in {"final", "done"}
        \/ phase = "returned"
    BY DEF RunInv, Outstanding, Tasks, Sender, Startup
  <2>2. \A t \in Task : task[t] # "running"
    BY <2>1, RunAssumption DEF RunInv, Tasks, Task, Startup
  <2>3. QED
    BY <2>2 DEF Running
<1>2. QED
  BY <1>1, RunInvariant, PTL

(***************************************************************************)
(* A run returns cleanly, whatever failed on the way: no task is left, the *)
(* row that was closed does not accept, a lease that was written has been  *)
(* taken back unless a statement failed or the last deadline passed, and a *)
(* panic makes the run an error.                                           *)
(***************************************************************************)
THEOREM RunReturnsClean == RunSpec => []RunSafety
<1>1. RunInv => RunSafety
  <2> SUFFICES ASSUME RunInv PROVE RunSafety
    OBVIOUS
  <2>1. RunTypeOK
    <3>1. {intakeOpen, forced, timerStop, crashed, shut, retired, purged}
              \subseteq BOOLEAN
      BY DEF RunInv, Flags, Row
    <3>2. QED
      BY <3>1 DEF RunInv, Flags, Row, Outstanding, Tasks, Startup, RunTypeOK
  <2>2. NothingDetached
    BY DEF RunInv, Tasks, NothingDetached, Running, Task
  <2>3. ReturnedIsNotAccepting
    BY DEF RunInv, Row, ReturnedIsNotAccepting
  <2>4. LeaseIsTakenBack
    BY DEF RunInv, GivenBack, LeaseIsTakenBack
  <2>5. PanicIsReported
    BY DEF RunInv, Panics, Unjoined, PanicIsReported
  <2>6. QED
    BY <2>1, <2>2, <2>3, <2>4, <2>5 DEF RunSafety
<1>2. QED
  BY <1>1, RunInvariant, PTL

=============================================================================
