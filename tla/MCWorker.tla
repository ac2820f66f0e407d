------------------------------ MODULE MCWorker ------------------------------
(***************************************************************************)
(* The parts of a worker process: its run, its intake, its health reports  *)
(* and its cron scheduler.  The modules share no variable and no property  *)
(* relates two of them, so interleaving them would only multiply their     *)
(* states: a behaviour moves one part and leaves the others where they     *)
(* start.                                                                  *)
(***************************************************************************)
EXTENDS WorkerRun, WorkerIntake, WorkerHealth, CronSchedule

CONSTANTS w1, w2, k1, k2

VARIABLE part

-----------------------------------------------------------------------------
(***************************************************************************)
(* Crons.  The expressions "odd" and "even" fire every two units of time;  *)
(* "never" matches no date.  The times reach past MaxClock, so that the    *)
(* others always have a next occurrence.                                   *)
(***************************************************************************)
Times == [odd |-> {1, 3, 5, 7}, even |-> {0, 2, 4, 6, 8}, never |-> {}]

Cron(revision, expression, misfire, grace) ==
    [revision |-> revision, expression |-> expression, misfire |-> misfire,
     grace |-> grace, definition |-> revision]

Deploy(bursts, one, other) ==
    [burst |-> bursts,
     crons |-> [w \in Worker |-> IF w = w1 THEN one ELSE other]]

Key1(cron) == [k \in {k1} |-> cron]

Nothing == [k \in {} |-> k]

NoCrons == Deploy({}, Nothing, Nothing)

\* A release with another misfire policy is rolled out.
NewPolicy == Deploy({}, Key1(Cron(1, "odd", "skip", 0)),
                        Key1(Cron(2, "odd", "fire_once", 0)))

\* A release with another expression is rolled out beside a burst of the old.
NewExpression == Deploy({w1}, Key1(Cron(1, "odd", "skip", 2)),
                              Key1(Cron(2, "even", "skip", 2)))

\* One of two crons can never fire.
OneImpossible ==
    Deploy({}, [k \in {k1, k2} |->
                    Cron(1, IF k = k1 THEN "odd" ELSE "never", "skip", 0)],
               Nothing)

\* A change of policy alone.
OneRollout == {NoCrons, NewPolicy}

Rollouts == {NoCrons, NewPolicy, NewExpression, OneImpossible}

-----------------------------------------------------------------------------
\* An intake that is not looked at starts in one way only.
IntakeAtRest ==
    ~burst /\ leased /\ place = [r \in Row |-> "future"]

\* Rows differ in nothing, so it does not matter which of them is ready first.
RowsInOrder ==
    LET first == CHOOSE r \in Row : TRUE
    IN  place[first] = "ready" => \A q \in Row : place[q] = "ready"

Init ==
    /\ part \in {"run", "intake", "health", "cron"}
    /\ RunInit /\ IntakeInit /\ HealthInit /\ CronInit
    /\ IF part = "intake" THEN RowsInOrder ELSE IntakeAtRest
    /\ part # "cron" => deployment = NoCrons

OnlyRun ==
    /\ part = "run"
    /\ UNCHANGED <<part, burst, intakeVars, healthVars, deployment, cronVars>>

OnlyIntake ==
    /\ part = "intake"
    /\ UNCHANGED <<part, burst, runVars, healthVars, deployment, cronVars>>

OnlyHealth ==
    /\ part = "health"
    /\ UNCHANGED <<part, burst, runVars, intakeVars, deployment, cronVars>>

OnlyCron ==
    /\ part = "cron"
    /\ UNCHANGED <<part, burst, runVars, intakeVars, healthVars>>

Next ==
    \/ OnlyRun /\ RunNext
    \/ OnlyIntake /\ IntakeNext
    \/ OnlyHealth /\ HealthNext
    \/ OnlyCron /\ CronNext

vars == <<part, burst, runVars, intakeVars, healthVars, deployment, cronVars>>

Spec == Init /\ [][Next]_vars

(***************************************************************************)
(* What is polled goes on.  The run: its main task is polled and its       *)
(* deadlines pass; nothing is assumed of the tasks it runs or of its       *)
(* caretaker.  The intake: the tasks of the runtime are scheduled          *)
(* and handlers return; the surroundings may stay in any state for ever.   *)
(* The health report: critical sections end, observers are polled.  Crons: *)
(* a scheduler that died is replaced, and outside transactions end.        *)
(***************************************************************************)
Polled ==
    /\ WF_runVars(part = "run" /\ (Main \/ Deadline))
    /\ \A p \in Processor : WF_intakeVars(part = "intake" /\ ProcessorStep(p))
    /\ WF_intakeVars(part = "intake" /\ FetcherStep)
    /\ WF_intakeVars(part = "intake" /\ StopIntake)
    /\ \A r \in Reporter : WF_healthVars(part = "health" /\ HealthStep(r))
    /\ \A o \in Observer : WF_healthVars(part = "health" /\ Observe(o))
    /\ \A w \in Worker : WF_cronVars(part = "cron" /\ CronStep(w))
    /\ \A k \in CronKey : WF_cronVars(part = "cron" /\ OutsideUnlock(k))

\* A deadline fires although its processor is woken again and again, and a
\* budget runs out although it is renewed; the mutex of the health report is
\* fair.
Waiting ==
    \/ OnlyIntake /\ (BudgetOver \/ \E p \in Processor : DeadlinePasses(p))
    \/ OnlyHealth /\ (Publish \/ ForwardListener)

FairSpec == Spec /\ Polled /\ SF_vars(Waiting)
=============================================================================
