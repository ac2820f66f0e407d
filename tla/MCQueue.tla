------------------------------ MODULE MCQueue ------------------------------
(***************************************************************************)
(* What happens to a queue around a job's own life: enqueues under dedupe  *)
(* keys, waits for a result, the notify throttle, the delay of a retry,    *)
(* and who of a fleet sweeps.  The modules share no variable and no        *)
(* property relates two of them, so interleaving them would only multiply  *)
(* their states: a behaviour moves one part and leaves the others where    *)
(* they start.                                                             *)
(***************************************************************************)
EXTENDS EnqueueDedupe, CompletionWait, NotifyThrottle, RetryBackoff,
        SweeperLeadership

VARIABLE part

-----------------------------------------------------------------------------
\* Keys "a" and "c" share a lock.
Hash == [k \in Key |-> IF k = "b" THEN 1 ELSE 2]

Job(k) == [key |-> k, name |-> "mine"]

\* A batch with a key twice and a keyless job, and batches of two keys that,
\* sorted by text, would take their two locks in opposite orders.
Batches == {<<Job("a"), Job(NoKey), Job("a"), Job("b")>>,
            <<Job("b"), Job("c")>>, <<Job("c")>>}

\* Delays below, at and above the ceiling, and those of rows written by hand.
Delays == -1..(MaxDuration + 1)
Caps == {0, 1, MaxDuration - 1, MaxDuration, MaxDuration + 1}

-----------------------------------------------------------------------------
\* Parts that are not looked at start in one way only.
Init ==
    /\ part \in {"enqueue", "wait", "throttle", "backoff", "sweep"}
    /\ EnqueueInit /\ WaitInit /\ ThrottleInit /\ BackoffInit
    /\ SweeperInit
    /\ part # "wait" => status = "queued" /\ connected
    /\ part # "backoff" => row = CHOOSE r \in Row : TRUE

Next ==
    /\ \/ /\ part = "enqueue" /\ EnqueueNext
          /\ UNCHANGED <<waitVars, throttleVars, backoffVars, sweeperVars>>
       \/ /\ part = "wait" /\ WaitNext
          /\ UNCHANGED <<enqueueVars, throttleVars, backoffVars, sweeperVars>>
       \/ /\ part = "throttle" /\ ThrottleNext
          /\ UNCHANGED <<enqueueVars, waitVars, backoffVars, sweeperVars>>
       \/ /\ part = "backoff" /\ BackoffNext
          /\ UNCHANGED <<enqueueVars, waitVars, throttleVars, sweeperVars>>
       \/ /\ part = "sweep" /\ SweeperNext
          /\ UNCHANGED <<enqueueVars, waitVars, throttleVars, backoffVars>>
    /\ UNCHANGED part

vars == <<part, enqueueVars, waitVars, throttleVars, backoffVars, sweeperVars>>

(***************************************************************************)
(* A sweep loop runs on, and a closed connection is eventually gone on the *)
(* server.  MeetsFreeLock is about the timers: a process that has let go   *)
(* of the lock asks again one sweep interval later, and the tick of every  *)
(* other process falls into that interval, so a lock that is free again    *)
(* and again is not free only when a healthy process is not asking.  And a *)
(* caller of Sweeper::sweep does not cancel every one of its passes: who   *)
(* does keeps the lock, and nobody sweeps.                                 *)
(***************************************************************************)
Sweeping == part = "sweep"

MeetsFreeLock(s) ==
    []<>(Sweeping /\ owner = NoSession)
        => []<><<Acquire(s) /\ owner = NoSession>>_sweeperVars

PassEnds(s) == PassSucceeds(s) \/ PassFails(s) \/ PassTimesOut(s)

NotAlwaysCancelled(s) ==
    []<><<CancelPass(s)>>_sweeperVars => []<><<PassEnds(s)>>_sweeperVars

SweepFairness ==
    /\ \A s \in Sweeper : WF_sweeperVars(Sweeping /\ SweepStep(s))
    /\ \A s \in Healthy : MeetsFreeLock(s)
    /\ \A s \in Sweeper \ Healthy : NotAlwaysCancelled(s)
    /\ WF_sweeperVars(Sweeping /\ CloseLands)

(***************************************************************************)
(* An enqueue is polled and the database answers.  A waiter's future is    *)
(* polled, its timer fires and its reads are answered; nothing is assumed  *)
(* of the listener.                                                        *)
(***************************************************************************)
FairSpec ==
    /\ Init /\ [][Next]_vars
    /\ \A p \in Producer : WF_enqueueVars(part = "enqueue" /\ EnqueueStep(p))
    /\ \A w \in Waiter : WF_waitVars(part = "wait" /\ Wait(w))
    /\ \A c \in Caller : WF_throttleVars(part = "throttle" /\ ThrottleStep(c))
    /\ SweepFairness

-----------------------------------------------------------------------------
(***************************************************************************)
(* An enqueue comes to its end: it gets the locks of its keys, and the     *)
(* throttle decides whether its insert carries the wakeup.                 *)
(***************************************************************************)
EnqueuesFinish == EnqueuesEnd /\ SlotIsDecided
=============================================================================
