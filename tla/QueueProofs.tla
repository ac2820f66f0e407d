---------------------------- MODULE QueueProofs -----------------------------
(***************************************************************************)
(* What the parts around a job's own life keep, for any number of callers, *)
(* producers, waiters and sweepers.                                        *)
(***************************************************************************)
EXTENDS EnqueueDedupe, CompletionWait, NotifyThrottle, SweeperLeadership,
        RetryBackoff, SequenceTheorems, FiniteSetTheorems, WellFoundedInduction, TLAPS

-----------------------------------------------------------------------------
(***************************************************************************)
(* The notify throttle.  A caller on its way to the exchange has compared  *)
(* its reading with the stamp it holds, and stamps are never rewritten.    *)
(* Two stamps differ, so an exchange that succeeds has compared with the   *)
(* newest of them.                                                         *)
(***************************************************************************)
SwapIsFree ==
    \A c \in Caller : doing[c] = "swap" => WindowFree(reading[c], seen[c])

ThrottleInv == ThrottleTypeOK /\ OneWinnerPerWindow /\ SwapIsFree

LEMMA ThrottleInitOK == ThrottleInit => ThrottleInv
BY ThrottleAssumption DEF ThrottleInit, ThrottleInv, ThrottleTypeOK,
       OneWinnerPerWindow, SwapIsFree

LEMMA StampsTyped ==
    ASSUME ThrottleTypeOK
    PROVE  \A i \in 1..Len(stamps) : stamps[i] \in 0..MaxTime
BY ElementOfSeq DEF ThrottleTypeOK

\* The exchange compares with a stamp, and stamps are pairwise different.
LEMMA SwapComparesLast ==
    ASSUME ThrottleInv, NEW c \in Caller, Unchanged(c)
    PROVE  seen[c] = Len(stamps)
<1>1. seen[c] \in 0..Len(stamps) /\ Len(stamps) \in Nat
  BY DEF ThrottleInv, ThrottleTypeOK
<1>2. \A i \in 1..Len(stamps) : stamps[i] \in 0..MaxTime
  BY StampsTyped DEF ThrottleInv
<1>3. SUFFICES ASSUME seen[c] < Len(stamps) PROVE FALSE
  BY <1>1
<1>4. CASE seen[c] = 0
  BY <1>1, <1>2, <1>3, <1>4, ThrottleAssumption DEF Unchanged, Value
<1>5. CASE seen[c] # 0
  BY <1>1, <1>2, <1>3, <1>5, ThrottleAssumption
     DEF Unchanged, Value, ThrottleInv, OneWinnerPerWindow
<1>6. QED
  BY <1>4, <1>5

LEMMA SwapWinsOK ==
    ASSUME ThrottleInv, NEW c \in Caller, SwapWins(c)
    PROVE  ThrottleInv'
<1>1. seen[c] = Len(stamps)
  BY SwapComparesLast DEF SwapWins
<1>2. /\ stamps \in Seq(0..MaxTime) /\ Len(stamps) \in Nat
      /\ reading[c] \in 0..MaxTime /\ reading[c] <= time
  BY DEF ThrottleInv, ThrottleTypeOK
<1>3. /\ stamps' \in Seq(0..MaxTime) /\ Len(stamps') = Len(stamps) + 1
      /\ stamps'[Len(stamps) + 1] = reading[c]
      /\ \A i \in 1..Len(stamps) : stamps'[i] = stamps[i]
  BY <1>2 DEF SwapWins, Stamp
<1>4. \A i \in 1..Len(stamps) : stamps[i] \in 0..MaxTime
  BY StampsTyped DEF ThrottleInv
<1>5. \A i \in 1..Len(stamps) : reading[c] - stamps[i] >= Window
  <2>1. CASE Len(stamps) = 0
    BY <2>1
  <2>2. CASE Len(stamps) # 0
    <3>1. reading[c] - stamps[Len(stamps)] >= Window
      BY <1>1, <2>2 DEF ThrottleInv, SwapIsFree, SwapWins, WindowFree
    <3>2. QED
      <4>1. Window \in Nat
        BY ThrottleAssumption
      <4>2. \A i \in 1..Len(stamps) :
              i = Len(stamps) \/ stamps[Len(stamps)] - stamps[i] >= Window
        BY <1>2, <2>2 DEF ThrottleInv, OneWinnerPerWindow
      <4>3. stamps[Len(stamps)] \in Nat /\ reading[c] \in Nat
        BY <1>2, <1>4, <2>2, ThrottleAssumption
      <4>4. ASSUME NEW i \in 1..Len(stamps)
            PROVE  reading[c] - stamps[i] >= Window
        <5>1. stamps[i] \in Nat
          BY <1>4, ThrottleAssumption
        <5>2. i = Len(stamps) \/ stamps[Len(stamps)] - stamps[i] >= Window
          BY <4>2
        <5>3. QED
          BY <3>1, <4>1, <4>3, <5>1, <5>2
      <4>5. QED
        BY <4>4
  <2>3. QED
    BY <2>1, <2>2
<1>6. OneWinnerPerWindow'
  BY <1>2, <1>3, <1>5 DEF ThrottleInv, OneWinnerPerWindow
<1>7. ThrottleTypeOK'
  BY <1>2, <1>3 DEF ThrottleInv, ThrottleTypeOK, SwapWins
<1>8. SwapIsFree'
  BY <1>2, <1>3 DEF ThrottleInv, ThrottleTypeOK, SwapIsFree, SwapWins,
                    WindowFree
<1>9. QED
  BY <1>6, <1>7, <1>8 DEF ThrottleInv

LEMMA ThrottleStepOK ==
    ThrottleInv /\ [ThrottleNext]_throttleVars => ThrottleInv'
<1> SUFFICES ASSUME ThrottleInv, [ThrottleNext]_throttleVars
             PROVE  ThrottleInv'
  OBVIOUS
<1> USE ThrottleAssumption
           DEF ThrottleInv, ThrottleTypeOK, OneWinnerPerWindow, SwapIsFree
<1>1. CASE ClockTicks
  BY <1>1 DEF ClockTicks, WindowFree
<1>2. ASSUME NEW c \in Caller, NEW due \in BOOLEAN, Enqueue(c, due)
      PROVE  ThrottleInv'
  <2>1. CASE due
    <3>1. /\ doing' = [doing EXCEPT ![c] = "load"]
          /\ reading' = [reading EXCEPT ![c] = time]
          /\ UNCHANGED <<time, stamps, seen, wakes>>
      BY <1>2, <2>1 DEF Enqueue
    <3>2. QED
      BY <3>1 DEF WindowFree
  <2>2. CASE ~due
    <3>1. /\ doing' = [doing EXCEPT ![c] = "insert"]
          /\ UNCHANGED <<reading, time, stamps, seen, wakes>>
      BY <1>2, <2>2 DEF Enqueue
    <3>2. QED
      BY <3>1 DEF WindowFree
  <2>3. QED
    BY <2>1, <2>2
<1>3. ASSUME NEW c \in Caller, Load(c) PROVE ThrottleInv'
  BY <1>3 DEF Load, WindowFree
<1>4. ASSUME NEW c \in Caller, Test(c) PROVE ThrottleInv'
  BY <1>4 DEF Test, WindowFree
<1>5. ASSUME NEW c \in Caller, SwapLoses(c) PROVE ThrottleInv'
  BY <1>5 DEF SwapLoses, TakeCurrent, WindowFree
<1>6. ASSUME NEW c \in Caller, RunInsert(c) PROVE ThrottleInv'
  BY <1>6 DEF RunInsert, WindowFree
<1>7. CASE UNCHANGED throttleVars
  BY <1>7 DEF throttleVars, WindowFree
<1>8. QED
  BY <1>1, <1>2, <1>3, <1>4, <1>5, <1>6, <1>7, SwapWinsOK
     DEF ThrottleNext, ThrottleStep

\* Whoever leaves with the slot has left its own reading behind; whoever leaves
\* without it has seen a stamp within its window.
LEMMA WinnerExists ==
    ASSUME ThrottleInv, ThrottleNext, NEW c \in Caller,
           doing[c] \in {"test", "swap"}, doing'[c] = "insert"
    PROVE  \E i \in 1..Len(stamps') : reading[c] - stamps'[i] < Window
<1>1. Test(c) \/ SwapWins(c)
  BY DEF ThrottleInv, ThrottleTypeOK, ThrottleNext, ThrottleStep, ClockTicks,
         Enqueue, Load, Test, SwapLoses, RunInsert, SwapWins
<1>2. CASE Test(c)
  <2>1. /\ ~WindowFree(reading[c], seen[c]) /\ stamps' = stamps
        /\ seen[c] \in 0..Len(stamps)
    BY <1>2 DEF ThrottleInv, ThrottleTypeOK, Test
  <2>2. seen[c] \in 1..Len(stamps') /\ stamps'[seen[c]] \in 0..MaxTime
    BY <2>1, StampsTyped DEF WindowFree, ThrottleInv
  <2>3. reading[c] - stamps'[seen[c]] < Window
    BY <2>1, <2>2, ThrottleAssumption
       DEF WindowFree, ThrottleInv, ThrottleTypeOK
  <2>4. QED
    BY <2>2, <2>3
<1>3. CASE SwapWins(c)
  <2>1. /\ Len(stamps') = Len(stamps) + 1 /\ Len(stamps) \in Nat
        /\ stamps'[Len(stamps) + 1] = reading[c] /\ reading[c] \in 0..MaxTime
    BY <1>3 DEF ThrottleInv, ThrottleTypeOK, SwapWins, Stamp
  <2>2. reading[c] - stamps'[Len(stamps) + 1] < Window
    BY <2>1, ThrottleAssumption
  <2>3. QED
    BY <2>1, <2>2
<1>4. QED
  BY <1>1, <1>2, <1>3

(***************************************************************************)
(* take_throttle_slot with any number of callers and a relaxed cell: the   *)
(* readings of two winners are a window apart, and nobody leaves the loop  *)
(* without a winner in the window of its reading.                          *)
(***************************************************************************)
THEOREM ThrottleWorks == ThrottleSpec => ThrottleSafety
<1>1. ThrottleInv => ThrottleTypeOK /\ OneWinnerPerWindow
  BY DEF ThrottleInv
<1>2. ThrottleInv /\ [ThrottleNext]_throttleVars =>
        [\A c \in Caller :
           doing[c] \in {"test", "swap"} /\ doing'[c] = "insert" =>
             \E i \in 1..Len(stamps') :
               reading[c] - stamps'[i] < Window]_throttleVars
  BY WinnerExists
<1>3. QED
  BY <1>1, <1>2, ThrottleInitOK, ThrottleStepOK, PTL
     DEF ThrottleSpec, ThrottleSafety, EveryWindowHasAWinner

-----------------------------------------------------------------------------
(***************************************************************************)
(* Leadership of the sweep.  Where the lock is depends on one more fact: a *)
(* process that waits for the answer to its lock statement has no          *)
(* leadership connection of its own.                                       *)
(***************************************************************************)
AskingHasNone ==
    \A s \in Sweeper : loop[s] \in {"granted", "refused"} => conn[s] = "none"

LeaderInv == SweeperTypeOK /\ LockIsNameable /\ AskingHasNone

LEMMA LeaderInitOK == SweeperInit => LeaderInv
<1> SUFFICES ASSUME SweeperInit PROVE LeaderInv
  OBVIOUS
<1>1. SweeperTypeOK
  BY SweepBoundsAssumption DEF SweeperInit, SweeperTypeOK, Running
<1>2. LockIsNameable
  BY SweepersAssumption DEF SweeperInit, LockIsNameable
<1>3. AskingHasNone
  BY DEF SweeperInit, AskingHasNone
<1>4. QED
  BY <1>1, <1>2, <1>3 DEF LeaderInv

\* The counters of a sweep loop and the backlogs keep their bounds.
LEMMA WorkedTyped ==
  ASSUME SweeperTypeOK, NEW done
  PROVE  Worked(done) \in [Operation -> 0..MaxBacklog]
BY SweepBoundsAssumption DEF SweeperTypeOK, Worked

LEMMA SweepCountersOK ==
  ASSUME LeaderInv, [SweeperNext]_sweeperVars
  PROVE  /\ pools' \in [Sweeper -> {"up", "down"}]
         /\ failed' \in [Sweeper -> 0..MaxFailures]
         /\ ops' \in [Sweeper -> SUBSET Operation]
         /\ pass' \in [Sweeper -> 0..MaxPasses]
         /\ backlog' \in [Operation -> 0..MaxBacklog]
         /\ arrived' \in 0..Arrivals
<1> USE SweepBoundsAssumption
<1>1. SweeperTypeOK
  BY DEF LeaderInv
<1>2. ASSUME NEW s \in Sweeper, PassSucceeds(s) \/ PassFails(s)
      PROVE  /\ UNCHANGED <<pools, arrived>>
             /\ failed' \in [Sweeper -> 0..MaxFailures]
             /\ ops' \in [Sweeper -> SUBSET Operation]
             /\ pass' \in [Sweeper -> 0..MaxPasses]
             /\ backlog' \in [Operation -> 0..MaxBacklog]
  <2>1. backlog' \in [Operation -> 0..MaxBacklog]
    BY <1>1, <1>2, WorkedTyped DEF PassSucceeds, PassFails
  <2>2. failed' \in [Sweeper -> 0..MaxFailures]
    BY <1>1, <1>2 DEF PassSucceeds, PassFails, CountFailure, SweeperTypeOK
  <2>3. Unfinished(ops[s]) \in SUBSET Operation
    BY <1>1 DEF Unfinished, SweeperTypeOK
  <2>4. /\ ops' \in [Sweeper -> SUBSET Operation]
        /\ pass' \in [Sweeper -> 0..MaxPasses]
    BY <1>1, <1>2, <2>3 DEF PassSucceeds, PassFails, Drain, SweeperTypeOK
  <2>5. UNCHANGED <<pools, arrived>>
    BY <1>2 DEF PassSucceeds, PassFails
  <2>6. QED
    BY <2>1, <2>2, <2>4, <2>5
<1>3. ASSUME NEW s \in Sweeper, Tick(s) \/ Refused(s) \/ PoolFails(s)
      PROVE  /\ UNCHANGED <<backlog, arrived>>
             /\ pools' \in [Sweeper -> {"up", "down"}]
             /\ failed' \in [Sweeper -> 0..MaxFailures]
             /\ ops' \in [Sweeper -> SUBSET Operation]
             /\ pass' \in [Sweeper -> 0..MaxPasses]
  BY <1>1, <1>3 DEF Tick, Refused, PoolFails, SweeperTypeOK
<1>4. ASSUME NEW s \in Sweeper,
             \/ Probe(s) \/ Acquire(s) \/ Granted(s) \/ AcquisitionFails(s)
             \/ PassTimesOut(s) \/ CancelPass(s) \/ Stop(s) \/ SessionLost(s)
      PROVE  UNCHANGED <<pools, failed, ops, pass, backlog, arrived>>
  BY <1>4 DEF Probe, Acquire, Granted, AcquisitionFails, PassTimesOut,
              CancelPass, Stop, SessionLost
<1>5. ASSUME NEW o \in Operation, Arrive(o)
      PROVE  /\ UNCHANGED <<pools, failed, ops, pass>>
             /\ backlog' \in [Operation -> 0..MaxBacklog]
             /\ arrived' \in 0..Arrivals
  BY <1>1, <1>5 DEF Arrive, SweeperTypeOK
<1>6. ASSUME CloseLands \/ UNCHANGED sweeperVars
      PROVE  UNCHANGED <<pools, failed, ops, pass, backlog, arrived>>
  BY <1>6 DEF CloseLands, sweeperVars
<1>7. QED
  BY <1>1, <1>2, <1>3, <1>4, <1>5, <1>6
     DEF SweeperNext, SweepStep, SweeperTypeOK

\* Nobody else is touched by a step of one process.
LEMMA SweeperMoves ==
  ASSUME LeaderInv, NEW s \in Sweeper,
         NEW c \in {"none", "alive", "dead"},
         NEW l \in Running \cup {"waiting", "stopped"},
         conn' = [conn EXCEPT ![s] = c], loop' = [loop EXCEPT ![s] = l],
         \/ owner' = owner
         \/ owner' = NoSession /\ owner \in {<<s, "conn">>, <<s, "acquiring">>}
         \/ /\ owner \in {NoSession, <<s, "conn">>, <<s, "acquiring">>}
            /\ owner' \in {<<s, "conn">>, <<s, "acquiring">>, <<s, "closing">>},
         owner' = <<s, "conn">> <=> c = "alive",
         owner' = <<s, "acquiring">> => l = "granted",
         l \in {"granted", "refused"} => c = "none"
  PROVE  /\ owner' \in Session \cup {NoSession}
         /\ conn' \in [Sweeper -> {"none", "alive", "dead"}]
         /\ loop' \in [Sweeper -> Running \cup {"waiting", "stopped"}]
         /\ LockIsNameable' /\ AskingHasNone'
<1>1. /\ owner' \in Session \cup {NoSession}
      /\ conn' \in [Sweeper -> {"none", "alive", "dead"}]
      /\ loop' \in [Sweeper -> Running \cup {"waiting", "stopped"}]
  BY DEF LeaderInv, SweeperTypeOK, Session
<1>2. /\ conn'[s] = c /\ loop'[s] = l
      /\ \A t \in Sweeper \ {s} : conn'[t] = conn[t] /\ loop'[t] = loop[t]
  BY DEF LeaderInv, SweeperTypeOK
<1>3. ASSUME NEW t \in Sweeper
      PROVE  /\ owner' # <<t, "pooled">>
             /\ owner' = <<t, "conn">> <=> conn'[t] = "alive"
             /\ owner' = <<t, "acquiring">> => loop'[t] = "granted"
             /\ loop'[t] \in {"granted", "refused"} => conn'[t] = "none"
  <2>1. CASE t = s
    BY <2>1, <1>2, SweepersAssumption DEF LeaderInv, LockIsNameable
  <2>2. CASE t # s
    BY <2>2, <1>2, SweepersAssumption
       DEF LeaderInv, LockIsNameable, AskingHasNone
  <2>3. QED
    BY <2>1, <2>2
<1>4. QED
  BY <1>1, <1>3 DEF LockIsNameable, AskingHasNone

LEMMA LockStepOK ==
  ASSUME LeaderInv, [SweeperNext]_sweeperVars
  PROVE  /\ owner' \in Session \cup {NoSession}
         /\ conn' \in [Sweeper -> {"none", "alive", "dead"}]
         /\ loop' \in [Sweeper -> Running \cup {"waiting", "stopped"}]
         /\ LockIsNameable' /\ AskingHasNone'
<1> DEFINE Goal == /\ owner' \in Session \cup {NoSession}
                   /\ conn' \in [Sweeper -> {"none", "alive", "dead"}]
                   /\ loop' \in [Sweeper -> Running \cup {"waiting", "stopped"}]
                   /\ LockIsNameable' /\ AskingHasNone'
<1>1. /\ conn \in [Sweeper -> {"none", "alive", "dead"}]
      /\ loop \in [Sweeper -> Running \cup {"waiting", "stopped"}]
  BY DEF LeaderInv, SweeperTypeOK
\* Where the lock may be while a process is at each step.
<1>2. ASSUME NEW s \in Sweeper
      PROVE  /\ conn[s] \in {"none", "alive", "dead"}
             /\ loop[s] \in Running \cup {"waiting", "stopped"}
             /\ conn = [conn EXCEPT ![s] = conn[s]]
             /\ loop = [loop EXCEPT ![s] = loop[s]]
             /\ owner = <<s, "conn">> <=> conn[s] = "alive"
             /\ owner = <<s, "acquiring">> => loop[s] = "granted"
             /\ loop[s] \in {"granted", "refused"} => conn[s] = "none"
             /\ NoSession \notin {<<s, "conn">>, <<s, "acquiring">>}
  BY <1>1, SweepersAssumption DEF LeaderInv, LockIsNameable, AskingHasNone
<1>3. ASSUME NEW s \in Sweeper, Tick(s) \/ Refused(s) \/ PassSucceeds(s)
      PROVE  Goal
  <2>1. PICK l \in {"ensure", "waiting"} : loop' = [loop EXCEPT ![s] = l]
    BY <1>3 DEF Tick, Refused, PassSucceeds, Drain, Goto
  <2>2. owner' = owner /\ conn' = [conn EXCEPT ![s] = conn[s]]
    BY <1>2, <1>3 DEF Tick, Refused, PassSucceeds
  <2>3. loop[s] # "granted"
    BY <1>3 DEF Tick, Refused, PassSucceeds
  <2>4. QED
    BY <1>2, <2>1, <2>2, <2>3, SweeperMoves DEF Running
<1>4. ASSUME NEW s \in Sweeper, Probe(s) PROVE Goal
  <2>1. CASE conn[s] = "alive"
    <3>1. loop' = [loop EXCEPT ![s] = "passing"] /\ owner' = owner /\ conn' = conn
      BY <1>4, <2>1 DEF Probe, Goto
    <3>2. QED
      BY <1>2, <1>4, <2>1, <3>1, SweeperMoves DEF Running, Probe
  <2>2. CASE conn[s] = "dead"
    <3>1. /\ loop' = loop /\ owner' = owner
          /\ conn' = [conn EXCEPT ![s] = "none"]
      BY <1>2, <1>4, <2>2 DEF Probe, Release, Shut
    <3>2. QED
      BY <1>2, <1>4, <2>2, <3>1, SweeperMoves DEF Running, Probe
  <2>3. QED
    BY <1>4, <2>1, <2>2 DEF Probe
<1>5. ASSUME NEW s \in Sweeper, Acquire(s) PROVE Goal
  <2>1. conn[s] = "none" /\ loop[s] = "ensure" /\ conn' = conn
    BY <1>5 DEF Acquire, IsLeader
  <2>2. CASE owner = NoSession
    <3>1. /\ owner' = <<s, "acquiring">> /\ loop' = [loop EXCEPT ![s] = "granted"]
      BY <1>5, <2>2 DEF Acquire, Goto
    <3>2. QED
      BY <1>2, <2>1, <2>2, <3>1, SweeperMoves DEF Running
  <2>3. CASE owner # NoSession
    <3>1. owner' = owner /\ loop' = [loop EXCEPT ![s] = "refused"]
      BY <1>5, <2>3 DEF Acquire, Goto
    <3>2. QED
      BY <1>2, <2>1, <2>3, <3>1, SweeperMoves DEF Running
  <2>4. QED
    BY <2>2, <2>3
<1>6. ASSUME NEW s \in Sweeper, Granted(s) PROVE Goal
  <2>1. loop[s] = "granted" /\ loop' = [loop EXCEPT ![s] = "passing"]
    BY <1>6 DEF Granted, Goto
  <2>2. CASE owner = <<s, "acquiring">>
    <3>1. owner' = <<s, "conn">> /\ conn' = [conn EXCEPT ![s] = "alive"]
      BY <1>6, <2>2 DEF Granted
    <3>2. QED
      BY <1>2, <2>1, <2>2, <3>1, SweeperMoves DEF Running
  <2>3. CASE owner # <<s, "acquiring">>
    <3>1. owner' = owner /\ conn' = [conn EXCEPT ![s] = "dead"]
      BY <1>6, <2>3 DEF Granted
    <3>2. QED
      BY <1>2, <2>1, <2>3, <3>1, SweeperMoves DEF Running
  <2>4. QED
    BY <2>2, <2>3
\* The guard closes what it holds, and an acquisition is all it can hold.
<1>7. ASSUME NEW s \in Sweeper, AcquisitionFails(s) \/ CancelPass(s)
      PROVE  Goal
  <2>1. loop' = [loop EXCEPT ![s] = "waiting"] /\ conn' = conn
    BY <1>7 DEF AcquisitionFails, CancelPass, Goto
  <2>2. owner' = IF owner = <<s, "acquiring">> THEN <<s, "closing">> ELSE owner
    BY <1>7 DEF AcquisitionFails, CancelPass, DropAcquisition, Shut
  <2>3. CASE owner = <<s, "acquiring">>
    BY <1>2, <2>1, <2>2, <2>3, SweeperMoves
  <2>4. CASE owner # <<s, "acquiring">>
    BY <1>2, <2>1, <2>2, <2>4, SweeperMoves
  <2>5. QED
    BY <2>3, <2>4
<1>8. ASSUME NEW s \in Sweeper, PassFails(s) PROVE Goal
  <2>1. /\ loop' = [loop EXCEPT ![s] = "waiting"] /\ loop[s] = "passing"
        /\ \/ conn' = conn /\ owner' = owner
           \/ conn' = [conn EXCEPT ![s] = "none"] /\ owner' = Shut(s, "conn")
    BY <1>8 DEF PassFails, CountFailure, Release, Goto
  <2>2. CASE conn' = conn /\ owner' = owner
    BY <1>2, <2>1, <2>2, SweeperMoves
  <2>3. CASE conn' = [conn EXCEPT ![s] = "none"] /\ owner' = Shut(s, "conn")
    <3>1. CASE owner = <<s, "conn">>
      <4>1. owner' = <<s, "closing">>
        BY <2>3, <3>1 DEF Shut
      <4>2. owner' # <<s, "conn">> /\ owner' # <<s, "acquiring">>
        BY <4>1
      <4>3. QED
        BY <2>1, <2>3, <3>1, <4>1, <4>2, SweeperMoves
    <3>2. CASE owner # <<s, "conn">>
      <4>1. owner' = owner
        BY <2>3, <3>2 DEF Shut
      <4>2. QED
        BY <1>2, <2>1, <2>3, <3>2, <4>1, SweeperMoves
    <3>3. QED
      BY <3>1, <3>2
  <2>4. QED
    BY <2>1, <2>2, <2>3
<1>9. ASSUME NEW s \in Sweeper, PassTimesOut(s) \/ Stop(s)
      PROVE  Goal
  <2>1. /\ conn' = [conn EXCEPT ![s] = "none"]
        /\ owner' = IF IsLeader(s) THEN Shut(s, "conn") ELSE DropAcquisition(s)
    BY <1>9 DEF PassTimesOut, Stop
  <2>0. PICK l \in {"waiting", "stopped"} : loop' = [loop EXCEPT ![s] = l]
    BY <1>9 DEF PassTimesOut, Stop, Goto
  <2>2. CASE owner \in {<<s, "conn">>, <<s, "acquiring">>}
    <3>1. owner' = <<s, "closing">>
      BY <1>2, <2>1, <2>2 DEF IsLeader, Shut, DropAcquisition
    <3>2. owner' # <<s, "conn">> /\ owner' # <<s, "acquiring">>
      BY <3>1
    <3>3. QED
      BY <2>0, <2>1, <2>2, <3>1, <3>2, SweeperMoves
  <2>3. CASE owner \notin {<<s, "conn">>, <<s, "acquiring">>}
    <3>1. owner' = owner
      BY <2>1, <2>3 DEF Shut, DropAcquisition
    <3>2. QED
      BY <1>2, <2>0, <2>1, <2>3, <3>1, SweeperMoves
  <2>4. QED
    BY <2>2, <2>3
<1>10. ASSUME NEW s \in Sweeper, SessionLost(s) PROVE Goal
  <2>1. owner' = NoSession /\ loop' = loop
    BY <1>10 DEF SessionLost
  <2>2. CASE owner = <<s, "conn">>
    <3>1. conn' = [conn EXCEPT ![s] = "dead"]
      BY <1>10, <2>2 DEF SessionLost
    <3>2. QED
      BY <1>2, <2>1, <2>2, <3>1, SweeperMoves
  <2>3. CASE owner = <<s, "acquiring">>
    <3>1. conn' = conn
      BY <1>10, <2>3 DEF SessionLost
    <3>2. QED
      BY <1>2, <2>1, <2>3, <3>1, SweeperMoves
  <2>4. QED
    BY <1>10, <2>2, <2>3 DEF SessionLost
<1>11. CASE CloseLands
  BY <1>11, SweepersAssumption
     DEF CloseLands, LeaderInv, SweeperTypeOK, LockIsNameable, AskingHasNone
<1>12. ASSUME \/ \E s \in Sweeper : PoolFails(s)
              \/ \E o \in Operation : Arrive(o)
              \/ UNCHANGED sweeperVars
       PROVE  Goal
  <2>1. UNCHANGED <<owner, conn, loop>>
    BY <1>12 DEF PoolFails, Arrive, sweeperVars
  <2>2. QED
    BY <2>1 DEF LeaderInv, SweeperTypeOK, LockIsNameable, AskingHasNone
<1>13. QED
  BY <1>3, <1>4, <1>5, <1>6, <1>7, <1>8, <1>9, <1>10, <1>11, <1>12
     DEF SweeperNext, SweepStep

LEMMA LeaderStepOK == LeaderInv /\ [SweeperNext]_sweeperVars => LeaderInv'
BY SweepCountersOK, LockStepOK DEF LeaderInv, SweeperTypeOK

\* Only the probe of a living connection, which has the lock, starts a pass.
LEMMA ProbeHasLock ==
  ASSUME LeaderInv, SweeperNext, NEW s \in Sweeper,
         loop[s] = "ensure", loop'[s] = "passing"
  PROVE  owner = <<s, "conn">>
<1> DEFINE Goes(t, l) == loop' = [loop EXCEPT ![t] = l]
<1>1. loop \in [Sweeper -> Running \cup {"waiting", "stopped"}]
  BY DEF LeaderInv, SweeperTypeOK
<1>2. ASSUME NEW t \in Sweeper, Probe(t) PROVE owner = <<s, "conn">>
  BY <1>1, <1>2 DEF Probe, Goto, LeaderInv, LockIsNameable
<1>3. ASSUME NEW t \in Sweeper, Granted(t) PROVE FALSE
  BY <1>1, <1>3 DEF Granted, Goto
<1>4. ASSUME NEW t \in Sweeper, SweepStep(t), ~Probe(t), ~Granted(t)
      PROVE  FALSE
  BY <1>1, <1>4
     DEF SweepStep, Tick, Acquire, Refused, AcquisitionFails, PassSucceeds,
         Drain, PassFails, PassTimesOut, Goto
<1>5. ASSUME NEW t \in Sweeper,
             CancelPass(t) \/ Stop(t) \/ SessionLost(t) \/ PoolFails(t)
      PROVE  FALSE
  BY <1>1, <1>5 DEF CancelPass, Stop, SessionLost, PoolFails, Goto
<1>6. ASSUME CloseLands \/ \E o \in Operation : Arrive(o) PROVE FALSE
  BY <1>6 DEF CloseLands, Arrive
<1>7. QED
  BY <1>2, <1>3, <1>4, <1>5, <1>6 DEF SweeperNext

(***************************************************************************)
(* Whatever is dropped, times out, fails or stops, the advisory lock is on *)
(* a connection its process can name or is closing, and a pass of          *)
(* sweep_operations starts only with it, for any number of sweepers.       *)
(***************************************************************************)
THEOREM OneLeaderSweeps == SweeperSpec => LeadershipSafety
<1>1. LeaderInv => SweeperTypeOK /\ LockIsNameable
  BY DEF LeaderInv
<1>2. LeaderInv /\ [SweeperNext]_sweeperVars =>
        [\A s \in Sweeper : loop[s] = "ensure" /\ loop'[s] = "passing"
            => owner = <<s, "conn">>]_sweeperVars
  BY ProbeHasLock
<1>3. QED
  BY LeaderInitOK, LeaderStepOK, <1>1, <1>2, PTL
     DEF SweeperSpec, LeadershipSafety, PassBeginsWithLock

-----------------------------------------------------------------------------
(***************************************************************************)
(* Enqueueing under dedupe keys.  The answers a producer prepares are      *)
(* followed from the first read of the holders to the commit: each names a *)
(* row that is there for good, a row of the transaction, a job of the      *)
(* batch that is going to be inserted, or a key that has to be read again. *)
(* That nobody but an outsider can come in between needs that rows that    *)
(* are not committed have their keys locked.                               *)
(***************************************************************************)
RowSet ==
    [id : (Producer \cup {Outsider}) \X Nat, key : Key \cup {NoKey},
     name : Name, live : BOOLEAN, tx : Producer \cup {Free}]

EnqueueTypes ==
    /\ rows \subseteq RowSet
    /\ lock \in [Lock -> Producer \cup {Free}]
    /\ at \in [Producer -> {"new", "answered", "refused", "race", "gone"}
                                \cup Asking]
    /\ batch \in [Producer -> Batch \cup {<<>>}]
    /\ DOMAIN results = Producer
    /\ dropped \in [Producer -> SUBSET Key]
    /\ outside \in 0..MaxOutside /\ faults \in 0..MaxFaults

\* Whose rows are whose, and which are not committed.
RowsHaveOwners ==
    \A p \in Producer : \A r \in rows :
        /\ r.tx = p => /\ r.id[1] = p /\ at[p] \in {"reread", "commit"}
                       /\ r.key \in Keys(p) \cup {NoKey}
        /\ r.id[1] = p => /\ at[p] \notin {"new", "lock", "insert", "refused",
                                            "race"}
                          /\ at[p] \in {"reread", "commit"} => r.tx = p

OneLive == \A k \in Key : \A r, s \in LiveUnder(k) : r = s

LocksKept ==
    \A p \in Producer :
        /\ at[p] \in {"insert", "reread", "commit"} => Held(p) = Locks(p)
        /\ at[p] = "lock" => Held(p) \subseteq Locks(p)
        /\ at[p] \notin Asking => Held(p) = {}

DropsKnown ==
    \A p \in Producer :
        /\ dropped[p] \subseteq Keys(p)
        /\ at[p] \in {"new", "lock", "insert", "commit"} => dropped[p] = {}

\* The row that the i-th answer names.
Found(p, i) ==
    \E r \in rows : /\ r.id = results[p][i].id /\ r.tx \in {Free, p}
                    /\ r.key = batch[p][i].key /\ r.name = batch[p][i].name

ToInsert(p) == {i \in DOMAIN batch[p] : results[p][i].kind = "inserted"}

\* Before the insert.
Prepared(p) ==
    /\ \A i \in ToInsert(p) :
         /\ results[p][i].id = <<p, i>>
         /\ batch[p][i].key # NoKey =>
              /\ \A j \in ToInsert(p) : batch[p][j].key = batch[p][i].key => i = j
              /\ LiveUnder(batch[p][i].key) # {} => outside > 0
    /\ \A i \in DOMAIN batch[p] \ ToInsert(p) :
         \/ Found(p, i)
         \/ \E j \in ToInsert(p) :
              /\ results[p][i].id = <<p, j>> /\ batch[p][i].key # NoKey
              /\ batch[p][j] = batch[p][i]

AnswersOf(p) ==
    /\ at[p] \in {"insert", "reread", "commit", "answered"} =>
           DOMAIN results[p] = DOMAIN batch[p]
    /\ at[p] = "insert" => Prepared(p)
    /\ at[p] \in {"reread", "commit", "answered"} =>
           \A i \in DOMAIN batch[p] :
               Found(p, i) \/ (at[p] = "reread" /\ batch[p][i].key \in dropped[p])

AnswersFollowed == \A p \in Producer : AnswersOf(p)

EnqueueInv ==
    /\ EnqueueTypes /\ RowsHaveOwners /\ OneLive /\ LocksKept /\ DropsKnown
    /\ AnswersFollowed /\ RaceNeedsOutsider
\* The least of some numbers.
LEMMA LeastOf ==
  ASSUME NEW S \in SUBSET Nat, S # {}
  PROVE  (CHOOSE x \in S : \A y \in S : x <= y) \in S
<1>1. IsWellFoundedOn(OpToRel(<, Nat), Nat)
  BY NatLessThanWellFounded
<1>2. PICK x \in S : \A y \in S : ~ (<<y, x>> \in OpToRel(<, Nat))
  BY <1>1, WFMin
<1>3. \A y \in S : ~(y < x)
  BY <1>2 DEF OpToRel
<1>4. \A y \in S : x <= y
  BY <1>3
<1>5. QED
  BY <1>4, Zenon

JobSet == [key : Key \cup {NoKey}, name : Name]

\* The jobs of a batch and their locks.
LEMMA Batches ==
  ASSUME EnqueueTypes, NEW p \in Producer
  PROVE  /\ DOMAIN batch[p] \subseteq Nat
         /\ \A i \in DOMAIN batch[p] :
                /\ batch[p][i] \in JobSet
                /\ batch[p][i].key \in Key \cup {NoKey}
                /\ batch[p][i].name \in Name
                /\ batch[p][i].key # NoKey => batch[p][i].key \in Keys(p)
         /\ Keys(p) \subseteq Key /\ Locks(p) \subseteq Lock
         /\ Lock \subseteq Nat
<1>1. batch[p] \in Seq(JobSet)
  <2>1. batch[p] \in Batch \cup {<<>>}
    BY DEF EnqueueTypes
  <2>2. CASE batch[p] = <<>>
    BY <2>2, EmptySeq
  <2>3. QED
    BY <2>1, <2>2, EnqueueAssumption DEF JobSet
<1>2. DOMAIN batch[p] = 1..Len(batch[p]) /\ Len(batch[p]) \in Nat
  BY <1>1, LenProperties
<1>3. \A i \in DOMAIN batch[p] : batch[p][i] \in JobSet
  BY <1>1, <1>2, ElementOfSeq
<1>4. DOMAIN batch[p] \subseteq Nat
  BY <1>2
<1>5. \A i \in DOMAIN batch[p] : /\ batch[p][i].key \in Key \cup {NoKey}
                                /\ batch[p][i].name \in Name
  BY <1>3 DEF JobSet
<1>6. Keys(p) \subseteq Key
  BY <1>5 DEF Keys
<1>7. Locks(p) \subseteq Lock /\ Lock \subseteq Nat
  BY <1>6, EnqueueAssumption DEF Locks, Lock
<1>8. QED
  BY <1>3, <1>4, <1>5, <1>6, <1>7 DEF Keys

\* No two producers have their locks on one key.
LEMMA KeyIsLocked ==
  ASSUME EnqueueTypes, NEW p \in Producer, NEW q \in Producer, NEW k \in Key,
         k \in Keys(p), k \in Keys(q),
         Locks(p) \subseteq Held(p), Locks(q) \subseteq Held(q)
  PROVE  p = q
<1>1. LockId[k] \in Held(p) /\ LockId[k] \in Held(q)
  BY DEF Locks
<1>2. QED
  BY <1>1 DEF Held

LEMMA EnqueueInitOK == EnqueueInit => EnqueueInv
<1> SUFFICES ASSUME EnqueueInit PROVE EnqueueInv
  OBVIOUS
<1>1. EnqueueTypes
  BY EnqueueAssumption DEF EnqueueInit, EnqueueTypes, Asking
<1>2. RowsHaveOwners /\ OneLive
  BY DEF EnqueueInit, RowsHaveOwners, OneLive, LiveUnder
<1>3. LocksKept
  BY EnqueueAssumption DEF EnqueueInit, LocksKept, Held
<1>4. DropsKnown /\ AnswersFollowed /\ RaceNeedsOutsider
  BY DEF EnqueueInit, DropsKnown, AnswersFollowed, AnswersOf,
         RaceNeedsOutsider
<1>5. QED
  BY <1>1, <1>2, <1>3, <1>4 DEF EnqueueInv

\* Rows that p counts on are still there, whatever the others do.
RowsStayFor(p) ==
    \A r \in rows : r.tx \in {Free, p} =>
        \E s \in rows' : /\ s.id = r.id /\ s.key = r.key /\ s.name = r.name
                         /\ s.tx \in {Free, p}

LEMMA FoundStays ==
  ASSUME NEW p \in Producer, RowsStayFor(p), NEW i,
         batch'[p] = batch[p], results'[p] = results[p], Found(p, i)
  PROVE  Found(p, i)'
BY DEF RowsStayFor, Found

\* What a step of others leaves of a producer's answers.
LEMMA AnswersStay ==
  ASSUME EnqueueInv, NEW p \in Producer, RowsStayFor(p),
         at'[p] = at[p], batch'[p] = batch[p], results'[p] = results[p],
         dropped'[p] = dropped[p], outside' >= outside, outside' \in Nat,
         at[p] = "insert" => \A i \in ToInsert(p) :
             batch[p][i].key # NoKey /\ LiveUnder(batch[p][i].key) = {} =>
                 LiveUnder(batch[p][i].key)' = {} \/ outside' > 0
  PROVE  AnswersOf(p)'
<1>1. AnswersOf(p) /\ outside \in Nat
  BY EnqueueAssumption DEF EnqueueInv, EnqueueTypes, AnswersFollowed
<1>2. \A i : Found(p, i) => Found(p, i)'
  BY FoundStays
<1>3. ToInsert(p)' = ToInsert(p)
  BY DEF ToInsert
<1>4. at[p] = "insert" => Prepared(p)'
  <2> SUFFICES ASSUME at[p] = "insert" PROVE Prepared(p)'
    OBVIOUS
  <2>1. Prepared(p)
    BY <1>1 DEF AnswersOf
  <2>2. ASSUME NEW i \in ToInsert(p)
        PROVE  /\ results'[p][i].id = <<p, i>>
               /\ batch'[p][i].key # NoKey =>
                   /\ \A j \in ToInsert(p) :
                         batch'[p][j].key = batch'[p][i].key => i = j
                   /\ LiveUnder(batch[p][i].key)' # {} => outside' > 0
    BY <1>1, <2>1 DEF Prepared, LiveUnder
  <2>3. ASSUME NEW i \in DOMAIN batch[p] \ ToInsert(p)
        PROVE  \/ Found(p, i)'
               \/ \E j \in ToInsert(p) :
                    /\ results'[p][i].id = <<p, j>> /\ batch'[p][i].key # NoKey
                    /\ batch'[p][j] = batch'[p][i]
    BY <1>2, <2>1 DEF Prepared
  <2>4. QED
    BY <1>3, <2>2, <2>3 DEF Prepared, LiveUnder
<1>5. QED
  BY <1>1, <1>2, <1>4 DEF AnswersOf

\* The others, when no row moves.
LEMMA OthersAnswers ==
  ASSUME EnqueueInv, NEW p \in Producer, UNCHANGED <<rows, outside>>,
         \A q \in Producer \ {p} :
             /\ at'[q] = at[q] /\ batch'[q] = batch[q]
             /\ results'[q] = results[q] /\ dropped'[q] = dropped[q],
         AnswersOf(p)'
  PROVE  AnswersFollowed'
<1>1. outside \in Nat
  BY EnqueueAssumption DEF EnqueueInv, EnqueueTypes
<1>2. ASSUME NEW q \in Producer \ {p} PROVE AnswersOf(q)'
  <2>1. RowsStayFor(q)
    BY DEF RowsStayFor
  <2>2. \A i : LiveUnder(batch[q][i].key)' = LiveUnder(batch[q][i].key)
    BY DEF LiveUnder
  <2>3. QED
    BY <1>1, <2>1, <2>2, AnswersStay
<1>3. QED
  BY <1>2 DEF AnswersFollowed

\* What does not move when no row does.
LEMMA RowsUntouched ==
  ASSUME EnqueueInv, UNCHANGED <<rows, outside>>
  PROVE  OneLive' /\ rows' \subseteq RowSet /\ outside' \in 0..MaxOutside
BY DEF EnqueueInv, EnqueueTypes, OneLive, LiveUnder

LEMMA BeginOK ==
  ASSUME EnqueueInv, NEW p \in Producer, Begin(p)
  PROVE  EnqueueInv'
<1>1. PICK b \in Batch : batch' = [batch EXCEPT ![p] = b]
  BY DEF Begin
<1>2. /\ at' = [at EXCEPT ![p] = "lock"] /\ at[p] = "new"
      /\ UNCHANGED <<rows, lock, results, dropped, outside, faults>>
  BY DEF Begin
<1>3. EnqueueTypes'
  BY <1>1, <1>2 DEF EnqueueInv, EnqueueTypes, Asking
<1>4. /\ at'[p] = "lock"
      /\ \A q \in Producer \ {p} : at'[q] = at[q] /\ batch'[q] = batch[q]
  BY <1>1, <1>2 DEF EnqueueInv, EnqueueTypes
<1>5. \A q \in Producer \ {p} : Keys(q)' = Keys(q) /\ Locks(q)' = Locks(q)
  BY <1>4 DEF Keys, Locks
<1>6. \A q \in Producer : Held(q)' = Held(q)
  BY <1>2 DEF Held
<1>7. RowsHaveOwners'
  BY <1>2, <1>4, <1>5 DEF EnqueueInv, RowsHaveOwners
<1>8. OneLive' /\ RaceNeedsOutsider'
  BY <1>2, <1>4, RowsUntouched DEF EnqueueInv, RaceNeedsOutsider
<1>9. LocksKept'
  BY <1>2, <1>4, <1>5, <1>6 DEF EnqueueInv, LocksKept, Asking
<1>10. DropsKnown'
  BY <1>2, <1>4, <1>5 DEF EnqueueInv, DropsKnown
<1>11. AnswersFollowed'
  BY <1>2, <1>4, OthersAnswers DEF AnswersOf
<1>12. QED
  BY <1>3, <1>7, <1>8, <1>9, <1>10, <1>11 DEF EnqueueInv

\* The next lock is one the producer wants, so a producer never has a lock
\* that is not its own to take.
LEMMA TakeLockOK ==
  ASSUME EnqueueInv, NEW p \in Producer, TakeLock(p)
  PROVE  EnqueueInv'
<1> DEFINE l == NextLock(p)
<1>1. l \in Wanted(p)
  <2>1. Wanted(p) \in SUBSET Nat /\ Wanted(p) # {}
    BY Batches DEF EnqueueInv, Wanted, TakeLock
  <2>2. QED
    BY <2>1, LeastOf DEF NextLock, Wanted
<1>2. /\ lock[l] = Free /\ lock' = [lock EXCEPT ![l] = p] /\ at[p] = "lock"
      /\ UNCHANGED <<rows, at, batch, results, dropped, outside, faults>>
  BY DEF TakeLock
<1> HIDE DEF l
<1>3. l \in Lock /\ l \in Locks(p)
  BY <1>1, Batches DEF EnqueueInv, Wanted
<1>4. EnqueueTypes'
  BY <1>2, <1>3 DEF EnqueueInv, EnqueueTypes
<1>5. \A q \in Producer : Keys(q)' = Keys(q) /\ Locks(q)' = Locks(q)
  BY <1>2 DEF Keys, Locks
<1>6. /\ Held(p)' = Held(p) \cup {l}
      /\ \A q \in Producer \ {p} : Held(q)' = Held(q)
  BY <1>2, <1>3, EnqueueAssumption DEF EnqueueInv, EnqueueTypes, Held
<1>7. LocksKept'
  BY <1>2, <1>3, <1>5, <1>6 DEF EnqueueInv, LocksKept, Asking
<1>8. RowsHaveOwners' /\ DropsKnown' /\ RaceNeedsOutsider'
  BY <1>2, <1>5 DEF EnqueueInv, RowsHaveOwners, DropsKnown, RaceNeedsOutsider
<1>9. AnswersFollowed' /\ OneLive'
  BY <1>2, OthersAnswers, RowsUntouched DEF AnswersOf
<1>10. QED
  BY <1>4, <1>7, <1>8, <1>9 DEF EnqueueInv

\* A key that is locked and free to whoever reads is free.
LEMMA NobodyHidden ==
  ASSUME EnqueueInv, NEW p \in Producer, NEW k \in Keys(p),
         Locks(p) \subseteq Held(p),
         \A r \in rows : r.live /\ r.key = k => r.tx \notin {Free, p}
  PROVE  LiveUnder(k) = {}
<1>1. SUFFICES ASSUME NEW r \in rows, r.live, r.key = k PROVE FALSE
  BY DEF LiveUnder
<1>2. r.tx \in Producer \cup {Free} /\ k \in Key
  BY Batches DEF EnqueueInv, EnqueueTypes, RowSet
<1>3. PICK q \in Producer \ {p} : r.tx = q
  BY <1>1, <1>2
<1>4. at[q] \in {"reread", "commit"} /\ k \in Keys(q) \cup {NoKey}
  BY <1>1, <1>3 DEF EnqueueInv, RowsHaveOwners
<1>5. Locks(q) \subseteq Held(q) /\ k \in Keys(q)
  BY <1>2, <1>4, EnqueueAssumption DEF EnqueueInv, LocksKept
<1>6. QED
  BY <1>2, <1>3, <1>5, KeyIsLocked DEF EnqueueInv

SameKey(p, k) == {j \in DOMAIN batch[p] : batch[p][j].key = k}
FirstOf(p, k) == CHOOSE j \in SameKey(p, k) : \A m \in SameKey(p, k) : j <= m

\* The three kinds of answer: a row of its own, a row that is there, a job of
\* the same batch.
FreshAnswer(p, i, H) ==
    /\ Answer(p, i, H) = Inserted(<<p, i>>)
    /\ batch[p][i].key # NoKey =>
           /\ \A r \in H : r.key # batch[p][i].key
           /\ i = FirstOf(p, batch[p][i].key)

HeldAnswer(p, i, H) ==
    \E r \in H : /\ r.key = batch[p][i].key /\ r.key # NoKey
                 /\ Answer(p, i, H) = Deduplicated(r.id)

SharedAnswer(p, i, H) ==
    \E j \in DOMAIN batch[p] :
        /\ batch[p][j].key = batch[p][i].key /\ batch[p][i].key # NoKey
        /\ Answer(p, j, H) = Inserted(<<p, j>>)
        /\ Answer(p, i, H) = Deduplicated(<<p, j>>)

\* What the first read answers for each job of the batch.
LEMMA Answers ==
  ASSUME EnqueueInv, NEW p \in Producer, NEW i \in DOMAIN batch[p],
         NEW H \in SUBSET rows
  PROVE  FreshAnswer(p, i, H) \/ HeldAnswer(p, i, H) \/ SharedAnswer(p, i, H)
<1> DEFINE k == batch[p][i].key
           same == SameKey(p, k)
           first == FirstOf(p, k)
           holder == {r \in H : r.key = k}
<1>1. CASE k = NoKey
  BY <1>1 DEF Answer, FreshAnswer
<1>2. CASE k # NoKey /\ holder # {}
  <2>1. (CHOOSE r \in holder : TRUE) \in holder
    BY <1>2
  <2>2. Answer(p, i, H) = Deduplicated((CHOOSE r \in holder : TRUE).id)
    BY <1>2 DEF Answer
  <2>3. QED
    BY <1>2, <2>1, <2>2 DEF HeldAnswer
<1>3. CASE k # NoKey /\ holder = {}
  <2>1. first \in same
    <3>1. same \in SUBSET Nat /\ same # {}
      BY Batches DEF EnqueueInv, SameKey
    <3> HIDE DEF same
    <3>2. QED
      BY <3>1, LeastOf DEF FirstOf, same
  <2>2. Answer(p, i, H) = IF i = first THEN Inserted(<<p, i>>)
                                       ELSE Deduplicated(<<p, first>>)
    BY <1>3 DEF Answer, FirstOf, SameKey
  <2>3. \A r \in H : r.key # k
    BY <1>3
  <2>4. first \in DOMAIN batch[p] /\ batch[p][first].key = k
    BY <2>1 DEF SameKey
  <2>5. Answer(p, first, H) = Inserted(<<p, first>>)
    BY <1>3, <2>4 DEF Answer, FirstOf, SameKey
  <2>6. CASE i = first
    BY <2>2, <2>3, <2>6 DEF FreshAnswer
  <2>7. CASE i # first
    <3> HIDE DEF first
    <3>1. QED
      BY <1>3, <2>2, <2>4, <2>5, <2>7 DEF SharedAnswer
  <2>8. QED
    BY <2>6, <2>7
<1>4. QED
  BY <1>1, <1>2, <1>3

LEMMA ReadHoldersOK ==
  ASSUME EnqueueInv, NEW p \in Producer, ReadHolders(p), at'[p] = "insert"
  PROVE  EnqueueInv'
<1> DEFINE H == HoldersOf(p, Keys(p))
<1>1. /\ at[p] = "lock" /\ Wanted(p) = {} /\ UNCHANGED faults
      /\ ~Mismatch(p, H)
      /\ results' = [results EXCEPT ![p] =
            [i \in DOMAIN batch[p] |-> Answer(p, i, H)]]
      /\ at' = [at EXCEPT ![p] = "insert"]
      /\ UNCHANGED <<rows, lock, batch, dropped, outside>>
  <2>1. ~Refuse(p, "refused")
    BY DEF Refuse, Close, EnqueueInv, EnqueueTypes
  <2>2. QED
    BY <2>1 DEF ReadHolders
<1>2. /\ H \in SUBSET rows
      /\ \A r \in H : r.live /\ r.key \in Keys(p) /\ r.tx = Free
      /\ \A r \in rows : r.live /\ r.key \in Keys(p) /\ r.tx \in {Free, p} => r \in H
  BY <1>1 DEF HoldersOf, Visible, EnqueueInv, RowsHaveOwners
<1> HIDE DEF H
<1>0. \A i \in DOMAIN batch[p] : batch[p][i] \in JobSet
  BY Batches DEF EnqueueInv
<1>3. EnqueueTypes'
  BY <1>1 DEF EnqueueInv, EnqueueTypes, Asking
<1>4. /\ at'[p] = "insert"
      /\ results'[p] = [i \in DOMAIN batch[p] |-> Answer(p, i, H)]
      /\ \A q \in Producer \ {p} : at'[q] = at[q] /\ results'[q] = results[q]
  BY <1>1 DEF EnqueueInv, EnqueueTypes
<1>5. \A q \in Producer : /\ Keys(q)' = Keys(q) /\ Locks(q)' = Locks(q)
                          /\ Held(q)' = Held(q)
  BY <1>1 DEF Keys, Locks, Held
<1>6. Held(p) = Locks(p)
  BY <1>1 DEF Wanted, EnqueueInv, LocksKept
<1>7. LocksKept' /\ DropsKnown'
  BY <1>1, <1>4, <1>5, <1>6 DEF EnqueueInv, LocksKept, DropsKnown, Asking
<1>8. RowsHaveOwners' /\ RaceNeedsOutsider'
  BY <1>1, <1>4, <1>5 DEF EnqueueInv, RowsHaveOwners, RaceNeedsOutsider
<1>9. Prepared(p)'
  <2>1. ASSUME NEW i \in ToInsert(p)'
        PROVE  i \in DOMAIN batch[p] /\ FreshAnswer(p, i, H)
    <3>1. i \in DOMAIN batch[p] /\ Answer(p, i, H).kind = "inserted"
      BY <1>1, <1>4 DEF ToInsert
    <3>2. \A id : Deduplicated(id).kind # "inserted"
      BY DEF Deduplicated
    <3>3. QED
      <4>1. ~HeldAnswer(p, i, H) /\ ~SharedAnswer(p, i, H)
        BY <3>1, <3>2 DEF HeldAnswer, SharedAnswer
      <4>2. QED
        BY <1>2, <3>1, <4>1, Answers
  <2>2. ASSUME NEW i \in ToInsert(p)', batch[p][i].key # NoKey
        PROVE  LiveUnder(batch[p][i].key)' = {}
    <3>0. i \in DOMAIN batch[p] /\ EnqueueTypes
      BY <2>1, <2>2 DEF EnqueueInv
    <3>1. batch[p][i].key \in Keys(p)
      BY <2>2, <3>0 DEF Keys
    <3>2. \A r \in rows : r.live /\ r.key = batch[p][i].key => r.tx \notin {Free, p}
      BY <1>2, <2>1, <2>2, <3>1 DEF FreshAnswer
    <3>3. LiveUnder(batch[p][i].key) = {}
      BY <1>6, <3>1, <3>2, NobodyHidden
    <3>4. QED
      BY <1>1, <3>3 DEF LiveUnder
  <2>3. ASSUME NEW i \in ToInsert(p)'
        PROVE  results'[p][i].id = <<p, i>>
    BY <1>4, <2>1 DEF Inserted, FreshAnswer
  <2>4. ASSUME NEW i \in ToInsert(p)', NEW j \in ToInsert(p)',
               batch[p][i].key # NoKey, batch[p][j].key = batch[p][i].key
        PROVE  i = j
    BY <2>1, <2>4 DEF FreshAnswer
  <2>5. ASSUME NEW i \in DOMAIN batch[p], i \notin ToInsert(p)'
        PROVE  \/ Found(p, i)'
               \/ \E j \in ToInsert(p)' :
                    /\ results'[p][i].id = <<p, j>> /\ batch[p][i].key # NoKey
                    /\ batch[p][j] = batch[p][i]
    <3>1. Answer(p, i, H) # Inserted(<<p, i>>)
      BY <1>1, <1>4, <2>5 DEF ToInsert, Inserted
    <3>2. ASSUME NEW r \in H, r.key = batch[p][i].key,
                 Answer(p, i, H) = Deduplicated(r.id)
          PROVE  Found(p, i)'
      <4>1. r.name = batch[p][i].name
        BY <1>1, <3>2 DEF Mismatch
      <4>2. results'[p][i].id = r.id /\ r \in rows' /\ r.tx = Free
        BY <1>1, <1>2, <1>4, <3>2 DEF Deduplicated
      <4>3. QED
        BY <1>1, <3>2, <4>1, <4>2 DEF Found
    <3>3. ASSUME NEW j \in DOMAIN batch[p],
                 batch[p][j].key = batch[p][i].key, batch[p][i].key # NoKey,
                 Answer(p, j, H) = Inserted(<<p, j>>),
                 Answer(p, i, H) = Deduplicated(<<p, j>>)
          PROVE  /\ j \in ToInsert(p)' /\ results'[p][i].id = <<p, j>>
                 /\ batch[p][j] = batch[p][i]
      <4>1. j \in ToInsert(p)' /\ results'[p][i].id = <<p, j>>
        BY <1>1, <1>4, <3>3 DEF ToInsert, Inserted, Deduplicated
      <4>2. batch[p][j].name = batch[p][i].name
        BY <1>1, <3>3 DEF Mismatch
      <4>3. batch[p][j] = batch[p][i]
        <5>1. batch[p][i] \in JobSet /\ batch[p][j] \in JobSet
          BY <2>5, <3>3, <1>0
        <5>2. QED
          BY <3>3, <4>2, <5>1 DEF JobSet
      <4>4. QED
        BY <4>1, <4>3
    <3>4. QED
      <4>1. HeldAnswer(p, i, H) \/ SharedAnswer(p, i, H)
        BY <1>2, <3>1, Answers DEF FreshAnswer
      <4>2. QED
        BY <3>2, <3>3, <4>1 DEF HeldAnswer, SharedAnswer
  <2>6. batch' = batch
    BY <1>1
  <2>7. QED
    BY <2>2, <2>3, <2>4, <2>5, <2>6 DEF Prepared, ToInsert
<1>10. AnswersOf(p)'
  BY <1>1, <1>4, <1>9 DEF AnswersOf
<1>11. AnswersFollowed' /\ OneLive'
  BY <1>1, <1>4, <1>10, OthersAnswers, RowsUntouched
<1>12. QED
  BY <1>3, <1>7, <1>8, <1>11 DEF EnqueueInv

LEMMA InsertRowsOK ==
  ASSUME EnqueueInv, NEW p \in Producer, InsertRows(p)
  PROVE  EnqueueInv'
<1> DEFINE Placed(i) == [id |-> <<p, i>>, key |-> batch[p][i].key,
                         name |-> batch[p][i].name, live |-> TRUE, tx |-> p]
           B == {i \in ToInsert(p) : batch[p][i].key # NoKey
                                       /\ LiveUnder(batch[p][i].key) # {}}
           N == {Placed(i) : i \in ToInsert(p) \ B}
<1>1. /\ at[p] = "insert"
      /\ rows' = rows \cup N
      /\ dropped' = [dropped EXCEPT ![p] = {batch[p][i].key : i \in B}]
      /\ at' = [at EXCEPT ![p] = IF B = {} THEN "commit" ELSE "reread"]
      /\ UNCHANGED <<lock, batch, results, outside, faults>>
  BY DEF InsertRows, ToInsert
<1>2. /\ EnqueueTypes /\ Prepared(p) /\ outside \in Nat
      /\ Held(p) = Locks(p)
  BY <1>1, EnqueueAssumption
     DEF EnqueueInv, EnqueueTypes, AnswersFollowed, AnswersOf, LocksKept
<1>3. /\ DOMAIN batch[p] \subseteq Nat
      /\ \A i \in DOMAIN batch[p] :
           /\ batch[p][i] \in JobSet
           /\ batch[p][i].key \in Key \cup {NoKey}
           /\ batch[p][i].name \in Name
           /\ batch[p][i].key # NoKey => batch[p][i].key \in Keys(p)
      /\ Keys(p) \subseteq Key
  BY <1>2, Batches
<1>4. ToInsert(p) \subseteq DOMAIN batch[p] /\ B \subseteq ToInsert(p)
  BY DEF ToInsert
<1>5. ASSUME NEW i \in ToInsert(p)
      PROVE  /\ Placed(i) \in RowSet /\ Placed(i).tx = p /\ Placed(i).id = <<p, i>>
             /\ Placed(i).id[1] = p
             /\ Placed(i).key = batch[p][i].key /\ Placed(i).name = batch[p][i].name
             /\ Placed(i).key \in Keys(p) \cup {NoKey}
  <2>1. <<p, i>> \in (Producer \cup {Outsider}) \X Nat
    BY <1>3, <1>4
  <2>2. QED
    BY <2>1, <1>3, <1>4 DEF RowSet
<1>6. \A r \in N : \E i \in ToInsert(p) \ B : r = Placed(i)
  OBVIOUS
<1>7. \A i \in ToInsert(p) \ B : Placed(i) \in N
  OBVIOUS
<1> HIDE DEF Placed, N
<1>8. /\ at'[p] = IF B = {} THEN "commit" ELSE "reread"
      /\ dropped'[p] = {batch[p][i].key : i \in B}
      /\ \A q \in Producer \ {p} : at'[q] = at[q] /\ dropped'[q] = dropped[q]
  BY <1>1, <1>2 DEF EnqueueTypes
<1>9. dropped'[p] \subseteq Keys(p)
  BY <1>3, <1>4, <1>8
<1>10. EnqueueTypes'
  <2>1. rows' \subseteq RowSet
    BY <1>1, <1>2, <1>5, <1>6 DEF EnqueueTypes
  <2>2. dropped' \in [Producer -> SUBSET Key]
    BY <1>1, <1>2, <1>3, <1>8, <1>9 DEF EnqueueTypes
  <2>3. QED
    BY <1>1, <1>2, <2>1, <2>2 DEF EnqueueTypes, Asking
<1>11. \A q \in Producer : /\ Keys(q)' = Keys(q) /\ Locks(q)' = Locks(q)
                           /\ Held(q)' = Held(q)
  BY <1>1 DEF Keys, Locks, Held
<1>12. LocksKept'
  BY <1>1, <1>2, <1>8, <1>11 DEF EnqueueInv, LocksKept, Asking
<1>13. DropsKnown'
  BY <1>8, <1>9, <1>11 DEF EnqueueInv, DropsKnown
<1>14. RowsHaveOwners'
  <2>1. \A r \in rows : r.tx # p /\ r.id[1] # p
    BY <1>1 DEF EnqueueInv, RowsHaveOwners
  <2>2. ASSUME NEW q \in Producer, NEW r \in rows
        PROVE  /\ r.tx = q => /\ r.id[1] = q /\ at'[q] \in {"reread", "commit"}
                              /\ r.key \in Keys(q)' \cup {NoKey}
               /\ r.id[1] = q =>
                    /\ at'[q] \notin {"new", "lock", "insert", "refused", "race"}
                    /\ at'[q] \in {"reread", "commit"} => r.tx = q
    BY <1>8, <1>11, <2>1 DEF EnqueueInv, RowsHaveOwners
  <2>3. ASSUME NEW q \in Producer, NEW r \in N
        PROVE  /\ r.tx = q => /\ r.id[1] = q /\ at'[q] \in {"reread", "commit"}
                              /\ r.key \in Keys(q)' \cup {NoKey}
               /\ r.id[1] = q =>
                    /\ at'[q] \notin {"new", "lock", "insert", "refused", "race"}
                    /\ at'[q] \in {"reread", "commit"} => r.tx = q
    BY <1>5, <1>6, <1>8, <1>11
  <2>4. QED
    BY <1>1, <2>2, <2>3 DEF RowsHaveOwners
<1>15. OneLive'
  <2> SUFFICES ASSUME NEW k \in Key, NEW r \in rows', NEW s \in rows',
                      r.live, s.live, r.key = k, s.key = k
               PROVE  r = s
    BY DEF OneLive, LiveUnder
  <2>1. k # NoKey
    BY EnqueueAssumption
  <2>2. ASSUME NEW u \in N, u.key = k PROVE LiveUnder(k) = {}
    BY <1>5, <1>6, <2>1, <2>2
  <2>3. CASE r \in rows /\ s \in rows
    BY <2>3 DEF EnqueueInv, OneLive, LiveUnder
  <2>4. CASE r \in N /\ s \in N
    BY <1>2, <1>5, <1>6, <2>1, <2>4 DEF Prepared
  <2>5. CASE r \in N /\ s \in rows
    BY <2>2, <2>5 DEF LiveUnder
  <2>6. CASE s \in N /\ r \in rows
    BY <2>2, <2>6 DEF LiveUnder
  <2>7. QED
    BY <1>1, <2>3, <2>4, <2>5, <2>6
<1>16. \A q \in Producer : RowsStayFor(q)
  BY <1>1 DEF RowsStayFor
<1>17. AnswersOf(p)'
  <2>1. \A i \in DOMAIN batch[p] : Found(p, i) => Found(p, i)'
    BY <1>1, <1>16, FoundStays
  <2>2. ASSUME NEW i \in DOMAIN batch[p], NEW j \in ToInsert(p),
               results[p][i].id = <<p, j>>, batch[p][j] = batch[p][i]
        PROVE  Found(p, i)' \/ (at'[p] = "reread" /\ batch[p][i].key \in dropped'[p])
    <3>1. CASE j \in B
      BY <1>8, <2>2, <3>1
    <3>2. CASE j \notin B
      BY <1>1, <1>5, <1>7, <2>2, <3>2 DEF Found
    <3>3. QED
      BY <3>1, <3>2
  <2>3. ASSUME NEW i \in DOMAIN batch[p]
        PROVE  Found(p, i)' \/ (at'[p] = "reread" /\ batch[p][i].key \in dropped'[p])
    <3>1. CASE i \in ToInsert(p)
      BY <1>2, <2>2, <3>1 DEF Prepared
    <3>2. CASE i \notin ToInsert(p)
      BY <1>2, <2>1, <2>2, <3>2 DEF Prepared
    <3>3. QED
      BY <3>1, <3>2
  <2>4. DOMAIN results[p] = DOMAIN batch[p]
    BY <1>1 DEF EnqueueInv, AnswersFollowed, AnswersOf
  <2>5. at'[p] # "insert" /\ batch' = batch /\ results' = results
    BY <1>1, <1>8
  <2>6. QED
    BY <2>3, <2>4, <2>5 DEF AnswersOf
<1>18. ASSUME NEW q \in Producer \ {p} PROVE AnswersOf(q)'
  <2>1. ASSUME at[q] = "insert", NEW i \in ToInsert(q),
               batch[q][i].key # NoKey, LiveUnder(batch[q][i].key) = {}
        PROVE  LiveUnder(batch[q][i].key)' = {}
    <3>0. i \in DOMAIN batch[q]
      BY <2>1 DEF ToInsert
    <3>1. batch[q][i].key \in Keys(q) /\ Keys(q) \subseteq Key
      BY <1>2, <2>1, <3>0, Batches
    <3>2. Held(q) = Locks(q)
      BY <2>1 DEF EnqueueInv, LocksKept
    <3>3. batch[q][i].key \notin Keys(p)
      BY <1>2, <3>1, <3>2, KeyIsLocked
    <3>4. \A r \in N : r.key # batch[q][i].key
      BY <1>5, <1>6, <2>1, <3>3
    <3>5. batch'[q] = batch[q]
      BY <1>1
    <3>6. QED
      BY <1>1, <2>1, <3>4, <3>5 DEF LiveUnder
  <2>2. /\ RowsStayFor(q) /\ at'[q] = at[q] /\ batch'[q] = batch[q]
        /\ results'[q] = results[q] /\ dropped'[q] = dropped[q]
        /\ outside' >= outside /\ outside' \in Nat
    BY <1>1, <1>2, <1>8, <1>16
  <2>3. QED
    BY <2>1, <2>2, AnswersStay
<1>19. RaceNeedsOutsider'
  <2>1. B # {} => outside > 0
    BY <1>2 DEF Prepared
  <2>2. QED
    BY <1>1, <1>8, <2>1 DEF EnqueueInv, RaceNeedsOutsider
<1>20. QED
  BY <1>10, <1>12, <1>13, <1>14, <1>15, <1>17, <1>18, <1>19
     DEF EnqueueInv, AnswersFollowed

\* The row of r after the commit of p.
Committed(r, p) == [r EXCEPT !.tx = IF @ = p THEN Free ELSE @]

LEMMA CommittedRow ==
  ASSUME NEW r \in RowSet, NEW p \in Producer
  PROVE  LET s == Committed(r, p) IN
         /\ s \in RowSet /\ s.id = r.id /\ s.key = r.key /\ s.name = r.name
         /\ s.live = r.live /\ s.tx = IF r.tx = p THEN Free ELSE r.tx
BY DEF RowSet, Committed

\* A transaction comes to its end, with its rows or without them.
LEMMA CloseOK ==
  ASSUME EnqueueInv, NEW p \in Producer, NEW commit \in BOOLEAN, NEW outcome,
         Close(p, commit, outcome), at[p] \in Asking, faults' \in 0..MaxFaults,
         commit => at[p] = "commit" /\ outcome \in {"answered", "gone"},
         ~commit => outcome \in {"refused", "race", "gone"},
         outcome = "race" => outside > 0
  PROVE  EnqueueInv'
<1>1. /\ lock' = [l \in Lock |-> IF lock[l] = p THEN Free ELSE lock[l]]
      /\ at' = [at EXCEPT ![p] = outcome]
      /\ UNCHANGED <<batch, results, dropped, outside>>
  BY DEF Close
<1>2. /\ EnqueueTypes /\ outside \in Nat
      /\ outcome \in {"answered", "refused", "race", "gone"}
  BY EnqueueAssumption DEF EnqueueInv, EnqueueTypes
\* Where every row that is left comes from.
<1>3. ASSUME NEW s \in rows'
      PROVE  \E r \in rows :
               /\ s \in RowSet /\ s.id = r.id /\ s.key = r.key
               /\ s.name = r.name /\ s.live = r.live
               /\ s = IF commit THEN Committed(r, p) ELSE r
               /\ s.tx = IF commit /\ r.tx = p THEN Free ELSE r.tx
               /\ ~commit => r.tx # p
  <2>1. CASE commit
    <3>1. PICK r \in rows : s = Committed(r, p)
      BY <2>1 DEF Close, Committed
    <3>2. r \in RowSet
      BY <1>2 DEF EnqueueTypes
    <3>3. QED
      BY <2>1, <3>1, <3>2, CommittedRow
  <2>2. CASE ~commit
    <3>1. s \in rows /\ s.tx # p
      BY <2>2 DEF Close
    <3>2. QED
      BY <1>2, <2>2, <3>1 DEF EnqueueTypes
  <2>3. QED
    BY <2>1, <2>2
\* And what becomes of every row.
<1>4. ASSUME NEW r \in rows, commit \/ r.tx # p
      PROVE  \E s \in rows' : /\ s.id = r.id /\ s.key = r.key
                              /\ s.name = r.name
                              /\ s.tx = IF r.tx = p THEN Free ELSE r.tx
  <2>1. CASE commit
    <3>1. Committed(r, p) \in rows' /\ r \in RowSet
      BY <1>2, <2>1 DEF Close, Committed, EnqueueTypes
    <3>2. QED
      BY <3>1, CommittedRow
  <2>2. CASE ~commit
    <3>1. r \in rows'
      BY <1>4, <2>2 DEF Close
    <3>2. QED
      BY <1>4, <2>2, <3>1
  <2>3. QED
    BY <2>1, <2>2
<1>5. /\ at'[p] = outcome /\ \A q \in Producer \ {p} : at'[q] = at[q]
  BY <1>1, <1>2 DEF EnqueueTypes
<1>6. EnqueueTypes'
  <2>1. rows' \subseteq RowSet
    BY <1>3
  <2>2. lock' \in [Lock -> Producer \cup {Free}]
    BY <1>1, <1>2 DEF EnqueueTypes
  <2>3. QED
    BY <1>1, <1>2, <2>1, <2>2 DEF EnqueueTypes
<1>7. \A q \in Producer : Keys(q)' = Keys(q) /\ Locks(q)' = Locks(q)
  BY <1>1 DEF Keys, Locks
<1>8. /\ Held(p)' = {} /\ \A q \in Producer \ {p} : Held(q)' = Held(q)
  BY <1>1, EnqueueAssumption DEF Held
<1>9. LocksKept'
  BY <1>2, <1>5, <1>7, <1>8 DEF EnqueueInv, LocksKept, Asking
<1>10. DropsKnown'
  BY <1>1, <1>2, <1>5, <1>7 DEF EnqueueInv, DropsKnown
<1>11. RaceNeedsOutsider'
  BY <1>1, <1>2, <1>5 DEF EnqueueInv, RaceNeedsOutsider
<1>12. RowsHaveOwners'
  <2> SUFFICES ASSUME NEW q \in Producer, NEW s \in rows'
               PROVE  /\ s.tx = q =>
                           /\ s.id[1] = q /\ at'[q] \in {"reread", "commit"}
                           /\ s.key \in Keys(q)' \cup {NoKey}
                      /\ s.id[1] = q =>
                           /\ at'[q] \notin {"new", "lock", "insert", "refused",
                                             "race"}
                           /\ at'[q] \in {"reread", "commit"} => s.tx = q
    BY DEF RowsHaveOwners
  <2>1. PICK r \in rows : /\ s.id = r.id /\ s.key = r.key
                          /\ s.tx = IF commit /\ r.tx = p THEN Free ELSE r.tx
                          /\ ~commit => r.tx # p
    BY <1>3
  <2>2. /\ r.tx = q => /\ r.id[1] = q /\ at[q] \in {"reread", "commit"}
                       /\ r.key \in Keys(q) \cup {NoKey}
        /\ r.id[1] = q => /\ at[q] \notin {"new", "lock", "insert", "refused",
                                           "race"}
                          /\ at[q] \in {"reread", "commit"} => r.tx = q
    BY DEF EnqueueInv, RowsHaveOwners
  <2>3. CASE q = p
    <3>1. s.tx # p
      BY <2>1, EnqueueAssumption
    <3>2. s.id[1] = p => commit
      BY <2>1, <2>2, <2>3 DEF Asking
    <3>3. QED
      BY <1>2, <1>5, <2>3, <3>1, <3>2
  <2>4. CASE q # p
    <3>1. s.tx = q <=> r.tx = q
      BY <2>1, <2>4, EnqueueAssumption
    <3>2. QED
      BY <1>5, <1>7, <2>1, <2>2, <2>4, <3>1
  <2>5. QED
    BY <2>3, <2>4
<1>13. OneLive'
  <2> SUFFICES ASSUME NEW k \in Key, NEW s \in rows', NEW t \in rows',
                      s.live, t.live, s.key = k, t.key = k
               PROVE  s = t
    BY DEF OneLive, LiveUnder
  <2>1. PICK r \in rows : /\ s.key = r.key /\ s.live = r.live
                          /\ s = IF commit THEN Committed(r, p) ELSE r
    BY <1>3
  <2>2. PICK u \in rows : /\ t.key = u.key /\ t.live = u.live
                          /\ t = IF commit THEN Committed(u, p) ELSE u
    BY <1>3
  <2>3. r = u
    BY <2>1, <2>2 DEF EnqueueInv, OneLive, LiveUnder
  <2>4. QED
    BY <2>1, <2>2, <2>3
<1>14. \A q \in Producer : commit \/ q # p => RowsStayFor(q)
  BY <1>4, EnqueueAssumption DEF RowsStayFor
<1>15. ASSUME NEW q \in Producer \ {p} PROVE AnswersOf(q)'
  <2>1. ASSUME NEW i \in ToInsert(q), LiveUnder(batch[q][i].key) = {}
        PROVE  LiveUnder(batch[q][i].key)' = {}
    <3>1. batch'[q] = batch[q]
      BY <1>1
    <3>2. QED
      BY <1>3, <2>1, <3>1 DEF LiveUnder
  <2>2. /\ RowsStayFor(q) /\ at'[q] = at[q] /\ batch'[q] = batch[q]
        /\ results'[q] = results[q] /\ dropped'[q] = dropped[q]
        /\ outside' >= outside /\ outside' \in Nat
    BY <1>1, <1>2, <1>5, <1>14
  <2>3. QED
    BY <2>1, <2>2, AnswersStay
<1>16. AnswersOf(p)'
  <2>1. CASE outcome = "answered"
    <3>1. commit /\ at[p] = "commit"
      BY <2>1
    <3>2. /\ DOMAIN results[p] = DOMAIN batch[p]
          /\ \A i \in DOMAIN batch[p] : Found(p, i)
      BY <3>1 DEF EnqueueInv, AnswersFollowed, AnswersOf
    <3>3. \A i \in DOMAIN batch[p] : Found(p, i)'
      BY <1>1, <1>14, <3>1, <3>2, FoundStays
    <3>4. batch' = batch /\ results' = results
      BY <1>1
    <3>5. QED
      BY <1>5, <2>1, <3>2, <3>3, <3>4 DEF AnswersOf
  <2>2. CASE outcome # "answered"
    BY <1>2, <1>5, <2>2 DEF AnswersOf
  <2>3. QED
    BY <2>1, <2>2
<1>17. QED
  BY <1>6, <1>9, <1>10, <1>11, <1>12, <1>13, <1>15, <1>16
     DEF EnqueueInv, AnswersFollowed

\* Every job under the dropped key gets the answer that the second read found.
LEMMA RereadOK ==
  ASSUME EnqueueInv, NEW p \in Producer, at[p] = "reread", UNCHANGED faults,
         NEW k \in dropped[p], NEW h \in Visible(p), h.live, h.key = k,
         \A i \in DOMAIN batch[p] :
             batch[p][i].key = k => batch[p][i].name = h.name,
         results' = [results EXCEPT ![p] = Replace(p, k, h.id)],
         dropped' = [dropped EXCEPT ![p] = @ \ {k}],
         at' = [at EXCEPT ![p] = IF dropped[p] = {k} THEN "commit" ELSE @],
         UNCHANGED <<rows, lock, batch, outside>>
  PROVE  EnqueueInv'
<1>1. EnqueueTypes
  BY DEF EnqueueInv
<1>2. /\ at'[p] = IF dropped[p] = {k} THEN "commit" ELSE "reread"
      /\ results'[p] = Replace(p, k, h.id) /\ dropped'[p] = dropped[p] \ {k}
      /\ \A q \in Producer \ {p} : /\ at'[q] = at[q] /\ results'[q] = results[q]
                                   /\ dropped'[q] = dropped[q]
  BY <1>1 DEF EnqueueTypes
<1>3. EnqueueTypes'
  <2>1. dropped' \in [Producer -> SUBSET Key]
    BY <1>1 DEF EnqueueTypes
  <2>2. QED
    BY <1>1, <2>1 DEF EnqueueTypes, Asking
<1>4. \A q \in Producer : /\ Keys(q)' = Keys(q) /\ Locks(q)' = Locks(q)
                          /\ Held(q)' = Held(q)
  BY DEF Keys, Locks, Held
<1>5. LocksKept' /\ DropsKnown'
  BY <1>2, <1>4 DEF EnqueueInv, LocksKept, DropsKnown, Asking
<1>6. RowsHaveOwners' /\ RaceNeedsOutsider'
  BY <1>2, <1>4 DEF EnqueueInv, RowsHaveOwners, RaceNeedsOutsider
<1>7. /\ DOMAIN results[p] = DOMAIN batch[p]
      /\ \A i \in DOMAIN batch[p] : Found(p, i) \/ batch[p][i].key \in dropped[p]
  BY DEF EnqueueInv, AnswersFollowed, AnswersOf
<1>8. ASSUME NEW i \in DOMAIN batch[p]
      PROVE  \/ Found(p, i)'
             \/ at'[p] = "reread" /\ batch[p][i].key \in dropped'[p]
  <2>1. CASE batch[p][i].key = k
    <3>1. results'[p][i].id = h.id
      BY <1>2, <2>1 DEF Replace, Deduplicated
    <3>2. h \in rows' /\ h.tx \in {Free, p} /\ h.name = batch[p][i].name
      BY <2>1 DEF Visible
    <3>3. QED
      BY <2>1, <3>1, <3>2 DEF Found
  <2>2. CASE batch[p][i].key # k
    <3>1. results'[p][i] = results[p][i]
      BY <1>2, <2>2 DEF Replace
    <3>2. Found(p, i) => Found(p, i)'
      BY <3>1 DEF Found
    <3>3. QED
      BY <1>2, <1>7, <2>2, <3>2
  <2>3. QED
    BY <2>1, <2>2
<1>9. AnswersOf(p)'
  <2>1. DOMAIN results'[p] = DOMAIN batch[p]
    BY <1>2 DEF Replace
  <2>2. at'[p] # "insert"
    BY <1>2
  <2>3. QED
    BY <1>8, <2>1, <2>2 DEF AnswersOf
<1>10. AnswersFollowed' /\ OneLive'
  BY <1>2, <1>9, OthersAnswers, RowsUntouched
<1>11. QED
  BY <1>3, <1>5, <1>6, <1>10 DEF EnqueueInv

\* A row of an outsider.
LEMMA WriteOutsideOK ==
  ASSUME EnqueueInv, NEW k \in Key, WriteOutside(k)
  PROVE  EnqueueInv'
<1>1. PICK name \in Name :
         rows' = rows \cup {[id |-> <<Outsider, outside>>, key |-> k,
                             name |-> name, live |-> TRUE, tx |-> Free]}
  BY DEF WriteOutside
<1> DEFINE n == [id |-> <<Outsider, outside>>, key |-> k,
                 name |-> name, live |-> TRUE, tx |-> Free]
<1>2. /\ outside < MaxOutside /\ outside' = outside + 1 /\ LiveUnder(k) = {}
      /\ UNCHANGED <<lock, at, batch, results, dropped, faults>>
  BY DEF WriteOutside
<1>3. EnqueueTypes /\ outside \in Nat
  BY EnqueueAssumption DEF EnqueueInv, EnqueueTypes
<1>4. /\ n \in RowSet /\ n.tx = Free /\ n.id[1] = Outsider /\ n.key = k
      /\ rows' = rows \cup {n}
  <2>1. <<Outsider, outside>> \in (Producer \cup {Outsider}) \X Nat
    BY <1>3
  <2>2. QED
    BY <1>1, <2>1 DEF RowSet
<1> HIDE DEF n
<1>5. outside' \in 0..MaxOutside /\ outside' > 0
  BY <1>2, <1>3, EnqueueAssumption
<1>6. EnqueueTypes'
  <2>1. rows' \subseteq RowSet
    BY <1>3, <1>4 DEF EnqueueTypes
  <2>2. QED
    BY <1>2, <1>3, <1>5, <2>1 DEF EnqueueTypes
<1>7. \A q \in Producer : /\ Keys(q)' = Keys(q) /\ Locks(q)' = Locks(q)
                          /\ Held(q)' = Held(q)
  BY <1>2 DEF Keys, Locks, Held
<1>8. LocksKept' /\ DropsKnown' /\ RaceNeedsOutsider'
  BY <1>2, <1>5, <1>7 DEF EnqueueInv, LocksKept, DropsKnown, RaceNeedsOutsider
<1>9. RowsHaveOwners'
  BY <1>2, <1>4, <1>7, EnqueueAssumption DEF EnqueueInv, RowsHaveOwners
<1>10. OneLive'
  BY <1>2, <1>4 DEF EnqueueInv, OneLive, LiveUnder
<1>11. ASSUME NEW q \in Producer PROVE AnswersOf(q)'
  <2>1. RowsStayFor(q)
    BY <1>4 DEF RowsStayFor
  <2>2. outside' >= outside /\ outside' \in Nat
    BY <1>2, <1>3
  <2>3. QED
    BY <1>2, <1>5, <2>1, <2>2, AnswersStay
<1>12. QED
  BY <1>6, <1>8, <1>9, <1>10, <1>11 DEF EnqueueInv, AnswersFollowed

\* A job that ends keeps its row, and frees its key.
LEMMA JobEndsOK ==
  ASSUME EnqueueInv, NEW r \in rows, JobEnds(r)
  PROVE  EnqueueInv'
<1> DEFINE d == [r EXCEPT !.live = FALSE]
<1>1. /\ r.live /\ r.tx = Free /\ rows' = (rows \ {r}) \cup {d}
      /\ UNCHANGED <<lock, at, batch, results, dropped, outside, faults>>
  BY DEF JobEnds
<1>2. EnqueueTypes /\ outside \in Nat
  BY EnqueueAssumption DEF EnqueueInv, EnqueueTypes
<1>3. /\ d \in RowSet /\ d.id = r.id /\ d.key = r.key /\ d.name = r.name
      /\ d.tx = Free /\ d.live = FALSE
  BY <1>1, <1>2 DEF EnqueueTypes, RowSet
<1> HIDE DEF d
<1>4. EnqueueTypes'
  <2>1. rows' \subseteq RowSet
    BY <1>1, <1>2, <1>3 DEF EnqueueTypes
  <2>2. QED
    BY <1>1, <1>2, <2>1 DEF EnqueueTypes
<1>5. \A q \in Producer : /\ Keys(q)' = Keys(q) /\ Locks(q)' = Locks(q)
                          /\ Held(q)' = Held(q)
  BY <1>1 DEF Keys, Locks, Held
<1>6. LocksKept' /\ DropsKnown' /\ RaceNeedsOutsider'
  BY <1>1, <1>5 DEF EnqueueInv, LocksKept, DropsKnown, RaceNeedsOutsider
<1>7. RowsHaveOwners'
  BY <1>1, <1>3, <1>5, EnqueueAssumption DEF EnqueueInv, RowsHaveOwners
<1>8. \A k \in Key : LiveUnder(k)' \subseteq LiveUnder(k)
  BY <1>1, <1>3 DEF LiveUnder
<1>9. OneLive'
  BY <1>8 DEF EnqueueInv, OneLive
<1>10. ASSUME NEW q \in Producer PROVE AnswersOf(q)'
  <2>1. RowsStayFor(q)
    BY <1>1, <1>3 DEF RowsStayFor
  <2>2. ASSUME NEW i \in ToInsert(q), LiveUnder(batch[q][i].key) = {}
        PROVE  LiveUnder(batch[q][i].key)' = {}
    BY <1>1, <1>3, <2>2 DEF LiveUnder
  <2>3. outside' >= outside /\ outside' \in Nat
    BY <1>1, <1>2
  <2>4. QED
    BY <1>1, <2>1, <2>2, <2>3, AnswersStay
<1>11. QED
  BY <1>4, <1>6, <1>7, <1>9, <1>10 DEF EnqueueInv, AnswersFollowed

LEMMA EnqueueStepOK ==
  ASSUME EnqueueInv, EnqueueNext
  PROVE  EnqueueInv'
<1>1. faults \in 0..MaxFaults
  BY DEF EnqueueInv, EnqueueTypes
<1>2. ASSUME NEW p \in Producer, ReadHolders(p) PROVE EnqueueInv'
  <2>1. at[p] = "lock" /\ UNCHANGED faults
    BY <1>2 DEF ReadHolders
  <2>2. CASE Refuse(p, "refused")
    <3>1. Close(p, FALSE, "refused")
      BY <2>2 DEF Refuse
    <3>2. QED
      BY <1>1, <2>1, <3>1, CloseOK DEF Asking
  <2>3. CASE ~Refuse(p, "refused")
    <3>1. at' = [at EXCEPT ![p] = "insert"]
      BY <1>2, <2>3 DEF ReadHolders
    <3>2. at'[p] = "insert"
      BY <3>1 DEF EnqueueInv, EnqueueTypes
    <3>3. QED
      BY <1>2, <3>2, ReadHoldersOK
  <2>4. QED
    BY <2>2, <2>3
<1>3. ASSUME NEW p \in Producer, Reread(p) PROVE EnqueueInv'
  <2>1. at[p] = "reread" /\ UNCHANGED faults
    BY <1>3 DEF Reread
  <2>2. outside > 0
    BY <2>1 DEF EnqueueInv, RaceNeedsOutsider
  <2>3. ASSUME NEW why \in {"refused", "race"}, Refuse(p, why) PROVE EnqueueInv'
    <3>1. Close(p, FALSE, why)
      BY <2>3 DEF Refuse
    <3>2. QED
      BY <1>1, <2>1, <2>2, <3>1, CloseOK DEF Asking
  <2>4. CASE ~Refuse(p, "refused") /\ ~Refuse(p, "race")
    <3>1. PICK k \in dropped[p] :
            LET holders == HoldersOf(p, {k}) IN
            /\ holders # {} /\ ~Mismatch(p, holders)
            /\ results' = [results EXCEPT ![p] =
                             Replace(p, k, (CHOOSE r \in holders : TRUE).id)]
            /\ dropped' = [dropped EXCEPT ![p] = @ \ {k}]
            /\ at' = [at EXCEPT ![p] = IF dropped[p] = {k} THEN "commit" ELSE @]
            /\ UNCHANGED <<rows, lock, batch, outside>>
      BY <1>3, <2>4 DEF Reread
    <3> DEFINE holders == HoldersOf(p, {k})
               h == CHOOSE r \in holders : TRUE
    <3>2. h \in holders
      BY <3>1
    <3>3. /\ ~Mismatch(p, holders)
          /\ results' = [results EXCEPT ![p] = Replace(p, k, h.id)]
      BY <3>1
    <3> HIDE DEF h
    <3>4. h \in Visible(p) /\ h.live /\ h.key = k
      BY <3>2 DEF HoldersOf
    <3>5. \A i \in DOMAIN batch[p] :
             batch[p][i].key = k => batch[p][i].name = h.name
      BY <3>2, <3>3, <3>4 DEF Mismatch
    <3> HIDE DEF holders
    <3>6. /\ dropped' = [dropped EXCEPT ![p] = @ \ {k}]
          /\ at' = [at EXCEPT ![p] = IF dropped[p] = {k} THEN "commit" ELSE @]
          /\ UNCHANGED <<rows, lock, batch, outside>>
      BY <3>1
    <3>7. QED
      BY <2>1, <3>3, <3>4, <3>5, <3>6, RereadOK
  <2>5. QED
    BY <2>3, <2>4
<1>4. ASSUME NEW p \in Producer, Commit(p) PROVE EnqueueInv'
  <2>1. at[p] = "commit" /\ Close(p, TRUE, "answered") /\ UNCHANGED faults
    BY <1>4 DEF Commit
  <2>2. QED
    BY <1>1, <2>1, CloseOK DEF Asking
<1>5. ASSUME NEW p \in Producer, Drop(p) PROVE EnqueueInv'
  <2>1. /\ at[p] \in Asking
        /\ Close(p, FALSE, "gone") \/ (at[p] = "commit" /\ Close(p, TRUE, "gone"))
    BY <1>5 DEF Drop
  <2>2. faults' \in 0..MaxFaults
    BY <1>1, <1>5, EnqueueAssumption DEF Drop
  <2>3. CASE Close(p, FALSE, "gone")
    BY <2>1, <2>2, <2>3, CloseOK
  <2>4. CASE at[p] = "commit" /\ Close(p, TRUE, "gone")
    BY <2>1, <2>2, <2>4, CloseOK
  <2>5. QED
    BY <2>1, <2>3, <2>4
<1>6. QED
  BY <1>2, <1>3, <1>4, <1>5, BeginOK, TakeLockOK, InsertRowsOK,
     WriteOutsideOK, JobEndsOK
     DEF EnqueueNext, EnqueueStep

LEMMA EnqueueInvSafe == EnqueueInv => EnqueueSafety
<1> SUFFICES ASSUME EnqueueInv PROVE EnqueueSafety
  OBVIOUS
<1>1. ASSUME NEW k \in Key PROVE Cardinality(LiveUnder(k)) <= 1
  <2>1. CASE LiveUnder(k) = {}
    BY <2>1, FS_EmptySet
  <2>2. CASE LiveUnder(k) # {}
    <3>1. PICK r \in LiveUnder(k) : TRUE
      BY <2>2
    <3>2. LiveUnder(k) = {r}
      BY <3>1 DEF EnqueueInv, OneLive
    <3>3. Cardinality({r}) = 1
      BY FS_Singleton, Zenon
    <3>4. QED
      BY <3>2, <3>3
  <2>3. QED
    BY <2>1, <2>2
<1>2. /\ \A r \in rows : /\ r.key \in Key \cup {NoKey} /\ r.name \in Name
                         /\ r.tx \in Producer \cup {Free} /\ r.live \in BOOLEAN
  BY DEF EnqueueInv, EnqueueTypes, RowSet
<1>3. \A p \in Producer : at[p] \in Asking \ {"lock"} =>
                              DOMAIN results[p] = DOMAIN batch[p]
  BY DEF EnqueueInv, AnswersFollowed, AnswersOf, Asking
<1>4. \A p \in Producer : IF at[p] \in Asking \ {"lock"}
                          THEN Held(p) = Locks(p)
                          ELSE at[p] # "lock" => Held(p) = {}
  BY DEF EnqueueInv, LocksKept, Asking
<1>5. EnqueueTypeOK
  BY <1>1, <1>2, <1>3, <1>4
     DEF EnqueueInv, EnqueueTypes, DropsKnown, EnqueueTypeOK
<1>6. AnswersAreRows
  <2> SUFFICES ASSUME NEW p \in Producer, at[p] = "answered",
                      NEW i \in DOMAIN batch[p]
               PROVE  \E r \in rows :
                        /\ r.id = results[p][i].id /\ r.tx = Free
                        /\ r.key = batch[p][i].key /\ r.name = batch[p][i].name
    BY DEF AnswersAreRows
  <2>1. Found(p, i)
    BY DEF EnqueueInv, AnswersFollowed, AnswersOf
  <2>2. \A r \in rows : r.tx # p
    BY DEF EnqueueInv, RowsHaveOwners
  <2>3. QED
    BY <2>1, <2>2 DEF Found
<1>7. RefusedLeavesNothing
  BY DEF EnqueueInv, RowsHaveOwners, RefusedLeavesNothing
<1>8. QED
  BY <1>5, <1>6, <1>7 DEF EnqueueInv, EnqueueSafety

(***************************************************************************)
(* Queue::enqueue and its batches under dedupe keys, for any producers,    *)
(* keys, batches and lock hashes and any number of outsiders: every handle *)
(* that is answered belongs to a committed row of its job's key and type,  *)
(* a refused batch leaves no row, no key has two live rows, and DedupeRace *)
(* is only ever the doing of a writer without the enqueue lock.            *)
(***************************************************************************)
THEOREM AnswersAreTrue == EnqueueSpec => []EnqueueSafety
<1>1. EnqueueInv /\ [EnqueueNext]_enqueueVars => EnqueueInv'
  <2> SUFFICES ASSUME EnqueueInv, [EnqueueNext]_enqueueVars PROVE EnqueueInv'
    OBVIOUS
  <2>1. CASE EnqueueNext
    BY <2>1, EnqueueStepOK
  <2>2. CASE UNCHANGED enqueueVars
    BY <2>2 DEF enqueueVars, EnqueueInv, EnqueueTypes, RowsHaveOwners, OneLive,
       LocksKept, DropsKnown, AnswersFollowed, AnswersOf, RaceNeedsOutsider,
       Prepared, Found, ToInsert, LiveUnder, Keys, Locks, Held
  <2>3. QED
    BY <2>1, <2>2
<1>2. QED
  BY EnqueueInitOK, <1>1, EnqueueInvSafe, PTL DEF EnqueueSpec

-----------------------------------------------------------------------------
(***************************************************************************)
(* The atomic enqueue.  A batch takes effect when its transaction commits, *)
(* and what has to be known then is what the transaction has written and   *)
(* what is going to be answered: its rows are those of the jobs that are   *)
(* answered with a row of their own, one for each key, and every other job *)
(* has met a foreign row or shares its key with one of those.  The rows of *)
(* outsiders are there for good, and DedupeRace can point at one.          *)
(***************************************************************************)
OwnRows(p) == {r \in rows : r.tx = p}

OwnRow(p, i) == [id |-> <<p, i>>, key |-> batch[p][i].key,
                 name |-> batch[p][i].name, live |-> TRUE, tx |-> p]

\* The jobs whose rows are in the table.
Landed(p) == {i \in ToInsert(p) : batch[p][i].key \notin dropped[p]}

Shares(p, i, j) == batch[p][i].key # NoKey /\ batch[p][i].key = batch[p][j].key

OwnAnswer(p, i) ==
    /\ results[p][i] = Inserted(<<p, i>>)
    /\ \A j \in ToInsert(p) : Shares(p, i, j) => i = j

OtherAnswer(p, i) ==
    /\ results[p][i] = Deduplicated(results[p][i].id)
    /\ batch[p][i].key # NoKey
    /\ \/ results[p][i].id[1] # p
       \/ \E j \in ToInsert(p) : results[p][i].id = <<p, j>> /\ Shares(p, i, j)

AnswerForms(p) ==
    /\ results[p] = [i \in DOMAIN batch[p] |-> results[p][i]]
    /\ \A i, j \in DOMAIN batch[p] :
           Shares(p, i, j) => batch[p][i].name = batch[p][j].name
    /\ \A i \in ToInsert(p) : OwnAnswer(p, i)
    /\ \A i \in DOMAIN batch[p] \ ToInsert(p) : OtherAnswer(p, i)

PendingOf(p) ==
    /\ at[p] \in {"new", "lock"} => results[p] = <<>>
    /\ at[p] \in {"insert", "reread", "commit"} => AnswerForms(p)
    /\ at[p] \in {"reread", "commit"} =>
           OwnRows(p) = {OwnRow(p, i) : i \in Landed(p)}

OutsideRows ==
    /\ \A r \in rows : r.id[1] = Outsider => r.id[2] < outside /\ r.tx = Free
    /\ outside > 0 => \E r \in rows : r.id[1] = Outsider

AtomicInv == EnqueueInv /\ OutsideRows /\ \A p \in Producer : PendingOf(p)

\* The next call is nobody else's business.
LEMMA PendingStays ==
  ASSUME NEW p \in Producer, PendingOf(p), at'[p] = at[p],
         batch'[p] = batch[p], results'[p] = results[p],
         dropped'[p] = dropped[p], OwnRows(p)' = OwnRows(p)
  PROVE  PendingOf(p)'
<1>1. ToInsert(p)' = ToInsert(p)
  BY DEF ToInsert
<1>2. Landed(p)' = Landed(p)
  BY <1>1 DEF Landed
<1>3. \A i : OwnRow(p, i)' = OwnRow(p, i)
  BY DEF OwnRow
<1>4. \A i, j : Shares(p, i, j)' = Shares(p, i, j)
  BY DEF Shares
<1>5. AnswerForms(p) => AnswerForms(p)'
  <2> SUFFICES ASSUME AnswerForms(p) PROVE AnswerForms(p)'
    OBVIOUS
  <2>1. \A i \in ToInsert(p) : OwnAnswer(p, i)'
    BY <1>1, <1>4 DEF AnswerForms, OwnAnswer
  <2>2. ASSUME NEW i \in DOMAIN batch[p] \ ToInsert(p) PROVE OtherAnswer(p, i)'
    <3>1. OtherAnswer(p, i) /\ results'[p][i] = results[p][i]
      BY <2>2 DEF AnswerForms
    <3>2. QED
      BY <1>1, <1>4, <3>1 DEF OtherAnswer
  <2>3. QED
    BY <1>1, <1>4, <2>1, <2>2 DEF AnswerForms
<1>6. QED
  BY <1>2, <1>3, <1>5 DEF PendingOf

\* A step that moves no row leaves the others alone.
LEMMA OthersPending ==
  ASSUME AtomicInv, NEW p \in Producer, UNCHANGED <<rows, outside>>,
         \A q \in Producer \ {p} :
             /\ at'[q] = at[q] /\ batch'[q] = batch[q]
             /\ results'[q] = results[q] /\ dropped'[q] = dropped[q],
         PendingOf(p)', EnqueueInv'
  PROVE  AtomicInv'
<1>1. \A q \in Producer : OwnRows(q)' = OwnRows(q)
  BY DEF OwnRows
<1>2. \A q \in Producer \ {p} : PendingOf(q)'
  BY <1>1, PendingStays DEF AtomicInv
<1>3. OutsideRows'
  BY DEF AtomicInv, OutsideRows
<1>4. QED
  BY <1>2, <1>3 DEF AtomicInv

LEMMA AtomicInitOK == EnqueueInit => AtomicInv
BY EnqueueInitOK, EnqueueAssumption
   DEF EnqueueInit, AtomicInv, OutsideRows, PendingOf

LEMMA BeginPending ==
  ASSUME AtomicInv, NEW p \in Producer, Begin(p)
  PROVE  AtomicInv'
<1>1. /\ EnqueueInv' /\ EnqueueTypes
      /\ UNCHANGED <<rows, outside, results, dropped>>
      /\ at[p] = "new" /\ at' = [at EXCEPT ![p] = "lock"]
  BY BeginOK DEF AtomicInv, EnqueueInv, Begin
<1>2. PICK b \in Batch : batch' = [batch EXCEPT ![p] = b]
  BY DEF Begin
<1>3. /\ at'[p] = "lock" /\ results'[p] = <<>>
      /\ \A q \in Producer \ {p} : at'[q] = at[q] /\ batch'[q] = batch[q]
  BY <1>1, <1>2 DEF EnqueueTypes, AtomicInv, PendingOf
<1>4. PendingOf(p)'
  BY <1>3 DEF PendingOf
<1>5. QED
  BY <1>1, <1>3, <1>4, OthersPending

LEMMA TakeLockPending ==
  ASSUME AtomicInv, NEW p \in Producer, TakeLock(p)
  PROVE  AtomicInv'
<1>1. /\ EnqueueInv'
      /\ UNCHANGED <<rows, at, batch, results, dropped, outside>>
  BY TakeLockOK DEF AtomicInv, TakeLock
<1>2. PendingOf(p)'
  BY <1>1, PendingStays DEF AtomicInv, OwnRows
<1>3. QED
  BY <1>1, <1>2, OthersPending

\* What a read of the holders tells: a job meets a row that is there, live,
\* of its key and its type, or nothing new.
Meets(p) ==
    \A i \in DOMAIN batch[p] :
        \/ Met(p, i)' = Met(p, i)
        \/ /\ batch[p][i].key # NoKey
           /\ \E r \in rows : /\ r.live /\ r.tx = Free
                              /\ r.key = batch[p][i].key
                              /\ r.name = batch[p][i].name
                              /\ Met(p, i)' = {r.id}

LEMMA AnswerKinds ==
  /\ \A id : /\ Inserted(id).kind = "inserted" /\ Inserted(id).id = id
             /\ Deduplicated(id).kind = "deduplicated"
             /\ Deduplicated(id).id = id
BY DEF Inserted, Deduplicated

LEMMA ReadHoldersPending ==
  ASSUME AtomicInv, NEW p \in Producer, ReadHolders(p), at'[p] = "insert"
  PROVE  AtomicInv' /\ Meets(p)
<1> DEFINE H == HoldersOf(p, Keys(p))
<1>1. /\ at[p] = "lock" /\ ~Mismatch(p, H)
      /\ results' = [results EXCEPT ![p] =
            [i \in DOMAIN batch[p] |-> Answer(p, i, H)]]
      /\ at' = [at EXCEPT ![p] = "insert"]
      /\ UNCHANGED <<rows, batch, dropped, outside>>
  <2>1. ~Refuse(p, "refused")
    BY DEF Refuse, Close, AtomicInv, EnqueueInv, EnqueueTypes
  <2>2. QED
    BY <2>1 DEF ReadHolders
<1>2. /\ H \in SUBSET rows
      /\ \A r \in H : r.live /\ r.tx = Free /\ r.id[1] # p
  BY <1>1 DEF HoldersOf, Visible, AtomicInv, EnqueueInv, RowsHaveOwners
<1>3. EnqueueInv /\ EnqueueInv' /\ EnqueueTypes /\ results[p] = <<>>
  BY <1>1, ReadHoldersOK DEF AtomicInv, EnqueueInv, PendingOf
<1>4. \A i \in DOMAIN batch[p] : \A r \in H :
           r.key = batch[p][i].key => r.name = batch[p][i].name
  BY <1>1 DEF Mismatch
<1>5. \A i, j \in DOMAIN batch[p] :
           Shares(p, i, j) => batch[p][i].name = batch[p][j].name
  BY <1>1 DEF Mismatch, Shares
<1> HIDE DEF H
<1>6. /\ at'[p] = "insert"
      /\ results'[p] = [i \in DOMAIN batch[p] |-> Answer(p, i, H)]
      /\ \A q \in Producer \ {p} : at'[q] = at[q] /\ results'[q] = results[q]
  BY <1>1, <1>3 DEF EnqueueTypes
<1>7. \A i \in DOMAIN batch[p] : results'[p][i] = Answer(p, i, H)
  BY <1>6
<1>8. ASSUME NEW i \in DOMAIN batch[p]
      PROVE  FreshAnswer(p, i, H) \/ HeldAnswer(p, i, H) \/ SharedAnswer(p, i, H)
  BY <1>2, <1>3, Answers
<1>9. ToInsert(p)' \subseteq DOMAIN batch[p]
  BY <1>1 DEF ToInsert
<1>10. ASSUME NEW i \in ToInsert(p)' PROVE OwnAnswer(p, i)'
  <2>1. Prepared(p)'
    BY <1>3, <1>6 DEF EnqueueInv, AnswersFollowed, AnswersOf
  <2>2. \A j \in ToInsert(p)' : Shares(p, i, j)' => i = j
    BY <2>1 DEF Prepared, Shares
  <2>3. results'[p][i].kind = "inserted" /\ i \in DOMAIN batch[p]
    BY <1>9 DEF ToInsert
  <2>4. FreshAnswer(p, i, H)
    <3>1. \A id : results'[p][i] # Deduplicated(id)
      BY <2>3, AnswerKinds
    <3>2. \A id : Answer(p, i, H) # Deduplicated(id)
      BY <1>7, <2>3, <3>1
    <3>3. QED
      BY <1>8, <2>3, <3>2 DEF HeldAnswer, SharedAnswer
  <2>5. results'[p][i] = Inserted(<<p, i>>)
    BY <1>7, <2>3, <2>4 DEF FreshAnswer
  <2>6. QED
    BY <2>2, <2>5 DEF OwnAnswer
<1>11. ASSUME NEW i \in DOMAIN batch[p], FreshAnswer(p, i, H)
       PROVE  i \in ToInsert(p)' /\ Met(p, i)' = {}
  <2>1. results'[p][i] = Inserted(<<p, i>>)
    BY <1>7, <1>11 DEF FreshAnswer
  <2>2. QED
    BY <1>1, <2>1, AnswerKinds DEF ToInsert, Met
<1>12. ASSUME NEW i \in DOMAIN batch[p], HeldAnswer(p, i, H)
       PROVE  OtherAnswer(p, i)' /\ Meets(p)!(i)
  <2>1. PICK r \in H : /\ r.key = batch[p][i].key /\ r.key # NoKey
                       /\ Answer(p, i, H) = Deduplicated(r.id)
    BY <1>12 DEF HeldAnswer
  <2>2. results'[p][i] = Deduplicated(r.id) /\ results'[p][i].id = r.id
    BY <1>7, <2>1, AnswerKinds
  <2>3. r \in rows /\ r.live /\ r.tx = Free /\ r.id[1] # p
    BY <1>2
  <2>4. OtherAnswer(p, i)'
    BY <1>1, <2>1, <2>2, <2>3 DEF OtherAnswer
  <2>5. Met(p, i)' = {r.id}
    BY <1>6, <2>2, <2>3 DEF Met
  <2>6. QED
    BY <1>4, <2>1, <2>3, <2>4, <2>5
<1>13. ASSUME NEW i \in DOMAIN batch[p], SharedAnswer(p, i, H)
       PROVE  OtherAnswer(p, i)' /\ Met(p, i)' = {}
  <2>1. PICK j \in DOMAIN batch[p] :
            /\ batch[p][j].key = batch[p][i].key /\ batch[p][i].key # NoKey
            /\ Answer(p, j, H) = Inserted(<<p, j>>)
            /\ Answer(p, i, H) = Deduplicated(<<p, j>>)
    BY <1>13 DEF SharedAnswer
  <2>2. /\ results'[p][j] = Inserted(<<p, j>>)
        /\ results'[p][i] = Deduplicated(<<p, j>>)
        /\ results'[p][i].id = <<p, j>>
    BY <1>7, <2>1, AnswerKinds
  <2>3. j \in ToInsert(p)' /\ Shares(p, i, j)'
    BY <1>1, <2>1, <2>2, AnswerKinds DEF ToInsert, Shares
  <2>4. OtherAnswer(p, i)'
    BY <1>1, <2>1, <2>2, <2>3 DEF OtherAnswer
  <2>5. Met(p, i)' = {}
    BY <2>2 DEF Met
  <2>6. QED
    BY <2>4, <2>5
<1>14. Meets(p)
  <2>1. \A i : Met(p, i) = {}
    BY <1>3 DEF Met
  <2>2. ASSUME NEW i \in DOMAIN batch[p] PROVE Meets(p)!(i)
    BY <1>8, <1>11, <1>12, <1>13, <2>1
  <2>3. QED
    BY <2>2 DEF Meets
<1>15. AnswerForms(p)'
  <2>1. results'[p] = [i \in DOMAIN batch[p] |-> results'[p][i]]
    BY <1>6
  <2>2. \A i \in DOMAIN batch[p] \ ToInsert(p)' : OtherAnswer(p, i)'
    BY <1>8, <1>11, <1>12, <1>13
  <2>3. QED
    BY <1>1, <1>5, <1>10, <2>1, <2>2 DEF AnswerForms, Shares
<1>16. PendingOf(p)'
  BY <1>6, <1>15 DEF PendingOf
<1>17. QED
  BY <1>1, <1>3, <1>6, <1>14, <1>16, OthersPending

LEMMA InsertRowsPending ==
  ASSUME AtomicInv, NEW p \in Producer, InsertRows(p)
  PROVE  AtomicInv'
<1> DEFINE B == {i \in ToInsert(p) : batch[p][i].key # NoKey
                                       /\ LiveUnder(batch[p][i].key) # {}}
           N == {OwnRow(p, i) : i \in ToInsert(p) \ B}
<1>1. /\ at[p] = "insert"
      /\ rows' = rows \cup N
      /\ dropped' = [dropped EXCEPT ![p] = {batch[p][i].key : i \in B}]
      /\ at' = [at EXCEPT ![p] = IF B = {} THEN "commit" ELSE "reread"]
      /\ UNCHANGED <<batch, results, outside>>
  BY DEF InsertRows, ToInsert, OwnRow
<1>2. EnqueueInv /\ EnqueueInv' /\ EnqueueTypes /\ AnswerForms(p)
  BY <1>1, InsertRowsOK DEF AtomicInv, EnqueueInv, PendingOf
<1>3. \A i : /\ OwnRow(p, i).tx = p /\ OwnRow(p, i).id[1] = p
             /\ OwnRow(p, i)' = OwnRow(p, i)
  BY <1>1 DEF OwnRow
<1>4. /\ \A r \in N : r.tx = p /\ r.id[1] = p
      /\ B \subseteq ToInsert(p)
  BY <1>3
<1>5. /\ at'[p] \in {"reread", "commit"}
      /\ dropped'[p] = {batch[p][i].key : i \in B}
      /\ \A q \in Producer \ {p} : at'[q] = at[q] /\ dropped'[q] = dropped[q]
  BY <1>1, <1>2 DEF EnqueueTypes
<1>6. ToInsert(p)' = ToInsert(p)
  BY <1>1 DEF ToInsert
<1>7. Landed(p)' = ToInsert(p) \ B
  <2>1. ASSUME NEW i \in ToInsert(p), NEW j \in B,
               batch[p][i].key = batch[p][j].key
        PROVE  i = j
    BY <1>2, <1>4, <2>1 DEF AnswerForms, OwnAnswer, Shares
  <2>2. \A i \in ToInsert(p) : batch'[p][i].key \in dropped'[p] <=> i \in B
    BY <1>1, <1>5, <2>1
  <2>3. QED
    BY <1>4, <1>6, <2>2 DEF Landed
<1>8. N = {OwnRow(p, i)' : i \in Landed(p)'}
  BY <1>3, <1>7
<1> HIDE DEF N, B
<1>9. OwnRows(p) = {}
  BY <1>1, <1>2 DEF EnqueueInv, RowsHaveOwners, OwnRows
<1>10. OwnRows(p)' = N /\ \A q \in Producer \ {p} : OwnRows(q)' = OwnRows(q)
  BY <1>1, <1>4, <1>9 DEF OwnRows
<1>11. AnswerForms(p)'
  <2>1. \A i, j : Shares(p, i, j)' = Shares(p, i, j)
    BY <1>1 DEF Shares
  <2>2. \A i \in ToInsert(p) : OwnAnswer(p, i)'
    BY <1>1, <1>2, <1>6, <2>1 DEF AnswerForms, OwnAnswer
  <2>3. ASSUME NEW i \in DOMAIN batch[p] \ ToInsert(p) PROVE OtherAnswer(p, i)'
    <3>1. OtherAnswer(p, i)
      BY <1>2, <2>3 DEF AnswerForms
    <3>2. batch' = batch /\ results' = results
      BY <1>1
    <3>3. QED
      BY <1>6, <2>1, <3>1, <3>2 DEF OtherAnswer
  <2>4. QED
    BY <1>1, <1>2, <1>6, <2>1, <2>2, <2>3 DEF AnswerForms
<1>12. PendingOf(p)'
  BY <1>5, <1>8, <1>10, <1>11 DEF PendingOf
<1>13. ASSUME NEW q \in Producer \ {p} PROVE PendingOf(q)'
  BY <1>1, <1>5, <1>10, PendingStays DEF AtomicInv
<1>14. OutsideRows'
  BY <1>1, <1>4, EnqueueAssumption DEF AtomicInv, OutsideRows
<1>15. QED
  BY <1>2, <1>12, <1>13, <1>14 DEF AtomicInv

\* A row that is read again under a dropped key is not one of the batch's.
LEMMA RereadPending ==
  ASSUME AtomicInv, NEW p \in Producer, at[p] = "reread", UNCHANGED faults,
         NEW k \in dropped[p], NEW h \in Visible(p), h.live, h.key = k,
         \A i \in DOMAIN batch[p] :
             batch[p][i].key = k => batch[p][i].name = h.name,
         results' = [results EXCEPT ![p] = Replace(p, k, h.id)],
         dropped' = [dropped EXCEPT ![p] = @ \ {k}],
         at' = [at EXCEPT ![p] = IF dropped[p] = {k} THEN "commit" ELSE @],
         UNCHANGED <<rows, lock, batch, outside>>
  PROVE  AtomicInv' /\ Meets(p)
<1>1. EnqueueInv /\ EnqueueTypes
  BY DEF AtomicInv, EnqueueInv
<1>2. EnqueueInv'
  BY <1>1, RereadOK
<1>3. /\ AnswerForms(p) /\ k # NoKey
      /\ OwnRows(p) = {OwnRow(p, i) : i \in Landed(p)}
  BY <1>1, EnqueueAssumption DEF AtomicInv, PendingOf, EnqueueTypes
<1>4. /\ at'[p] = IF dropped[p] = {k} THEN "commit" ELSE "reread"
      /\ results'[p] = Replace(p, k, h.id) /\ dropped'[p] = dropped[p] \ {k}
      /\ \A q \in Producer \ {p} : /\ at'[q] = at[q] /\ results'[q] = results[q]
                                   /\ dropped'[q] = dropped[q]
  BY <1>1 DEF EnqueueTypes
<1>5. h \in rows /\ h.id[1] # p /\ h.tx = Free
  <2>1. h \in rows /\ h.tx \in {Free, p} /\ (h.id[1] = p => h.tx = p)
    BY <1>1 DEF Visible, EnqueueInv, RowsHaveOwners
  <2>2. h.tx # p
    <3> SUFFICES ASSUME h.tx = p PROVE FALSE
      OBVIOUS
    <3>0. h \in {OwnRow(p, i) : i \in Landed(p)}
      BY <1>3, <2>1 DEF OwnRows
    <3>1. PICK i \in Landed(p) : h = OwnRow(p, i)
      BY <3>0
    <3>2. h.key = batch[p][i].key /\ batch[p][i].key \notin dropped[p]
      BY <3>1 DEF OwnRow, Landed
    <3>3. QED
      BY <3>2
  <2>3. QED
    BY <2>1, <2>2
<1>6. \A i \in DOMAIN batch[p] :
        results'[p][i] = IF batch[p][i].key = k THEN Deduplicated(h.id)
                                                ELSE results[p][i]
  BY <1>4 DEF Replace
<1>7. ToInsert(p)' = {i \in ToInsert(p) : batch[p][i].key # k}
  BY <1>6, AnswerKinds DEF ToInsert
<1>8. Landed(p)' = Landed(p)
  BY <1>4, <1>7 DEF Landed
<1>9. \A i : OwnRow(p, i)' = OwnRow(p, i)
  BY DEF OwnRow
<1>10. \A i, j : Shares(p, i, j)' = Shares(p, i, j)
  BY DEF Shares
<1>11. \A i \in ToInsert(p)' : OwnAnswer(p, i)'
  <2> SUFFICES ASSUME NEW i \in ToInsert(p)' PROVE OwnAnswer(p, i)'
    OBVIOUS
  <2>1. /\ i \in ToInsert(p) /\ i \in DOMAIN batch[p] /\ batch[p][i].key # k
        /\ \A j \in ToInsert(p)' : j \in ToInsert(p)
    BY <1>7 DEF ToInsert
  <2>2. OwnAnswer(p, i) /\ results'[p][i] = results[p][i]
    BY <1>3, <1>6, <2>1 DEF AnswerForms
  <2>3. QED
    BY <1>10, <2>1, <2>2 DEF OwnAnswer
<1>12. ASSUME NEW i \in DOMAIN batch[p], i \notin ToInsert(p)'
       PROVE  OtherAnswer(p, i)'
  <2>1. CASE batch[p][i].key = k
    <3>1. results'[p][i] = Deduplicated(h.id) /\ results'[p][i].id = h.id
      BY <1>6, <2>1, AnswerKinds
    <3>2. QED
      BY <1>3, <1>5, <2>1, <3>1 DEF OtherAnswer
  <2>2. CASE batch[p][i].key # k
    <3>1. results'[p][i] = results[p][i] /\ OtherAnswer(p, i)
      BY <1>3, <1>6, <1>7, <1>12, <2>2 DEF AnswerForms
    <3>2. \A j \in ToInsert(p) : Shares(p, i, j) => j \in ToInsert(p)'
      BY <1>7, <2>2 DEF Shares
    <3>3. QED
      BY <1>10, <3>1, <3>2 DEF OtherAnswer
  <2>3. QED
    BY <2>1, <2>2
<1>13. AnswerForms(p)'
  <2>1. results'[p] = [i \in DOMAIN batch'[p] |-> results'[p][i]]
    <3>1. Replace(p, k, h.id) = [i \in DOMAIN batch[p] |-> Replace(p, k, h.id)[i]]
      BY DEF Replace
    <3>2. QED
      BY <1>4, <3>1
  <2>2. QED
    BY <1>3, <1>10, <1>11, <1>12, <2>1 DEF AnswerForms
<1>14. PendingOf(p)'
  BY <1>3, <1>4, <1>8, <1>9, <1>13 DEF PendingOf, OwnRows
<1>15. Meets(p)
  <2>1. DOMAIN results[p] = DOMAIN batch[p] /\ DOMAIN results'[p] = DOMAIN batch[p]
    BY <1>3, <1>13 DEF AnswerForms
  <2>2. ASSUME NEW i \in DOMAIN batch[p], batch[p][i].key = k
        PROVE  Met(p, i)' = {h.id}
    BY <1>5, <1>6, <2>1, <2>2, AnswerKinds DEF Met
  <2>3. ASSUME NEW i \in DOMAIN batch[p], batch[p][i].key # k
        PROVE  Met(p, i)' = Met(p, i)
    BY <1>6, <2>1, <2>3 DEF Met
  <2>4. QED
    BY <1>3, <1>5, <2>2, <2>3 DEF Meets
<1>16. QED
  BY <1>2, <1>4, <1>14, <1>15, OthersPending

LEMMA ClosePending ==
  ASSUME AtomicInv, NEW p \in Producer, NEW commit \in BOOLEAN, NEW outcome,
         Close(p, commit, outcome), EnqueueInv',
         outcome \in {"answered", "refused", "race", "gone"}
  PROVE  AtomicInv'
<1>1. /\ at' = [at EXCEPT ![p] = outcome]
      /\ UNCHANGED <<batch, results, dropped, outside>>
      /\ rows' = IF commit THEN {Committed(r, p) : r \in rows}
                           ELSE {r \in rows : r.tx # p}
  BY DEF Close, Committed
<1>2. EnqueueInv /\ EnqueueTypes /\ rows \subseteq RowSet
  BY DEF AtomicInv, EnqueueInv, EnqueueTypes
<1>3. ASSUME NEW r \in rows, r.tx # p PROVE Committed(r, p) = r /\ r \in rows'
  <2>1. Committed(r, p) = r
    BY <1>2, <1>3 DEF RowSet, Committed
  <2>2. CASE commit
    <3>1. Committed(r, p) \in {Committed(s, p) : s \in rows}
      OBVIOUS
    <3>2. QED
      BY <1>1, <2>1, <2>2, <3>1
  <2>3. CASE ~commit
    BY <1>1, <1>3, <2>1, <2>3
  <2>4. QED
    BY <2>2, <2>3, <2>1
<1>4. ASSUME NEW s \in rows', s.tx # Free \/ s.id[1] = Outsider
      PROVE  s \in rows /\ s.tx # p
  <2>1. CASE commit
    <3>1. PICK r \in rows : s = Committed(r, p)
      BY <1>1, <2>1
    <3>2. s.id = r.id /\ s.tx = IF r.tx = p THEN Free ELSE r.tx
      BY <1>2, <3>1, CommittedRow
    <3>3. r.tx = p => r.id[1] = p
      BY <1>2 DEF EnqueueInv, RowsHaveOwners
    <3>4. r.tx # p
      BY <1>4, <3>2, <3>3, EnqueueAssumption
    <3>5. QED
      BY <1>3, <3>1, <3>4
  <2>2. CASE ~commit
    BY <1>1, <2>2
  <2>3. QED
    BY <2>1, <2>2
<1>5. /\ at'[p] = outcome /\ \A q \in Producer \ {p} : at'[q] = at[q]
  BY <1>1, <1>2 DEF EnqueueTypes
<1>6. PendingOf(p)'
  BY <1>5 DEF PendingOf
<1>7. ASSUME NEW q \in Producer \ {p} PROVE PendingOf(q)'
  <2>1. OwnRows(q)' = OwnRows(q)
    BY <1>3, <1>4, EnqueueAssumption DEF OwnRows
  <2>2. QED
    BY <1>1, <1>5, <2>1, PendingStays DEF AtomicInv
<1>8. OutsideRows'
  <2>1. \A r \in rows' : r.id[1] = Outsider => r \in rows
    BY <1>4
  <2>2. \A r \in rows : r.id[1] = Outsider => r \in rows'
    BY <1>3, EnqueueAssumption DEF AtomicInv, OutsideRows
  <2>3. QED
    BY <1>1, <2>1, <2>2 DEF AtomicInv, OutsideRows
<1>9. QED
  BY <1>6, <1>7, <1>8 DEF AtomicInv

LEMMA WriteOutsidePending ==
  ASSUME AtomicInv, NEW k \in Key, WriteOutside(k)
  PROVE  AtomicInv'
<1>1. PICK name \in Name :
         rows' = rows \cup {[id |-> <<Outsider, outside>>, key |-> k,
                             name |-> name, live |-> TRUE, tx |-> Free]}
  BY DEF WriteOutside
<1> DEFINE n == [id |-> <<Outsider, outside>>, key |-> k,
                 name |-> name, live |-> TRUE, tx |-> Free]
<1>2. /\ outside' = outside + 1 /\ outside \in Nat
      /\ UNCHANGED <<at, batch, results, dropped>>
  BY EnqueueAssumption DEF WriteOutside, AtomicInv, EnqueueInv, EnqueueTypes
<1>3. /\ n.tx = Free /\ n.id[1] = Outsider /\ n.id[2] = outside
      /\ rows' = rows \cup {n}
  BY <1>1
<1> HIDE DEF n
<1>4. EnqueueInv'
  BY WriteOutsideOK DEF AtomicInv
<1>5. ASSUME NEW q \in Producer PROVE PendingOf(q)'
  <2>1. OwnRows(q)' = OwnRows(q)
    BY <1>3, EnqueueAssumption DEF OwnRows
  <2>2. QED
    BY <1>2, <2>1, PendingStays DEF AtomicInv
<1>6. OutsideRows'
  <2>1. ASSUME NEW r \in rows', r.id[1] = Outsider
        PROVE  r.id[2] < outside' /\ r.tx = Free
    <3>1. CASE r = n
      BY <1>2, <1>3, <3>1
    <3>2. CASE r \in rows
      <4>1. r.id[2] \in Nat
        BY <3>2 DEF AtomicInv, EnqueueInv, EnqueueTypes, RowSet
      <4>2. r.id[2] < outside /\ r.tx = Free
        BY <2>1, <3>2 DEF AtomicInv, OutsideRows
      <4>3. QED
        BY <1>2, <4>1, <4>2
    <3>3. QED
      BY <1>3, <3>1, <3>2
  <2>2. \E r \in rows' : r.id[1] = Outsider
    BY <1>3
  <2>3. QED
    BY <2>1, <2>2 DEF OutsideRows
<1>7. QED
  BY <1>4, <1>5, <1>6 DEF AtomicInv

LEMMA JobEndsPending ==
  ASSUME AtomicInv, NEW r \in rows, JobEnds(r)
  PROVE  AtomicInv'
<1> DEFINE d == [r EXCEPT !.live = FALSE]
<1>1. /\ r.tx = Free /\ rows' = (rows \ {r}) \cup {d}
      /\ UNCHANGED <<at, batch, results, dropped, outside>>
  BY DEF JobEnds
<1>2. d.id = r.id /\ d.tx = Free
  BY <1>1 DEF AtomicInv, EnqueueInv, EnqueueTypes, RowSet
<1> HIDE DEF d
<1>3. EnqueueInv'
  BY JobEndsOK DEF AtomicInv
<1>4. ASSUME NEW q \in Producer PROVE PendingOf(q)'
  <2>1. OwnRows(q)' = OwnRows(q)
    BY <1>1, <1>2, EnqueueAssumption DEF OwnRows
  <2>2. QED
    BY <1>1, <2>1, PendingStays DEF AtomicInv
<1>5. OutsideRows'
  BY <1>1, <1>2 DEF AtomicInv, OutsideRows
<1>6. QED
  BY <1>3, <1>4, <1>5 DEF AtomicInv

\* What the mapping shows of a producer's call.
LEMMA CallMoves ==
  ASSUME EnqueueTypes, NEW p \in Producer, NEW s, at' = [at EXCEPT ![p] = s]
  PROVE  /\ CallState[p] = IF at[p] \in Asking THEN "asking" ELSE at[p]
         /\ CallState' = [CallState EXCEPT ![p] =
                              IF s \in Asking THEN "asking" ELSE s]
BY DEF EnqueueTypes, CallState

LEMMA CallStays ==
  ASSUME EnqueueTypes, NEW p \in Producer, NEW s \in Asking, at[p] \in Asking,
         at' = [at EXCEPT ![p] = s]
  PROVE  UNCHANGED CallState
BY DEF EnqueueTypes, CallState

LEMMA MetStays ==
  ASSUME UNCHANGED <<batch, results>>
  PROVE  UNCHANGED MetRows
<1>1. \A p, i : Met(p, i)' = Met(p, i)
  BY DEF Met
<1>2. QED
  BY <1>1 DEF MetRows

LEMMA AnswersKept ==
  ASSUME \A p \in Producer : /\ at'[p] = "answered" <=> at[p] = "answered"
                             /\ at[p] = "answered" => results'[p] = results[p]
  PROVE  UNCHANGED PublicAnswers
BY DEF PublicAnswers

LEMMA PublicFields ==
  /\ \A r : /\ Public(r).id = r.id /\ Public(r).key = r.key
            /\ Public(r).name = r.name /\ Public(r).live = r.live
  /\ \A t : t \in PublicTable <=> \E r \in rows : r.tx = Free /\ t = Public(r)
BY DEF Public, PublicTable

LEMMA PublicHolders ==
  ASSUME NEW k
  PROVE  /\ \A r \in rows : r.tx = Free /\ r.live /\ r.key = k =>
                                Public(r) \in Atomic!Holders(k)
         /\ (\A r \in rows : r.live /\ r.key = k => r.tx # Free) =>
                Atomic!Holders(k) = {}
BY PublicFields DEF Atomic!Holders

LEMMA BeginIsAsk ==
  ASSUME AtomicInv, NEW p \in Producer, Begin(p)
  PROVE  Atomic!Ask(p)
<1>1. /\ UNCHANGED <<rows, results>> /\ EnqueueTypes
      /\ at[p] = "new" /\ at' = [at EXCEPT ![p] = "lock"]
  BY DEF AtomicInv, EnqueueInv, Begin
<1>2. PICK b \in Batch : batch' = [batch EXCEPT ![p] = b]
  BY DEF Begin
<1>3. /\ CallState[p] = "new"
      /\ CallState' = [CallState EXCEPT ![p] = "asking"]
  BY <1>1, CallMoves DEF Asking
<1>4. MetRows' = [MetRows EXCEPT ![p] = [i \in DOMAIN b |-> {}]]
  <2>1. results[p] = <<>>
    BY <1>1 DEF AtomicInv, PendingOf
  <2>2. /\ \A i : Met(p, i)' = {}
        /\ \A q \in Producer \ {p} : \A i : Met(q, i)' = Met(q, i)
    BY <1>1, <2>1 DEF Met
  <2>3. /\ batch'[p] = b
        /\ \A q \in Producer \ {p} : batch'[q] = batch[q]
    BY <1>1, <1>2 DEF EnqueueTypes
  <2>4. MetRows'[p] = [i \in DOMAIN b |-> {}]
    BY <2>2, <2>3 DEF MetRows
  <2>5. \A q \in Producer \ {p} : MetRows'[q] = MetRows[q]
    BY <2>2, <2>3 DEF MetRows
  <2>6. QED
    BY <2>4, <2>5 DEF MetRows
<1>5. PublicAnswers' = PublicAnswers
  BY <1>1, AnswersKept DEF EnqueueTypes
<1>6. PublicTable' = PublicTable
  BY <1>1 DEF PublicTable
<1>7. QED
  BY <1>2, <1>3, <1>4, <1>5, <1>6 DEF Atomic!Ask

\* A read of the holders, the first one or one of a dropped key.
LEMMA ReadIsMeet ==
  ASSUME AtomicInv, NEW p \in Producer, Meets(p), NEW s \in Asking,
         at[p] \in Asking, at' = [at EXCEPT ![p] = s],
         NEW f, results' = [results EXCEPT ![p] = f],
         UNCHANGED <<rows, batch>>
  PROVE  Atomic!Meet(p)
<1>1. /\ EnqueueTypes /\ s # "answered" /\ at[p] # "answered"
  BY DEF AtomicInv, EnqueueInv, Asking
<1>2. CallState[p] = "asking" /\ UNCHANGED CallState
  BY <1>1, CallMoves, CallStays
<1>3. \A q \in Producer \ {p} : at'[q] = at[q] /\ results'[q] = results[q]
  BY <1>1 DEF EnqueueTypes
<1>4. UNCHANGED PublicAnswers
  BY <1>1, <1>3, AnswersKept DEF EnqueueTypes
<1>5. UNCHANGED PublicTable
  BY DEF PublicTable
<1>6. MetRows' = [MetRows EXCEPT ![p] = [i \in DOMAIN batch[p] |-> MetRows'[p][i]]]
  <2>1. \A q \in Producer \ {p} : \A i : Met(q, i)' = Met(q, i)
    BY <1>3 DEF Met
  <2>2. \A q \in Producer \ {p} : MetRows'[q] = MetRows[q]
    BY <2>1 DEF MetRows
  <2>3. MetRows'[p] = [i \in DOMAIN batch[p] |-> MetRows'[p][i]]
    BY DEF MetRows
  <2>4. QED
    BY <2>2, <2>3 DEF MetRows
<1>7. ASSUME NEW i \in DOMAIN batch[p]
      PROVE  \/ MetRows'[p][i] = MetRows[p][i]
             \/ /\ batch[p][i].key # NoKey
                /\ \E r \in Atomic!Holders(batch[p][i].key) :
                       r.name = batch[p][i].name /\ MetRows'[p][i] = {r.id}
  <2>1. MetRows'[p][i] = Met(p, i)' /\ MetRows[p][i] = Met(p, i)
    BY DEF MetRows
  <2>2. CASE Met(p, i)' = Met(p, i)
    BY <2>1, <2>2
  <2>3. CASE Met(p, i)' # Met(p, i)
    <3>1. /\ batch[p][i].key # NoKey
          /\ \E r \in rows : /\ r.live /\ r.tx = Free
                             /\ r.key = batch[p][i].key
                             /\ r.name = batch[p][i].name
                             /\ Met(p, i)' = {r.id}
      BY <2>3 DEF Meets
    <3>2. PICK r \in rows : /\ r.live /\ r.tx = Free
                            /\ r.key = batch[p][i].key
                            /\ r.name = batch[p][i].name
                            /\ Met(p, i)' = {r.id}
      BY <3>1
    <3>3. Public(r) \in Atomic!Holders(batch[p][i].key)
      BY <3>2, PublicHolders
    <3>4. QED
      BY <2>1, <3>1, <3>2, <3>3, PublicFields
  <2>4. QED
    BY <2>2, <2>3
<1>8. QED
  BY <1>2, <1>4, <1>5, <1>6, <1>7 DEF Atomic!Meet, Atomic!Jobs

\* A producer that finds its keys taken by another type, or its batch at odds
\* with itself.
LEMMA MismatchIsRefuse ==
  ASSUME AtomicInv, NEW p \in Producer, at[p] \in Asking, NEW H,
         \A r \in H : r \in rows /\ r.live /\ r.tx = Free, Mismatch(p, H)
  PROVE  \/ Atomic!Contradicts(p)
         \/ \E i \in Atomic!Jobs(p) : \E r \in Atomic!Holders(batch[p][i].key) :
                r.name # batch[p][i].name
<1>1. PICK i \in DOMAIN batch[p] :
        \/ \E r \in H : r.key = batch[p][i].key /\ r.name # batch[p][i].name
        \/ \E j \in DOMAIN batch[p] : /\ batch[p][i].key # NoKey
                                     /\ batch[p][j].key = batch[p][i].key
                                     /\ batch[p][j].name # batch[p][i].name
  BY DEF Mismatch
<1>2. CASE \E r \in H : r.key = batch[p][i].key /\ r.name # batch[p][i].name
  <2>1. PICK r \in H : r.key = batch[p][i].key /\ r.name # batch[p][i].name
    BY <1>2
  <2>2. Public(r) \in Atomic!Holders(batch[p][i].key)
    BY <2>1, PublicHolders
  <2>3. QED
    BY <2>1, <2>2, PublicFields DEF Atomic!Jobs
<1>3. CASE \E j \in DOMAIN batch[p] : /\ batch[p][i].key # NoKey
                                     /\ batch[p][j].key = batch[p][i].key
                                     /\ batch[p][j].name # batch[p][i].name
  BY <1>3 DEF Atomic!Contradicts, Atomic!SameKey, Atomic!Jobs
<1>4. QED
  BY <1>1, <1>2, <1>3

\* A transaction that is rolled back leaves the table as everybody sees it.
LEMMA RollbackIsHidden ==
  ASSUME NEW p \in Producer, NEW outcome, Close(p, FALSE, outcome)
  PROVE  UNCHANGED PublicTable
<1>1. rows' = {r \in rows : r.tx # p}
  BY DEF Close
<1>2. {r \in rows' : r.tx = Free} = {r \in rows : r.tx = Free}
  BY <1>1, EnqueueAssumption
<1>3. QED
  BY <1>2 DEF PublicTable, Public

LEMMA EndOfCall ==
  ASSUME AtomicInv, NEW p \in Producer, NEW commit \in BOOLEAN,
         NEW outcome \in {"answered", "refused", "race", "gone"},
         Close(p, commit, outcome), at[p] \in Asking
  PROVE  /\ CallState[p] = "asking"
         /\ CallState' = [CallState EXCEPT ![p] = outcome]
         /\ UNCHANGED <<batch, MetRows>>
         /\ outcome # "answered" => UNCHANGED PublicAnswers
         /\ outcome = "answered" =>
                PublicAnswers' = [PublicAnswers EXCEPT ![p] = results[p]]
<1>1. /\ at' = [at EXCEPT ![p] = outcome]
      /\ UNCHANGED <<batch, results>> /\ EnqueueTypes
  BY DEF Close, AtomicInv, EnqueueInv
<1>2. /\ CallState[p] = "asking"
      /\ CallState' = [CallState EXCEPT ![p] = outcome]
  BY <1>1, CallMoves DEF Asking
<1>3. /\ at'[p] = outcome /\ at[p] # "answered"
      /\ \A q \in Producer \ {p} : at'[q] = at[q]
  BY <1>1 DEF EnqueueTypes, Asking
<1>4. outcome # "answered" => UNCHANGED PublicAnswers
  BY <1>1, <1>3, AnswersKept
<1>5. outcome = "answered" =>
          PublicAnswers' = [PublicAnswers EXCEPT ![p] = results[p]]
  BY <1>1, <1>3 DEF PublicAnswers
<1>6. QED
  BY <1>1, <1>2, <1>4, <1>5, MetStays

\* The commit publishes the rows of the transaction and moves no other.
LEMMA CommitPublishes ==
  ASSUME AtomicInv, NEW p \in Producer, at[p] = "commit", NEW outcome,
         Close(p, TRUE, outcome)
  PROVE  PublicTable' = PublicTable \cup
             {Atomic!Row(<<p, i>>, batch[p][i].key, batch[p][i].name) :
                  i \in ToInsert(p)}
<1> DEFINE R(i) == Atomic!Row(<<p, i>>, batch[p][i].key, batch[p][i].name)
<1>1. /\ rows' = {Committed(r, p) : r \in rows} /\ rows \subseteq RowSet
      /\ OwnRows(p) = {OwnRow(p, i) : i \in Landed(p)}
  BY DEF Close, Committed, AtomicInv, EnqueueInv, EnqueueTypes, PendingOf
<1>2. Landed(p) = ToInsert(p)
  BY DEF Landed, AtomicInv, EnqueueInv, DropsKnown
<1>3. \A i : R(i) = Public(OwnRow(p, i)) /\ OwnRow(p, i).tx = p
  BY DEF Public, OwnRow, Atomic!Row
<1>4. ASSUME NEW r \in rows
      PROVE  /\ Public(Committed(r, p)) = Public(r)
             /\ Committed(r, p).tx = IF r.tx = p THEN Free ELSE r.tx
  BY <1>1, CommittedRow DEF Public
<1>5. ASSUME NEW t \in PublicTable'
      PROVE  t \in PublicTable \/ \E i \in ToInsert(p) : t = R(i)
  <2>1. PICK s \in rows' : s.tx = Free /\ t = Public(s)
    BY DEF PublicTable, Public
  <2>2. PICK r \in rows : s = Committed(r, p)
    BY <1>1, <2>1
  <2>3. t = Public(r) /\ r.tx \in {Free, p}
    BY <1>4, <2>1, <2>2
  <2>4. CASE r.tx = Free
    BY <2>3, <2>4, PublicFields
  <2>5. CASE r.tx = p
    <3>1. r \in {OwnRow(p, i) : i \in Landed(p)}
      BY <1>1, <2>5 DEF OwnRows
    <3>2. PICK i \in Landed(p) : r = OwnRow(p, i)
      BY <3>1
    <3>3. QED
      BY <1>2, <1>3, <2>3, <3>2
  <2>6. QED
    BY <2>3, <2>4, <2>5
<1>6. ASSUME NEW r \in rows, r.tx \in {Free, p}
      PROVE  Public(r) \in PublicTable'
  <2>1. Committed(r, p) \in rows' /\ Committed(r, p).tx = Free
    BY <1>1, <1>4, <1>6
  <2>2. Public(Committed(r, p)) \in PublicTable'
    BY <2>1 DEF PublicTable, Public
  <2>3. QED
    BY <1>4, <2>2
<1>7. \A t \in PublicTable : t \in PublicTable'
  BY <1>6, PublicFields
<1>8. ASSUME NEW i \in ToInsert(p) PROVE R(i) \in PublicTable'
  <2>1. OwnRow(p, i) \in OwnRows(p)
    BY <1>1, <1>2
  <2>2. OwnRow(p, i) \in rows
    BY <2>1 DEF OwnRows
  <2>3. QED
    BY <1>3, <1>6, <2>2
<1> HIDE DEF R
<1>9. PublicTable' = PublicTable \cup {R(i) : i \in ToInsert(p)}
  BY <1>5, <1>7, <1>8
<1>10. QED
  BY <1>9 DEF R

\* And with it the whole batch takes effect.
LEMMA CommitTakesEffect ==
  ASSUME AtomicInv, NEW p \in Producer, at[p] = "commit", NEW outcome,
         Close(p, TRUE, outcome)
  PROVE  Atomic!TakesEffect(p, ToInsert(p))
<1>1. /\ AnswerForms(p) /\ EnqueueInv
      /\ OwnRows(p) = {OwnRow(p, i) : i \in Landed(p)}
  BY DEF AtomicInv, PendingOf
<1>2. Landed(p) = ToInsert(p) /\ ToInsert(p) \subseteq DOMAIN batch[p]
  BY <1>1 DEF Landed, EnqueueInv, DropsKnown, ToInsert
<1>3. DOMAIN results[p] = DOMAIN batch[p]
  BY <1>1 DEF AnswerForms
<1>4. ~Atomic!Contradicts(p)
  BY <1>1 DEF AnswerForms, Shares, Atomic!Contradicts, Atomic!SameKey, Atomic!Jobs
<1>5. \A i, j : Atomic!SameKey(p, i, j) <=> Shares(p, i, j)
  BY DEF Shares, Atomic!SameKey
<1>6. ASSUME NEW i \in ToInsert(p), batch[p][i].key # NoKey
      PROVE  /\ Atomic!Holders(batch[p][i].key) = {}
             /\ \A j \in ToInsert(p) : Atomic!SameKey(p, i, j) => i = j
  <2>1. OwnRow(p, i) \in OwnRows(p)
    BY <1>1, <1>2
  <2>2. /\ OwnRow(p, i) \in rows /\ OwnRow(p, i).live
        /\ OwnRow(p, i).key = batch[p][i].key /\ OwnRow(p, i).tx = p
    BY <2>1 DEF OwnRows, OwnRow
  <2>3. batch[p][i].key \in Key
    BY <1>1, <1>2, <1>6, Batches DEF EnqueueInv
  <2>4. \A r \in rows : r.live /\ r.key = batch[p][i].key => r.tx # Free
    BY <1>1, <2>2, <2>3, EnqueueAssumption DEF EnqueueInv, OneLive, LiveUnder
  <2>5. QED
    BY <1>1, <1>5, <2>4, PublicHolders DEF AnswerForms, OwnAnswer
<1>7. ASSUME NEW i \in DOMAIN batch[p] \ ToInsert(p)
      PROVE  /\ batch[p][i].key # NoKey
             /\ \/ MetRows[p][i] # {}
                \/ \E j \in ToInsert(p) : Atomic!SameKey(p, i, j)
  <2>1. OtherAnswer(p, i)
    BY <1>1 DEF AnswerForms
  <2>2. MetRows[p][i] = Met(p, i)
    BY DEF MetRows
  <2>3. results[p][i].id[1] # p => Met(p, i) # {}
    BY <1>3 DEF Met
  <2>4. QED
    BY <1>5, <2>1, <2>2, <2>3 DEF OtherAnswer
<1>8. QED
  BY <1>4, <1>6, <1>7, CommitPublishes DEF Atomic!TakesEffect, Atomic!Jobs

LEMMA CommitIsTake ==
  ASSUME AtomicInv, NEW p \in Producer, Commit(p)
  PROVE  Atomic!Take(p)
<1>1. at[p] = "commit" /\ Close(p, TRUE, "answered")
  BY DEF Commit
<1>2. /\ CallState[p] = "asking"
      /\ CallState' = [CallState EXCEPT ![p] = "answered"]
      /\ UNCHANGED <<batch, MetRows>>
      /\ PublicAnswers' = [PublicAnswers EXCEPT ![p] = results[p]]
  BY <1>1, EndOfCall DEF Asking
<1>3. /\ AnswerForms(p)
      /\ ToInsert(p) \in SUBSET DOMAIN batch[p]
  BY <1>1 DEF AtomicInv, PendingOf, ToInsert
<1>4. PublicAnswers'[p] = results[p]
  BY <1>2 DEF PublicAnswers
<1>5. PublicAnswers' =
         [PublicAnswers EXCEPT ![p] = [i \in DOMAIN batch[p] |-> PublicAnswers'[p][i]]]
  BY <1>2, <1>3, <1>4 DEF AnswerForms
<1>6. ASSUME NEW i \in DOMAIN batch[p]
      PROVE  PublicAnswers'[p][i] \in Atomic!Answers(p, ToInsert(p), i)
  <2>1. CASE i \in ToInsert(p)
    BY <1>3, <1>4, <2>1 DEF AnswerForms, OwnAnswer, Inserted, Atomic!Answers
  <2>2. CASE i \notin ToInsert(p)
    <3> DEFINE id == results[p][i].id
    <3>1. OtherAnswer(p, i)
      BY <1>3, <2>2 DEF AnswerForms
    <3>2. results[p][i] = [kind |-> "deduplicated", id |-> id]
      BY <3>1 DEF OtherAnswer, Deduplicated
    <3>3. id[1] # p => id \in MetRows[p][i]
      BY <1>3 DEF MetRows, Met, AnswerForms
    <3>4. \A j \in ToInsert(p) : id = <<p, j>> /\ Shares(p, i, j) =>
             id \in {<<p, n>> : n \in {m \in ToInsert(p) : Atomic!SameKey(p, i, m)}}
      BY DEF Shares, Atomic!SameKey
    <3>5. id \in MetRows[p][i] \cup
             {<<p, n>> : n \in {m \in ToInsert(p) : Atomic!SameKey(p, i, m)}}
      BY <3>1, <3>3, <3>4 DEF OtherAnswer
    <3> HIDE DEF id
    <3>6. QED
      BY <1>4, <2>2, <3>2, <3>5 DEF Atomic!Answers
  <2>3. QED
    BY <2>1, <2>2
<1>7. Atomic!TakesEffect(p, ToInsert(p))
  BY <1>1, CommitTakesEffect
<1>8. QED
  BY <1>2, <1>3, <1>5, <1>6, <1>7 DEF Atomic!Take, Atomic!Jobs

LEMMA RefusalIsRefuse ==
  ASSUME AtomicInv, NEW p \in Producer, at[p] \in Asking, NEW H,
         \A r \in H : r \in rows /\ r.live /\ r.tx = Free, Mismatch(p, H),
         Refuse(p, "refused")
  PROVE  Atomic!Refuse(p)
<1>1. Close(p, FALSE, "refused")
  BY DEF Refuse
<1>2. /\ CallState[p] = "asking"
      /\ CallState' = [CallState EXCEPT ![p] = "refused"]
      /\ UNCHANGED <<batch, MetRows, PublicAnswers>>
  BY <1>1, EndOfCall
<1>3. UNCHANGED PublicTable
  BY <1>1, RollbackIsHidden
<1>4. QED
  BY <1>2, <1>3, MismatchIsRefuse DEF Atomic!Refuse

\* Whoever answers DedupeRace can point at an outsider's row.
LEMMA RaceIsRace ==
  ASSUME AtomicInv, NEW p \in Producer, at[p] = "reread", Refuse(p, "race")
  PROVE  Atomic!Race(p)
<1>1. Close(p, FALSE, "race") /\ at[p] \in Asking
  BY DEF Refuse, Asking
<1>2. /\ CallState[p] = "asking"
      /\ CallState' = [CallState EXCEPT ![p] = "race"]
      /\ UNCHANGED <<batch, MetRows, PublicAnswers>>
  BY <1>1, EndOfCall
<1>3. UNCHANGED PublicTable
  BY <1>1, RollbackIsHidden
<1>4. PICK r \in rows : r.id[1] = Outsider /\ r.tx = Free
  BY DEF AtomicInv, OutsideRows, EnqueueInv, RaceNeedsOutsider
<1>5. Public(r) \in PublicTable /\ Public(r).id[1] = Outsider
  BY <1>4, PublicFields
<1>6. QED
  BY <1>2, <1>3, <1>5 DEF Atomic!Race

LEMMA DropIsLose ==
  ASSUME AtomicInv, NEW p \in Producer, Drop(p)
  PROVE  Atomic!Lose(p)
<1>1. /\ at[p] \in Asking
      /\ Close(p, FALSE, "gone") \/ (at[p] = "commit" /\ Close(p, TRUE, "gone"))
  BY DEF Drop
<1>2. /\ CallState[p] = "asking"
      /\ CallState' = [CallState EXCEPT ![p] = "gone"]
      /\ UNCHANGED <<batch, MetRows, PublicAnswers>>
  BY <1>1, EndOfCall
<1>3. CASE Close(p, FALSE, "gone")
  BY <1>2, <1>3, RollbackIsHidden DEF Atomic!Lose
<1>4. CASE at[p] = "commit" /\ Close(p, TRUE, "gone")
  <2>1. Atomic!TakesEffect(p, ToInsert(p))
    BY <1>4, CommitTakesEffect
  <2>2. ToInsert(p) \in SUBSET Atomic!Jobs(p)
    BY DEF ToInsert, Atomic!Jobs
  <2>3. QED
    BY <1>2, <2>1, <2>2 DEF Atomic!Lose
<1>5. QED
  BY <1>1, <1>3, <1>4

LEMMA ReadHoldersIsAtomic ==
  ASSUME AtomicInv, NEW p \in Producer, ReadHolders(p)
  PROVE  Atomic!Meet(p) \/ Atomic!Refuse(p)
<1> DEFINE H == HoldersOf(p, Keys(p))
<1>1. /\ at[p] = "lock" /\ at[p] \in Asking /\ EnqueueInv /\ EnqueueTypes
      /\ \/ Mismatch(p, H) /\ Refuse(p, "refused")
         \/ /\ results' = [results EXCEPT ![p] =
                  [i \in DOMAIN batch[p] |-> Answer(p, i, H)]]
            /\ at' = [at EXCEPT ![p] = "insert"]
            /\ UNCHANGED <<rows, batch>>
  BY DEF ReadHolders, Asking, AtomicInv, EnqueueInv
<1>2. \A r \in H : r \in rows /\ r.live /\ r.tx = Free
  BY <1>1 DEF HoldersOf, Visible, EnqueueInv, RowsHaveOwners
<1> HIDE DEF H
<1>3. CASE Mismatch(p, H) /\ Refuse(p, "refused")
  BY <1>1, <1>2, <1>3, RefusalIsRefuse
<1>4. CASE /\ results' = [results EXCEPT ![p] =
                  [i \in DOMAIN batch[p] |-> Answer(p, i, H)]]
           /\ at' = [at EXCEPT ![p] = "insert"]
           /\ UNCHANGED <<rows, batch>>
  <2>1. at'[p] = "insert"
    BY <1>1, <1>4 DEF EnqueueTypes
  <2>2. Meets(p)
    BY <2>1, ReadHoldersPending
  <2>3. QED
    BY <1>1, <1>4, <2>2, ReadIsMeet DEF Asking
<1>5. QED
  BY <1>1, <1>3, <1>4

LEMMA RereadIsAtomic ==
  ASSUME AtomicInv, NEW p \in Producer, Reread(p)
  PROVE  /\ Atomic!Meet(p) \/ Atomic!Refuse(p) \/ Atomic!Race(p)
         /\ AtomicInv'
<1>1. PICK k \in dropped[p] :
        LET holders == HoldersOf(p, {k}) IN
        \/ /\ holders = {} /\ Refuse(p, "race")
        \/ /\ holders # {} /\ Mismatch(p, holders) /\ Refuse(p, "refused")
        \/ /\ holders # {} /\ ~Mismatch(p, holders)
           /\ results' = [results EXCEPT ![p] =
                            Replace(p, k, (CHOOSE r \in holders : TRUE).id)]
           /\ dropped' = [dropped EXCEPT ![p] = @ \ {k}]
           /\ at' = [at EXCEPT ![p] = IF dropped[p] = {k} THEN "commit" ELSE @]
           /\ UNCHANGED <<rows, lock, batch, outside>>
  BY DEF Reread
<1> DEFINE H == HoldersOf(p, {k})
           h == CHOOSE r \in H : TRUE
<1>2. /\ at[p] = "reread" /\ at[p] \in Asking /\ UNCHANGED faults
      /\ EnqueueInv /\ EnqueueTypes /\ EnqueueInv'
  <2>1. EnqueueNext
    BY DEF EnqueueNext, EnqueueStep
  <2>2. QED
    BY <2>1, EnqueueStepOK DEF Reread, Asking, AtomicInv, EnqueueInv
<1>3. \A r \in H : r \in Visible(p) /\ r.live /\ r.key = k
  BY DEF HoldersOf
<1>4. \A r \in H : r \in rows /\ r.live /\ r.tx = Free
  <2> SUFFICES ASSUME NEW r \in H, r.tx = p PROVE FALSE
    BY <1>3 DEF Visible
  <2>1. r \in OwnRows(p) /\ OwnRows(p) = {OwnRow(p, i) : i \in Landed(p)}
    BY <1>2, <1>3 DEF Visible, OwnRows, AtomicInv, PendingOf
  <2>2. PICK i \in Landed(p) : r = OwnRow(p, i)
    BY <2>1
  <2>3. r.key = k
    BY <1>3
  <2>4. r.key = batch[p][i].key /\ batch[p][i].key \notin dropped[p]
    BY <2>2 DEF OwnRow, Landed
  <2>5. QED
    BY <2>3, <2>4
<1>5. ASSUME NEW why \in {"refused", "race"}, Refuse(p, why) PROVE AtomicInv'
  <2>1. Close(p, FALSE, why)
    BY <1>5 DEF Refuse
  <2>2. QED
    BY <1>2, <2>1, ClosePending
<1>6. CASE H = {} /\ Refuse(p, "race")
  BY <1>2, <1>5, <1>6, RaceIsRace
<1>7. CASE Mismatch(p, H) /\ Refuse(p, "refused")
  <2> HIDE DEF H
  <2>1. Atomic!Refuse(p)
    BY <1>2, <1>4, <1>7, RefusalIsRefuse
  <2>2. QED
    BY <1>5, <1>7, <2>1
<1>8. CASE /\ H # {} /\ ~Mismatch(p, H)
           /\ results' = [results EXCEPT ![p] = Replace(p, k, h.id)]
           /\ dropped' = [dropped EXCEPT ![p] = @ \ {k}]
           /\ at' = [at EXCEPT ![p] = IF dropped[p] = {k} THEN "commit" ELSE @]
           /\ UNCHANGED <<rows, lock, batch, outside>>
  <2>1. h \in H
    BY <1>8
  <2> HIDE DEF h
  <2>2. h \in Visible(p) /\ h.live /\ h.key = k
    BY <1>3, <2>1
  <2>3. \A i \in DOMAIN batch[p] :
             batch[p][i].key = k => batch[p][i].name = h.name
    BY <1>8, <2>1, <2>2 DEF Mismatch
  <2> HIDE DEF H
  <2>4. AtomicInv' /\ Meets(p)
    BY <1>2, <1>8, <2>2, <2>3, RereadPending
  <2>5. PICK s \in Asking : at' = [at EXCEPT ![p] = s]
    <3> DEFINE s == IF dropped[p] = {k} THEN "commit" ELSE "reread"
    <3>1. s \in Asking /\ at' = [at EXCEPT ![p] = s]
      BY <1>2, <1>8 DEF Asking
    <3>2. QED
      BY <3>1
  <2>6. Atomic!Meet(p)
    BY <1>2, <1>8, <2>4, <2>5, ReadIsMeet
  <2>7. QED
    BY <2>4, <2>6
<1>9. QED
  BY <1>1, <1>6, <1>7, <1>8

LEMMA InsertIsHidden ==
  ASSUME AtomicInv, NEW p \in Producer, InsertRows(p)
  PROVE  UNCHANGED <<PublicTable, CallState, batch, MetRows, PublicAnswers>>
<1>1. PICK N : rows' = rows \cup N /\ \A r \in N : r.tx = p
  <2> DEFINE new == {i \in DOMAIN batch[p] : results[p][i].kind = "inserted"}
             blocked == {i \in new : batch[p][i].key # NoKey
                                       /\ LiveUnder(batch[p][i].key) # {}}
             N == {OwnRow(p, i) : i \in new \ blocked}
  <2>1. rows' = rows \cup N
    BY DEF InsertRows, OwnRow
  <2>2. \A i : OwnRow(p, i).tx = p
    BY DEF OwnRow
  <2>3. \A r \in N : r.tx = p
    BY <2>2
  <2> HIDE DEF N
  <2>4. QED
    BY <2>1, <2>3
<1>2. PICK s \in Asking : at' = [at EXCEPT ![p] = s]
  BY DEF InsertRows, Asking
<1>3. /\ at[p] \in Asking /\ EnqueueTypes /\ UNCHANGED <<batch, results>>
  BY DEF InsertRows, Asking, AtomicInv, EnqueueInv
<1>4. {r \in rows' : r.tx = Free} = {r \in rows : r.tx = Free}
  BY <1>1, EnqueueAssumption
<1>5. UNCHANGED PublicTable
  BY <1>4 DEF PublicTable, Public
<1>6. UNCHANGED CallState
  BY <1>2, <1>3, CallStays
<1>7. UNCHANGED PublicAnswers
  BY <1>2, <1>3, AnswersKept DEF EnqueueTypes, Asking
<1>8. QED
  BY <1>3, <1>5, <1>6, <1>7, MetStays

LEMMA LockIsHidden ==
  ASSUME AtomicInv, NEW p \in Producer, TakeLock(p)
  PROVE  UNCHANGED <<PublicTable, CallState, batch, MetRows, PublicAnswers>>
BY MetStays DEF TakeLock, PublicTable, CallState, PublicAnswers

LEMMA OutsideIsWrite ==
  ASSUME AtomicInv, NEW k \in Key, WriteOutside(k)
  PROVE  Atomic!Write(k)
<1>1. PICK name \in Name :
         rows' = rows \cup {[id |-> <<Outsider, outside>>, key |-> k,
                             name |-> name, live |-> TRUE, tx |-> Free]}
  BY DEF WriteOutside
<1> DEFINE n == [id |-> <<Outsider, outside>>, key |-> k,
                 name |-> name, live |-> TRUE, tx |-> Free]
<1>2. LiveUnder(k) = {} /\ UNCHANGED <<at, batch, results>> /\ outside \in Nat
  BY EnqueueAssumption
     DEF WriteOutside, AtomicInv, EnqueueInv, EnqueueTypes
<1>3. /\ Public(n) = Atomic!Row(<<Outsider, outside>>, k, name)
      /\ Public(n).id = <<Outsider, outside>> /\ Public(n).name = name
      /\ n.tx = Free
  BY DEF Public, Atomic!Row
<1>4. rows' = rows \cup {n}
  BY <1>1
<1> HIDE DEF n
<1>5. PublicTable' = PublicTable \cup {Public(n)}
  BY <1>3, <1>4 DEF PublicTable, Public
<1>6. \A t \in PublicTable : t.id # Public(n).id
  <2> SUFFICES ASSUME NEW t \in PublicTable, t.id = <<Outsider, outside>>
               PROVE  FALSE
    BY <1>3
  <2>1. PICK r \in rows : t = Public(r)
    BY PublicFields
  <2>2. r.id = <<Outsider, outside>>
    BY <2>1, PublicFields
  <2>3. r.id[1] = Outsider /\ r.id[2] = outside
    BY <2>2
  <2>4. outside < outside
    BY <2>3 DEF AtomicInv, OutsideRows
  <2>5. QED
    BY <1>2, <2>4
<1>7. Public(n) \in PublicTable' \ PublicTable
  BY <1>5, <1>6
<1>8. Atomic!Holders(k) = {}
  BY <1>2, PublicHolders DEF LiveUnder
<1>9. UNCHANGED <<CallState, batch, MetRows, PublicAnswers>>
  BY <1>2, MetStays DEF CallState, PublicAnswers
<1>10. /\ Public(n) = Atomic!Row(Public(n).id, k, Public(n).name)
       /\ Public(n).name \in Name /\ Public(n).id[1] = Outsider
  BY <1>3
<1>11. QED
  BY <1>5, <1>6, <1>7, <1>8, <1>9, <1>10 DEF Atomic!Write

\* Two committed rows are not the same to those who see them.
LEMMA JobEndsIsEnd ==
  ASSUME AtomicInv, NEW r \in rows, JobEnds(r)
  PROVE  \E t \in PublicTable : Atomic!End(t)
<1> DEFINE d == [r EXCEPT !.live = FALSE]
           e == [Public(r) EXCEPT !.live = FALSE]
<1>1. /\ r.tx = Free /\ r.live /\ rows' = (rows \ {r}) \cup {d}
      /\ UNCHANGED <<at, batch, results>>
  BY DEF JobEnds
<1>2. rows \subseteq RowSet
  BY DEF AtomicInv, EnqueueInv, EnqueueTypes
<1>3. d.tx = Free /\ Public(d) = e
  <2> DEFINE S == [id : {r.id}, key : {r.key}, name : {r.name}, live : BOOLEAN]
  <2>1. /\ d.id = r.id /\ d.key = r.key /\ d.name = r.name /\ d.tx = r.tx
        /\ d.live = FALSE
    BY <1>2 DEF RowSet
  <2>2. Public(r) \in S
    BY <1>2 DEF RowSet, Public
  <2>3. e \in S /\ e.live = FALSE
    BY <2>2
  <2>4. Public(d) \in S /\ Public(d).live = FALSE
    <3> HIDE DEF d
    <3>1. QED
      BY <2>1 DEF Public
  <2>5. \A u, v \in S : u.live = FALSE /\ v.live = FALSE => u = v
    OBVIOUS
  <2> HIDE DEF d, e, S
  <2>6. QED
    BY <1>1, <2>1, <2>3, <2>4, <2>5
<1>4. ASSUME NEW s \in rows, s.tx = Free, Public(s) = Public(r) PROVE s = r
  <2>1. s \in RowSet /\ r \in RowSet /\ s.tx = r.tx
    BY <1>1, <1>2, <1>4
  <2>2. s.id = r.id /\ s.key = r.key /\ s.name = r.name /\ s.live = r.live
    BY <1>4, PublicFields
  <2>3. QED
    BY <2>1, <2>2 DEF RowSet
<1> HIDE DEF d, e
<1>5. PublicTable' = (PublicTable \ {Public(r)}) \cup {e}
  <2>1. ASSUME NEW t \in PublicTable'
        PROVE  t \in (PublicTable \ {Public(r)}) \cup {e}
    <3>1. PICK s \in rows' : s.tx = Free /\ t = Public(s)
      BY DEF PublicTable, Public
    <3>2. CASE s = d
      BY <1>3, <3>1, <3>2
    <3>3. CASE s \in rows \ {r}
      BY <1>4, <3>1, <3>3, PublicFields
    <3>4. QED
      BY <1>1, <3>1, <3>2, <3>3
  <2>2. ASSUME NEW s \in rows', s.tx = Free PROVE Public(s) \in PublicTable'
    BY <2>2 DEF PublicTable, Public
  <2>3. e \in PublicTable'
    BY <1>1, <1>3, <2>2
  <2>4. ASSUME NEW t \in PublicTable, t # Public(r) PROVE t \in PublicTable'
    <3>1. PICK s \in rows : s.tx = Free /\ t = Public(s)
      BY PublicFields
    <3>2. s \in rows'
      BY <1>1, <2>4, <3>1
    <3>3. QED
      BY <2>2, <3>1, <3>2
  <2>5. QED
    BY <2>1, <2>3, <2>4
<1>6. UNCHANGED <<CallState, batch, MetRows, PublicAnswers>>
  BY <1>1, MetStays DEF CallState, PublicAnswers
<1>7. Public(r) \in PublicTable /\ Public(r).live
  BY <1>1, PublicFields
<1>8. Atomic!End(Public(r))
  BY <1>5, <1>6, <1>7 DEF Atomic!End, e
<1>9. QED
  BY <1>7, <1>8

LEMMA AtomicStepOK ==
  ASSUME AtomicInv, EnqueueNext
  PROVE  /\ AtomicInv'
         /\ \/ Atomic!Next
            \/ UNCHANGED <<PublicTable, CallState, batch, MetRows, PublicAnswers>>
<1>1. EnqueueInv' /\ EnqueueTypes
  BY EnqueueStepOK DEF AtomicInv, EnqueueInv
<1>2. ASSUME NEW p \in Producer, Begin(p)
      PROVE  AtomicInv' /\ Atomic!Next
  BY <1>2, BeginPending, BeginIsAsk DEF Atomic!Next
<1>3. ASSUME NEW p \in Producer, ReadHolders(p)
      PROVE  AtomicInv' /\ Atomic!Next
  <2>1. Atomic!Next
    BY <1>3, ReadHoldersIsAtomic DEF Atomic!Next
  <2>2. CASE Close(p, FALSE, "refused")
    BY <1>1, <2>1, <2>2, ClosePending
  <2>3. CASE ~Close(p, FALSE, "refused")
    <3>1. at' = [at EXCEPT ![p] = "insert"]
      BY <1>3, <2>3 DEF ReadHolders, Refuse
    <3>2. at'[p] = "insert"
      BY <1>1, <3>1 DEF EnqueueTypes
    <3>3. QED
      BY <1>3, <2>1, <3>2, ReadHoldersPending
  <2>4. QED
    BY <2>2, <2>3
<1>4. ASSUME NEW p \in Producer, Reread(p)
      PROVE  AtomicInv' /\ Atomic!Next
  BY <1>4, RereadIsAtomic DEF Atomic!Next
<1>5. ASSUME NEW p \in Producer, Commit(p)
      PROVE  AtomicInv' /\ Atomic!Next
  BY <1>1, <1>5, ClosePending, CommitIsTake DEF Commit, Atomic!Next
<1>6. ASSUME NEW p \in Producer, Drop(p)
      PROVE  AtomicInv' /\ Atomic!Next
  BY <1>1, <1>6, ClosePending, DropIsLose DEF Drop, Atomic!Next
<1>7. ASSUME NEW k \in Key, WriteOutside(k)
      PROVE  AtomicInv' /\ Atomic!Next
  BY <1>7, WriteOutsidePending, OutsideIsWrite DEF Atomic!Next
<1>8. ASSUME NEW r \in rows, JobEnds(r)
      PROVE  AtomicInv' /\ Atomic!Next
  BY <1>8, JobEndsPending, JobEndsIsEnd DEF Atomic!Next
<1>9. QED
  BY <1>2, <1>3, <1>4, <1>5, <1>6, <1>7, <1>8, TakeLockPending,
     InsertRowsPending, LockIsHidden, InsertIsHidden
     DEF EnqueueNext, EnqueueStep

LEMMA AtomicStarts == EnqueueInit => Atomic!Init
<1> SUFFICES ASSUME EnqueueInit PROVE Atomic!Init
  OBVIOUS
<1>1. PublicTable = {}
  BY DEF EnqueueInit, PublicTable
<1>2. CallState = [p \in Producer |-> "new"]
  BY DEF EnqueueInit, CallState, Asking
<1>3. MetRows = [p \in Producer |-> <<>>]
  <2>1. \A p \in Producer : [i \in DOMAIN batch[p] |-> Met(p, i)] = <<>>
    BY DEF EnqueueInit
  <2>2. QED
    BY <2>1 DEF MetRows
<1>4. PublicAnswers = [p \in Producer |-> <<>>]
  BY DEF EnqueueInit, PublicAnswers
<1>5. QED
  BY <1>1, <1>2, <1>3, <1>4 DEF EnqueueInit, Atomic!Init

(***************************************************************************)
(* Queue::enqueue and enqueue_many, as others see them, for any producers, *)
(* keys, batches and lock hashes and any outsiders: a batch takes effect   *)
(* in one step, with every new row of it or none.  No key gets a second    *)
(* live row, and every handle is that of the job's own row, of a row of    *)
(* its key and type that was live during the call, or of the row of a job  *)
(* of the batch with the same key.                                         *)
(***************************************************************************)
THEOREM EnqueueIsAtomic == EnqueueSpec => ImplementsAtomicEnqueue
<1>1. AtomicInv /\ [EnqueueNext]_enqueueVars =>
        /\ AtomicInv'
        /\ [Atomic!Next]_<<PublicTable, CallState, batch, MetRows,
                           PublicAnswers>>
  <2> SUFFICES ASSUME AtomicInv, [EnqueueNext]_enqueueVars
               PROVE  /\ AtomicInv'
                      /\ [Atomic!Next]_<<PublicTable, CallState, batch, MetRows,
                                         PublicAnswers>>
    OBVIOUS
  <2>1. CASE EnqueueNext
    BY <2>1, AtomicStepOK
  <2>2. CASE UNCHANGED enqueueVars
    <3>1. UNCHANGED <<rows, lock, at, batch, results, dropped, outside, faults>>
      BY <2>2 DEF enqueueVars
    <3>2. EnqueueInv'
      BY <3>1 DEF AtomicInv, EnqueueInv, EnqueueTypes, RowsHaveOwners, OneLive,
         LocksKept, DropsKnown, AnswersFollowed, AnswersOf, RaceNeedsOutsider,
         Prepared, Found, ToInsert, LiveUnder, Keys, Locks, Held
    <3>3. \A p \in Producer : PendingOf(p)'
      BY <3>1, PendingStays DEF AtomicInv, OwnRows
    <3>4. OutsideRows'
      BY <3>1 DEF AtomicInv, OutsideRows
    <3>5. UNCHANGED <<PublicTable, CallState, batch, MetRows, PublicAnswers>>
      BY <3>1, MetStays DEF PublicTable, CallState, PublicAnswers
    <3>6. QED
      BY <3>2, <3>3, <3>4, <3>5 DEF AtomicInv
  <2>3. QED
    BY <2>1, <2>2
<1>2. QED
  BY AtomicInitOK, AtomicStarts, <1>1, PTL
     DEF EnqueueSpec, ImplementsAtomicEnqueue, Atomic!Spec, Atomic!atomicVars

-----------------------------------------------------------------------------
(***************************************************************************)
(* Waiting for a result.  What a waiter was told last is where it can find *)
(* it again: in its event while it reads the row for it, in the pending    *)
(* completion when that read failed.  Its mark is on the row for as long   *)
(* as it is assured of the listener, and everything the listener says was  *)
(* said by a finish or by a foreign session.                               *)
(***************************************************************************)
Said == reached \cup forged

WaitTypes ==
    /\ status \in Live \cup Terminal \cup {"gone"} /\ awaited \in BOOLEAN
    /\ reached \subseteq Terminal /\ forged \subseteq Terminal
    /\ pool \in {"open", "closed"} /\ connected \in BOOLEAN
    /\ transit \in Seq(Terminal) /\ (~connected => transit = <<>>)
    /\ pc \in [Waiter -> {"mark", "subscribe", "poll", "sleep", "refetch",
                          "returned"}]
    /\ subscribed \in [Waiter -> BOOLEAN] /\ assured \in [Waiter -> BOOLEAN]
    /\ inbox \in [Waiter -> Terminal \cup {Unset}]
    /\ pending \in [Waiter -> Terminal \cup {Unset}]
    /\ event \in [Waiter -> Terminal \cup {Unset}]
    /\ told \in [Waiter -> Terminal \cup {Unset}]
    /\ seenAlive \in [Waiter -> BOOLEAN] /\ missing \in [Waiter -> BOOLEAN]
    /\ answer \in [Waiter -> {"none", "value", "failed", "aborted", "expired",
                              "not_found", "timeout", "closed"}]
    /\ glitches \in 0..MaxGlitches /\ changes \in 0..MaxChanges

TransitIsSaid == \A i \in DOMAIN transit : transit[i] \in Said

\* Where the waiter stands, and what it has of the listener.
StandOf(w) ==
    /\ subscribed[w] <=> pc[w] \in {"poll", "sleep", "refetch"}
    /\ ~subscribed[w] => inbox[w] = Unset
    /\ event[w] # Unset <=> pc[w] = "refetch"
    /\ answer[w] = "none" <=> pc[w] # "returned"
    /\ missing[w] => status = "gone"
    /\ {inbox[w], pending[w], event[w]} \subseteq Said \cup {Unset}

MemoryOf(w) ==
    /\ pc[w] \in {"mark", "subscribe"} => told[w] = Unset /\ pending[w] = Unset
    /\ pc[w] \in {"poll", "sleep"} => told[w] \in {Unset, pending[w]}
    /\ pc[w] = "refetch" => told[w] = event[w]
    /\ answer[w] \in {"expired", "not_found"} => told[w] \in {Unset, "complete"}

MarkOf(w) ==
    /\ assured[w] => connected /\ (awaited \/ status = "gone")
    /\ pc[w] = "sleep" /\ assured[w] /\ status \in Terminal =>
           inbox[w] # Unset \/ transit # <<>>

WaiterOK(w) == StandOf(w) /\ MemoryOf(w) /\ MarkOf(w)

WaitInv == WaitTypes /\ TransitIsSaid /\ \A w \in Waiter : WaiterOK(w)

LEMMA WaitInitOK == WaitInit => WaitInv
<1> SUFFICES ASSUME WaitInit PROVE WaitInv
  OBVIOUS
<1>1. /\ awaited = (Marked # {}) /\ awaited \in BOOLEAN
      /\ assured = [w \in Waiter |-> connected /\ w \in Marked]
  BY Zenon DEF WaitInit
<1>2. assured \in [Waiter -> BOOLEAN]
  BY <1>1, Zenon
<1>3. connected \in BOOLEAN /\ transit = <<>>
  BY DEF WaitInit
<1>4. WaitTypes
  BY <1>1, <1>2, <1>3, WaitAssumption DEF WaitInit, WaitTypes, Live, Terminal
<1>5. TransitIsSaid
  BY <1>3 DEF TransitIsSaid
<1>6. ASSUME NEW w \in Waiter PROVE WaiterOK(w)
  <2>1. StandOf(w)
    BY DEF WaitInit, StandOf
  <2>2. MemoryOf(w)
    BY DEF WaitInit, MemoryOf
  <2>3. pc[w] # "sleep"
    BY DEF WaitInit
  <2>4. assured[w] => connected /\ awaited
    BY <1>1
  <2>5. QED
    BY <2>1, <2>2, <2>3, <2>4 DEF WaiterOK, MarkOf
<1>7. QED
  BY <1>4, <1>5, <1>6 DEF WaitInv

\* A step of w leaves the other waiters where they are.
OnlyMoves(w) ==
    \A v \in Waiter \ {w} :
        /\ pc'[v] = pc[v] /\ subscribed'[v] = subscribed[v]
        /\ inbox'[v] = inbox[v] /\ pending'[v] = pending[v]
        /\ event'[v] = event[v] /\ missing'[v] = missing[v]
        /\ answer'[v] = answer[v] /\ assured'[v] = assured[v]
        /\ told'[v] = told[v]

LEMMA OthersWait ==
  ASSUME WaitInv, NEW w \in Waiter, OnlyMoves(w),
         UNCHANGED <<status, reached, forged, connected, transit>>,
         awaited => awaited', WaitTypes', WaiterOK(w)'
  PROVE  WaitInv'
<1>1. ASSUME NEW v \in Waiter \ {w} PROVE WaiterOK(v)'
  <2>1. WaiterOK(v)
    BY DEF WaitInv
  <2>2. StandOf(v)'
    BY <2>1 DEF OnlyMoves, WaiterOK, StandOf, Said
  <2>3. MemoryOf(v)'
    BY <2>1 DEF OnlyMoves, WaiterOK, MemoryOf
  <2>4. MarkOf(v)'
    BY <2>1 DEF OnlyMoves, WaiterOK, MarkOf
  <2>5. QED
    BY <2>2, <2>3, <2>4 DEF WaiterOK
<1>2. TransitIsSaid'
  BY DEF WaitInv, TransitIsSaid, Said
<1>3. QED
  BY <1>1, <1>2 DEF WaitInv

Answered == {"value", "failed", "aborted", "expired", "not_found", "timeout",
             "closed"}

\* A wait that returns, with an answer that agrees with what it was told.
LEMMA ReturnOK ==
  ASSUME WaitInv, NEW w \in Waiter, NEW a \in Answered, Return(w, a),
         UNCHANGED <<jobRow, forged, pool, connected, transit, changes, assured>>,
         glitches' \in 0..MaxGlitches,
         a \in {"expired", "not_found"} => told[w] \in {Unset, "complete"}
  PROVE  WaitInv'
<1>1. WaitTypes
  BY DEF WaitInv
<1>2. /\ pc' = [pc EXCEPT ![w] = "returned"]
      /\ answer' = [answer EXCEPT ![w] = a]
      /\ subscribed' = [subscribed EXCEPT ![w] = FALSE]
      /\ inbox' = [inbox EXCEPT ![w] = Unset]
      /\ pending' = [pending EXCEPT ![w] = Unset]
      /\ event' = [event EXCEPT ![w] = Unset]
      /\ missing' = [missing EXCEPT ![w] = FALSE]
      /\ UNCHANGED <<seenAlive, told, status, awaited, reached, forged, pool,
                     connected, transit, changes, assured>>
  BY DEF Return, Unsubscribe, jobRow
<1>3. WaitTypes'
  BY <1>1, <1>2 DEF WaitTypes, Answered
<1>4. /\ pc'[w] = "returned" /\ answer'[w] = a /\ subscribed'[w] = FALSE
      /\ inbox'[w] = Unset /\ pending'[w] = Unset /\ event'[w] = Unset
      /\ missing'[w] = FALSE
      /\ OnlyMoves(w)
  BY <1>1, <1>2 DEF WaitTypes, OnlyMoves
<1>5. MarkOf(w)
  BY DEF WaitInv, WaiterOK
<1>6. WaiterOK(w)'
  BY <1>2, <1>4, <1>5 DEF WaiterOK, StandOf, MemoryOf, MarkOf, Answered
<1>7. QED
  BY <1>2, <1>3, <1>4, <1>6, OthersWait

LEMMA MarkAwaitedIs ==
  ASSUME WaitTypes, MarkAwaited
  PROVE  /\ awaited' \in BOOLEAN /\ (awaited => awaited')
         /\ awaited' \/ status = "gone"
BY Zenon DEF MarkAwaited, WaitTypes

LEMMA MarkOK ==
  ASSUME WaitInv, NEW w \in Waiter, Mark(w)
  PROVE  WaitInv'
<1>1. /\ WaitTypes /\ pc[w] = "mark" /\ WaiterOK(w)
      /\ UNCHANGED <<status, reached, forged, pool, connected, transit, changes>>
  BY DEF WaitInv, Mark
<1>2. CASE Return(w, "closed") /\ UNCHANGED <<awaited, assured, glitches>>
  BY <1>1, <1>2, ReturnOK DEF jobRow, Answered, WaitTypes
<1>3. CASE /\ awaited' \in BOOLEAN /\ (awaited => awaited')
           /\ pc' = [pc EXCEPT ![w] = "subscribe"]
           /\ \/ assured' = assured
              \/ /\ assured' = [assured EXCEPT ![w] = connected]
                 /\ awaited' \/ status = "gone"
           /\ glitches' \in 0..MaxGlitches
           /\ UNCHANGED <<subscribed, inbox, pending, event, seenAlive, missing,
                          answer, told>>
  <2>0. assured' \in [Waiter -> BOOLEAN]
    BY <1>1, <1>3 DEF WaitTypes
  <2>1. WaitTypes'
    BY <1>1, <1>3, <2>0 DEF WaitTypes
  <2>2. /\ pc'[w] = "subscribe" /\ OnlyMoves(w)
        /\ assured'[w] => connected /\ (awaited' \/ status = "gone")
    BY <1>1, <1>3 DEF WaitTypes, OnlyMoves, WaiterOK, MarkOf
  <2>3. StandOf(w)' /\ MemoryOf(w)' /\ MarkOf(w)'
    BY <1>1, <1>3, <2>2 DEF WaiterOK, StandOf, MemoryOf, MarkOf, Said
  <2>4. QED
    BY <1>1, <1>3, <2>1, <2>2, <2>3, OthersWait DEF WaiterOK
<1>4. glitches' = glitches \/ (glitches < MaxGlitches /\ glitches' = glitches + 1)
        => glitches' \in 0..MaxGlitches
  BY <1>1, WaitAssumption DEF WaitTypes
<1>5. awaited' = awaited => awaited' \in BOOLEAN /\ (awaited => awaited')
  <2>1. awaited \in BOOLEAN
    BY <1>1 DEF WaitTypes
  <2>2. QED
    BY <2>1
<1>6. CASE /\ MarkAwaited
           /\ pc' = [pc EXCEPT ![w] = "subscribe"]
           /\ assured' = [assured EXCEPT ![w] = connected]
           /\ UNCHANGED <<subscribed, inbox, pending, event, seenAlive, missing,
                          answer, told, glitches>>
  BY <1>1, <1>3, <1>4, <1>6, MarkAwaitedIs
<1>7. CASE /\ Fault /\ (MarkAwaited \/ UNCHANGED awaited)
           /\ pc' = [pc EXCEPT ![w] = "subscribe"]
           /\ UNCHANGED <<subscribed, inbox, pending, event, seenAlive, missing,
                          answer, assured, told>>
  BY <1>1, <1>3, <1>4, <1>5, <1>7, MarkAwaitedIs DEF Fault
<1>8. QED
  BY <1>2, <1>6, <1>7 DEF Mark

LEMMA SubscribeOK ==
  ASSUME WaitInv, NEW w \in Waiter, Subscribe(w)
  PROVE  WaitInv'
<1>1. /\ WaitTypes /\ pc[w] = "subscribe" /\ WaiterOK(w)
      /\ pc' = [pc EXCEPT ![w] = "poll"]
      /\ subscribed' = [subscribed EXCEPT ![w] = TRUE]
      /\ UNCHANGED <<status, awaited, reached, pool, connected, transit, inbox,
                     pending, event, seenAlive, missing, answer, assured, told,
                     forged, glitches, changes>>
  BY DEF WaitInv, Subscribe, jobRow, history
<1>2. WaitTypes'
  BY <1>1 DEF WaitTypes
<1>3. pc'[w] = "poll" /\ subscribed'[w] = TRUE /\ OnlyMoves(w)
  BY <1>1 DEF WaitTypes, OnlyMoves
<1>4. StandOf(w)' /\ MemoryOf(w)' /\ MarkOf(w)'
  BY <1>1, <1>3 DEF WaiterOK, StandOf, MemoryOf, MarkOf, Said
<1>5. QED
  BY <1>1, <1>2, <1>3, <1>4, OthersWait DEF WaiterOK

\* The answers that are read off a row or off an announcement.
LEMMA Resolutions ==
  ASSUME NEW s \in Terminal
  PROVE  /\ Resolve(s) \in {"value", "failed", "aborted"}
         /\ Resolve(s) = "value" <=> s = "complete"
         /\ Resolve(s) # "value" => Resolve(s) = s
         /\ ResolveDeleted(s) \in {"expired", "failed", "aborted"}
         /\ ResolveDeleted(s) = "expired" <=> s = "complete"
         /\ ResolveDeleted(s) # "expired" => ResolveDeleted(s) = s
BY DEF Resolve, ResolveDeleted, Terminal

LEMMA PollOK ==
  ASSUME WaitInv, NEW w \in Waiter, Poll(w)
  PROVE  WaitInv'
<1>1. /\ WaitTypes /\ pc[w] = "poll" /\ WaiterOK(w)
      /\ UNCHANGED <<jobRow, forged, pool, connected, transit, assured, glitches,
                     changes>>
      /\ glitches' \in 0..MaxGlitches
  BY DEF WaitInv, Poll, WaitTypes
<1>2. CASE Return(w, "closed")
  BY <1>1, <1>2, ReturnOK DEF Answered
<1>3. CASE status \in Terminal /\ Return(w, Resolve(status))
  <2>1. Resolve(status) \in {"value", "failed", "aborted"}
    BY <1>3, Resolutions
  <2>2. QED
    BY <1>1, <1>3, <2>1, ReturnOK DEF Answered
<1>4. CASE /\ status = "gone" /\ pending[w] # Unset
           /\ Return(w, ResolveDeleted(pending[w]))
  <2>1. pending[w] \in Terminal /\ told[w] \in {Unset, pending[w]}
    BY <1>1, <1>4 DEF WaitTypes, WaiterOK, MemoryOf
  <2>2. /\ ResolveDeleted(pending[w]) \in {"expired", "failed", "aborted"}
        /\ ResolveDeleted(pending[w]) = "expired" <=> pending[w] = "complete"
    BY <2>1, Resolutions
  <2>3. QED
    BY <1>1, <1>4, <2>1, <2>2, ReturnOK DEF Answered
<1>5. CASE /\ status \in Live \/ (status = "gone" /\ pending[w] = Unset)
           /\ missing' = [missing EXCEPT ![w] = status = "gone"]
           /\ seenAlive' = [seenAlive EXCEPT ![w] = @ \/ status \in Live]
           /\ pending' = [pending EXCEPT ![w] = Unset]
           /\ told' = [told EXCEPT ![w] = IF status \in Live THEN Unset ELSE @]
           /\ pc' = [pc EXCEPT ![w] = "sleep"]
           /\ UNCHANGED <<subscribed, inbox, event, answer>>
  <2>1. seenAlive' \in [Waiter -> BOOLEAN] /\ missing' \in [Waiter -> BOOLEAN]
    <3>1. /\ seenAlive' = [seenAlive EXCEPT ![w] = @ \/ status \in Live]
          /\ missing' = [missing EXCEPT ![w] = status = "gone"]
      BY <1>5
    <3>2. seenAlive \in [Waiter -> BOOLEAN] /\ missing \in [Waiter -> BOOLEAN]
      BY <1>1 DEF WaitTypes
    <3>3. QED
      BY <3>1, <3>2, Zenon
  <2>2. WaitTypes'
    BY <1>1, <1>5, <2>1 DEF WaitTypes, jobRow
  <2>3. /\ pc'[w] = "sleep" /\ pending'[w] = Unset
        /\ told'[w] = IF status \in Live THEN Unset ELSE told[w]
        /\ missing'[w] => status = "gone"
        /\ OnlyMoves(w)
    BY <1>1, <1>5 DEF WaitTypes, OnlyMoves
  <2>4. told'[w] = Unset /\ status \notin Terminal
    BY <1>1, <1>5, <2>3 DEF WaiterOK, MemoryOf, Live, Terminal
  <2>5. StandOf(w)' /\ MemoryOf(w)' /\ MarkOf(w)'
    BY <1>1, <1>5, <2>3, <2>4 DEF WaiterOK, StandOf, MemoryOf, MarkOf, Said, jobRow
  <2>6. QED
    BY <1>1, <1>5, <2>2, <2>3, <2>5, OthersWait DEF WaiterOK, jobRow
<1>6. QED
  BY <1>2, <1>3, <1>4, <1>5 DEF Poll

LEMMA TimerOK ==
  ASSUME WaitInv, NEW w \in Waiter, Timer(w)
  PROVE  WaitInv'
<1>1. /\ WaitTypes /\ pc[w] = "sleep" /\ WaiterOK(w)
      /\ UNCHANGED <<jobRow, forged, pool, connected, transit, assured, glitches,
                     changes>>
      /\ glitches' \in 0..MaxGlitches
  BY DEF WaitInv, Timer, WaitTypes
<1>2. CASE GiveUpMissing(w)
  <2>1. told[w] \in {Unset, pending[w]} /\ pending[w] \in Terminal \cup {Unset}
    BY <1>1 DEF WaiterOK, MemoryOf, WaitTypes
  <2>2. CASE pending[w] # Unset
    <3>1. /\ ResolveDeleted(pending[w]) \in {"expired", "failed", "aborted"}
          /\ ResolveDeleted(pending[w]) = "expired" <=> pending[w] = "complete"
      BY <2>1, <2>2, Resolutions
    <3>2. Return(w, ResolveDeleted(pending[w]))
      BY <1>2, <2>2 DEF GiveUpMissing
    <3>3. QED
      BY <1>1, <2>1, <3>1, <3>2, ReturnOK DEF Answered
  <2>3. CASE pending[w] = Unset
    <3>1. Return(w, Vanished(w)) /\ Vanished(w) \in {"expired", "not_found"}
      BY <1>2, <2>3 DEF GiveUpMissing, Vanished
    <3>2. QED
      BY <1>1, <2>1, <2>3, <3>1, ReturnOK DEF Answered
  <2>4. QED
    BY <2>2, <2>3
<1>3. CASE /\ pc' = [pc EXCEPT ![w] = "poll"]
           /\ UNCHANGED <<subscribed, inbox, pending, event, seenAlive, missing,
                          answer, told>>
  <2>1. WaitTypes'
    BY <1>1, <1>3 DEF WaitTypes, jobRow
  <2>2. pc'[w] = "poll" /\ OnlyMoves(w)
    BY <1>1, <1>3 DEF WaitTypes, OnlyMoves
  <2>3. StandOf(w)' /\ MemoryOf(w)' /\ MarkOf(w)'
    BY <1>1, <1>3, <2>2 DEF WaiterOK, StandOf, MemoryOf, MarkOf, Said, jobRow
  <2>4. QED
    BY <1>1, <1>3, <2>1, <2>2, <2>3, OthersWait DEF WaiterOK, jobRow
<1>4. QED
  BY <1>2, <1>3 DEF Timer

LEMMA ReceiveOK ==
  ASSUME WaitInv, NEW w \in Waiter, Receive(w)
  PROVE  WaitInv'
<1>1. /\ WaitTypes /\ pc[w] = "sleep" /\ WaiterOK(w) /\ inbox[w] # Unset
      /\ event' = [event EXCEPT ![w] = inbox[w]]
      /\ told' = [told EXCEPT ![w] = inbox[w]]
      /\ inbox' = [inbox EXCEPT ![w] = Unset]
      /\ pc' = [pc EXCEPT ![w] = "refetch"]
      /\ UNCHANGED <<status, awaited, reached, forged, pool, connected, transit,
                     subscribed, pending, seenAlive, missing, answer, assured,
                     glitches, changes>>
  BY DEF WaitInv, Receive, jobRow
<1>2. inbox[w] \in Terminal \cup {Unset}
  BY <1>1 DEF WaitTypes
<1>3. WaitTypes'
  BY <1>1, <1>2 DEF WaitTypes
<1>4. /\ pc'[w] = "refetch" /\ event'[w] = inbox[w] /\ told'[w] = inbox[w]
      /\ inbox'[w] = Unset /\ OnlyMoves(w)
  BY <1>1 DEF WaitTypes, OnlyMoves
<1>5. StandOf(w)' /\ MemoryOf(w)' /\ MarkOf(w)'
  BY <1>1, <1>4 DEF WaiterOK, StandOf, MemoryOf, MarkOf, Said
<1>6. QED
  BY <1>1, <1>3, <1>4, <1>5, OthersWait DEF WaiterOK

LEMMA RefetchOK ==
  ASSUME WaitInv, NEW w \in Waiter, Refetch(w)
  PROVE  WaitInv'
<1>1. /\ WaitTypes /\ pc[w] = "refetch" /\ WaiterOK(w)
      /\ UNCHANGED <<status, awaited, reached, forged, pool, connected, transit,
                     changes>>
      /\ glitches \in 0..MaxGlitches
  BY DEF WaitInv, Refetch, WaitTypes, jobRow
<1>2. event[w] \in Terminal /\ told[w] = event[w]
  BY <1>1 DEF WaiterOK, StandOf, MemoryOf, WaitTypes
<1>3. CASE /\ status \in Terminal /\ Return(w, Resolve(status))
           /\ UNCHANGED <<glitches, assured>>
  <2>1. Resolve(status) \in {"value", "failed", "aborted"}
    BY <1>3, Resolutions
  <2>2. QED
    BY <1>1, <1>3, <2>1, ReturnOK DEF Answered, jobRow
<1>4. CASE /\ Return(w, ResolveDeleted(event[w]))
           /\ UNCHANGED <<glitches, assured>>
  <2>1. /\ ResolveDeleted(event[w]) \in {"expired", "failed", "aborted"}
        /\ ResolveDeleted(event[w]) = "expired" <=> event[w] = "complete"
    BY <1>2, Resolutions
  <2>2. QED
    BY <1>1, <1>2, <1>4, <2>1, ReturnOK DEF Answered, jobRow
\* The waiter goes back to sleep: the row is live, or it could not be read.
<1>5. ASSUME event' = [event EXCEPT ![w] = Unset],
             pc' = [pc EXCEPT ![w] = "sleep"],
             glitches' \in 0..MaxGlitches,
             \/ /\ status \in Live /\ told' = [told EXCEPT ![w] = Unset]
                /\ UNCHANGED <<pending, assured>>
             \/ /\ assured' = [assured EXCEPT ![w] = FALSE]
                /\ pending' = [pending EXCEPT ![w] = event[w]] /\ told' = told,
             UNCHANGED <<subscribed, inbox, seenAlive, missing, answer>>
      PROVE  WaitInv'
  <2>1. /\ pending' \in [Waiter -> Terminal \cup {Unset}]
        /\ told' \in [Waiter -> Terminal \cup {Unset}]
        /\ assured' \in [Waiter -> BOOLEAN]
    BY <1>1, <1>2, <1>5 DEF WaitTypes
  <2>2. WaitTypes'
    BY <1>1, <1>5, <2>1 DEF WaitTypes
  <2>3. /\ pc'[w] = "sleep" /\ event'[w] = Unset /\ OnlyMoves(w)
        /\ told'[w] \in {Unset, pending'[w]}
        /\ pending'[w] \in {pending[w], event[w]}
        /\ assured'[w] => assured[w] /\ status \in Live
    BY <1>1, <1>2, <1>5 DEF WaitTypes, OnlyMoves
  <2>4. StandOf(w)'
    BY <1>1, <1>5, <2>3 DEF WaiterOK, StandOf, Said
  <2>5. MemoryOf(w)' /\ MarkOf(w)'
    BY <1>1, <1>5, <2>3 DEF WaiterOK, StandOf, MemoryOf, MarkOf, Live, Terminal
  <2>6. QED
    BY <1>1, <2>2, <2>3, <2>4, <2>5, OthersWait DEF WaiterOK
<1>6. glitches' = glitches \/ (glitches < MaxGlitches /\ glitches' = glitches + 1)
        => glitches' \in 0..MaxGlitches
  BY <1>1, WaitAssumption
<1>7. QED
  BY <1>3, <1>4, <1>5, <1>6 DEF Refetch, KeepEvent, Fault

\* The job and the listener.
LEMMA FinishOK ==
  ASSUME WaitInv, NEW s \in Terminal, Finish(s)
  PROVE  WaitInv'
<1>1. /\ WaitTypes /\ status \in Live /\ status' = s
      /\ reached' = reached \cup {s}
      /\ transit' = IF awaited /\ connected THEN Append(transit, s) ELSE transit
      /\ UNCHANGED <<awaited, pool, connected, pc, subscribed, inbox, pending,
                     event, seenAlive, missing, answer, assured, told, forged,
                     glitches, changes>>
  BY DEF WaitInv, Finish, waiting, history
<1>2. transit \in Seq(Terminal)
  BY <1>1 DEF WaitTypes
<1>3. /\ transit' \in Seq(Terminal) /\ ~connected => transit' = transit
      /\ awaited /\ connected => transit' # <<>>
      /\ \A i \in DOMAIN transit' :
            transit'[i] \in {s} \cup {transit[j] : j \in DOMAIN transit}
  BY <1>1, <1>2
<1>4. WaitTypes' /\ TransitIsSaid'
  <2>1. WaitTypes'
    BY <1>1, <1>3 DEF WaitTypes
  <2>2. TransitIsSaid'
    BY <1>1, <1>3 DEF WaitInv, TransitIsSaid, Said
  <2>3. QED
    BY <2>1, <2>2
<1>5. ASSUME NEW w \in Waiter PROVE WaiterOK(w)'
  <2>1. WaiterOK(w) /\ status # "gone" /\ s # "gone"
    BY <1>1 DEF WaitInv, Live, Terminal
  <2>2. StandOf(w)' /\ MemoryOf(w)'
    BY <1>1, <2>1 DEF WaiterOK, StandOf, MemoryOf, Said
  <2>3. MarkOf(w)'
    BY <1>1, <1>3, <2>1 DEF WaiterOK, MarkOf
  <2>4. QED
    BY <2>2, <2>3 DEF WaiterOK
<1>6. QED
  BY <1>4, <1>5 DEF WaitInv

LEMMA RunDeleteOK ==
  ASSUME WaitInv, Run \/ Delete
  PROVE  WaitInv'
<1>1. /\ WaitTypes
      /\ \/ status' = "running" /\ status = "queued"
         \/ status' = "gone"
      /\ changes' = changes \/ (changes < MaxChanges /\ changes' = changes + 1)
      /\ UNCHANGED <<awaited, reached, pool, connected, transit, pc, subscribed,
                     inbox, pending, event, seenAlive, missing, answer, assured,
                     told, forged, glitches>>
  BY DEF WaitInv, Run, Delete, Change, waiting, history
<1>2. WaitTypes'
  <2>1. changes' \in 0..MaxChanges
    BY <1>1, WaitAssumption DEF WaitTypes
  <2>2. QED
    BY <1>1, <2>1 DEF WaitTypes, Live
<1>3. TransitIsSaid'
  BY <1>1 DEF WaitInv, TransitIsSaid, Said
<1>4. ASSUME NEW w \in Waiter PROVE WaiterOK(w)'
  <2>1. WaiterOK(w)
    BY DEF WaitInv
  <2>2. StandOf(w)' /\ MemoryOf(w)' /\ MarkOf(w)'
    BY <1>1, <2>1 DEF WaiterOK, StandOf, MemoryOf, MarkOf, Said, Terminal
  <2>3. QED
    BY <2>2 DEF WaiterOK
<1>5. QED
  BY <1>2, <1>3, <1>4 DEF WaitInv

LEMMA DeliverOK ==
  ASSUME WaitInv, Deliver
  PROVE  WaitInv'
<1>1. /\ WaitTypes /\ connected /\ transit # <<>> /\ TransitIsSaid
      /\ inbox' = [w \in Waiter |-> IF ToldNow(w) THEN Head(transit)
                                                  ELSE inbox[w]]
      /\ transit' = Tail(transit)
      /\ UNCHANGED <<status, awaited, reached, pool, connected, pc, subscribed,
                     pending, event, seenAlive, missing, answer, assured, told,
                     forged, glitches, changes>>
  BY DEF WaitInv, Deliver, jobRow, history
<1>2. /\ Head(transit) \in Terminal /\ Head(transit) \in Said
      /\ transit' \in Seq(Terminal)
      /\ \A i \in DOMAIN transit' : transit'[i] \in Said
  <2>1. transit \in Seq(Terminal)
    BY <1>1 DEF WaitTypes
  <2>2. /\ Head(transit) = transit[1] /\ 1 \in DOMAIN transit
        /\ Tail(transit) \in Seq(Terminal)
        /\ \A i \in DOMAIN Tail(transit) : /\ i + 1 \in DOMAIN transit
                                           /\ Tail(transit)[i] = transit[i + 1]
    BY <1>1, <2>1
  <2>3. transit[1] \in Terminal
    BY <2>1, <2>2
  <2>4. QED
    BY <1>1, <2>2, <2>3 DEF TransitIsSaid
<1>3. Unset \notin Terminal
  BY WaitAssumption
<1>4. WaitTypes'
  BY <1>1, <1>2 DEF WaitTypes
<1>5. TransitIsSaid'
  BY <1>1, <1>2 DEF TransitIsSaid, Said
<1>6. ASSUME NEW w \in Waiter PROVE WaiterOK(w)'
  <2>1. WaiterOK(w)
    BY DEF WaitInv
  <2>2. /\ inbox'[w] = IF ToldNow(w) THEN Head(transit) ELSE inbox[w]
        /\ subscribed[w] => inbox'[w] # Unset
    BY <1>1, <1>2, <1>3 DEF ToldNow
  <2>3. StandOf(w)'
    BY <1>1, <1>2, <2>1, <2>2 DEF WaiterOK, StandOf, Said, ToldNow
  <2>4. MemoryOf(w)'
    BY <1>1, <2>1 DEF WaiterOK, MemoryOf
  <2>5. MarkOf(w)'
    BY <1>1, <2>1, <2>2 DEF WaiterOK, StandOf, MarkOf
  <2>6. QED
    BY <2>3, <2>4, <2>5 DEF WaiterOK
<1>7. QED
  BY <1>4, <1>5, <1>6 DEF WaitInv

LEMMA ConnectionOK ==
  ASSUME WaitInv, Disconnect \/ Reconnect \/ ClosePool
  PROVE  WaitInv'
<1>1. /\ WaitTypes
      /\ pool' \in {"open", "closed"} /\ connected' \in BOOLEAN
      /\ changes' = changes \/ (changes < MaxChanges /\ changes' = changes + 1)
      /\ \/ transit' = <<>> /\ assured' = [w \in Waiter |-> FALSE]
         \/ transit' = transit /\ assured' = assured /\ (connected => connected')
      /\ UNCHANGED <<status, awaited, reached, pc, subscribed,
                     inbox, pending, event, seenAlive, missing, answer,
                     told, forged, glitches>>
  <2>1. CASE Disconnect
    BY <2>1 DEF WaitInv, WaitTypes, Disconnect, Change, waiting, history, jobRow
  <2>2. CASE Reconnect
    BY <2>2 DEF WaitInv, WaitTypes, Reconnect, Change, waiting, history, jobRow
  <2>3. CASE ClosePool
    BY <2>3 DEF WaitInv, WaitTypes, ClosePool, Change, waiting, history, jobRow
  <2>4. QED
    BY <2>1, <2>2, <2>3
<1>2. WaitTypes'
  <2>1. changes' \in 0..MaxChanges
    BY <1>1, WaitAssumption DEF WaitTypes
  <2>2. assured' \in [Waiter -> BOOLEAN] /\ transit' \in Seq(Terminal)
    <3>1. assured \in [Waiter -> BOOLEAN] /\ transit \in Seq(Terminal)
      BY <1>1 DEF WaitTypes
    <3>2. CASE transit' = <<>> /\ assured' = [w \in Waiter |-> FALSE]
      BY <3>2, EmptySeq
    <3>3. CASE transit' = transit /\ assured' = assured
      BY <3>1, <3>3
    <3>4. QED
      BY <1>1, <3>2, <3>3
  <2>3. ~connected' => transit' = <<>>
    BY <1>1 DEF WaitTypes
  <2>4. QED
    BY <1>1, <2>1, <2>2, <2>3 DEF WaitTypes
<1>3. TransitIsSaid'
  BY <1>1 DEF WaitInv, TransitIsSaid, Said
<1>4. ASSUME NEW w \in Waiter PROVE WaiterOK(w)'
  <2>1. WaiterOK(w)
    BY DEF WaitInv
  <2>2. StandOf(w)' /\ MemoryOf(w)'
    BY <1>1, <2>1 DEF WaiterOK, StandOf, MemoryOf, Said
  <2>3. CASE transit' = transit /\ assured' = assured /\ (connected => connected')
    BY <1>1, <2>1, <2>2, <2>3 DEF WaiterOK, MarkOf
  <2>4. CASE assured' = [v \in Waiter |-> FALSE]
    BY <2>2, <2>4 DEF WaiterOK, MarkOf
  <2>5. QED
    BY <1>1, <2>3, <2>4
<1>5. QED
  BY <1>2, <1>3, <1>4 DEF WaitInv

LEMMA ForeignNotifyOK ==
  ASSUME WaitInv, NEW s \in Terminal, ForeignNotify(s)
  PROVE  WaitInv'
<1>1. /\ WaitTypes /\ connected /\ changes < MaxChanges /\ changes' = changes + 1
      /\ transit' = Append(transit, s) /\ forged' = forged \cup {s}
      /\ UNCHANGED <<status, awaited, reached, pool, connected, pc, subscribed,
                     inbox, pending, event, seenAlive, missing, answer, assured,
                     told, glitches>>
  BY DEF WaitInv, ForeignNotify, Change, waiting, jobRow
<1>2. /\ transit' \in Seq(Terminal) /\ transit' # <<>>
      /\ \A i \in DOMAIN transit' :
            transit'[i] \in {s} \cup {transit[j] : j \in DOMAIN transit}
  <2>1. transit \in Seq(Terminal)
    BY <1>1 DEF WaitTypes
  <2>2. QED
    BY <1>1, <2>1
<1>3. WaitTypes'
  <2>1. changes' \in 0..MaxChanges
    BY <1>1, WaitAssumption DEF WaitTypes
  <2>2. QED
    BY <1>1, <1>2, <2>1 DEF WaitTypes
<1>4. TransitIsSaid'
  BY <1>1, <1>2 DEF WaitInv, TransitIsSaid, Said
<1>5. ASSUME NEW w \in Waiter PROVE WaiterOK(w)'
  <2>1. WaiterOK(w)
    BY DEF WaitInv
  <2>2. StandOf(w)' /\ MemoryOf(w)' /\ MarkOf(w)'
    BY <1>1, <1>2, <2>1 DEF WaiterOK, StandOf, MemoryOf, MarkOf, Said
  <2>3. QED
    BY <2>2 DEF WaiterOK
<1>6. QED
  BY <1>3, <1>4, <1>5 DEF WaitInv

LEMMA WaitStepOK == WaitInv /\ [WaitNext]_waitVars => WaitInv'
<1> SUFFICES ASSUME WaitInv, [WaitNext]_waitVars PROVE WaitInv'
  OBVIOUS
<1>1. ASSUME NEW w \in Waiter, TimeOut(w) PROVE WaitInv'
  <2>1. glitches' \in 0..MaxGlitches
    BY <1>1 DEF TimeOut, WaitInv, WaitTypes
  <2>2. QED
    BY <1>1, <2>1, ReturnOK DEF TimeOut, Answered
<1>2. ASSUME UNCHANGED <<jobRow, pool, connected, transit, waiting, history,
                         changes>>,
             glitches' \in 0..MaxGlitches
      PROVE  WaitInv'
  BY <1>2 DEF WaitInv, WaitTypes, TransitIsSaid, WaiterOK, StandOf, MemoryOf,
              MarkOf, Said, jobRow, waiting, history
<1>3. ASSUME NEW w \in Waiter, PollFails(w) PROVE WaitInv'
  <2>1. glitches' \in 0..MaxGlitches
    BY <1>3, WaitAssumption DEF PollFails, Fault, WaitInv, WaitTypes
  <2>2. QED
    BY <1>2, <1>3, <2>1 DEF PollFails
<1>4. CASE UNCHANGED waitVars
  <2>1. glitches' \in 0..MaxGlitches
    BY <1>4 DEF waitVars, WaitInv, WaitTypes
  <2>2. QED
    BY <1>2, <1>4, <2>1 DEF waitVars
<1>5. QED
  BY <1>1, <1>3, <1>4, MarkOK, SubscribeOK, PollOK, TimerOK, ReceiveOK,
     RefetchOK, FinishOK, RunDeleteOK, DeliverOK, ConnectionOK, ForeignNotifyOK
     DEF WaitNext, Wait

\* What an answer may say of the row.
TrueAnswer(w, a) ==
    /\ a = "value" => status = "complete"
    /\ a \in {"failed", "aborted"} => \/ status = a
                                      \/ status = "gone" /\ a \in Said
    /\ a \in {"expired", "not_found"} => status = "gone"
    /\ a = "not_found" => ~seenAlive[w]

\* The answers a waiter is given are the ones of its own return.
LEMMA OneAnswers ==
  ASSUME WaitInv, NEW w \in Waiter, NEW a, Return(w, a), TrueAnswer(w, a),
         NEW v \in Waiter, answer'[v] # answer[v]
  PROVE  TrueAnswer(v, answer'[v])
<1>1. answer' = [answer EXCEPT ![w] = a]
  BY DEF Return
<1>2. v = w /\ answer'[v] = a
  BY <1>1 DEF WaitInv, WaitTypes
<1>3. QED
  BY <1>2

LEMMA AnswersGiven ==
  ASSUME WaitInv, WaitNext, NEW v \in Waiter, answer'[v] # answer[v]
  PROVE  TrueAnswer(v, answer'[v])
<1>1. PICK w \in Waiter : Mark(w) \/ Poll(w) \/ Timer(w) \/ Refetch(w) \/ TimeOut(w)
  BY DEF WaitNext, Wait, Finish, Run, Delete, ForeignNotify, Deliver, Disconnect,
         Reconnect, ClosePool, Subscribe, Receive, PollFails, waiting
<1>2. WaitTypes /\ StandOf(w)
  BY DEF WaitInv, WaiterOK
<1>3. PICK a : Return(w, a) /\ TrueAnswer(w, a)
  <2>0. ASSUME NEW s \in Said, status = "gone"
        PROVE  TrueAnswer(w, ResolveDeleted(s))
    <3>1. s \in Terminal
      BY <1>2, <2>0 DEF Said, WaitTypes
    <3>2. QED
      BY <2>0, <3>1, Resolutions DEF TrueAnswer
  <2>1. ASSUME status \in Terminal PROVE TrueAnswer(w, Resolve(status))
    BY <2>1, Resolutions DEF TrueAnswer, Terminal
  <2>2. TrueAnswer(w, "closed") /\ TrueAnswer(w, "timeout")
    BY DEF TrueAnswer
  <2>3. CASE Mark(w)
    BY <2>2, <2>3 DEF Mark
  <2>4. CASE Poll(w)
    <3>1. pending[w] # Unset => pending[w] \in Said
      BY <1>2 DEF StandOf
    <3>2. QED
      BY <2>0, <2>1, <2>2, <2>4, <3>1 DEF Poll
  <2>5. CASE Timer(w)
    <3>1. GiveUpMissing(w) /\ missing[w]
      BY <2>5 DEF Timer
    <3>2. status = "gone" /\ (pending[w] # Unset => pending[w] \in Said)
      BY <1>2, <3>1 DEF StandOf
    <3>3. TrueAnswer(w, Vanished(w))
      BY <3>2 DEF TrueAnswer, Vanished
    <3>4. CASE pending[w] # Unset
      BY <2>0, <3>1, <3>2, <3>4 DEF GiveUpMissing
    <3>5. CASE pending[w] = Unset
      BY <3>1, <3>3, <3>5 DEF GiveUpMissing
    <3>6. QED
      BY <3>4, <3>5
  <2>6. CASE Refetch(w)
    <3>1. event[w] \in Said
      BY <1>2, <2>6 DEF StandOf, Refetch
    <3>2. QED
      BY <2>0, <2>1, <2>6, <3>1 DEF Refetch
  <2>7. CASE TimeOut(w)
    BY <2>2, <2>7 DEF TimeOut
  <2>8. QED
    BY <1>1, <2>3, <2>4, <2>5, <2>6, <2>7
<1>4. QED
  BY <1>3, OneAnswers

(***************************************************************************)
(* JobHandle::wait, for any number of waiters, lost connections, failed    *)
(* reads and foreign announcements: its answer is what became of the job,  *)
(* what it was told it does not forget, and between the mark, the          *)
(* subscription and the read there is no gap a finish could slip through.  *)
(***************************************************************************)
THEOREM WaitsAreAnswered == WaitSpec => WaitSafety
<1>1. WaitInv => WaitTypeOK /\ ToldIsRemembered /\ FinishIsAnnounced
  <2> SUFFICES ASSUME WaitInv
               PROVE  WaitTypeOK /\ ToldIsRemembered /\ FinishIsAnnounced
    OBVIOUS
  <2>1. WaitTypeOK
    <3>1. \A w \in Waiter : StandOf(w)
      BY DEF WaitInv, WaiterOK
    <3>2. /\ {inbox[w] : w \in Waiter} \subseteq Terminal \cup {Unset}
          /\ {pending[w] : w \in Waiter} \subseteq Terminal \cup {Unset}
      BY DEF WaitInv, WaitTypes
    <3>3. QED
      BY <3>1, <3>2 DEF WaitInv, WaitTypes, StandOf, WaitTypeOK
  <2>2. ToldIsRemembered
    BY DEF WaitInv, WaiterOK, MemoryOf, ToldIsRemembered
  <2>3. FinishIsAnnounced
    BY DEF WaitInv, WaiterOK, MarkOf, FinishIsAnnounced
  <2>4. QED
    BY <2>1, <2>2, <2>3
<1>2. ASSUME WaitInv, WaitNext, NEW w \in Waiter, answer'[w] # answer[w]
      PROVE  CASE answer'[w] = "value" -> status = "complete"
               [] answer'[w] \in {"failed", "aborted"} ->
                      \/ status = answer'[w]
                      \/ status = "gone" /\ answer'[w] \in reached \cup forged
               [] answer'[w] \in {"expired", "not_found"} ->
                      /\ status = "gone"
                      /\ (answer'[w] = "not_found") => ~seenAlive[w]
               [] OTHER -> TRUE
  BY <1>2, AnswersGiven DEF TrueAnswer, Said
<1>3. WaitInv /\ [WaitNext]_waitVars =>
        [\A w \in Waiter : answer'[w] # answer[w] =>
           CASE answer'[w] = "value" -> status = "complete"
             [] answer'[w] \in {"failed", "aborted"} ->
                    \/ status = answer'[w]
                    \/ status = "gone" /\ answer'[w] \in reached \cup forged
             [] answer'[w] \in {"expired", "not_found"} ->
                    /\ status = "gone"
                    /\ (answer'[w] = "not_found") => ~seenAlive[w]
             [] OTHER -> TRUE]_waitVars
  BY <1>2
<1>4. QED
  BY WaitInitOK, WaitStepOK, <1>1, <1>3, PTL DEF WaitSpec, WaitSafety, AnswerIsTrue

-----------------------------------------------------------------------------
(***************************************************************************)
(* The retry delay.  Its documented form is a power of two, which a        *)
(* recursive function defines: that there is one is shown by its finite    *)
(* beginnings, since a least number without one cannot be.                 *)
(***************************************************************************)
Beginning(n) ==
    {f \in [0..n -> Nat \ {0}] : /\ f[0] = 1
                                 /\ \A i \in 1..n : f[i] = 2 * f[i - 1]}

\* A counterexample to an induction would have a least member.
LEMMA LeastMember ==
    ASSUME NEW S \in SUBSET Nat, S # {}
    PROVE  \E x \in S : \A y \in Nat : y < x => y \notin S
<1>1. IsWellFoundedOn(OpToRel(<, Nat), Nat)
  BY NatLessThanWellFounded
<1>2. PICK x \in S : \A y \in S : ~ (<<y, x>> \in OpToRel(<, Nat))
  BY <1>1, WFMin
<1>3. \A y \in S : ~(y < x)
  BY <1>2 DEF OpToRel
<1>4. QED
  BY <1>3

LEMMA BeginningsAre == \A n \in Nat : Beginning(n) # {}
<1> DEFINE Bad == {n \in Nat : Beginning(n) = {}}
<1> SUFFICES ASSUME Bad # {} PROVE FALSE
  OBVIOUS
<1>1. PICK m \in Bad : \A y \in Nat : y < m => y \notin Bad
  BY LeastMember
<1>2. CASE m = 0
  <2>1. [i \in 0..0 |-> 1] \in Beginning(0)
    BY DEF Beginning
  <2>2. QED
    BY <1>2, <2>1
<1>3. CASE m # 0
  <2>1. m \in Nat /\ m - 1 \in Nat /\ m - 1 < m
    BY <1>3
  <2>2. PICK g : g \in Beginning(m - 1)
    BY <1>1, <2>1
  <2>3. /\ g \in [0..(m - 1) -> Nat \ {0}] /\ g[0] = 1
        /\ \A i \in 1..(m - 1) : g[i] = 2 * g[i - 1]
    BY <2>2 DEF Beginning
  <2> DEFINE f == [i \in 0..m |-> IF i = m THEN 2 * g[m - 1] ELSE g[i]]
  <2>4. \A i \in 0..m : i # m => i \in 0..(m - 1) /\ f[i] = g[i]
    BY <2>1
  <2>5. f[m] = 2 * g[m - 1] /\ g[m - 1] \in Nat \ {0}
    BY <2>1, <2>3
  <2>6. f \in [0..m -> Nat \ {0}]
    BY <2>3, <2>4, <2>5
  <2>7. f[0] = 1
    BY <1>3, <2>1, <2>3, <2>4
  <2>8. ASSUME NEW i \in 1..m PROVE f[i] = 2 * f[i - 1]
    <3>1. i - 1 \in 0..m /\ i - 1 # m /\ i \in 0..m
      BY <2>1
    <3>2. f[i - 1] = g[i - 1]
      BY <2>4, <3>1
    <3>3. CASE i = m
      BY <2>5, <3>2, <3>3
    <3>4. CASE i # m
      <4>1. i \in 1..(m - 1) /\ f[i] = g[i]
        BY <2>1, <2>4, <3>1, <3>4
      <4>2. QED
        BY <2>3, <3>2, <4>1
    <3>5. QED
      BY <3>3, <3>4
  <2> HIDE DEF f
  <2>9. f \in Beginning(m)
    BY <2>6, <2>7, <2>8 DEF Beginning
  <2>10. QED
    BY <2>9
<1>4. QED
  BY <1>2, <1>3

LEMMA BeginningsAgree ==
    ASSUME NEW n \in Nat, NEW m \in Nat, NEW f \in Beginning(n),
           NEW g \in Beginning(m), NEW i \in Nat, i <= n, i <= m
    PROVE  f[i] = g[i]
<1> DEFINE Bad == {j \in Nat : j <= n /\ j <= m /\ f[j] # g[j]}
<1> SUFFICES ASSUME Bad # {} PROVE FALSE
  OBVIOUS
<1>1. PICK j \in Bad : \A y \in Nat : y < j => y \notin Bad
  BY LeastMember
<1>2. f[0] = 1 /\ g[0] = 1
  BY DEF Beginning
<1>3. /\ j \in 1..n /\ j \in 1..m /\ j - 1 \in Nat /\ j - 1 < j
      /\ j - 1 <= n /\ j - 1 <= m
  BY <1>1, <1>2
<1>4. f[j - 1] = g[j - 1]
  BY <1>1, <1>3
<1>5. f[j] = 2 * f[j - 1] /\ g[j] = 2 * g[j - 1]
  BY <1>3 DEF Beginning
<1>6. QED
  BY <1>1, <1>4, <1>5

LEMMA PowerIs ==
    /\ Power \in [Nat -> Nat \ {0}] /\ Power[0] = 1
    /\ \A n \in Nat : Power[n + 1] = 2 * Power[n]
<1> DEFINE a(n) == CHOOSE f : f \in Beginning(n)
           F == [n \in Nat |-> a(n)[n]]
           Body(P) == [n \in Nat |-> IF n = 0 THEN 1 ELSE 2 * P[n - 1]]
<1>1. \A n \in Nat : a(n) \in Beginning(n)
  BY BeginningsAre
<1> HIDE DEF a
<1>2. \A n \in Nat : F[n] \in Nat \ {0}
  <2> SUFFICES ASSUME NEW n \in Nat PROVE F[n] \in Nat \ {0}
    OBVIOUS
  <2>1. a(n) \in [0..n -> Nat \ {0}] /\ n \in 0..n
    BY <1>1 DEF Beginning
  <2>2. QED
    BY <2>1
<1>3. F[0] = 1
  BY <1>1 DEF Beginning
<1>4. \A n \in Nat : n # 0 => F[n] = 2 * F[n - 1]
  <2> SUFFICES ASSUME NEW n \in Nat, n # 0 PROVE F[n] = 2 * F[n - 1]
    OBVIOUS
  <2>1. n - 1 \in Nat /\ n \in 1..n /\ n - 1 <= n /\ n - 1 <= n - 1
    OBVIOUS
  <2>2. a(n)[n] = 2 * a(n)[n - 1]
    BY <1>1, <2>1 DEF Beginning
  <2>3. a(n)[n - 1] = a(n - 1)[n - 1]
    BY <1>1, <2>1, BeginningsAgree
  <2>4. QED
    BY <2>1, <2>2, <2>3
<1>5. F = Body(F)
  BY <1>3, <1>4
<1>6. Power = CHOOSE P : P = Body(P)
  BY Zenon DEF Power
<1> HIDE DEF F
<1>7. Power = Body(Power)
  BY <1>5, <1>6, Zenon
<1>8. Power[0] = 1 /\ \A n \in Nat : Power[n + 1] = 2 * Power[n]
  <2>1. Power[0] = 1
    BY <1>7
  <2>2. \A n \in Nat : n + 1 \in Nat /\ n + 1 # 0 /\ (n + 1) - 1 = n
    OBVIOUS
  <2>3. QED
    BY <1>7, <2>1, <2>2
<1>9. Power \in [Nat -> Nat \ {0}]
  <2> DEFINE Bad == {n \in Nat : Power[n] \notin Nat \ {0}}
  <2>1. Bad = {}
    <3> SUFFICES ASSUME Bad # {} PROVE FALSE
      OBVIOUS
    <3>1. PICK m \in Bad : \A y \in Nat : y < m => y \notin Bad
      BY LeastMember
    <3>2. m # 0 /\ m - 1 \in Nat /\ m - 1 < m /\ m = (m - 1) + 1
      BY <1>8, <3>1
    <3>3. Power[m - 1] \in Nat \ {0}
      BY <3>1, <3>2
    <3>4. Power[m] = 2 * Power[m - 1]
      BY <1>8, <3>2
    <3>5. QED
      BY <3>1, <3>3, <3>4
  <2>2. Power = [n \in Nat |-> Power[n]]
    <3>1. \E h : Power = [n \in Nat |-> h[n]]
      BY <1>7
    <3>2. QED
      BY <1>7, <3>1
  <2>3. QED
    BY <2>1, <2>2
<1>10. QED
  BY <1>8, <1>9

LEMMA PowersGrow ==
    ASSUME NEW m \in Nat, NEW n \in Nat, m <= n
    PROVE  Power[m] <= Power[n]
<1> DEFINE Bad == {k \in Nat : m <= k /\ ~(Power[m] <= Power[k])}
<1> SUFFICES ASSUME Bad # {} PROVE FALSE
  OBVIOUS
<1>1. PICK k \in Bad : \A y \in Nat : y < k => y \notin Bad
  BY LeastMember
<1>2. k # m
  BY <1>1, PowerIs
<1>3. k - 1 \in Nat /\ k - 1 < k /\ m <= k - 1 /\ k = (k - 1) + 1
  BY <1>1, <1>2
<1>4. Power[k] = 2 * Power[k - 1] /\ Power[k - 1] \in Nat /\ Power[m] \in Nat
  BY <1>3, PowerIs
<1>5. Power[m] <= Power[k - 1]
  BY <1>1, <1>3
<1>6. QED
  BY <1>1, <1>4, <1>5

\* Min and Max choose; there is one element to choose.
LEMMA MinIs ==
    ASSUME NEW S \in SUBSET Int, NEW m \in S, \A x \in S : m <= x
    PROVE  Min(S) = m
<1>1. \A n \in S : (\A x \in S : n <= x) => n = m
  OBVIOUS
<1>2. QED
  BY <1>1 DEF Min

LEMMA MaxIs ==
    ASSUME NEW S \in SUBSET Int, NEW m \in S, \A x \in S : m >= x
    PROVE  Max(S) = m
<1>1. \A n \in S : (\A x \in S : n >= x) => n = m
  OBVIOUS
<1>2. QED
  BY <1>1 DEF Max

LEMMA Lesser ==
    ASSUME NEW a \in Int, NEW b \in Int
    PROVE  Min({a, b}) = IF a <= b THEN a ELSE b
<1>1. {a, b} \in SUBSET Int
  OBVIOUS
<1>2. CASE a <= b
  BY <1>1, <1>2, MinIs
<1>3. CASE ~(a <= b)
  BY <1>1, <1>3, MinIs
<1>4. QED
  BY <1>2, <1>3

LEMMA Greater ==
    ASSUME NEW a \in Int, NEW b \in Int
    PROVE  Max({a, b}) = IF a >= b THEN a ELSE b
<1>1. {a, b} \in SUBSET Int
  OBVIOUS
<1>2. CASE a >= b
  BY <1>1, <1>2, MaxIs
<1>3. CASE ~(a >= b)
  BY <1>1, <1>3, MaxIs
<1>4. QED
  BY <1>2, <1>3

-----------------------------------------------------------------------------
(***************************************************************************)
(* BackoffSafety says what the loop has computed at its end; inductive is  *)
(* what it has computed after each round.  A loop that breaks early has    *)
(* arrived at what every further doubling would leave as it is.            *)
(***************************************************************************)
Exponent == Max({row.attempts - 1, 0})

LoopComputes ==
    stage = "loop" =>
        /\ row.backoff.type = "exponential" /\ rounds <= Doublings
        /\ delay = Min({Base * Power[Doublings - rounds], MaxDuration})

BackoffInv == BackoffTypeOK /\ LoopComputes /\ WaitsAsDocumented

LEMMA BackoffNumbers ==
    ASSUME row \in Row
    PROVE  /\ MaxDuration \in Nat \ {0} /\ MaxExponent \in Nat
           /\ Base \in Nat /\ Exponent \in Nat /\ Doublings \in Nat
           /\ Doublings <= Exponent /\ Doublings <= MaxExponent
           /\ Doublings = Exponent \/ Doublings = MaxExponent
           /\ row.backoff.max \in Nat \/ row.backoff.max = NoCap
<1>1. /\ MaxDuration \in Nat \ {0} /\ MaxExponent \in Nat /\ MaxAttempts \in Nat
      /\ Delay \subseteq Int /\ Cap \subseteq Nat
  BY BackoffAssumption
<1>2. /\ row.delay \in Int /\ row.attempts \in Nat
      /\ row.backoff \in Strategy
  <2>1. /\ row.delay \in Delay /\ row.attempts \in 0..MaxAttempts
        /\ row.backoff \in Strategy
    BY DEF Row
  <2>2. row.delay \in Int
    BY <1>1, <2>1
  <2>3. row.attempts \in Nat
    BY <1>1, <2>1
  <2>4. QED
    BY <2>1, <2>2, <2>3
<1>3. row.backoff.max \in Nat \/ row.backoff.max = NoCap
  BY <1>1, <1>2 DEF Strategy
<1>4. Base \in Nat
  BY <1>2, Greater DEF Base
<1>5. Exponent \in Nat
  <2>1. row.attempts - 1 \in Int
    BY <1>2
  <2>2. QED
    BY <2>1, Greater DEF Exponent
<1>6. Doublings = IF Exponent <= MaxExponent THEN Exponent ELSE MaxExponent
  <2>1. Doublings = Min({Exponent, MaxExponent})
    BY DEF Doublings, Exponent
  <2>2. QED
    BY <1>1, <1>5, <2>1, Lesser
<1>7. QED
  BY <1>1, <1>3, <1>4, <1>5, <1>6

LEMMA PowersAre ==
    ASSUME NEW n \in Nat
    PROVE  Power[n] \in Nat \ {0}
BY PowerIs

\* The cap of MaxExponent doublings does not show.
LEMMA ExponentsEnd ==
    ASSUME row \in Row
    PROVE  Min({Base * Power[Doublings], MaxDuration})
             = Min({Base * Power[Exponent], MaxDuration})
<1>1. /\ MaxDuration \in Nat /\ Base \in Nat /\ Exponent \in Nat
      /\ Doublings \in Nat /\ Doublings <= Exponent /\ MaxExponent \in Nat
  BY BackoffNumbers
<1>2. CASE Doublings = Exponent
  BY <1>2
<1>3. CASE Doublings = MaxExponent
  <2>1. /\ Power[Doublings] >= MaxDuration /\ Power[Doublings] <= Power[Exponent]
        /\ Power[Doublings] \in Nat /\ Power[Exponent] \in Nat
    BY <1>1, <1>3, BackoffAssumption, PowersGrow, PowersAre
  <2>2. CASE Base = 0
    <3>1. Base * Power[Doublings] = 0 /\ Base * Power[Exponent] = 0
      BY <2>1, <2>2
    <3>2. QED
      BY <3>1
  <2>3. CASE Base # 0
    <3>1. /\ Base * Power[Doublings] >= Power[Doublings]
          /\ Base * Power[Exponent] >= Power[Exponent]
          /\ Base * Power[Doublings] \in Nat /\ Base * Power[Exponent] \in Nat
      BY <1>1, <2>1, <2>3
    <3>2. /\ Min({Base * Power[Doublings], MaxDuration}) = MaxDuration
          /\ Min({Base * Power[Exponent], MaxDuration}) = MaxDuration
      BY <1>1, <2>1, <3>1, Lesser
    <3>3. QED
      BY <3>2
  <2>4. QED
    BY <2>2, <2>3
<1>4. QED
  BY <1>2, <1>3, BackoffNumbers

\* What the cap of the strategy makes of a delay that is within the ceiling.
LEMMA BoundIs ==
    ASSUME row \in Row, NEW x \in Nat
    PROVE  /\ Bound(Min({x, MaxDuration})) = Bound(x)
           /\ Bound(x) \in 0..MaxDuration
<1> DEFINE caps == {row.backoff.max} \ {NoCap}
           low == IF x <= MaxDuration THEN x ELSE MaxDuration
<1>1. MaxDuration \in Nat /\ caps \in SUBSET Nat
  BY BackoffNumbers
<1>2. low \in Nat /\ low <= MaxDuration /\ low <= x /\ low \in {x, MaxDuration}
  BY <1>1
<1>3. Min({x, MaxDuration}) = low
  BY <1>1, Lesser
<1>4. caps = {} \/ \E c \in Nat : caps = {c}
  BY <1>1
<1>5. Bound(x) = Min({x, MaxDuration} \cup caps)
      /\ Bound(low) = Min({low, MaxDuration} \cup caps)
  BY DEF Bound
<1> HIDE DEF caps, low
<1>6. CASE caps = {}
  <2>1. /\ {x, MaxDuration} \cup caps \in SUBSET Int
        /\ {low, MaxDuration} \cup caps \in SUBSET Int
        /\ low \in {x, MaxDuration} \cup caps
        /\ low \in {low, MaxDuration} \cup caps
        /\ \A y \in {x, MaxDuration} \cup caps : low <= y
        /\ \A y \in {low, MaxDuration} \cup caps : low <= y
    BY <1>1, <1>2, <1>6
  <2>2. /\ Min({x, MaxDuration} \cup caps) = low
        /\ Min({low, MaxDuration} \cup caps) = low
    BY <2>1, MinIs
  <2>3. QED
    BY <1>1, <1>2, <1>3, <1>5, <2>2
<1>7. ASSUME NEW c \in Nat, caps = {c}
      PROVE  /\ Bound(Min({x, MaxDuration})) = Bound(x)
             /\ Bound(x) \in 0..MaxDuration
  <2> DEFINE least == IF c <= low THEN c ELSE low
  <2>1. /\ {x, MaxDuration} \cup caps \in SUBSET Int
        /\ {low, MaxDuration} \cup caps \in SUBSET Int
        /\ least \in {x, MaxDuration} \cup caps
        /\ least \in {low, MaxDuration} \cup caps
        /\ \A y \in {x, MaxDuration} \cup caps : least <= y
        /\ \A y \in {low, MaxDuration} \cup caps : least <= y
        /\ least \in 0..MaxDuration
    BY <1>1, <1>2, <1>7
  <2> HIDE DEF least
  <2>2. /\ Min({x, MaxDuration} \cup caps) = least
        /\ Min({low, MaxDuration} \cup caps) = least
    BY <2>1, MinIs
  <2>3. QED
    BY <1>1, <1>2, <1>3, <1>5, <2>1, <2>2
<1>8. QED
  BY <1>4, <1>6, <1>7

LEMMA BackoffInitOK == BackoffInit => BackoffInv
<1> SUFFICES ASSUME BackoffInit PROVE BackoffInv
  OBVIOUS
<1>1. row \in Row /\ stage = "start" /\ rounds = 0 /\ delay = 0 /\ wait = 0
  BY DEF BackoffInit
<1>2. BackoffTypeOK
  BY <1>1, BackoffAssumption DEF BackoffTypeOK
<1>3. QED
  BY <1>1, <1>2 DEF BackoffInv, LoopComputes, WaitsAsDocumented

LEMMA FlatOK ==
    ASSUME BackoffInv, Flat
    PROVE  BackoffInv'
<1>1. /\ row \in Row /\ rounds \in 0..MaxExponent /\ delay \in 0..MaxDuration
  BY DEF BackoffInv, BackoffTypeOK
<1>2. /\ row' = row /\ rounds' = rounds /\ delay' = delay /\ stage' = "done"
      /\ wait' = Min({Base, MaxDuration}) /\ row.backoff.type = "none"
  BY DEF Flat
<1>3. Base \in Nat /\ MaxDuration \in Nat
  BY <1>1, BackoffNumbers
<1>4. Min({Base, MaxDuration}) \in 0..MaxDuration
  BY <1>3, Lesser
<1>5. Base' = Base
  BY <1>2 DEF Base
<1>6. BackoffTypeOK'
  BY <1>1, <1>2, <1>4 DEF BackoffTypeOK
<1>7. WaitsAsDocumented'
  BY <1>2, <1>5 DEF WaitsAsDocumented
<1>8. QED
  BY <1>2, <1>6, <1>7 DEF BackoffInv, LoopComputes

LEMMA BeginLoopOK ==
    ASSUME BackoffInv, BeginLoop
    PROVE  BackoffInv'
<1>1. /\ row \in Row /\ wait \in 0..MaxDuration
  BY DEF BackoffInv, BackoffTypeOK
<1>2. /\ row' = row /\ wait' = wait /\ stage' = "loop"
      /\ rounds' = Doublings /\ delay' = Min({Base, MaxDuration})
      /\ row.backoff.type = "exponential"
  BY DEF BeginLoop
<1>3. /\ Base \in Nat /\ MaxDuration \in Nat /\ Doublings \in 0..MaxExponent
      /\ Doublings \in Nat
  BY <1>1, BackoffNumbers
<1>4. Min({Base, MaxDuration}) \in 0..MaxDuration
  BY <1>3, Lesser
<1>5. Base' = Base /\ Doublings' = Doublings
  BY <1>2 DEF Base, Doublings
<1>6. Base * Power[Doublings - Doublings] = Base
  <2>1. Doublings - Doublings = 0
    BY <1>3
  <2>2. QED
    BY <1>3, <2>1, PowerIs
<1>7. BackoffTypeOK'
  BY <1>1, <1>2, <1>3, <1>4 DEF BackoffTypeOK
<1>8. LoopComputes'
  <2>1. rounds' <= Doublings' /\ row'.backoff.type = "exponential"
    BY <1>2, <1>3, <1>5
  <2>2. delay' = Min({Base' * Power[Doublings' - rounds'], MaxDuration})
    BY <1>2, <1>5, <1>6
  <2>3. QED
    BY <2>1, <2>2 DEF LoopComputes
<1>9. WaitsAsDocumented'
  BY <1>2 DEF WaitsAsDocumented
<1>10. QED
  BY <1>7, <1>8, <1>9 DEF BackoffInv

LEMMA DoubleOK ==
    ASSUME BackoffInv, Double
    PROVE  BackoffInv'
<1>1. /\ row \in Row /\ wait \in 0..MaxDuration /\ rounds \in Nat /\ rounds > 0
      /\ rounds <= MaxExponent /\ delay \in Nat /\ delay <= MaxDuration
  BY BackoffNumbers DEF BackoffInv, BackoffTypeOK, Double
<1>2. /\ row' = row /\ wait' = wait /\ stage = "loop" /\ stage' = "loop"
      /\ delay' = Min({2 * delay, MaxDuration})
      /\ rounds' = IF delay' = MaxDuration THEN 0 ELSE rounds - 1
  BY DEF Double, Doubled
<1>3. /\ Base \in Nat /\ MaxDuration \in Nat /\ MaxExponent \in Nat
      /\ Doublings \in Nat /\ rounds <= Doublings
      /\ row.backoff.type = "exponential"
      /\ delay = Min({Base * Power[Doublings - rounds], MaxDuration})
  BY <1>1, <1>2, BackoffNumbers DEF BackoffInv, LoopComputes
<1> DEFINE n == Doublings - rounds
<1>4. /\ n \in Nat /\ n + 1 \in Nat /\ n + 1 <= Doublings
      /\ n + 1 = Doublings - (rounds - 1) /\ Doublings - 0 = Doublings
  BY <1>1, <1>3
<1>5. /\ Power[n] \in Nat /\ Power[n + 1] = 2 * Power[n]
      /\ Power[Doublings] \in Nat /\ Power[n + 1] <= Power[Doublings]
      /\ Power[n + 1] \in Nat
  BY <1>3, <1>4, PowerIs, PowersAre, PowersGrow
<1> HIDE DEF n
<1>6. /\ Base * Power[n] \in Nat /\ Base * Power[n + 1] = 2 * (Base * Power[n])
      /\ Base * Power[n + 1] <= Base * Power[Doublings]
      /\ Base * Power[Doublings] \in Nat /\ Base * Power[n + 1] \in Nat
  BY <1>3, <1>5
<1>7. delay = IF Base * Power[n] <= MaxDuration THEN Base * Power[n]
                                                ELSE MaxDuration
  BY <1>3, <1>6, Lesser DEF n
<1>8. delay' = IF 2 * delay <= MaxDuration THEN 2 * delay ELSE MaxDuration
  <2>1. 2 * delay \in Int /\ MaxDuration \in Int
    BY <1>1, <1>3
  <2>2. QED
    BY <1>2, <2>1, Lesser
<1>9. delay' = Min({Base * Power[n + 1], MaxDuration})
  <2>1. Min({Base * Power[n + 1], MaxDuration})
          = IF Base * Power[n + 1] <= MaxDuration THEN Base * Power[n + 1]
                                                  ELSE MaxDuration
    BY <1>3, <1>6, Lesser
  <2>2. QED
    BY <1>3, <1>6, <1>7, <1>8, <2>1
<1>10. Base' = Base /\ Doublings' = Doublings
  BY <1>2 DEF Base, Doublings
<1>11. /\ rounds' \in 0..MaxExponent /\ rounds' <= Doublings
       /\ delay' \in 0..MaxDuration
  BY <1>1, <1>2, <1>3, <1>8
<1>12. delay' = Min({Base * Power[Doublings - rounds'], MaxDuration})
  <2>1. CASE delay' # MaxDuration
    BY <1>2, <1>4, <1>9, <2>1
  <2>2. CASE delay' = MaxDuration
    <3>1. ~(Base * Power[n + 1] < MaxDuration)
      <4>1. Min({Base * Power[n + 1], MaxDuration}) = MaxDuration
        BY <1>9, <2>2
      <4>2. Base * Power[n + 1] \in Int /\ MaxDuration \in Int
        BY <1>3, <1>6
      <4>3. IF Base * Power[n + 1] <= MaxDuration
            THEN Base * Power[n + 1] = MaxDuration ELSE TRUE
        BY <4>1, <4>2, Lesser
      <4>4. QED
        BY <1>3, <1>6, <4>3
    <3>2. ~(Base * Power[Doublings] < MaxDuration)
      BY <1>3, <1>6, <3>1
    <3>3. Min({Base * Power[Doublings], MaxDuration}) = MaxDuration
      BY <1>3, <1>6, <3>2, Lesser
    <3>4. QED
      BY <1>2, <1>4, <2>2, <3>3
  <2>3. QED
    BY <2>1, <2>2
<1>13. BackoffTypeOK'
  BY <1>1, <1>2, <1>3, <1>11 DEF BackoffTypeOK, BackoffInv
<1>14. LoopComputes'
  BY <1>2, <1>3, <1>10, <1>11, <1>12 DEF LoopComputes
<1>15. WaitsAsDocumented'
  BY <1>2 DEF WaitsAsDocumented
<1>16. QED
  BY <1>13, <1>14, <1>15 DEF BackoffInv

LEMMA JitterOK ==
    ASSUME BackoffInv, Jitter
    PROVE  BackoffInv'
<1>1. /\ row \in Row /\ rounds \in 0..MaxExponent /\ delay \in Nat
  BY BackoffNumbers DEF BackoffInv, BackoffTypeOK
<1>2. /\ row' = row /\ rounds' = rounds /\ stage = "loop" /\ stage' = "done"
      /\ rounds = 0 /\ delay' = Bound(delay) /\ wait' \in 0..Bound(delay)
  BY DEF Jitter
<1>3. /\ Base \in Nat /\ Doublings \in Nat /\ Exponent \in Nat
      /\ MaxDuration \in Nat
      /\ row.backoff.type = "exponential"
      /\ delay = Min({Base * Power[Doublings - rounds], MaxDuration})
  BY <1>1, <1>2, BackoffNumbers DEF BackoffInv, LoopComputes
<1>4. delay = Min({Base * Power[Exponent], MaxDuration})
  <2>1. Doublings - rounds = Doublings
    BY <1>2, <1>3
  <2>2. QED
    BY <1>1, <1>3, <2>1, ExponentsEnd
<1>5. Base * Power[Exponent] \in Nat
  <2>1. Power[Exponent] \in Nat
    BY <1>3, PowersAre
  <2>2. QED
    BY <1>3, <2>1
<1>6. /\ Bound(delay) = Bound(Base * Power[Exponent])
      /\ Bound(delay) \in 0..MaxDuration
  BY <1>1, <1>4, <1>5, BoundIs
<1>7. BackoffTypeOK'
  <2>1. wait' \in 0..MaxDuration
    BY <1>2, <1>3, <1>6
  <2>2. QED
    BY <1>1, <1>2, <1>6, <2>1 DEF BackoffTypeOK
<1>8. WaitsAsDocumented'
  <2>1. Base' = Base /\ Max({row'.attempts - 1, 0}) = Exponent
    BY <1>2 DEF Base, Exponent
  <2>2. delay' = Min({Base * Power[Exponent], MaxDuration}
                       \cup ({row.backoff.max} \ {NoCap}))
    BY <1>2, <1>6 DEF Bound
  <2>3. wait' <= delay'
    BY <1>2, <1>3, <1>6
  <2>4. row'.backoff.type # "none"
    BY <1>2, <1>3
  <2>5. QED
    BY <1>2, <2>1, <2>2, <2>3, <2>4 DEF WaitsAsDocumented
<1>9. QED
  BY <1>2, <1>7, <1>8 DEF BackoffInv, LoopComputes

LEMMA BackoffStepOK == BackoffInv /\ [BackoffNext]_backoffVars => BackoffInv'
<1> SUFFICES ASSUME BackoffInv, [BackoffNext]_backoffVars PROVE BackoffInv'
  OBVIOUS
<1>1. CASE UNCHANGED backoffVars
  <2>1. /\ row' = row /\ stage' = stage /\ rounds' = rounds /\ delay' = delay
        /\ wait' = wait
    BY <1>1 DEF backoffVars
  <2>2. BackoffTypeOK'
    BY <2>1 DEF BackoffInv, BackoffTypeOK
  <2>3. LoopComputes' /\ WaitsAsDocumented'
    BY <2>1 DEF BackoffInv, LoopComputes, WaitsAsDocumented, Base, Doublings
  <2>4. QED
    BY <2>2, <2>3 DEF BackoffInv
<1>2. QED
  BY <1>1, FlatOK, BeginLoopOK, DoubleOK, JitterOK DEF BackoffNext

(***************************************************************************)
(* For every delay, cap and number of attempts, also for those a hand has  *)
(* written into the row, and for every ceiling that MaxExponent doublings  *)
(* of a millisecond pass, a retry waits as documented (retry_delay_for).   *)
(***************************************************************************)
THEOREM RetriesWaitAsDocumented == BackoffSpec => []BackoffSafety
<1>1. BackoffInv => BackoffSafety
  BY DEF BackoffInv, BackoffSafety
<1>2. QED
  BY BackoffInitOK, BackoffStepOK, <1>1, PTL DEF BackoffSpec
=============================================================================
