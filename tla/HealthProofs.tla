---------------------------- MODULE HealthProofs ----------------------------
(***************************************************************************)
(* WorkerHealth for any number of components and observers: HealthSafety   *)
(* holds in every behaviour of HealthSpec.                                 *)
(***************************************************************************)
EXTENDS WorkerHealth, TLAPS

USE HealthAssumption

-----------------------------------------------------------------------------
(***************************************************************************)
(* The inductive invariant.  Whoever is about to send has read the map as  *)
(* it is, since it holds the mutex; the flags may have changed under it,   *)
(* but then the run is waiting to publish them.                            *)
(***************************************************************************)
LastToSend ==
    \A r \in Reporter :
        doing[r] = "send" => doing[Run] = "wait" \/ next[r] = Implied

\* With the mutex free and nobody waiting for it, nothing is left to publish.
NothingOwed == lock = Free /\ doing[Run] # "wait" => snapshot = Implied

\* A stop that is published, or about to be, has happened, and it is not taken
\* back by a snapshot that was loaded before it.
StopKept ==
    /\ snapshot.status = "stopped" => stopped
    /\ \A r \in Reporter : doing[r] = "send" =>
        /\ next[r].status = "stopped" => stopped
        /\ snapshot.status = "stopped" => next[r].status = "stopped"

\* An observer that was handed the end is flagged and not woken again.
EndKept ==
    \A o \in Observer :
        told[o] = 0 \/ (told[o] = 1 /\ ended[o] /\ obs[o] # "woken")

HealthInv ==
    /\ HealthTypeOK /\ LastToSend /\ NothingOwed /\ StopKept /\ EndKept

-----------------------------------------------------------------------------
LEMMA ImpliedTyped ==
    ASSUME failures \subseteq Component
    PROVE  Implied \in Snapshot
BY DEF Implied, Snapshot, Status

LEMMA HealthInitOK == HealthInit => HealthInv
<1> SUFFICES ASSUME HealthInit PROVE HealthInv
  OBVIOUS
<1>1. Run \in Reporter /\ Free \notin Reporter
  BY DEF Reporter
<1>2. HealthTypeOK
  <2>1. Quiet \in Snapshot
    BY DEF Quiet, Snapshot, Status
  <2>2. next \in [Reporter -> Snapshot] /\ snapshot \in Snapshot
    BY <2>1 DEF HealthInit
  <2>3. \A r \in Reporter : doing[r] \in {"load", "send"} <=> lock = r
    BY <1>1 DEF HealthInit
  <2>4. {running, stopped, closed, ill, noticed} \subseteq BOOLEAN
    BY Zenon DEF HealthInit
  <2>5. unseen \in [Observer -> BOOLEAN] /\ ended \in [Observer -> BOOLEAN]
    BY DEF HealthInit
  <2>6. /\ failures \subseteq Component /\ lock \in Reporter \cup {Free}
        /\ doing \in [Reporter -> {"idle", "wait", "load", "send", "off"}]
        /\ obs \in [Observer -> {"away", "waiting", "woken"}]
        /\ told \in [Observer -> Nat] /\ reports \in 0..MaxReports
    BY DEF HealthInit
  <2>7. QED
    BY <2>2, <2>3, <2>4, <2>5, <2>6, Zenon DEF HealthTypeOK
<1>3. LastToSend /\ StopKept /\ EndKept
  BY <1>1 DEF HealthInit, LastToSend, StopKept, EndKept, Quiet
<1>4. NothingOwed
  BY <1>1 DEF HealthInit, NothingOwed, Implied, Quiet
<1>5. QED
  BY <1>2, <1>3, <1>4 DEF HealthInv

\* A report takes the mutex, and with it the duty to publish.
LEMMA FailedOK ==
    ASSUME HealthInv, NEW c \in Component, Failed(c),
           ill' \in BOOLEAN, noticed' \in BOOLEAN, reports' \in 0..MaxReports
    PROVE  HealthInv'
BY DEF HealthInv, HealthTypeOK, LastToSend, NothingOwed, StopKept, EndKept,
       Failed, Implied, Reporter, flags, observers

LEMMA RecoveredOK ==
    ASSUME HealthInv, NEW c \in Component, Recovered(c),
           ill' \in BOOLEAN, noticed' \in BOOLEAN, reports' \in 0..MaxReports
    PROVE  HealthInv'
BY DEF HealthInv, HealthTypeOK, LastToSend, NothingOwed, StopKept, EndKept,
       Recovered, Implied, Reporter, flags, observers

LEMMA LoadOK ==
    ASSUME HealthInv, NEW r \in Reporter, Load(r)
    PROVE  HealthInv'
<1>1. Implied \in Snapshot
  BY ImpliedTyped DEF HealthInv, HealthTypeOK
<1>2. QED
  BY <1>1 DEF HealthInv, HealthTypeOK, LastToSend, NothingOwed, StopKept,
              EndKept, Load, KeepLock, Implied, Reporter, flags, observers,
              listener

LEMMA SendOK ==
    ASSUME HealthInv, NEW r \in Reporter, Send(r)
    PROVE  HealthInv'
<1>1. lock = r /\ lock' = Free /\ Implied' = Implied
  BY DEF HealthInv, HealthTypeOK, Send, Implied, flags
<1>2. \A q \in Reporter : doing'[q] \notin {"load", "send"}
  BY <1>1 DEF HealthInv, HealthTypeOK, Send
<1>3. HealthTypeOK'
  <2>1. next' \in [Reporter -> Snapshot] /\ snapshot' \in Snapshot
    BY DEF HealthInv, HealthTypeOK, Send, Quiet, Snapshot, Status
  <2>2. unseen' \in [Observer -> BOOLEAN]
    BY DEF HealthInv, HealthTypeOK, Send
  <2>3. QED
    BY <1>1, <1>2, <2>1, <2>2
       DEF HealthInv, HealthTypeOK, Send, flags, listener, Reporter
<1>4. LastToSend' /\ EndKept'
  BY <1>2 DEF HealthInv, LastToSend, EndKept, Send
<1>5. NothingOwed'
  BY <1>1 DEF HealthInv, HealthTypeOK, LastToSend, NothingOwed, Send, Reporter
<1>6. StopKept'
  BY <1>1, <1>2
     DEF HealthInv, HealthTypeOK, LastToSend, StopKept, Send, Implied, flags
<1>7. QED
  BY <1>3, <1>4, <1>5, <1>6 DEF HealthInv

LEMMA ObserveOK ==
    ASSUME HealthInv, NEW o \in Observer, Observe(o)
    PROVE  HealthInv'
<1>1. CASE Call(o)
  BY <1>1 DEF HealthInv, HealthTypeOK, EndKept, LastToSend, NothingOwed,
              StopKept, Implied, Call, flags, mutex, listener
<1>2. CASE Roused(o)
  BY <1>2 DEF HealthInv, HealthTypeOK, EndKept, LastToSend, NothingOwed,
              StopKept, Implied, Roused, flags, mutex, listener
<1>3. CASE Read(o)
  BY <1>3 DEF HealthInv, HealthTypeOK, EndKept, LastToSend, NothingOwed,
              StopKept, Implied, Read, EndAtStopped, flags, mutex, listener
<1>4. QED
  BY <1>1, <1>2, <1>3 DEF Observe

LEMMA FlagsOK ==
    ASSUME HealthInv, SetRunning \/ SetStopped
    PROVE  HealthInv'
<1>1. /\ doing[Run] = "idle" /\ doing' = [doing EXCEPT ![Run] = "wait"]
      /\ UNCHANGED <<failures, lock, next, snapshot, closed, observers,
                     listener, reports>>
      /\ stopped => stopped'
  BY DEF SetRunning, SetStopped, PublishStop
<1>2. running' \in BOOLEAN /\ stopped' \in BOOLEAN
  BY DEF HealthInv, HealthTypeOK, SetRunning, SetStopped
<1>3. HealthTypeOK'
  BY <1>1, <1>2 DEF HealthInv, HealthTypeOK, Reporter, observers, listener
<1>4. LastToSend' /\ NothingOwed'
  BY <1>1 DEF HealthInv, HealthTypeOK, LastToSend, NothingOwed, Implied,
              Reporter
<1>5. StopKept' /\ EndKept'
  BY <1>1 DEF HealthInv, HealthTypeOK, StopKept, EndKept, Reporter, observers
<1>6. QED
  BY <1>3, <1>4, <1>5 DEF HealthInv

LEMMA PublishOK ==
    ASSUME HealthInv, Publish
    PROVE  HealthInv'
BY DEF HealthInv, HealthTypeOK, LastToSend, NothingOwed, StopKept, EndKept,
       Publish, Implied, Reporter, flags, observers, listener

LEMMA DropSenderOK ==
    ASSUME HealthInv, DropSender
    PROVE  HealthInv'
BY DEF HealthInv, HealthTypeOK, LastToSend, NothingOwed, StopKept, EndKept,
       DropSender, Implied, Reporter, flags, observers, listener

LEMMA ListenerTurnsOK ==
    ASSUME HealthInv, ListenerTurns
    PROVE  HealthInv'
<1>1. {running, stopped, closed, ill, noticed}' \subseteq BOOLEAN
  BY Zenon DEF HealthInv, HealthTypeOK, ListenerTurns, Turn, flags
<1>2. HealthTypeOK'
  BY <1>1 DEF HealthInv, HealthTypeOK, ListenerTurns, Report, flags, mutex,
              observers
<1>3. LastToSend' /\ NothingOwed' /\ StopKept' /\ EndKept'
  BY DEF HealthInv, LastToSend, NothingOwed, StopKept, EndKept, ListenerTurns,
         Implied, flags, mutex, observers
<1>4. QED
  BY <1>2, <1>3 DEF HealthInv

LEMMA ReportsTyped ==
    ASSUME HealthInv, Report
    PROVE  reports' \in 0..MaxReports
BY DEF HealthInv, HealthTypeOK, Report

LEMMA HealthStepOK == HealthInv /\ [HealthNext]_healthVars => HealthInv'
<1> SUFFICES ASSUME HealthInv, [HealthNext]_healthVars PROVE HealthInv'
  OBVIOUS
<1>1. ASSUME NEW c \in Component, Reports(c) PROVE HealthInv'
  <2>1. /\ ill' \in BOOLEAN /\ noticed' \in BOOLEAN
        /\ reports' \in 0..MaxReports
    BY <1>1, ReportsTyped DEF HealthInv, HealthTypeOK, Reports, listener
  <2>2. QED
    BY <1>1, <2>1, FailedOK, RecoveredOK DEF Reports
<1>2. ASSUME NEW r \in Reporter, HealthStep(r) PROVE HealthInv'
  BY <1>2, LoadOK, SendOK DEF HealthStep
<1>3. CASE ForwardListener
  <2>1. /\ ill' \in BOOLEAN /\ noticed' \in BOOLEAN
        /\ reports' \in 0..MaxReports
    BY <1>3 DEF HealthInv, HealthTypeOK, ForwardListener
  <2>2. QED
    BY <1>3, <2>1, FailedOK, RecoveredOK DEF ForwardListener
<1>4. ASSUME NEW o \in Observer, Observe(o) PROVE HealthInv'
  BY <1>4, ObserveOK
<1>5. CASE UNCHANGED healthVars
  BY <1>5 DEF HealthInv, HealthTypeOK, LastToSend, NothingOwed, StopKept,
              EndKept, Implied, healthVars, flags, mutex, observers, listener
<1>6. QED
  BY <1>1, <1>2, <1>3, <1>4, <1>5, FlagsOK, PublishOK, DropSenderOK,
     ListenerTurnsOK DEF HealthNext

LEMMA HealthInvHolds == HealthSpec => []HealthInv
<1>1. QED
  BY HealthInitOK, HealthStepOK, PTL DEF HealthSpec

-----------------------------------------------------------------------------
LEMMA AgreesFromInv == HealthInv => SnapshotAgrees
BY DEF HealthInv, HealthTypeOK, NothingOwed, SnapshotAgrees, Reporter

LEMMA ToldFromInv == HealthInv => ToldOnce
BY DEF HealthInv, EndKept, ToldOnce

LEMMA StopIsKept ==
    HealthInv /\ [HealthNext]_healthVars =>
        [snapshot.status = "stopped" => snapshot'.status = "stopped"]_healthVars
<1> SUFFICES ASSUME HealthInv, HealthNext, snapshot.status = "stopped"
             PROVE  snapshot'.status = "stopped"
  OBVIOUS
<1>1. CASE snapshot' = snapshot
  BY <1>1
<1>2. ASSUME NEW r \in Reporter, Send(r) PROVE snapshot'.status = "stopped"
  BY <1>2 DEF HealthInv, StopKept, Send
<1>3. snapshot' = snapshot \/ \E r \in Reporter : Send(r)
  BY DEF HealthNext, Reports, Failed, Recovered, HealthStep, Load,
         ForwardListener, SetRunning, SetStopped, Publish, DropSender,
         ListenerTurns, Observe, Call, Roused, Read
<1>4. QED
  BY <1>1, <1>2, <1>3

(***************************************************************************)
(* The health report of any number of components and observers: when       *)
(* nobody is about to publish, the snapshot agrees with the map and the    *)
(* flags; changed() hands out the end once; and a stopped worker stays     *)
(* stopped, whatever report races the end of the run.                      *)
(***************************************************************************)
THEOREM HealthReported == HealthSpec => HealthSafety
<1>1. HealthInv => HealthTypeOK /\ SnapshotAgrees /\ ToldOnce
  BY AgreesFromInv, ToldFromInv DEF HealthInv
<1>2. QED
  BY <1>1, HealthInvHolds, StopIsKept, PTL
     DEF HealthSpec, HealthSafety, StoppedIsFinal
=============================================================================
