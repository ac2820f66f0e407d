---------------------------- MODULE WorkerHealth ----------------------------
(***************************************************************************)
(* The health of a worker: a map of the components that are failing, the   *)
(* flags running and stopped, and the snapshot that a watch channel hands  *)
(* to observers.  Each component's loop reports its own failures and       *)
(* recoveries, concurrently with the others and with the run that starts   *)
(* and stops.                                                              *)
(*                                                                         *)
(* The map is guarded by a mutex; the flags are atomics stored outside it. *)
(* A watch channel keeps the latest value only, and each receiver knows    *)
(* whether it has seen it.                                                 *)
(***************************************************************************)
EXTENDS Integers, FiniteSets

CONSTANTS
    Component,      \* the components whose loops report
    Notification,   \* the one that forwards the listener's own health
    Run,            \* the run of the worker, which reports ready and stopped
    Free,           \* nobody holds the mutex
    Observer,       \* clones of WorkerHealth
    MaxReports      \* bound on failures and recoveries of the other components

Reporter == Component \cup {Run}

ASSUME HealthAssumption ==
    /\ IsFiniteSet(Component) /\ Notification \in Component
    /\ Run \notin Component /\ Free \notin Reporter
    /\ MaxReports \in Nat

VARIABLES
    failures,           \* the map's keys
    running, stopped,   \* the flags
    lock,               \* who holds the mutex
    doing, next,        \* each reporter's place, and what it is about to send
    snapshot,           \* the value in the watch channel
    closed,             \* the sender is gone
    unseen,             \* per observer, the channel has a value it has not seen
    obs, ended,         \* its place in changed(), and its flag `closed`
    told,               \* history: how often it was handed a stopped snapshot
    ill, noticed,       \* the listener's health, and whether it was looked at
    reports

flags == <<running, stopped>>
mutex == <<failures, lock, doing, next>>
observers == <<unseen, obs, ended, told>>
listener == <<ill, noticed>>
healthVars == <<flags, mutex, snapshot, closed, observers, listener, reports>>

Status == {"starting", "ready", "degraded", "stopped"}
Snapshot == [status : Status, failures : SUBSET Component]

HealthTypeOK ==
    /\ failures \subseteq Component
    /\ {running, stopped, closed, ill, noticed} \subseteq BOOLEAN
    /\ lock \in Reporter \cup {Free}
    /\ doing \in [Reporter -> {"idle", "wait", "load", "send", "off"}]
    \* Nobody is in the critical section without the mutex.
    /\ \A r \in Reporter : doing[r] \in {"load", "send"} <=> lock = r
    /\ next \in [Reporter -> Snapshot] /\ snapshot \in Snapshot
    /\ unseen \in [Observer -> BOOLEAN] /\ ended \in [Observer -> BOOLEAN]
    /\ obs \in [Observer -> {"away", "waiting", "woken"}]
    /\ told \in [Observer -> Nat]
    /\ reports \in 0..MaxReports

Quiet == [status |-> "starting", failures |-> {}]

HealthInit ==
    /\ failures = {} /\ running = FALSE /\ stopped = FALSE
    /\ lock = Free /\ doing = [r \in Reporter |-> "idle"]
    /\ next = [r \in Reporter |-> Quiet]
    /\ snapshot = Quiet /\ closed = FALSE
    /\ unseen = [o \in Observer |-> FALSE]
    /\ obs = [o \in Observer |-> "away"] /\ ended = [o \in Observer |-> FALSE]
    /\ told = [o \in Observer |-> 0]
    /\ ill = FALSE /\ noticed = FALSE /\ reports = 0

---------------------------------------------------------------------------
(* Reporters.                                                              *)

Report == reports < MaxReports /\ reports' = reports + 1

\* failed and recovered change the map and publish in one critical section; a
\* component that was not failing has nothing to publish.
Failed(c) ==
    /\ doing[c] = "idle" /\ lock = Free
    /\ failures' = failures \cup {c}
    /\ lock' = c /\ doing' = [doing EXCEPT ![c] = "load"]
    /\ UNCHANGED <<flags, next, snapshot, closed, observers>>

\* Mutant: the recovery is left for the next report to publish.
RecoveredQuietly(c) ==
    /\ doing[c] = "idle" /\ lock = Free
    /\ failures' = failures \ {c}
    /\ UNCHANGED <<lock, doing, flags, next, snapshot, closed, observers>>

Recovered(c) ==
    /\ doing[c] = "idle" /\ lock = Free
    /\ failures' = failures \ {c}
    /\ \/ /\ c \in failures
          /\ lock' = c /\ doing' = [doing EXCEPT ![c] = "load"]
       \/ c \notin failures /\ UNCHANGED <<lock, doing>>
    /\ UNCHANGED <<flags, next, snapshot, closed, observers>>

\* The loops of the other components; what each of them calls a failure is
\* its own business.
Reports(c) ==
    /\ c # Notification /\ Report
    /\ Failed(c) \/ Recovered(c)
    /\ UNCHANGED listener

\* notification_health_loop: borrow_and_update, report, wait for a change.  A
\* listener that is gone is reported once more as a failure: a turn to ill that
\* is never undone.
ForwardListener ==
    /\ ~noticed /\ noticed' = TRUE
    /\ IF ill THEN Failed(Notification) ELSE Recovered(Notification)
    /\ UNCHANGED <<ill, reports>>

\* The run stores its flag, then takes the mutex to publish.
SetRunning ==
    /\ doing[Run] = "idle" /\ ~running /\ ~stopped
    /\ running' = TRUE /\ doing' = [doing EXCEPT ![Run] = "wait"]
    /\ UNCHANGED <<stopped, failures, lock, next, snapshot, closed, observers,
                   listener, reports>>

\* Mutant: the flag is left for the next report to publish.
LeaveToNext == UNCHANGED doing

PublishStop == doing' = [doing EXCEPT ![Run] = "wait"]

\* WorkerHealthStopGuard is dropped at the end of the run, ready or not.
SetStopped ==
    /\ doing[Run] = "idle" /\ ~stopped
    /\ stopped' = TRUE /\ PublishStop
    /\ UNCHANGED <<running, failures, lock, next, snapshot, closed, observers,
                   listener, reports>>

Publish ==
    /\ doing[Run] = "wait" /\ lock = Free
    /\ lock' = Run /\ doing' = [doing EXCEPT ![Run] = "load"]
    /\ UNCHANGED <<flags, failures, next, snapshot, closed, observers, listener,
                   reports>>

\* What the map and the flags amount to.
Implied ==
    [failures |-> failures,
     status |-> IF stopped THEN "stopped" ELSE
                IF failures # {} THEN "degraded" ELSE
                IF running THEN "ready" ELSE "starting"]

\* publish_locked reads the flags while its caller holds the mutex.
KeepLock(r) == lock' = lock /\ doing' = [doing EXCEPT ![r] = "send"]

Load(r) ==
    /\ doing[r] = "load"
    /\ next' = [next EXCEPT ![r] = Implied]
    /\ KeepLock(r)
    /\ UNCHANGED <<flags, failures, snapshot, closed, observers, listener, reports>>

\* send_if_modified wakes the observers if the snapshot is a new one.
Send(r) ==
    /\ doing[r] = "send"
    /\ snapshot' = next[r]
    /\ unseen' = IF snapshot' = snapshot THEN unseen
                                         ELSE [o \in Observer |-> TRUE]
    /\ next' = [next EXCEPT ![r] = Quiet]
    /\ doing' = [doing EXCEPT ![r] = "idle"]
    /\ lock' = IF lock = r THEN Free ELSE lock
    /\ UNCHANGED <<flags, failures, closed, obs, ended, told, listener, reports>>

\* The last owner of the reporter is gone some time after the run.
DropSender ==
    /\ stopped /\ ~closed /\ \A r \in Reporter : doing[r] = "idle"
    /\ closed' = TRUE /\ doing' = [r \in Reporter |-> "off"]
    /\ UNCHANGED <<flags, failures, lock, next, snapshot, observers, listener,
                   reports>>

Turn == noticed' = FALSE

\* The queue's listener loses its connection, or gets it back.
ListenerTurns ==
    /\ Report /\ ill' = ~ill /\ Turn
    /\ UNCHANGED <<flags, mutex, snapshot, closed, observers>>

---------------------------------------------------------------------------
(* Observers.                                                              *)

Call(o) ==
    /\ obs[o] = "away" /\ obs' = [obs EXCEPT ![o] = "waiting"]
    /\ UNCHANGED <<flags, mutex, snapshot, closed, unseen, ended, told, listener,
                   reports>>

\* A value it has not seen, or the end of the channel; a flagged observer
\* pends for ever.
Roused(o) ==
    /\ obs[o] = "waiting" /\ ~ended[o] /\ (unseen[o] \/ closed)
    /\ unseen' = [unseen EXCEPT ![o] = FALSE]
    /\ ended' = [ended EXCEPT ![o] = ~unseen[o]]
    /\ obs' = [obs EXCEPT ![o] = "woken"]
    /\ UNCHANGED <<flags, mutex, snapshot, closed, told, listener, reports>>

\* A stopped snapshot is the end of the stream, whichever wakeup carried it.
EndAtStopped(o) ==
    ended' = [ended EXCEPT ![o] = @ \/ snapshot.status = "stopped"]

\* The snapshot is read after the wakeup, and may be newer than it.
Read(o) ==
    /\ obs[o] = "woken" /\ obs' = [obs EXCEPT ![o] = "away"]
    /\ told' = [told EXCEPT ![o] = IF snapshot.status = "stopped" THEN @ + 1
                                                                  ELSE @]
    /\ EndAtStopped(o)
    /\ UNCHANGED <<flags, mutex, snapshot, closed, unseen, listener, reports>>

Observe(o) == Call(o) \/ Roused(o) \/ Read(o)

HealthStep(r) == Load(r) \/ Send(r)

HealthNext ==
    \/ \E c \in Component : Reports(c)
    \/ \E r \in Reporter : HealthStep(r)
    \/ ForwardListener \/ SetRunning \/ SetStopped \/ Publish
    \/ DropSender \/ ListenerTurns
    \/ \E o \in Observer : Observe(o)

HealthSpec == HealthInit /\ [][HealthNext]_healthVars

---------------------------------------------------------------------------
(***************************************************************************)
(* When nobody is about to publish, the snapshot is what the map and the   *)
(* flags amount to.  Nothing would repair a disagreement: recovered() does *)
(* not publish for a component that is not in the map.                     *)
(***************************************************************************)
SnapshotAgrees ==
    (\A r \in Reporter : doing[r] \in {"idle", "off"}) => snapshot = Implied

(***************************************************************************)
(* Stopped is terminal: a report that races the end of the run, or comes   *)
(* after it, never brings a stopped worker back to another status.         *)
(***************************************************************************)
StoppedIsFinal ==
    [][snapshot.status = "stopped" => snapshot'.status = "stopped"]_healthVars

(***************************************************************************)
(* changed() hands the terminal snapshot to an observer at most once,      *)
(* though the value and the closed channel are two wakeups for one ending. *)
(***************************************************************************)
ToldOnce == \A o \in Observer : told[o] <= 1

(***************************************************************************)
(* Every observer learns of the end of the run, though it may miss the     *)
(* snapshots before it.                                                    *)
(***************************************************************************)
StopIsHeard == []<>(stopped => \A o \in Observer : told[o] = 1)

(***************************************************************************)
(* The worker's health follows the listener's: once the listener stays as  *)
(* it is, the notification component ends up reported accordingly.         *)
(***************************************************************************)
ListenerIsFollowed ==
    \A h \in BOOLEAN :
        <>[](ill = h) => <>[](closed \/ (Notification \in snapshot.failures) = h)

(***************************************************************************)
(* The health report as observers rely on it: the published snapshot       *)
(* agrees with what was reported, its end is told once, and stopped is     *)
(* final.                                                                  *)
(***************************************************************************)
HealthSafety ==
    /\ [](HealthTypeOK /\ SnapshotAgrees /\ ToldOnce)
    /\ StoppedIsFinal

(***************************************************************************)
(* Observers learn of the stop, and the report follows the listener.       *)
(***************************************************************************)
HealthProgress ==
    /\ StopIsHeard
    /\ ListenerIsFollowed
=============================================================================
