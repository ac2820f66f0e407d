------------------------- MODULE SweeperLeadership -------------------------
(***************************************************************************)
(* Who sweeps: the session-scoped advisory lock, the connection a leader   *)
(* keeps it on, the guard of an acquisition under way, and the drain loop  *)
(* that repeats a pass while a batch comes back full.  The statements of a *)
(* pass are in AttemptProtocol; here an operation takes up to one batch    *)
(* off the backlog it works on.                                            *)
(***************************************************************************)
EXTENDS Integers, FiniteSets

CONSTANTS
    Sweeper,        \* processes that run a sweep loop on one queue
    Healthy,        \* those whose pool works and which are never stopped
    NoSession,      \* nobody holds the advisory lock
    SweepBatch,          \* sweep_batch_size
    MaxBacklog,     \* bound on the rows one operation has to work on
    Arrivals,       \* bound on the rows that become due during a run
    MaxFailures,    \* MAX_LEADER_SWEEP_FAILURES
    MaxPasses       \* MAX_SWEEP_DRAIN_PASSES

ASSUME SweepersAssumption ==
    /\ Healthy \subseteq Sweeper
    /\ NoSession \notin Sweeper \X {"conn", "acquiring", "closing", "pooled"}

ASSUME SweepBoundsAssumption ==
    /\ SweepBatch \in Nat \ {0}
    /\ MaxBacklog \in Nat
    /\ Arrivals \in Nat
    /\ MaxFailures \in Nat \ {0}
    /\ MaxPasses \in Nat \ {0}

\* SweepOperations::ALL, in the order of sweep_pass.
Operation == {"expired_jobs", "cron_occurrences", "workers", "stuck_jobs"}
Rank == [ expired_jobs |-> 1, cron_occurrences |-> 2, workers |-> 3,
          stuck_jobs |-> 4 ]

(***************************************************************************)
(* A session that may hold the lock is known by its process and by who has *)
(* the connection: self.conn, the acquisition guard, a task that closes    *)
(* it, or the pool it was handed back to.                                  *)
(***************************************************************************)
Session == Sweeper \X {"conn", "acquiring", "closing", "pooled"}

VARIABLES
    owner,       \* the session PostgreSQL has granted the advisory lock
    conn,       \* self.conn: none, alive, or dead without our knowing
    pools,       \* whether the pool of a process can reach the database
    loop,         \* where a sweep loop is
    failed,     \* failed_passes
    ops,        \* the operations of the pass under way
    pass,       \* its number within the drain of one tick
    backlog,    \* rows each operation has left to work on
    arrived     \* rows that have become due so far

sweeperVars ==
    <<owner, conn, pools, loop, failed, ops, pass, backlog, arrived>>

Running == {"ensure", "granted", "refused", "passing"}

SweeperTypeOK ==
    /\ owner \in Session \cup {NoSession}
    /\ conn \in [Sweeper -> {"none", "alive", "dead"}]
    /\ pools \in [Sweeper -> {"up", "down"}]
    /\ loop \in [Sweeper -> Running \cup {"waiting", "stopped"}]
    /\ failed \in [Sweeper -> 0..MaxFailures]
    /\ ops \in [Sweeper -> SUBSET Operation]
    /\ pass \in [Sweeper -> 0..MaxPasses]
    /\ backlog \in [Operation -> 0..MaxBacklog]
    /\ arrived \in 0..Arrivals

SweeperInit ==
    /\ owner = NoSession
    /\ conn = [s \in Sweeper |-> "none"]
    /\ pools = [s \in Sweeper |-> "up"]
    /\ loop = [s \in Sweeper |-> "waiting"]
    /\ failed = [s \in Sweeper |-> 0]
    /\ ops = [s \in Sweeper |-> {}]
    /\ pass = [s \in Sweeper |-> 0]
    /\ backlog = [o \in Operation |-> 0]
    /\ arrived = 0

IsLeader(s) == conn[s] # "none"

Goto(s, at) == loop' = [loop EXCEPT ![s] = at]

-----------------------------------------------------------------------------
(***************************************************************************)
(* Connections that are given up                                           *)
(***************************************************************************)

\* Whoever had the connection now only closes it.
Shut(s, from) == IF owner = <<s, from>> THEN <<s, "closing">> ELSE owner

\* Sweeper::release, and the Drop of a Sweeper: a detached connection is
\* closed, never handed back to the pool.
Release(s) ==
    /\ conn' = [conn EXCEPT ![s] = "none"]
    /\ owner' = Shut(s, "conn")

\* Mutant: without the guard an acquisition that is dropped goes to the pool.
DropToPool(s) == IF owner = <<s, "acquiring">> THEN <<s, "pooled">> ELSE owner

\* Drop of LeadershipAcquisition: no path returns to the pool a connection on
\* which the server may have granted the lock.
DropAcquisition(s) == Shut(s, "acquiring")

-----------------------------------------------------------------------------
(***************************************************************************)
(* One pass                                                                *)
(***************************************************************************)

\* A tick fell inside the drain of the previous one or started a new one;
\* either way a drain begins with every operation.
Tick(s) ==
    /\ loop[s] = "waiting"
    /\ Goto(s, "ensure")
    /\ ops' = [ops EXCEPT ![s] = Operation]
    /\ pass' = [pass EXCEPT ![s] = 1]
    /\ UNCHANGED <<owner, conn, pools, failed, backlog, arrived>>

\* ensure_leadership with a connection: the probe answers, or the connection
\* is released and the same call goes on to acquire a new one.
Probe(s) ==
    /\ loop[s] = "ensure"
    /\ IsLeader(s)
    /\ \/ /\ conn[s] = "alive"
          /\ Goto(s, "passing")
          /\ UNCHANGED <<conn, owner>>
       \/ /\ conn[s] = "dead"
          /\ Release(s)
          /\ UNCHANGED loop
    /\ UNCHANGED <<pools, failed, ops, pass, backlog, arrived>>

\* ensure_leadership without one: the server decides on pg_try_advisory_lock
\* before the process hears of it.
Acquire(s) ==
    /\ loop[s] = "ensure"
    /\ ~IsLeader(s)
    /\ pools[s] = "up"
    /\ \/ /\ owner = NoSession
          /\ owner' = <<s, "acquiring">>
          /\ Goto(s, "granted")
       \/ /\ owner # NoSession
          /\ Goto(s, "refused")
          /\ UNCHANGED owner
    /\ UNCHANGED <<conn, pools, failed, ops, pass, backlog, arrived>>

\* into_leader.  The session may have died after it answered.
Granted(s) ==
    /\ loop[s] = "granted"
    /\ conn' = [conn EXCEPT
           ![s] = IF owner = <<s, "acquiring">> THEN "alive" ELSE "dead"]
    /\ owner' = IF owner = <<s, "acquiring">> THEN <<s, "conn">> ELSE owner
    /\ Goto(s, "passing")
    /\ UNCHANGED <<pools, failed, ops, pass, backlog, arrived>>

\* into_pool, and a report that says leader: false.
Refused(s) ==
    /\ loop[s] = "refused"
    /\ failed' = [failed EXCEPT ![s] = 0]
    /\ Goto(s, "waiting")
    /\ UNCHANGED <<owner, conn, pools, ops, pass, backlog, arrived>>

\* An error without leadership: no connection, or no answer to the lock
\* statement.  The guard drops what it holds; the failure is not counted.
AcquisitionFails(s) ==
    /\ \/ loop[s] = "ensure" /\ ~IsLeader(s)
       \/ loop[s] \in {"granted", "refused"}
    /\ pools[s] = "down"
    /\ owner' = DropAcquisition(s)
    /\ Goto(s, "waiting")
    /\ UNCHANGED <<conn, pools, failed, ops, pass, backlog, arrived>>

\* What the operations in done leave of the backlog, one batch each.
Worked(done) ==
    [o \in Operation |->
        IF o \in done /\ backlog[o] > SweepBatch THEN backlog[o] - SweepBatch
        ELSE IF o \in done THEN 0 ELSE backlog[o]]

\* SweeperReport::unfinished: the operations that filled their batch.
Unfinished(done) == {o \in done : backlog[o] >= SweepBatch}

\* run_sweep_loop_with_drain_time after a pass: go on with the operations
\* that are unfinished, unless the drain has used up its passes or its time.
Drain(s, more) ==
    \/ /\ more # {}
       /\ pass[s] < MaxPasses
       /\ Goto(s, "ensure")
       /\ ops' = [ops EXCEPT ![s] = more]
       /\ pass' = [pass EXCEPT ![s] = @ + 1]
    \/ /\ Goto(s, "waiting")
       /\ UNCHANGED <<ops, pass>>

PassSucceeds(s) ==
    /\ loop[s] = "passing"
    /\ pools[s] = "up"
    /\ backlog' = Worked(ops[s])
    /\ failed' = [failed EXCEPT ![s] = 0]
    /\ Drain(s, Unfinished(ops[s]))
    /\ UNCHANGED <<owner, conn, pools, arrived>>

\* Mutant: a leader goes on leading however often its passes fail.
KeepLeading(s) ==
    /\ failed' = [failed EXCEPT ![s] = IF @ < MaxFailures THEN @ + 1 ELSE @]
    /\ UNCHANGED <<conn, owner>>

\* The failure branch of sweep_operations for a leader.
CountFailure(s) ==
    \/ /\ failed[s] + 1 < MaxFailures
       /\ failed' = [failed EXCEPT ![s] = @ + 1]
       /\ UNCHANGED <<conn, owner>>
    \/ /\ failed[s] + 1 >= MaxFailures
       /\ failed' = [failed EXCEPT ![s] = 0]
       /\ Release(s)

\* A statement fails: the operations before it have done their work.
PassFails(s) ==
    /\ loop[s] = "passing"
    /\ pools[s] = "down"
    /\ \E k \in 1..4 : backlog' = Worked({o \in ops[s] : Rank[o] < k})
    /\ CountFailure(s)
    /\ Goto(s, "waiting")
    /\ UNCHANGED <<pools, ops, pass, arrived>>

\* SWEEP_PASS_TIMEOUT: the future of the pass is dropped wherever it stands,
\* and leadership is released at once.  failed_passes keeps its value.
PassTimesOut(s) ==
    /\ loop[s] \in Running
    /\ pools[s] = "down"
    /\ conn' = [conn EXCEPT ![s] = "none"]
    /\ owner' = IF IsLeader(s) THEN Shut(s, "conn") ELSE DropAcquisition(s)
    /\ Goto(s, "waiting")
    /\ UNCHANGED <<pools, failed, ops, pass, backlog, arrived>>

-----------------------------------------------------------------------------
(***************************************************************************)
(* The environment                                                         *)
(***************************************************************************)

\* The caller drops the future of Sweeper::sweep and keeps the Sweeper.
CancelPass(s) ==
    /\ s \notin Healthy
    /\ loop[s] \in Running
    /\ owner' = DropAcquisition(s)
    /\ Goto(s, "waiting")
    /\ UNCHANGED <<conn, pools, failed, ops, pass, backlog, arrived>>

\* The worker stops, or its sweep task is aborted: the pass is dropped, and
\* release or the Drop of Sweeper closes the leadership connection.
Stop(s) ==
    /\ s \notin Healthy
    /\ loop[s] # "stopped"
    /\ conn' = [conn EXCEPT ![s] = "none"]
    /\ owner' = IF IsLeader(s) THEN Shut(s, "conn") ELSE DropAcquisition(s)
    /\ Goto(s, "stopped")
    /\ UNCHANGED <<pools, failed, ops, pass, backlog, arrived>>

\* The session ends on the server; the process has not noticed.
SessionLost(s) ==
    /\ owner \in {<<s, "conn">>, <<s, "acquiring">>}
    /\ owner' = NoSession
    /\ conn' = IF owner = <<s, "conn">> THEN [conn EXCEPT ![s] = "dead"]
                                       ELSE conn
    /\ UNCHANGED <<pools, loop, failed, ops, pass, backlog, arrived>>

\* A connection that is being closed takes its session with it.
CloseLands ==
    /\ \E s \in Sweeper : owner = <<s, "closing">>
    /\ owner' = NoSession
    /\ UNCHANGED <<conn, pools, loop, failed, ops, pass, backlog, arrived>>

\* The pool dies or recovers while an established connection stays healthy.
PoolFails(s) ==
    /\ s \notin Healthy
    /\ pools' = [pools EXCEPT ![s] = IF @ = "up" THEN "down" ELSE "up"]
    /\ UNCHANGED <<owner, conn, loop, failed, ops, pass, backlog, arrived>>

Arrive(o) ==
    /\ arrived < Arrivals
    /\ backlog[o] < MaxBacklog
    /\ backlog' = [backlog EXCEPT ![o] = @ + 1]
    /\ arrived' = arrived + 1
    /\ UNCHANGED <<owner, conn, pools, loop, failed, ops, pass>>

-----------------------------------------------------------------------------

\* What the sweep loop of a process does by itself.
SweepStep(s) ==
    \/ Tick(s) \/ Probe(s) \/ Acquire(s) \/ Granted(s) \/ Refused(s)
    \/ AcquisitionFails(s) \/ PassSucceeds(s) \/ PassFails(s)
    \/ PassTimesOut(s)

SweeperNext ==
    \/ \E s \in Sweeper :
        \/ SweepStep(s) \/ CancelPass(s) \/ Stop(s) \/ SessionLost(s)
        \/ PoolFails(s)
    \/ \E o \in Operation : Arrive(o)
    \/ CloseLands

SweeperSpec == SweeperInit /\ [][SweeperNext]_sweeperVars

-----------------------------------------------------------------------------
(***************************************************************************)
(* Properties                                                              *)
(***************************************************************************)

(***************************************************************************)
(* Wherever a pass is dropped, cancelled, timed out or stopped, the lock   *)
(* is with a connection its process still has a name for, or with one that *)
(* is being closed: ensure_leadership and LeadershipAcquisition never      *)
(* leave it on a connection of the pool, and a process that holds it       *)
(* believes to be the leader or is about to hear of it.                    *)
(***************************************************************************)
LockIsNameable ==
    \A s \in Sweeper :
        /\ owner # <<s, "pooled">>
        /\ owner = <<s, "conn">> <=> conn[s] = "alive"
        /\ owner = <<s, "acquiring">> => loop[s] = "granted"

(***************************************************************************)
(* Rows that are due are swept as long as one process of the fleet is      *)
(* healthy, whoever leads: a leader whose passes fail or hang gives the    *)
(* lock up, no lock is leaked by a stop, and every tick starts again from  *)
(* all the operations.                                                     *)
(***************************************************************************)
BacklogIsSwept ==
    \A o \in Operation : []<>(backlog[o] = 0)

(***************************************************************************)
(* A process that lost its session and lets another one lead stops         *)
(* sweeping: the probe of ensure_leadership refuses to start a pass on a   *)
(* connection that is dead, so a pass begins only with the lock, or with a *)
(* lock that was granted to this very pass.                                *)
(***************************************************************************)
PassBeginsWithLock ==
    [][\A s \in Sweeper :
        loop[s] = "ensure" /\ loop'[s] = "passing"
            => owner = <<s, "conn">>]_sweeperVars

(***************************************************************************)
(* Leadership of the sweep: whoever holds the advisory lock can be named   *)
(* and will release it, and a pass begins only with the lock.              *)
(***************************************************************************)
LeadershipSafety ==
    /\ [](SweeperTypeOK /\ LockIsNameable)
    /\ PassBeginsWithLock
=============================================================================
