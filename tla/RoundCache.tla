----------------------------- MODULE RoundCache -----------------------------
(***************************************************************************)
(* The dashboard's cached database rounds (dashboard.rs, RoundCache): the  *)
(* probe behind GET /health and the fan-out behind GET /api/queues.  A     *)
(* round sends one query to each queue.  It runs detached from the request *)
(* that began it, holds the one permit, publishes its value on a watch     *)
(* channel and then lets the permit go; ROUND_TIMEOUT abandons it.  A      *)
(* caller takes a fresh value, or begins a round, or rides on the running  *)
(* one for at most ROUND_WAIT_TIMEOUT; its client may leave at any time.   *)
(*                                                                         *)
(* Time is kept as ages that stop counting at their limit, so behaviours   *)
(* need no bound.  A get() runs on its own thread up to its only await, so *)
(* its three steps interleave with the others' but only a waiting caller   *)
(* can be dropped.                                                         *)
(***************************************************************************)
EXTENDS Naturals, FiniteSets

CONSTANTS Callers,      \* the requests that may be served at one time
          QueueCount,   \* the queues of the dashboard
          Ttl,          \* HEALTH_PROBE_TTL or QUEUE_SIGNALS_TTL, in ticks
          WaitLimit,    \* ROUND_WAIT_TIMEOUT, in ticks
          RoundLimit,   \* ROUND_TIMEOUT, in ticks
          MaxWedges     \* connections the network may swallow

ASSUME RoundCacheAssumption ==
  /\ QueueCount \in Nat \ {0}
  /\ Ttl \in Nat \ {0}
  /\ WaitLimit \in Nat \ {0}
  /\ RoundLimit \in Nat /\ RoundLimit > WaitLimit
  /\ MaxWedges \in Nat

VARIABLES
  failFast,    \* TRUE: queue_signals_round, FALSE: the health probe; chosen once
  published,   \* the last value and its age; stale from Ttl on
  permit,      \* the semaphore's one permit is free
  round,       \* the tasks that run a round
  live,        \* per queue, the queries that hold a pooled connection
  caller,      \* where each get() is
  wedges       \* connections swallowed so far

roundVars == <<published, permit, round, live, caller, wedges>>

Queues == 1..QueueCount

\* A second slot is there to show that it is never used.
Slots == 1..2

NoRound == [stage |-> "none", age |-> 0, reply |-> [q \in Queues |-> "none"],
            value |-> FALSE]

NoCall == [pc |-> "idle", age |-> 0, changed |-> FALSE, left |-> FALSE]

RoundInit ==
  /\ failFast \in BOOLEAN
  /\ published = [value |-> FALSE, age |-> Ttl]
  /\ permit = TRUE
  /\ round = [s \in Slots |-> NoRound]
  /\ live = [q \in Queues |-> 0]
  /\ caller = [c \in Callers |-> NoCall]
  /\ wedges = 0

----------------------------------------------------------------------------
(* The caller: get().                                                      *)

Fresh == published.age < Ttl

\* The receivers a publication wakes: a caller subscribes before it reads.
Subscribed == {c \in Callers : caller[c].pc # "idle"}

Subscribe(c) ==
  /\ caller[c].pc = "idle"
  /\ caller' = [caller EXCEPT ![c].pc = "read"]
  /\ UNCHANGED <<published, permit, round, live, wedges>>

\* A fresh value is the answer, and the call is over.
Read(c) ==
  /\ caller[c].pc = "read"
  /\ caller' = [caller EXCEPT ![c] = IF Fresh THEN NoCall
                                     ELSE [@ EXCEPT !.pc = "gate"]]
  /\ UNCHANGED <<published, permit, round, live, wedges>>

\* The permit taken, the round is spawned and sends its queries at once.
Begin(s) ==
  /\ permit' = FALSE
  /\ round' = [round EXCEPT ![s] = [NoRound EXCEPT !.stage = "running",
                                    !.reply = [q \in Queues |-> "none"]]]
  /\ live' = [q \in Queues |-> live[q] + 1]

\* try_acquire_owned: whoever does not get the permit only waits.
TryRound(c) ==
  /\ caller[c].pc = "gate"
  /\ caller' = [caller EXCEPT ![c].pc = "waiting"]
  /\ \/ ~permit /\ UNCHANGED <<permit, round, live>>
     \/ /\ permit
        /\ \E s \in Slots : /\ round[s].stage = "none"
                            /\ \A t \in Slots : t < s => round[t].stage # "none"
                            /\ Begin(s)
  /\ UNCHANGED <<published, wedges>>

\* changed() returned: whatever was published is taken, fresh or not.
Woken(c) ==
  /\ caller[c].pc = "waiting"
  /\ caller[c].changed
  /\ caller' = [caller EXCEPT ![c] = NoCall]
  /\ UNCHANGED <<published, permit, round, live, wedges>>

\* The wait is over: the caller answers 503 and the round goes on.  A timeout
\* polls its future first, so a value that is there is still taken.
WaitTimesOut(c) ==
  /\ caller[c].pc = "waiting"
  /\ caller[c].age = WaitLimit
  /\ ~caller[c].changed
  /\ caller' = [caller EXCEPT ![c] = NoCall]
  /\ UNCHANGED <<published, permit, round, live, wedges>>

----------------------------------------------------------------------------
(* The round: a detached task.                                             *)

Running(s) == round[s].stage = "running"

Unanswered(s) == {q \in Queues : round[s].reply[q] \in {"none", "wedged"}}

\* The handles are awaited in the queues' order, and the first error the
\* fan-out meets ends it; the probe joins every one of its tasks.
Ended(s) ==
  \/ Unanswered(s) = {}
  \/ /\ failFast
     /\ \E q \in Queues : /\ round[s].reply[q] = "failed"
                          /\ \A p \in 1..(q - 1) : round[s].reply[p] = "ok"

\* Dropping the round aborts the queries it has not heard from: a JoinSet and
\* an AbortOnDropHandle both cancel their tasks.
AbortRest(s) == [q \in Queues |-> IF q \in Unanswered(s) THEN live[q] - 1
                                  ELSE live[q]]

Answer(s, q, reply) ==
  /\ Running(s)
  /\ ~Ended(s)
  /\ round[s].reply[q] = "none"
  /\ round' = [round EXCEPT ![s].reply[q] = reply]
  /\ live' = [live EXCEPT ![q] = @ - 1]
  /\ UNCHANGED <<published, permit, caller, wedges>>

\* Environment: the connection of a query is black-holed.
Wedge(s, q) ==
  /\ Running(s)
  /\ round[s].reply[q] = "none"
  /\ wedges < MaxWedges
  /\ wedges' = wedges + 1
  /\ round' = [round EXCEPT ![s].reply[q] = "wedged"]
  /\ UNCHANGED <<published, permit, live, caller>>

\* Mutant: the permit is let go before the value is published.
ReleaseFirst(s) ==
  /\ Running(s)
  /\ Ended(s)
  /\ round' = [round EXCEPT
       ![s] = [NoRound EXCEPT !.stage = "publish",
                 !.value = \A q \in Queues : round[s].reply[q] = "ok"]]
  /\ live' = AbortRest(s)
  /\ permit' = TRUE
  /\ UNCHANGED <<published, caller, wedges>>

\* The round has its value; what is still unanswered is dropped with it.
Complete(s) ==
  /\ Running(s)
  /\ Ended(s)
  /\ round' = [round EXCEPT
       ![s] = [NoRound EXCEPT !.stage = "publish",
                 !.value = \A q \in Queues : round[s].reply[q] = "ok"]]
  /\ live' = AbortRest(s)
  /\ UNCHANGED <<published, permit, caller, wedges>>

Publish(s) ==
  /\ round[s].stage = "publish"
  /\ published' = [value |-> round[s].value, age |-> 0]
  /\ caller' = [c \in Callers |-> [caller[c] EXCEPT !.changed = c \in Subscribed]]
  /\ round' = [round EXCEPT ![s] = [NoRound EXCEPT !.stage = "release"]]
  /\ UNCHANGED <<permit, live, wedges>>

Release(s) ==
  /\ round[s].stage = "release"
  /\ permit' = TRUE
  /\ round' = [round EXCEPT ![s] = NoRound]
  /\ UNCHANGED <<published, live, caller, wedges>>

\* Mutant: only the waiter is bounded, the round is not.
NeverDue(s) == FALSE

\* ROUND_TIMEOUT has passed and the round has no value.
OutOfTime(s) == round[s].age = RoundLimit /\ ~Ended(s)

\* An abandoned round publishes nothing, and lets the permit go.
Abandon(s) ==
  /\ Running(s)
  /\ OutOfTime(s)
  /\ permit' = TRUE
  /\ round' = [round EXCEPT ![s] = NoRound]
  /\ live' = AbortRest(s)
  /\ caller' = [c \in Callers |->
                  [caller[c] EXCEPT !.left = caller[c].pc = "waiting"]]
  /\ UNCHANGED <<published, wedges>>

\* The client is gone and its future is dropped at the only await of get().
Cancel(c) ==
  /\ caller[c].pc = "waiting"
  /\ caller' = [caller EXCEPT ![c] = NoCall]
  /\ UNCHANGED <<published, permit, round, live, wedges>>

\* An age stops counting at its limit.
Older(age, limit) == IF age < limit THEN age + 1 ELSE age

\* Environment: a tick of the clock.  A query that is not answered within
\* ROUND_TIMEOUT is what Wedge stands for, and no thread stands still for a
\* whole TTL between the publication and the drop of the permit, two adjacent
\* statements.
Tick ==
  /\ \A s \in Slots :
       /\ round[s].stage # "release"
       /\ Running(s) /\ round[s].age = RoundLimit - 1 =>
            Ended(s) \/ \E q \in Queues : round[s].reply[q] = "wedged"
  /\ published' = [published EXCEPT !.age = Older(@, Ttl)]
  /\ round' = [s \in Slots |->
       IF Running(s) THEN [round[s] EXCEPT !.age = Older(@, RoundLimit)]
       ELSE round[s]]
  /\ caller' = [c \in Callers |->
       IF caller[c].pc = "waiting"
       THEN [caller[c] EXCEPT !.age = Older(@, WaitLimit)] ELSE caller[c]]
  /\ UNCHANGED <<permit, live, wedges>>

----------------------------------------------------------------------------
CallerStep(c) == Subscribe(c) \/ Read(c) \/ TryRound(c)

Close(s) == Complete(s) \/ Publish(s) \/ Release(s) \/ Abandon(s)

Reply(s, q) == \E reply \in {"ok", "failed"} : Answer(s, q, reply)

RoundNext ==
  /\ \/ \E c \in Callers :
          CallerStep(c) \/ Woken(c) \/ WaitTimesOut(c) \/ Cancel(c)
     \/ \E s \in Slots : Close(s)
     \/ \E s \in Slots, q \in Queues : Reply(s, q) \/ Wedge(s, q)
     \/ Tick
  /\ UNCHANGED failFast

RoundSpec == RoundInit /\ [][RoundNext]_<<failFast, roundVars>>

----------------------------------------------------------------------------
RoundTypeOK ==
  /\ failFast \in BOOLEAN
  /\ published \in [value : BOOLEAN, age : 0..Ttl]
  /\ permit \in BOOLEAN
  /\ round \in [Slots -> [stage : {"none", "running", "publish", "release"},
                          age : 0..RoundLimit,
                          reply : [Queues -> {"none", "ok", "failed", "wedged"}],
                          value : BOOLEAN]]
  /\ live \in [Queues -> Nat]
  /\ caller \in [Callers -> [pc : {"idle", "read", "gate", "waiting"},
                             age : 0..WaitLimit,
                             changed : BOOLEAN, left : BOOLEAN]]
  /\ wedges \in 0..MaxWedges

(***************************************************************************)
(* At most one round is under way, from the moment its permit is taken     *)
(* until its value is published: "released first, it let the next caller   *)
(* start a redundant round in the moment between".                         *)
(***************************************************************************)
OneRoundAtATime == \A s, t \in Slots :
  round[s].stage # "none" /\ round[t].stage # "none" => s = t

(***************************************************************************)
(* However many clients call, leave and call again, the dashboard holds at *)
(* most one connection per queue of the worker's pool, and none once its   *)
(* round has answered or was abandoned.                                    *)
(***************************************************************************)
LoadIsBounded == \A q \in Queues :
  live[q] = Cardinality({s \in Slots : Running(s) /\ q \in Unanswered(s)})

(***************************************************************************)
(* Nobody waits for a publication that has already been made: a waiting    *)
(* caller has been told, or the round it rides on has yet to publish, or   *)
(* that round was abandoned.                                               *)
(***************************************************************************)
NobodyWaitsForNothing == \A c \in Callers :
  caller[c].pc = "waiting" =>
    \/ caller[c].changed
    \/ caller[c].left
    \/ \E s \in Slots : round[s].stage \in {"running", "publish"}

(***************************************************************************)
(* A wedge costs one round: whatever its queries do, a round ends and its  *)
(* permit comes back for the next one.                                     *)
(***************************************************************************)
RoundsEnd == []<>permit

(***************************************************************************)
(* While clients keep asking, the cache keeps being refreshed, even if     *)
(* every one of them resets its connection before it is answered.          *)
(***************************************************************************)
CacheIsRefreshed ==
  []<>(\E c \in Callers : caller[c].pc # "idle") => []<>Fresh

(***************************************************************************)
(* The shared rounds under load: one at a time, at most a bounded number   *)
(* of queries on the pool, and a caller that waits is waiting for a round. *)
(***************************************************************************)
RoundSafety ==
    /\ RoundTypeOK
    /\ OneRoundAtATime
    /\ LoadIsBounded
    /\ NobodyWaitsForNothing

(***************************************************************************)
(* Rounds end and the cache is refreshed, whatever connection is wedged.   *)
(***************************************************************************)
RoundProgress ==
    /\ RoundsEnd
    /\ CacheIsRefreshed
=============================================================================
