---------------------------- MODULE AuthThrottle ----------------------------
(***************************************************************************)
(* The dashboard's budget of credential comparisons (dashboard.rs,         *)
(* AuthThrottle): a token bucket per client and channel, in a map of       *)
(* bounded size.  A check spends a token first, compares, and hands the    *)
(* token back if the credentials match.  The map's lock makes a spend and  *)
(* a refund atomic; between them other checks run, the clock moves and the *)
(* bucket may be gone.                                                     *)
(***************************************************************************)
EXTENDS Naturals, FiniteSets, FiniteSetsExt, Functions

CONSTANTS Keys,         \* AuthThrottleKey: a client and a channel
          Checks,       \* the checks that may be under way at one time
          MaxBuckets,   \* MAX_AUTH_CLIENTS
          Burst,        \* AUTH_ATTEMPT_BURST
          Interval,     \* AUTH_ATTEMPT_REFILL, in ticks
          MaxTime,      \* bound on the clock
          MaxSpends     \* bound on the tokens spent

ASSUME AuthThrottleAssumption ==
  /\ MaxBuckets \in Nat \ {0} /\ Burst \in Nat \ {0} /\ Interval \in Nat \ {0}
  /\ MaxTime \in Nat /\ MaxSpends \in Nat

VARIABLES
  time,
  buckets,    \* the keys that have one, each with what is available and since when
  check,      \* what each check is doing
  misses,     \* comparisons made that did not match
  spends,     \* tokens spent
  granted     \* tokens an arriving key got from a bucket that had none left

authVars == <<time, buckets, check, misses, spends, granted>>

Idle == [at |-> "idle"]
Comparing(k) == [at |-> "comparing", key |-> k]
Refused(k) == [at |-> "refused", key |-> k]

AuthInit ==
  /\ time = 0
  /\ buckets = <<>>
  /\ check = [c \in Checks |-> Idle]
  /\ misses = 0 /\ spends = 0 /\ granted = 0

----------------------------------------------------------------------------
\* Time past a full bucket is not banked; while it fills, the remainder of an
\* interval is carried over.
Refilled(b) ==
  LET elapsed == (time - b.mark) \div Interval
  IN  IF elapsed >= Burst - b.available THEN [available |-> Burst, mark |-> time]
      ELSE [available |-> b.available + elapsed, mark |-> b.mark + elapsed * Interval]

Full == [available |-> Burst, mark |-> time]

\* Mutant: whoever displaces a bucket starts with a fresh burst.
ArrivingFull(displaced) == Full

\* The bucket of a key that displaced one which was still spent.
Arriving(displaced) ==
  [available |-> IF displaced = 0 THEN 1 ELSE displaced, mark |-> time]

\* The map after the refilled buckets are dropped from it.
Spent ==
  LET refilled == [k \in DOMAIN buckets |-> Refilled(buckets[k])]
  IN  Restrict(refilled, {k \in DOMAIN buckets : refilled[k].available < Burst})

\* The fullest bucket; among several the map's order decides.
Fullest(map) ==
  {k \in DOMAIN map : \A j \in DOMAIN map : map[j].available <= map[k].available}

\* make_room_for_a_bucket: what is left of the map, and the bucket the arriving
\* key starts with.
MakeRoom ==
  IF Cardinality(DOMAIN buckets) < MaxBuckets
  THEN {[map |-> buckets, start |-> Full, free |-> 0]}
  ELSE IF Cardinality(DOMAIN Spent) < MaxBuckets
  THEN {[map |-> Spent, start |-> Full, free |-> 0]}
  ELSE {[map |-> Restrict(Spent, DOMAIN Spent \ {k}),
         start |-> Arriving(Spent[k].available),
         free |-> IF Spent[k].available = 0 THEN 1 ELSE 0] : k \in Fullest(Spent)}

\* The token is taken, or the attempt is refused without a comparison.
TakeToken(c, k, map, bucket) ==
  LET full == [map EXCEPT ![k] = bucket]
  IN  \/ /\ bucket.available = 0
         /\ buckets' = full
         /\ check' = [check EXCEPT ![c] = Refused(k)]
         /\ UNCHANGED spends
      \/ /\ bucket.available > 0
         /\ buckets' = [full EXCEPT ![k].available = @ - 1]
         /\ check' = [check EXCEPT ![c] = Comparing(k)]
         /\ spends' = spends + 1

\* spend() for a key that has a bucket.
Spend(c, k) ==
  /\ check[c].at = "idle" /\ k \in DOMAIN buckets
  /\ spends < MaxSpends
  /\ TakeToken(c, k, buckets, Refilled(buckets[k]))
  /\ UNCHANGED <<time, misses, granted>>

\* spend() for a key that has none.
SpendArriving(c, k) ==
  /\ check[c].at = "idle" /\ k \notin DOMAIN buckets
  /\ spends < MaxSpends
  /\ \E room \in MakeRoom :
       /\ TakeToken(c, k, [j \in DOMAIN room.map \cup {k} |->
                             IF j = k THEN room.start ELSE room.map[j]],
                    room.start)
       /\ granted' = granted + room.free
  /\ UNCHANGED <<time, misses>>

Refund(b) == [b EXCEPT !.available = Min({@ + 1, Burst})]

\* The credentials match: the token goes back, if its bucket is still there.
Match(c) ==
  /\ check[c].at = "comparing"
  /\ LET k == check[c].key
     IN  buckets' = IF k \in DOMAIN buckets
                    THEN [buckets EXCEPT ![k] = Refund(@)] ELSE buckets
  /\ check' = [check EXCEPT ![c] = Idle]
  /\ UNCHANGED <<time, misses, spends, granted>>

Mismatch(c) ==
  /\ check[c].at = "comparing"
  /\ misses' = misses + 1
  /\ check' = [check EXCEPT ![c] = Idle]
  /\ UNCHANGED <<time, buckets, spends, granted>>

\* 429 is answered.
Deliver(c) ==
  /\ check[c].at = "refused"
  /\ check' = [check EXCEPT ![c] = Idle]
  /\ UNCHANGED <<time, buckets, misses, spends, granted>>

\* Environment.
AuthTick ==
  /\ time < MaxTime
  /\ time' = time + 1
  /\ UNCHANGED <<buckets, check, misses, spends, granted>>

AuthNext ==
  \/ \E c \in Checks : Match(c) \/ Mismatch(c) \/ Deliver(c)
  \/ \E c \in Checks, k \in Keys : Spend(c, k) \/ SpendArriving(c, k)
  \/ AuthTick

AuthSpec == AuthInit /\ [][AuthNext]_authVars

----------------------------------------------------------------------------
\* BURST - available is computed without a sign: a bucket never holds more.
AuthTypeOK ==
  /\ time \in 0..MaxTime
  /\ DOMAIN buckets \subseteq Keys /\ Cardinality(DOMAIN buckets) <= MaxBuckets
  /\ \A k \in DOMAIN buckets :
       buckets[k] \in [available : 0..Burst, mark : 0..time]
  /\ check \in [Checks -> {Idle} \cup {Comparing(k) : k \in Keys}
                                 \cup {Refused(k) : k \in Keys}]
  /\ misses \in 0..MaxSpends /\ spends \in 0..MaxSpends /\ granted \in 0..MaxSpends

\* The tokens that are in the buckets, and the comparisons that can still be had
\* at once, without displacing anybody.
SpendableTokens ==
  {t \in (DOMAIN buckets) \X (1..Burst) : t[2] <= buckets[t[1]].available}

Potential ==
  (MaxBuckets - Cardinality(DOMAIN buckets)) * Burst + Cardinality(SpendableTokens)

InFlight == Cardinality({c \in Checks : check[c].at = "comparing"})

(***************************************************************************)
(* However the clients spread their attempts over keys, the comparisons    *)
(* that do not match are bounded by one burst per bucket of the map, one   *)
(* token per bucket and refill interval, and one per key that displaced an *)
(* empty bucket.  In particular a refund never gives back more than was    *)
(* spent, and the map never grows past MAX_AUTH_CLIENTS.                   *)
(***************************************************************************)
GuessesAreMetered ==
  misses + InFlight + Potential
    <= MaxBuckets * Burst + granted + MaxBuckets * (time \div Interval)

(***************************************************************************)
(* A client that has no bucket is heard, even if every bucket of a full    *)
(* map is empty (AuthThrottleTokens::arriving).                            *)
(***************************************************************************)
ArrivalIsHeard ==
  [][\A c \in Checks : check'[c].at = "refused" /\ check[c].at = "idle"
                         => check'[c].key \in DOMAIN buckets]_authVars

(***************************************************************************)
(* Guesses are metered however buckets come and go, and a client that is   *)
(* new is heard however full the map is.                                   *)
(***************************************************************************)
AuthSafety ==
    /\ [](AuthTypeOK /\ GuessesAreMetered)
    /\ ArrivalIsHeard
=============================================================================
