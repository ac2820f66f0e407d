----------------------------- MODULE CronProofs -----------------------------
(***************************************************************************)
(* CronSchedule for any set of workers, keys and deployments: an           *)
(* occurrence is published again only when it is claimed out of time, no   *)
(* cursor passes one in silence, a burst stays within its boundary and the *)
(* health report hides no failure.                                         *)
(***************************************************************************)
EXTENDS CronSchedule, WellFoundedInduction, TLAPS

-----------------------------------------------------------------------------
(***************************************************************************)
(* Times.  Everything rests on the order of occurrences: nothing lies      *)
(* between an occurrence and the next.                                     *)
(***************************************************************************)
LEMMA EarliestIs ==
    ASSUME NEW T, T \subseteq Nat, T # {}
    PROVE  Earliest(T) \in T /\ \A y \in T : Earliest(T) <= y
<1> DEFINE R == OpToRel(<, Nat)
<1>1. IsWellFoundedOn(R, Nat)
  BY NatLessThanWellFounded, Zenon
<1>2. R = {ss \in Nat \X Nat : ss[1] < ss[2]}
  BY DEF OpToRel
<1> HIDE DEF R
<1>a. \E x \in T : \A y \in T : <<y, x>> \notin R
  BY <1>1, WFMin, Zenon
<1>b. PICK x \in T : \A y \in T : <<y, x>> \notin R
  BY <1>a
<1>3. \A y \in T : ~(y < x)
  BY <1>2, <1>b
<1>4. \E z \in T : \A y \in T : z <= y
  BY <1>3
<1>5. QED
  BY <1>4 DEF Earliest

LEMMA LatestIs ==
    ASSUME NEW T, T \subseteq Nat, T # {}, NEW b \in Nat, \A y \in T : y <= b
    PROVE  Latest(T) \in T /\ \A y \in T : Latest(T) >= y
<1> DEFINE D == {d \in Nat : \E y \in T : d = b - y}
<1>a. \A y \in T : b - y \in Nat
  OBVIOUS
<1>1. D \subseteq Nat /\ D # {} /\ \A y \in T : b - y \in D
  BY <1>a
<1>2. \E m \in D : \A d \in D : m <= d
  <2> HIDE DEF D
  <2>1. QED
    BY <1>1, EarliestIs
<1>3. PICK x \in T : \A d \in D : b - x <= d
  BY <1>2
<1>4. \A y \in T : x >= y
  BY <1>1, <1>3
<1>5. QED
  BY <1>4 DEF Latest

\* The two cases of a pair.
LEMMA EarlierOfTwo ==
    ASSUME NEW a \in Nat, NEW b \in Nat
    PROVE  /\ Earliest({a, b}) \in Nat
           /\ Earliest({a, b}) <= a /\ Earliest({a, b}) <= b
<1> DEFINE T == {a, b}
<1>1. T \subseteq Nat /\ T # {} /\ a \in T /\ b \in T
  OBVIOUS
<1> HIDE DEF T
<1>2. Earliest(T) \in T /\ \A y \in T : Earliest(T) <= y
  BY <1>1, EarliestIs
<1>3. QED
  BY <1>1, <1>2 DEF T

LEMMA LaterOfTwo ==
    ASSUME NEW a \in Nat, NEW b \in Nat
    PROVE  /\ Latest({a, b}) \in Nat
           /\ Latest({a, b}) >= a /\ Latest({a, b}) >= b
<1> DEFINE T == {a, b}
<1>1. T \subseteq Nat /\ T # {} /\ a \in T /\ b \in T
  OBVIOUS
<1>2. a + b \in Nat /\ \A y \in T : y <= a + b
  OBVIOUS
<1> HIDE DEF T
<1>3. Latest(T) \in T /\ \A y \in T : Latest(T) >= y
  BY <1>1, <1>2, LatestIs
<1>4. QED
  BY <1>1, <1>3 DEF T

-----------------------------------------------------------------------------
(***************************************************************************)
(* The successor of an occurrence exists, is later, and nothing is between *)
(* them.  It depends on the expression alone, so it is the same for an     *)
(* entry and for a job published under it.                                 *)
(***************************************************************************)
LEMMA NextIs ==
    ASSUME CronAssumption, NEW e, e.expression \in Expression, NEW t \in Int
    PROVE  /\ NextOccurrence(e, t) # None =>
                /\ NextOccurrence(e, t) \in Fires[e.expression]
                /\ NextOccurrence(e, t) \in Nat
                /\ t < NextOccurrence(e, t)
           /\ \A x \in Fires[e.expression] :
                t < x => /\ NextOccurrence(e, t) # None
                         /\ NextOccurrence(e, t) <= x
<1> DEFINE T == {x \in Fires[e.expression] : x > t}
<1>1. T \subseteq Nat
  BY DEF CronAssumption
<1>2. T # {} => Earliest(T) \in T /\ \A y \in T : Earliest(T) <= y
  <2> HIDE DEF T
  <2>1. QED
    BY <1>1, EarliestIs
<1>3. NextOccurrence(e, t) = IF T = {} THEN None ELSE Earliest(T)
  BY DEF NextOccurrence
<1>4. None \notin Nat
  BY DEF CronAssumption
<1>5. QED
  BY <1>1, <1>2, <1>3, <1>4

LEMMA NextExists ==
    ASSUME CronAssumption, NEW e, e.expression \in Expression,
           NEW t \in 0..MaxClock, Fires[e.expression] # {}
    PROVE  NextOccurrence(e, t) # None
<1>1. PICK x \in Fires[e.expression] : x > MaxClock
  BY DEF CronAssumption
<1>2. x \in Nat /\ MaxClock \in Nat
  BY <1>1 DEF CronAssumption
<1>3. t < x
  BY <1>1, <1>2
<1>4. QED
  BY <1>1, <1>3, NextIs

LEMMA PreviousIs ==
    ASSUME CronAssumption, NEW e, e.expression \in Expression, NEW t \in Nat,
           NEW s \in Fires[e.expression], s <= t
    PROVE  /\ PreviousOccurrence(e, t) \in Fires[e.expression]
           /\ PreviousOccurrence(e, t) \in Nat
           /\ PreviousOccurrence(e, t) <= t
           /\ \A x \in Fires[e.expression] :
                x <= t => x <= PreviousOccurrence(e, t)
<1> DEFINE T == {x \in Fires[e.expression] : x <= t}
<1>1. T \subseteq Nat /\ T # {} /\ \A y \in T : y <= t
  BY DEF CronAssumption
<1>2. Latest(T) \in T /\ \A y \in T : Latest(T) >= y
  <2> HIDE DEF T
  <2>1. QED
    BY <1>1, LatestIs
<1>3. PreviousOccurrence(e, t) = Latest(T)
  BY DEF PreviousOccurrence
<1>4. Fires[e.expression] \subseteq Nat
  BY DEF CronAssumption
<1>5. QED
  BY <1>1, <1>2, <1>3, <1>4

LEMMA GraceIs ==
    ASSUME CronAssumption, NEW e \in Entry, NEW x \in Nat, NEW s \in Nat, x < s
    PROVE  Grace(e, x, s) \in Nat
<1>1. Second \in Nat /\ e.grace \in Nat /\ s - x \in Nat
  BY DEF CronAssumption, Entry
<1>2. (s - x) \div 5 \in Nat
  BY <1>1
<1>3. Latest({(s - x) \div 5, Second}) \in Nat
  BY <1>1, <1>2, LaterOfTwo
<1>4. QED
  BY <1>1, <1>3 DEF Grace

\* An occurrence that is in time now was in time before, and its successor is
\* still to come.
LEMMA InTimeIs ==
    ASSUME CronAssumption, NEW e \in Entry, NEW x \in Fires[e.expression],
           x <= MaxClock
    PROVE  /\ \A t \in Nat : InTime(e, x, t) => t < NextOccurrence(e, x)
           /\ \A t, r \in Nat : InTime(e, x, t) /\ r <= t => InTime(e, x, r)
<1> DEFINE s == NextOccurrence(e, x)
<1>1. e.expression \in Expression
  BY DEF Entry
<1>2. x \in Nat /\ MaxClock \in Nat
  BY <1>1 DEF CronAssumption
<1>3. s \in Nat /\ x < s
  BY <1>1, <1>2, NextExists, NextIs
<1>4. Grace(e, x, s) \in Nat
  BY <1>2, <1>3, GraceIs
<1>5. /\ Earliest({s, x + Grace(e, x, s)}) \in Nat
      /\ Earliest({s, x + Grace(e, x, s)}) <= s
  BY <1>2, <1>3, <1>4, EarlierOfTwo
<1>6. PublicationDeadline(e, x) = Earliest({s, x + Grace(e, x, s)})
  BY DEF PublicationDeadline
<1> DEFINE D == PublicationDeadline(e, x)
<1>7. D \in Nat /\ D <= s
  BY <1>5, <1>6
<1>8. \A t : InTime(e, x, t) <=> t < D
  BY Zenon DEF InTime
<1> HIDE DEF D
<1>9. QED
  BY <1>3, <1>7, <1>8

\* What is too late stays so.
LEMMA StaysLate ==
    ASSUME CronAssumption, NEW e \in Entry, NEW x \in Fires[e.expression],
           NEW y \in Fires[e.expression], x < y,
           NEW t \in Nat, NEW r \in Nat, t <= r, ~InTime(e, x, t)
    PROVE  ~InTime(e, x, r)
<1> DEFINE s == NextOccurrence(e, x)
<1>1. e.expression \in Expression
  BY DEF Entry
<1>2. x \in Nat /\ y \in Nat
  BY <1>1 DEF CronAssumption
<1>3. s \in Nat /\ x < s
  BY <1>1, <1>2, NextIs
<1>4. Grace(e, x, s) \in Nat
  BY <1>2, <1>3, GraceIs
<1>5. Earliest({s, x + Grace(e, x, s)}) \in Nat
  BY <1>2, <1>3, <1>4, EarlierOfTwo
<1>6. PICK d \in Nat : d = PublicationDeadline(e, x)
  BY <1>5 DEF PublicationDeadline
<1>7. ~(t < d)
  BY <1>6 DEF InTime
<1>8. ~(r < d)
  BY <1>6, <1>7
<1>9. QED
  BY <1>6, <1>8 DEF InTime

-----------------------------------------------------------------------------
(***************************************************************************)
(* What schedule_cron decides about a cursor that is due.  The occurrence  *)
(* is not before the cursor and not after the time it goes by; the cursor  *)
(* moves on to an occurrence; and what it leaves behind, apart from the    *)
(* occurrence it publishes, is too late.                                   *)
(***************************************************************************)
LEMMA LateBefore ==
    ASSUME CronAssumption, NEW e \in Entry, NEW x \in Fires[e.expression],
           NEW y \in Fires[e.expression], x < y,
           NEW t \in 0..MaxClock, y <= t
    PROVE  ~InTime(e, x, t)
<1>1. e.expression \in Expression
  BY DEF Entry
<1>2. x \in Nat /\ y \in Nat /\ MaxClock \in Nat
  BY <1>1 DEF CronAssumption
<1> DEFINE n == NextOccurrence(e, x)
<1>3. n \in Nat /\ n <= y
  BY <1>1, <1>2, NextIs
<1>4. InTime(e, x, t) => t < n
  BY <1>2, InTimeIs
<1> HIDE DEF n
<1>5. QED
  BY <1>2, <1>3, <1>4

\* The occurrence that is looked at, and the verdict on it.
Choice(e, stored, time) ==
    IF e.misfire = "skip" THEN SkipCatchUp(e, stored, time)
                          ELSE FireOnce(e, time)

LEMMA ChoiceIs ==
    ASSUME CronAssumption, NEW e \in Entry, NEW stored \in Fires[e.expression],
           NEW t \in 0..MaxClock, stored <= t,
           NEW c, c = Choice(e, stored, t)
    PROVE  /\ c.occurrence \in Fires[e.expression]
           /\ stored <= c.occurrence /\ c.occurrence <= t
           /\ c.publish =>
                \A x \in Fires[e.expression] : x <= t => x <= c.occurrence
           /\ ~c.publish =>
                \A x \in Fires[e.expression] :
                  stored <= x /\ x <= t => ~InTime(e, x, t)
<1> DEFINE recent == PreviousOccurrence(e, t)
           behind == ~InTime(e, stored, t) /\ recent > stored
                                           /\ InTime(e, recent, t)
<1>1. e.expression \in Expression
  BY DEF Entry
<1>2. Fires[e.expression] \subseteq Nat /\ MaxClock \in Nat
  BY <1>1 DEF CronAssumption
<1>3. /\ recent \in Fires[e.expression] /\ recent <= t
      /\ \A x \in Fires[e.expression] : x <= t => x <= recent
  BY <1>1, <1>2, PreviousIs
<1>4. InTime(e, stored, t) =>
        \A x \in Fires[e.expression] : x <= t => x <= stored
  <2>1. SUFFICES ASSUME InTime(e, stored, t),
                        NEW x \in Fires[e.expression], x <= t, x > stored
                 PROVE  FALSE
    BY <1>2
  <2>2. QED
    BY <2>1, <1>2, LateBefore
<1>5. CASE e.misfire = "skip"
  <2>1. c.occurrence = IF behind THEN recent ELSE stored
    BY <1>5 DEF Choice, SkipCatchUp
  <2>2. c.publish = (behind \/ InTime(e, stored, t))
    BY <1>5, Zenon DEF Choice, SkipCatchUp
  <2>3. behind \/ InTime(e, stored, t) =>
          \A x \in Fires[e.expression] : x <= t => x <= c.occurrence
    BY <1>2, <1>3, <1>4, <2>1
  <2>4. ASSUME ~(behind \/ InTime(e, stored, t)),
               NEW x \in Fires[e.expression], stored <= x, x <= t
        PROVE  ~InTime(e, x, t)
    <3>1. CASE x < recent
      BY <3>1, <1>2, <1>3, LateBefore
    <3>2. CASE x = recent
      BY <3>2, <2>4, <1>2
    <3>3. QED
      BY <3>1, <3>2, <2>4, <1>2, <1>3
  <2>5. stored <= c.occurrence /\ c.occurrence <= t
          /\ c.occurrence \in Fires[e.expression]
    BY <2>1, <1>2, <1>3
  <2>6. QED
    BY <2>2, <2>3, <2>4, <2>5, Zenon
<1>6. CASE e.misfire # "skip"
  <2>1. c.occurrence = recent /\ c.publish = TRUE
    BY <1>6 DEF Choice, FireOnce
  <2>2. QED
    BY <2>1, <1>2, <1>3
<1>7. QED
  BY <1>5, <1>6

\* A sound decision at `current` about a cursor that is due at t.
Sound(e, stored, t, current, d) ==
    /\ d.occurrence \in Fires[e.expression] /\ d.occurrence <= t
    /\ d.publish \in BOOLEAN /\ d.late \in BOOLEAN
    /\ d.next \in Fires[e.expression]
    /\ d.expires \in Nat
    /\ NextOccurrence(e, d.occurrence) <= d.expires
    /\ d.publish => /\ d.next = NextOccurrence(e, d.occurrence)
                    /\ InTime(e, d.occurrence, current)
    /\ \A x \in Fires[e.expression] :
         stored <= x /\ x < d.next =>
           \/ ~InTime(e, x, current)
           \/ x = d.occurrence /\ d.publish

LEMMA DecisionIs ==
    ASSUME CronAssumption, NEW e \in Entry, NEW stored \in Fires[e.expression],
           NEW current \in 0..MaxClock,
           NEW w \in Worker, NEW t \in 0..MaxClock, t = SchedulingTime(w, current),
           stored <= t, t <= current,
           NEW d, d = Decision(w, e, stored, current)
    PROVE  Sound(e, stored, t, current, d)
<1>1. PICK c : c = Choice(e, stored, t)
  OBVIOUS
<1> DEFINE successor == NextOccurrence(e, c.occurrence)
           publish == c.publish /\ InTime(e, c.occurrence, current)
<1>2. d = [occurrence |-> c.occurrence,
           publish |-> publish,
           next |-> IF publish THEN successor ELSE NextOccurrence(e, t),
           expires |-> ClaimExpiry(successor, current),
           late |-> FALSE]
  BY <1>1, Zenon DEF Decision, Choice
<1>3. /\ c.occurrence \in Fires[e.expression]
      /\ stored <= c.occurrence /\ c.occurrence <= t
      /\ c.publish =>
           \A x \in Fires[e.expression] : x <= t => x <= c.occurrence
      /\ ~c.publish =>
           \A x \in Fires[e.expression] :
             stored <= x /\ x <= t => ~InTime(e, x, t)
  BY <1>1, ChoiceIs
<1>4. e.expression \in Expression
  BY DEF Entry
<1>5. /\ Fires[e.expression] \subseteq Nat /\ MaxClock \in Nat
      /\ Fires[e.expression] # {} /\ Second \in Nat
  BY <1>4 DEF CronAssumption
<1>6. /\ successor \in Fires[e.expression] /\ successor \in Nat
      /\ \A x \in Fires[e.expression] : x < successor => x <= c.occurrence
  <2>1. c.occurrence \in 0..MaxClock
    BY <1>3, <1>5
  <2>2. successor # None
    BY <2>1, <1>4, <1>5, NextExists
  <2>3. QED
    BY <2>1, <2>2, <1>4, <1>5, NextIs
<1> DEFINE upcoming == NextOccurrence(e, t)
<1>7. /\ upcoming \in Fires[e.expression] /\ upcoming \in Nat
      /\ \A x \in Fires[e.expression] : x < upcoming => x <= t
  <2>1. upcoming # None
    BY <1>4, <1>5, NextExists
  <2>2. QED
    BY <2>1, <1>4, <1>5, NextIs
<1>8. /\ ClaimExpiry(successor, current) \in Nat
      /\ successor <= ClaimExpiry(successor, current)
  BY <1>5, <1>6, LaterOfTwo DEF ClaimExpiry
<1>9. /\ d.occurrence = c.occurrence
      /\ d.expires = ClaimExpiry(successor, current)
      /\ d.next = IF publish THEN successor ELSE upcoming
  BY <1>2
<1>10. d.publish = publish
  <2> HIDE DEF publish
  <2>1. QED
    BY <1>2
<1>11. ASSUME NEW x \in Fires[e.expression], stored <= x, x < d.next
       PROVE  ~InTime(e, x, current) \/ (x = c.occurrence /\ publish)
  <2>1. CASE x < c.occurrence
    BY <2>1, <1>3, <1>5, LateBefore
  <2>2. CASE publish
    <3>1. x <= c.occurrence
      BY <2>2, <1>6, <1>9, <1>11
    <3>2. QED
      BY <3>1, <2>1, <2>2, <1>3, <1>5
  <2>3. CASE ~publish
    <3>1. x <= t
      BY <2>3, <1>7, <1>9, <1>11
    <3>2. CASE c.publish
      <4>1. x <= c.occurrence
        BY <3>1, <3>2, <1>3
      <4>2. CASE x = c.occurrence
        BY <4>2, <2>3, <3>2
      <4>3. QED
        BY <4>1, <4>2, <2>1, <1>3, <1>5
    <3>3. CASE ~c.publish
      <4>1. ~InTime(e, x, t)
        BY <3>1, <3>3, <1>3, <1>11
      <4>2. x <= MaxClock /\ current \in Nat /\ t \in Nat
        BY <3>1, <1>5
      <4>3. QED
        BY <4>1, <4>2, InTimeIs
    <3>4. QED
      BY <3>2, <3>3
  <2>4. QED
    BY <2>2, <2>3
<1> HIDE DEF successor, publish, upcoming
<1>12. publish \in BOOLEAN
  BY Zenon DEF publish
<1>13. publish => InTime(e, c.occurrence, current)
  BY Zenon DEF publish
<1>14. d.next \in Fires[e.expression]
  BY <1>6, <1>7, <1>9
<1>15. NextOccurrence(e, d.occurrence) <= d.expires
  BY <1>8, <1>9, Zenon DEF successor
<1>16. d.publish => /\ d.next = NextOccurrence(e, d.occurrence)
                    /\ InTime(e, d.occurrence, current)
  BY <1>9, <1>10, <1>13, Zenon DEF successor
<1>17. d.occurrence <= t /\ d.occurrence \in Fires[e.expression]
  BY <1>3, <1>9
<1>18. d.expires \in Nat
  BY <1>8, <1>9
<1>19. d.publish \in BOOLEAN /\ d.late \in BOOLEAN
  <2>1. d.late = FALSE
    BY <1>2
  <2>2. QED
    BY <1>10, <1>12, <2>1, Zenon
<1>20. ASSUME NEW x \in Fires[e.expression], stored <= x, x < d.next
       PROVE  ~InTime(e, x, current) \/ (x = d.occurrence /\ d.publish)
  BY <1>9, <1>10, <1>11, <1>20, Zenon
<1>21. QED
  BY <1>14, <1>15, <1>16, <1>17, <1>18, <1>19, <1>20, Zenon DEF Sound

-----------------------------------------------------------------------------
(***************************************************************************)
(* The inductive invariant.                                                *)
(***************************************************************************)
Holder == Worker \cup {None, Stranger}
Claim == [at : Nat, expires : Nat]
Published == [at : Nat, expression : Expression, revision : Nat,
              late : BOOLEAN]
Plan == [occurrence : Nat, publish : BOOLEAN, next : Nat, expires : Nat,
         late : BOOLEAN]
SchedState == [disabled : SUBSET CronKey, reasons : SUBSET CronKey,
               unreconciled : SUBSET CronKey, rejected : SUBSET CronKey,
               contended : [CronKey -> Nat], failed : BOOLEAN]
AtKey == {"upsert", "lock", "decide", "claim", "insert", "reread"}
Locking == {"decide", "claim", "insert", "reread"}
Claiming == {"claim", "insert", "reread"}
Step == {"down", "boundary", "idle", "done", "failed"}
            \cup InPass \cup Reconciling

TableTyped ==
    /\ deployment \in Deployments
    /\ clock \in 0..MaxClock
    /\ schedule \in [CronKey -> ScheduleRow \cup {None}]
    /\ rowLock \in [CronKey -> Holder] /\ advisory \in [CronKey -> Holder]
    /\ claims \in [CronKey -> SUBSET Claim]
    /\ live \in [CronKey -> BOOLEAN]
    /\ jobs \in [CronKey -> Seq(Published)]
    /\ mishaps \in 0..MaxMishaps /\ events \in 0..MaxEvents

LocalTyped ==
    /\ step \in [Worker -> Step]
    /\ starting \in [Worker -> BOOLEAN]
    /\ through \in [Worker -> 0..MaxClock \cup {None}]
    /\ todo \in [Worker -> SUBSET CronKey]
    /\ key \in [Worker -> CronKey \cup {None}]
    /\ now \in [Worker -> 0..MaxClock \cup {None}]
    /\ plan \in [Worker -> Plan]
    /\ state \in [Worker -> SchedState]
    /\ advanced \in [Worker -> BOOLEAN]
    /\ health \in [Worker -> {"starting", "ok", "failed"}]

\* A row is some worker's entry, and its cursor one of its occurrences.
Stored ==
    \A k \in CronKey : schedule[k] # None =>
        /\ \E w \in Worker : k \in Registered(w)
                             /\ schedule[k].entry = Crons(w)[k]
        /\ schedule[k].next \in Fires[schedule[k].entry.expression]

\* A published occurrence has its claim for as long as it could be published
\* again.
Remembered ==
    \A k \in CronKey : \A i \in DOMAIN jobs[k] :
        LET x == jobs[k][i].at
            next == NextOccurrence(jobs[k][i], x)
        IN  /\ next \in Nat
            /\ \/ next <= clock
               \/ \E c \in claims[k] : c.at = x /\ next <= c.expires

\* The crons of a worker by what it holds against them: what is disabled has a
\* reason and is not retried, what is still to do is neither.
Lists(w) ==
    /\ todo[w] \cup state[w].unreconciled \subseteq Registered(w)
    /\ todo[w] \cap (state[w].disabled \cup state[w].rejected) = {}
    /\ state[w].disabled \cap state[w].unreconciled = {}
    /\ state[w].rejected \subseteq state[w].unreconciled
    /\ state[w].disabled \subseteq state[w].reasons
    /\ step[w] \in InPass => todo[w] \cap state[w].unreconciled = {}
    /\ step[w] \in AtKey => key[w] \in todo[w]

\* What is to be reconciled is known to the next report: it is rejected, still
\* to do in this pass, or the pass failed.
Reported(w) ==
    /\ step[w] = "down" => state[w] = FreshState /\ health[w] = "starting"
    /\ starting[w] => /\ step[w] \in Reconciling
                      /\ health[w] = "starting"
                      /\ state[w].unreconciled \subseteq state[w].rejected
    /\ step[w] \in Reconciling =>
         state[w].unreconciled \subseteq state[w].rejected \cup todo[w]
    /\ step[w] \in InPass =>
         state[w].failed \/ state[w].unreconciled \subseteq state[w].rejected
    /\ step[w] \notin InPass => ~state[w].failed
    /\ step[w] \in {"idle", "boundary"} /\ health[w] = "ok" =>
         state[w].disabled = {} /\ state[w].unreconciled = {}

\* Clock readings are not ahead of the clock; a burst has its boundary.
Timed(w) ==
    /\ through[w] # None => through[w] <= clock
    /\ w \notin Bursts => through[w] = None /\ step[w] # "boundary"
    /\ /\ w \in Bursts
       /\ step[w] \in InPass \cup Reconciling \cup {"idle"}
       /\ ~starting[w]
       => through[w] # None
    /\ step[w] \in {"upsert", "lock"} => now[w] # None /\ now[w] <= clock

\* A transaction with a row has it locked, and it is the row it selected.
Locked(w) ==
    step[w] \in Locking =>
        /\ rowLock[key[w]] = w
        /\ schedule[key[w]] # None
        /\ schedule[key[w]].entry = Crons(w)[key[w]]
        /\ schedule[key[w]].next <= SchedulingTime(w, clock)
        /\ step[w] # "decide" => advisory[key[w]] = w

\* What holds of a decision while time passes: it moves the cursor to an
\* occurrence, and what it leaves behind is late or what it publishes.
Standing(e, stored, t, current, p) ==
    /\ p.occurrence \in Fires[e.expression] /\ p.occurrence <= t
    /\ p.next \in Fires[e.expression]
    /\ NextOccurrence(e, p.occurrence) <= p.expires
    /\ \A x \in Fires[e.expression] :
         stored <= x /\ x < p.next =>
           \/ ~InTime(e, x, current)
           \/ x = p.occurrence /\ p.publish

\* Nobody claims the planned occurrence before the commit, and it has no job
\* unless the plan is late.
Planned(w) ==
    LET k == key[w]
        e == Crons(w)[k]
        p == plan[w]
    IN
    /\ step[w] \in Claiming =>
         Standing(e, schedule[k].next, SchedulingTime(w, clock), clock, p)
    /\ step[w] \in {"insert", "reread"} =>
         /\ \A c \in claims[k] : c.at # p.occurrence
         /\ \A i \in DOMAIN jobs[k] :
              /\ jobs[k][i].at = p.occurrence
              /\ jobs[k][i].expression = e.expression
              => p.late

Scheduling(w) ==
    Lists(w) /\ Reported(w) /\ Timed(w) /\ Locked(w) /\ Planned(w)

CronInv ==
    /\ TableTyped /\ LocalTyped /\ Stored /\ Remembered /\ PublishedOnce
    /\ \A w \in Worker : Scheduling(w)

-----------------------------------------------------------------------------
(***************************************************************************)
(* What the deployment says.                                               *)
(***************************************************************************)
LEMMA Entries ==
    ASSUME CronAssumption, deployment \in Deployments, NEW w \in Worker
    PROVE  /\ Registered(w) \subseteq CronKey
           /\ Bursts \subseteq Worker
           /\ \A k \in Registered(w) :
                /\ Crons(w)[k] \in Entry
                /\ Crons(w)[k].expression \in Expression
                /\ Crons(w)[k].revision \in Nat
                /\ Fires[Crons(w)[k].expression] \subseteq Nat
<1>1. /\ Registered(w) \subseteq CronKey /\ Bursts \subseteq Worker
      /\ \A k \in Registered(w) : Crons(w)[k] \in Entry
  BY DEF CronAssumption, Registered, Crons, Bursts
<1>2. \A e \in Entry : /\ e.expression \in Expression /\ e.revision \in Nat
                       /\ Fires[e.expression] \subseteq Nat
  BY DEF CronAssumption, Entry
<1>3. QED
  BY <1>1, <1>2

\* A row of the release of a worker is that worker's entry.
LEMMA ReleasesAgree ==
    ASSUME CronAssumption, deployment \in Deployments, Stored,
           NEW w \in Worker, NEW k \in Registered(w), k \in CronKey,
           schedule[k] # None, SameRelease(schedule[k].entry, Crons(w)[k])
    PROVE  schedule[k].entry = Crons(w)[k]
<1>1. PICK v \in Worker : /\ k \in Registered(v)
                          /\ schedule[k].entry = Crons(v)[k]
  BY DEF Stored
<1>2. SameRelease(Crons(v)[k], Crons(w)[k]) => Crons(v)[k] = Crons(w)[k]
  BY <1>1 DEF CronAssumption, Registered, Crons
<1>3. QED
  BY <1>1, <1>2

-----------------------------------------------------------------------------
(***************************************************************************)
(* Who is not concerned keeps its part of the invariant.                   *)
(***************************************************************************)
Same(v) ==
    /\ step'[v] = step[v] /\ starting'[v] = starting[v]
    /\ through'[v] = through[v] /\ todo'[v] = todo[v] /\ key'[v] = key[v]
    /\ now'[v] = now[v] /\ plan'[v] = plan[v] /\ state'[v] = state[v]
    /\ health'[v] = health[v]

\* What a transaction has locked is left alone by the others.
Spared(v) ==
    \A k \in CronKey : rowLock[k] = v =>
        /\ rowLock'[k] = v /\ schedule'[k] = schedule[k]
        /\ claims'[k] \subseteq claims[k] /\ jobs'[k] = jobs[k]
        /\ advisory[k] = v => advisory'[k] = v

LEMMA StandingStays ==
    ASSUME CronAssumption, NEW e \in Entry, NEW stored, NEW t, NEW u,
           NEW current \in Nat, NEW after \in Nat, current <= after, NEW p,
           \A x \in Nat : x <= t => x <= u,
           Standing(e, stored, t, current, p)
    PROVE  Standing(e, stored, u, after, p)
<1>1. Fires[e.expression] \subseteq Nat
  BY DEF CronAssumption, Entry
<1>2. ASSUME NEW x \in Fires[e.expression], stored <= x, x < p.next
      PROVE  ~InTime(e, x, after) \/ (x = p.occurrence /\ p.publish)
  <2>1. p.next \in Fires[e.expression]
    BY DEF Standing
  <2>2. CASE ~InTime(e, x, current)
    BY <1>2, <2>1, <2>2, StaysLate
  <2>3. QED
    BY <1>2, <2>2 DEF Standing
<1>3. /\ p.occurrence \in Fires[e.expression] /\ p.occurrence <= u
      /\ p.next \in Fires[e.expression]
      /\ NextOccurrence(e, p.occurrence) <= p.expires
  BY <1>1 DEF Standing
<1>4. QED
  BY <1>2, <1>3 DEF Standing

LEMMA KeptOK ==
    ASSUME CronAssumption, CronInv, NEW v \in Worker, Same(v), Spared(v),
           deployment' = deployment, clock' \in Nat, clock <= clock'
    PROVE  Scheduling(v)'
<1>1. /\ Crons(v)' = Crons(v) /\ Registered(v)' = Registered(v)
      /\ Bursts' = Bursts
  BY DEF Crons, Registered, Bursts
<1>2. deployment \in Deployments /\ clock \in Nat
  BY DEF CronInv, TableTyped
<1>3. /\ Lists(v) /\ Reported(v) /\ Timed(v) /\ Locked(v) /\ Planned(v)
  BY DEF CronInv, Scheduling
<1>4. Lists(v)' /\ Reported(v)'
  BY <1>1, <1>3 DEF Lists, Reported, Same
<1>5. through[v] \in Nat \cup {None} /\ now[v] \in Nat \cup {None}
  BY DEF CronInv, LocalTyped, CronAssumption
<1>6. Timed(v)'
  BY <1>1, <1>2, <1>3, <1>5 DEF Timed, Same
<1>7. CASE step[v] \notin Locking
  BY <1>4, <1>6, <1>7 DEF Scheduling, Locked, Planned, Same, Locking, Claiming
<1>8. CASE step[v] \in Locking
  <2>1. PICK k : k = key[v]
    OBVIOUS
  <2>2. k \in Registered(v) /\ k \in CronKey
    BY <1>2, <1>3, <1>8, <2>1, Entries DEF Lists, Locking, AtKey
  <2>3. /\ rowLock'[k] = v /\ schedule'[k] = schedule[k]
        /\ claims'[k] \subseteq claims[k] /\ jobs'[k] = jobs[k]
        /\ advisory[k] = v => advisory'[k] = v
    BY <1>3, <1>8, <2>1, <2>2 DEF Spared, Locked
  <2>4. \A x \in Nat : x <= SchedulingTime(v, clock) =>
                         x <= SchedulingTime(v, clock)'
    BY <1>2, <1>5 DEF SchedulingTime, Same
  <2>5. schedule[k].next \in Nat
    BY <2>1, <2>2, <1>3, <1>8 DEF CronInv, TableTyped, ScheduleRow, Locked
  <2>6. Locked(v)'
    BY <1>1, <1>3, <2>1, <2>3, <2>4, <2>5 DEF Locked, Same
  <2>7. Planned(v)'
    <3>1. SUFFICES ASSUME step[v] \in Claiming
                   PROVE  Planned(v)'
      BY DEF Planned, Same, Claiming
    <3>2. PICK e : e = Crons(v)[k]
      OBVIOUS
    <3>3. PICK p : p = plan[v]
      OBVIOUS
    <3>4. PICK stored : stored = schedule[k].next
      OBVIOUS
    <3>5. Standing(e, stored, SchedulingTime(v, clock), clock, p)
      BY <1>3, <2>1, <3>1, <3>2, <3>3, <3>4 DEF Planned
    <3>6. e \in Entry
      BY <1>2, <2>2, <3>2, Entries
    <3>7. Standing(e, stored, SchedulingTime(v, clock)', clock', p)
      BY <1>2, <2>4, <3>5, <3>6, StandingStays
    <3>8. /\ key'[v] = k /\ plan'[v] = p /\ Crons(v)' = Crons(v)
          /\ step'[v] = step[v] /\ schedule'[k].next = stored
      BY <1>1, <2>1, <2>3, <3>3, <3>4 DEF Same
    <3>9. Standing(Crons(v)'[key'[v]], schedule'[key'[v]].next,
                   SchedulingTime(v, clock)', clock', plan'[v])
      BY <3>2, <3>7, <3>8
    <3>10. step[v] \in {"insert", "reread"} =>
             /\ \A c \in claims'[k] : c.at # p.occurrence
             /\ \A i \in DOMAIN jobs'[k] :
                  /\ jobs'[k][i].at = p.occurrence
                  /\ jobs'[k][i].expression = e.expression
                  => p.late
      BY <1>3, <2>1, <2>3, <3>2, <3>3 DEF Planned
    <3>11. QED
      BY <3>2, <3>8, <3>9, <3>10 DEF Planned
  <2>8. QED
    BY <1>4, <1>6, <2>6, <2>7 DEF Scheduling
<1>9. QED
  BY <1>7, <1>8

\* A step of one worker.
LEMMA StepOK ==
    ASSUME CronAssumption, CronInv, NEW w \in Worker,
           deployment' = deployment, clock' = clock,
           TableTyped', LocalTyped', Stored', Remembered', PublishedOnce',
           \A v \in Worker \ {w} : Same(v) /\ Spared(v),
           Scheduling(w)'
    PROVE  CronInv'
<1>1. clock' \in Nat /\ clock <= clock'
  BY DEF CronInv, TableTyped, CronAssumption
<1>2. \A v \in Worker \ {w} : Scheduling(v)'
  BY <1>1, KeptOK
<1>3. QED
  BY <1>2 DEF CronInv

\* It leaves the table alone, and lets go of its own locks at most.
LEMMA TableKept ==
    ASSUME CronAssumption, CronInv, NEW w \in Worker,
           UNCHANGED <<deployment, clock, table>>,
           UNCHANGED locks \/ Unlock(w),
           mishaps' \in 0..MaxMishaps, events' \in 0..MaxEvents
    PROVE  /\ TableTyped' /\ Stored' /\ Remembered' /\ PublishedOnce'
           /\ \A v \in Worker \ {w} : Spared(v)
<1>1. TableTyped'
  BY DEF CronInv, TableTyped, table, locks, Unlock, Holder
<1>2. Stored' /\ Remembered' /\ PublishedOnce'
  BY DEF CronInv, Stored, Remembered, PublishedOnce, table, Registered, Crons
<1>3. \A v \in Worker \ {w} : Spared(v)
  BY DEF Spared, table, locks, Unlock
<1>4. QED
  BY <1>1, <1>2, <1>3

LEMMA QuietStep ==
    ASSUME CronAssumption, CronInv, NEW w \in Worker,
           UNCHANGED <<deployment, clock, table>>,
           UNCHANGED locks \/ Unlock(w),
           mishaps' \in 0..MaxMishaps, events' \in 0..MaxEvents,
           LocalTyped', \A v \in Worker \ {w} : Same(v), Scheduling(w)'
    PROVE  CronInv'
<1>1. /\ TableTyped' /\ Stored' /\ Remembered' /\ PublishedOnce'
      /\ \A v \in Worker \ {w} : Spared(v)
  BY TableKept
<1>2. QED
  BY <1>1, StepOK

-----------------------------------------------------------------------------
(***************************************************************************)
(* What each outcome does to the state of a scheduler.                     *)
(***************************************************************************)
LEMMA FreshIs ==
    ASSUME CronAssumption
    PROVE  FreshState \in SchedState /\ ~FreshState.failed
BY DEF FreshState, SchedState

LEMMA DisableIs ==
    ASSUME NEW st \in SchedState, NEW k \in CronKey, NEW n, n = Disable(st, k)
    PROVE  /\ n \in SchedState
           /\ n.disabled = st.disabled \cup {k}
           /\ n.reasons = st.reasons \cup {k}
           /\ n.unreconciled = st.unreconciled \ {k}
           /\ n.rejected = st.rejected /\ n.failed = st.failed
BY DEF Disable, SchedState

LEMMA PostponeIs ==
    ASSUME NEW st \in SchedState, NEW k \in CronKey, NEW n, n = Postpone(st, k)
    PROVE  /\ n \in SchedState
           /\ n.disabled = st.disabled /\ n.reasons = st.reasons
           /\ n.unreconciled = st.unreconciled \cup {k}
           /\ n.rejected = st.rejected \cup {k} /\ n.failed = st.failed
BY DEF Postpone, SchedState

LEMMA SettleIs ==
    ASSUME NEW st \in SchedState, NEW k \in CronKey, NEW n, n = Settle(st, k)
    PROVE  /\ n \in SchedState
           /\ n.disabled = st.disabled /\ n.reasons = st.reasons
           /\ n.unreconciled = st.unreconciled \ {k}
           /\ n.rejected = st.rejected /\ n.failed = st.failed
BY DEF Settle, SchedState

LEMMA TroubledIs ==
    ASSUME NEW st \in SchedState, NEW k \in CronKey, NEW n, n = Troubled(st, k)
    PROVE  /\ n \in SchedState
           /\ n.disabled = st.disabled /\ n.reasons = st.reasons
           /\ n.unreconciled = st.unreconciled \cup {k}
           /\ n.rejected = st.rejected /\ n.failed
BY DEF Troubled, SchedState

LEMMA ForgetIs ==
    ASSUME NEW st \in SchedState, NEW n, n = ForgetRejected(st)
    PROVE  /\ n \in SchedState
           /\ n.disabled = st.disabled /\ n.reasons = st.reasons
           /\ n.unreconciled = st.unreconciled
           /\ n.rejected = {} /\ n.failed = st.failed
BY DEF ForgetRejected, SchedState

\* The counters of contention alone.
Recounted(n, st) ==
    /\ n \in SchedState
    /\ n.disabled = st.disabled /\ n.reasons = st.reasons
    /\ n.unreconciled = st.unreconciled
    /\ n.rejected = st.rejected /\ n.failed = st.failed

LEMMA CalmIs ==
    ASSUME NEW st \in SchedState, NEW k \in CronKey
    PROVE  Recounted([st EXCEPT !.contended[k] = 0], st)
BY DEF SchedState, Recounted

LEMMA ContendedIs ==
    ASSUME CronAssumption, NEW st \in SchedState, NEW k \in CronKey
    PROVE  Recounted(Contended(st, k), st)
<1> DEFINE n == IF st.contended[k] < MaxContended THEN st.contended[k] + 1
                                                  ELSE st.contended[k]
<1>1. n \in Nat
  BY DEF SchedState
<1>2. Contended(st, k) = [st EXCEPT !.contended[k] = n]
  BY DEF Contended, SchedState
<1> HIDE DEF n
<1>3. QED
  BY <1>1, <1>2 DEF SchedState, Recounted

LEMMA DueCountIs ==
    ASSUME NEW st \in SchedState, NEW due
    PROVE  Recounted([st EXCEPT !.contended =
                        [k \in CronKey |-> IF k \in due THEN @[k] ELSE 0]], st)
BY DEF SchedState, Recounted

\* The mark of a failed pass lasts as long as the pass.
PassMark(st, rest) == [st EXCEPT !.failed = @ /\ rest # {}]

LEMMA PassMarkIs ==
    ASSUME NEW st \in SchedState, NEW rest, NEW n, n = PassMark(st, rest)
    PROVE  /\ n \in SchedState
           /\ n.disabled = st.disabled /\ n.reasons = st.reasons
           /\ n.unreconciled = st.unreconciled /\ n.rejected = st.rejected
           /\ rest # {} => n.failed = st.failed
           /\ rest = {} => ~n.failed
<1> DEFINE f == st.failed /\ rest # {}
<1>1. f \in BOOLEAN /\ (rest # {} => f = st.failed) /\ (rest = {} => ~f)
  BY DEF SchedState
<1> HIDE DEF f
<1>2. n = [st EXCEPT !.failed = f]
  BY DEF f, PassMark
<1>3. QED
  BY <1>1, <1>2 DEF SchedState

\* A good report means that nothing is held against any cron.
LEMMA ReportIs ==
    ASSUME NEW st \in SchedState
    PROVE  /\ SchedulerHealth(st) \in {"ok", "failed"}
           /\ SchedulerHealth(st) = "ok" =>
                st.reasons = {} /\ st.rejected = {} /\ ~st.failed
BY DEF SchedulerHealth

-----------------------------------------------------------------------------
(***************************************************************************)
(* A pass goes from cron to cron.  What is left to do and what is held     *)
(* against the crons stay apart.                                           *)
(***************************************************************************)
Filed(w, rest, st) ==
    /\ rest \cup st.unreconciled \subseteq Registered(w)
    /\ rest \cap (st.disabled \cup st.unreconciled) = {}
    /\ st.disabled \cap st.unreconciled = {}
    /\ st.rejected \subseteq st.unreconciled
    /\ st.disabled \subseteq st.reasons
    /\ st.failed \/ st.unreconciled \subseteq st.rejected

LEMMA Locals ==
    ASSUME CronInv, NEW w \in Worker
    PROVE  /\ Lists(w) /\ Reported(w) /\ Timed(w) /\ Locked(w) /\ Planned(w)
           /\ state[w] \in SchedState /\ todo[w] \subseteq CronKey
           /\ step[w] \in Step /\ starting[w] \in BOOLEAN
           /\ advanced[w] \in BOOLEAN
           /\ health[w] \in {"starting", "ok", "failed"}
           /\ through[w] \in 0..MaxClock \cup {None}
           /\ now[w] \in 0..MaxClock \cup {None}
           /\ plan[w] \in Plan /\ clock \in 0..MaxClock
           /\ deployment \in Deployments /\ Stored /\ Remembered
BY DEF CronInv, Scheduling, LocalTyped, TableTyped

\* The pass is over with a cron: as it was, given up, or in trouble.
Outcome(n, c, k) == n = c \/ n = Disable(c, k) \/ n = Troubled(c, k)

LEMMA FiledAfter ==
    ASSUME CronAssumption, CronInv, NEW w \in Worker, step[w] \in InPass,
           NEW k \in todo[w], NEW c, Recounted(c, state[w]),
           NEW n, Outcome(n, c, k)
    PROVE  n \in SchedState /\ Filed(w, todo[w] \ {k}, n)
<1>1. /\ k \in CronKey /\ k \in Registered(w)
      /\ Lists(w) /\ Reported(w)
  BY Locals DEF Lists
<1>2. CASE n = c
  BY <1>1, <1>2 DEF Recounted, Filed, Lists, Reported
<1>3. CASE n = Disable(c, k)
  BY <1>1, <1>3, DisableIs DEF Recounted, Filed, Lists, Reported
<1>4. CASE n = Troubled(c, k)
  BY <1>1, <1>4, TroubledIs DEF Recounted, Filed, Lists, Reported
<1>5. QED
  BY <1>2, <1>3, <1>4 DEF Outcome

LEMMA AfterCronIs ==
    ASSUME NEW w, NEW rest, NEW st, NEW moved,
           NEW n \in AfterCron(w, rest, st, moved)
    PROVE  /\ n \in {"observe", "idle", "failed", "done"}
           /\ n = "observe" <=> rest # {}
           /\ n = "done" => w \in Bursts /\ st.unreconciled = {} /\ ~moved
BY DEF AfterCron

LEMMA ProceedOK ==
    ASSUME CronAssumption, CronInv, deployment' = deployment,
           NEW w \in Worker, step[w] \in InPass,
           NEW rest, NEW st \in SchedState, NEW moved \in BOOLEAN,
           Filed(w, rest, st), Proceed(w, rest, st, moved)
    PROVE  LocalTyped' /\ (\A v \in Worker \ {w} : Same(v)) /\ Scheduling(w)'
<1>1. PICK n : n = PassMark(st, rest)
  OBVIOUS
<1>2. /\ n \in SchedState
      /\ n.disabled = st.disabled /\ n.reasons = st.reasons
      /\ n.unreconciled = st.unreconciled /\ n.rejected = st.rejected
      /\ rest # {} => n.failed = st.failed
      /\ rest = {} => ~n.failed
  BY <1>1, PassMarkIs
<1>3. PICK h : h = IF rest = {} THEN SchedulerHealth(st) ELSE health[w]
  OBVIOUS
<1>4. PICK s \in AfterCron(w, rest, st, moved) : step' = [step EXCEPT ![w] = s]
  BY DEF Proceed
<1>5. /\ s \in {"observe", "idle", "failed", "done"}
      /\ s = "observe" <=> rest # {}
  BY <1>4, AfterCronIs
<1>6. PICK b : b = (moved /\ rest # {})
  OBVIOUS
<1>7. b \in BOOLEAN
  BY <1>6
<1>8. /\ state' = [state EXCEPT ![w] = n] /\ todo' = [todo EXCEPT ![w] = rest]
      /\ health' = [health EXCEPT ![w] = h]
      /\ Finished(w) /\ UNCHANGED <<clock, starting, through>>
  BY <1>1, <1>3 DEF Proceed, PassMark
<1>9. advanced' = [advanced EXCEPT ![w] = b]
  BY <1>6 DEF Proceed
<1>10. /\ Lists(w) /\ Reported(w) /\ Timed(w) /\ deployment \in Deployments
       /\ health[w] \in {"starting", "ok", "failed"} /\ LocalTyped
  BY Locals DEF CronInv
<1>11. h \in {"starting", "ok", "failed"}
  BY <1>3, <1>10, ReportIs
<1>12. rest \subseteq CronKey
  BY <1>10, Entries DEF Filed
<1>13. NoPlan \in Plan
  BY DEF NoPlan, Plan
<1>14. LocalTyped'
  BY <1>2, <1>4, <1>5, <1>7, <1>8, <1>9, <1>10, <1>11, <1>12, <1>13
     DEF LocalTyped, Finished, Step, InPass
<1>15. \A v \in Worker \ {w} : Same(v)
  BY <1>4, <1>8, <1>10 DEF Same, Finished, LocalTyped
<1>16. /\ step'[w] = s /\ state'[w] = n /\ todo'[w] = rest /\ health'[w] = h
       /\ starting'[w] = starting[w] /\ through'[w] = through[w]
  BY <1>4, <1>8, <1>10 DEF LocalTyped
<1>17. /\ Registered(w)' = Registered(w) /\ Bursts' = Bursts
  BY DEF Registered, Crons, Bursts
<1>18. Lists(w)'
  BY <1>2, <1>5, <1>16, <1>17 DEF Lists, Filed, InPass, AtKey
<1>19. ~starting[w]
  BY <1>10 DEF Reported, InPass, Reconciling
<1>20. Reported(w)'
  <2>1. s = "idle" /\ h = "ok" => n.disabled = {} /\ n.unreconciled = {}
    BY <1>2, <1>3, <1>5, ReportIs DEF Filed
  <2>2. n.failed \/ n.unreconciled \subseteq n.rejected \/ rest = {}
    BY <1>2 DEF Filed
  <2>3. QED
    BY <1>2, <1>5, <1>16, <1>19, <2>1, <2>2
       DEF Reported, InPass, Reconciling
<1>21. Timed(w)'
  BY <1>5, <1>8, <1>10, <1>16, <1>17, <1>19 DEF Timed, InPass, Reconciling
<1>22. Locked(w)' /\ Planned(w)'
  BY <1>5, <1>16 DEF Locked, Planned, Locking, Claiming
<1>23. QED
  BY <1>14, <1>15, <1>18, <1>20, <1>21, <1>22 DEF Scheduling

-----------------------------------------------------------------------------
(***************************************************************************)
(* Reconciliation goes from cron to cron, too.                             *)
(***************************************************************************)
Noted(w, rest, st) ==
    /\ rest \cup st.unreconciled \subseteq Registered(w)
    /\ rest \cap (st.disabled \cup st.rejected) = {}
    /\ st.disabled \cap st.unreconciled = {}
    /\ st.rejected \subseteq st.unreconciled
    /\ st.disabled \subseteq st.reasons
    /\ st.unreconciled \subseteq st.rejected \cup rest
    /\ starting[w] => st.unreconciled \subseteq st.rejected
    /\ ~st.failed

LEMMA NotedAfter ==
    ASSUME CronAssumption, CronInv, NEW w \in Worker, step[w] \in Reconciling,
           NEW k \in todo[w],
           NEW n, \/ n = Settle(state[w], k) \/ n = Disable(state[w], k)
                  \/ n = Postpone(state[w], k)
    PROVE  n \in SchedState /\ Noted(w, todo[w] \ {k}, n)
<1>1. /\ k \in CronKey /\ k \in Registered(w) /\ state[w] \in SchedState
      /\ Lists(w) /\ Reported(w)
  BY Locals DEF Lists
<1>2. step[w] \notin InPass
  BY DEF Reconciling, InPass
<1>3. CASE n = Settle(state[w], k)
  BY <1>1, <1>2, <1>3, SettleIs DEF Noted, Lists, Reported
<1>4. CASE n = Disable(state[w], k)
  BY <1>1, <1>2, <1>4, DisableIs DEF Noted, Lists, Reported
<1>5. CASE n = Postpone(state[w], k)
  BY <1>1, <1>2, <1>5, PostponeIs DEF Noted, Lists, Reported
<1>6. QED
  BY <1>3, <1>4, <1>5

LEMMA ReconciledOK ==
    ASSUME CronAssumption, CronInv, deployment' = deployment,
           NEW w \in Worker, step[w] \in Reconciling, NEW k \in todo[w],
           NEW n, \/ n = Settle(state[w], k) \/ n = Disable(state[w], k)
                  \/ n = Postpone(state[w], k),
           Reconciled(w, k, n)
    PROVE  LocalTyped' /\ (\A v \in Worker \ {w} : Same(v)) /\ Scheduling(w)'
<1>1. PICK rest : rest = todo[w] \ {k}
  OBVIOUS
<1>2. n \in SchedState /\ Noted(w, rest, n)
  BY <1>1, NotedAfter
<1>3. PICK h : h = IF rest = {} /\ starting[w] THEN SchedulerHealth(n)
                                               ELSE health[w]
  OBVIOUS
<1>4. PICK b : b = (starting[w] /\ rest # {})
  OBVIOUS
<1>5. PICK s : s = AfterReconciling(w, rest)
  OBVIOUS
<1>6. /\ state' = [state EXCEPT ![w] = n] /\ todo' = [todo EXCEPT ![w] = rest]
      /\ step' = [step EXCEPT ![w] = s] /\ health' = [health EXCEPT ![w] = h]
      /\ Finished(w) /\ UNCHANGED <<clock, through, advanced>>
  BY <1>1, <1>3, <1>5 DEF Reconciled
<1>7. starting' = [starting EXCEPT ![w] = b]
  BY <1>1, <1>4 DEF Reconciled
<1>8. /\ Lists(w) /\ Reported(w) /\ Timed(w) /\ LocalTyped
      /\ starting[w] \in BOOLEAN /\ todo[w] \subseteq CronKey
      /\ health[w] \in {"starting", "ok", "failed"}
  BY Locals DEF CronInv
<1>9. /\ s \in {"clock", "due", "boundary", "idle"}
      /\ (s = "clock" <=> rest # {})
      /\ (s = "due" <=> rest = {} /\ ~starting[w])
      /\ (s = "idle" => w \notin Bursts) /\ (s = "boundary" => w \in Bursts)
  BY <1>5 DEF AfterReconciling
<1>10. b \in BOOLEAN /\ (b <=> starting[w] /\ rest # {})
  BY <1>4
<1>11. h \in {"starting", "ok", "failed"}
  BY <1>2, <1>3, <1>8, ReportIs
<1>12. NoPlan \in Plan /\ rest \subseteq CronKey
  BY <1>1, <1>8 DEF NoPlan, Plan
<1>13. LocalTyped'
  BY <1>2, <1>6, <1>7, <1>8, <1>9, <1>10, <1>11, <1>12
     DEF LocalTyped, Finished, Step, InPass, Reconciling
<1>14. \A v \in Worker \ {w} : Same(v)
  BY <1>6, <1>7, <1>8 DEF Same, Finished, LocalTyped
<1>15. /\ step'[w] = s /\ state'[w] = n /\ todo'[w] = rest /\ health'[w] = h
       /\ starting'[w] = b /\ through'[w] = through[w]
  BY <1>6, <1>7, <1>8 DEF LocalTyped
<1>16. /\ Registered(w)' = Registered(w) /\ Bursts' = Bursts
  BY DEF Registered, Crons, Bursts
<1>17. Lists(w)'
  BY <1>2, <1>9, <1>15, <1>16 DEF Lists, Noted, InPass, AtKey
<1>18. Reported(w)'
  <2>1. s \in {"idle", "boundary"} /\ h = "ok" =>
          n.disabled = {} /\ n.unreconciled = {}
    BY <1>2, <1>3, <1>9, ReportIs DEF Noted
  <2>2. starting[w] /\ rest # {} => h = "starting"
    BY <1>3, <1>8 DEF Reported
  <2>3. QED
    BY <1>2, <1>9, <1>10, <1>15, <2>1, <2>2
       DEF Reported, Noted, InPass, Reconciling
<1>19. Timed(w)'
  BY <1>6, <1>8, <1>9, <1>10, <1>15, <1>16 DEF Timed, InPass, Reconciling
<1>20. Locked(w)' /\ Planned(w)'
  BY <1>9, <1>15 DEF Locked, Planned, Locking, Claiming
<1>21. QED
  BY <1>13, <1>14, <1>17, <1>18, <1>19, <1>20 DEF Scheduling

-----------------------------------------------------------------------------
(***************************************************************************)
(* The upsert of a row: it stays some worker's entry, and its cursor one   *)
(* of its occurrences.  Rows that are locked are left alone.               *)
(***************************************************************************)
LEMMA UpsertOK ==
    ASSUME CronAssumption, CronInv, deployment' = deployment,
           NEW w \in Worker, step[w] = "upsert",
           NextOccurrence(Crons(w)[key[w]], now[w]) # None, Upsert(w, key[w])
    PROVE  /\ schedule' \in [CronKey -> ScheduleRow \cup {None}]
           /\ Stored'
           /\ \A k \in CronKey : rowLock[k] # None => schedule'[k] = schedule[k]
<1>1. PICK k : k = key[w]
  OBVIOUS
<1>2. /\ k \in Registered(w) /\ k \in CronKey
      /\ now[w] \in 0..MaxClock
  BY <1>1, Locals DEF Lists, AtKey, Timed
<1>3. PICK e : e = Crons(w)[k]
  OBVIOUS
<1>4. e \in Entry /\ e.expression \in Expression
  BY <1>2, <1>3, Locals, Entries
<1>5. PICK n : n = NextOccurrence(e, now[w])
  OBVIOUS
<1>6. n \in Fires[e.expression] /\ n \in Nat
  BY <1>1, <1>2, <1>3, <1>4, <1>5, NextIs DEF CronAssumption
<1>7. PICK row : row = schedule[k]
  OBVIOUS
<1>8. PICK new : new = Upserted(e, now[w], row)
  OBVIOUS
<1>9. rowLock[k] = None /\ schedule' = [schedule EXCEPT ![k] = new]
  BY <1>1, <1>3, <1>7, <1>8 DEF Upsert
<1>10. /\ schedule \in [CronKey -> ScheduleRow \cup {None}]
       /\ row \in ScheduleRow \cup {None} /\ None \notin ScheduleRow
  BY <1>2, <1>7 DEF CronInv, TableTyped, CronAssumption
<1>11. \/ new = row /\ row # None
       \/ /\ new.entry = e /\ new \in ScheduleRow
          /\ \/ new.next = n
             \/ row # None /\ row.entry.expression = e.expression
                           /\ new.next = row.next
  BY <1>4, <1>5, <1>6, <1>8, <1>10 DEF Upserted, ScheduleRow
<1>12. schedule' \in [CronKey -> ScheduleRow \cup {None}]
  BY <1>9, <1>10, <1>11
<1>13. row # None =>
         /\ \E v \in Worker : k \in Registered(v) /\ row.entry = Crons(v)[k]
         /\ row.next \in Fires[row.entry.expression]
  BY <1>2, <1>7, Locals DEF Stored
<1>14. /\ \E v \in Worker : k \in Registered(v) /\ new.entry = Crons(v)[k]
       /\ new.next \in Fires[new.entry.expression]
  BY <1>2, <1>3, <1>6, <1>11, <1>13
<1>15. /\ schedule'[k] = new
       /\ \A j \in CronKey \ {k} : schedule'[j] = schedule[j]
  BY <1>9, <1>10, <1>2
<1>16. \A v : Registered(v)' = Registered(v) /\ Crons(v)' = Crons(v)
  BY DEF Registered, Crons
<1>17. Stored'
  BY <1>14, <1>15, <1>16, Locals DEF Stored
<1>18. QED
  BY <1>9, <1>12, <1>15, <1>17

\* A step that writes at most the row it reconciles.
LEMMA WritingStep ==
    ASSUME CronAssumption, CronInv, NEW w \in Worker,
           UNCHANGED <<deployment, clock, claims, live, jobs>>,
           UNCHANGED locks \/ Unlock(w),
           \/ UNCHANGED schedule
           \/ /\ step[w] = "upsert"
              /\ NextOccurrence(Crons(w)[key[w]], now[w]) # None
              /\ Upsert(w, key[w]),
           mishaps' \in 0..MaxMishaps, events' \in 0..MaxEvents,
           LocalTyped', \A v \in Worker \ {w} : Same(v), Scheduling(w)'
    PROVE  CronInv'
<1>1. CASE UNCHANGED schedule
  BY <1>1, QuietStep DEF table
<1>2. CASE ~UNCHANGED schedule
  <2>1. /\ schedule' \in [CronKey -> ScheduleRow \cup {None}]
        /\ Stored'
        /\ \A k \in CronKey : rowLock[k] # None => schedule'[k] = schedule[k]
    BY <1>2, UpsertOK
  <2>2. TableTyped'
    BY <2>1 DEF CronInv, TableTyped, locks, Unlock, Holder
  <2>3. Remembered' /\ PublishedOnce'
    BY DEF CronInv, Remembered, PublishedOnce
  <2>4. None \notin Worker
    BY DEF CronAssumption
  <2>5. \A v \in Worker \ {w} : Spared(v)
    BY <2>1, <2>4 DEF Spared, locks, Unlock
  <2>6. QED
    BY <2>1, <2>2, <2>3, <2>5, StepOK
<1>3. QED
  BY <1>1, <1>2

-----------------------------------------------------------------------------
(***************************************************************************)
(* The steps of reconciliation.                                            *)
(***************************************************************************)
LEMMA Bounds ==
    ASSUME CronAssumption, CronInv
    PROVE  /\ mishaps \in 0..MaxMishaps /\ events \in 0..MaxEvents
           /\ mishaps < MaxMishaps => mishaps + 1 \in 0..MaxMishaps
           /\ events < MaxEvents => events + 1 \in 0..MaxEvents
BY DEF CronInv, TableTyped, CronAssumption

LEMMA StartSchedulerOK ==
    ASSUME CronAssumption, CronInv, deployment' = deployment,
           NEW w \in Worker, StartScheduler(w)
    PROVE  CronInv'
<1>1. /\ Lists(w) /\ Reported(w) /\ Timed(w) /\ LocalTyped
      /\ deployment \in Deployments
  BY Locals DEF CronInv
<1>2. /\ state[w] = FreshState /\ health[w] = "starting"
  BY <1>1 DEF StartScheduler, Reported
<1>3. /\ FreshState.disabled = {} /\ FreshState.reasons = {}
      /\ FreshState.unreconciled = {} /\ FreshState.rejected = {}
      /\ FreshState.failed = FALSE
  BY DEF FreshState
<1>4. Registered(w) \subseteq CronKey
  BY <1>1, Entries
<1>5. LocalTyped'
  BY <1>1, <1>4 DEF LocalTyped, StartScheduler, Step, Reconciling
<1>6. \A v \in Worker \ {w} : Same(v)
  BY <1>1 DEF Same, StartScheduler, LocalTyped
<1>7. /\ step'[w] = "clock" /\ starting'[w] = TRUE
      /\ todo'[w] = Registered(w) /\ state'[w] = FreshState
      /\ health'[w] = "starting" /\ through'[w] = through[w]
      /\ clock' = clock
  BY <1>1, <1>2 DEF LocalTyped, StartScheduler
<1>8. /\ Registered(w)' = Registered(w) /\ Bursts' = Bursts
      /\ FreshState' = FreshState
  BY DEF Registered, Crons, Bursts, FreshState
<1>9. Lists(w)' /\ Reported(w)'
  BY <1>3, <1>7, <1>8 DEF Lists, Reported, InPass, Reconciling, AtKey
<1>10. Timed(w)' /\ Locked(w)' /\ Planned(w)'
  BY <1>1, <1>7, <1>8 DEF Timed, Locked, Planned, Locking, Claiming
<1>11. QED
  BY <1>5, <1>6, <1>9, <1>10, Bounds, QuietStep
     DEF Scheduling, StartScheduler

LEMMA ReadClockOK ==
    ASSUME CronAssumption, CronInv, deployment' = deployment,
           NEW w \in Worker, ReadClock(w)
    PROVE  CronInv'
<1>1. /\ Lists(w) /\ Reported(w) /\ Timed(w) /\ LocalTyped
      /\ todo[w] \subseteq CronKey /\ clock \in 0..MaxClock
  BY Locals DEF CronInv
<1>2. PICK k \in todo[w] : key' = [key EXCEPT ![w] = k]
  BY DEF ReadClock
<1>3. LocalTyped'
  BY <1>1, <1>2 DEF LocalTyped, ReadClock, Step, Reconciling
<1>4. \A v \in Worker \ {w} : Same(v)
  BY <1>1, <1>2 DEF Same, ReadClock, LocalTyped
<1>5. /\ step[w] = "clock" /\ step'[w] = "upsert" /\ key'[w] = k
      /\ now'[w] = clock /\ clock' = clock
      /\ starting'[w] = starting[w] /\ todo'[w] = todo[w]
      /\ state'[w] = state[w] /\ health'[w] = health[w]
      /\ through'[w] = through[w]
  BY <1>1, <1>2 DEF LocalTyped, ReadClock
<1>6. /\ Registered(w)' = Registered(w) /\ Bursts' = Bursts
  BY DEF Registered, Crons, Bursts
<1>7. Lists(w)' /\ Reported(w)'
  BY <1>1, <1>5, <1>6 DEF Lists, Reported, InPass, Reconciling
<1>8. clock # None /\ clock \in Nat
  BY <1>1 DEF CronAssumption
<1>9. Timed(w)' /\ Locked(w)' /\ Planned(w)'
  BY <1>1, <1>5, <1>6, <1>8
     DEF Timed, Locked, Planned, Locking, Claiming, Reconciling
<1>10. QED
  BY <1>3, <1>4, <1>7, <1>9, Bounds, QuietStep DEF Scheduling, ReadClock

LEMMA ReconcileOK ==
    ASSUME CronAssumption, CronInv, deployment' = deployment,
           NEW w \in Worker, Reconcile(w)
    PROVE  CronInv'
<1>1. PICK k : k = key[w]
  OBVIOUS
<1>2. step[w] = "upsert" /\ step[w] \in Reconciling /\ k \in todo[w]
  BY <1>1, Locals DEF Reconcile, Reconciling, Lists, AtKey
<1>3. PICK n : /\ \/ n = Settle(state[w], k) \/ n = Disable(state[w], k)
               /\ Reconciled(w, k, n)
  BY <1>1 DEF Reconcile
<1>4. LocalTyped' /\ (\A v \in Worker \ {w} : Same(v)) /\ Scheduling(w)'
  BY <1>2, <1>3, ReconciledOK
<1>5. /\ UNCHANGED <<clock, claims, live, jobs, events, mishaps>>
      /\ UNCHANGED locks
  BY <1>3 DEF Reconciled, Reconcile, locks
<1>6. \/ UNCHANGED schedule
      \/ /\ NextOccurrence(Crons(w)[key[w]], now[w]) # None
         /\ Upsert(w, key[w])
  BY DEF Reconcile
<1>7. QED
  BY <1>2, <1>4, <1>5, <1>6, Bounds, WritingStep

LEMMA ReconcileFailsOK ==
    ASSUME CronAssumption, CronInv, deployment' = deployment,
           NEW w \in Worker, ReconcileFails(w)
    PROVE  CronInv'
<1>1. PICK k : /\ k \in todo[w] /\ step[w] \in Reconciling
               /\ Reconciled(w, k, Postpone(state[w], k))
  BY Locals DEF ReconcileFails, Reconciling, Lists, AtKey
<1>2. PICK n : n = Postpone(state[w], k) /\ Reconciled(w, k, n)
  BY <1>1
<1>3. LocalTyped' /\ (\A v \in Worker \ {w} : Same(v)) /\ Scheduling(w)'
  BY <1>1, <1>2, ReconciledOK
<1>4. /\ UNCHANGED <<clock, claims, live, jobs, events>>
      /\ UNCHANGED locks
  BY <1>2 DEF Reconciled, locks
<1>5. \/ UNCHANGED schedule
      \/ /\ step[w] = "upsert"
         /\ NextOccurrence(Crons(w)[key[w]], now[w]) # None
         /\ Upsert(w, key[w])
  BY DEF ReconcileFails
<1>6. mishaps' \in 0..MaxMishaps
  BY Bounds DEF ReconcileFails
<1>7. QED
  BY <1>3, <1>4, <1>5, <1>6, Bounds, WritingStep

LEMMA CutReconcileOK ==
    ASSUME CronAssumption, CronInv, deployment' = deployment,
           NEW w \in Worker, CutReconcile(w)
    PROVE  CronInv'
<1>1. /\ Lists(w) /\ Reported(w) /\ Timed(w) /\ LocalTyped
  BY Locals DEF CronInv
<1>2. NoPlan \in Plan
  BY DEF NoPlan, Plan
<1>3. LocalTyped'
  BY <1>1, <1>2 DEF LocalTyped, CutReconcile, Finished, Step
<1>4. \A v \in Worker \ {w} : Same(v)
  BY <1>1 DEF Same, CutReconcile, Finished, LocalTyped
<1>5. /\ starting[w] /\ w \in Bursts
      /\ step'[w] = "boundary" /\ starting'[w] = FALSE
      /\ todo'[w] = {} /\ clock' = clock
      /\ state'[w] = state[w] /\ health'[w] = health[w]
      /\ through'[w] = through[w]
  BY <1>1 DEF LocalTyped, CutReconcile, Finished
<1>6. /\ Registered(w)' = Registered(w) /\ Bursts' = Bursts
  BY DEF Registered, Crons, Bursts
<1>7. step[w] \notin InPass
  BY <1>1, <1>5 DEF Reported, Reconciling, InPass
<1>8. Lists(w)'
  BY <1>1, <1>5, <1>6 DEF Lists, InPass, AtKey
<1>9. Reported(w)'
  BY <1>1, <1>5, <1>7 DEF Reported, InPass, Reconciling
<1>10. Timed(w)' /\ Locked(w)' /\ Planned(w)'
  BY <1>1, <1>5, <1>6
     DEF Timed, Locked, Planned, Locking, Claiming, Reconciling, InPass
<1>11. mishaps' \in 0..MaxMishaps /\ UNCHANGED events
  BY Bounds DEF CutReconcile
<1>12. \/ UNCHANGED schedule
       \/ /\ step[w] = "upsert"
          /\ NextOccurrence(Crons(w)[key[w]], now[w]) # None
          /\ Upsert(w, key[w])
  BY DEF CutReconcile
<1>13. UNCHANGED <<clock, claims, live, jobs>> /\ UNCHANGED locks
  BY DEF CutReconcile
<1>14. QED
  BY <1>3, <1>4, <1>8, <1>9, <1>10, <1>11, <1>12, <1>13, Bounds, WritingStep
     DEF Scheduling

-----------------------------------------------------------------------------
(***************************************************************************)
(* The steps of a pass up to its transaction.                              *)
(***************************************************************************)
LEMMA ReadBoundaryOK ==
    ASSUME CronAssumption, CronInv, deployment' = deployment,
           NEW w \in Worker, ReadBoundary(w)
    PROVE  CronInv'
<1>1. /\ Lists(w) /\ Reported(w) /\ Timed(w) /\ LocalTyped
      /\ clock \in 0..MaxClock
  BY Locals DEF CronInv
<1>2. clock \in Nat /\ clock # None
  BY <1>1 DEF CronAssumption
<1>3. LocalTyped'
  <2>1. /\ step' \in [Worker -> Step]
        /\ health' \in [Worker -> {"starting", "ok", "failed"}]
    BY <1>1 DEF LocalTyped, ReadBoundary, Step
  <2>2. through' \in [Worker -> 0..MaxClock \cup {None}]
    BY <1>1 DEF LocalTyped, ReadBoundary
  <2>3. QED
    BY <1>1, <2>1, <2>2 DEF LocalTyped, ReadBoundary
<1>4. \A v \in Worker \ {w} : Same(v)
  BY <1>1 DEF Same, ReadBoundary, LocalTyped
<1>5. /\ step[w] = "boundary" /\ clock' = clock
      /\ starting'[w] = starting[w] /\ todo'[w] = todo[w]
      /\ state'[w] = state[w]
      /\ \/ /\ through'[w] = clock /\ step'[w] = "idle"
            /\ health'[w] = health[w]
         \/ /\ through'[w] = through[w] /\ health'[w] = "failed"
            /\ step'[w] \in {"boundary", "failed"}
  BY <1>1 DEF LocalTyped, ReadBoundary
<1>6. /\ Registered(w)' = Registered(w) /\ Bursts' = Bursts
  BY DEF Registered, Crons, Bursts
<1>7. Lists(w)'
  BY <1>1, <1>5, <1>6 DEF Lists, InPass, AtKey
<1>8. Reported(w)'
  BY <1>1, <1>5, <1>6 DEF Reported, InPass, Reconciling
<1>9. w \in Bursts \/ step'[w] # "idle"
  BY <1>1, <1>5 DEF Timed
<1>10. Timed(w)' /\ Locked(w)' /\ Planned(w)'
  BY <1>1, <1>2, <1>5, <1>6, <1>9
     DEF Timed, Locked, Planned, Locking, Claiming, Reconciling, InPass
<1>11. mishaps' \in 0..MaxMishaps /\ UNCHANGED events
  BY Bounds DEF ReadBoundary
<1>12. QED
  BY <1>3, <1>4, <1>7, <1>8, <1>10, <1>11, Bounds, QuietStep
     DEF Scheduling, ReadBoundary

LEMMA BeginPassOK ==
    ASSUME CronAssumption, CronInv, deployment' = deployment,
           NEW w \in Worker, BeginPass(w)
    PROVE  CronInv'
<1>1. PICK n : n = IF state[w].unreconciled # {} THEN ForgetRejected(state[w])
                                                 ELSE state[w]
  OBVIOUS
<1>2. PICK s : s = IF state[w].unreconciled # {} THEN "clock" ELSE "due"
  OBVIOUS
<1>3. /\ Lists(w) /\ Reported(w) /\ Timed(w) /\ LocalTyped
      /\ state[w] \in SchedState /\ deployment \in Deployments
  BY Locals DEF CronInv
<1>4. /\ n \in SchedState
      /\ n.disabled = state[w].disabled /\ n.reasons = state[w].reasons
      /\ n.unreconciled = state[w].unreconciled
      /\ n.failed = state[w].failed
      /\ state[w].unreconciled # {} => n.rejected = {}
      /\ state[w].unreconciled = {} => n.rejected = state[w].rejected
  BY <1>1, <1>3, ForgetIs
<1>5. /\ step[w] = "idle"
      /\ step' = [step EXCEPT ![w] = s]
      /\ todo' = [todo EXCEPT ![w] = state[w].unreconciled]
      /\ state' = [state EXCEPT ![w] = n]
      /\ UNCHANGED <<clock, table, locks, starting, through, key, now, plan,
                     advanced, health, mishaps, events>>
  BY <1>1, <1>2, <1>3 DEF BeginPass, LocalTyped
<1>6. state[w].unreconciled \subseteq CronKey
  BY <1>3 DEF SchedState
<1>7. LocalTyped'
  BY <1>2, <1>3, <1>4, <1>5, <1>6
     DEF LocalTyped, Step, Reconciling, InPass
<1>8. \A v \in Worker \ {w} : Same(v)
  BY <1>3, <1>5 DEF Same, LocalTyped
<1>9. /\ step'[w] = s /\ state'[w] = n /\ todo'[w] = state[w].unreconciled
      /\ starting'[w] = starting[w] /\ health'[w] = health[w]
      /\ through'[w] = through[w] /\ clock' = clock
  BY <1>3, <1>5 DEF LocalTyped
<1>10. /\ Registered(w)' = Registered(w) /\ Bursts' = Bursts
  BY DEF Registered, Crons, Bursts
<1>11. Lists(w)'
  BY <1>2, <1>3, <1>4, <1>9, <1>10 DEF Lists, InPass, AtKey
<1>12. ~starting[w]
  BY <1>3, <1>5 DEF Reported, Reconciling
<1>13. Reported(w)'
  BY <1>2, <1>3, <1>4, <1>5, <1>9, <1>10, <1>12
     DEF Reported, InPass, Reconciling
<1>14. Timed(w)' /\ Locked(w)' /\ Planned(w)'
  BY <1>2, <1>3, <1>5, <1>9, <1>10, <1>12
     DEF Timed, Locked, Planned, Locking, Claiming, InPass, Reconciling
<1>15. QED
  BY <1>5, <1>7, <1>8, <1>11, <1>13, <1>14, Bounds, QuietStep DEF Scheduling

\* The end of a cron that leaves the table and the locks of others alone.
LEMMA PassedOver ==
    ASSUME CronAssumption, CronInv, deployment' = deployment,
           NEW w \in Worker, step[w] \in InPass, NEW rest,
           NEW st \in SchedState, NEW moved \in BOOLEAN,
           Filed(w, rest, st), Proceed(w, rest, st, moved),
           UNCHANGED table, UNCHANGED locks \/ Unlock(w),
           mishaps' \in 0..MaxMishaps
    PROVE  CronInv'
<1>1. LocalTyped' /\ (\A v \in Worker \ {w} : Same(v)) /\ Scheduling(w)'
  BY ProceedOK
<1>2. UNCHANGED clock /\ UNCHANGED events
  BY DEF Proceed
<1>3. QED
  BY <1>1, <1>2, Bounds, QuietStep

LEMMA ReadDueOK ==
    ASSUME CronAssumption, CronInv, deployment' = deployment,
           NEW w \in Worker, ReadDue(w)
    PROVE  CronInv'
<1> DEFINE candidates ==
             Registered(w) \ (state[w].disabled \cup state[w].unreconciled)
           Counted(due) ==
             [state[w] EXCEPT !.contended =
                [k \in CronKey |-> IF k \in due THEN @[k] ELSE 0]]
<1>1. PICK due \in SUBSET candidates :
        /\ Proceed(w, due, Counted(due), FALSE)
        /\ UNCHANGED <<table, locks>>
        /\ mishaps' \in 0..MaxMishaps
  BY Bounds DEF ReadDue
<1>2. PICK st : st = Counted(due)
  OBVIOUS
<1>3. state[w] \in SchedState /\ Lists(w) /\ Reported(w)
  BY Locals
<1>4. Recounted(st, state[w])
  BY <1>2, <1>3, DueCountIs
<1>5. step[w] = "due" /\ step[w] \in InPass
  BY DEF ReadDue, InPass
<1>6. Filed(w, due, st) /\ st \in SchedState
  BY <1>3, <1>4, <1>5 DEF Recounted, Filed, Lists, Reported
<1>7. Proceed(w, due, st, FALSE)
  BY <1>1, <1>2
<1>8. QED
  BY <1>1, <1>5, <1>6, <1>7, PassedOver

\* The end of a cron, whose outcome is one of the three.
LEMMA DoneWithOK ==
    ASSUME CronAssumption, CronInv, deployment' = deployment,
           NEW w \in Worker, step[w] \in InPass, NEW k \in todo[w],
           NEW c, Recounted(c, state[w]),
           NEW n, Outcome(n, c, k),
           DoneWith(w, k, n), UNCHANGED locks \/ Unlock(w),
           mishaps' \in 0..MaxMishaps
    PROVE  CronInv'
<1>1. PICK rest : rest = todo[w] \ {k}
  OBVIOUS
<1>2. n \in SchedState /\ Filed(w, rest, n)
  BY <1>1, FiledAfter
<1>3. advanced[w] \in BOOLEAN
  BY Locals
<1>4. Proceed(w, rest, n, advanced[w]) /\ UNCHANGED table
  BY <1>1 DEF DoneWith
<1>5. QED
  BY <1>2, <1>3, <1>4, PassedOver

LEMMA ReadScheduleOK ==
    ASSUME CronAssumption, CronInv, deployment' = deployment,
           NEW w \in Worker, ReadSchedule(w)
    PROVE  CronInv'
<1>1. PICK k \in todo[w] :
        \/ \E n : /\ \/ n = [state[w] EXCEPT !.contended[k] = 0]
                     \/ n = Disable([state[w] EXCEPT !.contended[k] = 0], k)
                     \/ n = Troubled([state[w] EXCEPT !.contended[k] = 0], k)
                  /\ DoneWith(w, k, n)
        \/ /\ key' = [key EXCEPT ![w] = k]
           /\ now' = [now EXCEPT ![w] = clock]
           /\ step' = [step EXCEPT ![w] = "lock"]
           /\ UNCHANGED <<clock, table, starting, through, todo, plan, state,
                          advanced, health, events>>
  BY Zenon DEF ReadSchedule
<1>2. step[w] = "observe" /\ step[w] \in InPass /\ UNCHANGED <<locks, mishaps>>
  BY DEF ReadSchedule, InPass
<1>3. /\ Lists(w) /\ Reported(w) /\ Timed(w) /\ LocalTyped
      /\ state[w] \in SchedState /\ todo[w] \subseteq CronKey
      /\ clock \in 0..MaxClock
  BY Locals DEF CronInv
<1>4. CASE \E n : /\ \/ n = [state[w] EXCEPT !.contended[k] = 0]
                     \/ n = Disable([state[w] EXCEPT !.contended[k] = 0], k)
                     \/ n = Troubled([state[w] EXCEPT !.contended[k] = 0], k)
                  /\ DoneWith(w, k, n)
  <2>1. PICK c : c = [state[w] EXCEPT !.contended[k] = 0]
    OBVIOUS
  <2>2. Recounted(c, state[w])
    BY <1>3, <2>1, CalmIs
  <2>3. PICK n : /\ n = c \/ n = Disable(c, k) \/ n = Troubled(c, k)
                 /\ DoneWith(w, k, n)
    BY <1>4, <2>1
  <2>4. QED
    BY <1>2, <2>2, <2>3, Bounds, DoneWithOK DEF Outcome
<1>5. CASE /\ key' = [key EXCEPT ![w] = k]
           /\ now' = [now EXCEPT ![w] = clock]
           /\ step' = [step EXCEPT ![w] = "lock"]
           /\ UNCHANGED <<clock, table, starting, through, todo, plan, state,
                          advanced, health, events>>
  <2>1. LocalTyped'
    BY <1>3, <1>5 DEF LocalTyped, Step, InPass
  <2>2. \A v \in Worker \ {w} : Same(v)
    BY <1>3, <1>5 DEF Same, LocalTyped
  <2>3. /\ step'[w] = "lock" /\ key'[w] = k /\ now'[w] = clock
        /\ starting'[w] = starting[w] /\ todo'[w] = todo[w]
        /\ state'[w] = state[w] /\ health'[w] = health[w]
        /\ through'[w] = through[w] /\ clock' = clock
    BY <1>3, <1>5 DEF LocalTyped
  <2>4. /\ Registered(w)' = Registered(w) /\ Bursts' = Bursts
    BY DEF Registered, Crons, Bursts
  <2>5. Lists(w)' /\ Reported(w)'
    BY <1>2, <1>3, <2>3, <2>4 DEF Lists, Reported, InPass, Reconciling
  <2>6. clock # None /\ clock \in Nat
    BY <1>3 DEF CronAssumption
  <2>7. Timed(w)' /\ Locked(w)' /\ Planned(w)'
    BY <1>2, <1>3, <2>3, <2>4, <2>6
       DEF Timed, Locked, Planned, Locking, Claiming, Reconciling, InPass
  <2>8. QED
    BY <1>2, <1>5, <2>1, <2>2, <2>5, <2>7, Bounds, QuietStep DEF Scheduling
<1>6. QED
  BY <1>1, <1>4, <1>5

LEMMA LockScheduleOK ==
    ASSUME CronAssumption, CronInv, deployment' = deployment,
           NEW w \in Worker, LockSchedule(w)
    PROVE  CronInv'
<1>1. PICK k : k = key[w]
  OBVIOUS
<1>2. /\ step[w] = "lock" /\ step[w] \in InPass
      /\ UNCHANGED <<advisory, mishaps>>
  BY DEF LockSchedule, InPass
<1>3. /\ Lists(w) /\ Reported(w) /\ Timed(w) /\ LocalTyped
      /\ state[w] \in SchedState /\ todo[w] \subseteq CronKey
      /\ clock \in 0..MaxClock /\ deployment \in Deployments /\ Stored
      /\ through[w] \in 0..MaxClock \cup {None}
      /\ now[w] \in 0..MaxClock \cup {None}
  BY Locals DEF CronInv
<1>4. k \in todo[w] /\ k \in CronKey /\ k \in Registered(w)
  BY <1>1, <1>2, <1>3 DEF Lists, AtKey
<1>5. \/ /\ rowLock[k] = None /\ Selected(w, k)
         /\ rowLock' = [rowLock EXCEPT ![k] = w]
         /\ step' = [step EXCEPT ![w] = "decide"]
         /\ UNCHANGED <<clock, table, starting, through, todo, key, now, plan,
                        state, advanced, health, events>>
      \/ /\ DoneWith(w, k, IF w \in Bursts
                           THEN [state[w] EXCEPT !.contended[k] = 0]
                           ELSE Contended(state[w], k))
         /\ UNCHANGED rowLock
  BY <1>1, Zenon DEF LockSchedule, LockRow
<1>6. CASE /\ DoneWith(w, k, IF w \in Bursts
                             THEN [state[w] EXCEPT !.contended[k] = 0]
                             ELSE Contended(state[w], k))
           /\ UNCHANGED rowLock
  <2>1. PICK c : c = IF w \in Bursts
                     THEN [state[w] EXCEPT !.contended[k] = 0]
                     ELSE Contended(state[w], k)
    OBVIOUS
  <2>2. Recounted(c, state[w])
    BY <1>3, <1>4, <2>1, CalmIs, ContendedIs
  <2>3. DoneWith(w, k, c) /\ UNCHANGED locks
    BY <1>2, <1>6, <2>1 DEF locks
  <2>4. QED
    BY <1>2, <1>4, <2>2, <2>3, Bounds, DoneWithOK DEF Outcome
<1>7. CASE /\ rowLock[k] = None /\ Selected(w, k)
           /\ rowLock' = [rowLock EXCEPT ![k] = w]
           /\ step' = [step EXCEPT ![w] = "decide"]
           /\ UNCHANGED <<clock, table, starting, through, todo, key, now,
                          plan, state, advanced, health, events>>
  <2>1. LocalTyped'
    BY <1>3, <1>7 DEF LocalTyped, Step, InPass
  <2>2. TableTyped'
    BY <1>2, <1>7 DEF CronInv, TableTyped, table, Holder
  <2>3. Stored' /\ Remembered' /\ PublishedOnce'
    BY <1>7 DEF CronInv, Stored, Remembered, PublishedOnce, table,
                Registered, Crons
  <2>4. \A v \in Worker \ {w} : Same(v)
    BY <1>3, <1>7 DEF Same, LocalTyped
  <2>5. \A v \in Worker \ {w} : Spared(v)
    <3>1. rowLock \in [CronKey -> Holder] /\ None \notin Worker
      BY DEF CronInv, TableTyped, CronAssumption
    <3>2. QED
      BY <1>2, <1>4, <1>7, <3>1 DEF Spared, table
  <2>6. /\ step'[w] = "decide" /\ key'[w] = k
        /\ starting'[w] = starting[w] /\ todo'[w] = todo[w]
        /\ state'[w] = state[w] /\ health'[w] = health[w]
        /\ through'[w] = through[w] /\ clock' = clock
        /\ rowLock'[k] = w /\ schedule'[k] = schedule[k]
    BY <1>1, <1>3, <1>4, <1>7 DEF LocalTyped, table, CronInv, TableTyped
  <2>7. /\ Registered(w)' = Registered(w) /\ Bursts' = Bursts
        /\ Crons(w)' = Crons(w)
    BY DEF Registered, Crons, Bursts
  <2>8. Lists(w)' /\ Reported(w)'
    BY <1>2, <1>3, <1>4, <2>6, <2>7 DEF Lists, Reported, InPass, Reconciling
  <2>9. Timed(w)' /\ Planned(w)'
    BY <1>2, <1>3, <2>6, <2>7
       DEF Timed, Planned, Claiming, Reconciling, InPass
  <2>10. /\ schedule[k] # None /\ SameRelease(schedule[k].entry, Crons(w)[k])
         /\ schedule[k].next <= SchedulingTime(w, now[w])
    BY <1>7 DEF Selected
  <2>11. schedule[k].entry = Crons(w)[k]
    BY <1>3, <1>4, <2>10, ReleasesAgree
  <2>12. schedule[k].next \in Nat
    BY <1>4, <2>10 DEF CronInv, TableTyped, ScheduleRow
  <2>13. schedule[k].next <= SchedulingTime(w, clock)
    BY <1>2, <1>3, <2>10, <2>12 DEF SchedulingTime, Timed, CronAssumption
  <2>14. SchedulingTime(w, clock)' = SchedulingTime(w, clock)
    BY <2>6 DEF SchedulingTime
  <2>15. Locked(w)'
    BY <2>6, <2>7, <2>10, <2>11, <2>13, <2>14 DEF Locked
  <2>16. QED
    BY <1>2, <1>7, <2>1, <2>2, <2>3, <2>4, <2>5, <2>8, <2>9, <2>15, StepOK
       DEF Scheduling
<1>8. QED
  BY <1>5, <1>6, <1>7

-----------------------------------------------------------------------------
(***************************************************************************)
(* The failures of a pass.                                                 *)
(***************************************************************************)
LEMMA AbandonOK ==
    ASSUME CronAssumption, CronInv, deployment' = deployment,
           NEW w \in Worker, step[w] \in InPass, NEW k \in todo[w],
           AbandonCron(w, k), mishaps' \in 0..MaxMishaps
    PROVE  CronInv'
<1>1. state[w] \in SchedState /\ k \in CronKey
  BY Locals
<1>2. PICK c : c = [state[w] EXCEPT !.contended[k] = 0]
  OBVIOUS
<1>3. Recounted(c, state[w])
  BY <1>1, <1>2, CalmIs
<1>4. PICK n : n = Troubled(c, k)
  OBVIOUS
<1>5. DoneWith(w, k, n) /\ Unlock(w)
  BY <1>2, <1>4 DEF AbandonCron
<1>6. QED
  BY <1>3, <1>4, <1>5, DoneWithOK DEF Outcome

LEMMA ScheduleFailsOK ==
    ASSUME CronAssumption, CronInv, deployment' = deployment,
           NEW w \in Worker, ScheduleFails(w)
    PROVE  CronInv'
<1>1. mishaps' \in 0..MaxMishaps
  BY Bounds DEF ScheduleFails
<1>2. PICK k \in todo[w] : step[w] \in InPass /\ AbandonCron(w, k)
  BY Locals DEF ScheduleFails, InPass, Lists, AtKey
<1>3. QED
  BY <1>1, <1>2, AbandonOK

LEMMA CutPassOK ==
    ASSUME CronAssumption, CronInv, deployment' = deployment,
           NEW w \in Worker, CutPass(w)
    PROVE  CronInv'
<1>1. PICK n : n = [state[w] EXCEPT !.failed = FALSE]
  OBVIOUS
<1>2. /\ Lists(w) /\ Reported(w) /\ Timed(w) /\ LocalTyped
      /\ state[w] \in SchedState
  BY Locals DEF CronInv
<1>3. /\ n \in SchedState
      /\ n.disabled = state[w].disabled /\ n.reasons = state[w].reasons
      /\ n.unreconciled = state[w].unreconciled
      /\ n.rejected = state[w].rejected /\ ~n.failed
  BY <1>1, <1>2 DEF SchedState
<1>4. PICK s \in {"idle", "failed"} : step' = [step EXCEPT ![w] = s]
  BY DEF CutPass
<1>5. /\ state' = [state EXCEPT ![w] = n] /\ todo' = [todo EXCEPT ![w] = {}]
      /\ health' = [health EXCEPT ![w] = "failed"]
      /\ advanced' = [advanced EXCEPT ![w] = FALSE] /\ Finished(w)
      /\ step[w] \in InPass \cup Reconciling /\ ~starting[w]
      /\ UNCHANGED <<clock, claims, live, jobs, starting, through, events>>
      /\ Unlock(w)
  BY <1>1, <1>2 DEF CutPass, LocalTyped
<1>6. NoPlan \in Plan
  BY DEF NoPlan, Plan
<1>7. LocalTyped'
  BY <1>2, <1>3, <1>4, <1>5, <1>6 DEF LocalTyped, Finished, Step
<1>8. \A v \in Worker \ {w} : Same(v)
  BY <1>2, <1>4, <1>5 DEF Same, LocalTyped, Finished
<1>9. /\ step'[w] = s /\ state'[w] = n /\ todo'[w] = {}
      /\ starting'[w] = starting[w] /\ health'[w] = "failed"
      /\ through'[w] = through[w]
  BY <1>2, <1>4, <1>5 DEF LocalTyped
<1>10. /\ Registered(w)' = Registered(w) /\ Bursts' = Bursts
  BY DEF Registered, Crons, Bursts
<1>11. Lists(w)' /\ Reported(w)'
  BY <1>2, <1>3, <1>4, <1>5, <1>9, <1>10
     DEF Lists, Reported, InPass, Reconciling, AtKey
<1>12. Timed(w)' /\ Locked(w)' /\ Planned(w)'
  BY <1>2, <1>4, <1>5, <1>9, <1>10
     DEF Timed, Locked, Planned, Locking, Claiming, Reconciling, InPass
<1>13. mishaps' \in 0..MaxMishaps
  BY Bounds DEF CutPass
<1>14. \/ UNCHANGED schedule
       \/ /\ step[w] = "upsert"
          /\ NextOccurrence(Crons(w)[key[w]], now[w]) # None
          /\ Upsert(w, key[w])
  BY DEF CutPass
<1>15. QED
  BY <1>5, <1>7, <1>8, <1>11, <1>12, <1>13, <1>14, Bounds, WritingStep
     DEF Scheduling

LEMMA DieOK ==
    ASSUME CronAssumption, CronInv, deployment' = deployment,
           NEW w \in Worker, Die(w)
    PROVE  CronInv'
<1>1. /\ Lists(w) /\ Reported(w) /\ Timed(w) /\ LocalTyped
  BY Locals DEF CronInv
<1>2. NoPlan \in Plan /\ FreshState \in SchedState
  BY FreshIs DEF NoPlan, Plan
<1>3. LocalTyped'
  BY <1>1, <1>2 DEF LocalTyped, Die, Finished, Step
<1>4. \A v \in Worker \ {w} : Same(v)
  BY <1>1 DEF Same, Die, Finished, LocalTyped
<1>5. /\ step'[w] = "down" /\ starting'[w] = FALSE /\ through'[w] = None
      /\ todo'[w] = {} /\ state'[w] = FreshState
      /\ health'[w] = "starting"
  BY <1>1 DEF LocalTyped, Die
<1>6. /\ FreshState.disabled = {} /\ FreshState.reasons = {}
      /\ FreshState.unreconciled = {} /\ FreshState.rejected = {}
      /\ FreshState.failed = FALSE /\ FreshState' = FreshState
  BY DEF FreshState
<1>7. Lists(w)' /\ Reported(w)'
  BY <1>5, <1>6 DEF Lists, Reported, InPass, Reconciling, AtKey
<1>8. Timed(w)' /\ Locked(w)' /\ Planned(w)'
  BY <1>5 DEF Timed, Locked, Planned, Locking, Claiming, Reconciling, InPass
<1>9. mishaps' \in 0..MaxMishaps /\ UNCHANGED <<clock, table, events>>
  BY Bounds DEF Die
<1>10. Unlock(w)
  BY DEF Die
<1>11. QED
  BY <1>3, <1>4, <1>7, <1>8, <1>9, <1>10, Bounds, QuietStep DEF Scheduling

-----------------------------------------------------------------------------
(***************************************************************************)
(* The commit of a transaction.  It moves the cursor to an occurrence and  *)
(* claims the occurrence it decided about; what it publishes was neither   *)
(* claimed nor published.                                                  *)
(***************************************************************************)
Job(w, k, p) == [at |-> p.occurrence, expression |-> Crons(w)[k].expression,
                 revision |-> Crons(w)[k].revision, late |-> p.late]

\* What the commit may rely on.
Committable(w, k, p, published) ==
    LET e == Crons(w)[k] IN
    /\ p.occurrence \in Fires[e.expression]
    /\ p.occurrence <= SchedulingTime(w, clock)
    /\ p.next \in Fires[e.expression] /\ p.expires \in Nat
    /\ p.late \in BOOLEAN
    /\ NextOccurrence(e, p.occurrence) <= p.expires
    /\ published =>
         /\ \A c \in claims[k] : c.at # p.occurrence
         /\ \A i \in DOMAIN jobs[k] :
              /\ jobs[k][i].at = p.occurrence
              /\ jobs[k][i].expression = e.expression
              => p.late

LEMMA Occurs ==
    ASSUME CronAssumption, CronInv, NEW w \in Worker, step[w] \in Locking,
           NEW k, k = key[w]
    PROVE  /\ k \in CronKey /\ k \in Registered(w) /\ k \in todo[w]
           /\ Crons(w)[k] \in Entry
           /\ Crons(w)[k].expression \in Expression
           /\ Crons(w)[k].revision \in Nat
           /\ Fires[Crons(w)[k].expression] \subseteq Nat
           /\ rowLock[k] = w /\ schedule[k] # None
           /\ schedule[k] \in ScheduleRow
           /\ schedule[k].entry = Crons(w)[k]
           /\ schedule[k].next \in Fires[Crons(w)[k].expression]
           /\ schedule[k].next <= SchedulingTime(w, clock)
           /\ SchedulingTime(w, clock) \in 0..MaxClock
           /\ SchedulingTime(w, clock) <= clock
<1>1. /\ Lists(w) /\ Locked(w) /\ Timed(w) /\ todo[w] \subseteq CronKey
      /\ clock \in 0..MaxClock /\ deployment \in Deployments
      /\ through[w] \in 0..MaxClock \cup {None} /\ Stored
  BY Locals
<1>2. k \in todo[w] /\ k \in CronKey /\ k \in Registered(w)
  BY <1>1 DEF Lists, AtKey, Locking
<1>3. /\ rowLock[k] = w /\ schedule[k] # None
      /\ schedule[k].entry = Crons(w)[k]
      /\ schedule[k].next <= SchedulingTime(w, clock)
  BY <1>1 DEF Locked
<1>4. schedule[k].next \in Fires[Crons(w)[k].expression]
  BY <1>1, <1>2, <1>3 DEF Stored
<1>5. schedule[k] \in ScheduleRow
  BY <1>2, <1>3 DEF CronInv, TableTyped
<1>6. MaxClock \in Nat
  BY DEF CronAssumption
<1>7. /\ SchedulingTime(w, clock) \in 0..MaxClock
      /\ SchedulingTime(w, clock) <= clock
  BY <1>1, <1>6 DEF SchedulingTime, Timed
<1>8. QED
  BY <1>1, <1>2, <1>3, <1>4, <1>5, <1>7, Entries

LEMMA CommitTable ==
    ASSUME CronAssumption, CronInv, deployment' = deployment,
           NEW w \in Worker, step[w] \in Locking,
           NEW k, k = key[w], NEW p, NEW published \in BOOLEAN,
           Committable(w, k, p, published),
           CommitOccurrence(w, k, p, published)
    PROVE  /\ TableTyped' /\ Stored'
           /\ \A v \in Worker \ {w} : Spared(v)
<1>1. PICK e : e = Crons(w)[k]
  OBVIOUS
<1>2. /\ k \in CronKey /\ k \in Registered(w) /\ e \in Entry
      /\ e.expression \in Expression /\ e.revision \in Nat
      /\ Fires[e.expression] \subseteq Nat
      /\ rowLock[k] = w /\ schedule[k] # None /\ schedule[k] \in ScheduleRow
      /\ schedule[k].entry = e
  BY <1>1, Occurs
<1>3. /\ p.occurrence \in Nat /\ p.next \in Nat /\ p.expires \in Nat
      /\ p.next \in Fires[e.expression] /\ p.late \in BOOLEAN
  BY <1>1, <1>2 DEF Committable
<1>4. PICK row : row = [schedule[k] EXCEPT !.next = p.next]
  OBVIOUS
<1>5. /\ row \in ScheduleRow /\ row.entry = e /\ row.next = p.next
      /\ row # None
  BY <1>2, <1>3, <1>4 DEF ScheduleRow, CronAssumption
<1>6. PICK claim : claim = [at |-> p.occurrence, expires |-> p.expires]
  OBVIOUS
<1>7. claim \in Claim
  BY <1>3, <1>6 DEF Claim
<1>8. PICK job : job = Job(w, k, p)
  OBVIOUS
<1>9. job \in Published
  BY <1>1, <1>2, <1>3, <1>8 DEF Job, Published
<1>10. TableTyped
  BY DEF CronInv
<1>11. schedule' = [schedule EXCEPT ![k] = row]
  BY <1>2, <1>4, <1>10 DEF CommitOccurrence, TableTyped
<1>12. /\ \/ claims' = claims
          \/ claims' = [claims EXCEPT ![k] = claims[k] \cup {claim}]
       /\ \/ jobs' = jobs
          \/ jobs' = [jobs EXCEPT ![k] = Append(jobs[k], job)]
       /\ live' = live \/ live' = [live EXCEPT ![k] = TRUE]
       /\ Unlock(w)
  BY <1>2, <1>6, <1>8, <1>10 DEF CommitOccurrence, TableTyped, Job
<1>13. /\ UNCHANGED <<clock, events>> /\ mishaps' \in 0..MaxMishaps
  BY Bounds DEF CommitOccurrence, Proceed
<1>14. schedule' \in [CronKey -> ScheduleRow \cup {None}]
  BY <1>5, <1>10, <1>11 DEF TableTyped
<1>15. claims' \in [CronKey -> SUBSET Claim]
  <2>1. PICK more : more = claims[k] \cup {claim}
    OBVIOUS
  <2>2. more \in SUBSET Claim
    BY <1>2, <1>7, <1>10, <2>1 DEF TableTyped
  <2>3. claims' = claims \/ claims' = [claims EXCEPT ![k] = more]
    BY <1>12, <2>1
  <2>4. QED
    BY <1>10, <2>2, <2>3 DEF TableTyped
<1>16. jobs' \in [CronKey -> Seq(Published)]
  <2>1. PICK more : more = Append(jobs[k], job)
    OBVIOUS
  <2>2. jobs[k] \in Seq(Published)
    BY <1>2, <1>10 DEF TableTyped
  <2>3. more \in Seq(Published)
    BY <1>9, <2>1, <2>2
  <2>4. jobs' = jobs \/ jobs' = [jobs EXCEPT ![k] = more]
    BY <1>12, <2>1
  <2>5. QED
    BY <1>10, <2>3, <2>4 DEF TableTyped
<1>17. live' \in [CronKey -> BOOLEAN]
  BY <1>10, <1>12 DEF TableTyped
<1>18. /\ rowLock' \in [CronKey -> Holder] /\ advisory' \in [CronKey -> Holder]
  BY <1>10, <1>12 DEF TableTyped, Unlock, Holder
<1>19. TableTyped'
  BY <1>10, <1>13, <1>14, <1>15, <1>16, <1>17, <1>18 DEF TableTyped
<1>20. /\ schedule'[k] = row
       /\ \A j \in CronKey \ {k} : schedule'[j] = schedule[j]
       /\ \A j \in CronKey \ {k} : claims'[j] = claims[j]
       /\ \A j \in CronKey \ {k} : jobs'[j] = jobs[j]
  BY <1>2, <1>10, <1>11, <1>12 DEF TableTyped
<1>21. \A v : Registered(v)' = Registered(v) /\ Crons(v)' = Crons(v)
  BY DEF Registered, Crons
<1>22. Stored'
  BY <1>1, <1>2, <1>3, <1>5, <1>20, <1>21, Locals DEF Stored
<1>23. \A v \in Worker \ {w} : Spared(v)
  BY <1>2, <1>12, <1>20 DEF Spared, Unlock
<1>24. QED
  BY <1>19, <1>22, <1>23

\* The claim outlasts the time in which the occurrence could be published.
LEMMA CommitRemembers ==
    ASSUME CronAssumption, CronInv, deployment' = deployment,
           NEW w \in Worker, step[w] \in Locking,
           NEW k, k = key[w], NEW p, NEW published \in BOOLEAN,
           Committable(w, k, p, published),
           CommitOccurrence(w, k, p, published)
    PROVE  Remembered' /\ PublishedOnce'
<1>1. PICK e : e = Crons(w)[k]
  OBVIOUS
<1>2. /\ k \in CronKey /\ e \in Entry /\ e.expression \in Expression
      /\ Fires[e.expression] \subseteq Nat
      /\ SchedulingTime(w, clock) \in 0..MaxClock
  BY <1>1, Occurs
<1>3. PICK x : x = p.occurrence
  OBVIOUS
<1>4. /\ x \in Fires[e.expression] /\ x \in Nat
      /\ x <= SchedulingTime(w, clock)
      /\ NextOccurrence(e, x) <= p.expires
      /\ published => /\ \A c \in claims[k] : c.at # x
                      /\ \A i \in DOMAIN jobs[k] :
                           /\ jobs[k][i].at = x
                           /\ jobs[k][i].expression = e.expression
                           => p.late
  BY <1>1, <1>2, <1>3 DEF Committable
<1>5. PICK claim : claim = [at |-> x, expires |-> p.expires]
  OBVIOUS
<1>6. PICK job : job = Job(w, k, p)
  OBVIOUS
<1>7. job.at = x /\ job.expression = e.expression /\ job.late = p.late
  BY <1>1, <1>3, <1>6 DEF Job
<1>8. /\ TableTyped /\ Remembered /\ PublishedOnce
  BY DEF CronInv
<1>9. clock' = clock
  BY DEF CommitOccurrence, Proceed
<1>10. \/ claims' = claims
       \/ claims' = [claims EXCEPT ![k] = claims[k] \cup {claim}]
  BY <1>2, <1>3, <1>5, <1>8 DEF CommitOccurrence, TableTyped
<1>11. \A j \in CronKey : claims[j] \subseteq claims'[j]
  <2>1. PICK more : more = claims[k] \cup {claim}
    OBVIOUS
  <2>2. claims' = claims \/ claims' = [claims EXCEPT ![k] = more]
    BY <1>10, <2>1
  <2>3. \A j \in CronKey : \/ claims'[j] = claims[j]
                           \/ j = k /\ claims'[j] = more
    BY <1>8, <2>2 DEF TableTyped
  <2>4. QED
    BY <2>1, <2>3
<1>12. CASE ~published
  <2>1. jobs' = jobs
    BY <1>12 DEF CommitOccurrence
  <2>2. PublishedOnce'
    BY <1>8, <2>1 DEF PublishedOnce
  <2>3. ASSUME NEW j \in CronKey, NEW i \in DOMAIN jobs[j]
        PROVE  LET y == jobs[j][i].at
                   next == NextOccurrence(jobs[j][i], y)
               IN  /\ next \in Nat
                   /\ \/ next <= clock'
                      \/ \E c \in claims'[j] : c.at = y /\ next <= c.expires
    BY <1>8, <1>9, <1>11, <2>3 DEF Remembered
  <2>4. Remembered'
    BY <2>1, <2>3 DEF Remembered, NextOccurrence
  <2>5. QED
    BY <2>2, <2>4
<1>13. CASE published
  <2>1. jobs' = [jobs EXCEPT ![k] = Append(jobs[k], job)]
    BY <1>6, <1>8, <1>13 DEF CommitOccurrence, Job, TableTyped
  <2>2. claim \in claims'[k]
    BY <1>2, <1>3, <1>4, <1>5, <1>8, <1>13 DEF CommitOccurrence, TableTyped
  <2>3. jobs[k] \in Seq(Published)
    BY <1>2, <1>8 DEF TableTyped
  <2>4. PICK n : n = Len(jobs[k])
    OBVIOUS
  <2>5. /\ jobs'[k] = Append(jobs[k], job)
        /\ \A j \in CronKey \ {k} : jobs'[j] = jobs[j]
    BY <1>2, <1>8, <2>1 DEF TableTyped
  <2>6. /\ n \in Nat /\ DOMAIN jobs[k] = 1..n /\ DOMAIN jobs'[k] = 1..(n + 1)
        /\ jobs'[k][n + 1] = job
        /\ \A i \in 1..n : jobs'[k][i] = jobs[k][i]
    BY <2>3, <2>4, <2>5
  <2>7. \A i \in DOMAIN jobs'[k] :
           \/ i = n + 1
           \/ i \in DOMAIN jobs[k] /\ jobs'[k][i] = jobs[k][i]
    BY <2>6
  <2>8. NextOccurrence(job, x) = NextOccurrence(e, x)
    BY <1>7 DEF NextOccurrence
  <2>9. NextOccurrence(e, x) \in Nat
    <3>1. x \in 0..MaxClock
      BY <1>2, <1>4, Occurs DEF CronAssumption
    <3>2. QED
      BY <1>2, <1>4, <3>1, NextExists, NextIs
  <2>10. Remembered'
    <3>1. SUFFICES ASSUME NEW j \in CronKey, NEW i \in DOMAIN jobs'[j]
                   PROVE  LET y == jobs'[j][i].at
                              next == NextOccurrence(jobs'[j][i], y)
                          IN  /\ next \in Nat
                              /\ \/ next <= clock'
                                 \/ \E c \in claims'[j] :
                                      c.at = y /\ next <= c.expires
      BY DEF Remembered, NextOccurrence
    <3>2. CASE j = k /\ i = n + 1
      BY <1>4, <1>5, <1>7, <2>2, <2>6, <2>8, <2>9, <3>2
    <3>3. CASE ~(j = k /\ i = n + 1)
      <4>1. i \in DOMAIN jobs[j] /\ jobs'[j][i] = jobs[j][i]
        BY <2>5, <2>7, <3>1, <3>3
      <4>2. QED
        BY <1>8, <1>9, <1>11, <4>1 DEF Remembered
    <3>4. QED
      BY <3>2, <3>3
  <2>11. PublishedOnce'
    <3>1. SUFFICES ASSUME NEW j \in CronKey,
                          NEW i \in DOMAIN jobs'[j], NEW h \in DOMAIN jobs'[j],
                          i < h, jobs'[j][i].at = jobs'[j][h].at,
                          jobs'[j][i].expression = jobs'[j][h].expression
                   PROVE  jobs'[j][h].late
      BY DEF PublishedOnce
    <3>2. CASE j # k
      <4>1. jobs'[j] = jobs[j]
        BY <2>5, <3>1, <3>2
      <4>2. QED
        BY <1>8, <3>1, <4>1 DEF PublishedOnce
    <3>3. CASE j = k
      <4>1. \A g \in DOMAIN jobs[k] :
              /\ jobs[k][g].at = job.at
              /\ jobs[k][g].expression = job.expression
              => job.late
        BY <1>4, <1>7, <1>13
      <4>2. i \in 1..(n + 1) /\ h \in 1..(n + 1) /\ n \in Nat
        BY <2>6, <3>1, <3>3
      <4>3. CASE h = n + 1
        <5>1. i \in DOMAIN jobs[k] /\ jobs'[k][i] = jobs[k][i]
          BY <2>6, <3>1, <4>2, <4>3
        <5>2. QED
          BY <2>6, <3>1, <3>3, <4>1, <4>3, <5>1
      <4>4. CASE h # n + 1
        <5>1. h \in 1..n /\ i \in 1..n
          BY <3>1, <4>2, <4>4
        <5>2. /\ i \in DOMAIN jobs[k] /\ jobs'[k][i] = jobs[k][i]
              /\ h \in DOMAIN jobs[k] /\ jobs'[k][h] = jobs[k][h]
          BY <2>6, <5>1
        <5>3. QED
          BY <1>2, <1>8, <3>1, <3>3, <5>2 DEF PublishedOnce
      <4>5. QED
        BY <4>3, <4>4
    <3>4. QED
      BY <3>2, <3>3
  <2>12. QED
    BY <2>10, <2>11
<1>14. QED
  BY <1>12, <1>13

LEMMA CommitOK ==
    ASSUME CronAssumption, CronInv, deployment' = deployment,
           NEW w \in Worker, step[w] \in Locking,
           NEW k, k = key[w], NEW p, NEW published \in BOOLEAN,
           Committable(w, k, p, published),
           CommitOccurrence(w, k, p, published)
    PROVE  CronInv'
<1>1. /\ state[w] \in SchedState /\ k \in CronKey /\ k \in todo[w]
      /\ advanced[w] \in BOOLEAN
  BY Occurs, Locals
<1>2. step[w] \in InPass
  BY DEF Locking, InPass
<1>3. PICK c : c = [state[w] EXCEPT !.contended[k] = 0]
  OBVIOUS
<1>4. Recounted(c, state[w])
  BY <1>1, <1>3, CalmIs
<1>5. PICK rest : rest = todo[w] \ {k}
  OBVIOUS
<1>6. PICK m : m = (w \in Bursts)
  OBVIOUS
<1>7. m \in BOOLEAN
  BY <1>6
<1>8. \/ Proceed(w, rest, c, m)
      \/ Proceed(w, rest, Troubled(c, k), advanced[w])
  BY <1>3, <1>5, <1>6, Zenon DEF CommitOccurrence
<1>9. PICK n : /\ n = c \/ n = Troubled(c, k)
               /\ \E moved \in BOOLEAN : Proceed(w, rest, n, moved)
  BY <1>1, <1>7, <1>8
<1>10. n \in SchedState /\ Filed(w, rest, n)
  <2>1. Outcome(n, c, k)
    BY <1>9 DEF Outcome
  <2>2. n \in SchedState /\ Filed(w, todo[w] \ {k}, n)
    BY <1>1, <1>2, <1>4, <2>1, FiledAfter
  <2>3. QED
    BY <1>5, <2>2, Zenon
<1>11. LocalTyped' /\ (\A v \in Worker \ {w} : Same(v)) /\ Scheduling(w)'
  BY <1>2, <1>9, <1>10, ProceedOK
<1>12. clock' = clock
  BY <1>9 DEF Proceed
<1>13. /\ TableTyped' /\ Stored'
       /\ \A v \in Worker \ {w} : Spared(v)
  BY CommitTable
<1>14. Remembered' /\ PublishedOnce'
  BY CommitRemembers
<1>15. QED
  BY <1>11, <1>12, <1>13, <1>14, StepOK

-----------------------------------------------------------------------------
(***************************************************************************)
(* The steps of the transaction.                                           *)
(***************************************************************************)
\* The decision about the row that is locked.
LEMMA Decided ==
    ASSUME CronAssumption, CronInv, NEW w \in Worker, step[w] = "decide",
           NEW k, k = key[w], NEW e, e = Crons(w)[k],
           NEW p, p = Decision(w, e, schedule[k].next, clock)
    PROVE  /\ p.occurrence \in Fires[e.expression]
           /\ p.occurrence <= SchedulingTime(w, clock)
           /\ Sound(e, schedule[k].next, SchedulingTime(w, clock), clock, p)
<1>1. step[w] \in Locking
  BY DEF Locking
<1>2. PICK t : t = SchedulingTime(w, clock)
  OBVIOUS
<1>3. PICK stored : stored = schedule[k].next
  OBVIOUS
<1>4. /\ e \in Entry /\ stored \in Fires[e.expression]
      /\ stored <= t /\ t \in 0..MaxClock /\ t <= clock
  BY <1>1, <1>2, <1>3, Occurs
<1>5. PICK current : current = clock
  OBVIOUS
<1>6. /\ current \in 0..MaxClock /\ t = SchedulingTime(w, current)
      /\ t <= current /\ p = Decision(w, e, stored, current)
  BY <1>2, <1>3, <1>4, <1>5, Locals
<1>7. Sound(e, stored, t, current, p)
  BY <1>4, <1>6, DecisionIs
<1>8. p.occurrence \in Fires[e.expression] /\ p.occurrence <= t
  BY <1>7 DEF Sound
<1>9. QED
  BY <1>2, <1>3, <1>5, <1>7, <1>8, Zenon

LEMMA ReadTimeOK ==
    ASSUME CronAssumption, CronInv, deployment' = deployment,
           NEW w \in Worker, ReadTime(w)
    PROVE  CronInv'
<1>1. PICK k : k = key[w]
  OBVIOUS
<1>2. PICK e : e = Crons(w)[k]
  OBVIOUS
<1>3. PICK p : p = Decision(w, e, schedule[k].next, clock)
  OBVIOUS
<1>4. /\ step[w] = "decide" /\ step[w] \in Locking /\ advisory[k] = None
      /\ advisory' = [advisory EXCEPT ![k] = w]
      /\ plan' = [plan EXCEPT ![w] = p]
      /\ step' = [step EXCEPT ![w] = "claim"]
      /\ UNCHANGED <<clock, table, rowLock, starting, through, todo, key, now,
                     state, advanced, health, mishaps, events>>
  BY <1>1, <1>2, <1>3 DEF ReadTime, Locking
<1>5. Sound(e, schedule[k].next, SchedulingTime(w, clock), clock, p)
  BY <1>1, <1>2, <1>3, <1>4, Decided
<1>6. /\ k \in CronKey /\ k \in Registered(w) /\ k \in todo[w]
      /\ e \in Entry /\ e.expression \in Expression
      /\ Fires[e.expression] \subseteq Nat
      /\ rowLock[k] = w /\ schedule[k] # None /\ schedule[k].entry = e
      /\ schedule[k].next <= SchedulingTime(w, clock)
      /\ SchedulingTime(w, clock) \in 0..MaxClock
  BY <1>1, <1>2, <1>4, Occurs
<1>7. /\ Lists(w) /\ Reported(w) /\ Timed(w) /\ LocalTyped /\ TableTyped
      /\ clock \in 0..MaxClock
  BY Locals DEF CronInv
<1>8. p \in Plan
  <2>1. p.occurrence \in Nat /\ p.next \in Nat
    BY <1>5, <1>6 DEF Sound
  <2>2. p = [occurrence |-> p.occurrence, publish |-> p.publish,
             next |-> p.next, expires |-> p.expires, late |-> p.late]
    BY <1>3, Zenon DEF Decision
  <2>3. QED
    BY <1>5, <2>1, <2>2 DEF Plan, Sound
<1>9. LocalTyped'
  BY <1>4, <1>7, <1>8 DEF LocalTyped, Step, InPass
<1>10. TableTyped'
  BY <1>4, <1>7 DEF TableTyped, table, Holder
<1>11. Stored' /\ Remembered' /\ PublishedOnce'
  BY <1>4 DEF CronInv, Stored, Remembered, PublishedOnce, table, Registered,
              Crons
<1>12. \A v \in Worker \ {w} : Same(v)
  BY <1>4, <1>7 DEF Same, LocalTyped
<1>13. \A v \in Worker \ {w} : Spared(v)
  <2>1. advisory \in [CronKey -> Holder] /\ None \notin Worker
    BY <1>7 DEF TableTyped, CronAssumption
  <2>2. QED
    BY <1>4, <1>6, <2>1 DEF Spared, table
<1>14. /\ step'[w] = "claim" /\ key'[w] = k /\ plan'[w] = p
       /\ starting'[w] = starting[w] /\ todo'[w] = todo[w]
       /\ state'[w] = state[w] /\ health'[w] = health[w]
       /\ through'[w] = through[w] /\ clock' = clock
       /\ rowLock' = rowLock /\ schedule' = schedule /\ advisory'[k] = w
  BY <1>1, <1>4, <1>6, <1>7 DEF LocalTyped, TableTyped, table
<1>15. /\ Registered(w)' = Registered(w) /\ Bursts' = Bursts
       /\ Crons(w)' = Crons(w)
  BY DEF Registered, Crons, Bursts
<1>16. SchedulingTime(w, clock)' = SchedulingTime(w, clock)
  BY <1>14 DEF SchedulingTime
<1>17. Lists(w)' /\ Reported(w)'
  BY <1>4, <1>6, <1>7, <1>14, <1>15 DEF Lists, Reported, InPass, Reconciling
<1>18. Timed(w)'
  BY <1>4, <1>7, <1>14, <1>15 DEF Timed, Reconciling, InPass
<1>19. Locked(w)'
  BY <1>2, <1>6, <1>14, <1>15, <1>16 DEF Locked
<1>20. Standing(e, schedule[k].next, SchedulingTime(w, clock), clock, p)
  BY <1>5 DEF Sound, Standing
<1>21. Planned(w)'
  <2>1. Standing(Crons(w)'[key'[w]], schedule'[key'[w]].next,
                 SchedulingTime(w, clock)', clock', plan'[w])
    BY <1>2, <1>14, <1>15, <1>16, <1>20
  <2>2. QED
    BY <1>14, <2>1 DEF Planned
<1>22. QED
  BY <1>4, <1>9, <1>10, <1>11, <1>12, <1>13, <1>17, <1>18, <1>19, <1>21, StepOK
     DEF Scheduling

\* The plan is still good when it is carried out.
LEMMA PlanHolds ==
    ASSUME CronAssumption, CronInv, NEW w \in Worker,
           step[w] \in Claiming, NEW k, k = key[w]
    PROVE  /\ Committable(w, k, plan[w], FALSE)
           /\ step[w] # "claim" => Committable(w, k, plan[w], TRUE)
<1>1. Planned(w) /\ plan[w] \in Plan
  BY Locals
<1>2. PICK p : p = plan[w]
  OBVIOUS
<1>3. PICK e : e = Crons(w)[k]
  OBVIOUS
<1>4. /\ p.expires \in Nat /\ p.late \in BOOLEAN
      /\ p.occurrence \in Fires[e.expression]
      /\ p.occurrence <= SchedulingTime(w, clock)
      /\ p.next \in Fires[e.expression]
      /\ NextOccurrence(e, p.occurrence) <= p.expires
  BY <1>1, <1>2, <1>3 DEF Planned, Standing, Plan
<1>5. step[w] # "claim" =>
        /\ \A c \in claims[k] : c.at # p.occurrence
        /\ \A i \in DOMAIN jobs[k] :
             /\ jobs[k][i].at = p.occurrence
             /\ jobs[k][i].expression = e.expression
             => p.late
  BY <1>1, <1>2, <1>3 DEF Planned, Claiming
<1>6. QED
  BY <1>2, <1>3, <1>4, <1>5 DEF Committable

LEMMA ClaimOccurrenceOK ==
    ASSUME CronAssumption, CronInv, deployment' = deployment,
           NEW w \in Worker, ClaimOccurrence(w)
    PROVE  CronInv'
<1>1. PICK k : k = key[w]
  OBVIOUS
<1>2. PICK e : e = Crons(w)[k]
  OBVIOUS
<1>3. PICK p : p = plan[w]
  OBVIOUS
<1>4. PICK l : l = ~InTime(e, p.occurrence, clock)
  OBVIOUS
<1>5. /\ step[w] = "claim" /\ step[w] \in Locking /\ step[w] \in Claiming
      /\ \/ CommitOccurrence(w, k, p, FALSE)
         \/ /\ ~((\E c \in claims[k] : c.at = p.occurrence)
                   \/ ~p.publish \/ live[k])
            /\ plan' = [plan EXCEPT ![w].late = l]
            /\ step' = [step EXCEPT ![w] = "insert"]
            /\ UNCHANGED <<clock, table, locks, starting, through, todo, key,
                           now, state, advanced, health, mishaps, events>>
  BY <1>1, <1>2, <1>3, <1>4, Zenon DEF ClaimOccurrence, Locking, Claiming
<1>6. CASE CommitOccurrence(w, k, p, FALSE)
  <2>1. Committable(w, k, p, FALSE)
    BY <1>1, <1>3, <1>5, PlanHolds
  <2>2. QED
    BY <1>1, <1>5, <1>6, <2>1, CommitOK
<1>7. CASE /\ ~((\E c \in claims[k] : c.at = p.occurrence)
                  \/ ~p.publish \/ live[k])
           /\ plan' = [plan EXCEPT ![w].late = l]
           /\ step' = [step EXCEPT ![w] = "insert"]
           /\ UNCHANGED <<clock, table, locks, starting, through, todo, key,
                          now, state, advanced, health, mishaps, events>>
  <2>1. /\ Lists(w) /\ Reported(w) /\ Timed(w) /\ LocalTyped
        /\ Locked(w) /\ Planned(w) /\ Remembered /\ p \in Plan
        /\ clock \in 0..MaxClock
    BY <1>3, Locals DEF CronInv
  <2>2. l \in BOOLEAN
    BY <1>4, Zenon
  <2>3. PICK q : q = [p EXCEPT !.late = l]
    OBVIOUS
  <2>4. /\ q \in Plan /\ q.occurrence = p.occurrence /\ q.publish = p.publish
        /\ q.next = p.next /\ q.expires = p.expires /\ q.late = l
    BY <2>1, <2>2, <2>3 DEF Plan
  <2>5. plan' = [plan EXCEPT ![w] = q]
    BY <1>3, <1>7, <2>1, <2>3 DEF LocalTyped
  <2>6. LocalTyped'
    <3>1. plan' \in [Worker -> Plan]
      BY <2>1, <2>4, <2>5 DEF LocalTyped
    <3>2. step' \in [Worker -> Step]
      BY <1>7, <2>1 DEF LocalTyped, Step, InPass
    <3>3. UNCHANGED <<starting, through, todo, key, now, state, advanced, health>>
      BY <1>7
    <3>4. QED
      BY <2>1, <3>1, <3>2, <3>3 DEF LocalTyped
  <2>7. \A v \in Worker \ {w} : Same(v)
    BY <1>7, <2>1, <2>5 DEF Same, LocalTyped
  <2>8. /\ step'[w] = "insert" /\ key'[w] = k /\ plan'[w] = q
        /\ starting'[w] = starting[w] /\ todo'[w] = todo[w]
        /\ state'[w] = state[w] /\ health'[w] = health[w]
        /\ through'[w] = through[w] /\ clock' = clock
        /\ rowLock' = rowLock /\ schedule' = schedule
        /\ advisory' = advisory /\ claims' = claims /\ jobs' = jobs
    BY <1>1, <1>7, <2>1, <2>5 DEF LocalTyped, table, locks
  <2>9. /\ Registered(w)' = Registered(w) /\ Bursts' = Bursts
        /\ Crons(w)' = Crons(w)
    BY DEF Registered, Crons, Bursts
  <2>10. SchedulingTime(w, clock)' = SchedulingTime(w, clock)
    BY <2>8 DEF SchedulingTime
  <2>11. Lists(w)' /\ Reported(w)'
    BY <1>1, <1>5, <2>1, <2>8, <2>9
       DEF Lists, Reported, InPass, Reconciling, AtKey
  <2>12. Timed(w)'
    BY <1>5, <2>1, <2>8, <2>9 DEF Timed, Reconciling, InPass
  <2>13. Locked(w)'
    BY <1>1, <1>5, <2>1, <2>8, <2>9, <2>10 DEF Locked, Locking
  <2>14. Standing(e, schedule[k].next, SchedulingTime(w, clock), clock, p)
    BY <1>1, <1>2, <1>3, <1>5, <2>1 DEF Planned
  <2>15. Standing(e, schedule[k].next, SchedulingTime(w, clock), clock, q)
    BY <2>4, <2>14, Zenon DEF Standing
  <2>16. /\ e \in Entry /\ e.expression \in Expression
         /\ Fires[e.expression] \subseteq Nat
         /\ SchedulingTime(w, clock) \in 0..MaxClock
    BY <1>1, <1>2, <1>5, Occurs
  \* A job for an occurrence that is in time would have its claim still.
  <2>17. ASSUME NEW i \in DOMAIN jobs[k],
                jobs[k][i].at = p.occurrence,
                jobs[k][i].expression = e.expression
         PROVE  l
    <3>1. SUFFICES ASSUME InTime(e, p.occurrence, clock)
                   PROVE  FALSE
      BY <1>4
    <3>2. NextOccurrence(jobs[k][i], p.occurrence) =
            NextOccurrence(e, p.occurrence)
      BY <2>17 DEF NextOccurrence
    <3>3. \A c \in claims[k] : c.at # p.occurrence
      BY <1>7
    <3>4. k \in CronKey
      BY <1>1, <1>5, Occurs
    <3>5. NextOccurrence(e, p.occurrence) \in Nat
          /\ NextOccurrence(e, p.occurrence) <= clock
      BY <2>1, <2>17, <3>2, <3>3, <3>4 DEF Remembered
    <3>6. /\ p.occurrence \in Fires[e.expression]
          /\ p.occurrence <= SchedulingTime(w, clock)
      BY <2>14 DEF Standing
    <3>7. p.occurrence <= MaxClock /\ clock \in Nat
      BY <2>1, <2>16, <3>6 DEF CronAssumption
    <3>8. clock < NextOccurrence(e, p.occurrence)
      BY <2>16, <3>1, <3>6, <3>7, InTimeIs
    <3>9. QED
      BY <3>5, <3>7, <3>8
  <2>18. Planned(w)'
    <3>1. Standing(Crons(w)'[key'[w]], schedule'[key'[w]].next,
                   SchedulingTime(w, clock)', clock', plan'[w])
      BY <1>2, <2>8, <2>9, <2>10, <2>15
    <3>2. /\ \A c \in claims'[k] : c.at # q.occurrence
          /\ \A i \in DOMAIN jobs'[k] :
               /\ jobs'[k][i].at = q.occurrence
               /\ jobs'[k][i].expression = e.expression
               => q.late
      BY <1>7, <2>4, <2>8, <2>17
    <3>3. QED
      BY <1>2, <2>8, <2>9, <3>1, <3>2 DEF Planned
  <2>19. QED
    BY <1>7, <2>6, <2>7, <2>11, <2>12, <2>13, <2>18, Bounds, QuietStep
       DEF Scheduling
<1>8. QED
  BY <1>5, <1>6, <1>7

LEMMA InsertJobOK ==
    ASSUME CronAssumption, CronInv, deployment' = deployment,
           NEW w \in Worker, InsertJob(w)
    PROVE  CronInv'
<1>1. PICK k : k = key[w]
  OBVIOUS
<1>2. PICK p : p = plan[w]
  OBVIOUS
<1>3. step[w] = "insert" /\ step[w] \in Locking /\ step[w] \in Claiming
  BY DEF InsertJob, Locking, Claiming
<1>4. CASE CommitOccurrence(w, k, p, TRUE)
  <2>1. Committable(w, k, p, TRUE)
    BY <1>1, <1>2, <1>3, PlanHolds
  <2>2. QED
    BY <1>1, <1>3, <1>4, <2>1, CommitOK
<1>5. CASE /\ step' = [step EXCEPT ![w] = "reread"]
           /\ UNCHANGED <<clock, table, locks, starting, through, todo, key,
                          now, plan, state, advanced, health, mishaps, events>>
  <2>1. /\ Lists(w) /\ Reported(w) /\ Timed(w) /\ LocalTyped
        /\ Locked(w) /\ Planned(w)
    BY Locals DEF CronInv
  <2>2. LocalTyped'
    BY <1>5, <2>1 DEF LocalTyped, Step, InPass
  <2>3. \A v \in Worker \ {w} : Same(v)
    BY <1>5, <2>1 DEF Same, LocalTyped
  <2>4. /\ step'[w] = "reread" /\ key'[w] = key[w] /\ plan'[w] = plan[w]
        /\ starting'[w] = starting[w] /\ todo'[w] = todo[w]
        /\ state'[w] = state[w] /\ health'[w] = health[w]
        /\ through'[w] = through[w] /\ clock' = clock
        /\ rowLock' = rowLock /\ schedule' = schedule
        /\ advisory' = advisory /\ claims' = claims /\ jobs' = jobs
    BY <1>5, <2>1 DEF LocalTyped, table, locks
  <2>5. /\ Registered(w)' = Registered(w) /\ Bursts' = Bursts
        /\ Crons(w)' = Crons(w)
    BY DEF Registered, Crons, Bursts
  <2>6. SchedulingTime(w, clock)' = SchedulingTime(w, clock)
    BY <2>4 DEF SchedulingTime
  <2>7. Lists(w)' /\ Reported(w)'
    BY <1>3, <2>1, <2>4, <2>5
       DEF Lists, Reported, InPass, Reconciling, AtKey
  <2>8. Timed(w)'
    BY <1>3, <2>1, <2>4, <2>5 DEF Timed, Reconciling, InPass
  <2>9. Locked(w)'
    BY <1>3, <2>1, <2>4, <2>5, <2>6 DEF Locked, Locking
  <2>10. Planned(w)'
    <3>1. PICK e : e = Crons(w)[key[w]]
      OBVIOUS
    <3>2. PICK t : t = SchedulingTime(w, clock)
      OBVIOUS
    <3>3. Standing(e, schedule[key[w]].next, t, clock, plan[w])
      BY <1>3, <2>1, <3>1, <3>2 DEF Planned
    <3>4. Standing(Crons(w)'[key'[w]], schedule'[key'[w]].next,
                   SchedulingTime(w, clock)', clock', plan'[w])
      BY <2>4, <2>5, <2>6, <3>1, <3>2, <3>3
    <3>5. QED
      BY <1>3, <2>1, <2>4, <2>5, <3>4 DEF Planned
  <2>11. QED
    BY <1>5, <2>2, <2>3, <2>7, <2>8, <2>9, <2>10, Bounds, QuietStep
       DEF Scheduling
<1>6. QED
  BY <1>1, <1>2, <1>4, <1>5 DEF InsertJob

LEMMA RereadHolderOK ==
    ASSUME CronAssumption, CronInv, deployment' = deployment,
           NEW w \in Worker, RereadHolder(w)
    PROVE  CronInv'
<1>1. PICK k : k = key[w]
  OBVIOUS
<1>2. PICK p : p = plan[w]
  OBVIOUS
<1>3. /\ step[w] = "reread" /\ step[w] \in Locking /\ step[w] \in InPass
      /\ k \in todo[w] /\ step[w] \in Claiming
  BY <1>1, Occurs DEF RereadHolder, Locking, InPass, Claiming
<1>4. CASE CommitOccurrence(w, k, p, FALSE)
  <2>1. Committable(w, k, p, FALSE)
    BY <1>1, <1>2, <1>3, PlanHolds
  <2>2. QED
    BY <1>1, <1>3, <1>4, <2>1, CommitOK
<1>5. CASE AbandonCron(w, k) /\ UNCHANGED mishaps
  BY <1>3, <1>5, Bounds, AbandonOK
<1>6. QED
  BY <1>1, <1>2, <1>4, <1>5 DEF RereadHolder

-----------------------------------------------------------------------------
(***************************************************************************)
(* Everybody else.                                                         *)
(***************************************************************************)
LEMMA OutsideStep ==
    ASSUME CronAssumption, CronInv, deployment' = deployment,
           clock' \in Nat, clock <= clock', UNCHANGED local,
           TableTyped', Stored', Remembered', PublishedOnce',
           \A v \in Worker : Spared(v)
    PROVE  CronInv'
<1>1. \A v \in Worker : Same(v)
  BY DEF Same, local
<1>2. \A v \in Worker : Scheduling(v)'
  BY <1>1, KeptOK
<1>3. LocalTyped'
  BY DEF CronInv, LocalTyped, local
<1>4. QED
  BY <1>2, <1>3 DEF CronInv

LEMMA TickOK ==
    ASSUME CronAssumption, CronInv, deployment' = deployment, Tick
    PROVE  CronInv'
<1>1. /\ clock' = clock + 1 /\ clock' \in 0..MaxClock /\ clock' \in Nat
      /\ clock \in Nat /\ clock <= clock'
      /\ UNCHANGED <<table, locks, local, mishaps, events>>
  BY DEF Tick, CronInv, TableTyped, CronAssumption
<1>2. TableTyped'
  BY <1>1 DEF CronInv, TableTyped, table, locks
<1>3. Stored' /\ PublishedOnce'
  BY <1>1 DEF CronInv, Stored, PublishedOnce, table, Registered, Crons
<1>4. Remembered'
  <2>1. jobs' = jobs /\ claims' = claims
    BY <1>1 DEF table
  <2>2. SUFFICES ASSUME NEW k \in CronKey, NEW i \in DOMAIN jobs'[k]
                 PROVE  LET x == jobs'[k][i].at
                            next == NextOccurrence(jobs'[k][i], x)
                        IN  /\ next \in Nat
                            /\ \/ next <= clock'
                               \/ \E c \in claims'[k] :
                                    c.at = x /\ next <= c.expires
    BY DEF Remembered, NextOccurrence
  <2>3. PICK x : x = jobs[k][i].at
    OBVIOUS
  <2>4. PICK next : next = NextOccurrence(jobs[k][i], x)
    OBVIOUS
  <2>5. /\ next \in Nat
        /\ next <= clock \/ \E c \in claims[k] : c.at = x /\ next <= c.expires
    BY <2>1, <2>3, <2>4 DEF CronInv, Remembered
  <2>6. next <= clock => next <= clock'
    BY <1>1, <2>5
  <2>7. QED
    BY <2>1, <2>3, <2>4, <2>5, <2>6
<1>5. \A v \in Worker : Spared(v)
  BY <1>1 DEF Spared, table, locks
<1>6. QED
  BY <1>1, <1>2, <1>3, <1>4, <1>5, OutsideStep

LEMMA RemoveScheduleOK ==
    ASSUME CronAssumption, CronInv, deployment' = deployment,
           NEW k \in CronKey, RemoveSchedule(k)
    PROVE  CronInv'
<1>1. clock' = clock /\ clock \in Nat /\ None \notin Worker
  BY DEF RemoveSchedule, CronInv, TableTyped, CronAssumption
<1>2. TableTyped'
  BY Bounds DEF RemoveSchedule, CronInv, TableTyped, locks
<1>3. /\ schedule'[k] = None
      /\ \A j \in CronKey \ {k} : schedule'[j] = schedule[j]
  BY DEF RemoveSchedule, CronInv, TableTyped
<1>4. \A v : Registered(v)' = Registered(v) /\ Crons(v)' = Crons(v)
  BY DEF Registered, Crons
<1>5. Stored'
  BY <1>3, <1>4 DEF Stored, CronInv
<1>6. Remembered' /\ PublishedOnce'
  BY DEF RemoveSchedule, CronInv, Remembered, PublishedOnce
<1>7. \A v \in Worker : Spared(v)
  BY <1>1, <1>3 DEF RemoveSchedule, Spared, locks
<1>8. UNCHANGED local
  BY DEF RemoveSchedule
<1>9. QED
  BY <1>1, <1>2, <1>5, <1>6, <1>7, <1>8, OutsideStep

\* A claim that is purged has outlasted its occurrence.
LEMMA PurgeClaimsOK ==
    ASSUME CronAssumption, CronInv, deployment' = deployment,
           NEW k \in CronKey, PurgeClaims(k)
    PROVE  CronInv'
<1>1. clock' = clock /\ clock \in Nat
  BY DEF PurgeClaims, CronInv, TableTyped, CronAssumption
<1>2. PICK left : left = claims[k] \ {c \in claims[k] : c.expires <= clock}
  OBVIOUS
<1>3. /\ claims' = [claims EXCEPT ![k] = left]
      /\ UNCHANGED <<schedule, live, jobs, locks, local, mishaps, events>>
  BY <1>2 DEF PurgeClaims, CronInv, TableTyped
<1>4. claims \in [CronKey -> SUBSET Claim] /\ claims[k] \in SUBSET Claim
  BY DEF CronInv, TableTyped
<1>5. left \in SUBSET Claim
  BY <1>2, <1>4
<1>6. TableTyped'
  BY <1>1, <1>3, <1>4, <1>5 DEF CronInv, TableTyped, locks
<1>7. /\ claims'[k] = left
      /\ \A j \in CronKey \ {k} : claims'[j] = claims[j]
      /\ \A j \in CronKey : claims'[j] \subseteq claims[j]
  BY <1>2, <1>3, <1>4
<1>8. Stored' /\ PublishedOnce'
  BY <1>3 DEF CronInv, Stored, PublishedOnce, Registered, Crons
<1>9. Remembered'
  <2>1. ASSUME NEW j \in CronKey, NEW i \in DOMAIN jobs[j]
        PROVE  LET x == jobs[j][i].at
                   next == NextOccurrence(jobs[j][i], x)
               IN  /\ next \in Nat
                   /\ \/ next <= clock'
                      \/ \E c \in claims'[j] : c.at = x /\ next <= c.expires
    <3>1. PICK x : x = jobs[j][i].at
      OBVIOUS
    <3>2. PICK next : next = NextOccurrence(jobs[j][i], x)
      OBVIOUS
    <3>3. /\ next \in Nat
          /\ next <= clock \/ \E c \in claims[j] : c.at = x /\ next <= c.expires
      BY <2>1, <3>1, <3>2 DEF CronInv, Remembered
    <3>4. \A c \in claims[k] : c.expires \in Nat
      BY <1>4 DEF Claim
    <3>5. \A c \in claims[k] : c \in left \/ c.expires <= clock
      BY <1>2
    <3>6. next <= clock \/ \E c \in claims'[j] : c.at = x /\ next <= c.expires
      BY <1>1, <1>7, <2>1, <3>3, <3>4, <3>5
    <3>7. QED
      BY <1>1, <3>1, <3>2, <3>3, <3>6
  <2>2. QED
    BY <1>3, <2>1 DEF Remembered, NextOccurrence
<1>10. \A v \in Worker : Spared(v)
  BY <1>3, <1>7 DEF Spared, locks
<1>11. QED
  BY <1>1, <1>3, <1>6, <1>8, <1>9, <1>10, OutsideStep

\* The table stays, but for the jobs that live.
LEMMA LocksOnly ==
    ASSUME CronAssumption, CronInv, deployment' = deployment,
           UNCHANGED <<clock, schedule, claims, jobs, local, mishaps>>,
           live' \in [CronKey -> BOOLEAN],
           rowLock' \in [CronKey -> Holder], advisory' \in [CronKey -> Holder],
           events' \in 0..MaxEvents,
           \A j \in CronKey : \A v \in Worker :
             /\ rowLock[j] = v => rowLock'[j] = v
             /\ advisory[j] = v => advisory'[j] = v
    PROVE  CronInv'
<1>1. TableTyped' /\ clock' = clock /\ clock \in Nat
  BY DEF CronInv, TableTyped, CronAssumption
<1>2. Stored' /\ Remembered' /\ PublishedOnce'
  BY DEF CronInv, Stored, Remembered, PublishedOnce, Registered, Crons
<1>3. \A v \in Worker : Spared(v)
  BY DEF Spared
<1>4. QED
  BY <1>1, <1>2, <1>3, OutsideStep

LEMMA OutsideLockOK ==
    ASSUME CronAssumption, CronInv, deployment' = deployment,
           NEW k \in CronKey, OutsideLock(k)
    PROVE  CronInv'
<1>1. /\ rowLock \in [CronKey -> Holder] /\ advisory \in [CronKey -> Holder]
      /\ live \in [CronKey -> BOOLEAN] /\ None \notin Worker
      /\ Stranger \in Holder
  BY DEF CronInv, TableTyped, CronAssumption, Holder
<1>2. /\ UNCHANGED <<clock, table, local, mishaps>> /\ events' \in 0..MaxEvents
  BY Bounds DEF OutsideLock
<1>3. rowLock' \in [CronKey -> Holder] /\ advisory' \in [CronKey -> Holder]
  BY <1>1 DEF OutsideLock
<1>4. \A j \in CronKey : \A v \in Worker :
        /\ rowLock[j] = v => rowLock'[j] = v
        /\ advisory[j] = v => advisory'[j] = v
  BY <1>1 DEF OutsideLock
<1>5. QED
  BY <1>1, <1>2, <1>3, <1>4, LocksOnly DEF table

LEMMA OutsideUnlockOK ==
    ASSUME CronAssumption, CronInv, deployment' = deployment,
           NEW k \in CronKey, OutsideUnlock(k)
    PROVE  CronInv'
<1>1. /\ rowLock \in [CronKey -> Holder] /\ advisory \in [CronKey -> Holder]
      /\ live \in [CronKey -> BOOLEAN] /\ Stranger \notin Worker
      /\ None \in Holder
  BY DEF CronInv, TableTyped, CronAssumption, Holder
<1>2. UNCHANGED <<clock, table, local, mishaps, events>>
  BY DEF OutsideUnlock
<1>3. rowLock' \in [CronKey -> Holder] /\ advisory' \in [CronKey -> Holder]
  BY <1>1 DEF OutsideUnlock, Unlock
<1>4. \A j \in CronKey : \A v \in Worker :
        /\ rowLock[j] = v => rowLock'[j] = v
        /\ advisory[j] = v => advisory'[j] = v
  BY <1>1 DEF OutsideUnlock, Unlock
<1>5. QED
  BY <1>1, <1>2, <1>3, <1>4, Bounds, LocksOnly DEF table

LEMMA LivenessOnlyOK ==
    ASSUME CronAssumption, CronInv, deployment' = deployment,
           NEW k \in CronKey, ForeignInsert(k) \/ JobFinishes(k)
    PROVE  CronInv'
<1>1. /\ rowLock \in [CronKey -> Holder] /\ advisory \in [CronKey -> Holder]
      /\ live \in [CronKey -> BOOLEAN]
  BY DEF CronInv, TableTyped
<1>2. /\ UNCHANGED <<clock, schedule, claims, jobs, locks, local, mishaps>>
      /\ events' \in 0..MaxEvents
  BY Bounds DEF ForeignInsert, JobFinishes
<1>3. live' \in [CronKey -> BOOLEAN]
  BY <1>1 DEF ForeignInsert, JobFinishes
<1>4. QED
  BY <1>1, <1>2, <1>3, LocksOnly DEF locks

-----------------------------------------------------------------------------
(***************************************************************************)
(* The invariant holds at the beginning and after every step.              *)
(***************************************************************************)
LEMMA CronInitOK ==
    ASSUME CronAssumption, CronInit
    PROVE  CronInv
<1>1. /\ FreshState \in SchedState /\ ~FreshState.failed
      /\ FreshState.disabled = {} /\ FreshState.reasons = {}
      /\ FreshState.unreconciled = {} /\ FreshState.rejected = {}
  BY FreshIs DEF FreshState
<1>2. NoPlan \in Plan /\ MaxClock \in Nat /\ MaxMishaps \in Nat
      /\ MaxEvents \in Nat /\ None \in Holder
  BY DEF NoPlan, Plan, CronAssumption, Holder
<1>3. <<>> \in Seq(Published) /\ DOMAIN <<>> = {}
  OBVIOUS
<1>4. TableTyped
  BY <1>2, <1>3 DEF CronInit, TableTyped
<1>5. LocalTyped
  BY <1>1, <1>2 DEF CronInit, LocalTyped, Step
<1>6. Stored
  BY DEF CronInit, Stored
<1>7. \A k \in CronKey : DOMAIN jobs[k] = {}
  BY <1>3 DEF CronInit
<1>8. Remembered /\ PublishedOnce
  BY <1>7 DEF Remembered, PublishedOnce
<1>9. ASSUME NEW w \in Worker
      PROVE  Scheduling(w)
  <2>1. /\ step[w] = "down" /\ starting[w] = FALSE /\ through[w] = None
        /\ todo[w] = {} /\ state[w] = FreshState /\ health[w] = "starting"
    BY DEF CronInit
  <2>2. Lists(w) /\ Reported(w)
    BY <1>1, <2>1 DEF Lists, Reported, InPass, Reconciling, AtKey
  <2>3. Timed(w) /\ Locked(w) /\ Planned(w)
    BY <2>1 DEF Timed, Locked, Planned, Locking, Claiming, InPass, Reconciling
  <2>4. QED
    BY <2>2, <2>3 DEF Scheduling
<1>10. QED
  BY <1>4, <1>5, <1>6, <1>8, <1>9 DEF CronInv

LEMMA CronNextOK ==
    ASSUME CronAssumption, CronInv, [CronNext]_<<deployment, cronVars>>
    PROVE  CronInv'
<1>1. CASE Tick /\ UNCHANGED deployment
  BY <1>1, TickOK
<1>2. ASSUME UNCHANGED deployment, NEW w \in Worker, CronStep(w)
      PROVE  CronInv'
  BY <1>2, StartSchedulerOK, ReadClockOK, ReconcileOK, ReadBoundaryOK,
     BeginPassOK, ReadDueOK, ReadScheduleOK, LockScheduleOK, ReadTimeOK,
     ClaimOccurrenceOK, InsertJobOK, RereadHolderOK DEF CronStep
<1>3. ASSUME UNCHANGED deployment, NEW w \in Worker, Failure(w)
      PROVE  CronInv'
  BY <1>3, ReconcileFailsOK, CutReconcileOK, ScheduleFailsOK, CutPassOK, DieOK
     DEF Failure
<1>4. ASSUME UNCHANGED deployment, NEW w \in Worker,
             NEW k \in Registered(w), Others(k)
      PROVE  CronInv'
  <2>1. k \in CronKey
    BY <1>4, Locals, Entries
  <2>2. QED
    BY <1>4, <2>1, RemoveScheduleOK, PurgeClaimsOK, OutsideLockOK,
       OutsideUnlockOK, LivenessOnlyOK DEF Others
<1>5. CASE UNCHANGED <<deployment, cronVars>>
  <2>1. /\ deployment' = deployment
        /\ UNCHANGED <<clock, schedule, claims, jobs, live, local, mishaps>>
        /\ UNCHANGED <<rowLock, advisory, events>>
    BY <1>5 DEF cronVars, table, locks
  <2>2. /\ rowLock \in [CronKey -> Holder] /\ advisory \in [CronKey -> Holder]
        /\ live \in [CronKey -> BOOLEAN]
    BY DEF CronInv, TableTyped
  <2>3. QED
    BY <2>1, <2>2, Bounds, LocksOnly
<1>6. QED
  BY <1>1, <1>2, <1>3, <1>4, <1>5 DEF CronNext

-----------------------------------------------------------------------------
(***************************************************************************)
(* What a step of a worker does to the table: it commits an occurrence, or *)
(* it publishes nothing and writes at most the row it reconciles.          *)
(***************************************************************************)
\* What the cursor passes has its claim, is published, or has a reason.
Passes(w, k, p, published) ==
    LET e == Crons(w)[k] IN
    \A x \in Fires[e.expression] :
        schedule[k].next <= x /\ x < p.next =>
            \/ \E c \in claims[k] : c.at = x
            \/ published /\ x = p.occurrence
            \/ live[k]
            \/ ~InTime(e, x, clock)

Commits(w) ==
    /\ step[w] \in Locking
    /\ \E p : \E published \in BOOLEAN :
         /\ CommitOccurrence(w, key[w], p, published)
         /\ Committable(w, key[w], p, published)
         /\ Passes(w, key[w], p, published)

Writes(w) ==
    /\ jobs' = jobs
    /\ \/ schedule' = schedule
       \/ /\ step[w] = "upsert"
          /\ NextOccurrence(Crons(w)[key[w]], now[w]) # None
          /\ Upsert(w, key[w])

\* What the plan passes and does not publish is late.
LEMMA PlanPasses ==
    ASSUME CronAssumption, CronInv, NEW w \in Worker,
           step[w] \in Claiming, NEW k, k = key[w]
    PROVE  \A x \in Fires[Crons(w)[k].expression] :
             schedule[k].next <= x /\ x < plan[w].next =>
               \/ ~InTime(Crons(w)[k], x, clock)
               \/ x = plan[w].occurrence /\ plan[w].publish
BY Locals, Zenon DEF Planned, Standing

LEMMA ClaimCommits ==
    ASSUME CronAssumption, CronInv, NEW w \in Worker, ClaimOccurrence(w)
    PROVE  Commits(w) \/ Writes(w)
<1>1. PICK k : k = key[w]
  OBVIOUS
<1>2. PICK e : e = Crons(w)[k]
  OBVIOUS
<1>3. PICK p : p = plan[w]
  OBVIOUS
<1>4. \/ /\ \/ \E c \in claims[k] : c.at = p.occurrence
            \/ ~p.publish
            \/ live[k]
         /\ CommitOccurrence(w, k, p, FALSE)
      \/ UNCHANGED table
  BY <1>1, <1>3, Zenon DEF ClaimOccurrence
<1>5. step[w] \in Locking /\ step[w] \in Claiming
  BY DEF ClaimOccurrence, Locking, Claiming
<1>6. CASE UNCHANGED table
  BY <1>6 DEF table, Writes
<1>7. CASE /\ \/ \E c \in claims[k] : c.at = p.occurrence
              \/ ~p.publish
              \/ live[k]
           /\ CommitOccurrence(w, k, p, FALSE)
  <2>1. Committable(w, k, p, FALSE)
    BY <1>1, <1>3, <1>5, PlanHolds
  <2>2. \A x \in Fires[e.expression] :
          schedule[k].next <= x /\ x < p.next =>
            ~InTime(e, x, clock) \/ (x = p.occurrence /\ p.publish)
    BY <1>1, <1>2, <1>3, <1>5, PlanPasses
  <2>3. ASSUME NEW x \in Fires[e.expression],
               schedule[k].next <= x, x < p.next
        PROVE  \/ \E c \in claims[k] : c.at = x
               \/ live[k]
               \/ ~InTime(e, x, clock)
    BY <1>7, <2>2, <2>3, Zenon
  <2>4. Passes(w, k, p, FALSE)
    BY <1>2, <2>3, Zenon DEF Passes
  <2>5. QED
    BY <1>1, <1>5, <1>7, <2>1, <2>4, Zenon DEF Commits
<1>8. QED
  BY <1>4, <1>6, <1>7

LEMMA InsertCommits ==
    ASSUME CronAssumption, CronInv, NEW w \in Worker, InsertJob(w)
    PROVE  Commits(w) \/ Writes(w)
<1>1. PICK k : k = key[w]
  OBVIOUS
<1>2. step[w] # "claim" /\ step[w] \in Claiming /\ step[w] \in Locking
  BY DEF InsertJob, Locking, Claiming
<1>3. Committable(w, k, plan[w], TRUE) /\ Passes(w, k, plan[w], TRUE)
  <2>1. Committable(w, k, plan[w], TRUE)
    BY <1>1, <1>2, PlanHolds
  <2>2. Passes(w, k, plan[w], TRUE)
    BY <1>1, <1>2, PlanPasses, Zenon DEF Passes
  <2>3. QED
    BY <2>1, <2>2
<1>4. CASE CommitOccurrence(w, k, plan[w], TRUE)
  BY <1>1, <1>2, <1>3, <1>4 DEF Commits
<1>5. CASE UNCHANGED table
  BY <1>5 DEF table, Writes
<1>6. QED
  BY <1>1, <1>4, <1>5 DEF InsertJob, table

LEMMA RereadCommits ==
    ASSUME CronAssumption, CronInv, NEW w \in Worker, RereadHolder(w)
    PROVE  Commits(w) \/ Writes(w)
<1>1. PICK k : k = key[w]
  OBVIOUS
<1>2. step[w] \in Claiming /\ step[w] \in Locking
  BY DEF RereadHolder, Locking, Claiming
<1>3. CASE live[k] /\ CommitOccurrence(w, k, plan[w], FALSE)
  <2>1. Committable(w, k, plan[w], FALSE)
    BY <1>1, <1>2, PlanHolds
  <2>2. Passes(w, k, plan[w], FALSE)
    BY <1>3, Zenon DEF Passes
  <2>3. QED
    BY <1>1, <1>2, <1>3, <2>1, <2>2 DEF Commits
<1>4. CASE AbandonCron(w, k)
  BY <1>4 DEF AbandonCron, DoneWith, table, Writes
<1>5. QED
  BY <1>1, <1>3, <1>4 DEF RereadHolder

LEMMA WorkerWrites ==
    ASSUME CronAssumption, CronInv, NEW w \in Worker,
           CronStep(w) \/ Failure(w)
    PROVE  Commits(w) \/ Writes(w)
<1>1. CASE \/ StartScheduler(w) \/ ReadClock(w) \/ ReadBoundary(w)
           \/ BeginPass(w) \/ ReadTime(w) \/ Die(w)
  BY <1>1 DEF StartScheduler, ReadClock, ReadBoundary, BeginPass, ReadTime,
              Die, table, Writes
<1>2. CASE Reconcile(w) \/ ReconcileFails(w) \/ CutReconcile(w) \/ CutPass(w)
  BY <1>2 DEF Reconcile, ReconcileFails, CutReconcile, CutPass, Reconciled,
              Writes
<1>3. CASE ReadDue(w) \/ ReadSchedule(w) \/ LockSchedule(w) \/ ScheduleFails(w)
  <2>1. UNCHANGED table
    BY <1>3 DEF ReadDue, ReadSchedule, LockSchedule, ScheduleFails,
                AbandonCron, DoneWith, table
  <2>2. QED
    BY <2>1 DEF table, Writes
<1>4. CASE ClaimOccurrence(w)
  BY <1>4, ClaimCommits
<1>5. CASE InsertJob(w) \/ RereadHolder(w)
  BY <1>5, InsertCommits, RereadCommits
<1>6. QED
  BY <1>1, <1>2, <1>3, <1>4, <1>5 DEF CronStep, Failure

-----------------------------------------------------------------------------
(***************************************************************************)
(* The promises about the steps, key by key.                               *)
(***************************************************************************)
CursorAccounted(k) ==
    schedule[k] # None /\ schedule'[k] # None =>
      LET e == schedule[k].entry IN
      e.expression = schedule'[k].entry.expression =>
        \A x \in Fires[e.expression] :
          schedule[k].next <= x /\ x < schedule'[k].next => Accounted(k, e, x)

AuthorityPublishes(k) ==
    jobs'[k] # jobs[k] =>
      LET job == jobs'[k][Len(jobs'[k])]
      IN  /\ schedule[k] # None
          /\ job.revision = schedule[k].entry.revision

BurstWithinBoundary(k) ==
    \A w \in Bursts :
        jobs'[k] # jobs[k] /\ rowLock[k] = w =>
            jobs'[k][Len(jobs'[k])].at <= through[w]

StepPromises ==
    \A k \in CronKey :
        CursorAccounted(k) /\ AuthorityPublishes(k) /\ BurstWithinBoundary(k)

\* A cursor that stays passes nothing.
LEMMA CursorStays ==
    ASSUME CronAssumption, CronInv, NEW k \in CronKey,
           schedule[k] # None /\ schedule'[k] # None =>
             schedule'[k].next = schedule[k].next
    PROVE  CursorAccounted(k)
<1>1. SUFFICES ASSUME schedule[k] # None, schedule'[k] # None,
                      NEW x \in Fires[schedule[k].entry.expression],
                      schedule[k].next <= x, x < schedule'[k].next
               PROVE  FALSE
  BY DEF CursorAccounted
<1>2. schedule[k] \in ScheduleRow
  BY <1>1 DEF CronInv, TableTyped
<1>3. /\ schedule[k].next \in Nat
      /\ Fires[schedule[k].entry.expression] \subseteq Nat
  BY <1>2 DEF ScheduleRow, Entry, CronAssumption
<1>4. QED
  BY <1>1, <1>3

LEMMA TableStays ==
    ASSUME CronAssumption, CronInv, jobs' = jobs,
           \A k \in CronKey : schedule[k] # None /\ schedule'[k] # None =>
                                schedule'[k].next = schedule[k].next
    PROVE  StepPromises
BY CursorStays DEF StepPromises, AuthorityPublishes, BurstWithinBoundary

LEMMA CommitKeeps ==
    ASSUME CronAssumption, CronInv, NEW w \in Worker, Commits(w)
    PROVE  StepPromises
<1>1. PICK k : k = key[w]
  OBVIOUS
<1>2. PICK p : \E published \in BOOLEAN :
         /\ CommitOccurrence(w, k, p, published)
         /\ Committable(w, k, p, published)
         /\ Passes(w, k, p, published)
  BY <1>1 DEF Commits
<1>3. PICK published \in BOOLEAN :
         /\ CommitOccurrence(w, k, p, published)
         /\ Committable(w, k, p, published)
         /\ Passes(w, k, p, published)
  BY <1>2
<1>4. PICK e : e = Crons(w)[k]
  OBVIOUS
<1>5. step[w] \in Locking
  BY DEF Commits
<1>6. /\ k \in CronKey /\ Fires[e.expression] \subseteq Nat
      /\ rowLock[k] = w /\ schedule[k] # None /\ schedule[k].entry = e
      /\ schedule[k] \in ScheduleRow
  BY <1>1, <1>4, <1>5, Occurs
<1>7. TableTyped
  BY DEF CronInv
<1>8. PICK row : row = [schedule[k] EXCEPT !.next = p.next]
  OBVIOUS
<1>9. row.entry = e /\ row.next = p.next
  BY <1>6, <1>8 DEF ScheduleRow
<1>10. PICK job : job = Job(w, k, p)
  OBVIOUS
<1>11. job.at = p.occurrence /\ job.revision = e.revision
  BY <1>4, <1>10 DEF Job
<1>12. /\ schedule' = [schedule EXCEPT ![k] = row]
       /\ \/ published /\ jobs' = [jobs EXCEPT ![k] = Append(jobs[k], job)]
          \/ jobs' = jobs
  BY <1>3, <1>6, <1>7, <1>8, <1>10 DEF CommitOccurrence, TableTyped, Job
<1>13. /\ schedule'[k] = row
       /\ \A j \in CronKey \ {k} : /\ schedule'[j] = schedule[j]
                                  /\ jobs'[j] = jobs[j]
  BY <1>6, <1>7, <1>12 DEF TableTyped
<1>14. jobs[k] \in Seq(Published)
  BY <1>6, <1>7 DEF TableTyped
<1>15. jobs'[k] # jobs[k] =>
         /\ jobs'[k][Len(jobs'[k])] = job
         /\ Len(jobs'[k]) \in DOMAIN jobs'[k]
  <2>1. jobs'[k] = Append(jobs[k], job) \/ jobs'[k] = jobs[k]
    BY <1>6, <1>7, <1>12 DEF TableTyped
  <2>2. PICK n \in Nat : n = Len(jobs[k])
    BY <1>14
  <2>3. PICK more : more = Append(jobs[k], job)
    OBVIOUS
  <2>4. Len(more) = n + 1 /\ more[n + 1] = job /\ n + 1 \in DOMAIN more
    BY <1>14, <2>2, <2>3
  <2>5. QED
    BY <2>1, <2>3, <2>4
<1>16. published => /\ jobs'[k][Len(jobs'[k])] = job
                    /\ Len(jobs'[k]) \in DOMAIN jobs'[k]
  <2>1. SUFFICES ASSUME published PROVE jobs'[k] # jobs[k]
    BY <1>15
  <2>2. jobs'[k] = Append(jobs[k], job)
    BY <1>3, <1>6, <1>7, <1>10, <2>1 DEF CommitOccurrence, TableTyped, Job
  <2>3. Len(Append(jobs[k], job)) = Len(jobs[k]) + 1 /\ Len(jobs[k]) \in Nat
    BY <1>14
  <2>4. QED
    BY <2>2, <2>3
<1>17. CursorAccounted(k)
  <2>1. SUFFICES ASSUME NEW x \in Fires[e.expression],
                        schedule[k].next <= x, x < p.next
                 PROVE  Accounted(k, e, x)
    BY <1>6, <1>9, <1>13 DEF CursorAccounted
  <2>2. \/ \E c \in claims[k] : c.at = x
        \/ published /\ x = p.occurrence
        \/ live[k]
        \/ ~InTime(e, x, clock)
    BY <1>3, <1>4, <2>1 DEF Passes
  <2>3. published /\ x = p.occurrence =>
          \E i \in DOMAIN jobs'[k] : jobs'[k][i].at = x
    BY <1>11, <1>16
  <2>4. QED
    BY <2>2, <2>3, Zenon DEF Accounted
<1>18. AuthorityPublishes(k)
  BY <1>6, <1>11, <1>15 DEF AuthorityPublishes
<1>19. BurstWithinBoundary(k)
  <2>1. SUFFICES ASSUME w \in Bursts, jobs'[k] # jobs[k]
                 PROVE  jobs'[k][Len(jobs'[k])].at <= through[w]
    BY <1>6 DEF BurstWithinBoundary
  <2>2. through[w] # None
    BY <1>5, <2>1, Locals
       DEF Timed, Reported, Locking, InPass, Reconciling
  <2>3. p.occurrence <= SchedulingTime(w, clock)
    BY <1>3 DEF Committable
  <2>4. QED
    BY <1>11, <1>15, <2>1, <2>2, <2>3 DEF SchedulingTime
<1>20. ASSUME NEW j \in CronKey \ {k}
       PROVE  /\ CursorAccounted(j) /\ AuthorityPublishes(j)
              /\ BurstWithinBoundary(j)
  BY <1>13, <1>20, CursorStays DEF AuthorityPublishes, BurstWithinBoundary
<1>21. QED
  BY <1>17, <1>18, <1>19, <1>20 DEF StepPromises

LEMMA WriteKeeps ==
    ASSUME CronAssumption, CronInv, NEW w \in Worker, Writes(w)
    PROVE  StepPromises
<1>1. jobs' = jobs
  BY DEF Writes
<1>2. CASE schedule' = schedule
  BY <1>1, <1>2, TableStays
<1>3. CASE schedule' # schedule
  <2>1. PICK k : k = key[w]
    OBVIOUS
  <2>2. step[w] = "upsert" /\ Upsert(w, k)
    BY <1>3, <2>1 DEF Writes
  <2>3. k \in CronKey
    BY <2>1, <2>2, Locals DEF Lists, AtKey
  <2>4. PICK e : e = Crons(w)[k]
    OBVIOUS
  <2>5. PICK row : row = schedule[k]
    OBVIOUS
  <2>6. PICK new : new = Upserted(e, now[w], row)
    OBVIOUS
  <2>7. /\ schedule'[k] = new
        /\ \A j \in CronKey \ {k} : schedule'[j] = schedule[j]
    BY <2>2, <2>3, <2>4, <2>5, <2>6 DEF Upsert, CronInv, TableTyped
  <2>8. row # None /\ row.entry.expression = new.entry.expression =>
          new.next = row.next
    BY <2>6 DEF Upserted
  <2>9. CursorAccounted(k)
    <3>1. CASE row # None /\ row.entry.expression = new.entry.expression
      BY <2>3, <2>5, <2>7, <2>8, <3>1, CursorStays
    <3>2. CASE ~(row # None /\ row.entry.expression = new.entry.expression)
      BY <2>5, <2>7, <3>2 DEF CursorAccounted
    <3>3. QED
      BY <3>1, <3>2
  <2>10. \A j \in CronKey \ {k} : CursorAccounted(j)
    BY <2>7, CursorStays
  <2>11. QED
    BY <1>1, <2>9, <2>10
       DEF StepPromises, AuthorityPublishes, BurstWithinBoundary
<1>4. QED
  BY <1>2, <1>3

LEMMA StepsKeep ==
    ASSUME CronAssumption, CronInv, [CronNext]_<<deployment, cronVars>>
    PROVE  StepPromises
<1>1. CASE Tick
  BY <1>1, TableStays DEF Tick, table
<1>2. ASSUME NEW w \in Worker, CronStep(w) \/ Failure(w)
      PROVE  StepPromises
  BY <1>2, WorkerWrites, CommitKeeps, WriteKeeps
<1>3. ASSUME NEW k \in CronKey, Others(k)
      PROVE  StepPromises
  <2>1. CASE RemoveSchedule(k)
    <3>1. jobs' = jobs /\ schedule' = [schedule EXCEPT ![k] = None]
      BY <2>1 DEF RemoveSchedule
    <3>2. \A j \in CronKey : schedule'[j] = None \/ schedule'[j] = schedule[j]
      BY <3>1 DEF CronInv, TableTyped
    <3>3. QED
      BY <3>1, <3>2, TableStays
  <2>2. CASE ~RemoveSchedule(k)
    <3>1. jobs' = jobs /\ schedule' = schedule
      BY <1>3, <2>2 DEF Others, PurgeClaims, OutsideLock, OutsideUnlock,
                        ForeignInsert, JobFinishes, table
    <3>2. QED
      BY <3>1, TableStays
  <2>3. QED
    BY <2>1, <2>2
<1>4. CASE UNCHANGED <<deployment, cronVars>>
  BY <1>4, TableStays DEF cronVars, table
<1>5. \A w \in Worker : Registered(w) \subseteq CronKey
  BY Entries DEF CronInv, TableTyped
<1>6. QED
  BY <1>1, <1>2, <1>3, <1>4, <1>5 DEF CronNext

-----------------------------------------------------------------------------
(***************************************************************************)
(* The end of a burst.                                                     *)
(***************************************************************************)
\* Nothing is due at the boundary of w under k.
NothingDue(w, k) ==
    ~(/\ schedule[k] # None /\ schedule[k].entry = Crons(w)[k]
      /\ schedule[k].next <= through[w])

BurstEnds(w, k) ==
    /\ step[w] # "done" /\ step'[w] = "done"
    /\ step[w] = "due" \/ k \in todo[w]
    /\ k \notin state'[w].disabled

\* It ends a pass in which nothing moved and nothing is in trouble.
LEMMA EndIs ==
    ASSUME CronInv, NEW w \in Worker, NEW rest, NEW st \in SchedState,
           NEW moved, Proceed(w, rest, st, moved), step'[w] = "done"
    PROVE  /\ rest = {} /\ w \in Bursts /\ st.unreconciled = {}
           /\ state'[w].disabled = st.disabled
<1>1. PICK n : n = PassMark(st, rest)
  OBVIOUS
<1>2. n.disabled = st.disabled
  BY <1>1, PassMarkIs
<1>3. state' = [state EXCEPT ![w] = n]
  BY <1>1 DEF Proceed, PassMark
<1>4. PICK s \in AfterCron(w, rest, st, moved) : step' = [step EXCEPT ![w] = s]
  BY DEF Proceed
<1>5. LocalTyped
  BY DEF CronInv
<1>6. s = "done" /\ state'[w] = n
  BY <1>3, <1>4, <1>5 DEF LocalTyped
<1>7. rest = {} /\ w \in Bursts /\ st.unreconciled = {}
  BY <1>4, <1>6, AfterCronIs
<1>8. QED
  BY <1>2, <1>6, <1>7

LEMMA MovedGoesOn ==
    ASSUME CronInv, NEW w \in Worker, w \in Bursts, NEW rest, NEW st,
           Proceed(w, rest, st, w \in Bursts)
    PROVE  step'[w] # "done"
<1>1. PICK s \in AfterCron(w, rest, st, w \in Bursts) :
        step' = [step EXCEPT ![w] = s]
  BY DEF Proceed
<1>2. s # "done"
  BY <1>1 DEF AfterCron
<1>3. QED
  BY <1>1, <1>2 DEF CronInv, LocalTyped

LEMMA TroubleGoesOn ==
    ASSUME CronAssumption, CronInv, NEW w \in Worker, NEW k \in CronKey,
           NEW c \in SchedState, NEW rest, NEW moved,
           Proceed(w, rest, Troubled(c, k), moved)
    PROVE  step'[w] # "done"
<1>1. PICK n : n = Troubled(c, k)
  OBVIOUS
<1>2. n \in SchedState /\ k \in n.unreconciled
  BY <1>1, TroubledIs
<1>3. Proceed(w, rest, n, moved)
  BY <1>1
<1>4. QED
  BY <1>2, <1>3, EndIs

LEMMA AbandonGoesOn ==
    ASSUME CronAssumption, CronInv, NEW w \in Worker, NEW k \in CronKey,
           AbandonCron(w, k)
    PROVE  step'[w] # "done"
<1>1. PICK c : c = [state[w] EXCEPT !.contended[k] = 0]
  OBVIOUS
<1>2. c \in SchedState
  BY <1>1, Locals, CalmIs DEF Recounted
<1>3. Proceed(w, todo[w] \ {k}, Troubled(c, k), advanced[w])
  BY <1>1 DEF AbandonCron, DoneWith
<1>4. QED
  BY <1>2, <1>3, TroubleGoesOn

LEMMA CommitGoesOn ==
    ASSUME CronAssumption, CronInv, NEW w \in Worker, NEW k \in CronKey,
           NEW p, NEW published, CommitOccurrence(w, k, p, published)
    PROVE  step'[w] # "done"
<1>1. PICK c : c = [state[w] EXCEPT !.contended[k] = 0]
  OBVIOUS
<1>2. c \in SchedState
  BY <1>1, Locals, CalmIs DEF Recounted
<1>3. \/ Proceed(w, todo[w] \ {k}, c, w \in Bursts)
      \/ Proceed(w, todo[w] \ {k}, Troubled(c, k), advanced[w])
  BY <1>1, Zenon DEF CommitOccurrence
<1>4. CASE Proceed(w, todo[w] \ {k}, Troubled(c, k), advanced[w])
  BY <1>2, <1>4, TroubleGoesOn
<1>5. CASE Proceed(w, todo[w] \ {k}, c, w \in Bursts)
  <2>1. CASE w \in Bursts
    BY <1>5, <2>1, MovedGoesOn
  <2>2. CASE w \notin Bursts
    <3>1. PICK m : Proceed(w, todo[w] \ {k}, c, m)
      BY <1>5
    <3>2. step'[w] = "done" => w \in Bursts
      BY <1>2, <3>1, EndIs
    <3>3. QED
      BY <2>2, <3>2
  <2>3. QED
    BY <2>1, <2>2
<1>6. QED
  BY <1>3, <1>4, <1>5

\* A burst that passes has its boundary, and goes by it.
LEMMA BoundaryCounts ==
    ASSUME CronAssumption, CronInv, NEW w \in Worker, w \in Bursts,
           step[w] \in InPass, NEW t
    PROVE  SchedulingTime(w, t) = through[w]
BY Locals DEF SchedulingTime, Timed, Reported, InPass, Reconciling

LEMMA ReadDueEnds ==
    ASSUME CronAssumption, CronInv, NEW w \in Worker, ReadDue(w),
           NEW k \in Registered(w), BurstEnds(w, k)
    PROVE  NothingDue(w, k)
<1> DEFINE candidates ==
             Registered(w) \ (state[w].disabled \cup state[w].unreconciled)
           dueNow == {j \in candidates :
                        IsDue(schedule[j], SchedulingTime(w, clock))}
           Counted(due) ==
             [state[w] EXCEPT !.contended =
                [j \in CronKey |-> IF j \in due THEN @[j] ELSE 0]]
<1>1. PICK due : /\ due = dueNow \/ (due = candidates /\ candidates # {})
                 /\ Proceed(w, due, Counted(due), FALSE)
  BY DEF ReadDue
<1>2. PICK st : st = Counted(due)
  OBVIOUS
<1>3. Recounted(st, state[w])
  BY <1>2, Locals, DueCountIs
<1>4. step[w] \in InPass /\ step'[w] = "done" /\ k \notin state'[w].disabled
  BY DEF ReadDue, InPass, BurstEnds
<1>5. st \in SchedState /\ Proceed(w, due, st, FALSE)
  BY <1>1, <1>2, <1>3 DEF Recounted
<1>6. /\ due = {} /\ w \in Bursts /\ st.unreconciled = {}
      /\ state'[w].disabled = st.disabled
  BY <1>4, <1>5, EndIs
<1>7. k \in candidates
  BY <1>3, <1>4, <1>6 DEF Recounted
<1>8. ~IsDue(schedule[k], SchedulingTime(w, clock))
  BY <1>1, <1>6, <1>7
<1>9. SchedulingTime(w, clock) = through[w]
  BY <1>4, <1>6, BoundaryCounts
<1>10. QED
  BY <1>8, <1>9 DEF IsDue, NothingDue

LEMMA ReadScheduleEnds ==
    ASSUME CronAssumption, CronInv, NEW w \in Worker, ReadSchedule(w),
           NEW k \in Registered(w), BurstEnds(w, k)
    PROVE  NothingDue(w, k)
<1>1. /\ step[w] = "observe" /\ step[w] \in InPass /\ step'[w] = "done"
      /\ k \in todo[w] /\ k \notin state'[w].disabled
      /\ state[w] \in SchedState /\ todo[w] \subseteq CronKey /\ LocalTyped
  BY Locals DEF ReadSchedule, InPass, BurstEnds, CronInv
<1>2. PICK j \in todo[w] :
        LET c == [state[w] EXCEPT !.contended[j] = 0] IN
        \/ DoneWith(w, j, Troubled(c, j))
        \/ DoneWith(w, j, Disable(c, j))
        \/ /\ schedule[j] # None
           /\ ~IsDue(schedule[j], SchedulingTime(w, clock))
           /\ DoneWith(w, j, c)
        \/ step' = [step EXCEPT ![w] = "lock"]
  BY Zenon DEF ReadSchedule
<1>3. PICK c : c = [state[w] EXCEPT !.contended[j] = 0]
  OBVIOUS
<1>4. c \in SchedState /\ j \in CronKey
  BY <1>1, <1>3, CalmIs DEF Recounted
<1>5. PICK rest : rest = todo[w] \ {j}
  OBVIOUS
<1>6. CASE Proceed(w, rest, Troubled(c, j), advanced[w])
  BY <1>1, <1>4, <1>6, TroubleGoesOn
<1>7. CASE Proceed(w, rest, Disable(c, j), advanced[w])
  <2>1. PICK n : n = Disable(c, j)
    OBVIOUS
  <2>2. n \in SchedState /\ j \in n.disabled
    BY <1>4, <2>1, DisableIs
  <2>3. PICK moved : moved = advanced[w] /\ Proceed(w, rest, n, moved)
    BY <1>7, <2>1
  <2>4. rest = {} /\ state'[w].disabled = n.disabled
    <3>1. step'[w] = "done" /\ n \in SchedState
      BY <1>1, <2>2
    <3>2. Proceed(w, rest, n, moved)
      BY <2>3
    <3>3. QED
      BY <3>1, <3>2, EndIs
  <2>5. QED
    BY <1>1, <1>5, <2>2, <2>4
<1>8. CASE /\ schedule[j] # None
           /\ ~IsDue(schedule[j], SchedulingTime(w, clock))
           /\ Proceed(w, rest, c, advanced[w])
  <2>1. rest = {} /\ w \in Bursts
    BY <1>1, <1>4, <1>8, EndIs
  <2>2. j = k
    BY <1>1, <1>5, <2>1
  <2>3. SchedulingTime(w, clock) = through[w]
    BY <1>1, <2>1, BoundaryCounts
  <2>4. QED
    BY <1>8, <2>2, <2>3 DEF IsDue, NothingDue
<1>9. CASE step' = [step EXCEPT ![w] = "lock"]
  BY <1>1, <1>9 DEF LocalTyped
<1>10. QED
  BY <1>2, <1>3, <1>5, <1>6, <1>7, <1>8, <1>9 DEF DoneWith

\* The row is not the one the burst looks for any more, or it is not due.
LEMMA LockScheduleEnds ==
    ASSUME CronAssumption, CronInv, NEW w \in Worker, LockSchedule(w),
           NEW k \in Registered(w), BurstEnds(w, k)
    PROVE  NothingDue(w, k)
<1>1. PICK j : j = key[w]
  OBVIOUS
<1>2. /\ step[w] = "lock" /\ step[w] \in InPass /\ step'[w] = "done"
      /\ k \in todo[w] /\ state[w] \in SchedState /\ LocalTyped
      /\ j \in CronKey
  BY <1>1, Locals
     DEF LockSchedule, InPass, BurstEnds, CronInv, Lists, AtKey
<1>3. PICK c : c = IF w \in Bursts THEN [state[w] EXCEPT !.contended[j] = 0]
                                   ELSE Contended(state[w], j)
  OBVIOUS
<1>4. c \in SchedState
  BY <1>2, <1>3, CalmIs, ContendedIs DEF Recounted
<1>5. /\ w \in Bursts => rowLock[j] = None
      /\ \/ step' = [step EXCEPT ![w] = "decide"]
         \/ /\ rowLock[j] # None \/ ~Selected(w, j)
            /\ DoneWith(w, j, c)
  BY <1>1, <1>3, Zenon DEF LockSchedule, WaitsForRow
<1>6. step' # [step EXCEPT ![w] = "decide"]
  BY <1>2 DEF LocalTyped
<1>7. todo[w] \ {j} = {} /\ w \in Bursts
  BY <1>2, <1>4, <1>5, <1>6, EndIs DEF DoneWith
<1>8. j = k /\ ~Selected(w, k)
  BY <1>2, <1>5, <1>6, <1>7
<1>9. SchedulingTime(w, now[w]) = through[w]
  BY <1>2, <1>7, BoundaryCounts
<1>10. QED
  BY <1>8, <1>9 DEF Selected, SameRelease, NothingDue

LEMMA BurstEndsWell ==
    ASSUME CronAssumption, CronInv, [CronNext]_<<deployment, cronVars>>,
           NEW w \in Worker, NEW k \in Registered(w), BurstEnds(w, k)
    PROVE  NothingDue(w, k)
<1>1. /\ step[w] # "done" /\ step'[w] = "done" /\ LocalTyped
  BY DEF BurstEnds, CronInv
<1>2. ~UNCHANGED local
  BY <1>1 DEF local
<1>3. PICK v \in Worker : CronStep(v) \/ Failure(v)
  BY <1>2 DEF CronNext, cronVars, Tick, Others, RemoveSchedule, PurgeClaims,
              OutsideLock, OutsideUnlock, ForeignInsert, JobFinishes
<1>4. v = w
  <2>1. \/ \E s : step' = [step EXCEPT ![v] = s]
        \/ step' = step
    BY <1>3, Zenon
       DEF CronStep, Failure, StartScheduler, ReadClock, Reconcile,
           ReconcileFails, Reconciled, CutReconcile, ReadBoundary, BeginPass,
           ReadDue, ReadSchedule, LockSchedule, ReadTime, ClaimOccurrence,
           InsertJob, RereadHolder, ScheduleFails, CutPass, Die, AbandonCron,
           DoneWith, CommitOccurrence, Proceed
  <2>2. QED
    BY <1>1, <2>1 DEF LocalTyped
<1>5. CASE \/ StartScheduler(w) \/ ReadClock(w) \/ ReadBoundary(w)
           \/ BeginPass(w) \/ CutReconcile(w) \/ CutPass(w) \/ Die(w)
  BY <1>1, <1>5 DEF LocalTyped, StartScheduler, ReadClock, ReadBoundary,
                    BeginPass, CutReconcile, CutPass, Die
<1>6. CASE Reconcile(w) \/ ReconcileFails(w)
  <2>1. PICK rest : step' = [step EXCEPT ![w] = AfterReconciling(w, rest)]
    BY <1>6 DEF Reconcile, ReconcileFails, Reconciled
  <2>2. AfterReconciling(w, rest) # "done"
    BY DEF AfterReconciling
  <2>3. QED
    BY <1>1, <2>1, <2>2 DEF LocalTyped
<1>7. CASE ReadDue(w)
  BY <1>7, ReadDueEnds
<1>8. CASE ReadSchedule(w)
  BY <1>8, ReadScheduleEnds
<1>9. CASE LockSchedule(w)
  BY <1>9, LockScheduleEnds
<1>10. CASE \/ ReadTime(w) \/ ClaimOccurrence(w) \/ InsertJob(w)
            \/ RereadHolder(w) \/ ScheduleFails(w)
  <2>1. /\ todo[w] \subseteq CronKey /\ Lists(w)
        /\ step[w] \in AtKey => key[w] \in CronKey
    BY Locals DEF Lists
  <2>2. \/ \E j \in CronKey : AbandonCron(w, j)
        \/ \E j \in CronKey : \E p, published :
             CommitOccurrence(w, j, p, published)
        \/ \E s \in Claiming : step' = [step EXCEPT ![w] = s]
    <3>1. CASE ReadTime(w) \/ ClaimOccurrence(w)
      <4>1. key[w] \in CronKey
        BY <2>1, <3>1 DEF ReadTime, ClaimOccurrence, AtKey
      <4>2. {"claim", "insert"} \subseteq Claiming
        BY DEF Claiming
      <4>3. QED
        BY <3>1, <4>1, <4>2, Zenon DEF ReadTime, ClaimOccurrence
    <3>2. CASE InsertJob(w) \/ RereadHolder(w)
      BY <2>1, <3>2 DEF InsertJob, RereadHolder, AtKey, Claiming
    <3>3. CASE ScheduleFails(w)
      BY <2>1, <3>3 DEF ScheduleFails, AtKey, InPass
    <3>4. QED
      BY <1>10, <3>1, <3>2, <3>3
  <2>3. \A s \in Claiming : step' # [step EXCEPT ![w] = s]
    BY <1>1 DEF LocalTyped, Claiming
  <2>4. QED
    BY <1>1, <2>2, <2>3, AbandonGoesOn, CommitGoesOn
<1>11. QED
  BY <1>3, <1>4, <1>5, <1>6, <1>7, <1>8, <1>9, <1>10 DEF CronStep, Failure

-----------------------------------------------------------------------------
(***************************************************************************)
(* The theorems.                                                           *)
(***************************************************************************)
LEMMA Inductive == CronSpec => []CronInv
<1>1. CronInit => CronInv
  BY CronAssumption, CronInitOK
<1>2. CronInv /\ [CronNext]_<<deployment, cronVars>> => CronInv'
  BY CronAssumption, CronNextOK
<1>3. QED
  BY <1>1, <1>2, PTL DEF CronSpec

LEMMA InvTypeOK ==
    ASSUME CronAssumption, CronInv
    PROVE  CronTypeOK
<1>1. TableTyped /\ LocalTyped /\ Stored
  BY DEF CronInv
<1>2. \A w \in Worker : Lists(w) /\ Locked(w)
  BY Locals
<1>3. \A w \in Worker : step[w] \in {"decide", "claim", "insert", "reread"} =>
        /\ rowLock[key[w]] = w /\ schedule[key[w]] # None
        /\ step[w] # "decide" => advisory[key[w]] = w
  BY <1>2 DEF Locked, Locking
<1>4. \A w \in Worker : /\ state[w].disabled \cap state[w].unreconciled = {}
                        /\ state[w].rejected \subseteq state[w].unreconciled
  BY <1>2 DEF Lists
<1>5. QED
  BY <1>1, <1>3, <1>4 DEF TableTyped, LocalTyped, Stored, CronTypeOK, Holder,
                          Step

(***************************************************************************)
(* An occurrence of an expression becomes a second job only when           *)
(* schedule_cron inserts its claim out of time, whatever happens to the    *)
(* row, to the workers and to the claims: a claim that is inserted in time *)
(* meets the one of every earlier job, which is kept for as long.          *)
(***************************************************************************)
THEOREM OccurrencesArePublishedOnce == CronSpec => []PublishedOnce
<1>1. CronInv => PublishedOnce
  BY DEF CronInv
<1>2. QED
  BY <1>1, Inductive, PTL

(***************************************************************************)
(* A worker that reports its scheduler healthy between two passes has      *)
(* given up none of its crons and has none still to reconcile.             *)
(***************************************************************************)
THEOREM SchedulerReportsHonestly == CronSpec => []HealthIsHonest
<1>1. CronInv => HealthIsHonest
  BY Locals DEF Reported, HealthIsHonest
<1>2. QED
  BY <1>1, Inductive, PTL

(***************************************************************************)
(* The cursor of a schedule passes no occurrence in silence; only the      *)
(* revision that owns the row publishes; a burst publishes nothing beyond  *)
(* its boundary and does not end with the schedule it looked at last due.  *)
(***************************************************************************)
THEOREM SchedulersAreSafe == CronSpec => CronSafety
<1>1. CronInv => CronTypeOK
  BY CronAssumption, InvTypeOK
<1>2. CronInv /\ [CronNext]_<<deployment, cronVars>> => StepPromises
  BY CronAssumption, StepsKeep
<1>3. StepPromises =>
        \A k \in CronKey :
          schedule[k] # None /\ schedule'[k] # None =>
            LET e == schedule[k].entry IN
            e.expression = schedule'[k].entry.expression =>
              \A x \in Fires[e.expression] :
                schedule[k].next <= x /\ x < schedule'[k].next =>
                  Accounted(k, e, x)
  BY Zenon DEF StepPromises, CursorAccounted
<1>4. CronSpec => NothingSkippedSilently
  <2>1. CronInv /\ [CronNext]_<<deployment, cronVars>> =>
          [\A k \in CronKey :
             schedule[k] # None /\ schedule'[k] # None =>
               LET e == schedule[k].entry IN
               e.expression = schedule'[k].entry.expression =>
                 \A x \in Fires[e.expression] :
                   schedule[k].next <= x /\ x < schedule'[k].next =>
                     Accounted(k, e, x)]_cronVars
    BY <1>2, <1>3, Zenon
  <2>2. QED
    BY <2>1, Inductive, PTL DEF CronSpec, NothingSkippedSilently
<1>5. CronSpec => OnlyTheAuthorityPublishes
  <2>1. CronInv /\ [CronNext]_<<deployment, cronVars>> =>
          [\A k \in CronKey : jobs'[k] # jobs[k] =>
             LET job == jobs'[k][Len(jobs'[k])]
             IN  /\ schedule[k] # None
                 /\ job.revision = schedule[k].entry.revision]_cronVars
    BY <1>2, Zenon DEF StepPromises, AuthorityPublishes
  <2>2. QED
    BY <2>1, Inductive, PTL DEF CronSpec, OnlyTheAuthorityPublishes
<1>6. CronSpec => BurstStaysAtItsBoundary
  <2>1. CronInv /\ [CronNext]_<<deployment, cronVars>> =>
          [\A k \in CronKey : \A w \in Bursts :
             jobs'[k] # jobs[k] /\ rowLock[k] = w =>
                 jobs'[k][Len(jobs'[k])].at <= through[w]]_cronVars
    BY <1>2, Zenon DEF StepPromises, BurstWithinBoundary
  <2>2. QED
    BY <2>1, Inductive, PTL DEF CronSpec, BurstStaysAtItsBoundary
<1>7. CronSpec => BurstPublishesWhatIsDue
  <2>1. CronInv /\ [CronNext]_<<deployment, cronVars>> =>
          [\A w \in Bursts : \A k \in Registered(w) :
             /\ step[w] # "done" /\ step'[w] = "done"
             /\ step[w] = "due" \/ k \in todo[w]
             /\ k \notin state'[w].disabled
             =>
               ~(/\ schedule[k] # None /\ schedule[k].entry = Crons(w)[k]
                 /\ schedule[k].next <= through[w])]_cronVars
    <3>1. SUFFICES ASSUME CronInv, [CronNext]_<<deployment, cronVars>>,
                          NEW w \in Bursts, NEW k \in Registered(w),
                          BurstEnds(w, k)
                   PROVE  NothingDue(w, k)
      BY DEF BurstEnds, NothingDue
    <3>2. w \in Worker
      BY <3>1, CronAssumption DEF CronInv, TableTyped, CronAssumption, Bursts
    <3>3. QED
      BY <3>1, <3>2, CronAssumption, BurstEndsWell
  <2>2. QED
    BY <2>1, Inductive, PTL DEF CronSpec, BurstPublishesWhatIsDue
<1>8. CronSpec => []CronTypeOK
  BY <1>1, Inductive, PTL
<1>9. QED
  BY <1>4, <1>5, <1>6, <1>7, <1>8 DEF CronSafety
=============================================================================
