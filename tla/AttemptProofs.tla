--------------------------- MODULE AttemptProofs ----------------------------
(***************************************************************************)
(* For every set of jobs, workers and sweepers, every budget and every     *)
(* delay: the tables stay well typed and within the CHECK constraints of   *)
(* the schema, and an attempt number is handed out once.                   *)
(*                                                                         *)
(* The argument is about rows first.  A statement takes a sound row (typed *)
(* and accepted by the schema) to a sound row, and advances it: the row    *)
(* does not come back to life and its attempt counter does not decrease.   *)
(* The actions are then cases of that.                                     *)
(***************************************************************************)
EXTENDS AttemptProtocol, TLAPS

Sound == {r \in RowType : RowOK(r)}

\* What a step may do to a row.
Advances(r, s) ==
    \/ s.status = r.status /\ s.attempts = r.attempts
    \/ /\ r.status # "gone"
       /\ \/ s.status = "gone"
          \/ s.status # "unborn" /\ (r.status = "unborn" \/ r.attempts <= s.attempts)

StepOK(r, s) == s \in Sound /\ Advances(r, s)

ClaimedStatus == {"running", "aborting"}

-----------------------------------------------------------------------------
(***************************************************************************)
(* Rows                                                                    *)
(***************************************************************************)

LEMMA CapsAreNat == AgeCap \in Nat /\ WaitCap \in Nat
  BY TimesAssumption DEF AgeCap, WaitCap

LEMMA RowFields ==
    ASSUME NEW r \in Sound
    PROVE  /\ r \in RowType
           /\ RowOK(r)
           /\ r.status \in Status
           /\ r.attempts \in 0..Ceiling /\ r.attempts \in Nat
           /\ r.max \in 0..Ceiling /\ r.max \in Nat
           /\ r.owner \in Worker \cup {NoWorker}
           /\ r.error \in ErrorText
           /\ r.result \in ResultValue
           /\ r.started \in 0..AgeCap
           /\ r.touched \in 0..AgeCap
           /\ r.wait \in 0..WaitCap
  BY CeilingAssumption DEF Sound, RowType

LEMMA Zeros == 0 \in 0..AgeCap /\ 0 \in 0..WaitCap /\ 0 \in 0..Ceiling
  BY CapsAreNat, CeilingAssumption

\* A row is ready to be inserted as it is: ids without a row, deleted ones
\* included.
LEMMA NoRowSound ==
    ASSUME NEW status \in {"unborn", "gone"}
    PROVE  NoRow(status) \in Sound /\ NoRow(status).status = status
  BY CapsAreNat, CeilingAssumption
     DEF NoRow, Sound, RowType, RowOK, Status, ErrorText, ResultValue

\* insert_job
LEMMA NewRowSound ==
    ASSUME NEW attempts \in Nat, NEW max \in 0..Ceiling, attempts < max,
           NEW delay \in 0..WaitCap
    PROVE  NewRow(attempts, max, delay) \in Sound /\ NewRow(attempts, max, delay).status = "queued"
<1> DEFINE e == NoRow("queued")
           s == [e EXCEPT !.attempts = attempts, !.max = max, !.wait = delay]
<1>1. e \in RowType /\ e.status = "queued" /\ e.owner = NoWorker
  BY CapsAreNat, CeilingAssumption
     DEF NoRow, RowType, Status, Live, ErrorText, ResultValue
<1>2. attempts \in 0..Ceiling
  BY CeilingAssumption
<1> HIDE DEF e
<1>3. s \in RowType
  BY <1>1, <1>2, ZenonT(30) DEF RowType
<1>4. s.status = "queued" /\ s.owner = NoWorker /\ s.attempts = attempts /\ s.max = max
  BY <1>1 DEF RowType
<1>5. RowOK(s)
  BY <1>4, CeilingAssumption DEF RowOK
<1>6. s \in Sound
  BY <1>3, <1>5 DEF Sound
<1> QED BY <1>4, <1>6 DEF NewRow, e

\* finish_rows_sql!
LEMMA FinishRowOK ==
    ASSUME NEW j \in Job, NEW r \in Sound, r.status \in ClaimedStatus,
           NEW status \in Terminal, NEW error \in ErrorText, NEW result \in ResultValue
    PROVE  StepOK(r, FinishRow(j, r, status, error, result))
<1> DEFINE f == [ r EXCEPT !.status = status, !.error = error, !.result = result,
                           !.started = 0, !.touched = 0 ]
<1>1. r \in RowType /\ status \in Status
  BY RowFields DEF Status
<1>2. f \in RowType
  BY <1>1, Zeros, ZenonT(30) DEF RowType
<1>3. f.attempts = r.attempts /\ f.max = r.max /\ f.status = status
  BY <1>1 DEF RowType
<1>4. RowOK(f)
  BY <1>3, RowFields DEF RowOK, Terminal
<1> HIDE DEF f
<1>5. StepOK(r, f)
  BY <1>2, <1>3, <1>4, RowFields DEF StepOK, Advances, Terminal, ClaimedStatus, Sound
<1>6. StepOK(r, NoRow("gone"))
  BY NoRowSound DEF StepOK, Advances, NoRow, ClaimedStatus
<1> QED BY <1>5, <1>6 DEF FinishRow, f

\* finish_with_guards
LEMMA FinishedOK ==
    ASSUME NEW j \in Job, NEW r \in Sound, NEW w, NEW n, NEW status \in Terminal,
           FinishAllowed(r, w, n, status), NEW error \in ErrorText \cup {"keep"},
           status = "complete" => error \in ErrorText
    PROVE  StepOK(r, Finished(j, r, status, error))
<1> DEFINE e == IF status = "complete" THEN error ELSE Coalesce(error, r.error)
           v == IF status = "complete" THEN "value" ELSE "none"
<1>1. r.status \in ClaimedStatus
  BY DEF FinishAllowed, ClaimedStatus
<1>2. e \in ErrorText /\ v \in ResultValue
  BY RowFields DEF Coalesce, ResultValue
<1> HIDE DEF e, v
<1>3. StepOK(r, FinishRow(j, r, status, e, v))
  BY <1>1, <1>2, FinishRowOK
<1> QED BY <1>3 DEF Finished, e, v

\* REQUEUE_GUARDED_SQL, and the SET list of retry_swept_abandoned_batch.
LEMMA RequeuedOK ==
    ASSUME NEW r \in Sound, r.status \in ClaimedStatus,
           NEW error \in ErrorText \cup {"keep"}, NEW delay \in 0..WaitCap,
           NEW refund \in BOOLEAN,
           IF refund THEN r.attempts < Ceiling ELSE Retryable(r)
    PROVE  StepOK(r, Requeued(r, error, delay, refund))
<1> DEFINE max == IF refund THEN RefundedMax(r.max) ELSE r.max
           wait == IF delay = 0 THEN r.wait ELSE delay
           e == Coalesce(error, r.error)
           q == [ r EXCEPT !.status = "queued", !.max = max, !.wait = wait, !.error = e,
                           !.result = "none", !.owner = NoWorker,
                           !.started = 0, !.touched = 0 ]
<1>1. max \in 0..Ceiling /\ r.attempts < max
  BY RowFields, CeilingAssumption DEF RowOK, RefundedMax, Retryable
<1>2. wait \in 0..WaitCap /\ e \in ErrorText
  BY RowFields DEF Coalesce
<1>3. "queued" \in Status /\ "none" \in ResultValue /\ NoWorker \in Worker \cup {NoWorker}
  BY DEF Status, Live, ResultValue
<1>4. r \in RowType
  BY RowFields
<1>5. q = Requeued(r, error, delay, refund)
  BY DEF Requeued
<1> HIDE DEF max, wait, e
<1>6. q \in RowType
  BY <1>1, <1>2, <1>3, <1>4, Zeros, ZenonT(30) DEF RowType
<1>7. q.status = "queued" /\ q.attempts = r.attempts /\ q.max = max /\ q.owner = NoWorker
  BY <1>4 DEF RowType
<1> HIDE DEF q
<1>8. RowOK(q)
  BY <1>1, <1>7, RowFields, CeilingAssumption DEF RowOK
<1>9. StepOK(r, q)
  BY <1>6, <1>7, <1>8, RowFields DEF StepOK, Advances, Sound, ClaimedStatus
<1> QED BY <1>5, <1>9

LEMMA RequeueAllowedOK ==
    ASSUME NEW r \in Sound, NEW w, NEW n, NEW running, NEW refund \in BOOLEAN,
           RequeueAllowed(r, w, n, running, refund),
           NEW error \in ErrorText \cup {"keep"}, NEW delay \in 0..WaitCap
    PROVE  r.status \in ClaimedStatus /\ StepOK(r, Requeued(r, error, delay, refund))
<1>1. r.status \in ClaimedStatus
  BY DEF RequeueAllowed, ClaimedStatus
<1>2. IF refund THEN r.attempts < Ceiling ELSE Retryable(r)
  BY DEF RequeueAllowed
<1> QED BY <1>1, <1>2, RequeuedOK

\* abort_unsettled_claim
LEMMA AbortedUnsettledOK ==
    ASSUME NEW j \in Job, NEW r \in Sound, r.status \in ClaimedStatus
    PROVE  StepOK(r, AbortedUnsettled(j, r))
<1> DEFINE e == IF r.status = "running" \/ Swept(r) THEN "other" ELSE r.error
<1>1. e \in ErrorText
  BY RowFields DEF ErrorText
<1> HIDE DEF e
<1>2. StepOK(r, FinishRow(j, r, "aborted", e, "none"))
  BY <1>1, FinishRowOK DEF Terminal, ResultValue
<1> QED BY <1>2 DEF AbortedUnsettled, e

\* abort_stuck_abandoned_batch
LEMMA AbortedAbandonedOK ==
    ASSUME NEW j \in Job, NEW r \in Sound, r.status \in ClaimedStatus
    PROVE  StepOK(r, AbortedAbandoned(j, r))
<1>1. StepOK(r, FinishRow(j, r, "aborted", r.error, "none"))
  BY RowFields, FinishRowOK DEF Terminal, ResultValue
<1> QED BY <1>1 DEF AbortedAbandoned

\* Database::abort
LEMMA AbortRequestedOK ==
    ASSUME NEW r \in Sound, AbortAllowed(r)
    PROVE  StepOK(r, AbortRequested(r))
<1> DEFINE st == IF r.status = "queued" THEN "aborted" ELSE "aborting"
           q == [ r EXCEPT !.status = st, !.error = "user", !.result = "none", !.touched = 0 ]
<1>1. st \in Status /\ "user" \in ErrorText /\ "none" \in ResultValue /\ st \in {"aborted", "aborting"}
  BY DEF Status, Live, Terminal, ErrorText, ResultValue
<1>2. st = "aborting" => r.status \in ClaimedStatus
  BY DEF AbortAllowed, ClaimedStatus
<1>3. r \in RowType /\ r.status # "gone"
  BY RowFields DEF AbortAllowed
<1>4. q = AbortRequested(r)
  BY DEF AbortRequested
<1> HIDE DEF st
<1>5. q \in RowType
  BY <1>1, <1>3, Zeros, ZenonT(30) DEF RowType
<1>6. q.status = st /\ q.attempts = r.attempts /\ q.max = r.max /\ q.owner = r.owner
  BY <1>3 DEF RowType
<1> HIDE DEF q
<1>7. RowOK(q)
  BY <1>1, <1>2, <1>6, RowFields DEF RowOK, ClaimedStatus
<1>8. StepOK(r, q)
  BY <1>1, <1>3, <1>5, <1>6, <1>7, RowFields DEF StepOK, Advances, Sound
<1> QED BY <1>4, <1>8

\* DEQUEUE_CLAIM_SQL: the schema leaves room for one more attempt.
LEMMA ClaimedOK ==
    ASSUME NEW r \in Sound, r.status = "queued", NEW w \in Worker, NEW age \in 0..AgeCap
    PROVE  /\ StepOK(r, Claimed(r, w, age))
           /\ Claimed(r, w, age).status = "running"
           /\ Claimed(r, w, age).attempts = r.attempts + 1
           /\ r.attempts + 1 \in 1..Ceiling
<1> DEFINE n == r.attempts + 1
           q == [ r EXCEPT !.status = "running", !.attempts = n, !.owner = w,
                           !.started = age, !.touched = age ]
<1>1. n \in 1..Ceiling /\ n \in 0..Ceiling /\ n <= r.max
  BY RowFields, CeilingAssumption DEF RowOK
<1>2. "running" \in Status /\ w \in Worker \cup {NoWorker}
  BY DEF Status, Live
<1>3. r \in RowType
  BY RowFields
<1>4. q = Claimed(r, w, age)
  BY DEF Claimed
<1>5. n >= r.attempts /\ n > 0
  BY RowFields
<1> HIDE DEF n
<1>6. q \in RowType
  BY <1>1, <1>2, <1>3, ZenonT(30) DEF RowType
<1>7. q.status = "running" /\ q.attempts = n /\ q.max = r.max /\ q.owner = w
  BY <1>3 DEF RowType
<1> HIDE DEF q
<1>8. RowOK(q)
  BY <1>1, <1>5, <1>7 DEF RowOK
<1>9. StepOK(r, q)
  BY <1>5, <1>6, <1>7, <1>8 DEF StepOK, Advances, Sound
<1> QED BY <1>1, <1>4, <1>7, <1>9 DEF n

\* Phase one of recover_stuck_jobs.
LEMMA MarkedOK ==
    ASSUME NEW r \in Sound, r.status = "running"
    PROVE  StepOK(r, Marked(r))
<1> DEFINE q == [ r EXCEPT !.status = "aborting", !.error = "swept", !.result = "marker",
                           !.touched = 0 ]
<1>1. "aborting" \in Status /\ "swept" \in ErrorText /\ "marker" \in ResultValue
  BY DEF Status, Live, ErrorText, ResultValue
<1>2. r \in RowType
  BY RowFields
<1>3. q \in RowType
  BY <1>1, <1>2, Zeros, ZenonT(30) DEF RowType
<1>4. q.status = "aborting" /\ q.attempts = r.attempts /\ q.max = r.max /\ q.owner = r.owner
  BY <1>2 DEF RowType
<1>5. q = Marked(r)
  BY DEF Marked
<1> HIDE DEF q
<1>6. RowOK(q)
  BY <1>4, RowFields DEF RowOK
<1>7. StepOK(r, q)
  BY <1>3, <1>4, <1>6, RowFields DEF StepOK, Advances, Sound
<1> QED BY <1>5, <1>7

\* A resolver's pass over one claim.
LEMMA ResolvedOK ==
    ASSUME NEW c \in ClaimType, row[c.job] \in Sound,
           NEW delay \in 0..WaitCap, NEW refund \in BOOLEAN
    PROVE  /\ StepOK(row[c.job], Resolved(c, delay, refund))
           /\ row[c.job].status = "queued" => Resolved(c, delay, refund) = row[c.job]
<1> DEFINE r == row[c.job]
           allowed == RequeueAllowed(r, c.worker, c.n, TRUE, refund)
           unsettled == AbortUnsettledAllowed(r, c.worker, c.n)
<1>1. c.job \in Job
  BY DEF ClaimType
<1>2. r.status = "queued" => ~allowed /\ ~unsettled
  BY DEF RequeueAllowed, AbortUnsettledAllowed
<1>3. allowed => StepOK(r, Requeued(r, "other", delay, refund))
  BY RequeueAllowedOK DEF ErrorText
<1>4. unsettled => StepOK(r, AbortedUnsettled(c.job, r))
  BY <1>1, AbortedUnsettledOK DEF AbortUnsettledAllowed, ClaimedStatus
<1>5. StepOK(r, r)
  BY DEF StepOK, Advances
<1>6. Resolved(c, delay, refund) =
        IF allowed THEN Requeued(r, "other", delay, refund)
        ELSE IF unsettled THEN AbortedUnsettled(c.job, r) ELSE r
  BY DEF Resolved
<1> HIDE DEF r, allowed, unsettled
<1>7. StepOK(r, Resolved(c, delay, refund))
  BY <1>3, <1>4, <1>5, <1>6
<1>8. r.status = "queued" => Resolved(c, delay, refund) = r
  BY <1>2, <1>6
<1> QED BY <1>7, <1>8 DEF r

\* The clock: only ages and delays change.
LEMMA AgedOK ==
    ASSUME NEW r \in Sound, NEW started \in 0..AgeCap, NEW touched \in 0..AgeCap,
           NEW wait \in 0..WaitCap
    PROVE  /\ StepOK(r, [r EXCEPT !.started = started, !.touched = touched])
           /\ StepOK(r, [r EXCEPT !.wait = wait])
           /\ [r EXCEPT !.wait = wait].status = r.status
<1> DEFINE a == [r EXCEPT !.started = started, !.touched = touched]
           b == [r EXCEPT !.wait = wait]
<1>1. r \in RowType /\ RowOK(r)
  BY RowFields
<1>2. a \in RowType /\ b \in RowType
  BY <1>1, ZenonT(30) DEF RowType
<1>3. /\ a.status = r.status /\ a.attempts = r.attempts /\ a.max = r.max /\ a.owner = r.owner
      /\ b.status = r.status /\ b.attempts = r.attempts /\ b.max = r.max /\ b.owner = r.owner
  BY <1>1 DEF RowType
<1> HIDE DEF a, b
<1>4. RowOK(a) /\ RowOK(b)
  BY <1>1, <1>3 DEF RowOK
<1>5. StepOK(r, a) /\ StepOK(r, b)
  BY <1>2, <1>3, <1>4 DEF StepOK, Advances, Sound
<1> QED BY <1>3, <1>5 DEF a, b

-----------------------------------------------------------------------------
(***************************************************************************)
(* The invariant                                                           *)
(***************************************************************************)

\* TypeOK without the tables of rows and attempts.
RestOK ==
    /\ lease \in [Worker -> LeaseType]
    /\ proc \in [Worker -> Phase]
    /\ tx \in [Worker -> [jobs : SUBSET Job, age : 0..AgeCap]]
    /\ unacked \subseteq SUBSET ClaimType
    /\ dropped \subseteq ClaimType
    /\ late \subseteq Runtime
    /\ sweep \in [Sweeper -> PassType]
    /\ stalled \subseteq Worker
    /\ unlanded \subseteq ClaimType
    /\ succeeded \subseteq Job \X (1..Ceiling)

\* A claim transaction holds the lock of rows nobody has taken yet, and no
\* other transaction holds it.
LocksHeld ==
    /\ \A j \in Locked : row[j].status = "queued"
    /\ \A v, w \in Worker : v # w => tx[v].jobs \cap tx[w].jobs = {}

\* The counter of a row is ahead of every attempt anybody still holds.
NumbersClaimed ==
    \A a \in inflight :
        \/ row[a.job].status = "gone"
        \/ row[a.job].status # "unborn" /\ a.n <= row[a.job].attempts

IInv ==
    /\ row \in [Job -> Sound]
    /\ inflight \subseteq AttemptType
    /\ RestOK
    /\ LocksHeld
    /\ NumbersClaimed
    /\ UniqueClaim

\* What an action does to the rows.
RowStep ==
    /\ row' \in [Job -> Sound]
    /\ \A j \in Job : Advances(row[j], row'[j])
    /\ \A j \in Locked : row'[j].status = "queued"

\* What an action that claims nothing does to the attempts.
Carries ==
    /\ inflight' \subseteq AttemptType
    /\ \A b \in inflight' : \E a \in inflight : b.job = a.job /\ b.n = a.n
    /\ UniqueClaim'

LEMMA InvImplies ==
    /\ IInv => SchemaChecks /\ UniqueClaim
    /\ IInv /\ runaway \subseteq ClaimType => TypeOK
  BY DEF IInv, RestOK, TypeOK, SchemaChecks, Sound

LEMMA NumbersKept ==
    ASSUME IInv, Carries, row' \in [Job -> Sound],
           \A j \in Job : Advances(row[j], row'[j])
    PROVE  NumbersClaimed'
<1> SUFFICES ASSUME NEW b \in inflight'
             PROVE  \/ row'[b.job].status = "gone"
                    \/ row'[b.job].status # "unborn" /\ b.n <= row'[b.job].attempts
  BY DEF NumbersClaimed
<1>1. PICK a \in inflight : b.job = a.job /\ b.n = a.n
  BY DEF Carries
<1>2. b.job \in Job /\ b.n \in Nat
  BY CeilingAssumption DEF Carries, AttemptType
<1>3. \/ row[b.job].status = "gone"
      \/ row[b.job].status # "unborn" /\ b.n <= row[b.job].attempts
  BY <1>1 DEF IInv, NumbersClaimed
<1>4. Advances(row[b.job], row'[b.job]) /\ row[b.job] \in Sound /\ row'[b.job] \in Sound
  BY <1>2 DEF IInv
<1>5. row[b.job].attempts \in Nat /\ row'[b.job].attempts \in Nat
  BY <1>4, RowFields
<1> QED BY <1>2, <1>3, <1>4, <1>5 DEF Advances

\* An action that leaves the claim transactions alone.
LEMMA Preserved ==
    ASSUME IInv, RowStep, Carries, RestOK', UNCHANGED tx
    PROVE  IInv'
<1>1. LocksHeld'
  BY DEF IInv, LocksHeld, RowStep, Locked
<1> QED BY <1>1, NumbersKept DEF IInv, RowStep, Carries

LEMMA SameRows ==
    ASSUME IInv, UNCHANGED row
    PROVE  RowStep
  BY DEF IInv, RowStep, Advances, LocksHeld

LEMMA OneRow ==
    ASSUME IInv, NEW j \in Job, NEW s, StepOK(row[j], s), j \notin Locked,
           row' = [row EXCEPT ![j] = s]
    PROVE  RowStep
<1>1. s \in Sound
  BY DEF StepOK
<1>2. row' \in [Job -> Sound]
  BY <1>1 DEF IInv
<1>3. ASSUME NEW k \in Job PROVE Advances(row[k], row'[k])
  BY <1>3 DEF IInv, StepOK, Advances
<1>4. ASSUME NEW k \in Locked PROVE row'[k].status = "queued"
  <2>1. k \in Job /\ k # j
    BY DEF Locked, IInv, RestOK
  <2>2. row'[k] = row[k]
    BY <2>1 DEF IInv
  <2> QED BY <2>2, <1>4 DEF IInv, LocksHeld
<1> QED BY <1>2, <1>3, <1>4 DEF RowStep

LEMMA SameAttempts ==
    ASSUME IInv, inflight' \subseteq inflight
    PROVE  Carries
  BY DEF IInv, Carries, UniqueClaim

\* One attempt moves on, or ends.
LEMMA OneAttempt ==
    ASSUME IInv, NEW a \in inflight, NEW b \in AttemptType, b.job = a.job, b.n = a.n,
           inflight' \subseteq (inflight \ {a}) \cup {b}
    PROVE  Carries
<1>1. inflight' \subseteq AttemptType
  BY DEF IInv
<1>2. ASSUME NEW x \in inflight' PROVE \E y \in inflight : x.job = y.job /\ x.n = y.n
  OBVIOUS
<1>3. ASSUME NEW x \in inflight', NEW y \in inflight', x.job = y.job, x.n = y.n
      PROVE  x = y
  BY <1>3 DEF IInv, UniqueClaim
<1> QED BY <1>1, <1>2, <1>3 DEF Carries, UniqueClaim

-----------------------------------------------------------------------------
(***************************************************************************)
(* Producers and operators                                                 *)
(***************************************************************************)

LEMMA EnqueueOK ==
    ASSUME IInv, NEW j \in Job, NEW delay \in 0..WaitCap, Enqueue(j, delay)
    PROVE  IInv'
<1> DEFINE s == NewRow(0, MaxAttempts[j], delay)
<1>1. MaxAttempts[j] \in 0..Ceiling /\ 0 < MaxAttempts[j]
  BY CeilingAssumption
<1>2. s \in Sound /\ s.status = "queued"
  BY <1>1, NewRowSound
<1>3. row[j].status = "unborn" /\ j \notin Locked /\ row' = [row EXCEPT ![j] = s]
  BY DEF Enqueue, IInv, LocksHeld
<1> HIDE DEF s
<1>4. StepOK(row[j], s)
  BY <1>2, <1>3 DEF StepOK, Advances
<1>5. RowStep
  BY <1>3, <1>4, OneRow
<1>6. Carries
  BY SameAttempts DEF Enqueue
<1>7. RestOK' /\ UNCHANGED tx
  BY DEF Enqueue, IInv, RestOK, pending, history
<1> QED BY <1>5, <1>6, <1>7, Preserved

LEMMA AbortJobOK ==
    ASSUME IInv, NEW j \in Job, AbortJob(j)
    PROVE  IInv'
<1>1. StepOK(row[j], AbortRequested(row[j]))
  BY AbortRequestedOK DEF AbortJob, IInv
<1>2. RowStep
  BY <1>1, OneRow DEF AbortJob
<1>3. Carries
  BY SameAttempts DEF AbortJob
<1>4. RestOK' /\ UNCHANGED tx
  BY DEF AbortJob, IInv, RestOK, pending, history
<1> QED BY <1>2, <1>3, <1>4, Preserved

\* purge_queued_jobs and purge_expired_jobs delete rows nobody holds.
LEMMA RowsDeleted ==
    ASSUME IInv, NEW S \in SUBSET Job,
           \A j \in S : row[j].status # "gone" /\ j \notin Locked,
           row' = [j \in Job |-> IF j \in S THEN NoRow("gone") ELSE row[j]]
    PROVE  RowStep
<1>1. NoRow("gone") \in Sound /\ NoRow("gone").status = "gone"
  BY NoRowSound
<1>2. row' \in [Job -> Sound]
  BY <1>1 DEF IInv
<1>3. ASSUME NEW j \in Job PROVE Advances(row[j], row'[j])
  BY <1>1, <1>3 DEF Advances
<1>4. ASSUME NEW j \in Locked PROVE row'[j].status = "queued"
  <2>1. j \in Job /\ j \notin S
    BY DEF Locked, IInv, RestOK
  <2> QED BY <1>4, <2>1 DEF IInv, LocksHeld
<1> QED BY <1>2, <1>3, <1>4 DEF RowStep

LEMMA PurgeQueuedJobsOK ==
    ASSUME IInv, NEW S \in SUBSET Job, PurgeQueuedJobs(S)
    PROVE  IInv'
<1>1. RowStep
  BY RowsDeleted DEF PurgeQueuedJobs
<1>2. Carries
  BY SameAttempts DEF PurgeQueuedJobs
<1>3. RestOK' /\ UNCHANGED tx
  BY DEF PurgeQueuedJobs, IInv, RestOK, pending, history
<1> QED BY <1>1, <1>2, <1>3, Preserved

LEMMA RetryJobOccurrenceOK ==
    ASSUME IInv, NEW j \in Job, NEW k \in Job, RetryJobOccurrence(j, k)
    PROVE  IInv'
<1> DEFINE n == row[j].attempts
           s == NewRow(n, n + 1, 0)
           t == [row[j] EXCEPT !.retried = TRUE]
<1>1. /\ row[j] \in Sound /\ row[j].status \in Terminal /\ row[k].status = "unborn"
      /\ n < Ceiling /\ row' = [row EXCEPT ![j].retried = TRUE, ![k] = s]
  BY DEF RetryJobOccurrence, FreshOccurrence, IInv
<1>2. n \in Nat /\ n + 1 \in 0..Ceiling /\ n < n + 1
  BY <1>1, RowFields, CeilingAssumption
<1>3. s \in Sound /\ s.status = "queued"
  BY <1>2, NewRowSound, Zeros
<1>4. j # k /\ j \notin Locked /\ k \notin Locked
  BY <1>1 DEF Terminal, IInv, LocksHeld
<1>5. t \in Sound /\ t.status = row[j].status /\ t.attempts = n
  <2>1. row[j] \in RowType /\ RowOK(row[j])
    BY <1>1, RowFields
  <2>2. t \in RowType
    BY <2>1, ZenonT(30) DEF RowType
  <2>3. t.status = row[j].status /\ t.attempts = n /\ t.max = row[j].max /\ t.owner = row[j].owner
    BY <2>1 DEF RowType
  <2> HIDE DEF t
  <2>4. RowOK(t)
    BY <2>1, <2>3 DEF RowOK
  <2> QED BY <2>2, <2>3, <2>4 DEF Sound
<1>6. row' = [row EXCEPT ![j] = t, ![k] = s]
  BY <1>1, <1>4 DEF IInv
<1> HIDE DEF s, t
<1>7. row' \in [Job -> Sound]
  BY <1>3, <1>5, <1>6 DEF IInv
<1>8. row'[j] = t /\ row'[k] = s /\ \A i \in Job \ {j, k} : row'[i] = row[i]
  BY <1>4, <1>6 DEF IInv
<1>9. ASSUME NEW i \in Job PROVE Advances(row[i], row'[i])
  BY <1>1, <1>3, <1>5, <1>8 DEF Advances, n
<1>10. ASSUME NEW i \in Locked PROVE row'[i].status = "queued"
  <2>1. i \in Job \ {j, k}
    BY <1>4, <1>10 DEF Locked, IInv, RestOK
  <2> QED BY <1>8, <1>10, <2>1 DEF IInv, LocksHeld
<1>11. RowStep
  BY <1>7, <1>9, <1>10 DEF RowStep
<1>12. Carries
  BY SameAttempts DEF RetryJobOccurrence
<1>13. RestOK' /\ UNCHANGED tx
  BY DEF RetryJobOccurrence, IInv, RestOK, pending, history
<1> QED BY <1>11, <1>12, <1>13, Preserved

-----------------------------------------------------------------------------
(***************************************************************************)
(* Leases, shutdown, crashes and the clock                                 *)
(***************************************************************************)

LEMMA LeasesTyped ==
    ASSUME NEW l \in LeaseType, NEW reopens \in BOOLEAN, NEW created \in BOOLEAN
    PROVE  /\ WrittenLease(l, LeaseTtl, reopens, created) \in LeaseType
           /\ WrittenLease(l, 0, reopens, created) \in LeaseType
           /\ ClosedLease(l) \in LeaseType
           /\ NoLease \in LeaseType
<1>1. LeaseTtl \in (-2 * Grace)..LeaseTtl /\ 0 \in (-2 * Grace)..LeaseTtl
  BY TimesAssumption
<1>2. l.present \in BOOLEAN /\ l.accepting \in BOOLEAN
  BY DEF LeaseType
<1>3. (IF l.present THEN reopens \/ l.accepting ELSE created) \in BOOLEAN
  BY <1>2
<1> QED BY <1>1, <1>2, <1>3, ZenonT(30) DEF LeaseType, WrittenLease, ClosedLease, NoLease

\* An action on leases and processes only.
LEMMA LeaseStep ==
    ASSUME IInv, UNCHANGED <<row, inflight, tx>>, RestOK'
    PROVE  IInv'
  BY SameRows, SameAttempts, Preserved

LEMMA HeartbeatsOK ==
    ASSUME IInv, NEW w \in Worker,
           WorkerHeartbeat(w) \/ ConsumerHeartbeat(w) \/ LateHeartbeat(w) \/ StopWorkerIntake(w)
    PROVE  IInv'
<1>1. lease[w] \in LeaseType
  BY DEF IInv, RestOK
<1>2. lease' \in [Worker -> LeaseType]
  <2>1. CASE WorkerHeartbeat(w)
    <3>1. (proc[w] = "up") \in BOOLEAN
      OBVIOUS
    <3> QED BY <2>1, <3>1, <1>1, LeasesTyped DEF WorkerHeartbeat, IInv, RestOK
  <2>2. CASE ConsumerHeartbeat(w)
    BY <2>2, <1>1, LeasesTyped DEF ConsumerHeartbeat, IInv, RestOK
  <2>3. CASE LateHeartbeat(w)
    BY <2>3, <1>1, LeasesTyped DEF LateHeartbeat, IInv, RestOK
  <2>4. CASE StopWorkerIntake(w)
    BY <2>4, <1>1, LeasesTyped DEF StopWorkerIntake, IInv, RestOK
  <2> QED BY <2>1, <2>2, <2>3, <2>4
<1>3. UNCHANGED <<row, inflight, tx>>
  BY DEF WorkerHeartbeat, ConsumerHeartbeat, LateHeartbeat, StopWorkerIntake, pending
<1>4. RestOK'
  BY <1>2 DEF WorkerHeartbeat, ConsumerHeartbeat, LateHeartbeat, StopWorkerIntake,
              IInv, RestOK, pending, history
<1> QED BY <1>3, <1>4, LeaseStep

LEMMA ShutdownOK ==
    ASSUME IInv, NEW w \in Worker, BeginShutdown(w) \/ FetcherStops(w)
    PROVE  IInv'
<1>1. UNCHANGED <<row, inflight, tx>>
  BY DEF BeginShutdown, FetcherStops, pending, tables
<1>2. proc' \in [Worker -> Phase] /\ late' \subseteq Runtime
  BY BoundsAssumption DEF BeginShutdown, FetcherStops, IInv, RestOK, Phase, pending
<1>3. RestOK'
  BY <1>2 DEF BeginShutdown, FetcherStops, IInv, RestOK, pending, tables, history
<1> QED BY <1>1, <1>3, LeaseStep

LEMMA RetireOK ==
    ASSUME IInv, NEW w \in Worker, Retire(w)
    PROVE  IInv'
<1>1. RowStep
  BY SameRows DEF Retire
<1>2. Carries
  BY SameAttempts DEF Retire
<1>3. lease' \in [Worker -> LeaseType]
  <2>1. lease \in [Worker -> LeaseType]
    BY DEF IInv, RestOK
  <2>2. WrittenLease(lease[w], 0, FALSE, FALSE) \in LeaseType
    BY <2>1, LeasesTyped
  <2> QED BY <2>1, <2>2 DEF Retire
<1>4. RestOK' /\ UNCHANGED tx
  BY <1>3 DEF Retire, IInv, RestOK, Phase
<1> QED BY <1>1, <1>2, <1>4, Preserved

LEMMA CrashOK ==
    ASSUME IInv, NEW w \in Worker, Crash(w)
    PROVE  IInv'
<1>1. RowStep
  BY SameRows DEF Crash, tables
<1>2. Carries
  BY SameAttempts DEF Crash
<1>3. RestOK' /\ UNCHANGED tx
  BY DEF Crash, IInv, RestOK, Phase, tables
<1> QED BY <1>1, <1>2, <1>3, Preserved

LEMMA TickOK ==
    ASSUME IInv, Tick
    PROVE  IInv'
<1>1. ASSUME NEW n \in 0..AgeCap PROVE Aged(n) \in 0..AgeCap
  BY CapsAreNat DEF Aged
<1>2. ASSUME NEW n \in (-2 * Grace)..LeaseTtl PROVE Lapsed(n) \in (-2 * Grace)..LeaseTtl
  BY TimesAssumption DEF Lapsed
<1>3. ASSUME NEW j \in Job
      PROVE  /\ StepOK(row[j], row'[j])
             /\ row[j].status = "queued" => row'[j].status = "queued"
  <2> DEFINE r == row[j]
             started == IF j \in TimedJob THEN Aged(r.started) ELSE r.started
             touched == Aged(r.touched)
             wait == IF r.wait > 0 THEN r.wait - 1 ELSE 0
  <2>1. r \in Sound
    BY DEF IInv
  <2>2. started \in 0..AgeCap /\ touched \in 0..AgeCap /\ wait \in 0..WaitCap
    BY <1>1, <2>1, RowFields, CapsAreNat
  <2>3. row'[j] = IF r.status \in {"running", "aborting"}
                  THEN [r EXCEPT !.started = started, !.touched = touched]
                  ELSE [r EXCEPT !.wait = wait]
    BY DEF Tick
  <2> HIDE DEF r, started, touched, wait
  <2>4. /\ StepOK(r, [r EXCEPT !.started = started, !.touched = touched])
        /\ StepOK(r, [r EXCEPT !.wait = wait])
        /\ [r EXCEPT !.wait = wait].status = r.status
    BY <2>1, <2>2, AgedOK, Zenon
  <2>5. CASE r.status \in {"running", "aborting"}
    BY <2>3, <2>4, <2>5 DEF r
  <2>6. CASE r.status \notin {"running", "aborting"}
    BY <2>3, <2>4, <2>6 DEF r
  <2> QED BY <2>5, <2>6
<1>4. row' \in [Job -> Sound]
  <2>1. DOMAIN row' = Job /\ row' = [j \in Job |-> row'[j]]
    BY DEF Tick
  <2> QED BY <1>3, <2>1 DEF StepOK
<1>5. \A j \in Locked : j \in Job /\ row[j].status = "queued"
  BY DEF IInv, LocksHeld, Locked, RestOK
<1>6. RowStep
  BY <1>3, <1>4, <1>5 DEF RowStep, StepOK
<1>7. Carries
  BY SameAttempts DEF Tick
<1>8. lease' \in [Worker -> LeaseType]
  BY <1>2 DEF Tick, IInv, RestOK, LeaseType
<1>9. tx' \in [Worker -> [jobs : SUBSET Job, age : 0..AgeCap]]
  BY <1>1 DEF Tick, IInv, RestOK
<1>10. \A w \in Worker : tx'[w].jobs = tx[w].jobs
  BY DEF Tick, IInv, RestOK
<1>11. RestOK'
  BY <1>8, <1>9 DEF Tick, IInv, RestOK
<1>12. LocksHeld'
  <2>1. Locked' = Locked
    BY <1>10 DEF Locked
  <2> QED BY <1>6, <1>10, <2>1 DEF IInv, LocksHeld, RowStep
<1> QED BY <1>6, <1>7, <1>11, <1>12, NumbersKept DEF IInv, RowStep, Carries

-----------------------------------------------------------------------------
(***************************************************************************)
(* Claiming                                                                *)
(***************************************************************************)

LEMMA ClaimRowsOK ==
    ASSUME IInv, NEW w \in Worker, NEW S \in SUBSET Job, NEW age \in 0..AgeCap,
           \A j \in S : row[j].status = "queued", ClaimRows(w, S, age)
    PROVE  /\ row' \in [Job -> Sound]
           /\ \A j \in Job : Advances(row[j], row'[j])
           /\ \A j \in Job \ S : row'[j] = row[j]
           /\ \A j \in S : /\ row[j].attempts \in Nat
                           /\ row[j].attempts + 1 \in 1..Ceiling
                           /\ row'[j].attempts = row[j].attempts + 1
                           /\ row'[j].status = "running"
<1>1. ASSUME NEW j \in S
      PROVE  /\ StepOK(row[j], row'[j])
             /\ row[j].attempts \in Nat
             /\ row[j].attempts + 1 \in 1..Ceiling
             /\ row'[j].attempts = row[j].attempts + 1
             /\ row'[j].status = "running"
  <2>1. row[j] \in Sound /\ row[j].status = "queued"
    BY <1>1 DEF IInv
  <2>2. row'[j] = Claimed(row[j], w, age)
    BY <1>1 DEF ClaimRows
  <2>3. row[j].attempts \in Nat
    BY <2>1, RowFields
  <2> QED BY <2>1, <2>2, <2>3, ClaimedOK
<1>2. \A j \in Job \ S : row'[j] = row[j]
  BY DEF ClaimRows
<1>3. ASSUME NEW j \in Job PROVE row'[j] \in Sound /\ Advances(row[j], row'[j])
  BY <1>1, <1>2, <1>3 DEF IInv, StepOK, Advances
<1>4. row' = [j \in Job |-> row'[j]]
  BY DEF ClaimRows
<1>5. row' \in [Job -> Sound]
  BY <1>3, <1>4
<1> QED BY <1>1, <1>2, <1>3, <1>5

\* The numbers handed out are new: the counter was ahead of every attempt.
LEMMA DequeueOK ==
    ASSUME IInv, NEW w \in Worker, NEW S \in SUBSET Job, Dequeue(w, S)
    PROVE  IInv'
<1>1. \A j \in S : row[j].status = "queued" /\ j \notin Locked
  BY DEF Dequeue, MayClaim, Claimable
<1>2. /\ row' \in [Job -> Sound]
      /\ \A j \in Job : Advances(row[j], row'[j])
      /\ \A j \in Job \ S : row'[j] = row[j]
      /\ \A j \in S : /\ row[j].attempts \in Nat
                      /\ row[j].attempts + 1 \in 1..Ceiling
                      /\ row'[j].attempts = row[j].attempts + 1
                      /\ row'[j].status = "running"
  BY <1>1, ClaimRowsOK, Zeros DEF Dequeue
<1>3. \A j \in Locked : row'[j].status = "queued"
  BY <1>1, <1>2 DEF IInv, LocksHeld, Locked, RestOK
<1>4. RowStep
  BY <1>2, <1>3 DEF RowStep
<1>5. inflight' = inflight \cup {NewAttempt(w, j) : j \in S}
  BY DEF Dequeue
<1>6. ASSUME NEW j \in S
      PROVE  /\ NewAttempt(w, j) \in AttemptType
             /\ NewAttempt(w, j).job = j
             /\ NewAttempt(w, j).n = row[j].attempts + 1
  <2>1. (row[j].attempts + 1 < row[j].max) \in BOOLEAN
    OBVIOUS
  <2>2. (IF w \in Consumer THEN "held" ELSE "buffered") \in Stage
    BY DEF Stage
  <2>3. row[j].attempts + 1 \in 1..Ceiling
    BY <1>2
  <2>4. j \in Job /\ "none" \in End /\ "none" \in Reason
    BY DEF End, Reason
  <2> QED BY <2>1, <2>2, <2>3, <2>4, ZenonT(30) DEF NewAttempt, AttemptType
<1>7. inflight' \subseteq AttemptType
  BY <1>5, <1>6 DEF IInv
<1>8. ASSUME NEW a \in inflight PROVE a.job \in S => a.n <= row[a.job].attempts
  BY <1>1, <1>8 DEF IInv, NumbersClaimed
<1>9. ASSUME NEW a \in inflight', NEW b \in inflight', a.job = b.job, a.n = b.n
      PROVE  a = b
  <2>1. CASE a \in inflight /\ b \in inflight
    BY <1>9, <2>1 DEF IInv, UniqueClaim
  <2>2. ASSUME NEW x \in inflight, NEW j \in S, x.job = j
        PROVE  x.n # NewAttempt(w, j).n
    <3>1. x.n <= row[j].attempts /\ x.n \in Nat
      BY <1>8, <2>2, CeilingAssumption DEF IInv, AttemptType
    <3> QED BY <1>2, <1>6, <3>1
  <2>3. CASE \E j, k \in S : a = NewAttempt(w, j) /\ b = NewAttempt(w, k)
    BY <1>6, <1>9, <2>3
  <2> QED BY <1>5, <1>6, <1>9, <2>1, <2>2, <2>3
<1>10. ASSUME NEW a \in inflight'
       PROVE  \/ row'[a.job].status = "gone"
              \/ row'[a.job].status # "unborn" /\ a.n <= row'[a.job].attempts
  <2>1. CASE a \in inflight
    <3>1. a.job \in Job /\ a.n \in Nat
      BY <2>1, CeilingAssumption DEF IInv, AttemptType
    <3>2. Advances(row[a.job], row'[a.job]) /\ row[a.job] \in Sound /\ row'[a.job] \in Sound
      BY <3>1, <1>2 DEF IInv
    <3>3. row[a.job].attempts \in Nat /\ row'[a.job].attempts \in Nat
      BY <3>2, RowFields
    <3> QED BY <2>1, <3>1, <3>2, <3>3 DEF IInv, NumbersClaimed, Advances
  <2>2. CASE \E j \in S : a = NewAttempt(w, j)
    BY <1>2, <1>6, <2>2
  <2> QED BY <1>5, <2>1, <2>2
<1>11. proc' \in [Worker -> Phase]
  BY DEF Dequeue, FetchEnds, IInv, RestOK, Phase
<1>12. RestOK' /\ UNCHANGED tx
  BY <1>11 DEF Dequeue, IInv, RestOK, pending, history
<1>13. LocksHeld'
  BY <1>3, <1>12 DEF IInv, LocksHeld, Locked
<1> QED BY <1>2, <1>7, <1>9, <1>10, <1>12, <1>13 DEF IInv, UniqueClaim, NumbersClaimed

LEMMA DequeueLostOK ==
    ASSUME IInv, NEW w \in Worker, NEW S \in SUBSET Job, DequeueLost(w, S)
    PROVE  IInv'
<1>1. \A j \in S : row[j].status = "queued" /\ j \notin Locked
  BY DEF DequeueLost, MayClaim, Claimable
<1>2. RowStep
  BY SameRows DEF DequeueLost, tables
<1>3. Carries
  BY SameAttempts DEF DequeueLost
<1>4. ASSUME NEW j \in S PROVE row[j].attempts + 1 \in 1..Ceiling
  <2>1. row[j] \in Sound /\ row[j].status = "queued"
    BY <1>1, <1>4 DEF IInv
  <2> QED BY <2>1, RowFields, CeilingAssumption DEF RowOK
<1>5. ClaimsOf(w, S) \subseteq ClaimType
  BY <1>4 DEF ClaimsOf, ClaimType
<1>6. tx' = [tx EXCEPT ![w] = [jobs |-> S, age |-> 0]]
  BY DEF DequeueLost
<1>7. tx' \in [Worker -> [jobs : SUBSET Job, age : 0..AgeCap]]
  BY <1>6, Zeros DEF IInv, RestOK
<1>8. proc' \in [Worker -> Phase]
  BY DEF DequeueLost, FetchEnds, IInv, RestOK, Phase
<1>9. RestOK'
  BY <1>5, <1>7, <1>8 DEF DequeueLost, IInv, RestOK, tables, history
<1>10. tx'[w].jobs = S /\ \A v \in Worker \ {w} : tx'[v].jobs = tx[v].jobs
  BY <1>6 DEF IInv, RestOK
<1>11. \A j \in S, v \in Worker : j \notin tx[v].jobs
  BY <1>1 DEF Locked
<1>12. LocksHeld'
  <2>1. ASSUME NEW j \in Locked' PROVE row'[j].status = "queued"
    <3>1. PICK v \in Worker : j \in tx'[v].jobs
      BY DEF Locked
    <3>2. j \in S \/ j \in Locked
      BY <1>10, <3>1 DEF Locked
    <3> QED BY <1>1, <1>2, <3>2 DEF DequeueLost, tables, IInv, LocksHeld
  <2>2. ASSUME NEW u \in Worker, NEW v \in Worker, u # v
        PROVE  tx'[u].jobs \cap tx'[v].jobs = {}
    BY <1>10, <1>11, <2>2 DEF IInv, LocksHeld
  <2> QED BY <2>1, <2>2 DEF LocksHeld
<1> QED BY <1>2, <1>3, <1>9, <1>12, NumbersKept DEF IInv, RowStep, Carries

\* A transaction that ends gives its locks up.
LEMMA LocksReleased ==
    ASSUME IInv, NEW w \in Worker, tx' = [tx EXCEPT ![w] = NoTx],
           \A j \in Job \ tx[w].jobs : row'[j] = row[j]
    PROVE  /\ tx' \in [Worker -> [jobs : SUBSET Job, age : 0..AgeCap]]
           /\ LocksHeld'
<1>1. NoTx \in [jobs : SUBSET Job, age : 0..AgeCap] /\ NoTx.jobs = {}
  BY Zeros DEF NoTx
<1>2. tx' \in [Worker -> [jobs : SUBSET Job, age : 0..AgeCap]]
  BY <1>1 DEF IInv, RestOK
<1>3. tx'[w].jobs = {} /\ \A v \in Worker \ {w} : tx'[v].jobs = tx[v].jobs
  BY <1>1 DEF IInv, RestOK
<1>4. ASSUME NEW j \in Locked' PROVE row'[j].status = "queued"
  <2>1. PICK v \in Worker : j \in tx'[v].jobs
    BY DEF Locked
  <2>2. v # w /\ j \in tx[v].jobs
    BY <1>3, <2>1
  <2>3. j \in Job \ tx[w].jobs
    BY <2>2 DEF IInv, LocksHeld, RestOK
  <2>4. j \in Locked
    BY <2>2 DEF Locked
  <2> QED BY <2>3, <2>4 DEF IInv, LocksHeld
<1>5. ASSUME NEW u \in Worker, NEW v \in Worker, u # v
      PROVE  tx'[u].jobs \cap tx'[v].jobs = {}
  BY <1>3, <1>5 DEF IInv, LocksHeld
<1> QED BY <1>2, <1>4, <1>5 DEF LocksHeld

LEMMA CommitLandsOK ==
    ASSUME IInv, NEW w \in Worker, CommitLands(w)
    PROVE  IInv'
<1> DEFINE S == tx[w].jobs
<1>1. S \in SUBSET Job /\ tx[w].age \in 0..AgeCap
  BY DEF IInv, RestOK
<1>2. \A j \in S : row[j].status = "queued"
  BY DEF IInv, LocksHeld, Locked
<1>3. ClaimRows(w, S, tx[w].age)
  BY DEF CommitLands
<1> HIDE DEF S
<1>4. /\ row' \in [Job -> Sound]
      /\ \A j \in Job : Advances(row[j], row'[j])
      /\ \A j \in Job \ S : row'[j] = row[j]
  BY <1>1, <1>2, <1>3, ClaimRowsOK
<1>5. tx' \in [Worker -> [jobs : SUBSET Job, age : 0..AgeCap]] /\ LocksHeld'
  BY <1>4, LocksReleased DEF CommitLands, S
<1>6. Carries
  BY SameAttempts DEF CommitLands
<1>7. RestOK'
  BY <1>5 DEF CommitLands, IInv, RestOK, history
<1> QED BY <1>4, <1>5, <1>6, <1>7, NumbersKept DEF IInv, Carries

LEMMA CommitNeverLandsOK ==
    ASSUME IInv, NEW w \in Worker, CommitNeverLands(w)
    PROVE  IInv'
<1>1. tx' \in [Worker -> [jobs : SUBSET Job, age : 0..AgeCap]] /\ LocksHeld'
  BY LocksReleased DEF CommitNeverLands, tables
<1>2. RowStep
  BY SameRows DEF CommitNeverLands, tables
<1>3. Carries
  BY SameAttempts DEF CommitNeverLands
<1>4. unlanded' \subseteq ClaimType
  BY DEF CommitNeverLands, IInv, RestOK
<1>5. RestOK'
  BY <1>1, <1>4 DEF CommitNeverLands, IInv, RestOK, tables
<1> QED BY <1>1, <1>2, <1>3, <1>5, NumbersKept DEF IInv, RowStep, Carries

LEMMA ResolveUnacknowledgedOK ==
    ASSUME IInv, NEW b \in unacked, ResolveUnacknowledged(b)
    PROVE  IInv'
<1>1. b \subseteq ClaimType
  BY DEF IInv, RestOK
<1>2. ASSUME NEW j \in Job
      PROVE  /\ StepOK(row[j], row'[j])
             /\ row[j].status = "queued" => row'[j] = row[j]
  <2> DEFINE c == CHOOSE c \in b : c.job = j
  <2>1. CASE \E x \in b : x.job = j
    <3>1. c \in b /\ c.job = j
      BY <2>1
    <3>2. row'[j] = Resolved(c, 0, TRUE)
      BY <2>1 DEF ResolveUnacknowledged
    <3> HIDE DEF c
    <3>3. c \in ClaimType /\ row[c.job] \in Sound
      BY <1>1, <3>1 DEF IInv
    <3>4. /\ StepOK(row[c.job], Resolved(c, 0, TRUE))
          /\ row[c.job].status = "queued" => Resolved(c, 0, TRUE) = row[c.job]
      BY <3>3, ResolvedOK, Zeros
    <3> QED BY <3>1, <3>2, <3>4
  <2>2. CASE ~\E x \in b : x.job = j
    BY <2>2 DEF ResolveUnacknowledged, IInv, StepOK, Advances
  <2> QED BY <2>1, <2>2
<1>3. row' = [j \in Job |-> row'[j]]
  BY DEF ResolveUnacknowledged
<1>4. \A j \in Locked : j \in Job /\ row[j].status = "queued"
  BY DEF IInv, LocksHeld, Locked, RestOK
<1>5. RowStep
  BY <1>2, <1>3, <1>4 DEF RowStep, StepOK
<1>6. Carries
  BY SameAttempts DEF ResolveUnacknowledged
<1>7. RestOK' /\ UNCHANGED tx
  BY DEF ResolveUnacknowledged, IInv, RestOK
<1> QED BY <1>5, <1>6, <1>7, Preserved

-----------------------------------------------------------------------------
(***************************************************************************)
(* Attempts                                                                *)
(***************************************************************************)

LEMMA AttemptFields ==
    ASSUME IInv, NEW a \in inflight
    PROVE  /\ a \in AttemptType /\ a.job \in Job /\ a.n \in 1..Ceiling /\ a.worker \in Worker
           /\ row[a.job] \in Sound
           /\ row[a.job].status \in ClaimedStatus => a.job \notin Locked
           /\ ClaimOf(a) \in ClaimType
  BY DEF IInv, AttemptType, LocksHeld, ClaimedStatus, ClaimOf, ClaimType

\* Where an attempt goes next it keeps its job and its number.
LEMMA BecomesOK ==
    ASSUME NEW a \in AttemptType, NEW stage \in Stage, NEW end \in End
    PROVE  /\ Becomes(a, stage, end) \in AttemptType
           /\ Becomes(a, stage, end).job = a.job /\ Becomes(a, stage, end).n = a.n
  BY DEF Becomes, AttemptType

LEMMA AttemptEdits ==
    ASSUME NEW a \in AttemptType
    PROVE  /\ \A stage \in Stage : LET b == [a EXCEPT !.stage = stage]
                                   IN  b \in AttemptType /\ b.job = a.job /\ b.n = a.n
           /\ \A end \in End : LET b == [a EXCEPT !.end = end]
                               IN  b \in AttemptType /\ b.job = a.job /\ b.n = a.n
           /\ \A reason \in Reason : LET b == [a EXCEPT !.reason = reason]
                                     IN  b \in AttemptType /\ b.job = a.job /\ b.n = a.n
           /\ \A polled \in Reason : LET b == [a EXCEPT !.polled = polled]
                                     IN  b \in AttemptType /\ b.job = a.job /\ b.n = a.n
  BY DEF AttemptType

\* A step of the worker alone.
LEMMA LocalStep ==
    ASSUME IInv, Carries, Local, succeeded' \subseteq Job \X (1..Ceiling)
    PROVE  IInv'
<1>1. RowStep
  BY SameRows DEF Local, tables
<1>2. RestOK' /\ UNCHANGED tx
  BY DEF Local, IInv, RestOK, tables, pending
<1> QED BY <1>1, <1>2, Preserved

LEMMA ProcessOK ==
    ASSUME IInv, NEW a \in inflight, Process(a)
    PROVE  IInv'
<1>1. a \in AttemptType
  BY AttemptFields
<1>2. Carries
  <2>1. ASSUME NEW stage \in Stage, NEW end \in End, Replace(a, Becomes(a, stage, end))
        PROVE  Carries
    BY <1>1, <2>1, BecomesOK, OneAttempt DEF Replace
  <2> QED BY <2>1 DEF Process, Stage, End
<1> QED BY <1>2, LocalStep DEF Process, IInv, RestOK

LEMMA HandlerEndsOK ==
    ASSUME IInv, NEW a \in inflight, NEW end \in End, HandlerEnds(a, end)
    PROVE  IInv'
<1> DEFINE f == Becomes(a, "finalize", end)
           reason == IF end = "aborted" THEN f.reason ELSE "none"
           polled == IF end = "aborted" THEN f.polled ELSE "none"
           g == [f EXCEPT !.reason = reason]
           b == [g EXCEPT !.polled = polled]
<1>1. a \in AttemptType /\ a.job \in Job /\ a.n \in 1..Ceiling
  BY AttemptFields
<1>2. f \in AttemptType /\ f.job = a.job /\ f.n = a.n
  BY <1>1, BecomesOK DEF Stage
<1>3. reason \in Reason /\ polled \in Reason
  BY <1>2 DEF AttemptType, Reason
<1>4. inflight' = (inflight \ {a}) \cup {b}
  BY DEF HandlerEnds, Replace
<1> HIDE DEF f, reason, polled
<1>5. b \in AttemptType /\ b.job = a.job /\ b.n = a.n
  <2>1. g \in AttemptType /\ g.job = f.job /\ g.n = f.n
    BY <1>2, <1>3, AttemptEdits
  <2> HIDE DEF g
  <2>2. b \in AttemptType /\ b.job = g.job /\ b.n = g.n
    BY <1>3, <2>1, AttemptEdits
  <2> QED BY <1>2, <2>1, <2>2
<1>6. Carries
  BY <1>4, <1>5, OneAttempt
<1>7. succeeded' \subseteq Job \X (1..Ceiling)
  BY <1>1 DEF HandlerEnds, IInv, RestOK
<1> QED BY <1>6, <1>7, LocalStep DEF HandlerEnds

LEMMA HandlerCancelledOK ==
    ASSUME IInv, NEW a \in inflight, HandlerCancelled(a)
    PROVE  IInv'
<1>1. a \in AttemptType
  BY AttemptFields
<1>2. Carries
  <2>1. ASSUME NEW stage \in Stage, NEW end \in End, Replace(a, Becomes(a, stage, end))
        PROVE  Carries
    BY <1>1, <2>1, BecomesOK, OneAttempt DEF Replace
  <2> QED BY <2>1 DEF HandlerCancelled, Stage, End
<1> QED BY <1>2, LocalStep DEF HandlerCancelled, IInv, RestOK

LEMMA PollAbortOK ==
    ASSUME IInv, NEW a \in inflight, PollAbort(a)
    PROVE  IInv'
<1> DEFINE polled == PolledReason(a)
           b == [a EXCEPT !.polled = polled]
<1>1. a \in AttemptType
  BY AttemptFields
<1>2. polled \in Reason
  BY DEF PolledReason, Reason, Owns, Swept
<1>3. inflight' = (inflight \ {a}) \cup {b}
  BY DEF PollAbort, Replace
<1> HIDE DEF polled
<1>4. b \in AttemptType /\ b.job = a.job /\ b.n = a.n
  BY <1>1, <1>2, AttemptEdits
<1>5. Carries
  BY <1>3, <1>4, OneAttempt
<1> QED BY <1>5, LocalStep DEF PollAbort, IInv, RestOK

LEMMA RequestAbortOK ==
    ASSUME IInv, NEW a \in inflight, RequestAbort(a)
    PROVE  IInv'
<1> DEFINE g == [a EXCEPT !.reason = a.polled]
           b == [g EXCEPT !.polled = "none"]
<1>1. a \in AttemptType /\ a.polled \in Reason /\ "none" \in Reason
  BY AttemptFields DEF AttemptType, Reason
<1>2. inflight' = (inflight \ {a}) \cup {b}
  BY DEF RequestAbort, Replace
<1>3. g \in AttemptType /\ g.job = a.job /\ g.n = a.n
  BY <1>1, AttemptEdits
<1> HIDE DEF g
<1>4. b \in AttemptType /\ b.job = a.job /\ b.n = a.n
  BY <1>1, <1>3, AttemptEdits
<1>5. Carries
  BY <1>2, <1>4, OneAttempt
<1> QED BY <1>5, LocalStep DEF RequestAbort, IInv, RestOK

-----------------------------------------------------------------------------
(***************************************************************************)
(* Finalization                                                            *)
(***************************************************************************)

\* What a refused statement may leave of an attempt.
Refusals(a) == {Unconfirmed, Fallback(a), Reread(a)}

LEMMA StatementOK ==
    ASSUME IInv, NEW a \in inflight, NEW allowed, NEW new, NEW refused \in Refusals(a),
           allowed => row[a.job].status \in ClaimedStatus /\ StepOK(row[a.job], new),
           Statement(a, allowed, new, refused)
    PROVE  RowStep /\ Carries
<1>1. a \in AttemptType /\ a.job \in Job /\ row[a.job].status \in ClaimedStatus => a.job \notin Locked
  BY AttemptFields
<1>2. CASE allowed
  <2>1. RowStep
    BY <1>1, <1>2, OneRow, AttemptFields DEF Statement
  <2>2. inflight' \subseteq (inflight \ {a}) \cup {[a EXCEPT !.stage = "finalize"]}
    BY <1>2 DEF Statement, Replace
  <2>3. Carries
    <3>1. [a EXCEPT !.stage = "finalize"] \in AttemptType /\ [a EXCEPT !.stage = "finalize"].job = a.job
          /\ [a EXCEPT !.stage = "finalize"].n = a.n
      BY AttemptFields, AttemptEdits DEF Stage
    <3> QED BY <2>2, <3>1, OneAttempt
  <2> QED BY <2>1, <2>3
<1>3. CASE ~allowed
  <2>1. RowStep
    BY <1>3, SameRows DEF Statement
  <2>2. inflight' = (inflight \ {a}) \cup refused
    BY <1>3 DEF Statement
  <2>3. CASE refused = Unconfirmed
    BY <2>1, <2>2, <2>3, SameAttempts DEF Unconfirmed
  <2>4. CASE refused = Fallback(a)
    <3>1. [a EXCEPT !.stage = "fallback"] \in AttemptType /\ [a EXCEPT !.stage = "fallback"].job = a.job
          /\ [a EXCEPT !.stage = "fallback"].n = a.n
      BY AttemptFields, AttemptEdits DEF Stage
    <3>2. Carries
      BY <2>2, <2>4, <3>1, OneAttempt DEF Fallback
    <3> QED BY <2>1, <3>2
  <2>5. CASE refused = Reread(a)
    <3>1. [a EXCEPT !.stage = "reread"] \in AttemptType /\ [a EXCEPT !.stage = "reread"].job = a.job
          /\ [a EXCEPT !.stage = "reread"].n = a.n
      BY AttemptFields, AttemptEdits DEF Stage
    <3>2. Carries
      BY <2>2, <2>5, <3>1, OneAttempt DEF Reread
    <3> QED BY <2>1, <3>2
  <2> QED BY <2>1, <2>3, <2>4, <2>5 DEF Refusals
<1> QED BY <1>2, <1>3

LEMMA FinishAttemptOK ==
    ASSUME IInv, NEW a \in inflight, NEW status \in Terminal,
           NEW error \in ErrorText \cup {"keep"}, status = "complete" => error \in ErrorText,
           NEW refused \in Refusals(a), FinishAttempt(a, status, error, refused)
    PROVE  IInv'
<1> DEFINE r == row[a.job]
           allowed == FinishAllowed(r, a.worker, a.n, status)
           new == Finished(a.job, r, status, error)
<1>1. a.job \in Job /\ r \in Sound
  BY AttemptFields
<1>2. allowed => r.status \in ClaimedStatus
  BY DEF FinishAllowed, ClaimedStatus
<1>3. allowed => StepOK(r, new)
  BY <1>1, FinishedOK
<1>4. Statement(a, allowed, new, refused)
  BY DEF FinishAttempt
<1> HIDE DEF allowed, new
<1>5. RowStep /\ Carries
  BY <1>2, <1>3, <1>4, StatementOK
<1>6. RestOK' /\ UNCHANGED tx
  BY DEF FinishAttempt, IInv, RestOK, pending, history
<1> QED BY <1>5, <1>6, Preserved

\* Every guarded requeue an attempt sends.
LEMMA RequeueStatement ==
    ASSUME IInv, NEW a \in inflight, NEW running, NEW refund \in BOOLEAN,
           NEW error \in ErrorText \cup {"keep"}, NEW delay \in 0..WaitCap,
           NEW refused \in Refusals(a),
           Statement(a, RequeueAllowed(row[a.job], a.worker, a.n, running, refund),
                     Requeued(row[a.job], error, delay, refund), refused)
    PROVE  RowStep /\ Carries
<1> DEFINE r == row[a.job]
           allowed == RequeueAllowed(r, a.worker, a.n, running, refund)
           new == Requeued(r, error, delay, refund)
<1>1. r \in Sound
  BY AttemptFields
<1>2. allowed => r.status \in ClaimedStatus /\ StepOK(r, new)
  BY <1>1, RequeueAllowedOK
<1>3. Statement(a, allowed, new, refused)
  OBVIOUS
<1> HIDE DEF allowed, new
<1> QED BY <1>2, <1>3, StatementOK

LEMMA DelaysBounded ==
    RetryDelay \in 0..WaitCap /\ BounceDelay \in 0..WaitCap /\ 0 \in 0..WaitCap
  BY TimesAssumption DEF WaitCap

LEMMA RetryAttemptOK ==
    ASSUME IInv, NEW a \in inflight, NEW running, NEW error \in ErrorText \cup {"keep"},
           RetryAttempt(a, running, error)
    PROVE  IInv'
<1>1. RowStep /\ Carries
  BY RequeueStatement, DelaysBounded DEF RetryAttempt, Refusals
<1>2. RestOK' /\ UNCHANGED tx
  BY DEF RetryAttempt, IInv, RestOK, pending, history
<1> QED BY <1>1, <1>2, Preserved

LEMMA RequeueShutdownOK ==
    ASSUME IInv, NEW a \in inflight, NEW refused \in Refusals(a), RequeueShutdown(a, refused)
    PROVE  IInv'
<1>1. RowStep /\ Carries
  BY RequeueStatement, DelaysBounded DEF RequeueShutdown, ErrorText
<1>2. a.worker \in Worker
  BY AttemptFields
<1>3. lease' \in [Worker -> LeaseType]
  BY <1>2, LeasesTyped DEF RequeueShutdown, IInv, RestOK
<1>4. RestOK' /\ UNCHANGED tx
  BY <1>3 DEF RequeueShutdown, IInv, RestOK, pending, history
<1> QED BY <1>1, <1>4, Preserved

LEMMA FinalizeSuccessOK ==
    ASSUME IInv, NEW a \in inflight, FinalizeSuccess(a)
    PROVE  IInv'
  BY FinishAttemptOK DEF FinalizeSuccess, Terminal, ErrorText, Refusals

LEMMA FinalizeErroredOK ==
    ASSUME IInv, NEW a \in inflight, FinalizeErrored(a)
    PROVE  IInv'
<1>1. CASE RequeueShutdown(a, Unconfirmed)
  BY <1>1, RequeueShutdownOK DEF Refusals
<1>2. CASE RetryAttempt(a, TRUE, "other")
  BY <1>2, RetryAttemptOK DEF ErrorText
<1>3. CASE FinishAttempt(a, "failed", "other", Fallback(a))
  BY <1>3, FinishAttemptOK DEF Terminal, ErrorText, Refusals
<1> QED BY <1>1, <1>2, <1>3 DEF FinalizeErrored

LEMMA FinalizeCancelledOK ==
    ASSUME IInv, NEW a \in inflight, FinalizeCancelled(a)
    PROVE  IInv'
<1>1. CASE RetryAttempt(a, FALSE, "keep")
  BY <1>1, RetryAttemptOK
<1>2. CASE \E error \in {"swept", "user", "other"} :
              FinishAttempt(a, "aborted", error, Unconfirmed)
  BY <1>2, FinishAttemptOK DEF Terminal, ErrorText, Refusals
<1>3. CASE FinalizeSuperseded(a)
  BY <1>3, SameAttempts, LocalStep DEF FinalizeSuperseded, IInv, RestOK
<1>4. CASE RequeueShutdown(a, Unconfirmed)
  BY <1>4, RequeueShutdownOK DEF Refusals
<1> QED BY <1>1, <1>2, <1>3, <1>4 DEF FinalizeCancelled

LEMMA FinalizeUnhandledOK ==
    ASSUME IInv, NEW a \in inflight, FinalizeUnhandled(a)
    PROVE  IInv'
<1>1. RowStep /\ Carries
  BY RequeueStatement, DelaysBounded DEF FinalizeUnhandled, ErrorText, Refusals
<1>2. RestOK' /\ UNCHANGED tx
  BY DEF FinalizeUnhandled, IInv, RestOK, pending, history
<1> QED BY <1>1, <1>2, Preserved

LEMMA TryFinalizeOK ==
    ASSUME IInv, NEW a \in inflight, TryFinalize(a)
    PROVE  IInv'
  BY FinalizeSuccessOK, FinalizeErroredOK, FinalizeCancelledOK, FinalizeUnhandledOK
     DEF TryFinalize

LEMMA DrainOnShutdownOK ==
    ASSUME IInv, NEW a \in inflight, DrainOnShutdown(a)
    PROVE  IInv'
<1> DEFINE d == [a EXCEPT !.end = "drain"]
           r == row[a.job]
           allowed == RequeueAllowed(r, a.worker, a.n, TRUE, TRUE)
           f == [d EXCEPT !.stage = "finalize"]
           g == [d EXCEPT !.stage = "fallback"]
<1>1. /\ a \in AttemptType /\ a.job \in Job /\ a.worker \in Worker /\ r \in Sound
      /\ r.status \in ClaimedStatus => a.job \notin Locked
  BY AttemptFields
<1>2. d \in AttemptType /\ d.job = a.job /\ d.n = a.n
  BY <1>1, AttemptEdits DEF End
<1>3. \/ allowed /\ row' = [row EXCEPT ![a.job] = Requeued(r, "other", 0, TRUE)]
                 /\ inflight' \subseteq (inflight \ {a}) \cup {f}
      \/ ~allowed /\ UNCHANGED row /\ inflight' = (inflight \ {a}) \cup {g}
  BY DEF DrainOnShutdown, Fallback
<1> HIDE DEF d
<1>4. f \in AttemptType /\ f.job = a.job /\ f.n = a.n
  BY <1>2, AttemptEdits DEF Stage
<1>5. g \in AttemptType /\ g.job = a.job /\ g.n = a.n
  BY <1>2, AttemptEdits DEF Stage
<1>6. allowed => r.status \in ClaimedStatus /\ StepOK(r, Requeued(r, "other", 0, TRUE))
  BY <1>1, RequeueAllowedOK, DelaysBounded DEF ErrorText
<1> HIDE DEF allowed, f, g
<1>7. Carries
  BY <1>3, <1>4, <1>5, OneAttempt
<1>8. RowStep
  BY <1>1, <1>3, <1>6, OneRow, SameRows
<1>9. lease' \in [Worker -> LeaseType]
  BY <1>1, LeasesTyped DEF DrainOnShutdown, IInv, RestOK
<1>10. RestOK' /\ UNCHANGED tx
  BY <1>9 DEF DrainOnShutdown, IInv, RestOK, pending, history
<1> QED BY <1>7, <1>8, <1>10, Preserved

LEMMA RereadRefusalOK ==
    ASSUME IInv, NEW a \in inflight, RereadRefusal(a)
    PROVE  IInv'
<1> DEFINE b == [a EXCEPT !.stage = "fallback"]
<1>1. b \in AttemptType /\ b.job = a.job /\ b.n = a.n
  BY AttemptFields, AttemptEdits DEF Stage
<1>2. inflight' \subseteq (inflight \ {a}) \cup {b}
  BY DEF RereadRefusal, Fallback
<1> HIDE DEF b
<1>3. Carries
  BY <1>1, <1>2, OneAttempt
<1> QED BY <1>3, LocalStep DEF RereadRefusal, IInv, RestOK

LEMMA FinishAbortedFallbackOK ==
    ASSUME IInv, NEW a \in inflight, FinishAbortedFallback(a)
    PROVE  IInv'
  BY FinishAttemptOK DEF FinishAbortedFallback, Terminal, Refusals

LEMMA GiveUpOK ==
    ASSUME IInv, NEW a \in inflight, GiveUp(a)
    PROVE  IInv'
  BY SameAttempts, LocalStep DEF GiveUp, IInv, RestOK

-----------------------------------------------------------------------------
(***************************************************************************)
(* Custom consumers                                                        *)
(***************************************************************************)

LEMMA AcknowledgedOK ==
    ASSUME IInv, NEW a \in inflight, Acknowledged(a)
    PROVE  Carries
<1> DEFINE b == [a EXCEPT !.end = "unsure"]
<1>1. b \in AttemptType /\ b.job = a.job /\ b.n = a.n
  BY AttemptFields, AttemptEdits DEF End
<1>2. inflight' \subseteq (inflight \ {a}) \cup {b}
  BY DEF Acknowledged, Replace
<1> HIDE DEF b
<1> QED BY <1>1, <1>2, OneAttempt

LEMMA ConsumerFinishOK ==
    ASSUME IInv, NEW a \in inflight, NEW status \in Terminal, ConsumerFinish(a, status)
    PROVE  IInv'
<1> DEFINE r == row[a.job]
           error == IF status = "aborted" THEN "keep" ELSE "other"
<1>1. /\ a.job \in Job /\ a.n \in 1..Ceiling /\ r \in Sound
      /\ r.status \in ClaimedStatus => a.job \notin Locked
  BY AttemptFields
<1>2. FinishAllowed(r, a.worker, a.n, status) /\ r.status \in ClaimedStatus
  BY DEF ConsumerFinish, FinishAllowed, ClaimedStatus
<1>3. error \in ErrorText \cup {"keep"} /\ (status = "complete" => error \in ErrorText)
  BY DEF ErrorText
<1>4. row' = [row EXCEPT ![a.job] = Finished(a.job, r, status, error)]
  BY DEF ConsumerFinish
<1> HIDE DEF error
<1>5. StepOK(r, Finished(a.job, r, status, error))
  BY <1>1, <1>2, <1>3, FinishedOK
<1>6. RowStep
  BY <1>1, <1>2, <1>4, <1>5, OneRow
<1>7. Carries
  BY AcknowledgedOK DEF ConsumerFinish
<1>8. RestOK' /\ UNCHANGED tx
  BY <1>1 DEF ConsumerFinish, IInv, RestOK, pending
<1> QED BY <1>6, <1>7, <1>8, Preserved

LEMMA ConsumerRetryOK ==
    ASSUME IInv, NEW a \in inflight, ConsumerRetry(a)
    PROVE  IInv'
<1> DEFINE r == row[a.job]
<1>1. a.job \in Job /\ r \in Sound /\ (r.status \in ClaimedStatus => a.job \notin Locked)
  BY AttemptFields
<1>2. r.status \in ClaimedStatus /\ StepOK(r, Requeued(r, "other", RetryDelay, FALSE))
  BY <1>1, RequeueAllowedOK, DelaysBounded DEF ConsumerRetry, ErrorText
<1>3. RowStep
  BY <1>1, <1>2, OneRow DEF ConsumerRetry
<1>4. Carries
  BY AcknowledgedOK DEF ConsumerRetry
<1>5. RestOK' /\ UNCHANGED tx
  BY DEF ConsumerRetry, IInv, RestOK, pending, history
<1> QED BY <1>3, <1>4, <1>5, Preserved

LEMMA DropAttemptOK ==
    ASSUME IInv, NEW a \in inflight, DropAttempt(a)
    PROVE  IInv'
<1>1. RowStep
  BY SameRows DEF DropAttempt, tables
<1>2. Carries
  BY SameAttempts DEF DropAttempt
<1>3. RestOK' /\ UNCHANGED tx
  BY AttemptFields DEF DropAttempt, IInv, RestOK, tables, history
<1> QED BY <1>1, <1>2, <1>3, Preserved

LEMMA ResolveDroppedOK ==
    ASSUME IInv, NEW c \in dropped, ResolveDropped(c)
    PROVE  IInv'
<1> DEFINE s == Resolved(c, RetryDelay, FALSE)
<1>1. c \in ClaimType /\ c.job \in Job /\ row[c.job] \in Sound
  BY DEF IInv, RestOK, ClaimType
<1>2. StepOK(row[c.job], s) /\ (row[c.job].status = "queued" => s = row[c.job])
  BY <1>1, ResolvedOK, DelaysBounded
<1>3. row' = [row EXCEPT ![c.job] = s]
  BY DEF ResolveDropped
<1> HIDE DEF s
<1>4. RowStep
  <2>1. CASE c.job \in Locked
    <3>1. row[c.job].status = "queued"
      BY <2>1 DEF IInv, LocksHeld
    <3>2. UNCHANGED row
      BY <1>1, <1>2, <1>3, <3>1 DEF IInv
    <3> QED BY <3>2, SameRows
  <2>2. CASE c.job \notin Locked
    BY <1>1, <1>2, <1>3, <2>2, OneRow
  <2> QED BY <2>1, <2>2
<1>5. Carries
  BY SameAttempts DEF ResolveDropped
<1>6. RestOK' /\ UNCHANGED tx
  BY DEF ResolveDropped, IInv, RestOK, history
<1> QED BY <1>4, <1>5, <1>6, Preserved

-----------------------------------------------------------------------------
(***************************************************************************)
(* The sweeper                                                             *)
(***************************************************************************)

\* A batch statement over rows that are running or aborting.
LEMMA ClaimedRowsMove ==
    ASSUME IInv, row' = [j \in Job |-> row'[j]],
           \A j \in Job : \/ row'[j] = row[j]
                          \/ row[j].status \in ClaimedStatus /\ StepOK(row[j], row'[j])
    PROVE  RowStep
<1>1. ASSUME NEW j \in Job
      PROVE  /\ row'[j] \in Sound /\ Advances(row[j], row'[j])
             /\ row[j].status = "queued" => row'[j] = row[j]
  BY DEF IInv, StepOK, Advances, ClaimedStatus
<1>2. \A j \in Locked : j \in Job /\ row[j].status = "queued"
  BY DEF IInv, LocksHeld, Locked, RestOK
<1>3. row' \in [Job -> Sound]
  BY <1>1
<1> QED BY <1>1, <1>2, <1>3 DEF RowStep

LEMMA PassTyped ==
    ASSUME IInv, NEW s \in Sweeper, NEW at \in {"idle", "scanned", "marked", "retried"},
           NEW seen \in SUBSET StuckType, Pass(s, at, seen)
    PROVE  sweep' \in [Sweeper -> PassType]
<1>1. Idle \in PassType /\ [at |-> at, seen |-> seen] \in PassType
  BY DEF Idle, PassType
<1> QED BY <1>1 DEF Pass, IInv, RestOK

LEMMA SweepExpiredJobsOK ==
    ASSUME IInv, NEW s \in Sweeper, NEW S \in SUBSET Job, SweepExpiredJobs(s, S)
    PROVE  IInv'
<1>1. \A j \in S : row[j].status # "gone" /\ j \notin Locked
  BY DEF SweepExpiredJobs, Terminal, IInv, LocksHeld
<1>2. RowStep
  BY <1>1, RowsDeleted DEF SweepExpiredJobs
<1>3. Carries
  BY SameAttempts DEF SweepExpiredJobs
<1>4. RestOK' /\ UNCHANGED tx
  BY DEF SweepExpiredJobs, IInv, RestOK, pending, history
<1> QED BY <1>2, <1>3, <1>4, Preserved

LEMMA SweepWorkerLeasesOK ==
    ASSUME IInv, NEW s \in Sweeper, NEW W \in SUBSET Worker, SweepWorkerLeases(s, W)
    PROVE  IInv'
<1>1. NoLease \in LeaseType
  BY TimesAssumption DEF NoLease, LeaseType
<1>2. lease' \in [Worker -> LeaseType]
  BY <1>1 DEF SweepWorkerLeases, IInv, RestOK
<1>3. RestOK' /\ UNCHANGED <<row, inflight, tx>>
  BY <1>2 DEF SweepWorkerLeases, IInv, RestOK, pending, history
<1> QED BY <1>3, LeaseStep

LEMMA SweepScanOK ==
    ASSUME IInv, NEW s \in Sweeper, SweepScan(s)
    PROVE  IInv'
<1>1. PICK B \in Batches({j \in Job : StuckJob(j)}) : Pass(s, "scanned", {Seen(j) : j \in B})
  BY DEF SweepScan
<1>2. B \subseteq Job
  BY DEF Batches
<1>3. ASSUME NEW j \in Job PROVE Seen(j) \in StuckType
  <2> DEFINE r == row[j]
             running == r.status = "running"
             gone == r.status = "running" /\ ~LeaseOf(r).present
             back == (r.status = "running" \/ Swept(r)) /\ Retryable(r)
  <2>1. r.attempts \in 0..Ceiling /\ r.owner \in Worker \cup {NoWorker}
    BY RowFields DEF IInv
  <2>2. running \in BOOLEAN /\ gone \in BOOLEAN /\ back \in BOOLEAN
    OBVIOUS
  <2>3. Seen(j) = [ job |-> j, n |-> r.attempts, owner |-> r.owner,
                    running |-> running, gone |-> gone, back |-> back ]
    BY DEF Seen
  <2> HIDE DEF r, running, gone, back
  <2> QED BY <2>1, <2>2, <2>3 DEF StuckType
<1>4. {Seen(j) : j \in B} \in SUBSET StuckType
  BY <1>2, <1>3
<1>5. sweep' \in [Sweeper -> PassType]
  BY <1>1, <1>4, PassTyped
<1>6. RestOK' /\ UNCHANGED <<row, inflight, tx>>
  BY <1>5 DEF SweepScan, IInv, RestOK, pending, tables, history
<1> QED BY <1>6, LeaseStep

LEMMA SeenTyped ==
    ASSUME IInv, NEW s \in Sweeper
    PROVE  sweep[s].seen \subseteq StuckType
  BY DEF IInv, RestOK, PassType

LEMMA SweepMarkOK ==
    ASSUME IInv, NEW s \in Sweeper, SweepMark(s)
    PROVE  IInv'
<1> DEFINE marked == {e \in sweep[s].seen : MarkedNow(e)}
           abandoned == {e \in sweep[s].seen : e.running => e.gone /\ e \in marked}
           next == {[e EXCEPT !.running = FALSE, !.gone = FALSE] : e \in abandoned}
<1>1. /\ row' = [j \in Job |-> IF \E e \in marked : e.job = j THEN Marked(row[j]) ELSE row[j]]
      /\ Pass(s, "marked", next)
  BY DEF SweepMark
<1>2. \A e \in marked : row[e.job].status = "running"
  BY DEF MarkedNow, MarkAllowed
<1>3. next \in SUBSET StuckType
  <2>1. abandoned \subseteq StuckType
    BY SeenTyped
  <2>2. \A e \in StuckType :
          [e EXCEPT !.running = FALSE, !.gone = FALSE] \in StuckType
    BY DEF StuckType
  <2> HIDE DEF abandoned
  <2> QED BY <2>1, <2>2
<1> HIDE DEF marked, next
<1>4. ASSUME NEW j \in Job
      PROVE  \/ row'[j] = row[j]
             \/ row[j].status \in ClaimedStatus /\ StepOK(row[j], row'[j])
  BY <1>1, <1>2, MarkedOK DEF IInv, ClaimedStatus
<1>5. RowStep
  BY <1>1, <1>4, ClaimedRowsMove
<1>6. Carries
  BY SameAttempts DEF SweepMark
<1>7. sweep' \in [Sweeper -> PassType]
  BY <1>1, <1>3, PassTyped
<1>8. RestOK' /\ UNCHANGED tx
  BY <1>7 DEF SweepMark, IInv, RestOK, pending, history
<1> QED BY <1>5, <1>6, <1>8, Preserved

LEMMA SweepRetryOK ==
    ASSUME IInv, NEW s \in Sweeper, SweepRetry(s)
    PROVE  IInv'
<1> DEFINE given == {e \in sweep[s].seen :
                       e.back /\ RetryAbandonedAllowed(row[e.job], LeaseOf(row[e.job]),
                                                       e.owner, e.n)}
           next == {e \in sweep[s].seen : ~e.back}
<1>1. /\ row' = [j \in Job |-> IF \E e \in given : e.job = j
                               THEN Requeued(row[j], "keep", RetryDelay, FALSE) ELSE row[j]]
      /\ Pass(s, "retried", next)
  BY DEF SweepRetry
<1>2. \A e \in given : row[e.job].status \in ClaimedStatus /\ Retryable(row[e.job])
  BY DEF RetryAbandonedAllowed, ClaimedStatus
<1>3. next \in SUBSET StuckType
  BY SeenTyped
<1> HIDE DEF given, next
<1>4. ASSUME NEW j \in Job
      PROVE  \/ row'[j] = row[j]
             \/ row[j].status \in ClaimedStatus /\ StepOK(row[j], row'[j])
  <2>1. CASE \E e \in given : e.job = j
    <3>1. row[j] \in Sound /\ row[j].status \in ClaimedStatus /\ Retryable(row[j])
      BY <1>2, <2>1 DEF IInv
    <3>2. StepOK(row[j], Requeued(row[j], "keep", RetryDelay, FALSE))
      BY <3>1, RequeuedOK, DelaysBounded
    <3> QED BY <1>1, <2>1, <3>1, <3>2
  <2> QED BY <1>1, <2>1
<1>5. RowStep
  BY <1>1, <1>4, ClaimedRowsMove
<1>6. Carries
  BY SameAttempts DEF SweepRetry
<1>7. sweep' \in [Sweeper -> PassType]
  BY <1>1, <1>3, PassTyped
<1>8. RestOK' /\ UNCHANGED tx
  BY <1>7 DEF SweepRetry, IInv, RestOK, pending, history
<1> QED BY <1>5, <1>6, <1>8, Preserved

LEMMA SweepAbortOK ==
    ASSUME IInv, NEW s \in Sweeper, SweepAbort(s)
    PROVE  IInv'
<1> DEFINE over == {e \in sweep[s].seen :
                      AbortAbandonedAllowed(e.job, row[e.job], LeaseOf(row[e.job]),
                                            e.owner, e.n)}
<1>1. /\ row' = [j \in Job |-> IF \E e \in over : e.job = j
                               THEN AbortedAbandoned(j, row[j]) ELSE row[j]]
      /\ Pass(s, "idle", {})
  BY DEF SweepAbort
<1>2. \A e \in over : row[e.job].status \in ClaimedStatus
  BY DEF AbortAbandonedAllowed, ClaimedStatus
<1> HIDE DEF over
<1>3. ASSUME NEW j \in Job
      PROVE  \/ row'[j] = row[j]
             \/ row[j].status \in ClaimedStatus /\ StepOK(row[j], row'[j])
  BY <1>1, <1>2, AbortedAbandonedOK DEF IInv
<1>4. RowStep
  BY <1>1, <1>3, ClaimedRowsMove
<1>5. Carries
  BY SameAttempts DEF SweepAbort
<1>6. sweep' \in [Sweeper -> PassType]
  BY <1>1, PassTyped
<1>7. RestOK' /\ UNCHANGED tx
  BY <1>6 DEF SweepAbort, IInv, RestOK, pending, history
<1> QED BY <1>4, <1>5, <1>7, Preserved

LEMMA SweepFailsOK ==
    ASSUME IInv, NEW s \in Sweeper, SweepFails(s)
    PROVE  IInv'
<1>1. sweep' \in [Sweeper -> PassType]
  BY PassTyped DEF SweepFails
<1>2. RestOK' /\ UNCHANGED <<row, inflight, tx>>
  BY <1>1 DEF SweepFails, IInv, RestOK, pending, tables, history
<1> QED BY <1>2, LeaseStep

-----------------------------------------------------------------------------
(***************************************************************************)
(* Theorems                                                                *)
(***************************************************************************)

LEMMA InitOK == Init => IInv
<1> SUFFICES ASSUME Init PROVE IInv
  OBVIOUS
<1>1. row \in [Job -> Sound]
  BY NoRowSound DEF Init
<1>2. RestOK
  BY LeasesTyped, Zeros, TimesAssumption
     DEF Init, RestOK, NoLease, LeaseType, Phase, NoTx, Idle, PassType
<1>3. Locked = {} /\ \A w \in Worker : tx[w].jobs = {}
  BY DEF Init, Locked, NoTx
<1> QED BY <1>1, <1>2, <1>3 DEF Init, IInv, LocksHeld, NumbersClaimed, UniqueClaim

LEMMA StepsOK == IInv /\ [Next]_vars => IInv'
<1> SUFFICES ASSUME IInv, [Next]_vars PROVE IInv'
  OBVIOUS
<1>1. CASE Tick
  BY <1>1, TickOK
<1>2. CASE OperatorStep
  BY <1>2, EnqueueOK, AbortJobOK, PurgeQueuedJobsOK, RetryJobOccurrenceOK DEF OperatorStep
<1>3. CASE ProcessStep
  BY <1>3, HeartbeatsOK, ShutdownOK, RetireOK, CrashOK, DequeueOK, DequeueLostOK,
     CommitLandsOK, CommitNeverLandsOK DEF ProcessStep
<1>4. CASE AttemptStep
  BY <1>4, ProcessOK, HandlerEndsOK, HandlerCancelledOK, PollAbortOK,
     RequestAbortOK, TryFinalizeOK, DrainOnShutdownOK, RereadRefusalOK, FinishAbortedFallbackOK, GiveUpOK,
     ConsumerFinishOK, ConsumerRetryOK, DropAttemptOK DEF AttemptStep
<1>5. CASE ResolverStep
  BY <1>5, ResolveUnacknowledgedOK, ResolveDroppedOK DEF ResolverStep
<1>6. CASE SweeperStep
  BY <1>6, SweepExpiredJobsOK, SweepWorkerLeasesOK, SweepScanOK, SweepMarkOK,
     SweepRetryOK, SweepAbortOK, SweepFailsOK DEF SweeperStep
<1>7. CASE UNCHANGED vars
  <2>1. UNCHANGED <<row, inflight, tx>> /\ RestOK'
    BY <1>7 DEF vars, IInv, RestOK
  <2> QED BY <2>1, LeaseStep
<1>8. ASSUME NEW c \in runaway, RunawayReturns(c) PROVE IInv'
  <2>1. UNCHANGED <<row, inflight, tx>> /\ RestOK'
    BY <1>8 DEF RunawayReturns, tables, pending, IInv, RestOK
  <2> QED BY <2>1, LeaseStep
<1> QED BY <1>1, <1>2, <1>3, <1>4, <1>5, <1>6, <1>7, <1>8 DEF Next

LEMMA InvHolds == Spec => []IInv
  BY InitOK, StepsOK, PTL DEF Spec

\* A handler that goes on without its attempt was started under a claim.
LEMMA RunawaysOK ==
    ASSUME IInv, runaway \subseteq ClaimType, [Next]_vars
    PROVE  runaway' \subseteq ClaimType
<1>1. \A a \in inflight : ClaimOf(a) \in ClaimType
  BY AttemptFields DEF ClaimOf, ClaimType, AttemptType
<1>2. CASE \E a \in inflight, end \in End : HandlerEnds(a, end) \/ HandlerCancelled(a)
  BY <1>1, <1>2 DEF HandlerEnds, HandlerCancelled, JoinAfterAbort
<1>3. CASE \E w \in Worker : Retire(w)
  <2>1. PICK w \in Worker : Retire(w)
    BY <1>3
  <2>2. PICK S \in SUBSET {a \in inflight : a.worker = w /\ a.stage = "handler"
                                            /\ a.job \in Blocking} :
                runaway' = runaway \cup {ClaimOf(a) : a \in S}
    BY <2>1 DEF Retire
  <2> QED BY <1>1, <2>2
<1>4. CASE runaway' \subseteq runaway
  BY <1>4
<1>5. CASE AttemptStep
  <2>1. ASSUME NEW a \in inflight, TryFinalize(a) PROVE UNCHANGED runaway
    BY <2>1
       DEF TryFinalize, FinalizeSuccess, FinalizeErrored, FinalizeCancelled,
           FinalizeUnhandled, FinalizeSuperseded, FinishAttempt, RetryAttempt,
           RequeueShutdown, history
  <2>2. ASSUME NEW a \in inflight,
               \/ Process(a) \/ PollAbort(a) \/ RequestAbort(a)
               \/ DrainOnShutdown(a) \/ RereadRefusal(a) \/ FinishAbortedFallback(a) \/ GiveUp(a)
        PROVE  UNCHANGED runaway
    BY <2>2 DEF Process, PollAbort, RequestAbort, DrainOnShutdown, RereadRefusal,
                FinishAbortedFallback, FinishAttempt, GiveUp, history
  <2>3. ASSUME NEW a \in inflight, NEW status \in Terminal,
               ConsumerFinish(a, status) \/ ConsumerRetry(a) \/ DropAttempt(a)
        PROVE  UNCHANGED runaway
    BY <2>3 DEF ConsumerFinish, ConsumerRetry, DropAttempt, history
  <2>4. "failed" \in Terminal
    BY DEF Terminal
  <2>5. PICK a \in inflight :
          \/ \E end \in End : HandlerEnds(a, end) \/ HandlerCancelled(a)
          \/ TryFinalize(a)
          \/ \/ Process(a) \/ PollAbort(a) \/ RequestAbort(a)
             \/ DrainOnShutdown(a) \/ RereadRefusal(a) \/ FinishAbortedFallback(a) \/ GiveUp(a)
          \/ \E status \in Terminal :
                ConsumerFinish(a, status) \/ ConsumerRetry(a) \/ DropAttempt(a)
    <3>1. "none" \in End
      BY DEF End
    <3> QED BY <1>5, <2>4, <3>1 DEF AttemptStep
  <2> QED BY <1>2, <1>4, <2>1, <2>2, <2>3, <2>5
<1>6. CASE ProcessStep
  BY <1>3, <1>4, <1>6
     DEF ProcessStep, WorkerHeartbeat, ConsumerHeartbeat, BeginShutdown,
         LateHeartbeat, StopWorkerIntake, FetcherStops, Crash, Dequeue,
         DequeueLost, CommitLands, CommitNeverLands, history
<1>7. CASE Tick \/ OperatorStep \/ ResolverStep \/ UNCHANGED vars
  BY <1>4, <1>7
     DEF Tick, OperatorStep, Enqueue, AbortJob, PurgeQueuedJobs,
         RetryJobOccurrence, ResolverStep, ResolveUnacknowledged,
         ResolveDropped, history, vars
<1>8. CASE SweeperStep \/ \E c \in runaway : RunawayReturns(c)
  BY <1>4, <1>8
     DEF SweeperStep, SweepExpiredJobs, SweepWorkerLeases, SweepScan, SweepMark,
         SweepRetry, SweepAbort, SweepFails, RunawayReturns, history
<1> QED BY <1>5, <1>6, <1>7, <1>8 DEF Next

LEMMA RunawaysHold == Spec => [](runaway \subseteq ClaimType)
<1>1. Init => runaway \subseteq ClaimType
  BY DEF Init
<1>2. IInv /\ runaway \subseteq ClaimType /\ [Next]_vars
          => (runaway \subseteq ClaimType)'
  BY RunawaysOK
<1> QED BY <1>1, <1>2, InvHolds, PTL DEF Spec

\* Every table, transaction, resolver and sweep pass keeps its type: no claim,
\* refund or manual retry takes a counter out of the range of the column.
THEOREM TypeCorrect == Spec => []TypeOK
  BY InvHolds, RunawaysHold, InvImplies, PTL

\* No interleaving of the guarded statements writes a row that the CHECK
\* constraints of ironqueue.jobs would refuse.
THEOREM SchemaSafe == Spec => []SchemaChecks
  BY InvHolds, InvImplies, PTL

\* The claim of DEQUEUE_CLAIM_SQL hands an attempt number out once, however
\* often the row is refunded, recovered or resolved in between.
THEOREM NumbersUnique == Spec => []UniqueClaim
  BY InvHolds, InvImplies, PTL

=============================================================================
