--------------------------- MODULE ProtocolProofs ---------------------------
(***************************************************************************)
(* For every set of jobs, workers, consumers and sweepers, every budget,   *)
(* key, delay and timeout: an owner that keeps its lease keeps its row,    *)
(* handlers exclude each other, a complete row was earned, no row is       *)
(* forgotten, closed intake stays closed, and the tables implement the     *)
(* life of a job.                                                          *)
(*                                                                         *)
(* The invariant says what nobody may take from whom.  A row of an attempt *)
(* that its owner still works on, and whose lease has time left, stays     *)
(* under the attempt (StaysWith); a resolver holds no claim of an attempt  *)
(* unless the claim never landed (Separate), and whatever it holds has     *)
(* been claimed, never will be, or waits under the locks of an open        *)
(* transaction (Undoable); what an attempt remembers of its row is still   *)
(* so when it acts on it (Remembered).  Every statement is then a kind of  *)
(* move of single rows (RowMove), each part of the invariant is kept by    *)
(* such moves under a side condition, and an action owes the conditions    *)
(* only.  The moves are also what the refinement maps to steps of a life.  *)
(***************************************************************************)
EXTENDS AttemptProofs

-----------------------------------------------------------------------------
(***************************************************************************)
(* The invariant                                                           *)
(***************************************************************************)

\* The number of the claim has been handed out, for good.
Used(c) ==
    \/ row[c.job].status = "gone"
    \/ row[c.job].status # "unborn" /\ c.n <= row[c.job].attempts

\* A row that waits bears no marker of an earlier attempt.
Unmarked == \A j \in Job : row[j].status = "queued" => row[j].result = "none"

\* Whoever has not stalled has time left on its lease, and a lease if it has
\* attempts.
Leased ==
    /\ \A w \in Worker :
         /\ proc[w] = "gone" => w \in stalled
         /\ w \notin stalled /\ lease[w].present => lease[w].left >= 1
    /\ \A a \in inflight : a.worker \notin stalled => lease[a.worker].present

\* The claims a resolver may undo: they never landed, or were used up, or are
\* still under the locks of their transaction.
Undoable ==
    /\ \A b \in unacked :
         /\ \A c, d \in b : c.worker = d.worker /\ (c.job = d.job => c = d)
         /\ \A c \in b : \/ c \in unlanded
                         \/ Used(c)
                         \/ /\ c.job \in tx[c.worker].jobs
                            /\ c.n = row[c.job].attempts + 1
    /\ \A c \in dropped : Used(c)

\* A resolver's claim is nobody's attempt, unless it never landed.
Separate ==
    \A a \in inflight :
        /\ ClaimOf(a) \notin dropped
        /\ ClaimOf(a) \in UNION unacked => ClaimOf(a) \in unlanded

\* The row of an attempt whose owner is alive stays with it; only a timed job
\* without a key may be settled behind its back.
StaysWith(a) ==
    \/ /\ Holds(ClaimOf(a))
       /\ a.job \notin TimedJob => ~Swept(row[a.job])
    \/ /\ a.job \in TimedJob /\ KeyOf[a.job] = NoKey
       /\ row[a.job].status \in Terminal \cup {"gone"}

RowKept == \A a \in inflight : Undisturbed(a) => StaysWith(a)

OneEach ==
    \A a, b \in inflight :
        Undisturbed(a) /\ Undisturbed(b) /\ a.job = b.job => a = b

KeysUnique ==
    \A j, k \in Job :
        /\ KeyOf[j] = KeyOf[k] /\ KeyOf[j] # NoKey
        /\ row[j].status \in Live /\ row[k].status \in Live
        => j = k

Succeeded ==
    \A a \in inflight : a.end = "success" => <<a.job, a.n>> \in succeeded

\* What an attempt remembers of its row, and its worker, is still so; and it
\* has not ended before its handler has.
RememberedFor(a) ==
    /\ a.reason = "superseded" \/ a.polled = "superseded" => ~Holds(ClaimOf(a))
    /\ a.reason = "swept" \/ a.polled = "swept" \/ a.stage = "reread" =>
           ~(Holds(ClaimOf(a)) /\ row[a.job].status = "running")
    /\ a.retryable /\ Holds(ClaimOf(a)) => Retryable(row[a.job])
    /\ a.end = "cancelled" /\ a.reason = "none" => proc[a.worker] # "up"
    /\ a.stage \in {"buffered", "handler"} => a.end = "none"

Remembered == \A a \in inflight : RememberedFor(a)

\* The claims of a transaction whose client is gone are a resolver's.
Covered ==
    \A w \in Worker :
        proc[w] = "up" => ClaimsOf(w, tx[w].jobs) \subseteq UNION unacked

\* Somebody answers for the claim: an attempt, a resolver, or the shutdown of
\* its worker.
Known(c) ==
    \/ proc[c.worker] # "up"
    \/ \E a \in inflight : ClaimOf(a) = c
    \/ c \in dropped \cup UNION unacked

AllKnown == \A c \in ClaimType : Holds(c) => Known(c)

PInv ==
    /\ Unmarked
    /\ Leased
    /\ Undoable
    /\ Separate
    /\ RowKept
    /\ OneEach
    /\ KeysUnique
    /\ Succeeded
    /\ Remembered
    /\ Covered
    /\ AllKnown
    /\ CompleteMeansSucceeded

-----------------------------------------------------------------------------
(***************************************************************************)
(* What a statement may do to a row                                        *)
(***************************************************************************)

\* The row stays where it is in its life; ages and waits may change.
Same(r, s) ==
    /\ s.status = r.status /\ s.attempts = r.attempts /\ s.max = r.max
    /\ s.owner = r.owner /\ s.error = r.error /\ s.result = r.result

Born(r, s) ==
    r.status = "unborn" /\ s.status = "queued" /\ s.result = "none"

Taken(r, s) ==
    /\ r.status = "queued" /\ s.status = "running"
    /\ s.attempts = r.attempts + 1 /\ s.result = r.result

GivenBack(r, s) ==
    /\ r.status = "running" \/ (r.status = "aborting" /\ Swept(r))
    /\ s.status = "queued" /\ s.attempts = r.attempts /\ s.result = "none"

Over(r, s) ==
    /\ r.status \in ClaimedStatus
    /\ \/ /\ s.status \in Terminal /\ s.attempts = r.attempts
          /\ r.status = "aborting" /\ ~Swept(r) => s.status = "aborted"
       \/ s = NoRow("gone")

Asked(r, s) ==
    /\ \/ r.status = "queued" /\ s.status = "aborted"
       \/ /\ r.status = "running" \/ (r.status = "aborting" /\ Swept(r))
          /\ s.status = "aborting"
    /\ s.attempts = r.attempts /\ s.max = r.max /\ s.owner = r.owner
    /\ s.error = "user" /\ s.result = "none"

MarkedFrom(r, s) ==
    /\ r.status = "running" /\ s.status = "aborting" /\ Swept(s)
    /\ s.attempts = r.attempts /\ s.max = r.max /\ s.owner = r.owner

Deleted(r, s) == r.status \in Terminal \cup {"queued"} /\ s = NoRow("gone")

RowMove(r, s) ==
    \/ Same(r, s) \/ Born(r, s) \/ Taken(r, s) \/ GivenBack(r, s)
    \/ Over(r, s) \/ Asked(r, s) \/ MarkedFrom(r, s) \/ Deleted(r, s)

Moves == \A j \in Job : RowMove(row[j], row'[j])

-----------------------------------------------------------------------------
(***************************************************************************)
(* The statements, as such moves                                           *)
(***************************************************************************)

LEMMA FinishRowMoves ==
    ASSUME NEW j \in Job, NEW r \in Sound, r.status \in ClaimedStatus,
           NEW status \in Terminal, NEW error \in ErrorText,
           NEW result \in ResultValue,
           r.status = "aborting" /\ ~Swept(r) => status = "aborted"
    PROVE  LET s == FinishRow(j, r, status, error, result)
           IN  /\ Over(r, s)
               /\ s.status = "complete" => status = "complete"
               /\ s.status \in Terminal => s.attempts = r.attempts
<1> DEFINE f == [ r EXCEPT !.status = status, !.error = error,
                           !.result = result, !.started = 0, !.touched = 0 ]
<1>1. f.attempts = r.attempts /\ f.status = status
  BY RowFields DEF RowType
<1>2. NoRow("gone").status = "gone"
  BY DEF NoRow
<1> HIDE DEF f
<1>3. \/ FinishRow(j, r, status, error, result) = f
      \/ FinishRow(j, r, status, error, result) = NoRow("gone")
  BY DEF FinishRow, f
<1> QED BY <1>1, <1>2, <1>3 DEF Over, Terminal

LEMMA FinishedMoves ==
    ASSUME NEW j \in Job, NEW r \in Sound, NEW w, NEW n, NEW status \in Terminal,
           FinishAllowed(r, w, n, status), NEW error \in ErrorText \cup {"keep"},
           status = "complete" => error \in ErrorText
    PROVE  LET s == Finished(j, r, status, error)
           IN  /\ Over(r, s)
               /\ s.status = "complete" => status = "complete"
               /\ s.status \in Terminal => s.attempts = r.attempts
<1> DEFINE e == IF status = "complete" THEN error ELSE Coalesce(error, r.error)
           v == IF status = "complete" THEN "value" ELSE "none"
<1>1. /\ r.status \in ClaimedStatus
      /\ r.status = "aborting" /\ ~Swept(r) => status = "aborted"
  BY DEF FinishAllowed, ClaimedStatus
<1>2. e \in ErrorText /\ v \in ResultValue
  BY RowFields DEF Coalesce, ResultValue
<1> HIDE DEF e, v
<1>3. LET s == FinishRow(j, r, status, e, v)
      IN  /\ Over(r, s)
          /\ s.status = "complete" => status = "complete"
          /\ s.status \in Terminal => s.attempts = r.attempts
  BY <1>1, <1>2, FinishRowMoves
<1> QED BY <1>3 DEF Finished, e, v

LEMMA RequeuedMoves ==
    ASSUME NEW r \in Sound, NEW w, NEW n, NEW running \in BOOLEAN,
           NEW refund \in BOOLEAN, RequeueAllowed(r, w, n, running, refund),
           NEW error, NEW delay
    PROVE  GivenBack(r, Requeued(r, error, delay, refund))
<1> DEFINE s == Requeued(r, error, delay, refund)
<1>1. s.status = "queued" /\ s.attempts = r.attempts /\ s.result = "none"
  BY RowFields DEF Requeued, RowType
<1> HIDE DEF s
<1> QED BY <1>1 DEF GivenBack, RequeueAllowed, s

LEMMA AbandonedMoves ==
    ASSUME NEW r \in Sound, r.status = "aborting", Swept(r)
    PROVE  GivenBack(r, Requeued(r, "keep", RetryDelay, FALSE))
<1> DEFINE s == Requeued(r, "keep", RetryDelay, FALSE)
<1>1. s.status = "queued" /\ s.attempts = r.attempts /\ s.result = "none"
  BY RowFields DEF Requeued, RowType
<1> HIDE DEF s
<1> QED BY <1>1 DEF GivenBack, s

LEMMA AbortMoves ==
    ASSUME NEW j \in Job, NEW r \in Sound, r.status \in ClaimedStatus
    PROVE  /\ Over(r, AbortedUnsettled(j, r))
           /\ Over(r, AbortedAbandoned(j, r))
           /\ AbortedUnsettled(j, r).status # "complete"
           /\ AbortedAbandoned(j, r).status # "complete"
<1>1. /\ r.error \in ErrorText /\ "other" \in ErrorText
      /\ "none" \in ResultValue /\ "aborted" \in Terminal
  BY RowFields DEF ErrorText, ResultValue, Terminal
<1>2. LET s == FinishRow(j, r, "aborted", r.error, "none")
      IN  Over(r, s) /\ s.status # "complete"
  BY <1>1, FinishRowMoves
<1>3. LET s == FinishRow(j, r, "aborted", "other", "none")
      IN  Over(r, s) /\ s.status # "complete"
  BY <1>1, FinishRowMoves
<1> QED BY <1>2, <1>3 DEF AbortedUnsettled, AbortedAbandoned

LEMMA AbortRequestedMoves ==
    ASSUME NEW r \in Sound, AbortAllowed(r)
    PROVE  Asked(r, AbortRequested(r))
<1> DEFINE s == AbortRequested(r)
<1>1. /\ s.status = IF r.status = "queued" THEN "aborted" ELSE "aborting"
      /\ s.attempts = r.attempts /\ s.max = r.max /\ s.owner = r.owner
      /\ s.error = "user" /\ s.result = "none"
  BY RowFields DEF AbortRequested, RowType
<1> HIDE DEF s
<1> QED BY <1>1 DEF Asked, AbortAllowed, s

LEMMA ClaimedMoves ==
    ASSUME NEW r \in Sound, r.status = "queued", NEW w \in Worker, NEW age
    PROVE  /\ Taken(r, Claimed(r, w, age))
           /\ Claimed(r, w, age).owner = w
           /\ Claimed(r, w, age).max = r.max
<1> DEFINE s == Claimed(r, w, age)
<1>1. /\ s.status = "running" /\ s.attempts = r.attempts + 1
      /\ s.owner = w /\ s.max = r.max /\ s.result = r.result
  BY RowFields DEF Claimed, RowType
<1> HIDE DEF s
<1> QED BY <1>1 DEF Taken, s

LEMMA MarkedMoves ==
    ASSUME NEW r \in Sound, r.status = "running"
    PROVE  MarkedFrom(r, Marked(r))
<1> DEFINE s == Marked(r)
<1>1. /\ s.status = "aborting" /\ s.error = "swept" /\ s.result = "marker"
      /\ s.attempts = r.attempts /\ s.max = r.max /\ s.owner = r.owner
  BY RowFields DEF Marked, RowType
<1> HIDE DEF s
<1> QED BY <1>1 DEF MarkedFrom, Swept, s

\* A resolver's write: nothing to a row that is not under its claim, and an
\* end of the attempt to one that is.
LEMMA ResolvedMoves ==
    ASSUME IInv, NEW c \in ClaimType, NEW delay, NEW refund \in BOOLEAN
    PROVE  LET r == row[c.job]
               s == Resolved(c, delay, refund)
           IN  /\ ~Holds(c) => s = r
               /\ Holds(c) => GivenBack(r, s) \/ Over(r, s)
               /\ Holds(c) => s.status # "complete"
<1> DEFINE r == row[c.job]
<1>1. c.job \in Job /\ r \in Sound
  BY DEF ClaimType, IInv
<1>2. AbortUnsettledAllowed(r, c.worker, c.n) <=> Holds(c)
  BY DEF AbortUnsettledAllowed, Holds
<1>3. RequeueAllowed(r, c.worker, c.n, TRUE, refund) => Holds(c)
  BY DEF RequeueAllowed, Holds
<1>4. CASE RequeueAllowed(r, c.worker, c.n, TRUE, refund)
  <2>1. GivenBack(r, Requeued(r, "other", delay, refund))
    BY <1>1, <1>4, RequeuedMoves
  <2>2. Resolved(c, delay, refund) = Requeued(r, "other", delay, refund)
    BY <1>4 DEF Resolved
  <2>3. Requeued(r, "other", delay, refund).status # "complete"
    BY <2>1 DEF GivenBack
  <2> QED BY <1>3, <1>4, <2>1, <2>2, <2>3
<1>5. CASE ~RequeueAllowed(r, c.worker, c.n, TRUE, refund) /\ Holds(c)
  <2>1. r.status \in ClaimedStatus
    BY <1>5 DEF Holds, ClaimedStatus
  <2>2. Resolved(c, delay, refund) = AbortedUnsettled(c.job, r)
    BY <1>2, <1>5 DEF Resolved
  <2> QED BY <1>1, <2>1, <2>2, <1>5, AbortMoves
<1>6. CASE ~RequeueAllowed(r, c.worker, c.n, TRUE, refund) /\ ~Holds(c)
  BY <1>2, <1>6 DEF Resolved
<1> QED BY <1>4, <1>5, <1>6

\* A tick, and the mark of a manual retry.
LEMMA AgedMoves ==
    ASSUME NEW r \in Sound, NEW x, NEW y
    PROVE  /\ Same(r, r)
           /\ Same(r, [r EXCEPT !.started = x, !.touched = y])
           /\ Same(r, [r EXCEPT !.wait = x])
           /\ Same(r, [r EXCEPT !.retried = x])
BY RowFields DEF Same, RowType

-----------------------------------------------------------------------------
(***************************************************************************)
(* What every step does to the rows                                        *)
(***************************************************************************)

LEMMA Unmoved ==
    ASSUME UNCHANGED row
    PROVE  Moves
  BY DEF Moves, RowMove, Same

LEMMA OneMoves ==
    ASSUME IInv, NEW j \in Job, NEW s, RowMove(row[j], s),
           row' = [row EXCEPT ![j] = s]
    PROVE  /\ Moves
           /\ row'[j] = s
           /\ \A k \in Job \ {j} : row'[k] = row[k]
<1>1. row'[j] = s /\ \A k \in Job \ {j} : row'[k] = row[k]
  BY DEF IInv
<1>2. ASSUME NEW k \in Job \ {j} PROVE RowMove(row[k], row'[k])
  BY <1>1 DEF RowMove, Same
<1> QED BY <1>1, <1>2 DEF Moves

LEMMA BatchMoves ==
    ASSUME \A j \in Job : row'[j] = row[j] \/ RowMove(row[j], row'[j])
    PROVE  Moves
  BY DEF Moves, RowMove, Same

\* insert_job
LEMMA Inserted ==
    ASSUME NEW attempts \in Nat, NEW max \in 0..Ceiling, attempts < max,
           NEW delay \in 0..WaitCap, NEW r, r.status = "unborn"
    PROVE  Born(r, NewRow(attempts, max, delay))
<1> DEFINE e == NoRow("queued")
           s == [e EXCEPT !.attempts = attempts, !.max = max, !.wait = delay]
<1>1. e \in RowType /\ e.status = "queued" /\ e.result = "none"
  BY CapsAreNat, CeilingAssumption
     DEF NoRow, RowType, Status, Live, ErrorText, ResultValue
<1> HIDE DEF e
<1>2. s.status = "queued" /\ s.result = "none"
  BY <1>1 DEF RowType
<1> HIDE DEF s
<1> QED BY <1>2 DEF Born, NewRow, s, e

LEMMA EnqueueMoves ==
    ASSUME IInv, NEW j \in Job, NEW delay \in 0..WaitCap, Enqueue(j, delay)
    PROVE  Moves /\ \A k \in Job \ {j} : row'[k] = row[k]
<1> DEFINE s == NewRow(0, MaxAttempts[j], delay)
<1>1. MaxAttempts[j] \in 0..Ceiling /\ 0 < MaxAttempts[j]
  BY CeilingAssumption
<1>2. row[j].status = "unborn" /\ row' = [row EXCEPT ![j] = s]
  BY DEF Enqueue
<1>3. RowMove(row[j], s)
  BY <1>1, <1>2, Inserted DEF RowMove
<1> QED BY <1>2, <1>3, OneMoves

LEMMA RetryJobOccurrenceMoves ==
    ASSUME IInv, NEW j \in Job, NEW k \in Job, RetryJobOccurrence(j, k)
    PROVE  /\ Moves
           /\ Same(row[j], row'[j])
           /\ \A i \in Job \ {j, k} : row'[i] = row[i]
<1> DEFINE n == row[j].attempts
           s == NewRow(n, n + 1, 0)
           t == [row[j] EXCEPT !.retried = TRUE]
<1>1. /\ row[j] \in Sound /\ row[j].status \in Terminal
      /\ row[k].status = "unborn" /\ n < Ceiling
      /\ row' = [row EXCEPT ![j].retried = TRUE, ![k] = s]
  BY DEF RetryJobOccurrence, FreshOccurrence, IInv
<1>2. n \in Nat /\ n + 1 \in 0..Ceiling /\ n < n + 1
  BY <1>1, RowFields, CeilingAssumption
<1>3. Born(row[k], s)
  BY <1>1, <1>2, Inserted, Zeros
<1>4. Same(row[j], t)
  BY <1>1, AgedMoves
<1>5. j # k
  BY <1>1 DEF Terminal
<1>6. row' = [row EXCEPT ![j] = t, ![k] = s]
  BY <1>1, <1>5 DEF IInv
<1> HIDE DEF s, t
<1>7. row'[j] = t /\ row'[k] = s /\ \A i \in Job \ {j, k} : row'[i] = row[i]
  BY <1>5, <1>6 DEF IInv
<1>8. \A i \in Job : row'[i] = row[i] \/ RowMove(row[i], row'[i])
  BY <1>3, <1>4, <1>7 DEF RowMove
<1> QED BY <1>4, <1>7, <1>8, BatchMoves

LEMMA DeletedMoves ==
    ASSUME NEW S \in SUBSET Job,
           \A j \in S : row[j].status \in Terminal \cup {"queued"},
           row' = [j \in Job |-> IF j \in S THEN NoRow("gone") ELSE row[j]]
    PROVE  Moves
<1>1. \A j \in Job : row'[j] = row[j] \/ RowMove(row[j], row'[j])
  BY DEF RowMove, Deleted
<1> QED BY <1>1, BatchMoves

LEMMA ClaimRowsMoves ==
    ASSUME IInv, NEW w \in Worker, NEW S \in SUBSET Job, NEW age,
           \A j \in S : row[j].status = "queued", ClaimRows(w, S, age)
    PROVE  /\ Moves
           /\ \A j \in Job \ S : row'[j] = row[j]
           /\ \A j \in S : /\ Taken(row[j], row'[j])
                           /\ row'[j].owner = w /\ row'[j].max = row[j].max
<1>1. \A j \in Job \ S : row'[j] = row[j]
  BY DEF ClaimRows
<1>2. ASSUME NEW j \in S
      PROVE  /\ Taken(row[j], row'[j])
             /\ row'[j].owner = w /\ row'[j].max = row[j].max
  <2>1. row[j] \in Sound /\ row[j].status = "queued"
    BY DEF IInv
  <2>2. row'[j] = Claimed(row[j], w, age)
    BY DEF ClaimRows
  <2> QED BY <2>1, <2>2, ClaimedMoves
<1>3. \A j \in Job : row'[j] = row[j] \/ RowMove(row[j], row'[j])
  BY <1>1, <1>2 DEF RowMove
<1> QED BY <1>1, <1>2, <1>3, BatchMoves

LEMMA TickMoves ==
    ASSUME IInv, Tick
    PROVE  \A j \in Job : Same(row[j], row'[j])
<1> SUFFICES ASSUME NEW j \in Job PROVE Same(row[j], row'[j])
  OBVIOUS
<1> DEFINE r == row[j]
           started == IF j \in TimedJob THEN Aged(r.started) ELSE r.started
           touched == Aged(r.touched)
           wait == IF r.wait > 0 THEN r.wait - 1 ELSE 0
<1>1. r \in Sound
  BY DEF IInv
<1>2. row'[j] = IF r.status \in {"running", "aborting"}
                THEN [r EXCEPT !.started = started, !.touched = touched]
                ELSE [r EXCEPT !.wait = wait]
  BY DEF Tick
<1> HIDE DEF r, started, touched, wait
<1>3. /\ Same(r, [r EXCEPT !.started = started, !.touched = touched])
      /\ Same(r, [r EXCEPT !.wait = wait])
  BY <1>1, AgedMoves, Zenon
<1> QED BY <1>2, <1>3 DEF r

-----------------------------------------------------------------------------
(***************************************************************************)
(* What stays true of a claim whose number is out, whatever moves the rows *)
(***************************************************************************)

LEMMA ClaimOfAttempt ==
    ASSUME IInv, NEW a \in inflight
    PROVE  /\ ClaimOf(a) \in ClaimType /\ Used(ClaimOf(a))
           /\ ClaimOf(a).job = a.job /\ ClaimOf(a).n = a.n
           /\ ClaimOf(a).worker = a.worker
  BY AttemptFields DEF IInv, NumbersClaimed, Used, ClaimOf

LEMMA SameClaim ==
    ASSUME IInv, NEW a \in inflight, NEW b \in inflight, ClaimOf(a) = ClaimOf(b)
    PROVE  a = b
  BY ClaimOfAttempt DEF IInv, UniqueClaim

\* A row cannot come under a claim whose number is out.
LEMMA HeldBefore ==
    ASSUME NEW r \in Sound, NEW s, RowMove(r, s), NEW w, NEW n \in Nat,
           s.status \in ClaimedStatus, Owns(s, w, n),
           r.status = "gone" \/ (r.status # "unborn" /\ n <= r.attempts)
    PROVE  /\ r.status \in ClaimedStatus /\ Owns(r, w, n)
           /\ s.status = "running" => r.status = "running"
           /\ s.max = r.max /\ s.attempts = r.attempts
<1>1. r.attempts \in Nat
  BY RowFields
<1>2. "gone" \notin ClaimedStatus /\ "queued" \notin ClaimedStatus
      /\ "running" \in ClaimedStatus /\ "aborting" \in ClaimedStatus
      /\ \A x \in Terminal : x \notin ClaimedStatus
  BY DEF ClaimedStatus, Terminal
<1>3. NoRow("gone").status = "gone"
  BY DEF NoRow
<1>4. ~Born(r, s) /\ ~GivenBack(r, s) /\ ~Over(r, s) /\ ~Deleted(r, s)
  BY <1>2, <1>3 DEF Born, GivenBack, Over, Deleted
<1>5. ~Taken(r, s)
  BY <1>1 DEF Taken, Owns
<1>6. Same(r, s) \/ Asked(r, s) \/ MarkedFrom(r, s)
  BY <1>4, <1>5 DEF RowMove
<1>7. CASE Same(r, s)
  BY <1>7 DEF Same, Owns
<1>8. CASE Asked(r, s)
  BY <1>8 DEF Asked, Owns, ClaimedStatus
<1>9. CASE MarkedFrom(r, s)
  BY <1>2, <1>9 DEF MarkedFrom, Owns
<1> QED BY <1>6, <1>7, <1>8, <1>9

LEMMA UsedKept ==
    ASSUME IInv, Moves, NEW c \in ClaimType, Used(c)
    PROVE  /\ Used(c)'
           /\ Holds(c)' =>
                  /\ Holds(c)
                  /\ row'[c.job].status = "running"
                         => row[c.job].status = "running"
                  /\ Retryable(row[c.job]) => Retryable(row'[c.job])
<1> DEFINE r == row[c.job]
           s == row'[c.job]
<1>1. c.job \in Job /\ c.n \in Nat /\ r \in Sound /\ RowMove(r, s)
  BY CeilingAssumption DEF ClaimType, IInv, Moves
<1>2. r.attempts \in Nat
  BY <1>1, RowFields
<1>3. r.status = "gone" \/ (r.status # "unborn" /\ c.n <= r.attempts)
  BY DEF Used
<1>4. s.status = "gone" \/ (s.status # "unborn" /\ c.n <= s.attempts)
  <2>1. NoRow("gone").status = "gone"
    BY DEF NoRow
  <2>2. CASE Taken(r, s)
    BY <1>1, <1>2, <1>3, <2>2 DEF Taken
  <2>3. CASE Same(r, s) \/ Asked(r, s) \/ MarkedFrom(r, s) \/ GivenBack(r, s)
    BY <1>3, <2>3 DEF Same, Asked, MarkedFrom, GivenBack
  <2>4. CASE Over(r, s)
    BY <1>3, <2>1, <2>4 DEF Over, Terminal, ClaimedStatus
  <2>5. CASE Deleted(r, s) \/ Born(r, s)
    BY <1>3, <2>1, <2>5 DEF Deleted, Born
  <2> QED BY <1>1, <2>2, <2>3, <2>4, <2>5 DEF RowMove
<1>5. ASSUME Holds(c)'
      PROVE  /\ Holds(c)
             /\ s.status = "running" => r.status = "running"
             /\ Retryable(r) => Retryable(s)
  <2>1. s.status \in ClaimedStatus /\ Owns(s, c.worker, c.n)
    BY <1>5 DEF Holds, ClaimedStatus
  <2>2. /\ r.status \in ClaimedStatus /\ Owns(r, c.worker, c.n)
        /\ s.status = "running" => r.status = "running"
        /\ s.max = r.max /\ s.attempts = r.attempts
    BY <1>1, <1>3, <2>1, HeldBefore
  <2> QED BY <2>2 DEF Holds, ClaimedStatus, Retryable
<1> QED BY <1>4, <1>5 DEF Used

-----------------------------------------------------------------------------
(***************************************************************************)
(* The parts of the invariant, each under what it needs of a step          *)
(***************************************************************************)

LEMMA UnmarkedKept ==
    ASSUME Unmarked, Moves
    PROVE  Unmarked'
<1> SUFFICES ASSUME NEW j \in Job, row'[j].status = "queued"
             PROVE  row'[j].result = "none"
  BY DEF Unmarked
<1>1. RowMove(row[j], row'[j]) /\ (row[j].status = "queued" => row[j].result = "none")
  BY DEF Moves, Unmarked
<1>2. NoRow("gone").status = "gone"
  BY DEF NoRow
<1> QED BY <1>1, <1>2 DEF RowMove, Same, Born, Taken, GivenBack, Over, Asked,
           MarkedFrom, Deleted, Terminal

\* A row that is not born in the step was live already.
LEMMA LiveBefore ==
    ASSUME Moves, NEW j \in Job, row'[j].status \in Live,
           row[j].status = "unborn" => row'[j].status = "unborn"
    PROVE  row[j].status \in Live
<1>1. RowMove(row[j], row'[j])
  BY DEF Moves
<1>2. NoRow("gone").status = "gone"
  BY DEF NoRow
<1> QED BY <1>1, <1>2 DEF RowMove, Same, Born, Taken, GivenBack, Over, Asked,
           MarkedFrom, Deleted, Terminal, Live, ClaimedStatus

LEMMA KeysKept ==
    ASSUME KeysUnique, Moves,
           \A j \in Job : row[j].status = "unborn" => row'[j].status = "unborn"
    PROVE  KeysUnique'
  BY LiveBefore DEF KeysUnique

LEMMA SucceededKept ==
    ASSUME Succeeded, inflight' \subseteq inflight, succeeded \subseteq succeeded'
    PROVE  Succeeded'
  BY DEF Succeeded

LEMMA CompleteKept ==
    ASSUME CompleteMeansSucceeded, Moves, succeeded \subseteq succeeded',
           \A j \in Job : row'[j].status = "complete" =>
               \/ row[j].status = "complete"
               \/ <<j, row'[j].attempts>> \in succeeded'
    PROVE  CompleteMeansSucceeded'
<1> SUFFICES ASSUME NEW j \in Job, row'[j].status = "complete",
                    row[j].status = "complete"
             PROVE  <<j, row'[j].attempts>> \in succeeded'
  BY DEF CompleteMeansSucceeded
<1>1. RowMove(row[j], row'[j]) /\ NoRow("gone").status = "gone"
  BY DEF Moves, NoRow
<1>2. row'[j].attempts = row[j].attempts
  BY <1>1 DEF RowMove, Same, Born, Taken, GivenBack, Over, Asked, MarkedFrom,
              Deleted, ClaimedStatus
<1> QED BY <1>2 DEF CompleteMeansSucceeded

\* No process is started again.
ProcsEnd == \A w \in Worker : proc'[w] = "up" => proc[w] = "up"

LEMMA RememberedStays ==
    ASSUME IInv, Moves, ProcsEnd, NEW a \in inflight, RememberedFor(a)
    PROVE  RememberedFor(a)'
<1> DEFINE c == ClaimOf(a)
<1>1. c \in ClaimType /\ Used(c) /\ c.job = a.job /\ a.worker \in Worker
  BY ClaimOfAttempt, AttemptFields
<1>2. Holds(c)' => /\ Holds(c)
                   /\ row'[c.job].status = "running"
                          => row[c.job].status = "running"
                   /\ Retryable(row[c.job]) => Retryable(row'[c.job])
  BY <1>1, UsedKept
<1>3. proc'[a.worker] = "up" => proc[a.worker] = "up"
  BY <1>1 DEF ProcsEnd
<1> QED BY <1>1, <1>2, <1>3 DEF RememberedFor

LEMMA RememberedKept ==
    ASSUME IInv, Moves, ProcsEnd, Remembered, inflight' \subseteq inflight
    PROVE  Remembered'
  BY RememberedStays DEF Remembered

\* The locks: a claim transaction keeps its rows as they are.
SameLocks == \A w \in Worker : tx'[w].jobs = tx[w].jobs

LEMMA LockedKept ==
    ASSUME IInv, IInv', Moves, NEW w \in Worker, NEW j \in tx[w].jobs,
           j \in tx'[w].jobs
    PROVE  j \in Job /\ row'[j].attempts = row[j].attempts
<1>1. j \in Job /\ row[j].status = "queued" /\ row'[j].status = "queued"
  BY DEF IInv, LocksHeld, Locked, RestOK
<1>2. RowMove(row[j], row'[j]) /\ NoRow("gone").status = "gone"
  BY <1>1 DEF Moves, NoRow
<1> QED BY <1>1, <1>2 DEF RowMove, Same, Born, Taken, GivenBack, Over, Asked,
           MarkedFrom, Deleted, Terminal, ClaimedStatus

\* A claim a resolver holds may still be undone.
MayUndo(c) ==
    \/ c \in unlanded
    \/ Used(c)
    \/ c.job \in tx[c.worker].jobs /\ c.n = row[c.job].attempts + 1

LEMMA MayUndoKept ==
    ASSUME IInv, IInv', Moves, NEW c \in ClaimType, MayUndo(c),
           c \in unlanded => c \in unlanded',
           c.job \in tx[c.worker].jobs => c.job \in tx'[c.worker].jobs
    PROVE  MayUndo(c)'
<1>1. CASE Used(c)
  BY <1>1, UsedKept DEF MayUndo
<1>2. CASE c.job \in tx[c.worker].jobs /\ c.n = row[c.job].attempts + 1
  <2>1. c.worker \in Worker
    BY DEF ClaimType
  <2>2. row'[c.job].attempts = row[c.job].attempts
    BY <1>2, <2>1, LockedKept
  <2> QED BY <1>2, <2>2 DEF MayUndo
<1> QED BY <1>1, <1>2 DEF MayUndo

\* A batch names each of its jobs once, and one worker.
Coherent(b) ==
    \A c, d \in b : c.worker = d.worker /\ (c.job = d.job => c = d)

LEMMA UndoableParts ==
    Undoable <=> /\ \A b \in unacked : Coherent(b) /\ \A c \in b : MayUndo(c)
                 /\ \A c \in dropped : Used(c)
  BY DEF Undoable, Coherent, MayUndo

\* A resolver keeps the marker of a claim that never landed as long as it has
\* the claim.
UnlandedKept ==
    \A c \in unlanded :
        \/ c \in unlanded'
        \/ c \notin UNION unacked' /\ \A a \in inflight' : ClaimOf(a) # c

LEMMA UndoableKept ==
    ASSUME IInv, IInv', Moves, SameLocks, Undoable, UnlandedKept,
           unacked' \subseteq unacked,
           \A c \in dropped' : c \in dropped \/ (c \in ClaimType /\ Used(c))
    PROVE  Undoable'
<1>1. ASSUME NEW b \in unacked' PROVE Coherent(b)' /\ \A c \in b : MayUndo(c)'
  <2>1. Coherent(b) /\ b \subseteq ClaimType /\ \A c \in b : MayUndo(c)
    BY UndoableParts DEF IInv, RestOK
  <2>2. ASSUME NEW c \in b PROVE MayUndo(c)'
    <3>1. c \in ClaimType /\ MayUndo(c) /\ c.worker \in Worker
      BY <2>1 DEF ClaimType
    <3>2. c \in unlanded => c \in unlanded'
      BY DEF UnlandedKept
    <3>3. tx'[c.worker].jobs = tx[c.worker].jobs
      BY <3>1 DEF SameLocks
    <3> QED BY <3>1, <3>2, <3>3, MayUndoKept
  <2> QED BY <2>1, <2>2 DEF Coherent
<1>2. ASSUME NEW c \in dropped' PROVE Used(c)'
  <2>1. c \in ClaimType /\ Used(c)
    BY DEF Undoable, IInv, RestOK
  <2> QED BY <2>1, UsedKept
<1>3. /\ \A b \in unacked' : Coherent(b)' /\ \A c \in b : MayUndo(c)'
      /\ \A c \in dropped' : Used(c)'
  BY <1>1, <1>2
<1> QED BY <1>3 DEF Undoable, Coherent, MayUndo

LEMMA CoveredKept ==
    ASSUME IInv, IInv', Moves, SameLocks, ProcsEnd, Covered,
           \A w \in Worker : proc'[w] = "up" =>
               \A c \in UNION unacked :
                   c.worker = w /\ c.job \in tx[w].jobs => c \in UNION unacked'
    PROVE  Covered'
<1> SUFFICES ASSUME NEW w \in Worker, proc'[w] = "up", NEW j \in tx'[w].jobs
             PROVE  [worker |-> w, job |-> j, n |-> row'[j].attempts + 1]
                        \in UNION unacked'
  BY DEF Covered, ClaimsOf
<1> DEFINE c == [worker |-> w, job |-> j, n |-> row[j].attempts + 1]
<1>1. proc[w] = "up" /\ j \in tx[w].jobs
  BY DEF ProcsEnd, SameLocks
<1>2. row'[j].attempts = row[j].attempts
  BY <1>1, LockedKept
<1>3. c \in UNION unacked
  BY <1>1 DEF Covered, ClaimsOf
<1>4. c.worker = w /\ c.job = j
  OBVIOUS
<1> HIDE DEF c
<1>5. c \in UNION unacked'
  BY <1>1, <1>3, <1>4
<1> QED BY <1>2, <1>5 DEF c

\* No attempt is new.
Descends ==
    \A b \in inflight' : \E a \in inflight :
        /\ ClaimOf(b) = ClaimOf(a)
        /\ Undisturbed(b)' => Undisturbed(a)

LEMMA SeparateKept ==
    ASSUME IInv, Separate, Descends, UnlandedKept,
           unacked' \subseteq unacked, dropped' \subseteq dropped
    PROVE  Separate'
<1> SUFFICES ASSUME NEW b \in inflight'
             PROVE  /\ ClaimOf(b) \notin dropped'
                    /\ ClaimOf(b) \in UNION unacked' => ClaimOf(b) \in unlanded'
  BY DEF Separate, ClaimOf
<1>1. PICK a \in inflight : ClaimOf(b) = ClaimOf(a)
  BY DEF Descends
<1>2. /\ ClaimOf(a) \notin dropped
      /\ ClaimOf(a) \in UNION unacked => ClaimOf(a) \in unlanded
  BY DEF Separate
<1>3. ClaimOf(b) \in UNION unacked' => ClaimOf(b) \in unlanded
  BY <1>1, <1>2
<1>4. ClaimOf(b) \in unlanded /\ ClaimOf(b) \in UNION unacked'
          => ClaimOf(b) \in unlanded'
  BY DEF UnlandedKept
<1> QED BY <1>1, <1>2, <1>3, <1>4

LEMMA OneEachKept ==
    ASSUME IInv, IInv', OneEach, Descends
    PROVE  OneEach'
<1> SUFFICES ASSUME NEW x \in inflight', NEW y \in inflight', x.job = y.job,
                    Undisturbed(x)', Undisturbed(y)'
             PROVE  x = y
  BY DEF OneEach
<1>1. PICK a \in inflight : ClaimOf(x) = ClaimOf(a) /\ Undisturbed(a)
  BY DEF Descends
<1>2. PICK b \in inflight : ClaimOf(y) = ClaimOf(b) /\ Undisturbed(b)
  BY DEF Descends
<1>3. x.job = a.job /\ x.n = a.n /\ y.job = b.job /\ y.n = b.n
  BY <1>1, <1>2 DEF ClaimOf
<1>4. a = b
  BY <1>1, <1>2, <1>3 DEF OneEach
<1> QED BY <1>3, <1>4 DEF IInv, UniqueClaim

\* What may become of the row of an attempt whose owner is alive.
KeptMove(j, r, s) ==
    \/ Same(r, s)
    \/ Asked(r, s)
    \/ j \in TimedJob /\ MarkedFrom(r, s)
    \/ j \in TimedJob /\ KeyOf[j] = NoKey /\ Over(r, s)

Sheltered(a) ==
    /\ Undisturbed(a)
    /\ Holds(ClaimOf(a))
    /\ a.job \notin TimedJob => ~Swept(row[a.job])

Spares ==
    \A b \in inflight' : Undisturbed(b)' =>
        \E a \in inflight :
            /\ ClaimOf(b) = ClaimOf(a) /\ Undisturbed(a)
            /\ Sheltered(a) => KeptMove(a.job, row[a.job], row'[a.job])

LEMMA StaysWithKept ==
    ASSUME IInv, Moves, RowKept, NEW a \in inflight, Undisturbed(a),
           Sheltered(a) => KeptMove(a.job, row[a.job], row'[a.job]),
           NEW b, ClaimOf(b) = ClaimOf(a)
    PROVE  StaysWith(b)'
<1> SUFFICES
      \/ /\ Holds(ClaimOf(b))'
         /\ b.job \notin TimedJob => ~Swept(row'[b.job])
      \/ /\ b.job \in TimedJob /\ KeyOf[b.job] = NoKey
         /\ row'[b.job].status \in Terminal \cup {"gone"}
  BY DEF StaysWith, Holds, ClaimOf
<1>1. ClaimOf(b) = ClaimOf(a) /\ Undisturbed(a)
  OBVIOUS
<1>2. a.job = b.job /\ a.job \in Job /\ row[a.job] \in Sound
  BY <1>1, AttemptFields DEF ClaimOf
<1> DEFINE r == row[a.job]
           s == row'[a.job]
           c == ClaimOf(a)
<1>3. c.job = a.job /\ NoRow("gone").status = "gone"
  BY DEF ClaimOf, NoRow
<1>4. CASE Sheltered(a)
  <2>1. r.status \in ClaimedStatus /\ Owns(r, c.worker, c.n)
        /\ (a.job \notin TimedJob => ~Swept(r))
    BY <1>3, <1>4 DEF Sheltered, Holds, ClaimedStatus
  <2>2. CASE Same(r, s)
    <3>1. s.status \in ClaimedStatus /\ Owns(s, c.worker, c.n)
          /\ (a.job \notin TimedJob => ~Swept(s))
      BY <2>1, <2>2 DEF Same, Owns, Swept
    <3> QED BY <1>1, <1>2, <1>3, <3>1 DEF Holds, ClaimedStatus
  <2>3. CASE Asked(r, s)
    <3>1. s.status \in ClaimedStatus /\ Owns(s, c.worker, c.n) /\ ~Swept(s)
      BY <2>1, <2>3 DEF Asked, Owns, Swept, ClaimedStatus
    <3> QED BY <1>1, <1>2, <1>3, <3>1 DEF Holds, ClaimedStatus
  <2>4. CASE a.job \in TimedJob /\ MarkedFrom(r, s)
    <3>1. s.status \in ClaimedStatus /\ Owns(s, c.worker, c.n)
      BY <2>1, <2>4 DEF MarkedFrom, Owns, ClaimedStatus
    <3> QED BY <1>1, <1>2, <1>3, <2>4, <3>1 DEF Holds, ClaimedStatus
  <2>5. CASE a.job \in TimedJob /\ KeyOf[a.job] = NoKey /\ Over(r, s)
    BY <1>2, <1>3, <2>5 DEF Over
  <2> QED BY <1>1, <1>4, <2>2, <2>3, <2>4, <2>5 DEF KeptMove
<1>5. CASE ~Sheltered(a)
  <2>1. /\ a.job \in TimedJob /\ KeyOf[a.job] = NoKey
        /\ r.status \in Terminal \cup {"gone"}
    BY <1>1, <1>5 DEF RowKept, StaysWith, Sheltered
  <2>2. RowMove(r, s)
    BY <1>2 DEF Moves
  <2>3. s.status \in Terminal \cup {"gone"}
    BY <1>3, <2>1, <2>2 DEF RowMove, Same, Born, Taken, GivenBack, Over, Asked,
       MarkedFrom, Deleted, Terminal, ClaimedStatus
  <2> QED BY <1>2, <2>1, <2>3
<1> QED BY <1>4, <1>5

LEMMA RowKeptKept ==
    ASSUME IInv, Moves, RowKept, Spares
    PROVE  RowKept'
<1> SUFFICES ASSUME NEW b \in inflight', Undisturbed(b)' PROVE StaysWith(b)'
  BY DEF RowKept
<1>1. PICK a \in inflight :
        /\ ClaimOf(b) = ClaimOf(a) /\ Undisturbed(a)
        /\ Sheltered(a) => KeptMove(a.job, row[a.job], row'[a.job])
  BY DEF Spares
<1> QED BY <1>1, StaysWithKept

\* Whoever answered for a claim that is still held does so after the step, or
\* handed it on.
Answers ==
    \A c \in ClaimType : Holds(c) /\ Known(c) /\ Holds(c)' => Known(c)'

LEMMA KnownKept ==
    ASSUME IInv, IInv', Moves, AllKnown, Answers,
           \A j \in Job : ~Taken(row[j], row'[j])
    PROVE  AllKnown'
<1> SUFFICES ASSUME NEW c \in ClaimType, Holds(c)' PROVE Known(c)'
  BY DEF AllKnown
<1> DEFINE r == row[c.job]
           s == row'[c.job]
<1>1. c.job \in Job /\ c.n \in Nat /\ RowMove(r, s) /\ NoRow("gone").status = "gone"
  BY CeilingAssumption DEF ClaimType, Moves, NoRow
<1>2. s.status \in ClaimedStatus /\ Owns(s, c.worker, c.n)
  BY DEF Holds, ClaimedStatus
<1>3. Same(r, s) \/ Asked(r, s) \/ MarkedFrom(r, s)
  BY <1>1, <1>2 DEF RowMove, Born, GivenBack, Over, Deleted, ClaimedStatus,
     Terminal
<1>4. r.status \in ClaimedStatus /\ Owns(r, c.worker, c.n)
  BY <1>2, <1>3 DEF Same, Asked, MarkedFrom, Owns, ClaimedStatus
<1>5. Holds(c)
  BY <1>4 DEF Holds, ClaimedStatus
<1> QED BY <1>5 DEF AllKnown, Answers

-----------------------------------------------------------------------------
(***************************************************************************)
(* Steps that begin no attempt                                             *)
(***************************************************************************)

\* No row is claimed, and none is completed.
Plain ==
    \A j \in Job : /\ ~Taken(row[j], row'[j])
                   /\ row'[j].status = "complete" => row[j].status = "complete"

Unborn == \A j \in Job : row[j].status = "unborn" => row'[j].status = "unborn"

Gentle ==
    \A a \in inflight : Sheltered(a) => KeptMove(a.job, row[a.job], row'[a.job])

\* A resolver gives up no claim of a transaction that is still open.
Backed ==
    \A w \in Worker : proc'[w] = "up" =>
        \A c \in UNION unacked :
            c.worker = w /\ c.job \in tx[w].jobs => c \in UNION unacked'

LEMMA SteadyOK ==
    ASSUME IInv, IInv', PInv, Moves, Plain, Gentle, KeysUnique', Leased',
           ProcsEnd, SameLocks, UnlandedKept, Backed, Answers,
           inflight' \subseteq inflight, unacked' \subseteq unacked,
           dropped' \subseteq dropped, stalled \subseteq stalled',
           succeeded \subseteq succeeded'
    PROVE  PInv'
<1>1. ASSUME NEW b \in inflight', Undisturbed(b)' PROVE Undisturbed(b)
  <2>1. ClaimOf(b) \in unlanded => ClaimOf(b) \in unlanded'
    BY DEF UnlandedKept
  <2> QED BY <1>1, <2>1 DEF Undisturbed, ClaimOf
<1>2. Descends
  BY <1>1 DEF Descends
<1>3. Spares
  BY <1>1 DEF Spares, Gentle
<1>4. Unmarked' /\ Undoable' /\ Separate' /\ Remembered' /\ Covered'
  BY <1>2, UnmarkedKept, UndoableKept, SeparateKept, RememberedKept, CoveredKept
     DEF PInv, Backed
<1>5. RowKept' /\ OneEach' /\ Succeeded'
  BY <1>2, <1>3, RowKeptKept, OneEachKept, SucceededKept DEF PInv
<1>6. AllKnown' /\ CompleteMeansSucceeded'
  BY KnownKept, CompleteKept DEF PInv, Plain
<1> QED BY <1>4, <1>5, <1>6 DEF PInv

\* A row that stays as it is suits every part.
LEMMA StillRows ==
    ASSUME IInv, \A j \in Job : Same(row[j], row'[j])
    PROVE  Moves /\ Plain /\ Gentle /\ Unborn
<1>1. Moves /\ Unborn
  BY DEF Moves, RowMove, Same, Unborn
<1>2. ASSUME NEW j \in Job PROVE ~Taken(row[j], row'[j])
  BY DEF Same, Taken
<1>3. Plain
  BY <1>2 DEF Plain, Same
<1>4. Gentle
  BY AttemptFields DEF Gentle, KeptMove
<1> QED BY <1>1, <1>3, <1>4

Others == <<proc, inflight, tx, unacked, dropped, stalled, unlanded, succeeded>>

\* A statement that writes rows and nothing else.
LEMMA RowsOnly ==
    ASSUME IInv, IInv', PInv, Moves, Plain, Gentle, KeysUnique',
           UNCHANGED <<lease, Others>>
    PROVE  PInv'
<1>1. Leased'
  BY DEF PInv, Leased, Others
<1>2. ProcsEnd /\ SameLocks /\ UnlandedKept /\ Backed
  BY DEF ProcsEnd, SameLocks, UnlandedKept, Backed, Others
<1>3. Answers
  BY DEF Answers, Known, Others
<1> QED BY <1>1, <1>2, <1>3, SteadyOK DEF Others

\* A step that leaves the rows and the attempts alone.
LEMMA LeasesOnly ==
    ASSUME IInv, IInv', PInv, Leased', ProcsEnd, stalled \subseteq stalled',
           UNCHANGED <<row, inflight, tx, unacked, dropped, unlanded, succeeded>>
    PROVE  PInv'
<1>1. \A j \in Job : Same(row[j], row'[j])
  BY DEF Same
<1>2. Moves /\ Plain /\ Gentle /\ Unborn
  BY <1>1, StillRows
<1>3. KeysUnique'
  BY <1>2, KeysKept DEF PInv, Unborn
<1>4. SameLocks /\ UnlandedKept /\ Backed
  BY DEF SameLocks, UnlandedKept, Backed
<1>5. Answers
  BY DEF Answers, Known, ProcsEnd, ClaimType
<1> QED BY <1>2, <1>3, <1>4, <1>5, SteadyOK

-----------------------------------------------------------------------------
(***************************************************************************)
(* Producers, operators and leases                                         *)
(***************************************************************************)

\* A row nobody holds is not the row of a sheltered attempt.
LEMMA ShelteredRow ==
    ASSUME IInv, NEW a \in inflight, Sheltered(a)
    PROVE  a.job \in Job /\ row[a.job].status \in ClaimedStatus
           /\ Owns(row[a.job], a.worker, a.n)
  BY AttemptFields DEF Sheltered, Holds, ClaimOf, ClaimedStatus

LEMMA EnqueueKeeps ==
    ASSUME IInv, IInv', PInv, NEW j \in Job, NEW delay \in 0..WaitCap,
           Enqueue(j, delay)
    PROVE  PInv'
<1>1. Moves /\ \A k \in Job \ {j} : row'[k] = row[k]
  BY EnqueueMoves
<1>2. row[j].status = "unborn" /\ ~KeyHeld(KeyOf[j])
  BY DEF Enqueue
<1>3. row'[j].status = "queued"
  <2>1. row' = [row EXCEPT ![j] = NewRow(0, MaxAttempts[j], delay)]
    BY DEF Enqueue
  <2>2. NewRow(0, MaxAttempts[j], delay).status = "queued"
    BY CeilingAssumption, NewRowSound
  <2> QED BY <2>1, <2>2 DEF IInv
<1>4. Plain
  BY <1>1, <1>2, <1>3 DEF Plain, Taken
<1>5. Gentle
  <2> SUFFICES ASSUME NEW a \in inflight, Sheltered(a)
               PROVE  KeptMove(a.job, row[a.job], row'[a.job])
    BY DEF Gentle
  <2>1. a.job \in Job \ {j}
    BY <1>2, ShelteredRow DEF ClaimedStatus
  <2> QED BY <1>1, <2>1 DEF KeptMove, Same
<1>6. KeysUnique'
  BY <1>1, <1>2, <1>3 DEF PInv, KeysUnique, KeyHeld
<1> QED BY <1>1, <1>4, <1>5, <1>6, RowsOnly
        DEF Enqueue, Others, pending, history

LEMMA RetryJobOccurrenceKeeps ==
    ASSUME IInv, IInv', PInv, NEW j \in Job, NEW k \in Job,
           RetryJobOccurrence(j, k)
    PROVE  PInv'
<1>1. /\ Moves /\ Same(row[j], row'[j])
      /\ \A i \in Job \ {j, k} : row'[i] = row[i]
  BY RetryJobOccurrenceMoves
<1>2. /\ row[j].status \in Terminal /\ row[k].status = "unborn"
      /\ ~KeyHeld(KeyOf[k])
  BY DEF RetryJobOccurrence, FreshOccurrence
<1>3. row'[k].status # "running" /\ row'[k].status # "complete"
  <2>1. RowMove(row[k], row'[k]) /\ NoRow("gone").status = "gone"
    BY <1>1 DEF Moves, NoRow
  <2> QED BY <1>2, <2>1 DEF RowMove, Same, Born, Taken, GivenBack, Over, Asked,
             MarkedFrom, Deleted, Terminal, ClaimedStatus
<1>4. \A i \in Job \ {k} : Same(row[i], row'[i])
  BY <1>1 DEF Same
<1>5. Plain
  <2>1. ASSUME NEW i \in Job \ {k} PROVE ~Taken(row[i], row'[i])
    BY <1>4 DEF Same, Taken
  <2>2. ~Taken(row[k], row'[k])
    BY <1>3 DEF Taken
  <2> QED BY <1>3, <1>4, <2>1, <2>2 DEF Plain, Same
<1>6. Gentle
  <2> SUFFICES ASSUME NEW a \in inflight, Sheltered(a)
               PROVE  KeptMove(a.job, row[a.job], row'[a.job])
    BY DEF Gentle
  <2>1. a.job \in Job \ {k}
    BY <1>2, ShelteredRow DEF ClaimedStatus
  <2> QED BY <1>4, <2>1 DEF KeptMove
<1>7. KeysUnique'
  BY <1>2, <1>4 DEF PInv, KeysUnique, KeyHeld, Same
<1> QED BY <1>1, <1>5, <1>6, <1>7, RowsOnly
        DEF RetryJobOccurrence, Others, pending, history

LEMMA AbortJobKeeps ==
    ASSUME IInv, IInv', PInv, NEW j \in Job, AbortJob(j)
    PROVE  PInv'
<1>1. row[j] \in Sound /\ AbortAllowed(row[j])
      /\ row' = [row EXCEPT ![j] = AbortRequested(row[j])]
  BY DEF AbortJob, IInv
<1>2. Asked(row[j], AbortRequested(row[j]))
  BY <1>1, AbortRequestedMoves
<1>3. Moves /\ row'[j] = AbortRequested(row[j])
      /\ \A k \in Job \ {j} : row'[k] = row[k]
  BY <1>1, <1>2, OneMoves DEF RowMove
<1>4. Asked(row[j], row'[j])
  BY <1>2, <1>3
<1>5. Plain
  BY <1>3, <1>4 DEF Plain, Taken, Asked
<1>6. Gentle
  BY <1>3, <1>4, ShelteredRow DEF Gentle, KeptMove, Same
<1>7. KeysUnique'
  BY <1>3, <1>4, KeysKept DEF PInv, Asked
<1> QED BY <1>3, <1>5, <1>6, <1>7, RowsOnly
        DEF AbortJob, Others, pending, history

\* The two purges.
LEMMA DeletionKeeps ==
    ASSUME IInv, IInv', PInv, NEW S \in SUBSET Job,
           \A j \in S : row[j].status \in Terminal \cup {"queued"},
           row' = [j \in Job |-> IF j \in S THEN NoRow("gone") ELSE row[j]],
           UNCHANGED <<lease, Others>>
    PROVE  PInv'
<1>1. Moves
  BY DeletedMoves
<1>2. NoRow("gone").status = "gone"
  BY DEF NoRow
<1>3. \A j \in Job : row'[j] = row[j]
          \/ /\ row'[j].status = "gone"
             /\ row[j].status \in Terminal \cup {"queued"}
  BY <1>2
<1>4. Plain /\ Unborn
  BY <1>3 DEF Plain, Unborn, Taken, Terminal
<1>5. Gentle
  <2> SUFFICES ASSUME NEW a \in inflight, Sheltered(a)
               PROVE  KeptMove(a.job, row[a.job], row'[a.job])
    BY DEF Gentle
  <2>1. row'[a.job] = row[a.job]
    BY <1>3, ShelteredRow DEF ClaimedStatus, Terminal
  <2> QED BY <2>1 DEF KeptMove, Same
<1>6. KeysUnique'
  BY <1>1, <1>4, KeysKept DEF PInv, Unborn
<1> QED BY <1>1, <1>4, <1>5, <1>6, RowsOnly

LEMMA PurgeQueuedJobsKeeps ==
    ASSUME IInv, IInv', PInv, NEW S \in SUBSET Job, PurgeQueuedJobs(S)
    PROVE  PInv'
  BY DeletionKeeps DEF PurgeQueuedJobs, Others, pending, history

LEMMA SweepExpiredJobsKeeps ==
    ASSUME IInv, IInv', PInv, NEW s \in Sweeper, NEW S \in SUBSET Job,
           SweepExpiredJobs(s, S)
    PROVE  PInv'
  BY DeletionKeeps DEF SweepExpiredJobs, Others, pending, history

\* What a written lease holds.
LEMMA LeaseWritten ==
    ASSUME NEW l, NEW ttl, NEW reopens, NEW created
    PROVE  /\ WrittenLease(l, ttl, reopens, created).present
           /\ WrittenLease(l, ttl, reopens, created).left = ttl
  BY DEF WrittenLease

LEMMA HeartbeatsKeep ==
    ASSUME IInv, IInv', PInv, NEW w \in Worker,
           WorkerHeartbeat(w) \/ ConsumerHeartbeat(w) \/ LateHeartbeat(w)
    PROVE  PInv'
<1>1. /\ \E reopens, created :
            lease' = [lease EXCEPT
                        ![w] = WrittenLease(@, LeaseTtl, reopens, created)]
      /\ UNCHANGED <<row, Others>>
  BY DEF WorkerHeartbeat, ConsumerHeartbeat, LateHeartbeat, Others, pending,
         history
<1>2. PICK reopens, created :
        lease' = [lease EXCEPT
                    ![w] = WrittenLease(@, LeaseTtl, reopens, created)]
  BY <1>1
<1>3. /\ lease'[w].present /\ lease'[w].left = LeaseTtl
      /\ \A v \in Worker \ {w} : lease'[v] = lease[v]
  BY <1>2, LeaseWritten DEF IInv, RestOK
<1>4. LeaseTtl >= 1
  BY TimesAssumption
<1>5. Leased'
  BY <1>1, <1>3, <1>4, AttemptFields DEF PInv, Leased, Others
<1> QED BY <1>1, <1>5, LeasesOnly DEF ProcsEnd, Others

LEMMA LeaseClosed ==
    ASSUME IInv, NEW w \in Worker, lease' = [lease EXCEPT ![w] = ClosedLease(@)]
    PROVE  \A v \in Worker : /\ lease'[v].present = lease[v].present
                             /\ lease'[v].left = lease[v].left
  BY DEF IInv, RestOK, LeaseType, ClosedLease

LEMMA StopWorkerIntakeKeeps ==
    ASSUME IInv, IInv', PInv, NEW w \in Worker, StopWorkerIntake(w)
    PROVE  PInv'
<1>1. \A v \in Worker : /\ lease'[v].present = lease[v].present
                        /\ lease'[v].left = lease[v].left
  BY LeaseClosed DEF StopWorkerIntake
<1>2. UNCHANGED <<row, Others>>
  BY DEF StopWorkerIntake, Others, pending, history
<1>3. Leased'
  BY <1>1, <1>2, AttemptFields DEF PInv, Leased, Others
<1> QED BY <1>2, <1>3, LeasesOnly DEF ProcsEnd, Others

LEMMA ShutdownKeeps ==
    ASSUME IInv, IInv', PInv, NEW w \in Worker, BeginShutdown(w) \/ FetcherStops(w)
    PROVE  PInv'
<1>1. /\ UNCHANGED <<tables, inflight, tx, unacked, dropped, history>>
      /\ \/ proc[w] = "up" /\ proc' = [proc EXCEPT ![w] = "stopping"]
         \/ proc[w] = "stopping" /\ proc' = [proc EXCEPT ![w] = "draining"]
  BY DEF BeginShutdown, FetcherStops, pending
<1>2. ProcsEnd /\ \A v \in Worker : proc'[v] = "gone" => proc[v] = "gone"
  BY <1>1 DEF ProcsEnd, IInv, RestOK
<1>3. Leased'
  BY <1>1, <1>2 DEF PInv, Leased, tables, history
<1> QED BY <1>1, <1>2, <1>3, LeasesOnly DEF tables, history

LEMMA SweepWorkerLeasesKeeps ==
    ASSUME IInv, IInv', PInv, NEW s \in Sweeper, NEW W \in SUBSET Worker,
           SweepWorkerLeases(s, W)
    PROVE  PInv'
<1>1. /\ \A w \in W : lease[w].present /\ lease[w].left <= -2 * Grace
      /\ lease' = [w \in Worker |-> IF w \in W THEN NoLease ELSE lease[w]]
      /\ UNCHANGED <<row, Others>>
  BY DEF SweepWorkerLeases, Others, pending, history
<1>2. \A w \in W : w \in stalled
  BY <1>1, TimesAssumption DEF PInv, Leased, IInv, RestOK, LeaseType
<1>3. \A w \in Worker \ W : lease'[w] = lease[w]
  BY <1>1
<1>4. Leased'
  BY <1>1, <1>2, <1>3, AttemptFields DEF PInv, Leased, Others
<1> QED BY <1>1, <1>4, LeasesOnly DEF ProcsEnd, Others

LEMMA SweepReadsKeep ==
    ASSUME IInv, IInv', PInv, NEW s \in Sweeper, SweepScan(s) \/ SweepFails(s)
    PROVE  PInv'
<1>1. UNCHANGED <<tables, Others>>
  BY DEF SweepScan, SweepFails, Others, pending, history
<1>2. Leased'
  BY <1>1 DEF PInv, Leased, Others, tables
<1> QED BY <1>1, <1>2, LeasesOnly DEF ProcsEnd, Others, tables

-----------------------------------------------------------------------------
(***************************************************************************)
(* The clock, and processes that end                                       *)
(***************************************************************************)

LEMMA TickKeeps ==
    ASSUME IInv, IInv', PInv, Tick
    PROVE  PInv'
<1>1. Moves /\ Plain /\ Gentle /\ Unborn
  BY TickMoves, StillRows
<1>2. KeysUnique'
  BY <1>1, KeysKept DEF PInv, Unborn
<1>3. /\ UNCHANGED <<proc, inflight, unacked, dropped, unlanded, succeeded>>
      /\ stalled' = stalled \cup
             {w \in Worker : lease[w].present /\ lease[w].left <= 1}
  BY DEF Tick
<1>4. SameLocks
  <2>1. tx \in [Worker -> [jobs : SUBSET Job, age : 0..AgeCap]]
    BY DEF IInv, RestOK
  <2>2. ASSUME NEW w \in Worker PROVE tx'[w].jobs = tx[w].jobs
    BY <2>1 DEF Tick
  <2> QED BY <2>2 DEF SameLocks
<1>5. Leased'
  <2>1. ASSUME NEW w \in Worker
        PROVE  /\ lease'[w].present = lease[w].present
               /\ lease[w].left >= 2 => lease'[w].left >= 1
               /\ lease[w].left \in Int
    <3>1. lease[w] \in LeaseType
      BY DEF IInv, RestOK
    <3>2. lease'[w] = IF lease[w].present
                      THEN [lease[w] EXCEPT !.left = Lapsed(@)] ELSE lease[w]
      BY DEF Tick
    <3>3. lease[w].left \in Int
      BY <3>1, TimesAssumption DEF LeaseType
    <3> QED BY <3>1, <3>2, <3>3 DEF LeaseType, Lapsed
  <2>2. ASSUME NEW w \in Worker, w \notin stalled', lease'[w].present
        PROVE  lease'[w].left >= 1
    BY <1>3, <2>1, <2>2
  <2> QED BY <1>3, <2>1, <2>2, AttemptFields DEF PInv, Leased
<1>6. ProcsEnd /\ UnlandedKept /\ Backed /\ Answers
  BY <1>3 DEF ProcsEnd, UnlandedKept, Backed, Answers, Known
<1> QED BY <1>1, <1>2, <1>3, <1>4, <1>5, <1>6, SteadyOK

\* A process that is gone leaves no attempt behind.
LEMMA EndedLeases ==
    ASSUME IInv, PInv, NEW w \in Worker,
           proc' = [proc EXCEPT ![w] = "gone"],
           inflight' = {a \in inflight : a.worker # w},
           stalled' = stalled \cup {w},
           \A v \in Worker \ {w} : lease'[v] = lease[v]
    PROVE  Leased'
<1>1. \A v \in Worker \ {w} : proc'[v] = proc[v]
  BY DEF IInv, RestOK
<1>2. \A a \in inflight' : a \in inflight /\ a.worker \in Worker \ {w}
  BY AttemptFields
<1> QED BY <1>1, <1>2 DEF PInv, Leased

LEMMA RetireKeeps ==
    ASSUME IInv, IInv', PInv, NEW w \in Worker, Retire(w)
    PROVE  PInv'
<1>1. /\ proc' = [proc EXCEPT ![w] = "gone"]
      /\ inflight' = {a \in inflight : a.worker # w}
      /\ stalled' = stalled \cup {w}
      /\ UNCHANGED <<row, tx, unacked, dropped, unlanded, succeeded>>
  BY DEF Retire
<1>2. \A v \in Worker \ {w} : lease'[v] = lease[v]
  BY DEF Retire, IInv, RestOK
<1>3. Leased'
  BY <1>1, <1>2, EndedLeases
<1>4. Moves /\ Plain /\ Gentle /\ Unborn
  BY <1>1, StillRows DEF Same
<1>5. KeysUnique'
  BY <1>4, KeysKept DEF PInv, Unborn
<1>6. proc'[w] = "gone" /\ \A v \in Worker \ {w} : proc'[v] = proc[v]
  BY <1>1 DEF IInv, RestOK
<1>7. ProcsEnd /\ SameLocks /\ UnlandedKept /\ Backed
  BY <1>1, <1>6 DEF ProcsEnd, SameLocks, UnlandedKept, Backed
<1>8. Answers
  <2> SUFFICES ASSUME NEW c \in ClaimType, Known(c) PROVE Known(c)'
    BY DEF Answers
  <2>1. c.worker \in Worker
    BY DEF ClaimType
  <2>2. CASE c.worker = w
    BY <1>6, <2>2 DEF Known
  <2>3. CASE c.worker # w
    <3>1. ASSUME NEW a \in inflight, ClaimOf(a) = c PROVE a \in inflight'
      BY <1>1, <2>3, <3>1 DEF ClaimOf
    <3> QED BY <1>1, <1>6, <2>1, <2>3, <3>1 DEF Known
  <2> QED BY <2>2, <2>3
<1> QED BY <1>1, <1>3, <1>4, <1>5, <1>7, <1>8, SteadyOK

LEMMA CrashKeeps ==
    ASSUME IInv, IInv', PInv, NEW w \in Worker, Crash(w)
    PROVE  PInv'
<1>1. /\ proc' = [proc EXCEPT ![w] = "gone"]
      /\ inflight' = {a \in inflight : a.worker # w}
      /\ unacked' = {b \in unacked : \A c \in b : c.worker # w}
      /\ dropped' = {c \in dropped : c.worker # w}
      /\ stalled' = stalled \cup {w}
      /\ unlanded' = {c \in unlanded : c.worker # w}
      /\ UNCHANGED <<row, lease, tx, succeeded>>
  BY DEF Crash, tables
<1>2. Leased'
  BY <1>1, EndedLeases
<1>3. Moves /\ Plain /\ Gentle /\ Unborn
  BY <1>1, StillRows DEF Same
<1>4. KeysUnique'
  BY <1>3, KeysKept DEF PInv, Unborn
<1>5. proc'[w] = "gone" /\ \A v \in Worker \ {w} : proc'[v] = proc[v]
  BY <1>1 DEF IInv, RestOK
<1>6. ProcsEnd /\ SameLocks
  BY <1>1, <1>5 DEF ProcsEnd, SameLocks
<1>7. UnlandedKept
  BY <1>1 DEF UnlandedKept, ClaimOf
<1>8. ASSUME NEW c \in UNION unacked, c.worker # w PROVE c \in UNION unacked'
  <2>1. PICK b \in unacked : c \in b
    OBVIOUS
  <2>2. \A d \in b : d.worker = c.worker
    BY <2>1 DEF PInv, Undoable
  <2>3. b \in unacked'
    BY <1>1, <1>8, <2>2
  <2> QED BY <2>1, <2>3
<1>9. Backed
  BY <1>5, <1>8 DEF Backed
<1>10. Answers
  <2> SUFFICES ASSUME NEW c \in ClaimType, Known(c) PROVE Known(c)'
    BY DEF Answers
  <2>1. c.worker \in Worker
    BY DEF ClaimType
  <2>2. CASE c.worker = w
    BY <1>5, <2>2 DEF Known
  <2>3. CASE c.worker # w
    <3>1. ASSUME NEW a \in inflight, ClaimOf(a) = c PROVE a \in inflight'
      BY <1>1, <2>3, <3>1 DEF ClaimOf
    <3> QED BY <1>1, <1>5, <1>8, <2>1, <2>3, <3>1 DEF Known
  <2> QED BY <2>2, <2>3
<1> QED BY <1>1, <1>2, <1>3, <1>4, <1>6, <1>7, <1>9, <1>10, SteadyOK

-----------------------------------------------------------------------------
(***************************************************************************)
(* The sweeper                                                             *)
(***************************************************************************)

\* The owner of a sheltered attempt has time left on its lease; only a timed
\* job can be stuck under it.
LEMMA ShelterLease ==
    ASSUME IInv, PInv, NEW a \in inflight, Sheltered(a)
    PROVE  /\ LeaseOf(row[a.job]) = lease[a.worker]
           /\ LeaseLive(lease[a.worker])
           /\ JobIsStuck(a.job, row[a.job], lease[a.worker])
                  => a.job \in TimedJob
<1>1. a.worker \in Worker /\ row[a.job].owner = a.worker
  BY AttemptFields, ShelteredRow DEF Owns
<1>2. a.worker \notin stalled
  BY DEF Sheltered, Undisturbed
<1>3. lease[a.worker].present /\ lease[a.worker].left >= 1
  BY <1>1, <1>2 DEF PInv, Leased
<1>4. lease[a.worker].left \in Int
  BY <1>1, TimesAssumption DEF IInv, RestOK, LeaseType
<1> QED BY <1>1, <1>3, <1>4, TimesAssumption
        DEF LeaseOf, LeaseLive, JobIsStuck

\* A statement of a pass: it writes rows that are running or aborting, and
\* treats the row of a sheltered attempt gently.
LEMMA SweepRows ==
    ASSUME IInv, IInv', PInv,
           \A j \in Job :
               \/ row'[j] = row[j]
               \/ /\ row[j].status \in ClaimedStatus
                  /\ row'[j].status # "complete"
                  /\ \/ MarkedFrom(row[j], row'[j])
                     \/ GivenBack(row[j], row'[j])
                     \/ Over(row[j], row'[j]),
           Gentle, UNCHANGED <<lease, Others>>
    PROVE  PInv'
<1>1. Moves
  BY BatchMoves DEF RowMove
<1>2. Plain /\ Unborn
  BY DEF Plain, Unborn, Taken, ClaimedStatus
<1>3. KeysUnique'
  BY <1>1, <1>2, KeysKept DEF PInv, Unborn
<1> QED BY <1>1, <1>2, <1>3, RowsOnly

LEMMA SweepMarkKeeps ==
    ASSUME IInv, IInv', PInv, NEW s \in Sweeper, SweepMark(s)
    PROVE  PInv'
<1> DEFINE marked == {e \in sweep[s].seen : MarkedNow(e)}
<1>1. row' = [j \in Job |-> IF \E e \in marked : e.job = j
                            THEN Marked(row[j]) ELSE row[j]]
  BY DEF SweepMark
<1>2. \A e \in marked :
          /\ row[e.job].status = "running"
          /\ JobIsStuck(e.job, row[e.job], LeaseOf(row[e.job]))
  BY DEF MarkedNow, MarkAllowed
<1> HIDE DEF marked
<1>3. ASSUME NEW j \in Job
      PROVE  \/ row'[j] = row[j]
             \/ /\ row[j].status = "running"
                /\ JobIsStuck(j, row[j], LeaseOf(row[j]))
                /\ MarkedFrom(row[j], row'[j])
  <2>1. CASE \E e \in marked : e.job = j
    BY <1>1, <1>2, <2>1, MarkedMoves DEF IInv
  <2> QED BY <1>1, <2>1
<1>4. Gentle
  <2> SUFFICES ASSUME NEW a \in inflight, Sheltered(a), row'[a.job] # row[a.job]
               PROVE  a.job \in TimedJob /\ MarkedFrom(row[a.job], row'[a.job])
    BY DEF Gentle, KeptMove, Same
  <2> QED BY <1>3, AttemptFields, ShelterLease
<1>5. \A j \in Job : \/ row'[j] = row[j]
                     \/ /\ row[j].status \in ClaimedStatus
                        /\ row'[j].status # "complete"
                        /\ MarkedFrom(row[j], row'[j])
  BY <1>3 DEF MarkedFrom, ClaimedStatus
<1> QED BY <1>4, <1>5, SweepRows DEF SweepMark, Others, pending, history

LEMMA SweepRetryKeeps ==
    ASSUME IInv, IInv', PInv, NEW s \in Sweeper, SweepRetry(s)
    PROVE  PInv'
<1> DEFINE given == {e \in sweep[s].seen :
                       e.back /\ RetryAbandonedAllowed(row[e.job],
                                     LeaseOf(row[e.job]), e.owner, e.n)}
<1>1. row' = [j \in Job |-> IF \E e \in given : e.job = j
                            THEN Requeued(row[j], "keep", RetryDelay, FALSE)
                            ELSE row[j]]
  BY DEF SweepRetry
<1>2. \A e \in given : /\ row[e.job].status = "aborting" /\ Swept(row[e.job])
                       /\ ~LeaseLive(LeaseOf(row[e.job]))
  BY DEF RetryAbandonedAllowed
<1> HIDE DEF given
<1>3. ASSUME NEW j \in Job
      PROVE  \/ row'[j] = row[j]
             \/ /\ row[j].status = "aborting"
                /\ ~LeaseLive(LeaseOf(row[j]))
                /\ GivenBack(row[j], row'[j])
  <2>1. CASE \E e \in given : e.job = j
    BY <1>1, <1>2, <2>1, AbandonedMoves DEF IInv
  <2> QED BY <1>1, <2>1
<1>4. Gentle
  <2> SUFFICES ASSUME NEW a \in inflight, Sheltered(a), row'[a.job] # row[a.job]
               PROVE  FALSE
    BY DEF Gentle, KeptMove, Same
  <2> QED BY <1>3, AttemptFields, ShelterLease
<1>5. \A j \in Job : \/ row'[j] = row[j]
                     \/ /\ row[j].status \in ClaimedStatus
                        /\ row'[j].status # "complete"
                        /\ GivenBack(row[j], row'[j])
  BY <1>3 DEF GivenBack, ClaimedStatus
<1> QED BY <1>4, <1>5, SweepRows DEF SweepRetry, Others, pending, history

LEMMA SweepAbortKeeps ==
    ASSUME IInv, IInv', PInv, NEW s \in Sweeper, SweepAbort(s)
    PROVE  PInv'
<1> DEFINE over == {e \in sweep[s].seen :
                      AbortAbandonedAllowed(e.job, row[e.job],
                          LeaseOf(row[e.job]), e.owner, e.n)}
<1>1. row' = [j \in Job |-> IF \E e \in over : e.job = j
                            THEN AbortedAbandoned(j, row[j]) ELSE row[j]]
  BY DEF SweepAbort
<1>2. \A e \in over :
          /\ row[e.job].status \in ClaimedStatus
          /\ \/ JobIsStuck(e.job, row[e.job], LeaseOf(row[e.job]))
             \/ Swept(row[e.job])
          /\ KeyOf[e.job] = NoKey \/ ~LeaseLive(LeaseOf(row[e.job]))
  BY DEF AbortAbandonedAllowed, ClaimedStatus
<1> HIDE DEF over
<1>3. ASSUME NEW j \in Job
      PROVE  \/ row'[j] = row[j]
             \/ /\ row[j].status \in ClaimedStatus
                /\ JobIsStuck(j, row[j], LeaseOf(row[j])) \/ Swept(row[j])
                /\ KeyOf[j] = NoKey \/ ~LeaseLive(LeaseOf(row[j]))
                /\ Over(row[j], row'[j]) /\ row'[j].status # "complete"
  <2>1. CASE \E e \in over : e.job = j
    BY <1>1, <1>2, <2>1, AbortMoves DEF IInv
  <2> QED BY <1>1, <2>1
<1>4. Gentle
  <2> SUFFICES ASSUME NEW a \in inflight, Sheltered(a), row'[a.job] # row[a.job]
               PROVE  /\ a.job \in TimedJob /\ KeyOf[a.job] = NoKey
                      /\ Over(row[a.job], row'[a.job])
    BY DEF Gentle, KeptMove, Same
  <2>1. a.job \in Job
    BY AttemptFields
  <2>2. a.job \notin TimedJob => ~Swept(row[a.job])
    BY DEF Sheltered
  <2> QED BY <1>3, <2>1, <2>2, ShelterLease
<1>5. \A j \in Job : \/ row'[j] = row[j]
                     \/ /\ row[j].status \in ClaimedStatus
                        /\ row'[j].status # "complete"
                        /\ Over(row[j], row'[j])
  BY <1>3
<1> QED BY <1>4, <1>5, SweepRows DEF SweepAbort, Others, pending, history

-----------------------------------------------------------------------------
(***************************************************************************)
(* The resolvers                                                           *)
(***************************************************************************)

\* What a resolver's pass over the claims C does to the rows.
ResolvesRows(C) ==
    \A j \in Job :
        \/ row'[j] = row[j]
        \/ \E c \in C : /\ c.job = j /\ Holds(c)
                        /\ \/ GivenBack(row[j], row'[j])
                           \/ Over(row[j], row'[j])
                        /\ row'[j].status # "complete"

LEMMA ResolvingRows ==
    ASSUME IInv, NEW C, C \subseteq ClaimType, ResolvesRows(C),
           \A a \in inflight : Undisturbed(a) => ClaimOf(a) \notin C
    PROVE  Moves /\ Plain /\ Gentle /\ Unborn
<1>1. Moves
  BY BatchMoves DEF ResolvesRows, RowMove
<1>2. ASSUME NEW j \in Job, row'[j] # row[j]
      PROVE  row[j].status \in ClaimedStatus /\ row'[j].status # "complete"
  BY <1>2 DEF ResolvesRows, Holds, ClaimedStatus
<1>3. Plain /\ Unborn
  BY <1>2 DEF Plain, Unborn, Taken, ClaimedStatus
<1>4. Gentle
  <2> SUFFICES ASSUME NEW a \in inflight, Sheltered(a), row'[a.job] # row[a.job]
               PROVE  FALSE
    BY DEF Gentle, KeptMove, Same
  <2>1. a.job \in Job /\ Owns(row[a.job], a.worker, a.n)
    BY ShelteredRow
  <2>2. PICK c \in C : c.job = a.job /\ Holds(c)
    BY <2>1 DEF ResolvesRows
  <2>3. c.worker = a.worker /\ c.n = a.n /\ c \in ClaimType
    BY <2>1, <2>2 DEF Holds, Owns
  <2>4. c = ClaimOf(a)
    BY <2>2, <2>3 DEF ClaimType, ClaimOf
  <2> QED BY <2>4 DEF Sheltered
<1> QED BY <1>1, <1>3, <1>4

LEMMA ResolveUnacknowledgedRows ==
    ASSUME IInv, PInv, NEW b \in unacked, ResolveUnacknowledged(b)
    PROVE  ResolvesRows(b) /\ \A c \in b : ~Holds(c)'
<1>1. b \subseteq ClaimType /\ Coherent(b)
  BY UndoableParts DEF IInv, RestOK, PInv
<1>2. ASSUME NEW c \in b PROVE row'[c.job] = Resolved(c, 0, TRUE)
  <2> DEFINE d == CHOOSE d \in b : d.job = c.job
  <2>1. d \in b /\ d.job = c.job
    OBVIOUS
  <2>2. d = c
    BY <1>1, <2>1 DEF Coherent
  <2>3. c.job \in Job
    BY <1>1 DEF ClaimType
  <2>4. row'[c.job] = Resolved(d, 0, TRUE)
    BY <2>3 DEF ResolveUnacknowledged
  <2> QED BY <2>2, <2>4
<1>3. ASSUME NEW j \in Job, ~\E c \in b : c.job = j PROVE row'[j] = row[j]
  BY <1>3 DEF ResolveUnacknowledged
<1>4. ASSUME NEW c \in b
      PROVE  /\ ~Holds(c) => row'[c.job] = row[c.job]
             /\ Holds(c) => /\ GivenBack(row[c.job], row'[c.job])
                               \/ Over(row[c.job], row'[c.job])
                            /\ row'[c.job].status # "complete"
  BY <1>1, <1>2, ResolvedMoves
<1>5. ResolvesRows(b)
  BY <1>3, <1>4 DEF ResolvesRows
<1>6. ASSUME NEW c \in b PROVE ~Holds(c)'
  <2>1. NoRow("gone").status = "gone"
    BY DEF NoRow
  <2>2. CASE Holds(c)
    BY <1>4, <2>1, <2>2 DEF Holds, GivenBack, Over, Terminal
  <2>3. CASE ~Holds(c)
    BY <1>4, <2>3 DEF Holds
  <2> QED BY <2>2, <2>3
<1> QED BY <1>5, <1>6

LEMMA ResolveUnacknowledgedKeeps ==
    ASSUME IInv, IInv', PInv, NEW b \in unacked, ResolveUnacknowledged(b)
    PROVE  PInv'
<1>1. b \subseteq ClaimType
  BY DEF IInv, RestOK
<1>2. \A a \in inflight : Undisturbed(a) => ClaimOf(a) \notin b
  BY DEF PInv, Separate, Undisturbed
<1>3. ResolvesRows(b) /\ \A c \in b : ~Holds(c)'
  BY ResolveUnacknowledgedRows
<1>4. Moves /\ Plain /\ Gentle /\ Unborn
  BY <1>1, <1>2, <1>3, ResolvingRows
<1>5. KeysUnique'
  BY <1>4, KeysKept DEF PInv, Unborn
<1>6. /\ \A c \in b : tx[c.worker].jobs = {}
      /\ \/ /\ unacked' = unacked \ {b}
            /\ unlanded' = unlanded \ {c \in b \ UNION (unacked \ {b}) :
                                          \A a \in inflight : ClaimOf(a) # c}
         \/ UNCHANGED <<unacked, unlanded>>
      /\ UNCHANGED <<lease, proc, inflight, tx, dropped, stalled, succeeded>>
  BY DEF ResolveUnacknowledged
<1>7. Leased'
  BY <1>6 DEF PInv, Leased
<1>8. \A c \in UNION unacked : c \in b \/ c \in UNION unacked'
  BY <1>6
<1>9. UnlandedKept
  BY <1>6 DEF UnlandedKept
<1>10. ProcsEnd /\ SameLocks
  BY <1>6 DEF ProcsEnd, SameLocks
<1>11. Backed
  BY <1>6, <1>8 DEF Backed
<1>12. Answers
  BY <1>3, <1>6, <1>8 DEF Answers, Known
<1> QED BY <1>4, <1>5, <1>6, <1>7, <1>9, <1>10, <1>11, <1>12, SteadyOK

LEMMA ResolveDroppedKeeps ==
    ASSUME IInv, IInv', PInv, NEW c \in dropped, ResolveDropped(c)
    PROVE  PInv'
<1>1. c \in ClaimType /\ c.job \in Job
  BY DEF IInv, RestOK, ClaimType
<1>2. row' = [row EXCEPT ![c.job] = Resolved(c, RetryDelay, FALSE)]
  BY DEF ResolveDropped
<1>3. row'[c.job] = Resolved(c, RetryDelay, FALSE)
      /\ \A j \in Job \ {c.job} : row'[j] = row[j]
  BY <1>1, <1>2 DEF IInv
<1>4. /\ ~Holds(c) => row'[c.job] = row[c.job]
      /\ Holds(c) => /\ GivenBack(row[c.job], row'[c.job])
                        \/ Over(row[c.job], row'[c.job])
                     /\ row'[c.job].status # "complete"
  BY <1>1, <1>3, ResolvedMoves
<1>5. ResolvesRows({c})
  BY <1>3, <1>4 DEF ResolvesRows
<1>6. ~Holds(c)'
  <2>1. NoRow("gone").status = "gone"
    BY DEF NoRow
  <2>2. CASE Holds(c)
    BY <1>4, <2>1, <2>2 DEF Holds, GivenBack, Over, Terminal
  <2>3. CASE ~Holds(c)
    BY <1>4, <2>3 DEF Holds
  <2> QED BY <2>2, <2>3
<1>7. \A a \in inflight : Undisturbed(a) => ClaimOf(a) \notin {c}
  BY DEF PInv, Separate
<1>8. Moves /\ Plain /\ Gentle /\ Unborn
  BY <1>1, <1>5, <1>7, ResolvingRows
<1>9. KeysUnique'
  BY <1>8, KeysKept DEF PInv, Unborn
<1>10. /\ dropped' = dropped \/ dropped' = dropped \ {c}
       /\ UNCHANGED <<lease, proc, inflight, tx, unacked, stalled, unlanded,
                      succeeded>>
  BY DEF ResolveDropped, history
<1>11. Leased'
  BY <1>10 DEF PInv, Leased
<1>12. ProcsEnd /\ SameLocks /\ UnlandedKept /\ Backed
  BY <1>10 DEF ProcsEnd, SameLocks, UnlandedKept, Backed
<1>13. Answers
  BY <1>6, <1>10 DEF Answers, Known
<1> QED BY <1>8, <1>9, <1>10, <1>11, <1>12, <1>13, SteadyOK

-----------------------------------------------------------------------------
(***************************************************************************)
(* Claiming                                                                *)
(***************************************************************************)

LEMMA FetchEndsWell ==
    ASSUME IInv, NEW w \in Worker, FetchEnds(w)
    PROVE  ProcsEnd /\ \A v \in Worker : proc'[v] = "gone" => proc[v] = "gone"
  BY DEF FetchEnds, ProcsEnd, IInv, RestOK

\* No claim on the row of a job under S is out for the number it gets next.
LEMMA NextNumber ==
    ASSUME IInv, PInv, NEW j \in Job, row[j].status = "queued",
           NEW c \in ClaimType, c.job = j, c.n = row[j].attempts + 1
    PROVE  ~Used(c)
<1>1. row[j].attempts \in Nat
  BY RowFields DEF IInv
<1> QED BY <1>1 DEF Used

LEMMA DequeueKeeps ==
    ASSUME IInv, IInv', PInv, NEW w \in Worker, NEW S \in SUBSET Job,
           Dequeue(w, S)
    PROVE  PInv'
<1>1. \A j \in S : row[j].status = "queued" /\ j \notin Locked
  BY DEF Dequeue, MayClaim, Claimable
<1>2. /\ Moves
      /\ \A j \in Job \ S : row'[j] = row[j]
      /\ \A j \in S : /\ Taken(row[j], row'[j])
                      /\ row'[j].owner = w /\ row'[j].max = row[j].max
  BY <1>1, ClaimRowsMoves DEF Dequeue
<1>3. /\ inflight' = inflight \cup {NewAttempt(w, j) : j \in S}
      /\ FetchEnds(w)
      /\ UNCHANGED <<lease, tx, unacked, dropped, stalled, unlanded, succeeded>>
  BY DEF Dequeue, pending, history
<1>4. ASSUME NEW a \in inflight', a \notin inflight
      PROVE  /\ a = NewAttempt(w, a.job) /\ ClaimOf(a) \in ClaimType
             /\ a.worker = w /\ a.job \in S /\ a.n = row[a.job].attempts + 1
             /\ a.end = "none" /\ a.reason = "none" /\ a.polled = "none"
             /\ a.stage # "reread"
             /\ a.retryable = (row[a.job].attempts + 1 < row[a.job].max)
  <2>1. a \in AttemptType
    BY DEF IInv
  <2>2. PICK j \in S : a = NewAttempt(w, j)
    BY <1>3, <1>4
  <2>3. /\ a.worker = w /\ a.job = j /\ a.n = row[j].attempts + 1
        /\ a.end = "none" /\ a.reason = "none" /\ a.polled = "none"
        /\ a.stage # "reread"
        /\ a.retryable = (row[j].attempts + 1 < row[j].max)
    BY <2>2 DEF NewAttempt
  <2>4. ClaimOf(a) \in ClaimType
    BY <2>1 DEF AttemptType, ClaimOf, ClaimType
  <2> QED BY <2>2, <2>3, <2>4
<1>5. ASSUME NEW a \in inflight', a \notin inflight
      PROVE  /\ Holds(ClaimOf(a))' /\ ~Swept(row'[a.job])
             /\ row[a.job].status = "queued" /\ a.job \in Job
  <2>1. a.job \in S /\ a.worker = w /\ a.n = row[a.job].attempts + 1
    BY <1>4, <1>5
  <2>2. row'[a.job].status = "running"
        /\ row'[a.job].attempts = row[a.job].attempts + 1
        /\ row'[a.job].owner = w /\ row'[a.job].result = "none"
    BY <1>1, <1>2, <2>1 DEF Taken, PInv, Unmarked
  <2>3. ~Swept(row'[a.job])
    BY <2>2 DEF Swept
  <2>4. Holds(ClaimOf(a))'
    BY <2>1, <2>2 DEF Holds, Owns, ClaimOf
  <2> QED BY <1>1, <2>1, <2>3, <2>4
<1>6. ProcsEnd /\ \A v \in Worker : proc'[v] = "gone" => proc[v] = "gone"
  BY <1>3, FetchEndsWell
<1>7. SameLocks /\ UnlandedKept /\ Backed
  <2>1. UnlandedKept
    BY <1>3 DEF UnlandedKept
  <2> QED BY <1>3, <2>1 DEF SameLocks, Backed
<1>8. Unmarked' /\ Undoable' /\ Covered'
  BY <1>2, <1>3, <1>6, <1>7, UnmarkedKept, UndoableKept, CoveredKept
     DEF PInv, Backed
<1>9. Leased'
  <2>1. lease[w].present
    BY DEF Dequeue, MayClaim, LeaseLive
  <2>2. \A a \in inflight' : a \in inflight \/ a.worker = w
    BY <1>4
  <2> QED BY <1>3, <1>6, <2>1, <2>2 DEF PInv, Leased
<1>10. Separate'
  <2>1. ASSUME NEW a \in inflight', a \notin inflight
        PROVE  /\ ClaimOf(a) \notin dropped
               /\ ClaimOf(a) \in UNION unacked => ClaimOf(a) \in unlanded
    <3> DEFINE c == ClaimOf(a)
    <3>1. /\ c \in ClaimType /\ c.worker = w /\ c.job = a.job /\ a.job \in S
          /\ c.n = row[a.job].attempts + 1
      BY <1>4, <2>1 DEF ClaimOf
    <3> HIDE DEF c
    <3>2. ~Used(c)
      BY <1>1, <3>1, NextNumber
    <3>3. a.job \notin tx[w].jobs
      BY <1>1, <3>1 DEF Locked
    <3>4. c \notin dropped /\ (c \in UNION unacked => c \in unlanded)
      BY <3>1, <3>2, <3>3 DEF PInv, Undoable
    <3> QED BY <3>4 DEF c
  <2> QED BY <1>3, <2>1 DEF PInv, Separate, ClaimOf
<1>11. \A b \in inflight : Undisturbed(b)' => Undisturbed(b)
  BY <1>3 DEF Undisturbed, ClaimOf
<1>12. \A b \in inflight : Sheltered(b) => row'[b.job] = row[b.job]
  <2> SUFFICES ASSUME NEW b \in inflight, Sheltered(b)
               PROVE  row'[b.job] = row[b.job]
    OBVIOUS
  <2>1. b.job \in Job \ S
    BY <1>1, ShelteredRow DEF ClaimedStatus
  <2> QED BY <1>2, <2>1
<1>13. RowKept'
  <2> SUFFICES ASSUME NEW b \in inflight', Undisturbed(b)' PROVE StaysWith(b)'
    BY DEF RowKept
  <2>1. CASE b \in inflight
    <3>1. Sheltered(b) => KeptMove(b.job, row[b.job], row'[b.job])
      BY <1>12, <2>1 DEF KeptMove, Same
    <3> QED BY <1>2, <1>11, <2>1, <3>1, StaysWithKept DEF PInv
  <2>2. CASE b \notin inflight
    BY <1>5, <2>2 DEF StaysWith
  <2> QED BY <2>1, <2>2
<1>14. OneEach'
  <2>1. ASSUME NEW b \in inflight, Undisturbed(b)' PROVE b.job \notin S
    <3>1. StaysWith(b)
      BY <1>11, <2>1 DEF PInv, RowKept
    <3>2. row[b.job].status # "queued"
      BY <3>1 DEF StaysWith, Holds, ClaimOf, Terminal
    <3> QED BY <1>1, <3>2
  <2> SUFFICES ASSUME NEW x \in inflight', NEW y \in inflight', x.job = y.job,
                      Undisturbed(x)', Undisturbed(y)'
               PROVE  x = y
    BY DEF OneEach
  <2>2. CASE x \in inflight /\ y \in inflight
    BY <1>11, <2>2 DEF PInv, OneEach
  <2>3. CASE x \notin inflight /\ y \notin inflight
    BY <1>4, <2>3
  <2> QED BY <1>4, <2>1, <2>2, <2>3
<1>15. KeysUnique'
  <2>1. \A j \in Job : row[j].status = "unborn" => row'[j].status = "unborn"
    BY <1>1, <1>2
  <2> QED BY <1>2, <2>1, KeysKept DEF PInv
<1>16. Succeeded'
  BY <1>3, <1>4 DEF PInv, Succeeded
<1>17. Remembered'
  <2>1. ASSUME NEW b \in inflight PROVE RememberedFor(b)'
    BY <1>2, <1>6, RememberedStays DEF PInv, Remembered
  <2>2. ASSUME NEW a \in inflight', a \notin inflight
        PROVE  RememberedFor(a)'
    <3>1. a.retryable => Retryable(row'[a.job])
      BY <1>2, <1>4, <2>2 DEF Taken, Retryable
    <3> QED BY <1>4, <2>2, <3>1 DEF RememberedFor
  <2> QED BY <2>1, <2>2 DEF Remembered
<1>18. AllKnown'
  <2> SUFFICES ASSUME NEW c \in ClaimType, Holds(c)' PROVE Known(c)'
    BY DEF AllKnown
  <2>1. c.job \in Job /\ c.worker \in Worker
    BY DEF ClaimType
  <2>2. CASE c.job \in S
    <3>1. c.worker = w /\ c.n = row[c.job].attempts + 1
      BY <1>2, <2>2 DEF Holds, Owns, Taken
    <3>2. PICK a \in inflight' : a = NewAttempt(w, c.job)
      BY <1>3, <2>2
    <3>3. a.worker = w /\ a.job = c.job /\ a.n = c.n
      BY <3>1, <3>2 DEF NewAttempt
    <3>4. ClaimOf(a) = c
      BY <3>1, <3>3 DEF ClaimOf, ClaimType
    <3> QED BY <3>4 DEF Known
  <2>3. CASE c.job \notin S
    <3>1. Holds(c)
      BY <1>2, <2>1, <2>3 DEF Holds
    <3>2. Known(c)
      BY <3>1 DEF PInv, AllKnown
    <3> QED BY <1>3, <1>6, <2>1, <3>2 DEF Known, ProcsEnd
  <2> QED BY <2>2, <2>3
<1>19. CompleteMeansSucceeded'
  <2>1. \A j \in Job : row'[j].status = "complete" => row[j].status = "complete"
    BY <1>2 DEF Taken
  <2> QED BY <1>2, <1>3, <2>1, CompleteKept DEF PInv
<1> QED BY <1>8, <1>9, <1>10, <1>13, <1>14, <1>15, <1>16, <1>17, <1>18, <1>19
        DEF PInv

\* A step after which the same attempts run on the same rows.
LEMMA SameWork ==
    ASSUME IInv, IInv', PInv, ProcsEnd, unlanded \subseteq unlanded',
           UNCHANGED <<row, inflight, stalled, succeeded>>
    PROVE  /\ Unmarked' /\ RowKept' /\ OneEach' /\ KeysUnique'
           /\ Succeeded' /\ Remembered' /\ CompleteMeansSucceeded'
<1>1. \A j \in Job : Same(row[j], row'[j])
  BY DEF Same
<1>2. Moves /\ Plain /\ Gentle /\ Unborn
  BY <1>1, StillRows
<1>3. \A b \in inflight' : b \in inflight /\ (Undisturbed(b)' => Undisturbed(b))
  BY DEF Undisturbed, ClaimOf
<1>4. Descends /\ Spares
  BY <1>2, <1>3 DEF Descends, Spares, Gentle
<1> QED BY <1>2, <1>4, UnmarkedKept, RowKeptKept, OneEachKept, KeysKept,
           SucceededKept, RememberedKept, CompleteKept DEF PInv, Plain, Unborn

LEMMA DequeueLostKeeps ==
    ASSUME IInv, IInv', PInv, NEW w \in Worker, NEW S \in SUBSET Job,
           DequeueLost(w, S)
    PROVE  PInv'
<1>1. \A j \in S : row[j].status = "queued" /\ j \in Job
  BY DEF DequeueLost, MayClaim, Claimable
<1>2. /\ tx[w].jobs = {}
      /\ tx' = [tx EXCEPT ![w] = [jobs |-> S, age |-> 0]]
      /\ unacked' = unacked \cup {ClaimsOf(w, S)}
      /\ FetchEnds(w)
      /\ UNCHANGED <<row, lease, inflight, dropped, stalled, unlanded, succeeded>>
  BY DEF DequeueLost, MayClaim, tables, history
<1>3. ProcsEnd /\ \A v \in Worker : proc'[v] = "gone" => proc[v] = "gone"
  BY <1>2, FetchEndsWell
<1>4. /\ Unmarked' /\ RowKept' /\ OneEach' /\ KeysUnique'
      /\ Succeeded' /\ Remembered' /\ CompleteMeansSucceeded'
  BY <1>2, <1>3, SameWork
<1>5. tx'[w].jobs = S /\ \A v \in Worker \ {w} : tx'[v].jobs = tx[v].jobs
  BY <1>2 DEF IInv, RestOK
<1>6. \A c \in ClaimsOf(w, S) : /\ c.worker = w /\ c.job \in S
                                /\ c.n = row[c.job].attempts + 1
                                /\ c \in ClaimType
  <2>1. unacked' \subseteq SUBSET ClaimType
    BY DEF IInv, RestOK
  <2>2. ClaimsOf(w, S) \subseteq ClaimType
    BY <1>2, <2>1
  <2>3. ASSUME NEW j \in S
        PROVE  LET c == [worker |-> w, job |-> j, n |-> row[j].attempts + 1]
               IN  c.worker = w /\ c.job = j /\ c.n = row[j].attempts + 1
    OBVIOUS
  <2> QED BY <2>2, <2>3 DEF ClaimsOf
<1>7. Moves
  BY <1>2, Unmoved
<1>8. Undoable'
  <2>1. ASSUME NEW b \in unacked
        PROVE  Coherent(b)' /\ \A c \in b : MayUndo(c)'
    <3>1. Coherent(b) /\ b \subseteq ClaimType /\ \A c \in b : MayUndo(c)
      BY UndoableParts DEF IInv, RestOK, PInv
    <3>2. ASSUME NEW c \in b PROVE MayUndo(c)'
      <4>1. c \in ClaimType /\ MayUndo(c) /\ c.worker \in Worker
        BY <3>1 DEF ClaimType
      <4>2. c.job \in tx[c.worker].jobs => c.job \in tx'[c.worker].jobs
        BY <1>2, <1>5, <4>1
      <4> QED BY <1>2, <1>7, <4>1, <4>2, MayUndoKept
    <3> QED BY <3>1, <3>2 DEF Coherent
  <2>2. Coherent(ClaimsOf(w, S))
    BY DEF Coherent, ClaimsOf
  <2>3. ASSUME NEW c \in ClaimsOf(w, S) PROVE MayUndo(c)'
    BY <1>2, <1>5, <1>6 DEF MayUndo
  <2>4. ASSUME NEW c \in dropped' PROVE Used(c)'
    BY <1>2 DEF PInv, Undoable, Used
  <2>5. /\ \A b \in unacked' : Coherent(b)' /\ \A c \in b : MayUndo(c)'
        /\ \A c \in dropped' : Used(c)'
    BY <1>2, <2>1, <2>2, <2>3, <2>4 DEF Coherent
  <2> QED BY <2>5 DEF Undoable, Coherent, MayUndo
<1>9. Separate'
  <2> SUFFICES ASSUME NEW a \in inflight
               PROVE  /\ ClaimOf(a) \notin dropped
                      /\ ClaimOf(a) \in UNION unacked' => ClaimOf(a) \in unlanded
    BY <1>2 DEF Separate, ClaimOf
  <2>1. ClaimOf(a) \notin ClaimsOf(w, S)
    BY <1>1, <1>6, ClaimOfAttempt, NextNumber
  <2> QED BY <1>2, <2>1 DEF PInv, Separate
<1>10. Covered'
  <2> SUFFICES ASSUME NEW v \in Worker, proc'[v] = "up"
               PROVE  ClaimsOf(v, tx'[v].jobs) \subseteq UNION unacked'
    BY <1>2 DEF Covered, ClaimsOf
  <2>1. CASE v = w
    BY <1>2, <1>5, <2>1
  <2>2. CASE v # w
    BY <1>2, <1>3, <1>5, <2>2 DEF PInv, Covered, ProcsEnd
  <2> QED BY <2>1, <2>2
<1>11. Leased'
  BY <1>2, <1>3 DEF PInv, Leased
<1>12. AllKnown'
  <2> SUFFICES ASSUME NEW c \in ClaimType, Holds(c)' PROVE Known(c)'
    BY DEF AllKnown
  <2>1. Holds(c) /\ c.worker \in Worker
    BY <1>2 DEF Holds, ClaimType
  <2>2. Known(c)
    BY <2>1 DEF PInv, AllKnown
  <2> QED BY <1>2, <1>3, <2>1, <2>2 DEF Known, ProcsEnd
<1> QED BY <1>4, <1>8, <1>9, <1>10, <1>11, <1>12 DEF PInv

LEMMA CommitLandsKeeps ==
    ASSUME IInv, IInv', PInv, NEW w \in Worker, CommitLands(w)
    PROVE  PInv'
<1> DEFINE S == tx[w].jobs
<1>1. S \in SUBSET Job /\ \A j \in S : row[j].status = "queued"
  BY DEF IInv, RestOK, LocksHeld, Locked
<1>2. /\ ClaimRows(w, S, tx[w].age)
      /\ tx' = [tx EXCEPT ![w] = NoTx]
      /\ UNCHANGED <<lease, proc, inflight, unacked, dropped, stalled, unlanded,
                     succeeded>>
  BY DEF CommitLands, history
<1>3. tx'[w].jobs = {} /\ \A v \in Worker \ {w} : tx'[v].jobs = tx[v].jobs
  BY <1>2 DEF IInv, RestOK, NoTx
<1>4. \A v \in Worker \ {w} : S \cap tx[v].jobs = {}
  BY DEF IInv, LocksHeld
<1> HIDE DEF S
<1>5. /\ Moves
      /\ \A j \in Job \ S : row'[j] = row[j]
      /\ \A j \in S : /\ Taken(row[j], row'[j])
                      /\ row'[j].owner = w /\ row'[j].max = row[j].max
  BY <1>1, <1>2, ClaimRowsMoves
<1>6. ProcsEnd /\ UnlandedKept
  BY <1>2 DEF ProcsEnd, UnlandedKept
<1>7. \A b \in inflight : Undisturbed(b)' => Undisturbed(b)
  BY <1>2 DEF Undisturbed, ClaimOf
<1>8. \A b \in inflight : Sheltered(b) => row'[b.job] = row[b.job]
  <2> SUFFICES ASSUME NEW b \in inflight, Sheltered(b)
               PROVE  row'[b.job] = row[b.job]
    OBVIOUS
  <2>1. b.job \in Job \ S
    BY <1>1, ShelteredRow DEF ClaimedStatus
  <2> QED BY <1>5, <2>1
<1>9. Descends /\ Spares
  BY <1>2, <1>7, <1>8 DEF Descends, Spares, KeptMove, Same
<1>10. \A j \in Job : /\ row[j].status = "unborn" => row'[j].status = "unborn"
                      /\ row'[j].status = "complete" => row[j].status = "complete"
  BY <1>1, <1>5 DEF Taken
<1>11. /\ Unmarked' /\ RowKept' /\ OneEach' /\ KeysUnique' /\ Separate'
       /\ Succeeded' /\ Remembered' /\ CompleteMeansSucceeded'
  BY <1>2, <1>5, <1>6, <1>9, <1>10, UnmarkedKept, RowKeptKept, OneEachKept,
     KeysKept, SeparateKept, SucceededKept, RememberedKept, CompleteKept
     DEF PInv
<1>12. Leased'
  BY <1>2 DEF PInv, Leased
<1>13. Undoable'
  <2>1. ASSUME NEW b \in unacked
        PROVE  Coherent(b)' /\ \A c \in b : MayUndo(c)'
    <3>1. Coherent(b) /\ b \subseteq ClaimType /\ \A c \in b : MayUndo(c)
      BY UndoableParts DEF IInv, RestOK, PInv
    <3>2. ASSUME NEW c \in b PROVE MayUndo(c)'
      <4>1. c \in ClaimType /\ MayUndo(c) /\ c.worker \in Worker
        BY <3>1 DEF ClaimType
      <4>2. CASE c.worker # w \/ c.job \notin S
        BY <1>2, <1>3, <1>5, <4>1, <4>2, MayUndoKept DEF S
      <4>3. CASE Used(c)
        BY <1>5, <4>1, <4>3, UsedKept DEF MayUndo
      <4>4. CASE c.job \in S /\ c.n = row[c.job].attempts + 1
        <5>1. row'[c.job].status = "running" /\ row'[c.job].attempts = c.n
          BY <1>5, <4>4 DEF Taken
        <5>2. c.n <= row'[c.job].attempts
          BY <4>1, <5>1, CeilingAssumption DEF ClaimType
        <5> QED BY <5>1, <5>2 DEF MayUndo, Used
      <4>5. CASE c \in unlanded
        BY <1>2, <4>5 DEF MayUndo
      <4> QED BY <4>1, <4>2, <4>3, <4>4, <4>5 DEF MayUndo
    <3> QED BY <3>1, <3>2 DEF Coherent
  <2>2. ASSUME NEW c \in dropped PROVE Used(c)'
    <3>1. c \in ClaimType /\ Used(c)
      BY DEF IInv, RestOK, PInv, Undoable
    <3> QED BY <1>5, <3>1, UsedKept
  <2>3. /\ \A b \in unacked' : Coherent(b)' /\ \A c \in b : MayUndo(c)'
        /\ \A c \in dropped' : Used(c)'
    BY <1>2, <2>1, <2>2
  <2> QED BY <2>3 DEF Undoable, Coherent, MayUndo
<1>14. Covered'
  <2> SUFFICES ASSUME NEW v \in Worker, proc'[v] = "up", NEW j \in tx'[v].jobs
               PROVE  [worker |-> v, job |-> j, n |-> row'[j].attempts + 1]
                          \in UNION unacked'
    BY DEF Covered, ClaimsOf
  <2>1. v # w /\ j \in tx[v].jobs
    BY <1>3
  <2>2. row'[j].attempts = row[j].attempts
    BY <1>5, <2>1, LockedKept
  <2> QED BY <1>2, <2>1, <2>2 DEF PInv, Covered, ClaimsOf
<1>15. AllKnown'
  <2> SUFFICES ASSUME NEW c \in ClaimType, Holds(c)' PROVE Known(c)'
    BY DEF AllKnown
  <2>1. c.job \in Job /\ c.worker \in Worker
    BY DEF ClaimType
  <2>2. CASE c.job \in S
    <3>1. c.worker = w /\ c.n = row[c.job].attempts + 1
      BY <1>5, <2>2 DEF Holds, Owns, Taken
    <3>2. c = [worker |-> w, job |-> c.job, n |-> row[c.job].attempts + 1]
      BY <3>1 DEF ClaimType
    <3>3. proc[w] = "up" => c \in UNION unacked
      BY <2>2, <3>2 DEF PInv, Covered, ClaimsOf, S
    <3> QED BY <1>2, <3>1, <3>3 DEF Known
  <2>3. CASE c.job \notin S
    <3>1. Holds(c)
      BY <1>5, <2>1, <2>3 DEF Holds
    <3>2. Known(c)
      BY <3>1 DEF PInv, AllKnown
    <3> QED BY <1>2, <3>2 DEF Known
  <2> QED BY <2>2, <2>3
<1> QED BY <1>11, <1>12, <1>13, <1>14, <1>15 DEF PInv

LEMMA CommitNeverLandsKeeps ==
    ASSUME IInv, IInv', PInv, NEW w \in Worker, CommitNeverLands(w)
    PROVE  PInv'
<1>1. /\ tx' = [tx EXCEPT ![w] = NoTx]
      /\ unlanded' = unlanded \cup
             (ClaimsOf(w, tx[w].jobs) \cap UNION unacked)
      /\ UNCHANGED <<row, lease, proc, inflight, unacked, dropped, stalled,
                     succeeded>>
  BY DEF CommitNeverLands, tables
<1>2. tx'[w].jobs = {} /\ \A v \in Worker \ {w} : tx'[v].jobs = tx[v].jobs
  BY <1>1 DEF IInv, RestOK, NoTx
<1>3. ProcsEnd /\ UnlandedKept /\ Moves
  BY <1>1, Unmoved DEF ProcsEnd, UnlandedKept
<1>4. /\ Unmarked' /\ RowKept' /\ OneEach' /\ KeysUnique'
      /\ Succeeded' /\ Remembered' /\ CompleteMeansSucceeded'
  BY <1>1, <1>3, SameWork
<1>5. Separate'
  BY <1>1 DEF PInv, Separate, ClaimOf
<1>6. Leased'
  BY <1>1 DEF PInv, Leased
<1>7. AllKnown'
  BY <1>1 DEF PInv, AllKnown, Known, Holds, ClaimOf
<1>8. Covered'
  BY <1>1, <1>2 DEF PInv, Covered, ClaimsOf
<1>9. Undoable'
  <2>1. ASSUME NEW b \in unacked
        PROVE  Coherent(b)' /\ \A c \in b : MayUndo(c)'
    <3>1. Coherent(b) /\ b \subseteq ClaimType /\ \A c \in b : MayUndo(c)
      BY UndoableParts DEF IInv, RestOK, PInv
    <3>2. ASSUME NEW c \in b PROVE MayUndo(c)'
      <4>1. c \in ClaimType /\ MayUndo(c) /\ c.worker \in Worker
        BY <3>1 DEF ClaimType
      <4>2. CASE /\ c.worker = w /\ c.job \in tx[w].jobs
                 /\ c.n = row[c.job].attempts + 1
        <5>1. c = [worker |-> w, job |-> c.job, n |-> row[c.job].attempts + 1]
          BY <4>1, <4>2 DEF ClaimType
        <5>2. c \in unlanded'
          BY <1>1, <4>2, <5>1 DEF ClaimsOf
        <5> QED BY <5>2 DEF MayUndo
      <4>3. CASE c \in unlanded \/ Used(c)
        BY <1>1, <1>3, <4>1, <4>3, UsedKept DEF MayUndo
      <4>4. CASE /\ c.worker # w /\ c.job \in tx[c.worker].jobs
                 /\ c.n = row[c.job].attempts + 1
        BY <1>1, <1>2, <4>1, <4>4 DEF MayUndo
      <4> QED BY <4>1, <4>2, <4>3, <4>4 DEF MayUndo
    <3> QED BY <3>1, <3>2 DEF Coherent
  <2>2. ASSUME NEW c \in dropped PROVE Used(c)'
    BY <1>1 DEF PInv, Undoable, Used
  <2>3. /\ \A b \in unacked' : Coherent(b)' /\ \A c \in b : MayUndo(c)'
        /\ \A c \in dropped' : Used(c)'
    BY <1>1, <2>1, <2>2
  <2> QED BY <2>3 DEF Undoable, Coherent, MayUndo
<1> QED BY <1>4, <1>5, <1>6, <1>7, <1>8, <1>9 DEF PInv

-----------------------------------------------------------------------------
(***************************************************************************)
(* Steps of an attempt                                                     *)
(***************************************************************************)

LeaseSpans ==
    \A w \in Worker : /\ lease'[w].present = lease[w].present
                      /\ lease'[w].left = lease[w].left

\* The row a step of the attempt leaves: the same, or the end of the attempt.
EndsRow(a, s) ==
    /\ Holds(ClaimOf(a))
    /\ GivenBack(row[a.job], s) \/ Over(row[a.job], s)
    /\ s.status = "complete" => <<a.job, a.n>> \in succeeded' /\ s.attempts = a.n

\* What goes on of an attempt after a step of its own.
HeirOf(a, b) ==
    /\ ClaimOf(b) = ClaimOf(a)
    /\ RememberedFor(b)'
    /\ b.end = "success" => <<a.job, a.n>> \in succeeded'
    /\ Undisturbed(b)' => Undisturbed(a) /\ UNCHANGED row

LEMMA TurnOK ==
    ASSUME IInv, IInv', PInv, NEW a \in inflight, NEW B,
           inflight' = (inflight \ {a}) \cup B,
           \A b \in B : HeirOf(a, b),
           \/ UNCHANGED row
           \/ /\ \A j \in Job \ {a.job} : row'[j] = row[j]
              /\ EndsRow(a, row'[a.job]),
           B = {} => \/ ~Holds(ClaimOf(a))' \/ proc[a.worker] # "up"
                     \/ ClaimOf(a) \in dropped',
           \/ dropped' = dropped
           \/ B = {} /\ dropped' = dropped \cup {ClaimOf(a)},
           UNCHANGED <<proc, tx, unacked, stalled, unlanded>>, LeaseSpans,
           succeeded \subseteq succeeded'
    PROVE  PInv'
<1>1. /\ a.job \in Job /\ a.worker \in Worker /\ row[a.job] \in Sound
      /\ ClaimOf(a) \in ClaimType /\ Used(ClaimOf(a))
      /\ ClaimOf(a).job = a.job /\ ClaimOf(a).worker = a.worker
      /\ ClaimOf(a).n = a.n
  BY AttemptFields, ClaimOfAttempt
<1>2. Moves
  BY <1>1, BatchMoves DEF EndsRow, RowMove
<1>3. \A j \in Job : row'[j] # row[j] =>
          /\ j = a.job /\ EndsRow(a, row'[j])
          /\ row[j].status \in ClaimedStatus
  BY <1>1 DEF EndsRow, Holds, ClaimedStatus
<1>4. ProcsEnd /\ SameLocks /\ UnlandedKept
  BY DEF ProcsEnd, SameLocks, UnlandedKept
<1>5. \A b \in inflight' : \/ b \in inflight /\ b # a
                           \/ HeirOf(a, b)
  OBVIOUS
<1>6. \A b \in inflight : Undisturbed(b)' => Undisturbed(b)
  BY DEF Undisturbed, ClaimOf
<1>7. Descends
  BY <1>5, <1>6 DEF Descends, HeirOf
<1>8. ASSUME NEW b \in inflight, b # a, Sheltered(b)
      PROVE  row'[b.job] = row[b.job]
  <2>1. b.job \in Job /\ Owns(row[b.job], b.worker, b.n)
    BY <1>8, ShelteredRow
  <2>2. ASSUME row'[b.job] # row[b.job] PROVE FALSE
    <3>1. b.job = a.job /\ Owns(row[a.job], a.worker, a.n)
      BY <1>1, <1>3, <2>1, <2>2 DEF EndsRow, Holds
    <3>2. b.n = a.n
      BY <2>1, <3>1 DEF Owns
    <3> QED BY <1>8, <3>1, <3>2 DEF IInv, UniqueClaim
  <2> QED BY <2>2
<1>9. Spares
  <2> SUFFICES ASSUME NEW b \in inflight', Undisturbed(b)'
               PROVE  \E c \in inflight :
                        /\ ClaimOf(b) = ClaimOf(c) /\ Undisturbed(c)
                        /\ Sheltered(c) => KeptMove(c.job, row[c.job], row'[c.job])
    BY DEF Spares
  <2>1. CASE b \in inflight /\ b # a
    BY <1>6, <1>8, <2>1 DEF KeptMove, Same
  <2>2. CASE HeirOf(a, b)
    BY <2>2 DEF HeirOf, KeptMove, Same
  <2> QED BY <1>5, <2>1, <2>2
<1>10. Unmarked' /\ RowKept' /\ OneEach'
  BY <1>2, <1>7, <1>9, UnmarkedKept, RowKeptKept, OneEachKept DEF PInv
<1>11. Leased'
  <2>1. \A b \in inflight' : \E c \in inflight : b.worker = c.worker
    BY <1>7 DEF Descends, ClaimOf
  <2>2. \A b \in inflight : b.worker \in Worker
    BY AttemptFields
  <2> QED BY <2>1, <2>2 DEF PInv, Leased, LeaseSpans
<1>12. Undoable'
  BY <1>1, <1>2, <1>4, UndoableKept DEF PInv
<1>13. Covered'
  BY <1>2, <1>4, CoveredKept DEF PInv
<1>14. Separate'
  <2> SUFFICES ASSUME NEW b \in inflight'
               PROVE  /\ ClaimOf(b) \notin dropped'
                      /\ ClaimOf(b) \in UNION unacked => ClaimOf(b) \in unlanded
    BY DEF Separate, ClaimOf
  <2>1. PICK c \in inflight : ClaimOf(b) = ClaimOf(c)
    BY <1>7 DEF Descends
  <2>2. /\ ClaimOf(b) \notin dropped
        /\ ClaimOf(b) \in UNION unacked => ClaimOf(b) \in unlanded
    BY <2>1 DEF PInv, Separate
  <2>3. B = {} => ClaimOf(b) # ClaimOf(a)
    BY SameClaim
  <2> QED BY <2>2, <2>3
<1>15. KeysUnique'
  <2>1. \A j \in Job : row[j].status = "unborn" => row'[j].status = "unborn"
    BY <1>3 DEF ClaimedStatus
  <2> QED BY <1>2, <2>1, KeysKept DEF PInv
<1>16. Succeeded'
  <2>1. \A b : HeirOf(a, b) => b.job = a.job /\ b.n = a.n
    BY DEF HeirOf, ClaimOf
  <2> QED BY <1>5, <2>1 DEF PInv, Succeeded, HeirOf
<1>17. Remembered'
  <2>1. \A b \in inflight : RememberedFor(b)'
    BY <1>2, <1>4, RememberedStays DEF PInv, Remembered
  <2> QED BY <1>5, <2>1 DEF Remembered, HeirOf
<1>18. AllKnown'
  <2>1. Answers
    <3> SUFFICES ASSUME NEW c \in ClaimType, Known(c), Holds(c)' PROVE Known(c)'
      BY DEF Answers
    <3>1. ASSUME NEW b \in inflight, b # a, ClaimOf(b) = c PROVE Known(c)'
      BY <3>1 DEF Known
    <3>2. CASE c = ClaimOf(a)
      <4>1. CASE B = {}
        BY <1>1, <3>2, <4>1 DEF Known
      <4>2. CASE B # {}
        <5>1. PICK b \in B : ClaimOf(b) = c
          BY <3>2, <4>2 DEF HeirOf
        <5> QED BY <5>1 DEF Known
      <4> QED BY <4>1, <4>2
    <3>3. CASE \/ proc[c.worker] # "up" \/ c \in dropped \cup UNION unacked
      BY <3>3 DEF Known
    <3> QED BY <3>1, <3>2, <3>3 DEF Known
  <2>2. ASSUME NEW j \in Job PROVE ~Taken(row[j], row'[j])
    <3>1. CASE row'[j] = row[j]
      BY <3>1 DEF Taken
    <3>2. CASE row[j].status \in ClaimedStatus
      BY <3>2 DEF Taken, ClaimedStatus
    <3> QED BY <1>3, <3>1, <3>2
  <2> QED BY <1>2, <2>1, <2>2, KnownKept DEF PInv
<1>19. CompleteMeansSucceeded'
  <2>1. \A j \in Job : row'[j].status = "complete" =>
            row[j].status = "complete" \/ <<j, row'[j].attempts>> \in succeeded'
    BY <1>3 DEF EndsRow
  <2> QED BY <1>2, <2>1, CompleteKept DEF PInv
<1> QED BY <1>10, <1>11, <1>12, <1>13, <1>14, <1>15, <1>16, <1>17, <1>18, <1>19
        DEF PInv

LEMMA EditedFields ==
    ASSUME NEW a \in AttemptType
    PROVE  /\ \A x : LET b == [a EXCEPT !.stage = x]
                     IN  /\ ClaimOf(b) = ClaimOf(a) /\ b.job = a.job
                         /\ b.worker = a.worker /\ b.retryable = a.retryable
                         /\ b.stage = x /\ b.end = a.end /\ b.reason = a.reason
                         /\ b.polled = a.polled
           /\ \A x : LET b == [a EXCEPT !.end = x]
                     IN  /\ ClaimOf(b) = ClaimOf(a) /\ b.job = a.job
                         /\ b.worker = a.worker /\ b.retryable = a.retryable
                         /\ b.stage = a.stage /\ b.end = x /\ b.reason = a.reason
                         /\ b.polled = a.polled
           /\ \A x : LET b == [a EXCEPT !.reason = x]
                     IN  /\ ClaimOf(b) = ClaimOf(a) /\ b.job = a.job
                         /\ b.worker = a.worker /\ b.retryable = a.retryable
                         /\ b.stage = a.stage /\ b.end = a.end /\ b.reason = x
                         /\ b.polled = a.polled
           /\ \A x : LET b == [a EXCEPT !.polled = x]
                     IN  /\ ClaimOf(b) = ClaimOf(a) /\ b.job = a.job
                         /\ b.worker = a.worker /\ b.retryable = a.retryable
                         /\ b.stage = a.stage /\ b.end = a.end
                         /\ b.reason = a.reason /\ b.polled = x
BY DEF AttemptType, ClaimOf

LEMMA BecomesFields ==
    ASSUME NEW a \in AttemptType, NEW stage, NEW end
    PROVE  LET b == Becomes(a, stage, end)
           IN  /\ ClaimOf(b) = ClaimOf(a) /\ b.job = a.job
               /\ b.worker = a.worker /\ b.retryable = a.retryable
               /\ b.stage = stage /\ b.end = end /\ b.reason = a.reason
               /\ b.polled = a.polled
BY DEF AttemptType, ClaimOf, Becomes

\* A successor past the handler, with the memory of its attempt.
LEMMA LaterHeir ==
    ASSUME IInv, PInv, Moves, ProcsEnd, NEW a \in inflight, NEW b,
           ClaimOf(b) = ClaimOf(a), b.job = a.job, b.worker = a.worker,
           b.retryable = a.retryable, b.reason = a.reason, b.polled = a.polled,
           b.stage \in {"finalize", "fallback", "reread"},
           b.stage = "reread" =>
               ~(Holds(ClaimOf(a)) /\ row[a.job].status = "running")',
           b.end = "cancelled" => a.end = "cancelled",
           b.end = "success" => a.end = "success",
           succeeded \subseteq succeeded'
    PROVE  HeirOf(a, b)
<1>1. RememberedFor(a)'
  BY RememberedStays DEF PInv, Remembered
<1>2. RememberedFor(b)'
  BY <1>1 DEF RememberedFor
<1>3. ~Undisturbed(b)'
  BY DEF Undisturbed
<1> QED BY <1>2, <1>3 DEF HeirOf, PInv, Succeeded

\* A step of the worker alone.
LEMMA LocalTurn ==
    ASSUME IInv, IInv', PInv, NEW a \in inflight, NEW b, Replace(a, b), Local,
           HeirOf(a, b), succeeded \subseteq succeeded'
    PROVE  PInv'
<1> DEFINE B == {b}
<1>1. inflight' = (inflight \ {a}) \cup B /\ B # {} /\ \A c \in B : HeirOf(a, c)
  BY DEF Replace
<1>2. /\ UNCHANGED <<row, proc, tx, unacked, dropped, stalled, unlanded>>
      /\ LeaseSpans
  BY DEF Local, tables, pending, LeaseSpans
<1> HIDE DEF B
<1> QED BY <1>1, <1>2, TurnOK

LEMMA LocalFacts ==
    ASSUME IInv, Local
    PROVE  Moves /\ ProcsEnd /\ UNCHANGED <<row, proc, stalled, unlanded>>
  BY Unmoved DEF Local, tables, ProcsEnd

\* A step of the worker alone that ends the attempt.
LEMMA LocalEnd ==
    ASSUME IInv, IInv', PInv, NEW a \in inflight, inflight' = inflight \ {a},
           Local, UNCHANGED succeeded,
           ~Holds(ClaimOf(a)) \/ proc[a.worker] # "up"
    PROVE  PInv'
<1> DEFINE B == {}
<1>1. inflight' = (inflight \ {a}) \cup B /\ \A c \in B : HeirOf(a, c)
  OBVIOUS
<1>2. /\ UNCHANGED <<row, proc, tx, unacked, dropped, stalled, unlanded>>
      /\ LeaseSpans
  BY DEF Local, tables, pending, LeaseSpans
<1>3. ~Holds(ClaimOf(a))' \/ proc[a.worker] # "up"
  BY <1>2 DEF Holds, ClaimOf
<1> HIDE DEF B
<1> QED BY <1>1, <1>2, <1>3, TurnOK

LEMMA ProcessKeeps ==
    ASSUME IInv, IInv', PInv, NEW a \in inflight, Process(a)
    PROVE  PInv'
<1> DEFINE h == Becomes(a, "handler", "none")
           f == Becomes(a, "finalize", "unhandled")
<1>1. /\ a \in AttemptType /\ a.stage = "buffered" /\ Local
      /\ UNCHANGED succeeded /\ (Replace(a, h) \/ Replace(a, f))
  BY AttemptFields DEF Process
<1>2. /\ ClaimOf(h) = ClaimOf(a) /\ h.job = a.job /\ h.worker = a.worker
      /\ h.retryable = a.retryable /\ h.stage = "handler" /\ h.end = "none"
      /\ h.reason = a.reason /\ h.polled = a.polled
      /\ ClaimOf(f) = ClaimOf(a) /\ f.job = a.job /\ f.worker = a.worker
      /\ f.retryable = a.retryable /\ f.stage = "finalize"
      /\ f.end = "unhandled" /\ f.reason = a.reason /\ f.polled = a.polled
  BY <1>1, BecomesFields
<1> HIDE DEF h, f
<1>3. Moves /\ ProcsEnd /\ UNCHANGED <<row, proc, stalled, unlanded>>
  BY <1>1, LocalFacts
<1>4. HeirOf(a, f)
  BY <1>1, <1>2, <1>3, LaterHeir
<1>5. HeirOf(a, h)
  <2>1. RememberedFor(a) /\ RememberedFor(a)'
    BY <1>3, RememberedStays DEF PInv, Remembered
  <2>2. RememberedFor(h)'
    BY <1>2, <2>1 DEF RememberedFor
  <2>3. Undisturbed(h)' => Undisturbed(a)
    BY <1>1, <1>2, <1>3, <2>1 DEF Undisturbed, RememberedFor
  <2> QED BY <1>2, <1>3, <2>2, <2>3 DEF HeirOf
<1> QED BY <1>1, <1>4, <1>5, LocalTurn

LEMMA HandlerEndsKeeps ==
    ASSUME IInv, IInv', PInv, NEW a \in inflight, NEW end \in End,
           HandlerEnds(a, end)
    PROVE  PInv'
<1> DEFINE f == Becomes(a, "finalize", end)
           reason == IF end = "aborted" THEN f.reason ELSE "none"
           polled == IF end = "aborted" THEN f.polled ELSE "none"
           g == [f EXCEPT !.reason = reason]
           b == [g EXCEPT !.polled = polled]
<1>1. /\ a \in AttemptType /\ f \in AttemptType
      /\ ClaimOf(f) = ClaimOf(a) /\ f.job = a.job
      /\ f.worker = a.worker /\ f.retryable = a.retryable
      /\ f.stage = "finalize" /\ f.end = end /\ f.reason = a.reason
      /\ f.polled = a.polled
  BY AttemptFields, BecomesFields, BecomesOK DEF Stage
<1>2. /\ Replace(a, b) /\ Local /\ end # "cancelled"
      /\ succeeded' = IF end = "success" THEN succeeded \cup {<<a.job, a.n>>}
                                         ELSE succeeded
  BY DEF HandlerEnds
<1>3. /\ reason = a.reason \/ reason = "none"
      /\ polled = a.polled \/ polled = "none"
  BY <1>1
<1>8. reason \in Reason
  BY <1>1 DEF AttemptType, Reason
<1> HIDE DEF f, reason, polled
<1>4. /\ ClaimOf(b) = ClaimOf(a) /\ b.job = a.job /\ b.worker = a.worker
      /\ b.retryable = a.retryable /\ b.stage = "finalize" /\ b.end = end
      /\ b.reason = reason /\ b.polled = polled
  <2>1. /\ ClaimOf(g) = ClaimOf(f) /\ g.job = f.job /\ g.worker = f.worker
        /\ g.retryable = f.retryable /\ g.stage = f.stage /\ g.end = f.end
        /\ g.reason = reason
    BY <1>1, EditedFields
  <2>2. g \in AttemptType
    BY <1>1, <1>8, AttemptEdits
  <2> HIDE DEF g
  <2>3. /\ ClaimOf(b) = ClaimOf(g) /\ b.job = g.job /\ b.worker = g.worker
        /\ b.retryable = g.retryable /\ b.stage = g.stage /\ b.end = g.end
        /\ b.reason = g.reason /\ b.polled = polled
    BY <2>2, EditedFields
  <2> QED BY <1>1, <2>1, <2>3
<1> HIDE DEF b
<1>5. Moves /\ ProcsEnd /\ UNCHANGED <<row, proc, stalled, unlanded>>
  BY <1>2, LocalFacts
<1>6. RememberedFor(b)'
  <2>1. RememberedFor(a)'
    BY <1>5, RememberedStays DEF PInv, Remembered
  <2> QED BY <1>2, <1>3, <1>4, <2>1 DEF RememberedFor
<1>7. HeirOf(a, b)
  BY <1>2, <1>4, <1>6 DEF HeirOf, Undisturbed
<1> QED BY <1>2, <1>7, LocalTurn

LEMMA HandlerCancelledKeeps ==
    ASSUME IInv, IInv', PInv, NEW a \in inflight, HandlerCancelled(a)
    PROVE  PInv'
<1> DEFINE b == Becomes(a, "finalize", "cancelled")
<1>1. /\ Replace(a, b) /\ Local /\ UNCHANGED succeeded
      /\ (a.reason # "none" \/ proc[a.worker] # "up")
  BY DEF HandlerCancelled, Stopping
<1>2. /\ ClaimOf(b) = ClaimOf(a) /\ b.job = a.job /\ b.worker = a.worker
      /\ b.retryable = a.retryable /\ b.stage = "finalize"
      /\ b.end = "cancelled" /\ b.reason = a.reason /\ b.polled = a.polled
  BY AttemptFields, BecomesFields
<1> HIDE DEF b
<1>3. Moves /\ ProcsEnd /\ UNCHANGED <<row, proc, stalled, unlanded>>
  BY <1>1, LocalFacts
<1>4. RememberedFor(b)'
  <2>1. RememberedFor(a)'
    BY <1>3, RememberedStays DEF PInv, Remembered
  <2> QED BY <1>1, <1>2, <1>3, <2>1 DEF RememberedFor
<1>5. HeirOf(a, b)
  BY <1>2, <1>4 DEF HeirOf, Undisturbed
<1> QED BY <1>1, <1>5, LocalTurn

\* What a poll reads is so of the row.
LEMMA PollAbortKeeps ==
    ASSUME IInv, IInv', PInv, NEW a \in inflight, PollAbort(a)
    PROVE  PInv'
<1>1. PICK polled : /\ Replace(a, [a EXCEPT !.polled = polled]) /\ Local
                    /\ UNCHANGED succeeded /\ polled # "none"
                    /\ polled = PolledReason(a)
  BY DEF PollAbort
<1>2. /\ polled = "superseded" => ~Holds(ClaimOf(a))
      /\ polled = "swept" => row[a.job].status # "running"
  BY <1>1 DEF PolledReason, Holds, Owns, ClaimOf
<1> DEFINE b == [a EXCEPT !.polled = polled]
<1>3. /\ ClaimOf(b) = ClaimOf(a) /\ b.job = a.job /\ b.worker = a.worker
      /\ b.retryable = a.retryable /\ b.stage = a.stage
      /\ b.end = a.end /\ b.reason = a.reason /\ b.polled = polled
  BY AttemptFields, EditedFields
<1>10. Replace(a, b)
  BY <1>1
<1> HIDE DEF b
<1>4. Moves /\ ProcsEnd /\ UNCHANGED <<row, proc, stalled, unlanded>>
  BY <1>1, LocalFacts
<1>5. RememberedFor(b)'
  <2>1. RememberedFor(a)'
    BY <1>4, RememberedStays DEF PInv, Remembered
  <2>2. polled = "superseded" => ~Holds(ClaimOf(a))'
    BY <1>2, <1>4 DEF Holds, ClaimOf
  <2> QED BY <1>1, <1>2, <1>3, <1>4, <2>1, <2>2 DEF RememberedFor
<1>6. Undisturbed(b)' => Undisturbed(a) /\ UNCHANGED row
  BY <1>3, <1>4 DEF Undisturbed
<1>7. b.end = "success" => <<a.job, a.n>> \in succeeded'
  BY <1>1, <1>3 DEF PInv, Succeeded
<1>8. ClaimOf(b) = ClaimOf(a)
  BY <1>3
<1>9. HeirOf(a, b)
  BY <1>5, <1>6, <1>7, <1>8 DEF HeirOf
<1> QED BY <1>1, <1>9, <1>10, LocalTurn

\* What a poll has read is still so when it is acted on.
LEMMA RequestAbortKeeps ==
    ASSUME IInv, IInv', PInv, NEW a \in inflight, RequestAbort(a)
    PROVE  PInv'
<1> DEFINE g == [a EXCEPT !.reason = a.polled]
           b == [g EXCEPT !.polled = "none"]
<1>1. /\ Replace(a, b) /\ Local /\ UNCHANGED succeeded /\ a.polled # "none"
  BY DEF RequestAbort
<1>2. a \in AttemptType /\ a.polled \in Reason
  BY AttemptFields DEF AttemptType
<1>3. /\ ClaimOf(b) = ClaimOf(a) /\ b.job = a.job /\ b.worker = a.worker
      /\ b.retryable = a.retryable /\ b.stage = a.stage
      /\ b.end = a.end /\ b.reason = a.polled /\ b.polled = "none"
  <2>1. /\ ClaimOf(g) = ClaimOf(a) /\ g.job = a.job /\ g.worker = a.worker
        /\ g.retryable = a.retryable /\ g.stage = a.stage
        /\ g.end = a.end /\ g.reason = a.polled
    BY <1>2, EditedFields
  <2>2. g \in AttemptType
    BY <1>2, AttemptEdits
  <2> HIDE DEF g
  <2>3. /\ ClaimOf(b) = ClaimOf(g) /\ b.job = g.job /\ b.worker = g.worker
        /\ b.retryable = g.retryable /\ b.stage = g.stage
        /\ b.end = g.end /\ b.reason = g.reason /\ b.polled = "none"
    BY <2>2, EditedFields
  <2> QED BY <2>1, <2>3
<1> HIDE DEF b
<1>4. Moves /\ ProcsEnd /\ UNCHANGED <<row, proc, stalled, unlanded>>
  BY <1>1, LocalFacts
<1>5. RememberedFor(b)'
  <2>1. RememberedFor(a)'
    BY <1>4, RememberedStays DEF PInv, Remembered
  <2> QED BY <1>1, <1>3, <2>1 DEF RememberedFor
<1>6. Undisturbed(b)' => Undisturbed(a) /\ UNCHANGED row
  BY <1>3, <1>4 DEF Undisturbed
<1>7. b.end = "success" => <<a.job, a.n>> \in succeeded'
  BY <1>1, <1>3 DEF PInv, Succeeded
<1>8. ClaimOf(b) = ClaimOf(a)
  BY <1>3
<1>9. HeirOf(a, b)
  BY <1>5, <1>6, <1>7, <1>8 DEF HeirOf
<1> QED BY <1>1, <1>9, LocalTurn

-----------------------------------------------------------------------------
(***************************************************************************)
(* Finalization                                                            *)
(***************************************************************************)

\* One guarded statement of an attempt that is past its handler.
LEMMA StatementKeeps ==
    ASSUME IInv, IInv', PInv, NEW a \in inflight, NEW allowed, NEW new,
           NEW refused \in Refusals(a),
           Statement(a, allowed, new, refused),
           allowed =>
               /\ Holds(ClaimOf(a))
               /\ GivenBack(row[a.job], new) \/ Over(row[a.job], new)
               /\ new.status = "complete" =>
                      a.end = "success" /\ new.attempts = a.n,
           ~allowed /\ refused = Unconfirmed =>
               ~Holds(ClaimOf(a)) \/ proc[a.worker] # "up",
           ~allowed /\ refused = Reread(a) =>
               ~(Holds(ClaimOf(a)) /\ row[a.job].status = "running"),
           UNCHANGED <<proc, tx, unacked, dropped, stalled, unlanded, succeeded>>,
           LeaseSpans
    PROVE  PInv'
<1>1. a \in AttemptType /\ a.job \in Job /\ ClaimOf(a).job = a.job
  BY AttemptFields DEF ClaimOf
<1>2. ProcsEnd
  BY DEF ProcsEnd
<1>3. ASSUME NEW x \in {"finalize", "fallback", "reread"}, Moves,
             x = "reread" =>
                 ~(Holds(ClaimOf(a)) /\ row[a.job].status = "running")'
      PROVE  HeirOf(a, [a EXCEPT !.stage = x])
  <2> DEFINE b == [a EXCEPT !.stage = x]
  <2>1. /\ ClaimOf(b) = ClaimOf(a) /\ b.job = a.job
        /\ b.worker = a.worker /\ b.retryable = a.retryable
        /\ b.stage = x /\ b.end = a.end /\ b.reason = a.reason
        /\ b.polled = a.polled
    BY <1>1, EditedFields
  <2> HIDE DEF b
  <2>2. HeirOf(a, b)
    BY <1>2, <1>3, <2>1, LaterHeir
  <2> QED BY <2>2 DEF b
<1>4. CASE allowed
  <2>1. row' = [row EXCEPT ![a.job] = new]
    BY <1>4 DEF Statement
  <2>2. row'[a.job] = new /\ \A j \in Job \ {a.job} : row'[j] = row[j]
    BY <1>1, <2>1 DEF IInv
  <2>3. EndsRow(a, row'[a.job])
    BY <1>4, <2>2 DEF EndsRow, PInv, Succeeded
  <2>4. Moves
    BY <1>4, <2>2, BatchMoves DEF RowMove
  <2>5. ~Holds(ClaimOf(a))'
    <3>1. NoRow("gone").status = "gone"
      BY DEF NoRow
    <3>2. new.status \notin ClaimedStatus
      BY <1>4, <3>1 DEF GivenBack, Over, Terminal, ClaimedStatus
    <3> QED BY <1>1, <2>2, <3>2 DEF Holds, ClaimedStatus, ClaimOf
  <2>6. HeirOf(a, [a EXCEPT !.stage = "finalize"])
    BY <1>3, <2>4
  <2>7. CASE inflight' = inflight \ {a}
    <3> DEFINE B == {}
    <3>1. inflight' = (inflight \ {a}) \cup B /\ \A b \in B : HeirOf(a, b)
      BY <2>7
    <3> HIDE DEF B
    <3> QED BY <2>2, <2>3, <2>5, <3>1, TurnOK
  <2>8. CASE Replace(a, [a EXCEPT !.stage = "finalize"])
    <3> DEFINE B == {[a EXCEPT !.stage = "finalize"]}
    <3>1. inflight' = (inflight \ {a}) \cup B /\ \A b \in B : HeirOf(a, b)
      BY <2>6, <2>8 DEF Replace
    <3> HIDE DEF B
    <3> QED BY <2>2, <2>3, <2>5, <3>1, TurnOK
  <2> QED BY <1>4, <2>7, <2>8 DEF Statement
<1>5. CASE ~allowed
  <2>1. UNCHANGED row /\ inflight' = (inflight \ {a}) \cup refused
    BY <1>5 DEF Statement
  <2>2. Moves
    BY <2>1, Unmoved
  <2>3. refused = Unconfirmed => ~Holds(ClaimOf(a))' \/ proc[a.worker] # "up"
    BY <1>5, <2>1 DEF Holds, ClaimOf
  <2>4. refused = Reread(a) =>
            ~(Holds(ClaimOf(a)) /\ row[a.job].status = "running")'
    BY <1>5, <2>1 DEF Holds, ClaimOf
  <2>5. \A b \in refused : HeirOf(a, b)
    BY <1>3, <2>2, <2>4 DEF Refusals, Unconfirmed, Fallback, Reread
  <2>6. refused = {} => refused = Unconfirmed
    BY DEF Unconfirmed
  <2> QED BY <2>1, <2>3, <2>5, <2>6, TurnOK
<1> QED BY <1>4, <1>5

LEMMA FinishAttemptKeeps ==
    ASSUME IInv, IInv', PInv, NEW a \in inflight, NEW status \in Terminal,
           NEW error \in ErrorText \cup {"keep"},
           status = "complete" => error \in ErrorText /\ a.end = "success",
           NEW refused \in {Fallback(a), Unconfirmed},
           refused = Unconfirmed => status = "aborted",
           FinishAttempt(a, status, error, refused)
    PROVE  PInv'
<1> DEFINE r == row[a.job]
           allowed == FinishAllowed(r, a.worker, a.n, status)
           new == Finished(a.job, r, status, error)
<1>1. a.job \in Job /\ r \in Sound
  BY AttemptFields
<1>2. /\ Statement(a, allowed, new, refused)
      /\ UNCHANGED <<lease, proc, tx, unacked, dropped, stalled, unlanded,
                     succeeded>>
  BY DEF FinishAttempt, pending, history
<1>3. allowed => Holds(ClaimOf(a)) /\ r.attempts = a.n
  BY DEF FinishAllowed, Holds, Owns, ClaimOf
<1>4. allowed => /\ Over(r, new)
                 /\ new.status = "complete" => status = "complete"
                 /\ new.status \in Terminal => new.attempts = r.attempts
  BY <1>1, FinishedMoves
<1>5. ~allowed /\ refused = Unconfirmed => ~Holds(ClaimOf(a))
  BY DEF FinishAllowed, Holds, Owns, ClaimOf
<1>6. Fallback(a) # Reread(a) /\ Unconfirmed # Reread(a)
  <2>1. [a EXCEPT !.stage = "fallback"].stage = "fallback"
        /\ [a EXCEPT !.stage = "reread"].stage = "reread"
    BY AttemptFields, EditedFields
  <2> QED BY <2>1 DEF Fallback, Reread, Unconfirmed
<1>7. LeaseSpans
  BY <1>2 DEF LeaseSpans
<1> HIDE DEF allowed, new
<1>8. allowed => (new.status = "complete" =>
                      a.end = "success" /\ new.attempts = a.n)
  BY <1>3, <1>4 DEF Terminal
<1>9. refused \in Refusals(a)
  BY DEF Refusals
<1> QED BY <1>2, <1>3, <1>4, <1>5, <1>6, <1>7, <1>8, <1>9, StatementKeeps

LEMMA FallbackIsOne ==
    ASSUME IInv, NEW a \in inflight
    PROVE  /\ Fallback(a) # Reread(a) /\ Unconfirmed # Reread(a)
           /\ Fallback(a) # Unconfirmed
<1>1. [a EXCEPT !.stage = "fallback"].stage = "fallback"
      /\ [a EXCEPT !.stage = "reread"].stage = "reread"
  BY AttemptFields, EditedFields
<1> QED BY <1>1 DEF Fallback, Reread, Unconfirmed

\* A guarded requeue of an attempt that is past its handler.
LEMMA RequeueKeeps ==
    ASSUME IInv, IInv', PInv, NEW a \in inflight, NEW running \in BOOLEAN,
           NEW refund \in BOOLEAN, NEW error, NEW delay,
           NEW refused \in Refusals(a),
           Statement(a, RequeueAllowed(row[a.job], a.worker, a.n, running, refund),
                     Requeued(row[a.job], error, delay, refund), refused),
           refused = Unconfirmed => proc[a.worker] # "up",
           refused = Reread(a) =>
               ~refund /\ ((running /\ a.retryable) \/ a.reason = "swept"),
           UNCHANGED <<proc, tx, unacked, dropped, stalled, unlanded, succeeded>>,
           LeaseSpans
    PROVE  PInv'
<1> DEFINE r == row[a.job]
           allowed == RequeueAllowed(r, a.worker, a.n, running, refund)
           new == Requeued(r, error, delay, refund)
<1>1. r \in Sound
  BY AttemptFields
<1>2. allowed => Holds(ClaimOf(a))
  BY DEF RequeueAllowed, Holds, Owns, ClaimOf
<1>3. allowed => GivenBack(r, new)
  BY <1>1, RequeuedMoves
<1>4. ~allowed /\ refused = Reread(a) =>
          ~(Holds(ClaimOf(a)) /\ r.status = "running")
  <2> SUFFICES ASSUME ~allowed, refused = Reread(a), Holds(ClaimOf(a)),
                      r.status = "running"
               PROVE  FALSE
    OBVIOUS
  <2>1. RememberedFor(a)
    BY DEF PInv, Remembered
  <2>2. a.reason # "swept"
    BY <2>1 DEF RememberedFor
  <2>3. Retryable(r)
    BY <2>1, <2>2 DEF RememberedFor
  <2>4. Owns(r, a.worker, a.n)
    BY DEF Holds, ClaimOf
  <2> QED BY <2>2, <2>3, <2>4 DEF RequeueAllowed
<1>5. Statement(a, allowed, new, refused)
  OBVIOUS
<1>6. allowed => new.status # "complete"
  BY <1>3 DEF GivenBack
<1> HIDE DEF allowed, new
<1> QED BY <1>2, <1>3, <1>4, <1>5, <1>6, StatementKeeps

LEMMA RetryAttemptKeeps ==
    ASSUME IInv, IInv', PInv, NEW a \in inflight, NEW running \in BOOLEAN,
           NEW error, (running /\ a.retryable) \/ a.reason = "swept",
           RetryAttempt(a, running, error)
    PROVE  PInv'
<1>1. LeaseSpans
  BY DEF RetryAttempt, LeaseSpans
<1>2. Unconfirmed # Reread(a) /\ Reread(a) \in Refusals(a)
  BY FallbackIsOne DEF Refusals
<1> QED BY <1>1, <1>2, RequeueKeeps DEF RetryAttempt, pending, history

LEMMA RequeueShutdownKeeps ==
    ASSUME IInv, IInv', PInv, NEW a \in inflight, proc[a.worker] # "up",
           RequeueShutdown(a, Unconfirmed)
    PROVE  PInv'
<1>1. LeaseSpans
  BY AttemptFields, LeaseClosed DEF RequeueShutdown, LeaseSpans
<1>2. Unconfirmed # Reread(a) /\ Unconfirmed \in Refusals(a)
  BY FallbackIsOne DEF Refusals
<1> QED BY <1>1, <1>2, RequeueKeeps DEF RequeueShutdown, pending, history

LEMMA FinalizeSuccessKeeps ==
    ASSUME IInv, IInv', PInv, NEW a \in inflight, FinalizeSuccess(a)
    PROVE  PInv'
  BY FinishAttemptKeeps, FallbackIsOne
     DEF FinalizeSuccess, Terminal, ErrorText

LEMMA FinalizeErroredKeeps ==
    ASSUME IInv, IInv', PInv, NEW a \in inflight, FinalizeErrored(a)
    PROVE  PInv'
<1>1. CASE ShutdownRefund(a) /\ RequeueShutdown(a, Unconfirmed)
  BY <1>1, RequeueShutdownKeeps DEF ShutdownRefund, Stopping
<1>2. CASE a.retryable /\ RetryAttempt(a, TRUE, "other")
  BY <1>2, RetryAttemptKeeps
<1>3. CASE FinishAttempt(a, "failed", "other", Fallback(a))
  BY <1>3, FinishAttemptKeeps, FallbackIsOne DEF Terminal, ErrorText
<1> QED BY <1>1, <1>2, <1>3 DEF FinalizeErrored

LEMMA FinalizeCancelledKeeps ==
    ASSUME IInv, IInv', PInv, NEW a \in inflight, FinalizeCancelled(a)
    PROVE  PInv'
<1>1. CASE a.reason = "swept" /\ RetryAttempt(a, FALSE, "keep")
  BY <1>1, RetryAttemptKeeps
<1>2. CASE \E error \in {"swept", "user", "other"} :
              FinishAttempt(a, "aborted", error, Unconfirmed)
  BY <1>2, FinishAttemptKeeps DEF Terminal, ErrorText
<1>3. CASE a.reason = "superseded" /\ FinalizeSuperseded(a)
  <2>1. Local /\ UNCHANGED succeeded /\ inflight' = inflight \ {a}
    BY <1>3 DEF FinalizeSuperseded
  <2>2. ~Holds(ClaimOf(a))
    BY <1>3 DEF PInv, Remembered, RememberedFor
  <2> QED BY <2>1, <2>2, LocalEnd
<1>4. CASE a.reason = "none" /\ RequeueShutdown(a, Unconfirmed)
  <2>1. proc[a.worker] # "up"
    BY <1>4 DEF FinalizeCancelled, PInv, Remembered, RememberedFor
  <2> QED BY <1>4, <2>1, RequeueShutdownKeeps
<1> QED BY <1>1, <1>2, <1>3, <1>4 DEF FinalizeCancelled

LEMMA FinalizeUnhandledKeeps ==
    ASSUME IInv, IInv', PInv, NEW a \in inflight, FinalizeUnhandled(a)
    PROVE  PInv'
<1>1. LeaseSpans
  BY DEF FinalizeUnhandled, LeaseSpans
<1>2. /\ Fallback(a) # Reread(a) /\ Fallback(a) # Unconfirmed
      /\ Fallback(a) \in Refusals(a)
  BY FallbackIsOne DEF Refusals
<1> QED BY <1>1, <1>2, RequeueKeeps DEF FinalizeUnhandled, pending, history

LEMMA TryFinalizeKeeps ==
    ASSUME IInv, IInv', PInv, NEW a \in inflight, TryFinalize(a)
    PROVE  PInv'
  BY FinalizeSuccessKeeps, FinalizeErroredKeeps, FinalizeCancelledKeeps,
     FinalizeUnhandledKeeps DEF TryFinalize

\* A statement that lands ends the attempt, whatever its process hears of it.
LEMMA LandedTurn ==
    ASSUME IInv, IInv', PInv, NEW a \in inflight, NEW new, NEW B,
           Holds(ClaimOf(a)),
           GivenBack(row[a.job], new) \/ Over(row[a.job], new),
           new.status = "complete" =>
               <<a.job, a.n>> \in succeeded' /\ new.attempts = a.n,
           row' = [row EXCEPT ![a.job] = new],
           inflight' = (inflight \ {a}) \cup B,
           Moves => \A b \in B : HeirOf(a, b),
           UNCHANGED <<proc, tx, unacked, dropped, stalled, unlanded>>,
           LeaseSpans, succeeded \subseteq succeeded'
    PROVE  PInv'
<1>1. a.job \in Job /\ ClaimOf(a).job = a.job
  BY AttemptFields DEF ClaimOf
<1>2. row'[a.job] = new /\ \A j \in Job \ {a.job} : row'[j] = row[j]
  BY <1>1 DEF IInv
<1>3. EndsRow(a, row'[a.job])
  BY <1>2 DEF EndsRow
<1>4. \A b \in B : HeirOf(a, b)
  BY <1>2, BatchMoves DEF RowMove
<1>5. ~Holds(ClaimOf(a))'
  <2>1. NoRow("gone").status = "gone"
    BY DEF NoRow
  <2>2. new.status \notin ClaimedStatus
    BY <2>1 DEF GivenBack, Over, Terminal, ClaimedStatus
  <2> QED BY <1>1, <1>2, <2>2 DEF Holds, ClaimedStatus, ClaimOf
<1> QED BY <1>2, <1>3, <1>4, <1>5, TurnOK

LEMMA DrainOnShutdownKeeps ==
    ASSUME IInv, IInv', PInv, NEW a \in inflight, DrainOnShutdown(a)
    PROVE  PInv'
<1> DEFINE d == [a EXCEPT !.end = "drain"]
           e == [d EXCEPT !.stage = "finalize"]
           f == [d EXCEPT !.stage = "fallback"]
           r == row[a.job]
           allowed == RequeueAllowed(r, a.worker, a.n, TRUE, TRUE)
           new == Requeued(r, "other", 0, TRUE)
<1>1. a.job \in Job /\ a.worker \in Worker /\ r \in Sound /\ a \in AttemptType
  BY AttemptFields
<1>2. \/ /\ allowed
         /\ row' = [row EXCEPT ![a.job] = new]
         /\ inflight' \in {inflight \ {a}, (inflight \ {a}) \cup {e}}
      \/ /\ ~allowed
         /\ UNCHANGED row
         /\ inflight' = (inflight \ {a}) \cup {f}
  BY DEF DrainOnShutdown, Fallback
<1>3. /\ UNCHANGED <<proc, tx, unacked, dropped, stalled, unlanded, succeeded>>
      /\ LeaseSpans
  BY <1>1, LeaseClosed DEF DrainOnShutdown, LeaseSpans, pending, history
<1>4. allowed => Holds(ClaimOf(a)) /\ GivenBack(r, new) /\ new.status # "complete"
  <2>1. allowed => GivenBack(r, new)
    BY <1>1, RequeuedMoves
  <2>2. allowed => Holds(ClaimOf(a))
    BY <1>1 DEF RequeueAllowed, Holds, Owns, ClaimOf
  <2> QED BY <2>1, <2>2 DEF GivenBack
<1>5. ASSUME NEW x \in {"finalize", "fallback"}, Moves
      PROVE  HeirOf(a, [d EXCEPT !.stage = x])
  <2> DEFINE b == [d EXCEPT !.stage = x]
  <2>1. d \in AttemptType
    BY <1>1 DEF AttemptType, End
  <2>2. /\ ClaimOf(d) = ClaimOf(a) /\ d.job = a.job /\ d.worker = a.worker
        /\ d.retryable = a.retryable /\ d.end = "drain" /\ d.reason = a.reason
        /\ d.polled = a.polled
    BY <1>1, EditedFields
  <2> HIDE DEF d
  <2>3. /\ ClaimOf(b) = ClaimOf(d) /\ b.job = d.job /\ b.worker = d.worker
        /\ b.retryable = d.retryable /\ b.stage = x
        /\ b.end = d.end /\ b.reason = d.reason /\ b.polled = d.polled
    BY <2>1, EditedFields
  <2>4. ProcsEnd
    BY <1>3 DEF ProcsEnd
  <2> HIDE DEF b
  <2>5. HeirOf(a, b)
    BY <1>3, <1>5, <2>2, <2>3, <2>4, LaterHeir
  <2> QED BY <2>5 DEF b
<1>6. Moves => HeirOf(a, e) /\ HeirOf(a, f)
  BY <1>5
<1> HIDE DEF d, e, f, allowed, new
<1>7. CASE allowed /\ inflight' = inflight \ {a}
  <2> DEFINE B == {}
  <2>1. inflight' = (inflight \ {a}) \cup B /\ \A b \in B : HeirOf(a, b)
    BY <1>7
  <2> HIDE DEF B
  <2> QED BY <1>2, <1>3, <1>4, <1>7, <2>1, LandedTurn
<1>8. CASE allowed /\ inflight' = (inflight \ {a}) \cup {e}
  <2> DEFINE B == {e}
  <2>1. inflight' = (inflight \ {a}) \cup B
    BY <1>8
  <2>2. Moves => \A b \in B : HeirOf(a, b)
    BY <1>6
  <2> HIDE DEF B
  <2> QED BY <1>2, <1>3, <1>4, <1>8, <2>1, <2>2, LandedTurn
<1>9. CASE ~allowed
  <2> DEFINE B == {f}
  <2>1. inflight' = (inflight \ {a}) \cup B /\ B # {} /\ UNCHANGED row
    BY <1>2, <1>9
  <2>2. \A b \in B : HeirOf(a, b)
    BY <1>6, <2>1, Unmoved
  <2> HIDE DEF B
  <2> QED BY <1>3, <2>1, <2>2, TurnOK
<1> QED BY <1>2, <1>7, <1>8, <1>9

\* The reread gives up only what it finds settled or taken away.
LEMMA RereadRefusalKeeps ==
    ASSUME IInv, IInv', PInv, NEW a \in inflight, RereadRefusal(a)
    PROVE  PInv'
<1> DEFINE f == [a EXCEPT !.stage = "fallback"]
<1>1. a.stage = "reread" /\ Local /\ UNCHANGED succeeded /\ a \in AttemptType
  BY AttemptFields DEF RereadRefusal
<1>2. CASE \/ row[a.job].attempts > a.n
           \/ row[a.job].status \in {"queued", "running", "aborted", "gone"}
  <2>1. inflight' = inflight \ {a}
    BY <1>2 DEF RereadRefusal
  <2>2. a.n \in Nat /\ row[a.job].attempts \in Nat
    BY AttemptFields, RowFields
  <2>3. ~(Holds(ClaimOf(a)) /\ row[a.job].status = "running")
    BY <1>1 DEF PInv, Remembered, RememberedFor
  <2>4. ~Holds(ClaimOf(a))
    BY <1>2, <2>2, <2>3 DEF Holds, Owns, ClaimOf
  <2> QED BY <1>1, <2>1, <2>4, LocalEnd
<1>3. CASE Replace(a, f)
  <2>1. /\ ClaimOf(f) = ClaimOf(a) /\ f.job = a.job /\ f.worker = a.worker
        /\ f.retryable = a.retryable /\ f.stage = "fallback"
        /\ f.end = a.end /\ f.reason = a.reason /\ f.polled = a.polled
    BY <1>1, EditedFields
  <2>2. Replace(a, f)
    BY <1>3
  <2> HIDE DEF f
  <2>3. HeirOf(a, f)
    BY <1>1, <2>1, LocalFacts, LaterHeir
  <2> QED BY <1>1, <2>2, <2>3, LocalTurn
<1> QED BY <1>2, <1>3 DEF RereadRefusal, Replace, Fallback

LEMMA FinishAbortedFallbackKeeps ==
    ASSUME IInv, IInv', PInv, NEW a \in inflight, FinishAbortedFallback(a)
    PROVE  PInv'
  BY FinishAttemptKeeps DEF FinishAbortedFallback, Terminal

LEMMA GiveUpKeeps ==
    ASSUME IInv, IInv', PInv, NEW a \in inflight, GiveUp(a)
    PROVE  PInv'
  BY LocalEnd DEF GiveUp, Stopping

-----------------------------------------------------------------------------
(***************************************************************************)
(* Consumers                                                               *)
(***************************************************************************)

\* A capability whose last call was not acknowledged.
LEMMA UnsureHeir ==
    ASSUME IInv, PInv, Moves, ProcsEnd, NEW a \in inflight, a.stage = "held"
    PROVE  HeirOf(a, [a EXCEPT !.end = "unsure"])
<1> DEFINE b == [a EXCEPT !.end = "unsure"]
<1>1. /\ ClaimOf(b) = ClaimOf(a) /\ b.job = a.job /\ b.worker = a.worker
      /\ b.retryable = a.retryable /\ b.stage = a.stage
      /\ b.end = "unsure" /\ b.reason = a.reason /\ b.polled = a.polled
  BY AttemptFields, EditedFields
<1> HIDE DEF b
<1>2. RememberedFor(a)'
  BY RememberedStays DEF PInv, Remembered
<1>3. RememberedFor(b)'
  BY <1>1, <1>2 DEF RememberedFor
<1>4. ~Undisturbed(b)'
  BY <1>1 DEF Undisturbed
<1>5. HeirOf(a, b)
  BY <1>1, <1>3, <1>4 DEF HeirOf
<1> QED BY <1>5 DEF b

LEMMA AcknowledgedKeeps ==
    ASSUME IInv, IInv', PInv, NEW a \in inflight, a.stage = "held", NEW new,
           Holds(ClaimOf(a)),
           GivenBack(row[a.job], new) \/ Over(row[a.job], new),
           new.status = "complete" =>
               <<a.job, a.n>> \in succeeded' /\ new.attempts = a.n,
           row' = [row EXCEPT ![a.job] = new], Acknowledged(a),
           UNCHANGED <<lease, proc, tx, unacked, dropped, stalled, unlanded>>,
           succeeded \subseteq succeeded'
    PROVE  PInv'
<1> DEFINE u == [a EXCEPT !.end = "unsure"]
<1>1. LeaseSpans /\ ProcsEnd
  BY DEF LeaseSpans, ProcsEnd
<1>2. CASE inflight' = inflight \ {a}
  <2> DEFINE B == {}
  <2>1. inflight' = (inflight \ {a}) \cup B /\ \A b \in B : HeirOf(a, b)
    BY <1>2
  <2> HIDE DEF B
  <2> QED BY <1>1, <2>1, LandedTurn
<1>3. CASE Replace(a, u)
  <2> DEFINE B == {u}
  <2>1. inflight' = (inflight \ {a}) \cup B
    BY <1>3 DEF Replace
  <2>2. Moves => \A b \in B : HeirOf(a, b)
    BY <1>1, UnsureHeir
  <2> HIDE DEF B
  <2> QED BY <1>1, <2>1, <2>2, LandedTurn
<1> QED BY <1>2, <1>3 DEF Acknowledged

LEMMA ConsumerFinishKeeps ==
    ASSUME IInv, IInv', PInv, NEW a \in inflight, NEW status \in Terminal,
           ConsumerFinish(a, status)
    PROVE  PInv'
<1> DEFINE r == row[a.job]
           error == IF status = "aborted" THEN "keep" ELSE "other"
           new == Finished(a.job, r, status, error)
<1>1. a.job \in Job /\ r \in Sound
  BY AttemptFields
<1>2. /\ a.stage = "held" /\ FinishAllowed(r, a.worker, a.n, status)
      /\ row' = [row EXCEPT ![a.job] = new] /\ Acknowledged(a)
      /\ succeeded' = IF status = "complete"
                      THEN succeeded \cup {<<a.job, a.n>>} ELSE succeeded
      /\ UNCHANGED <<lease, proc, tx, unacked, dropped, stalled, unlanded>>
  BY DEF ConsumerFinish, pending
<1>3. Holds(ClaimOf(a)) /\ r.attempts = a.n
  BY <1>2 DEF FinishAllowed, Holds, Owns, ClaimOf
<1>4. /\ error \in ErrorText \cup {"keep"}
      /\ status = "complete" => error \in ErrorText
  BY DEF ErrorText
<1> HIDE DEF error
<1>5. /\ Over(r, new)
      /\ new.status = "complete" => status = "complete"
      /\ new.status \in Terminal => new.attempts = r.attempts
  BY <1>1, <1>2, <1>4, FinishedMoves
<1> HIDE DEF new
<1>6. new.status = "complete" => <<a.job, a.n>> \in succeeded' /\ new.attempts = a.n
  BY <1>2, <1>3, <1>5 DEF Terminal
<1>7. succeeded \subseteq succeeded'
  BY <1>2
<1> QED BY <1>2, <1>3, <1>5, <1>6, <1>7, AcknowledgedKeeps

LEMMA ConsumerRetryKeeps ==
    ASSUME IInv, IInv', PInv, NEW a \in inflight, ConsumerRetry(a)
    PROVE  PInv'
<1> DEFINE r == row[a.job]
           new == Requeued(r, "other", RetryDelay, FALSE)
<1>1. r \in Sound
  BY AttemptFields
<1>2. /\ a.stage = "held" /\ RequeueAllowed(r, a.worker, a.n, TRUE, FALSE)
      /\ row' = [row EXCEPT ![a.job] = new] /\ Acknowledged(a)
      /\ UNCHANGED <<lease, proc, tx, unacked, dropped, stalled, unlanded,
                     succeeded>>
  BY DEF ConsumerRetry, pending, history
<1>3. Holds(ClaimOf(a))
  BY <1>2 DEF RequeueAllowed, Holds, Owns, ClaimOf
<1>4. GivenBack(r, new)
  BY <1>1, <1>2, RequeuedMoves
<1>5. new.status # "complete"
  BY <1>4 DEF GivenBack
<1> HIDE DEF new
<1> QED BY <1>2, <1>3, <1>4, <1>5, AcknowledgedKeeps

LEMMA DropAttemptKeeps ==
    ASSUME IInv, IInv', PInv, NEW a \in inflight, DropAttempt(a)
    PROVE  PInv'
<1> DEFINE B == {}
<1>1. inflight' = (inflight \ {a}) \cup B /\ \A b \in B : HeirOf(a, b)
  BY DEF DropAttempt
<1>2. /\ UNCHANGED <<row, proc, tx, unacked, stalled, unlanded, succeeded>>
      /\ B = {} /\ dropped' = dropped \cup {ClaimOf(a)}
      /\ LeaseSpans
  BY DEF DropAttempt, tables, history, LeaseSpans
<1>3. ClaimOf(a) \in dropped'
  BY <1>2
<1> HIDE DEF B
<1> QED BY <1>1, <1>2, <1>3, TurnOK

-----------------------------------------------------------------------------
(***************************************************************************)
(* The invariant holds                                                     *)
(***************************************************************************)

LEMMA StartsProtocol == Init => PInv
<1> SUFFICES ASSUME Init PROVE PInv
  OBVIOUS
<1>1. \A j \in Job : row[j].status = "unborn"
  BY DEF Init, NoRow
<1>2. /\ inflight = {} /\ unacked = {} /\ dropped = {}
      /\ \A w \in Worker : /\ tx[w].jobs = {} /\ proc[w] = "up"
                           /\ ~lease[w].present
  BY DEF Init, NoTx, NoLease
<1>3. \A w \in Worker : ClaimsOf(w, tx[w].jobs) = {}
  BY <1>2 DEF ClaimsOf
<1>4. \A c \in ClaimType : ~Holds(c)
  BY <1>1 DEF ClaimType, Holds
<1>5. Unmarked /\ KeysUnique /\ CompleteMeansSucceeded
  BY <1>1 DEF Unmarked, KeysUnique, Live, CompleteMeansSucceeded
<1>6. Leased /\ Undoable /\ Separate /\ RowKept /\ OneEach
  BY <1>2 DEF Leased, Undoable, Separate, RowKept, OneEach
<1>7. Succeeded /\ Remembered /\ Covered /\ AllKnown
  BY <1>2, <1>3, <1>4 DEF Succeeded, Remembered, Covered, AllKnown
<1> QED BY <1>5, <1>6, <1>7 DEF PInv

LEMMA StutterKeeps ==
    ASSUME IInv, IInv', PInv,
           UNCHANGED <<row, lease, proc, inflight, tx, unacked, dropped, late,
                       sweep, stalled, unlanded, succeeded>>
    PROVE  PInv'
<1>1. ProcsEnd /\ Leased'
  BY DEF ProcsEnd, PInv, Leased
<1> QED BY <1>1, LeasesOnly

LEMMA ProtocolSteps == IInv /\ PInv /\ [Next]_vars => PInv'
<1> SUFFICES ASSUME IInv, PInv, [Next]_vars PROVE PInv'
  OBVIOUS
<1>1. IInv'
  BY StepsOK
<1>2. CASE Tick
  BY <1>1, <1>2, TickKeeps
<1>3. CASE OperatorStep
  BY <1>1, <1>3, EnqueueKeeps, AbortJobKeeps, PurgeQueuedJobsKeeps,
     RetryJobOccurrenceKeeps DEF OperatorStep
<1>4. CASE ProcessStep
  BY <1>1, <1>4, HeartbeatsKeep, StopWorkerIntakeKeeps, ShutdownKeeps,
     RetireKeeps, CrashKeeps, DequeueKeeps, DequeueLostKeeps,
     CommitLandsKeeps, CommitNeverLandsKeeps DEF ProcessStep
<1>5. CASE AttemptStep
  BY <1>1, <1>5, ProcessKeeps, HandlerEndsKeeps, HandlerCancelledKeeps,
     PollAbortKeeps, RequestAbortKeeps, TryFinalizeKeeps, DrainOnShutdownKeeps,
     RereadRefusalKeeps, FinishAbortedFallbackKeeps, GiveUpKeeps,
     ConsumerFinishKeeps, ConsumerRetryKeeps, DropAttemptKeeps DEF AttemptStep
<1>6. CASE ResolverStep
  BY <1>1, <1>6, ResolveUnacknowledgedKeeps, ResolveDroppedKeeps
     DEF ResolverStep
<1>7. CASE SweeperStep
  BY <1>1, <1>7, SweepExpiredJobsKeeps, SweepWorkerLeasesKeeps,
     SweepReadsKeep, SweepMarkKeeps, SweepRetryKeeps, SweepAbortKeeps
     DEF SweeperStep
<1>8. CASE UNCHANGED vars
  BY <1>1, <1>8, StutterKeeps DEF vars
<1>9. ASSUME NEW c \in runaway, RunawayReturns(c) PROVE PInv'
  BY <1>1, <1>9, StutterKeeps DEF RunawayReturns, tables, pending
<1> QED BY <1>2, <1>3, <1>4, <1>5, <1>6, <1>7, <1>8, <1>9 DEF Next

LEMMA ProtocolHolds == Spec => [](IInv /\ PInv)
<1>1. Init => IInv /\ PInv
  BY InitOK, StartsProtocol
<1>2. IInv /\ PInv /\ [Next]_vars => (IInv /\ PInv)'
  BY StepsOK, ProtocolSteps
<1> QED BY <1>1, <1>2, PTL DEF Spec

-----------------------------------------------------------------------------
(***************************************************************************)
(* Theorems                                                                *)
(***************************************************************************)

LEMMA OwnersKeep == IInv /\ PInv => LiveOwnerKeepsAttempt
<1> SUFFICES ASSUME PInv, NEW a \in inflight, Undisturbed(a), a.job \notin TimedJob
             PROVE  Holds(ClaimOf(a)) /\ ~Swept(row[a.job])
  BY DEF LiveOwnerKeepsAttempt
<1>1. StaysWith(a)
  BY DEF PInv, RowKept
<1> QED BY <1>1 DEF StaysWith

LEMMA HandlersExclude ==
    IInv /\ PInv /\ runaway \subseteq ClaimType => ExclusiveHandlers
<1> SUFFICES ASSUME IInv, PInv, runaway \subseteq ClaimType,
                    NEW c \in Running, NEW d \in Running,
                    \/ c.job = d.job
                    \/ KeyOf[c.job] = KeyOf[d.job] /\ KeyOf[c.job] # NoKey,
                    KeepsOut(c), KeepsOut(d)
             PROVE  c = d
  BY DEF ExclusiveHandlers
<1>1. \A a \in inflight : ClaimOf(a) \in ClaimType /\ ClaimOf(a).job = a.job
  BY AttemptFields DEF ClaimOf, ClaimType, AttemptType
<1>2. c \in ClaimType /\ d \in ClaimType
  BY <1>1 DEF Running
\* A handler that keeps others out has the row, or its job is timed and
\* without a key and has been settled behind its back.
<1>3. ASSUME NEW x \in {c, d}
      PROVE  \/ Holds(x)
             \/ /\ \E a \in inflight : ClaimOf(a) = x /\ Undisturbed(a)
                /\ KeyOf[x.job] = NoKey
                /\ row[x.job].status \in Terminal \cup {"gone"}
  <2>1. CASE Holds(x)
    BY <2>1
  <2>2. ASSUME NEW a \in inflight, ClaimOf(a) = x, Undisturbed(a)
        PROVE  \/ Holds(x)
               \/ /\ KeyOf[x.job] = NoKey
                  /\ row[x.job].status \in Terminal \cup {"gone"}
    <3>1. StaysWith(a)
      BY <2>2 DEF PInv, RowKept
    <3>2. a.job = x.job
      BY <1>1, <2>2
    <3> QED BY <2>2, <3>1, <3>2 DEF StaysWith
  <2>3. Holds(x) \/ \E a \in inflight : ClaimOf(a) = x /\ Undisturbed(a)
    BY <1>3 DEF KeepsOut
  <2> QED BY <2>1, <2>2, <2>3
<1>4. c.job = d.job
  <2>1. CASE KeyOf[c.job] = KeyOf[d.job] /\ KeyOf[c.job] # NoKey
    <3>1. Holds(c) /\ Holds(d)
      BY <1>3, <2>1
    <3>2. row[c.job].status \in Live /\ row[d.job].status \in Live
      BY <3>1 DEF Holds, Live
    <3>3. c.job \in Job /\ d.job \in Job
      BY <1>2 DEF ClaimType
    <3> QED BY <2>1, <3>2, <3>3 DEF PInv, KeysUnique
  <2> QED BY <2>1
<1>5. CASE Holds(c) /\ Holds(d)
  <2>1. c.worker = d.worker /\ c.n = d.n
    BY <1>4, <1>5 DEF Holds, Owns
  <2> QED BY <1>2, <1>4, <2>1 DEF ClaimType
<1>6. ASSUME NEW a \in inflight, NEW b \in inflight, ClaimOf(a) = c,
             ClaimOf(b) = d, Undisturbed(a), Undisturbed(b)
      PROVE  c = d
  <2>1. a.job = b.job
    BY <1>1, <1>4, <1>6
  <2> QED BY <1>6, <2>1 DEF PInv, OneEach
<1>7. ~(Holds(c) /\ row[d.job].status \in Terminal \cup {"gone"})
  BY <1>4 DEF Holds, Terminal
<1>8. ~(Holds(d) /\ row[c.job].status \in Terminal \cup {"gone"})
  BY <1>4 DEF Holds, Terminal
<1> QED BY <1>3, <1>5, <1>6, <1>7, <1>8

LEMMA RowsRemembered == IInv /\ PInv => NoForgottenRow
<1> SUFFICES ASSUME IInv, PInv, NEW j \in Job,
                    row[j].status \in {"running", "aborting"},
                    row[j].owner \in Worker
             PROVE  LET c == [worker |-> row[j].owner, job |-> j,
                              n |-> row[j].attempts]
                    IN  \/ proc[row[j].owner] # "up"
                        \/ \E a \in inflight : ClaimOf(a) = c
                        \/ c \in dropped \cup UNION unacked
  BY DEF NoForgottenRow
<1> DEFINE c == [worker |-> row[j].owner, job |-> j, n |-> row[j].attempts]
<1>1. row[j] \in Sound
  BY DEF IInv
<1>2. row[j].attempts \in 1..Ceiling
  BY <1>1, RowFields, CeilingAssumption DEF RowOK
<1>3. c \in ClaimType /\ Holds(c) /\ c.worker = row[j].owner
  BY <1>2 DEF ClaimType, Holds, Owns
<1> HIDE DEF c
<1>4. Known(c)
  BY <1>3 DEF PInv, AllKnown
<1> QED BY <1>3, <1>4 DEF Known, c

\* An owner that heartbeats keeps its attempt: no sweep pass takes the row of
\* an untimed job from it, and nobody else settles, requeues or reclaims it.
THEOREM OwnersKeepAttempts == Spec => []LiveOwnerKeepsAttempt
  BY ProtocolHolds, OwnersKeep, PTL

\* Of the handlers of one job, or of two jobs with one dedupe key, at most one
\* has its row under its claim, or an attempt that its owner has not given up:
\* a handler runs beside it only if join_after_abort went on without it and its
\* row was finalized, or its owner let the lease lapse.
THEOREM HandlersAreExclusive == Spec => []ExclusiveHandlers
  BY ProtocolHolds, RunawaysHold, HandlersExclude, PTL

\* finish_job marks a row complete only for the attempt whose handler
\* returned Ok: the write of an earlier attempt finds another number.
THEOREM CompletionIsEarned == Spec => []CompleteMeansSucceeded
<1>1. PInv => CompleteMeansSucceeded
  BY DEF PInv
<1> QED BY <1>1, ProtocolHolds, PTL

\* A row under the id of a worker that is up is in its in-flight map or with
\* one of its resolvers, whatever became of the commit of its dequeue.
THEOREM NoRowForgotten == Spec => []NoForgottenRow
  BY ProtocolHolds, RowsRemembered, PTL

-----------------------------------------------------------------------------
(***************************************************************************)
(* The tables implement the life of a job                                  *)
(***************************************************************************)

LEMMA StatementMoves ==
    ASSUME IInv, NEW a \in inflight, NEW allowed, NEW new, NEW refused,
           Statement(a, allowed, new, refused),
           allowed => GivenBack(row[a.job], new) \/ Over(row[a.job], new)
    PROVE  Moves
<1>1. CASE allowed /\ row' = [row EXCEPT ![a.job] = new]
  BY <1>1, AttemptFields, OneMoves DEF RowMove
<1>2. CASE UNCHANGED row
  BY <1>2, Unmoved
<1> QED BY <1>1, <1>2 DEF Statement

LEMMA FinishAttemptMoves ==
    ASSUME IInv, NEW a \in inflight, NEW status \in Terminal,
           NEW error \in ErrorText \cup {"keep"},
           status = "complete" => error \in ErrorText, NEW refused,
           FinishAttempt(a, status, error, refused)
    PROVE  Moves
<1> DEFINE r == row[a.job]
           allowed == FinishAllowed(r, a.worker, a.n, status)
           new == Finished(a.job, r, status, error)
<1>1. a.job \in Job /\ r \in Sound
  BY AttemptFields
<1>2. Statement(a, allowed, new, refused)
  BY DEF FinishAttempt
<1>3. allowed => Over(r, new)
  BY <1>1, FinishedMoves
<1> HIDE DEF allowed, new
<1> QED BY <1>2, <1>3, StatementMoves

LEMMA RequeueMoves ==
    ASSUME IInv, NEW a \in inflight, NEW running \in BOOLEAN,
           NEW refund \in BOOLEAN, NEW error, NEW delay, NEW refused,
           Statement(a, RequeueAllowed(row[a.job], a.worker, a.n, running, refund),
                     Requeued(row[a.job], error, delay, refund), refused)
    PROVE  Moves
<1> DEFINE r == row[a.job]
           allowed == RequeueAllowed(r, a.worker, a.n, running, refund)
           new == Requeued(r, error, delay, refund)
<1>1. Statement(a, allowed, new, refused)
  OBVIOUS
<1>2. allowed => GivenBack(r, new)
  BY AttemptFields, RequeuedMoves
<1> HIDE DEF allowed, new
<1> QED BY <1>1, <1>2, StatementMoves

LEMMA TryFinalizeMoves ==
    ASSUME IInv, NEW a \in inflight, TryFinalize(a)
    PROVE  Moves
<1>1. ASSUME NEW refused, RequeueShutdown(a, refused) PROVE Moves
  BY <1>1, RequeueMoves DEF RequeueShutdown
<1>2. ASSUME NEW running \in BOOLEAN, NEW error, RetryAttempt(a, running, error)
      PROVE  Moves
  BY <1>2, RequeueMoves DEF RetryAttempt
<1>3. ASSUME NEW status \in {"failed", "aborted"},
             NEW error \in {"swept", "user", "other"}, NEW refused,
             FinishAttempt(a, status, error, refused)
      PROVE  Moves
  BY <1>3, FinishAttemptMoves DEF Terminal, ErrorText
<1>4. CASE FinalizeSuccess(a)
  BY <1>4, FinishAttemptMoves DEF FinalizeSuccess, Terminal, ErrorText
<1>5. CASE FinalizeErrored(a)
  BY <1>1, <1>2, <1>3, <1>5 DEF FinalizeErrored
<1>6. CASE FinalizeCancelled(a)
  <2>1. CASE FinalizeSuperseded(a)
    BY <2>1, Unmoved DEF FinalizeSuperseded, Local, tables
  <2> QED BY <1>1, <1>2, <1>3, <1>6, <2>1 DEF FinalizeCancelled
<1>7. CASE FinalizeUnhandled(a)
  BY <1>7, RequeueMoves DEF FinalizeUnhandled
<1> QED BY <1>4, <1>5, <1>6, <1>7 DEF TryFinalize

LEMMA AttemptMoves ==
    ASSUME IInv, NEW a \in inflight, NEW end, NEW status \in Terminal,
           \/ Process(a) \/ HandlerEnds(a, end) \/ HandlerCancelled(a)
           \/ PollAbort(a) \/ RequestAbort(a) \/ TryFinalize(a)
           \/ DrainOnShutdown(a)
           \/ RereadRefusal(a) \/ FinishAbortedFallback(a) \/ GiveUp(a)
           \/ ConsumerFinish(a, status) \/ ConsumerRetry(a) \/ DropAttempt(a)
    PROVE  Moves
<1> DEFINE r == row[a.job]
<1>1. a.job \in Job /\ r \in Sound
  BY AttemptFields
<1>2. CASE \/ Process(a) \/ HandlerEnds(a, end) \/ HandlerCancelled(a)
           \/ PollAbort(a) \/ RequestAbort(a) \/ RereadRefusal(a)
           \/ GiveUp(a) \/ DropAttempt(a)
  <2>1. UNCHANGED row
    BY <1>2 DEF Process, HandlerEnds, HandlerCancelled, PollAbort,
                RequestAbort, RereadRefusal, GiveUp, DropAttempt, Local, tables
  <2> QED BY <2>1, Unmoved
<1>3. CASE TryFinalize(a)
  BY <1>3, TryFinalizeMoves
<1>4. CASE FinishAbortedFallback(a)
  BY <1>4, FinishAttemptMoves DEF FinishAbortedFallback, Terminal
<1>5. CASE DrainOnShutdown(a)
  <2>1. \/ UNCHANGED row
        \/ /\ RequeueAllowed(r, a.worker, a.n, TRUE, TRUE)
           /\ row' = [row EXCEPT ![a.job] = Requeued(r, "other", 0, TRUE)]
    BY <1>5 DEF DrainOnShutdown
  <2> QED BY <1>1, <2>1, RequeuedMoves, OneMoves, Unmoved DEF RowMove
<1>6. CASE ConsumerFinish(a, status)
  <2> DEFINE error == IF status = "aborted" THEN "keep" ELSE "other"
             new == Finished(a.job, r, status, error)
  <2>1. /\ FinishAllowed(r, a.worker, a.n, status)
        /\ row' = [row EXCEPT ![a.job] = new]
    BY <1>6 DEF ConsumerFinish
  <2>2. /\ error \in ErrorText \cup {"keep"}
        /\ status = "complete" => error \in ErrorText
    BY DEF ErrorText
  <2> HIDE DEF error
  <2>3. Over(r, new)
    BY <1>1, <2>1, <2>2, FinishedMoves
  <2> QED BY <1>1, <2>1, <2>3, OneMoves DEF RowMove
<1>7. CASE ConsumerRetry(a)
  <2>1. /\ RequeueAllowed(r, a.worker, a.n, TRUE, FALSE)
        /\ row' = [row EXCEPT ![a.job] =
                     Requeued(r, "other", RetryDelay, FALSE)]
    BY <1>7 DEF ConsumerRetry
  <2> QED BY <1>1, <2>1, RequeuedMoves, OneMoves DEF RowMove
<1> QED BY <1>2, <1>3, <1>4, <1>5, <1>6, <1>7

\* The three statements of a sweep pass.
LEMMA SweepMoves ==
    ASSUME IInv, NEW s \in Sweeper, SweepMark(s) \/ SweepRetry(s) \/ SweepAbort(s)
    PROVE  Moves
<1> SUFFICES ASSUME NEW j \in Job
             PROVE  row'[j] = row[j] \/ RowMove(row[j], row'[j])
  BY BatchMoves
<1>1. row[j] \in Sound
  BY DEF IInv
<1>2. CASE SweepMark(s)
  <2>1. \/ row'[j] = row[j]
        \/ row[j].status = "running" /\ row'[j] = Marked(row[j])
    BY <1>2 DEF SweepMark, MarkedNow, MarkAllowed
  <2> QED BY <1>1, <2>1, MarkedMoves DEF RowMove
<1>3. CASE SweepRetry(s)
  <2>1. \/ row'[j] = row[j]
        \/ /\ row[j].status = "aborting" /\ Swept(row[j])
           /\ row'[j] = Requeued(row[j], "keep", RetryDelay, FALSE)
    BY <1>3 DEF SweepRetry, RetryAbandonedAllowed
  <2> QED BY <1>1, <2>1, AbandonedMoves DEF RowMove
<1>4. CASE SweepAbort(s)
  <2>1. \/ row'[j] = row[j]
        \/ /\ row[j].status \in ClaimedStatus
           /\ row'[j] = AbortedAbandoned(j, row[j])
    BY <1>4 DEF SweepAbort, AbortAbandonedAllowed, ClaimedStatus
  <2> QED BY <1>1, <2>1, AbortMoves DEF RowMove
<1> QED BY <1>2, <1>3, <1>4

LEMMA ResolverMoves ==
    ASSUME IInv, PInv, ResolverStep
    PROVE  Moves
<1>1. ASSUME NEW b \in unacked, ResolveUnacknowledged(b) PROVE Moves
  <2>1. ResolvesRows(b)
    BY <1>1, ResolveUnacknowledgedRows
  <2> QED BY <2>1, BatchMoves DEF ResolvesRows, RowMove
<1>2. ASSUME NEW c \in dropped, ResolveDropped(c) PROVE Moves
  <2>1. c \in ClaimType /\ c.job \in Job
    BY DEF IInv, RestOK, ClaimType
  <2>2. row' = [row EXCEPT ![c.job] = Resolved(c, RetryDelay, FALSE)]
    BY <1>2 DEF ResolveDropped
  <2>3. RowMove(row[c.job], Resolved(c, RetryDelay, FALSE))
    BY <2>1, ResolvedMoves DEF RowMove, Same
  <2> QED BY <2>1, <2>2, <2>3, OneMoves
<1> QED BY <1>1, <1>2 DEF ResolverStep

LEMMA OperatorMoves ==
    ASSUME IInv, OperatorStep
    PROVE  Moves
<1>1. ASSUME NEW j \in Job, AbortJob(j) PROVE Moves
  <2>1. /\ row[j] \in Sound /\ AbortAllowed(row[j])
        /\ row' = [row EXCEPT ![j] = AbortRequested(row[j])]
    BY <1>1 DEF AbortJob, IInv
  <2> QED BY <2>1, AbortRequestedMoves, OneMoves DEF RowMove
<1>2. ASSUME NEW S \in SUBSET Job, PurgeQueuedJobs(S) PROVE Moves
  BY <1>2, DeletedMoves DEF PurgeQueuedJobs
<1> QED BY <1>1, <1>2, EnqueueMoves, RetryJobOccurrenceMoves DEF OperatorStep

LEMMA ProcessStepMoves ==
    ASSUME IInv, ProcessStep
    PROVE  Moves
<1> PICK w \in Worker :
      \/ WorkerHeartbeat(w) \/ ConsumerHeartbeat(w) \/ BeginShutdown(w)
      \/ LateHeartbeat(w) \/ StopWorkerIntake(w) \/ FetcherStops(w)
      \/ Retire(w) \/ Crash(w)
      \/ \E S \in SUBSET Job : Dequeue(w, S) \/ DequeueLost(w, S)
      \/ CommitLands(w) \/ CommitNeverLands(w)
  BY DEF ProcessStep
<1>1. CASE \E S \in SUBSET Job : Dequeue(w, S)
  <2> PICK S \in SUBSET Job : Dequeue(w, S)
    BY <1>1
  <2> QED BY ClaimRowsMoves DEF Dequeue, MayClaim, Claimable
<1>2. CASE CommitLands(w)
  <2>1. /\ tx[w].jobs \in SUBSET Job
        /\ \A j \in tx[w].jobs : row[j].status = "queued"
    BY DEF IInv, RestOK, LocksHeld, Locked
  <2> QED BY <1>2, <2>1, ClaimRowsMoves DEF CommitLands
<1>3. CASE UNCHANGED row
  BY <1>3, Unmoved
<1> QED BY <1>1, <1>2, <1>3
        DEF WorkerHeartbeat, ConsumerHeartbeat, BeginShutdown, LateHeartbeat,
            StopWorkerIntake, FetcherStops, Retire, Crash, DequeueLost,
            CommitNeverLands, tables

LEMMA StepMoves ==
    ASSUME IInv, PInv, [Next]_vars
    PROVE  Moves
<1>1. CASE Tick
  BY <1>1, TickMoves DEF Moves, RowMove
<1>2. CASE AttemptStep
  <2>1. "aborted" \in Terminal
    BY DEF Terminal
  <2> QED BY <1>2, <2>1, AttemptMoves DEF AttemptStep
<1>3. CASE SweeperStep
  <2>1. ASSUME NEW s \in Sweeper, NEW S \in SUBSET Job, SweepExpiredJobs(s, S)
        PROVE  Moves
    BY <2>1, DeletedMoves DEF SweepExpiredJobs
  <2>2. ASSUME NEW s \in Sweeper, NEW W \in SUBSET Worker,
               SweepWorkerLeases(s, W) \/ SweepScan(s) \/ SweepFails(s)
        PROVE  Moves
    BY <2>2, Unmoved DEF SweepWorkerLeases, SweepScan, SweepFails, tables
  <2>3. {} \in SUBSET Worker
    OBVIOUS
  <2> QED BY <1>3, <2>1, <2>2, <2>3, SweepMoves DEF SweeperStep
<1>4. CASE UNCHANGED vars \/ \E c \in runaway : RunawayReturns(c)
  BY <1>4, Unmoved DEF vars, RunawayReturns, tables
<1> QED BY <1>1, <1>2, <1>3, <1>4, ProcessStepMoves, OperatorMoves,
           ResolverMoves DEF Next

LEMMA LifePhases ==
    /\ LifePhase("unborn") = "unborn" /\ LifePhase("gone") = "gone"
    /\ LifePhase("queued") = "waiting"
    /\ LifePhase("running") = "held" /\ LifePhase("aborting") = "held"
    /\ LifePhase("complete") = "complete" /\ LifePhase("failed") = "failed"
    /\ LifePhase("aborted") = "aborted"
  BY DEF LifePhase

LifePhaseName ==
    {"unborn", "waiting", "held", "gone", "complete", "failed", "aborted"}

LifeRecord == [phase : LifePhaseName, tries : Nat, cancelled : BOOLEAN]

LEMMA LifeFields ==
    ASSUME NEW r \in Sound
    PROVE  /\ LifeOf(r) \in LifeRecord
           /\ LifeOf(r).phase = LifePhase(r.status)
           /\ LifeOf(r).tries = r.attempts
           /\ LifeOf(r).cancelled = (r.status = "aborting" /\ ~Swept(r))
<1>1. r.attempts \in Nat /\ r.status \in Status
  BY RowFields
<1>2. (r.status = "aborting" /\ ~Swept(r)) \in BOOLEAN
  BY Zenon
<1>3. LifePhase(r.status) \in LifePhaseName
  BY <1>1, LifePhases DEF Status, Live, Terminal, LifePhaseName
<1>4. ASSUME NEW p \in LifePhaseName, NEW n \in Nat, NEW c \in BOOLEAN
      PROVE  LET l == [phase |-> p, tries |-> n, cancelled |-> c]
             IN  /\ l \in LifeRecord
                 /\ l.phase = p /\ l.tries = n /\ l.cancelled = c
  BY DEF LifeRecord
<1> QED BY <1>1, <1>2, <1>3, <1>4, Zenon DEF LifeOf

LEMMA LifeSame ==
    ASSUME NEW k \in LifeRecord, NEW l \in LifeRecord, l.phase = k.phase,
           l.tries = k.tries, l.cancelled = k.cancelled
    PROVE  l = k
  BY DEF LifeRecord

LEMMA LifeEdits ==
    ASSUME NEW k \in LifeRecord, NEW l \in LifeRecord
    PROVE  /\ l.phase = "held" /\ l.tries = k.tries + 1
           /\ l.cancelled = k.cancelled
           => l = [k EXCEPT !.phase = "held", !.tries = @ + 1]
  BY DEF LifeRecord

LEMMA LifeCalledOff ==
    ASSUME NEW k \in LifeRecord, NEW l \in LifeRecord, l.tries = k.tries,
           l.phase = k.phase, l.cancelled
    PROVE  l = [k EXCEPT !.cancelled = TRUE]
  BY DEF LifeRecord

LEMMA LifeTurns ==
    ASSUME NEW k \in LifeRecord, NEW l \in LifeRecord, l.tries = k.tries
    PROVE  /\ l.cancelled = k.cancelled => l = [k EXCEPT !.phase = l.phase]
           /\ ~l.cancelled
              => l = [k EXCEPT !.phase = l.phase, !.cancelled = FALSE]
  BY DEF LifeRecord

LEMMA LifeGone == LifeOf(NoRow("gone")) = Lifecycle!Absent("gone")
<1>1. /\ NoRow("gone").status = "gone" /\ NoRow("gone").attempts = 0
      /\ ("gone" = "aborting") = FALSE
  BY DEF NoRow
<1> QED BY <1>1, LifePhases DEF LifeOf, Lifecycle!Absent

\* The kinds of moves a row makes are the steps the lifecycle allows.
LEMMA RowLives ==
    ASSUME NEW j \in Job, row[j] \in Sound, row'[j] \in Sound,
           RowMove(row[j], row'[j])
    PROVE  \/ Lifecycle!Submit(j) \/ Lifecycle!Claim(j) \/ Lifecycle!GiveBack(j)
           \/ Lifecycle!Cancel(j) \/ Lifecycle!Settle(j) \/ Lifecycle!Remove(j)
           \/ Lifecycle!Stay(j)
<1> DEFINE r == row[j]
           s == row'[j]
<1>1. /\ LifeOf(r) \in LifeRecord /\ LifeOf(s) \in LifeRecord
      /\ LifeOf(r).phase = LifePhase(r.status)
      /\ LifeOf(s).phase = LifePhase(s.status)
      /\ LifeOf(r).tries = r.attempts /\ LifeOf(s).tries = s.attempts
      /\ LifeOf(r).cancelled = (r.status = "aborting" /\ ~Swept(r))
      /\ LifeOf(s).cancelled = (s.status = "aborting" /\ ~Swept(s))
  BY LifeFields
<1>2. CASE Same(r, s)
  <2>1. LifeOf(s) = LifeOf(r)
    BY <1>2 DEF Same, LifeOf, Swept
  <2> QED BY <2>1 DEF Lifecycle!Stay
<1>3. CASE Born(r, s)
  <2>1. LifeOf(r).phase = "unborn" /\ LifeOf(s).phase = "waiting"
    BY <1>1, <1>3, LifePhases DEF Born
  <2>2. ~LifeOf(s).cancelled
    BY <1>1, <1>3 DEF Born
  <2>3. LifeOf(s) \in Lifecycle!Life
    BY <1>1, <2>1 DEF Lifecycle!Life, LifeRecord
  <2> QED BY <2>1, <2>2, <2>3 DEF Lifecycle!Submit
<1>4. CASE Taken(r, s)
  <2>1. /\ LifeOf(r).phase = "waiting" /\ LifeOf(s).phase = "held"
        /\ LifeOf(s).tries = LifeOf(r).tries + 1
    BY <1>1, <1>4, LifePhases DEF Taken
  <2>2. LifeOf(s).cancelled = LifeOf(r).cancelled
    BY <1>1, <1>4 DEF Taken
  <2> QED BY <1>1, <2>1, <2>2, LifeEdits DEF Lifecycle!Claim
<1>5. CASE GivenBack(r, s)
  <2>1. /\ LifeOf(r).phase = "held" /\ LifeOf(s).phase = "waiting"
        /\ LifeOf(s).tries = LifeOf(r).tries
    BY <1>1, <1>5, LifePhases DEF GivenBack
  <2>2. ~LifeOf(r).cancelled /\ LifeOf(s).cancelled = LifeOf(r).cancelled
    BY <1>1, <1>5 DEF GivenBack
  <2>3. LifeOf(s) = [LifeOf(r) EXCEPT !.phase = LifeOf(s).phase]
    BY <1>1, <2>1, <2>2, LifeTurns
  <2> QED BY <2>1, <2>2, <2>3 DEF Lifecycle!GiveBack
<1>6. CASE Over(r, s)
  <2>1. LifeOf(r).phase = "held"
    BY <1>1, <1>6, LifePhases DEF Over, ClaimedStatus
  <2>2. CASE s = NoRow("gone")
    <3>1. LifeOf(s) = Lifecycle!Absent("gone")
      BY <2>2, LifeGone
    <3> QED BY <2>1, <3>1 DEF Lifecycle!Settle
  <2>3. CASE /\ s.status \in Terminal /\ s.attempts = r.attempts
             /\ r.status = "aborting" /\ ~Swept(r) => s.status = "aborted"
    <3>1. LifeOf(s).phase = s.status /\ s.status \in Lifecycle!Settled
      BY <1>1, <2>3, LifePhases DEF Terminal, Lifecycle!Settled
    <3>2. ~LifeOf(s).cancelled /\ LifeOf(s).tries = LifeOf(r).tries
      BY <1>1, <2>3 DEF Terminal
    <3>3. LifeOf(r).cancelled => s.status = "aborted"
      BY <1>1, <2>3
    <3>4. LifeOf(s) = [LifeOf(r) EXCEPT !.phase = LifeOf(s).phase,
                                        !.cancelled = FALSE]
      BY <1>1, <3>2, LifeTurns
    <3> QED BY <2>1, <3>1, <3>3, <3>4 DEF Lifecycle!Settle
  <2> QED BY <1>6, <2>2, <2>3 DEF Over
<1>7. CASE Asked(r, s)
  <2>1. LifeOf(s).tries = LifeOf(r).tries
    BY <1>1, <1>7 DEF Asked
  <2>2. CASE r.status = "queued" /\ s.status = "aborted"
    <3>1. LifeOf(r).phase = "waiting" /\ LifeOf(s).phase = "aborted"
      BY <1>1, <2>2, LifePhases
    <3>2. LifeOf(s).cancelled = LifeOf(r).cancelled
      BY <1>1, <2>2
    <3>3. LifeOf(s) = [LifeOf(r) EXCEPT !.phase = LifeOf(s).phase]
      BY <1>1, <2>1, <3>2, LifeTurns
    <3> QED BY <3>1, <3>3 DEF Lifecycle!Cancel
  <2>3. CASE /\ r.status = "running" \/ (r.status = "aborting" /\ Swept(r))
             /\ s.status = "aborting"
    <3>1. LifeOf(r).phase = "held" /\ LifeOf(s).phase = "held"
      BY <1>1, <2>3, LifePhases
    <3>2. ~LifeOf(r).cancelled /\ LifeOf(s).cancelled
      BY <1>1, <1>7, <2>3 DEF Asked, Swept
    <3>3. LifeOf(s) = [LifeOf(r) EXCEPT !.cancelled = TRUE]
      <4>1. LifeOf(r) \in LifeRecord /\ LifeOf(s) \in LifeRecord
        BY <1>1
      <4>2. LifeOf(s).phase = LifeOf(r).phase
        BY <3>1
      <4> QED BY <2>1, <3>2, <4>1, <4>2, LifeCalledOff
    <3> QED BY <3>1, <3>2, <3>3 DEF Lifecycle!Cancel
  <2> QED BY <1>7, <2>2, <2>3 DEF Asked
<1>8. CASE MarkedFrom(r, s)
  <2>1. /\ LifeOf(r).phase = LifeOf(s).phase
        /\ LifeOf(s).tries = LifeOf(r).tries
    BY <1>1, <1>8, LifePhases DEF MarkedFrom
  <2>2. LifeOf(s).cancelled = LifeOf(r).cancelled
    BY <1>1, <1>8 DEF MarkedFrom
  <2>3. LifeOf(s) = LifeOf(r)
    BY <1>1, <2>1, <2>2, LifeSame
  <2> QED BY <2>3 DEF Lifecycle!Stay
<1>9. CASE Deleted(r, s)
  <2>1. LifeOf(r).phase \in Lifecycle!Settled \cup {"waiting"}
    BY <1>1, <1>9, LifePhases DEF Deleted, Terminal, Lifecycle!Settled
  <2>2. LifeOf(s) = Lifecycle!Absent("gone")
    BY <1>9, LifeGone DEF Deleted
  <2> QED BY <2>1, <2>2 DEF Lifecycle!Remove
<1> QED BY <1>2, <1>3, <1>4, <1>5, <1>6, <1>7, <1>8, <1>9 DEF RowMove

LEMMA LifeStarts == Init => Lifecycle!Init
<1> SUFFICES ASSUME Init PROVE Lifecycle!Init
  OBVIOUS
<1>1. LifeOf(NoRow("unborn")) = Lifecycle!Absent("unborn")
  <2>1. /\ NoRow("unborn").status = "unborn" /\ NoRow("unborn").attempts = 0
        /\ ("unborn" = "aborting") = FALSE
    BY DEF NoRow
  <2> QED BY <2>1, LifePhases DEF LifeOf, Lifecycle!Absent
<1>2. \A j \in Job : row[j] = NoRow("unborn")
  BY DEF Init
<1> QED BY <1>1, <1>2 DEF Lifecycle!Init

LEMMA LifeSteps == IInv /\ PInv /\ [Next]_vars => Lifecycle!Next
<1> SUFFICES ASSUME IInv, PInv, [Next]_vars PROVE Lifecycle!Next
  OBVIOUS
<1>1. Moves /\ IInv'
  BY StepMoves, StepsOK
<1>2. ASSUME NEW j \in Job
      PROVE  \/ Lifecycle!Submit(j) \/ Lifecycle!Claim(j)
             \/ Lifecycle!GiveBack(j) \/ Lifecycle!Cancel(j)
             \/ Lifecycle!Settle(j) \/ Lifecycle!Remove(j) \/ Lifecycle!Stay(j)
  <2>1. row[j] \in Sound
    BY DEF IInv
  <2>2. row'[j] \in Sound
    BY <1>1 DEF IInv
  <2> QED BY <1>1, <2>1, <2>2, RowLives DEF Moves
<1>3. DOMAIN [j \in Job |-> LifeOf(row[j])]' = Job
  OBVIOUS
<1> QED BY <1>2, <1>3 DEF Lifecycle!Next

\* Every statement of every party takes each job along the life the queue
\* promises: a claim is the next attempt, a cancelled job ends aborted, and a
\* settled one stays settled.
THEOREM LifecycleIsImplemented == Spec => ImplementsLifecycle
<1>1. IInv /\ PInv /\ [Next]_vars =>
          [Lifecycle!Next]_([j \in Job |-> LifeOf(row[j])])
  BY LifeSteps
<1> QED BY <1>1, LifeStarts, ProtocolHolds, PTL
        DEF Spec, ImplementsLifecycle, Lifecycle!Spec

-----------------------------------------------------------------------------
(***************************************************************************)
(* Closed intake                                                           *)
(***************************************************************************)

Shut(w) == proc[w] # "up" /\ w \notin late /\ ~lease[w].accepting

LEMMA ClosedStays ==
    ASSUME NEW l \in LeaseType, NEW ttl, NEW created
    PROVE  /\ ~ClosedLease(l).accepting
           /\ ~l.accepting /\ ~created
                  => ~WrittenLease(l, ttl, FALSE, created).accepting
<1>1. ClosedLease(l).accepting = FALSE
  BY DEF ClosedLease, LeaseType
<1>2. WrittenLease(l, ttl, FALSE, created).accepting =
          IF l.present THEN FALSE \/ l.accepting ELSE created
  BY DEF WrittenLease
<1> QED BY <1>1, <1>2

\* A step that closes the lease of v, or leaves it alone.
LEMMA ClosingSteps ==
    ASSUME IInv, NEW v \in Worker, NEW w \in Worker, ~lease[w].accepting,
           lease' = [lease EXCEPT ![v] = ClosedLease(@)]
    PROVE  ~lease'[w].accepting
<1>1. lease \in [Worker -> LeaseType]
  BY DEF IInv, RestOK
<1> QED BY <1>1, ClosedStays

\* A heartbeat of v that recreates no open lease.
LEMMA BeatingSteps ==
    ASSUME IInv, NEW v \in Worker, NEW w \in Worker, ~lease[w].accepting,
           NEW ttl, NEW created, v = w => ~created,
           lease' = [lease EXCEPT ![v] = WrittenLease(@, ttl, FALSE, created)]
    PROVE  ~lease'[w].accepting
<1>1. lease \in [Worker -> LeaseType]
  BY DEF IInv, RestOK
<1> QED BY <1>1, ClosedStays

LEMMA AttemptLeases ==
    ASSUME IInv, AttemptStep
    PROVE  \/ UNCHANGED lease
           \/ \E v \in Worker : lease' = [lease EXCEPT ![v] = ClosedLease(@)]
<1>1. ASSUME NEW a \in inflight, NEW refused, RequeueShutdown(a, refused)
      PROVE  \E v \in Worker : lease' = [lease EXCEPT ![v] = ClosedLease(@)]
  BY <1>1, AttemptFields DEF RequeueShutdown
<1>2. ASSUME NEW a \in inflight, DrainOnShutdown(a)
      PROVE  \E v \in Worker : lease' = [lease EXCEPT ![v] = ClosedLease(@)]
  BY <1>2, AttemptFields DEF DrainOnShutdown
<1>3. ASSUME NEW a \in inflight, TryFinalize(a)
      PROVE  UNCHANGED lease \/ \E refused : RequeueShutdown(a, refused)
  <2>1. CASE FinalizeSuccess(a)
    BY <2>1 DEF FinalizeSuccess, FinishAttempt
  <2>2. CASE FinalizeErrored(a)
    BY <2>2 DEF FinalizeErrored, FinishAttempt, RetryAttempt
  <2>3. CASE FinalizeCancelled(a)
    BY <2>3 DEF FinalizeCancelled, FinishAttempt, RetryAttempt,
                FinalizeSuperseded, Local, tables
  <2>4. CASE FinalizeUnhandled(a)
    BY <2>4 DEF FinalizeUnhandled
  <2> QED BY <1>3, <2>1, <2>2, <2>3, <2>4 DEF TryFinalize
<1>4. ASSUME NEW a \in inflight, NEW end, NEW status,
             \/ Process(a) \/ HandlerEnds(a, end) \/ HandlerCancelled(a)
             \/ PollAbort(a) \/ RequestAbort(a) \/ RereadRefusal(a)
             \/ FinishAbortedFallback(a)
             \/ GiveUp(a) \/ ConsumerFinish(a, status) \/ ConsumerRetry(a)
             \/ DropAttempt(a)
      PROVE  UNCHANGED lease
  BY <1>4 DEF Process, HandlerEnds, HandlerCancelled, PollAbort, RequestAbort,
       RereadRefusal, FinishAbortedFallback, FinishAttempt, GiveUp, ConsumerFinish,
       ConsumerRetry, DropAttempt, Local, tables
<1> QED BY <1>1, <1>2, <1>3, <1>4 DEF AttemptStep

LEMMA IntakeSteps ==
    ASSUME IInv, [Next]_vars, NEW w \in Runtime, Shut(w)
    PROVE  ~lease'[w].accepting
<1>1. /\ w \in Worker /\ w \notin Consumer /\ lease \in [Worker -> LeaseType]
      /\ ~lease[w].accepting /\ proc[w] # "up" /\ w \notin late
  BY PartiesAssumption DEF Worker, Shut, IInv, RestOK
<1>2. CASE UNCHANGED lease
  BY <1>1, <1>2
<1>3. CASE Tick
  <2>1. lease'[w] = IF lease[w].present
                    THEN [lease[w] EXCEPT !.left = Lapsed(@)] ELSE lease[w]
    BY <1>1, <1>3 DEF Tick
  <2>2. lease'[w].accepting = lease[w].accepting
    BY <1>1, <2>1 DEF LeaseType
  <2> QED BY <1>1, <2>2
<1>4. CASE ProcessStep
  <2> PICK v \in Worker :
        \/ WorkerHeartbeat(v) \/ ConsumerHeartbeat(v) \/ BeginShutdown(v)
        \/ LateHeartbeat(v) \/ StopWorkerIntake(v) \/ FetcherStops(v)
        \/ Retire(v) \/ Crash(v)
        \/ \E S \in SUBSET Job : Dequeue(v, S) \/ DequeueLost(v, S)
        \/ CommitLands(v) \/ CommitNeverLands(v)
    BY <1>4 DEF ProcessStep
  <2>1. CASE WorkerHeartbeat(v)
    <3> DEFINE created == proc[v] = "up"
    <3>1. lease' = [lease EXCEPT
                      ![v] = WrittenLease(@, LeaseTtl, FALSE, created)]
      BY <2>1 DEF WorkerHeartbeat
    <3>2. v = w => ~created
      BY <1>1
    <3> HIDE DEF created
    <3> QED BY <1>1, <3>1, <3>2, BeatingSteps
  <2>2. CASE ConsumerHeartbeat(v)
    BY <1>1, <2>2 DEF ConsumerHeartbeat
  <2>3. CASE LateHeartbeat(v)
    BY <1>1, <2>3 DEF LateHeartbeat
  <2>4. CASE StopWorkerIntake(v)
    BY <1>1, <2>4, ClosingSteps DEF StopWorkerIntake
  <2>5. CASE Retire(v)
    <3>1. CASE lease' = [lease EXCEPT
                           ![v] = WrittenLease(@, 0, FALSE, FALSE)]
      BY <1>1, <3>1, BeatingSteps
    <3> QED BY <1>2, <2>5, <3>1 DEF Retire
  <2> QED BY <1>2, <2>1, <2>2, <2>3, <2>4, <2>5
          DEF BeginShutdown, FetcherStops, Crash, Dequeue, DequeueLost,
              CommitLands, CommitNeverLands, tables
<1>5. CASE AttemptStep
  BY <1>1, <1>2, <1>5, AttemptLeases, ClosingSteps
<1>6. CASE SweeperStep
  <2>1. ASSUME NEW s \in Sweeper, NEW W \in SUBSET Worker,
               SweepWorkerLeases(s, W)
        PROVE  ~lease'[w].accepting
    BY <1>1, <2>1 DEF SweepWorkerLeases, NoLease
  <2> QED BY <1>2, <1>6, <2>1
          DEF SweeperStep, SweepExpiredJobs, SweepScan, SweepMark, SweepRetry,
              SweepAbort, SweepFails, tables
<1>7. CASE OperatorStep
  BY <1>2, <1>7 DEF OperatorStep, Enqueue, AbortJob, PurgeQueuedJobs,
                    RetryJobOccurrence
<1>8. CASE ResolverStep
  BY <1>2, <1>8 DEF ResolverStep, ResolveUnacknowledged, ResolveDropped
<1>9. CASE UNCHANGED vars \/ \E c \in runaway : RunawayReturns(c)
  BY <1>2, <1>9 DEF vars, RunawayReturns, tables
<1> QED BY <1>3, <1>4, <1>5, <1>6, <1>7, <1>8, <1>9 DEF Next

\* The durable half of close_intake is final: neither a heartbeat of the
\* drain, nor the purge of the lease, nor the final write opens it again.
THEOREM ClosedIntakeStays == Spec => IntakeStaysClosed
<1>1. IInv /\ [Next]_vars =>
          [\A w \in Runtime :
              proc[w] # "up" /\ w \notin late /\ ~lease[w].accepting
                => ~lease'[w].accepting]_vars
  BY IntakeSteps DEF Shut
<1> QED BY <1>1, InvHolds, PTL DEF Spec, IntakeStaysClosed

=============================================================================
