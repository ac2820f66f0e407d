---------------------------- MODULE EnqueueDedupe ----------------------------
(***************************************************************************)
(* Enqueueing under dedupe keys.  A producer locks the keys of its batch   *)
(* (advisory transaction locks on hashes of the keys), reads who holds     *)
(* them, inserts the jobs whose key is free, and commits.  The unique      *)
(* index on live rows is the last word: SQL that writes ironqueue.jobs     *)
(* without the lock may take a key between the read and the insert, and    *)
(* the producer then has to find out who did.                              *)
(*                                                                         *)
(* A single enqueue is a batch of one.  A statement is one step: reads see *)
(* what is committed when they run (READ COMMITTED).                       *)
(***************************************************************************)
EXTENDS Integers, Sequences, FiniteSets

CONSTANTS
    Producer, Key, NoKey,
    LockId,         \* hashtext of a key; different keys may share one
    Batch,          \* the batches a producer may send
    Free,           \* nobody
    Outsider,       \* writes rows without taking the enqueue locks
    MaxOutside,     \* bound on the rows of outsiders
    MaxFaults       \* bound on dropped enqueues

Name == {"mine", "other"}

ASSUME EnqueueAssumption ==
    /\ IsFiniteSet(Producer) /\ NoKey \notin Key
    /\ LockId \in [Key -> Nat]
    /\ \A b \in Batch : b \in Seq([key : Key \cup {NoKey}, name : Name])
    /\ Free \notin Producer /\ Outsider \notin Producer
    /\ MaxOutside \in Nat /\ MaxFaults \in Nat

VARIABLES
    rows,       \* ironqueue.jobs; tx is Free when the row is committed
    lock,       \* who holds each advisory lock
    at, batch, results,
    dropped,    \* keys whose insert ON CONFLICT DO NOTHING swallowed
    outside,    \* rows written by outsiders so far
    faults

enqueueVars == <<rows, lock, at, batch, results, dropped, outside, faults>>

Lock == {LockId[k] : k \in Key}

Keys(p) == {batch[p][i].key : i \in DOMAIN batch[p]} \ {NoKey}

Locks(p) == {LockId[k] : k \in Keys(p)}
Held(p) == {l \in Lock : lock[l] = p}

LiveUnder(k) == {r \in rows : r.live /\ r.key = k}
Visible(p) == {r \in rows : r.tx \in {Free, p}}

Asking == {"lock", "insert", "reread", "commit"}

EnqueueTypeOK ==
    /\ \A r \in rows : /\ r.key \in Key \cup {NoKey} /\ r.name \in Name
                       /\ r.tx \in Producer \cup {Free}
                       /\ r.live \in BOOLEAN
    /\ lock \in [Lock -> Producer \cup {Free}]
    /\ at \in [Producer -> {"new", "answered", "refused", "race", "gone"}
                                \cup Asking]
    /\ batch \in [Producer -> Batch \cup {<<>>}]
    /\ \A p \in Producer : at[p] \in Asking \ {"lock"} =>
                               DOMAIN results[p] = DOMAIN batch[p]
    /\ \A p \in Producer : dropped[p] \subseteq Keys(p)
    \* From the first read on a producer holds the locks of all its keys, and
    \* lets go of them with the transaction.
    /\ \A p \in Producer : IF at[p] \in Asking \ {"lock"}
                           THEN Held(p) = Locks(p)
                           ELSE at[p] # "lock" => Held(p) = {}
    \* jobs_dedupe_key_idx.
    /\ \A k \in Key : Cardinality(LiveUnder(k)) <= 1
    /\ outside \in 0..MaxOutside /\ faults \in 0..MaxFaults

EnqueueInit ==
    /\ rows = {}
    /\ lock = [l \in Lock |-> Free]
    /\ at = [p \in Producer |-> "new"]
    /\ batch = [p \in Producer |-> <<>>]
    /\ results = [p \in Producer |-> <<>>]
    /\ dropped = [p \in Producer |-> {}]
    /\ outside = 0 /\ faults = 0

---------------------------------------------------------------------------
Begin(p) ==
    /\ at[p] = "new"
    /\ \E b \in Batch : batch' = [batch EXCEPT ![p] = b]
    /\ at' = [at EXCEPT ![p] = "lock"]
    /\ UNCHANGED <<rows, lock, results, dropped, outside, faults>>

\* Mutant: the locks are taken in the order of the batch.
NextOfBatch(p) ==
    LET open == {i \in DOMAIN batch[p] :
                   batch[p][i].key # NoKey /\ lock[LockId[batch[p][i].key]] # p}
        first == CHOOSE i \in open : \A j \in open : i <= j
    IN  LockId[batch[p][first].key]

\* The locks are taken in the order of their ids.
NextLock(p) ==
    LET open == Locks(p) \ Held(p) IN
    CHOOSE l \in open : \A m \in open : l <= m

Wanted(p) == Locks(p) \ Held(p)

TakeLock(p) ==
    /\ at[p] = "lock" /\ Wanted(p) # {}
    /\ lock[NextLock(p)] = Free
    /\ lock' = [lock EXCEPT ![NextLock(p)] = p]
    /\ UNCHANGED <<rows, at, batch, results, dropped, outside, faults>>

Inserted(id) == [kind |-> "inserted", id |-> id]
Deduplicated(id) == [kind |-> "deduplicated", id |-> id]

\* The transaction of p is over: its rows are gone unless it is committed.
Close(p, commit, outcome) ==
    /\ rows' = IF commit
               THEN {[r EXCEPT !.tx = IF @ = p THEN Free ELSE @] : r \in rows}
               ELSE {r \in rows : r.tx # p}
    /\ lock' = [l \in Lock |-> IF lock[l] = p THEN Free ELSE lock[l]]
    /\ at' = [at EXCEPT ![p] = outcome]
    /\ UNCHANGED <<batch, results, dropped, outside>>

\* The transaction is the producer's own and ends with the refusal; a caller's
\* (enqueue_batch_in) would stay open for the caller to roll back.
Refuse(p, why) == Close(p, FALSE, why)

\* The answer to the i-th job, given the live rows under the keys: the first
\* job of the batch with a free key gets it.
Answer(p, i, holders) ==
    LET k == batch[p][i].key
        same == {j \in DOMAIN batch[p] : batch[p][j].key = k}
        first == CHOOSE j \in same : \A m \in same : j <= m
        holder == {r \in holders : r.key = k}
    IN  CASE k = NoKey -> Inserted(<<p, i>>)
          [] k # NoKey /\ holder # {} ->
                 Deduplicated((CHOOSE r \in holder : TRUE).id)
          [] OTHER -> IF i = first THEN Inserted(<<p, i>>)
                                   ELSE Deduplicated(<<p, first>>)

\* A job whose key belongs to another job type, in the table or earlier in the
\* batch.
Mismatch(p, holders) ==
    \E i \in DOMAIN batch[p] :
        \/ \E r \in holders : r.key = batch[p][i].key /\ r.name # batch[p][i].name
        \/ \E j \in DOMAIN batch[p] : /\ batch[p][i].key # NoKey
                                     /\ batch[p][j].key = batch[p][i].key
                                     /\ batch[p][j].name # batch[p][i].name

\* Mutant: a row that has given its key back still counts.
HoldersEver(p, keys) == {r \in Visible(p) : r.key \in keys}

HoldersOf(p, keys) == {r \in Visible(p) : r.live /\ r.key \in keys}

ReadHolders(p) ==
    LET holders == HoldersOf(p, Keys(p)) IN
    /\ at[p] = "lock" /\ Wanted(p) = {}
    /\ \/ /\ Mismatch(p, holders)
          /\ Refuse(p, "refused")
       \/ /\ ~Mismatch(p, holders)
          /\ results' = [results EXCEPT ![p] =
                [i \in DOMAIN batch[p] |-> Answer(p, i, holders)]]
          /\ at' = [at EXCEPT ![p] = "insert"]
          /\ UNCHANGED <<rows, lock, batch, dropped, outside>>
    /\ UNCHANGED faults

\* INSERT ... ON CONFLICT DO NOTHING waits for a transaction that has a row of
\* the same key, and drops the rows whose key is held.
InsertRows(p) ==
    LET new == {i \in DOMAIN batch[p] : results[p][i].kind = "inserted"}
        blocked == {i \in new : batch[p][i].key # NoKey
                                  /\ LiveUnder(batch[p][i].key) # {}}
    IN
    /\ at[p] = "insert"
    /\ \A i \in blocked : \A r \in LiveUnder(batch[p][i].key) : r.tx = Free
    /\ rows' = rows \cup
         {[id |-> <<p, i>>, key |-> batch[p][i].key, name |-> batch[p][i].name,
           live |-> TRUE, tx |-> p] : i \in new \ blocked}
    /\ dropped' = [dropped EXCEPT ![p] = {batch[p][i].key : i \in blocked}]
    /\ at' = [at EXCEPT ![p] = IF blocked = {} THEN "commit" ELSE "reread"]
    /\ UNCHANGED <<lock, batch, results, outside, faults>>

\* Mutant: only the job whose row was dropped gets the new answer.
ReplaceDropped(p, k, id) ==
    [i \in DOMAIN batch[p] |->
        IF batch[p][i].key = k /\ results[p][i].kind = "inserted"
        THEN Deduplicated(id) ELSE results[p][i]]

\* Every job with the key is answered with its real holder.
Replace(p, k, id) ==
    [i \in DOMAIN batch[p] |->
        IF batch[p][i].key = k THEN Deduplicated(id) ELSE results[p][i]]

\* The holder of a dropped key is read again.
Reread(p) ==
    /\ at[p] = "reread"
    /\ \E k \in dropped[p] :
         LET holders == HoldersOf(p, {k}) IN
         \/ /\ holders = {} /\ Refuse(p, "race")
         \/ /\ holders # {} /\ Mismatch(p, holders) /\ Refuse(p, "refused")
         \/ /\ holders # {} /\ ~Mismatch(p, holders)
            /\ results' = [results EXCEPT ![p] =
                             Replace(p, k, (CHOOSE r \in holders : TRUE).id)]
            /\ dropped' = [dropped EXCEPT ![p] = @ \ {k}]
            /\ at' = [at EXCEPT ![p] = IF dropped[p] = {k} THEN "commit" ELSE @]
            /\ UNCHANGED <<rows, lock, batch, outside>>
    /\ UNCHANGED faults

Commit(p) ==
    /\ at[p] = "commit"
    /\ Close(p, TRUE, "answered")
    /\ UNCHANGED faults

\* The future is dropped, the caller rolls back, or the answer to COMMIT is
\* lost.
Drop(p) ==
    /\ at[p] \in Asking
    /\ faults < MaxFaults /\ faults' = faults + 1
    /\ Close(p, FALSE, "gone") \/ (at[p] = "commit" /\ Close(p, TRUE, "gone"))

---------------------------------------------------------------------------
\* A foreign writer commits a row under a free key.
WriteOutside(k) ==
    /\ outside < MaxOutside /\ outside' = outside + 1
    /\ LiveUnder(k) = {}
    /\ \E name \in Name :
         rows' = rows \cup {[id |-> <<Outsider, outside>>, key |-> k,
                             name |-> name, live |-> TRUE, tx |-> Free]}
    /\ UNCHANGED <<lock, at, batch, results, dropped, faults>>

\* A committed job ends and gives its key back.
JobEnds(r) ==
    /\ r.live /\ r.tx = Free
    /\ rows' = (rows \ {r}) \cup {[r EXCEPT !.live = FALSE]}
    /\ UNCHANGED <<lock, at, batch, results, dropped, outside, faults>>

EnqueueStep(p) ==
    \/ TakeLock(p) \/ ReadHolders(p) \/ InsertRows(p) \/ Reread(p) \/ Commit(p)

EnqueueNext ==
    \/ \E p \in Producer : Begin(p) \/ EnqueueStep(p) \/ Drop(p)
    \/ \E k \in Key : WriteOutside(k)
    \/ \E r \in rows : JobEnds(r)

EnqueueSpec == EnqueueInit /\ [][EnqueueNext]_enqueueVars

---------------------------------------------------------------------------
(***************************************************************************)
(* Every answer names a row that is there: the handle of a batch's n-th    *)
(* job, inserted or deduplicated, belongs to a committed row of its key    *)
(* and its job type.  In particular a job that was deduplicated against an *)
(* earlier one of its batch is answered with the outsider that pushed that *)
(* one aside.                                                              *)
(***************************************************************************)
AnswersAreRows ==
    \A p \in Producer : at[p] = "answered" =>
        \A i \in DOMAIN batch[p] : \E r \in rows :
            /\ r.id = results[p][i].id /\ r.tx = Free
            /\ r.key = batch[p][i].key /\ r.name = batch[p][i].name

(***************************************************************************)
(* A batch that is refused, at the first read or after some of its rows    *)
(* are inserted already, publishes nothing.                                *)
(***************************************************************************)
RefusedLeavesNothing ==
    \A p \in Producer : at[p] \in {"refused", "race"} =>
        \A r \in rows : r.id[1] # p

(***************************************************************************)
(* Producers that take the enqueue lock never push each other aside:       *)
(* DedupeRace needs a writer that does not.                                *)
(***************************************************************************)
RaceNeedsOutsider ==
    \A p \in Producer : at[p] \in {"reread", "race"} => outside > 0

(***************************************************************************)
(* Batches and single enqueues do not deadlock, even when two keys share   *)
(* one lock: every enqueue comes to an end.                                *)
(***************************************************************************)
EnqueuesEnd == \A p \in Producer : []<>(at[p] \notin Asking)

(***************************************************************************)
(* An enqueue under dedupe keys tells the truth: what it answers are rows  *)
(* that exist, a refused batch leaves nothing behind, and the lock makes a *)
(* lost race impossible among those who take it.                           *)
(***************************************************************************)
EnqueueSafety ==
    /\ EnqueueTypeOK
    /\ AnswersAreRows
    /\ RefusedLeavesNothing
    /\ RaceNeedsOutsider

---------------------------------------------------------------------------
\* A row as those see it who read after the commit.
Public(r) == [id |-> r.id, key |-> r.key, name |-> r.name, live |-> r.live]

PublicTable == {Public(r) : r \in {r \in rows : r.tx = Free}}

CallState == [p \in Producer |-> IF at[p] \in Asking THEN "asking" ELSE at[p]]

\* The row that the i-th job was found to share its key with, if it is not one
\* of its own batch.
Met(p, i) ==
    IF i \in DOMAIN results[p] /\ results[p][i].id[1] # p
    THEN {results[p][i].id} ELSE {}

MetRows == [p \in Producer |-> [i \in DOMAIN batch[p] |-> Met(p, i)]]

PublicAnswers ==
    [p \in Producer |-> IF at[p] = "answered" THEN results[p] ELSE <<>>]

Atomic == INSTANCE AtomicEnqueue WITH
    table <- PublicTable, state <- CallState, asked <- batch,
    met <- MetRows, answer <- PublicAnswers

(***************************************************************************)
(* To everybody else a batch happens in one step: locks, reads, inserts,   *)
(* conflicts and re-reads implement the atomic enqueue, with rows that     *)
(* were live during the call in its answers.                               *)
(***************************************************************************)
ImplementsAtomicEnqueue == Atomic!Spec
=============================================================================
