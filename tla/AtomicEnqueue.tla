---------------------------- MODULE AtomicEnqueue ----------------------------
(***************************************************************************)
(* What enqueueing under dedupe keys promises, with no locks, no           *)
(* transactions and no half of a batch in sight: a batch takes effect in   *)
(* one step, with all its new rows or with none.  Each of its jobs is      *)
(* answered with its own new row, with a row of its key and type that was  *)
(* live at some moment of the call, or with the new row of a job of the    *)
(* batch that has the same key.  A batch is refused only while somebody    *)
(* else holds one of its keys for another type, or because it contradicts  *)
(* itself, and it leaves nothing behind.                                   *)
(***************************************************************************)
EXTENDS Naturals

CONSTANTS Producer, Key, NoKey, Name, Batch, Outsider

VARIABLES
    table,      \* the rows that everybody sees
    state,      \* what has become of each producer's call
    asked,      \* its batch
    met,        \* by job of the batch: the row it has met under its key, if any
    answer

atomicVars == <<table, state, asked, met, answer>>

Row(id, key, name) == [id |-> id, key |-> key, name |-> name, live |-> TRUE]

Holders(k) == {r \in table : r.live /\ r.key = k}

Jobs(p) == DOMAIN asked[p]

\* Two jobs of the batch under one key.
SameKey(p, i, j) == asked[p][i].key # NoKey /\ asked[p][i].key = asked[p][j].key

Contradicts(p) ==
    \E i, j \in Jobs(p) : SameKey(p, i, j) /\ asked[p][i].name # asked[p][j].name

Init ==
    /\ table = {}
    /\ state = [p \in Producer |-> "new"]
    /\ asked = [p \in Producer |-> <<>>]
    /\ met = [p \in Producer |-> <<>>]
    /\ answer = [p \in Producer |-> <<>>]

-----------------------------------------------------------------------------
Ask(p) ==
    /\ state[p] = "new" /\ state' = [state EXCEPT ![p] = "asking"]
    /\ \E b \in Batch : /\ asked' = [asked EXCEPT ![p] = b]
                        /\ met' = [met EXCEPT ![p] = [i \in DOMAIN b |-> {}]]
    /\ UNCHANGED <<table, answer>>

\* Some jobs of the batch meet who holds their keys.
Meet(p) ==
    /\ state[p] = "asking"
    /\ met' = [met EXCEPT ![p] = [i \in Jobs(p) |-> met'[p][i]]]
    /\ \A i \in Jobs(p) :
         \/ met'[p][i] = met[p][i]
         \/ /\ asked[p][i].key # NoKey
            /\ \E r \in Holders(asked[p][i].key) :
                   r.name = asked[p][i].name /\ met'[p][i] = {r.id}
    /\ UNCHANGED <<table, state, asked, answer>>

\* The batch takes effect: the jobs of I get rows.  No key gets a second live
\* row, and each job that gets none has met a row or goes with a job of I.
TakesEffect(p, I) ==
    /\ ~Contradicts(p)
    /\ \A i \in I : asked[p][i].key # NoKey =>
           /\ Holders(asked[p][i].key) = {}
           /\ \A j \in I : SameKey(p, i, j) => i = j
    /\ \A i \in Jobs(p) \ I :
           /\ asked[p][i].key # NoKey
           /\ met[p][i] # {} \/ \E j \in I : SameKey(p, i, j)
    /\ table' = table \cup
           {Row(<<p, i>>, asked[p][i].key, asked[p][i].name) : i \in I}

\* What the i-th job may be answered.
Answers(p, I, i) ==
    IF i \in I THEN {[kind |-> "inserted", id |-> <<p, i>>]}
    ELSE {[kind |-> "deduplicated", id |-> id] :
             id \in met[p][i]
                        \cup {<<p, j>> : j \in {n \in I : SameKey(p, i, n)}}}

Take(p) ==
    /\ state[p] = "asking" /\ state' = [state EXCEPT ![p] = "answered"]
    /\ \E I \in SUBSET Jobs(p) :
         /\ TakesEffect(p, I)
         /\ \A i \in Jobs(p) : answer'[p][i] \in Answers(p, I, i)
    /\ answer' = [answer EXCEPT ![p] = [i \in Jobs(p) |-> answer'[p][i]]]
    /\ UNCHANGED <<asked, met>>

Refuse(p) ==
    /\ state[p] = "asking" /\ state' = [state EXCEPT ![p] = "refused"]
    /\ \/ Contradicts(p)
       \/ \E i \in Jobs(p) : \E r \in Holders(asked[p][i].key) :
              r.name # asked[p][i].name
    /\ UNCHANGED <<table, asked, met, answer>>

\* DedupeRace is answered only in a table that others write as well.
Race(p) ==
    /\ state[p] = "asking" /\ state' = [state EXCEPT ![p] = "race"]
    /\ \E r \in table : r.id[1] = Outsider
    /\ UNCHANGED <<table, asked, met, answer>>

\* The caller learns nothing: the batch has taken effect, or it never will.
Lose(p) ==
    /\ state[p] = "asking" /\ state' = [state EXCEPT ![p] = "gone"]
    /\ \/ UNCHANGED table
       \/ \E I \in SUBSET Jobs(p) : TakesEffect(p, I)
    /\ UNCHANGED <<asked, met, answer>>

-----------------------------------------------------------------------------
\* Somebody else writes a new row under a free key.
Write(k) ==
    /\ Holders(k) = {}
    /\ \E r \in table' \ table :
         /\ r = Row(r.id, k, r.name) /\ r.name \in Name
         /\ r.id[1] = Outsider /\ \A s \in table : s.id # r.id
         /\ table' = table \cup {r}
    /\ UNCHANGED <<state, asked, met, answer>>

\* A job ends and gives its key back.
End(r) ==
    /\ r.live
    /\ table' = (table \ {r}) \cup {[r EXCEPT !.live = FALSE]}
    /\ UNCHANGED <<state, asked, met, answer>>

Next ==
    \/ \E p \in Producer : Ask(p) \/ Meet(p) \/ Take(p) \/ Refuse(p) \/ Race(p)
                             \/ Lose(p)
    \/ \E k \in Key : Write(k)
    \/ \E r \in table : End(r)

Spec == Init /\ [][Next]_atomicVars

=============================================================================
