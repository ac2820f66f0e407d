--------------------------- MODULE CompletionWait ---------------------------
(***************************************************************************)
(* Waiting for a job's result (JobHandle::wait).  A waiter marks the row   *)
(* as awaited, subscribes to the completions of its job at the queue's     *)
(* listener, and then reads the row: at once, whenever a completion is     *)
(* announced, and on a timer in case the announcement was lost.            *)
(*                                                                         *)
(* One job, its row, the listener of one queue handle, and several         *)
(* waiters.  A NOTIFY reaches a connected listener some time after the     *)
(* finish is committed, and nobody if the listener is not connected.       *)
(***************************************************************************)
EXTENDS Integers, Sequences, FiniteSets

CONSTANTS
    Waiter,
    Marked,         \* the waiter whose own enqueue marked the row as awaited
    Hurried,        \* waiters whose caller gave them a timeout
    Unset,          \* no event
    MaxGlitches,    \* bound on failed reads and writes of the waiters
    MaxChanges      \* bound on lost connections, foreign notifications and
                    \* deletions

Terminal == {"complete", "failed", "aborted"}
Live == {"queued", "running"}

ASSUME WaitAssumption ==
    /\ IsFiniteSet(Waiter) /\ Marked \subseteq Waiter /\ Hurried \subseteq Waiter
    /\ Unset \notin Terminal
    /\ MaxGlitches \in Nat /\ MaxChanges \in Nat

VARIABLES
    status, awaited,    \* the row; "gone" when there is none
    reached,            \* history: the terminal statuses the job ever had
    pool,               \* "open" or "closed"
    connected, transit, \* the listener, and what it has not received yet
    \* each waiter
    pc, subscribed, inbox, pending, event, seenAlive, missing, answer,
    assured,    \* history: marked, and since then neither a lost connection
                \* nor a failed read after an announcement
    told,       \* history: the last completion it was told of
    forged,     \* history: completions announced by foreign sessions
    glitches, changes

jobRow == <<status, awaited, reached>>
waiting == <<pc, subscribed, inbox, pending, event, seenAlive, missing, answer>>
history == <<assured, told, forged>>
waitVars == <<jobRow, pool, connected, transit, waiting, history, glitches,
              changes>>

WaitTypeOK ==
    /\ status \in Live \cup Terminal \cup {"gone"} /\ awaited \in BOOLEAN
    /\ reached \subseteq Terminal /\ forged \subseteq Terminal
    /\ pool \in {"open", "closed"} /\ connected \in BOOLEAN
    /\ transit \in Seq(Terminal) /\ (~connected => transit = <<>>)
    /\ pc \in [Waiter -> {"mark", "subscribe", "poll", "sleep", "refetch",
                          "returned"}]
    \* The listener's map holds exactly the waiters that wait.
    /\ \A w \in Waiter : subscribed[w] <=> pc[w] \in {"poll", "sleep", "refetch"}
    /\ \A w \in Waiter : ~subscribed[w] => inbox[w] = Unset
    /\ {inbox[w] : w \in Waiter} \subseteq Terminal \cup {Unset}
    /\ {pending[w] : w \in Waiter} \subseteq Terminal \cup {Unset}
    /\ \A w \in Waiter : event[w] # Unset <=> pc[w] = "refetch"
    /\ seenAlive \in [Waiter -> BOOLEAN] /\ missing \in [Waiter -> BOOLEAN]
    /\ answer \in [Waiter -> {"none", "value", "failed", "aborted", "expired",
                              "not_found", "timeout", "closed"}]
    /\ \A w \in Waiter : answer[w] = "none" <=> pc[w] # "returned"
    /\ glitches \in 0..MaxGlitches /\ changes \in 0..MaxChanges

WaitInit ==
    /\ status \in {"queued", "gone"}
    /\ awaited = (Marked # {})
    /\ reached = {} /\ pool = "open"
    /\ connected \in BOOLEAN /\ transit = <<>>
    /\ pc = [w \in Waiter |-> IF w \in Marked THEN "subscribe" ELSE "mark"]
    /\ subscribed = [w \in Waiter |-> FALSE]
    /\ inbox = [w \in Waiter |-> Unset]
    /\ pending = [w \in Waiter |-> Unset]
    /\ event = [w \in Waiter |-> Unset]
    /\ seenAlive = [w \in Waiter |-> FALSE]
    /\ missing = [w \in Waiter |-> FALSE]
    /\ answer = [w \in Waiter |-> "none"]
    /\ assured = [w \in Waiter |-> connected /\ w \in Marked]
    /\ told = [w \in Waiter |-> Unset] /\ forged = {}
    /\ glitches = 0 /\ changes = 0

Fault == glitches < MaxGlitches /\ glitches' = glitches + 1
Change == changes < MaxChanges /\ changes' = changes + 1

---------------------------------------------------------------------------
(* The job.                                                                *)

\* The row becomes terminal; the same transaction notifies if it is awaited.
Finish(s) ==
    /\ status \in Live
    /\ status' = s /\ reached' = reached \cup {s}
    /\ transit' = IF awaited /\ connected THEN Append(transit, s) ELSE transit
    /\ UNCHANGED <<awaited, pool, connected, waiting, history, glitches, changes>>

\* Claims, retries and returns move a live row between its live statuses.
Run ==
    /\ status = "queued" /\ status' = "running"
    /\ UNCHANGED <<awaited, reached, pool, connected, transit, waiting, history,
                   glitches, changes>>

\* Retention deletes a finished row, purge_queued_jobs a queued one.
Delete ==
    /\ status \in Terminal \cup {"queued"} /\ Change
    /\ status' = "gone"
    /\ UNCHANGED <<awaited, reached, pool, connected, transit, waiting, history,
                   glitches>>

---------------------------------------------------------------------------
(* The listener.                                                           *)

\* Who gets a completion: everybody registered under the id whose channel of
\* capacity one is empty.
ToldNow(w) == subscribed[w] /\ inbox[w] = Unset

Deliver ==
    /\ connected /\ transit # <<>>
    /\ inbox' = [w \in Waiter |-> IF ToldNow(w) THEN Head(transit)
                                                ELSE inbox[w]]
    /\ transit' = Tail(transit)
    /\ UNCHANGED <<jobRow, pool, connected, pc, subscribed, pending, event,
                   seenAlive, missing, answer, history, glitches, changes>>

Disconnect ==
    /\ connected /\ connected' = FALSE /\ Change
    /\ transit' = <<>>
    /\ assured' = [w \in Waiter |-> FALSE]
    /\ UNCHANGED <<jobRow, forged, pool, waiting, told, glitches>>

Reconnect ==
    /\ ~connected /\ connected' = TRUE
    /\ UNCHANGED <<jobRow, pool, transit, waiting, history, glitches, changes>>

ClosePool ==
    /\ pool = "open" /\ pool' = "closed" /\ Change
    /\ UNCHANGED <<jobRow, connected, transit, waiting, history, glitches>>

\* Another session of the database sends a completion of its own making, with a
\* terminal status (resolve_deleted answers any other with an abort or an error).
ForeignNotify(s) ==
    /\ connected /\ Change
    /\ transit' = Append(transit, s) /\ forged' = forged \cup {s}
    /\ UNCHANGED <<jobRow, pool, connected, waiting, assured, told, glitches>>

---------------------------------------------------------------------------
(* A waiter.                                                               *)

\* Dropping the subscription takes the waiter out of the listener's map.
Unsubscribe(w) ==
    /\ subscribed' = [subscribed EXCEPT ![w] = FALSE]
    /\ inbox' = [inbox EXCEPT ![w] = Unset]

\* The wait is over.
Return(w, a) ==
    /\ pc' = [pc EXCEPT ![w] = "returned"]
    /\ answer' = [answer EXCEPT ![w] = a]
    /\ Unsubscribe(w)
    /\ pending' = [pending EXCEPT ![w] = Unset]
    /\ event' = [event EXCEPT ![w] = Unset]
    /\ missing' = [missing EXCEPT ![w] = FALSE]
    /\ UNCHANGED <<seenAlive, told>>

\* What a terminal row says.
Resolve(s) == IF s = "complete" THEN "value" ELSE s

\* What is left to say when the row is gone.
ResolveDeleted(s) == IF s = "complete" THEN "expired" ELSE s

Vanished(w) == IF seenAlive[w] THEN "expired" ELSE "not_found"

\* Mutant: only rows that no worker has claimed yet are marked.
MarkQueued == awaited' = (awaited \/ status = "queued")

MarkAwaited == awaited' = (awaited \/ status # "gone")

Mark(w) ==
    /\ pc[w] = "mark"
    /\ \/ /\ pool = "closed" /\ Return(w, "closed")
          /\ UNCHANGED <<awaited, assured, glitches>>
       \/ /\ pool = "open" /\ MarkAwaited
          /\ pc' = [pc EXCEPT ![w] = "subscribe"]
          /\ assured' = [assured EXCEPT ![w] = connected]
          /\ UNCHANGED <<subscribed, inbox, pending, event, seenAlive, missing,
                         answer, told, glitches>>
       \/ /\ pool = "open" /\ Fault
          /\ MarkAwaited \/ UNCHANGED awaited
          /\ pc' = [pc EXCEPT ![w] = "subscribe"]
          /\ UNCHANGED <<subscribed, inbox, pending, event, seenAlive, missing,
                         answer, assured, told>>
    /\ UNCHANGED <<status, reached, forged, pool, connected, transit, changes>>

Subscribe(w) ==
    /\ pc[w] = "subscribe"
    /\ pc' = [pc EXCEPT ![w] = "poll"]
    /\ subscribed' = [subscribed EXCEPT ![w] = TRUE]
    /\ UNCHANGED <<jobRow, pool, connected, transit, inbox, pending, event,
                   seenAlive, missing, answer, history, glitches, changes>>

Poll(w) ==
    /\ pc[w] = "poll"
    /\ \/ /\ pool = "closed" /\ Return(w, "closed")
       \/ /\ pool = "open" /\ status \in Terminal /\ Return(w, Resolve(status))
       \/ /\ pool = "open" /\ status = "gone" /\ pending[w] # Unset
          /\ Return(w, ResolveDeleted(pending[w]))
       \/ /\ pool = "open"
          /\ status \in Live \/ (status = "gone" /\ pending[w] = Unset)
          /\ missing' = [missing EXCEPT ![w] = status = "gone"]
          /\ seenAlive' = [seenAlive EXCEPT ![w] = @ \/ status \in Live]
          /\ pending' = [pending EXCEPT ![w] = Unset]
          /\ told' = [told EXCEPT ![w] = IF status \in Live THEN Unset ELSE @]
          /\ pc' = [pc EXCEPT ![w] = "sleep"]
          /\ UNCHANGED <<subscribed, inbox, event, answer>>
    /\ UNCHANGED <<jobRow, forged, pool, connected, transit, assured, glitches,
                   changes>>

\* A failed poll is retried after a pause.
PollFails(w) ==
    /\ pc[w] = "poll" /\ pool = "open" /\ Fault
    /\ UNCHANGED <<jobRow, pool, connected, transit, waiting, history, changes>>

\* Mutant: a missing row is polled for again.
TimerOfMissing(w) ==
    /\ pc' = [pc EXCEPT ![w] = "poll"]
    /\ missing' = [missing EXCEPT ![w] = FALSE]
    /\ UNCHANGED <<subscribed, inbox, pending, event, seenAlive, answer, told>>

\* A row that was missing is given up after one more interval.
GiveUpMissing(w) ==
    Return(w, IF pending[w] # Unset THEN ResolveDeleted(pending[w])
                                   ELSE Vanished(w))

Timer(w) ==
    /\ pc[w] = "sleep"
    /\ \/ missing[w] /\ GiveUpMissing(w)
       \/ /\ ~missing[w]
          /\ pc' = [pc EXCEPT ![w] = "poll"]
          /\ UNCHANGED <<subscribed, inbox, pending, event, seenAlive, missing,
                         answer, told>>
    /\ UNCHANGED <<jobRow, forged, pool, connected, transit, assured, glitches,
                   changes>>

Receive(w) ==
    /\ pc[w] = "sleep" /\ inbox[w] # Unset
    /\ event' = [event EXCEPT ![w] = inbox[w]]
    /\ told' = [told EXCEPT ![w] = inbox[w]]
    /\ inbox' = [inbox EXCEPT ![w] = Unset]
    /\ pc' = [pc EXCEPT ![w] = "refetch"]
    /\ UNCHANGED <<jobRow, forged, pool, connected, transit, subscribed, pending,
                   seenAlive, missing, answer, assured, glitches, changes>>

KeepEvent(w) == pending' = [pending EXCEPT ![w] = event[w]]

Refetch(w) ==
    /\ pc[w] = "refetch"
    /\ \/ /\ pool = "open" /\ status \in Terminal /\ Return(w, Resolve(status))
          /\ UNCHANGED <<glitches, assured>>
       \/ /\ pool = "open" /\ status = "gone"
          /\ Return(w, ResolveDeleted(event[w]))
          /\ UNCHANGED <<glitches, assured>>
       \/ /\ pool = "open" /\ status \in Live
          /\ event' = [event EXCEPT ![w] = Unset]
          /\ pc' = [pc EXCEPT ![w] = "sleep"]
          /\ told' = [told EXCEPT ![w] = Unset]
          /\ UNCHANGED <<subscribed, inbox, pending, seenAlive, missing,
                         answer, assured, glitches>>
       \/ /\ IF pool = "closed" THEN UNCHANGED glitches ELSE Fault
          /\ KeepEvent(w)
          /\ event' = [event EXCEPT ![w] = Unset]
          /\ pc' = [pc EXCEPT ![w] = "sleep"]
          /\ assured' = [assured EXCEPT ![w] = FALSE]
          /\ UNCHANGED <<subscribed, inbox, seenAlive, missing, answer, told>>
    /\ UNCHANGED <<jobRow, forged, pool, connected, transit, changes>>

\* The caller's timeout drops the future.
TimeOut(w) ==
    /\ w \in Hurried /\ pc[w] # "returned"
    /\ Return(w, "timeout")
    /\ UNCHANGED <<jobRow, forged, pool, connected, transit, assured, glitches,
                   changes>>

Wait(w) == Mark(w) \/ Subscribe(w) \/ Poll(w) \/ Timer(w) \/ Refetch(w)

WaitNext ==
    \/ \E s \in Terminal : Finish(s)
    \/ Run \/ Delete \/ \E s \in Terminal : ForeignNotify(s)
    \/ Deliver \/ Disconnect \/ Reconnect \/ ClosePool
    \/ \E w \in Waiter : Wait(w) \/ Receive(w) \/ PollFails(w) \/ TimeOut(w)

WaitSpec == WaitInit /\ [][WaitNext]_waitVars

---------------------------------------------------------------------------
(***************************************************************************)
(* An answer is true when it is given.  A value was read from the row; a   *)
(* failure or an abort is in the row, or is what an announcement said of   *)
(* a row that is gone; an expired result belongs to a row that existed and *)
(* is gone; a job is called missing only if no read ever found it.         *)
(***************************************************************************)
AnswerIsTrue ==
    [][\A w \in Waiter : answer'[w] # answer[w] =>
         CASE answer'[w] = "value" -> status = "complete"
           [] answer'[w] \in {"failed", "aborted"} ->
                  \/ status = answer'[w]
                  \/ status = "gone" /\ answer'[w] \in reached \cup forged
           [] answer'[w] \in {"expired", "not_found"} ->
                  /\ status = "gone"
                  /\ (answer'[w] = "not_found") => ~seenAlive[w]
           [] OTHER -> TRUE]_waitVars

(***************************************************************************)
(* A waiter that was told that its job failed or was aborted does not      *)
(* report an expired or a missing job, though the row is gone and the read *)
(* after the announcement failed: polling cannot recover that fact.        *)
(***************************************************************************)
ToldIsRemembered ==
    \A w \in Waiter : answer[w] \in {"expired", "not_found"} =>
        told[w] \in {Unset, "complete"}

(***************************************************************************)
(* No gap between mark, subscription and read: as long as the listener is  *)
(* connected, the waiter's mark was written and no read of an announced    *)
(* result failed, a finished job never leaves the waiter asleep without an *)
(* announcement on its way: the timer is only needed after a loss.         *)
(***************************************************************************)
FinishIsAnnounced ==
    \A w \in Waiter :
        pc[w] = "sleep" /\ assured[w] /\ status \in Terminal =>
            inbox[w] # Unset \/ transit # <<>>

(***************************************************************************)
(* A wait on a job that has come to its end returns, whatever announcement *)
(* is lost and however the listener fares.                                 *)
(***************************************************************************)
WaitReturns ==
    <>[](status \notin Live) => \A w \in Waiter : []<>(pc[w] = "returned")

(***************************************************************************)
(* A wait and the announcements it lives on: what the listener was told is *)
(* remembered for the waiter, a finish is announced to whoever marked the  *)
(* row, and the answer of a wait is what became of the job.                *)
(***************************************************************************)
WaitSafety ==
    /\ [](WaitTypeOK /\ ToldIsRemembered /\ FinishIsAnnounced)
    /\ AnswerIsTrue
=============================================================================
