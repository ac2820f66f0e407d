---------------------------- MODULE JobLifecycle ----------------------------
(***************************************************************************)
(* What the queue promises about one job, whoever claims it, however often *)
(* a process dies and whatever the sweeper does: every claim is a new      *)
(* attempt with the next number; an attempt ends by giving the job back or *)
(* by settling it; a job that was cancelled is never run again and ends    *)
(* aborted; a settled job never comes back to life.  One step may move     *)
(* several jobs, as a batch statement does.                                *)
(***************************************************************************)
EXTENDS Naturals

CONSTANT Job

VARIABLE life      \* by job id: [phase, tries, cancelled]

Settled == {"complete", "failed", "aborted"}

Life ==
    [ phase     : {"unborn", "waiting", "held", "gone"} \cup Settled,
      tries     : Nat,
      cancelled : BOOLEAN ]

Absent(phase) == [phase |-> phase, tries |-> 0, cancelled |-> FALSE]

-----------------------------------------------------------------------------

\* A job enters the table; a manual retry of another row carries its count.
Submit(j) ==
    /\ life[j].phase = "unborn"
    /\ life'[j] \in Life
    /\ life'[j].phase = "waiting"
    /\ ~life'[j].cancelled

\* A worker takes the job, and the attempt gets the next number.
Claim(j) ==
    /\ life[j].phase = "waiting"
    /\ life'[j] = [life[j] EXCEPT !.phase = "held", !.tries = @ + 1]

\* The attempt is over and the job will be claimed again.
GiveBack(j) ==
    /\ life[j].phase = "held"
    /\ ~life[j].cancelled
    /\ life'[j] = [life[j] EXCEPT !.phase = "waiting"]

\* Somebody asks for the job to be aborted.
Cancel(j) ==
    \/ /\ life[j].phase = "waiting"
       /\ life'[j] = [life[j] EXCEPT !.phase = "aborted"]
    \/ /\ life[j].phase = "held"
       /\ ~life[j].cancelled
       /\ life'[j] = [life[j] EXCEPT !.cancelled = TRUE]

\* The attempt settles the job; one with no retention leaves no row.
Settle(j) ==
    /\ life[j].phase = "held"
    /\ \/ \E outcome \in Settled :
             /\ life[j].cancelled => outcome = "aborted"
             /\ life'[j] = [life[j] EXCEPT !.phase = outcome, !.cancelled = FALSE]
       \/ life'[j] = Absent("gone")

\* Retention runs out, or an operator purges what is still waiting.
Remove(j) ==
    /\ life[j].phase \in Settled \cup {"waiting"}
    /\ life'[j] = Absent("gone")

Stay(j) == life'[j] = life[j]

-----------------------------------------------------------------------------

Init == life = [j \in Job |-> Absent("unborn")]

Next ==
    /\ DOMAIN life' = Job
    /\ \A j \in Job : \/ Submit(j) \/ Claim(j) \/ GiveBack(j) \/ Cancel(j)
                      \/ Settle(j) \/ Remove(j) \/ Stay(j)

Spec == Init /\ [][Next]_life

=============================================================================
