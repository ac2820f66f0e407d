---------------------------- MODULE RetryBackoff ----------------------------
(***************************************************************************)
(* How long a retry waits: retry_delay_for of job.rs, which worker and     *)
(* sweeper share, and the doubling loop of exponential_delay_bound.  The   *)
(* inputs are columns of the row, so a value written by hand (a negative   *)
(* delay, no attempt made yet, a cap of zero) is an input as well.         *)
(* Milliseconds are the unit.                                              *)
(***************************************************************************)
EXTENDS Integers, FiniteSetsExt

CONSTANTS
    MaxDuration,    \* MAX_DURATION, a hundred years
    MaxExponent,    \* 63, the most doublings
    Delay,          \* values of retry_delay_ms
    Cap,            \* values of the strategy's max_ms
    MaxAttempts,    \* bound on the attempts made
    NoCap

\* The powers of two.
Power[n \in Nat] == IF n = 0 THEN 1 ELSE 2 * Power[n - 1]

ASSUME BackoffAssumption ==
    /\ MaxDuration \in Nat \ {0} /\ MaxExponent \in Nat /\ MaxAttempts \in Nat
    /\ Delay \subseteq Int /\ Cap \subseteq Nat /\ NoCap \notin Cap
    \* One millisecond has doubled past MAX_DURATION before the exponent ends.
    /\ Power[MaxExponent] >= MaxDuration

VARIABLES
    row,        \* retry_delay_ms, attempts, and the strategy with its cap
    stage,      \* where the computation is
    rounds,     \* doublings left
    delay,      \* the local variable of the loop
    wait        \* the answer

backoffVars == <<row, stage, rounds, delay, wait>>

Strategy == {[type |-> "none", max |-> NoCap]}
                \cup {[type |-> "exponential", max |-> m] : m \in Cap \cup {NoCap}}

Row == [delay : Delay, attempts : 0..MaxAttempts, backoff : Strategy]

Base == Max({row.delay, 0})

BackoffInit ==
    /\ row \in Row /\ stage = "start"
    /\ rounds = 0 /\ delay = 0 /\ wait = 0

\* Every retry of a flat strategy waits the same.
Flat ==
    /\ stage = "start" /\ row.backoff.type = "none"
    /\ wait' = Min({Base, MaxDuration}) /\ stage' = "done"
    /\ UNCHANGED <<row, rounds, delay>>

\* Mutant: the first retry is already a doubled one.
DoublingsFromOne == Min({row.attempts, MaxExponent})

\* saturating_sub: a row with no attempt made counts as the first.
Doublings == Min({Max({row.attempts - 1, 0}), MaxExponent})

BeginLoop ==
    /\ stage = "start" /\ row.backoff.type = "exponential"
    /\ rounds' = Doublings /\ delay' = Min({Base, MaxDuration})
    /\ stage' = "loop"
    /\ UNCHANGED <<row, wait>>

Doubled(d) == Min({2 * d, MaxDuration})

\* The loop breaks at the ceiling.
Double ==
    /\ stage = "loop" /\ rounds > 0
    /\ delay' = Doubled(delay)
    /\ rounds' = IF delay' = MaxDuration THEN 0 ELSE rounds - 1
    /\ UNCHANGED <<row, stage, wait>>

\* max_ms bounds the delay; a row without it is bounded by the ceiling only.
Bound(d) ==
    Min({d, MaxDuration} \cup ({row.backoff.max} \ {NoCap}))

\* Full jitter: any delay up to the bound.
Jitter ==
    /\ stage = "loop" /\ rounds = 0
    /\ wait' \in 0..Bound(delay) /\ delay' = Bound(delay) /\ stage' = "done"
    /\ UNCHANGED <<row, rounds>>

BackoffNext == Flat \/ BeginLoop \/ Double \/ Jitter

BackoffSpec == BackoffInit /\ [][BackoffNext]_backoffVars

---------------------------------------------------------------------------
\* The loop never leaves the range of the column.
BackoffTypeOK ==
    /\ row \in Row /\ stage \in {"start", "loop", "done"}
    /\ rounds \in 0..MaxExponent
    /\ delay \in 0..MaxDuration /\ wait \in 0..MaxDuration

(***************************************************************************)
(* JobRetryBackoff documents that the nth retry waits a random duration in *)
(* [0, min(max, retry_delay * 2^(n-1))], and a flat one exactly its        *)
(* retry_delay; nothing waits longer than MAX_DURATION.  The loop, its     *)
(* early exit and its cap of 63 doublings compute that for every row, also *)
(* one whose delay is negative (none), whose attempts are zero (the first) *)
(* or that has been tried so often that the power does not fit.            *)
(***************************************************************************)
WaitsAsDocumented ==
    stage = "done" =>
        LET power == Base * Power[Max({row.attempts - 1, 0})]
            documented == Min({power, MaxDuration} \cup ({row.backoff.max} \ {NoCap}))
        IN  IF row.backoff.type = "none" THEN wait = Min({Base, MaxDuration})
                                         ELSE delay = documented /\ wait <= delay

(***************************************************************************)
(* The delay of a retry stays in range on every step of the loop and is    *)
(* the documented one at its end.                                          *)
(***************************************************************************)
BackoffSafety ==
    /\ BackoffTypeOK
    /\ WaitsAsDocumented
=============================================================================
