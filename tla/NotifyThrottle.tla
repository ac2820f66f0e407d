--------------------------- MODULE NotifyThrottle ---------------------------
(***************************************************************************)
(* The notify throttle of a queue handle (QueueDatabase::authorize_wakeup, *)
(* take_throttle_slot).  Concurrent enqueues agree without a lock on the   *)
(* one of them per window whose insert carries the wakeup: each reads the  *)
(* clock, loads the last winner's reading, and swaps its own in if that    *)
(* one is a window old.                                                    *)
(*                                                                         *)
(* The accesses are Relaxed: a load, and a compare_exchange that fails,    *)
(* may return an older value of the cell than the newest, but never one    *)
(* older than the same caller has already seen.                            *)
(***************************************************************************)
EXTENDS Integers, Sequences, FiniteSets

CONSTANTS
    Caller,     \* tasks that enqueue on one handle
    Window,     \* notify_throttle in milliseconds, rounded up; a zero window is
                \* no throttle, and then every insert may carry its wakeup
    MaxTime     \* bound on the clock

ASSUME ThrottleAssumption ==
    Window \in Nat \ {0} /\ MaxTime \in Nat

VARIABLES
    time,       \* notify_clock, in milliseconds
    stamps,     \* the values last_notify_ms had, in its modification order
    doing,      \* each caller's place
    reading,    \* its reading of the clock
    seen,       \* the position in stamps of the value it holds as last
    wakes       \* whether the statement it runs carries a wakeup

throttleVars == <<time, stamps, doing, reading, seen, wakes>>

ThrottleTypeOK ==
    /\ time \in 0..MaxTime
    /\ stamps \in Seq(0..MaxTime)
    /\ doing \in [Caller -> {"idle", "load", "test", "swap", "insert"}]
    /\ reading \in [Caller -> 0..MaxTime]
    /\ seen \in [Caller -> Nat]
    /\ \A c \in Caller : seen[c] <= Len(stamps) /\ reading[c] <= time
    /\ wakes \in [Caller -> BOOLEAN]

ThrottleInit ==
    /\ time = 0 /\ stamps = <<>>
    /\ doing = [c \in Caller |-> "idle"]
    /\ reading = [c \in Caller |-> 0]
    /\ seen = [c \in Caller |-> 0]
    /\ wakes = [c \in Caller |-> FALSE]

\* Position 0 is NEVER_NOTIFIED, which no reading of the clock equals.  A stamp
\* later than the reading leaves saturating_sub at 0, within any window.
WindowFree(n, i) == i = 0 \/ n - stamps[i] >= Window

\* The test comes before the clock is read: a row that is not due, by the
\* client's clock, spends no slot.
Enqueue(c, due) ==
    /\ doing[c] = "idle"
    /\ \/ /\ ~due
          /\ doing' = [doing EXCEPT ![c] = "insert"]
          /\ UNCHANGED reading
       \/ /\ due
          /\ doing' = [doing EXCEPT ![c] = "load"]
          /\ reading' = [reading EXCEPT ![c] = time]
    /\ UNCHANGED <<time, stamps, seen, wakes>>

Load(c) ==
    /\ doing[c] = "load"
    /\ \E i \in seen[c]..Len(stamps) : seen' = [seen EXCEPT ![c] = i]
    /\ doing' = [doing EXCEPT ![c] = "test"]
    /\ UNCHANGED <<time, stamps, reading, wakes>>

\* Inside the window the enqueue goes without a wakeup.
Test(c) ==
    /\ doing[c] = "test"
    /\ doing' = [doing EXCEPT ![c] =
                  IF WindowFree(reading[c], seen[c]) THEN "swap" ELSE "insert"]
    /\ UNCHANGED <<time, stamps, reading, seen, wakes>>

\* The value of the cell at a position of its modification order.
Value(i) == IF i = 0 THEN MaxTime + 1 ELSE stamps[i]

\* Mutant: the reading is stored without comparing.
Store(c) == TRUE

Unchanged(c) == Value(seen[c]) = Value(Len(stamps))

Stamp(c) == reading[c]

SwapWins(c) ==
    /\ doing[c] = "swap" /\ Unchanged(c)
    /\ stamps' = Append(stamps, Stamp(c))
    /\ seen' = [seen EXCEPT ![c] = Len(stamps) + 1]
    /\ doing' = [doing EXCEPT ![c] = "insert"]
    /\ wakes' = [wakes EXCEPT ![c] = TRUE]
    /\ UNCHANGED <<time, reading>>

\* The loop goes on with the value that the failed exchange returned.
TakeCurrent(c) ==
    \E i \in seen[c]..Len(stamps) :
        Value(i) # Value(seen[c]) /\ seen' = [seen EXCEPT ![c] = i]

SwapLoses(c) ==
    /\ doing[c] = "swap" /\ ~Unchanged(c)
    /\ TakeCurrent(c)
    /\ doing' = [doing EXCEPT ![c] = "test"]
    /\ UNCHANGED <<time, stamps, reading, wakes>>

\* The insert runs, fails or deduplicates: the slot stays spent.
RunInsert(c) ==
    /\ doing[c] = "insert"
    /\ doing' = [doing EXCEPT ![c] = "idle"]
    /\ wakes' = [wakes EXCEPT ![c] = FALSE]
    /\ UNCHANGED <<time, stamps, reading, seen>>

ClockTicks ==
    /\ time < MaxTime /\ time' = time + 1
    /\ UNCHANGED <<stamps, doing, reading, seen, wakes>>

ThrottleStep(c) ==
    Load(c) \/ Test(c) \/ SwapWins(c) \/ SwapLoses(c) \/ RunInsert(c)

ThrottleNext ==
    \/ ClockTicks
    \/ \E c \in Caller : ThrottleStep(c) \/ \E due \in BOOLEAN : Enqueue(c, due)

ThrottleSpec == ThrottleInit /\ [][ThrottleNext]_throttleVars

---------------------------------------------------------------------------
(***************************************************************************)
(* Concurrent enqueues agree on a single winner per window: the readings   *)
(* with which two of them took the slot are a window apart, however their  *)
(* loads and exchanges interleave and however stale a load is.             *)
(***************************************************************************)
OneWinnerPerWindow ==
    \A i, j \in 1..Len(stamps) : i < j => stamps[j] - stamps[i] >= Window

(***************************************************************************)
(* The throttle delays a wakeup by a window and never loses it to a race:  *)
(* when an enqueue of a due row leaves take_throttle_slot, with the slot   *)
(* or without it, some winner's reading is less than a window older than   *)
(* its own, or newer.                                                      *)
(***************************************************************************)
EveryWindowHasAWinner ==
    [][\A c \in Caller :
         doing[c] \in {"test", "swap"} /\ doing'[c] = "insert" =>
             \E i \in 1..Len(stamps') :
                 reading[c] - stamps'[i] < Window]_throttleVars

(***************************************************************************)
(* The exchange loop of take_throttle_slot ends for every caller, without  *)
(* a bound on the races it may lose: each of them shows the loser a newer  *)
(* stamp, until one closes the window to its reading.                      *)
(***************************************************************************)
SlotIsDecided ==
    \A c \in Caller : []<>(doing[c] = "idle")

(***************************************************************************)
(* take_throttle_slot lets exactly one caller through per window: never    *)
(* two, and never nobody when the window is over.                          *)
(***************************************************************************)
ThrottleSafety ==
    /\ [](ThrottleTypeOK /\ OneWinnerPerWindow)
    /\ EveryWindowHasAWinner
=============================================================================
