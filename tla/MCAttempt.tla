------------------------------ MODULE MCAttempt ------------------------------
(***************************************************************************)
(* Small instances of AttemptProtocol.                                     *)
(***************************************************************************)
EXTENDS AttemptProtocol, TLC

CONSTANTS j1, j2, w1, w2, c1, s1, s2, k1

\* Budgets, retention and keys of the jobs.
OneTry == [j \in Job |-> 1]
TwoTries == [j \in Job |-> 2]
Kept == [j \in Job |-> "expire"]
KeptForever == [j \in Job |-> "forever"]
Deleted == [j \in Job |-> "delete"]
Keyless == [j \in Job |-> NoKey]
SharedKey == [j \in Job |-> k1]

\* Bounds.  One worker may fail in every way; its peer keeps its lease.
HealthyPeer == w2 \notin stalled

\* Every handler is one of a live owner.
NoStall == stalled = {}
=============================================================================
