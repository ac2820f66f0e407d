-------------------------- MODULE DashboardProofs ---------------------------
(***************************************************************************)
(* The dashboard for any number of connections, handlers and requests.     *)
(***************************************************************************)
EXTENDS AuthThrottle, DashboardServer, DashboardSessions, RoundCache,
        SequenceTheorems, FiniteSetTheorems, WellFoundedInduction, TLAPS

-----------------------------------------------------------------------------
(***************************************************************************)
(* The server.  ServerSafety is not inductive: that every permit comes     *)
(* back needs that a connection without a task has no state left, and that *)
(* nothing is served after the return needs how the run and its server     *)
(* task go together.  That only finitely many connections are open follows *)
(* from the permits, so nothing is assumed of the clients.                 *)
(***************************************************************************)
Handling == {c \in Conns : conn[c].at = "handling"}

\* A connection that is not open is as it was before it was opened.
ClosedIsReset == \A c \in Conns : conn[c].at = "none" => conn[c] = NoConn

\* The run and its server task.
RunAndTask ==
  /\ phase = "bind" => serve = "none"
  /\ phase = "stopping" => asked
  /\ phase = "returned" => serve \notin Alive
  /\ serve \notin {"permit", "accept", "join"} => Open = {}

ConnState ==
  [at : {"none", "reading", "limited", "handling", "probing", "writing",
         "refusing"},
   responded : BOOLEAN, closing : BOOLEAN]

ServerInv ==
  /\ ServerSafety
  /\ IsFiniteSet(Open) /\ ClosedIsReset /\ RunAndTask

LEMMA NoConnTyped == NoConn \in ConnState
BY DEF NoConn, ConnState

LEMMA ServerInitOK == ServerInit => ServerInv
<1> SUFFICES ASSUME ServerInit PROVE ServerInv
  OBVIOUS
<1>1. Open = {} /\ Handling = {}
  BY DEF ServerInit, Open, Handling, NoConn
<1>2. ServerTypeOK
  <2>1. conn \in [Conns -> ConnState]
    BY NoConnTyped DEF ServerInit
  <2>2. asked \in BOOLEAN /\ cancelled \in BOOLEAN /\ ready \in BOOLEAN
    BY Zenon DEF ServerInit
  <2>3. QED
    BY <2>1, <2>2, DashboardServerAssumption
       DEF ServerInit, ServerTypeOK, Alive, ConnState
<1>3. ConnectionPermitsKept /\ RequestPermitsKept
  BY <1>1, FS_EmptySet, DashboardServerAssumption
     DEF ServerInit, ConnectionPermitsKept, RequestPermitsKept, Handling
<1>4. NothingServedAfterReturn /\ OkMeansAsked /\ ClosedIsReset /\ RunAndTask
  BY <1>1 DEF ServerInit, NothingServedAfterReturn, OkMeansAsked,
              ClosedIsReset, RunAndTask
<1>5. QED
  BY <1>1, <1>2, <1>3, <1>4, FS_EmptySet DEF ServerInv, ServerSafety

\* The two sets that permits are counted against.
LEMMA Counts ==
  ASSUME ServerInv
  PROVE  /\ IsFiniteSet(Open) /\ Cardinality(Open) \in Nat
         /\ IsFiniteSet(Handling) /\ Cardinality(Handling) \in Nat
<1>1. Handling \in SUBSET Open
  BY DEF Handling, Open
<1>2. QED
  BY <1>1, FS_Subset, FS_CardinalityType DEF ServerInv

\* A step that leaves connections and permits where they are.
LEMMA ConnectionsStay ==
  ASSUME ServerInv, UNCHANGED <<conn, requests>>
  PROVE  Open' = Open /\ ClosedIsReset' /\ RequestPermitsKept'
BY DEF ServerInv, ServerSafety, Open, ClosedIsReset, RequestPermitsKept

LEMMA RunStepOK ==
  ASSUME ServerInv,
         \/ Bind \/ BindCut \/ UnexpectedExit \/ BeginShutdown
         \/ FinishShutdown \/ Ask \/ WaitUntilReady
  PROVE  ServerInv'
<1>1. Open' = Open /\ ClosedIsReset' /\ RequestPermitsKept'
  BY ConnectionsStay
     DEF Bind, BindCut, UnexpectedExit, BeginShutdown, FinishShutdown, Ask,
         WaitUntilReady
<1>2. ServerTypeOK'
  BY DEF ServerInv, ServerSafety, ServerTypeOK, Bind, BindCut, UnexpectedExit,
         BeginShutdown, FinishShutdown, Ask, WaitUntilReady, Return, Alive, run
<1>3. ConnectionPermitsKept'
  BY <1>1 DEF ServerInv, ServerSafety, ConnectionPermitsKept, RunAndTask, Bind,
              BindCut, UnexpectedExit, BeginShutdown, FinishShutdown, Ask,
              WaitUntilReady
<1>4. NothingServedAfterReturn' /\ OkMeansAsked' /\ RunAndTask'
  BY <1>1 DEF ServerInv, ServerSafety, NothingServedAfterReturn, OkMeansAsked,
              RunAndTask, Bind, BindCut, UnexpectedExit, BeginShutdown,
              FinishShutdown, Ask, WaitUntilReady, Return, Alive, run
<1>5. QED
  BY <1>1, <1>2, <1>3, <1>4 DEF ServerInv, ServerSafety

\* The JoinSet goes with the task, and gives everything back.
LEMMA DropConnectionsOK ==
  ASSUME ServerInv, DropConnections, serve' \in {"failed", "aborted"}
  PROVE  /\ Open' = {} /\ ClosedIsReset'
         /\ ConnectionPermitsKept' /\ RequestPermitsKept'
<1>1. Open' = {} /\ Handling' = {} /\ ClosedIsReset'
  BY DEF DropConnections, Open, Handling, NoConn, ClosedIsReset
<1>2. QED
  BY <1>1, FS_EmptySet, DashboardServerAssumption
     DEF DropConnections, ConnectionPermitsKept, RequestPermitsKept, Handling

LEMMA TaskEndsOK ==
  ASSUME ServerInv, Overdue \/ ServerPanics
  PROVE  ServerInv'
<1>1. /\ Open' = {} /\ ClosedIsReset'
      /\ ConnectionPermitsKept' /\ RequestPermitsKept'
  BY DropConnectionsOK DEF Overdue, ServerPanics
<1>2. ServerTypeOK'
  <2>1. conn' \in [Conns -> ConnState]
    BY NoConnTyped DEF Overdue, ServerPanics, DropConnections
  <2>2. QED
    BY <2>1, DashboardServerAssumption
       DEF ServerInv, ServerSafety, ServerTypeOK, Overdue, ServerPanics,
           Return, Alive, run, DropConnections, ConnState
<1>3. NothingServedAfterReturn' /\ OkMeansAsked' /\ RunAndTask'
  BY <1>1 DEF ServerInv, ServerSafety, NothingServedAfterReturn, OkMeansAsked,
              RunAndTask, Overdue, ServerPanics, ShutdownDeadline, Return,
              Alive, run
<1>4. QED
  BY <1>1, <1>2, <1>3, FS_EmptySet DEF ServerInv, ServerSafety

LEMMA ServeStepOK ==
  ASSUME ServerInv, ServeStep
  PROVE  ServerInv'
<1>1. Open' = Open /\ ClosedIsReset' /\ RequestPermitsKept'
  BY ConnectionsStay
     DEF ServeStep, Start, AcquirePermit, StopAccepting, JoinConnections
<1>2. ConnectionPermitsKept' /\ permits' \in 0..MaxConnections
  BY <1>1, Counts, DashboardServerAssumption
     DEF ServerInv, ServerSafety, ServerTypeOK, ConnectionPermitsKept,
         ServeStep, Start, AcquirePermit, StopAccepting, JoinConnections
<1>3. ServerTypeOK'
  BY <1>2 DEF ServerInv, ServerSafety, ServerTypeOK, ServeStep, Start,
              AcquirePermit, StopAccepting, JoinConnections, Alive, run
<1>4. NothingServedAfterReturn' /\ OkMeansAsked' /\ RunAndTask'
  BY <1>1 DEF ServerInv, ServerSafety, NothingServedAfterReturn, OkMeansAsked,
              RunAndTask, ServeStep, Start, AcquirePermit, StopAccepting,
              JoinConnections, Alive, run
<1>5. QED
  BY <1>1, <1>2, <1>3, <1>4 DEF ServerInv, ServerSafety

\* What a step of one connection does to the sets permits are counted against.
LEMMA ConnectionMoves ==
  ASSUME ServerInv, NEW c \in Conns, NEW r \in ConnState,
         conn' = [conn EXCEPT ![c] = r], r.at = "none" => r = NoConn
  PROVE  /\ conn' \in [Conns -> ConnState] /\ ClosedIsReset'
         /\ Open' = IF r.at = "none" THEN Open \ {c} ELSE Open \cup {c}
         /\ Handling' = IF r.at = "handling" THEN Handling \cup {c}
                                            ELSE Handling \ {c}
<1>1. conn \in [Conns -> ConnState]
  BY DEF ServerInv, ServerSafety, ServerTypeOK, ConnState
<1>2. conn'[c] = r /\ \A d \in Conns \ {c} : conn'[d] = conn[d]
  BY <1>1
<1>3. conn' \in [Conns -> ConnState] /\ ClosedIsReset'
  BY <1>1, <1>2 DEF ServerInv, ClosedIsReset
<1>4. Open' = IF r.at = "none" THEN Open \ {c} ELSE Open \cup {c}
  <2>1. \A d \in Conns : d \in Open' <=> conn'[d].at # "none"
    BY DEF Open
  <2>2. \A d \in Conns : d \in Open <=> conn[d].at # "none"
    BY DEF Open
  <2>3. Open' \subseteq Conns /\ Open \subseteq Conns
    BY DEF Open
  <2>4. QED
    BY <1>2, <2>1, <2>2, <2>3
<1>5. Handling' = IF r.at = "handling" THEN Handling \cup {c}
                                      ELSE Handling \ {c}
  <2>1. \A d \in Conns : d \in Handling' <=> conn'[d].at = "handling"
    BY DEF Handling
  <2>2. \A d \in Conns : d \in Handling <=> conn[d].at = "handling"
    BY DEF Handling
  <2>3. Handling' \subseteq Conns /\ Handling \subseteq Conns
    BY DEF Handling
  <2>4. QED
    BY <1>2, <2>1, <2>2, <2>3
<1>6. QED
  BY <1>3, <1>4, <1>5

LEMMA AcceptOK ==
  ASSUME ServerInv, NEW c \in Conns, Accept(c)
  PROVE  ServerInv'
<1> DEFINE r == [conn[c] EXCEPT !.at = "reading"]
<1>1. /\ r \in ConnState /\ r.at = "reading" /\ c \notin Handling
      /\ conn' = [conn EXCEPT ![c] = r]
  BY DEF ServerInv, ServerSafety, ServerTypeOK, Accept, ConnState, Handling
<1> HIDE DEF r
<1>2. /\ Open' = Open \cup {c} /\ c \notin Open /\ Handling' = Handling
      /\ conn' \in [Conns -> ConnState] /\ ClosedIsReset'
  <2>1. /\ conn' \in [Conns -> ConnState] /\ ClosedIsReset'
        /\ Open' = Open \cup {c} /\ Handling' = Handling \ {c}
    BY <1>1, ConnectionMoves
  <2>2. QED
    BY <1>1, <2>1 DEF Accept, Open
<1>3. IsFiniteSet(Open') /\ Cardinality(Open') = Cardinality(Open) + 1
  BY <1>2, Counts, FS_AddElement
<1>4. ConnectionPermitsKept' /\ RequestPermitsKept'
  <2>1. /\ serve = "accept" /\ serve' = "permit"
        /\ permits' = permits /\ requests' = requests
    BY DEF Accept
  <2>2. ConnectionPermitsKept'
    <3>1. permits + Cardinality(Open) + 1 = MaxConnections
      BY <2>1 DEF ServerInv, ServerSafety, ConnectionPermitsKept
    <3>2. permits' + Cardinality(Open') + 0 = MaxConnections
      <4>1. permits \in Nat /\ Cardinality(Open) \in Nat
        BY Counts, DashboardServerAssumption
           DEF ServerInv, ServerSafety, ServerTypeOK
      <4>2. QED
        BY <1>3, <2>1, <3>1, <4>1
    <3>3. QED
      BY <2>1, <3>2 DEF ConnectionPermitsKept
  <2>3. RequestPermitsKept'
    BY <1>2, <2>1
       DEF ServerInv, ServerSafety, RequestPermitsKept, Handling
  <2>4. QED
    BY <2>2, <2>3
<1>5. ServerTypeOK'
  BY <1>2 DEF ServerInv, ServerSafety, ServerTypeOK, ConnState, Accept, Alive,
              run
<1>6. NothingServedAfterReturn' /\ OkMeansAsked' /\ RunAndTask'
  BY DEF ServerInv, ServerSafety, NothingServedAfterReturn, OkMeansAsked,
         RunAndTask, Accept, Alive, run
<1>7. QED
  BY <1>2, <1>3, <1>4, <1>5, <1>6 DEF ServerInv, ServerSafety

\* Nothing but the connection and the permits it holds changes.
LEMMA OthersStay ==
  ASSUME ServerInv, UNCHANGED <<run, serve, ready, handle>>,
         Open' = {} \/ Open # {},
         conn' \in [Conns -> ConnState],
         permits' \in 0..MaxConnections, requests' \in 0..MaxRequests
  PROVE  /\ ServerTypeOK' /\ NothingServedAfterReturn' /\ OkMeansAsked'
         /\ RunAndTask'
BY DEF ServerInv, ServerSafety, ServerTypeOK, ConnState, RunAndTask,
       NothingServedAfterReturn, OkMeansAsked, Alive, run

\* A connection's task ends, whatever it was doing.
LEMMA EndOK ==
  ASSUME ServerInv, NEW c \in Conns, c \in Open, End(c)
  PROVE  ServerInv'
<1>1. NoConn.at = "none" /\ conn' = [conn EXCEPT ![c] = NoConn]
  BY DEF NoConn, End
<1>2. /\ Open' = Open \ {c} /\ Handling' = Handling \ {c}
      /\ conn' \in [Conns -> ConnState] /\ ClosedIsReset'
  BY <1>1, NoConnTyped, ConnectionMoves
<1>3. /\ IsFiniteSet(Open') /\ Cardinality(Open') \in Nat
      /\ Cardinality(Open') = Cardinality(Open) - 1
  BY <1>2, Counts, FS_RemoveElement, FS_CardinalityType
<1>4. c \in Handling => Cardinality(Handling') = Cardinality(Handling) - 1
  BY <1>2, Counts, FS_RemoveElement
<1>5. c \notin Handling => Handling' = Handling
  BY <1>2
<1>6. /\ permits' = permits + 1
      /\ requests' = IF c \in Handling THEN requests + 1 ELSE requests
  BY DEF End, RequestsAfter, Handling
<1>7. /\ ConnectionPermitsKept' /\ permits' \in 0..MaxConnections
  <2>1. /\ permits \in Nat /\ serve' = serve
        /\ permits + Cardinality(Open) + (IF serve = "accept" THEN 1 ELSE 0)
             = MaxConnections
    BY DashboardServerAssumption
       DEF ServerInv, ServerSafety, ServerTypeOK, ConnectionPermitsKept, End
  <2>2. permits' + Cardinality(Open') + (IF serve' = "accept" THEN 1 ELSE 0)
          = MaxConnections
    BY <2>1, <1>3, <1>6, Counts
  <2>3. permits' \in 0..MaxConnections
    BY <2>1, <2>2, <1>3, <1>6, DashboardServerAssumption
  <2>4. QED
    BY <2>2, <2>3 DEF ConnectionPermitsKept
<1>8. /\ RequestPermitsKept' /\ requests' \in 0..MaxRequests
  <2>1. requests + Cardinality(Handling) = MaxRequests
    BY DEF ServerInv, ServerSafety, RequestPermitsKept, Handling
  <2>2. RequestPermitsKept' <=> requests' + Cardinality(Handling') = MaxRequests
    BY DEF RequestPermitsKept, Handling
  <2>3. c \in Handling => Cardinality(Handling) > 0
    BY Counts, FS_EmptySet
  <2>4. QED
    BY <2>1, <2>2, <2>3, <1>4, <1>5, <1>6, Counts, DashboardServerAssumption
       DEF ServerInv, ServerSafety, ServerTypeOK
<1>9. /\ ServerTypeOK' /\ NothingServedAfterReturn' /\ OkMeansAsked'
      /\ RunAndTask'
  BY <1>2, <1>7, <1>8, OthersStay DEF End
<1>10. QED
  BY <1>2, <1>3, <1>7, <1>8, <1>9 DEF ServerInv, ServerSafety

\* An open connection goes on: its permit stays, and the request's permit goes
\* with the handling.
LEMMA GoesOnOK ==
  ASSUME ServerInv, NEW c \in Open, NEW r \in ConnState, r.at # "none",
         conn' = [conn EXCEPT ![c] = r],
         UNCHANGED <<run, serve, permits, ready, handle>>,
         requests' \in Nat,
         \/ /\ r.at = "handling" <=> conn[c].at = "handling"
            /\ requests' = requests
         \/ /\ r.at = "handling" /\ conn[c].at # "handling"
            /\ requests' = requests - 1
         \/ /\ r.at # "handling" /\ conn[c].at = "handling"
            /\ requests' = requests + 1
  PROVE  ServerInv'
<1>1. /\ Open' = Open /\ conn' \in [Conns -> ConnState] /\ ClosedIsReset'
      /\ Handling' = IF r.at = "handling" THEN Handling \cup {c}
                                         ELSE Handling \ {c}
  BY ConnectionMoves DEF Open
<1>2. c \in Handling <=> conn[c].at = "handling"
  BY DEF Open, Handling
<1>3. /\ IsFiniteSet(Handling') /\ Cardinality(Handling') \in Nat
      /\ requests' + Cardinality(Handling') = requests + Cardinality(Handling)
  <2>0. requests \in Nat /\ requests' \in Nat
    BY DashboardServerAssumption DEF ServerInv, ServerSafety, ServerTypeOK
  <2>1. CASE r.at = "handling" /\ c \notin Handling
    <3>1. requests' = requests - 1
      BY <2>1, <1>2, <2>0
    <3>2. /\ IsFiniteSet(Handling')
          /\ Cardinality(Handling') = Cardinality(Handling) + 1
      BY <2>1, <1>1, Counts, FS_AddElement
    <3>3. Cardinality(Handling) \in Nat
      BY Counts
    <3>4. requests' + Cardinality(Handling') = requests + Cardinality(Handling)
      BY <3>1, <3>2, <3>3, <2>0
    <3>5. QED
      BY <3>2, <3>3, <3>4
  <2>2. CASE r.at # "handling" /\ c \in Handling
    <3>1. requests' = requests + 1
      BY <2>2, <1>2, <2>0
    <3>2. /\ IsFiniteSet(Handling') /\ Cardinality(Handling') \in Nat
          /\ Cardinality(Handling') = Cardinality(Handling) - 1
      BY <2>2, <1>1, Counts, FS_RemoveElement, FS_CardinalityType
    <3>3. QED
      BY <3>1, <3>2, <2>0, Counts
  <2>3. CASE r.at = "handling" <=> c \in Handling
    <3>1. Handling' = Handling
      BY <2>3, <1>1
    <3>2. requests' = requests
      BY <2>3, <1>2, <2>0
    <3>3. QED
      BY <3>1, <3>2, Counts
  <2>4. QED
    BY <2>1, <2>2, <2>3
<1>4. requests + Cardinality(Handling) = MaxRequests
  BY DEF ServerInv, ServerSafety, RequestPermitsKept, Handling
<1>5. RequestPermitsKept' <=> requests' + Cardinality(Handling') = MaxRequests
  BY DEF RequestPermitsKept, Handling
<1>6. RequestPermitsKept' /\ requests' \in 0..MaxRequests
  BY <1>3, <1>4, <1>5, DashboardServerAssumption
<1>7. /\ ConnectionPermitsKept' /\ permits' \in 0..MaxConnections
  BY <1>1 DEF ServerInv, ServerSafety, ServerTypeOK, ConnectionPermitsKept
<1>8. /\ ServerTypeOK' /\ NothingServedAfterReturn' /\ OkMeansAsked'
      /\ RunAndTask'
  BY <1>1, <1>6, <1>7, OthersStay
<1>9. QED
  BY <1>1, <1>6, <1>7, <1>8 DEF ServerInv, ServerSafety

LEMMA RequestsOK ==
  ASSUME ServerInv, NEW c \in Conns,
         \/ Request(c) \/ Admit(c) \/ HandlerReturns(c) \/ RequestTimeout(c)
         \/ Probe(c) \/ ProbeAnswered(c) \/ RefuseFraming(c) \/ Graceful(c)
  PROVE  ServerInv'
<1>1. conn \in [Conns -> ConnState] /\ requests \in Nat
  BY DashboardServerAssumption
     DEF ServerInv, ServerSafety, ServerTypeOK, ConnState
<1>2. conn[c] \in ConnState
  BY <1>1
<1>3. CASE Request(c)
  <2> DEFINE r == [conn[c] EXCEPT !.at = "limited"]
  <2>1. /\ r \in ConnState /\ r.at = "limited" /\ c \in Open
        /\ conn[c].at # "handling" /\ conn' = [conn EXCEPT ![c] = r]
    BY <1>2, <1>3 DEF Request, ConnState, Open
  <2> HIDE DEF r
  <2>2. QED
    BY <1>1, <2>1, <1>3, GoesOnOK DEF Request
<1>4. CASE Admit(c)
  <2> DEFINE r == [conn[c] EXCEPT !.at = "handling"]
  <2>1. /\ r \in ConnState /\ r.at = "handling" /\ c \in Open
        /\ conn[c].at # "handling" /\ conn' = [conn EXCEPT ![c] = r]
    BY <1>2, <1>4 DEF Admit, ConnState, Open
  <2> HIDE DEF r
  <2>2. QED
    <3>1. /\ requests' \in Nat /\ requests' = requests - 1
          /\ UNCHANGED <<run, serve, permits, ready, handle>>
      BY <1>1, <1>4 DEF Admit
    <3>2. QED
      BY <2>1, <3>1, GoesOnOK
<1>5. CASE HandlerReturns(c) \/ RequestTimeout(c) \/ ProbeAnswered(c)
  <2> DEFINE r == [conn[c] EXCEPT !.at = "writing", !.responded = TRUE]
  <2>1. /\ r \in ConnState /\ r.at = "writing" /\ c \in Open
        /\ conn' = [conn EXCEPT ![c] = r]
    BY <1>2, <1>5
       DEF HandlerReturns, RequestTimeout, ProbeAnswered, Respond, ConnState, Open
  <2> HIDE DEF r
  <2>2. QED
    <3>1. /\ requests' \in Nat
          /\ \/ conn[c].at # "handling" /\ requests' = requests
             \/ conn[c].at = "handling" /\ requests' = requests + 1
          /\ UNCHANGED <<run, serve, permits, ready, handle>>
      BY <1>1, <1>5
         DEF HandlerReturns, RequestTimeout, ProbeAnswered, Respond,
             RequestsAfter
    <3>2. QED
      BY <2>1, <3>1, GoesOnOK
<1>6. CASE RefuseFraming(c)
  <2> DEFINE r == [conn[c] EXCEPT !.at = "refusing", !.responded = TRUE]
  <2>1. /\ r \in ConnState /\ r.at = "refusing" /\ c \in Open
        /\ conn[c].at # "handling" /\ conn' = [conn EXCEPT ![c] = r]
    BY <1>2, <1>6 DEF RefuseFraming, ConnState, Open
  <2> HIDE DEF r
  <2>2. QED
    BY <1>1, <2>1, <1>6, GoesOnOK DEF RefuseFraming
<1>7. CASE Graceful(c)
  <2> DEFINE r == [conn[c] EXCEPT !.closing = TRUE]
  <2>1. /\ r \in ConnState /\ r.at = conn[c].at /\ c \in Open
        /\ r.at # "none" /\ conn' = [conn EXCEPT ![c] = r]
    BY <1>2, <1>7 DEF Graceful, ConnState, Open
  <2> HIDE DEF r
  <2>2. QED
    BY <1>1, <2>1, <1>7, GoesOnOK DEF Graceful
<1>8. CASE Probe(c)
  <2> DEFINE r == [conn[c] EXCEPT !.at = "probing"]
  <2>1. /\ r \in ConnState /\ r.at = "probing" /\ c \in Open
        /\ conn[c].at # "handling" /\ conn' = [conn EXCEPT ![c] = r]
    BY <1>2, <1>8 DEF Probe, ConnState, Open
  <2> HIDE DEF r
  <2>2. QED
    BY <1>1, <2>1, <1>8, GoesOnOK DEF Probe
<1>9. QED
  BY <1>3, <1>4, <1>5, <1>6, <1>7, <1>8

LEMMA ConnectionEndsOK ==
  ASSUME ServerInv, NEW c \in Conns,
         \/ Written(c) \/ HeaderTimeout(c) \/ ConnectionDeadline(c)
         \/ CloseIdle(c) \/ Vanish(c)
  PROVE  ServerInv'
<1>1. conn \in [Conns -> ConnState] /\ requests \in Nat
  BY DashboardServerAssumption
     DEF ServerInv, ServerSafety, ServerTypeOK, ConnState
<1>2. conn[c] \in ConnState
  BY <1>1
<1>3. c \in Open
  <2>1. CASE ConnectionDeadline(c)
    \* Only an open connection has answered anything.
    <3>1. conn[c].responded
      BY <2>1 DEF ConnectionDeadline, DeadlineRuns
    <3>2. conn[c] # NoConn
      BY <3>1 DEF NoConn
    <3>3. QED
      BY <3>2 DEF ServerInv, ClosedIsReset, Open
  <2>2. QED
    BY <2>1 DEF Written, HeaderTimeout, CloseIdle, Vanish, Open
<1>4. CASE End(c)
  BY <1>3, <1>4, EndOK
<1>5. CASE ~End(c)
  <2> DEFINE r == [conn[c] EXCEPT !.at = "reading"]
  <2>1. /\ r \in ConnState /\ r.at = "reading" /\ conn[c].at # "handling"
        /\ conn' = [conn EXCEPT ![c] = r]
        /\ UNCHANGED <<run, serve, permits, requests, ready, handle>>
    BY <1>2, <1>5
       DEF Written, HeaderTimeout, ConnectionDeadline, CloseIdle, Vanish,
           ConnState
  <2> HIDE DEF r
  <2>2. QED
    BY <1>1, <1>3, <2>1, GoesOnOK
<1>6. QED
  BY <1>4, <1>5

LEMMA ServerStepOK == ServerInv /\ [ServerNext]_serverVars => ServerInv'
<1> SUFFICES ASSUME ServerInv, [ServerNext]_serverVars PROVE ServerInv'
  OBVIOUS
<1>1. CASE UNCHANGED serverVars
  <2>1. Open' = Open /\ ClosedIsReset' /\ RequestPermitsKept'
    BY <1>1, ConnectionsStay DEF serverVars
  <2>2. conn' \in [Conns -> ConnState] /\ UNCHANGED run
    BY <1>1 DEF ServerInv, ServerSafety, ServerTypeOK, ConnState, serverVars,
                run
  <2>3. /\ ServerTypeOK' /\ NothingServedAfterReturn' /\ OkMeansAsked'
        /\ RunAndTask'
    BY <1>1, <2>1, <2>2, OthersStay
       DEF ServerInv, ServerSafety, ServerTypeOK, serverVars
  <2>4. ConnectionPermitsKept'
    BY <1>1, <2>1 DEF ServerInv, ServerSafety, ConnectionPermitsKept,
                      serverVars
  <2>5. QED
    BY <2>1, <2>3, <2>4 DEF ServerInv, ServerSafety
<1>2. CASE RunStep \/ Ask \/ WaitUntilReady \/ ServerPanics
  BY <1>2, RunStepOK, TaskEndsOK DEF RunStep
<1>3. CASE ServeStep
  BY <1>3, ServeStepOK
<1>4. ASSUME NEW c \in Conns,
             \/ Accept(c) \/ Request(c) \/ Admit(c) \/ HandlerReturns(c)
             \/ Probe(c) \/ ProbeAnswered(c) \/ RefuseFraming(c) \/ Written(c)
             \/ Timers(c) \/ Graceful(c) \/ CloseIdle(c) \/ Vanish(c)
      PROVE  ServerInv'
  BY <1>4, AcceptOK, RequestsOK, ConnectionEndsOK DEF Timers
<1>5. QED
  BY <1>1, <1>2, <1>3, <1>4 DEF ServerNext

(***************************************************************************)
(* However connections and requests end, the dashboard's server gets its   *)
(* permits back, serves nothing after run_until has returned, and returns  *)
(* Ok only when it was asked to stop.                                      *)
(***************************************************************************)
THEOREM ServerKeepsPermits == ServerSpec => []ServerSafety
<1>1. ServerInv => ServerSafety
  BY DEF ServerInv
<1>2. QED
  BY ServerInitOK, ServerStepOK, <1>1, PTL DEF ServerSpec

-----------------------------------------------------------------------------
(***************************************************************************)
(* Sessions.  A change replaces the newest revision, so what was replaced  *)
(* before is older; a token is new when it is minted, so it is not among   *)
(* the retired.                                                            *)
(***************************************************************************)
SessionOf(r, c) == [expires : Nat, revision : 0..r, since : 0..c]

HandlersOK ==
    /\ DOMAIN handler = Handlers
    /\ \A h \in Handlers : /\ handler[h].at \in {"idle", "login", "change"}
                           /\ handler[h].revision \in 0..revision
                           /\ DOMAIN handler[h].cookies \subseteq Nat
                           /\ \A i \in DOMAIN handler[h].cookies :
                                handler[h].cookies[i] \in 0..minted

SessionTypes ==
    /\ clock \in 0..LastTime /\ revision \in 0..MaxRevision
    /\ minted \in 0..MaxTokens /\ retired \subseteq 1..minted
    /\ replaced \in Seq(0..MaxRevision)

\* The map: of the current password, none past its login, none retired.
SessionsOK ==
    /\ DOMAIN sessions \subseteq 1..minted
    /\ Cardinality(DOMAIN sessions) <= MaxSessions
    /\ \A t \in DOMAIN sessions :
         /\ sessions[t] \in SessionOf(revision, clock)
         /\ sessions[t].revision = revision
         /\ sessions[t].expires <= sessions[t].since + SessionTtl
    /\ retired \cap DOMAIN sessions = {}

ReplacedOK ==
    /\ \A i \in DOMAIN replaced : replaced[i] < revision
    /\ OneChangePerPassword

SessionInv == SessionTypes /\ HandlersOK /\ SessionsOK /\ ReplacedOK

LEMMA EmptyMap == DOMAIN <<>> = {}
OBVIOUS

LEMMA SessionInitOK == SessionInit => SessionInv
<1> SUFFICES ASSUME SessionInit PROVE SessionInv
  OBVIOUS
<1>1. SessionTypes
  BY DashboardSessionsAssumption, EmptySeq DEF SessionInit, SessionTypes
<1>2. HandlersOK
  BY EmptyMap DEF SessionInit, HandlersOK, Resting
<1>3. SessionsOK
  <2>1. DOMAIN sessions = {} /\ Cardinality(DOMAIN sessions) = 0
    BY EmptyMap, FS_EmptySet DEF SessionInit
  <2>2. QED
    BY <2>1, DashboardSessionsAssumption DEF SessionsOK
<1>4. ReplacedOK
  BY EmptyMap DEF SessionInit, ReplacedOK, OneChangePerPassword
<1>5. QED
  BY <1>1, <1>2, <1>3, <1>4 DEF SessionInv

LEMMA FewSessions ==
  ASSUME SessionInv, NEW S \in SUBSET DOMAIN sessions
  PROVE  /\ IsFiniteSet(S) /\ Cardinality(S) \in Nat
         /\ Cardinality(S) <= MaxSessions
<1>1. minted \in Nat /\ DOMAIN sessions \subseteq 1..minted
  BY DEF SessionInv, SessionTypes, SessionsOK
<1>2. IsFiniteSet(1..minted)
  BY <1>1, FS_Interval
<1>3. IsFiniteSet(DOMAIN sessions)
  BY <1>1, <1>2, FS_Subset
<1>4. IsFiniteSet(S) /\ Cardinality(S) <= Cardinality(DOMAIN sessions)
  BY <1>3, FS_Subset
<1>5. Cardinality(S) \in Nat /\ Cardinality(DOMAIN sessions) \in Nat
  BY <1>3, <1>4, FS_CardinalityType
<1>6. Cardinality(DOMAIN sessions) <= MaxSessions
  BY DEF SessionInv, SessionsOK
<1>7. QED
  BY <1>4, <1>5, <1>6, DashboardSessionsAssumption

\* A part of the map.
PartOf(map) == /\ DOMAIN map \subseteq DOMAIN sessions
               /\ \A t \in DOMAIN map : map[t] = sessions[t]

LEMMA RestrictIsPart ==
  ASSUME NEW map, PartOf(map), NEW S \in SUBSET DOMAIN map
  PROVE  PartOf(Restrict(map, S)) /\ DOMAIN Restrict(map, S) = S
BY DEF PartOf, Restrict

LEMMA KeptIsPart == PartOf(Kept)
<1>1. PartOf(sessions)
  BY DEF PartOf
<1>2. QED
  BY <1>1, RestrictIsPart DEF Kept

\* There is room for a session after the look at the cap.
LEMMA Room ==
  ASSUME SessionInv, NEW base \in WithRoom(Kept)
  PROVE  PartOf(base) /\ Cardinality(DOMAIN base) < MaxSessions
<1> DEFINE D == DOMAIN Kept
<1>1. PartOf(Kept) /\ D \subseteq DOMAIN sessions
  BY KeptIsPart DEF PartOf
<1>2. /\ IsFiniteSet(D) /\ Cardinality(D) \in Nat /\ Cardinality(D) <= MaxSessions
      /\ MaxSessions \in Nat
  BY <1>1, FewSessions, DashboardSessionsAssumption
<1>3. CASE Cardinality(D) < MaxSessions
  BY <1>1, <1>3 DEF WithRoom
<1>4. CASE ~(Cardinality(D) < MaxSessions)
  <2>1. PICK t \in D : base = Restrict(Kept, D \ {t})
    BY <1>4 DEF WithRoom
  <2>2. PartOf(base) /\ DOMAIN base = D \ {t}
    BY <1>1, <2>1, RestrictIsPart
  <2> HIDE DEF D
  <2>3. Cardinality(D \ {t}) = Cardinality(D) - 1
    BY <1>2, <2>1, FS_RemoveElement
  <2>4. QED
    BY <1>2, <2>2, <2>3
<1>5. QED
  BY <1>3, <1>4

\* Sessions are dropped: nothing else moves but what is retired.
LEMMA DropsOK ==
  ASSUME SessionInv, PartOf(sessions'), retired \subseteq retired',
         retired' \subseteq 1..minted, retired' \cap DOMAIN sessions' = {},
         UNCHANGED <<clock, revision, minted, handler, replaced>>
  PROVE  SessionInv'
<1>1. Cardinality(DOMAIN sessions') <= MaxSessions
  BY FewSessions DEF PartOf
<1>2. SessionTypes' /\ HandlersOK' /\ ReplacedOK'
  BY DEF SessionInv, SessionTypes, HandlersOK, ReplacedOK, OneChangePerPassword
<1>3. SessionsOK'
  BY <1>1 DEF SessionInv, SessionsOK, PartOf
<1>4. QED
  BY <1>2, <1>3 DEF SessionInv

\* The handlers after one of them moved.
LEMMA HandlersMove ==
  ASSUME SessionInv, NEW h \in Handlers, NEW s, handler' = [handler EXCEPT ![h] = s],
         s.at \in {"idle", "login", "change"}, s.revision \in 0..revision,
         DOMAIN s.cookies \subseteq Nat,
         \A i \in DOMAIN s.cookies : s.cookies[i] \in 0..minted,
         revision' \in {revision, revision + 1}, minted' \in {minted, minted + 1}
  PROVE  HandlersOK'
<1>1. /\ revision \in Nat /\ minted \in Nat
      /\ 0..revision \subseteq 0..revision' /\ 0..minted \subseteq 0..minted'
  BY DEF SessionInv, SessionTypes
<1>2. DOMAIN handler = Handlers
  BY DEF SessionInv, HandlersOK
<1>3. /\ DOMAIN handler' = Handlers /\ handler'[h] = s
      /\ \A g \in Handlers \ {h} : handler'[g] = handler[g]
  BY <1>2
<1>4. ASSUME NEW g \in Handlers
      PROVE  /\ handler'[g].at \in {"idle", "login", "change"}
             /\ handler'[g].revision \in 0..revision'
             /\ DOMAIN handler'[g].cookies \subseteq Nat
             /\ \A i \in DOMAIN handler'[g].cookies :
                  handler'[g].cookies[i] \in 0..minted'
  <2>1. CASE g = h
    BY <1>1, <1>3, <2>1
  <2>2. CASE g # h
    BY <1>1, <1>3, <2>2 DEF SessionInv, HandlersOK
  <2>3. QED
    BY <2>1, <2>2
<1>5. QED
  BY <1>3, <1>4 DEF HandlersOK

LEMMA RestingIs ==
    /\ Resting.at = "idle" /\ Resting.revision = 0
    /\ DOMAIN Resting.cookies = {}
BY EmptyMap DEF Resting

LEMMA CookiesAre ==
  ASSUME NEW c \in Cookies, minted \in Nat
  PROVE  DOMAIN c \subseteq Nat /\ \A i \in DOMAIN c : c[i] \in 0..minted
<1>1. CASE c = <<>>
  BY <1>1, EmptyMap
<1>2. ASSUME NEW s \in 0..minted, c = <<s>>
      PROVE  DOMAIN c \subseteq Nat /\ \A i \in DOMAIN c : c[i] \in 0..minted
  BY <1>2
<1>3. ASSUME NEW s \in 0..minted, NEW t \in 0..minted, c = <<s, t>>
      PROVE  DOMAIN c \subseteq Nat /\ \A i \in DOMAIN c : c[i] \in 0..minted
  BY <1>3
<1>4. QED
  BY <1>1, <1>2, <1>3 DEF Cookies

LEMMA CheckOK ==
  ASSUME SessionInv, NEW h \in Handlers, NEW kind \in {"login", "change"},
         Check(h, kind)
  PROVE  SessionInv'
<1>1. PICK c \in Cookies : handler' = [handler EXCEPT ![h] =
         [at |-> kind, revision |-> revision, cookies |-> c]]
  <2>1. <<>> \in Cookies
    BY DEF Cookies
  <2>2. QED
    BY <2>1 DEF Check
<1>2. UNCHANGED <<clock, revision, sessions, minted, retired, replaced>>
  BY DEF Check
<1>3. minted \in Nat /\ revision \in Nat /\ revision \in 0..revision
  BY DEF SessionInv, SessionTypes
<1>4. DOMAIN c \subseteq Nat /\ \A i \in DOMAIN c : c[i] \in 0..minted
  BY <1>3, CookiesAre
<1>5. HandlersOK'
  <2> DEFINE s == [at |-> kind, revision |-> revision, cookies |-> c]
  <2>1. /\ s.at \in {"idle", "login", "change"} /\ s.revision \in 0..revision
        /\ DOMAIN s.cookies \subseteq Nat
        /\ \A i \in DOMAIN s.cookies : s.cookies[i] \in 0..minted
        /\ handler' = [handler EXCEPT ![h] = s]
    BY <1>1, <1>3, <1>4
  <2> HIDE DEF s
  <2>2. QED
    BY <1>2, <2>1, HandlersMove
<1>6. SessionTypes' /\ SessionsOK' /\ ReplacedOK'
  BY <1>2 DEF SessionInv, SessionTypes, SessionsOK, ReplacedOK, OneChangePerPassword
<1>7. QED
  BY <1>5, <1>6 DEF SessionInv

LEMMA StaleOK ==
  ASSUME SessionInv, NEW h \in Handlers, Stale(h)
  PROVE  SessionInv'
<1>1. /\ handler' = [handler EXCEPT ![h] = Resting]
      /\ UNCHANGED <<clock, revision, sessions, minted, retired, replaced>>
  BY DEF Stale
<1>2. 0 \in 0..revision
  BY DEF SessionInv, SessionTypes
<1>3. HandlersOK'
  BY <1>1, <1>2, RestingIs, HandlersMove
<1>4. SessionTypes' /\ SessionsOK' /\ ReplacedOK'
  BY <1>1 DEF SessionInv, SessionTypes, SessionsOK, ReplacedOK, OneChangePerPassword
<1>5. QED
  BY <1>3, <1>4 DEF SessionInv

LEMMA CreateSessionOK ==
  ASSUME SessionInv, NEW h \in Handlers, CreateSession(h)
  PROVE  SessionInv'
<1> DEFINE s == [expires |-> clock + SessionTtl, revision |-> handler[h].revision,
                 since |-> clock]
<1>1. /\ handler[h].revision = revision /\ minted < MaxTokens
      /\ minted' = minted + 1 /\ handler' = [handler EXCEPT ![h] = Resting]
      /\ UNCHANGED <<clock, revision, retired, replaced>>
  BY DEF CreateSession, SameRevision
<1>2. PICK base \in WithRoom(Kept) : sessions' = Put(base, minted + 1, s)
  BY DEF CreateSession, Mint
<1>3. /\ clock \in Nat /\ revision \in Nat /\ minted \in Nat
      /\ SessionTtl \in Nat /\ MaxTokens \in Nat /\ MaxSessions \in Nat
  BY DashboardSessionsAssumption DEF SessionInv, SessionTypes
<1>4. /\ s \in SessionOf(revision, clock) /\ s.revision = revision
      /\ s.expires <= s.since + SessionTtl
  BY <1>1, <1>3 DEF SessionOf
<1> HIDE DEF s
<1>5. /\ DOMAIN base \subseteq DOMAIN sessions
      /\ \A t \in DOMAIN base : base[t] = sessions[t]
      /\ Cardinality(DOMAIN base) < MaxSessions
  BY Room DEF PartOf
<1>6. /\ DOMAIN sessions' = DOMAIN base \cup {minted + 1}
      /\ sessions'[minted + 1] = s
      /\ \A t \in DOMAIN base : t # minted + 1 => sessions'[t] = sessions[t]
  BY <1>2, <1>5 DEF Put
<1>7. /\ minted + 1 \notin DOMAIN sessions /\ minted + 1 \notin retired
      /\ minted + 1 \in 1..minted' /\ 1..minted \subseteq 1..minted'
  BY <1>1, <1>3 DEF SessionInv, SessionTypes, SessionsOK
<1>8. Cardinality(DOMAIN sessions') <= MaxSessions
  <2>1. IsFiniteSet(DOMAIN base) /\ Cardinality(DOMAIN base) \in Nat
    BY <1>5, FewSessions
  <2>2. Cardinality(DOMAIN base \cup {minted + 1}) = Cardinality(DOMAIN base) + 1
    BY <1>5, <1>7, <2>1, FS_AddElement
  <2>3. QED
    BY <1>3, <1>5, <1>6, <2>1, <2>2
<1>9. SessionsOK'
  <2>1. DOMAIN sessions' \subseteq 1..minted'
    BY <1>5, <1>6, <1>7 DEF SessionInv, SessionsOK
  <2>2. retired' \cap DOMAIN sessions' = {}
    BY <1>1, <1>5, <1>6, <1>7 DEF SessionInv, SessionsOK
  <2>3. ASSUME NEW t \in DOMAIN sessions'
        PROVE  /\ sessions'[t] \in SessionOf(revision, clock)
               /\ sessions'[t].revision = revision
               /\ sessions'[t].expires <= sessions'[t].since + SessionTtl
    <3>1. CASE t = minted + 1
      BY <1>4, <1>6, <3>1
    <3>2. CASE t # minted + 1
      BY <1>5, <1>6, <3>2 DEF SessionInv, SessionsOK
    <3>3. QED
      BY <3>1, <3>2
  <2>4. QED
    BY <1>1, <1>8, <2>1, <2>2, <2>3 DEF SessionsOK
<1>10. HandlersOK'
  <2>1. 0 \in 0..revision
    BY <1>3
  <2>2. QED
    BY <1>1, <2>1, RestingIs, HandlersMove
<1>11. SessionTypes' /\ ReplacedOK'
  <2>1. retired' \subseteq 1..minted' /\ minted' \in 0..MaxTokens
    BY <1>1, <1>3, <1>7 DEF SessionInv, SessionTypes
  <2>2. QED
    BY <1>1, <2>1 DEF SessionInv, SessionTypes, ReplacedOK, OneChangePerPassword
<1>12. QED
  BY <1>9, <1>10, <1>11 DEF SessionInv

\* The map after a change of the password: empty, or the caller's new session.
LEMMA RotatedMap ==
  ASSUME SessionInv, NEW h \in Handlers, RotatePassword(h)
  PROVE  \/ /\ Inherited(handler[h].cookies) = {} /\ minted' = minted
            /\ DOMAIN sessions' = {}
         \/ \E i \in Inherited(handler[h].cookies) :
              LET s == sessions[handler[h].cookies[i]] IN
              /\ minted' = minted + 1
              /\ DOMAIN sessions' = {minted + 1}
              /\ sessions'[minted + 1] =
                   [expires |-> s.expires, revision |-> revision + 1,
                    since |-> s.since]
<1>1. CASE Inherited(handler[h].cookies) = {} /\ sessions' = <<>> /\ UNCHANGED minted
  BY <1>1, EmptyMap
<1>2. ASSUME NEW i \in Inherited(handler[h].cookies),
             Mint(h, <<>>, InheritedExpiry(sessions[handler[h].cookies[i]]),
                  sessions[handler[h].cookies[i]].since, revision + 1),
             minted' = minted + 1
      PROVE  LET s == sessions[handler[h].cookies[i]] IN
             /\ DOMAIN sessions' = {minted + 1}
             /\ sessions'[minted + 1] =
                  [expires |-> s.expires, revision |-> revision + 1,
                   since |-> s.since]
  BY <1>2, EmptyMap DEF Mint, Put, InheritedExpiry
<1>3. QED
  BY <1>1, <1>2 DEF RotatePassword

LEMMA RotatePasswordOK ==
  ASSUME SessionInv, NEW h \in Handlers, RotatePassword(h)
  PROVE  SessionInv'
<1>1. /\ handler[h].revision = revision
      /\ revision < MaxRevision /\ minted < MaxTokens /\ revision' = revision + 1
      /\ retired' = retired \cup DOMAIN sessions
      /\ replaced' = Append(replaced, revision)
      /\ handler' = [handler EXCEPT ![h] = Resting] /\ UNCHANGED clock
  BY DEF RotatePassword, ReplacesCompared
<1>2. /\ clock \in Nat /\ revision \in Nat /\ minted \in Nat
      /\ SessionTtl \in Nat /\ MaxTokens \in Nat /\ MaxSessions \in Nat \ {0}
      /\ MaxRevision \in Nat
  BY DashboardSessionsAssumption DEF SessionInv, SessionTypes
<1>3. minted' \in {minted, minted + 1}
  BY RotatedMap
<1>4. /\ retired' \subseteq 1..minted /\ 1..minted \subseteq 1..minted'
      /\ minted' \in 0..MaxTokens
  <2>1. retired' \subseteq 1..minted
    BY <1>1 DEF SessionInv, SessionTypes, SessionsOK
  <2>2. 1..minted \subseteq 1..minted' /\ minted' \in 0..MaxTokens
    BY <1>1, <1>2, <1>3
  <2>3. QED
    BY <2>1, <2>2
<1>5. SessionsOK'
  <2>1. CASE DOMAIN sessions' = {}
    <3>1. Cardinality(DOMAIN sessions') <= MaxSessions
      BY <1>2, <2>1, FS_EmptySet
    <3>2. QED
      BY <2>1, <3>1 DEF SessionsOK
  <2>2. ASSUME NEW i \in Inherited(handler[h].cookies),
               LET s == sessions[handler[h].cookies[i]] IN
               /\ minted' = minted + 1
               /\ DOMAIN sessions' = {minted + 1}
               /\ sessions'[minted + 1] =
                    [expires |-> s.expires, revision |-> revision + 1,
                     since |-> s.since]
        PROVE  SessionsOK'
    <3>1. Cardinality(DOMAIN sessions') <= MaxSessions
      <4>1. Cardinality({minted + 1}) = 1
        BY FS_Singleton, Zenon
      <4>2. QED
        BY <1>2, <2>2, <4>1
    <3>2. handler[h].cookies[i] \in DOMAIN sessions
      BY DEF Inherited
    <3> DEFINE s == sessions[handler[h].cookies[i]]
    <3>3. /\ s \in SessionOf(revision, clock)
          /\ s.expires <= s.since + SessionTtl
      BY <3>2 DEF SessionInv, SessionsOK
    <3> HIDE DEF s
    <3>4. /\ sessions'[minted + 1] = [expires |-> s.expires,
                   revision |-> revision + 1, since |-> s.since]
          /\ DOMAIN sessions' = {minted + 1}
      BY <2>2 DEF s
    <3>5. /\ sessions'[minted + 1] \in SessionOf(revision', clock')
          /\ sessions'[minted + 1].revision = revision'
          /\ sessions'[minted + 1].expires
               <= sessions'[minted + 1].since + SessionTtl
      BY <1>1, <1>2, <3>3, <3>4 DEF SessionOf
    <3>6. minted + 1 \in 1..minted' /\ minted + 1 \notin retired'
      BY <1>2, <1>4, <2>2
    <3>7. QED
      BY <3>1, <3>4, <3>5, <3>6 DEF SessionsOK
  <2>3. QED
    BY <2>1, <2>2, RotatedMap
<1>6. HandlersOK'
  <2>1. 0 \in 0..revision
    BY <1>2
  <2>2. QED
    BY <1>1, <1>3, <2>1, RestingIs, HandlersMove
<1>7. SessionTypes' /\ ReplacedOK'
  <2>1. /\ replaced \in Seq(0..MaxRevision) /\ revision \in 0..MaxRevision
        /\ \A i \in DOMAIN replaced : replaced[i] < revision
        /\ OneChangePerPassword
    BY DEF SessionInv, SessionTypes, ReplacedOK
  <2>2. /\ replaced' \in Seq(0..MaxRevision)
        /\ DOMAIN replaced' = DOMAIN replaced \cup {Len(replaced) + 1}
        /\ replaced'[Len(replaced) + 1] = revision
        /\ \A i \in DOMAIN replaced : /\ replaced'[i] = replaced[i]
                                      /\ replaced[i] \in Nat
    <3>1. /\ Len(replaced) \in Nat /\ DOMAIN replaced = 1..Len(replaced)
          /\ \A i \in DOMAIN replaced : replaced[i] \in 0..MaxRevision
      BY <2>1, LenProperties, ElementOfSeq
    <3>2. /\ replaced' \in Seq(0..MaxRevision)
          /\ Len(replaced') = Len(replaced) + 1
          /\ DOMAIN replaced' = 1..(Len(replaced) + 1)
          /\ \A i \in 1..Len(replaced) : replaced'[i] = replaced[i]
          /\ replaced'[Len(replaced) + 1] = revision
      BY <1>1, <2>1, AppendProperties
    <3>3. DOMAIN replaced' = DOMAIN replaced \cup {Len(replaced) + 1}
      BY <3>1, <3>2
    <3>4. QED
      BY <3>1, <3>2, <3>3
  <2>3. \A i \in DOMAIN replaced' : replaced'[i] < revision'
    BY <1>1, <1>2, <2>1, <2>2
  <2>4. OneChangePerPassword'
    BY <1>2, <2>1, <2>2 DEF OneChangePerPassword
  <2>5. revision' \in 0..MaxRevision
    BY <1>1, <1>2
  <2>6. QED
    BY <1>1, <1>4, <2>2, <2>3, <2>4, <2>5
       DEF SessionInv, SessionTypes, ReplacedOK
<1>8. QED
  BY <1>5, <1>6, <1>7 DEF SessionInv

LEMMA LogoutOK ==
  ASSUME SessionInv, Logout
  PROVE  SessionInv'
<1>1. PICK c \in Cookies :
        /\ sessions' = Restrict(sessions, DOMAIN sessions \ Named(c))
        /\ retired' = retired \cup (DOMAIN sessions \cap Named(c))
  BY DEF Logout, Named
<1>2. PartOf(sessions)
  BY DEF PartOf
<1>3. PartOf(sessions') /\ DOMAIN sessions' = DOMAIN sessions \ Named(c)
  BY <1>1, <1>2, RestrictIsPart
<1>4. /\ retired \subseteq retired' /\ retired' \subseteq 1..minted
      /\ retired' \cap DOMAIN sessions' = {}
  BY <1>1, <1>3 DEF SessionInv, SessionTypes, SessionsOK
<1>5. UNCHANGED <<clock, revision, minted, handler, replaced>>
  BY DEF Logout
<1>6. QED
  BY <1>3, <1>4, <1>5, DropsOK

LEMMA SessionStepOK == SessionInv /\ [SessionNext]_sessionVars => SessionInv'
<1> SUFFICES ASSUME SessionInv, [SessionNext]_sessionVars PROVE SessionInv'
  OBVIOUS
<1>1. CASE Validate
  <2>1. /\ PartOf(sessions')
        /\ UNCHANGED <<clock, revision, minted, handler, retired, replaced>>
    BY <1>1, KeptIsPart DEF Validate
  <2>2. retired' \subseteq 1..minted /\ retired' \cap DOMAIN sessions' = {}
    BY <2>1 DEF SessionInv, SessionTypes, SessionsOK, PartOf
  <2>3. QED
    BY <2>1, <2>2, DropsOK
<1>2. CASE SessionTick
  <2>1. /\ clock < LastTime /\ clock' = clock + 1
        /\ UNCHANGED <<revision, sessions, minted, handler, retired, replaced>>
    BY <1>2 DEF SessionTick
  <2>2. clock \in Nat /\ clock' \in 0..LastTime
    BY <2>1, DashboardSessionsAssumption DEF SessionInv, SessionTypes
  <2>3. \A s \in SessionOf(revision, clock) : s \in SessionOf(revision, clock')
    BY <2>1, <2>2 DEF SessionOf
  <2>4. SessionsOK'
    BY <2>1, <2>3 DEF SessionInv, SessionsOK
  <2>5. SessionTypes' /\ HandlersOK' /\ ReplacedOK'
    BY <2>1, <2>2 DEF SessionInv, SessionTypes, HandlersOK, ReplacedOK,
                      OneChangePerPassword
  <2>6. QED
    BY <2>4, <2>5 DEF SessionInv
<1>3. CASE UNCHANGED sessionVars
  BY <1>3 DEF sessionVars, SessionInv, SessionTypes, HandlersOK, SessionsOK,
              ReplacedOK, OneChangePerPassword
<1>4. QED
  BY <1>1, <1>2, <1>3, CheckOK, StaleOK, CreateSessionOK, RotatePasswordOK,
     LogoutOK
     DEF SessionNext

\* A set of places has a first one.
LEMMA FirstPlace ==
  ASSUME NEW S \in SUBSET Nat, S # {}
  PROVE  \E x \in S : \A y \in S : x <= y
<1>1. IsWellFoundedOn(OpToRel(<, Nat), Nat)
  BY NatLessThanWellFounded
<1>2. PICK x \in S : \A y \in S : ~ (<<y, x>> \in OpToRel(<, Nat))
  BY <1>1, WFMin
<1>3. \A y \in S : ~(y < x)
  BY <1>2 DEF OpToRel
<1>4. QED
  BY <1>3

SignedInAt(h, i) ==
    LET t == handler[h].cookies[i]
    IN  t \in DOMAIN sessions /\ sessions[t].expires > clock

LEMMA CallerIsSignedIn ==
  ASSUME SessionInv, SessionNext, revision' # revision, NEW h \in Handlers,
         handler[h].at = "change", handler'[h].at = "idle",
         NEW i \in DOMAIN handler[h].cookies, SignedInAt(h, i)
  PROVE  \E t \in DOMAIN sessions' : sessions'[t].expires > clock
<1>1. PICK g \in Handlers : RotatePassword(g)
  BY DEF SessionNext, Check, Stale, CreateSession, Validate, Logout, SessionTick
<1>2. g = h
  <2>1. handler' = [handler EXCEPT ![g] = Resting]
    BY <1>1 DEF RotatePassword
  <2>2. h # g => handler'[h] = handler[h]
    BY <2>1 DEF SessionInv, HandlersOK
  <2>3. QED
    BY <2>2
<1> DEFINE valid == {j \in DOMAIN handler[h].cookies : SignedInAt(h, j)}
<1>3. Inherited(handler[h].cookies) = {j \in valid : \A k \in valid : j <= k}
  BY DEF Inherited, SignedInAt
<1>4. valid \in SUBSET Nat /\ valid # {}
  BY DEF SessionInv, HandlersOK
<1>5. Inherited(handler[h].cookies) # {}
  <2> HIDE DEF valid
  <2>1. QED
    BY <1>3, <1>4, FirstPlace
<1>6. PICK j \in Inherited(handler[h].cookies) :
         /\ DOMAIN sessions' = {minted + 1}
         /\ sessions'[minted + 1] =
              [expires |-> sessions[handler[h].cookies[j]].expires,
               revision |-> revision + 1,
               since |-> sessions[handler[h].cookies[j]].since]
  BY <1>1, <1>2, <1>5, RotatedMap
<1>7. SignedInAt(h, j)
  BY <1>3, <1>6
<1>8. sessions'[minted + 1].expires > clock
  BY <1>6, <1>7 DEF SignedInAt
<1>9. QED
  BY <1>6, <1>8

(***************************************************************************)
(* DashboardAuthState, for any handlers under way, any cap and any chain   *)
(* of password changes: the sessions there are belong to the current       *)
(* password, none outlives the login it stems from, a token that was       *)
(* retired never comes back, no change of the password is lost under       *)
(* another, and who makes one from a live session stays signed in.         *)
(***************************************************************************)
THEOREM SessionsFollowPassword == SessionSpec => SessionSafety
<1>1. SessionInv => /\ SessionTypeOK /\ SessionsAreCurrent /\ ExpiryIsInherited
                    /\ RetiredStaysRetired /\ OneChangePerPassword
  BY DEF SessionInv, SessionTypes, HandlersOK, SessionsOK, ReplacedOK, SessionOf,
         SessionTypeOK, SessionsAreCurrent, ExpiryIsInherited, RetiredStaysRetired
<1>2. SessionInv /\ [SessionNext]_sessionVars =>
        [revision' # revision =>
           \A h \in Handlers :
             (/\ handler[h].at = "change" /\ handler'[h].at = "idle"
              /\ \E i \in DOMAIN handler[h].cookies :
                   LET t == handler[h].cookies[i]
                   IN  t \in DOMAIN sessions /\ sessions[t].expires > clock)
             => \E t \in DOMAIN sessions' : sessions'[t].expires > clock]_sessionVars
  BY CallerIsSignedIn DEF SignedInAt
<1>3. QED
  BY SessionInitOK, SessionStepOK, <1>1, <1>2, PTL
     DEF SessionSpec, SessionSafety, CallerStaysSignedIn

-----------------------------------------------------------------------------
(***************************************************************************)
(* The cached rounds.  The permit is away exactly while a round is under   *)
(* way, so there is never a second one, and a queue has one query or none. *)
(* A caller that comes between the publication and the release finds the   *)
(* value fresh, and one that came before has been told: without that, a    *)
(* caller could begin to wait for a round that has nothing left to say.    *)
(***************************************************************************)
RoundSet == [stage : {"none", "running", "publish", "release"},
             age : 0..RoundLimit,
             reply : [Queues -> {"none", "ok", "failed", "wedged"}],
             value : BOOLEAN]

CallSet == [pc : {"idle", "read", "gate", "waiting"}, age : 0..WaitLimit,
            changed : BOOLEAN, left : BOOLEAN]

PermitIsAway == permit <=> \A s \in Slots : round[s].stage = "none"

Queries(q) == {s \in Slots : Running(s) /\ q \in Unanswered(s)}

OneQuery == \A q \in Queues : live[q] = IF Queries(q) = {} THEN 0 ELSE 1

ReleaseIsFresh ==
    \A s \in Slots : round[s].stage = "release" =>
        /\ Fresh
        /\ \A c \in Callers : caller[c].pc = "gate" => caller[c].changed

RoundInv ==
    /\ RoundTypeOK /\ PermitIsAway /\ OneRoundAtATime /\ OneQuery
    /\ NobodyWaitsForNothing /\ ReleaseIsFresh

LEMMA NoRoundTyped == NoRound \in RoundSet /\ NoRound.stage = "none"
BY RoundCacheAssumption DEF NoRound, RoundSet

LEMMA StageTyped ==
  ASSUME NEW st \in {"none", "running", "publish", "release"}, NEW v \in BOOLEAN
  PROVE  /\ [NoRound EXCEPT !.stage = st] \in RoundSet
         /\ [NoRound EXCEPT !.stage = st].stage = st
         /\ [NoRound EXCEPT !.stage = st, !.value = v] \in RoundSet
         /\ [NoRound EXCEPT !.stage = st, !.value = v].stage = st
BY NoRoundTyped DEF RoundSet

LEMMA NoCallTyped == NoCall \in CallSet /\ NoCall.pc = "idle"
BY RoundCacheAssumption DEF NoCall, CallSet

LEMMA RoundInitOK == RoundInit => RoundInv
<1> SUFFICES ASSUME RoundInit PROVE RoundInv
  OBVIOUS
<1>1. \A s \in Slots : round[s] = NoRound /\ round[s].stage = "none"
  BY NoRoundTyped DEF RoundInit
<1>2. \A c \in Callers : caller[c] = NoCall /\ caller[c].pc = "idle"
  BY NoCallTyped DEF RoundInit
<1>3. RoundTypeOK
  <2>1. round \in [Slots -> RoundSet] /\ caller \in [Callers -> CallSet]
    BY NoRoundTyped, NoCallTyped DEF RoundInit
  <2>2. published \in [value : BOOLEAN, age : 0..Ttl] /\ wedges \in 0..MaxWedges
    BY RoundCacheAssumption DEF RoundInit
  <2>3. live \in [Queues -> Nat] /\ permit \in BOOLEAN /\ failFast \in BOOLEAN
    BY DEF RoundInit
  <2>4. QED
    BY <2>1, <2>2, <2>3 DEF RoundTypeOK, RoundSet, CallSet
<1>4. OneQuery
  <2>1. \A q \in Queues : Queries(q) = {} /\ live[q] = 0
    BY <1>1 DEF Queries, Running, RoundInit
  <2>2. QED
    BY <2>1 DEF OneQuery
<1>5. permit = TRUE
  BY DEF RoundInit
<1>6. QED
  BY <1>1, <1>2, <1>3, <1>4, <1>5
     DEF RoundInv, PermitIsAway, OneRoundAtATime, NobodyWaitsForNothing,
         ReleaseIsFresh

\* Steps of one caller that leave the rounds alone.
LEMMA CallerMoves ==
  ASSUME RoundInv, NEW c \in Callers, NEW k \in CallSet,
         caller' = [caller EXCEPT ![c] = k],
         UNCHANGED <<failFast, published, permit, round, live, wedges>>,
         k.pc = "waiting" => \/ k.changed \/ k.left
                             \/ \E s \in Slots : round[s].stage \in {"running", "publish"},
         k.pc = "gate" => k.changed \/ \A s \in Slots : round[s].stage # "release"
  PROVE  RoundInv'
<1>1. /\ caller \in [Callers -> CallSet] /\ RoundTypeOK
  BY DEF RoundInv, RoundTypeOK, CallSet
<1>2. /\ caller' \in [Callers -> CallSet] /\ caller'[c] = k
      /\ \A d \in Callers \ {c} : caller'[d] = caller[d]
  BY <1>1
<1>3. RoundTypeOK'
  BY <1>1, <1>2 DEF RoundTypeOK, CallSet
<1>4. PermitIsAway' /\ OneRoundAtATime' /\ OneQuery'
  BY DEF RoundInv, PermitIsAway, OneRoundAtATime, OneQuery, Queries, Running,
         Unanswered
<1>5. NobodyWaitsForNothing'
  BY <1>2 DEF RoundInv, NobodyWaitsForNothing
<1>6. ReleaseIsFresh'
  BY <1>2 DEF RoundInv, ReleaseIsFresh, Fresh
<1>7. QED
  BY <1>3, <1>4, <1>5, <1>6 DEF RoundInv

LEMMA CallersOK ==
  ASSUME RoundInv, NEW c \in Callers, UNCHANGED failFast,
         Subscribe(c) \/ Read(c) \/ Woken(c) \/ WaitTimesOut(c) \/ Cancel(c)
  PROVE  RoundInv'
<1>1. caller[c] \in CallSet /\ DOMAIN caller = Callers
  BY DEF RoundInv, RoundTypeOK, CallSet
<1>2. CASE caller' = [caller EXCEPT ![c] = NoCall]
  <2>1. UNCHANGED <<published, permit, round, live, wedges>>
    BY DEF Subscribe, Read, Woken, WaitTimesOut, Cancel
  <2>2. QED
    BY <1>2, <2>1, NoCallTyped, CallerMoves
<1>3. ASSUME Subscribe(c) PROVE RoundInv'
  <2> DEFINE k == [caller[c] EXCEPT !.pc = "read"]
  <2>1. /\ caller' = [caller EXCEPT ![c] = k] /\ k \in CallSet /\ k.pc = "read"
        /\ UNCHANGED <<published, permit, round, live, wedges>>
    BY <1>1, <1>3 DEF Subscribe, CallSet
  <2> HIDE DEF k
  <2>2. QED
    BY <2>1, CallerMoves
<1>4. ASSUME Read(c), ~Fresh PROVE RoundInv'
  <2> DEFINE k == [caller[c] EXCEPT !.pc = "gate"]
  <2>1. /\ caller' = [caller EXCEPT ![c] = k] /\ k \in CallSet /\ k.pc = "gate"
        /\ UNCHANGED <<published, permit, round, live, wedges>>
    BY <1>1, <1>4 DEF Read, CallSet
  <2>2. \A s \in Slots : round[s].stage # "release"
    BY <1>4 DEF RoundInv, ReleaseIsFresh
  <2> HIDE DEF k
  <2>3. QED
    BY <2>1, <2>2, CallerMoves
<1>5. QED
  BY <1>2, <1>3, <1>4 DEF Read, Woken, WaitTimesOut, Cancel

LEMMA OneRound ==
  ASSUME RoundInv, NEW s \in Slots, round[s].stage # "none"
  PROVE  \A t \in Slots \ {s} : round[t].stage = "none"
BY DEF RoundInv, OneRoundAtATime

\* Steps of a round: r is what becomes of it.
LEMMA RoundMoves ==
  ASSUME RoundInv, NEW s \in Slots, NEW r \in RoundSet,
         \A t \in Slots \ {s} : round[t].stage = "none",
         round' = [round EXCEPT ![s] = r], UNCHANGED <<failFast>>,
         published' \in [value : BOOLEAN, age : 0..Ttl],
         permit' \in BOOLEAN, permit' <=> r.stage = "none",
         \A q \in Queues : live'[q] = 
             IF r.stage = "running" /\ r.reply[q] \in {"none", "wedged"} THEN 1 ELSE 0,
         live' \in [Queues -> Nat], wedges' \in 0..MaxWedges,
         caller' \in [Callers -> CallSet],
         \A c \in Callers : caller'[c].pc = "waiting" =>
             \/ caller'[c].changed \/ caller'[c].left
             \/ r.stage \in {"running", "publish"},
         r.stage = "release" =>
             /\ published'.age < Ttl
             /\ \A c \in Callers : caller'[c].pc = "gate" => caller'[c].changed
  PROVE  RoundInv'
<1>1. round \in [Slots -> RoundSet] /\ failFast \in BOOLEAN
  BY DEF RoundInv, RoundTypeOK, RoundSet
<1>2. /\ round' \in [Slots -> RoundSet] /\ round'[s] = r
      /\ \A t \in Slots \ {s} : round'[t] = round[t]
  BY <1>1
<1>3. RoundTypeOK'
  BY <1>1, <1>2 DEF RoundTypeOK, RoundSet, CallSet
<1>4. PermitIsAway'
  BY <1>2 DEF PermitIsAway
<1>5. OneRoundAtATime'
  BY <1>2 DEF OneRoundAtATime
<1>6. OneQuery'
  <2> SUFFICES ASSUME NEW q \in Queues
               PROVE  live'[q] = IF Queries(q)' = {} THEN 0 ELSE 1
    BY DEF OneQuery
  <2>1. \A t \in Slots : t \in Queries(q)' <=>
           t = s /\ r.stage = "running" /\ r.reply[q] \in {"none", "wedged"}
    BY <1>2 DEF Queries, Running, Unanswered
  <2>2. Queries(q)' \subseteq Slots
    BY DEF Queries
  <2>3. QED
    BY <2>1, <2>2
<1>7. NobodyWaitsForNothing'
  BY <1>2 DEF NobodyWaitsForNothing
<1>8. ReleaseIsFresh'
  BY <1>2 DEF ReleaseIsFresh, Fresh
<1>9. QED
  BY <1>3, <1>4, <1>5, <1>6, <1>7, <1>8 DEF RoundInv

LEMMA TryRoundOK ==
  ASSUME RoundInv, NEW c \in Callers, UNCHANGED failFast, TryRound(c)
  PROVE  RoundInv'
<1> DEFINE k == [caller[c] EXCEPT !.pc = "waiting"]
<1>1. /\ caller[c] \in CallSet /\ caller \in [Callers -> CallSet]
      /\ RoundTypeOK /\ published \in [value : BOOLEAN, age : 0..Ttl]
      /\ caller[c].pc = "gate" /\ caller' = [caller EXCEPT ![c] = k]
      /\ UNCHANGED <<published, wedges>>
  BY DEF RoundInv, RoundTypeOK, CallSet, TryRound
<1>2. /\ k \in CallSet /\ k.pc = "waiting" /\ k.changed = caller[c].changed
  BY <1>1 DEF CallSet
<1> HIDE DEF k
\* The permit is away: the round has yet to publish, or has told the caller.
<1>3. CASE ~permit /\ UNCHANGED <<permit, round, live>>
  <2>1. PICK s \in Slots : round[s].stage # "none"
    BY <1>3 DEF RoundInv, PermitIsAway
  <2>2. \/ k.changed
        \/ \E t \in Slots : round[t].stage \in {"running", "publish"}
    <3>1. round[s].stage \in {"none", "running", "publish", "release"}
      BY <1>1 DEF RoundTypeOK
    <3>2. QED
      BY <1>1, <1>2, <2>1, <3>1 DEF RoundInv, ReleaseIsFresh
  <2>3. QED
    BY <1>1, <1>2, <1>3, <2>2, CallerMoves
<1>4. ASSUME permit, NEW s \in Slots, Begin(s) PROVE RoundInv'
  <2> DEFINE r == [NoRound EXCEPT !.stage = "running",
                                  !.reply = [q \in Queues |-> "none"]]
  <2>1. /\ permit' = FALSE /\ live' = [q \in Queues |-> live[q] + 1]
        /\ round' = [round EXCEPT ![s] = r]
    BY <1>4 DEF Begin
  <2>2. /\ r \in RoundSet /\ r.stage = "running"
        /\ \A q \in Queues : r.reply[q] = "none"
    BY NoRoundTyped DEF RoundSet
  <2> HIDE DEF r
  <2>3. \A t \in Slots : round[t].stage = "none"
    BY <1>4 DEF RoundInv, PermitIsAway
  <2>4. \A q \in Queues : live[q] = 0 /\ live'[q] = 1
    BY <2>1, <2>3 DEF RoundInv, OneQuery, Queries, Running
  <2>5. live' \in [Queues -> Nat] /\ wedges' \in 0..MaxWedges
    BY <1>1, <2>1 DEF RoundTypeOK
  <2>6. caller' \in [Callers -> CallSet]
    BY <1>1, <1>2
  <2>7. QED
    <3>1. /\ \A t \in Slots \ {s} : round[t].stage = "none"
          /\ permit' \in BOOLEAN /\ (permit' <=> r.stage = "none")
          /\ r.stage # "release"
      BY <2>1, <2>2, <2>3
    <3>2. published' \in [value : BOOLEAN, age : 0..Ttl]
      BY <1>1
    <3>3. \A q \in Queues : live'[q] =
            IF r.stage = "running" /\ r.reply[q] \in {"none", "wedged"}
            THEN 1 ELSE 0
      BY <2>2, <2>4
    <3>4. QED
      BY <2>1, <2>2, <2>5, <2>6, <3>1, <3>2, <3>3, RoundMoves
<1>5. QED
  BY <1>3, <1>4 DEF TryRound

\* What there is of queries while s runs.
LEMMA QueriesOf ==
  ASSUME RoundInv, NEW s \in Slots, Running(s)
  PROVE  \A q \in Queues : live[q] = IF q \in Unanswered(s) THEN 1 ELSE 0
<1>1. \A t \in Slots \ {s} : ~Running(t)
  BY OneRound DEF Running
<1>2. ASSUME NEW q \in Queues PROVE live[q] = IF q \in Unanswered(s) THEN 1 ELSE 0
  <2>1. Queries(q) = {} <=> q \notin Unanswered(s)
    BY <1>1 DEF Queries
  <2>2. QED
    BY <2>1 DEF RoundInv, OneQuery
<1>3. QED
  BY <1>2

\* A query of the round is answered, or its connection is swallowed.
LEMMA AnswerOK ==
  ASSUME RoundInv, NEW s \in Slots, NEW q \in Queues, UNCHANGED failFast,
         Reply(s, q) \/ Wedge(s, q)
  PROVE  RoundInv'
<1>1. PICK a \in {"ok", "failed", "wedged"} :
        /\ Running(s) /\ round[s].reply[q] = "none"
        /\ round' = [round EXCEPT ![s].reply[q] = a]
        /\ IF a = "wedged"
           THEN /\ live' = live /\ wedges < MaxWedges /\ wedges' = wedges + 1
           ELSE live' = [live EXCEPT ![q] = @ - 1] /\ wedges' = wedges
        /\ UNCHANGED <<published, permit, caller>>
  BY DEF Reply, Answer, Wedge
<1>2. /\ round \in [Slots -> RoundSet] /\ caller \in [Callers -> CallSet]
      /\ published \in [value : BOOLEAN, age : 0..Ttl]
      /\ live \in [Queues -> Nat] /\ wedges \in 0..MaxWedges /\ permit \in BOOLEAN
  BY DEF RoundInv, RoundTypeOK, RoundSet, CallSet
<1> DEFINE r == [round[s] EXCEPT !.reply[q] = a]
<1>3. /\ round' = [round EXCEPT ![s] = r] /\ r \in RoundSet /\ r.stage = "running"
      /\ r.reply = [round[s].reply EXCEPT ![q] = a]
  BY <1>1, <1>2 DEF RoundSet, Running
<1> HIDE DEF r
<1>4. /\ DOMAIN round[s].reply = Queues /\ r.reply[q] = a
      /\ \A p \in Queues \ {q} : r.reply[p] = round[s].reply[p]
  BY <1>2, <1>3 DEF RoundSet
<1>5. \A p \in Queues : live'[p] = IF r.reply[p] \in {"none", "wedged"} THEN 1 ELSE 0
  <2>1. /\ live[q] = 1
        /\ \A p \in Queues \ {q} :
             live[p] = IF r.reply[p] \in {"none", "wedged"} THEN 1 ELSE 0
    BY <1>1, <1>4, QueriesOf DEF Unanswered
  <2>2. CASE a = "wedged"
    BY <1>1, <1>4, <2>1, <2>2
  <2>3. CASE a # "wedged"
    <3>1. live'[q] = 0 /\ \A p \in Queues \ {q} : live'[p] = live[p]
      BY <1>1, <1>2, <2>1, <2>3
    <3>2. QED
      BY <1>4, <2>1, <2>3, <3>1
  <2>4. QED
    BY <2>2, <2>3
<1>6. live' \in [Queues -> Nat]
  <2>1. DOMAIN live' = Queues /\ live' = [p \in Queues |-> live'[p]]
    BY <1>1, <1>2
  <2>2. \A p \in Queues : live'[p] \in Nat
    BY <1>5
  <2>3. QED
    BY <2>1, <2>2
<1>7. wedges' \in 0..MaxWedges
  BY <1>1, <1>2, RoundCacheAssumption
<1>8. \A t \in Slots \ {s} : round[t].stage = "none"
  BY <1>1, OneRound DEF Running
<1>9. ~permit
  BY <1>1 DEF RoundInv, PermitIsAway, Running
<1>10. \A p \in Queues : live'[p] =
          IF r.stage = "running" /\ r.reply[p] \in {"none", "wedged"} THEN 1 ELSE 0
  BY <1>3, <1>5
<1>11. UNCHANGED <<published, permit, caller>>
  BY <1>1
<1>12. r.stage \notin {"none", "release"} /\ r.stage \in {"running", "publish"}
  BY <1>3
<1>13. QED
  BY <1>2, <1>3, <1>6, <1>7, <1>8, <1>9, <1>10, <1>11, <1>12, RoundMoves

\* The round comes to an end and drops the queries it has not heard from.
LEMMA NothingIsLeft ==
  ASSUME RoundInv, NEW s \in Slots, Running(s), live' = AbortRest(s)
  PROVE  live' \in [Queues -> Nat] /\ \A q \in Queues : live'[q] = 0
<1>1. \A q \in Queues : live'[q] = 0
  BY QueriesOf DEF AbortRest
<1>2. live' = [q \in Queues |-> live'[q]]
  BY DEF AbortRest
<1>3. QED
  BY <1>1, <1>2

LEMMA CompleteOK ==
  ASSUME RoundInv, NEW s \in Slots, UNCHANGED failFast, Complete(s)
  PROVE  RoundInv'
<1> DEFINE v == \A q \in Queues : round[s].reply[q] = "ok"
           r == [NoRound EXCEPT !.stage = "publish", !.value = v]
<1>1. /\ Running(s) /\ round' = [round EXCEPT ![s] = r] /\ live' = AbortRest(s)
      /\ UNCHANGED <<published, permit, caller, wedges>>
  BY DEF Complete
<1>2. v \in BOOLEAN
  BY Zenon
<1> HIDE DEF v
<1>3. r \in RoundSet /\ r.stage = "publish"
  BY <1>2, StageTyped
<1> HIDE DEF r
<1>4. /\ caller \in [Callers -> CallSet]
      /\ published \in [value : BOOLEAN, age : 0..Ttl]
      /\ wedges \in 0..MaxWedges /\ permit \in BOOLEAN
  BY DEF RoundInv, RoundTypeOK, CallSet
<1>5. ~permit /\ \A t \in Slots \ {s} : round[t].stage = "none"
  BY <1>1, OneRound DEF Running, RoundInv, PermitIsAway
<1>6. live' \in [Queues -> Nat] /\ \A q \in Queues : live'[q] = 0
  BY <1>1, NothingIsLeft
<1>7. QED
  BY <1>1, <1>3, <1>4, <1>5, <1>6, RoundMoves

\* No query is under way once the round has its value.
LEMMA NoQueries ==
  ASSUME RoundInv, NEW s \in Slots, round[s].stage \in {"publish", "release"}
  PROVE  \A q \in Queues : live[q] = 0
<1>1. \A t \in Slots : ~Running(t)
  BY OneRound DEF Running
<1>2. QED
  BY <1>1 DEF RoundInv, OneQuery, Queries

LEMMA PublishOK ==
  ASSUME RoundInv, NEW s \in Slots, UNCHANGED failFast, Publish(s)
  PROVE  RoundInv'
<1> DEFINE r == [NoRound EXCEPT !.stage = "release"]
<1>1. /\ round[s].stage = "publish" /\ round' = [round EXCEPT ![s] = r]
      /\ published' = [value |-> round[s].value, age |-> 0]
      /\ caller' = [c \in Callers |-> [caller[c] EXCEPT !.changed = c \in Subscribed]]
      /\ UNCHANGED <<permit, live, wedges>>
  BY DEF Publish
<1>2. r \in RoundSet /\ r.stage = "release"
  BY StageTyped
<1> HIDE DEF r
<1>3. /\ caller \in [Callers -> CallSet] /\ round[s] \in RoundSet
      /\ live \in [Queues -> Nat] /\ wedges \in 0..MaxWedges /\ permit \in BOOLEAN
  BY DEF RoundInv, RoundTypeOK, CallSet, RoundSet
<1>4. published' \in [value : BOOLEAN, age : 0..Ttl] /\ published'.age < Ttl
  BY <1>1, <1>3, RoundCacheAssumption DEF RoundSet
<1>5. ASSUME NEW c \in Callers
      PROVE  /\ caller'[c] \in CallSet
             /\ caller'[c].pc # "idle" => caller'[c].changed
  <2> DEFINE b == c \in Subscribed
  <2>1. b \in BOOLEAN
    OBVIOUS
  <2>2. b <=> caller[c].pc # "idle"
    BY DEF Subscribed
  <2>3. caller'[c] = [caller[c] EXCEPT !.changed = b]
    BY <1>1
  <2> HIDE DEF b
  <2>4. caller[c] \in CallSet
    BY <1>3
  <2>5. QED
    BY <2>1, <2>2, <2>3, <2>4 DEF CallSet
<1>6. caller' \in [Callers -> CallSet]
  BY <1>1, <1>5
<1>7. ~permit /\ \A t \in Slots \ {s} : round[t].stage = "none"
  BY <1>1, OneRound DEF RoundInv, PermitIsAway
<1>8. \A q \in Queues : live'[q] = 0
  BY <1>1, NoQueries
<1>9. QED
  BY <1>1, <1>2, <1>3, <1>4, <1>5, <1>6, <1>7, <1>8, RoundMoves

LEMMA ReleaseOK ==
  ASSUME RoundInv, NEW s \in Slots, UNCHANGED failFast, Release(s)
  PROVE  RoundInv'
<1>1. /\ round[s].stage = "release" /\ round' = [round EXCEPT ![s] = NoRound]
      /\ permit' = TRUE /\ UNCHANGED <<published, live, caller, wedges>>
  BY DEF Release
<1>2. /\ caller \in [Callers -> CallSet]
      /\ published \in [value : BOOLEAN, age : 0..Ttl]
      /\ live \in [Queues -> Nat] /\ wedges \in 0..MaxWedges
  BY DEF RoundInv, RoundTypeOK, CallSet
<1>3. \A t \in Slots \ {s} : round[t].stage = "none"
  BY <1>1, OneRound
<1>4. \A q \in Queues : live'[q] = 0
  BY <1>1, NoQueries
<1>5. \A c \in Callers : caller[c].pc = "waiting" =>
          caller[c].changed \/ caller[c].left
  BY <1>1, <1>3 DEF RoundInv, NobodyWaitsForNothing
<1>6. QED
  BY <1>1, <1>2, <1>3, <1>4, <1>5, NoRoundTyped, RoundMoves

LEMMA AbandonOK ==
  ASSUME RoundInv, NEW s \in Slots, UNCHANGED failFast, Abandon(s)
  PROVE  RoundInv'
<1>1. /\ Running(s) /\ round' = [round EXCEPT ![s] = NoRound] /\ permit' = TRUE
      /\ live' = AbortRest(s)
      /\ caller' = [c \in Callers |->
                      [caller[c] EXCEPT !.left = caller[c].pc = "waiting"]]
      /\ UNCHANGED <<published, wedges>>
  BY DEF Abandon
<1>2. /\ caller \in [Callers -> CallSet]
      /\ published \in [value : BOOLEAN, age : 0..Ttl] /\ wedges \in 0..MaxWedges
  BY DEF RoundInv, RoundTypeOK, CallSet
<1>3. ASSUME NEW c \in Callers
      PROVE  /\ caller'[c] \in CallSet
             /\ caller'[c].pc = "waiting" => caller'[c].left
  <2> DEFINE b == caller[c].pc = "waiting"
  <2>1. b \in BOOLEAN
    BY Zenon
  <2>2. caller'[c] = [caller[c] EXCEPT !.left = b]
    BY <1>1
  <2>3. caller[c] \in CallSet /\ (b <=> caller[c].pc = "waiting")
    BY <1>2
  <2> HIDE DEF b
  <2>4. QED
    BY <2>1, <2>2, <2>3 DEF CallSet
<1>4. caller' \in [Callers -> CallSet]
  BY <1>1, <1>3
<1>5. \A t \in Slots \ {s} : round[t].stage = "none"
  BY <1>1, OneRound DEF Running
<1>6. live' \in [Queues -> Nat] /\ \A q \in Queues : live'[q] = 0
  BY <1>1, NothingIsLeft
<1>7. QED
  BY <1>1, <1>2, <1>3, <1>4, <1>5, <1>6, NoRoundTyped, RoundMoves

\* A tick moves ages, and none while the permit is about to be let go.
LEMMA TickOK ==
  ASSUME RoundInv, UNCHANGED failFast, Tick
  PROVE  RoundInv'
<1>1. /\ \A s \in Slots : round[s].stage # "release"
      /\ published' = [published EXCEPT !.age = Older(@, Ttl)]
      /\ round' = [s \in Slots |->
           IF Running(s) THEN [round[s] EXCEPT !.age = Older(@, RoundLimit)]
           ELSE round[s]]
      /\ caller' = [c \in Callers |->
           IF caller[c].pc = "waiting"
           THEN [caller[c] EXCEPT !.age = Older(@, WaitLimit)] ELSE caller[c]]
      /\ UNCHANGED <<permit, live, wedges>>
  BY DEF Tick
<1>2. /\ caller \in [Callers -> CallSet] /\ round \in [Slots -> RoundSet]
      /\ published \in [value : BOOLEAN, age : 0..Ttl] /\ RoundTypeOK
  BY DEF RoundInv, RoundTypeOK, CallSet, RoundSet
<1>3. ASSUME NEW n \in Nat, NEW a \in 0..n PROVE Older(a, n) \in 0..n
  BY DEF Older
<1>4. ASSUME NEW s \in Slots
      PROVE  /\ round'[s] \in RoundSet /\ round'[s].stage = round[s].stage
             /\ round'[s].reply = round[s].reply
  <2>0. round[s] \in RoundSet /\ round[s].age \in 0..RoundLimit
    BY <1>2 DEF RoundSet
  <2> DEFINE a == Older(round[s].age, RoundLimit)
  <2>1. a \in 0..RoundLimit
    BY <1>3, <2>0, RoundCacheAssumption
  <2>2. round'[s] = IF Running(s) THEN [round[s] EXCEPT !.age = a] ELSE round[s]
    BY <1>1
  <2> HIDE DEF a
  <2>3. QED
    BY <2>0, <2>1, <2>2 DEF RoundSet
<1>5. ASSUME NEW c \in Callers
      PROVE  /\ caller'[c] \in CallSet /\ caller'[c].pc = caller[c].pc
             /\ caller'[c].changed = caller[c].changed
             /\ caller'[c].left = caller[c].left
  <2>0. caller[c] \in CallSet /\ caller[c].age \in 0..WaitLimit
    BY <1>2 DEF CallSet
  <2> DEFINE a == Older(caller[c].age, WaitLimit)
  <2>1. a \in 0..WaitLimit
    BY <1>3, <2>0, RoundCacheAssumption
  <2>2. caller'[c] = IF caller[c].pc = "waiting"
                     THEN [caller[c] EXCEPT !.age = a] ELSE caller[c]
    BY <1>1
  <2> HIDE DEF a
  <2>3. QED
    BY <2>0, <2>1, <2>2 DEF CallSet
<1>6. RoundTypeOK'
  <2>1. published' \in [value : BOOLEAN, age : 0..Ttl]
    <3> DEFINE a == Older(published.age, Ttl)
    <3>1. a \in 0..Ttl
      BY <1>2, <1>3, RoundCacheAssumption
    <3>2. published' = [published EXCEPT !.age = a]
      BY <1>1
    <3> HIDE DEF a
    <3>3. QED
      BY <1>2, <3>1, <3>2
  <2>2. round' \in [Slots -> RoundSet] /\ caller' \in [Callers -> CallSet]
    BY <1>1, <1>4, <1>5
  <2>3. QED
    BY <1>1, <1>2, <2>1, <2>2 DEF RoundTypeOK, RoundSet, CallSet
<1>7. PermitIsAway' /\ OneRoundAtATime'
  BY <1>1, <1>4 DEF RoundInv, PermitIsAway, OneRoundAtATime
<1>8. OneQuery'
  <2>1. \A q \in Queues : Queries(q)' = Queries(q)
    BY <1>4 DEF Queries, Running, Unanswered
  <2>2. QED
    BY <1>1, <2>1 DEF RoundInv, OneQuery
<1>9. NobodyWaitsForNothing' /\ ReleaseIsFresh'
  BY <1>1, <1>4, <1>5 DEF RoundInv, NobodyWaitsForNothing, ReleaseIsFresh
<1>10. QED
  BY <1>6, <1>7, <1>8, <1>9 DEF RoundInv

LEMMA RoundStepOK == RoundInv /\ [RoundNext]_<<failFast, roundVars>> => RoundInv'
<1> SUFFICES ASSUME RoundInv, [RoundNext]_<<failFast, roundVars>>
             PROVE  RoundInv'
  OBVIOUS
<1>1. CASE RoundNext
  BY <1>1, CallersOK, TryRoundOK, AnswerOK, CompleteOK, PublishOK, ReleaseOK,
     AbandonOK, TickOK DEF RoundNext, CallerStep, Close
<1>2. CASE UNCHANGED <<failFast, roundVars>>
  BY <1>2 DEF roundVars, RoundInv, RoundTypeOK, PermitIsAway, OneRoundAtATime,
     OneQuery, Queries, Running, Unanswered, NobodyWaitsForNothing,
     ReleaseIsFresh, Fresh
<1>3. QED
  BY <1>1, <1>2

(***************************************************************************)
(* RoundCache::get, for any callers, queues and time limits: one round is  *)
(* under way at a time, a queue of the worker's pool is asked at most once *)
(* however many clients call and leave, and who waits has been told or has *)
(* a round that will.                                                      *)
(***************************************************************************)
THEOREM RoundsAreShared == RoundSpec => []RoundSafety
<1>1. RoundInv => RoundSafety
  <2> SUFFICES ASSUME RoundInv PROVE RoundSafety
    OBVIOUS
  <2>1. ASSUME NEW q \in Queues
        PROVE  live[q] = Cardinality({s \in Slots : Running(s) /\ q \in Unanswered(s)})
    <3>1. CASE Queries(q) = {}
      BY <3>1, FS_EmptySet DEF RoundInv, OneQuery, Queries
    <3>2. CASE Queries(q) # {}
      <4>1. PICK s \in Queries(q) : TRUE
        BY <3>2
      <4>2. Queries(q) = {s}
        BY <4>1, OneRound DEF Queries, Running
      <4>3. Cardinality({s}) = 1
        BY FS_Singleton, Zenon
      <4>4. QED
        BY <3>2, <4>2, <4>3 DEF RoundInv, OneQuery, Queries
    <3>3. QED
      BY <3>1, <3>2
  <2>2. QED
    BY <2>1 DEF RoundInv, RoundSafety, LoadIsBounded
<1>2. QED
  BY RoundInitOK, RoundStepOK, <1>1, PTL DEF RoundSpec

-----------------------------------------------------------------------------
(***************************************************************************)
(* The throttle.  What the buckets hold is counted token by token: the     *)
(* weight of a map is the number of its tokens.                            *)
(***************************************************************************)
Pile(D, f) == {t \in D \X (Nat \ {0}) : t[2] <= f[t[1]]}
Weight(D, f) == Cardinality(Pile(D, f))

LEMMA PileFinite ==
    ASSUME NEW D, IsFiniteSet(D), NEW b \in Nat, NEW f,
           \A x \in D : f[x] \in 0..b
    PROVE  /\ IsFiniteSet(Pile(D, f)) /\ Weight(D, f) \in Nat
           /\ Pile(D, f) = {t \in D \X (1..b) : t[2] <= f[t[1]]}
<1>1. Pile(D, f) = {t \in D \X (1..b) : t[2] <= f[t[1]]}
  <2>1. \A x \in D, i \in Nat \ {0} : i <= f[x] => i \in 1..b
    OBVIOUS
  <2>2. QED
    BY <2>1 DEF Pile
<1>2. IsFiniteSet(D \X (1..b))
  <2>1. IsFiniteSet(1..b)
    BY FS_Interval
  <2>2. QED
    BY <2>1, FS_Product
<1>3. IsFiniteSet(Pile(D, f))
  BY <1>1, <1>2, FS_Subset
<1>4. QED
  BY <1>1, <1>3, FS_CardinalityType DEF Weight

LEMMA WeightMonotone ==
    ASSUME NEW D, IsFiniteSet(D), NEW b \in Nat,
           NEW f, NEW g,
           \A x \in D : f[x] \in 0..b /\ g[x] \in 0..b,
           \A x \in D : f[x] <= g[x]
    PROVE  Weight(D, f) <= Weight(D, g)
<1>1. Pile(D, f) \subseteq Pile(D, g)
  <2>1. \A x \in D, i \in Nat : i <= f[x] => i <= g[x]
    OBVIOUS
  <2>2. QED
    BY <2>1 DEF Pile
<1>2. QED
  BY <1>1, PileFinite, FS_Subset DEF Weight

\* A part of the map and the rest of it.
LEMMA WeightSplit ==
    ASSUME NEW D, IsFiniteSet(D), NEW b \in Nat, NEW f,
           \A x \in D : f[x] \in 0..b,
           NEW E \in SUBSET D
    PROVE  Weight(D, f) = Weight(E, f) + Weight(D \ E, f)
<1>1. /\ Pile(D, f) = Pile(E, f) \cup Pile(D \ E, f)
      /\ Pile(E, f) \cap Pile(D \ E, f) = {}
  BY DEF Pile
<1>2. IsFiniteSet(Pile(E, f)) /\ IsFiniteSet(Pile(D \ E, f))
  BY <1>1, PileFinite, FS_Subset
<1>3. Cardinality(Pile(D, f))
        = Cardinality(Pile(E, f)) + Cardinality(Pile(D \ E, f))
            - Cardinality(Pile(E, f) \cap Pile(D \ E, f))
  BY <1>1, <1>2, FS_Union
<1>4. /\ Cardinality(Pile(E, f)) \in Nat
      /\ Cardinality(Pile(D \ E, f)) \in Nat
  BY <1>2, FS_CardinalityType
<1>5. QED
  <2>1. Cardinality(Pile(E, f) \cap Pile(D \ E, f)) = 0
    BY <1>1, FS_EmptySet
  <2>2. QED
    BY <1>3, <1>4, <2>1 DEF Weight

LEMMA WeightSame ==
    ASSUME NEW D, NEW f, NEW g, \A x \in D : f[x] = g[x]
    PROVE  Weight(D, f) = Weight(D, g)
BY DEF Weight, Pile

LEMMA WeightConstant ==
    ASSUME NEW D, IsFiniteSet(D), NEW b \in Nat, NEW f,
           \A x \in D : f[x] = b
    PROVE  Weight(D, f) = Cardinality(D) * b
<1>1. Pile(D, f) = D \X (1..b)
  BY DEF Pile
<1>2. /\ IsFiniteSet(1..b) /\ Cardinality(1..b) = b
  BY FS_Interval
<1>3. QED
  BY <1>1, <1>2, FS_Product DEF Weight

LEMMA WeightOne ==
    ASSUME NEW D, IsFiniteSet(D), NEW b \in Nat, NEW f,
           \A x \in D : f[x] \in 0..b,
           NEW k \in D
    PROVE  Weight(D, f) = Weight(D \ {k}, f) + f[k]
<1>1. Weight({k}, f) = f[k]
  <2>1. IsFiniteSet({k}) /\ Cardinality({k}) = 1
    BY FS_Singleton
  <2>2. f[k] \in Nat /\ \A x \in {k} : f[x] = f[k]
    OBVIOUS
  <2>3. Weight({k}, f) = Cardinality({k}) * f[k]
    BY <2>1, <2>2, WeightConstant
  <2>4. QED
    BY <2>1, <2>2, <2>3
<1>2. Weight(D, f) = Weight({k}, f) + Weight(D \ {k}, f)
  BY WeightSplit
<1>3. Weight(D \ {k}, f) \in Nat
  <2>1. IsFiniteSet(D \ {k})
    BY FS_RemoveElement
  <2>2. Pile(D \ {k}, f) \subseteq Pile(D, f)
    BY DEF Pile
  <2>3. QED
    BY <2>2, PileFinite, FS_Subset, FS_CardinalityType DEF Weight
<1>4. QED
  BY <1>1, <1>2, <1>3

\* One more token for each adds no more than their number.
LEMMA WeightRaised ==
    ASSUME NEW D, IsFiniteSet(D), NEW b \in Nat,
           NEW f, NEW g,
           \A x \in D : f[x] \in 0..b /\ g[x] \in 0..b,
           \A x \in D : g[x] <= f[x] + 1
    PROVE  Weight(D, g) <= Weight(D, f) + Cardinality(D)
<1> DEFINE next == [x \in D |-> <<x, f[x] + 1>>]
           image == {next[x] : x \in D}
<1>1. next \in Surjection(D, image)
  BY DEF Surjection
<1>2. IsFiniteSet(image) /\ Cardinality(image) <= Cardinality(D)
  BY <1>1, FS_Surjection
<1>3. Pile(D, g) \subseteq Pile(D, f) \cup image
  <2> SUFFICES ASSUME NEW t \in Pile(D, g)
               PROVE  t \in Pile(D, f) \cup image
    OBVIOUS
  <2>1. /\ t = <<t[1], t[2]>> /\ t[1] \in D /\ t[2] \in Nat \ {0}
        /\ t[2] <= g[t[1]]
    BY DEF Pile
  <2>2. CASE t[2] <= f[t[1]]
    BY <2>1, <2>2 DEF Pile
  <2>3. CASE ~(t[2] <= f[t[1]])
    <3>1. t[2] = f[t[1]] + 1
      BY <2>1, <2>3
    <3>2. t = next[t[1]]
      BY <2>1, <3>1
    <3>3. QED
      BY <2>1, <3>2
  <2>4. QED
    BY <2>2, <2>3
<1>4. /\ IsFiniteSet(Pile(D, f)) /\ Weight(D, f) \in Nat
  BY PileFinite
<1>5. /\ IsFiniteSet(Pile(D, f) \cap image)
      /\ Cardinality(Pile(D, f) \cap image) \in Nat
  BY <1>4, FS_Intersection, FS_CardinalityType
<1>6. /\ IsFiniteSet(Pile(D, f) \cup image)
      /\ Cardinality(Pile(D, f) \cup image)
           = Weight(D, f) + Cardinality(image)
               - Cardinality(Pile(D, f) \cap image)
  BY <1>2, <1>4, FS_Union DEF Weight
<1>7. Weight(D, g) <= Cardinality(Pile(D, f) \cup image)
  BY <1>3, <1>6, FS_Subset DEF Weight
<1>8. /\ Cardinality(D) \in Nat /\ Cardinality(image) \in Nat
      /\ Weight(D, g) \in Nat
  <2>1. Weight(D, g) \in Nat
    BY PileFinite
  <2>2. QED
    BY <1>2, <2>1, FS_CardinalityType
<1>9. QED
  BY <1>2, <1>4, <1>5, <1>6, <1>7, <1>8

-----------------------------------------------------------------------------
\* Division of the clock by the refill interval.
LEMMA DivIs ==
    ASSUME NEW i \in Nat \ {0}, NEW x \in Nat
    PROVE  /\ x \div i \in Nat
           /\ (x \div i) * i <= x /\ x < (x \div i) * i + i
BY SMT

LEMMA DivMonotone ==
    ASSUME NEW i \in Nat \ {0}, NEW x \in Nat, NEW y \in Nat, x <= y
    PROVE  x \div i <= y \div i
BY DivIs, SMT

LEMMA DivNext ==
    ASSUME NEW i \in Nat \ {0}, NEW x \in Nat
    PROVE  \/ (x + 1) \div i = x \div i
           \/ (x + 1) \div i = x \div i + 1
BY DivIs, DivMonotone, SMT

LEMMA DivSum ==
    ASSUME NEW i \in Nat \ {0}, NEW x \in Nat, NEW y \in Nat
    PROVE  x \div i + y \div i <= (x + y) \div i
BY DivIs, SMT

LEMMA DivShift ==
    ASSUME NEW i \in Nat \ {0}, NEW x \in Nat, NEW e \in Nat
    PROVE  (x + e * i) \div i = x \div i + e
BY DivIs, SMT

-----------------------------------------------------------------------------
(***************************************************************************)
(* AuthSafety is not inductive: what a bucket will be refilled with counts *)
(* as well, since it is handed out long after its interval has passed.  A  *)
(* bucket's credit is what it has and what has become due to it.           *)
(***************************************************************************)
Window(t) == t \div Interval

Bucket(t) == [available : 0..Burst, mark : 0..t]

Credit(b, w) == b.available + (w - Window(b.mark))

Credits(map, w) == [k \in DOMAIN map |-> Credit(map[k], w)]

Worth(map, w) ==
    Weight(DOMAIN map, Credits(map, w))
      + (MaxBuckets - Cardinality(DOMAIN map)) * Burst

\* A map of buckets as spend() finds and leaves it.
BucketMap(map, t) ==
    /\ IsFiniteSet(DOMAIN map) /\ DOMAIN map \subseteq Keys
    /\ Cardinality(DOMAIN map) <= MaxBuckets
    /\ \A k \in DOMAIN map : map[k] \in Bucket(t)

Matching == {c \in Checks : check[c].at = "comparing"}

AuthInv ==
    /\ AuthTypeOK
    /\ IsFiniteSet(DOMAIN buckets) /\ IsFiniteSet(Matching)
    /\ misses + InFlight <= spends /\ granted <= spends
    /\ misses + InFlight + Worth(buckets, Window(time))
         <= MaxBuckets * Burst + granted + MaxBuckets * Window(time)

LEMMA CreditIs ==
    ASSUME NEW t \in Nat, NEW b \in Bucket(t)
    PROVE  /\ Window(t) \in Nat /\ Window(b.mark) \in Nat
           /\ Credit(b, Window(t)) \in Nat
           /\ b.available <= Credit(b, Window(t))
           /\ Credit(b, Window(t)) \in 0..(Burst + Window(t))
<1>1. /\ b.available \in Nat /\ b.mark \in Nat /\ b.mark <= t
      /\ b.available <= Burst /\ Burst \in Nat /\ Interval \in Nat \ {0}
  BY AuthThrottleAssumption DEF Bucket
<1>2. Window(t) \in Nat /\ Window(b.mark) \in Nat /\ Window(b.mark) <= Window(t)
  BY <1>1, DivIs, DivMonotone DEF Window
<1>3. QED
  BY <1>1, <1>2 DEF Credit

LEMMA MapWeight ==
    ASSUME NEW t \in Nat, NEW map, BucketMap(map, t)
    PROVE  /\ Burst + Window(t) \in Nat
           /\ \A k \in DOMAIN map :
                Credits(map, Window(t))[k] \in 0..(Burst + Window(t))
           /\ Weight(DOMAIN map, Credits(map, Window(t))) \in Nat
           /\ Cardinality(DOMAIN map) \in Nat
<1>1. Burst + Window(t) \in Nat
  BY DivIs, AuthThrottleAssumption DEF Window
<1>2. \A k \in DOMAIN map :
        Credits(map, Window(t))[k] \in 0..(Burst + Window(t))
  BY CreditIs DEF Credits, BucketMap
<1>3. IsFiniteSet(DOMAIN map)
  BY DEF BucketMap
<1>4. Weight(DOMAIN map, Credits(map, Window(t))) \in Nat
  BY <1>1, <1>2, <1>3, PileFinite
<1>5. QED
  BY <1>1, <1>2, <1>3, <1>4, FS_CardinalityType

\* A refill keeps the credit, but for what a full bucket does not bank.
LEMMA RefillKeepsCredit ==
    ASSUME time \in Nat, NEW b \in Bucket(time)
    PROVE  /\ Refilled(b) \in Bucket(time)
           /\ Credit(Refilled(b), Window(time)) <= Credit(b, Window(time))
           /\ Refilled(b).available = Burst
                => Credit(Refilled(b), Window(time)) = Burst
<1> DEFINE elapsed == (time - b.mark) \div Interval
<1>1. /\ b.available \in 0..Burst /\ b.mark \in 0..time /\ Burst \in Nat
      /\ Interval \in Nat \ {0} /\ time - b.mark \in Nat /\ b.mark \in Nat
      /\ time = (time - b.mark) + b.mark
  BY AuthThrottleAssumption DEF Bucket
<1>2. /\ elapsed \in Nat /\ elapsed * Interval <= time - b.mark
      /\ elapsed * Interval \in Nat
  <2>1. elapsed \in Nat /\ elapsed * Interval <= time - b.mark
    BY <1>1, DivIs
  <2>2. QED
    BY <1>1, <2>1
<1>3. Window(time) \in Nat /\ Window(b.mark) \in Nat
  BY CreditIs
<1> HIDE DEF elapsed
<1>4. CASE elapsed >= Burst - b.available
  <2>1. Refilled(b) = [available |-> Burst, mark |-> time]
    BY <1>4 DEF Refilled, elapsed
  <2>2. elapsed + Window(b.mark) <= Window(time)
    <3>1. elapsed + (b.mark \div Interval) <= ((time - b.mark) + b.mark) \div Interval
      BY <1>1, DivSum DEF elapsed
    <3>2. QED
      BY <1>1, <3>1 DEF Window
  <2>3. Credit(Refilled(b), Window(time)) = Burst
    BY <2>1, <1>1, <1>3 DEF Credit
  <2>4. QED
    BY <2>1, <2>2, <2>3, <1>1, <1>2, <1>3, <1>4 DEF Credit, Bucket
<1>5. CASE ~(elapsed >= Burst - b.available)
  <2>1. Refilled(b) = [available |-> b.available + elapsed,
                       mark |-> b.mark + elapsed * Interval]
    BY <1>5 DEF Refilled, elapsed
  <2>2. Window(b.mark + elapsed * Interval) = Window(b.mark) + elapsed
    BY <1>1, <1>2, DivShift DEF Window
  <2>3. /\ b.available + elapsed \in 0..Burst /\ b.available + elapsed # Burst
        /\ b.mark + elapsed * Interval \in 0..time
    BY <1>1, <1>2, <1>5
  <2>4. Credit(Refilled(b), Window(time)) = Credit(b, Window(time))
    BY <2>1, <2>2, <1>1, <1>2, <1>3 DEF Credit
  <2>5. Credit(b, Window(time)) \in Nat
    BY CreditIs
  <2>6. QED
    BY <2>1, <2>3, <2>4, <2>5 DEF Bucket
<1>6. QED
  BY <1>4, <1>5

\* A bucket is put in the place of a key's bucket, or beside the others.
LEMMA BucketIsPut ==
    ASSUME NEW t \in Nat, NEW map, BucketMap(map, t), NEW k \in Keys,
           NEW full, DOMAIN full = DOMAIN map \cup {k},
           \A j \in DOMAIN map \ {k} : full[j] = map[j],
           full[k] \in Bucket(t),
           k \notin DOMAIN map => Cardinality(DOMAIN map) < MaxBuckets
    PROVE  /\ BucketMap(full, t)
           /\ k \in DOMAIN map =>
                Worth(full, Window(t)) = Worth(map, Window(t))
                  - Credit(map[k], Window(t)) + Credit(full[k], Window(t))
           /\ k \notin DOMAIN map =>
                Worth(full, Window(t)) = Worth(map, Window(t))
                  - Burst + Credit(full[k], Window(t))
<1> DEFINE w == Window(t)
           rest == DOMAIN map \ {k}
           n == Cardinality(DOMAIN map)
<1>1. BucketMap(full, t) /\ n \in Nat
      /\ Cardinality(DOMAIN full) = IF k \in DOMAIN map THEN n ELSE n + 1
  <2>1. /\ IsFiniteSet(DOMAIN full) /\ n \in Nat
        /\ Cardinality(DOMAIN full) = IF k \in DOMAIN map THEN n ELSE n + 1
    BY FS_AddElement, FS_CardinalityType DEF BucketMap
  <2>2. /\ Cardinality(DOMAIN full) <= MaxBuckets
        /\ DOMAIN full \subseteq Keys
    BY <2>1, AuthThrottleAssumption DEF BucketMap
  <2>3. \A j \in DOMAIN full : full[j] \in Bucket(t)
    BY DEF BucketMap
  <2>4. QED
    BY <2>1, <2>2, <2>3 DEF BucketMap
<1>2. Weight(rest, Credits(full, w)) = Weight(rest, Credits(map, w))
  <2>1. \A j \in rest : Credits(full, w)[j] = Credits(map, w)[j]
    BY DEF Credits
  <2>2. QED
    BY <2>1, WeightSame
<1>3. /\ Weight(DOMAIN full, Credits(full, w))
           = Weight(rest, Credits(full, w)) + Credit(full[k], w)
      /\ Credit(full[k], w) \in Nat /\ Weight(DOMAIN full, Credits(full, w)) \in Nat
  <2>1. /\ k \in DOMAIN full /\ DOMAIN full \ {k} = rest
        /\ Credits(full, w)[k] = Credit(full[k], w)
    BY DEF Credits
  <2>2. IsFiniteSet(DOMAIN full)
    BY <1>1 DEF BucketMap
  <2>3. /\ Burst + w \in Nat /\ Weight(DOMAIN full, Credits(full, w)) \in Nat
        /\ \A j \in DOMAIN full : Credits(full, w)[j] \in 0..(Burst + w)
    BY <1>1, MapWeight
  <2>4. Weight(DOMAIN full, Credits(full, w))
          = Weight(DOMAIN full \ {k}, Credits(full, w)) + Credits(full, w)[k]
    BY <2>1, <2>2, <2>3, WeightOne
  <2>5. QED
    BY <2>1, <2>3, <2>4, CreditIs
<1>4. k \in DOMAIN map =>
        /\ Weight(DOMAIN map, Credits(map, w))
             = Weight(rest, Credits(map, w)) + Credit(map[k], w)
        /\ Credit(map[k], w) \in Nat
  <2> SUFFICES ASSUME k \in DOMAIN map
               PROVE  /\ Weight(DOMAIN map, Credits(map, w))
                           = Weight(rest, Credits(map, w)) + Credit(map[k], w)
                      /\ Credit(map[k], w) \in Nat
    OBVIOUS
  <2>1. Credits(map, w)[k] = Credit(map[k], w) /\ map[k] \in Bucket(t)
    BY DEF Credits, BucketMap
  <2>2. IsFiniteSet(DOMAIN map)
    BY DEF BucketMap
  <2>3. /\ Burst + w \in Nat
        /\ \A j \in DOMAIN map : Credits(map, w)[j] \in 0..(Burst + w)
    BY MapWeight
  <2>4. Weight(DOMAIN map, Credits(map, w))
          = Weight(rest, Credits(map, w)) + Credits(map, w)[k]
    BY <2>2, <2>3, WeightOne
  <2>5. QED
    BY <2>1, <2>4, CreditIs
<1>5. k \notin DOMAIN map => rest = DOMAIN map
  OBVIOUS
<1>6. /\ MaxBuckets \in Nat /\ Burst \in Nat
      /\ Weight(DOMAIN map, Credits(map, w)) \in Nat
      /\ Weight(rest, Credits(map, w)) \in Nat
  <2>1. Weight(DOMAIN map, Credits(map, w)) \in Nat
    BY MapWeight
  <2>2. IsFiniteSet(rest) /\ Burst + w \in Nat
    BY MapWeight, FS_RemoveElement DEF BucketMap
  <2>3. \A j \in rest : Credits(map, w)[j] \in 0..(Burst + w)
    BY MapWeight
  <2>4. Weight(rest, Credits(map, w)) \in Nat
    BY <2>2, <2>3, PileFinite
  <2>5. QED
    BY <2>1, <2>4, AuthThrottleAssumption
<1> HIDE DEF w, rest, n
<1>7. k \in DOMAIN map =>
        Worth(full, w) = Worth(map, w) - Credit(map[k], w) + Credit(full[k], w)
  BY <1>1, <1>2, <1>3, <1>4, <1>6 DEF Worth, n
<1>8. k \notin DOMAIN map =>
        Worth(full, w) = Worth(map, w) - Burst + Credit(full[k], w)
  <2> SUFFICES ASSUME k \notin DOMAIN map
               PROVE  Worth(full, w) = Worth(map, w) - Burst + Credit(full[k], w)
    OBVIOUS
  <2>1. (MaxBuckets - (n + 1)) * Burst = (MaxBuckets - n) * Burst - Burst
    BY <1>1, <1>6
  <2>2. (MaxBuckets - n) * Burst \in Int
    BY <1>1, <1>6
  <2>3. Weight(DOMAIN full, Credits(full, w))
          = Weight(DOMAIN map, Credits(map, w)) + Credit(full[k], w)
    BY <1>2, <1>3, <1>5
  <2>4. Worth(full, w) = Weight(DOMAIN map, Credits(map, w))
          + Credit(full[k], w) + ((MaxBuckets - n) * Burst - Burst)
    BY <1>1, <2>1, <2>3 DEF Worth
  <2>5. Worth(map, w) = Weight(DOMAIN map, Credits(map, w)) + (MaxBuckets - n) * Burst
    BY DEF Worth, n
  <2> QED
    BY <2>2, <2>4, <2>5, <1>3, <1>6
<1>9. QED
  BY <1>1, <1>7, <1>8 DEF w

\* What is left when the full buckets are dropped, and what that leaves to others.
LEMMA SpentIs ==
    ASSUME time \in Nat, BucketMap(buckets, time)
    PROVE  /\ BucketMap(Spent, time) /\ DOMAIN Spent \subseteq DOMAIN buckets
           /\ Worth(Spent, Window(time)) <= Worth(buckets, Window(time))
<1> DEFINE w == Window(time)
           refilled == [k \in DOMAIN buckets |-> Refilled(buckets[k])]
           kept == {k \in DOMAIN buckets : refilled[k].available < Burst}
           dropped == DOMAIN buckets \ kept
<1>1. /\ Spent = [k \in kept |-> refilled[k]] /\ DOMAIN Spent = kept
      /\ kept \subseteq DOMAIN buckets
  BY DEF Spent, Restrict
<1>2. \A k \in DOMAIN buckets : buckets[k] \in Bucket(time)
  BY DEF BucketMap
<1>3. \A k \in DOMAIN buckets : refilled[k] \in Bucket(time)
  BY <1>2, RefillKeepsCredit
<1>4. BucketMap(refilled, time)
  BY <1>3 DEF BucketMap
<1>5. BucketMap(Spent, time)
  <2>1. IsFiniteSet(kept) /\ Cardinality(kept) <= Cardinality(DOMAIN buckets)
    BY <1>1, FS_Subset DEF BucketMap
  <2>2. IsFiniteSet(DOMAIN buckets) /\ Cardinality(DOMAIN buckets) <= MaxBuckets
        /\ DOMAIN buckets \subseteq Keys
    BY DEF BucketMap
  <2>3. Cardinality(kept) \in Nat /\ Cardinality(DOMAIN buckets) \in Nat
    BY <2>1, <2>2, FS_CardinalityType
  <2>4. Cardinality(kept) <= MaxBuckets
    BY <2>1, <2>2, <2>3, AuthThrottleAssumption
  <2>5. \A k \in DOMAIN Spent : Spent[k] \in Bucket(time)
    BY <1>1, <1>3
  <2>6. QED
    BY <1>1, <2>1, <2>2, <2>4, <2>5 DEF BucketMap
<1>6. Weight(DOMAIN buckets, Credits(refilled, w))
        <= Weight(DOMAIN buckets, Credits(buckets, w))
  <2>1. /\ Burst + w \in Nat /\ IsFiniteSet(DOMAIN buckets)
        /\ \A k \in DOMAIN buckets : Credits(buckets, w)[k] \in 0..(Burst + w)
    BY MapWeight DEF BucketMap
  <2>2. \A k \in DOMAIN buckets : Credits(refilled, w)[k] \in 0..(Burst + w)
    BY <1>4, MapWeight
  <2>3. \A k \in DOMAIN buckets : Credits(refilled, w)[k] <= Credits(buckets, w)[k]
    BY <1>2, RefillKeepsCredit DEF Credits
  <2>4. QED
    BY <2>1, <2>2, <2>3, WeightMonotone
<1>7. Weight(DOMAIN buckets, Credits(refilled, w))
        = Weight(kept, Credits(refilled, w)) + Weight(dropped, Credits(refilled, w))
  <2>1. /\ Burst + w \in Nat /\ IsFiniteSet(DOMAIN buckets)
        /\ \A k \in DOMAIN buckets : Credits(refilled, w)[k] \in 0..(Burst + w)
    BY <1>4, MapWeight DEF BucketMap
  <2>2. kept \in SUBSET DOMAIN buckets
    BY <1>1
  <2>3. QED
    BY <2>1, <2>2, WeightSplit
<1>8. Weight(kept, Credits(refilled, w)) = Weight(DOMAIN Spent, Credits(Spent, w))
  <2>1. \A k \in kept : Credits(refilled, w)[k] = Credits(Spent, w)[k]
    BY <1>1 DEF Credits
  <2>2. QED
    BY <1>1, <2>1, WeightSame
<1>9. Weight(dropped, Credits(refilled, w)) = Cardinality(dropped) * Burst
  <2>1. IsFiniteSet(dropped) /\ Burst \in Nat
    BY FS_Difference, AuthThrottleAssumption DEF BucketMap
  <2>2. \A k \in dropped : Credits(refilled, w)[k] = Burst
    <3> SUFFICES ASSUME NEW k \in dropped
                 PROVE  Credits(refilled, w)[k] = Burst
      OBVIOUS
    <3>1. /\ k \in DOMAIN buckets /\ ~(refilled[k].available < Burst)
          /\ refilled[k] \in Bucket(time)
      BY <1>3
    <3>2. refilled[k].available = Burst
      BY <3>1, AuthThrottleAssumption DEF Bucket
    <3>3. buckets[k] \in Bucket(time) /\ refilled[k] = Refilled(buckets[k])
      BY <1>2, <3>1
    <3>4. Credit(Refilled(buckets[k]), w) = Burst
      BY <3>2, <3>3, RefillKeepsCredit
    <3>5. QED
      BY <3>1, <3>3, <3>4 DEF Credits
  <2>3. QED
    BY <2>1, <2>2, WeightConstant
<1>10. /\ Cardinality(dropped) = Cardinality(DOMAIN buckets) - Cardinality(kept)
       /\ Cardinality(DOMAIN buckets) \in Nat /\ Cardinality(kept) \in Nat
  <2>1. IsFiniteSet(DOMAIN buckets)
    BY DEF BucketMap
  <2>2. DOMAIN buckets \cap kept = kept
    BY <1>1
  <2>3. Cardinality(dropped)
          = Cardinality(DOMAIN buckets) - Cardinality(DOMAIN buckets \cap kept)
    BY <2>1, FS_Difference
  <2>4. IsFiniteSet(kept)
    BY <1>1, <2>1, FS_Subset
  <2>5. QED
    BY <2>1, <2>2, <2>3, <2>4, FS_CardinalityType
<1>11. /\ Weight(DOMAIN buckets, Credits(buckets, w)) \in Nat
       /\ Weight(DOMAIN buckets, Credits(refilled, w)) \in Nat
       /\ Weight(DOMAIN Spent, Credits(Spent, w)) \in Nat
  <2>1. DOMAIN refilled = DOMAIN buckets
    OBVIOUS
  <2>2. Weight(DOMAIN refilled, Credits(refilled, w)) \in Nat
    BY <1>4, MapWeight
  <2>3. QED
    BY <1>5, <2>1, <2>2, MapWeight
<1>12. Worth(Spent, w) <= Worth(buckets, w)
  <2> DEFINE n == Cardinality(DOMAIN buckets)
             m == Cardinality(kept)
  <2>1. /\ n \in Nat /\ m \in Nat /\ MaxBuckets \in Nat /\ Burst \in Nat
    BY <1>10, AuthThrottleAssumption
  <2>2. (MaxBuckets - m) * Burst = (MaxBuckets - n) * Burst + (n - m) * Burst
    BY <2>1
  <2>3. /\ (MaxBuckets - n) * Burst \in Int /\ (n - m) * Burst \in Int
    BY <2>1
  <2>4. Worth(Spent, w) = Weight(DOMAIN Spent, Credits(Spent, w))
                             + (MaxBuckets - m) * Burst
    BY <1>1 DEF Worth
  <2>5. Worth(buckets, w) = Weight(DOMAIN buckets, Credits(buckets, w))
                             + (MaxBuckets - n) * Burst
    BY DEF Worth
  <2>6. Weight(DOMAIN Spent, Credits(Spent, w)) + (n - m) * Burst
          <= Weight(DOMAIN buckets, Credits(buckets, w))
    <3> HIDE DEF kept, dropped, refilled, w
    <3> QED
      BY <1>6, <1>7, <1>8, <1>9, <1>10, <1>11
  <2> HIDE DEF n, m, kept, dropped, refilled, w
  <2>7. QED
    BY <2>2, <2>3, <2>4, <2>5, <2>6, <1>11
<1>13. QED
  BY <1>1, <1>5, <1>12

\* Room for a bucket is made at nobody's cost but one token, for an empty bucket.
LEMMA RoomIsMade ==
    ASSUME time \in Nat, BucketMap(buckets, time), NEW room \in MakeRoom
    PROVE  /\ BucketMap(room.map, time)
           /\ DOMAIN room.map \subseteq DOMAIN buckets
           /\ Cardinality(DOMAIN room.map) < MaxBuckets
           /\ room.start \in Bucket(time) /\ room.start.available > 0
           /\ room.free \in {0, 1}
           /\ Worth(room.map, Window(time)) - Burst + Credit(room.start, Window(time))
                <= Worth(buckets, Window(time)) + room.free
<1> DEFINE w == Window(time)
<1>1. /\ Full \in Bucket(time) /\ Full.available > 0 /\ Credit(Full, w) = Burst
      /\ Burst \in Nat /\ Burst > 0 /\ MaxBuckets \in Nat /\ w \in Nat
  <2>1. w \in Nat
    BY DivIs, AuthThrottleAssumption DEF Window
  <2>2. QED
    BY <2>1, AuthThrottleAssumption DEF Full, Bucket, Credit
<1>2. \A map : BucketMap(map, time) => Worth(map, w) \in Int
  <2> SUFFICES ASSUME NEW map, BucketMap(map, time)
               PROVE  Worth(map, w) \in Int
    OBVIOUS
  <2>1. /\ Weight(DOMAIN map, Credits(map, w)) \in Nat
        /\ Cardinality(DOMAIN map) \in Nat
    BY MapWeight
  <2> HIDE DEF w
  <2>2. QED
    BY <1>1, <2>1 DEF Worth
<1>3. CASE Cardinality(DOMAIN buckets) < MaxBuckets
  <2>1. room = [map |-> buckets, start |-> Full, free |-> 0]
    BY <1>3 DEF MakeRoom
  <2> HIDE DEF w
  <2>2. QED
    BY <2>1, <1>1, <1>2, <1>3 DEF w
<1>4. /\ BucketMap(Spent, time) /\ DOMAIN Spent \subseteq DOMAIN buckets
      /\ Worth(Spent, w) <= Worth(buckets, w)
  BY SpentIs
<1>5. CASE /\ ~(Cardinality(DOMAIN buckets) < MaxBuckets)
           /\ Cardinality(DOMAIN Spent) < MaxBuckets
  <2>1. room = [map |-> Spent, start |-> Full, free |-> 0]
    BY <1>5 DEF MakeRoom
  <2> HIDE DEF w
  <2>2. QED
    BY <2>1, <1>1, <1>2, <1>4, <1>5 DEF w
<1>6. CASE /\ ~(Cardinality(DOMAIN buckets) < MaxBuckets)
           /\ ~(Cardinality(DOMAIN Spent) < MaxBuckets)
  <2>1. PICK k \in Fullest(Spent) :
          room = [map |-> Restrict(Spent, DOMAIN Spent \ {k}),
                  start |-> Arriving(Spent[k].available),
                  free |-> IF Spent[k].available = 0 THEN 1 ELSE 0]
    BY <1>6 DEF MakeRoom
  <2>2. k \in DOMAIN Spent /\ Spent[k] \in Bucket(time) /\ k \in Keys
    BY <1>4 DEF Fullest, BucketMap
  <2>3. /\ DOMAIN room.map = DOMAIN Spent \ {k}
        /\ \A j \in DOMAIN Spent \ {k} : room.map[j] = Spent[j]
    BY <2>1 DEF Restrict
  <2>4. /\ IsFiniteSet(DOMAIN room.map) /\ Cardinality(DOMAIN room.map) < MaxBuckets
    <3>1. IsFiniteSet(DOMAIN Spent) /\ Cardinality(DOMAIN Spent) <= MaxBuckets
      BY <1>4 DEF BucketMap
    <3>2. /\ IsFiniteSet(DOMAIN Spent \ {k})
          /\ Cardinality(DOMAIN Spent \ {k}) = Cardinality(DOMAIN Spent) - 1
      BY <2>2, <3>1, FS_RemoveElement
    <3>3. Cardinality(DOMAIN Spent) \in Nat
      BY <3>1, FS_CardinalityType
    <3>4. QED
      BY <1>1, <2>3, <3>1, <3>2, <3>3
  <2>5. BucketMap(room.map, time)
    <3>1. \A j \in DOMAIN room.map : room.map[j] \in Bucket(time)
      BY <1>4, <2>3 DEF BucketMap
    <3>2. DOMAIN room.map \subseteq Keys
      BY <1>4, <2>3 DEF BucketMap
    <3>3. Cardinality(DOMAIN room.map) \in Nat
      BY <2>4, FS_CardinalityType
    <3>4. QED
      BY <1>1, <2>4, <3>1, <3>2, <3>3 DEF BucketMap
  <2>6. Worth(Spent, w) = Worth(room.map, w) - Burst + Credit(Spent[k], w)
    <3>1. DOMAIN Spent = DOMAIN room.map \cup {k} /\ k \notin DOMAIN room.map
      BY <2>2, <2>3
    <3>2. \A j \in DOMAIN room.map \ {k} : Spent[j] = room.map[j]
      BY <2>3
    <3>3. QED
      BY <2>2, <2>4, <2>5, <3>1, <3>2, BucketIsPut
  <2>7. /\ Credit(Spent[k], w) \in Nat
        /\ Spent[k].available <= Credit(Spent[k], w)
        /\ Spent[k].available \in 0..Burst
    BY <2>2, CreditIs DEF Bucket
  <2>8. /\ room.start \in Bucket(time) /\ room.start.available > 0
        /\ room.free \in {0, 1}
        /\ Credit(room.start, w) = Spent[k].available + room.free
    <3>1. room.start.available = Spent[k].available + room.free
          /\ room.start = [available |-> room.start.available, mark |-> time]
          /\ room.free = IF Spent[k].available = 0 THEN 1 ELSE 0
      BY <2>1, <2>7, <1>1 DEF Arriving
    <3>2. room.start.available \in 0..Burst /\ room.start.available > 0
      BY <3>1, <2>7, <1>1
    <3>3. room.start \in Bucket(time)
      <4>1. time \in 0..time
        OBVIOUS
      <4>2. QED
        BY <3>1, <3>2, <4>1 DEF Bucket
    <3>4. Credit(room.start, w) = room.start.available
      <4>1. room.start.mark = time
        BY <3>1
      <4>2. QED
        BY <4>1, <3>2, <1>1 DEF Credit
    <3>5. QED
      BY <3>1, <3>2, <3>3, <3>4
  <2>9. /\ Worth(room.map, w) \in Int /\ Worth(Spent, w) \in Int
        /\ Worth(buckets, w) \in Int
    BY <1>2, <1>4, <2>5
  <2>10. DOMAIN room.map \subseteq DOMAIN buckets
    BY <1>4, <2>3
  <2> HIDE DEF w
  <2>11. Worth(room.map, w) - Burst + Credit(room.start, w)
          <= Worth(buckets, w) + room.free
    BY <1>1, <1>4, <2>6, <2>7, <2>8, <2>9
  <2>12. QED
    BY <2>4, <2>5, <2>8, <2>10, <2>11 DEF w
<1>7. QED
  BY <1>3, <1>5, <1>6

CheckSet == {Idle} \cup {Comparing(k) : k \in Keys} \cup {Refused(k) : k \in Keys}

LEMMA AuthInvGives ==
    ASSUME AuthInv
    PROVE  /\ time \in Nat /\ time <= MaxTime /\ MaxTime \in Nat
           /\ Window(time) \in Nat
           /\ BucketMap(buckets, time)
           /\ Worth(buckets, Window(time)) \in Int
           /\ misses \in Nat /\ spends \in Nat /\ granted \in Nat
           /\ spends <= MaxSpends
           /\ InFlight \in Nat /\ InFlight = Cardinality(Matching)
           /\ MaxBuckets \in Nat /\ Burst \in Nat /\ MaxSpends \in Nat
           /\ check \in [Checks -> CheckSet]
<1>1. /\ MaxBuckets \in Nat /\ Burst \in Nat /\ MaxSpends \in Nat
      /\ MaxTime \in Nat
  BY AuthThrottleAssumption
<1>2. /\ time \in Nat /\ time <= MaxTime /\ misses \in Nat /\ spends \in Nat
      /\ granted \in Nat /\ spends <= MaxSpends
  BY <1>1 DEF AuthInv, AuthTypeOK
<1>3. BucketMap(buckets, time)
  BY DEF AuthInv, AuthTypeOK, BucketMap, Bucket
<1>4. Window(time) \in Nat
  BY <1>2, DivIs, AuthThrottleAssumption DEF Window
<1>5. Worth(buckets, Window(time)) \in Int
  <2>1. /\ Weight(DOMAIN buckets, Credits(buckets, Window(time))) \in Nat
        /\ Cardinality(DOMAIN buckets) \in Nat
    BY <1>2, <1>3, MapWeight
  <2>2. QED
    BY <1>1, <2>1 DEF Worth
<1>6. InFlight \in Nat /\ InFlight = Cardinality(Matching)
  BY FS_CardinalityType DEF AuthInv, InFlight, Matching
<1>7. check \in [Checks -> CheckSet]
  BY DEF AuthInv, AuthTypeOK, CheckSet
<1>8. QED
  BY <1>1, <1>2, <1>3, <1>4, <1>5, <1>6, <1>7

\* The parts of AuthInv, put together from the maps.
LEMMA AuthInvFrom ==
    ASSUME time' \in 0..MaxTime, BucketMap(buckets', time'),
           IsFiniteSet(Matching'), check' \in [Checks -> CheckSet],
           NEW n \in Nat, n = Cardinality(Matching'),
           misses' \in Nat, granted' \in Nat, spends' \in 0..MaxSpends,
           misses' + n <= spends', granted' <= spends',
           misses' + n + Worth(buckets', Window(time'))
             <= MaxBuckets * Burst + granted' + MaxBuckets * Window(time')
    PROVE  AuthInv'
<1>1. InFlight' = n
  BY DEF InFlight, Matching
<1>2. MaxSpends \in Nat
  BY AuthThrottleAssumption
<1>3. misses' \in 0..MaxSpends /\ granted' \in 0..MaxSpends
  BY <1>2
<1>4. AuthTypeOK'
  BY <1>3 DEF AuthTypeOK, BucketMap, Bucket, CheckSet
<1>5. IsFiniteSet(DOMAIN buckets')
  BY DEF BucketMap
<1>6. QED
  BY <1>1, <1>4, <1>5 DEF AuthInv

LEMMA ChecksMove ==
    ASSUME AuthInv, NEW c \in Checks, NEW s \in CheckSet,
           check' = [check EXCEPT ![c] = s]
    PROVE  /\ check' \in [Checks -> CheckSet] /\ IsFiniteSet(Matching')
           /\ Cardinality(Matching') =
                IF s.at = "comparing"
                THEN IF check[c].at = "comparing" THEN InFlight ELSE InFlight + 1
                ELSE IF check[c].at = "comparing" THEN InFlight - 1 ELSE InFlight
<1>1. IsFiniteSet(Matching) /\ InFlight = Cardinality(Matching)
      /\ check \in [Checks -> CheckSet]
  BY AuthInvGives DEF AuthInv
<1>2. check' \in [Checks -> CheckSet]
  BY <1>1
<1>3. c \in Matching <=> check[c].at = "comparing"
  BY DEF Matching
<1>4. CASE s.at = "comparing"
  <2>1. Matching' = Matching \cup {c}
    BY <1>1, <1>4 DEF Matching
  <2>2. QED
    BY <1>1, <1>2, <1>3, <1>4, <2>1, FS_AddElement
<1>5. CASE s.at # "comparing"
  <2>1. Matching' = Matching \ {c}
    BY <1>1, <1>5 DEF Matching
  <2>2. QED
    BY <1>1, <1>2, <1>3, <1>5, <2>1, FS_RemoveElement
<1>6. QED
  BY <1>4, <1>5

LEMMA ChecksAre ==
    /\ Idle \in CheckSet /\ Idle.at = "idle"
    /\ \A k \in Keys : /\ Comparing(k) \in CheckSet /\ Comparing(k).at = "comparing"
                       /\ Refused(k) \in CheckSet /\ Refused(k).at = "refused"
                       /\ Comparing(k).key = k /\ Refused(k).key = k
BY DEF CheckSet, Idle, Comparing, Refused

LEMMA TokenIsTaken ==
    ASSUME AuthInv, NEW c \in Checks, check[c].at = "idle", spends < MaxSpends,
           NEW map, BucketMap(map, time), NEW k \in Keys, k \in DOMAIN map,
           NEW bucket \in Bucket(time), NEW free \in {0, 1},
           free = 1 => bucket.available > 0,
           Worth(map, Window(time)) - Credit(map[k], Window(time))
             + Credit(bucket, Window(time)) <= Worth(buckets, Window(time)) + free,
           TakeToken(c, k, map, bucket),
           time' = time, misses' = misses, granted' = granted + free
    PROVE  AuthInv'
<1> DEFINE w == Window(time)
           full == [map EXCEPT ![k] = bucket]
<1>1. /\ time \in Nat /\ time \in 0..MaxTime /\ misses \in Nat /\ granted \in Nat
      /\ spends \in Nat /\ w \in Nat /\ InFlight \in Nat /\ MaxSpends \in Nat
      /\ MaxBuckets * Burst \in Int /\ MaxBuckets * w \in Int
      /\ Worth(buckets, w) \in Int
      /\ misses + InFlight <= spends /\ granted <= spends
      /\ misses + InFlight + Worth(buckets, w)
           <= MaxBuckets * Burst + granted + MaxBuckets * w
  BY AuthInvGives DEF AuthInv
<1>2. /\ Credit(bucket, w) \in Nat /\ Credit(map[k], w) \in Nat
      /\ Worth(map, w) \in Int
  <2>1. map[k] \in Bucket(time)
    BY DEF BucketMap
  <2>2. /\ Weight(DOMAIN map, Credits(map, w)) \in Nat
        /\ Cardinality(DOMAIN map) \in Nat
    BY <1>1, MapWeight
  <2>3. MaxBuckets \in Nat /\ Burst \in Nat
    BY AuthThrottleAssumption
  <2>4. Worth(map, w) \in Int
    BY <2>2, <2>3 DEF Worth
  <2>5. QED
    BY <1>1, <2>1, <2>4, CreditIs
<1>3. CASE /\ bucket.available = 0 /\ buckets' = full
           /\ check' = [check EXCEPT ![c] = Refused(k)] /\ UNCHANGED spends
  <2>1. /\ DOMAIN full = DOMAIN map \cup {k} /\ full[k] = bucket
        /\ \A j \in DOMAIN map \ {k} : full[j] = map[j]
    OBVIOUS
  <2> HIDE DEF w, full
  <2>2. /\ BucketMap(full, time)
        /\ Worth(full, w) = Worth(map, w) - Credit(map[k], w) + Credit(bucket, w)
    <3>1. time \in Nat /\ full[k] \in Bucket(time)
      BY <1>1, <2>1
    <3>2. /\ BucketMap(full, time)
          /\ Worth(full, Window(time)) = Worth(map, Window(time))
               - Credit(map[k], Window(time)) + Credit(full[k], Window(time))
      BY <2>1, <3>1, BucketIsPut
    <3>3. QED
      BY <2>1, <3>2 DEF w
  <2>3. /\ check' \in [Checks -> CheckSet] /\ IsFiniteSet(Matching')
        /\ Cardinality(Matching') = InFlight
    BY <1>3, ChecksMove, ChecksAre
  <2>4. free = 0
    BY <1>3
  <2>5. misses' + InFlight + Worth(buckets', w)
          <= MaxBuckets * Burst + granted' + MaxBuckets * w
    BY <1>1, <1>2, <1>3, <2>2, <2>4 DEF w
  <2>6. /\ spends' \in 0..MaxSpends /\ misses' \in Nat /\ granted' \in Nat
        /\ misses' + InFlight <= spends' /\ granted' <= spends'
    BY <1>1, <1>3, <2>4
  <2>7. BucketMap(buckets', time') /\ time' \in 0..MaxTime
    BY <1>1, <1>3, <2>2
  <2>8. QED
    BY <1>1, <2>3, <2>5, <2>6, <2>7, AuthInvFrom DEF w
<1>4. CASE /\ bucket.available > 0 /\ buckets' = [full EXCEPT ![k].available = @ - 1]
           /\ check' = [check EXCEPT ![c] = Comparing(k)] /\ spends' = spends + 1
  <2> DEFINE left == [bucket EXCEPT !.available = @ - 1]
  <2>1. /\ DOMAIN buckets' = DOMAIN map \cup {k} /\ buckets'[k] = left
        /\ \A j \in DOMAIN map \ {k} : buckets'[j] = map[j]
    BY <1>4
  <2>2. /\ left \in Bucket(time) /\ left.available = bucket.available - 1
        /\ left.mark = bucket.mark
    BY <1>4, AuthThrottleAssumption DEF Bucket
  <2>3. Credit(left, w) = Credit(bucket, w) - 1
    <3>1. bucket.available \in Nat /\ Window(bucket.mark) \in Nat
      BY <1>1, CreditIs, AuthThrottleAssumption DEF Bucket
    <3> HIDE DEF w, left
    <3>2. QED
      BY <1>1, <2>2, <3>1 DEF Credit
  <2> HIDE DEF w, full, left
  <2>4. /\ BucketMap(buckets', time)
        /\ Worth(buckets', w) = Worth(map, w) - Credit(map[k], w) + Credit(left, w)
    <3>1. buckets'[k] \in Bucket(time)
      BY <2>1, <2>2
    <3>2. /\ BucketMap(buckets', time)
          /\ Worth(buckets', w)
               = Worth(map, w) - Credit(map[k], w) + Credit(buckets'[k], w)
      BY <1>1, <2>1, <3>1, BucketIsPut DEF w
    <3>3. QED
      BY <2>1, <3>2
  <2>5. /\ check' \in [Checks -> CheckSet] /\ IsFiniteSet(Matching')
        /\ Cardinality(Matching') = InFlight + 1
    BY <1>4, ChecksMove, ChecksAre
  <2>6. misses' + (InFlight + 1) + Worth(buckets', w)
          <= MaxBuckets * Burst + granted' + MaxBuckets * w
    BY <1>1, <1>2, <2>3, <2>4 DEF w
  <2>7. /\ spends' \in 0..MaxSpends /\ misses' \in Nat /\ granted' \in Nat
        /\ misses' + (InFlight + 1) <= spends' /\ granted' <= spends'
        /\ InFlight + 1 \in Nat
    BY <1>1, <1>4
  <2>8. BucketMap(buckets', time') /\ time' \in 0..MaxTime
    BY <1>1, <2>4
  <2>9. QED
    BY <1>1, <2>5, <2>6, <2>7, <2>8, AuthInvFrom DEF w
<1>5. QED
  BY <1>3, <1>4 DEF TakeToken

LEMMA SpendOK ==
    ASSUME AuthInv, NEW c \in Checks, NEW k \in Keys, Spend(c, k)
    PROVE  AuthInv'
<1> DEFINE w == Window(time)
           bucket == Refilled(buckets[k])
<1>1. /\ time \in Nat /\ BucketMap(buckets, time) /\ Worth(buckets, w) \in Int
      /\ granted \in Nat
  BY AuthInvGives
<1>2. buckets[k] \in Bucket(time) /\ k \in DOMAIN buckets
  BY <1>1 DEF BucketMap, Spend
<1>3. /\ bucket \in Bucket(time) /\ Credit(bucket, w) <= Credit(buckets[k], w)
  BY <1>1, <1>2, RefillKeepsCredit
<1>4. Credit(bucket, w) \in Nat /\ Credit(buckets[k], w) \in Nat
  BY <1>1, <1>2, <1>3, CreditIs
<1>5. /\ check[c].at = "idle" /\ spends < MaxSpends
      /\ TakeToken(c, k, buckets, bucket)
      /\ time' = time /\ misses' = misses /\ granted' = granted
  BY DEF Spend
<1> HIDE DEF w, bucket
<1>6. /\ Worth(buckets, w) - Credit(buckets[k], w) + Credit(bucket, w)
           <= Worth(buckets, w) + 0
      /\ granted' = granted + 0 /\ 0 \in {0, 1} /\ ~(0 = 1)
  BY <1>1, <1>3, <1>4, <1>5
<1>7. QED
  BY <1>1, <1>2, <1>3, <1>5, <1>6, TokenIsTaken DEF w

LEMMA SpendArrivingOK ==
    ASSUME AuthInv, NEW c \in Checks, NEW k \in Keys, SpendArriving(c, k)
    PROVE  /\ AuthInv'
           /\ check' = [check EXCEPT ![c] = Comparing(k)]
<1> DEFINE w == Window(time)
<1>1. /\ time \in Nat /\ BucketMap(buckets, time) /\ Worth(buckets, w) \in Int
  BY AuthInvGives
<1>2. PICK room \in MakeRoom :
        /\ TakeToken(c, k, [j \in DOMAIN room.map \cup {k} |->
                              IF j = k THEN room.start ELSE room.map[j]],
                     room.start)
        /\ granted' = granted + room.free
  BY DEF SpendArriving
<1> DEFINE map == [j \in DOMAIN room.map \cup {k} |->
                     IF j = k THEN room.start ELSE room.map[j]]
<1>3. /\ check[c].at = "idle" /\ spends < MaxSpends /\ k \notin DOMAIN buckets
      /\ time' = time /\ misses' = misses
  BY DEF SpendArriving
<1>4. /\ BucketMap(room.map, time)
      /\ DOMAIN room.map \subseteq DOMAIN buckets
      /\ Cardinality(DOMAIN room.map) < MaxBuckets
      /\ room.start \in Bucket(time) /\ room.start.available > 0
      /\ room.free \in {0, 1}
      /\ Worth(room.map, w) - Burst + Credit(room.start, w)
           <= Worth(buckets, w) + room.free
  BY <1>1, RoomIsMade
<1>5. /\ DOMAIN map = DOMAIN room.map \cup {k} /\ map[k] = room.start
      /\ \A j \in DOMAIN room.map \ {k} : map[j] = room.map[j]
      /\ k \notin DOMAIN room.map
  BY <1>3, <1>4
<1>6. /\ BucketMap(map, time)
      /\ Worth(map, w) = Worth(room.map, w) - Burst + Credit(room.start, w)
  BY <1>1, <1>4, <1>5, BucketIsPut
<1>7. Worth(map, w) \in Int /\ Credit(room.start, w) \in Nat
  <2>1. /\ Weight(DOMAIN map, Credits(map, w)) \in Nat
        /\ Cardinality(DOMAIN map) \in Nat
    BY <1>1, <1>6, MapWeight
  <2>2. MaxBuckets \in Nat /\ Burst \in Nat
    BY AuthThrottleAssumption
  <2> HIDE DEF map, w
  <2>3. Worth(map, w) \in Int
    BY <2>1, <2>2 DEF Worth
  <2>4. QED
    BY <1>1, <1>4, <2>3, CreditIs DEF w
<1>8. TakeToken(c, k, map, room.start)
  BY <1>2
<1>9. check' = [check EXCEPT ![c] = Comparing(k)]
  <2> HIDE DEF map
  <2>1. ~(room.start.available = 0)
    BY <1>4
  <2>2. QED
    BY <1>8, <2>1 DEF TakeToken
<1>10. AuthInv'
  <2>1. k \in DOMAIN map
    BY <1>5
  <2> HIDE DEF map, w
  <2>2. Worth(map, w) - Credit(map[k], w) + Credit(room.start, w)
          <= Worth(buckets, w) + room.free
    BY <1>4, <1>5, <1>6, <1>7
  <2>3. QED
    BY <1>2, <1>3, <1>4, <1>6, <1>8, <2>1, <2>2, TokenIsTaken DEF w
<1>11. QED
  BY <1>9, <1>10

LEMMA MinOfTwo ==
    ASSUME NEW a \in Int, NEW b \in Int
    PROVE  Min({a, b}) = IF a <= b THEN a ELSE b
<1> DEFINE m == IF a <= b THEN a ELSE b
<1>1. m \in {a, b} /\ \A x \in {a, b} : m <= x
  OBVIOUS
<1>2. \A n \in {a, b} : (\A x \in {a, b} : n <= x) => n = m
  OBVIOUS
<1> HIDE DEF m
<1>3. QED
  BY <1>1, <1>2 DEF Min, m

LEMMA MatchOK ==
    ASSUME AuthInv, NEW c \in Checks, Match(c)
    PROVE  AuthInv'
<1> DEFINE w == Window(time)
           k == check[c].key
<1>1. /\ time \in Nat /\ time \in 0..MaxTime /\ misses \in Nat /\ granted \in Nat
      /\ spends \in Nat /\ w \in Nat /\ InFlight \in Nat /\ MaxSpends \in Nat
      /\ spends \in 0..MaxSpends
      /\ MaxBuckets * Burst \in Int /\ MaxBuckets * w \in Int
      /\ Worth(buckets, w) \in Int /\ BucketMap(buckets, time)
      /\ misses + InFlight <= spends /\ granted <= spends
      /\ misses + InFlight + Worth(buckets, w)
           <= MaxBuckets * Burst + granted + MaxBuckets * w
      /\ InFlight = Cardinality(Matching) /\ IsFiniteSet(Matching)
  BY AuthInvGives DEF AuthInv
<1>2. /\ check[c].at = "comparing" /\ check' = [check EXCEPT ![c] = Idle]
      /\ time' = time /\ misses' = misses /\ spends' = spends /\ granted' = granted
      /\ buckets' = IF k \in DOMAIN buckets
                    THEN [buckets EXCEPT ![k] = Refund(@)] ELSE buckets
  BY DEF Match
<1>3. /\ check' \in [Checks -> CheckSet] /\ IsFiniteSet(Matching')
      /\ Cardinality(Matching') = InFlight - 1
  BY <1>2, ChecksMove, ChecksAre
<1>4. InFlight - 1 \in Nat
  BY <1>3, FS_CardinalityType
<1>5. /\ BucketMap(buckets', time) /\ Worth(buckets', w) \in Int
      /\ Worth(buckets', w) <= Worth(buckets, w) + 1
  <2>1. CASE k \notin DOMAIN buckets
    <3> HIDE DEF w, k
    <3> QED
      BY <1>1, <1>2, <2>1
  <2>2. CASE k \in DOMAIN buckets
    <3>1. buckets[k] \in Bucket(time) /\ k \in Keys
      BY <1>1, <2>2 DEF BucketMap
    <3>2. /\ DOMAIN buckets' = DOMAIN buckets \cup {k}
          /\ buckets'[k] = Refund(buckets[k])
          /\ \A j \in DOMAIN buckets \ {k} : buckets'[j] = buckets[j]
      BY <1>2, <2>2
    <3>3. /\ Refund(buckets[k]) \in Bucket(time)
          /\ Refund(buckets[k]).available <= buckets[k].available + 1
          /\ Refund(buckets[k]).mark = buckets[k].mark
      <4>1. /\ buckets[k].available \in 0..Burst /\ Burst \in Nat
        BY <3>1, AuthThrottleAssumption DEF Bucket
      <4>2. /\ Min({buckets[k].available + 1, Burst}) \in 0..Burst
            /\ Min({buckets[k].available + 1, Burst}) <= buckets[k].available + 1
        BY <4>1, MinOfTwo
      <4>3. QED
        BY <3>1, <4>2 DEF Refund, Bucket
    <3>4. /\ Credit(Refund(buckets[k]), w) \in Nat /\ Credit(buckets[k], w) \in Nat
          /\ Credit(Refund(buckets[k]), w) <= Credit(buckets[k], w) + 1
      <4>1. /\ buckets[k].available \in Nat /\ Refund(buckets[k]).available \in Nat
            /\ Window(buckets[k].mark) \in Nat
        BY <1>1, <3>1, <3>3, CreditIs, AuthThrottleAssumption DEF Bucket
      <4>2. /\ Credit(Refund(buckets[k]), w) \in Nat /\ Credit(buckets[k], w) \in Nat
        BY <1>1, <3>1, <3>3, CreditIs
      <4> HIDE DEF w, k
      <4>3. QED
        BY <1>1, <3>3, <4>1, <4>2 DEF Credit
    <3>5. /\ BucketMap(buckets', time)
          /\ Worth(buckets', w) = Worth(buckets, w) - Credit(buckets[k], w)
                                    + Credit(Refund(buckets[k]), w)
      <4> HIDE DEF w, k
      <4>1. QED
        BY <1>1, <2>2, <3>1, <3>2, <3>3, BucketIsPut DEF w
    <3> HIDE DEF w, k
    <3>6. QED
      BY <1>1, <3>4, <3>5
  <2>3. QED
    BY <2>1, <2>2
<1> HIDE DEF w
<1>6. misses' + (InFlight - 1) + Worth(buckets', w)
        <= MaxBuckets * Burst + granted' + MaxBuckets * w
  BY <1>1, <1>2, <1>5
<1>7. /\ misses' \in Nat /\ granted' \in Nat /\ spends' \in 0..MaxSpends
      /\ misses' + (InFlight - 1) <= spends' /\ granted' <= spends'
      /\ time' \in 0..MaxTime /\ BucketMap(buckets', time')
  BY <1>1, <1>2, <1>5
<1>8. QED
  BY <1>2, <1>3, <1>4, <1>6, <1>7, AuthInvFrom DEF w

LEMMA MismatchOK ==
    ASSUME AuthInv, NEW c \in Checks, Mismatch(c)
    PROVE  AuthInv'
<1> DEFINE w == Window(time)
<1>1. /\ time \in 0..MaxTime /\ time \in Nat /\ misses \in Nat /\ granted \in Nat
      /\ spends \in Nat /\ w \in Nat /\ InFlight \in Nat /\ spends \in 0..MaxSpends
      /\ MaxBuckets * Burst \in Int /\ MaxBuckets * w \in Int
      /\ Worth(buckets, w) \in Int /\ BucketMap(buckets, time)
      /\ misses + InFlight <= spends /\ granted <= spends
      /\ misses + InFlight + Worth(buckets, w)
           <= MaxBuckets * Burst + granted + MaxBuckets * w
  BY AuthInvGives DEF AuthInv
<1>2. /\ check[c].at = "comparing" /\ check' = [check EXCEPT ![c] = Idle]
      /\ misses' = misses + 1
      /\ time' = time /\ buckets' = buckets /\ spends' = spends /\ granted' = granted
  BY DEF Mismatch
<1>3. /\ check' \in [Checks -> CheckSet] /\ IsFiniteSet(Matching')
      /\ Cardinality(Matching') = InFlight - 1
  BY <1>2, ChecksMove, ChecksAre
<1>4. InFlight - 1 \in Nat
  BY <1>3, FS_CardinalityType
<1> HIDE DEF w
<1>5. misses' + (InFlight - 1) + Worth(buckets', w)
        <= MaxBuckets * Burst + granted' + MaxBuckets * w
  BY <1>1, <1>2
<1>6. /\ misses' \in Nat /\ granted' \in Nat /\ spends' \in 0..MaxSpends
      /\ misses' + (InFlight - 1) <= spends' /\ granted' <= spends'
      /\ time' \in 0..MaxTime /\ BucketMap(buckets', time')
  BY <1>1, <1>2
<1>7. QED
  BY <1>2, <1>3, <1>4, <1>5, <1>6, AuthInvFrom DEF w

LEMMA DeliverOK ==
    ASSUME AuthInv, NEW c \in Checks, Deliver(c)
    PROVE  AuthInv'
<1>1. /\ check[c].at # "comparing" /\ check' = [check EXCEPT ![c] = Idle]
      /\ misses' = misses
      /\ time' = time /\ buckets' = buckets /\ spends' = spends /\ granted' = granted
  BY DEF Deliver
<1>2. /\ check' \in [Checks -> CheckSet] /\ IsFiniteSet(Matching')
      /\ Cardinality(Matching') = InFlight
  BY <1>1, ChecksMove, ChecksAre
<1>3. /\ InFlight \in Nat /\ misses' \in Nat /\ granted' \in Nat
      /\ spends' \in 0..MaxSpends /\ time' \in 0..MaxTime
      /\ BucketMap(buckets', time')
  BY <1>1, AuthInvGives
<1>4. /\ misses' + InFlight <= spends' /\ granted' <= spends'
      /\ misses' + InFlight + Worth(buckets', Window(time'))
           <= MaxBuckets * Burst + granted' + MaxBuckets * Window(time')
  BY <1>1 DEF AuthInv
<1>5. QED
  BY <1>2, <1>3, <1>4, AuthInvFrom

\* When an interval ends, one token becomes due to every bucket.
LEMMA ClockOK ==
    ASSUME AuthInv, AuthTick
    PROVE  AuthInv'
<1> DEFINE w == Window(time)
           d == DOMAIN buckets
<1>1. /\ time \in Nat /\ misses \in Nat /\ granted \in Nat /\ w \in Nat
      /\ InFlight \in Nat /\ spends \in 0..MaxSpends /\ MaxTime \in Nat
      /\ MaxBuckets \in Nat /\ MaxBuckets * Burst \in Int
      /\ Worth(buckets, w) \in Int /\ BucketMap(buckets, time)
      /\ misses + InFlight <= spends /\ granted <= spends
      /\ misses + InFlight + Worth(buckets, w)
           <= MaxBuckets * Burst + granted + MaxBuckets * w
      /\ check \in [Checks -> CheckSet] /\ InFlight = Cardinality(Matching)
      /\ IsFiniteSet(Matching)
  BY AuthInvGives DEF AuthInv
<1>2. /\ time < MaxTime /\ time' = time + 1 /\ buckets' = buckets
      /\ check' = check /\ misses' = misses /\ spends' = spends /\ granted' = granted
  BY DEF AuthTick
<1>3. /\ BucketMap(buckets, time + 1) /\ time + 1 \in Nat /\ time + 1 \in 0..MaxTime
  <2>1. \A k \in d : buckets[k] \in Bucket(time + 1)
    BY <1>1 DEF BucketMap, Bucket
  <2>2. QED
    BY <1>1, <1>2, <2>1 DEF BucketMap
<1>4. \/ Window(time + 1) = w
      \/ Window(time + 1) = w + 1
  BY <1>1, DivNext, AuthThrottleAssumption DEF Window
<1>5. /\ Cardinality(d) \in Nat /\ Cardinality(d) <= MaxBuckets
      /\ Worth(buckets, w + 1) \in Int
      /\ Window(time + 1) = w + 1
           => Worth(buckets, w + 1) <= Worth(buckets, w) + Cardinality(d)
  <2>1. /\ IsFiniteSet(d) /\ Cardinality(d) \in Nat /\ Cardinality(d) <= MaxBuckets
    BY FS_CardinalityType, <1>1 DEF BucketMap
  <2>2. /\ Burst + w \in Nat
        /\ \A k \in d : Credits(buckets, w)[k] \in 0..(Burst + w)
        /\ Weight(d, Credits(buckets, w)) \in Nat
    BY <1>1, MapWeight
  <2>3. \A k \in d : Credits(buckets, w + 1)[k] = Credits(buckets, w)[k] + 1
    <3> SUFFICES ASSUME NEW k \in d
                 PROVE  Credits(buckets, w + 1)[k] = Credits(buckets, w)[k] + 1
      OBVIOUS
    <3>1. /\ buckets[k] \in Bucket(time)
      BY <1>1 DEF BucketMap
    <3>2. buckets[k].available \in Nat /\ Window(buckets[k].mark) \in Nat
      BY <1>1, <3>1, CreditIs, AuthThrottleAssumption DEF Bucket
    <3> HIDE DEF w
    <3>3. QED
      BY <1>1, <3>2 DEF Credits, Credit
  <2>4. /\ \A k \in d : /\ Credits(buckets, w)[k] \in 0..(Burst + w + 1)
                        /\ Credits(buckets, w + 1)[k] \in 0..(Burst + w + 1)
        /\ \A k \in d : Credits(buckets, w + 1)[k] <= Credits(buckets, w)[k] + 1
        /\ Burst + w + 1 \in Nat
    <3> HIDE DEF w
    <3>1. QED
      BY <1>1, <2>2, <2>3, AuthThrottleAssumption
  <2>5. /\ Weight(d, Credits(buckets, w + 1))
            <= Weight(d, Credits(buckets, w)) + Cardinality(d)
        /\ Weight(d, Credits(buckets, w + 1)) \in Nat
    <3> HIDE DEF w, d
    <3>1. QED
      BY <2>1, <2>4, WeightRaised, PileFinite
  <2>6. /\ (MaxBuckets - Cardinality(d)) * Burst \in Int
    BY <1>1, <2>1, AuthThrottleAssumption
  <2> HIDE DEF w
  <2>7. QED
    BY <2>1, <2>2, <2>5, <2>6 DEF Worth
<1> HIDE DEF w, d
<1>6. misses + InFlight + Worth(buckets, Window(time + 1))
        <= MaxBuckets * Burst + granted + MaxBuckets * Window(time + 1)
  <2>1. CASE Window(time + 1) = w
    BY <1>1, <2>1
  <2>2. CASE Window(time + 1) = w + 1
    <3>1. MaxBuckets * (w + 1) = MaxBuckets * w + MaxBuckets
          /\ MaxBuckets * w \in Int
      BY <1>1
    <3>2. QED
      BY <1>1, <1>5, <2>2, <3>1
  <2>3. QED
    BY <1>4, <2>1, <2>2
<1>7. /\ Matching' = Matching /\ check' \in [Checks -> CheckSet]
  BY <1>1, <1>2 DEF Matching
<1>8. QED
  BY <1>1, <1>2, <1>3, <1>6, <1>7, AuthInvFrom

LEMMA AuthInitOK == AuthInit => AuthInv
<1> SUFFICES ASSUME AuthInit PROVE AuthInv
  OBVIOUS
<1>1. /\ time = 0 /\ buckets = <<>> /\ check = [c \in Checks |-> Idle]
      /\ misses = 0 /\ spends = 0 /\ granted = 0
  BY DEF AuthInit
<1>2. /\ MaxBuckets \in Nat /\ Burst \in Nat /\ Interval \in Nat \ {0}
      /\ MaxTime \in Nat /\ MaxSpends \in Nat
  BY AuthThrottleAssumption
<1>3. DOMAIN buckets = {} /\ IsFiniteSet({}) /\ Cardinality({}) = 0
  BY <1>1, FS_EmptySet
<1>4. Matching = {} /\ InFlight = 0
  BY <1>1, <1>3, ChecksAre DEF Matching, InFlight
<1>5. AuthTypeOK
  <2>1. check \in [Checks -> CheckSet]
    BY <1>1, ChecksAre
  <2>2. QED
    BY <1>1, <1>2, <1>3, <2>1 DEF AuthTypeOK, CheckSet
<1>6. Window(time) = 0
  BY <1>1, <1>2, DivIs, SMT DEF Window
<1>7. Worth(buckets, Window(time)) = MaxBuckets * Burst
  <2>1. Pile(DOMAIN buckets, Credits(buckets, Window(time))) = {}
    BY <1>3 DEF Pile
  <2>2. Weight(DOMAIN buckets, Credits(buckets, Window(time))) = 0
    BY <1>3, <2>1 DEF Weight
  <2>3. QED
    BY <1>2, <1>3, <2>2 DEF Worth
<1>8. QED
  BY <1>1, <1>2, <1>3, <1>4, <1>5, <1>6, <1>7 DEF AuthInv

LEMMA AuthStepOK == AuthInv /\ [AuthNext]_authVars => AuthInv'
<1> SUFFICES ASSUME AuthInv, [AuthNext]_authVars PROVE AuthInv'
  OBVIOUS
<1>1. CASE UNCHANGED authVars
  <2>1. /\ time' = time /\ buckets' = buckets /\ check' = check
        /\ misses' = misses /\ spends' = spends /\ granted' = granted
    BY <1>1 DEF authVars
  <2>2. Matching' = Matching
    BY <2>1 DEF Matching
  <2>3. QED
    BY <2>1, <2>2, AuthInvGives, AuthInvFrom DEF AuthInv
<1>2. ASSUME NEW c \in Checks, Match(c) \/ Mismatch(c) \/ Deliver(c)
      PROVE  AuthInv'
  BY <1>2, MatchOK, MismatchOK, DeliverOK
<1>3. ASSUME NEW c \in Checks, NEW k \in Keys, Spend(c, k) \/ SpendArriving(c, k)
      PROVE  AuthInv'
  BY <1>3, SpendOK, SpendArrivingOK
<1>4. CASE AuthTick
  BY <1>4, ClockOK
<1>5. QED
  BY <1>1, <1>2, <1>3, <1>4 DEF AuthNext

LEMMA CreditsMeter == AuthInv => GuessesAreMetered
<1> SUFFICES ASSUME AuthInv PROVE GuessesAreMetered
  OBVIOUS
<1> DEFINE w == Window(time)
           d == DOMAIN buckets
<1>1. /\ time \in Nat /\ misses \in Nat /\ granted \in Nat /\ w \in Nat
      /\ InFlight \in Nat /\ BucketMap(buckets, time)
      /\ MaxBuckets \in Nat /\ Burst \in Nat
      /\ misses + InFlight + Worth(buckets, w)
           <= MaxBuckets * Burst + granted + MaxBuckets * w
  BY AuthInvGives DEF AuthInv
<1>2. /\ Burst + w \in Nat /\ IsFiniteSet(d)
      /\ \A k \in d : Credits(buckets, w)[k] \in 0..(Burst + w)
      /\ Weight(d, Credits(buckets, w)) \in Nat
      /\ Cardinality(d) \in Nat
  BY <1>1, MapWeight DEF BucketMap
<1>3. SpendableTokens \subseteq Pile(d, Credits(buckets, w))
  <2> SUFFICES ASSUME NEW t \in SpendableTokens
               PROVE  t \in Pile(d, Credits(buckets, w))
    OBVIOUS
  <2>1. /\ t = <<t[1], t[2]>> /\ t[1] \in d /\ t[2] \in Nat \ {0}
        /\ t[2] <= buckets[t[1]].available
    BY <1>1 DEF SpendableTokens
  <2>2. /\ buckets[t[1]] \in Bucket(time)
        /\ Credits(buckets, w)[t[1]] = Credit(buckets[t[1]], w)
    BY <1>1, <2>1 DEF BucketMap, Credits
  <2>3. /\ buckets[t[1]].available <= Credit(buckets[t[1]], w)
        /\ Credit(buckets[t[1]], w) \in Nat /\ buckets[t[1]].available \in Nat
    BY <1>1, <2>2, CreditIs DEF Bucket
  <2> HIDE DEF w, d
  <2>4. t[2] <= Credits(buckets, w)[t[1]]
    BY <2>1, <2>2, <2>3
  <2>5. QED
    BY <2>1, <2>4 DEF Pile
<1>4. /\ Cardinality(SpendableTokens) <= Weight(d, Credits(buckets, w))
      /\ Cardinality(SpendableTokens) \in Nat
  <2>1. IsFiniteSet(Pile(d, Credits(buckets, w)))
    BY <1>2, PileFinite
  <2>2. QED
    BY <1>3, <2>1, FS_Subset, FS_CardinalityType DEF Weight
<1>5. /\ Potential <= Worth(buckets, w) /\ Potential \in Int
      /\ Worth(buckets, w) \in Int
  <2>1. (MaxBuckets - Cardinality(d)) * Burst \in Int
    BY <1>1, <1>2
  <2> HIDE DEF w
  <2>2. QED
    BY <1>2, <1>4, <2>1 DEF Potential, Worth
<1>6. MaxBuckets * Burst \in Int /\ MaxBuckets * w \in Int
  BY <1>1
<1> HIDE DEF w
<1>7. misses + InFlight + Potential <= MaxBuckets * Burst + granted + MaxBuckets * w
  BY <1>1, <1>5, <1>6
<1>8. QED
  BY <1>7 DEF GuessesAreMetered, w, Window

\* Who is refused had a bucket: an arriving key finds a token in the one it gets.
LEMMA RefusedHadBucket ==
    ASSUME AuthInv, [AuthNext]_authVars, NEW c \in Checks,
           check[c].at = "idle", check'[c].at = "refused"
    PROVE  check'[c].key \in DOMAIN buckets
<1>1. check \in [Checks -> CheckSet]
  BY AuthInvGives
<1>2. ASSUME NEW s, check' = [check EXCEPT ![c] = s]
      PROVE  check'[c] = s
  BY <1>1, <1>2
<1>3. ASSUME NEW e \in Checks, NEW s, check' = [check EXCEPT ![e] = s]
      PROVE  e = c
  <2> SUFFICES ASSUME e # c PROVE FALSE
    OBVIOUS
  <2>1. check'[c] = check[c]
    BY <1>1, <1>3
  <2>2. QED
    BY <2>1
<1>4. CASE UNCHANGED authVars \/ AuthTick
  BY <1>4 DEF authVars, AuthTick
<1>5. ASSUME NEW e \in Checks, Match(e) \/ Mismatch(e) \/ Deliver(e)
      PROVE  FALSE
  <2>1. check' = [check EXCEPT ![e] = Idle]
    BY <1>5 DEF Match, Mismatch, Deliver
  <2>2. check'[c] = Idle
    BY <1>2, <1>3, <2>1
  <2>3. QED
    BY <2>2, ChecksAre
<1>6. ASSUME NEW e \in Checks, NEW k \in Keys, Spend(e, k)
      PROVE  check'[c].key \in DOMAIN buckets
  <2>1. k \in DOMAIN buckets
    BY <1>6 DEF Spend
  <2>2. TakeToken(e, k, buckets, Refilled(buckets[k]))
    BY <1>6 DEF Spend
  <2>3. \/ check' = [check EXCEPT ![e] = Refused(k)]
        \/ check' = [check EXCEPT ![e] = Comparing(k)]
    BY <2>2 DEF TakeToken
  <2>4. check'[c] = Refused(k) \/ check'[c] = Comparing(k)
    BY <1>2, <1>3, <2>3
  <2>5. check'[c].key = k
    BY <2>4, ChecksAre
  <2>6. QED
    BY <2>1, <2>5
<1>7. ASSUME NEW e \in Checks, NEW k \in Keys, SpendArriving(e, k)
      PROVE  FALSE
  <2>1. check' = [check EXCEPT ![e] = Comparing(k)]
    BY <1>7, SpendArrivingOK
  <2>2. check'[c] = Comparing(k)
    BY <1>2, <1>3, <2>1
  <2>3. QED
    BY <2>2, ChecksAre
<1>8. QED
  BY <1>4, <1>5, <1>6, <1>7 DEF AuthNext

(***************************************************************************)
(* Whatever the numbers of clients, buckets and checks under way, and      *)
(* however their spends, refunds and displacements interleave, the         *)
(* comparisons that do not match stay within the budget, and a client that *)
(* is new is not refused (AuthThrottle of dashboard.rs).                   *)
(***************************************************************************)
THEOREM GuessesAreBounded == AuthSpec => AuthSafety
<1>1. AuthInv /\ [AuthNext]_authVars => AuthInv'
  BY AuthStepOK
<1>2. AuthInv => AuthTypeOK /\ GuessesAreMetered
  BY CreditsMeter DEF AuthInv
<1>3. AuthInv /\ [AuthNext]_authVars =>
        \A c \in Checks : check'[c].at = "refused" /\ check[c].at = "idle"
                            => check'[c].key \in DOMAIN buckets
  BY RefusedHadBucket
<1>4. AuthSpec => []AuthInv
  BY AuthInitOK, <1>1, PTL DEF AuthSpec
<1>5. AuthSpec => [](AuthTypeOK /\ GuessesAreMetered)
  BY <1>2, <1>4, PTL
<1>6. AuthSpec => ArrivalIsHeard
  BY <1>3, <1>4, PTL DEF AuthSpec, ArrivalIsHeard
<1>7. QED
  BY <1>5, <1>6 DEF AuthSafety
=============================================================================
