--------------------------- MODULE DashboardServer ---------------------------
(***************************************************************************)
(* The dashboard's HTTP server (dashboard.rs: DashboardServer::run_until,  *)
(* DashboardRuntime, serve_dashboard and enforce_request_limits): binding, *)
(* the accept loop with its connection permits, the connection tasks, the  *)
(* request permits, and the bounded shutdown.                              *)
(*                                                                         *)
(* Deadlines have no clock: an elapsed deadline is an action that may be   *)
(* taken while the deadline runs.  A handler, and a client that reads its  *)
(* response, may take for ever.                                            *)
(***************************************************************************)
EXTENDS Naturals, FiniteSets

CONSTANTS Conns,            \* connections that clients may have open
          MaxConnections,   \* limits.max_connections
          MaxRequests       \* limits.max_concurrent_requests

ASSUME DashboardServerAssumption ==
  MaxConnections \in Nat \ {0} /\ MaxRequests \in Nat \ {0}

VARIABLES
  phase,      \* where run_until_inner is
  result,     \* what it returned
  asked,      \* the caller's token is cancelled, or its future was dropped
  cancelled,  \* the runtime's own token
  serve,      \* where the server task is
  permits,    \* free connection permits
  requests,   \* free request permits
  conn,       \* the connection tasks
  ready,      \* the address has been sent on the ready channel
  handle      \* what wait_until_ready has answered

run == <<phase, result, asked, cancelled>>
serverVars == <<phase, result, asked, cancelled, serve, permits, requests, conn,
                ready, handle>>

NoConn == [at |-> "none", responded |-> FALSE, closing |-> FALSE]

ServerInit ==
  /\ phase = "bind" /\ result = "none" /\ asked = FALSE /\ cancelled = FALSE
  /\ serve = "none"
  /\ permits = MaxConnections /\ requests = MaxRequests
  /\ conn = [c \in Conns |-> NoConn]
  /\ ready = FALSE /\ handle = "waiting"

Open == {c \in Conns : conn[c].at # "none"}

Alive == {"start", "permit", "accept", "join"}

----------------------------------------------------------------------------
(* run_until_inner and DashboardRuntime.                                   *)

Return(r) == phase' = "returned" /\ result' = r

Bind ==
  /\ phase = "bind" /\ ~asked
  /\ \/ phase' = "serving" /\ serve' = "start" /\ UNCHANGED result
     \/ Return("error") /\ UNCHANGED serve
  /\ UNCHANGED <<asked, cancelled, permits, requests, conn, ready, handle>>

\* The select is biased: a request that is already there wins over the bind.
BindCut ==
  /\ phase = "bind" /\ asked
  /\ Return("ok")
  /\ UNCHANGED <<asked, cancelled, serve, permits, requests, conn, ready, handle>>

UnexpectedExit ==
  /\ phase = "serving" /\ serve \in {"ended", "failed"}
  /\ Return("error")
  /\ UNCHANGED <<asked, cancelled, serve, permits, requests, conn, ready, handle>>

BeginShutdown ==
  /\ phase = "serving" /\ asked
  /\ phase' = "stopping" /\ cancelled' = TRUE
  /\ UNCHANGED <<result, asked, serve, permits, requests, conn, ready, handle>>

FinishShutdown ==
  /\ phase = "stopping" /\ serve \in {"ended", "failed"}
  /\ Return(IF serve = "ended" THEN "ok" ELSE "error")
  /\ UNCHANGED <<asked, cancelled, serve, permits, requests, conn, ready, handle>>

\* The JoinSet is dropped with the server task and aborts every connection.  A
\* connection's task ends at its next await, and nobody joins it; the model takes
\* its end as immediate.
DropConnections ==
  /\ conn' = [c \in Conns |-> NoConn]
  /\ permits' = MaxConnections
  /\ requests' = MaxRequests

\* Mutant: the shutdown waits for as long as the connections take.
NoDeadline == FALSE

ShutdownDeadline == phase = "stopping" /\ serve \in Alive

\* SHUTDOWN_TIMEOUT: the server task is aborted and awaited.
Overdue ==
  /\ ShutdownDeadline
  /\ Return("ok")
  /\ serve' = "aborted"
  /\ DropConnections
  /\ UNCHANGED <<asked, cancelled, ready, handle>>

----------------------------------------------------------------------------
(* serve_dashboard.                                                        *)

Start ==
  /\ serve = "start"
  /\ serve' = "permit"
  /\ ready' = TRUE
  /\ UNCHANGED <<run, permits, requests, conn, handle>>

AcquirePermit ==
  /\ serve = "permit" /\ permits > 0
  /\ serve' = "accept"
  /\ permits' = permits - 1
  /\ UNCHANGED <<run, requests, conn, ready, handle>>

\* The permit moves into the connection's task.
Accept(c) ==
  /\ serve = "accept" /\ conn[c].at = "none"
  /\ serve' = "permit"
  /\ conn' = [conn EXCEPT ![c].at = "reading"]
  /\ UNCHANGED <<run, permits, requests, ready, handle>>

\* The permit the loop holds is dropped with its iteration.
StopAccepting ==
  /\ serve \in {"permit", "accept"} /\ cancelled
  /\ serve' = "join"
  /\ permits' = IF serve = "accept" THEN permits + 1 ELSE permits
  /\ UNCHANGED <<run, requests, conn, ready, handle>>

JoinConnections ==
  /\ serve = "join" /\ Open = {}
  /\ serve' = "ended"
  /\ UNCHANGED <<run, permits, requests, conn, ready, handle>>

\* Environment: the server task panics.
ServerPanics ==
  /\ serve \in Alive
  /\ serve' = "failed"
  /\ DropConnections
  /\ UNCHANGED <<run, ready, handle>>

----------------------------------------------------------------------------
(* A connection task, and the requests it makes one after the other.       *)

\* Mutant: a request that ends early keeps its permit.
RequestsKept(c) == requests

\* The permit of a request that is being handled is dropped with its future.
RequestsAfter(c) == IF conn[c].at = "handling" THEN requests + 1 ELSE requests

\* The task ends, with everything it owns.
End(c) ==
  /\ conn' = [conn EXCEPT ![c] = NoConn]
  /\ permits' = permits + 1
  /\ requests' = RequestsAfter(c)
  /\ UNCHANGED <<run, serve, ready, handle>>

\* The headers are in; the request waits for a permit of the limiter.
Request(c) ==
  /\ conn[c].at = "reading"
  /\ conn' = [conn EXCEPT ![c].at = "limited"]
  /\ UNCHANGED <<run, serve, permits, requests, ready, handle>>

\* GET /health is merged outside the limiter: it takes no permit and has no
\* request_timeout.
Probe(c) ==
  /\ conn[c].at = "reading"
  /\ conn' = [conn EXCEPT ![c].at = "probing"]
  /\ UNCHANGED <<run, serve, permits, requests, ready, handle>>

Admit(c) ==
  /\ conn[c].at = "limited" /\ requests > 0
  /\ conn' = [conn EXCEPT ![c].at = "handling"]
  /\ requests' = requests - 1
  /\ UNCHANGED <<run, serve, permits, ready, handle>>

\* The response: the handler's, or 504 when the request's time is up; either
\* way the permit is dropped and first_response is set.
Respond(c) ==
  /\ conn' = [conn EXCEPT ![c] = [@ EXCEPT !.at = "writing", !.responded = TRUE]]
  /\ requests' = RequestsAfter(c)
  /\ UNCHANGED <<run, serve, permits, ready, handle>>

HandlerReturns(c) == conn[c].at = "handling" /\ Respond(c)

\* The probe waits for its cached round no longer than ROUND_WAIT_TIMEOUT.
ProbeAnswered(c) == conn[c].at = "probing" /\ Respond(c)

RequestTimeout(c) == conn[c].at \in {"limited", "handling"} /\ Respond(c)

\* A request with ambiguous framing is answered before it reaches the limiter,
\* and the answer closes the connection.
RefuseFraming(c) ==
  /\ conn[c].at = "reading"
  /\ conn' = [conn EXCEPT ![c] = [@ EXCEPT !.at = "refusing", !.responded = TRUE]]
  /\ UNCHANGED <<run, serve, permits, requests, ready, handle>>

\* The client has read its response; the next request may come on the same
\* connection, unless the shutdown closes it.
Written(c) ==
  /\ conn[c].at \in {"writing", "refusing"}
  /\ \/ (conn[c].closing \/ conn[c].at = "refusing") /\ End(c)
     \/ /\ ~conn[c].closing /\ conn[c].at = "writing"
        /\ conn' = [conn EXCEPT ![c].at = "reading"]
        /\ UNCHANGED <<run, serve, permits, requests, ready, handle>>

HeaderTimeout(c) == conn[c].at = "reading" /\ End(c)

\* request_timeout after its first response the connection is over, whatever it
\* is doing; the shutdown's arm of the select no longer has the deadline.
DeadlineRuns(c) == conn[c].responded /\ ~conn[c].closing

ConnectionDeadline(c) == DeadlineRuns(c) /\ End(c)

Graceful(c) ==
  /\ c \in Open /\ cancelled /\ ~conn[c].closing
  /\ conn' = [conn EXCEPT ![c].closing = TRUE]
  /\ UNCHANGED <<run, serve, permits, requests, ready, handle>>

\* External: hyper closes a connection without a request under a graceful
\* shutdown.
CloseIdle(c) == conn[c].at = "reading" /\ conn[c].closing /\ End(c)

\* Environment: the client goes away, or the task panics.
Vanish(c) == c \in Open /\ End(c)

----------------------------------------------------------------------------
(* The callers.                                                            *)

\* Environment: cancel the token, or drop the future of run_until.
Ask ==
  /\ ~asked /\ phase # "returned"
  /\ asked' = TRUE
  /\ UNCHANGED <<phase, result, cancelled, serve, permits, requests, conn, ready, handle>>

\* The last sender goes with the server's configuration, when it returns.
WaitUntilReady ==
  /\ handle = "waiting"
  /\ \/ ready /\ handle' = "address"
     \/ ~ready /\ phase = "returned" /\ handle' = "none"
  /\ UNCHANGED <<run, serve, permits, requests, conn, ready>>

RunStep == \/ Bind \/ BindCut \/ UnexpectedExit \/ BeginShutdown
           \/ FinishShutdown \/ Overdue

ServeStep == Start \/ AcquirePermit \/ StopAccepting \/ JoinConnections

Timers(c) == HeaderTimeout(c) \/ RequestTimeout(c) \/ ConnectionDeadline(c)

ServerNext ==
  \/ RunStep \/ ServeStep \/ ServerPanics \/ Ask \/ WaitUntilReady
  \/ \E c \in Conns :
       \/ Accept(c) \/ Request(c) \/ Admit(c) \/ HandlerReturns(c)
       \/ Probe(c) \/ ProbeAnswered(c) \/ RefuseFraming(c) \/ Written(c)
       \/ Timers(c) \/ Graceful(c) \/ CloseIdle(c) \/ Vanish(c)

ServerSpec == ServerInit /\ [][ServerNext]_serverVars

----------------------------------------------------------------------------
ServerTypeOK ==
  /\ phase \in {"bind", "serving", "stopping", "returned"}
  /\ result \in {"none", "ok", "error"}
  /\ asked \in BOOLEAN /\ cancelled \in BOOLEAN
  /\ serve \in {"none", "ended", "failed", "aborted"} \cup Alive
  /\ permits \in 0..MaxConnections
  /\ requests \in 0..MaxRequests
  /\ conn \in [Conns ->
       [at : {"none", "reading", "limited", "handling", "probing", "writing",
              "refusing"},
        responded : BOOLEAN, closing : BOOLEAN]]
  /\ ready \in BOOLEAN
  /\ handle \in {"waiting", "address", "none"}

(***************************************************************************)
(* However connections end (answered, timed out, closed by either side,    *)
(* aborted), every connection permit is free, with the accept loop or with *)
(* one open connection, so at most max_connections are open and the loop   *)
(* can always fill up again.                                               *)
(***************************************************************************)
ConnectionPermitsKept ==
  permits + Cardinality(Open) + (IF serve = "accept" THEN 1 ELSE 0) = MaxConnections

(***************************************************************************)
(* However requests end, every request permit is free or with a request    *)
(* that is being handled: a timeout or a vanished client leaks none.       *)
(***************************************************************************)
RequestPermitsKept ==
  requests + Cardinality({c \in Conns : conn[c].at = "handling"}) = MaxRequests

(***************************************************************************)
(* Once run_until has returned nothing is served any more.                 *)
(***************************************************************************)
NothingServedAfterReturn == phase = "returned" => Open = {} /\ serve \notin Alive

(***************************************************************************)
(* The server returns Ok only when somebody asked it to stop; a server     *)
(* task that ends by itself is an error of the worker that hosts it.       *)
(***************************************************************************)
OkMeansAsked == result = "ok" => asked

(***************************************************************************)
(* A shutdown returns, also when a client never reads its response.        *)
(***************************************************************************)
ShutdownReturns == []<>(asked => phase = "returned")

(***************************************************************************)
(* No connection holds its permit for ever, whatever its client does.      *)
(***************************************************************************)
ConnectionsEnd == \A c \in Conns : []<>(c \notin Open)

(***************************************************************************)
(* wait_until_ready answers: with the address, or with None when the       *)
(* server is gone before it was ready.                                     *)
(***************************************************************************)
ReadyIsAnswered == []<>(phase = "bind" \/ handle # "waiting")

(***************************************************************************)
(* The server keeps its permits on every way a connection can end, serves  *)
(* nothing after it has returned, and calls an end a success only when it  *)
(* was asked for.                                                          *)
(***************************************************************************)
ServerSafety ==
    /\ ServerTypeOK
    /\ ConnectionPermitsKept
    /\ RequestPermitsKept
    /\ NothingServedAfterReturn
    /\ OkMeansAsked

(***************************************************************************)
(* Whoever waits for the server is answered: a shutdown returns,           *)
(* connections end, and wait_until_ready comes back.                       *)
(***************************************************************************)
ServerProgress ==
    /\ ShutdownReturns
    /\ ConnectionsEnd
    /\ ReadyIsAnswered
=============================================================================
