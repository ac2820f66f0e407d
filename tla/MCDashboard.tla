----------------------------- MODULE MCDashboard -----------------------------
(***************************************************************************)
(* The dashboard: its cached database rounds, its server, the throttle of  *)
(* password guesses and the sessions.  The modules share no variable and   *)
(* no property relates two of them, so interleaving them would only        *)
(* multiply their states: a behaviour moves one part and leaves the others *)
(* where they start.                                                       *)
(***************************************************************************)
EXTENDS RoundCache, DashboardServer, AuthThrottle, DashboardSessions

VARIABLE part

\* A cache that is not looked at is of one kind only.
Init ==
    /\ part \in {"rounds", "server", "auth", "sessions"}
    /\ RoundInit /\ ServerInit /\ AuthInit /\ SessionInit
    /\ part # "rounds" => failFast

Next ==
    /\ \/ /\ part = "rounds" /\ RoundNext
          /\ UNCHANGED <<serverVars, authVars, sessionVars>>
       \/ /\ part = "server" /\ ServerNext
          /\ UNCHANGED <<failFast, roundVars, authVars, sessionVars>>
       \/ /\ part = "auth" /\ AuthNext
          /\ UNCHANGED <<failFast, roundVars, serverVars, sessionVars>>
       \/ /\ part = "sessions" /\ SessionNext
          /\ UNCHANGED <<failFast, roundVars, serverVars, authVars>>
    /\ UNCHANGED part

vars == <<part, failFast, roundVars, serverVars, authVars, sessionVars>>

(***************************************************************************)
(* Rounds: the runtime polls what is ready, the server answers every query *)
(* that is not wedged, the clock advances, and the dashboard is asked      *)
(* again and again (app.mjs polls /api/queues, an orchestrator /health).   *)
(***************************************************************************)
RoundFairness ==
    /\ \A c \in Callers :
        /\ WF_roundVars(part = "rounds" /\ CallerStep(c))
        /\ WF_roundVars(part = "rounds" /\ (Woken(c) \/ WaitTimesOut(c)))
    /\ \A s \in Slots : WF_roundVars(part = "rounds" /\ Close(s))
    /\ \A s \in Slots, q \in Queues :
        WF_roundVars(part = "rounds" /\ Reply(s, q))
    /\ WF_roundVars(part = "rounds" /\ Tick)

(***************************************************************************)
(* The server: the runtime polls what is ready and its timers fire, so a   *)
(* deadline that runs again and again without being reset elapses.         *)
(* A probe's wait for its round is bounded, as RoundProgress shows.        *)
(* Nothing is assumed of other handlers and of clients.                    *)
(***************************************************************************)
ServerFairness ==
    /\ WF_serverVars(part = "server" /\ RunStep)
    /\ WF_serverVars(part = "server" /\ ServeStep)
    /\ WF_serverVars(part = "server" /\ WaitUntilReady)
    /\ \A c \in Conns :
        /\ WF_serverVars(part = "server" /\ HeaderTimeout(c))
        /\ WF_serverVars(part = "server" /\ RequestTimeout(c))
        /\ WF_serverVars(part = "server" /\ ProbeAnswered(c))
        /\ WF_serverVars(part = "server" /\ ConnectionDeadline(c))
        /\ WF_serverVars(part = "server" /\ Graceful(c))
        /\ WF_serverVars(part = "server" /\ CloseIdle(c))

FairSpec == Init /\ [][Next]_vars /\ RoundFairness /\ ServerFairness
=============================================================================
