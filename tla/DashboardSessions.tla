------------------------- MODULE DashboardSessions -------------------------
(***************************************************************************)
(* The dashboard's sign-in state (dashboard.rs, DashboardAuthState): the   *)
(* password with its revision, and the sessions.  A handler compares the   *)
(* password under the credentials lock, lets the lock go, and takes it     *)
(* again to mint a session or to change the password; in between another   *)
(* handler may have changed it.  Each of those critical sections is one    *)
(* step.  The wait for a lock takes no time: Instant::now() is read before *)
(* it.                                                                     *)
(***************************************************************************)
EXTENDS Naturals, Sequences, FiniteSets, Functions

CONSTANTS Handlers,      \* requests under way
          SessionTtl,           \* SESSION_TTL, in ticks
          MaxSessions,   \* MAX_SESSIONS
          MaxTokens,     \* bound on the tokens minted
          MaxRevision,   \* bound on the changes of the password
          LastTime        \* bound on the clock

ASSUME DashboardSessionsAssumption ==
  /\ SessionTtl \in Nat \ {0} /\ MaxSessions \in Nat \ {0}
  /\ MaxTokens \in Nat /\ MaxRevision \in Nat /\ LastTime \in Nat

VARIABLES
  clock,
  revision,    \* credentials.revision, a fresh one at each change
  sessions,    \* per token: when it expires, its revision, and when its holder
               \* last gave the password at the login form
  minted,      \* tokens minted so far
  handler,     \* what each handler has checked
  retired,     \* tokens a logout named, or that lived when the password changed
  replaced     \* the revisions that were compared for each change, in order

sessionVars == <<clock, revision, sessions, minted, handler, retired, replaced>>

Tokens == 1..MaxTokens

\* The cookies of a request, in the order it sent them; 0 names no session.
Cookies == {<<>>} \cup {<<s>> : s \in 0..minted}
                  \cup {<<s, t>> : s \in 0..minted, t \in 0..minted}

Resting == [at |-> "idle", revision |-> 0, cookies |-> <<>>]

SessionInit ==
  /\ clock = 0 /\ revision = 0 /\ minted = 0
  /\ sessions = <<>>
  /\ handler = [h \in Handlers |-> Resting]
  /\ retired = {} /\ replaced = <<>>

----------------------------------------------------------------------------
\* The sessions that are current: every look at the map drops the others.
Kept == Restrict(sessions, {t \in DOMAIN sessions :
          sessions[t].expires > clock /\ sessions[t].revision = revision})

Put(map, t, s) == [u \in DOMAIN map \cup {t} |-> IF u = t THEN s ELSE map[u]]

\* At the cap the session that expires first gives way.
WithRoom(map) ==
  IF Cardinality(DOMAIN map) < MaxSessions THEN {map}
  ELSE {Restrict(map, DOMAIN map \ {t}) : t \in
          {u \in DOMAIN map : \A v \in DOMAIN map : map[u].expires <= map[v].expires}}

\* POST /login and POST /api/account/password, first half: the password given
\* matched, and the handler holds the revision it matched.
Check(h, kind) ==
  /\ handler[h].at = "idle"
  /\ \E cookies \in IF kind = "change" THEN Cookies ELSE {<<>>} :
       handler' = [handler EXCEPT ![h] =
         [at |-> kind, revision |-> revision, cookies |-> cookies]]
  /\ UNCHANGED <<clock, revision, sessions, minted, retired, replaced>>

\* The session is refused: the password changed since it was compared.
Stale(h) ==
  /\ handler[h].at # "idle"
  /\ handler[h].revision # revision
  /\ handler' = [handler EXCEPT ![h] = Resting]
  /\ UNCHANGED <<clock, revision, sessions, minted, retired, replaced>>

Mint(h, base, expires, since, rev) ==
  sessions' = Put(base, minted + 1,
                  [expires |-> expires, revision |-> rev, since |-> since])

\* Mutant: the revision is not looked at again.
AnyRevision(h) == TRUE

\* The revision the handler matched is still the password's.
SameRevision(h) == handler[h].revision = revision

CreateSession(h) ==
  /\ handler[h].at = "login"
  /\ SameRevision(h)
  /\ minted < MaxTokens
  /\ \E base \in WithRoom(Kept) :
       Mint(h, base, clock + SessionTtl, clock, handler[h].revision)
  /\ minted' = minted + 1
  /\ handler' = [handler EXCEPT ![h] = Resting]
  /\ UNCHANGED <<clock, revision, retired, replaced>>

\* The place of the first cookie that names a live session.
Inherited(cookies) ==
  LET live == {i \in DOMAIN cookies : /\ cookies[i] \in DOMAIN sessions
                                      /\ sessions[cookies[i]].expires > clock}
  IN  {i \in live : \A j \in live : i <= j}

\* The caller's new session expires when the old one would have.
InheritedExpiry(s) == s.expires

\* The password about to be replaced is the one the handler compared.
ReplacesCompared(h) == handler[h].revision = revision

\* Every session dies with the old password; the caller's is minted again.
RotatePassword(h) ==
  LET cookies == handler[h].cookies
  IN  /\ handler[h].at = "change"
      /\ ReplacesCompared(h)
      /\ revision < MaxRevision /\ minted < MaxTokens
      /\ revision' = revision + 1
      /\ \/ /\ Inherited(cookies) = {}
            /\ sessions' = <<>>
            /\ UNCHANGED minted
         \/ \E i \in Inherited(cookies) :
              LET s == sessions[cookies[i]]
              IN  /\ Mint(h, <<>>, InheritedExpiry(s), s.since, revision + 1)
                  /\ minted' = minted + 1
      /\ retired' = retired \cup DOMAIN sessions
      /\ replaced' = Append(replaced, handler[h].revision)
      /\ handler' = [handler EXCEPT ![h] = Resting]
      /\ UNCHANGED clock

\* session_is_valid, for any protected route: the map is pruned.
Validate ==
  /\ Kept # sessions
  /\ sessions' = Kept
  /\ UNCHANGED <<clock, revision, minted, handler, retired, replaced>>

\* The tokens a request names.
Named(cookies) == {cookies[i] : i \in DOMAIN cookies}

\* remove_session: every session the request names is retired.
Logout ==
  /\ \E cookies \in Cookies :
       /\ {cookies[i] : i \in DOMAIN cookies} \cap DOMAIN sessions # {}
       /\ sessions' = Restrict(sessions, DOMAIN sessions \ Named(cookies))
       /\ retired' = retired \cup
            (DOMAIN sessions \cap {cookies[i] : i \in DOMAIN cookies})
  /\ UNCHANGED <<clock, revision, minted, handler, replaced>>

\* Environment.
SessionTick ==
  /\ clock < LastTime
  /\ clock' = clock + 1
  /\ UNCHANGED <<revision, sessions, minted, handler, retired, replaced>>

SessionNext ==
  \/ \E h \in Handlers : \/ Check(h, "login") \/ Check(h, "change")
                         \/ Stale(h) \/ CreateSession(h) \/ RotatePassword(h)
  \/ Validate \/ Logout \/ SessionTick

SessionSpec == SessionInit /\ [][SessionNext]_sessionVars

----------------------------------------------------------------------------
SessionTypeOK ==
  /\ clock \in 0..LastTime /\ revision \in 0..MaxRevision /\ minted \in 0..MaxTokens
  /\ DOMAIN sessions \subseteq 1..minted
  /\ Cardinality(DOMAIN sessions) <= MaxSessions
  /\ \A t \in DOMAIN sessions :
       sessions[t] \in [expires : Nat, revision : 0..revision, since : 0..clock]
  /\ \A h \in Handlers : /\ handler[h].at \in {"idle", "login", "change"}
                         /\ handler[h].revision \in 0..revision
                         /\ \A i \in DOMAIN handler[h].cookies :
                              handler[h].cookies[i] \in 0..minted
  /\ retired \subseteq 1..minted
  /\ replaced \in Seq(0..MaxRevision)

(***************************************************************************)
(* No session outlives the password it was opened with: whatever handlers  *)
(* were under way when it changed, the map holds sessions of the current   *)
(* password only.                                                          *)
(***************************************************************************)
SessionsAreCurrent ==
  \A t \in DOMAIN sessions : sessions[t].revision = revision

(***************************************************************************)
(* A session ends Ttl after its holder logged in, through any chain of     *)
(* password changes: "a rotation neither logs the admin out nor extends    *)
(* their session".                                                         *)
(***************************************************************************)
ExpiryIsInherited ==
  \A t \in DOMAIN sessions : sessions[t].expires <= sessions[t].since + SessionTtl

(***************************************************************************)
(* A token that was retired, by a logout that named it in any cookie or by *)
(* a change of the password, is never honoured again.                      *)
(***************************************************************************)
RetiredStaysRetired == retired \cap DOMAIN sessions = {}

(***************************************************************************)
(* Of the changes that compared against one password at most one is made:  *)
(* no change is lost under another that never saw it.                      *)
(***************************************************************************)
OneChangePerPassword ==
  \A i, j \in DOMAIN replaced : replaced[i] = replaced[j] => i = j

(***************************************************************************)
(* Who changes the password from a live session stays signed in, wherever  *)
(* its cookie stands among those of the request.                           *)
(***************************************************************************)
CallerStaysSignedIn ==
  [][revision' # revision =>
       \A h \in Handlers :
         (/\ handler[h].at = "change" /\ handler'[h].at = "idle"
          /\ \E i \in DOMAIN handler[h].cookies :
               LET t == handler[h].cookies[i]
               IN  t \in DOMAIN sessions /\ sessions[t].expires > clock)
         => \E t \in DOMAIN sessions' : sessions'[t].expires > clock]_sessionVars

(***************************************************************************)
(* Sessions under concurrent logins and password changes: those that exist *)
(* are of the current password, none outlives the login it stems from, a   *)
(* retired one never comes back, a password is replaced once, and its      *)
(* caller stays signed in.                                                 *)
(***************************************************************************)
SessionSafety ==
    /\ [](SessionTypeOK /\ SessionsAreCurrent /\ ExpiryIsInherited
         /\ RetiredStaysRetired /\ OneChangePerPassword)
    /\ CallerStaysSignedIn
=============================================================================
