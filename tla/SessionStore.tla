---------------------------- MODULE SessionStore ----------------------------
(***************************************************************************)
(* Pending MCP authorizations: SessionStore (internal/auth/session.go),    *)
(* its copy at vire-server, and the handlers that create, find and         *)
(* complete a session (internal/auth/authorize.go, CompleteAuthorization   *)
(* in internal/auth/server.go).                                            *)
(*                                                                         *)
(* A request runs in these steps.  goal tells what it does with a session  *)
(* once found: "complete" issues a code; "resume" is                       *)
(* setSessionCookieAndRedirect, which completes at once for a user who is  *)
(* already logged in and otherwise only sets a cookie.                     *)
(*                                                                         *)
(*   get --GetSession--> found | lookup | idle    the map, under s.mu      *)
(*   lookup --LookupSession--> cache | idle       GetSession, no lock      *)
(*   cache --CacheSession--> found | idle         store it, check its age  *)
(*   idle --FindByClient--> found | bylookup      GetByClientID, the map   *)
(*   bylookup --LookupByClient--> bycache | idle  its backend call         *)
(*   bycache --CacheByClient--> found                                      *)
(*   found --SetCookie | Proceed--> idle | get    goal "resume"            *)
(*   found --IssueCode--> delete                  goal "complete"          *)
(*   delete --DeleteSession--> idle                                        *)
(*                                                                         *)
(* Sessions are created at different times and live for the same TTL, so   *)
(* they expire in the order in which they were created.  Two requests may  *)
(* work on one session at once (two tabs, a double submit of the login     *)
(* form): nothing in the portal keeps them apart.                          *)
(***************************************************************************)
EXTENDS OAuthBackend

CONSTANTS Session,    \* session identifiers
          App         \* the clients (applications) sessions belong to

VARIABLES sessions,         \* the in-memory map's keys
          savedSessions,    \* sessions vire-server holds
          born,             \* CreatedAt, as a rank; 0 when the session was never put
          clock,            \* the number of sessions put so far
          owner,            \* the client a session belongs to
          expiredSessions,  \* sessions older than sessionTTL
          sessionPc,        \* where each request is
          sess,             \* the session it works on
          asked,            \* the client it works for
          goal,             \* "resume" or "complete"
          before,           \* GetByClientID: what was expired when it read the clock
          completed         \* history: <<session, process life>> of every redirect
                            \* with a code

stores == <<sessions, savedSessions, born, clock, owner>>
sessionVars == <<stores, expiredSessions, sessionPc, sess, asked, goal, before,
                 completed, restarts>>

SessionTypeOK ==
  /\ sessions \subseteq Session
  /\ savedSessions \subseteq Session
  /\ born \in [Session -> Nat]
  /\ clock \in Nat
  /\ owner \in [Session -> App]
  /\ expiredSessions \subseteq {s \in Session : born[s] > 0}
  /\ sessionPc \in [Req -> {"idle", "get", "lookup", "cache", "bylookup", "bycache",
                     "found", "delete"}]
  /\ sess \in [Req -> Session]
  /\ asked \in [Req -> App]
  /\ goal \in [Req -> {"resume", "complete"}]
  /\ before \in [Req -> SUBSET Session]
  /\ completed \subseteq Session \X (0..MaxRestarts)
  /\ restarts \in 0..MaxRestarts

SessionInit ==
  /\ sessions = {}
  /\ savedSessions = {}
  /\ born = [s \in Session |-> 0]
  /\ clock = 0
  /\ owner \in [Session -> App]
  /\ expiredSessions = {}
  /\ sessionPc = [r \in Req |-> "idle"]
  /\ sess \in [Req -> Session]
  /\ asked \in [Req -> App]
  /\ goal = [r \in Req |-> "resume"]
  /\ before = [r \in Req |-> {}]
  /\ completed = {}
  /\ restarts = 0
-----------------------------------------------------------------------------
Existing == {s \in Session : born[s] > 0}

\* The latest created session of a non-empty set.
Newest(S) == CHOOSE s \in S : \A t \in S : born[t] <= born[s]

Goto(r, where) == sessionPc' = [sessionPc EXCEPT ![r] = where]

\* Request r starts to work for client c.
Begin(r, c) ==
  /\ sessionPc[r] = "idle"
  /\ asked' = [asked EXCEPT ![r] = c]

\* createAuthSession puts a new session, written through under the lock.
PutSession(s, c) ==
  /\ s \notin Existing
  /\ clock' = clock + 1
  /\ born' = [born EXCEPT ![s] = clock + 1]
  /\ owner' = [owner EXCEPT ![s] = c]
  /\ sessions' = sessions \cup {s}
  /\ \E ok \in SaveResults :
       savedSessions' = IF ok THEN savedSessions \cup {s} ELSE savedSessions

\* POST /authorize: the client gets the session id as JSON.
AuthorizePOST(s, c) ==
  /\ PutSession(s, c)
  /\ UNCHANGED <<expiredSessions, sessionPc, sess, asked, goal, before, completed,
                 restarts>>

\* GET /authorize with every parameter: the browser goes on with the session.
AuthorizeGET(r, s, c) ==
  /\ Begin(r, c)
  /\ PutSession(s, c)
  /\ sess' = [sess EXCEPT ![r] = s]
  /\ goal' = [goal EXCEPT ![r] = "resume"]
  /\ Goto(r, "found")
  /\ UNCHANGED <<expiredSessions, before, completed, restarts>>

\* Ten minutes have passed since the oldest unexpired session was created.
ExpireSession(s) ==
  /\ s \in Existing \ expiredSessions
  /\ \A t \in Existing : born[t] < born[s] => t \in expiredSessions
  /\ expiredSessions' = expiredSessions \cup {s}
  /\ UNCHANGED <<stores, sessionPc, sess, asked, goal, before, completed, restarts>>

\* GET /authorize/resume?s=..., or a login that succeeds in a browser with an
\* mcp_session_id cookie (tryCompleteMCPSession calls CompleteAuthorization).
Visit(r, s, g) ==
  /\ s \in Existing
  /\ Begin(r, owner[s])
  /\ sess' = [sess EXCEPT ![r] = s]
  /\ goal' = [goal EXCEPT ![r] = g]
  /\ Goto(r, "get")
  /\ UNCHANGED <<stores, expiredSessions, before, completed, restarts>>

AuthorizeResume(r, s) == Visit(r, s, "resume")

CompleteLogin(r, s) == Visit(r, s, "complete")

\* SessionStore.Get: the map.
GetSession(r) ==
  /\ sessionPc[r] = "get"
  /\ Goto(r, IF sess[r] \notin sessions THEN "lookup"
             ELSE IF sess[r] \in expiredSessions THEN "idle" ELSE "found")
  /\ UNCHANGED <<stores, expiredSessions, sess, asked, goal, before, completed, restarts>>

\* SessionStore.Get: the read-through; an error counts as "not found".
LookupSession(r) ==
  /\ sessionPc[r] = "lookup"
  /\ \E ok \in ReadResults : Goto(r, IF ok /\ sess[r] \in savedSessions THEN "cache" ELSE "idle")
  /\ UNCHANGED <<stores, expiredSessions, sess, asked, goal, before, completed, restarts>>

\* SessionStore.Get: the found session is cached, then its age is checked.
CacheSession(r) ==
  /\ sessionPc[r] = "cache"
  /\ sessions' = sessions \cup {sess[r]}
  /\ Goto(r, IF sess[r] \in expiredSessions THEN "idle" ELSE "found")
  /\ UNCHANGED <<savedSessions, born, clock, owner, expiredSessions, sess, asked, goal,
                 before, completed, restarts>>

\* The sessions of client c in S that have not expired.
Pending(S, c) == {s \in S \ expiredSessions : owner[s] = c}

\* GET /authorize?client_id=c, the rest of the URL lost on the way:
\* GetByClientID takes the newest unexpired session in memory.
FindByClient(r, c) ==
  LET mine == Pending(sessions, c)
  IN  /\ Begin(r, c)
      /\ IF mine = {}
           THEN /\ Goto(r, "bylookup")
                /\ before' = [before EXCEPT ![r] = expiredSessions]
                /\ UNCHANGED sess
           ELSE /\ Goto(r, "found")
                /\ sess' = [sess EXCEPT ![r] = Newest(mine)]
                /\ UNCHANGED before
      /\ goal' = [goal EXCEPT ![r] = "resume"]
      /\ UNCHANGED <<stores, expiredSessions, completed, restarts>>

\* With none in memory, vire-server is asked for the client's newest session;
\* its age is judged by the clock read before the call.
LookupByClient(r) ==
  LET theirs == {s \in savedSessions : owner[s] = asked[r]}
  IN  /\ sessionPc[r] = "bylookup"
      /\ \E ok \in ReadResults :
           IF ok /\ theirs # {} /\ Newest(theirs) \notin before[r]
             THEN Goto(r, "bycache") /\ sess' = [sess EXCEPT ![r] = Newest(theirs)]
             ELSE Goto(r, "idle") /\ UNCHANGED sess
      /\ before' = [before EXCEPT ![r] = {}]
      /\ UNCHANGED <<stores, expiredSessions, asked, goal, completed, restarts>>

CacheByClient(r) ==
  /\ sessionPc[r] = "bycache"
  /\ sessions' = sessions \cup {sess[r]}
  /\ Goto(r, "found")
  /\ UNCHANGED <<savedSessions, born, clock, owner, expiredSessions, sess, asked, goal,
                 before, completed, restarts>>

\* No valid vire_session cookie: the browser is sent to the login page.
SetCookie(r) ==
  /\ sessionPc[r] = "found" /\ goal[r] = "resume"
  /\ Goto(r, "idle")
  /\ UNCHANGED <<stores, expiredSessions, sess, asked, goal, before, completed, restarts>>

\* A valid vire_session cookie: CompleteAuthorization at once.
Proceed(r) ==
  /\ sessionPc[r] = "found" /\ goal[r] = "resume"
  /\ goal' = [goal EXCEPT ![r] = "complete"]
  /\ Goto(r, "get")
  /\ UNCHANGED <<stores, expiredSessions, sess, asked, before, completed, restarts>>

\* CompleteAuthorization: a new code is put in the code store.
IssueCode(r) ==
  /\ sessionPc[r] = "found" /\ goal[r] = "complete"
  /\ Goto(r, "delete")
  /\ UNCHANGED <<stores, expiredSessions, sess, asked, goal, before, completed, restarts>>

\* CompleteAuthorization as it would be without sessions.Delete.
KeepSession(r) ==
  /\ sessionPc[r] = "delete"
  /\ completed' = completed \cup {<<sess[r], restarts>>}
  /\ Goto(r, "idle")
  /\ UNCHANGED <<stores, expiredSessions, sess, asked, goal, before, restarts>>

\* CompleteAuthorization: the session is deleted, at the backend too, and the
\* browser is redirected to the client with the code.
DeleteSession(r) ==
  /\ sessionPc[r] = "delete"
  /\ sessions' = sessions \ {sess[r]}
  /\ \E ok \in SaveResults :
       savedSessions' = IF ok THEN savedSessions \ {sess[r]} ELSE savedSessions
  /\ completed' = completed \cup {<<sess[r], restarts>>}
  /\ Goto(r, "idle")
  /\ UNCHANGED <<born, clock, owner, expiredSessions, sess, asked, goal, before, restarts>>

\* The process stops at any point and a new one starts with an empty map.
RestartSessions ==
  /\ restarts < MaxRestarts
  /\ restarts' = restarts + 1
  /\ sessions' = {}
  /\ sessionPc' = [r \in Req |-> "idle"]
  /\ before' = [r \in Req |-> {}]
  /\ UNCHANGED <<savedSessions, born, clock, owner, expiredSessions, sess, asked, goal,
                 completed>>

Step(r) ==
  \/ GetSession(r) \/ LookupSession(r) \/ CacheSession(r) \/ LookupByClient(r) \/ CacheByClient(r)
  \/ SetCookie(r) \/ Proceed(r) \/ IssueCode(r) \/ DeleteSession(r)

SessionNext ==
  \/ \E s \in Session, c \in App : AuthorizePOST(s, c)
  \/ \E r \in Req, s \in Session, c \in App : AuthorizeGET(r, s, c)
  \/ \E s \in Session : ExpireSession(s)
  \/ \E r \in Req, s \in Session : AuthorizeResume(r, s) \/ CompleteLogin(r, s)
  \/ \E r \in Req, c \in App : FindByClient(r, c)
  \/ \E r \in Req : Step(r)
  \/ RestartSessions

SessionSpec == SessionInit /\ [][SessionNext]_sessionVars
-----------------------------------------------------------------------------
\* A session completed by one process is never completed by a later one, also when
\* several requests complete it at once and when a crash comes between the code's Put
\* and the session's Delete: "the session should be deleted to prevent re-use".  It
\* needs a backend that applies every write: a lost DeleteSession is only logged.
CompletedInOneLife == \A x, y \in completed : x[1] = y[1] => x[2] = y[2]

\* "GetByClientID returns the most recently created pending session for the given
\* client ID": the session found is the newest unexpired one that the portal holds, in
\* memory or at vire-server.
MostRecentFound ==
  [][\A r \in Req, c \in App :
       FindByClient(r, c) /\ sessionPc'[r] = "found"
         => sess'[r] = Newest(Pending(sessions \cup savedSessions, c))]_sessionVars
=============================================================================
