----------------------------- MODULE Authorize ------------------------------
(***************************************************************************)
(* GET and POST /authorize, GET /authorize/resume and the login that       *)
(* completes an authorization (internal/auth/authorize.go, server.go),     *)
(* over the client and session stores of one process.  createAuthSession   *)
(* looks the client up, registers it when it is unknown, checks the        *)
(* redirect URI and puts the session; the browser goes on with it.         *)
(***************************************************************************)
EXTENDS ClientStore, SessionStore

ASSUME AuthorizeAssumption == App = Client

clientState == <<clients, savedClients, known, registered, clientPc, client, uri, held, opened>>
sessionState == <<stores, expiredSessions, sessionPc, sess, asked, goal, before, completed>>
authorizeVars == <<clientState, sessionState, restarts>>

AuthorizeInit == ClientInit /\ SessionInit

\* createAuthSession, up to the redirect check.
FindClient(r) ==
  /\ \/ \E c \in Client, u \in URI : sessionPc[r] = "idle" /\ LookupClient(r, c, u)
     \/ FetchClient(r) \/ CacheClient(r) \/ AutoRegister(r)
  /\ UNCHANGED sessionState

\* A URI that is not the client's ends the request; else the session is put, and a
\* GET goes on with it.
CreateAuthSession(r) ==
  /\ Check(r)
  /\ IF uri[r] \in held[r]
       THEN \E s \in Session : AuthorizePOST(s, client[r]) \/ AuthorizeGET(r, s, client[r])
       ELSE UNCHANGED sessionState

\* The other requests: a truncated GET /authorize, GET /authorize/resume, and a login.
Continue(r) ==
  /\ \/ clientPc[r] = "idle" /\ \E c \in App : FindByClient(r, c)
     \/ clientPc[r] = "idle" /\ \E s \in Session : AuthorizeResume(r, s) \/ CompleteLogin(r, s)
     \/ Step(r)
  /\ UNCHANGED clientState

Register ==
  /\ \E c \in Client, uris \in SUBSET URI : HandleRegister(c, uris)
  /\ UNCHANGED sessionState

Expire == (\E s \in Session : ExpireSession(s)) /\ UNCHANGED clientState

Restart == RestartClients /\ RestartSessions

AuthorizeNext ==
  \/ \E r \in Req : FindClient(r) \/ CreateAuthSession(r) \/ Continue(r)
  \/ Register \/ Expire \/ Restart

AuthorizeSpec == AuthorizeInit /\ [][AuthorizeNext]_authorizeVars
=============================================================================
