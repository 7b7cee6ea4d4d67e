-------------------------- MODULE AuthorizeProofs ---------------------------
(***************************************************************************)
(* Proofs about the authorize handlers and their two stores, for any sets  *)
(* of clients, redirect URIs, sessions and requests and any number of      *)
(* restarts.  Each store is treated by itself; the last section carries    *)
(* the results to the handlers that use both.                              *)
(***************************************************************************)
EXTENDS Authorize, TLAPS

(* Clients (ClientStore)                                                   *)

\* The empty stores are of their types.
LEMMA ClientTypeInit == ClientInit => ClientTypeOK
  BY RestartAssumption, SMTT(60) DEF ClientInit, ClientTypeOK

\* No step of the registration and authorize handlers leaves the types.
LEMMA ClientTypeStep == ClientTypeOK /\ [ClientNext]_clientVars => ClientTypeOK'
<1> SUFFICES ASSUME ClientTypeOK, [ClientNext]_clientVars PROVE ClientTypeOK'
  OBVIOUS
<1> USE RestartAssumption DEF ClientTypeOK
<1>1. ASSUME NEW c \in Client, NEW uris \in SUBSET URI, HandleRegister(c, uris) PROVE ClientTypeOK'
  BY <1>1, ZenonT(60) DEF HandleRegister, PutClient
<1>2. ASSUME NEW r \in Req, NEW c \in Client, NEW u \in URI, LookupClient(r, c, u)
      PROVE  ClientTypeOK'
  BY <1>2, ZenonT(60) DEF LookupClient
<1>3. ASSUME NEW r \in Req, FetchClient(r) PROVE ClientTypeOK'
  BY <1>3, SMTT(60) DEF FetchClient
<1>4. ASSUME NEW r \in Req, CacheClient(r) PROVE ClientTypeOK'
  BY <1>4, ZenonT(60) DEF CacheClient
<1>5. ASSUME NEW r \in Req, AutoRegister(r) PROVE ClientTypeOK'
  BY <1>5, SMTT(60) DEF AutoRegister, PutClient
<1>6. ASSUME NEW r \in Req, Check(r) PROVE ClientTypeOK'
  BY <1>6, SMTT(60) DEF Check
<1>7. CASE RestartClients
  BY <1>7, SMTT(60) DEF RestartClients
<1>8. CASE UNCHANGED clientVars
  BY <1>8, ZenonT(60) DEF clientVars
<1>9. QED
  BY <1>1, <1>2, <1>3, <1>4, <1>5, <1>6, <1>7, <1>8, ZenonT(60) DEF ClientNext

\* TypeOK is an invariant.
THEOREM ClientTypeCorrect == ClientSpec => []ClientTypeOK
  BY ClientTypeInit, ClientTypeStep, PTL DEF ClientSpec
-----------------------------------------------------------------------------
\* vire-server answers every call.
Reliable == ReliableSaves /\ ReliableReads

\* An identifier nobody has used yet is nowhere.
UnusedInv ==
  /\ \A c \in Client \ known : registered[c] = {} /\ savedClients[c] = {}
  /\ \A r \in Req : clientPc[r] # "idle" => client[r] \in known
  /\ \A s \in opened : s[1] \in known

\* A request for a registered client finds it and works with what was registered.
ClientHeldInv ==
  \A r \in Req : registered[client[r]] # {} =>
    /\ clientPc[r] # "register"
    /\ clientPc[r] \in {"cache", "check"} => held[r] = registered[client[r]]

KeptInv ==
  ClientTypeOK /\ UnusedInv /\ ClientHeldInv /\ RegistrationKept /\ SessionsMatchRegistration

\* Nothing is registered, stored or held at first.
LEMMA KeptInit == ClientInit => KeptInv
  BY ClientTypeInit, ZenonT(60)
     DEF ClientInit, KeptInv, UnusedInv, ClientHeldInv, RegistrationKept, SessionsMatchRegistration

\* With a reliable backend every handler step and a restart keep the invariant.
LEMMA KeptStep ==
  ASSUME Reliable, KeptInv, [ClientNext]_clientVars
  PROVE  KeptInv'
<1>1. ClientTypeOK /\ ClientTypeOK'
  BY ClientTypeStep DEF KeptInv
<1> DEFINE Inv == UnusedInv /\ ClientHeldInv /\ RegistrationKept /\ SessionsMatchRegistration
<1>2. UnusedInv /\ ClientHeldInv /\ RegistrationKept /\ SessionsMatchRegistration
  BY DEF KeptInv
<1> SUFFICES Inv'
  BY <1>1 DEF KeptInv
<1>0. SaveResults = {TRUE} /\ ReadResults = {TRUE}
  BY ZenonT(60) DEF Reliable, ReliableSaves, ReliableReads
<1> USE DEF ClientTypeOK, UnusedInv, ClientHeldInv, RegistrationKept, SessionsMatchRegistration
<1>3. ASSUME NEW c \in Client, NEW uris \in SUBSET URI, HandleRegister(c, uris) PROVE Inv'
  <2>1. /\ c \notin known /\ known' = known \cup {c}
        /\ clients' = [clients EXCEPT ![c] = uris]
        /\ savedClients' = [savedClients EXCEPT ![c] = uris]
        /\ registered' = [registered EXCEPT ![c] = uris]
        /\ UNCHANGED <<clientPc, client, uri, held, opened, restarts>>
    BY <1>0, <1>1, <1>3, ZenonT(60) DEF HandleRegister, PutClient
  <2>2. UnusedInv' /\ RegistrationKept' /\ SessionsMatchRegistration'
    BY <1>1, <1>2, <2>1, SMTT(60)
  <2>3. ClientHeldInv'
    BY <1>1, <1>2, <2>1, SMTT(60)
  <2>4. QED
    BY <2>2, <2>3, ZenonT(60)
<1>4. ASSUME NEW r \in Req, NEW c \in Client, NEW u \in URI, LookupClient(r, c, u) PROVE Inv'
  BY <1>1, <1>2, <1>4, SMTT(60) DEF LookupClient
<1>5. ASSUME NEW r \in Req, FetchClient(r) PROVE Inv'
  BY <1>0, <1>1, <1>2, <1>5, SMTT(60) DEF FetchClient
<1>6. ASSUME NEW r \in Req, CacheClient(r) PROVE Inv'
  BY <1>1, <1>2, <1>6, SMTT(60) DEF CacheClient
<1>7. ASSUME NEW r \in Req, AutoRegister(r) PROVE Inv'
  BY <1>1, <1>2, <1>7, SMTT(60) DEF AutoRegister, PutClient
<1>8. ASSUME NEW r \in Req, Check(r) PROVE Inv'
  BY <1>1, <1>2, <1>8, SMTT(60) DEF Check
<1>9. CASE RestartClients
  BY <1>1, <1>2, <1>9, ZenonT(60) DEF RestartClients
<1>10. CASE UNCHANGED clientVars
  BY <1>1, <1>2, <1>10 DEF clientVars
<1>11. QED
  BY <1>3, <1>4, <1>5, <1>6, <1>7, <1>8, <1>9, <1>10, ZenonT(60) DEF ClientNext

\* Hence it always holds.
LEMMA KeptInvariant == ASSUME Reliable PROVE ClientSpec => []KeptInv
<1>1. KeptInv /\ [ClientNext]_clientVars => KeptInv'
  BY KeptStep
<1>2. QED
  BY <1>1, KeptInit, PTL DEF ClientSpec
-----------------------------------------------------------------------------
(* Pending authorizations (SessionStore)                                   *)

INSTANCE WellFoundedInduction

\* Creation ranks never exceed the clock.
BornInv == \A s \in Session : born[s] <= clock

\* A non-empty set of sessions has a newest one, because ranks are bounded.
LEMMA NewestExists ==
  ASSUME SessionTypeOK, BornInv, NEW S, S \subseteq Session, S # {}
  PROVE  Newest(S) \in S
<1> DEFINE Gap == {clock - born[s] : s \in S}
           R == {ss \in Nat \X Nat : ss[1] < ss[2]}
<1>1. Gap \subseteq Nat /\ Gap # {}
  BY DEF SessionTypeOK, BornInv
<1>2. IsWellFoundedOn(R, Nat)
  BY NatLessThanWellFounded DEF OpToRel
<1>3. PICK n \in Gap : \A m \in Gap : <<m, n>> \notin R
  <2> HIDE DEF R, Gap
  <2>1. QED
    BY <1>1, <1>2, WFMin, ZenonT(60)
<1>4. ASSUME NEW m \in Gap PROVE ~(m < n)
  <2>1. m \in Nat /\ n \in Nat /\ <<m, n>> \notin R
    BY <1>1, <1>3, SMTT(60)
  <2>2. <<m, n>> \in Nat \X Nat
    BY <2>1, SMTT(60)
  <2>3. QED
    BY <2>1, <2>2, SMTT(60)
<1>5. PICK s \in S : n = clock - born[s]
  BY <1>3, SMTT(60)
<1>6. ASSUME NEW t \in S PROVE born[t] <= born[s]
  <2>1. ~(clock - born[t] < clock - born[s])
    BY <1>4, <1>5, ZenonT(60)
  <2>2. born[t] \in Nat /\ born[s] \in Nat /\ clock \in Nat
    BY SMTT(60) DEF SessionTypeOK
  <2>3. QED
    BY <2>1, <2>2
<1>7. QED
  BY <1>6, ZenonT(60) DEF Newest
-----------------------------------------------------------------------------
TypeInv == SessionTypeOK /\ BornInv

\* The empty stores are of their types.
LEMMA SessionTypeInit == SessionInit => TypeInv
  BY RestartAssumption, SMTT(60)
    DEF SessionInit, SessionTypeOK, TypeInv, BornInv

\* SessionStore.Put keeps the types of memory and backend.
LEMMA PutType ==
  ASSUME TypeInv, NEW s \in Session, NEW c \in App, PutSession(s, c)
  PROVE  /\ sessions' \subseteq Session /\ savedSessions' \subseteq Session
         /\ born' \in [Session -> Nat] /\ clock' \in Nat
         /\ owner' \in [Session -> App]
         /\ expiredSessions \subseteq {t \in Session : born'[t] > 0}
         /\ BornInv'
<1> USE DEF TypeInv, SessionTypeOK
<1>1. born' \in [Session -> Nat] /\ clock' \in Nat /\ owner' \in [Session -> App]
  BY SMTT(60) DEF PutSession
<1>2. sessions' \subseteq Session /\ savedSessions' \subseteq Session
  BY SMTT(60) DEF PutSession
<1>3. BornInv'
  BY SMTT(60) DEF PutSession, BornInv
<1>4. expiredSessions \subseteq {t \in Session : born'[t] > 0}
  BY SMTT(60) DEF PutSession
<1>5. QED
  BY <1>1, <1>2, <1>3, <1>4, ZenonT(60)

\* No step of the authorize handlers and of CompleteAuthorization leaves the types.
LEMMA SessionTypeStep == TypeInv /\ [SessionNext]_sessionVars => TypeInv'
<1> SUFFICES ASSUME TypeInv, [SessionNext]_sessionVars PROVE TypeInv'
  BY ZenonT(60)
<1> USE RestartAssumption DEF TypeInv, SessionTypeOK, Goto, stores
<1>1. ASSUME NEW s \in Session, NEW c \in App, AuthorizePOST(s, c) PROVE TypeInv'
  BY <1>1, PutType, ZenonT(60) DEF AuthorizePOST
<1>2. ASSUME NEW r \in Req, NEW s \in Session, NEW c \in App, AuthorizeGET(r, s, c)
      PROVE  TypeInv'
  BY <1>2, PutType, ZenonT(60) DEF AuthorizeGET, Begin
<1>3. ASSUME NEW s \in Session, ExpireSession(s) PROVE TypeInv'
  BY <1>3, ZenonT(60) DEF ExpireSession, Existing, BornInv
<1>4. ASSUME NEW r \in Req, NEW s \in Session, NEW g \in {"resume", "complete"}, Visit(r, s, g)
      PROVE  TypeInv'
  BY <1>4, ZenonT(60) DEF Visit, Begin, BornInv
<1>5. ASSUME NEW r \in Req, NEW c \in App, FindByClient(r, c) PROVE TypeInv'
  <2>1. Pending(sessions, c) # {} => Newest(Pending(sessions, c)) \in Session
    BY NewestExists, SMTT(60) DEF Pending
  <2>2. QED
    BY <1>5, <2>1, SMTT(60) DEF FindByClient, Begin, BornInv
<1>6. ASSUME NEW r \in Req, LookupByClient(r) PROVE TypeInv'
  <2> DEFINE theirs == {s \in savedSessions : owner[s] = asked[r]}
  <2>1. theirs # {} => Newest(theirs) \in Session
    BY NewestExists, SMTT(60)
  <2>2. QED
    BY <1>6, <2>1, ZenonT(60) DEF LookupByClient, BornInv
<1>7. ASSUME NEW r \in Req,
             \/ GetSession(r) \/ LookupSession(r) \/ CacheSession(r) \/ CacheByClient(r)
                            \/ SetCookie(r) \/ Proceed(r) \/ IssueCode(r)
      PROVE  TypeInv'
  BY <1>7, ZenonT(60)
    DEF GetSession, LookupSession, CacheSession, CacheByClient, SetCookie, Proceed,
              IssueCode, BornInv
<1>8. ASSUME NEW r \in Req, DeleteSession(r) PROVE TypeInv'
  BY <1>8, SMTT(60) DEF DeleteSession, BornInv
<1>9. CASE RestartSessions
  BY <1>9, SMTT(60) DEF RestartSessions, BornInv
<1>10. CASE UNCHANGED sessionVars
  BY <1>10 DEF sessionVars, BornInv
<1>11. QED
  BY <1>1, <1>2, <1>3, <1>4, <1>5, <1>6, <1>7, <1>8, <1>9, <1>10, ZenonT(60)
     DEF SessionNext, Step, AuthorizeResume, CompleteLogin

\* TypeOK is an invariant.
THEOREM SessionTypeCorrect == SessionSpec => []SessionTypeOK
<1>1. TypeInv => SessionTypeOK
  BY ZenonT(60) DEF TypeInv
<1>2. QED
  BY <1>1, SessionTypeInit, SessionTypeStep, PTL DEF SessionSpec
-----------------------------------------------------------------------------
\* Where a request has a session to work on.
Working == {"get", "lookup", "cache", "bycache", "found", "delete"}

\* A session that is stored or worked on was created.
StoredInv ==
  /\ \A s \in sessions \cup savedSessions : born[s] > 0
  /\ \A r \in Req : sessionPc[r] \in Working => born[sess[r]] > 0

\* What the process still has of a session: it is in the map, or with a request that
\* was given it.
Around(s) ==
  \/ s \in sessions
  \/ \E r \in Req : sess[r] = s /\ sessionPc[r] \in {"cache", "bycache", "found", "delete"}

\* A completed session is gone from the backend, and after a restart nothing of it is
\* left in the process.
GoneInv ==
  \A x \in completed :
    /\ born[x[1]] > 0 /\ x[1] \notin savedSessions
    /\ x[2] <= restarts
    /\ x[2] < restarts => ~Around(x[1])

OnceInv == TypeInv /\ StoredInv /\ GoneInv /\ CompletedInOneLife

\* No session is stored or completed at first.
LEMMA OnceInit == SessionInit => OnceInv
  BY SessionTypeInit, SMTT(60)
  DEF SessionInit, OnceInv, StoredInv, GoneInv, CompletedInOneLife, Working

\* A step that completes nothing keeps the rest if the sessions that are completed do
\* not come back: not to the backend, and to the process only if it had them.
LEMMA NothingCompleted ==
  ASSUME OnceInv, TypeInv', StoredInv', UNCHANGED <<completed, restarts>>,
         \A s \in Session : born[s] > 0 => born'[s] > 0,
         \A s \in Session : born[s] > 0 /\ s \notin savedSessions =>
           s \notin savedSessions' /\ (Around(s)' => Around(s))
  PROVE  OnceInv'
<1>1. \A x \in completed : x[1] \in Session
  BY DEF OnceInv, TypeInv, SessionTypeOK
<1>2. GoneInv'
  BY <1>1, SMTT(60) DEF OnceInv, GoneInv
<1>3. CompletedInOneLife'
  BY DEF OnceInv, CompletedInOneLife
<1> QED
  BY <1>2, <1>3 DEF OnceInv

\* The request that deletes a session joins those that completed it in this life.
LEMMA CompletionStep ==
  ASSUME ReliableSaves, OnceInv, TypeInv', NEW r \in Req, DeleteSession(r)
  PROVE  OnceInv'
<1> DEFINE s == sess[r]
           x == <<s, restarts>>
<1>t. SessionTypeOK
  BY DEF OnceInv, TypeInv
<1>1. /\ sessionPc[r] = "delete" /\ sessionPc' = [sessionPc EXCEPT ![r] = "idle"]
      /\ sessions' = sessions \ {s} /\ savedSessions' = savedSessions \ {s}
      /\ completed' = completed \cup {x}
      /\ UNCHANGED <<born, sess, restarts>>
  BY ZenonT(60) DEF DeleteSession, ReliableSaves, Goto
<1>2. born[s] > 0
  BY <1>1 DEF OnceInv, StoredInv, Working
<1>3. \A u : Around(u)' => Around(u)
  BY <1>t, <1>1, SMTT(60) DEF Around, SessionTypeOK
<1>4. restarts \in Nat /\ \A y \in completed : y[2] \in Nat
  BY <1>t, RestartAssumption DEF SessionTypeOK
<1>5. StoredInv'
  BY <1>t, <1>1, SMTT(60) DEF OnceInv, StoredInv, SessionTypeOK, Working
<1>6. GoneInv'
  <2> SUFFICES ASSUME NEW y \in completed'
               PROVE  /\ born'[y[1]] > 0 /\ y[1] \notin savedSessions'
                      /\ y[2] <= restarts'
                      /\ y[2] < restarts' => ~Around(y[1])'
    BY DEF GoneInv
  <2>1. CASE y = x
    BY <1>1, <1>2, <1>4, <2>1
  <2>2. CASE y \in completed
    BY <1>1, <1>3, <2>2, SMTT(60) DEF OnceInv, GoneInv
  <2> QED
    BY <1>1, <2>1, <2>2
<1>7. \A y \in completed : y[1] = s => y[2] = restarts
  <2> SUFFICES ASSUME NEW y \in completed, y[1] = s PROVE y[2] = restarts
    OBVIOUS
  <2>1. Around(s)
    BY <1>1 DEF Around
  <2>2. y[2] <= restarts /\ ~(y[2] < restarts)
    BY <2>1, SMTT(60) DEF OnceInv, GoneInv
  <2> QED
    BY <1>4, <2>2
<1>8. CompletedInOneLife'
  BY <1>1, <1>7, SMTT(60) DEF OnceInv, CompletedInOneLife
<1> QED
  BY <1>5, <1>6, <1>8 DEF OnceInv

\* The newest of a non-empty set of sessions is one of them.
LEMMA NewestOf ==
  ASSUME OnceInv, NEW S \in SUBSET Session, S # {}
  PROVE  Newest(S) \in S
  BY NewestExists DEF OnceInv, TypeInv

\* A step that only moves one request and leaves stores and creation as they are keeps
\* the invariant, if the session it is given was its own, in the map or saved.
LEMMA MoveStep ==
  ASSUME OnceInv, TypeInv', NEW r \in Req, NEW where, NEW s \in Session, born[s] > 0,
         sessionPc' = [sessionPc EXCEPT ![r] = where], sess' = [sess EXCEPT ![r] = s],
         where \in {"cache", "bycache", "found", "delete"} =>
           Around(s) \/ s \in savedSessions,
         UNCHANGED <<sessions, savedSessions, born, completed, restarts>>
  PROVE  OnceInv'
<1>t. SessionTypeOK
  BY DEF OnceInv, TypeInv
<1>1. StoredInv'
  BY <1>t, SMTT(60) DEF OnceInv, StoredInv, SessionTypeOK
<1>2. \A u : u \notin savedSessions /\ Around(u)' => Around(u)
  BY <1>t, SMTT(60) DEF Around, SessionTypeOK
<1> QED
  BY <1>1, <1>2, NothingCompleted

\* A step that ends a request, or lets it look elsewhere, keeps the invariant.
LEMMA LeaveStep ==
  ASSUME OnceInv, TypeInv', NEW r \in Req, NEW where \in {"idle", "bylookup"},
         sessionPc' = [sessionPc EXCEPT ![r] = where],
         UNCHANGED <<sess, sessions, savedSessions, born, completed, restarts>>
  PROVE  OnceInv'
<1>t. SessionTypeOK
  BY DEF OnceInv, TypeInv
<1>1. StoredInv'
  BY <1>t, SMTT(60) DEF OnceInv, StoredInv, SessionTypeOK, Working
<1>2. \A u : Around(u)' => Around(u)
  BY <1>t, SMTT(60) DEF Around, SessionTypeOK
<1> QED
  BY <1>1, <1>2, NothingCompleted

\* A new session is none of the completed ones.
LEMMA PutStep ==
  ASSUME OnceInv, TypeInv', NEW s \in Session, NEW c \in App, PutSession(s, c),
         \/ UNCHANGED <<sessionPc, sess>>
         \/ \E r \in Req : /\ sessionPc' = [sessionPc EXCEPT ![r] = "found"]
                           /\ sess' = [sess EXCEPT ![r] = s],
         UNCHANGED <<completed, restarts>>
  PROVE  OnceInv'
<1>t. SessionTypeOK
  BY DEF OnceInv, TypeInv
<1>1. /\ ~(born[s] > 0) /\ born' = [born EXCEPT ![s] = clock + 1] /\ clock \in Nat
      /\ sessions' = sessions \cup {s}
      /\ savedSessions' = savedSessions \cup {s} \/ savedSessions' = savedSessions
  BY <1>t DEF PutSession, Existing, SessionTypeOK
<1>2. \A u \in Session : born[u] > 0 => born'[u] > 0
  BY <1>t, <1>1, SMTT(60) DEF SessionTypeOK
<1>3. born'[s] > 0
  BY <1>t, <1>1, SMTT(60) DEF SessionTypeOK
<1>4. StoredInv'
  BY <1>t, <1>1, <1>2, <1>3, SMTT(60) DEF OnceInv, StoredInv, SessionTypeOK
<1>5. \A u : u # s /\ Around(u)' => Around(u)
  BY <1>t, <1>1, SMTT(60) DEF Around, SessionTypeOK
<1> QED
  BY <1>1, <1>2, <1>4, <1>5, NothingCompleted

\* Every step keeps the invariant when the backend applies every write.
LEMMA OnceStep ==
  ASSUME ReliableSaves, OnceInv, TypeInv', [SessionNext]_sessionVars
  PROVE  OnceInv'
<1>t. SessionTypeOK
  BY DEF OnceInv, TypeInv
<1>w. \A r \in Req : sessionPc[r] \in Working => born[sess[r]] > 0
  BY DEF OnceInv, StoredInv
<1>s. \A r \in Req : sess[r] \in Session /\ sess = [sess EXCEPT ![r] = sess[r]]
  BY <1>t DEF SessionTypeOK
<1>b. \A s \in sessions \cup savedSessions : s \in Session /\ born[s] > 0
  BY <1>t DEF OnceInv, StoredInv, SessionTypeOK
<1>1. ASSUME NEW s \in Session, NEW c \in App, AuthorizePOST(s, c) PROVE OnceInv'
  BY <1>1, PutStep DEF AuthorizePOST
<1>2. ASSUME NEW r \in Req, NEW s \in Session, NEW c \in App, AuthorizeGET(r, s, c)
      PROVE  OnceInv'
  BY <1>2, PutStep DEF AuthorizeGET, Goto
<1>3. ASSUME NEW s \in Session, ExpireSession(s) PROVE OnceInv'
  <2>1. UNCHANGED <<sessions, savedSessions, born, sessionPc, sess, completed, restarts>>
    BY <1>3 DEF ExpireSession, stores
  <2>2. StoredInv' /\ \A u : Around(u)' = Around(u)
    BY <2>1 DEF OnceInv, StoredInv, Around
  <2> QED
    BY <2>1, <2>2, NothingCompleted
<1>4. ASSUME NEW r \in Req, NEW s \in Session, AuthorizeResume(r, s) \/ CompleteLogin(r, s)
      PROVE  OnceInv'
  <2>1. /\ born[s] > 0 /\ sess' = [sess EXCEPT ![r] = s]
        /\ sessionPc' = [sessionPc EXCEPT ![r] = "get"]
        /\ UNCHANGED <<sessions, savedSessions, born, completed, restarts>>
    BY <1>4 DEF AuthorizeResume, CompleteLogin, Visit, Existing, Goto, stores
  <2> QED
    BY <2>1, MoveStep
<1>5. ASSUME NEW r \in Req, NEW c \in App, FindByClient(r, c) PROVE OnceInv'
  <2> DEFINE mine == Pending(sessions, c)
  <2>1. UNCHANGED <<sessions, savedSessions, born, completed, restarts>>
    BY <1>5 DEF FindByClient, stores
  <2>2. CASE mine = {}
    <3>1. sessionPc' = [sessionPc EXCEPT ![r] = "bylookup"] /\ sess' = sess
      BY <1>5, <2>2, ZenonT(60) DEF FindByClient, Goto
    <3> QED
      BY <2>1, <3>1, LeaveStep
  <2>3. CASE mine # {}
    <3>1. /\ sessionPc' = [sessionPc EXCEPT ![r] = "found"]
          /\ sess' = [sess EXCEPT ![r] = Newest(mine)]
      BY <1>5, <2>3, ZenonT(60) DEF FindByClient, Goto
    <3>2. Newest(mine) \in sessions
      <4>1. mine \in SUBSET Session /\ mine \subseteq sessions
        BY <1>t DEF Pending, SessionTypeOK
      <4> HIDE DEF mine
      <4> QED
        BY <2>3, <4>1, NewestOf
    <3> HIDE DEF mine
    <3>3. Newest(mine) \in Session /\ born[Newest(mine)] > 0 /\ Around(Newest(mine))
      BY <1>b, <3>2 DEF Around
    <3> QED
      BY <2>1, <3>1, <3>3, MoveStep
  <2> QED
    BY <2>2, <2>3
<1>6. ASSUME NEW r \in Req, LookupByClient(r) PROVE OnceInv'
  <2> DEFINE theirs == {s \in savedSessions : owner[s] = asked[r]}
  <2>1. UNCHANGED <<sessions, savedSessions, born, completed, restarts>>
    BY <1>6 DEF LookupByClient, stores
  <2>2. \/ sessionPc' = [sessionPc EXCEPT ![r] = "idle"] /\ sess' = sess
        \/ /\ theirs # {}
           /\ sessionPc' = [sessionPc EXCEPT ![r] = "bycache"]
           /\ sess' = [sess EXCEPT ![r] = Newest(theirs)]
    BY <1>6, ZenonT(60) DEF LookupByClient, Goto
  <2>3. theirs \in SUBSET Session /\ theirs \subseteq savedSessions
    BY <1>t DEF SessionTypeOK
  <2> HIDE DEF theirs
  <2>4. CASE sessionPc' = [sessionPc EXCEPT ![r] = "idle"] /\ sess' = sess
    BY <2>1, <2>4, LeaveStep
  <2>5. CASE /\ theirs # {}
             /\ sessionPc' = [sessionPc EXCEPT ![r] = "bycache"]
             /\ sess' = [sess EXCEPT ![r] = Newest(theirs)]
    <3>1. Newest(theirs) \in savedSessions
      BY <2>3, <2>5, NewestOf
    <3>2. Newest(theirs) \in Session /\ born[Newest(theirs)] > 0
      BY <1>b, <3>1
    <3> QED
      BY <2>1, <2>5, <3>1, <3>2, MoveStep
  <2> QED
    BY <2>2, <2>4, <2>5
<1>7. ASSUME NEW r \in Req, GetSession(r) \/ LookupSession(r) PROVE OnceInv'
  <2>1. /\ sessionPc[r] \in {"get", "lookup"}
        /\ \/ sessionPc' = [sessionPc EXCEPT ![r] = "idle"]
           \/ sessionPc' = [sessionPc EXCEPT ![r] = "lookup"]
           \/ sess[r] \in sessions /\ sessionPc' = [sessionPc EXCEPT ![r] = "found"]
           \/ sess[r] \in savedSessions /\ sessionPc' = [sessionPc EXCEPT ![r] = "cache"]
        /\ UNCHANGED <<sess, sessions, savedSessions, born, completed, restarts>>
    BY <1>7, ZenonT(60) DEF GetSession, LookupSession, Goto, stores
  <2>2. born[sess[r]] > 0
    BY <1>w, <2>1 DEF Working
  <2>3. CASE sessionPc' = [sessionPc EXCEPT ![r] = "idle"]
    BY <2>1, <2>3, LeaveStep
  <2>4. CASE sessionPc' = [sessionPc EXCEPT ![r] = "lookup"]
    BY <1>s, <2>1, <2>2, <2>4, MoveStep
  <2>5. CASE sess[r] \in sessions /\ sessionPc' = [sessionPc EXCEPT ![r] = "found"]
    <3>1. Around(sess[r])
      BY <2>5 DEF Around
    <3> QED
      BY <1>s, <2>1, <2>2, <2>5, <3>1, MoveStep
  <2>6. CASE sess[r] \in savedSessions /\ sessionPc' = [sessionPc EXCEPT ![r] = "cache"]
    BY <1>s, <2>1, <2>2, <2>6, MoveStep
  <2> QED
    BY <2>1, <2>3, <2>4, <2>5, <2>6
<1>8. ASSUME NEW r \in Req, CacheSession(r) \/ CacheByClient(r) PROVE OnceInv'
  <2>1. /\ sessionPc[r] \in {"cache", "bycache"} /\ sessions' = sessions \cup {sess[r]}
        /\ \E where \in {"idle", "found"} : sessionPc' = [sessionPc EXCEPT ![r] = where]
        /\ UNCHANGED <<sess, savedSessions, born, completed, restarts>>
    BY <1>8, ZenonT(60) DEF CacheSession, CacheByClient, Goto
  <2>2. StoredInv'
    BY <1>t, <1>w, <2>1, SMTT(60) DEF OnceInv, StoredInv, SessionTypeOK, Working
  <2>3. \A u : Around(u)' => Around(u)
    BY <1>t, <2>1, SMTT(60) DEF Around, SessionTypeOK
  <2> QED
    BY <2>1, <2>2, <2>3, NothingCompleted
<1>9. ASSUME NEW r \in Req, SetCookie(r) \/ Proceed(r) \/ IssueCode(r) PROVE OnceInv'
  <2>1. /\ sessionPc[r] = "found"
        /\ \/ sessionPc' = [sessionPc EXCEPT ![r] = "idle"]
           \/ sessionPc' = [sessionPc EXCEPT ![r] = "get"]
           \/ sessionPc' = [sessionPc EXCEPT ![r] = "delete"]
        /\ UNCHANGED <<sess, sessions, savedSessions, born, completed, restarts>>
    BY <1>9, ZenonT(60) DEF SetCookie, Proceed, IssueCode, Goto, stores
  <2>2. born[sess[r]] > 0 /\ Around(sess[r])
    BY <1>w, <2>1 DEF Working, Around
  <2>3. CASE sessionPc' = [sessionPc EXCEPT ![r] = "idle"]
    BY <2>1, <2>3, LeaveStep
  <2>4. CASE sessionPc' = [sessionPc EXCEPT ![r] = "get"]
    BY <1>s, <2>1, <2>2, <2>4, MoveStep
  <2>5. CASE sessionPc' = [sessionPc EXCEPT ![r] = "delete"]
    BY <1>s, <2>1, <2>2, <2>5, MoveStep
  <2> QED
    BY <2>1, <2>3, <2>4, <2>5
<1>10. ASSUME NEW r \in Req, DeleteSession(r) PROVE OnceInv'
  BY <1>10, CompletionStep
<1>11. CASE RestartSessions
  <2>1. /\ restarts' = restarts + 1 /\ sessions' = {} /\ sessionPc' = [r \in Req |-> "idle"]
        /\ UNCHANGED <<savedSessions, born, sess, completed>>
    BY <1>11 DEF RestartSessions
  <2>2. StoredInv' /\ \A u : ~Around(u)'
    BY <2>1 DEF OnceInv, StoredInv, Around, Working
  <2>3. restarts \in Nat /\ \A x \in completed : x[2] \in Nat
    BY <1>t, RestartAssumption DEF SessionTypeOK
  <2>4. GoneInv'
    BY <2>1, <2>2, <2>3, SMTT(60) DEF OnceInv, GoneInv
  <2>5. CompletedInOneLife'
    BY <2>1 DEF OnceInv, CompletedInOneLife
  <2> QED
    BY <2>2, <2>4, <2>5 DEF OnceInv
<1>12. CASE UNCHANGED sessionVars
  <2>1. UNCHANGED <<sessions, savedSessions, born, sessionPc, sess, completed, restarts>>
    BY <1>12 DEF sessionVars, stores
  <2>2. StoredInv' /\ \A u : Around(u)' = Around(u)
    BY <2>1 DEF OnceInv, StoredInv, Around
  <2> QED
    BY <2>1, <2>2, NothingCompleted
<1> QED
  BY <1>1, <1>2, <1>3, <1>4, <1>5, <1>6, <1>7, <1>8, <1>9, <1>10, <1>11, <1>12
  DEF SessionNext, Step

\* So it holds always.
LEMMA OnceInvariant == ASSUME ReliableSaves PROVE SessionSpec => []OnceInv
<1>1. OnceInv /\ [SessionNext]_sessionVars => OnceInv'
  BY OnceStep, SessionTypeStep DEF OnceInv
<1> QED
  BY <1>1, OnceInit, PTL DEF SessionSpec
-----------------------------------------------------------------------------
(* The handlers                                                            *)

\* A step of the handlers is a step of the client store or none of its business,
LEMMA AuthorizeClientStep == [AuthorizeNext]_authorizeVars => [ClientNext]_clientVars
<1> SUFFICES ASSUME [AuthorizeNext]_authorizeVars PROVE [ClientNext]_clientVars
  OBVIOUS
<1>1. ASSUME NEW r \in Req, FindClient(r) PROVE ClientNext
  BY <1>1, ZenonT(60) DEF FindClient, ClientNext
<1>2. ASSUME NEW r \in Req, CreateAuthSession(r) PROVE ClientNext
  BY <1>2 DEF CreateAuthSession, ClientNext
<1>3. ASSUME NEW r \in Req, Continue(r) PROVE UNCHANGED clientVars
  <2>1. UNCHANGED restarts
    BY <1>3, ZenonT(60)
    DEF Continue, Step, FindByClient, AuthorizeResume, CompleteLogin, Visit, GetSession,
        LookupSession, CacheSession, LookupByClient, CacheByClient, SetCookie, Proceed,
        IssueCode, DeleteSession
  <2> QED
    BY <1>3, <2>1 DEF Continue, clientState, clientVars
<1>4. CASE Register \/ Expire
  BY <1>4, ZenonT(60) DEF Register, Expire, ExpireSession, ClientNext, clientState, clientVars
<1>5. CASE Restart
  BY <1>5 DEF Restart, ClientNext
<1>6. CASE UNCHANGED authorizeVars
  BY <1>6 DEF authorizeVars, clientState, clientVars
<1> QED
  BY <1>1, <1>2, <1>3, <1>4, <1>5, <1>6 DEF AuthorizeNext

\* and, because a request's client_id is an application, the same of the session store.
LEMMA AuthorizeSessionStep ==
  ClientTypeOK /\ [AuthorizeNext]_authorizeVars => [SessionNext]_sessionVars
<1> SUFFICES ASSUME ClientTypeOK, [AuthorizeNext]_authorizeVars PROVE [SessionNext]_sessionVars
  OBVIOUS
<1>1. ASSUME NEW r \in Req, FindClient(r) PROVE UNCHANGED sessionVars
  <2>1. UNCHANGED restarts
    BY <1>1, ZenonT(60) DEF FindClient, LookupClient, FetchClient, CacheClient, AutoRegister
  <2> QED
    BY <1>1, <2>1 DEF FindClient, sessionState, sessionVars
<1>2. ASSUME NEW r \in Req, CreateAuthSession(r) PROVE [SessionNext]_sessionVars
  <2>1. client[r] \in App /\ UNCHANGED restarts
    BY <1>2, AuthorizeAssumption DEF CreateAuthSession, Check, ClientTypeOK
  <2>2. \/ \E s \in Session : AuthorizePOST(s, client[r]) \/ AuthorizeGET(r, s, client[r])
        \/ UNCHANGED sessionState
    BY <1>2 DEF CreateAuthSession
  <2>3. CASE UNCHANGED sessionState
    BY <2>1, <2>3 DEF sessionState, sessionVars
  <2> QED
    BY <2>1, <2>2, <2>3 DEF SessionNext
<1>3. ASSUME NEW r \in Req, Continue(r) PROVE SessionNext
  BY <1>3, ZenonT(60) DEF Continue, SessionNext
<1>4. CASE Register
  BY <1>4 DEF Register, HandleRegister, sessionState, sessionVars
<1>5. CASE Expire
  BY <1>5 DEF Expire, SessionNext
<1>6. CASE Restart
  BY <1>6 DEF Restart, SessionNext
<1>7. CASE UNCHANGED authorizeVars
  BY <1>7 DEF authorizeVars, sessionState, sessionVars
<1> QED
  BY <1>1, <1>2, <1>3, <1>4, <1>5, <1>6, <1>7 DEF AuthorizeNext

\* The handlers run each store as that store's own specification says.
LEMMA AuthorizeImplements == AuthorizeSpec => ClientSpec /\ SessionSpec
<1>1. AuthorizeSpec => ClientSpec
  BY AuthorizeClientStep, PTL DEF AuthorizeSpec, AuthorizeInit, ClientSpec
<1>2. AuthorizeSpec => SessionSpec
  BY <1>1, ClientTypeCorrect, AuthorizeSessionStep, PTL
  DEF AuthorizeSpec, AuthorizeInit, SessionSpec
<1> QED
  BY <1>1, <1>2, PTL

\* With a backend that answers, an acknowledged registration is never replaced, by the
\* auto-registration of createAuthSession, a late read-through or a restart.
THEOREM RegistrationsAreKept == ASSUME Reliable PROVE AuthorizeSpec => []RegistrationKept
<1>1. KeptInv => RegistrationKept
  BY DEF KeptInv
<1> QED
  BY <1>1, AuthorizeImplements, KeptInvariant, PTL

\* With a backend that answers, createAuthSession opens no session for a redirect URI
\* that its registered client did not register.
THEOREM RedirectsAreRegistered ==
  ASSUME Reliable PROVE AuthorizeSpec => []SessionsMatchRegistration
<1>1. KeptInv => SessionsMatchRegistration
  BY DEF KeptInv
<1> QED
  BY <1>1, AuthorizeImplements, KeptInvariant, PTL

\* With applied writes, a session that CompleteAuthorization completed in one process
\* life is completed in no other, however requests overlap, whatever reads fail and
\* wherever the crash comes.
THEOREM SessionCompletedInOneLife ==
  ASSUME ReliableSaves PROVE AuthorizeSpec => []CompletedInOneLife
<1>1. OnceInv => CompletedInOneLife
  BY DEF OnceInv
<1> QED
  BY <1>1, AuthorizeImplements, OnceInvariant, PTL
=============================================================================
