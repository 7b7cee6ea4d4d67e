---------------------------- MODULE ClientStore ----------------------------
(***************************************************************************)
(* OAuth clients: ClientStore (internal/auth/store.go), dynamic client     *)
(* registration (HandleRegister, internal/auth/dcr.go) and the lookup,     *)
(* auto-registration and redirect check of createAuthSession               *)
(* (internal/auth/authorize.go).                                           *)
(*                                                                         *)
(*   idle --LookupClient--> check | fetch     Get: the map, under s.mu     *)
(*   fetch --FetchClient--> cache | register  Get: GetClient, no lock      *)
(*   cache --CacheClient--> check             Get: store it                *)
(*   register --AutoRegister--> check         Put of a client made up from *)
(*                                            the request                  *)
(*   check --Check--> idle                    sessions.Put, or an error    *)
(*                                                                         *)
(* A client is its set of redirect URIs, which is never empty: {} stands   *)
(* for "no such client".  The other fields of OAuthClient are never read.  *)
(***************************************************************************)
EXTENDS OAuthBackend

CONSTANTS Client,   \* client identifiers
          URI       \* redirect URIs

VARIABLES clients,       \* the in-memory map
          savedClients,  \* the clients vire-server holds
          known,         \* identifiers some request has used or been given
          registered,    \* history: the URIs acknowledged by POST /register
          clientPc,      \* where each authorize request is
          client, uri,   \* its client_id and redirect_uri
          held,          \* the client record it works with
          opened         \* the <<client, uri>> of every session created

clientVars == <<clients, savedClients, known, registered, clientPc, client, uri, held,
                opened, restarts>>

ClientTypeOK ==
  /\ clients \in [Client -> SUBSET URI]
  /\ savedClients \in [Client -> SUBSET URI]
  /\ known \subseteq Client
  /\ registered \in [Client -> SUBSET URI]
  /\ clientPc \in [Req -> {"idle", "fetch", "cache", "register", "check"}]
  /\ client \in [Req -> Client]
  /\ uri \in [Req -> URI]
  /\ held \in [Req -> SUBSET URI]
  /\ opened \subseteq Client \X URI
  /\ restarts \in 0..MaxRestarts

ClientInit ==
  /\ clients = [c \in Client |-> {}]
  /\ savedClients = [c \in Client |-> {}]
  /\ known = {}
  /\ registered = [c \in Client |-> {}]
  /\ clientPc = [r \in Req |-> "idle"]
  /\ client \in [Req -> Client]
  /\ uri \in [Req -> URI]
  /\ held = [r \in Req |-> {}]
  /\ opened = {}
  /\ restarts = 0
-----------------------------------------------------------------------------
\* ClientStore.Put, written through under the lock.
PutClient(c, uris) ==
  /\ clients' = [clients EXCEPT ![c] = uris]
  /\ \E ok \in SaveResults : savedClients' = [savedClients EXCEPT ![c] = IF ok THEN uris ELSE @]

\* POST /register with a non-empty list of URIs; the identifier is a new UUID.
HandleRegister(c, uris) ==
  /\ c \notin known
  /\ uris # {}
  /\ known' = known \cup {c}
  /\ registered' = [registered EXCEPT ![c] = uris]
  /\ PutClient(c, uris)
  /\ UNCHANGED <<clientPc, client, uri, held, opened, restarts>>

\* GET or POST /authorize with every parameter present reaches
\* createAuthSession, which looks the client up in memory.
LookupClient(r, c, u) ==
  /\ clientPc[r] = "idle"
  /\ known' = known \cup {c}
  /\ client' = [client EXCEPT ![r] = c]
  /\ uri' = [uri EXCEPT ![r] = u]
  /\ held' = [held EXCEPT ![r] = clients[c]]
  /\ clientPc' = [clientPc EXCEPT ![r] = IF clients[c] # {} THEN "check" ELSE "fetch"]
  /\ UNCHANGED <<clients, savedClients, registered, opened, restarts>>

\* Fetch as it would be if the backend were not asked.
FetchNothing(r) ==
  /\ clientPc[r] = "fetch"
  /\ held' = [held EXCEPT ![r] = {}]
  /\ clientPc' = [clientPc EXCEPT ![r] = "register"]
  /\ UNCHANGED <<clients, savedClients, known, registered, client, uri, opened, restarts>>

\* The read-through after a miss; an error counts as "not found".
FetchClient(r) ==
  /\ clientPc[r] = "fetch"
  /\ \E ok \in ReadResults :
       LET found == ok /\ savedClients[client[r]] # {}
       IN  /\ held' = [held EXCEPT ![r] = IF found THEN savedClients[client[r]] ELSE {}]
           /\ clientPc' = [clientPc EXCEPT ![r] = IF found THEN "cache" ELSE "register"]
  /\ UNCHANGED <<clients, savedClients, known, registered, client, uri, opened, restarts>>

\* The fetched client is stored without looking at the map again.
CacheClient(r) ==
  /\ clientPc[r] = "cache"
  /\ clients' = [clients EXCEPT ![client[r]] = held[r]]
  /\ clientPc' = [clientPc EXCEPT ![r] = "check"]
  /\ UNCHANGED <<savedClients, known, registered, client, uri, held, opened, restarts>>

\* An unknown client is registered with the redirect URI of the request.
AutoRegister(r) ==
  /\ clientPc[r] = "register"
  /\ PutClient(client[r], {uri[r]})
  /\ held' = [held EXCEPT ![r] = {uri[r]}]
  /\ clientPc' = [clientPc EXCEPT ![r] = "check"]
  /\ UNCHANGED <<known, registered, client, uri, opened, restarts>>

\* createAuthSession as it would be if the redirect check were dropped.
CheckNothing(r) ==
  /\ clientPc[r] = "check"
  /\ opened' = opened \cup {<<client[r], uri[r]>>}
  /\ clientPc' = [clientPc EXCEPT ![r] = "idle"]
  /\ UNCHANGED <<clients, savedClients, known, registered, client, uri, held, restarts>>

\* The redirect URI must be one of the client's; then the session is put.
Check(r) ==
  /\ clientPc[r] = "check"
  /\ opened' = IF uri[r] \in held[r] THEN opened \cup {<<client[r], uri[r]>>} ELSE opened
  /\ clientPc' = [clientPc EXCEPT ![r] = "idle"]
  /\ UNCHANGED <<clients, savedClients, known, registered, client, uri, held, restarts>>

\* The process stops at any point and a new one starts with an empty map.
RestartClients ==
  /\ restarts < MaxRestarts
  /\ restarts' = restarts + 1
  /\ clients' = [c \in Client |-> {}]
  /\ clientPc' = [r \in Req |-> "idle"]
  /\ UNCHANGED <<savedClients, known, registered, client, uri, held, opened>>

ClientNext ==
  \/ \E c \in Client, uris \in SUBSET URI : HandleRegister(c, uris)
  \/ \E r \in Req, c \in Client, u \in URI : LookupClient(r, c, u)
  \/ \E r \in Req : FetchClient(r) \/ CacheClient(r) \/ AutoRegister(r) \/ Check(r)
  \/ RestartClients

ClientSpec == ClientInit /\ [][ClientNext]_clientVars
-----------------------------------------------------------------------------
\* What POST /register acknowledged is what the stores hold: no restart and no
\* race with auto-registration replaces it.  Needs a reliable backend, because
\* a failed GetClient is taken for an unknown client.
RegistrationKept ==
  \A c \in Client : registered[c] # {} =>
    clients[c] \in {{}, registered[c]} /\ savedClients[c] = registered[c]

\* A session is only created for a redirect URI its client registered.
SessionsMatchRegistration ==
  \A s \in opened : registered[s[1]] # {} => s[2] \in registered[s[1]]
=============================================================================
