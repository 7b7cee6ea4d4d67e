------------------------------ MODULE APIProxy ------------------------------
(***************************************************************************)
(* The caching reverse proxy of /api/ (handleAPIProxy,                     *)
(* internal/server/routes.go) in front of vire-server, on top of the       *)
(* contract of the response cache.                                         *)
(*                                                                         *)
(*   idle --Begin--> idle (hit) | send         cache.Get                   *)
(*   send --Read--> idle (error) | store | clear | idle                    *)
(*   send --Write--> idle (error) | clear                                  *)
(*   store --StoreReply--> clear | idle        cache.Set                   *)
(*   clear --ClearPath--> idle                 cache.InvalidatePrefix, and *)
(*                                             the response is sent        *)
(*                                                                         *)
(* A response is the version of the data it shows.  version counts the     *)
(* writes vire-server has applied; data[q] is the last one that changed    *)
(* what GET q answers.  Writes that do not pass through the cache (MCP     *)
(* tools, requests without a session) are Elsewhere.                       *)
(***************************************************************************)
EXTENDS Naturals

CONSTANTS User,        \* users with a valid vire_session cookie
          Path,        \* request paths under /api/
          Contains,    \* the paths that contain a path as a substring
          Touches,     \* the paths whose GET changes with a write to a path
          Req,         \* concurrent requests
          Answered,    \* {TRUE}, or BOOLEAN if a write's answer may be lost
          MaxWrites,   \* bound on the number of writes
          Miss

ASSUME ProxyAssumption ==
  /\ Contains \in [Path -> SUBSET Path]
  /\ Touches \in [Path -> SUBSET Path]
  /\ Answered \subseteq BOOLEAN
  /\ MaxWrites \in Nat
  /\ Miss \notin Nat

\* Plain GET, GET with force_refresh=true, and a write.
Kind == {"get", "force", "put"}

\* MakeKey: the user and the request URI with its query (only GETs are cached).
Key == User \X Path \X {"get", "force"}

Under == [p \in Path |-> {k \in Key : k[2] \in Contains[p]}]

VARIABLES content, answer,   \* the response cache
          version, data,     \* vire-server
          pc,                \* where each request is
          user, path, kind,  \* its user, path and method
          seen,              \* the version it read or wrote
          good,              \* whether it was answered 2xx
          acked,             \* history: the last write answered that cleared a path it touched
          raced              \* history: paths read while a write that touches them was under way

cacheVars == <<content, answer>>
vars == <<content, answer, version, data, pc, user, path, kind, seen, good, acked, raced>>

Cache == INSTANCE CacheContract WITH Val <- Nat

TypeOK ==
  /\ content \in [Key -> Nat \cup {Miss}]
  /\ answer \in Nat \cup {Miss}
  /\ version \in 0..MaxWrites
  /\ data \in [Path -> Nat]
  /\ pc \in [Req -> {"idle", "send", "store", "clear"}]
  /\ user \in [Req -> User]
  /\ path \in [Req -> Path]
  /\ kind \in [Req -> Kind]
  /\ seen \in [Req -> Nat]
  /\ good \in [Req -> BOOLEAN]
  /\ acked \in [Path -> Nat]
  /\ raced \subseteq Path

Init ==
  /\ Cache!CacheInit
  /\ version = 0
  /\ data = [p \in Path |-> 0]
  /\ pc = [r \in Req |-> "idle"]
  /\ user \in [Req -> User]
  /\ path \in [Req -> Path]
  /\ kind = [r \in Req |-> "get"]
  /\ seen = [r \in Req |-> 0]
  /\ good = [r \in Req |-> FALSE]
  /\ acked = [p \in Path |-> 0]
  /\ raced = {}
-----------------------------------------------------------------------------
KeyOf(r) == <<user[r], path[r], kind[r]>>

Goto(r, l) == pc' = [pc EXCEPT ![r] = l]

\* The paths of which a read and a write that touches them are both under way once
\* a request for p of kind m is.
Meets(p, m) ==
  {q \in Path : \E s \in Req :
     /\ pc[s] # "idle"
     /\ \/ kind[s] = "put" /\ m # "put" /\ q = p /\ p \in Touches[path[s]]
        \/ kind[s] # "put" /\ m = "put" /\ q = path[s] /\ q \in Touches[p]}

\* A request arrives; a GET that hits the cache is answered from it.
Begin(r, u, p, m) ==
  /\ pc[r] = "idle"
  /\ raced' = raced \cup Meets(p, m)
  /\ user' = [user EXCEPT ![r] = u]
  /\ path' = [path EXCEPT ![r] = p]
  /\ kind' = [kind EXCEPT ![r] = m]
  /\ \/ m = "put" /\ Goto(r, "send") /\ UNCHANGED cacheVars
     \/ /\ m # "put"
        /\ Cache!Fetch(<<u, p, m>>)
        /\ Goto(r, IF content[<<u, p, m>>] = Miss THEN "send" ELSE "idle")
  /\ UNCHANGED <<version, data, seen, good, acked>>

\* A write reaches vire-server: what GETs of the touched paths answer changes.
Apply(p) ==
  /\ version < MaxWrites
  /\ version' = version + 1
  /\ data' = [q \in Path |-> IF q \in Touches[p] THEN version + 1 ELSE data[q]]

\* vire-server answers a GET: with 2xx, with something that is not cached (an
\* error status, an oversized body), or not at all.
Read(r) ==
  /\ pc[r] = "send"
  /\ kind[r] # "put"
  /\ seen' = [seen EXCEPT ![r] = data[path[r]]]
  /\ \/ Goto(r, "store") /\ good' = [good EXCEPT ![r] = TRUE]
     \/ /\ Goto(r, IF kind[r] = "force" THEN "clear" ELSE "idle")
        /\ good' = [good EXCEPT ![r] = FALSE]
     \/ Goto(r, "idle") /\ UNCHANGED good
  /\ UNCHANGED <<content, answer, version, data, user, path, kind, acked, raced>>

\* vire-server gets a write and applies it or not; when its answer is lost (a
\* timeout, a broken connection) the handler returns at once.
Write(r) ==
  /\ pc[r] = "send"
  /\ kind[r] = "put"
  /\ \/ Apply(path[r])
     \/ UNCHANGED <<version, data>>
  /\ seen' = [seen EXCEPT ![r] = version']
  /\ good' = [good EXCEPT ![r] = version' # version]
  /\ \E ok \in Answered : Goto(r, IF ok THEN "clear" ELSE "idle")
  /\ UNCHANGED <<content, answer, user, path, kind, acked, raced>>

\* A successful GET is cached under its URI.
StoreReply(r) ==
  /\ pc[r] = "store"
  /\ Cache!Store(KeyOf(r), seen[r])
  /\ Goto(r, IF kind[r] = "force" THEN "clear" ELSE "idle")
  /\ UNCHANGED <<version, data, user, path, kind, seen, good, acked, raced>>

\* What a write to p changes and its invalidation clears.
Reached(p) == Touches[p] \cap Contains[p]

\* ClearPath as it would be if only a forced refresh invalidated.
ClearForcedOnly(r) ==
  /\ pc[r] = "clear"
  /\ IF kind[r] = "force" THEN Cache!Clear(path[r]) ELSE UNCHANGED cacheVars
  /\ acked' = [q \in Path |->
       IF kind[r] = "put" /\ good[r] /\ q \in Reached(path[r]) /\ seen[r] > acked[q]
       THEN seen[r] ELSE acked[q]]
  /\ Goto(r, "idle")
  /\ UNCHANGED <<version, data, user, path, kind, seen, good, raced>>

\* Entries under the path are dropped by a write or a forced refresh, whatever
\* its status; then the answer goes out.
ClearPath(r) ==
  /\ pc[r] = "clear"
  /\ Cache!Clear(path[r])
  /\ acked' = [q \in Path |->
       IF kind[r] = "put" /\ good[r] /\ q \in Reached(path[r]) /\ seen[r] > acked[q]
       THEN seen[r] ELSE acked[q]]
  /\ Goto(r, "idle")
  /\ UNCHANGED <<version, data, user, path, kind, seen, good, raced>>

\* A write that bypasses the cache.
Elsewhere(p) ==
  /\ Apply(p)
  /\ UNCHANGED <<content, answer, pc, user, path, kind, seen, good, acked, raced>>

\* Expire as it would be if plain GETs were cached without an expiry.
ExpireForcedOnly(k) ==
  /\ k[3] = "force"
  /\ Cache!Lose(k)
  /\ UNCHANGED <<version, data, pc, user, path, kind, seen, good, acked, raced>>

\* The 30 s time to live of an entry ends.
Expire(k) ==
  /\ Cache!Lose(k)
  /\ UNCHANGED <<version, data, pc, user, path, kind, seen, good, acked, raced>>

Next ==
  \/ \E r \in Req, u \in User, p \in Path, m \in Kind : Begin(r, u, p, m)
  \/ \E r \in Req : Read(r) \/ Write(r) \/ StoreReply(r) \/ ClearPath(r)
  \/ \E p \in Path : Elsewhere(p)
  \/ \E k \in Key : Expire(k)

Spec == Init /\ [][Next]_vars

\* Time passes, and the HTTP client's timeout ends every exchange with
\* vire-server.
Fairness ==
  /\ \A r \in Req : WF_vars(Read(r) \/ Write(r) \/ StoreReply(r) \/ ClearPath(r))
  /\ \A k \in Key : WF_vars(Expire(k))

FairSpec == Spec /\ Fairness
-----------------------------------------------------------------------------
\* Once a write has been answered, no user's cached response of a path that it
\* changed and its invalidation reaches is older than it ("Invalidate cache on write
\* operations"), unless a read of that path overlapped a write.
NoStaleHit == \A k \in Key : content[k] # Miss /\ k[2] \notin raced => content[k] >= acked[k[2]]

\* Whatever races, losses and writes elsewhere left in the cache, it passes:
\* when the writes have ended, every hit becomes and stays current.
EventuallyCurrent == <>[](\A k \in Key : content[k] \in {Miss, data[k[2]]})
=============================================================================
