----------------------------- MODULE TokenStore -----------------------------
(***************************************************************************)
(* Refresh tokens: TokenStore (internal/auth/store.go), its copy at        *)
(* vire-server, and the refresh_token grant (handleRefreshTokenGrant,      *)
(* internal/auth/token.go) that rotates them with three separate calls,    *)
(* Get, Delete and Put:                                                    *)
(*                                                                         *)
(*   idle --Present--> held | lookup | idle   Get: the map, under s.mu     *)
(*   lookup --LookupToken--> cache | idle     Get: the backend, no lock    *)
(*   cache --CacheToken--> held | idle        Get: store it, check expiry  *)
(*   held --DeleteToken--> mint               Delete and RevokeToken       *)
(*   held --Mismatch--> idle                  not the client's token       *)
(*   mint --Reissue / MintFails--> idle       Put of the successor         *)
(*                                                                         *)
(* Delete and Put hold the lock across their backend call and are one step *)
(* each.  Nothing in the portal keeps a client from presenting one token   *)
(* in two overlapping requests, and Get stores what it read through        *)
(* without looking at the map again, so both may rotate it.                *)
(***************************************************************************)
EXTENDS OAuthBackend

CONSTANT Token    \* refresh token strings

VARIABLES tokens,         \* the in-memory map's keys
          savedTokens,    \* tokens vire-server holds, not revoked
          issuedTokens,   \* tokens that have been put
          expiredTokens,  \* tokens whose ExpiresAt has passed
          tokenPc,        \* where each refresh request is
          token,          \* the token it presents
          successors      \* history: <<token, successor, process life>> of every rotation

tokenVars == <<tokens, savedTokens, issuedTokens, expiredTokens, tokenPc, token,
               restarts, successors>>

TokenTypeOK ==
  /\ tokens \subseteq Token
  /\ savedTokens \subseteq Token
  /\ issuedTokens \subseteq Token
  /\ expiredTokens \subseteq issuedTokens
  /\ tokenPc \in [Req -> {"idle", "lookup", "cache", "held", "mint"}]
  /\ token \in [Req -> Token]
  /\ restarts \in 0..MaxRestarts
  /\ successors \subseteq Token \X Token \X (0..MaxRestarts)

TokenInit ==
  /\ tokens = {}
  /\ savedTokens = {}
  /\ issuedTokens = {}
  /\ expiredTokens = {}
  /\ tokenPc = [r \in Req |-> "idle"]
  /\ token \in [Req -> Token]
  /\ restarts = 0
  /\ successors = {}
-----------------------------------------------------------------------------
\* TokenStore.Put of a new token, written through.
PutToken(t) ==
  /\ t \notin issuedTokens
  /\ issuedTokens' = issuedTokens \cup {t}
  /\ tokens' = tokens \cup {t}
  /\ \E ok \in SaveResults : savedTokens' = IF ok THEN savedTokens \cup {t} ELSE savedTokens

\* A code grant stores the first token of a line.
Issue(t) ==
  /\ PutToken(t)
  /\ UNCHANGED <<expiredTokens, tokenPc, token, restarts, successors>>

\* Seven days pass.
ExpireToken(t) ==
  /\ t \in issuedTokens \ expiredTokens
  /\ expiredTokens' = expiredTokens \cup {t}
  /\ UNCHANGED <<tokens, savedTokens, issuedTokens, tokenPc, token, restarts, successors>>

\* A refresh request presents token t: the first half of Get.
Present(r, t) ==
  /\ tokenPc[r] = "idle"
  /\ t \in issuedTokens
  /\ token' = [token EXCEPT ![r] = t]
  /\ tokenPc' = [tokenPc EXCEPT ![r] = IF t \notin tokens THEN "lookup"
                             ELSE IF t \in expiredTokens THEN "idle" ELSE "held"]
  /\ UNCHANGED <<tokens, savedTokens, issuedTokens, expiredTokens, restarts, successors>>

\* The read-through after a miss; an error is answered like an unknown token.
LookupToken(r) ==
  /\ tokenPc[r] = "lookup"
  /\ \E ok \in ReadResults :
       tokenPc' = [tokenPc EXCEPT ![r] = IF ok /\ token[r] \in savedTokens THEN "cache" ELSE "idle"]
  /\ UNCHANGED <<tokens, savedTokens, issuedTokens, expiredTokens, token, restarts, successors>>

\* The found token is cached without looking at the map again.
CacheToken(r) ==
  /\ tokenPc[r] = "cache"
  /\ tokens' = tokens \cup {token[r]}
  /\ tokenPc' = [tokenPc EXCEPT ![r] = IF token[r] \in expiredTokens THEN "idle" ELSE "held"]
  /\ UNCHANGED <<savedTokens, issuedTokens, expiredTokens, token, restarts, successors>>

\* The request's client_id is not the token's: nothing is deleted.
Mismatch(r) ==
  /\ tokenPc[r] = "held"
  /\ tokenPc' = [tokenPc EXCEPT ![r] = "idle"]
  /\ UNCHANGED <<tokens, savedTokens, issuedTokens, expiredTokens, token, restarts, successors>>

\* DeleteToken as it would be without RevokeToken.
DeleteLocally(r) ==
  /\ tokenPc[r] = "held"
  /\ tokens' = tokens \ {token[r]}
  /\ tokenPc' = [tokenPc EXCEPT ![r] = "mint"]
  /\ UNCHANGED <<savedTokens, issuedTokens, expiredTokens, token, restarts, successors>>

\* The old token is deleted and revoked.
DeleteToken(r) ==
  /\ tokenPc[r] = "held"
  /\ tokens' = tokens \ {token[r]}
  /\ \E ok \in SaveResults : savedTokens' = IF ok THEN savedTokens \ {token[r]} ELSE savedTokens
  /\ tokenPc' = [tokenPc EXCEPT ![r] = "mint"]
  /\ UNCHANGED <<issuedTokens, expiredTokens, token, restarts, successors>>

\* The successor n is stored and the token response is sent.
Reissue(r, n) ==
  /\ tokenPc[r] = "mint"
  /\ PutToken(n)
  /\ successors' = successors \cup {<<token[r], n, restarts>>}
  /\ tokenPc' = [tokenPc EXCEPT ![r] = "idle"]
  /\ UNCHANGED <<expiredTokens, token, restarts>>

\* Minting fails after the delete: the line has no token left.
MintFails(r) ==
  /\ tokenPc[r] = "mint"
  /\ tokenPc' = [tokenPc EXCEPT ![r] = "idle"]
  /\ UNCHANGED <<tokens, savedTokens, issuedTokens, expiredTokens, token, restarts, successors>>

\* The process stops at any point and a new one starts with an empty map.
RestartTokens ==
  /\ restarts < MaxRestarts
  /\ restarts' = restarts + 1
  /\ tokens' = {}
  /\ tokenPc' = [r \in Req |-> "idle"]
  /\ UNCHANGED <<savedTokens, issuedTokens, expiredTokens, token, successors>>

TokenNext ==
  \/ \E t \in Token : Issue(t) \/ ExpireToken(t)
  \/ \E r \in Req, t \in Token : Present(r, t) \/ Reissue(r, t)
  \/ \E r \in Req : LookupToken(r) \/ CacheToken(r) \/ Mismatch(r) \/ DeleteToken(r) \/ MintFails(r)
  \/ RestartTokens

TokenSpec == TokenInit /\ [][TokenNext]_tokenVars
-----------------------------------------------------------------------------
\* A refresh token has at most one successor: the stress test of
\* handleRefreshTokenGrant says of concurrent requests with one token that it
\* "should be exactly 1".
RotatedOnce == \A x, y \in successors : x[1] = y[1] => x = y

\* However requests with one refresh token overlap, and whatever Get's read-through
\* puts back into the map, all its successors are issued before the next restart:
\* a token rotated by one process is never accepted by a later one.  It needs a
\* backend that applies every write: a lost RevokeToken is only logged.
RotatedInOneLife == \A x, y \in successors : x[1] = y[1] => x[3] = y[3]
=============================================================================
