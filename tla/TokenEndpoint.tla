--------------------------- MODULE TokenEndpoint ----------------------------
(***************************************************************************)
(* POST /token (internal/auth/token.go): the two grants over the two       *)
(* stores of one process.  A request carries a code or a refresh token,    *)
(* never both; a granted code puts the first refresh token of the client;  *)
(* a restart empties both maps and ends every request.                     *)
(***************************************************************************)
EXTENDS CodeStore, TokenStore

codeState == <<codes, savedCodes, issuedCodes, expiredCodes, codePc, code, fetched,
               consumed, granted>>
tokenState == <<tokens, savedTokens, issuedTokens, expiredTokens, tokenPc, token, successors>>
endpointVars == <<codeState, tokenState, restarts>>

EndpointInit == CodeInit /\ TokenInit

\* handleAuthCodeGrant, up to its answer.
CodeGrant(r) ==
  /\ \/ \E c \in Code : tokenPc[r] = "idle" /\ Consume(r, c)
     \/ FetchCode(r) \/ Install(r) \/ Mark(r)
     \/ \E matching \in SUBSET Checks, minted \in BOOLEAN : Refuse(r, matching, minted)
  /\ UNCHANGED tokenState

\* Its answer: tokens.Put of a new refresh token, then the token response.
CodeGranted(r, t) == Grant(r, Checks, TRUE) /\ Issue(t)

\* handleRefreshTokenGrant.
RefreshGrant(r) ==
  /\ \/ \E t \in Token : codePc[r] = "idle" /\ Present(r, t)
     \/ LookupToken(r) \/ CacheToken(r) \/ Mismatch(r) \/ DeleteToken(r) \/ MintFails(r)
     \/ \E t \in Token : Reissue(r, t)
  /\ UNCHANGED codeState

Pass ==
  \/ (\E c \in Code : PutCode(c) \/ ExpireCode(c)) /\ UNCHANGED tokenState
  \/ (\E t \in Token : ExpireToken(t)) /\ UNCHANGED codeState

Restart == RestartCodes /\ RestartTokens

EndpointNext ==
  \/ \E r \in Req : CodeGrant(r) \/ RefreshGrant(r) \/ \E t \in Token : CodeGranted(r, t)
  \/ Pass \/ Restart

EndpointSpec == EndpointInit /\ [][EndpointNext]_endpointVars
=============================================================================
