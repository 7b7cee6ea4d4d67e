------------------------ MODULE TokenEndpointProofs -------------------------
(***************************************************************************)
(* Proofs about the token endpoint and its two stores, for any sets of     *)
(* codes, refresh tokens and requests, any number of restarts and, where   *)
(* ReliableSaves is not assumed, any backend.  Each store is treated by    *)
(* itself; the last section carries the results to the endpoint.           *)
(***************************************************************************)
EXTENDS TokenEndpoint, TLAPS

(* Authorization codes (CodeStore)                                         *)

\* Only a code that was put is held anywhere.
CodeKnownInv ==
  /\ \A c \in Code : c \notin issuedCodes => codes[c] = "absent" /\ savedCodes[c] = "absent"
  /\ \A r \in Req : codePc[r] = "install" => code[r] \in issuedCodes

\* A code won in this process life is in memory, marked used.
LifeInv == \A c \in Code : consumed[c] = 0 \/ (consumed[c] = 1 /\ codes[c] = "used")

\* The request has won its code and has not answered yet.
Winner(r) == codePc[r] \in {"mark", "answer"}

\* Memory never holds a code fresher than the backend does.
SavedInv ==
  \A c \in Code : /\ savedCodes[c] = "absent" => c \notin issuedCodes /\ codes[c] = "absent"
                  /\ c \notin issuedCodes => savedCodes[c] = "absent"
                  /\ codes[c] = "unused" => savedCodes[c] = "unused"

\* A stale unused entry in a request's hands is shadowed by the map.
FetchedInv ==
  \A r \in Req : codePc[r] = "install" =>
    /\ fetched[r] # "absent"
    /\ savedCodes[code[r]] # "absent"
    /\ savedCodes[code[r]] = "used" => fetched[r] = "used" \/ codes[code[r]] = "used"

\* A winner is alone with its code, which has no response yet and which is
\* used at the backend before the response is made.
WinnerInv ==
  /\ \A r \in Req : Winner(r) => /\ codes[code[r]] = "used"
                                 /\ granted[code[r]] = 0
                                 /\ codePc[r] = "answer" => savedCodes[code[r]] = "used"
  /\ \A r, s \in Req : Winner(r) /\ Winner(s) /\ code[r] = code[s] => r = s

GrantInv ==
  \A c \in Code : granted[c] = 0 \/ (granted[c] = 1 /\ savedCodes[c] = "used")

CodeInv == CodeTypeOK /\ SavedInv /\ FetchedInv /\ WinnerInv /\ GrantInv
-----------------------------------------------------------------------------
\* Every step of the model keeps each variable in its type.
THEOREM CodeTypeCorrect == CodeSpec => []CodeTypeOK
<1>1. CodeInit => CodeTypeOK
  BY RestartAssumption, SMTT(60) DEF CodeInit, CodeTypeOK, Entry
<1>2. CodeTypeOK /\ [CodeNext]_codeVars => CodeTypeOK'
  <2> SUFFICES ASSUME CodeTypeOK, [CodeNext]_codeVars PROVE CodeTypeOK'
    OBVIOUS
  <2> USE DEF CodeTypeOK, Entry
  <2>1. ASSUME NEW c \in Code, PutCode(c) PROVE CodeTypeOK'
    BY <2>1 DEF PutCode
  <2>2. ASSUME NEW c \in Code, ExpireCode(c) PROVE CodeTypeOK'
    BY <2>2 DEF ExpireCode
  <2>3. ASSUME NEW r \in Req, NEW c \in Code, Consume(r, c) PROVE CodeTypeOK'
    BY <2>3 DEF Consume, Settle
  <2>4. ASSUME NEW r \in Req, FetchCode(r) PROVE CodeTypeOK'
    BY <2>4, SMTT(60) DEF FetchCode
  <2>5. ASSUME NEW r \in Req, Install(r) PROVE CodeTypeOK'
    BY <2>5 DEF Install, Settle
  <2>6. ASSUME NEW r \in Req, Mark(r) PROVE CodeTypeOK'
    BY <2>6, SMTT(60) DEF Mark
  <2>7. ASSUME NEW r \in Req, Answer(r) PROVE CodeTypeOK'
    BY <2>7 DEF Answer, Refuse, Grant
  <2>8. CASE RestartCodes
    BY <2>8, RestartAssumption DEF RestartCodes
  <2>9. CASE UNCHANGED codeVars
    BY <2>9 DEF codeVars
  <2> QED
    BY <2>1, <2>2, <2>3, <2>4, <2>5, <2>6, <2>7, <2>8, <2>9 DEF CodeNext
<1> QED
  BY <1>1, <1>2, PTL DEF CodeSpec

\* Codes enter the stores through Put only.
LEMMA CodeKnownInvariant == CodeSpec => []CodeKnownInv
<1>1. CodeInit => CodeKnownInv
  BY SMTT(60) DEF CodeInit, CodeKnownInv
<1>2. CodeTypeOK /\ CodeKnownInv /\ [CodeNext]_codeVars => CodeKnownInv'
  <2> SUFFICES ASSUME CodeTypeOK, CodeKnownInv, [CodeNext]_codeVars PROVE CodeKnownInv'
    OBVIOUS
  <2> USE DEF CodeTypeOK, Entry, CodeKnownInv
  <2>1. ASSUME NEW c \in Code, PutCode(c) \/ ExpireCode(c) PROVE CodeKnownInv'
    BY <2>1 DEF PutCode, ExpireCode
  <2>2. ASSUME NEW r \in Req, NEW c \in Code, Consume(r, c) PROVE CodeKnownInv'
    BY <2>2, SMTT(60) DEF Consume, Settle
  <2>3. ASSUME NEW r \in Req, Install(r) PROVE CodeKnownInv'
    BY <2>3 DEF Install, Settle
  <2>4. ASSUME NEW r \in Req, FetchCode(r) PROVE CodeKnownInv'
    BY <2>4, SMTT(60) DEF FetchCode
  <2>5. ASSUME NEW r \in Req, Mark(r) \/ Answer(r) PROVE CodeKnownInv'
    BY <2>5 DEF Mark, Answer, Refuse, Grant
  <2>6. CASE RestartCodes
    BY <2>6 DEF RestartCodes
  <2>7. CASE UNCHANGED codeVars
    BY <2>7 DEF codeVars
  <2> QED
    BY <2>1, <2>2, <2>3, <2>4, <2>5, <2>6, <2>7 DEF CodeNext
<1> QED
  BY <1>1, <1>2, CodeTypeCorrect, PTL DEF CodeSpec

\* In one process life ConsumeCode hands a code to at most one request,
\* whatever the backend does: once consumed, a code stays used in memory.
THEOREM ConsumedOnce == CodeSpec => []ConsumedOncePerLife
<1>1. CodeInit => LifeInv
  BY ZenonT(60) DEF CodeInit, LifeInv
<1>2. CodeTypeOK /\ CodeKnownInv /\ LifeInv /\ [CodeNext]_codeVars => LifeInv'
  <2> SUFFICES ASSUME CodeTypeOK, CodeKnownInv, LifeInv, [CodeNext]_codeVars PROVE LifeInv'
    OBVIOUS
  <2> USE DEF CodeTypeOK, Entry, LifeInv
  <2>1. ASSUME NEW r \in Req, NEW c \in Code, NEW e \in Entry, Settle(r, c, e),
               codes[c] # "absent" => e = codes[c]
        PROVE  LifeInv'
    BY <2>1 DEF Settle
  <2>2. ASSUME NEW c \in Code, PutCode(c) PROVE LifeInv'
    BY <2>2 DEF PutCode, CodeKnownInv
  <2>3. ASSUME NEW c \in Code, ExpireCode(c) PROVE LifeInv'
    BY <2>3 DEF ExpireCode
  <2>4. ASSUME NEW r \in Req, NEW c \in Code, Consume(r, c) PROVE LifeInv'
    BY <2>4, <2>1, ZenonT(60) DEF Consume
  <2>5. ASSUME NEW r \in Req, Install(r) PROVE LifeInv'
    BY <2>5, <2>1, SMTT(60) DEF Install
  <2>6. ASSUME NEW r \in Req, FetchCode(r) \/ Mark(r) \/ Answer(r) PROVE LifeInv'
    BY <2>6 DEF FetchCode, Mark, Answer, Refuse, Grant
  <2>7. CASE RestartCodes
    BY <2>7 DEF RestartCodes
  <2>8. CASE UNCHANGED codeVars
    BY <2>8 DEF codeVars
  <2> QED
    BY <2>2, <2>3, <2>4, <2>5, <2>6, <2>7, <2>8, ZenonT(60) DEF CodeNext
<1>3. LifeInv => ConsumedOncePerLife
  BY DEF LifeInv, ConsumedOncePerLife
<1> QED
  BY <1>1, <1>2, <1>3, CodeTypeCorrect, CodeKnownInvariant, PTL DEF CodeSpec

\* Lemmas for the properties that span restarts.

\* No code is stored, fetched or granted at first.
LEMMA ReliableInit == CodeInit => CodeInv
  BY RestartAssumption
  DEF CodeInit, CodeInv, CodeTypeOK, Entry, SavedInv, FetchedInv, WinnerInv, Winner, GrantInv

\* Taking the lock with an entry that memory does not contradict keeps the
\* invariant; request r is not a winner when it takes the lock.
LEMMA SettleStep ==
  ASSUME CodeInv, NEW r \in Req, NEW c \in Code, NEW e \in {"unused", "used"},
         Settle(r, c, e), ~Winner(r),
         code' = [code EXCEPT ![r] = c],
         UNCHANGED <<savedCodes, issuedCodes, expiredCodes, fetched, restarts, granted>>,
         savedCodes[c] # "absent",
         codes[c] # "absent" => e = codes[c],
         e = "unused" => savedCodes[c] = "unused"
  PROVE  SavedInv' /\ FetchedInv' /\ WinnerInv' /\ GrantInv'
<1> USE DEF CodeInv, CodeTypeOK, Entry
<1>1. SavedInv'
  BY DEF Settle, SavedInv
<1>2. FetchedInv'
  BY ZenonT(60) DEF Settle, FetchedInv
<1>3. WinnerInv'
  <2> DEFINE wins(s) == codePc'[s] \in {"mark", "answer"}
  <2>1. ASSUME NEW s \in Req, s # r, wins(s)
        PROVE  Winner(s) /\ codes'[code[s]] = "used" /\ code'[s] = code[s]
    BY <2>1 DEF Settle, Winner, WinnerInv
  <2>2. ASSUME wins(r)
        PROVE  /\ codes[c] # "used" /\ codes'[c] = "used" /\ granted[c] = 0
               /\ code'[r] = c /\ codePc'[r] = "mark"
    BY <2>2, ZenonT(60) DEF Settle, GrantInv
  <2>3. \A s \in Req : wins(s) => /\ codes'[code'[s]] = "used"
                                  /\ granted'[code'[s]] = 0
                                  /\ codePc'[s] = "answer" => savedCodes'[code'[s]] = "used"
    BY <2>1, <2>2, SMTT(60) DEF Settle, Winner, WinnerInv
  <2>4. \A s, t \in Req : wins(s) /\ wins(t) /\ code'[s] = code'[t] => s = t
    BY <2>1, <2>2 DEF WinnerInv
  <2> QED
    BY <2>3, <2>4, ZenonT(60) DEF WinnerInv, Winner
<1>4. GrantInv'
  BY ZenonT(60) DEF Settle, GrantInv
<1> QED
  BY <1>1, <1>2, <1>3, <1>4, ZenonT(60)

\* If MarkCodeUsed and SaveCode are applied, every step of the code grant and a
\* restart keep the invariant.
LEMMA ReliableStep == ASSUME ReliableSaves, CodeInv, CodeTypeOK', [CodeNext]_codeVars PROVE CodeInv'
<1> USE DEF CodeInv, CodeTypeOK, Entry, ReliableSaves
<1>1. ASSUME NEW c \in Code, PutCode(c)
      PROVE  SavedInv' /\ FetchedInv' /\ WinnerInv' /\ GrantInv'
  BY <1>1, SMTT(60) DEF PutCode, SavedInv, FetchedInv, WinnerInv, Winner, GrantInv
<1>2. ASSUME NEW c \in Code, ExpireCode(c)
      PROVE  SavedInv' /\ FetchedInv' /\ WinnerInv' /\ GrantInv'
  BY <1>2 DEF ExpireCode, SavedInv, FetchedInv, WinnerInv, Winner, GrantInv
<1>3. ASSUME NEW r \in Req, NEW c \in Code, Consume(r, c)
      PROVE  SavedInv' /\ FetchedInv' /\ WinnerInv' /\ GrantInv'
  <2>1. CASE codes[c] = "absent"
    BY <1>3, <2>1 DEF Consume, SavedInv, FetchedInv, WinnerInv, Winner, GrantInv
  <2>2. CASE codes[c] # "absent"
    <3>1. Settle(r, c, codes[c]) /\ ~Winner(r) /\ codes[c] \in {"unused", "used"}
      BY <1>3, <2>2 DEF Consume, Winner
    <3>2. savedCodes[c] # "absent" /\ (codes[c] = "unused" => savedCodes[c] = "unused")
      BY <2>2 DEF SavedInv
    <3> QED
      BY <1>3, <3>1, <3>2, SettleStep, ZenonT(60) DEF Consume
  <2> QED
    BY <2>1, <2>2, ZenonT(60)
<1>4. ASSUME NEW r \in Req, FetchCode(r)
      PROVE  SavedInv' /\ FetchedInv' /\ WinnerInv' /\ GrantInv'
  BY <1>4 DEF FetchCode, SavedInv, FetchedInv, WinnerInv, Winner, GrantInv
<1>5. ASSUME NEW r \in Req, Install(r)
      PROVE  SavedInv' /\ FetchedInv' /\ WinnerInv' /\ GrantInv'
  <2> DEFINE c == code[r]
             e == IF codes[c] # "absent" THEN codes[c] ELSE fetched[r]
  <2>1. Settle(r, c, e) /\ ~Winner(r) /\ e \in {"unused", "used"}
    BY <1>5, ZenonT(60) DEF Install, Winner, FetchedInv
  <2>2. savedCodes[c] # "absent" /\ (e = "unused" => savedCodes[c] = "unused")
    BY <1>5, SMTT(60) DEF Install, FetchedInv, SavedInv
  <2>3. /\ code' = [code EXCEPT ![r] = c] /\ c \in Code
        /\ codes[c] # "absent" => e = codes[c]
        /\ UNCHANGED <<savedCodes, issuedCodes, expiredCodes, fetched, restarts, granted>>
    BY <1>5, SMTT(60) DEF Install
  <2> HIDE DEF c, e, CodeInv, CodeTypeOK
  <2> QED
    BY <2>1, <2>2, <2>3, SettleStep, ZenonT(60)
<1>6. ASSUME NEW r \in Req, Mark(r)
      PROVE  SavedInv' /\ FetchedInv' /\ WinnerInv' /\ GrantInv'
  <2>1. codes[code[r]] = "used" /\ savedCodes[code[r]] # "absent"
    BY <1>6 DEF Mark, WinnerInv, Winner, SavedInv
  <2>2. savedCodes' = [savedCodes EXCEPT ![code[r]] = "used"]
    BY <1>6, <2>1, ZenonT(60) DEF Mark
  <2> QED
    BY <1>6, <2>1, <2>2, SMTT(60) DEF Mark, SavedInv, FetchedInv, WinnerInv, Winner, GrantInv
<1>7. ASSUME NEW r \in Req, Answer(r)
      PROVE  SavedInv' /\ FetchedInv' /\ WinnerInv' /\ GrantInv'
  <2>1. CASE granted' = granted
    BY <1>7, <2>1, SMTT(60)
    DEF Answer, Refuse, Grant, SavedInv, FetchedInv, WinnerInv, Winner, GrantInv
  <2>2. CASE granted' = [granted EXCEPT ![code[r]] = @ + 1]
    BY <1>7, <2>2, SMTT(60)
    DEF Answer, Refuse, Grant, SavedInv, FetchedInv, WinnerInv, Winner, GrantInv
  <2> QED
    BY <1>7, <2>1, <2>2, ZenonT(60) DEF Answer, Refuse, Grant
<1>8. CASE RestartCodes
  BY <1>8, ZenonT(60) DEF RestartCodes, SavedInv, FetchedInv, WinnerInv, Winner, GrantInv
<1>9. CASE UNCHANGED codeVars
  BY <1>9 DEF codeVars, SavedInv, FetchedInv, WinnerInv, Winner, GrantInv
<1> QED
  BY <1>1, <1>2, <1>3, <1>4, <1>5, <1>6, <1>7, <1>8, <1>9, ZenonT(60) DEF CodeNext

\* Hence it always holds.
LEMMA ReliableInvariant == ASSUME ReliableSaves PROVE CodeSpec => []CodeInv
  BY ReliableInit, ReliableStep, CodeTypeCorrect, PTL DEF CodeSpec

\* With a backend that applies every write, at most one token response is ever
\* issued for a code, across restarts and concurrent requests.
THEOREM CodeGrantedOnce == ASSUME ReliableSaves PROVE CodeSpec => []GrantedOnce
<1>1. CodeInv => GrantedOnce
  BY DEF CodeInv, GrantInv, GrantedOnce
<1> QED
  BY <1>1, ReliableInvariant, PTL

\* With such a backend the stores implement the abstract single-use code: Put
\* is Issue, Mark is Spend, Grant is Respond, and every other step, a restart
\* included, changes nothing the abstraction sees.
THEOREM CodeRefinement == ASSUME ReliableSaves PROVE CodeSpec => ImplementsSingleUse
<1>1. CodeInit => Abstract!AbsInit
  BY SMTT(60) DEF CodeInit, Abstract!AbsInit
<1>2. CodeInv /\ [CodeNext]_codeVars => [Abstract!AbsNext]_(Abstract!absVars)
  <2> SUFFICES ASSUME CodeInv, [CodeNext]_codeVars
               PROVE  Abstract!AbsNext \/ UNCHANGED <<savedCodes, granted>>
    BY DEF Abstract!absVars
  <2> USE DEF CodeInv, CodeTypeOK, Entry, ReliableSaves, Abstract!AbsNext
  <2>1. ASSUME NEW c \in Code, PutCode(c) PROVE Abstract!AbsNext
    <3>1. Abstract!Issue(c)
      BY <2>1 DEF PutCode, SavedInv, Abstract!Issue
    <3> QED
      BY <3>1, ZenonT(60)
  <2>2. ASSUME NEW c \in Code, ExpireCode(c) PROVE UNCHANGED <<savedCodes, granted>>
    BY <2>2 DEF ExpireCode
  <2>3. ASSUME NEW r \in Req, NEW c \in Code, Consume(r, c)
        PROVE  UNCHANGED <<savedCodes, granted>>
    BY <2>3, ZenonT(60) DEF Consume
  <2>4. ASSUME NEW r \in Req, FetchCode(r) \/ Install(r) PROVE UNCHANGED <<savedCodes, granted>>
    BY <2>4 DEF FetchCode, Install
  <2>5. ASSUME NEW r \in Req, Mark(r)
        PROVE  Abstract!AbsNext \/ UNCHANGED <<savedCodes, granted>>
    <3>1. PICK c \in Code : c = code[r]
      OBVIOUS
    <3>2. /\ savedCodes' = [savedCodes EXCEPT ![c] = "used"]
          /\ savedCodes[c] # "absent" /\ UNCHANGED granted
      BY <2>5, <3>1, ZenonT(60) DEF Mark, WinnerInv, Winner, SavedInv
    <3>3. Abstract!Spend(c) \/ UNCHANGED <<savedCodes, granted>>
      BY <3>2 DEF Abstract!Spend
    <3> QED
      BY <3>3
  <2>6. ASSUME NEW r \in Req, Answer(r)
        PROVE  Abstract!AbsNext \/ UNCHANGED <<savedCodes, granted>>
    <3>1. PICK c \in Code : c = code[r]
      OBVIOUS
    <3>2. Abstract!Respond(c) \/ UNCHANGED <<savedCodes, granted>>
      BY <2>6, <3>1, SMTT(60) DEF Answer, Refuse, Grant, WinnerInv, Winner, Abstract!Respond
    <3> QED
      BY <3>2, ZenonT(60)
  <2>7. CASE RestartCodes
    BY <2>7, ZenonT(60) DEF RestartCodes
  <2>8. CASE UNCHANGED codeVars
    BY <2>8 DEF codeVars
  <2> QED
    BY <2>1, <2>2, <2>3, <2>4, <2>5, <2>6, <2>7, <2>8, SMTT(60) DEF CodeNext
<1> QED
  BY <1>1, <1>2, ReliableInvariant, PTL DEF CodeSpec, ImplementsSingleUse, Abstract!AbsSpec
-----------------------------------------------------------------------------
(* Refresh tokens (TokenStore)                                             *)

\* A request that works presents a token that was put, and one that mints has
\* deleted its token from the backend too.
WorkInv ==
  \A r \in Req : /\ tokenPc[r] # "idle" => token[r] \in issuedTokens
                 /\ tokenPc[r] = "mint" => token[r] \notin savedTokens

\* What the process still has of a token: it is in the map, or with a request that
\* was given it.
Around(t) ==
  t \in tokens \/ \E r \in Req : token[r] = t /\ tokenPc[r] \in {"cache", "held", "mint"}

\* A token that was rotated is gone from the backend, and after a restart nothing of
\* it is left in the process.
GoneInv ==
  \A x \in successors :
    /\ x[1] \in issuedTokens /\ x[1] \notin savedTokens
    /\ x[3] <= restarts
    /\ x[3] < restarts => ~Around(x[1])

RotationInv == TokenTypeOK /\ WorkInv /\ GoneInv /\ RotatedInOneLife

\* No token is issued at first.
LEMMA RotationInit == TokenInit => RotationInv
  BY RestartAssumption, SMTT(60)
  DEF TokenInit, RotationInv, TokenTypeOK, WorkInv, GoneInv, RotatedInOneLife

\* Every step of the model keeps each variable in its type.
LEMMA TokenTypeStep == TokenTypeOK /\ [TokenNext]_tokenVars => TokenTypeOK'
<1> SUFFICES ASSUME TokenTypeOK, [TokenNext]_tokenVars PROVE TokenTypeOK'
  OBVIOUS
<1> USE DEF TokenTypeOK
<1>1. ASSUME NEW t \in Token, Issue(t) \/ ExpireToken(t) PROVE TokenTypeOK'
  BY <1>1 DEF Issue, PutToken, ExpireToken
<1>2. ASSUME NEW r \in Req, NEW t \in Token, Present(r, t) PROVE TokenTypeOK'
  BY <1>2 DEF Present
<1>3. ASSUME NEW r \in Req, NEW n \in Token, Reissue(r, n) PROVE TokenTypeOK'
  BY <1>3 DEF Reissue, PutToken
<1>4. ASSUME NEW r \in Req, LookupToken(r) PROVE TokenTypeOK'
  BY <1>4 DEF LookupToken
<1>5. ASSUME NEW r \in Req, CacheToken(r) \/ Mismatch(r) \/ MintFails(r) PROVE TokenTypeOK'
  BY <1>5 DEF CacheToken, Mismatch, MintFails
<1>6. ASSUME NEW r \in Req, DeleteToken(r) PROVE TokenTypeOK'
  BY <1>6 DEF DeleteToken
<1>7. CASE RestartTokens
  BY <1>7, RestartAssumption DEF RestartTokens
<1>8. CASE UNCHANGED tokenVars
  BY <1>8 DEF tokenVars
<1> QED
  BY <1>1, <1>2, <1>3, <1>4, <1>5, <1>6, <1>7, <1>8 DEF TokenNext

\* A step that adds no successor keeps the rest if the tokens that are rotated do not
\* come back: not to the backend, and to the process only by one that had them.
LEMMA NoSuccessor ==
  ASSUME RotationInv, TokenTypeOK', WorkInv', UNCHANGED <<successors, restarts>>,
         issuedTokens \subseteq issuedTokens',
         \A t \in issuedTokens : t \notin savedTokens =>
           t \notin savedTokens' /\ (Around(t)' => Around(t))
  PROVE  RotationInv'
<1>1. GoneInv'
  BY SMTT(60) DEF RotationInv, GoneInv
<1>2. RotatedInOneLife'
  BY DEF RotationInv, RotatedInOneLife
<1> QED
  BY <1>1, <1>2 DEF RotationInv

\* The successor of a token that a request has deleted joins those of the same life.
LEMMA SuccessorStep ==
  ASSUME RotationInv, TokenTypeOK', NEW r \in Req, NEW n \in Token, Reissue(r, n)
  PROVE  RotationInv'
<1> DEFINE t == token[r]
           x == <<t, n, restarts>>
<1>1. /\ tokenPc[r] = "mint" /\ n \notin issuedTokens
      /\ issuedTokens' = issuedTokens \cup {n} /\ tokens' = tokens \cup {n}
      /\ savedTokens' = savedTokens \cup {n} \/ savedTokens' = savedTokens
      /\ successors' = successors \cup {x}
      /\ tokenPc' = [tokenPc EXCEPT ![r] = "idle"] /\ token' = token /\ restarts' = restarts
  BY DEF Reissue, PutToken
<1>2. t \in issuedTokens /\ t \notin savedTokens /\ t # n
  BY <1>1 DEF RotationInv, WorkInv
<1>3. \A u : u # n /\ Around(u)' => Around(u)
  BY <1>1, SMTT(60) DEF Around, RotationInv, TokenTypeOK
<1>4. restarts \in Nat
  BY RestartAssumption DEF RotationInv, TokenTypeOK
<1>5. WorkInv'
  BY <1>1, <1>2, SMTT(60) DEF RotationInv, TokenTypeOK, WorkInv
<1>6. GoneInv'
  <2> SUFFICES ASSUME NEW y \in successors'
               PROVE  /\ y[1] \in issuedTokens' /\ y[1] \notin savedTokens'
                      /\ y[3] <= restarts'
                      /\ y[3] < restarts' => ~Around(y[1])'
    BY DEF GoneInv
  <2>1. CASE y = x
    BY <1>1, <1>2, <1>4, <2>1
  <2>2. CASE y \in successors
    BY <1>1, <1>3, <2>2, SMTT(60) DEF RotationInv, GoneInv
  <2> QED
    BY <1>1, <2>1, <2>2
<1>7. \A y \in successors : y[1] = t => y[3] = restarts
  <2> SUFFICES ASSUME NEW y \in successors, y[1] = t PROVE y[3] = restarts
    OBVIOUS
  <2>1. Around(t)
    BY <1>1 DEF Around
  <2>2. y[3] <= restarts /\ ~(y[3] < restarts)
    BY <2>1, SMTT(60) DEF RotationInv, GoneInv
  <2>3. y[3] \in Nat
    BY RestartAssumption DEF RotationInv, TokenTypeOK
  <2> QED
    BY <1>4, <2>2, <2>3
<1>8. RotatedInOneLife'
  BY <1>1, <1>7, SMTT(60) DEF RotationInv, RotatedInOneLife
<1> QED
  BY <1>5, <1>6, <1>8 DEF RotationInv

\* Every step keeps the invariant when the backend applies every write.
LEMMA RotationStep ==
  ASSUME ReliableSaves, RotationInv, TokenTypeOK', [TokenNext]_tokenVars
  PROVE  RotationInv'
<1> USE DEF ReliableSaves
<1>t. TokenTypeOK
  BY DEF RotationInv
<1>1. ASSUME NEW t \in Token, Issue(t) PROVE RotationInv'
  <2>1. /\ t \notin issuedTokens /\ issuedTokens' = issuedTokens \cup {t}
        /\ tokens' = tokens \cup {t} /\ savedTokens' = savedTokens \cup {t}
        /\ UNCHANGED <<tokenPc, token, restarts, successors>>
    BY <1>1 DEF Issue, PutToken
  <2>2. WorkInv'
    BY <2>1 DEF RotationInv, WorkInv
  <2>3. \A u \in issuedTokens : Around(u)' => Around(u)
    BY <2>1, SMTT(60) DEF Around
  <2> QED
    BY <2>1, <2>2, <2>3, NoSuccessor
<1>2. ASSUME NEW t \in Token, ExpireToken(t) PROVE RotationInv'
  <2>1. UNCHANGED <<tokens, savedTokens, issuedTokens, tokenPc, token, restarts, successors>>
    BY <1>2 DEF ExpireToken
  <2>2. WorkInv' /\ \A u : Around(u)' = Around(u)
    BY <2>1 DEF RotationInv, WorkInv, Around
  <2> QED
    BY <2>1, <2>2, NoSuccessor
<1>3. ASSUME NEW r \in Req, NEW t \in Token, Present(r, t) PROVE RotationInv'
  <2>1. /\ t \in issuedTokens /\ token' = [token EXCEPT ![r] = t]
        /\ \/ t \in tokens /\ tokenPc' = [tokenPc EXCEPT ![r] = "held"]
           \/ tokenPc' = [tokenPc EXCEPT ![r] = "lookup"]
           \/ tokenPc' = [tokenPc EXCEPT ![r] = "idle"]
        /\ UNCHANGED <<tokens, savedTokens, issuedTokens, restarts, successors>>
    BY <1>3, ZenonT(60) DEF Present
  <2>2. WorkInv'
    BY <1>t, <2>1, SMTT(60) DEF RotationInv, WorkInv, TokenTypeOK
  <2>3. \A u : Around(u)' => Around(u)
    BY <1>t, <2>1, SMTT(60) DEF Around, TokenTypeOK
  <2> QED
    BY <2>1, <2>2, <2>3, NoSuccessor
<1>4. ASSUME NEW r \in Req, NEW n \in Token, Reissue(r, n) PROVE RotationInv'
  BY <1>4, SuccessorStep
<1>5. ASSUME NEW r \in Req, LookupToken(r) PROVE RotationInv'
  <2>1. /\ tokenPc[r] = "lookup"
        /\ \/ token[r] \in savedTokens /\ tokenPc' = [tokenPc EXCEPT ![r] = "cache"]
           \/ tokenPc' = [tokenPc EXCEPT ![r] = "idle"]
        /\ UNCHANGED <<tokens, savedTokens, issuedTokens, token, restarts, successors>>
    BY <1>5, ZenonT(60) DEF LookupToken
  <2>2. WorkInv'
    BY <1>t, <2>1, SMTT(60) DEF RotationInv, WorkInv, TokenTypeOK
  <2>3. \A u : u \notin savedTokens /\ Around(u)' => Around(u)
    BY <1>t, <2>1, SMTT(60) DEF Around, TokenTypeOK
  <2> QED
    BY <2>1, <2>2, <2>3, NoSuccessor
<1>6. ASSUME NEW r \in Req, CacheToken(r) PROVE RotationInv'
  <2>1. /\ tokenPc[r] = "cache" /\ tokens' = tokens \cup {token[r]}
        /\ \/ tokenPc' = [tokenPc EXCEPT ![r] = "held"]
           \/ tokenPc' = [tokenPc EXCEPT ![r] = "idle"]
        /\ UNCHANGED <<savedTokens, issuedTokens, token, restarts, successors>>
    BY <1>6, ZenonT(60) DEF CacheToken
  <2>2. WorkInv'
    BY <1>t, <2>1, SMTT(60) DEF RotationInv, WorkInv, TokenTypeOK
  <2>3. \A u : Around(u)' => Around(u)
    BY <1>t, <2>1, SMTT(60) DEF Around, TokenTypeOK
  <2> QED
    BY <2>1, <2>2, <2>3, NoSuccessor
<1>7. ASSUME NEW r \in Req, DeleteToken(r) PROVE RotationInv'
  <2>1. /\ tokenPc[r] = "held" /\ tokens' = tokens \ {token[r]}
        /\ savedTokens' = savedTokens \ {token[r]}
        /\ tokenPc' = [tokenPc EXCEPT ![r] = "mint"]
        /\ UNCHANGED <<issuedTokens, token, restarts, successors>>
    BY <1>7 DEF DeleteToken
  <2>2. WorkInv'
    BY <1>t, <2>1, SMTT(60) DEF RotationInv, WorkInv, TokenTypeOK
  <2>3. \A u : Around(u)' => Around(u)
    BY <1>t, <2>1, SMTT(60) DEF Around, TokenTypeOK
  <2> QED
    BY <2>1, <2>2, <2>3, NoSuccessor
<1>8. ASSUME NEW r \in Req, Mismatch(r) \/ MintFails(r) PROVE RotationInv'
  <2>1. /\ tokenPc' = [tokenPc EXCEPT ![r] = "idle"]
        /\ UNCHANGED <<tokens, savedTokens, issuedTokens, token, restarts, successors>>
    BY <1>8 DEF Mismatch, MintFails
  <2>2. WorkInv'
    BY <1>t, <2>1, SMTT(60) DEF RotationInv, WorkInv, TokenTypeOK
  <2>3. \A u : Around(u)' => Around(u)
    BY <1>t, <2>1, SMTT(60) DEF Around, TokenTypeOK
  <2> QED
    BY <2>1, <2>2, <2>3, NoSuccessor
<1>9. CASE RestartTokens
  <2>1. /\ restarts' = restarts + 1 /\ tokens' = {} /\ tokenPc' = [r \in Req |-> "idle"]
        /\ UNCHANGED <<savedTokens, issuedTokens, token, successors>>
    BY <1>9 DEF RestartTokens
  <2>2. WorkInv' /\ \A u : ~Around(u)'
    BY <2>1 DEF WorkInv, Around
  <2>3. GoneInv'
    <3>1. restarts \in Nat /\ \A x \in successors : x[3] \in Nat
      BY <1>t, RestartAssumption DEF TokenTypeOK
    <3> QED
      BY <2>1, <2>2, <3>1, SMTT(60) DEF RotationInv, GoneInv
  <2>4. RotatedInOneLife'
    BY <2>1 DEF RotationInv, RotatedInOneLife
  <2> QED
    BY <2>2, <2>3, <2>4 DEF RotationInv
<1>10. CASE UNCHANGED tokenVars
  <2>1. UNCHANGED <<tokens, savedTokens, issuedTokens, tokenPc, token, restarts, successors>>
    BY <1>10 DEF tokenVars
  <2>2. WorkInv' /\ \A u : Around(u)' = Around(u)
    BY <2>1 DEF RotationInv, WorkInv, Around
  <2> QED
    BY <2>1, <2>2, NoSuccessor
<1> QED
  BY <1>1, <1>2, <1>3, <1>4, <1>5, <1>6, <1>7, <1>8, <1>9, <1>10 DEF TokenNext

\* So it holds always.
LEMMA RotationInvariant == ASSUME ReliableSaves PROVE TokenSpec => []RotationInv
<1>1. RotationInv /\ [TokenNext]_tokenVars => RotationInv'
  BY RotationStep, TokenTypeStep DEF RotationInv
<1> QED
  BY <1>1, RotationInit, PTL DEF TokenSpec
-----------------------------------------------------------------------------
(* The endpoint                                                            *)

\* A step of the endpoint is a step of the code store or none of its business,
LEMMA EndpointCodeStep == [EndpointNext]_endpointVars => [CodeNext]_codeVars
<1> SUFFICES ASSUME [EndpointNext]_endpointVars PROVE [CodeNext]_codeVars
  OBVIOUS
<1>1. ASSUME NEW r \in Req, CodeGrant(r) PROVE CodeNext
  BY <1>1 DEF CodeGrant, CodeNext, Answer
<1>2. ASSUME NEW r \in Req, NEW t \in Token, CodeGranted(r, t) PROVE CodeNext
  BY <1>2 DEF CodeGranted, CodeNext, Answer, Checks
<1>3. ASSUME NEW r \in Req, RefreshGrant(r) PROVE UNCHANGED codeVars
  BY <1>3, ZenonT(60)
  DEF RefreshGrant, codeVars, codeState, Present, LookupToken, CacheToken, Mismatch,
      DeleteToken, MintFails, Reissue
<1>4. CASE Pass
  BY <1>4, ZenonT(60) DEF Pass, CodeNext, codeVars, codeState, ExpireToken
<1>5. CASE Restart
  BY <1>5 DEF Restart, CodeNext
<1>6. CASE UNCHANGED endpointVars
  BY <1>6 DEF endpointVars, codeState, codeVars
<1> QED
  BY <1>1, <1>2, <1>3, <1>4, <1>5, <1>6 DEF EndpointNext

\* and the same of the token store.
LEMMA EndpointTokenStep == [EndpointNext]_endpointVars => [TokenNext]_tokenVars
<1> SUFFICES ASSUME [EndpointNext]_endpointVars PROVE [TokenNext]_tokenVars
  OBVIOUS
<1>1. ASSUME NEW r \in Req, CodeGrant(r) PROVE UNCHANGED tokenVars
  BY <1>1, ZenonT(60)
  DEF CodeGrant, tokenVars, tokenState, Consume, FetchCode, Install, Mark, Refuse
<1>2. ASSUME NEW r \in Req, NEW t \in Token, CodeGranted(r, t) PROVE TokenNext
  BY <1>2 DEF CodeGranted, TokenNext
<1>3. ASSUME NEW r \in Req, RefreshGrant(r) PROVE TokenNext
  BY <1>3, ZenonT(60) DEF RefreshGrant, TokenNext
<1>4. CASE Pass
  BY <1>4, ZenonT(60) DEF Pass, TokenNext, tokenVars, tokenState, PutCode, ExpireCode
<1>5. CASE Restart
  BY <1>5 DEF Restart, TokenNext
<1>6. CASE UNCHANGED endpointVars
  BY <1>6 DEF endpointVars, tokenState, tokenVars
<1> QED
  BY <1>1, <1>2, <1>3, <1>4, <1>5, <1>6 DEF EndpointNext

\* The endpoint runs each store as that store's own specification says, however
\* requests of the two grants overlap (handleAuthCodeGrant, handleRefreshTokenGrant).
LEMMA EndpointImplements == EndpointSpec => CodeSpec /\ TokenSpec
  BY EndpointCodeStep, EndpointTokenStep, PTL DEF EndpointSpec, EndpointInit, CodeSpec, TokenSpec

\* In one process life ConsumeCode hands a code to at most one of the requests that
\* present it, whatever the backend does.
THEOREM CodeConsumedOnce == EndpointSpec => []ConsumedOncePerLife
  BY EndpointImplements, ConsumedOnce, PTL

\* Through crashes, restarts and overlapping requests a code behaves like a single
\* durable one: it is spent at the backend before the token response is sent, and one
\* response at most is ever sent for it.
THEOREM CodeSpentOnce ==
  ASSUME ReliableSaves PROVE EndpointSpec => ImplementsSingleUse /\ []GrantedOnce
  BY EndpointImplements, CodeRefinement, CodeGrantedOnce, PTL

\* A refresh token that one process has rotated is not accepted by a later one,
\* whatever read-throughs were under way when it was deleted.
THEOREM TokenRotatedInOneLife ==
  ASSUME ReliableSaves PROVE EndpointSpec => []RotatedInOneLife
<1>1. RotationInv => RotatedInOneLife
  BY DEF RotationInv
<1> QED
  BY <1>1, EndpointImplements, RotationInvariant, PTL
=============================================================================
