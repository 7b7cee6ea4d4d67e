----------------------------- MODULE CodeStore -----------------------------
(***************************************************************************)
(* Authorization codes: CodeStore (internal/auth/store.go), its copy at    *)
(* vire-server, and the authorization_code grant of the token endpoint     *)
(* (handleAuthCodeGrant, internal/auth/token.go) that consumes them.       *)
(*                                                                         *)
(* A token request runs ConsumeCode in the steps its lock leaves open:     *)
(*                                                                         *)
(*   idle --Consume--> mark | fetch | idle  under s.mu                     *)
(*   fetch --FetchCode--> install | idle    GetCode, s.mu released         *)
(*   install --Install--> mark | idle       under s.mu again               *)
(*   mark --Mark--> answer                  MarkCodeUsed, no lock          *)
(*   answer --Grant / Refuse--> idle        the rest of the handler        *)
(*                                                                         *)
(* Put holds the lock while it saves, so it is one step.  A code's expiry  *)
(* time never changes, so "now is after ExpiresAt" is membership in the    *)
(* growing set expiredCodes.  The strings are random: a code is put once.  *)
(***************************************************************************)
EXTENDS OAuthBackend

CONSTANT Code    \* authorization codes

VARIABLES codes,         \* the in-memory map: absent, or the entry's Used flag
          savedCodes,    \* the same at vire-server
          issuedCodes,   \* codes that have been put
          expiredCodes,  \* codes whose ExpiresAt has passed
          codePc,        \* where each token request is
          code,          \* the code it presents
          fetched,       \* the entry GetCode returned to it
          consumed,      \* history: successful ConsumeCode calls in this process life
          granted        \* history: token responses issued for a code, ever

codeVars == <<codes, savedCodes, issuedCodes, expiredCodes, codePc, code, fetched,
              restarts, consumed, granted>>

Entry == {"absent", "unused", "used"}

\* The request parameters handleAuthCodeGrant compares with the stored code.
Checks == {"client_id", "redirect_uri", "code_verifier"}

CodeTypeOK ==
  /\ codes \in [Code -> Entry]
  /\ savedCodes \in [Code -> Entry]
  /\ issuedCodes \subseteq Code
  /\ expiredCodes \subseteq issuedCodes
  /\ codePc \in [Req -> {"idle", "fetch", "install", "mark", "answer"}]
  /\ code \in [Req -> Code]
  /\ fetched \in [Req -> Entry]
  /\ restarts \in 0..MaxRestarts
  /\ consumed \in [Code -> Nat]
  /\ granted \in [Code -> Nat]

CodeInit ==
  /\ codes = [c \in Code |-> "absent"]
  /\ savedCodes = [c \in Code |-> "absent"]
  /\ issuedCodes = {}
  /\ expiredCodes = {}
  /\ codePc = [r \in Req |-> "idle"]
  /\ code \in [Req -> Code]
  /\ fetched = [r \in Req |-> "absent"]
  /\ restarts = 0
  /\ consumed = [c \in Code |-> 0]
  /\ granted = [c \in Code |-> 0]
-----------------------------------------------------------------------------
\* CompleteAuthorization stores a new code and writes it through.
PutCode(c) ==
  /\ c \notin issuedCodes
  /\ issuedCodes' = issuedCodes \cup {c}
  /\ codes' = [codes EXCEPT ![c] = "unused"]
  /\ \E ok \in SaveResults : savedCodes' = [savedCodes EXCEPT ![c] = IF ok THEN "unused" ELSE @]
  /\ UNCHANGED <<expiredCodes, codePc, code, fetched, restarts, consumed, granted>>

\* Five minutes pass.
ExpireCode(c) ==
  /\ c \in issuedCodes \ expiredCodes
  /\ expiredCodes' = expiredCodes \cup {c}
  /\ UNCHANGED <<codes, savedCodes, issuedCodes, codePc, code, fetched, restarts,
                 consumed, granted>>

\* The end of ConsumeCode under the lock: entry e of code c is refused when it
\* is expired or used, and is otherwise marked used and won by request r.
Settle(r, c, e) ==
  LET wins == c \notin expiredCodes /\ e = "unused"
  IN  /\ codes' = [codes EXCEPT ![c] = IF wins THEN "used" ELSE e]
      /\ consumed' = [consumed EXCEPT ![c] = IF wins THEN @ + 1 ELSE @]
      /\ codePc' = [codePc EXCEPT ![r] = IF wins THEN "mark" ELSE "idle"]

\* A token request presents code c and looks it up in memory.
Consume(r, c) ==
  /\ codePc[r] = "idle"
  /\ code' = [code EXCEPT ![r] = c]
  /\ IF codes[c] = "absent"
       THEN /\ codePc' = [codePc EXCEPT ![r] = "fetch"]
            /\ UNCHANGED <<codes, consumed>>
       ELSE Settle(r, c, codes[c])
  /\ UNCHANGED <<savedCodes, issuedCodes, expiredCodes, fetched, restarts, granted>>

\* The read-through after a miss; an error is answered like an unknown code.
FetchCode(r) ==
  /\ codePc[r] = "fetch"
  /\ \E ok \in ReadResults :
       LET found == ok /\ savedCodes[code[r]] # "absent"
       IN  /\ fetched' = [fetched EXCEPT ![r] = IF found THEN savedCodes[code[r]] ELSE "absent"]
           /\ codePc' = [codePc EXCEPT ![r] = IF found THEN "install" ELSE "idle"]
  /\ UNCHANGED <<codes, savedCodes, issuedCodes, expiredCodes, code, restarts,
                 consumed, granted>>

\* ConsumeCode as it would be without the re-check after the read-through.
InstallFetched(r) ==
  /\ codePc[r] = "install"
  /\ Settle(r, code[r], fetched[r])
  /\ UNCHANGED <<savedCodes, issuedCodes, expiredCodes, code, fetched, restarts, granted>>

\* The lock is taken again: an entry that appeared in the meantime is used in
\* place of the fetched one.
Install(r) ==
  /\ codePc[r] = "install"
  /\ LET c == code[r]
     IN  Settle(r, c, IF codes[c] # "absent" THEN codes[c] ELSE fetched[r])
  /\ UNCHANGED <<savedCodes, issuedCodes, expiredCodes, code, fetched, restarts, granted>>

\* ConsumeCode as it would be if the write-through of the mark were dropped.
MarkLocalOnly(r) ==
  /\ codePc[r] = "mark"
  /\ codePc' = [codePc EXCEPT ![r] = "answer"]
  /\ UNCHANGED <<codes, savedCodes, issuedCodes, expiredCodes, code, fetched, restarts,
                 consumed, granted>>

\* MarkCodeUsed at the backend, after the lock is released.
Mark(r) ==
  /\ codePc[r] = "mark"
  /\ codePc' = [codePc EXCEPT ![r] = "answer"]
  /\ \E ok \in SaveResults :
       savedCodes' = [savedCodes EXCEPT ![code[r]] = IF ok /\ @ # "absent" THEN "used" ELSE @]
  /\ UNCHANGED <<codes, issuedCodes, expiredCodes, code, fetched, restarts, consumed,
                 granted>>

\* A parameter does not match the code, or minting fails: the client gets an
\* error and the code stays used.
Refuse(r, matching, minted) ==
  /\ codePc[r] = "answer"
  /\ ~(matching = Checks /\ minted)
  /\ codePc' = [codePc EXCEPT ![r] = "idle"]
  /\ UNCHANGED <<codes, savedCodes, issuedCodes, expiredCodes, code, fetched, restarts,
                 consumed, granted>>

\* Every parameter matches and both tokens are minted: the refresh token is
\* stored and the token response is sent.
Grant(r, matching, minted) ==
  /\ codePc[r] = "answer"
  /\ matching = Checks /\ minted
  /\ codePc' = [codePc EXCEPT ![r] = "idle"]
  /\ granted' = [granted EXCEPT ![code[r]] = @ + 1]
  /\ UNCHANGED <<codes, savedCodes, issuedCodes, expiredCodes, code, fetched, restarts,
                 consumed>>

\* The process stops at any point and a new one starts with empty maps.
RestartCodes ==
  /\ restarts < MaxRestarts
  /\ restarts' = restarts + 1
  /\ codes' = [c \in Code |-> "absent"]
  /\ codePc' = [r \in Req |-> "idle"]
  /\ consumed' = [c \in Code |-> 0]
  /\ UNCHANGED <<savedCodes, issuedCodes, expiredCodes, code, fetched, granted>>

Answer(r) ==
  \E matching \in SUBSET Checks, minted \in BOOLEAN :
    Refuse(r, matching, minted) \/ Grant(r, matching, minted)

CodeNext ==
  \/ \E c \in Code : PutCode(c) \/ ExpireCode(c)
  \/ \E r \in Req, c \in Code : Consume(r, c)
  \/ \E r \in Req : FetchCode(r) \/ Install(r) \/ Mark(r) \/ Answer(r)
  \/ RestartCodes

CodeSpec == CodeInit /\ [][CodeNext]_codeVars
-----------------------------------------------------------------------------
\* ConsumeCode succeeds at most once for a code as long as the process lives,
\* whatever the interleaving of the requests and whatever the backend does:
\* the claim of the comment above ConsumeCode.
ConsumedOncePerLife == \A c \in Code : consumed[c] <= 1

\* Across restarts, at most one token response is ever issued for a code
\* (the "single-use" of the CodeStore comment).  It needs a backend that
\* applies every write: a lost MarkCodeUsed is only logged.
GrantedOnce == \A c \in Code : granted[c] <= 1

\* The abstract code: live while vire-server holds it unused, spent once it
\* holds it used.
Abstract == INSTANCE SingleUseCode
  WITH live <- {c \in Code : savedCodes[c] = "unused"},
       spent <- {c \in Code : savedCodes[c] = "used"},
       answers <- granted

\* The stores, the read-through, the crashes and the concurrent requests
\* together behave like a single durable single-use code: the token response
\* of handleAuthCodeGrant always comes after the code is spent at the backend.
ImplementsSingleUse == Abstract!AbsSpec
=============================================================================
