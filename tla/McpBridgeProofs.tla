-------------------------- MODULE McpBridgeProofs ---------------------------
(***************************************************************************)
(* Proofs about vire-mcp, for every number of bridges, ports, launches and *)
(* callbacks.  The invariant counts the flows a launch may still begin,    *)
(* which depends on where connectWithOAuth is and, within a flow, on where *)
(* the flow returns to.                                                    *)
(***************************************************************************)
EXTENDS McpBridge, TLAPS

Before == {"discover", "open"}
After == {"wait", "truncate", "write"}

\* How many more flows a bridge at step p with return point r may begin.
Left(p, r) ==
  IF p = "start" \/ (p \in Before /\ r = "start2") THEN 2
  ELSE IF p \in {"start2", "init"} \cup Before \/ (p \in After /\ r = "start2") THEN 1
  ELSE 0

Result == [ok : BOOLEAN, flow : Flow]

\* The flows that have begun and those that may still begin are at most two in a
\* launch, and at most twice the launches in all; a flow that waits is one of Flow.
Inv ==
  /\ TypeOK
  /\ \A b \in Bridge : flows[b] \in Nat /\ prompts[b] + Left(pc[b], ret[b]) <= 2
  /\ \A b \in Bridge : flows[b] + Left(pc[b], ret[b]) <= 2 * launches
  /\ \A b \in Bridge : pc[b] \in After => expected[b] \in Flow
  /\ codeCh \in [Bridge -> {<<>>} \cup {<<x>> : x \in Result}]
-----------------------------------------------------------------------------
\* A function is updated within its range.
LEMMA Update ==
  ASSUME NEW S, NEW T, NEW f \in [S -> T], NEW x, NEW v \in T
  PROVE  [f EXCEPT ![x] = v] \in [S -> T]
  BY ZenonT(60)

\* The steps of the program that the actions name.
LEMMA Steps ==
  /\ {"off", "start", "dstart", "init", "dinit", "list", "serve", "exited"} \subseteq Step
  /\ InFlow \subseteq Step /\ Ret \subseteq Step
  BY DEF Step

\* A channel of capacity 1 holds at most one result.
LEMMA Short ==
  ASSUME NEW q \in {<<>>} \cup {<<x>> : x \in Result}
  PROVE  Len(q) <= 1
<1>1. CASE q = <<>>
  BY <1>1
<1>2. CASE \E x : q = <<x>>
  BY <1>2
<1> QED
  BY <1>1, <1>2

\* While flows are left there is a next one.
LEMMA NextFlow ==
  ASSUME NEW b \in Bridge, NEW n \in Nat, NEW m \in 0..MaxLaunches, n + 1 <= 2 * m
  PROVE  <<b, n + 1>> \in Flow
  BY BridgeAssumption DEF Flow
-----------------------------------------------------------------------------
(* One lemma for each kind of step of a bridge.                            *)

\* The first try of a call of connectWithOAuth.
LEMMA AskStep ==
  ASSUME Inv, NEW b \in Bridge, NEW at, NEW next, NEW retry, Ask(b, at, next, retry),
         <<at, next, retry>> \in {<<"start", "init", "start2">>, <<"init", "list", "init2">>}
  PROVE  Inv'
<1>1. pc' \in [Bridge -> Step]
  <2>1. \E v \in Step : pc' = [pc EXCEPT ![b] = v]
    BY Steps DEF Inv, TypeOK, InFlow, Ask, Goto
  <2> QED
    BY <2>1, Update DEF Inv, TypeOK
<1>2. ret' \in [Bridge -> Ret]
  <2>1. ret' = ret \/ \E v \in Ret : ret' = [ret EXCEPT ![b] = v]
    BY DEF Ret, Ask, Goto
  <2> QED
    BY <2>1, Update, ZenonT(60) DEF Inv, TypeOK
<1>3. \A c \in Bridge : /\ prompts'[c] + Left(pc'[c], ret'[c]) <= 2
                       /\ flows'[c] + Left(pc'[c], ret'[c]) <= 2 * launches'
  BY SMTT(60) DEF Inv, TypeOK, Step, Ret, InFlow, Left, Before, After, Ask, Goto
<1>4. \A c \in Bridge : pc'[c] \in After => expected'[c] \in Flow
  BY SMT DEF Inv, TypeOK, After, Ask, Goto
<1>5. codeCh' \in [Bridge -> {<<>>} \cup {<<x>> : x \in Result}]
  BY DEF Inv, Ask, Goto
<1>6. \A c \in Bridge : Len(codeCh'[c]) <= 1
  BY <1>5, Short
<1> QED
  BY <1>1, <1>2, <1>3, <1>4, <1>5, <1>6, SMTT(60)
     DEF Inv, TypeOK, bridge, browser, Ask, Goto

\* The second try, and the calls of connectDirect.
LEMMA AskOnceStep ==
  ASSUME Inv, NEW b \in Bridge, NEW at, NEW next, AskOnce(b, at, next),
         <<at, next>> \in {<<"start2", "init">>, <<"init2", "list">>, <<"dstart", "dinit">>,
                          <<"dinit", "list">>}
  PROVE  Inv'
<1>1. pc' \in [Bridge -> Step]
  <2>1. \E v \in Step : pc' = [pc EXCEPT ![b] = v]
    BY Steps DEF Inv, TypeOK, InFlow, AskOnce, Goto
  <2> QED
    BY <2>1, Update DEF Inv, TypeOK
<1>2. \A c \in Bridge : /\ prompts'[c] + Left(pc'[c], ret'[c]) <= 2
                       /\ flows'[c] + Left(pc'[c], ret'[c]) <= 2 * launches'
  BY SMTT(60) DEF Inv, TypeOK, Step, Ret, InFlow, Left, Before, After, AskOnce, Goto
<1>3. \A c \in Bridge : pc'[c] \in After => expected'[c] \in Flow
  BY SMT DEF Inv, TypeOK, After, AskOnce, Goto
<1>4. codeCh' \in [Bridge -> {<<>>} \cup {<<x>> : x \in Result}]
  BY DEF Inv, AskOnce, Goto
<1>5. \A c \in Bridge : Len(codeCh'[c]) <= 1
  BY <1>4, Short
<1> QED
  BY <1>1, <1>2, <1>3, <1>4, <1>5 DEF Inv, TypeOK, bridge, browser, AskOnce, Goto

\* A launch may begin two flows more.
LEMMA LaunchStep ==
  ASSUME Inv, NEW b \in Bridge, Launch(b)
  PROVE  Inv'
<1>1. pc' \in [Bridge -> Step]
  <2>1. \E v \in Step : pc' = [pc EXCEPT ![b] = v]
    BY Steps DEF Inv, TypeOK, InFlow, Launch, Goto
  <2> QED
    BY <2>1, Update DEF Inv, TypeOK
<1>2. launches' \in 0..MaxLaunches
  BY BridgeAssumption DEF Inv, TypeOK, Launch
<1>3. mode' \in [Bridge -> {"direct", "oauth"}]
  <2>1. mode' = mode \/ \E v \in {"direct", "oauth"} : mode' = [mode EXCEPT ![b] = v]
    BY SMTT(60) DEF Inv, TypeOK, Launch, Goto
  <2> QED
    BY <2>1, Update, ZenonT(60) DEF Inv, TypeOK
<1>4. redirect' \in [Bridge -> Port \cup {None}]
  <2>1. redirect' = redirect \/ \E v \in Port \cup {None} : redirect' = [redirect EXCEPT ![b] = v]
    BY DEF FreePort, Launch
  <2> QED
    BY <2>1, Update, ZenonT(60) DEF Inv, TypeOK
<1>5. callback' \in [Bridge -> Port \cup {None}]
  <2>1. callback' = callback \/ \E v \in Port \cup {None} : callback' = [callback EXCEPT ![b] = v]
    BY SMTT(60) DEF FreePort, Launch
  <2> QED
    BY <2>1, Update, ZenonT(60) DEF Inv, TypeOK
<1>6. registered' \in [Bridge -> BOOLEAN]
  <2>1. registered' = registered \/ \E v \in BOOLEAN : registered' = [registered EXCEPT ![b] = v]
    BY ZenonT(60) DEF Inv, TypeOK, Launch, Goto
  <2> QED
    BY <2>1, Update, ZenonT(60) DEF Inv, TypeOK
<1>7. prompts' \in [Bridge -> Nat]
  BY SMT DEF Inv, TypeOK, Launch, Goto
<1>8. expected' \in [Bridge -> Flow \cup {None}]
  BY SMT DEF Inv, TypeOK, Launch, Goto
<1>9. tools' \in [Bridge -> BOOLEAN]
  <2>1. tools' = tools \/ \E v \in BOOLEAN : tools' = [tools EXCEPT ![b] = v]
    BY ZenonT(60) DEF Inv, TypeOK, Launch, Goto
  <2> QED
    BY <2>1, Update, ZenonT(60) DEF Inv, TypeOK
<1>10. \A c \in Bridge : /\ prompts'[c] + Left(pc'[c], ret'[c]) <= 2
                       /\ flows'[c] + Left(pc'[c], ret'[c]) <= 2 * launches'
  BY SMTT(60) DEF Inv, TypeOK, Step, Ret, InFlow, Left, Before, After, Launch, Goto
<1>11. \A c \in Bridge : pc'[c] \in After => expected'[c] \in Flow
  BY SMT DEF Inv, TypeOK, After, Launch, Goto
<1>12. codeCh' \in [Bridge -> {<<>>} \cup {<<x>> : x \in Result}]
  BY DEF Inv, Launch, Goto
<1>13. \A c \in Bridge : Len(codeCh'[c]) <= 1
  BY <1>12, Short
<1> QED
  BY <1>1, <1>2, <1>3, <1>4, <1>5, <1>6, <1>7, <1>8, <1>9, <1>10, <1>11, <1>12, <1>13, SMTT(60)
     DEF Inv, TypeOK, bridge, browser, Launch, Goto

\* A flow begins: it is one of those that were left.
LEMMA OpenStep ==
  ASSUME Inv, NEW b \in Bridge, Open(b)
  PROVE  Inv'
<1>0. <<b, flows[b] + 1>> \in Flow
  <2>1. Left(pc[b], ret[b]) \in Nat /\ Left(pc[b], ret[b]) >= 1
    BY DEF Left, Before, Open
  <2>2. flows[b] \in Nat /\ launches \in 0..MaxLaunches /\ flows[b] + 1 <= 2 * launches
    BY <2>1, BridgeAssumption DEF Inv, TypeOK
  <2> QED
    BY <2>2, NextFlow
<1>1. pc' \in [Bridge -> Step]
  <2>1. \E v \in Step : pc' = [pc EXCEPT ![b] = v]
    BY Steps, ZenonT(60) DEF Inv, TypeOK, InFlow, Open, Goto
  <2> QED
    BY <2>1, Update DEF Inv, TypeOK
<1>2. flows' \in [Bridge -> Nat]
  BY <1>0, SMT DEF Inv, TypeOK, Open, Goto
<1>3. prompts' \in [Bridge -> Nat]
  BY <1>0, SMT DEF Inv, TypeOK, Open, Goto
<1>4. expected' \in [Bridge -> Flow \cup {None}]
  BY <1>0, SMT DEF Inv, TypeOK, Open, Goto
<1>5. listening' \in [Bridge -> BOOLEAN]
  BY Update DEF Inv, TypeOK, Open
<1>6. tabs' \in [Flow -> Port \cup {None}]
  <2>1. \E v \in Port \cup {None} : tabs' = [tabs EXCEPT ![<<b, flows[b] + 1>>] = v]
    BY ZenonT(60) DEF KnownRedirect, Open, Inv, TypeOK
  <2> QED
    BY <2>1, Update, ZenonT(60) DEF Inv, TypeOK
<1>7. \A c \in Bridge : /\ prompts'[c] + Left(pc'[c], ret'[c]) <= 2
                       /\ flows'[c] + Left(pc'[c], ret'[c]) <= 2 * launches'
  BY SMTT(60) DEF Inv, TypeOK, Step, Ret, InFlow, Left, Before, After, Open, Goto
<1>8. \A c \in Bridge : pc'[c] \in After => expected'[c] \in Flow
  BY <1>0, SMT DEF Inv, TypeOK, After, Open, Goto
<1>9. codeCh' \in [Bridge -> {<<>>} \cup {<<x>> : x \in Result}]
  BY DEF Inv, Open, Goto
<1>10. \A c \in Bridge : Len(codeCh'[c]) <= 1
  BY <1>9, Short
<1> QED
  BY <1>1, <1>2, <1>3, <1>4, <1>5, <1>6, <1>7, <1>8, <1>9, <1>10, ZenonT(60)
     DEF Inv, TypeOK, bridge, browser, Open, Goto

\* The flow returns to the call that it was begun for.
LEMMA SaveStep ==
  ASSUME Inv, NEW b \in Bridge, SaveToken(b)
  PROVE  Inv'
<1>1. pc' \in [Bridge -> Step]
  <2>1. \E v \in Step : pc' = [pc EXCEPT ![b] = v]
    BY Steps, SMTT(60) DEF Inv, TypeOK, InFlow, SaveToken, EndFlow, Goto
  <2> QED
    BY <2>1, Update DEF Inv, TypeOK
<1>2. listening' \in [Bridge -> BOOLEAN]
  <2>1. listening' = listening \/ \E v \in BOOLEAN : listening' = [listening EXCEPT ![b] = v]
    BY ZenonT(60) DEF Inv, TypeOK, SaveToken, EndFlow, Goto
  <2> QED
    BY <2>1, Update, ZenonT(60) DEF Inv, TypeOK
<1>3. file' \in Flow \cup {None, Torn}
  BY SMTT(60) DEF Inv, TypeOK, After, SaveToken, EndFlow
<1>4. \A c \in Bridge : /\ prompts'[c] + Left(pc'[c], ret'[c]) <= 2
                       /\ flows'[c] + Left(pc'[c], ret'[c]) <= 2 * launches'
  BY SMTT(60) DEF Inv, TypeOK, Step, Ret, InFlow, Left, Before, After, SaveToken, EndFlow, Goto
<1>5. \A c \in Bridge : pc'[c] \in After => expected'[c] \in Flow
  BY SMT DEF Inv, TypeOK, After, SaveToken, EndFlow, Goto
<1>6. codeCh' \in [Bridge -> {<<>>} \cup {<<x>> : x \in Result}]
  BY DEF Inv, SaveToken, EndFlow, Goto
<1>7. \A c \in Bridge : Len(codeCh'[c]) <= 1
  BY <1>6, Short
<1> QED
  BY <1>1, <1>2, <1>3, <1>4, <1>5, <1>6, <1>7, SMTT(60)
     DEF Inv, TypeOK, bridge, browser, SaveToken, EndFlow, Goto

\* A result that is taken from the channel ends the flow or leads to its token.
LEMMA ReceiveStep ==
  ASSUME Inv, NEW b \in Bridge, Receive(b)
  PROVE  Inv'
<1>1. pc[b] = "wait" /\ expected[b] \in Flow
  BY ZenonT(60) DEF Inv, After, Receive
<1>2. \/ pc' = [pc EXCEPT ![b] = "truncate"] /\ listening' = listening
      \/ pc' = [pc EXCEPT ![b] = "exited"] /\ listening' = [listening EXCEPT ![b] = FALSE]
  BY ZenonT(60) DEF Receive, EndFlow, Goto
<1>4. /\ codeCh' = [codeCh EXCEPT ![b] = <<>>]
      /\ UNCHANGED <<launches, ret, mode, redirect, callback, registered, flows, prompts,
                     expected, tools, browser, file, dead>>
  BY ZenonT(60) DEF Receive
<1>5. pc' \in [Bridge -> Step]
  <2>1. "truncate" \in Step /\ "exited" \in Step
    BY Steps, SMTT(60) DEF InFlow
  <2> QED
    BY <1>2, <2>1, Update, ZenonT(60) DEF Inv, TypeOK
<1>6. listening' \in [Bridge -> BOOLEAN]
  BY <1>2, Update, ZenonT(60) DEF Inv, TypeOK
<1>7. \A c \in Bridge : Left(pc'[c], ret'[c]) \in Nat /\ Left(pc'[c], ret'[c]) <= Left(pc[c], ret[c])
  BY <1>1, <1>2, <1>4, SMTT(60) DEF Inv, TypeOK, Left, Before, After
<1>8. \A c \in Bridge : /\ prompts'[c] + Left(pc'[c], ret'[c]) <= 2
                       /\ flows'[c] + Left(pc'[c], ret'[c]) <= 2 * launches'
  <2> SUFFICES ASSUME NEW c \in Bridge
               PROVE  /\ prompts'[c] + Left(pc'[c], ret'[c]) <= 2
                      /\ flows'[c] + Left(pc'[c], ret'[c]) <= 2 * launches'
    OBVIOUS
  <2>1. Left(pc[c], ret[c]) \in Nat
    BY DEF Left
  <2>2. prompts[c] \in Nat /\ flows[c] \in Nat
    BY DEF Inv, TypeOK
  <2>3. launches \in Nat
    BY BridgeAssumption DEF Inv, TypeOK
  <2>4. prompts[c] + Left(pc[c], ret[c]) <= 2 /\ flows[c] + Left(pc[c], ret[c]) <= 2 * launches
    BY ZenonT(60) DEF Inv
  <2> QED
    BY <1>4, <1>7, <2>1, <2>2, <2>3, <2>4, SMTT(60)
<1>9. \A c \in Bridge : pc'[c] \in After => expected'[c] \in Flow
  <2> SUFFICES ASSUME NEW c \in Bridge, pc'[c] \in After PROVE expected'[c] \in Flow
    OBVIOUS
  <2>1. CASE c = b
    BY <1>1, <1>4, <2>1, ZenonT(60)
  <2>2. CASE c # b
    BY <1>2, <1>4, <2>2, ZenonT(60) DEF Inv, TypeOK
  <2> QED
    BY <2>1, <2>2
<1>10. codeCh' \in [Bridge -> {<<>>} \cup {<<x>> : x \in Result}]
  <2>1. <<>> \in {<<>>} \cup {<<x>> : x \in Result}
    OBVIOUS
  <2> QED
    BY <1>4, <2>1, Update, ZenonT(60) DEF Inv
<1>11. \A c \in Bridge : Len(codeCh'[c]) <= 1
  BY <1>10, Short
<1> QED
  BY <1>4, <1>5, <1>6, <1>8, <1>9, <1>10, <1>11, ZenonT(60) DEF Inv, TypeOK, browser

\* Steps that begin no flow.
LEMMA OtherStep ==
  ASSUME Inv, NEW b \in Bridge, Discover(b) \/ Timeout(b) \/ ListTools(b) \/ Stop(b)
  PROVE  Inv'
<1>1. pc' \in [Bridge -> Step]
  <2>1. \E v \in Step : pc' = [pc EXCEPT ![b] = v]
    BY Steps, SMTT(60)
       DEF Inv, TypeOK, InFlow, Discover, Timeout, ListTools, Stop, EndFlow, Goto
  <2> QED
    BY <2>1, Update, ZenonT(60) DEF Inv, TypeOK
<1>2. listening' \in [Bridge -> BOOLEAN]
  <2>1. listening' = listening \/ \E v \in BOOLEAN : listening' = [listening EXCEPT ![b] = v]
    BY ZenonT(60) DEF Inv, TypeOK, Discover, Timeout, ListTools, Stop, EndFlow, Goto
  <2> QED
    BY <2>1, Update, ZenonT(60) DEF Inv, TypeOK
<1>3. registered' \in [Bridge -> BOOLEAN]
  <2>1. registered' = registered \/ \E v \in BOOLEAN : registered' = [registered EXCEPT ![b] = v]
    BY ZenonT(60) DEF Inv, TypeOK, Discover, Timeout, ListTools, Stop, EndFlow, Goto
  <2> QED
    BY <2>1, Update, ZenonT(60) DEF Inv, TypeOK
<1>4. tools' \in [Bridge -> BOOLEAN]
  <2>1. tools' = tools \/ \E v \in BOOLEAN : tools' = [tools EXCEPT ![b] = v]
    BY ZenonT(60) DEF Inv, TypeOK, Discover, Timeout, ListTools, Stop, EndFlow, Goto
  <2> QED
    BY <2>1, Update, ZenonT(60) DEF Inv, TypeOK
<1>5. \A c \in Bridge : /\ prompts'[c] + Left(pc'[c], ret'[c]) <= 2
                       /\ flows'[c] + Left(pc'[c], ret'[c]) <= 2 * launches'
  BY SMTT(60)
     DEF Inv, TypeOK, Step, Ret, InFlow, Left, Before, After, Discover, Timeout, ListTools, Stop, EndFlow, Goto
<1>6. \A c \in Bridge : pc'[c] \in After => expected'[c] \in Flow
  BY SMT DEF Inv, TypeOK, After, Discover, Timeout, ListTools, Stop, EndFlow, Goto
<1>7. codeCh' \in [Bridge -> {<<>>} \cup {<<x>> : x \in Result}]
  BY DEF Inv, Discover, Timeout, ListTools, Stop, EndFlow, Goto
<1>8. \A c \in Bridge : Len(codeCh'[c]) <= 1
  BY <1>7, Short
<1> QED
  BY <1>1, <1>2, <1>3, <1>4, <1>5, <1>6, <1>7, <1>8, SMTT(60)
     DEF Inv, TypeOK, bridge, browser, Discover, Timeout, ListTools, Stop, EndFlow, Goto

\* The browser and the portal: a callback that finds the channel full is not kept.
LEMMA OutsideStep ==
  ASSUME Inv, NEW f \in Flow, Expire(f) \/ \E ok \in BOOLEAN : Callback(f, ok)
  PROVE  Inv'
<1>1. CASE Expire(f)
  BY <1>1, SMTT(60) DEF Inv, TypeOK, Expire, bridge, browser
<1>2. ASSUME NEW ok \in BOOLEAN, Callback(f, ok)
      PROVE  Inv'
  <2>1. codeCh' \in [Bridge -> {<<>>} \cup {<<x>> : x \in Result}]
    <3>1. [ok |-> ok, flow |-> f] \in Result
      BY ZenonT(60) DEF Result
    <3>2. \A b \in Bridge : codeCh'[b] \in {codeCh[b], <<[ok |-> ok, flow |-> f]>>}
      BY <1>2, SMTT(60) DEF Callback
    <3>3. codeCh' = [b \in Bridge |-> codeCh'[b]]
      BY <1>2 DEF Callback
    <3> HIDE DEF Result
    <3> QED
      BY <3>1, <3>2, <3>3 DEF Inv
  <2>2. \A b \in Bridge : Len(codeCh'[b]) <= 1
    BY <2>1, Short, SMTT(60)
  <2>3. sent' \in 0..MaxCallbacks /\ granted' \subseteq Flow
    BY <1>2, BridgeAssumption, SMTT(60) DEF Inv, TypeOK, Callback
  <2> QED
    BY <1>2, <2>1, <2>2, <2>3 DEF Inv, TypeOK, Callback
<1> QED
  BY <1>1, <1>2, SMTT(60)

\* The invariant holds before the first launch,
LEMMA InvInit == Init => Inv
<1> SUFFICES ASSUME Init
             PROVE  Inv
  OBVIOUS
<1>1. TypeOK
  <2>1. pc \in [Bridge -> Step] /\ ret \in [Bridge -> Ret]
    BY SMTT(60) DEF Init, Step, Ret
  <2>2. \A b \in Bridge : Len(codeCh[b]) <= 1
    BY Short DEF Init
  <2> QED
    BY <2>1, <2>2, BridgeAssumption DEF Init, TypeOK
<1>2. \A b \in Bridge : Left(pc[b], ret[b]) = 0
  BY DEF Init, Left, Before, After
<1> QED
  BY <1>1, <1>2 DEF Init, Inv, After

\* every step keeps it,
LEMMA InvStep == Inv /\ [Next]_vars => Inv'
<1> SUFFICES ASSUME Inv, [Next]_vars
             PROVE  Inv'
  OBVIOUS
<1>1. ASSUME NEW b \in Bridge, Launch(b) \/ Main(b) \/ Stop(b)
      PROVE  Inv'
  <2>1. CASE ConnectWithOAuth(b)
    BY <2>1, AskStep, AskOnceStep DEF ConnectWithOAuth
  <2>2. CASE ConnectDirect(b)
    BY <2>2, AskOnceStep, SMTT(60) DEF ConnectDirect
  <2> QED
    BY <1>1, <2>1, <2>2, LaunchStep, OpenStep, SaveStep, ReceiveStep, OtherStep DEF Main
<1>2. CASE UNCHANGED vars
  BY <1>2, SMTT(60) DEF vars, bridge, browser, Inv, TypeOK
<1> QED
  BY <1>1, <1>2, OutsideStep DEF Next
-----------------------------------------------------------------------------
\* so it holds always.
LEMMA InvHolds == FairSpec => []Inv
<1> QED
  BY InvInit, InvStep, PTL DEF FairSpec

\* The state of the bridges is well typed: in particular a channel of results never
\* holds more than one, and no flow is begun beyond two for each launch.
THEOREM TypeCorrect == FairSpec => []TypeOK
<1>1. Inv => TypeOK
  BY DEF Inv
<1> QED
  BY <1>1, InvHolds, PTL

\* A launch sends the user to the browser at most twice, whatever the portal answers
\* and whatever other bridges do to the token file (connectWithOAuth).
THEOREM PromptsAreBounded == FairSpec => []PromptsBounded
<1>1. \A p, r : Left(p, r) \in Nat
  BY DEF Left
<1>2. ASSUME Inv, NEW b \in Bridge
      PROVE  prompts[b] <= 2
  <2>1. prompts[b] \in Nat /\ prompts[b] + Left(pc[b], ret[b]) <= 2
    BY <1>2 DEF Inv, TypeOK
  <2> QED
    BY <1>1, <2>1, SMTT(60)
<1>3. Inv => PromptsBounded
  BY <1>2 DEF PromptsBounded
<1> QED
  BY <1>3, InvHolds, PTL
=============================================================================
