----------------------------- MODULE McpBridge ------------------------------
(***************************************************************************)
(* vire-mcp (cmd/vire-mcp), the bridge an MCP client starts on the user's  *)
(* machine: it connects to the portal, sends the user through the OAuth    *)
(* flow in a browser when the portal asks for it, then serves the portal's *)
(* tools over stdio.  Several bridges may run, and share one token file.   *)
(*                                                                         *)
(*   off --Launch--> start | dstart | exited                               *)
(*   start --Start--> init | discover      init --Initialize--> list | ... *)
(*   discover --Discover--> open --Open--> wait --Receive--> truncate      *)
(*   truncate --SaveToken--> write --SaveToken--> start2 | init2           *)
(*   list --ListTools--> serve             any error --> exited            *)
(*                                                                         *)
(* A flow is <<bridge, number>>.  It names the state, the PKCE verifier,   *)
(* the code and the token of that flow, which are fresh random values.     *)
(* The portal and the mcp-go transport answer in any way they can.         *)
(***************************************************************************)
EXTENDS Naturals, Sequences

CONSTANTS Bridge,
          Port,         \* TCP ports of the loopback interface
          None, Torn,
          MaxLaunches,  \* bound on the launches, of all bridges
          MaxCallbacks  \* bound on the callbacks the browser sends

\* A launch begins at most two flows; one more leaves room to see it exceed them.
Flow == Bridge \X (1..(2 * MaxLaunches + 1))

ASSUME BridgeAssumption ==
  /\ {None, Torn} \cap (Port \cup Flow) = {}
  /\ MaxLaunches \in Nat \ {0}
  /\ MaxCallbacks \in Nat \ {0}

VARIABLES pc, launches,
          ret,        \* where doOAuthFlow returns to
          mode,       \* "direct" with VIRE_MCP_URL, "oauth" without
          redirect,   \* the port in OAuthConfig.RedirectURI
          callback,   \* the port given to connectWithOAuth
          listening,  \* the callback server runs
          registered, \* handler.GetClientID() is not empty
          flows,      \* how many flows the bridge has begun, in all launches
          prompts,    \* and in this launch
          expected,   \* the state given to SetExpectedState
          codeCh,     \* the channel of callback results, of capacity 1
          tabs,       \* browser: the redirect URI's port of every flow opened
          sent,       \* browser: how many callbacks it sent
          granted,    \* browser: the flows the user authorized
          file,       \* credentials.json: None, Torn or the flow of the token
          dead,       \* portal: flows whose token it refuses
          tools       \* the bridge registered the portal's tools

bridge == <<pc, launches, ret, mode, redirect, callback, listening, registered, flows,
            prompts, expected, codeCh, tools>>
browser == <<tabs, sent, granted>>
vars == <<bridge, browser, file, dead>>

Ret == {"start2", "init2"}
InFlow == {"discover", "open", "wait", "truncate", "write"}
Step == {"off", "start", "dstart", "init", "dinit", "list", "serve", "exited"}
          \cup Ret \cup InFlow

TypeOK ==
  /\ pc \in [Bridge -> Step]
  /\ launches \in 0..MaxLaunches
  /\ ret \in [Bridge -> Ret]
  /\ mode \in [Bridge -> {"direct", "oauth"}]
  /\ redirect \in [Bridge -> Port \cup {None}]
  /\ callback \in [Bridge -> Port \cup {None}]
  /\ listening \in [Bridge -> BOOLEAN]
  /\ registered \in [Bridge -> BOOLEAN]
  /\ flows \in [Bridge -> Nat]
  /\ prompts \in [Bridge -> Nat]
  /\ expected \in [Bridge -> Flow \cup {None}]
  /\ \A b \in Bridge : Len(codeCh[b]) <= 1
  /\ tabs \in [Flow -> Port \cup {None}]
  /\ sent \in 0..MaxCallbacks
  /\ granted \subseteq Flow
  /\ file \in Flow \cup {None, Torn}
  /\ dead \subseteq Flow
  /\ tools \in [Bridge -> BOOLEAN]

Init ==
  /\ pc = [b \in Bridge |-> "off"]
  /\ launches = 0
  /\ ret = [b \in Bridge |-> "start2"]
  /\ mode = [b \in Bridge |-> "oauth"]
  /\ redirect = [b \in Bridge |-> None]
  /\ callback = [b \in Bridge |-> None]
  /\ listening = [b \in Bridge |-> FALSE]
  /\ registered = [b \in Bridge |-> FALSE]
  /\ flows = [b \in Bridge |-> 0]
  /\ prompts = [b \in Bridge |-> 0]
  /\ expected = [b \in Bridge |-> None]
  /\ codeCh = [b \in Bridge |-> <<>>]
  /\ tabs = [f \in Flow |-> None]
  /\ sent = 0
  /\ granted = {}
  /\ file \in {None, Torn}
  /\ dead = {}
  /\ tools = [b \in Bridge |-> FALSE]
-----------------------------------------------------------------------------
Goto(b, step) == pc' = [pc EXCEPT ![b] = step]

\* os.Exit(1), which also ends the callback server.
Exit(b) ==
  /\ Goto(b, "exited")
  /\ listening' = [listening EXCEPT ![b] = FALSE]

\* findFreePort: a port nobody listens on now.  It is closed again at once, so
\* nothing keeps it free.
FreePort == Port \ {callback[b] : b \in {c \in Bridge : listening[c]}}

\* main, up to the connection.  The port of RedirectURI and the port of the
\* callback server come from two calls of findFreePort; the error of the second is
\* ignored, and port 0, a port nobody is told of, is None here.
Launch(b) ==
  /\ pc[b] = "off"
  /\ launches < MaxLaunches
  /\ launches' = launches + 1
  /\ registered' = [registered EXCEPT ![b] = FALSE]
  /\ codeCh' = [codeCh EXCEPT ![b] = <<>>]
  /\ prompts' = [prompts EXCEPT ![b] = 0]
  /\ expected' = [expected EXCEPT ![b] = None]
  /\ tools' = [tools EXCEPT ![b] = FALSE]
  /\ \/ /\ Goto(b, "dstart")
        /\ mode' = [mode EXCEPT ![b] = "direct"]
        /\ UNCHANGED <<redirect, callback>>
     \/ \E p \in FreePort, q \in FreePort \cup {None} :
          /\ Goto(b, "start")
          /\ mode' = [mode EXCEPT ![b] = "oauth"]
          /\ redirect' = [redirect EXCEPT ![b] = p]
          /\ callback' = [callback EXCEPT ![b] = q]
     \/ /\ Goto(b, "exited")    \* findFreePort or NewStreamableHTTP failed
        /\ UNCHANGED <<mode, redirect, callback>>
  /\ UNCHANGED <<ret, listening, flows, browser, file, dead>>

\* What the mcp-go transport makes of a request: without a token the portal
\* accepts, and one it can renew, it asks for authorization.  GetToken treats a
\* missing and a corrupt file alike.
Accepted == file \in Flow /\ file \notin dead
Answers(b) == (IF mode[b] = "direct" THEN {"ok"} ELSE {IF Accepted THEN "ok" ELSE "auth"})
                \cup {"error"}

\* A call of connectWithOAuth that may be answered with an authorization error;
\* runOAuthIfNeeded passes every other error on.
Ask(b, at, next, retry) ==
  /\ pc[b] = at
  /\ \E a \in Answers(b) :
       \/ a = "ok" /\ Goto(b, next) /\ UNCHANGED ret
       \/ a = "auth" /\ Goto(b, "discover") /\ ret' = [ret EXCEPT ![b] = retry]
       \/ a = "error" /\ Goto(b, "exited") /\ UNCHANGED ret
  /\ UNCHANGED <<launches, mode, redirect, callback, listening, registered, flows,
                 prompts, expected, codeCh, tools, browser, file, dead>>

\* The same call the second time, and every call of connectDirect: any error ends
\* the bridge.
AskOnce(b, at, next) ==
  /\ pc[b] = at
  /\ \E a \in Answers(b) : IF a = "ok" THEN Goto(b, next) ELSE Goto(b, "exited")
  /\ UNCHANGED <<launches, ret, mode, redirect, callback, listening, registered, flows,
                 prompts, expected, codeCh, tools, browser, file, dead>>

\* connectWithOAuth as it would be if it ran the flow until Initialize succeeds.
ConnectPersistently(b) ==
  \/ Ask(b, "start", "init", "start2") \/ AskOnce(b, "start2", "init")
  \/ Ask(b, "init", "list", "init2") \/ Ask(b, "init2", "list", "init2")

ConnectWithOAuth(b) ==
  \/ Ask(b, "start", "init", "start2") \/ AskOnce(b, "start2", "init")
  \/ Ask(b, "init", "list", "init2") \/ AskOnce(b, "init2", "list")

ConnectDirect(b) == AskOnce(b, "dstart", "dinit") \/ AskOnce(b, "dinit", "list")

\* doOAuthFlow, up to the registration of the client, if it has no id yet.
Discover(b) ==
  /\ pc[b] = "discover"
  /\ \/ Goto(b, "open") /\ registered' = [registered EXCEPT ![b] = TRUE]
     \/ Goto(b, "exited") /\ registered' \in {registered, [registered EXCEPT ![b] = TRUE]}
  /\ UNCHANGED <<launches, ret, mode, redirect, callback, listening, flows, prompts,
                 expected, codeCh, tools, browser, file, dead>>

\* The redirect port the portal knows for a flow, from prepareAuthSession or from
\* the full URL that openBrowser gets when that fails.  A URL that loses what
\* follows its first '&' then shows an error page.
KnownRedirect(b) == {redirect[b], None}

\* doOAuthFlow, up to the select: the state, the callback server, whose error is
\* ignored, and the browser.  The user opens the URL if the browser does not start.
Open(b) ==
  LET f == <<b, flows[b] + 1>>
  IN  /\ pc[b] = "open"
      /\ flows' = [flows EXCEPT ![b] = @ + 1]
      /\ prompts' = [prompts EXCEPT ![b] = @ + 1]
      /\ expected' = [expected EXCEPT ![b] = f]
      /\ codeCh' = [codeCh EXCEPT ![b] = <<>>]
      /\ listening' = [listening EXCEPT ![b] = callback[b] \in FreePort]
      /\ \E p \in KnownRedirect(b) : tabs' = [tabs EXCEPT ![f] = p]
      /\ Goto(b, "wait")
      /\ UNCHANGED <<launches, ret, mode, redirect, callback, registered, tools, sent,
                     granted, file, dead>>

\* The browser follows the portal's redirect of flow f to the callback of a
\* bridge, once the user has logged in or again when the tab is reloaded.  The
\* handler of a callback that finds the channel full blocks, and what it holds
\* is never read.
Callback(f, ok) ==
  LET here == {b \in Bridge : listening[b] /\ callback[b] = tabs[f]}
  IN  /\ tabs[f] # None
      /\ sent < MaxCallbacks
      /\ sent' = sent + 1
      /\ granted' = IF ok THEN granted \cup {f} ELSE granted
      /\ codeCh' = [b \in Bridge |-> IF b \in here /\ codeCh[b] = <<>>
                                       THEN <<[ok |-> ok, flow |-> f]>> ELSE codeCh[b]]
      /\ UNCHANGED <<pc, launches, ret, mode, redirect, callback, listening, registered,
                     flows, prompts, expected, tools, tabs, file, dead>>

\* The end of doOAuthFlow, with its deferred srv.Close.
EndFlow(b, step) ==
  /\ Goto(b, step)
  /\ listening' = [listening EXCEPT ![b] = FALSE]

\* The select's first case.  ProcessAuthorizationResponse refuses a foreign state,
\* then exchanges the code, which may fail.
Receive(b) ==
  /\ pc[b] = "wait"
  /\ codeCh[b] # <<>>
  /\ LET r == Head(codeCh[b])
         own == r.ok /\ r.flow = expected[b]
     IN  \/ own /\ Goto(b, "truncate") /\ UNCHANGED listening
         \/ EndFlow(b, "exited")
  /\ codeCh' = [codeCh EXCEPT ![b] = <<>>]
  /\ UNCHANGED <<launches, ret, mode, redirect, callback, registered, flows, prompts,
                 expected, tools, browser, file, dead>>

\* Timeout as it would be without the select's second case.
TimeoutNever(b) ==
  /\ pc[b] = "wait"
  /\ UNCHANGED vars

\* The select's second case: five minutes have passed.
Timeout(b) ==
  /\ pc[b] = "wait"
  /\ EndFlow(b, "exited")
  /\ UNCHANGED <<launches, ret, mode, redirect, callback, registered, flows, prompts,
                 expected, codeCh, tools, browser, file, dead>>

\* SaveToken: os.WriteFile truncates the file, then writes it; either may fail.
SaveToken(b) ==
  /\ \/ pc[b] = "truncate" /\ Goto(b, "write") /\ file' = Torn /\ UNCHANGED listening
     \/ pc[b] = "write" /\ EndFlow(b, ret[b]) /\ file' = expected[b]
     \/ pc[b] \in {"truncate", "write"} /\ EndFlow(b, "exited") /\ UNCHANGED file
  /\ UNCHANGED <<launches, ret, mode, redirect, callback, registered, flows, prompts,
                 expected, codeCh, tools, browser, dead>>

\* ListTools, whose failure leaves the bridge without tools, and the registration
\* of the tools.
ListTools(b) ==
  /\ pc[b] = "list"
  /\ \E a \in Answers(b) : tools' = [tools EXCEPT ![b] = a = "ok"]
  /\ Goto(b, "serve")
  /\ UNCHANGED <<launches, ret, mode, redirect, callback, listening, registered, flows,
                 prompts, expected, codeCh, browser, file, dead>>

\* The MCP client ends the bridge, or it is killed, at any point; simpleProxyHandler
\* only forwards calls and changes nothing.
Stop(b) ==
  /\ pc[b] # "off"
  /\ Goto(b, "off")
  /\ listening' = [listening EXCEPT ![b] = FALSE]
  /\ UNCHANGED <<launches, ret, mode, redirect, callback, registered, flows, prompts,
                 expected, codeCh, tools, browser, file, dead>>

\* The portal stops accepting the token of a flow, and its refresh token.
Expire(f) ==
  /\ f \notin dead
  /\ file = f
  /\ dead' = dead \cup {f}
  /\ UNCHANGED <<bridge, browser, file>>

Main(b) ==
  \/ ConnectWithOAuth(b) \/ ConnectDirect(b)
  \/ Discover(b) \/ Open(b) \/ Receive(b) \/ Timeout(b) \/ SaveToken(b) \/ ListTools(b)

Next ==
  \/ \E b \in Bridge : Launch(b) \/ Main(b) \/ Stop(b)
  \/ \E f \in Flow : Expire(f) \/ \E ok \in BOOLEAN : Callback(f, ok)

\* A bridge that is running goes on: a flow ends by its time limit, and every other
\* request by an answer, which the portal's server limits in time, or an error.
FairSpec == Init /\ [][Next]_vars /\ \A b \in Bridge : WF_vars(Main(b))
-----------------------------------------------------------------------------
\* A launch sends the user to the browser at most twice, once for Start and once
\* for Initialize, whatever the portal answers and whatever other bridges do to
\* the token file.
PromptsBounded == \A b \in Bridge : prompts[b] <= 2

\* A launch ends: the bridge serves tools or exits with an error.  It never waits
\* for a user who does not answer longer than the flow's time limit.
LaunchEnds ==
  \A b \in Bridge : (pc[b] \in {"start", "dstart"}) ~> (pc[b] \in {"serve", "exited", "off"})

\* While a flow waits, the callback of a user who authorized it is in its channel:
\* doOAuthFlow "opens the user's browser for authorization, waits for the callback,
\* and exchanges the code for tokens".
GrantDelivered ==
  \A b \in Bridge : pc[b] = "wait" /\ expected[b] \in granted => codeCh[b] # <<>>
=============================================================================
