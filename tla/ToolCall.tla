------------------------------ MODULE ToolCall ------------------------------
(***************************************************************************)
(* A call of an MCP tool (internal/mcp), while the catalog may change under *)
(* it: the caller is identified (handler.go, dev_handler.go), the tool is  *)
(* looked up, and its handler turns the arguments into a request to        *)
(* vire-server (catalog.go, proxy.go) or into a page of the portal itself  *)
(* (get_page.go).                                                          *)
(*                                                                         *)
(*   idle --CallMCP, CallDev--> resolve | version | page | idle            *)
(*   resolve --ResolveParam--> resolve | done     one parameter            *)
(*   resolve --Send--> done                       the request              *)
(*   version --GetVersion--> done                                          *)
(*   page --GetPage--> loopback | done --ServePage, Tick--> done           *)
(*   done --Return--> idle                        the result               *)
(*                                                                         *)
(* Calls share nothing but the registered tools, so one at a time is       *)
(* followed.  A value is text; Nil is JSON null and Go's nil.              *)
(***************************************************************************)
EXTENDS CatalogWatcher

CONSTANTS Config,           \* configurations: the JWT secret is set, dev mode, and
                            \* the first of cfg.User.Portfolios
          User,             \* user IDs, not empty
          Token,            \* the JWTs a request may carry
          Credentials,      \* the pairs of bearer token and cookie
          Text,             \* argument values, the empty text among them
          Portfolio,        \* names of portfolios
          Nil, Absent, None,
          LoopbackTimeout,  \* loopbackTimeout and loopbackJWTTTL, in units of
          LoopbackTTL       \* which the clock counts

Empty == ""   \* Go's empty string

ASSUME ToolCallAssumption ==
  /\ User \subseteq STRING \ {Empty}
  /\ Token \subseteq [sub : User \cup {Empty}, signed : BOOLEAN, exp : {"none", "past", "future"}]
  /\ Credentials \subseteq (Token \cup {None}) \X (Token \cup {None})
  /\ Text \subseteq STRING
  /\ Portfolio \subseteq STRING \ {Empty}
  /\ Config \subseteq BOOLEAN \X BOOLEAN \X (Portfolio \cup {Empty})
  /\ None \notin Token /\ None \notin User /\ None \notin CatalogTool
  /\ {Nil, Absent} \cap Text = {}
  /\ LoopbackTimeout \in Nat /\ LoopbackTTL \in Nat

VARIABLES secret, devMode, configured,
          held,      \* vire-server: the default portfolio of every user
          step,
          bearer, cookie, uid,          \* what identifies the caller
          user,      \* UserContext
          entry,     \* the catalog entry of the handler that was looked up
          args,      \* the arguments
          next,      \* the parameter to resolve next
          path, query, body,            \* <<name, value>>: what has been resolved
          request,   \* the last request sent to vire-server, or None
          page,      \* the user whose page was returned, "landing", or None
          clock,     \* time since the loopback token was minted
          seen       \* history: the defaults vire-server held during the call

config == <<secret, devMode, configured>>
call == <<step, bearer, cookie, uid, user, entry, args, next, path, query, body,
          request, page, clock, seen>>
mcpVars == <<vars, config, held, call>>

Pair == STRING \X (Text \cup Portfolio \cup {Nil, Empty})

McpTypeOK ==
  /\ TypeOK
  /\ <<secret, devMode, configured>> \in Config
  /\ held \in [User -> Portfolio \cup {Empty}]
  /\ step \in {"idle", "done", "resolve", "version", "page", "loopback"}
  /\ bearer \in Token \cup {None}
  /\ cookie \in Token \cup {None}
  /\ uid \in User \cup {None}
  /\ user \in User \cup {Empty}
  /\ entry \in CatalogTool \cup {None}
  /\ next \in Nat
  /\ path \subseteq Pair /\ query \subseteq Pair /\ body \subseteq Pair
  /\ request = None \/ request.user \in User
  /\ page \in User \cup {"landing", None}
  /\ clock \in Nat
  /\ seen \subseteq Portfolio \cup {Empty}

McpInit ==
  /\ Init
  /\ \E c \in Config : secret = c[1] /\ devMode = c[2] /\ configured = c[3]
  /\ held = [u \in User |-> Empty]
  /\ step = "idle"
  /\ bearer = None /\ cookie = None /\ uid = None
  /\ user = Empty /\ entry = None
  /\ args = <<>> /\ next = 1
  /\ path = {} /\ query = {} /\ body = {}
  /\ request = None /\ page = None
  /\ clock = 0 /\ seen = {}
-----------------------------------------------------------------------------
\* Identification.

\* Whether validateJWT accepts a token; without a secret no signature is checked.
validateJWT(t) == (secret => t.signed) /\ t.exp # "past"

Subject(t) == IF t # None /\ validateJWT(t) THEN t.sub ELSE Empty

\* withUserContext as it would be with the legacy fallback for every secret.
UserOfLenient(b, c) ==
  IF Subject(b) # Empty THEN Subject(b) ELSE IF c # None THEN c.sub ELSE Empty

\* withUserContext: the bearer token, the cookie, and the cookie's subject alone
\* when there is no secret.
UserOf(b, c) ==
  IF Subject(b) # Empty THEN Subject(b)
  ELSE IF Subject(c) # Empty THEN Subject(c)
  ELSE IF ~secret /\ c # None THEN c.sub
  ELSE Empty

\* decryptUID: only an endpoint this portal generated opens, and only with a key.
decryptUID(u) == IF secret /\ u # None THEN u ELSE Empty

\* The streamable server looks the tool up and calls its handler; without such a
\* tool, or without a user, the call ends here.
Dispatch(b, c, id, u, name, a) ==
  LET known == u # Empty /\ name \in DOMAIN tools
      generic == known /\ tools[name] # Local
  IN  /\ user' = IF known THEN u ELSE Empty
      /\ step' = IF generic THEN "resolve"
                 ELSE IF known THEN (IF name = "get_version" THEN "version" ELSE "page")
                 ELSE "idle"
      /\ \/ /\ generic
            /\ entry' = tools[name] /\ args' = a /\ seen' = {held[u]}
            /\ bearer' = b /\ cookie' = c /\ uid' = id
         \/ ~generic /\ UNCHANGED <<entry, args, seen, bearer, cookie, uid>>
      /\ UNCHANGED <<vars, config, held, next, path, query, body, request, page, clock>>

\* Handler.ServeHTTP on /mcp: 401 without a user.
CallMCP(b, c, name, a) ==
  /\ step = "idle" /\ pc # "boot"
  /\ Dispatch(b, c, None, UserOf(b, c), name, a)

\* DevHandler.ServeHTTP on /mcp/{encrypted_uid}: 404 outside dev mode.
CallDev(u, name, a) ==
  /\ step = "idle" /\ pc # "boot"
  /\ Dispatch(None, None, u, IF devMode THEN decryptUID(u) ELSE Empty, name, a)
-----------------------------------------------------------------------------
\* Tools of the catalog.

\* What the API answers a request for the default portfolio of user u, or Empty when
\* the call fails.
ServerDefault(u) == {held[u], Empty}

\* resolveDefaultPortfolio as it would be with a context of its own, in which no
\* user is known.
DefaultOfAnyone ==
  IF configured # Empty THEN {configured} ELSE UNION {ServerDefault(u) : u \in User}

\* resolveDefaultPortfolio: the configured portfolio, or the server's default.
DefaultPortfolio == IF configured # Empty THEN {configured} ELSE ServerDefault(user)

\* resolveParamValue: GetString treats empty and other than text as missing; a
\* parameter of another type takes any argument, null among them.
ParamValues(param) ==
  LET arg == IF param.name \in DOMAIN args THEN args[param.name] ELSE Absent
      supplied == IF param.text THEN arg \notin {Absent, Nil, Empty} ELSE arg # Absent
  IN  IF supplied THEN {arg} ELSE IF param.default THEN DefaultPortfolio ELSE {Nil}

Missing(val) == val \in {Nil, Empty}

\* ResolveParam as it would be if a parameter with a default were never missing.
ResolveTrusting ==
  /\ step = "resolve"
  /\ next <= Len(entry.params)
  /\ LET param == entry.params[next]
     IN  \E val \in ParamValues(param) :
           /\ step' = IF param.at = "path" /\ param.required /\ ~param.default /\ Missing(val)
                        THEN "done" ELSE "resolve"
           /\ path' = IF param.at = "path" /\ ~Missing(val)
                        THEN path \cup {<<param.name, val>>} ELSE path
           /\ query' = IF param.at = "query" /\ ~Missing(val)
                         THEN query \cup {<<param.name, val>>} ELSE query
           /\ body' = IF param.at = "body" /\ val # Nil
                        THEN body \cup {<<param.name, val>>} ELSE body
  /\ next' = next + 1
  /\ UNCHANGED <<vars, config, held, bearer, cookie, uid, user, entry, args, request,
                 page, clock, seen>>

\* One round of GenericToolHandler's loop.  A required path parameter that is
\* missing ends the call with an error; an optional one is left in the path.
ResolveParam ==
  /\ step = "resolve"
  /\ next <= Len(entry.params)
  /\ LET param == entry.params[next]
     IN  \E val \in ParamValues(param) :
           /\ step' = IF param.at = "path" /\ param.required /\ Missing(val)
                        THEN "done" ELSE "resolve"
           /\ path' = IF param.at = "path" /\ ~Missing(val)
                        THEN path \cup {<<param.name, val>>} ELSE path
           /\ query' = IF param.at = "query" /\ ~Missing(val)
                         THEN query \cup {<<param.name, val>>} ELSE query
           /\ body' = IF param.at = "body" /\ val # Nil
                        THEN body \cup {<<param.name, val>>} ELSE body
  /\ next' = next + 1
  /\ UNCHANGED <<vars, config, held, bearer, cookie, uid, user, entry, args, request,
                 page, clock, seen>>

\* What get, del and doJSON send: the first two have no body; applyUserHeaders
\* names the user.
Request ==
  [entry |-> entry, user |-> user, path |-> path, query |-> query,
   body |-> IF entry.method \in {"GET", "DELETE"} THEN {} ELSE body]

\* The rest of GenericToolHandler.
Send ==
  /\ step = "resolve"
  /\ next > Len(entry.params)
  /\ request' = Request
  /\ step' = "done"
  /\ UNCHANGED <<vars, config, held, bearer, cookie, uid, user, entry, args, next, path,
                 query, body, page, clock, seen>>
-----------------------------------------------------------------------------
\* The portal's own tools.

\* VersionToolHandler answers whether or not vire-server does.
GetVersion ==
  /\ step = "version"
  /\ step' = "done"
  /\ UNCHANGED <<vars, config, held, bearer, cookie, uid, user, entry, args, next, path,
                 query, body, request, page, clock, seen>>

\* GetPageToolHandler: an unknown page is refused, for another a token is minted
\* and the page is requested.
GetPage ==
  /\ step = "page"
  /\ step' \in {"done", "loopback"}
  /\ clock' = 0
  /\ UNCHANGED <<vars, config, held, bearer, cookie, uid, user, entry, args, next, path,
                 query, body, request, page, seen>>

\* TokenLives as it would be if the token lived no longer than the client waits.
TokenLivesShort == clock < LoopbackTimeout

\* mintLoopbackJWT: until when the token is valid.
TokenLives == clock <= LoopbackTTL

\* The portal's page handler gets the request: with a token it accepts, the page is
\* the user's, else the redirect to the landing page is followed.
ServePage ==
  /\ step = "loopback"
  /\ step' = "done"
  /\ page' = IF TokenLives THEN user ELSE "landing"
  /\ UNCHANGED <<vars, config, held, bearer, cookie, uid, user, entry, args, next, path,
                 query, body, request, clock, seen>>

\* Time passes; the client gives up at its timeout.
Tick ==
  /\ step = "loopback"
  /\ \/ clock < LoopbackTimeout /\ clock' = clock + 1 /\ UNCHANGED step
     \/ clock >= LoopbackTimeout /\ step' = "done" /\ UNCHANGED clock
  /\ UNCHANGED <<vars, config, held, bearer, cookie, uid, user, entry, args, next, path,
                 query, body, request, page, seen>>

\* A user changes their default portfolio, while a call may be under way.
SetDefault(u, p) ==
  /\ held' = [held EXCEPT ![u] = p]
  /\ seen' = IF u = user /\ entry # None THEN seen \cup {p} ELSE seen
  /\ UNCHANGED <<vars, config, step, bearer, cookie, uid, user, entry, args, next, path,
                 query, body, request, page, clock>>

\* The client gets the result.
Return ==
  /\ step = "done"
  /\ step' = "idle"
  /\ bearer' = None /\ cookie' = None /\ uid' = None
  /\ user' = Empty /\ entry' = None /\ args' = <<>> /\ next' = 1
  /\ path' = {} /\ query' = {} /\ body' = {}
  /\ request' = None /\ page' = None
  /\ clock' = 0 /\ seen' = {}
  /\ UNCHANGED <<vars, config, held>>

CONSTANTS Name, Args    \* tool names and arguments a client sends

Call ==
  \E name \in Name, a \in Args :
    \/ \E c \in Credentials : CallMCP(c[1], c[2], name, a)
    \/ \E u \in User \cup {None} : CallDev(u, name, a)

McpNext ==
  \/ Next /\ UNCHANGED <<config, held, call>>
  \/ Call \/ ResolveParam \/ Send \/ GetVersion \/ GetPage \/ ServePage \/ Tick \/ Return
  \/ \E u \in User, p \in Portfolio \cup {Empty} : SetDefault(u, p)

McpSpec == McpInit /\ [][McpNext]_mcpVars /\ Fairness
-----------------------------------------------------------------------------
\* With a secret, what a call does to vire-server it does for the subject of a
\* signed, unexpired token that came with it, or of an endpoint the portal made:
\* no fallback of withUserContext gives a call to someone else.
IdentityProven ==
  secret /\ request # None =>
    request.user \in {t.sub : t \in {x \in {bearer, cookie} \ {None} :
                                        x.signed /\ x.exp # "past"}} \cup ({uid} \ {None})

\* A tool whose placeholders are all required path parameters never sends a
\* request with a placeholder in its path, not even when the default portfolio
\* cannot be found or the catalog changes during the call.
NoPlaceholderSent ==
  LET names(r) == {x[1] : x \in r.path}
      required(e) == {e.params[i].name : i \in {j \in DOMAIN e.params :
                        e.params[j].at = "path" /\ e.params[j].required}}
  IN  request # None /\ request.entry.holes \subseteq required(request.entry)
        => request.entry.holes \subseteq names(request)

\* A portfolio the caller did not name is the configured one, or one that
\* vire-server held for this caller while the call was made.
DefaultIsCallers ==
  request # None => \A x \in request.path \cup request.query \cup request.body :
    \/ x[1] \in DOMAIN args /\ x[2] = args[x[1]]
    \/ x[2] = configured
    \/ x[2] \in seen \cup {Empty}

\* portal_get_page returns the caller's page, never the landing page of an
\* expired token: the token outlives the client's timeout.
PageIsCallers == page # None => page = user
=============================================================================
