# A TLA+ model of vire-portal

vire-portal is a Go web application in front of vire-server: it renders pages,
proxies and caches `/api/`, serves MCP tools, and is an OAuth 2.1 authorization
server for MCP clients. vire-mcp is the bridge an MCP client starts on the user's
machine. The portal's state lives in in-memory stores, most of them written
through to vire-server; requests, timers, watchers, browser tabs and scripts run
concurrently; any process may stop at any time. These modules model that state
and those steps, TLC checks them on small instances, and TLAPS proves the main
properties of eight of them for all values of the constants.

## The system

| Part | Source | Module |
|------|--------|--------|
| OAuth clients: registration, auto-registration, redirect check | `internal/auth/store.go`, `dcr.go`, `authorize.go` | `ClientStore` |
| Pending authorizations | `internal/auth/session.go`, `authorize.go`, `server.go` | `SessionStore` |
| Authorization codes and the code grant | `internal/auth/store.go`, `token.go` | `CodeStore`, `SingleUseCode` |
| Refresh tokens and the refresh grant | `internal/auth/store.go`, `token.go` | `TokenStore` |
| `/authorize` and `/token` over these stores | `internal/auth/authorize.go`, `server.go`, `token.go` | `Authorize`, `TokenEndpoint` |
| Calls to vire-server's internal OAuth API | `internal/auth/backend.go` | `OAuthBackend` |
| Response cache | `internal/cache/cache.go` | `ResponseCache`, `CacheContract` |
| API proxy | `internal/server/routes.go` | `APIProxy` |
| MCP tool catalog and version watcher | `internal/mcp/handler.go`, `catalog.go` | `CatalogWatcher` |
| MCP tool calls | `internal/mcp` | `ToolCall` |
| Configuration | `internal/config`, `cmd/vire-portal/main.go` | `Settings` |
| Remote log store | `internal/client/log_store.go` | `LogStore` |
| Process life cycle | `cmd/vire-portal/main.go`, `internal/server`, `internal/app` | `Lifecycle` |
| Development users, service registration, admin sync | `internal/seed`, `internal/app` | `AdminSync` |
| Server-rendered pages | `internal/handlers` | `Pages` |
| Login, logout, cookies, CSRF, the profile form | `internal/handlers`, `internal/server/middleware.go` | `Browser` |
| Scripts of the portfolio pages | `pages/static/common.js` | `Scripts` |
| vire-mcp bridge | `cmd/vire-mcp` | `McpBridge` |

An MCP client registers (`ClientStore`) and starts an authorization
(`SessionStore`). The user logs in (`Browser`), and the browser is redirected
with a code (`CodeStore`), which the client exchanges for tokens and later
rotates (`TokenStore`). vire-mcp (`McpBridge`) is such a client. The tools it
then calls are those of `CatalogWatcher`, and a call is `ToolCall`. Pages
(`Pages`, `Browser`) are delivered with data for their scripts (`Scripts`), which
read and write through the proxy (`APIProxy`). The proxy uses the cache only
through its contract (`CacheContract`), which `ResponseCache` implements, so what
is shown of the proxy holds with the real cache below it.

Modules that are composed: `Authorize` is the client and session stores of one
process under the authorize handlers, `TokenEndpoint` the code and token stores
under `/token`: a granted code puts the first refresh token, a created session is
one whose redirect URI was checked, and a restart empties both stores. `ToolCall`
runs on top of `CatalogWatcher`, so the catalog changes while a call is made.
`Lifecycle` extends `LogStore` and `Settings`. `Scripts` extends `Browser`, which
extends `Pages`: one step delivers a page to the browser and starts its script.

## How the modules are written

**Steps.** A critical section is one action, and so is one call to vire-server. A
handler that takes a lock three times is three actions with `pc[r]` saying where
request `r` is, so every interleaving of requests at lock boundaries is explored,
also of two requests for one item. A store's `Put` and `Delete` call the backend
with the lock held and are single actions. In the browser, a function is cut at
each `await` for a request; an answer is applied with whatever state the page has
by then.

**The backend.** Each store logs a failed write and carries on, and treats a
failed read as "not found". So a write is applied or not, a read is answered or
not: `SaveResults` and `ReadResults` are the subsets of `BOOLEAN` a run allows.
`{TRUE}` is a reliable backend. Not modelled: a write that times out and is
applied only after later calls.

**Time.** Expiry is a set of expired things that grows by an `Expire` action,
which may happen between any two steps. Where the code relies on the order of
expiry (cache entries, sessions) `Expire` respects it. A JWT is expired, valid or
without expiry. In `Scripts` a cached response may have expired whenever it is
looked up. `ToolCall` counts the seconds of a loopback request in coarse units,
because two time limits are compared there.

**Restarts.** `Restart` empties the in-memory maps and abandons the requests
under way; what vire-server holds stays. `Lifecycle` ends the process at any
point, by a signal, by a failed start or by returning from `main`.

**Data.** Codes, tokens, clients, URIs, entries are model values. In the proxy
and in the scripts a response is the version of the data it shows. A JWT is its
subject, whether its signature verifies, and its expiry. `url.PathUnescape` is a
function on the names in use, one of which it refuses and one of which it
changes. JSON, PKCE, templates and logging are abstracted to whether they
succeed.

**History variables** (`consumed`, `granted`, `successors`, `completed`,
`registered`, `acked`, `raced`, `grants`, `entitled`, `muddled`, `floor`, ...)
record what happened; no guard reads them except to keep identifiers new.

**Bounds.** `MaxRestarts`, `MaxSets`, `MaxWrites`, `MaxOutages`, `MaxFaults`,
`MaxLaunches`, `MaxCallbacks`, `MaxShutdowns` and the numbers in a browser plan
cap counters; the sets of identifiers and `Sender` cap how many things are
created. The proofs do not depend on their values.

Definitions named "... as it would be if ..." in their comment are deliberate
faults. They are not used by any specification; each breaks the property
`PROJECT.json` pairs it with, which shows that the property depends on that line
of the code.

## The modules

**CodeStore.** `codes` and `savedCodes` give each code's entry in memory and at
the backend. `ConsumeCode` is `Consume` (map lookup), `FetchCode` (read-through,
lock released), `Install` (lock taken again, re-check) and `Mark` (write-through
after the lock is released); `Settle` is the decision made under the lock. The
rest of the code grant is `Refuse` or `Grant`. `SingleUseCode` is what clients
rely on: a code is durably spent before the only response for it is issued. The
mapping reads `live` and `spent` off the backend's entry, not memory's: only that
survives a crash.

**TokenStore.** `Get` is `Present`, `LookupToken`, `CacheToken`; then the refresh
grant does `DeleteToken`, and `Reissue` or `MintFails`. `successors` records each
rotation with the process life it happened in.

**ClientStore.** A record is its set of redirect URIs, `{}` when absent.
`HandleRegister` is `POST /register`; an authorize request does `LookupClient`,
`FetchClient`, `CacheClient` or `AutoRegister`, and `Check`.

**SessionStore.** `Get` and `GetByClientID` with their read-throughs, the three
authorize handlers, and `CompleteAuthorization` as `GetSession ... IssueCode,
DeleteSession`. `born` is the rank of `CreatedAt`. `GetByClientID` reads the
clock before it asks the backend, hence `before`. `completed` records each
redirect with a code and the process life it happened in.

**TokenEndpoint, Authorize.** The handlers over two stores each: a request is in
at most one grant or handler at a time, `CodeGranted` and `CreateAuthSession` act
on both stores in one step, and `Restart` ends what is under way in both.

**ResponseCache / CacheContract.** Keys, insertion indices and the set of fresh
keys; `Get` and `Drop` are its two halves, under the read and the write lock. The
contract: a hit is the response stored last and no invalidation covers it since;
entries may vanish at any time.

**APIProxy.** `Begin` (cache lookup), `Read`/`Write` (the exchange with
vire-server, including answers that are lost), `StoreReply`, `ClearPath`.
`Contains[p]` are the paths with `p` as a substring, which is how
`InvalidatePrefix` selects; `Touches[p]` are the paths whose answer a write to
`p` changes. `Elsewhere` are writes that bypass the cache. `raced` collects the
paths a read of which was under way together with a write that touches them.

**CatalogWatcher.** `NewHandler`'s fetch with retries, the first poll, ticks,
`RefreshCatalog` in three steps (fetch, `SetTools`, publish) and `Close`, while
vire-server is redeployed, goes down and comes up. `ValidateCatalog` and
`Registry` are folds over the catalog in the code's order; `ToolsOf` says
independently of them which tools a build should give.

**ToolCall** adds one call to that: `CallMCP` and `CallDev` identify the caller
(bearer token, cookie, encrypted endpoint), then `ResolveParam` once per
parameter, `Send`, or `GetVersion`, or `GetPage` with the loopback request. The
handler is the one registered when the call came; the catalog may change during
it. Calls share nothing else, so one at a time is followed.

**Settings.** Defaults, files, environment, flags and `Validate`, as functions
over the settings that decide how the portal starts. Each override has the code's
own test for "absent" (empty, zero, not a number).

**LogStore.** The buffer, the timer (with the state "fired", waiting for the
lock), one goroutine per flush, `Close` in `Main`, and process exit.

**Lifecycle** runs `main` around it: `LoadConfig`, `Boot`, the server's goroutine
(`Start`), `Notify`, `Select`, `Shutdown`, `CloseApp`, `CloseLog`, `Return`, with
`Signal`, `HandleShutdown` and requests at any time. A log entry goes into
arbor's channel first (`Log`), and arbor's goroutine stores it later (`Write`),
perhaps after its request has ended. Every step of the log store is a step of
this module too, when the process lets it happen.

**AdminSync.** Two goroutines per portal, each with its attempts, several
portals, calls that fail before or after taking effect, sign-ups and restarts. Of
the accounts that share an address, any may be the one the address maps to. That
an upsert sets the role it carries is taken from the request `UpsertUser` sends;
vire-server itself is external.

**Pages.** What each page handler answers, as operators on the request, the login
and what vire-server said: page, redirect, which portfolio is selected and which
parts come with it.

**Browser.** Tabs that share the cookies `vire_session`, `mcp_session_id` and
`_csrf`. `Handle` is the handler with its middleware, `Fetch` its dependent
requests, `Deliver` applies `Set-Cookie` and follows a redirect in the same step.
Answers of two tabs are applied in either order, or lost. A request that comes
from the provider's site, and the redirects after it, carry no `_csrf` cookie,
which is `SameSite=Strict`. `/auth/callback` takes the token of its URL as it is:
the URL of a login that just ended, or one opened again (`ReopenCallback`). A
*plan* says what the people at the browser do (which routes, who logs in, how
often); one is chosen initially.

**Scripts.** `vireStore` (cache with expiry, one request shared by several
callers, `invalidate`) and the components `portfolioDashboard`,
`cashTransactions`, `portfolioStrategy`, with the portal's response cache
(`portal`) between them and vire-server. A function that awaits is a task; the
actions `Resume...` are what follows the await. Selecting, refreshing, setting
the default and opening the closed holdings are `Click`s, at any moment or, in a
plan that is `quiet`, when nothing is under way.

**McpBridge.** `Launch` to `ListTools` of one or several vire-mcp processes that
share ports and the token file: the two findings of a free port, the OAuth flow
with its callback server and channel of one slot, the comparison of states, the
time limit, and the token file, which is truncated and then written. The portal
and the mcp-go transport are external and answer in any way they can.

## What TLC checks

| Run | Properties | Instance | States |
|-----|-----------|----------|--------|
| `TokenEndpoint` | `ConsumedOncePerLife`, `RotatedInOneLife`, `ImplementsSingleUse` | 1 code, 3 tokens, 2 requests, 2 restarts; writes applied, reads may fail | 1,301,302 |
| `Authorize` | `RegistrationKept`, `SessionsMatchRegistration`, `CompletedInOneLife` | 1 client, 2 URIs, 2 sessions, 2 requests, 1 restart; reliable backend | 3,202,204 |
| `ResponseCache` | `Bounded`, `FreshStays`, `KeepsContract` | 3 keys, capacity 2, 4 sets, 2 readers | 158,984 |
| `APIProxy` | `NoStaleHit`, `EventuallyCurrent` | 2 nested paths, 2 requests, 1 write, through the portal or past it, answers may be lost | 481,740 |
| `ToolCall` | `OneBuild`, `IdentityProven`, `NoPlaceholderSent`, `DefaultIsCallers`, `PageIsCallers`, `CatalogCatchesUp` | 2 builds, 1 outage, 2 users, 4 tokens, with and without secret and configured default | 244,736 |
| `Lifecycle` | `InOnePlace`, `SettingsAsTold`, `OnlyInFlightLost`, `RequestsAnswered`, `EventuallyPosted`, `ShutdownHonoured` | 120 combinations of sources, 3 entries, flush size 2, batch 1, 2 senders, 1 request, 2 shutdown requests | 112,418 |
| `AdminSync` | `OnlyNamedAreAdmins`, `ListedBecomeAdmins` | 2 portals, 4 accounts, 2 attempts, 3 failures, 1 restart, seeding of unlisted users | 295,243 |
| `Browser` | `GrantedToPresenter`, `CompletesLatest`, `LoginEndsWell`, `RedirectsEnd`; `LinkHonoured`, `ShowsSelected`, `FreshAfterRefresh`, `DefaultAsSaved`, `LoadingEnds` of the scripts | 2 tabs, 2 people, 2 MCP sessions, 14 plans with up to 3 visits or 3 clicks | 276,668 |
| `McpBridge` | `PromptsBounded`, `LaunchEnds` | 2 bridges, 2 ports, 2 launches, 3 callbacks in all | 533,344 |

What each property says, and of which function, is in the comment above its
definition.

Three runs fail, each a disagreement between the code and what the repository
says of it (`PROJECT.json`, "findings", quotes the lines):

- `McpBridge_ports` (`GrantDelivered`, `cmd/vire-mcp/main.go:166`): the callback
  server listens on the port of a second `findFreePort` and the redirect URI
  names that of the first, so the callback of a user who authorized does not
  arrive. The flow then ends by its time limit, which is why `LaunchEnds` holds.
- `TokenStore_rotation` (`RotatedOnce`, `internal/auth/token.go:106`): two
  overlapping refresh requests both read the token before either deletes it, and
  each gets a successor. The stress test logs the same and passes.
- `SessionStore_recent` (`MostRecentFound`, `internal/auth/session.go:120`):
  after a restart an older session is read through into memory, and from then on
  hides a newer one that only vire-server holds.

**Bounds.** They let each hazard happen: two overlapping requests on one code,
one refresh token or one session, and two sessions to confuse; a restart between
any two steps, a cache filled beyond its capacity, one flush by size and one by
timer, as many failures as the retries tolerate and not one more, an
authorization opened in each tab, a portfolio selected while another is loaded, a
callback that comes twice, late or for another flow. Codes, tokens of different
lines, and clients do not interact except through requests, so more of them add
no new step. `Attempts` is 3 in the code and 2 in the run of `AdminSync`; 3
attempts with 5 failures also pass, in a quarter of an hour. `APIProxy` also
passes with `MaxWrites = 2` (3.4 million states). `LoopbackTimeout` and
`LoopbackTTL` are 1 and 2 units of the code's 15 and 30 seconds. Symmetry is used
for interchangeable model values, and never together with liveness.

The type invariants of the modules (`TypeOK`, `CodeTypeOK`, `McpTypeOK`, ...)
hold in these runs as well, and so do `GrantedOnce` and `BufferBounded`; the
configurations list only what says more than a type, or is not already proved
below.

Deadlock checking is off where the model may stop: identifiers run out, bounded
counters reach their bound, goroutines end, the process exits, nobody clicks.

### Assumptions of the passing runs

Each assumption a run or theorem makes is needed. Changing the constant below in
the named configuration gives a counterexample:

| Configuration | Change | What then fails |
|---------------|--------|-----------------|
| `TokenEndpoint` | `SaveResults = {TRUE, FALSE}` | `ImplementsSingleUse`: a lost `MarkCodeUsed` and a restart (`store.go:217` only logs it); `RotatedInOneLife`: a lost `RevokeToken` |
| `Authorize` | `ReadResults = {TRUE, FALSE}` | `RegistrationKept`: a failed read passes for an unknown client (`store.go:59`) |
| `Authorize` | `SaveResults = {TRUE, FALSE}` | `CompletedInOneLife`: a lost `DeleteSession` and a restart |
| `AdminSync` | `SeedUsers <- AnnSeeded`, `SeedRole <- MemberRoles` | `ListedBecomeAdmins`: seeding upserts a user after the sync promoted them (`app.go:79`) |

Some properties name the case they leave out, because the code does not hold
there:

- `NoStaleHit` leaves out a path for which a read overlapped a write
  (`routes.go:196`), and speaks of the writes whose invalidation reaches the
  path: `PUT /api/portfolios/default` leaves the cached list as it is.
  `EventuallyCurrent` says that in either case the stale answer does not last.
- `RotatedInOneLife` and `CompletedInOneLife` compare process lives: within one,
  overlapping requests each get a successor or a code.
- `CatalogCatchesUp` speaks of a build the watcher has not seen when it waits,
  and that answers from then on. A build deployed between the first fetch and the
  first poll goes unnoticed (`handler.go:171`), and a refresh whose fetch fails
  is not repeated (`handler.go:195`); `OneBuild` holds in these cases too.
- `CompletesLatest` leaves out two authorizations under way at once and lost
  answers.
- `LinkHonoured` and `FreshAfterRefresh` leave out names that are escaped in a
  URL.
- `ShowsSelected`, `FreshAfterRefresh` and `DefaultAsSaved` hold for an action
  that began while nothing was being loaded; see the deviations of `common.js`.
- `OnlyInFlightLost` is about entries the store accepted, not those still in
  arbor's channel; `RequestsAnswered` leaves out a shutdown whose ten seconds ran
  out.

### Fairness

Weak throughout. Every call of the portal to vire-server has a client timeout, so
a request, a send or a sync step eventually ends. A flow of vire-mcp ends after
five minutes (`oauth.go:31`); its other requests have no limit of their own, and
end because the portal's server limits its answers (`server.go:44`) or is not
reached. The Go runtime schedules goroutines, timers and tickers. Cache entries
expire by the clock. The watcher also needs an outage of vire-server to end:
otherwise nothing could be said. A browser takes every answer that is not lost
and runs what waits for it. No fairness is assumed of users, of new requests or
clicks, of `Close` being called, or of a process staying up.

## What TLAPS proves

For every value of the constants that satisfies the named assumptions
(`BackendAssumption`, `CacheAssumption`, ...):

| Module | Theorem | Hypotheses |
|--------|---------|-----------|
| `TokenEndpointProofs` | `CodeConsumedOnce`: `[]ConsumedOncePerLife` | none |
| | `CodeSpentOnce`: `ImplementsSingleUse`, `[]GrantedOnce`; `TokenRotatedInOneLife` | writes applied |
| `AuthorizeProofs` | `RegistrationsAreKept`, `RedirectsAreRegistered` | reads and writes succeed |
| | `SessionCompletedInOneLife`: `[]CompletedInOneLife` | writes applied |
| `ResponseCacheProofs` | `CacheBounded`, `FreshOnesStay`: `FreshStays`, `CacheKeepsContract` | none |
| `APIProxyProofs` | `ProxyNoStaleHit`: `[]NoStaleHit` | none |
| `ToolCallProofs` | `RegistersOffered`, `ToolsOfOneBuild`: `[]OneBuild`, `CallerProven`, `PathComplete`, `DefaultOfCaller` | none |
| | `PageOfCaller`: `[]PageIsCallers` | `LoopbackTimeout <= LoopbackTTL` |
| `LifecycleProofs` | `EntriesInOnePlace`, `BufferIsBounded`, `LosesOnlyInFlight`, `AnswersRequests`, `StartsAsTold` | none |
| `AdminSyncProofs` | `NobodyElsePromoted`: `[]OnlyNamedAreAdmins` | none |
| | `SuccessfulSync`: a sync without a failure achieves what it is for, for good | seeding makes no listed person a member |
| `McpBridgeProofs` | `PromptsAreBounded` | none |

with type correctness in each. They thus cover more than the runs do: any number
of codes, tokens, sessions, requests and restarts, and, where no hypothesis is
named, a backend that fails at any call. None of the properties is inductive by
itself; the strengthenings:

- *Composition.* Every step of `TokenEndpoint` is a step of `CodeStore` and of
  `TokenStore`, or leaves the one alone (`EndpointImplements`), and likewise
  `Authorize` (`AuthorizeImplements`); so what is proved of a store alone holds
  of the handlers over it.
- *Codes.* Within a life, `consumed[c] = 1` implies the entry in memory is
  "used", and memory never goes back. Across lives the invariant follows the one
  request that may still answer: a request past the decision under the lock is
  the only one, and memory is "used"; a stale "unused" fetched earlier meets a
  "used" in memory when it is installed; a granted code is "used" at the backend.
  The refinement maps `Mark` to `Spend` and `Grant` to `Respond`.
- *Tokens.* A token that was rotated, or that a request is about to rotate past
  its delete, is not at the backend; so in a later life, where memory starts
  empty, no request can find it. Within a life memory may hold it again.
- *Clients.* `ClientHeldInv`: a request for a registered client finds it and
  works with exactly the registered record; `UnusedInv`: an identifier nobody has
  used is in no store.
- *Sessions.* `GoneInv`: a session that has had its redirect is not at the
  backend, and after a restart it is neither in memory nor with a request.
  `NewestExists` (a non-empty set of sessions has a newest) is by
  well-foundedness of the naturals.
- *Cache.* `AgeInv`: insertion indices of entries are distinct and below
  `nextIdx`, and an expired entry is older than a fresh one. Therefore the lowest
  index is expired whenever anything is. That `Drop` looks at the entry again
  does the rest of `FreshStays`.
- *Proxy.* `AckedInv`: what is acknowledged was applied; `ApartInv`: a read and a
  write that touches it are under way together only on a raced path; `ReplyInv`:
  on any other path a reply about to be stored is no older than an answered
  write. The proof uses only `CacheContract`.
- *Tool calls.* The folds over a catalog are characterised for each prefix of it
  (`Keeps`, `Holds`), by induction over its length; `Induction` states that for a
  set of numbers, from well-foundedness. `WatchInv`: the registered tools are
  those of a catalog some build offered, or of none. `CallInv`: a call carries
  the subject its credentials proved from its first step to the request it sends,
  and each parameter passed is filled or the call has ended.
- *Process and log store.* `StoreInv` is about the store alone: entries are in
  one place, the buffer is below the flush size, and a closed store has an empty
  buffer. `ProcessInv` ties it to `main`: the store is attached by `Boot` and
  closed only in "flush", and from "drain" on nothing listens, so that a request
  still active afterwards was so when the drain ended. The facts about appending
  to, cutting and emptying sequences without repetition are lemmas.
- *Admin sync.* `NamedInv`: whom an attempt has still to promote holds a
  configured address. `RaisedInv`: as long as no update of an attempt has failed,
  each configured address has an administrator already or its turn is still to
  come.
- *Bridge.* `Left(p, r)` is the number of flows a launch may still start at step
  `p` with return point `r`; `prompts + Left <= 2` is inductive.

Only model-checked: liveness and everything under fairness, which the prover
cannot treat (`EventuallyCurrent`, `CatalogCatchesUp`, `EventuallyPosted`,
`ShutdownHonoured`, `ListedBecomeAdmins`, `RedirectsEnd`, `LoadingEnds`,
`LaunchEnds`), and everything of `Browser` and `Scripts`.

## Known deviations

Met while modelling, besides the three failing runs; none is covered by a
property, or a property names it as an exception:

- `Put` and `Delete` of the OAuth stores call the backend while they hold the
  store's lock, so a slow backend delays every request of that store
  (`store.go:114`). The `Cleanup` methods have no caller (`store.go:233`).
- A forced refresh stores its response and then invalidates its path, so the next
  read goes to vire-server again (`routes.go:205`). For a portfolio whose name is
  escaped in a URL it invalidates nothing, because the path there is decoded and
  the keys of the cache are not (`routes.go:137`).
- Overlapping logins complete one MCP session each with a code of their own
  (`server.go:57`), as the stress test of `CompleteAuthorization` reports.
- The watcher does not repeat a refresh whose fetch failed (`handler.go:195`),
  and does not notice a build deployed between the first fetch and the first poll
  (`handler.go:171`).
- `/auth/callback` stores whatever token its URL holds, and completes a pending
  authorization for its subject, which nothing verifies there (`auth.go:349`).
- `_csrf` is `SameSite=Strict` (`middleware.go:166`), so a page reached by the
  provider's redirect replaces it, and a form another tab showed before is
  refused; so is one of two forms whose first visits overlapped
  (`middleware.go:158`).
- A profile form is saved for whoever is logged in when it arrives
  (`profile.go:143`).
- Log entries that are still in arbor's channel when `main` returns are lost
  (`logging.go:169`).
- Any path without a route is answered by the landing page, which clears
  `vire_session` (`landing.go:173`). On a first visit the profile form holds an
  empty token, since the handler reads the request's cookie (`profile.go:65`).
- The portfolio's name is unescaped once more than it is escaped, so a name that
  contains an escape is not found by its link (`dashboard.go:90`). A phone is
  redirected with the decoded name in the URL, where a '?' or '#' ends it
  (`dashboard.go:69`).
- `common.js`: a portfolio selected while another is loaded (the keyboard reaches
  the control below the overlay) may show parts of both; a network error in
  `loadPortfolio` leaves the earlier portfolio's data; `toggleDefault` ignores
  the status of its PUT and shows what is selected when the answer comes; a
  request under way when its URL is invalidated puts the old response back.

## Not modelled

- Stateless code: discovery documents, health and version endpoints, CORS,
  security headers, recovery, the body limit, static files, the declarations in
  `internal/vire`, and the wire formats in `auth/backend.go` and
  `client/vire_client.go`.
- Layout and formatting: templates, styles, charts, `computeMA`,
  `filterAnomalies`, `computeBreadth`, the glossary, paging, the address bar.
  They are functions on the data shown and change nothing that is modelled.
- Code without a caller: the `Cleanup` methods, `CodeStore.Get` and `MarkUsed`,
  `proxyHandler` of vire-mcp, `resolvePortfolio` of `mcp/handlers.go`,
  `ExtractJWTSub`.
- `HandleTestLogin`, a development aid, and the search for a configuration file.
- The mcp-go library, a browser's engine and vire-server: external, modelled by
  what the portal's code can see of them. The refresh of a token inside mcp-go is
  part of whether the portal accepts it; that a flow exchanges only the code of
  its own state is mcp-go's comparison.
- Clocks: beyond the order of expiry and of the loopback's two limits, durations
  are not compared.
