--------------------------- MODULE CatalogWatcher ---------------------------
(***************************************************************************)
(* The MCP tool catalog (internal/mcp/handler.go): NewHandler fetches it   *)
(* from vire-server at startup, with retries, and starts a watcher that    *)
(* polls the server's build and refreshes the catalog when it changes.     *)
(*                                                                         *)
(*   boot --FetchAtStart--> boot | first     NewHandler's retry loop       *)
(*   first --FirstPoll--> wait               lastBuild := fetchServerBuild *)
(*   wait --Poll--> wait | fetch             a tick of the watcher         *)
(*   fetch --FetchCatalog--> wait | set      RefreshCatalog                *)
(*   set --SetTools--> publish               mcpSrv.SetTools               *)
(*   publish --Publish--> wait               h.catalog, under catalogMu    *)
(*   wait --Stop--> stopped                  stopWatch is closed           *)
(*                                                                         *)
(* Offer[b] is the catalog of vire-server's build b; build 0 stands for    *)
(* the empty build string.  A tool is registered under its name with the   *)
(* catalog entry its handler was made from, or with the portal's own.      *)
(***************************************************************************)
EXTENDS Naturals, Sequences

CONSTANTS Offer,        \* the catalogs of vire-server, by build
          Local,        \* the entry that stands for a handler of the portal's own
          Retries,      \* cfg.MCP.CatalogRetries
          MaxOutages    \* bound on the number of its outages

Param == [name : STRING, at : {"path", "query", "body"}, required : BOOLEAN,
          text : BOOLEAN,       \* of type string
          default : BOOLEAN]    \* with default_from "user_config.default_portfolio"

\* An entry as vire-server sends it.  Its path is "api" when it starts with /api/
\* and has no "..", and holes are its {placeholders}.
CatalogTool == [name : STRING, method : STRING, path : STRING, holes : SUBSET STRING,
                params : Seq(Param)]

ASSUME WatcherAssumption ==
  /\ Retries \in Nat
  /\ Offer \in Seq(Seq(CatalogTool))
  /\ Offer # <<>>
  /\ Local \notin CatalogTool
  /\ MaxOutages \in Nat

MaxBuilds == Len(Offer)

VARIABLES up, build, outages,   \* vire-server
          pc, attempt,          \* NewHandler, then the watcher
          lastBuild,
          got,                  \* the catalog RefreshCatalog fetched
          tools,                \* the tools registered with the MCP server
          catalog,              \* h.catalog, shown on the MCP page
          stopWatch,            \* how often the channel has been closed
          closing               \* Close saw the channel open

server == <<up, build, outages>>
vars == <<server, pc, attempt, lastBuild, got, tools, catalog, stopWatch, closing>>

TypeOK ==
  /\ up \in BOOLEAN
  /\ build \in 1..MaxBuilds
  /\ outages \in 0..MaxOutages
  /\ pc \in {"boot", "first", "wait", "fetch", "set", "publish", "stopped"}
  /\ attempt \in 1..(Retries + 2)
  /\ lastBuild \in 0..MaxBuilds
  /\ got \in Seq(CatalogTool)
  /\ \A n \in DOMAIN tools : tools[n] \in CatalogTool \cup {Local}
  /\ catalog \in Seq(CatalogTool)
  /\ stopWatch \in 0..1
  /\ closing \in BOOLEAN

Init ==
  /\ up \in BOOLEAN
  /\ build = 1
  /\ outages = 0
  /\ pc = "boot"
  /\ attempt = 1
  /\ lastBuild = 0
  /\ got = <<>>
  /\ tools = <<>>
  /\ catalog = <<>>
  /\ stopWatch = 0
  /\ closing = FALSE
-----------------------------------------------------------------------------
AllowedMethods == {"GET", "POST", "PUT", "PATCH", "DELETE"}

ValidateCatalogTool(ct) ==
  ct.name # "" /\ ct.method \in AllowedMethods /\ ct.path = "api"

\* Invalid entries are skipped, and then those whose name was kept before.
Keep(valid, ct) ==
  IF ValidateCatalogTool(ct) /\ \A i \in DOMAIN valid : valid[i].name # ct.name
    THEN Append(valid, ct) ELSE valid

ValidateCatalog(entries) ==
  LET valid[i \in 0..Len(entries)] == IF i = 0 THEN <<>> ELSE Keep(valid[i - 1], entries[i])
  IN  valid[Len(entries)]

\* AddTool of the MCP server: a tool replaces one of the same name.
AddTool(registry, name, entry) ==
  [n \in DOMAIN registry \cup {name} |-> IF n = name THEN entry ELSE registry[n]]

RegisterToolsFromCatalog(registry, entries) ==
  LET added[i \in 0..Len(entries)] ==
        IF i = 0 THEN registry ELSE AddTool(added[i - 1], entries[i].name, entries[i])
  IN  added[Len(entries)]

\* The tools NewHandler and RefreshCatalog register for a validated catalog.
Registry(entries) ==
  AddTool(AddTool(RegisterToolsFromCatalog(<<>>, entries), "get_version", Local),
          "portal_get_page", Local)

\* What FetchCatalog and ValidateCatalog make of the catalog of a build.
Validated == [b \in 1..MaxBuilds |-> ValidateCatalog(Offer[b])]

\* vire-server is redeployed, comes up, and goes down.
Deploy ==
  /\ build < MaxBuilds
  /\ build' = build + 1
  /\ UNCHANGED <<up, outages, pc, attempt, lastBuild, got, tools, catalog, stopWatch, closing>>

ComeUp ==
  /\ ~up
  /\ up' = TRUE
  /\ UNCHANGED <<build, outages, pc, attempt, lastBuild, got, tools, catalog, stopWatch, closing>>

GoDown ==
  /\ up
  /\ outages < MaxOutages
  /\ up' = FALSE
  /\ outages' = outages + 1
  /\ UNCHANGED <<build, pc, attempt, lastBuild, got, tools, catalog, stopWatch, closing>>

\* One attempt of NewHandler's loop.  When the last one fails, or there is none,
\* the portal starts with its own tools only.
FetchAtStart ==
  /\ pc = "boot"
  /\ \/ /\ attempt <= Retries /\ up
        /\ catalog' = Validated[build]
        /\ tools' = Registry(Validated[build])
        /\ pc' = "first"
        /\ UNCHANGED attempt
     \/ /\ attempt <= Retries => ~up
        /\ attempt' = attempt + 1
        /\ IF attempt < Retries THEN pc' = "boot" /\ UNCHANGED tools
                                 ELSE pc' = "first" /\ tools' = Registry(<<>>)
        /\ UNCHANGED catalog
  /\ UNCHANGED <<server, lastBuild, got, stopWatch, closing>>

\* What fetchServerBuild returns: the empty string on any error.
ServerBuild == IF up THEN build ELSE 0

FirstPoll ==
  /\ pc = "first"
  /\ lastBuild' = ServerBuild
  /\ pc' = "wait"
  /\ UNCHANGED <<server, attempt, got, tools, catalog, stopWatch, closing>>

\* Poll as it would be without the case of an empty lastBuild.
PollKnownOnly ==
  LET seen == ServerBuild
      changed == seen # 0 /\ lastBuild # 0 /\ seen # lastBuild
  IN  /\ pc = "wait"
      /\ lastBuild' = IF seen = 0 THEN lastBuild ELSE seen
      /\ pc' = IF changed THEN "fetch" ELSE "wait"
      /\ UNCHANGED <<server, attempt, got, tools, catalog, stopWatch, closing>>

\* A tick: a build that is new to the watcher is remembered, then the catalog is
\* refreshed.
Poll ==
  LET changed == ServerBuild # 0 /\ ServerBuild # lastBuild
  IN  /\ pc = "wait"
      /\ lastBuild' = IF changed THEN ServerBuild ELSE lastBuild
      /\ pc' = IF changed THEN "fetch" ELSE "wait"
      /\ UNCHANGED <<server, attempt, got, tools, catalog, stopWatch, closing>>

\* RefreshCatalog fetches; a failure is logged by triggerRefresh and forgotten.
FetchCatalog ==
  /\ pc = "fetch"
  /\ pc' = IF up THEN "set" ELSE "wait"
  /\ got' = IF up THEN Validated[build] ELSE got
  /\ UNCHANGED <<server, attempt, lastBuild, tools, catalog, stopWatch, closing>>

\* SetTools as it would be if it added to the tools that are registered.
AddTools ==
  /\ pc = "set"
  /\ tools' = RegisterToolsFromCatalog(tools, got)
  /\ pc' = "publish"
  /\ UNCHANGED <<server, attempt, lastBuild, got, catalog, stopWatch, closing>>

\* SetTools of the MCP server replaces all tools.
SetTools ==
  /\ pc = "set"
  /\ tools' = Registry(got)
  /\ pc' = "publish"
  /\ UNCHANGED <<server, attempt, lastBuild, got, catalog, stopWatch, closing>>

Publish ==
  /\ pc = "publish"
  /\ catalog' = got
  /\ pc' = "wait"
  /\ UNCHANGED <<server, attempt, lastBuild, got, tools, stopWatch, closing>>

\* The watcher's select takes the closed channel and returns.
Stop ==
  /\ pc = "wait"
  /\ stopWatch > 0
  /\ pc' = "stopped"
  /\ UNCHANGED <<server, attempt, lastBuild, got, tools, catalog, stopWatch, closing>>

\* Close tests the channel with a select, and closes it in the default case.
\* The application calls it once NewHandler has returned, from one goroutine.
CloseTest ==
  /\ pc # "boot"
  /\ ~closing
  /\ stopWatch = 0
  /\ closing' = TRUE
  /\ UNCHANGED <<server, pc, attempt, lastBuild, got, tools, catalog, stopWatch>>

Close ==
  /\ closing
  /\ closing' = FALSE
  /\ stopWatch' = stopWatch + 1
  /\ UNCHANGED <<server, pc, attempt, lastBuild, got, tools, catalog>>

Refresh == FetchCatalog \/ SetTools \/ Publish

Next ==
  \/ Deploy \/ ComeUp \/ GoDown
  \/ FetchAtStart \/ FirstPoll \/ Poll \/ Refresh \/ Stop
  \/ CloseTest \/ Close

Spec == Init /\ [][Next]_vars

\* The goroutines run, the ticker ticks, every call to vire-server ends in its
\* timeout, and an outage of vire-server ends.
Fairness ==
  /\ WF_vars(FetchAtStart) /\ WF_vars(FirstPoll) /\ WF_vars(Poll) /\ WF_vars(Refresh)
  /\ WF_vars(Stop) /\ WF_vars(Close) /\ WF_vars(ComeUp)
-----------------------------------------------------------------------------
\* The tools that a build's catalog offers: the portal's own under their names,
\* whatever the catalog lists under them, and the first valid entry of any other.
ToolsOf(b) ==
  LET local == {"get_version", "portal_get_page"}
      valid == {i \in DOMAIN Offer[b] : ValidateCatalogTool(Offer[b][i])}
      of(n) == {i \in valid : Offer[b][i].name = n}
  IN  [n \in local \cup {Offer[b][i].name : i \in valid} |->
         IF n \in local THEN Local
         ELSE Offer[b][CHOOSE i \in of(n) : \A j \in of(n) : i <= j]]

\* Once NewHandler has returned, the tools an MCP client can call are the portal's
\* own, or exactly those of a single build vire-server has run, and the catalog shown
\* is that of these tools, but for the moment between SetTools and the assignment to
\* h.catalog: whatever vire-server does during a refresh (RefreshCatalog).
OneBuild ==
  /\ pc # "boot" => tools = Registry(<<>>) \/ \E b \in 1..build : tools = ToolsOf(b)
  /\ pc \notin {"boot", "publish"} => tools = Registry(catalog)

\* A build that the watcher has not seen when it waits for its tick, and that stays and
\* answers from then on, is in the end the one whose tools are offered and whose catalog
\* is shown, however the fetches before went, or the handler is closed: "When the build
\* field changes, it triggers a catalog refresh" (watchServerVersion).
CatalogCatchesUp ==
  \A b \in 1..MaxBuilds :
    [](/\ pc = "wait" /\ lastBuild # b
       /\ [](up /\ build = b)
       => <>(stopWatch > 0 \/ [](tools = ToolsOf(b) /\ tools = Registry(catalog))))
=============================================================================
