------------------------------ MODULE Scripts -------------------------------
(***************************************************************************)
(* The scripts of the portfolio pages (pages/static/common.js) on top of   *)
(* the browser: vireStore, which caches responses and shares requests, and *)
(* the components portfolioDashboard, cashTransactions and                 *)
(* portfolioStrategy, which hydrate from the delivered page or load for    *)
(* themselves, and react to the person who selects, refreshes, sets the    *)
(* default or asks for the closed holdings.                                *)
(*                                                                         *)
(* A function that awaits is a task: it runs up to the await in one step,  *)
(* and goes on in another once its answers have arrived, with whatever the *)
(* page's state is by then.  The portal answers from its response cache    *)
(* (module APIProxy) or with what vire-server has at some moment since the *)
(* request; data is a version number.  The glossary and the address bar    *)
(* are left out.  In a plan with clicks one page is delivered, and its     *)
(* script followed.                                                        *)
(***************************************************************************)
EXTENDS Browser, Integers

CONSTANT Escaped    \* the names that encodeURIComponent changes

VARIABLES ui,         \* the page's component, None before a page is delivered
          cache,      \* vireStore._cache, without what has expired
          inflight,   \* vireStore._inflight, with the version when it was sent
          tasks,      \* functions that await
          portal,     \* the portal's cache, s.cache, without what has expired
          version, clicks,
          muddled,    \* history: a portfolio was selected while parts were being loaded,
                      \* or they could not be loaded, and none was in quiet since
          overlapped, \* history: a refresh began while parts were being loaded, or they were
                      \* asked for during it, and none was in quiet since
          unsure,     \* history: the same for the default
          floor       \* history: the version a portfolio was last refreshed from

store == <<cache, inflight, tasks, portal>>
flags == <<muddled, overlapped, unsure, floor>>
script == <<ui, store, version, clicks, flags>>

Dashboards == {"dashboard", "mobile"}

\* What loadPortfolio or loadTransactions asks for first.
First(kind) ==
  CASE kind \in Dashboards -> {"portfolio"}
    [] kind = "cash" -> {"cash-transactions"}
    [] kind = "strategy" -> {"strategy", "plan"}

\* The parts of a page; closed are the dashboard's closed holdings, fetched on request.
Part == {"portfolio", "timeline", "watchlist", "closed", "cash-transactions", "strategy", "plan"}

\* A part that shows nothing; closed is None until it is fetched.
Nothing == [of |-> "", v |-> 0]

Blank == [x \in Part |-> IF x = "closed" THEN None ELSE Nothing]

Url(of, part, forced) == [of |-> of, part |-> part, forced |-> forced]

ListUrl == Url("", "list", FALSE)

ScriptTypeOK ==
  /\ ui # None =>
       /\ ui.kind \in Portfolios /\ ui.selected \in Range(ui.names) \cup {""}
       /\ ui.default \in Range(ui.names) \cup {""}
       /\ \A x \in Part : ui.shown[x] = None \/ ui.shown[x].v \in 0..version
  /\ \A a, b \in inflight : a.url = b.url => a = b
  /\ \A a, b \in cache : a.url = b.url => a = b
  /\ \A a, b \in portal : a.url = b.url => a = b
  /\ \A k \in tasks : \A u \in k.urls :
       \/ \E a \in k.got : a.url = u
       \/ \E a \in inflight : a.url = u
  /\ version \in 0..plan.versions /\ clicks \in 0..plan.clicks

ScriptInit ==
  /\ Init
  /\ ui = None
  /\ cache = {} /\ inflight = {} /\ tasks = {} /\ portal = {}
  /\ version = 0 /\ clicks = 0
  /\ muddled = FALSE /\ overlapped = FALSE /\ unsure = FALSE
  /\ floor = [n \in DOMAIN Unescape |-> 0]
-----------------------------------------------------------------------------
(* vireStore.                                                              *)

\* vireStore.fetch of some URLs up to the await: the task's record, answered as far
\* as the cache c goes,
Awaiting(op, n, of, urls, c) ==
  [op |-> op, n |-> n, of |-> of, urls |-> urls, since |-> 0,
   got |-> {[url |-> e.url, is |-> "ok", v |-> e.v] : e \in {x \in c : x.url \in urls}}]

\* and the requests under way after it: a URL that is requested is not requested again.
Requesting(urls, c) ==
  inflight \cup {[url |-> u, since |-> version] :
                   u \in urls \ ({e.url : e \in c} \cup {r.url : r \in inflight})}

\* The cache when some URLs are looked up: their entries may have expired.
Unexpired(urls) == {cache \ x : x \in SUBSET {e \in cache : e.url \in urls}}

\* A fetch that does not go through the store.
Direct(op, n, of) ==
  [op |-> op, n |-> n, of |-> of, urls |-> {}, since |-> version, got |-> {}]

\* InvalidatePrefix as it would be without force_refresh.
DropNothing(u, entries) == entries

\* InvalidatePrefix after a GET with force_refresh: what lies under its path.  The path
\* is decoded and the keys of the cache are not, so that no key holds a name that is
\* escaped in the URL.
Drop(u, entries) ==
  {e \in entries : ~(/\ u.forced /\ u.of \notin Escaped /\ e.url.of = u.of
                      /\ u.part \in {"portfolio", e.url.part})}

\* What the portal may answer to a GET of u that was sent at version since, and its
\* cache after it: the cached response; a response of vire-server, which is cached if
\* it is ok, then invalidated like the others; another status, or an error.
Answers(u, since) ==
  {[is |-> "ok", v |-> e.v, left |-> portal] : e \in {x \in portal : x.url = u}}
    \cup {[is |-> "ok", v |-> v,
           left |-> Drop(u, {e \in portal : e.url # u} \cup {[url |-> u, v |-> v]})] :
             v \in since..version}
    \cup (IF ~plan.fails THEN {}
          ELSE {[is |-> "refused", v |-> 0, left |-> Drop(u, portal)]}
                 \cup {[is |-> "lost", v |-> 0, left |-> p] : p \in {portal, Drop(u, portal)}})

\* An answer that is not ok counts as a click, to bound both.
Counted(a) ==
  /\ clicks' = IF a.is = "ok" THEN clicks ELSE clicks + 1
  /\ clicks' <= plan.clicks

\* The answer arrives: it is cached if it is ok, and is that of every task that waits.
Arrive(r) ==
  /\ r \in inflight
  /\ \E a \in Answers(r.url, r.since) :
       LET answer == [url |-> r.url, is |-> a.is, v |-> a.v]
       IN  /\ cache' = IF a.is = "ok"
                         THEN {e \in cache : e.url # r.url} \cup {[url |-> r.url, v |-> a.v]}
                         ELSE cache
           /\ tasks' = {IF r.url \in k.urls /\ ~\E g \in k.got : g.url = r.url
                          THEN [k EXCEPT !.got = @ \cup {answer}] ELSE k : k \in tasks}
           /\ portal' = a.left
           /\ Counted(a)
  /\ inflight' = inflight \ {r}
  /\ UNCHANGED <<browser, ui, version, flags>>

-----------------------------------------------------------------------------
(* A page is delivered.                                                    *)

\* The choice of the components when the page has none.
Choice(default, names) == IF default # "" \/ names = <<>> THEN default ELSE names[1]

Component(kind, user, names, default, selected) ==
  [kind |-> kind, user |-> user, names |-> names, default |-> default, selected |-> selected,
   link |-> "", typed |-> "", shown |-> Blank, loading |-> FALSE, busy |-> FALSE, refreshing |-> FALSE]

\* What the portal may have cached for the names, from pages that were looked at before.
Warm(kind, names) ==
  {[url |-> Url(n, x, FALSE), v |-> version] :
     n \in Range(names), x \in {"closed"} \cup Dependents[kind]}

\* init, from the data in the page or, if it has none, by a request for the list.
Run(t) ==
  LET p == resp[t].page
      c == Component(p.kind, p.user, p.pf.names, p.pf.default,
             IF p.kind \in Dashboards /\ p.selected # "" THEN p.selected
             ELSE Choice(p.pf.default, p.pf.names))
  IN  IF plan.clicks = 0 \/ resp[t].goto \in Route \/ p = None \/ p.kind \notin Portfolios
        THEN UNCHANGED script
      ELSE
        /\ IF p.pf # None
             THEN /\ ui' = [c EXCEPT !.typed = req[t].typed, !.shown = [x \in Part |->
                              IF <<x, p.selected>> \in p.parts
                                THEN [of |-> p.selected, v |-> version] ELSE Blank[x]]]
                  /\ inflight' = {} /\ tasks' = {}
             ELSE /\ ui' = [Component(p.kind, p.user, <<>>, "", "") EXCEPT
                              !.loading = TRUE, !.link = req[t].link,
                              !.typed = req[t].typed]
                  /\ inflight' = {[url |-> ListUrl, since |-> version]}
                  /\ tasks' = {Awaiting("list", 0, "", {ListUrl}, {})}
        /\ cache' = {}
        /\ portal' \in {{}, Warm(p.kind, pf[p.user].names)}
        /\ UNCHANGED <<version, clicks, flags>>
-----------------------------------------------------------------------------
(* The person clicks.                                                      *)

\* The controls are hidden while the component loads.  In quiet, the person waits.
Click ==
  /\ plan.quiet => tasks = {} /\ inflight = {}
  /\ ui # None /\ ~ui.loading /\ ui.names # <<>>
  /\ clicks < plan.clicks
  /\ clicks' = clicks + 1
  /\ UNCHANGED <<browser, version, portal>>

Loading == {k \in tasks : k.op # "default"}
Saving == {k \in tasks : k.op = "default"}

LoadUrls(kind, name) == {Url(name, x, FALSE) : x \in First(kind)}

\* loadPortfolio as it would be if it kept the closed holdings.
SelectKeepingClosed(name) ==
  LET urls == LoadUrls(ui.kind, name)
  IN  /\ Click
      /\ ui' = [ui EXCEPT !.selected = name, !.typed = "",
                         !.busy = ui.kind \in Dashboards]
      /\ \E c \in Unexpired(urls) :
           /\ tasks' = tasks \cup {Awaiting("load", clicks', name, urls, c)}
           /\ inflight' = Requesting(urls, c)
           /\ cache' = c
      /\ muddled' = (Loading # {})
      /\ overlapped' = (overlapped \/ ui.refreshing)
      /\ unsure' = (unsure \/ Saving # {})
      /\ UNCHANGED floor

\* Another portfolio is selected: loadPortfolio or loadTransactions up to the await.
Select(name) ==
  LET urls == LoadUrls(ui.kind, name)
  IN  /\ Click
      /\ ui' = [ui EXCEPT !.selected = name, !.typed = "",
                         !.busy = ui.kind \in Dashboards, !.shown.closed = None]
      /\ \E c \in Unexpired(urls) :
           /\ tasks' = tasks \cup {Awaiting("load", clicks', name, urls, c)}
           /\ inflight' = Requesting(urls, c)
           /\ cache' = c
      /\ muddled' = (Loading # {})
      /\ overlapped' = (overlapped \/ ui.refreshing)
      /\ unsure' = (unsure \/ Saving # {})
      /\ UNCHANGED floor

\* "Show closed" is checked: fetchClosedHoldings, unless they are there.
ShowClosed ==
  /\ Click
  /\ ui.kind = "dashboard" /\ ui.selected # "" /\ ui.shown.closed = None
  /\ tasks' = tasks \cup {Direct("closed", clicks', ui.selected)}
  /\ overlapped' = (overlapped \/ ui.refreshing)
  /\ UNCHANGED <<ui, cache, inflight, muddled, unsure, floor>>

\* refreshPortfolio up to the await; invalidate empties the cache.
Refresh ==
  /\ Click
  /\ ui.kind \in Dashboards /\ ui.selected # "" /\ ~ui.refreshing
  /\ ui' = [ui EXCEPT !.refreshing = TRUE, !.shown.closed = None]
  /\ tasks' = tasks \cup {Direct("refresh", clicks', ui.selected)}
  /\ cache' = {}
  /\ overlapped' = (Loading # {} \/ inflight # {})
  /\ UNCHANGED <<inflight, muddled, unsure, floor>>

\* toggleDefault up to the await: the selected portfolio is the default, or none is.
ToggleDefault ==
  /\ Click
  /\ ui.kind # "mobile"
  /\ tasks' = tasks \cup {Direct("default", clicks',
                                 IF ui.selected = ui.default THEN "" ELSE ui.selected)}
  /\ unsure' = (Saving # {})
  /\ UNCHANGED <<ui, cache, inflight, muddled, overlapped, floor>>
-----------------------------------------------------------------------------
(* A fetch that does not go through the store is answered.                 *)

\* fetchClosedHoldings and refreshPortfolio.
ReplyGet(k) ==
  /\ k.op # "default"
  /\ \E a \in Answers(Url(k.of, IF k.op = "closed" THEN "closed" ELSE "portfolio",
                          k.op = "refresh"), k.since) :
       /\ Counted(a)
       /\ tasks' = (tasks \ {k}) \cup {[k EXCEPT !.got = {[is |-> a.is, v |-> a.v]}]}
       /\ portal' = a.left
  /\ UNCHANGED pf

\* PUT /api/portfolios/default; what it invalidates is not cached.
ReplyPut(k) ==
  /\ k.op = "default"
  /\ \E is \in {"ok"} \cup (IF plan.fails THEN {"refused", "lost"} ELSE {}) :
       /\ Counted([is |-> is])
       /\ tasks' = (tasks \ {k}) \cup {[k EXCEPT !.got = {[is |-> is, v |-> version]}]}
       /\ \/ is # "refused" /\ pf' = [pf EXCEPT ![ui.user].default = k.of]
          \/ is # "ok" /\ UNCHANGED pf
  /\ UNCHANGED portal

Reply(k) ==
  /\ k \in tasks /\ k.urls = {} /\ k.got = {}
  /\ ReplyGet(k) \/ ReplyPut(k)
  /\ UNCHANGED <<cookies, plan, stage, req, resp, form, role, pending, minted, visits, changes,
                 history, ui, cache, inflight, version, flags>>
-----------------------------------------------------------------------------
(* A task goes on after its await.                                         *)

\* Promise.all waits for every answer, or for the first error.
Ready(k) ==
  /\ k.got # {}
  /\ (\E a \in k.got : a.is = "lost") \/ \A u \in k.urls : \E a \in k.got : a.url = u

Failed(k) == \E a \in k.got : a.is = "lost"

\* The status and version of the answer a task that awaits one has got.
Got(k) == CHOOSE a \in k.got : TRUE

Shows(k, a) == IF a.is = "ok" THEN [of |-> k.of, v |-> a.v] ELSE Nothing

Ends(k) ==
  /\ tasks' = tasks \ {k}
  /\ UNCHANGED <<cache, inflight>>

\* A task ends, and for each set of URLs in new another begins that fetches them.
Continues(k, op, of, new) ==
  \E c \in Unexpired(UNION new) :
    /\ tasks' = (tasks \ {k}) \cup {Awaiting(op, k.n, of, urls, c) : urls \in new}
    /\ inflight' = Requesting(UNION new, c)
    /\ cache' = c

\* init after the list has come: the portfolio of the URL, else the default, else the
\* first; it is loaded before the page leaves the loading state.
ResumeInit(k) ==
  LET list == pf[ui.user]
      name == IF ui.kind \in Dashboards /\ ui.link # "" /\ ui.link \in Range(list.names)
                THEN ui.link ELSE Choice(list.default, list.names)
  IN  /\ k.op = "list"
      /\ \/ /\ Got(k).is # "ok" \/ name = ""
            /\ ui' = [ui EXCEPT !.loading = FALSE]
            /\ Ends(k)
         \/ /\ Got(k).is = "ok" /\ name # ""
            /\ ui' = [ui EXCEPT !.names = list.names, !.default = list.default,
                               !.selected = name, !.busy = ui.kind \in Dashboards]
            /\ Continues(k, "load", name, {LoadUrls(ui.kind, name)})
      /\ UNCHANGED flags

\* fetchGrowthData and fetchWatchlist, of the portfolio that is selected by now.
Background(k, forced) ==
  Continues(k, "part", ui.selected, {{Url(ui.selected, "timeline", forced)},
                                     {Url(ui.selected, "watchlist", FALSE)}})

\* loadPortfolio or loadTransactions: the parts are shown, or emptied when the answer
\* is a refusal; after an error they are left as they were.
ResumeLoad(k) ==
  /\ k.op = "load"
  /\ \/ /\ Failed(k)
        /\ ui' = [ui EXCEPT !.busy = FALSE, !.loading = FALSE]
        /\ muddled' = TRUE
        /\ Ends(k)
     \/ /\ ~Failed(k)
        /\ ui' = [ui EXCEPT !.busy = FALSE, !.loading = FALSE,
                     !.shown = [x \in Part |->
                        IF x \in First(ui.kind)
                          THEN Shows(k, CHOOSE a \in k.got : a.url.part = x) ELSE @[x]]]
        /\ IF ui.kind \in Dashboards THEN Background(k, FALSE) ELSE Ends(k)
        /\ UNCHANGED muddled
  /\ UNCHANGED <<overlapped, unsure, floor>>

\* fetchGrowthData or fetchWatchlist.
ResumePart(k) ==
  /\ k.op = "part"
  /\ ui' = [ui EXCEPT !.shown[Got(k).url.part] = Shows(k, Got(k))]
  /\ Ends(k)
  /\ UNCHANGED flags

\* fetchClosedHoldings.
ResumeClosed(k) ==
  /\ k.op = "closed"
  /\ ui' = [ui EXCEPT !.shown.closed = Shows(k, Got(k))]
  /\ Ends(k)
  /\ UNCHANGED flags

\* refreshPortfolio as it would be if an error left the page refreshing.
ResumeRefreshStuck(k) ==
  /\ k.op = "refresh"
  /\ ui' = [ui EXCEPT !.refreshing = Failed(k)]
  /\ Ends(k)
  /\ UNCHANGED flags

\* refreshPortfolio: what was answered is shown; then, unless there was an error, the
\* other parts are fetched.
ResumeRefresh(k) ==
  /\ k.op = "refresh"
  /\ \/ /\ Failed(k)
        /\ ui' = [ui EXCEPT !.refreshing = FALSE]
        /\ Ends(k)
     \/ /\ ~Failed(k)
        /\ ui' = [ui EXCEPT !.refreshing = FALSE,
                           !.shown.portfolio = IF Got(k).is = "ok" THEN Shows(k, Got(k)) ELSE @]
        /\ Background(k, TRUE)
  /\ floor' = IF Got(k).is = "ok" THEN [floor EXCEPT ![k.of] = k.since] ELSE floor
  /\ UNCHANGED <<muddled, overlapped, unsure>>

\* toggleDefault as it would be if it never showed that there is no default.
ResumeDefaultSet(k) ==
  /\ k.op = "default"
  /\ \/ Failed(k) /\ UNCHANGED <<ui, cache>>
     \/ ~Failed(k) /\ ui' = [ui EXCEPT !.default = ui.selected] /\ cache' = {}
  /\ tasks' = tasks \ {k}
  /\ unsure' = (unsure \/ Got(k).is # "ok")
  /\ UNCHANGED <<inflight, muddled, overlapped, floor>>

\* toggleDefault: whatever the status, the default is shown as none or as what is
\* selected by now, and the cache is invalidated.
ResumeDefault(k) ==
  /\ k.op = "default"
  /\ \/ Failed(k) /\ UNCHANGED <<ui, cache>>
     \/ /\ ~Failed(k)
        /\ ui' = [ui EXCEPT !.default = IF k.of = "" THEN "" ELSE ui.selected]
        /\ cache' = {}
  /\ tasks' = tasks \ {k}
  /\ unsure' = (unsure \/ Got(k).is # "ok")
  /\ UNCHANGED <<inflight, muddled, overlapped, floor>>

Resume(k) ==
  /\ Ready(k)
  /\ \/ ResumeInit(k) \/ ResumeLoad(k) \/ ResumePart(k) \/ ResumeClosed(k)
     \/ ResumeRefresh(k) \/ ResumeDefault(k)
  /\ UNCHANGED <<browser, version, clicks, portal>>

\* What the pages show changes at vire-server.
DataChanges ==
  /\ ui # None /\ version < plan.versions
  /\ version' = version + 1
  /\ UNCHANGED <<browser, ui, store, clicks, flags>>
-----------------------------------------------------------------------------
Clicks ==
  \/ \E n \in DOMAIN Unescape : ui # None /\ n \in Range(ui.names) \ {ui.selected} /\ Select(n)
  \/ ShowClosed \/ Refresh \/ ToggleDefault

Works == (\E r \in inflight : Arrive(r)) \/ (\E k \in tasks : Reply(k) \/ Resume(k))

Next ==
  \/ Moves /\ UNCHANGED script
  \/ \E t \in Tab : Deliver(t) /\ Run(t)
  \/ Clicks \/ Works \/ DataChanges

vars == <<browser, script>>

\* The portal answers every request, as each call it makes has a timeout; the browser
\* takes every answer it is not told to drop, and runs what waits for it.
Fairness ==
  /\ \A t \in Tab : WF_vars(\/ (Handle(t) \/ Fetch(t)) /\ UNCHANGED script
                            \/ Deliver(t) /\ Run(t))
  /\ WF_vars(Works)

Spec == ScriptInit /\ [][Next]_vars /\ Fairness
-----------------------------------------------------------------------------
\* When nothing is awaited, every part of the page is of the portfolio that is
\* selected, if that was selected while nothing was being loaded and could be loaded:
\* whatever was muddled before is put right by a selection in quiet.
ShowsSelected ==
  ui # None /\ Loading = {} /\ ~muddled =>
    \A x \in Part : ui.shown[x] \in {None, Nothing} \/ ui.shown[x].of = ui.selected

\* When nothing is awaited, no part is older than the last refresh of its portfolio,
\* also after other portfolios were looked at, if nothing else was being loaded during
\* that refresh and the name is not escaped in a URL: what vireStore and the portal had
\* cached before is not shown again (vireStore.invalidate, refreshPortfolio,
\* InvalidatePrefix in handleAPIProxy).
FreshAfterRefresh ==
  ui # None /\ Loading = {} /\ ~overlapped =>
    \A x \in Part :
      \/ ui.shown[x] \in {None, Nothing}
      \/ ui.shown[x].of \in Escaped
      \/ ui.shown[x].v >= floor[ui.shown[x].of]

\* A portfolio named in the URL that the person opened is the one selected, until they
\* select another, if the user has it and the name stands for itself in a URL: also when
\* a phone was sent from /dashboard to /m, and when the page came without the list and
\* the script fetched it (MobileRedirect, DashboardSelection, init).
LinkHonoured ==
  ui # None /\ ui.typed # "" /\ ui.typed \notin Escaped
    /\ ui.typed \in Range(ui.names) => ui.selected = ui.typed

\* The default that the page shows is the one vire-server has, if it was toggled last
\* without an error, and while neither another toggle was under way nor another
\* portfolio was selected (toggleDefault).
DefaultAsSaved ==
  ui # None /\ ui.names # <<>> /\ Saving = {} /\ ~unsure => ui.default = pf[ui.user].default

\* Whatever fails, a page does not stay in its loading or refreshing state.
LoadingEnds ==
  LET waits == ui # None /\ (ui.loading \/ ui.busy \/ ui.refreshing)
  IN  waits ~> ~waits
=============================================================================
