------------------------------- MODULE Pages -------------------------------
(***************************************************************************)
(* What the page handlers of internal/handlers answer, as functions of the *)
(* request and of what vire-server told them.                              *)
(*                                                                         *)
(* claims is what IsLoggedIn found, None for a request without a login;    *)
(* who is the profile userLookupFn returned and pf the parsed answer of    *)
(* /api/portfolios, each None when the call failed.  A page that shows a   *)
(* portfolio is answered without its parts; Fill adds those the dependent  *)
(* requests of the handler got.                                            *)
(***************************************************************************)
EXTENDS Sequences, Functions

CONSTANTS Unescape,   \* url.PathUnescape, on the names in use; Bad is an error
          InURL,      \* what is left of a name put into a URL as it is: a '?' or '#' ends it
          Bad, None

ASSUME PagesAssumption ==
  /\ "" \in DOMAIN Unescape /\ Unescape[""] = ""
  /\ InURL \in [DOMAIN Unescape -> DOMAIN Unescape]

\* A token carries a subject, possibly none, and an expiry relative to now.
Jwt == [sub : STRING, signed : BOOLEAN, exp : {"none", "past", "future"}]

\* ValidateJWT: the claims, or None.  The signature counts only if the secret is set.
ValidateJWT(token, secret) ==
  IF token # None /\ (secret => token.signed) /\ token.exp = "future" THEN token ELSE None

\* IsLoggedIn: a valid X-Test-Session header goes before the vire_session cookie.
IsLoggedIn(header, cookie, secret) ==
  IF ValidateJWT(header, secret) # None THEN header ELSE ValidateJWT(cookie, secret)

\* isMobileBrowser, ua being the keywords found in the User-Agent header.
isMobileBrowser(ua) ==
  /\ ua \cap {"iphone", "android", "mobile", "ipod", "windows phone", "blackberry",
              "opera mini", "iemobile"} # {}
  /\ "ipad" \notin ua
-----------------------------------------------------------------------------
\* Redirects and rendered pages.
Redirect(to, link) == [goto |-> to, link |-> link, page |-> None]

Render(page) == [goto |-> "", link |-> "", page |-> page]

Page(kind, user, role) ==
  [kind |-> kind, user |-> user, role |-> role, pf |-> None, link |-> "",
   selected |-> "", parts |-> {}, form |-> None]

\* The role shown and used for the gate: "" when the lookup failed.
RoleOf(who) == IF who = None THEN "" ELSE who.role

\* The name in the last part of the path.  r.URL.Path is decoded already, and is
\* decoded once more; a name that does not decode counts as none.
UrlPortfolio(name) == IF Unescape[name] = Bad THEN "" ELSE Unescape[name]

Listed(name, pf) == name \in Range(pf.names)

OrFirst(name, pf) == IF name = "" /\ pf.names # <<>> THEN pf.names[1] ELSE name

\* Priority: URL path > default > first portfolio.
DashboardSelection(link, pf) ==
  OrFirst(IF link # "" /\ Listed(link, pf) THEN link ELSE pf.default, pf)

MobileSelection(link, pf) ==
  OrFirst(IF link # "" /\ Listed(link, pf) THEN link ELSE pf.default, pf)

CashSelection(pf) == OrFirst(pf.default, pf)

StrategySelection(pf) == OrFirst(pf.default, pf)

\* A portfolio page: nothing is fetched for a token without a subject, and
\* nothing is selected when the list could not be had.
Portfolio(kind, claims, who, link, pf, selected) ==
  IF claims.sub = "" THEN Page(kind, "", "")
  ELSE [Page(kind, claims.sub, RoleOf(who)) EXCEPT
          !.pf = pf, !.link = link, !.selected = IF pf = None THEN "" ELSE selected]

\* MobileRedirect as it would be if only /dashboard itself were looked at.
MobileHome(name) == Redirect("mobile", "")

\* The decoded path is put into the Location header as it is: the browser takes what
\* follows a '?' or '#' for something else, and the server decodes the rest again when
\* it comes back, or refuses it.
MobileRedirect(name) ==
  IF Unescape[InURL[name]] = Bad THEN Redirect("refused", "")
  ELSE Redirect("mobile", Unescape[InURL[name]])

\* DashboardHandler.ServeHTTP up to the dependent requests.
Dashboard(claims, ua, name, who, pf) ==
  IF claims = None THEN Redirect("landing", "")
  ELSE IF isMobileBrowser(ua) THEN MobileRedirect(name)
  ELSE LET link == UrlPortfolio(name)
       IN  Render(Portfolio("dashboard", claims, who, link, pf, DashboardSelection(link, pf)))

\* The mobile dashboard as it would be if it sent phones back to /dashboard.
MobileBack(claims, ua, name, who, pf) ==
  IF claims = None THEN Redirect("landing", "")
  ELSE IF isMobileBrowser(ua) THEN Redirect("dashboard", name)
  ELSE LET link == UrlPortfolio(name)
       IN  Render(Portfolio("mobile", claims, who, link, pf, MobileSelection(link, pf)))

\* MobileDashboardHandler.ServeHTTP up to the dependent requests.
MobileDashboard(claims, ua, name, who, pf) ==
  IF claims = None THEN Redirect("landing", "")
  ELSE LET link == UrlPortfolio(name)
       IN  Render(Portfolio("mobile", claims, who, link, pf, MobileSelection(link, pf)))

\* CashHandler.ServeHTTP.
Cash(claims, who, pf) ==
  IF claims = None THEN Redirect("landing", "")
  ELSE Render(Portfolio("cash", claims, who, "", pf, CashSelection(pf)))

\* StrategyHandler.ServeHTTP.
Strategy(claims, who, pf) ==
  IF claims = None THEN Redirect("landing", "")
  ELSE Render(Portfolio("strategy", claims, who, "", pf, StrategySelection(pf)))

\* What each page asks for once the portfolio is selected, the dashboards in
\* parallel goroutines that are all waited for.
Dependents == [dashboard |-> {"portfolio", "timeline", "watchlist", "glossary"},
               mobile |-> {"portfolio", "timeline"},
               cash |-> {"cash-transactions"},
               strategy |-> {"strategy", "plan"}]

\* The page with the parts that were answered; the others stay null.
Fill(page, answered) ==
  [page EXCEPT !.parts = IF page.selected = "" THEN {}
                         ELSE (answered \cap Dependents[page.kind]) \X {page.selected}]
-----------------------------------------------------------------------------
\* ProfileHandler.HandleProfile: the form holds the _csrf cookie of the request.
HandleProfile(claims, csrf, who) ==
  IF claims = None THEN Redirect("landing", "")
  ELSE Render([Page("profile", claims.sub, RoleOf(who)) EXCEPT
                 !.form = [token |-> csrf]])

\* AdminUsersHandler.ServeHTTP up to the listing.
AdminUsers(claims, who) ==
  IF claims = None THEN Redirect("landing", "")
  ELSE IF claims.sub = "" \/ RoleOf(who) # "admin" THEN Redirect("dashboard", "")
  ELSE Render(Page("users", claims.sub, RoleOf(who)))

\* ServeHelpPage.
Help(claims, who) ==
  IF claims = None THEN Redirect("landing", "")
  ELSE Render(Page("help", claims.sub, RoleOf(who)))

\* MCPPageHandler.ServeHTTP.
McpInfo(claims, who) ==
  IF claims = None THEN Redirect("landing", "")
  ELSE Render(Page("mcp", claims.sub, RoleOf(who)))

\* ServePage("docs.html", "docs"), for anyone; the pages below differ in content only.
ServePage(claims, who) ==
  Render(IF claims = None THEN Page("docs", "", "") ELSE Page("docs", claims.sub, RoleOf(who)))

ServeErrorPage(claims, who) == [ServePage(claims, who) EXCEPT !.page.kind = "error"]

ServeGlossaryPage(claims, who) == [ServePage(claims, who) EXCEPT !.page.kind = "glossary"]

ServeChangelogPage(claims, who) == [ServePage(claims, who) EXCEPT !.page.kind = "changelog"]
=============================================================================
