------------------------------ MODULE Browser ------------------------------
(***************************************************************************)
(* A browser with several tabs at the portal: logging in and out           *)
(* (internal/handlers/auth.go), authorizing an MCP client on the way       *)
(* (tryCompleteMCPSession, setSessionCookieAndRedirect), the CSRF          *)
(* middleware (internal/server/middleware.go), the profile form and the    *)
(* pages of module Pages.                                                  *)
(*                                                                         *)
(* The tabs share the cookies vire_session, mcp_session_id and _csrf.  A   *)
(* request carries the cookies of the moment it is sent; what its response *)
(* sets is applied when it is delivered, and a redirect is followed in the *)
(* same step.  So answers of two tabs may be applied in either order.      *)
(*                                                                         *)
(*   idle --Browse, Login, ... --> sent                                    *)
(*   sent --Handle--> answered | fetch     the handler                     *)
(*   fetch --Fetch--> answered             its dependent requests          *)
(*   answered --Deliver--> idle | sent     a page | a redirect             *)
(*   answered --Lose--> idle               the answer does not arrive      *)
(*                                                                         *)
(* Any path that no route matches is answered by the landing page, which   *)
(* clears vire_session; route "landing" stands for all of them.            *)
(***************************************************************************)
EXTENDS Naturals, Pages

CONSTANTS Tab, User, Session,
          Issued,   \* the tokens vire-server may issue at a login
          Reopened, \* the tokens in /auth/callback URLs that are opened again
          Held,     \* what vire-server may hold for a user: names, default
          Plans,    \* what is tried in the browser, see below
          Keep      \* no Set-Cookie

\* routes are opened or submitted, at most visits times, while vire-server's data or
\* the time change at most changes times; links are the names in the URLs.  The
\* browser has the user agent ua and starts with one of the sessions start, with or
\* without a _csrf cookie.  Logins end with one of logins, None being a wrong password
\* or a login that is given up, and the URLs of earlier callbacks hold reopened, None
\* being a URL without a token.  A test driver sends header as X-Test-Session.  The
\* JWT secret is set or empty.  Users hold one of held, have one of roles, and what the
\* pages ask vire-server for may fail.  The person uses the tabs tabs, clicks at most
\* clicks times on a page whose script runs (module Scripts), maybe only in quiet, and
\* what it shows changes at most versions times.
Plan == [routes : SUBSET STRING, links : SUBSET DOMAIN Unescape,
         start : SUBSET (Issued \cup {None}), logins : SUBSET (Issued \cup {None}),
         reopened : SUBSET (Reopened \cup {None}),
         csrf : BOOLEAN, visits : Nat, changes : Nat, ua : SUBSET STRING,
         header : Issued \cup {None}, secret : BOOLEAN, held : SUBSET Held,
         roles : SUBSET {"user", "admin"}, fails : BOOLEAN, tabs : SUBSET Tab,
         clicks : Nat, quiet : BOOLEAN, versions : Nat]

ASSUME BrowserAssumption ==
  /\ Issued \subseteq Jwt /\ Reopened \subseteq Jwt
  /\ \A p \in Plans : p \in Plan

VARIABLES session, mcp, csrf,   \* the cookies, None when absent
          plan,
          stage, req, resp,
          form,                 \* the profile form a tab shows, or None
          pf, role, pending,    \* vire-server's lists and roles; sessions to complete
          minted, visits, changes,
          grants,    \* history: the codes sent to clients, for whom
          entitled,  \* history: the subject of the login with which a session was opened
                     \* in the browser, and those of the tokens that were presented since;
                     \* None when it was not opened
          latest,    \* history: the authorization opened last
          tangled    \* history: two were open at once, or an answer was lost

cookies == <<session, mcp, csrf>>
server == <<pf, role, pending>>
history == <<grants, entitled, latest, tangled>>
browser == <<cookies, plan, stage, req, resp, form, server, minted, visits, changes, history>>

Portfolios == {"dashboard", "mobile", "cash", "strategy"}
Others == {"profile", "users", "help", "mcp", "docs", "error", "glossary", "changelog"}
Shown == Portfolios \cup Others \cup {"landing"}
Route == Shown \cup {"provider", "exchange", "callback", "login", "logout", "save", "authorize"}

BrowserTypeOK ==
  /\ session \in Issued \cup Reopened \cup {[j EXCEPT !.exp = "past"] : j \in Issued} \cup {None}
  /\ mcp \in Session \cup {None}
  /\ csrf \in 1..minted \cup {None}
  /\ stage \in [Tab -> {"idle", "sent", "fetch", "answered"}]
  /\ \A t \in Tab : stage[t] # "idle" =>
       req[t].route \in Route /\ req[t].link \in DOMAIN Unescape \cup Session
  /\ \A t \in Tab : stage[t] \in {"fetch", "answered"} =>
       resp[t].page # None \/ resp[t].goto \in Route \cup {"client", "refused"}
  /\ \A t \in Tab : form[t] # None => form[t].token \in 1..minted \cup {None} /\ stage[t] = "idle"
  /\ pending \subseteq Session
  /\ plan \in Plans /\ visits \in 0..plan.visits /\ changes \in 0..plan.changes

Init ==
  /\ plan \in Plans
  /\ session \in plan.start /\ mcp = None
  /\ csrf = IF plan.csrf THEN 1 ELSE None
  /\ minted = IF plan.csrf THEN 1 ELSE 0
  /\ stage = [t \in Tab |-> "idle"]
  /\ req = [t \in Tab |-> None]
  /\ resp = [t \in Tab |-> None]
  /\ form = [t \in Tab |-> None]
  /\ pf \in [User -> plan.held]
  /\ role \in [User -> plan.roles]
  /\ pending = Session
  /\ visits = 0 /\ changes = 0
  /\ grants = {} /\ entitled = [s \in Session |-> None]
  /\ latest = None /\ tangled = FALSE
-----------------------------------------------------------------------------
(* The browser sends a request.                                            *)

IsGet(route) == route \notin {"login", "logout", "save"}

Waiting(t) == stage[t] # "idle"

\* Tab t sends a request.  abroad tells that the navigation comes from the provider's
\* site: _csrf is SameSite=Strict, and such a request is sent without it, as are those
\* of the redirects that follow.  typed is the portfolio name the person's URL had.
Send(t, route, link, typed, token, f, abroad, s, m, c) ==
  /\ req' = [req EXCEPT ![t] = [route |-> route, link |-> link, typed |-> typed,
                                token |-> token, form |-> f, abroad |-> abroad,
                                session |-> s, mcp |-> m, csrf |-> IF abroad THEN None ELSE c]]
  /\ stage' = [stage EXCEPT ![t] = "sent"]
  /\ resp' = [resp EXCEPT ![t] = None]
  /\ tangled' = \/ tangled
                \/ \E o \in Tab \ {t} : Waiting(o) /\ "authorize" \in {route, req[o].route}

\* A person opens a page, follows a link or submits a form in an idle tab.
Visit(t, route, link, token, f) ==
  /\ stage[t] = "idle" /\ t \in plan.tabs /\ route \in plan.routes /\ visits < plan.visits
  /\ visits' = visits + 1
  /\ Send(t, route, link, IF route \in {"dashboard", "mobile"} THEN link ELSE "", token, f,
          FALSE, session, mcp, csrf)
  /\ form' = [form EXCEPT ![t] = None]
  /\ UNCHANGED <<cookies, plan, server, minted, changes, grants>>

Open(t, route, link, token) == Visit(t, route, link, token, None)

Browse(t) ==
  /\ \E r \in Shown : \E n \in (IF r \in {"dashboard", "mobile"} THEN plan.links ELSE {""}) :
       Open(t, r, n, None)
  /\ UNCHANGED <<latest, entitled>>

\* The login form; a wrong password is a login without a token.
Login(t) ==
  /\ \E token \in plan.logins : Open(t, "login", "", token)
  /\ UNCHANGED <<latest, entitled>>

\* The Google or GitHub button; the person logs in there as the token's subject, or
\* gives up.
LoginAtProvider(t) ==
  /\ \E token \in plan.logins : Open(t, "provider", "", token)
  /\ UNCHANGED <<latest, entitled>>

\* The URL of an earlier callback is opened again, by a reload or from the browser's
\* history; its token may have expired since.
ReopenCallback(t) ==
  /\ \E token \in plan.reopened : Open(t, "callback", "", token)
  /\ UNCHANGED <<latest, entitled>>

Logout(t) ==
  /\ Open(t, "logout", "", None)
  /\ UNCHANGED <<latest, entitled>>

\* extractSessionUserID: like ValidateJWT, but a token without exp is good and
\* X-Test-Session is not looked at.
extractSessionUserID(token) ==
  IF token # None /\ (plan.secret => token.signed) /\ token.exp # "past" THEN token.sub ELSE ""

\* Who extractSessionUserID would find in the browser now.
LoggedInNow == {extractSessionUserID(session)} \ {""}

\* An MCP client opens the URL of its authorization in the browser.
Authorize(t, s) ==
  /\ Open(t, "authorize", s, None)
  /\ latest' = s
  /\ entitled' = [entitled EXCEPT ![s] = IF @ = None THEN LoggedInNow ELSE @ \cup LoggedInNow]

\* The profile form of the page that the tab shows is submitted.
SubmitProfile(t) ==
  /\ form[t] # None
  /\ Visit(t, "save", "", None, form[t])
  /\ UNCHANGED <<latest, entitled>>
-----------------------------------------------------------------------------
(* The portal handles a request.                                           *)

At(t, route) == stage[t] = "sent" /\ req[t].route = route

Claims(t) == IsLoggedIn(plan.header, req[t].session, plan.secret)

\* csrfMiddleware: a GET without the cookie is given a new token.
CsrfCookie(t) == IF IsGet(req[t].route) /\ req[t].csrf = None THEN minted + 1 ELSE Keep

\* The answer with the values of vire_session and mcp_session_id it sets.
Answer(t, answer, s, m) ==
  /\ resp' = [resp EXCEPT ![t] = [goto |-> answer.goto, link |-> answer.link, page |-> answer.page,
                                  session |-> s, mcp |-> m, csrf |-> CsrfCookie(t)]]
  /\ minted' = IF CsrfCookie(t) = Keep THEN minted ELSE minted + 1
  /\ stage' = [stage EXCEPT ![t] =
                 IF answer.page # None /\ answer.page.kind \in Portfolios \cup {"users"}
                   THEN "fetch" ELSE "answered"]
  /\ UNCHANGED <<cookies, plan, req, form, pf, role, visits, changes,
                 latest, tangled>>

Untouched == UNCHANGED <<pending, grants, entitled>>

\* The profile a page handler looks up; none for a token without a subject.
Who(t, ok) ==
  IF Claims(t) = None \/ Claims(t).sub = "" \/ ~ok THEN None
  ELSE [role |-> role[Claims(t).sub]]

Lists(t, ok) ==
  IF Claims(t) = None \/ Claims(t).sub = "" \/ ~ok THEN None ELSE pf[Claims(t).sub]

PageAnswer(t, who, list) ==
  LET c == Claims(t)
      r == req[t]
  IN  CASE r.route = "dashboard" -> Dashboard(c, plan.ua, r.link, who, list)
        [] r.route = "mobile" -> MobileDashboard(c, plan.ua, r.link, who, list)
        [] r.route = "cash" -> Cash(c, who, list)
        [] r.route = "strategy" -> Strategy(c, who, list)
        [] r.route = "profile" -> HandleProfile(c, r.csrf, who)
        [] r.route = "users" -> AdminUsers(c, who)
        [] r.route = "help" -> Help(c, who)
        [] r.route = "mcp" -> McpInfo(c, who)
        [] r.route = "docs" -> ServePage(c, who)
        [] r.route = "error" -> ServeErrorPage(c, who)
        [] r.route = "glossary" -> ServeGlossaryPage(c, who)
        [] r.route = "changelog" -> ServeChangelogPage(c, who)

\* A page handler; the lookup and the list may each fail.
HandlePage(t) ==
  /\ stage[t] = "sent"
  /\ req[t].route \in Portfolios \cup Others
  /\ \E known, listed \in {TRUE, ~plan.fails} :
       Answer(t, PageAnswer(t, Who(t, known), Lists(t, listed)), Keep, Keep)
  /\ Untouched

Failures == IF plan.fails THEN {{}, {"portfolio"}} ELSE {}

\* The requests a portfolio page depends on, or the listing of the users page:
\* each is answered or not.
Fetch(t) ==
  /\ stage[t] = "fetch"
  /\ stage' = [stage EXCEPT ![t] = "answered"]
  /\ IF resp[t].page.kind = "users"
       THEN \E parts \in {{<<"users", "">>}} \cup (IF plan.fails THEN {{}} ELSE {}) :
              resp' = [resp EXCEPT ![t].page.parts = parts]
       ELSE \E some \in {Dependents[resp[t].page.kind]} \cup Failures :
              resp' = [resp EXCEPT ![t].page = Fill(resp[t].page, some)]
  /\ UNCHANGED <<cookies, plan, req, form, server, minted, visits, changes, history>>

\* ServeLandingPage clears the session.
HandleLanding(t) ==
  /\ At(t, "landing")
  /\ Answer(t, Render(Page("home", "", "")), None, Keep)
  /\ Untouched

\* CompleteAuthorization, seen from here: a pending session is completed once.
CompleteAuthorization(s, u) ==
  /\ pending' = pending \ {s}
  /\ grants' = grants \cup {[session |-> s, user |-> u]}

\* tryCompleteMCPSession as it would be with the user of the vire_session cookie.
CompleteForCookie(t, token) ==
  /\ req[t].mcp \in pending /\ token.sub # ""
  /\ CompleteAuthorization(req[t].mcp,
       IF req[t].session = None THEN token.sub ELSE req[t].session.sub)

\* tryCompleteMCPSession: the session of the cookie is completed for the token's
\* subject.  It has no effect without a cookie, a subject or a pending session.
tryCompleteMCPSession(t, token) ==
  /\ req[t].mcp \in pending /\ token.sub # ""
  /\ CompleteAuthorization(req[t].mcp, token.sub)

Entitle(u) ==
  entitled' = [s \in Session |-> IF entitled[s] = None THEN None ELSE entitled[s] \cup ({u} \ {""})]

\* LoggedIn as it would be if a failed completion also ended at the client.
LoggedInOrAway(t, token) ==
  /\ Entitle(token.sub)
  /\ \/ /\ tryCompleteMCPSession(t, token)
        /\ Answer(t, Redirect("client", ""), Keep, None)
     \/ /\ ~(req[t].mcp \in pending /\ token.sub # "")
        /\ IF req[t].mcp # None THEN Answer(t, Redirect("client", ""), Keep, None)
           ELSE Answer(t, Redirect("dashboard", ""), token, Keep)
        /\ UNCHANGED <<pending, grants>>

\* After a login: the MCP flow goes on, or the session cookie is set.
LoggedIn(t, token) ==
  /\ Entitle(token.sub)
  /\ \/ /\ tryCompleteMCPSession(t, token)
        /\ Answer(t, Redirect("client", ""), Keep, None)
     \/ /\ ~(req[t].mcp \in pending /\ token.sub # "")
        /\ Answer(t, Redirect("dashboard", ""), token, Keep)
        /\ UNCHANGED <<pending, grants>>

\* HandleLogin: vire-server is not reached, refuses, or answers with a token.
HandleLogin(t) ==
  /\ At(t, "login")
  /\ \/ Answer(t, Redirect("error", ""), Keep, Keep) /\ Untouched
     \/ req[t].token # None /\ LoggedIn(t, req[t].token)

\* proxyOAuthRedirect, and the provider's page the browser is sent to.
proxyOAuthRedirect(t) ==
  /\ At(t, "provider")
  /\ \E to \in {"exchange", "error"} : Answer(t, Redirect(to, ""), Keep, Keep)
  /\ Untouched

\* proxyOAuthCallback passes on whatever vire-server answers: its redirect to
\* /auth/callback, with a token if the login succeeded, or a page of its own.
proxyOAuthCallback(t) ==
  /\ At(t, "exchange")
  /\ \E to \in {"callback", "refused", "error"} : Answer(t, Redirect(to, ""), Keep, Keep)
  /\ Untouched

\* HandleOAuthCallback: the token of the URL is taken as it is, if there is one.
HandleOAuthCallback(t) ==
  /\ At(t, "callback")
  /\ \/ req[t].token = None /\ Answer(t, Redirect("error", ""), Keep, Keep) /\ Untouched
     \/ req[t].token # None /\ LoggedIn(t, req[t].token)

\* HandleLogout.
HandleLogout(t) ==
  /\ At(t, "logout")
  /\ Answer(t, Redirect("landing", ""), None, Keep)
  /\ Untouched

\* HandleAuthorize as it would be if it kept the cookie of an earlier session.
AuthorizeKeeping(t) ==
  LET s == req[t].link
      u == extractSessionUserID(req[t].session)
  IN  /\ At(t, "authorize")
      /\ \/ /\ s \in pending /\ u # ""
            /\ CompleteAuthorization(s, u)
            /\ Answer(t, Redirect("client", ""), Keep, Keep) /\ UNCHANGED entitled
         \/ /\ s \in pending /\ u = ""
            /\ Answer(t, Redirect("landing", ""), Keep, IF req[t].mcp = None THEN s ELSE Keep)
            /\ Untouched

\* HandleAuthorizeResume and setSessionCookieAndRedirect.  Somebody logged in comes
\* to the last case when the session is completed between its two lookups.
HandleAuthorize(t) ==
  LET s == req[t].link
      u == extractSessionUserID(req[t].session)
  IN  /\ At(t, "authorize")
      /\ \/ /\ s \notin pending
            /\ Answer(t, Redirect("refused", ""), Keep, Keep) /\ Untouched
         \/ /\ s \in pending /\ u # ""
            /\ CompleteAuthorization(s, u)
            /\ Answer(t, Redirect("client", ""), Keep, Keep) /\ UNCHANGED entitled
         \/ /\ (s \in pending) = (u = "")
            /\ Answer(t, Redirect("landing", ""), Keep, s) /\ Untouched

\* csrfMiddleware: the token of the form must be that of the cookie.
CsrfOK(t) == req[t].csrf # None /\ req[t].form.token = req[t].csrf

\* HandleSaveProfile: the profile of the caller is saved, or the save fails.
HandleSaveProfile(t) ==
  /\ At(t, "save")
  /\ \/ Answer(t, Redirect("refused", ""), Keep, Keep)
     \/ /\ CsrfOK(t) /\ Claims(t) # None /\ Claims(t).sub # ""
        /\ Answer(t, Redirect("profile", ""), Keep, Keep)
  /\ Untouched

Handle(t) ==
  \/ HandlePage(t) \/ HandleLanding(t) \/ HandleLogin(t) \/ proxyOAuthRedirect(t)
  \/ proxyOAuthCallback(t) \/ HandleOAuthCallback(t) \/ HandleLogout(t)
  \/ HandleAuthorize(t) \/ HandleSaveProfile(t)
-----------------------------------------------------------------------------
(* The browser gets the answer.                                            *)

Set(value, cookie) == IF value = Keep THEN cookie ELSE value

\* Set-Cookie is applied, then the page is shown or the redirect followed.  A
\* redirect to a client leaves the portal; a refusal is an error text.
Deliver(t) ==
  LET a == resp[t]
      s == Set(a.session, session)
      m == Set(a.mcp, mcp)
      c == Set(a.csrf, csrf)
  IN  /\ stage[t] = "answered"
      /\ session' = s /\ mcp' = m /\ csrf' = c
      /\ \/ /\ a.goto \in Route
            /\ Send(t, a.goto, a.link, req[t].typed,
                    IF a.goto \in {"exchange", "callback"} THEN req[t].token ELSE None,
                    None, req[t].abroad \/ a.goto = "exchange", s, m, c)
            /\ UNCHANGED form
         \/ /\ a.goto \notin Route
            /\ form' = [form EXCEPT ![t] = IF a.page = None THEN None ELSE a.page.form]
            /\ stage' = [stage EXCEPT ![t] = "idle"]
            /\ req' = [req EXCEPT ![t] = None]
            /\ resp' = [resp EXCEPT ![t] = None]
            /\ UNCHANGED tangled
      /\ UNCHANGED <<plan, server, minted, visits, changes, grants, entitled, latest>>

\* The answer does not reach the browser, whatever the portal has done.
Lose(t) ==
  /\ stage[t] = "answered"
  /\ stage' = [stage EXCEPT ![t] = "idle"]
  /\ req' = [req EXCEPT ![t] = None]
  /\ resp' = [resp EXCEPT ![t] = None]
  /\ tangled' = TRUE
  /\ UNCHANGED <<cookies, plan, form, server, minted, visits, changes,
                 grants, entitled, latest>>
-----------------------------------------------------------------------------
(* What else happens: time passes, and vire-server's data changes.         *)

Change == changes < plan.changes /\ changes' = changes + 1

Past(token) == IF token = None THEN None ELSE [token EXCEPT !.exp = "past"]

\* The JWT of the session expires.
ExpireToken ==
  /\ Change
  /\ session # None /\ session.exp = "future"
  /\ session' = Past(session)
  /\ req' = [t \in Tab |-> IF Waiting(t) THEN [req[t] EXCEPT !.session = Past(@)] ELSE req[t]]
  /\ UNCHANGED <<mcp, csrf, plan, stage, resp, form, server, minted, visits, history>>

\* A pending authorization becomes ten minutes old.
ExpireSession ==
  /\ Change
  /\ \E s \in pending : pending' = pending \ {s}
  /\ UNCHANGED <<cookies, plan, stage, req, resp, form, pf, role, minted, visits, history>>

\* A default is set, a portfolio comes or goes.
ChangePortfolios ==
  /\ Change
  /\ \E u \in User, h \in plan.held : pf' = [pf EXCEPT ![u] = h] /\ pf' # pf
  /\ UNCHANGED <<cookies, plan, stage, req, resp, form, role, pending, minted, visits, history>>

ChangeRole ==
  /\ Change
  /\ \E u \in User, r \in plan.roles :
       /\ role[u] # r
       /\ role' = [role EXCEPT ![u] = r]
  /\ UNCHANGED <<cookies, plan, stage, req, resp, form, pf, pending, minted, visits, history>>

\* All steps but the delivery of an answer.
Moves ==
  \/ \E t \in Tab : \/ Browse(t) \/ Login(t) \/ LoginAtProvider(t) \/ ReopenCallback(t)
                   \/ Logout(t) \/ SubmitProfile(t)
                   \/ Handle(t) \/ Fetch(t) \/ Lose(t)
  \/ \E t \in Tab, s \in Session : Authorize(t, s)
  \/ ExpireToken \/ ExpireSession \/ ChangePortfolios \/ ChangeRole
-----------------------------------------------------------------------------
\* A code is sent only to a client whose authorization was opened in this browser, and
\* for the subject of the login with which it was opened or of a token that was
\* presented to the portal since: not for somebody whose session had ended before,
\* whatever cookies are left of it (tryCompleteMCPSession, setSessionCookieAndRedirect).
\* A callback presents the token of its URL, which nobody verifies.
GrantedToPresenter ==
  \A g \in grants : entitled[g.session] # None /\ g.user \in entitled[g.session]

\* The authorization opened last is the one that the next login completes: as long
\* as it is pending, mcp_session_id names it, if no other request was under way with
\* its own and no answer was lost.
CompletesLatest ==
  ~tangled /\ latest \in pending /\ (\A t \in Tab : Waiting(t) => req[t].route # "authorize")
    => mcp = latest

\* A login that vire-server accepts leaves the browser logged in, or its pending
\* authorization completed for that person (HandleLogin, HandleOAuthCallback).
LoginEndsWell ==
  [][\A t \in Tab :
       /\ Deliver(t)
       /\ req[t].route \in {"login", "callback"} /\ resp[t].goto # "error"
       => \/ session' = req[t].token
          \/ [session |-> req[t].mcp, user |-> req[t].token.sub] \in grants]_browser

\* No chain of redirects is endless: every request ends with a page.
RedirectsEnd == \A t \in Tab : Waiting(t) ~> ~Waiting(t)
=============================================================================
