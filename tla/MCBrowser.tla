----------------------------- MODULE MCBrowser -----------------------------
(* Two people who share a browser with two tabs: MCP clients are authorized *)
(* while they log in and out, profiles are edited, pages are looked at.     *)
EXTENDS Scripts

Ann == [sub |-> "ann", signed |-> TRUE, exp |-> "future"]
Bob == [sub |-> "bob", signed |-> TRUE, exp |-> "future"]
Nobody == [sub |-> "", signed |-> FALSE, exp |-> "future"]

Expired == [Bob EXCEPT !.exp = "past"]

MCIssued == {Ann, Bob, Nobody}
MCReopened == {Ann, Expired}

Names == {"", "main", "c", "c#1", "a%20b", "a b", "50%"}
MCUnescape == [n \in Names |-> IF n = "50%" THEN Bad ELSE IF n = "a%20b" THEN "a b" ELSE n]
MCInURL == [n \in Names |-> IF n = "c#1" THEN "c" ELSE n]
MCEscaped == {"c#1", "a%20b", "a b", "50%"}
MCHeld == {[names |-> <<"a b", "main">>, default |-> ""],
           [names |-> <<"main", "a%20b", "a b">>, default |-> "a b"]}

Idle == [routes |-> {}, links |-> {""}, start |-> {None}, visits |-> 2, changes |-> 0,
         ua |-> {}, header |-> None, secret |-> TRUE, csrf |-> TRUE, logins |-> {},
         reopened |-> {},
         held |-> {CHOOSE h \in MCHeld : TRUE}, roles |-> {"user"}, fails |-> FALSE,
         tabs |-> Tab, clicks |-> 0, quiet |-> FALSE, versions |-> 0]

Authorizing == [Idle EXCEPT !.routes = {"authorize", "login"}, !.logins = {Bob},
                  !.start = {None, Ann}, !.visits = 3]
Expiring == [Authorizing EXCEPT !.visits = 2, !.changes = 1]
Provider == [Idle EXCEPT !.routes = {"authorize", "provider"}, !.secret = FALSE,
                  !.start = {Nobody}, !.logins = {Bob, Nobody, None}]
Reopening == [Authorizing EXCEPT !.routes = {"authorize", "callback"}, !.start = {Ann},
                  !.reopened = {Expired, None}]
Editing == [Idle EXCEPT !.routes = {"profile", "provider", "save"}, !.start = {Ann},
              !.csrf = FALSE, !.logins = {Bob}]
Testing == [Editing EXCEPT !.routes = {"profile", "save", "login", "logout"}, !.csrf = TRUE,
              !.header = Bob, !.logins = {None}]
Looking == [Idle EXCEPT !.routes = {"dashboard", "mobile", "cash", "strategy"},
              !.held = {h \in MCHeld : h.default # ""},
              !.links = {"main", "a%20b", "50%"}, !.start = {Ann}, !.fails = TRUE]
Undecided == [Looking EXCEPT !.held = {h \in MCHeld : h.default = ""}, !.links = {"a%20b"}]
Phoning == [Idle EXCEPT !.routes = {"dashboard", "users"}, !.ua = {"iphone", "mobile"},
              !.links = {"main", "50%"}, !.start = {None, Ann}, !.changes = 1,
              !.roles = {"user", "admin"}]
Linking == [Phoning EXCEPT !.routes = {"dashboard"}, !.links = {"main", "c#1"},
              !.start = {Ann}, !.visits = 1, !.changes = 0, !.roles = {"user"}, !.fails = TRUE,
              !.tabs = {CHOOSE t \in Tab : TRUE}, !.clicks = 1]
Reading == [Idle EXCEPT !.routes = Others \cup {"landing"}, !.start = {None, Ann},
              !.held = MCHeld, !.visits = 1, !.changes = 1, !.fails = TRUE]
Hurrying == [Idle EXCEPT !.routes = {"dashboard"}, !.start = {Ann}, !.visits = 1,
               !.links = {"main"}, !.tabs = {CHOOSE t \in Tab : TRUE}, !.clicks = 2, !.versions = 1]
Failing == [Hurrying EXCEPT !.routes = {"dashboard", "cash", "strategy"}, !.versions = 0,
              !.fails = TRUE]
Returning == [Hurrying EXCEPT !.routes = {"mobile", "cash"}, !.clicks = 3, !.quiet = TRUE,
                !.fails = TRUE]

MCPlans == {Authorizing, Expiring, Provider, Reopening, Editing, Testing, Looking, Undecided,
            Phoning, Linking, Reading, Hurrying, Failing, Returning}
=============================================================================
