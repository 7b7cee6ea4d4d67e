---------------------------- MODULE MCToolCall ------------------------------
(* Two builds of vire-server.  The first offers a tool with a defaulted path *)
(* parameter, an invalid and a duplicate entry, and one named get_version;  *)
(* the second changes that tool, and its other entries are invalid.         *)
EXTENDS ToolCall

portfolio == [name |-> "portfolio", at |-> "path", required |-> TRUE, text |-> TRUE,
              default |-> TRUE]
ticker == [name |-> "ticker", at |-> "path", required |-> TRUE, text |-> TRUE,
           default |-> FALSE]
limit == [name |-> "limit", at |-> "query", required |-> FALSE, text |-> FALSE,
          default |-> FALSE]
note == [name |-> "note", at |-> "body", required |-> FALSE, text |-> TRUE,
         default |-> FALSE]

Entry(n, m, p, holes, params) ==
  [name |-> n, method |-> m, path |-> p, holes |-> holes, params |-> params]

MCOffer ==
  << << Entry("show", "TRACE", "api", {}, <<>>),
        Entry("show", "GET", "api", {"portfolio"}, <<portfolio, limit>>),
        Entry("show", "POST", "api", {}, <<note>>),
        Entry("get_version", "GET", "api", {}, <<>>) >>,
     << Entry("show", "POST", "api", {"portfolio", "ticker"}, <<portfolio, ticker, note>>),
        Entry("", "GET", "api", {}, <<>>),
        Entry("add", "PUT", "dots", {}, <<>>) >> >>

ann == [sub |-> "ann", signed |-> TRUE, exp |-> "future"]
late == [sub |-> "ann", signed |-> TRUE, exp |-> "past"]
bea == [sub |-> "bea", signed |-> TRUE, exp |-> "future"]
fake == [sub |-> "bea", signed |-> FALSE, exp |-> "none"]

MCToken == {ann, late, bea, fake}
MCCredentials == {<<None, None>>, <<ann, bea>>, <<late, bea>>, <<None, fake>>}
MCConfig == {<<TRUE, TRUE, "">>, <<FALSE, FALSE, "main">>}
MCUser == {"ann", "bea"}
MCText == {"", "x"}
MCName == {"show", "get_version", "portal_get_page", "unknown"}
MCArgs == {[ticker |-> "x", limit |-> Nil], [portfolio |-> "x", ticker |-> ""]}
MCPortfolio == {"main"}
=============================================================================
