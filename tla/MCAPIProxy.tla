----------------------------- MODULE MCAPIProxy -----------------------------
EXTENDS APIProxy

\* GET /api/portfolios, and PUT /api/portfolios/default, whose path contains it.
List == "/api/portfolios"

MCContains == [p \in Path |-> IF p = List THEN Path ELSE {p}]

\* Setting the default portfolio changes the default that the list reports.
TouchesList == [p \in Path |-> Path]
=============================================================================
