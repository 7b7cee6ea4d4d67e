-------------------------- MODULE MCResponseCache --------------------------
EXTENDS ResponseCache

\* Every key contains the shorter path; "other" does not contain the longer one.
MCUnder == [p \in Path |-> IF p = "/api/portfolios" THEN Key ELSE {k \in Key : k # "other"}]
=============================================================================
