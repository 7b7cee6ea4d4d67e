SPECIFICATION FairSpec
CONSTANTS
  User = {u1}
  Path = {"/api/portfolios", "/api/portfolios/default"}
  Contains <- MCContains
  Touches <- TouchesList
  Req = {r1, r2}
  Answered = {TRUE, FALSE}
  MaxWrites = 1
  Miss = Miss
INVARIANT NoStaleHit
PROPERTY EventuallyCurrent
CHECK_DEADLOCK FALSE
