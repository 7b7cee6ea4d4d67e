\* One code and three refresh tokens in its line, two overlapping requests, two
\* restarts; reads may fail, writes are applied.
CONSTANTS
  Code = {c1}
  Token = {t1, t2, t3}
  Req = {r1, r2}
  SaveResults = {TRUE}
  ReadResults = {TRUE, FALSE}
  MaxRestarts = 2
SPECIFICATION EndpointSpec
SYMMETRY Symmetry
INVARIANTS ConsumedOncePerLife RotatedInOneLife
PROPERTY ImplementsSingleUse
CHECK_DEADLOCK FALSE
