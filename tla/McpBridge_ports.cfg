SPECIFICATION FairSpec
CONSTANTS
  Bridge = {b1}
  Port = {p1, p2}
  None = None
  Torn = Torn
  MaxLaunches = 1
  MaxCallbacks = 1
INVARIANT GrantDelivered
CHECK_DEADLOCK FALSE
