SPECIFICATION FairSpec
CONSTANTS
  Bridge = {b1, b2}
  Port = {p1, p2}
  None = None
  Torn = Torn
  MaxLaunches = 2
  MaxCallbacks = 3
INVARIANT PromptsBounded
PROPERTY LaunchEnds
CHECK_DEADLOCK FALSE
