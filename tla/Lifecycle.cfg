SPECIFICATION LifeSpec
CONSTANTS
  Entry = {e1, e2, e3}
  Sender = {s1, s2}
  Main = Main
  FlushSize = 2
  MaxBatch = 1
  Bad = Bad
  NotANumber = NotANumber
  None = None
  Source <- MCSource
  Request = {r1}
  MaxShutdowns = 2
INVARIANTS InOnePlace SettingsAsTold OnlyInFlightLost RequestsAnswered
PROPERTIES EventuallyPosted ShutdownHonoured
CHECK_DEADLOCK FALSE
