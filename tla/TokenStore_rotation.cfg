\* Three tokens and two overlapping refresh requests, without failures or restarts.
CONSTANTS
  Token = {t1, t2, t3}
  Req = {r1, r2}
  SaveResults = {TRUE}
  ReadResults = {TRUE}
  MaxRestarts = 0
SPECIFICATION TokenSpec
INVARIANT RotatedOnce
CHECK_DEADLOCK FALSE
