SPECIFICATION Spec
CONSTANTS
  Key = {"a", "b", "other"}
  Val = {v1, v2}
  Path = {"/api/portfolios", "/api/portfolios/SMSF"}
  Under <- MCUnder
  Miss = Miss
  MaxEntries = 2
  Reader = {r1, r2}
  MaxSets = 4
INVARIANT Bounded
PROPERTIES FreshStays KeepsContract
CHECK_DEADLOCK FALSE
