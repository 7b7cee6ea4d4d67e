\* Two sessions of one client, one request at a time and a restart; the backend never fails.
CONSTANTS
  Session = {s1, s2}
  App = {a}
  Req = {r1}
  SaveResults = {TRUE}
  ReadResults = {TRUE}
  MaxRestarts = 1
SPECIFICATION SessionSpec
PROPERTY MostRecentFound
CHECK_DEADLOCK FALSE
