\* One client with two redirect URIs and two sessions, two overlapping requests and a
\* restart; the backend answers every read and applies every write.
CONSTANTS
  Client = {a}
  App = {a}
  URI = {u1, u2}
  Session = {s1, s2}
  Req = {r1, r2}
  SaveResults = {TRUE}
  ReadResults = {TRUE}
  MaxRestarts = 1
SPECIFICATION AuthorizeSpec
SYMMETRY Symmetry
INVARIANTS RegistrationKept SessionsMatchRegistration CompletedInOneLife
CHECK_DEADLOCK FALSE
