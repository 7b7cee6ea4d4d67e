CONSTANTS
  Tab = {t1, t2}
  User = {"ann", "bob"}
  Session = {"s1", "s2"}
  None = None
  Bad = Bad
  Keep = Keep
  Unescape <- MCUnescape
  InURL <- MCInURL
  Escaped <- MCEscaped
  Issued <- MCIssued
  Reopened <- MCReopened
  Held <- MCHeld
  Plans <- MCPlans
SPECIFICATION Spec
INVARIANTS GrantedToPresenter CompletesLatest LinkHonoured ShowsSelected FreshAfterRefresh DefaultAsSaved
PROPERTIES LoginEndsWell RedirectsEnd LoadingEnds
CHECK_DEADLOCK FALSE
