SPECIFICATION McpSpec
CONSTANTS
  Offer <- MCOffer
  Local = Local
  Retries = 1
  MaxOutages = 1
  User <- MCUser
  Token <- MCToken
  Credentials <- MCCredentials
  Config <- MCConfig
  Text <- MCText
  Portfolio <- MCPortfolio
  Name <- MCName
  Args <- MCArgs
  Nil = Nil
  Absent = Absent
  None = None
  LoopbackTimeout = 1
  LoopbackTTL = 2
INVARIANTS OneBuild IdentityProven NoPlaceholderSent DefaultIsCallers PageIsCallers
PROPERTY CatalogCatchesUp
CHECK_DEADLOCK FALSE
