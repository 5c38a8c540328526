CONSTANTS
  Patience = 2
  MaxAttempts = 2
  MaxTries = 2
  Account = {"a", "b"}
  AccountType <- MCType
  FileName <- MCFile
  Combined <- MCCombined
  Feed <- MCFeed
  Since = 2
  Ids <- MCIds
  Limit = 2
SPECIFICATION FairSpec
INVARIANTS
  WsTypeOK
  SignInIsTrue
  RowsServedOnce
  HashFitsQuery
  FailureCostsOnlyItself
PROPERTY CallsEnd
CHECK_DEADLOCK FALSE
