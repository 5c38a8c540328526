CONSTANTS
  Patience = 3
  Grace = 2
  ClearBy = 1
  MaxAttempts = 2
  MaxTries = 2
  Tables <- MCTables
  Slug <- MCSlug
  Since = 2
  Today = 3
  Rounds = 3
  Still = 1
SPECIFICATION Spec
INVARIANT ShortfallIsNoted
CHECK_DEADLOCK FALSE
