CONSTANTS
  f1 = f1
  f2 = f2
  File <- MCFile
  Settle = 1
  IncompleteSettle = 2
  Timeout = 5
  MaxSize = 2
SPECIFICATION FairSpec
INVARIANT ReportIsSettled
PROPERTY WaitEnds
CHECK_DEADLOCK FALSE
