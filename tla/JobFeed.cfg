CONSTANTS
  Kinds <- MCKinds
  MaxProgress = 1
SPECIFICATION FairSpec
INVARIANTS
  TypeOK
  SettledIsTrue
PROPERTY PageLearnsTheEnd
CHECK_DEADLOCK FALSE
