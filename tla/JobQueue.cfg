CONSTANTS
  j1 = j1
  j2 = j2
  NoJob = NoJob
  Job <- MCJob
  Blocking <- MCBlocking
  MaxProgress = 1
SPECIFICATION FairSpec
INVARIANTS
  TypeOK
  OneAtATime
  RunsInOrder
  OnlyOneFindsItIdle
  UnfinishedIsListed
  AnswersAreTrue
PROPERTIES
  FinishedIsFinal
  AcceptedJobsFinish
  ImplementsLifecycle
CHECK_DEADLOCK FALSE
