CONSTANTS
  p1 = p1
  p2 = p2
  t1 = t1
  t2 = t2
  t3 = t3
  b1 = b1
  b2 = b2
  Nobody = Nobody
  Process <- MCProcess
  Thread <- MCThread
  Home <- MCHome
  Bank <- MCBank
  EnvBank <- MCEnvBank
  MaxCalls = 3
SPECIFICATION Spec
INVARIANTS
  TypeOK
  SavesSurvive
  KeyFits
PROPERTY LoginIsRight
CHECK_DEADLOCK FALSE
