CONSTANTS
  nbc = nbc
  ws = ws
  login1 = login1
  login2 = login2
  verify1 = verify1
  export1 = export1
  Nobody = Nobody
  Bank <- MCBank
  Login <- MCLogin
  Verify <- MCVerify
  Export <- MCExport
SPECIFICATION FairSpec
INVARIANTS
  TypeOK
  OneBrowser
  UsesOwnLiveBrowser
  NoLostBrowser
PROPERTY JobsEnd
CHECK_DEADLOCK FALSE
