CONSTANTS
  e1 = e1
  e2 = e2
  f1 = f1
  f2 = f2
  Nobody = Nobody
  Export <- MCExport
  File <- MCFile
  Ttl = 1
  MaxClock = 2
SPECIFICATION Spec
INVARIANTS
  TypeOK
  ServedIsWhole
  AvailableForTtl
  NothingPilesUp
CHECK_DEADLOCK FALSE
