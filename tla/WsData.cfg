CONSTANTS
  Todays <- MCTodays
  Graphs <- MCGraphs
  Windows <- MCWindows
  Meanings <- MCMeanings
  MaxRows = 3
SPECIFICATION DataSpec
INVARIANTS
  WindowFitsChoice
  LinesAddUp
  ReadAsMeant
CHECK_DEADLOCK FALSE
