SPECIFICATION FairSpec
CONSTANTS
  Call = {c1, c2, c3}
  None = None
  MaxOpen = 1
  MaxStmts = 1
  RootInside = FALSE
  AbortOnError = TRUE
INVARIANTS
  NoHoldAndWait
PROPERTIES
  EveryCallEnds
\* The system stops once every call has been made and has ended.
CHECK_DEADLOCK FALSE
