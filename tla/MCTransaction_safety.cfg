SPECIFICATION Spec
CONSTANTS
  Call = {c1, c2, c3}
  None = None
  MaxOpen = 2
  MaxStmts = 2
  RootInside = TRUE
  AbortOnError = TRUE
SYMMETRY CallSymmetry
INVARIANTS
  TypeOK
  ConnAccounting
  ExhaustionNeedsOuterEngine
  AllOrNothing
  OutcomeReported
PROPERTIES
  OpenerCommits
  AtomicTransactions
\* The system stops once every call has been made and has ended.
CHECK_DEADLOCK FALSE
