SPECIFICATION Spec
CONSTANTS
  a = a
  c = c
  x = x
  y = y
  tags = tags
  Col = {a, c}
  Val = {x, y}
  Null = Null
  Keep = Keep
  Related = {tags}
  Calls <- GuardedDeletes
  MaxForeign = 0
\* The system stops when the call has ended.
CHECK_DEADLOCK FALSE
INVARIANTS
  RejectedRowsStayOut
