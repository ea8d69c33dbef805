SPECIFICATION Spec
CONSTANTS
  a = a
  c = c
  x = x
  y = y
  tags = tags
  Col = {a, c}
  Val = {x, y}
  Null = Null
  Keep = Keep
  Related = {tags}
  Calls <- FaithfulCalls
  MaxForeign = 1
INVARIANTS
  TypeOK
  OneArmPerRow
  UpdateFollowsGo
  PredicateFollowsGo
  NullNeverGuessed
\* The system stops when the call has ended.
CHECK_DEADLOCK FALSE
