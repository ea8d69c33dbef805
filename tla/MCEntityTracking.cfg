SPECIFICATION Spec
CONSTANTS
  Session = {s1, s2}
  Key = {k1, k2}
  Col = {name, meta}
  Ref = {meta}
  Optional = {meta}
  Val = {zero, one}
  Zero = zero
  Default = one
  None = None
  MaxEdits = 3
  ReportsKey = TRUE
SYMMETRY Symmetry
INVARIANTS
  TypeOK
  KeyKnown
  UntouchedInSync
PROPERTIES
  NoClobber
  WriteCarriesAll
