SPECIFICATION Spec
CONSTANTS
  s1 = s1
  s2 = s2
  Sessions <- MCSessions
  Parents = {p1, p2}
  Targets = {t1, t2}
  Kinds <- MCKinds
  Nil = Nil
  Absent = Absent
  MaxReads <- MCMaxReads
  MaxRows <- MCMaxRows
  MaxTroubles = 1
SYMMETRY Symmetry
CHECK_DEADLOCK FALSE
INVARIANTS
  TypeOK
PROPERTIES
  PreloadWithinInterval
  RoundTrip
  CommittedIsListed
