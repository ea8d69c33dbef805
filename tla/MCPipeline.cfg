CONSTANTS
  Sessions = {"s1", "s2"}
  Queries <- MCQueries
  Programs <- MCPrograms
  API <- MCAPI
  Params <- MCParams
  Relation <- MCRelation
  Letter <- MCLetter
  Fields <- MCFields
SPECIFICATION Spec
INVARIANTS
  TypeOK
  DevServesOwnText
  ProdServesOwnText
  MarkersMatchArgs
  ScopesResolve
  FiltersPlaced
  GroupedColumns
PROPERTY
  ImplementsKeys
