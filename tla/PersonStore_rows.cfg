SPECIFICATION Spec
CONSTANTS
  Obj = {p1}
  People <- SomePeople
  Cap0 = 1
  MaxId = 2
  NoPerson = NoPerson
  NoRow = NoRow
CHECK_DEADLOCK FALSE
INVARIANTS
  VersionsTellBuffers
  WholeRows
PROPERTY
  IdsAreIssuedOnce
