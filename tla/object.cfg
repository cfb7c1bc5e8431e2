SPECIFICATION Spec
CONSTANTS
  Copies = {c1, c2}
  ObjectIds = {o1, o2}
  NoId = NoId
  Edits = {e1}
  Offered <- Operations
  Projections <- PartOfThem
  Garbled = TRUE
  MaxETag = 3
  MaxCalls = 4
INVARIANTS
  TypeOK
  CreatedOnce
  KnowsOwn
  CopyIsOne
PROPERTIES
  NothingLost
  ImplementsStore
SYMMETRY Symmetry
