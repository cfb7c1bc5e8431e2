SPECIFICATION Spec
CONSTANTS
  Clients = {c1, c2}
  FileNames = {n1}
  NoName = NoName
  Types = {t1, t2}
  NoType = NoType
  Edits = {e1}
  Garbled = TRUE
  MaxETag = 3
  MaxCalls = 4
  MaxAdrift = 1
  Named <- NoneOrBoth
INVARIANTS
  FilesTypeOK
  KnowsOwn
PROPERTIES
  NothingLost
  TypeKept
  ImplementsStore
SYMMETRY Symmetry
