SPECIFICATION Spec
CONSTANTS
  Modulus = 32
  PageSize = 4
  EntryOffset = 1
  Files <- SomeFiles
  Frees <- SomeFrees
INVARIANTS
  TypeOK
  InsidePages
  Loaded
  EntryIsElfEntry
PROPERTIES
  LoadableIsLoaded
CHECK_DEADLOCK FALSE
