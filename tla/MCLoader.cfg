SPECIFICATION Spec
CONSTANTS
  Page <- FivePages
  PoolPages <- FivePages
  Restless = TRUE
  MapSlots = 4
  KernelPages = {1, 2}
  Failing <- AnyCall
  Memories <- AnyMemory
  Formats = {"RGB", "BGR", "BitMask", "BltOnly"}
INVARIANTS
  TypeOK
  CopyIsSafe
  Handover
  StrayOnlyForFormat
PROPERTIES
  LoaderEnds
CHECK_DEADLOCK FALSE
