SPECIFICATION BootSpec
CONSTANTS
  Page <- FivePages
  PoolPages = {3, 4}
  Restless = FALSE
  MapSlots = 5
  KernelPages = {1, 2}
  Failing = {}
  Memories <- RoomyMemory
  Formats = {"RGB", "BGR", "BitMask", "BltOnly"}
  IntModulus = 512
  Wraps = TRUE
  Marks <- SomeMarks
  IndexModulus = 64
  GlyphWidth = 2
  GlyphHeight = 2
  Configs <- SomeConfigs
  BarHeight = 5
  ButtonPart = 5
  IconX = 1
  IconUp = 4
  IconSize = 3
  CursorX = 3
  CursorY = 2
  CursorWidth = 2
  CursorHeight = 3
  CursorShape <- SomeShape
  Rows = 3
  Columns = 4
  Table <- SomeTable
  Text <- SomeText
INVARIANTS
  TypeOK
  KernelHasWriter
PROPERTIES
  OnScreen
  ShowsDesktop
  BootEnds
CHECK_DEADLOCK FALSE
