SPECIFICATION Spec
CONSTANTS
  NumBus = 2
  NumDevice = 2
  NumFunction = 2
  Capacity = 4
  ConfigSpaces <- Small
  Rows = 6
  Columns = 2
  CursorRows = {3, 4}
INVARIANTS
  ScreenIsReport
  EveryFunctionShown
  StopsWhenScreenFull
PROPERTIES
  ComesToRest
CHECK_DEADLOCK FALSE
