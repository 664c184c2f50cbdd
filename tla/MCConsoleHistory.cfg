SPECIFICATION HistorySpec
CONSTANTS
  Rows = 3
  Columns = 3
  Char = {a, b, high}
  Ascii = {a, b}
  NUL = NUL
  NL = NL
  Strings <- ShortStrings
  MaxText = 8
INVARIANTS
  TypeOK
  RowsTerminated
  CursorAtEnd
  ScreenShowsBuffer
  ShowsText
  HaltsAtLastRow
PROPERTIES
  PutStringEnds
CHECK_DEADLOCK FALSE
