SPECIFICATION HistorySpec
CONSTANTS
  Rows = 3
  Columns = 3
  Char = {a, b, high}
  Ascii = {a, b}
  NUL = NUL
  NL = NL
  Strings <- ShortStrings
  MaxText = 8
INVARIANTS
  RowsCanBeDrawn
CHECK_DEADLOCK FALSE
