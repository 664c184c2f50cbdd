--------------------------- MODULE ConsoleProofs ---------------------------
(***************************************************************************)
(* The console, for every size and all strings: its rows stay C strings,   *)
(* the cursor stays at the end of the text, the screen shows the buffer    *)
(* until the first scroll, and that one halts the machine.                 *)
(*                                                                         *)
(* RowsTerminated says that no byte after a NUL is a character; the proofs *)
(* need to know that a row has a first NUL.  Texts adds where it is.       *)
(***************************************************************************)
EXTENDS ConsoleHistory, Integers, FiniteSetTheorems, SequenceTheorems, TLAPS

Bytes == Char \union {NUL}

\* The first n bytes of a row are characters, and no other.
IsText(row, n) ==
  /\ \A j \in 0 .. n - 1 : row[j] # NUL
  /\ \A j \in n .. Columns : row[j] = NUL

Texts ==
  /\ \A row \in Row : \E n \in Column : IsText(buffer[row], n)
  /\ pc # "Halted" => /\ IsText(buffer[cursor_row], cursor_column)
                      /\ \A row \in Row : row > cursor_row => buffer[row] = EmptyRow

IInv == TypeOK /\ Texts /\ ScreenShowsBuffer

USE ConsoleSize, ConsoleText

-----------------------------------------------------------------------------
(***************************************************************************)
(* Rows                                                                    *)
(***************************************************************************)

\* StrLen (font.cc's string_view of a row) is the number of characters.
LEMMA LengthOfText ==
  ASSUME NEW row, NEW n \in Column, IsText(row, n)
  PROVE  StrLen(row) = n
<1> DEFINE P(k) == row[k] = NUL /\ \A j \in 0 .. k - 1 : row[j] # NUL
<1>1. n \in 0 .. Columns /\ P(n)
  BY DEF IsText, Column
<1>2. ASSUME NEW k \in 0 .. Columns, P(k) PROVE k = n
  <2>1. CASE k < n
    <3>1. k \in 0 .. n - 1
      BY <2>1 DEF Column
    <3> QED BY <3>1, <1>2 DEF IsText
  <2>2. CASE n < k
    <3>1. n \in 0 .. k - 1
      BY <2>2 DEF Column
    <3> QED BY <3>1, <1>1, <1>2
  <2> QED BY <2>1, <2>2 DEF Column
<1> QED BY <1>1, <1>2 DEF StrLen

\* A blank row (console.cc's memset) has no character and shows none.
LEMMA BlankText ==
  /\ EmptyRow \in [0 .. Columns -> Bytes]
  /\ 0 \in Column /\ IsText(EmptyRow, 0)
  /\ WriteString(EmptyRow) = BlankRow
<1>1. EmptyRow \in [0 .. Columns -> Bytes]
  BY DEF EmptyRow, Bytes
<1>2. 0 \in Column /\ IsText(EmptyRow, 0)
  BY DEF EmptyRow, Column, IsText
<1>3. StrLen(EmptyRow) = 0
  BY <1>2, LengthOfText
<1> QED BY <1>1, <1>2, <1>3 DEF WriteString, BlankRow, Column

\* What WriteString draws are cells with characters that have a glyph.
LEMMA DrawnCells ==
  ASSUME NEW row \in [0 .. Columns -> Bytes]
  PROVE  WriteString(row) \in [Column -> SUBSET Ascii]
BY DEF WriteString, WriteAscii, HasGlyph

\* The loop of WriteString does not return from a row that is a C string.
LEMMA NeverReturns ==
  ASSUME NEW row, NEW n \in Column, IsText(row, n)
  PROVE  ~WriteStringReturns(row)
BY LengthOfText DEF WriteStringReturns, IsText

-----------------------------------------------------------------------------
(***************************************************************************)
(* The first state, and steps that leave the rows alone                    *)
(***************************************************************************)
LEMMA InitRight == Init => IInv
<1> SUFFICES ASSUME Init PROVE IInv
  OBVIOUS
<1>1. 0 \in Row /\ 0 \in Column /\ Row \subseteq Int
  BY DEF Row, Column
<1>2. TypeOK
  <2>1. BlankRow \in [Column -> SUBSET Ascii]
    BY DEF BlankRow
  <2> QED BY <1>1, <2>1, BlankText DEF Init, TypeOK, Bytes
<1>3. Texts
  BY <1>1, BlankText DEF Init, Texts
<1>4. ScreenShowsBuffer
  BY BlankText DEF Init, ScreenShowsBuffer
<1> QED BY <1>2, <1>3, <1>4 DEF IInv

\* The part of the invariant about the text depends on nothing else.
LEMMA TextUnchanged ==
  ASSUME IInv, UNCHANGED <<buffer, cursor_row, cursor_column, screen>>,
         pending' \in Seq(Char \union {NL}), pc' \in {"Idle", "PutString"}, pc # "Halted"
  PROVE  IInv'
BY DEF IInv, TypeOK, Texts, ScreenShowsBuffer, IsText

\* The loop of PutString keeps to its string.
LEMMA TakeType ==
  ASSUME TypeOK, NEW ch, Take(ch)
  PROVE  pending' \in Seq(Char \union {NL}) /\ pc = "PutString"
BY DEF TypeOK, Take

-----------------------------------------------------------------------------
(***************************************************************************)
(* PutChar                                                                 *)
(***************************************************************************)

\* A character put after the last one of a row.
LEMMA TextGrows ==
  ASSUME NEW row \in [0 .. Columns -> Bytes], NEW n \in Column, IsText(row, n),
         n < Columns - 1, NEW ch \in Char
  PROVE  LET longer == [row EXCEPT ![n] = ch]
             cells  == [WriteString(row) EXCEPT ![n] = WriteAscii(@, ch)]
         IN  /\ longer \in [0 .. Columns -> Bytes]
             /\ n + 1 \in Column /\ IsText(longer, n + 1)
             /\ WriteString(longer) = cells
<1> DEFINE longer == [row EXCEPT ![n] = ch]
           cells  == [WriteString(row) EXCEPT ![n] = WriteAscii(@, ch)]
<1>0. n \in 0 .. Columns /\ n \in Int /\ n + 1 \in Column /\ ch # NUL
  BY DEF Column
<1>1. longer \in [0 .. Columns -> Bytes]
  BY <1>0 DEF Bytes
<1>2. longer[n] = ch /\ \A j \in 0 .. Columns : j # n => longer[j] = row[j]
  BY <1>0
<1>3. IsText(longer, n + 1)
  <2>1. ASSUME NEW j \in 0 .. n + 1 - 1 PROVE longer[j] # NUL
    <3>1. j = n \/ j \in 0 .. n - 1
      BY <1>0
    <3>2. j \in 0 .. Columns
      BY <1>0 DEF Column
    <3> QED BY <3>1, <3>2, <1>2, <1>0 DEF IsText
  <2>2. ASSUME NEW j \in n + 1 .. Columns PROVE longer[j] = NUL
    <3>1. j \in n .. Columns /\ j \in 0 .. Columns /\ j # n
      BY <1>0 DEF Column
    <3> QED BY <3>1, <1>2 DEF IsText
  <2> HIDE DEF longer
  <2> QED BY <2>1, <2>2 DEF IsText
<1>4. StrLen(row) = n
  BY LengthOfText
<1>5. StrLen(longer) = n + 1
  <2> HIDE DEF longer
  <2> QED BY <1>0, <1>3, LengthOfText
<1>6. WriteString(row) = [j \in Column |-> IF j < n THEN WriteAscii({}, row[j]) ELSE {}]
  BY <1>4 DEF WriteString
<1>7. WriteString(longer) = [j \in Column |-> IF j < n + 1 THEN WriteAscii({}, longer[j]) ELSE {}]
  <2> HIDE DEF longer
  <2> QED BY <1>5 DEF WriteString
<1>8. ASSUME NEW j \in Column PROVE WriteString(longer)[j] = cells[j]
  <2>0. j \in 0 .. Columns /\ j \in Int
    BY DEF Column
  <2> HIDE DEF longer
  <2>1. CASE j = n
    <3>1. WriteString(row)[n] = {}
      BY <1>0, <1>6
    <3>2. cells[n] = WriteAscii({}, ch)
      BY <3>1, <1>6
    <3> QED BY <2>1, <3>2, <1>0, <1>2, <1>7
  <2>2. CASE j # n
    <3>1. cells[j] = WriteString(row)[j]
      BY <2>2, <1>6
    <3>2. j < n <=> j < n + 1
      BY <2>2, <2>0, <1>0
    <3> QED BY <2>0, <2>2, <3>1, <3>2, <1>2, <1>6, <1>7
  <2> QED BY <2>1, <2>2
<1>9. WriteString(longer) = cells
  <2>1. cells = [j \in Column |-> cells[j]]
    BY <1>6
  <2>2. WriteString(longer) = [j \in Column |-> WriteString(longer)[j]]
    BY <1>7
  <2> HIDE DEF longer, cells
  <2> QED BY <2>1, <2>2, <1>8
<1> QED BY <1>0, <1>1, <1>3, <1>9

\* Only the row of the cursor changes, in the buffer and on the screen.
LEMMA PutCharRight == ASSUME IInv, PutChar PROVE IInv'
<1> DEFINE r == cursor_row
           n == cursor_column
<1>1. PICK ch \in Char :
        /\ Take(ch)
        /\ n < Columns - 1
        /\ screen' = [screen EXCEPT ![r][n] = WriteAscii(@, ch)]
        /\ buffer' = [buffer EXCEPT ![r][n] = ch]
  BY DEF PutChar
<1>2. /\ pc = "PutString" /\ pc' = "PutString"
      /\ pending' \in Seq(Char \union {NL})
      /\ cursor_row' = r /\ cursor_column' = n + 1
  BY <1>1, TakeType DEF PutChar, IInv
<1>3. r \in Row /\ n \in Column /\ buffer \in [Row -> [0 .. Columns -> Bytes]]
  BY DEF IInv, TypeOK, Bytes
<1>4. IsText(buffer[r], n) /\ screen[r] = WriteString(buffer[r])
  BY <1>2, <1>3 DEF IInv, Texts, ScreenShowsBuffer
<1> DEFINE longer == [buffer[r] EXCEPT ![n] = ch]
           cells  == [WriteString(buffer[r]) EXCEPT ![n] = WriteAscii(@, ch)]
<1>5. /\ longer \in [0 .. Columns -> Bytes]
      /\ n + 1 \in Column /\ IsText(longer, n + 1)
      /\ WriteString(longer) = cells
  <2> DEFINE b == buffer[r]
  <2>1. b \in [0 .. Columns -> Bytes] /\ IsText(b, n) /\ n < Columns - 1 /\ n \in Column
    BY <1>1, <1>3, <1>4
  <2> HIDE DEF b
  <2>2. LET l == [b EXCEPT ![n] = ch]
            d == [WriteString(b) EXCEPT ![n] = WriteAscii(@, ch)]
        IN  /\ l \in [0 .. Columns -> Bytes]
            /\ n + 1 \in Column /\ IsText(l, n + 1)
            /\ WriteString(l) = d
    BY ONLY <2>1, <1>1, TextGrows
  <2> QED BY <2>2 DEF b
<1>6. buffer' = [buffer EXCEPT ![r] = longer]
  BY <1>1
<1>7. screen' = [screen EXCEPT ![r] = cells]
  BY <1>1, <1>4
<1> HIDE DEF longer, cells
<1>8. buffer'[r] = longer /\ \A row \in Row : row # r => buffer'[row] = buffer[row]
  BY <1>3, <1>6
<1>9. screen \in [Row -> [Column -> SUBSET Ascii]]
  BY DEF IInv, TypeOK
<1>10. screen'[r] = cells /\ \A row \in Row : row # r => screen'[row] = screen[row]
  BY <1>3, <1>7, <1>9
<1>11. TypeOK'
  <2>1. buffer' \in [Row -> [0 .. Columns -> Bytes]]
    BY <1>3, <1>5, <1>6
  <2>2. cells \in [Column -> SUBSET Ascii]
    BY <1>5, DrawnCells
  <2>3. screen' \in [Row -> [Column -> SUBSET Ascii]]
    BY <1>7, <1>9, <2>2
  <2> QED BY <1>2, <1>3, <1>5, <2>1, <2>3 DEF TypeOK, Bytes
<1>12. Texts'
  <2>1. ASSUME NEW row \in Row PROVE \E k \in Column : IsText(buffer'[row], k)
    BY <1>5, <1>8 DEF IInv, Texts
  <2>2. ASSUME NEW row \in Row, row > r PROVE buffer'[row] = EmptyRow
    BY <2>2, <1>2, <1>3, <1>8 DEF IInv, Texts, Row
  <2> QED BY <1>2, <1>5, <1>8, <2>1, <2>2 DEF Texts, IsText
<1>13. ScreenShowsBuffer'
  <2>1. ASSUME NEW row \in Row PROVE screen'[row] = WriteString(buffer'[row])
    BY <1>2, <1>5, <1>8, <1>10 DEF IInv, ScreenShowsBuffer
  <2> QED BY <2>1 DEF ScreenShowsBuffer
<1> QED BY <1>11, <1>12, <1>13 DEF IInv

-----------------------------------------------------------------------------
(***************************************************************************)
(* Lines                                                                   *)
(***************************************************************************)

\* The row below the cursor is blank, so the cursor is at the end of its text.
LEMMA NewLineRight == ASSUME IInv, NewLine PROVE IInv'
<1>1. /\ pc = "PutString" /\ pc' = "PutString"
      /\ pending' \in Seq(Char \union {NL})
      /\ cursor_row < Rows - 1 /\ cursor_row' = cursor_row + 1 /\ cursor_column' = 0
      /\ UNCHANGED <<buffer, screen>>
  BY TakeType DEF NewLine, IInv
<1>2. cursor_row \in Row /\ cursor_row + 1 \in Row
  BY <1>1 DEF IInv, TypeOK, Row
<1>3. TypeOK'
  BY <1>1, <1>2, BlankText DEF IInv, TypeOK
<1>4. Texts'
  <2>1. \A row \in Row : row > cursor_row => buffer[row] = EmptyRow
    BY <1>1 DEF IInv, Texts
  <2>2. IsText(buffer[cursor_row + 1], 0)
    BY <1>2, <2>1, BlankText DEF Row
  <2>3. ASSUME NEW row \in Row, row > cursor_row + 1 PROVE buffer[row] = EmptyRow
    BY <1>2, <2>1, <2>3 DEF Row
  <2>4. \A row \in Row : \E k \in Column : IsText(buffer[row], k)
    BY DEF IInv, Texts
  <2> QED BY <1>1, <2>2, <2>3, <2>4 DEF Texts, IsText
<1>5. ScreenShowsBuffer'
  BY <1>1 DEF IInv, ScreenShowsBuffer
<1> QED BY <1>3, <1>4, <1>5 DEF IInv

\* The rows of a scroll: those that have been redrawn were below them before.
LEMMA Moved ==
  ASSUME NEW row \in Redrawn
  PROVE  row \in Row /\ row + 1 \in Row /\ row # Rows - 1
BY DEF Redrawn, Row

LEMMA ScrollRight == ASSUME IInv, Scroll PROVE IInv'
<1>1. /\ pending' \in Seq(Char \union {NL}) /\ pc = "PutString"
      /\ cursor_row >= Rows - 1 /\ cursor_row' = cursor_row /\ cursor_column' = 0
      /\ pc' = IF AllRedrawn THEN pc ELSE "Halted"
  BY TakeType DEF Scroll, IInv
<1>2. buffer' = [row \in Row |-> IF row \in Redrawn THEN buffer[row + 1]
                                 ELSE IF AllRedrawn THEN EmptyRow ELSE buffer[row]]
  BY DEF Scroll
<1>3. screen' = [row \in Row |-> IF row \in Redrawn THEN WriteString(buffer[row + 1])
                                 ELSE BlankRow]
  BY DEF Scroll
<1>4. buffer \in [Row -> [0 .. Columns -> Bytes]]
  BY DEF IInv, TypeOK, Bytes
<1>5. cursor_row \in Row /\ cursor_row = Rows - 1
  BY <1>1 DEF IInv, TypeOK, Row
<1>6. AllRedrawn => Redrawn = 0 .. Rows - 2
  <2>1. ASSUME AllRedrawn, NEW row \in 0 .. Rows - 2 PROVE row \in Redrawn
    <3>1. ASSUME NEW k \in 0 .. row - 1 PROVE WriteStringReturns(buffer[k + 1])
      BY <2>1 DEF AllRedrawn
    <3> QED BY <3>1 DEF Redrawn
  <2> QED BY <2>1 DEF Redrawn
<1>7. TypeOK'
  <2>1. buffer' \in [Row -> [0 .. Columns -> Bytes]]
    BY <1>2, <1>4, Moved, BlankText
  <2>2. screen' \in [Row -> [Column -> SUBSET Ascii]]
    <3>1. ASSUME NEW row \in Redrawn
          PROVE  WriteString(buffer[row + 1]) \in [Column -> SUBSET Ascii]
      BY <1>4, Moved, DrawnCells
    <3>2. BlankRow \in [Column -> SUBSET Ascii]
      BY DEF BlankRow
    <3> QED BY <1>3, <3>1, <3>2
  <2> QED BY <1>1, <1>5, <2>1, <2>2, BlankText DEF TypeOK, Bytes
<1>8. Texts'
  <2>1. ASSUME NEW row \in Row PROVE \E k \in Column : IsText(buffer'[row], k)
    <3>1. \A q \in Row : \E k \in Column : IsText(buffer[q], k)
      BY DEF IInv, Texts
    <3>2. CASE row \in Redrawn
      BY <3>2, <3>1, <1>2, Moved
    <3>3. CASE row \notin Redrawn /\ AllRedrawn
      BY <3>3, <1>2, BlankText
    <3>4. CASE row \notin Redrawn /\ ~AllRedrawn
      BY <3>4, <3>1, <1>2
    <3> QED BY <3>2, <3>3, <3>4
  <2>2. ASSUME pc' # "Halted" PROVE IsText(buffer'[Rows - 1], 0)
    BY <2>2, <1>1, <1>2, <1>5, Moved, BlankText
  <2>3. \A row \in Row : ~(row > Rows - 1)
    BY DEF Row
  <2> QED BY <1>1, <1>5, <2>1, <2>2, <2>3 DEF Texts, IsText
<1>9. ScreenShowsBuffer'
  <2>1. ASSUME pc' # "Halted", NEW row \in Row PROVE screen'[row] = WriteString(buffer'[row])
    <3>1. AllRedrawn
      BY <1>1, <2>1
    <3>2. CASE row \in Redrawn
      BY <3>2, <1>2, <1>3
    <3>3. CASE row \notin Redrawn
      BY <3>1, <3>3, <1>2, <1>3, BlankText
    <3> QED BY <3>2, <3>3
  <2> QED BY <2>1 DEF ScreenShowsBuffer
<1> QED BY <1>7, <1>8, <1>9 DEF IInv

-----------------------------------------------------------------------------
(***************************************************************************)
(* The theorems                                                            *)
(***************************************************************************)
LEMMA NextRight == IInv /\ [Next]_vars => IInv'
<1> SUFFICES ASSUME IInv, [Next]_vars PROVE IInv'
  OBVIOUS
<1>1. CASE \E s \in Strings : PutString(s)
  BY <1>1, TextUnchanged DEF PutString
<1>2. CASE PutChar
  BY <1>2, PutCharRight
<1>3. CASE DropChar
  <2>1. PICK ch \in Char : Take(ch)
    BY <1>3 DEF DropChar
  <2> QED BY <2>1, <1>3, TakeType, TextUnchanged DEF DropChar, IInv
<1>4. CASE NewLine
  BY <1>4, NewLineRight
<1>5. CASE Scroll
  BY <1>5, ScrollRight
<1>6. CASE Return
  BY <1>6, TextUnchanged DEF Return, IInv, TypeOK
<1>7. CASE UNCHANGED vars
  <2>1. UNCHANGED <<buffer, cursor_row, cursor_column, screen, pending, pc>>
    BY <1>7 DEF vars
  <2>2. TypeOK' /\ Texts'
    BY <2>1 DEF IInv, TypeOK, Texts, IsText
  <2>3. ScreenShowsBuffer'
    BY <2>1 DEF IInv, ScreenShowsBuffer
  <2> QED BY <2>2, <2>3 DEF IInv
<1> QED BY <1>1, <1>2, <1>3, <1>4, <1>5, <1>6, <1>7 DEF Next, Step

LEMMA Invariance == Spec => []IInv
BY InitRight, NextRight, PTL DEF Spec

\* A row that is a text is terminated the way the buffer of the console is.
LEMMA TextsTerminated == IInv => RowsTerminated
<1> SUFFICES ASSUME IInv, NEW row \in Row
             PROVE  /\ buffer[row][Columns - 1] = NUL
                    /\ \A j \in 0 .. Columns - 1 : buffer[row][j] = NUL => buffer[row][j + 1] = NUL
  BY DEF RowsTerminated
<1>1. PICK n \in Column : IsText(buffer[row], n)
  BY DEF IInv, Texts
<1>2. Columns - 1 \in n .. Columns
  BY DEF Column
<1>3. ASSUME NEW j \in 0 .. Columns - 1, buffer[row][j] = NUL PROVE buffer[row][j + 1] = NUL
  <2>1. j \notin 0 .. n - 1
    BY <1>1, <1>3 DEF IsText
  <2>2. j + 1 \in n .. Columns
    BY <2>1 DEF Column
  <2> QED BY <1>1, <2>2 DEF IsText
<1> QED BY <1>1, <1>2, <1>3 DEF IsText

LEMMA TextsCursor == IInv => CursorAtEnd
<1> SUFFICES ASSUME IInv, pc # "Halted"
             PROVE  /\ StrLen(buffer[cursor_row]) = cursor_column
                    /\ \A row \in Row : row > cursor_row => buffer[row] = EmptyRow
  BY DEF CursorAtEnd
<1> QED BY LengthOfText DEF IInv, TypeOK, Texts

\* Type correctness of the console.
THEOREM ConsoleTypes == Spec => []TypeOK
BY Invariance, PTL DEF IInv

\* Every step of a call of PutString takes a character off what is left of its string, or ends
\* the call: nothing makes the loop stay where it is.
THEOREM CallCountsDown ==
  Spec => [][pc = "PutString" =>
               \/ pc' # "PutString"
               \/ Len(pending) \in Nat /\ Len(pending') < Len(pending)]_vars
<1>1. ASSUME TypeOK, Next, pc = "PutString", pc' = "PutString"
      PROVE  Len(pending) \in Nat /\ Len(pending') < Len(pending)
  <2>1. pending # <<>> /\ pending' = Tail(pending)
    BY <1>1 DEF Next, Step, PutString, PutChar, DropChar, NewLine, Scroll, Return, Take
  <2> QED BY <1>1, <2>1, HeadTailProperties, LenProperties DEF TypeOK
<1>2. TypeOK /\ [Next]_vars =>
        [pc = "PutString" => \/ pc' # "PutString"
                             \/ Len(pending) \in Nat /\ Len(pending') < Len(pending)]_vars
  BY <1>1
<1> QED BY <1>2, ConsoleTypes, PTL DEF Spec

\* Every row of Console::buffer_ stays a C string, ended before its last two bytes:
\* neither the memcpy of a scroll nor the string_view made of a row reads past it.
THEOREM RowsAreStrings == Spec => []RowsTerminated
BY Invariance, TextsTerminated, PTL

\* The cursor stays right after the last character of the text.
THEOREM CursorIsAtEnd == Spec => []CursorAtEnd
BY Invariance, TextsCursor, PTL

\* Until the first scroll, PutString leaves the screen as NewLine would redraw it.
THEOREM ScreenIsBuffer == Spec => []ScreenShowsBuffer
BY Invariance, PTL DEF IInv

LEMMA ScrollStops == ASSUME Rows > 1, IInv, Scroll PROVE pc' = "Halted"
<1>1. 0 \in 0 .. Rows - 2 /\ 0 + 1 \in Row
  BY DEF Row
<1>2. PICK n \in Column : IsText(buffer[0 + 1], n)
  BY <1>1 DEF IInv, Texts
<1>3. ~AllRedrawn
  BY <1>1, <1>2, NeverReturns DEF AllRedrawn
<1> QED BY <1>3 DEF Scroll

\* On a console of two rows or more, the first scroll halts the machine: the loop of
\* WriteString (font.cc:60) goes past the string_view of whatever row it draws.
THEOREM ScrollHalts ==
  ASSUME Rows > 1
  PROVE  Spec => [][Scroll => pc' = "Halted"]_vars
<1>1. IInv /\ [Next]_vars => [Scroll => pc' = "Halted"]_vars
  BY ScrollStops
<1> QED BY <1>1, Invariance, PTL DEF Spec

-----------------------------------------------------------------------------
(***************************************************************************)
(* The text put so far (ConsoleHistory).  What is known of the cursor is   *)
(* where the next character of the text would be; a character is put at    *)
(* that place, so that all of them are at theirs.                          *)
(***************************************************************************)
Text == Seq(Char \union {NL})

\* The next position of the text.
Here == Len(printed) + 1

CursorInText ==
  /\ printed \in Text
  /\ pc # "Halted" =>
       /\ cursor_row = LineOf(printed, Here)
       /\ LineStart(printed, Here) \in 0 .. Len(printed)
       /\ cursor_column = IF ColumnOf(printed, Here) < Columns - 1
                            THEN ColumnOf(printed, Here) ELSE Columns - 1
  /\ pc = "Halted" => LineOf(printed, Here) >= Rows

HistoryInv == IInv /\ CursorInText /\ ShowsText

\* A character at the end of a text moves none of those before it.
LEMMA Longer ==
  ASSUME NEW t \in Text, NEW c \in Char \union {NL}
  PROVE  /\ Append(t, c) \in Text /\ Len(Append(t, c)) = Len(t) + 1
         /\ \A k \in 1 .. Len(t) : Append(t, c)[k] = t[k]
         /\ Append(t, c)[Len(t) + 1] = c
         /\ \A k \in 1 .. Len(t) + 1 : NewLinesBefore(Append(t, c), k) = NewLinesBefore(t, k)
<1> DEFINE u == Append(t, c)
<1>1. /\ u \in Text /\ Len(u) = Len(t) + 1 /\ Len(t) \in Nat
      /\ \A k \in 1 .. Len(t) : u[k] = t[k]
      /\ u[Len(t) + 1] = c
  BY DEF Text
<1> HIDE DEF u
<1>2. ASSUME NEW k \in 1 .. Len(t) + 1 PROVE NewLinesBefore(u, k) = NewLinesBefore(t, k)
  <2>1. \A j \in 1 .. k - 1 : u[j] = t[j]
    BY <1>1
  <2> QED BY <2>1 DEF NewLinesBefore
<1> QED BY <1>1, <1>2 DEF u

LEMMA LongerPlaces ==
  ASSUME NEW t \in Text, NEW c \in Char \union {NL}, NEW k \in 1 .. Len(t) + 1
  PROVE  /\ LineOf(Append(t, c), k) = LineOf(t, k)
         /\ LineStart(Append(t, c), k) = LineStart(t, k)
         /\ ColumnOf(Append(t, c), k) = ColumnOf(t, k)
<1>1. NewLinesBefore(Append(t, c), k) = NewLinesBefore(t, k)
  BY Longer
<1> QED BY <1>1 DEF LineOf, LineStart, ColumnOf

\* The place after a character of a line, and that after a newline.
LEMMA NextPlace ==
  ASSUME NEW t \in Text, NEW c \in Char
  PROVE  /\ LineOf(Append(t, c), Len(t) + 2) = LineOf(t, Len(t) + 1)
         /\ LineStart(Append(t, c), Len(t) + 2) = LineStart(t, Len(t) + 1)
<1> DEFINE u == Append(t, c)
           n == Len(t)
<1>1. /\ n \in Nat /\ u[n + 1] = c /\ c # NL
      /\ NewLinesBefore(u, n + 1) = NewLinesBefore(t, n + 1)
  BY Longer DEF Text
<1> HIDE DEF u, n
<1>2. NewLinesBefore(u, n + 2) = NewLinesBefore(u, n + 1)
  <2>1. (n + 2) - 1 = n + 1 /\ (n + 1) - 1 = n
    BY <1>1
  <2>2. 1 .. n + 1 = (1 .. n) \union {n + 1}
    BY <1>1
  <2> QED BY <1>1, <2>1, <2>2 DEF NewLinesBefore
<1>3. /\ LineOf(u, n + 2) = LineOf(t, n + 1)
      /\ LineStart(u, n + 2) = LineStart(t, n + 1)
  BY <1>1, <1>2 DEF LineOf, LineStart
<1> QED BY <1>3 DEF u, n

LEMMA NextLine ==
  ASSUME NEW t \in Text
  PROVE  /\ LineOf(Append(t, NL), Len(t) + 2) = LineOf(t, Len(t) + 1) + 1
         /\ LineStart(Append(t, NL), Len(t) + 2) = Len(t) + 1
<1> DEFINE u == Append(t, NL)
           n == Len(t)
           before == NewLinesBefore(t, n + 1)
<1>1. /\ n \in Nat /\ u[n + 1] = NL
      /\ NewLinesBefore(u, n + 1) = before
  BY Longer DEF Text
<1>2. before \subseteq 1 .. n
  BY DEF NewLinesBefore, Text
<1> HIDE DEF u, n, before
<1>3. NewLinesBefore(u, n + 2) = before \union {n + 1}
  <2>1. (n + 2) - 1 = n + 1 /\ (n + 1) - 1 = n
    BY <1>1
  <2>2. 1 .. n + 1 = (1 .. n) \union {n + 1}
    BY <1>1
  <2> QED BY <1>1, <2>1, <2>2 DEF NewLinesBefore
<1>4. IsFiniteSet(before) /\ n + 1 \notin before
  <2>1. IsFiniteSet(1 .. n)
    BY <1>1, FS_Interval
  <2>2. IsFiniteSet(before)
    BY <1>2, <2>1, FS_Subset
  <2>3. n + 1 \notin 1 .. n
    BY <1>1
  <2> QED BY <1>2, <2>2, <2>3
<1>5. Cardinality(before \union {n + 1}) = Cardinality(before) + 1
  BY <1>4, FS_AddElement
<1>6. LineStart(u, n + 2) = n + 1
  <2> DEFINE all == before \union {n + 1}
             Last(j) == \A k \in all : k <= j
  <2>1. LineStart(u, n + 2) = CHOOSE j \in {0} \union all : Last(j)
    BY <1>3 DEF LineStart
  <2>2. n + 1 \in {0} \union all /\ Last(n + 1)
    BY <1>1, <1>2
  <2>3. ASSUME NEW j \in {0} \union all, Last(j) PROVE j = n + 1
    <3>1. n + 1 <= j /\ j \in Nat /\ j <= n + 1
      BY <1>1, <1>2, <2>3
    <3> QED BY <1>1, <3>1
  <2> HIDE DEF Last
  <2> QED BY <2>1, <2>2, <2>3
<1>7. LineOf(u, n + 2) = LineOf(t, n + 1) + 1
  BY <1>3, <1>5 DEF LineOf, before
<1> QED BY <1>6, <1>7 DEF u, n

\* Nothing of a character shows in the cells that a text leaves alone.
CellRight(row, column, t, cell) ==
  IF column < Columns - 1 /\ \E k \in 1 .. Len(t) : Placed(t, k, row, column)
    THEN \E k \in 1 .. Len(t) : Placed(t, k, row, column) /\ cell = t[k]
    ELSE cell = NUL

\* What a character at the end of a text does to a cell, and to no other cell.
LEMMA CellAfter ==
  ASSUME NEW t \in Text, NEW c \in Char \union {NL}, NEW row \in Row, NEW column \in Column,
         NEW cell, CellRight(row, column, t, cell)
  PROVE  /\ ~(column < Columns - 1 /\ Placed(Append(t, c), Len(t) + 1, row, column))
               => CellRight(row, column, Append(t, c), cell)
         /\ column < Columns - 1 /\ Placed(Append(t, c), Len(t) + 1, row, column)
               => CellRight(row, column, Append(t, c), c)
<1> DEFINE u == Append(t, c)
           n == Len(t)
<1>1. /\ n \in Nat /\ Len(u) = n + 1 /\ u[n + 1] = c
      /\ \A k \in 1 .. n : u[k] = t[k]
  BY Longer DEF Text
<1>2. \A k \in 1 .. n : Placed(u, k, row, column) <=> Placed(t, k, row, column)
  <2>1. ASSUME NEW k \in 1 .. n PROVE LineOf(u, k) = LineOf(t, k) /\ ColumnOf(u, k) = ColumnOf(t, k)
    <3>1. k \in 1 .. n + 1
      BY <1>1
    <3> QED BY <3>1, LongerPlaces
  <2> HIDE DEF u, n
  <2> QED BY <1>1, <2>1 DEF Placed
<1>3. 1 .. Len(u) = (1 .. n) \union {n + 1}
  BY <1>1
<1> HIDE DEF u, n
<1>4. CellRight(row, column, t, cell) <=>
        (IF column < Columns - 1 /\ \E k \in 1 .. n : Placed(t, k, row, column)
           THEN \E k \in 1 .. n : Placed(t, k, row, column) /\ cell = t[k]
           ELSE cell = NUL)
  BY DEF CellRight, n
<1>5. ASSUME column < Columns - 1, Placed(u, n + 1, row, column)
      PROVE  CellRight(row, column, u, c)
  BY <1>1, <1>3, <1>5 DEF CellRight
<1>6. ASSUME ~(column < Columns - 1 /\ Placed(u, n + 1, row, column))
      PROVE  CellRight(row, column, u, cell)
  <2>1. CASE column < Columns - 1 /\ \E k \in 1 .. n : Placed(t, k, row, column)
    <3>1. PICK k \in 1 .. n : Placed(t, k, row, column) /\ cell = t[k]
      BY <1>4, <2>1
    <3>2. Placed(u, k, row, column) /\ cell = u[k] /\ k \in 1 .. Len(u)
      BY <1>1, <1>2, <1>3, <3>1
    <3> QED BY <2>1, <3>2 DEF CellRight
  <2>2. CASE ~(column < Columns - 1 /\ \E k \in 1 .. n : Placed(t, k, row, column))
    <3>1. cell = NUL
      BY <1>4, <2>2
    <3>2. ~(column < Columns - 1 /\ \E k \in 1 .. Len(u) : Placed(u, k, row, column))
      BY <1>2, <1>3, <1>6, <2>2
    <3> QED BY <3>1, <3>2 DEF CellRight
  <2> QED BY <2>1, <2>2
<1> QED BY <1>5, <1>6 DEF u, n

-----------------------------------------------------------------------------
(***************************************************************************)
(* Steps of the history                                                    *)
(***************************************************************************)
LEMMA HistoryStart == HistoryInit => HistoryInv
<1> SUFFICES ASSUME HistoryInit PROVE HistoryInv
  OBVIOUS
<1>1. /\ printed = <<>> /\ cursor_row = 0 /\ cursor_column = 0 /\ pc = "Idle"
      /\ buffer = [row \in Row |-> EmptyRow]
  BY DEF HistoryInit, Init
<1>2. printed \in Text /\ Len(printed) = 0 /\ Here = 1
  BY <1>1 DEF Text, Here
<1>3. NewLinesBefore(printed, 1) = {}
  BY DEF NewLinesBefore
<1>4. LineOf(printed, 1) = 0 /\ LineStart(printed, 1) = 0 /\ ColumnOf(printed, 1) = 0
  <2>1. LineOf(printed, 1) = 0
    BY <1>3, FS_EmptySet DEF LineOf
  <2>2. LineStart(printed, 1) = 0
    BY <1>3 DEF LineStart
  <2> QED BY <2>1, <2>2 DEF ColumnOf
<1>5. CursorInText
  BY <1>1, <1>2, <1>4 DEF CursorInText
<1>6. ShowsText
  <2>1. ASSUME NEW row \in Row, NEW column \in Column PROVE buffer[row][column] = NUL
    <3>1. column \in 0 .. Columns
      BY DEF Column
    <3> QED BY <1>1, <3>1 DEF EmptyRow
  <2>2. 1 .. Len(printed) = {}
    BY <1>2
  <2>3. \A row, column : ~\E k \in 1 .. Len(printed) : Placed(printed, k, row, column)
    BY <2>2
  <2> QED BY <2>1, <2>3 DEF ShowsText
<1> QED BY <1>5, <1>6, InitRight DEF HistoryInit, HistoryInv

\* Taking a character from pending adds it to the history.
LEMMA HistoryGrows ==
  ASSUME IInv, printed \in Text, NEW c, Take(c),
         printed' = printed \o SubSeq(pending, 1, Len(pending) - Len(pending'))
  PROVE  printed' = Append(printed, c) /\ c \in Char \union {NL} /\ pc = "PutString"
<1>1. /\ pending \in Seq(Char \union {NL}) /\ pending # <<>>
      /\ c = Head(pending) /\ pending' = Tail(pending) /\ pc = "PutString"
  BY DEF IInv, TypeOK, Take
<1>2. Len(pending') = Len(pending) - 1 /\ Len(pending) \in Nat \ {0}
  BY <1>1
<1>3. Len(pending) - Len(pending') = 1
  BY <1>2
<1>4. SubSeq(pending, 1, 1) = <<c>> /\ c \in Char \union {NL}
  <2> DEFINE first == SubSeq(pending, 1, 1)
             one   == <<c>>
  <2>1. Len(pending) >= 1 /\ Len(pending) \in Nat
    BY <1>2
  <2>2. c = pending[1]
    BY <1>1
  <2>3. first \in Text /\ Len(first) = 1
    BY <1>1, <2>1 DEF Text
  <2>4. first[1] = pending[1]
    BY <1>1, <2>1
  <2>5. c \in Char \union {NL}
    BY <1>1, <2>1, <2>2
  <2>6. one \in Text /\ Len(one) = 1 /\ one[1] = c
    BY <2>5 DEF Text
  <2> HIDE DEF first, one
  <2>7. \A k \in 1 .. Len(first) : first[k] = one[k]
    BY <2>2, <2>3, <2>4, <2>6
  <2>8. first = one
    BY ONLY <2>3, <2>6, <2>7, SeqEqual, Zenon DEF Text
  <2> QED BY <2>5, <2>8 DEF first, one
<1>5. printed' = printed \o <<c>>
  BY <1>3, <1>4
<1> QED BY <1>1, <1>4, <1>5 DEF Text

\* The next position's row and column, when the cursor is not in the cell past a line.
LEMMA CursorHere ==
  ASSUME CursorInText, pc = "PutString"
  PROVE  /\ cursor_row = LineOf(printed, Here)
         /\ ColumnOf(printed, Here) \in Nat
         /\ ColumnOf(printed, Here) = Len(printed) - LineStart(printed, Here)
         /\ cursor_column < Columns - 1 <=> ColumnOf(printed, Here) < Columns - 1
         /\ cursor_column < Columns - 1 => ColumnOf(printed, Here) = cursor_column
         /\ cursor_column = IF ColumnOf(printed, Here) < Columns - 1
                              THEN ColumnOf(printed, Here) ELSE Columns - 1
<1> DEFINE n == Len(printed)
           start == LineStart(printed, Here)
           column == ColumnOf(printed, Here)
<1>1. /\ n \in Nat /\ start \in 0 .. n
      /\ cursor_row = LineOf(printed, Here)
      /\ cursor_column = IF column < Columns - 1 THEN column ELSE Columns - 1
  BY DEF CursorInText, Text
<1>2. column = (n + 1) - start - 1
  BY DEF ColumnOf, Here
<1> HIDE DEF n, start, column
<1>3. column \in Nat /\ column = n - start
  BY <1>1, <1>2
<1>4. /\ cursor_column < Columns - 1 <=> column < Columns - 1
      /\ cursor_column < Columns - 1 => column = cursor_column
  BY <1>1, <1>3
<1> QED BY <1>1, <1>3, <1>4 DEF n, start, column

\* A character of a line moves the cursor along unless it is in the last column.
LEMMA CursorAfterChar ==
  ASSUME CursorInText, pc = "PutString", NEW c \in Char, printed' = Append(printed, c),
         pc' = "PutString", cursor_row' = cursor_row,
         cursor_column' = IF cursor_column < Columns - 1 THEN cursor_column + 1 ELSE cursor_column
  PROVE  CursorInText'
<1> DEFINE n == Len(printed)
           start == LineStart(printed, n + 1)
           column == ColumnOf(printed, n + 1)
<1>0. printed \in Text /\ n \in Nat /\ Here = n + 1 /\ start \in 0 .. n
  BY DEF CursorInText, Text, Here
<1>1. /\ cursor_row = LineOf(printed, n + 1) /\ column \in Nat /\ column = n - start
      /\ cursor_column = IF column < Columns - 1 THEN column ELSE Columns - 1
  BY <1>0, CursorHere
<1>2. printed' \in Text /\ Len(printed') = n + 1 /\ Here' = n + 2
  BY <1>0, Longer DEF Here
<1>3. /\ LineOf(printed', n + 2) = LineOf(printed, n + 1)
      /\ LineStart(printed', n + 2) = start
  BY <1>0, NextPlace
<1>4. ColumnOf(printed', n + 2) = (n + 2) - start - 1
  BY <1>3 DEF ColumnOf
<1> HIDE DEF n, start, column
<1>5. ColumnOf(printed', n + 2) = column + 1
  BY <1>0, <1>1, <1>4
<1>6. cursor_column' = IF column + 1 < Columns - 1 THEN column + 1 ELSE Columns - 1
  BY <1>1
<1>7. start \in 0 .. n + 1
  BY <1>0
<1> QED BY <1>1, <1>2, <1>3, <1>5, <1>6, <1>7 DEF CursorInText

LEMMA CursorAfterLine ==
  ASSUME CursorInText, cursor_row \in Row, pc = "PutString", printed' = Append(printed, NL),
         \/ pc' = "PutString" /\ cursor_row' = cursor_row + 1 /\ cursor_column' = 0
         \/ pc' = "Halted" /\ cursor_row >= Rows - 1
  PROVE  CursorInText'
<1> DEFINE n == Len(printed)
<1>0. printed \in Text /\ n \in Nat /\ Here = n + 1 /\ cursor_row = LineOf(printed, n + 1)
  BY DEF CursorInText, Text, Here
<1>1. printed' \in Text /\ Len(printed') = n + 1 /\ Here' = n + 2
  BY <1>0, Longer DEF Here
<1>2. /\ LineOf(printed', n + 2) = cursor_row + 1
      /\ LineStart(printed', n + 2) = n + 1
  BY <1>0, NextLine
<1>3. ColumnOf(printed', n + 2) = (n + 2) - (n + 1) - 1
  BY <1>2 DEF ColumnOf
<1>4. n + 1 \in 0 .. n + 1 /\ (n + 2) - (n + 1) - 1 = 0
  BY <1>0
<1> HIDE DEF n
<1>5. CASE pc' = "Halted"
  <2>1. cursor_row + 1 >= Rows
    BY <1>5 DEF Row
  <2> QED BY <1>1, <1>2, <1>5, <2>1 DEF CursorInText
<1>6. CASE pc' = "PutString" /\ cursor_row' = cursor_row + 1 /\ cursor_column' = 0
  <2>1. ColumnOf(printed', n + 2) = 0
    BY <1>3, <1>4
  <2>2. cursor_column' = IF 0 < Columns - 1 THEN 0 ELSE Columns - 1
    BY <1>6
  <2> QED BY <1>1, <1>2, <1>4, <1>6, <2>1, <2>2 DEF CursorInText
<1> QED BY <1>5, <1>6

\* ShowsText, cell by cell.
LEMMA ShowsCells ==
  ShowsText <=> (pc # "Halted" => \A row \in Row, column \in Column :
                                    CellRight(row, column, printed, buffer[row][column]))
BY DEF ShowsText, CellRight

\* The next character's place is the cursor's cell, or is cut off.
LEMMA PlacedHere ==
  ASSUME CursorInText, pc = "PutString", NEW c \in Char, NEW row \in Row, NEW column \in Column
  PROVE  column < Columns - 1 /\ Placed(Append(printed, c), Len(printed) + 1, row, column) <=>
           row = cursor_row /\ column = cursor_column /\ cursor_column < Columns - 1
<1> DEFINE n == Len(printed)
           u == Append(printed, c)
           at == ColumnOf(printed, n + 1)
<1>0. printed \in Text /\ n \in Nat /\ Here = n + 1 /\ c # NL
  BY DEF CursorInText, Text, Here
<1>1. /\ u[n + 1] = c
      /\ LineOf(u, n + 1) = LineOf(printed, n + 1)
      /\ ColumnOf(u, n + 1) = at
  BY <1>0, Longer, LongerPlaces
<1>2. /\ cursor_row = LineOf(printed, n + 1) /\ at \in Nat
      /\ cursor_column < Columns - 1 <=> at < Columns - 1
      /\ cursor_column < Columns - 1 => at = cursor_column
  BY <1>0, CursorHere
<1> HIDE DEF n, u, at
<1>3. Placed(u, n + 1, row, column) <=> row = cursor_row /\ column = at
  BY <1>0, <1>1, <1>2 DEF Placed
<1>4. column < Columns - 1 /\ Placed(u, n + 1, row, column) <=>
        row = cursor_row /\ column = cursor_column /\ cursor_column < Columns - 1
  BY <1>2, <1>3
<1> QED BY <1>4 DEF n, u

LEMMA PutCharHistory ==
  ASSUME HistoryInv, PutChar, HistoryStep PROVE CursorInText' /\ ShowsText'
<1>1. PICK c \in Char :
        /\ Take(c)
        /\ cursor_column < Columns - 1
        /\ buffer' = [buffer EXCEPT ![cursor_row][cursor_column] = c]
  BY DEF PutChar
<1>2. /\ cursor_row' = cursor_row /\ cursor_column' = cursor_column + 1 /\ pc' = pc
      /\ printed \in Text /\ IInv /\ CursorInText
  BY DEF PutChar, HistoryInv, CursorInText
<1>3. printed' = Append(printed, c) /\ pc = "PutString"
  BY <1>1, <1>2, HistoryGrows DEF HistoryStep
<1>4. CursorInText'
  BY <1>1, <1>2, <1>3, CursorAfterChar
<1>5. /\ buffer \in [Row -> [0 .. Columns -> Bytes]]
      /\ cursor_row \in Row /\ cursor_column \in Column
  BY <1>2 DEF IInv, TypeOK, Bytes
<1>6. ASSUME NEW row \in Row, NEW column \in Column
      PROVE  buffer'[row][column] = IF row = cursor_row /\ column = cursor_column
                                      THEN c ELSE buffer[row][column]
  <2>1. column \in 0 .. Columns /\ cursor_column \in 0 .. Columns
    BY <1>5 DEF Column
  <2> QED BY <1>1, <1>5, <2>1
<1>7. ASSUME NEW row \in Row, NEW column \in Column
      PROVE  CellRight(row, column, printed', buffer'[row][column])
  <2>1. CellRight(row, column, printed, buffer[row][column])
    BY <1>3, ShowsCells DEF HistoryInv
  <2>2. column < Columns - 1 /\ Placed(Append(printed, c), Len(printed) + 1, row, column) <=>
          row = cursor_row /\ column = cursor_column
    BY <1>1, <1>2, <1>3, PlacedHere
  <2> DEFINE cell == buffer[row][column]
  <2>3. CellRight(row, column, printed, cell) /\ c \in Char \union {NL}
    BY <2>1
  <2> HIDE DEF cell
  <2>4. /\ ~(row = cursor_row /\ column = cursor_column)
             => CellRight(row, column, Append(printed, c), cell)
        /\ row = cursor_row /\ column = cursor_column
             => CellRight(row, column, Append(printed, c), c)
    BY <1>2, <2>2, <2>3, CellAfter
  <2> QED BY <1>3, <1>6, <2>4 DEF cell
<1>8. ShowsText'
  BY <1>7 DEF ShowsText, CellRight
<1> QED BY <1>4, <1>8

LEMMA DropCharHistory ==
  ASSUME HistoryInv, DropChar, HistoryStep PROVE CursorInText' /\ ShowsText'
<1>1. PICK c \in Char : Take(c)
  BY DEF DropChar
<1>2. /\ cursor_column >= Columns - 1 /\ UNCHANGED <<buffer, cursor_row, cursor_column, pc>>
      /\ printed \in Text /\ IInv /\ CursorInText /\ cursor_column \in Column
  BY DEF DropChar, HistoryInv, CursorInText, IInv, TypeOK
<1>3. printed' = Append(printed, c) /\ pc = "PutString"
  BY <1>1, <1>2, HistoryGrows DEF HistoryStep
<1>4. ~(cursor_column < Columns - 1)
  BY <1>2 DEF Column
<1>5. CursorInText'
  BY <1>2, <1>3, <1>4, CursorAfterChar
<1>6. ASSUME NEW row \in Row, NEW column \in Column
      PROVE  CellRight(row, column, printed', buffer'[row][column])
  <2>1. CellRight(row, column, printed, buffer[row][column])
    BY <1>3, ShowsCells DEF HistoryInv
  <2>2. ~(column < Columns - 1 /\ Placed(Append(printed, c), Len(printed) + 1, row, column))
    BY <1>2, <1>3, <1>4, PlacedHere
  <2> DEFINE cell == buffer[row][column]
  <2>3. CellRight(row, column, printed, cell) /\ c \in Char \union {NL}
    BY <2>1
  <2> HIDE DEF cell
  <2>4. CellRight(row, column, Append(printed, c), cell)
    BY <1>2, <2>2, <2>3, CellAfter
  <2> QED BY <1>2, <1>3, <2>4 DEF cell
<1>7. ShowsText'
  BY <1>6 DEF ShowsText, CellRight
<1> QED BY <1>5, <1>7

\* A newline has no place.
LEMMA NewLineHistory ==
  ASSUME HistoryInv, NewLine, HistoryStep PROVE CursorInText' /\ ShowsText'
<1>1. /\ Take(NL) /\ cursor_row' = cursor_row + 1 /\ cursor_column' = 0
      /\ UNCHANGED <<buffer, pc>>
      /\ printed \in Text /\ IInv /\ CursorInText /\ cursor_row \in Row
  BY DEF NewLine, HistoryInv, CursorInText, IInv, TypeOK
<1>2. printed' = Append(printed, NL) /\ pc = "PutString" /\ pc' = "PutString"
  BY <1>1, HistoryGrows DEF HistoryStep
<1>3. CursorInText'
  <2>1. pc' = "PutString" /\ cursor_row' = cursor_row + 1 /\ cursor_column' = 0
    BY <1>1, <1>2
  <2> QED BY ONLY <1>1, <1>2, <2>1, CursorAfterLine
<1>4. ASSUME NEW row \in Row, NEW column \in Column
      PROVE  CellRight(row, column, printed', buffer'[row][column])
  <2>1. CellRight(row, column, printed, buffer[row][column])
    BY <1>2, ShowsCells DEF HistoryInv
  <2>2. ~Placed(Append(printed, NL), Len(printed) + 1, row, column)
    BY <1>1, Longer DEF Placed
  <2> DEFINE cell == buffer[row][column]
  <2>3. CellRight(row, column, printed, cell) /\ NL \in Char \union {NL}
    BY <2>1
  <2> HIDE DEF cell
  <2>4. CellRight(row, column, Append(printed, NL), cell)
    BY <1>1, <2>2, <2>3, CellAfter
  <2> QED BY <1>1, <1>2, <2>4 DEF cell
<1>5. ShowsText'
  BY <1>4 DEF ShowsText, CellRight
<1> QED BY <1>3, <1>5

LEMMA ScrollHistory ==
  ASSUME Rows > 1, HistoryInv, Scroll, HistoryStep PROVE CursorInText' /\ ShowsText'
<1>1. /\ Take(NL) /\ cursor_row >= Rows - 1
      /\ printed \in Text /\ IInv /\ CursorInText /\ cursor_row \in Row
  BY DEF Scroll, HistoryInv, CursorInText, IInv, TypeOK
<1>2. printed' = Append(printed, NL) /\ pc = "PutString"
  BY <1>1, HistoryGrows DEF HistoryStep
<1>3. pc' = "Halted"
  BY <1>1, ScrollStops
<1>4. CursorInText'
  BY <1>1, <1>2, <1>3, CursorAfterLine
<1> QED BY <1>3, <1>4 DEF ShowsText

\* Steps that take nothing.
LEMMA QuietHistory ==
  ASSUME HistoryInv, UNCHANGED <<buffer, cursor_row, cursor_column, printed>>,
         pc' = "Halted" <=> pc = "Halted"
  PROVE  CursorInText' /\ ShowsText'
<1>1. CursorInText'
  <2>1. printed' = printed /\ Here' = Here
    BY DEF Here
  <2>2. /\ LineOf(printed', Here') = LineOf(printed, Here)
        /\ LineStart(printed', Here') = LineStart(printed, Here)
        /\ ColumnOf(printed', Here') = ColumnOf(printed, Here)
    BY <2>1
  <2>3. CursorInText
    BY DEF HistoryInv
  <2> QED BY <2>1, <2>2, <2>3 DEF CursorInText
<1>2. ShowsText'
  BY DEF HistoryInv, ShowsText
<1> QED BY <1>1, <1>2

LEMMA HistoryRight ==
  ASSUME Rows > 1, HistoryInv, [HistoryNext]_historyVars PROVE HistoryInv'
<1>1. [Next]_vars
  BY DEF HistoryNext, HistoryCall, HistoryStep, Next, historyVars, vars
<1>2. IInv'
  BY <1>1, NextRight DEF HistoryInv
<1>3. IInv /\ printed \in Text
  BY DEF HistoryInv, CursorInText
<1>4. CASE HistoryCall
  BY <1>2, <1>4, QuietHistory DEF HistoryCall, PutString, HistoryInv
<1>5. CASE HistoryStep /\ PutChar
  BY <1>2, <1>5, PutCharHistory DEF HistoryInv
<1>6. CASE HistoryStep /\ DropChar
  BY <1>2, <1>6, DropCharHistory DEF HistoryInv
<1>7. CASE HistoryStep /\ NewLine
  BY <1>2, <1>7, NewLineHistory DEF HistoryInv
<1>8. CASE HistoryStep /\ Scroll
  BY <1>2, <1>8, ScrollHistory DEF HistoryInv
<1>9. CASE HistoryStep /\ Return
  <2>1. /\ pending = <<>> /\ pending' = pending /\ pc = "PutString" /\ pc' = "Idle"
        /\ UNCHANGED <<buffer, cursor_row, cursor_column>>
    BY <1>9 DEF Return
  <2>2. printed' = printed
    <3>1. SubSeq(pending, 1, Len(pending) - Len(pending')) = <<>>
      BY <2>1
    <3>2. printed' = printed \o <<>>
      BY <1>9, <3>1 DEF HistoryStep
    <3>3. printed \o <<>> = printed
      BY ONLY <1>3, ConcatEmptySeq DEF Text
    <3> QED BY <3>2, <3>3
  <2> QED BY <1>2, <2>1, <2>2, QuietHistory DEF HistoryInv
<1>10. CASE UNCHANGED historyVars
  BY <1>2, <1>10, QuietHistory DEF historyVars, HistoryInv
<1> QED BY <1>4, <1>5, <1>6, <1>7, <1>8, <1>9, <1>10 DEF HistoryNext, HistoryStep, Step

\* The buffer is the text put so far, laid out by its newlines and cut at the last
\* column but one: PutString (console.cc:13-30) neither loses nor misplaces a character,
\* whatever the strings are cut into calls.
THEOREM TextShown ==
  ASSUME Rows > 1
  PROVE  HistorySpec => []ShowsText
<1>1. HistoryInv /\ [HistoryNext]_historyVars => HistoryInv'
  BY HistoryRight
<1>2. HistoryInv => ShowsText
  BY DEF HistoryInv
<1> QED BY <1>1, <1>2, HistoryStart, PTL DEF HistorySpec

\* The console takes Rows - 1 newlines, and the next one halts the machine: no earlier one
\* does, and no text gets past it.
THEOREM LastRowHalts ==
  ASSUME Rows > 1
  PROVE  HistorySpec => []HaltsAtLastRow
<1>1. HistoryInv /\ [HistoryNext]_historyVars => HistoryInv'
  BY HistoryRight
<1>2. HistoryInv => HaltsAtLastRow
  <2> SUFFICES ASSUME HistoryInv PROVE HaltsAtLastRow
    OBVIOUS
  <2>1. printed \in Text /\ Here - 1 = Len(printed)
    BY DEF HistoryInv, CursorInText, Here, Text
  <2>2. {k \in 1 .. Len(printed) : printed[k] = NL} = NewLinesBefore(printed, Here)
    BY <2>1 DEF NewLinesBefore
  <2>3. pc # "Halted" => LineOf(printed, Here) < Rows
    BY DEF HistoryInv, CursorInText, IInv, TypeOK, Row
  <2>4. pc = "Halted" => LineOf(printed, Here) >= Rows
    BY DEF HistoryInv, CursorInText
  <2> DEFINE lines == LineOf(printed, Here)
  <2>5. lines \in Nat
    <3>1. IsFiniteSet(1 .. Here - 1)
      BY <2>1, FS_Interval
    <3>2. IsFiniteSet(NewLinesBefore(printed, Here))
      BY <3>1, FS_Subset DEF NewLinesBefore
    <3> QED BY <3>2, FS_CardinalityType DEF LineOf
  <2>6. HaltsAtLastRow <=> (pc = "Halted" <=> lines >= Rows)
    BY <2>2 DEF HaltsAtLastRow, LineOf
  <2> HIDE DEF lines
  <2>7. (pc # "Halted" => lines < Rows) /\ (pc = "Halted" => lines >= Rows)
    BY <2>3, <2>4 DEF lines
  <2> QED BY <2>5, <2>6, <2>7
<1> QED BY <1>1, <1>2, HistoryStart, PTL DEF HistorySpec
=============================================================================
