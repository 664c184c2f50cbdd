------------------------------ MODULE Console ------------------------------
(***************************************************************************)
(* The text console of kernel/console.cc, with the drawing routines of     *)
(* kernel/font.cc it calls.                                                *)
(*                                                                         *)
(* The screen is kept by character cells (8 x 16 pixels).  Glyphs are      *)
(* drawn without erasing what is under them, so a cell holds the set of    *)
(* the characters drawn in it since the console last cleared it.           *)
(*                                                                         *)
(* PutString consumes its string one character per step.  A scroll is one  *)
(* step: nothing else runs while NewLine redraws.                          *)
(***************************************************************************)
EXTENDS Naturals, Sequences

CONSTANTS
  Rows,       \* Console::kRows (25)
  Columns,    \* Console::kColumns (80)
  Char,       \* the characters of strings, other than '\n' and '\0'
  Ascii,      \* those of them below 0x80
  NUL, NL,    \* '\0' and '\n'
  Strings     \* the strings the console's callers put

ASSUME ConsoleSize == Rows \in Nat \ {0} /\ Columns \in Nat \ {0}
ASSUME ConsoleText == /\ Ascii \subseteq Char
                      /\ NUL \notin Char /\ NL \notin Char /\ NUL # NL
                      /\ Strings \subseteq Seq(Char \union {NL})

VARIABLES
  buffer,           \* buffer_: the characters of each row, NUL where there is none
  cursor_row, cursor_column,
  screen,           \* the characters drawn in each cell
  pending,          \* what PutString has still to look at of its argument
  pc                \* "Idle" between calls; "Halted" in the loop of _exit

vars == <<buffer, cursor_row, cursor_column, screen, pending, pc>>

Row    == 0 .. Rows - 1
Column == 0 .. Columns - 1

EmptyRow == [i \in 0 .. Columns |-> NUL]
BlankRow == [i \in Column |-> {}]

-----------------------------------------------------------------------------
(***************************************************************************)
(* font.cc                                                                 *)
(***************************************************************************)

\* GetFont finds a glyph for the characters below 0x80.  A char is signed, so
\* for the others the index 16 * static_cast<uint32_t>(c) is past the end of the
\* font and WriteAscii returns at once.
HasGlyph(c) == c \in Ascii

WriteAscii(drawn, c) == IF HasGlyph(c) THEN drawn \union {c} ELSE drawn

\* The size of the string_view WriteString is given: it is built from a
\* const char*, so it ends just before the first NUL of the row.
StrLen(row) == CHOOSE n \in 0 .. Columns :
                 row[n] = NUL /\ \A i \in 0 .. n - 1 : row[i] # NUL

\* WriteString draws the whole string, and goes on until s.at(i) is NUL.
WriteString(row) ==
  [i \in Column |-> IF i < StrLen(row) THEN WriteAscii({}, row[i]) ELSE {}]

\* at(i) aborts when i is not below the size of the view, so the loop comes to
\* its end only if it meets a NUL inside the view.
WriteStringReturns(row) == \E i \in 0 .. StrLen(row) - 1 : row[i] = NUL

-----------------------------------------------------------------------------
(***************************************************************************)
(* console.cc                                                              *)
(***************************************************************************)
Init ==
  /\ buffer = [row \in Row |-> EmptyRow]
  /\ cursor_row = 0 /\ cursor_column = 0
  /\ screen = [row \in Row |-> BlankRow]
  /\ pending = <<>>
  /\ pc = "Idle"

PutString(s) ==
  /\ pc = "Idle"
  /\ pending' = s
  /\ pc' = "PutString"
  /\ UNCHANGED <<buffer, cursor_row, cursor_column, screen>>

\* The loop of PutString looks at a character and goes on to the next one.
Take(c) ==
  /\ pc = "PutString"
  /\ pending # <<>> /\ c = Head(pending)
  /\ pending' = Tail(pending)

\* Mutants: a row takes Columns characters; the character is drawn but not kept.
PutCharWide ==
  /\ \E c \in Char :
       /\ Take(c)
       /\ cursor_column < Columns
       /\ screen' = [screen EXCEPT ![cursor_row][cursor_column] = WriteAscii(@, c)]
       /\ buffer' = [buffer EXCEPT ![cursor_row][cursor_column] = c]
  /\ cursor_column' = cursor_column + 1
  /\ UNCHANGED <<cursor_row, pc>>
PutCharUnkept ==
  /\ \E c \in Char :
       /\ Take(c)
       /\ cursor_column < Columns - 1
       /\ screen' = [screen EXCEPT ![cursor_row][cursor_column] = WriteAscii(@, c)]
  /\ cursor_column' = cursor_column + 1
  /\ UNCHANGED <<buffer, cursor_row, pc>>

PutChar ==
  /\ \E c \in Char :
       /\ Take(c)
       /\ cursor_column < Columns - 1
       /\ screen' = [screen EXCEPT ![cursor_row][cursor_column] = WriteAscii(@, c)]
       /\ buffer' = [buffer EXCEPT ![cursor_row][cursor_column] = c]
  /\ cursor_column' = cursor_column + 1
  /\ UNCHANGED <<cursor_row, pc>>

\* Mutant: the loop's ++i is inside the test for room.
DropCharStuck ==
  /\ pc = "PutString" /\ pending # <<>> /\ Head(pending) \in Char
  /\ cursor_column >= Columns - 1
  /\ UNCHANGED vars

\* A row takes Columns - 1 characters; the rest of a line is dropped.
DropChar ==
  /\ \E c \in Char : Take(c)
  /\ cursor_column >= Columns - 1
  /\ UNCHANGED <<buffer, cursor_row, cursor_column, screen, pc>>

\* Mutants: the column is not reset; one row too many.
NewLineSameColumn ==
  /\ Take(NL)
  /\ cursor_row < Rows - 1
  /\ cursor_row' = cursor_row + 1
  /\ UNCHANGED <<buffer, cursor_column, screen, pc>>
NewLineLate ==
  /\ Take(NL)
  /\ cursor_row < Rows
  /\ cursor_row' = cursor_row + 1 /\ cursor_column' = 0
  /\ UNCHANGED <<buffer, screen, pc>>

NewLine ==
  /\ Take(NL)
  /\ cursor_row < Rows - 1
  /\ cursor_row' = cursor_row + 1 /\ cursor_column' = 0
  /\ UNCHANGED <<buffer, screen, pc>>

\* The rows that NewLine overwrites with the next one and redraws: it goes from
\* the first to the last but one, as long as WriteString returns.
Redrawn ==
  {row \in 0 .. Rows - 2 : \A r \in 0 .. row - 1 : WriteStringReturns(buffer[r + 1])}

AllRedrawn == \A row \in 0 .. Rows - 2 : WriteStringReturns(buffer[row + 1])

\* NewLine on the last row: clear the screen, move every row up, blank the last
\* one.  An abort (-fno-exceptions: abort, kill, _exit) leaves the rest undone
\* and the machine in the hlt loop of newlib_support.c.
Scroll ==
  /\ Take(NL)
  /\ cursor_row >= Rows - 1
  /\ cursor_column' = 0
  /\ buffer' = [row \in Row |-> IF row \in Redrawn THEN buffer[row + 1]
                                ELSE IF AllRedrawn THEN EmptyRow ELSE buffer[row]]
  /\ screen' = [row \in Row |-> IF row \in Redrawn THEN WriteString(buffer[row + 1])
                                ELSE BlankRow]
  /\ pc' = IF AllRedrawn THEN pc ELSE "Halted"
  /\ UNCHANGED cursor_row

Return ==
  /\ pc = "PutString" /\ pending = <<>>
  /\ pc' = "Idle"
  /\ UNCHANGED <<buffer, cursor_row, cursor_column, screen, pending>>

\* The steps of a call.
Step == PutChar \/ DropChar \/ NewLine \/ Scroll \/ Return

Next == (\E s \in Strings : PutString(s)) \/ Step

\* Fairness: a call is straight-line code of the only thread; nothing makes the
\* callers call.
Spec == Init /\ [][Next]_vars /\ WF_vars(Step)

-----------------------------------------------------------------------------
TypeOK ==
  /\ buffer \in [Row -> [0 .. Columns -> Char \union {NUL}]]
  /\ cursor_row \in Row /\ cursor_column \in Column
  /\ screen \in [Row -> [Column -> SUBSET Ascii]]
  /\ pending \in Seq(Char \union {NL})
  /\ pc \in {"Idle", "PutString", "Halted"}

\* Each row is a C string of at most Columns - 1 characters: a NUL ends it
\* before its last two bytes, and nothing comes after that NUL.  The memcpy and
\* WriteString of a scroll stay inside the row because of it.
RowsTerminated ==
  \A row \in Row :
    /\ buffer[row][Columns - 1] = NUL
    /\ \A i \in 0 .. Columns - 1 : buffer[row][i] = NUL => buffer[row][i + 1] = NUL

\* The cursor is where the text ends: right after the last character of its
\* row, with no text in the rows below.
CursorAtEnd ==
  pc # "Halted" =>
    /\ StrLen(buffer[cursor_row]) = cursor_column
    /\ \A row \in Row : row > cursor_row => buffer[row] = EmptyRow

\* What is on the screen is what the buffer says, every cell drawn once: no
\* glyph is drawn over another one.
ScreenShowsBuffer ==
  pc # "Halted" => \A row \in Row : screen[row] = WriteString(buffer[row])

\* PutString comes to an end: it returns or the machine has halted in it.
PutStringEnds == pc = "PutString" ~> pc # "PutString"

-----------------------------------------------------------------------------
\* console.h:23-24 gives each row one more byte "for null character", and the
\* loop of WriteString (font.cc:60) runs up to that NUL: drawing a row ends
\* there, it does not halt the machine.
RowsCanBeDrawn == pc # "Halted"
=============================================================================
