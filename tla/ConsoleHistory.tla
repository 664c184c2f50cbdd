--------------------------- MODULE ConsoleHistory ---------------------------
(***************************************************************************)
(* The console with a history of the text put so far, and what a text is   *)
(* to look like on the screen.  The history is bounded by MaxText, which   *)
(* the code has no counterpart of.                                         *)
(***************************************************************************)
EXTENDS Console, FiniteSets

CONSTANT MaxText

VARIABLE printed    \* the characters PutString has looked at so far

historyVars == <<buffer, cursor_row, cursor_column, screen, pending, pc, printed>>

HistoryInit == Init /\ printed = <<>>

HistoryCall ==
  /\ \E s \in Strings : Len(printed) + Len(s) <= MaxText /\ PutString(s)
  /\ UNCHANGED printed

\* The history grows by what the step takes from pending.
HistoryStep ==
  /\ Step
  /\ printed' = printed \o SubSeq(pending, 1, Len(pending) - Len(pending'))

HistoryNext == HistoryCall \/ HistoryStep

\* Fairness as in Console: of the steps of a call.
HistorySpec == HistoryInit /\ [][HistoryNext]_historyVars /\ WF_historyVars(HistoryStep)

-----------------------------------------------------------------------------
(***************************************************************************)
(* The layout of a text, by the position of its characters.                *)
(***************************************************************************)
NewLinesBefore(text, i) == {j \in 1 .. i - 1 : text[j] = NL}

LineOf(text, i) == Cardinality(NewLinesBefore(text, i))

\* The last newline before i, or 0.
LineStart(text, i) ==
  CHOOSE j \in {0} \union NewLinesBefore(text, i) :
    \A k \in NewLinesBefore(text, i) : k <= j

ColumnOf(text, i) == i - LineStart(text, i) - 1

Placed(text, i, row, column) ==
  text[i] # NL /\ LineOf(text, i) = row /\ ColumnOf(text, i) = column

\* The buffer holds the text put so far, laid out by its newlines and cut at
\* the last column but one: each character is at its place, and nothing else is
\* in the buffer.
ShowsText ==
  pc # "Halted" =>
    \A row \in Row, column \in Column :
      IF column < Columns - 1 /\ \E i \in 1 .. Len(printed) : Placed(printed, i, row, column)
        THEN \E i \in 1 .. Len(printed) :
               Placed(printed, i, row, column) /\ buffer[row][column] = printed[i]
        ELSE buffer[row][column] = NUL

\* The console takes Rows - 1 newlines; it is the next one, and no earlier one,
\* that halts the machine.
HaltsAtLastRow ==
  pc = "Halted" <=> Cardinality({i \in 1 .. Len(printed) : printed[i] = NL}) >= Rows
=============================================================================
