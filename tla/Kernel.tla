------------------------------- MODULE Kernel -------------------------------
(***************************************************************************)
(* KernelMain of kernel/main.cc from the construction of the console on:   *)
(* the welcome line, the mouse cursor, the scan of the PCI buses, its      *)
(* result, one line per device, and the hlt loop.  It composes PciScan and *)
(* Console: KernelMain calls the one once and the other through printk,    *)
(* and goes on when the callee has returned.                               *)
(*                                                                         *)
(* A line of output is one character of the console model: what the format *)
(* strings of main.cc print never reaches the last column.  The vendor ID  *)
(* and class code that a device's line also shows are read again from the  *)
(* configuration space, at the location the line names.                    *)
(*                                                                         *)
(* The mouse cursor stands where two of the rows of the console are, whose *)
(* lines, if any, are devices' and long enough to meet it.  The console    *)
(* knows nothing of it.                                                    *)
(***************************************************************************)
EXTENDS Naturals, Sequences

CONSTANTS
  NumBus, NumDevice, NumFunction, Capacity, ConfigSpaces,   \* of PciScan
  Rows, Columns,                                            \* of Console
  CursorRows      \* the rows of the console the mouse cursor stands in, 6 and 7

VARIABLES
  config, devices, stack, host, scan_pc, err,               \* of PciScan
  buffer, cursor_row, cursor_column, screen, pending, console_pc, \* of Console
  mouse_cursor, \* in each of these rows: "none", "above" what else is in it, or "below"
  main,     \* the next statement of KernelMain
  i         \* the variable of its loop over the devices

scanVars    == <<config, devices, stack, host, scan_pc, err>>
consoleVars == <<buffer, cursor_row, cursor_column, screen, pending, console_pc>>
vars        == <<scanVars, consoleVars, mouse_cursor, main, i>>

Scan == INSTANCE PciScan WITH pc <- scan_pc

\* The lines printk writes, and the end of each.
Welcome         == <<"Welcome to MikanOS!">>
Result(e)       == <<"ScanAllBus", e>>
DeviceLine(dev) == <<"device", dev.bus, dev.device, dev.function, dev.header_type>>
Newline         == <<"newline">>

Line == {Welcome} \union {Result(e) : e \in Scan!Error}
                  \union {DeviceLine(dev) : dev \in Scan!Device}

Con == INSTANCE Console WITH
  pc <- console_pc, Char <- Line, Ascii <- Line,
  NUL <- <<"null">>, NL <- Newline, Strings <- {<<l, Newline>> : l \in Line}

\* What PciScan assumes of its constants, and a console that can show a line and go on
\* to the next (25 rows of 80 columns).
ASSUME KernelSizes ==
  /\ {NumBus, NumDevice, NumFunction} \subseteq Nat \ {0} /\ NumFunction <= NumBus
  /\ Capacity \in Nat /\ ConfigSpaces \subseteq Scan!ConfigSpace
  /\ {Rows, Columns} \subseteq Nat \ {0, 1}
  /\ CursorRows \subseteq 2 .. Rows - 1

-----------------------------------------------------------------------------
Init ==
  /\ Scan!Init
  /\ Con!Init
  /\ mouse_cursor = [row \in CursorRows |-> "none"]
  /\ main = "Welcome"
  /\ i = 0

\* Mutant: a blank line after each line.
printkBlankLine(line, at) ==
  /\ Con!PutString(<<line, Newline, Newline>>)
  /\ main' = at

\* printk formats a line and passes it to the console; statement at is next.
printk(line, at) ==
  /\ Con!PutString(<<line, Newline>>)
  /\ main' = at

\* main.cc:115
SayWelcome ==
  /\ main = "Welcome"
  /\ printk(Welcome, "Cursor")
  /\ UNCHANGED <<scanVars, mouse_cursor, i>>

\* main.cc:122-130.  Drawn when the welcome is, over whatever its rows show.
DrawCursor ==
  /\ main = "Cursor" /\ console_pc = "Idle"
  /\ mouse_cursor' = [row \in CursorRows |-> "above"]
  /\ main' = "ScanAllBus"
  /\ UNCHANGED <<scanVars, consoleVars, i>>

\* main.cc:136
ScanAllBus ==
  /\ main = "ScanAllBus"
  /\ Scan!Next
  /\ UNCHANGED <<consoleVars, mouse_cursor, main, i>>

\* main.cc:138
SayResult ==
  /\ main = "ScanAllBus" /\ scan_pc = "Done"
  /\ printk(Result(err), "Devices")
  /\ UNCHANGED <<scanVars, mouse_cursor, i>>

\* main.cc:140-147
ShowDevice ==
  /\ main = "Devices"
  /\ i < Len(devices)
  /\ printk(DeviceLine(devices[i + 1]), "Devices")
  /\ i' = i + 1
  /\ UNCHANGED <<scanVars, mouse_cursor>>

\* Mutants: the loop ends one device early; it does not end at the last one.
HaltEarly ==
  /\ main = "Devices" /\ console_pc = "Idle"
  /\ i + 1 >= Len(devices)
  /\ main' = "Halt"
  /\ UNCHANGED <<scanVars, consoleVars, mouse_cursor, i>>
HaltPastEnd ==
  /\ main = "Devices" /\ console_pc = "Idle"
  /\ i > Len(devices)
  /\ main' = "Halt"
  /\ UNCHANGED <<scanVars, consoleVars, mouse_cursor, i>>

\* main.cc:153
Halt ==
  /\ main = "Devices" /\ console_pc = "Idle"
  /\ i >= Len(devices)
  /\ main' = "Halt"
  /\ UNCHANGED <<scanVars, consoleVars, mouse_cursor, i>>

\* A call of the console runs.  What it draws in a row is drawn over the mouse cursor;
\* a scroll first paints all the rows.
InConsole ==
  /\ Con!Step
  /\ mouse_cursor' =
       [row \in CursorRows |->
          IF Con!Scroll THEN "none"
          ELSE IF mouse_cursor[row] = "above" /\ screen'[row] # screen[row] THEN "below"
          ELSE mouse_cursor[row]]
  /\ UNCHANGED <<scanVars, main, i>>

Next ==
  SayWelcome \/ DrawCursor \/ ScanAllBus \/ SayResult \/ ShowDevice \/ Halt \/ InConsole

\* Fairness: interrupts are not used, so nothing preempts KernelMain.
Spec == Init /\ [][Next]_vars /\ WF_vars(Next)

-----------------------------------------------------------------------------
\* The output of KernelMain, line by line.
Report ==
  <<Welcome, Result(err)>> \o [k \in 1 .. Len(devices) |-> DeviceLine(devices[k])]

\* At the hlt loop of KernelMain the console shows the whole report and nothing else, a
\* row per line from the top, and its rows show the mouse cursor: below the text of the
\* lines that have come to its place, none of which it is drawn over.  (The edge of the
\* cursor is black, as the text is, so some of their dots cannot be told from it.  With
\* the sizes of the code, 32 entries and 25 rows, a full array does not get here: Report
\* has too many lines.)
ScreenIsReport ==
  main = "Halt" =>
    /\ \A row \in Con!Row, column \in Con!Column :
         screen[row][column] =
           IF row < Len(Report) /\ column = 0 THEN {Report[row + 1]} ELSE {}
    /\ \A row \in CursorRows :
         mouse_cursor[row] = IF row < Len(Report) THEN "below" ELSE "above"

\* When KernelMain reaches its hlt loop after a successful scan, every function
\* a scan of this machine should see has its line on the screen.
EveryFunctionShown ==
  main = "Halt" /\ err = "kSuccess" =>
    \A loc \in Scan!Visible(config) :
      \E row \in Con!Row, h \in BOOLEAN :
        <<"device", loc[1], loc[2], loc[3], h>> \in screen[row][0]

\* The console stops KernelMain only when the report has as many lines as the
\* screen has rows: Rows - 3 devices can be shown, and no more.
StopsWhenScreenFull ==
  /\ console_pc = "Halted" => Len(devices) > Rows - 3
  /\ main = "Halt" => Len(devices) <= Rows - 3

\* KernelMain gets to a hlt loop: its own, or the one of _exit.
ComesToRest == <>(main = "Halt" \/ console_pc = "Halted")
=============================================================================
