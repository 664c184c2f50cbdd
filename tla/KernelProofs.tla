---------------------------- MODULE KernelProofs ----------------------------
(***************************************************************************)
(* KernelMain, for every machine and every size of the screen and of the   *)
(* array of devices: what its hlt loop leaves on the screen, and when the  *)
(* screen is too small for it.                                             *)
(*                                                                         *)
(* What is known of the scan and of the console comes from their own       *)
(* proofs, SP and CP; Scan and Con, Kernel's, are the same state machines. *)
(* The texts of KernelMain need no history: what the lines before the      *)
(* cursor are follows from the statement KernelMain is at (Lit).           *)
(***************************************************************************)
EXTENDS Kernel, Integers, TLAPS

SP == INSTANCE PciScanProofs WITH pc <- scan_pc
CP == INSTANCE ConsoleProofs WITH
  pc <- console_pc, Char <- Line, Ascii <- Line,
  NUL <- <<"null">>, NL <- Newline, Strings <- {<<l, Newline>> : l \in Line},
  MaxText <- 0, printed <- <<>>

-----------------------------------------------------------------------------
(***************************************************************************)
(* The scan                                                                *)
(***************************************************************************)
LEMMA SameScanInit == Scan!Init <=> SP!Init
BY DEF Scan!Init, SP!Init

LEMMA SameScanNext == Scan!Next <=> SP!Next
<1>reads. /\ \A c, b, d, f : /\ Scan!Present(c, b, d, f) = SP!Present(c, b, d, f)
                             /\ Scan!ReadHeaderType(c, b, d, f) = SP!ReadHeaderType(c, b, d, f)
                             /\ Scan!IsBridge(c, b, d, f) = SP!IsBridge(c, b, d, f)
                             /\ Scan!SecondaryBus(c, b, d, f) = SP!SecondaryBus(c, b, d, f)
          /\ \A h : Scan!IsSingleFunctionDevice(h) <=> SP!IsSingleFunctionDevice(h)
          /\ Scan!top = SP!top
  BY DEF Scan!Present, SP!Present, Scan!ReadHeaderType, SP!ReadHeaderType,
     Scan!IsBridge, SP!IsBridge, Scan!SecondaryBus, SP!SecondaryBus,
     Scan!IsSingleFunctionDevice, SP!IsSingleFunctionDevice, Scan!top, SP!top
<1>call. ASSUME NEW bus PROVE Scan!CallScanBus(bus) <=> SP!CallScanBus(bus)
  BY DEF Scan!CallScanBus, SP!CallScanBus
<1>continue. ASSUME NEW d, NEW f, NEW at PROVE Scan!Continue(d, f, at) <=> SP!Continue(d, f, at)
  BY <1>reads DEF Scan!Continue, SP!Continue
<1>add. Scan!AddDevice <=> SP!AddDevice
  BY <1>reads DEF Scan!AddDevice, SP!AddDevice, Scan!ArrayFull, SP!ArrayFull
<1>1. Scan!ScanAllBus <=> SP!ScanAllBus
  BY <1>reads, <1>call DEF Scan!ScanAllBus, SP!ScanAllBus
<1>2. Scan!ScanHosts <=> SP!ScanHosts
  BY <1>reads, <1>call DEF Scan!ScanHosts, SP!ScanHosts
<1>3. Scan!ScanBus <=> SP!ScanBus
  BY <1>reads, <1>continue DEF Scan!ScanBus, SP!ScanBus
<1>4. Scan!ScanFunction <=> SP!ScanFunction
  BY <1>reads, <1>call, <1>add
     DEF Scan!ScanFunction, SP!ScanFunction, Scan!ArrayFull, SP!ArrayFull
<1>5. Scan!ScanDevice <=> SP!ScanDevice
  BY <1>reads, <1>continue DEF Scan!ScanDevice, SP!ScanDevice
<1>6. Scan!NextFunction <=> SP!NextFunction
  BY <1>reads, <1>continue DEF Scan!NextFunction, SP!NextFunction
<1>7. Scan!Return <=> SP!Return
  BY DEF Scan!Return, SP!Return
<1> QED BY <1>1, <1>2, <1>3, <1>4, <1>5, <1>6, <1>7 DEF Scan!Next, SP!Next

\* The assumptions of the scan's modules.
LEMMA ScanAssumptions ==
  /\ NumBus \in Nat \ {0} /\ NumDevice \in Nat \ {0} /\ NumFunction \in Nat \ {0}
  /\ NumFunction <= NumBus /\ Capacity \in Nat /\ ConfigSpaces \subseteq SP!ConfigSpace
BY KernelSizes DEF Scan!ConfigSpace, SP!ConfigSpace, Scan!Location, SP!Location,
   Scan!Registers, SP!Registers, Scan!Absent, SP!Absent, Scan!Bus, SP!Bus,
   Scan!DeviceNo, SP!DeviceNo, Scan!FunctionNo, SP!FunctionNo

ScanKnown == SP!TInv /\ SP!Sound /\ SP!FullInv /\ SP!Complete

LEMMA ScanStarts == Scan!Init => ScanKnown
BY SameScanInit, ScanAssumptions, SP!TInvInit, SP!SoundInit, SP!DepthAndFullInit,
   SP!CompleteInit DEF ScanKnown

LEMMA ScanStays == ScanKnown /\ [Scan!Next]_(Scan!vars) => ScanKnown'
<1> SUFFICES ASSUME ScanKnown, [Scan!Next]_(Scan!vars) PROVE ScanKnown'
  OBVIOUS
<1>0. [SP!Next]_(SP!vars)
  BY SameScanNext DEF Scan!vars, SP!vars
<1>1. SP!TInv' /\ SP!Sound'
  BY <1>0, ScanAssumptions, SP!TInvNext, SP!SoundNext DEF ScanKnown
<1>2. SP!FullInv'
  BY <1>0, ScanAssumptions, SP!FullNext DEF ScanKnown
<1>3. err' = "kSuccess" => SP!Chains' /\ SP!Asked'
  BY <1>0, ScanAssumptions, SP!CompleteNext DEF ScanKnown
<1> QED BY <1>1, <1>2, <1>3 DEF ScanKnown, SP!Complete

LEMMA ScanTypes ==
  ASSUME ScanKnown
  PROVE  devices \in Seq(Scan!Device) /\ err \in Scan!Error
<1>1. devices \in Seq(SP!Device) /\ err \in SP!Error
  BY DEF ScanKnown, SP!TInv, SP!TypeOK
<1>2. SP!Device = Scan!Device /\ SP!Error = Scan!Error
  BY DEF SP!Device, Scan!Device, SP!Error, Scan!Error, SP!Bus, Scan!Bus,
     SP!DeviceNo, Scan!DeviceNo, SP!FunctionNo, Scan!FunctionNo
<1> QED BY <1>1, <1>2

-----------------------------------------------------------------------------
(***************************************************************************)
(* The console                                                             *)
(***************************************************************************)
LEMMA SameConsoleInit == Con!Init <=> CP!Init
BY DEF Con!Init, CP!Init, Con!EmptyRow, CP!EmptyRow, Con!BlankRow, CP!BlankRow,
   Con!Row, CP!Row, Con!Column, CP!Column

LEMMA SamePutString == \A s : Con!PutString(s) <=> CP!PutString(s)
BY DEF Con!PutString, CP!PutString

LEMMA SameConsoleSteps ==
  /\ Con!PutChar <=> CP!PutChar
  /\ Con!DropChar <=> CP!DropChar
  /\ Con!NewLine <=> CP!NewLine
  /\ Con!Scroll <=> CP!Scroll
  /\ Con!Return <=> CP!Return
<1>take. \A c : Con!Take(c) <=> CP!Take(c)
  BY DEF Con!Take, CP!Take
<1>write. \A d, c : Con!WriteAscii(d, c) = CP!WriteAscii(d, c)
  BY DEF Con!WriteAscii, CP!WriteAscii, Con!HasGlyph, CP!HasGlyph
<1>sizes. Con!Row = CP!Row /\ Con!Column = CP!Column
  BY DEF Con!Row, CP!Row, Con!Column, CP!Column
<1>blank. Con!EmptyRow = CP!EmptyRow /\ Con!BlankRow = CP!BlankRow
  BY <1>sizes DEF Con!EmptyRow, CP!EmptyRow, Con!BlankRow, CP!BlankRow
<1>len. \A row : Con!StrLen(row) = CP!StrLen(row)
  BY DEF Con!StrLen, CP!StrLen
<1>string. /\ \A row : Con!WriteString(row) = CP!WriteString(row)
           /\ \A row : Con!WriteStringReturns(row) <=> CP!WriteStringReturns(row)
  BY <1>write, <1>sizes, <1>len
     DEF Con!WriteString, CP!WriteString, Con!WriteStringReturns, CP!WriteStringReturns
<1>scroll. Con!Redrawn = CP!Redrawn /\ (Con!AllRedrawn <=> CP!AllRedrawn)
  BY <1>string DEF Con!Redrawn, CP!Redrawn, Con!AllRedrawn, CP!AllRedrawn
<1>1. Con!PutChar <=> CP!PutChar
  BY <1>take, <1>write DEF Con!PutChar, CP!PutChar
<1>2. Con!DropChar <=> CP!DropChar
  BY <1>take DEF Con!DropChar, CP!DropChar
<1>3. Con!NewLine <=> CP!NewLine
  BY <1>take DEF Con!NewLine, CP!NewLine
<1>4. Con!Scroll <=> CP!Scroll
  BY <1>take, <1>sizes, <1>blank, <1>string, <1>scroll DEF Con!Scroll, CP!Scroll
<1>5. Con!Return <=> CP!Return
  BY DEF Con!Return, CP!Return
<1> QED BY <1>1, <1>2, <1>3, <1>4, <1>5

\* The lines and the two special characters are all different.
LEMMA Characters ==
  ASSUME NEW l \in Line PROVE l # Newline /\ l # <<"null">>
<1>1. Welcome # Newline /\ Welcome # <<"null">>
  BY DEF Welcome, Newline
<1>2. \A e : Result(e) # Newline /\ Result(e) # <<"null">>
  BY DEF Result, Newline
<1>3. \A d : DeviceLine(d) # Newline /\ DeviceLine(d) # <<"null">>
  BY DEF DeviceLine, Newline
<1> QED BY <1>1, <1>2, <1>3 DEF Line

\* The assumptions of the console's module.
LEMMA ConsoleAssumptions ==
  /\ Rows \in Nat \ {0} /\ Columns \in Nat \ {0} /\ Rows > 1 /\ Columns > 1
  /\ Line \subseteq Line
  /\ <<"null">> \notin Line /\ Newline \notin Line /\ <<"null">> # Newline
  /\ {<<l, Newline>> : l \in Line} \subseteq Seq(Line \union {Newline})
<1>1. Rows \in Nat \ {0} /\ Columns \in Nat \ {0} /\ Rows > 1 /\ Columns > 1
  BY KernelSizes
<1>2. <<"null">> # Newline
  BY DEF Newline
<1>3. \A l \in Line : <<l, Newline>> \in Seq(Line \union {Newline})
  OBVIOUS
<1> QED BY <1>1, <1>2, <1>3, Characters

LEMMA ConsoleStarts == Con!Init => CP!IInv
BY SameConsoleInit, ConsoleAssumptions, CP!InitRight

\* A call that writes a line, and the steps of a call.
LEMMA ConsoleStays ==
  ASSUME CP!IInv, (\E l \in Line : Con!PutString(<<l, Newline>>)) \/ Con!Step \/ UNCHANGED consoleVars
  PROVE  CP!IInv'
<1>1. [CP!Next]_(CP!vars)
  BY SamePutString, SameConsoleSteps
     DEF Con!Step, CP!Step, CP!Next, CP!vars, consoleVars
<1> QED BY <1>1, ConsoleAssumptions, CP!NextRight

LEMMA ConsoleScroll == ASSUME CP!IInv, Con!Scroll PROVE console_pc' = "Halted"
BY SameConsoleSteps, ConsoleAssumptions, CP!ScrollStops

LEMMA ConsoleTypes ==
  ASSUME CP!IInv
  PROVE  /\ cursor_row \in Con!Row /\ screen \in [Con!Row -> [Con!Column -> SUBSET Line]]
         /\ 0 \in Con!Row /\ 0 \in Con!Column /\ 0 < Columns - 1
<1>1. cursor_row \in CP!Row /\ screen \in [CP!Row -> [CP!Column -> SUBSET Line]]
  BY DEF CP!IInv, CP!TypeOK
<1>2. CP!Row = Con!Row /\ CP!Column = Con!Column
  BY DEF CP!Row, Con!Row, CP!Column, Con!Column
<1>3. 0 \in Con!Row /\ 0 \in Con!Column /\ 0 < Columns - 1
  BY KernelSizes DEF Con!Row, Con!Column
<1> QED BY <1>1, <1>2, <1>3

-----------------------------------------------------------------------------
(***************************************************************************)
(* KernelMain's place in its report, and the console's in the line         *)
(***************************************************************************)
\* The lines of the report, from 0.
ReportLine(k) ==
  IF k = 0 THEN Welcome ELSE IF k = 1 THEN Result(err) ELSE DeviceLine(devices[k - 1])

\* How many of them KernelMain has passed to printk.
Said == IF main = "Welcome" THEN 0 ELSE IF main \in {"Cursor", "ScanAllBus"} THEN 1 ELSE 2 + i

\* The screen shows the first n lines, a row each, and nothing else.
Lit(n) ==
  \A row \in Con!Row, column \in Con!Column :
    screen[row][column] = IF row < n /\ column = 0 THEN {ReportLine(row)} ELSE {}

\* Where the console is with the last of the lines said: not called, about to put the
\* line, after the line and before its newline, after both, or stopped by the newline.
Resting   == console_pc = "Idle" /\ cursor_row = Said /\ cursor_column = 0 /\ Lit(Said)
Starting  == /\ console_pc = "PutString" /\ Said > 0
             /\ pending = <<ReportLine(Said - 1), Newline>> /\ ReportLine(Said - 1) \in Line
             /\ cursor_row = Said - 1 /\ cursor_column = 0 /\ Lit(Said - 1)
Ending    == /\ console_pc = "PutString" /\ pending = <<Newline>> /\ Said > 0
             /\ cursor_row = Said - 1 /\ cursor_column = 1 /\ Lit(Said)
Returning == /\ console_pc = "PutString" /\ pending = <<>>
             /\ cursor_row = Said /\ cursor_column = 0 /\ Lit(Said)
Stopped   == console_pc = "Halted" /\ Said >= Rows

Saying == Resting \/ Starting \/ Ending \/ Returning \/ Stopped

\* Where KernelMain is.
Progress ==
  /\ i \in 0 .. Len(devices)
  /\ main \in {"Welcome", "Cursor", "ScanAllBus", "Devices", "Halt"}
  /\ main \in {"Welcome", "Cursor", "ScanAllBus"} => i = 0
  /\ main \in {"Welcome", "ScanAllBus"} => console_pc = "Idle"
  /\ main \in {"Devices", "Halt"} => scan_pc = "Done"
  /\ main = "Halt" => console_pc = "Idle" /\ i = Len(devices)

KernelInv == ScanKnown /\ CP!IInv /\ Progress /\ Saying

LEMMA SaidNat == ScanKnown /\ Progress => Said \in Nat /\ Len(devices) \in Nat /\ i \in Nat
<1> SUFFICES ASSUME ScanKnown, Progress PROVE Said \in Nat /\ Len(devices) \in Nat /\ i \in Nat
  OBVIOUS
<1>1. Len(devices) \in Nat
  BY ScanTypes
<1>2. i \in Nat
  BY <1>1 DEF Progress
<1> QED BY <1>1, <1>2 DEF Said

LEMMA LineStays == ASSUME UNCHANGED <<err, devices>> PROVE \A k : ReportLine(k)' = ReportLine(k)
BY DEF ReportLine, Result, DeviceLine

\* Nothing that is drawn changes: neither do the lines shown.
LEMMA LitStays ==
  ASSUME UNCHANGED <<err, devices, screen>>, NEW n \in Nat, Lit(n)
  PROVE  \A row \in Con!Row, column \in Con!Column :
           screen'[row][column] = IF row < n /\ column = 0 THEN {ReportLine(row)'} ELSE {}
BY LineStays DEF Lit

\* printk starts on the next line.
LEMMA LineSaid ==
  ASSUME Saying, Said \in Nat, ReportLine(Said) \in Line,
         Con!PutString(<<ReportLine(Said), Newline>>),
         UNCHANGED <<err, devices>>, Said' = Said + 1
  PROVE  Starting'
<1> DEFINE n == Said
           l == ReportLine(n)
<1>1. /\ console_pc = "Idle" /\ console_pc' = "PutString" /\ pending' = <<l, Newline>>
      /\ UNCHANGED <<buffer, cursor_row, cursor_column, screen>>
  BY DEF Con!PutString
<1>2. cursor_row = n /\ cursor_column = 0 /\ Lit(n)
  BY <1>1 DEF Saying, Resting, Starting, Ending, Returning, Stopped
<1>3. ReportLine(Said - 1)' = l
  <2>1. Said' - 1 = n
    OBVIOUS
  <2> QED BY <2>1, LineStays DEF ReportLine, Result, DeviceLine
<1>4. Lit(Said - 1)'
  <2>1. \A row \in Con!Row, column \in Con!Column :
           screen'[row][column] = IF row < n /\ column = 0 THEN {ReportLine(row)'} ELSE {}
    BY <1>1, <1>2, LitStays
  <2>2. Said' - 1 = n
    OBVIOUS
  <2> HIDE DEF n
  <2> QED BY <2>1, <2>2 DEF Lit
<1> QED BY <1>1, <1>2, <1>3, <1>4 DEF Starting

\* PutString puts the line's character in the cursor's cell.
LEMMA PutCharSays ==
  ASSUME CP!IInv, Starting, Said \in Nat, Con!PutChar, UNCHANGED <<err, devices, main, i>>
  PROVE  Ending'
<1> DEFINE n == Said - 1
           l == ReportLine(n)
<1>0. /\ pending = <<l, Newline>> /\ n \in Nat /\ n = cursor_row /\ cursor_column = 0
      /\ Lit(n) /\ console_pc = "PutString" /\ Said' = Said
  BY DEF Starting, Said
<1>1. PICK c \in Line :
        /\ c = Head(pending) /\ pending' = Tail(pending)
        /\ screen' = [screen EXCEPT ![cursor_row][cursor_column] = Con!WriteAscii(@, c)]
  BY DEF Con!PutChar, Con!Take
<1>2. /\ UNCHANGED <<cursor_row, console_pc>> /\ cursor_column' = cursor_column + 1
  BY DEF Con!PutChar
<1>3. c = l /\ pending' = <<Newline>>
  BY <1>0, <1>1
<1>4. /\ cursor_row \in Con!Row /\ screen \in [Con!Row -> [Con!Column -> SUBSET Line]]
      /\ 0 \in Con!Column
  BY ConsoleTypes
<1>5. Con!WriteAscii({}, l) = {l}
  BY <1>1, <1>3 DEF Con!WriteAscii, Con!HasGlyph
<1> HIDE DEF n, l
<1>6. screen[n][0] = {}
  <2>1. n \in Con!Row /\ ~(n < n)
    BY <1>0, <1>4
  <2> QED BY <1>0, <1>4, <2>1 DEF Lit
<1>7. screen' = [screen EXCEPT ![n][0] = {l}]
  BY <1>0, <1>1, <1>3, <1>5, <1>6
<1>8. ASSUME NEW row \in Con!Row, NEW column \in Con!Column
      PROVE  screen'[row][column] = IF row < n + 1 /\ column = 0 THEN {ReportLine(row)'} ELSE {}
  <2>0. row \in Int /\ column \in Int
    BY DEF Con!Row, Con!Column
  <2>1. screen[row][column] = IF row < n /\ column = 0 THEN {ReportLine(row)} ELSE {}
    BY <1>0 DEF Lit
  <2>2. ReportLine(row)' = ReportLine(row)
    BY LineStays
  <2>3. CASE row = n /\ column = 0
    <3>1. screen'[row][column] = {l}
      BY <1>0, <1>4, <1>7, <2>3
    <3> QED BY <1>0, <2>2, <2>3, <3>1 DEF l
  <2>4. CASE ~(row = n /\ column = 0)
    <3>1. screen'[row][column] = screen[row][column]
      BY <1>0, <1>4, <1>7, <2>4
    <3>2. row < n + 1 /\ column = 0 <=> row < n /\ column = 0
      BY <1>0, <2>0, <2>4
    <3> QED BY <2>1, <2>2, <3>1, <3>2
  <2> QED BY <2>3, <2>4
<1>9. Said' = n + 1 /\ Said' > 0 /\ cursor_row' = Said' - 1 /\ cursor_column' = 1
  BY <1>0, <1>2 DEF n
<1>10. Lit(Said)'
  BY <1>8, <1>9 DEF Lit
<1> QED BY <1>0, <1>2, <1>3, <1>9, <1>10 DEF Ending

\* NewLine puts the cursor at the start of the row below.
LEMMA NewLineSays ==
  ASSUME Ending, Said \in Nat, Con!NewLine, UNCHANGED <<err, devices, main, i>>
  PROVE  Returning'
<1>1. /\ pending = <<Newline>> /\ cursor_row = Said - 1 /\ Lit(Said) /\ console_pc = "PutString"
      /\ Said' = Said
  BY DEF Ending, Said
<1>2. /\ pending' = Tail(pending) /\ cursor_row' = cursor_row + 1 /\ cursor_column' = 0
      /\ UNCHANGED <<screen, console_pc>>
  BY DEF Con!NewLine, Con!Take
<1>3. pending' = <<>> /\ cursor_row' = Said'
  BY <1>1, <1>2
<1> DEFINE n == Said
<1>4. \A row \in Con!Row, column \in Con!Column :
         screen'[row][column] = IF row < n /\ column = 0 THEN {ReportLine(row)'} ELSE {}
  BY <1>1, <1>2, LitStays
<1>5. Lit(Said)'
  BY <1>1, <1>4 DEF Lit
<1> QED BY <1>1, <1>2, <1>3, <1>5 DEF Returning

\* On the last row it stops the machine.
LEMMA ScrollSays ==
  ASSUME CP!IInv, Ending, Said \in Nat, Con!Scroll, UNCHANGED <<main, i>>
  PROVE  Stopped'
<1>1. console_pc' = "Halted"
  BY ConsoleScroll
<1>2. cursor_row >= Rows - 1 /\ cursor_row = Said - 1
  BY DEF Con!Scroll, Ending
<1>3. Said' = Said
  BY DEF Said
<1>4. Said >= Rows
  BY <1>2, KernelSizes
<1> QED BY <1>1, <1>3, <1>4 DEF Stopped

LEMMA ReturnSays ==
  ASSUME Returning, Said \in Nat, Con!Return, UNCHANGED <<err, devices, main, i>>
  PROVE  Resting'
<1>1. Said' = Said /\ Lit(Said)
  BY DEF Said, Returning
<1>2. console_pc' = "Idle" /\ UNCHANGED <<cursor_row, cursor_column, screen>>
  BY DEF Con!Return
<1> DEFINE n == Said
<1>3. \A row \in Con!Row, column \in Con!Column :
         screen'[row][column] = IF row < n /\ column = 0 THEN {ReportLine(row)'} ELSE {}
  BY <1>1, <1>2, LitStays
<1>4. Lit(Said)'
  BY <1>1, <1>3 DEF Lit
<1> QED BY <1>1, <1>2, <1>4 DEF Resting, Returning

\* Each step of the console is possible at one point of a line only.
LEMMA StepOfLine ==
  ASSUME CP!IInv, Saying, Con!Step
  PROVE  \/ Starting /\ Con!PutChar
         \/ Ending /\ (Con!NewLine \/ Con!Scroll)
         \/ Returning /\ Con!Return
<1>0. console_pc = "PutString"
  BY DEF Con!Step, Con!PutChar, Con!DropChar, Con!NewLine, Con!Scroll, Con!Return, Con!Take
<1>1. Starting \/ Ending \/ Returning
  BY <1>0 DEF Saying, Resting, Stopped
<1>2. CASE Starting
  <2>1. Head(pending) \in Line /\ pending # <<>> /\ cursor_column = 0
    BY <1>2 DEF Starting
  <2>2. Head(pending) # Newline
    BY <2>1, Characters
  <2>3. cursor_column < Columns - 1 /\ ~(cursor_column >= Columns - 1)
    BY <2>1, KernelSizes
  <2> QED BY <1>2, <2>1, <2>2, <2>3
       DEF Con!Step, Con!DropChar, Con!NewLine, Con!Scroll, Con!Return, Con!Take
<1>3. CASE Ending
  <2>1. Head(pending) = Newline /\ pending # <<>>
    BY <1>3 DEF Ending
  <2>2. Newline \notin Line
    BY Characters
  <2> QED BY <1>3, <2>1, <2>2 DEF Con!Step, Con!PutChar, Con!DropChar, Con!Return, Con!Take
<1>4. CASE Returning
  BY <1>4 DEF Returning, Con!Step, Con!PutChar, Con!DropChar, Con!NewLine, Con!Scroll, Con!Take
<1> QED BY <1>1, <1>2, <1>3, <1>4

\* A step of a call of the console.
LEMMA InConsoleRight == ASSUME KernelInv, InConsole PROVE KernelInv'
<1>1. /\ ScanKnown /\ CP!IInv /\ Progress /\ Saying /\ Con!Step
      /\ UNCHANGED <<scanVars, main, i>> /\ UNCHANGED <<err, devices, scan_pc>>
  BY DEF KernelInv, InConsole, scanVars
<1>2. ScanKnown' /\ CP!IInv'
  BY <1>1, ScanStays, ConsoleStays DEF scanVars, Scan!vars
<1>3. Said \in Nat
  BY <1>1, SaidNat
<1>4. Saying'
  BY <1>1, <1>3, StepOfLine, PutCharSays, NewLineSays, ScrollSays, ReturnSays DEF Saying
<1>5. console_pc = "PutString"
  BY <1>1 DEF Con!Step, Con!PutChar, Con!DropChar, Con!NewLine, Con!Scroll, Con!Return, Con!Take
<1>6. Progress'
  BY <1>1, <1>5 DEF Progress
<1> QED BY <1>2, <1>4, <1>6 DEF KernelInv

\* A line said by KernelMain.
LEMMA Speaking ==
  ASSUME KernelInv, NEW l \in Line, l = ReportLine(Said), Con!PutString(<<l, Newline>>),
         UNCHANGED scanVars, Said' = Said + 1, Progress'
  PROVE  KernelInv'
<1>1. /\ ScanKnown /\ CP!IInv /\ Progress /\ Saying
      /\ UNCHANGED <<err, devices>>
  BY DEF KernelInv, scanVars
<1>2. ScanKnown' /\ CP!IInv'
  BY <1>1, ScanStays, ConsoleStays DEF scanVars, Scan!vars
<1>3. Starting'
  BY <1>1, SaidNat, LineSaid
<1> QED BY <1>2, <1>3 DEF KernelInv, Saying

LEMMA SayWelcomeRight == ASSUME KernelInv, SayWelcome PROVE KernelInv'
<1>1. /\ main = "Welcome" /\ main' = "Cursor" /\ UNCHANGED <<scanVars, i>>
      /\ Con!PutString(<<Welcome, Newline>>)
  BY DEF SayWelcome, printk
<1>2. Said = 0 /\ Said' = Said + 1 /\ Welcome = ReportLine(Said)
  BY <1>1 DEF Said, ReportLine
<1>3. Welcome \in Line
  BY DEF Line
<1>4. Progress'
  BY <1>1 DEF KernelInv, Progress, scanVars
<1> QED BY <1>1, <1>2, <1>3, <1>4, Speaking

LEMMA SayResultRight == ASSUME KernelInv, SayResult PROVE KernelInv'
<1>1. /\ main = "ScanAllBus" /\ scan_pc = "Done" /\ main' = "Devices"
      /\ UNCHANGED <<scanVars, i>>
      /\ Con!PutString(<<Result(err), Newline>>)
  BY DEF SayResult, printk
<1>2. i = 0
  BY <1>1 DEF KernelInv, Progress
<1>3. Said = 1 /\ Said' = Said + 1 /\ Result(err) = ReportLine(Said)
  BY <1>1, <1>2 DEF Said, ReportLine
<1>4. Result(err) \in Line
  BY ScanTypes DEF KernelInv, Line
<1>5. Progress'
  BY <1>1 DEF KernelInv, Progress, scanVars
<1> QED BY <1>1, <1>3, <1>4, <1>5, Speaking

LEMMA ShowDeviceRight == ASSUME KernelInv, ShowDevice PROVE KernelInv'
<1>1. /\ main = "Devices" /\ main' = "Devices" /\ i < Len(devices) /\ i' = i + 1
      /\ UNCHANGED scanVars
      /\ Con!PutString(<<DeviceLine(devices[i + 1]), Newline>>)
  BY DEF ShowDevice, printk
<1>2. i \in Nat /\ Len(devices) \in Nat
  BY SaidNat DEF KernelInv
<1>3. Said = 2 + i /\ Said' = 2 + (i + 1)
  BY <1>1 DEF Said
<1>4. DeviceLine(devices[i + 1]) = ReportLine(Said)
  <2>1. (2 + i) - 1 = i + 1 /\ 2 + i # 0 /\ 2 + i # 1
    BY <1>2
  <2> QED BY <1>3, <2>1 DEF ReportLine
<1>5. DeviceLine(devices[i + 1]) \in Line
  <2>1. i + 1 \in 1 .. Len(devices)
    BY <1>1, <1>2
  <2>2. devices[i + 1] \in Scan!Device
    BY <2>1, ScanTypes DEF KernelInv
  <2> QED BY <2>2 DEF Line
<1>6. Progress'
  <2>1. i + 1 \in 0 .. Len(devices)
    BY <1>1, <1>2
  <2> QED BY <1>1, <2>1 DEF KernelInv, Progress, scanVars
<1>7. Said' = Said + 1
  BY <1>2, <1>3
<1> QED BY <1>1, <1>4, <1>5, <1>6, <1>7, Speaking

\* The console does not see the mouse cursor.
LEMMA DrawCursorRight == ASSUME KernelInv, DrawCursor PROVE KernelInv'
<1>1. /\ main = "Cursor" /\ main' = "ScanAllBus" /\ console_pc = "Idle"
      /\ UNCHANGED <<scanVars, consoleVars, i>>
      /\ ScanKnown /\ CP!IInv /\ Progress /\ Saying
  BY DEF DrawCursor, KernelInv
<1>2. /\ UNCHANGED <<err, devices, scan_pc, cursor_row, cursor_column, screen, console_pc>>
  BY <1>1 DEF scanVars, consoleVars
<1>3. ScanKnown' /\ CP!IInv'
  BY <1>1, ScanStays, ConsoleStays DEF scanVars, Scan!vars
<1>4. Said = 1 /\ Said' = 1
  BY <1>1 DEF Said
<1>5. Resting
  BY <1>1 DEF Saying, Starting, Ending, Returning, Stopped
<1>6. \A row \in Con!Row, column \in Con!Column :
         screen'[row][column] = IF row < 1 /\ column = 0 THEN {ReportLine(row)'} ELSE {}
  <2>1. 1 \in Nat /\ Lit(1)
    BY <1>4, <1>5 DEF Resting
  <2> QED BY <1>2, <2>1, LitStays
<1>7. Lit(Said)'
  BY <1>4, <1>6 DEF Lit
<1>8. Saying'
  BY <1>1, <1>2, <1>4, <1>5, <1>7 DEF Resting, Saying
<1>9. Progress'
  BY <1>1, <1>2 DEF Progress
<1> QED BY <1>3, <1>8, <1>9 DEF KernelInv

\* The scan runs between two calls of the console: what is on the screen is the welcome.
LEMMA ScanAllBusRight == ASSUME KernelInv, ScanAllBus PROVE KernelInv'
<1>1. /\ main = "ScanAllBus" /\ console_pc = "Idle" /\ Scan!Next
      /\ UNCHANGED <<consoleVars, main, i>>
      /\ ScanKnown /\ CP!IInv /\ Progress /\ Saying
  BY DEF ScanAllBus, KernelInv, Progress
<1>2. ScanKnown' /\ CP!IInv'
  BY <1>1, ScanStays, ConsoleStays
<1>3. i = 0 /\ i' = 0 /\ Said = 1 /\ Said' = 1
  BY <1>1 DEF Progress, Said
<1>4. Resting
  BY <1>1 DEF Saying, Starting, Ending, Returning, Stopped
<1>5. /\ UNCHANGED <<cursor_row, cursor_column, screen, console_pc>>
  BY <1>1 DEF consoleVars
<1>6. Lit(Said)'
  <2>1. ASSUME NEW row \in Con!Row, NEW column \in Con!Column
        PROVE  screen'[row][column] = IF row < 1 /\ column = 0 THEN {ReportLine(row)'} ELSE {}
    <3>1. screen'[row][column] = IF row < 1 /\ column = 0 THEN {ReportLine(row)} ELSE {}
      BY <1>3, <1>4, <1>5 DEF Resting, Lit
    <3>2. row < 1 => row = 0
      BY DEF Con!Row
    <3>3. row = 0 => ReportLine(row) = Welcome /\ ReportLine(row)' = Welcome
      BY DEF ReportLine
    <3> QED BY <3>1, <3>2, <3>3
  <2> QED BY <1>3, <2>1 DEF Lit
<1>7. Saying'
  BY <1>3, <1>4, <1>5, <1>6 DEF Resting, Saying
<1>8. Progress'
  <2>1. (devices \in Seq(SP!Device))'
    BY <1>2 DEF ScanKnown, SP!TInv, SP!TypeOK
  <2> QED BY <1>1, <1>3, <1>5, <2>1 DEF Progress
<1> QED BY <1>2, <1>7, <1>8 DEF KernelInv

\* The loop ends when the last device has its line.
LEMMA HaltRight == ASSUME KernelInv, Halt PROVE KernelInv'
<1>1. /\ main = "Devices" /\ main' = "Halt" /\ console_pc = "Idle" /\ i >= Len(devices)
      /\ UNCHANGED <<scanVars, consoleVars, i>>
      /\ ScanKnown /\ CP!IInv /\ Progress /\ Saying
  BY DEF Halt, KernelInv
<1>2. /\ UNCHANGED <<err, devices, scan_pc, cursor_row, cursor_column, screen, console_pc>>
  BY <1>1 DEF scanVars, consoleVars
<1>3. ScanKnown' /\ CP!IInv'
  BY <1>1, ScanStays, ConsoleStays DEF scanVars, Scan!vars
<1>4. Said = 2 + i /\ Said' = 2 + i /\ i \in Nat
  BY <1>1, SaidNat DEF Said
<1>5. Resting
  BY <1>1 DEF Saying, Starting, Ending, Returning, Stopped
<1> DEFINE n == 2 + i
<1>6. \A row \in Con!Row, column \in Con!Column :
         screen'[row][column] = IF row < n /\ column = 0 THEN {ReportLine(row)'} ELSE {}
  <2>1. n \in Nat /\ Lit(n)
    BY <1>4, <1>5 DEF Resting
  <2> HIDE DEF n
  <2> QED BY <1>2, <2>1, LitStays
<1>7. Lit(Said)'
  BY <1>4, <1>6 DEF Lit
<1>8. Saying'
  BY <1>2, <1>4, <1>5, <1>7, <1>1 DEF Resting, Saying
<1>9. Progress'
  <2>1. Len(devices) \in Nat
    BY <1>1, SaidNat
  <2> QED BY <1>1, <1>2, <2>1 DEF Progress
<1> QED BY <1>3, <1>8, <1>9 DEF KernelInv

LEMMA KernelStill == ASSUME KernelInv, UNCHANGED vars PROVE KernelInv'
<1>1. /\ UNCHANGED <<scanVars, consoleVars, main, i>>
      /\ ScanKnown /\ CP!IInv /\ Progress /\ Saying
  BY DEF KernelInv, vars
<1>2. ScanKnown' /\ CP!IInv'
  BY <1>1, ScanStays, ConsoleStays DEF scanVars, Scan!vars
<1>3. UNCHANGED <<err, devices, scan_pc, cursor_row, cursor_column, screen, pending, console_pc>>
  BY <1>1 DEF scanVars, consoleVars
<1>4. Progress' /\ Said' = Said
  BY <1>1, <1>3 DEF Progress, Said
<1>5. \A k : ReportLine(k)' = ReportLine(k)
  BY <1>3, LineStays
<1>6. \A n : Lit(n) => \A row \in Con!Row, column \in Con!Column :
         screen'[row][column] = IF row < n /\ column = 0 THEN {ReportLine(row)'} ELSE {}
  BY <1>3, <1>5 DEF Lit
<1>7. Lit(Said) => Lit(Said)'
  BY <1>4, <1>6 DEF Lit
<1>8. Lit(Said - 1) => Lit(Said - 1)'
  BY <1>4, <1>6 DEF Lit
<1>9. ReportLine(Said - 1)' = ReportLine(Said - 1)
  BY <1>3, <1>4 DEF ReportLine, Result, DeviceLine
<1>10. Saying'
  <2>1. CASE Resting
    BY <1>3, <1>4, <1>7, <2>1 DEF Resting, Saying
  <2>2. CASE Starting
    BY <1>3, <1>4, <1>8, <1>9, <2>2 DEF Starting, Saying
  <2>3. CASE Ending
    BY <1>3, <1>4, <1>7, <2>3 DEF Ending, Saying
  <2>4. CASE Returning
    BY <1>3, <1>4, <1>7, <2>4 DEF Returning, Saying
  <2>5. CASE Stopped
    BY <1>3, <1>4, <2>5 DEF Stopped, Saying
  <2> QED BY <1>1, <2>1, <2>2, <2>3, <2>4, <2>5 DEF Saying
<1> QED BY <1>2, <1>4, <1>10 DEF KernelInv

LEMMA KernelStart == Init => KernelInv
<1> SUFFICES ASSUME Init PROVE KernelInv
  OBVIOUS
<1>1. ScanKnown /\ CP!IInv
  BY ScanStarts, ConsoleStarts DEF Init
<1>2. /\ devices = <<>> /\ i = 0 /\ main = "Welcome" /\ console_pc = "Idle"
      /\ cursor_row = 0 /\ cursor_column = 0
      /\ screen = [row \in Con!Row |-> Con!BlankRow]
  BY DEF Init, Scan!Init, Con!Init
<1>3. Progress
  BY <1>2 DEF Progress
<1>4. Said = 0
  BY <1>2 DEF Said
<1>5. Lit(0)
  BY <1>2 DEF Lit, Con!BlankRow, Con!Row
<1>6. Resting
  BY <1>2, <1>4, <1>5 DEF Resting
<1> QED BY <1>1, <1>3, <1>6 DEF KernelInv, Saying

LEMMA KernelNext == KernelInv /\ [Next]_vars => KernelInv'
BY SayWelcomeRight, DrawCursorRight, ScanAllBusRight, SayResultRight, ShowDeviceRight, HaltRight,
   InConsoleRight, KernelStill DEF Next

LEMMA KernelHolds == Spec => []KernelInv
BY KernelStart, KernelNext, PTL DEF Spec

-----------------------------------------------------------------------------
(***************************************************************************)
(* The mouse cursor                                                        *)
(***************************************************************************)
\* It is above nothing, and below what its rows show.
CursorInv ==
  /\ mouse_cursor \in [CursorRows -> {"none", "above", "below"}]
  /\ console_pc # "Halted" =>
       \A row \in CursorRows :
         mouse_cursor[row] = IF main \in {"Welcome", "Cursor"} THEN "none"
                             ELSE IF screen[row][0] = {} THEN "above" ELSE "below"

\* The lines said so far do not come to the rows from n on.
LEMMA RowsBelow ==
  ASSUME KernelInv, main = "Cursor", console_pc = "Idle", NEW row \in CursorRows
  PROVE  screen[row][0] = {}
<1>1. /\ row \in Con!Row /\ row \in Int /\ row >= 2 /\ 0 \in Con!Column
  BY KernelSizes DEF Con!Row, Con!Column
<1>2. Said = 1
  BY DEF Said
<1>3. Lit(1)
  BY <1>2 DEF KernelInv, Saying, Resting, Starting, Ending, Returning, Stopped
<1>4. screen[row][0] = IF row < 1 /\ 0 = 0 THEN {ReportLine(row)} ELSE {}
  BY <1>1, <1>3, Zenon DEF Lit
<1> QED BY <1>1, <1>4

\* A call of the console changes one cell of column 0 at most, from an empty one.
LEMMA ConsoleDraws ==
  ASSUME KernelInv, Con!Step, console_pc' # "Halted", NEW row \in Con!Row
  PROVE  /\ ~Con!Scroll
         /\ \/ screen'[row] = screen[row]
            \/ screen'[row] # screen[row] /\ screen'[row][0] # {} /\ row = cursor_row
<1>1. /\ CP!IInv /\ Saying
  BY DEF KernelInv
<1>2. ~Con!Scroll
  BY <1>1, ConsoleScroll
<1>3. CASE Con!NewLine \/ Con!Return
  BY <1>2, <1>3 DEF Con!NewLine, Con!Return
<1>4. CASE Starting /\ Con!PutChar
  <2>1. PICK c \in Line : screen' = [screen EXCEPT ![cursor_row][cursor_column] = Con!WriteAscii(@, c)]
    BY <1>4 DEF Con!PutChar
  <2>2. cursor_column = 0 /\ cursor_row \in Con!Row /\ 0 \in Con!Column
        /\ screen \in [Con!Row -> [Con!Column -> SUBSET Line]]
    BY <1>1, <1>4, ConsoleTypes DEF Starting
  <2>3. \A s : c \in Con!WriteAscii(s, c)
    BY DEF Con!WriteAscii, Con!HasGlyph
  <2>4. CASE row = cursor_row
    BY <1>2, <2>1, <2>2, <2>3, <2>4
  <2>5. CASE row # cursor_row
    BY <1>2, <2>1, <2>2, <2>5
  <2> QED BY <2>4, <2>5
<1> QED BY <1>1, <1>2, <1>3, <1>4, StepOfLine

LEMMA CursorStart == Init => CursorInv
BY DEF Init, CursorInv

LEMMA CursorNext == KernelInv /\ KernelInv' /\ CursorInv /\ [Next]_vars => CursorInv'
<1> SUFFICES ASSUME KernelInv, KernelInv', CursorInv, [Next]_vars PROVE CursorInv'
  OBVIOUS
<1>rows. CursorRows \subseteq Con!Row
  BY KernelSizes DEF Con!Row
<1>1. CASE InConsole
  <2>1. mouse_cursor' \in [CursorRows -> {"none", "above", "below"}]
    BY <1>1 DEF InConsole, CursorInv
  <2>2. ASSUME console_pc' # "Halted", NEW row \in CursorRows
        PROVE  mouse_cursor'[row] = IF main' \in {"Welcome", "Cursor"} THEN "none"
                                    ELSE IF screen'[row][0] = {} THEN "above" ELSE "below"
    <3>1. Con!Step /\ main' = main /\ row \in Con!Row /\ console_pc # "Halted"
      BY <1>1, <1>rows DEF InConsole, Con!Step, Con!PutChar, Con!DropChar, Con!NewLine, Con!Scroll,
         Con!Return, Con!Take
    <3>2. /\ ~Con!Scroll
          /\ screen'[row] = screen[row] \/ (screen'[row] # screen[row] /\ screen'[row][0] # {})
      BY <2>2, <3>1, ConsoleDraws
    <3>3. mouse_cursor'[row] = IF mouse_cursor[row] = "above" /\ screen'[row] # screen[row]
                                 THEN "below" ELSE mouse_cursor[row]
      BY <1>1, <3>2 DEF InConsole
    <3>4. mouse_cursor[row] = IF main \in {"Welcome", "Cursor"} THEN "none"
                              ELSE IF screen[row][0] = {} THEN "above" ELSE "below"
      BY <3>1 DEF CursorInv
    <3> QED BY <3>1, <3>2, <3>3, <3>4
  <2> QED BY <2>1, <2>2 DEF CursorInv
<1>2. CASE DrawCursor
  <2>1. \A row \in CursorRows : screen[row][0] = {}
    BY <1>2, RowsBelow DEF DrawCursor
  <2>2. screen' = screen /\ main' = "ScanAllBus" /\ mouse_cursor' = [row \in CursorRows |-> "above"]
    BY <1>2 DEF DrawCursor, consoleVars
  <2> QED BY <2>1, <2>2 DEF CursorInv
<1>3. CASE SayWelcome \/ SayResult \/ ShowDevice
  <2>1. /\ mouse_cursor' = mouse_cursor /\ screen' = screen /\ console_pc = "Idle"
        /\ main' \in {"Welcome", "Cursor"} <=> main \in {"Welcome", "Cursor"}
    BY <1>3 DEF SayWelcome, SayResult, ShowDevice, printk, Con!PutString
  <2> QED BY <2>1 DEF CursorInv
<1>4. CASE ScanAllBus \/ Halt \/ UNCHANGED vars
  <2>1. /\ mouse_cursor' = mouse_cursor /\ screen' = screen /\ console_pc' = console_pc
        /\ main' \in {"Welcome", "Cursor"} <=> main \in {"Welcome", "Cursor"}
    BY <1>4 DEF ScanAllBus, Halt, vars, consoleVars
  <2> QED BY <2>1 DEF CursorInv
<1> QED BY <1>1, <1>2, <1>3, <1>4 DEF Next

LEMMA CursorHolds == Spec => [](KernelInv /\ CursorInv)
<1>1. Init => KernelInv /\ CursorInv
  BY KernelStart, CursorStart
<1>2. (KernelInv /\ CursorInv) /\ [Next]_vars => (KernelInv /\ CursorInv)'
  BY KernelNext, CursorNext
<1> QED BY <1>1, <1>2, PTL DEF Spec

-----------------------------------------------------------------------------
(***************************************************************************)
(* What KernelMain leaves on the screen                                    *)
(***************************************************************************)
LEMMA ReportLines ==
  ASSUME KernelInv
  PROVE  /\ Len(Report) = 2 + Len(devices)
         /\ \A k \in 0 .. Len(devices) + 1 : Report[k + 1] = ReportLine(k)
<1> DEFINE first == <<Welcome, Result(err)>>
           rest  == [k \in 1 .. Len(devices) |-> DeviceLine(devices[k])]
<1>1. Len(devices) \in Nat
  BY SaidNat DEF KernelInv
<1>2. Len(rest) = Len(devices) /\ Len(first) = 2
  BY <1>1
<1>3. Len(Report) = 2 + Len(devices)
  BY <1>1, <1>2 DEF Report
<1>4. ASSUME NEW k \in 0 .. Len(devices) + 1 PROVE Report[k + 1] = ReportLine(k)
  <2>1. CASE k = 0
    BY <1>1, <2>1 DEF Report, ReportLine
  <2>2. CASE k = 1
    BY <1>1, <2>2 DEF Report, ReportLine
  <2>3. CASE k > 1
    <3>1. k - 1 \in 1 .. Len(devices) /\ k # 0 /\ k # 1
      BY <1>1, <2>3
    <3>2. Report[k + 1] = rest[k - 1]
      BY <1>1, <1>2, <3>1 DEF Report
    <3> QED BY <3>1, <3>2 DEF ReportLine
  <2> QED BY <1>1, <2>1, <2>2, <2>3
<1> QED BY <1>3, <1>4

\* At the hlt loop all lines have been said, and the console waits below the last.
LEMMA AtHalt ==
  ASSUME KernelInv, main = "Halt"
  PROVE  /\ Said = 2 + Len(devices) /\ Lit(2 + Len(devices)) /\ Len(devices) \in Nat
         /\ cursor_row = 2 + Len(devices)
<1>1. i = Len(devices) /\ console_pc = "Idle" /\ Len(devices) \in Nat
  BY SaidNat DEF KernelInv, Progress
<1>2. Said = 2 + Len(devices)
  BY <1>1 DEF Said
<1>3. Resting
  BY <1>1 DEF KernelInv, Saying, Starting, Ending, Returning, Stopped
<1> QED BY <1>1, <1>2, <1>3 DEF Resting

\* When KernelMain is at its hlt loop (main.cc:153) the console shows the welcome, the
\* result of the scan and a line per device, from the top and a row each, and nothing
\* else but the mouse cursor, which is below the lines that meet it: for every machine,
\* every size of screen and of the array of devices, and every place of the cursor.
THEOREM ReportOnScreen == Spec => []ScreenIsReport
<1>1. ASSUME KernelInv, main = "Halt", NEW row \in Con!Row, NEW column \in Con!Column
      PROVE  screen[row][column] =
               IF row < Len(Report) /\ column = 0 THEN {Report[row + 1]} ELSE {}
  <2> DEFINE n == 2 + Len(devices)
  <2>1. /\ screen[row][column] = IF row < n /\ column = 0 THEN {ReportLine(row)} ELSE {}
        /\ Len(devices) \in Nat
    BY <1>1, AtHalt DEF Lit
  <2>2. Len(Report) = n
    BY <1>1, ReportLines
  <2>3. row < n => Report[row + 1] = ReportLine(row)
    <3>1. row < n => row \in 0 .. Len(devices) + 1
      BY <2>1 DEF Con!Row
    <3> QED BY <1>1, <3>1, ReportLines
  <2> QED BY <2>1, <2>2, <2>3
<1>2. ASSUME KernelInv, CursorInv, main = "Halt", NEW row \in CursorRows
      PROVE  mouse_cursor[row] = IF row < Len(Report) THEN "below" ELSE "above"
  <2>1. row \in Con!Row /\ 0 \in Con!Column
    BY KernelSizes DEF Con!Row, Con!Column
  <2>2. screen[row][0] = IF row < Len(Report) THEN {Report[row + 1]} ELSE {}
    BY <1>1, <1>2, <2>1
  <2>3. console_pc = "Idle"
    BY <1>2 DEF KernelInv, Progress
  <2> QED BY <1>2, <2>2, <2>3 DEF CursorInv
<1>3. KernelInv /\ CursorInv => ScreenIsReport
  BY <1>1, <1>2 DEF ScreenIsReport
<1> QED BY <1>3, CursorHolds, PTL

\* The console stops the machine on the way (console.cc, a newline on the last row) when
\* the scan found more than Rows - 3 devices, and KernelMain comes to its hlt loop only
\* when it found no more.
THEOREM FullScreenStops == Spec => []StopsWhenScreenFull
<1>1. ASSUME KernelInv, console_pc = "Halted" PROVE Len(devices) > Rows - 3
  <2>1. Said >= Rows
    BY <1>1 DEF KernelInv, Saying, Resting, Starting, Ending, Returning, Stopped
  <2>2. /\ Progress /\ i \in Nat /\ Len(devices) \in Nat
    BY <1>1, SaidNat DEF KernelInv
  <2>3. Rows \in Nat /\ Rows > 1
    BY KernelSizes
  <2>4. i <= Len(devices)
    BY <2>2 DEF Progress
  <2>5. CASE main \in {"Welcome", "Cursor", "ScanAllBus"}
    BY <2>1, <2>3, <2>5 DEF Said
  <2>6. CASE main \notin {"Welcome", "Cursor", "ScanAllBus"}
    BY <2>1, <2>2, <2>3, <2>4, <2>6 DEF Said
  <2> QED BY <2>5, <2>6
<1>2. ASSUME KernelInv, main = "Halt" PROVE Len(devices) <= Rows - 3
  <2>1. cursor_row = 2 + Len(devices) /\ Len(devices) \in Nat
    BY <1>2, AtHalt
  <2>2. cursor_row <= Rows - 1 /\ Rows \in Nat
    BY <1>2, ConsoleTypes, KernelSizes DEF KernelInv, Con!Row
  <2> QED BY <2>1, <2>2
<1>3. KernelInv => StopsWhenScreenFull
  BY <1>1, <1>2 DEF StopsWhenScreenFull
<1> QED BY <1>3, KernelHolds, PTL

LEMMA SameVisible == Scan!Visible(config) = SP!Visible(config)
<1>1. Scan!Bus = SP!Bus /\ Scan!Location = SP!Location /\ Scan!FunctionNo = SP!FunctionNo
  BY DEF Scan!Bus, SP!Bus, Scan!Location, SP!Location, Scan!DeviceNo, SP!DeviceNo,
     Scan!FunctionNo, SP!FunctionNo
<1>2. /\ \A b, d, f : /\ Scan!Present(config, b, d, f) = SP!Present(config, b, d, f)
                      /\ Scan!ReadHeaderType(config, b, d, f) = SP!ReadHeaderType(config, b, d, f)
                      /\ Scan!IsBridge(config, b, d, f) = SP!IsBridge(config, b, d, f)
                      /\ Scan!SecondaryBus(config, b, d, f) = SP!SecondaryBus(config, b, d, f)
      /\ \A h : Scan!IsSingleFunctionDevice(h) <=> SP!IsSingleFunctionDevice(h)
  BY DEF Scan!Present, SP!Present, Scan!ReadHeaderType, SP!ReadHeaderType,
     Scan!IsBridge, SP!IsBridge, Scan!SecondaryBus, SP!SecondaryBus,
     Scan!IsSingleFunctionDevice, SP!IsSingleFunctionDevice
<1>3. \A loc : Scan!OnBus(config, loc) <=> SP!OnBus(config, loc)
  BY <1>2 DEF Scan!OnBus, SP!OnBus
<1>4. \A loc, b : Scan!Leads(config, loc, b) <=> SP!Leads(config, loc, b)
  BY <1>2, <1>3 DEF Scan!Leads, SP!Leads
<1>5. Scan!RootBuses(config) = SP!RootBuses(config)
  BY <1>1, <1>2 DEF Scan!RootBuses, SP!RootBuses
<1>6. \A S : Scan!Closed(config, S) <=> SP!Closed(config, S)
  BY <1>1, <1>4 DEF Scan!Closed, SP!Closed
<1>7. Scan!ReachableBuses(config) = SP!ReachableBuses(config)
  BY <1>1, <1>5, <1>6 DEF Scan!ReachableBuses, SP!ReachableBuses
<1> QED BY <1>1, <1>3, <1>7 DEF Scan!Visible, SP!Visible

\* When KernelMain is at its hlt loop and the line of the result says kSuccess, each
\* function that a scan of the machine should see has a line on the screen: nothing is
\* lost between the configuration space, the array of devices and the pixels.
THEOREM NoFunctionLost == Spec => []EveryFunctionShown
<1>1. KernelInv => EveryFunctionShown
  <2> SUFFICES ASSUME KernelInv, main = "Halt", err = "kSuccess",
                      NEW loc \in Scan!Visible(config)
               PROVE  \E row \in Con!Row, h \in BOOLEAN :
                        <<"device", loc[1], loc[2], loc[3], h>> \in screen[row][0]
    BY DEF EveryFunctionShown
  <2>1. scan_pc = "Done" /\ ScanKnown
    BY DEF KernelInv, Progress
  <2>2. SP!SuccessMeansAll
    BY <2>1, ScanAssumptions, SP!CompleteDone DEF ScanKnown
  <2>3. loc \in SP!Listed
    BY <2>1, <2>2, SameVisible DEF SP!SuccessMeansAll
  <2>4. PICK k \in 1 .. Len(devices) : loc = SP!LocationOf(devices[k])
    BY <2>3 DEF SP!Listed
  <2> DEFINE d == devices[k]
             row == k + 1
  <2>5. /\ Len(devices) \in Nat /\ Lit(2 + Len(devices))
        /\ Len(devices) <= Rows - 3
    <3>1. /\ Len(devices) \in Nat /\ Lit(2 + Len(devices)) /\ cursor_row = 2 + Len(devices)
      BY AtHalt
    <3>2. cursor_row <= Rows - 1 /\ Rows \in Nat
      BY ConsoleTypes, KernelSizes DEF KernelInv, Con!Row
    <3> QED BY <3>1, <3>2
  <2>6. row \in Con!Row /\ row < 2 + Len(devices) /\ 0 \in Con!Column
    BY <2>4, <2>5, ConsoleTypes, KernelSizes DEF KernelInv, Con!Row
  <2>7. screen[row][0] = {ReportLine(row)}
    BY <2>5, <2>6 DEF Lit
  <2>8. ReportLine(row) = DeviceLine(d)
    BY <2>4, <2>5 DEF ReportLine
  <2>9. d.header_type \in BOOLEAN
    <3>1. d \in Scan!Device
      BY <2>1, <2>4, ScanTypes
    <3> HIDE DEF d
    <3> QED BY <3>1 DEF Scan!Device
  <2>10. DeviceLine(d) = <<"device", loc[1], loc[2], loc[3], d.header_type>>
    BY <2>4 DEF DeviceLine, SP!LocationOf
  <2> HIDE DEF d, row
  <2>11. <<"device", loc[1], loc[2], loc[3], d.header_type>> \in screen[row][0]
    BY <2>7, <2>8, <2>10
  <2> QED BY <2>6, <2>9, <2>11
<1> QED BY <1>1, KernelHolds, PTL

\* KernelMain calls the scan as its specification has it, and nothing else changes the
\* scan's variables: what is proved of PciScan alone holds in the kernel.
THEOREM KernelScans == Spec => Scan!Init /\ [][Scan!Next]_(Scan!vars)
<1>1. Init => Scan!Init
  BY DEF Init
<1>2. [Next]_vars => [Scan!Next]_(Scan!vars)
  BY DEF Next, SayWelcome, DrawCursor, ScanAllBus, SayResult, ShowDevice, Halt, InConsole, vars, scanVars,
     Scan!vars
<1> QED BY <1>1, <1>2, PTL DEF Spec

\* KernelMain calls the console only with a line and its newline, and only when the last
\* call has returned: what is proved of Console alone holds in the kernel.
THEOREM KernelPrints == Spec => Con!Init /\ [][Con!Next]_(Con!vars)
<1>1. Init => Con!Init
  BY DEF Init
<1>2. KernelInv /\ [Next]_vars => [Con!Next]_(Con!vars)
  <2> SUFFICES ASSUME KernelInv, [Next]_vars PROVE Con!Next \/ UNCHANGED Con!vars
    OBVIOUS
  <2>0. ScanKnown /\ i \in Nat /\ Len(devices) \in Nat
    BY SaidNat DEF KernelInv
  <2>1. \A l \in Line : Con!PutString(<<l, Newline>>) => Con!Next
    BY DEF Con!Next
  <2>2. ASSUME SayWelcome PROVE Con!Next
    <3>1. Welcome \in Line
      BY DEF Line
    <3> QED BY <2>1, <2>2, <3>1 DEF SayWelcome, printk
  <2>3. ASSUME SayResult PROVE Con!Next
    <3>1. Result(err) \in Line
      BY <2>0, ScanTypes DEF Line
    <3> QED BY <2>1, <2>3, <3>1 DEF SayResult, printk
  <2>4. ASSUME ShowDevice PROVE Con!Next
    <3>1. i + 1 \in 1 .. Len(devices)
      BY <2>0, <2>4 DEF ShowDevice
    <3>2. DeviceLine(devices[i + 1]) \in Line
      BY <2>0, <3>1, ScanTypes DEF Line
    <3> QED BY <2>1, <2>4, <3>2 DEF ShowDevice, printk
  <2>5. ASSUME InConsole PROVE Con!Next
    BY <2>5 DEF InConsole, Con!Next
  <2>6. ASSUME DrawCursor \/ ScanAllBus \/ Halt \/ UNCHANGED vars PROVE UNCHANGED Con!vars
    BY <2>6 DEF DrawCursor, ScanAllBus, Halt, vars, consoleVars, Con!vars
  <2> QED BY <2>2, <2>3, <2>4, <2>5, <2>6 DEF Next
<1> QED BY <1>1, <1>2, KernelHolds, PTL DEF Spec
=============================================================================
