# A verification development of my-mikanos

my-mikanos is a small operating system: a UEFI loader
(`MikanLoaderPkg/Main.c`) reads `kernel.elf`, leaves the boot services and
jumps to the kernel; the kernel (`kernel/`) draws a desktop and a text console,
scans the PCI buses, lists what it found on the console and halts.  There is
one thread and no interrupt, so what is hard is not interleaving: it is the
recursion of the scan over topologies nobody tests, fixed-size arrays and
screens at their limits, error paths through several callers, long sequences
of legal calls that reach a bad state, and the loader's dialogue with the
firmware.

All line numbers are those of the files under `src/`.

## Inventory

| Component | State | Operations | What makes it correct |
|---|---|---|---|
| PCI bus scan: `kernel/pci.cc`, `pci.h`, `error.h` | `pci::devices` (array of 32), `pci::num_device`, the call stack of the recursion | `ScanAllBus`, `ScanBus`, `ScanDevice`, `ScanFunction`, `AddDevice` | ends on every topology; lists exactly the reachable functions, bridges first, none twice; `kSuccess` and `kFull` tell the truth; no write past the array; recursion bounded |
| PCI configuration ports: `pci.cc`, `asmfunc.asm` | CONFIG_ADDRESS register | `MakeAddress`, `WriteAddress`, `WriteData`, `ReadData`, `Read*` | different registers get different addresses; a read returns the field its comment names |
| Console: `kernel/console.cc`, `console.h` | `buffer_`, `cursor_row_`, `cursor_column_`, the screen | `PutString`, `NewLine` | the screen shows the buffer, the buffer is the layout of the text; rows stay C strings; every call ends |
| Font: `kernel/font.cc`, `hankaku.txt`, `tools/makefont.py` | the glyph table (constant) | `GetFont`, `WriteAscii`, `WriteString`, `compile` | a glyph is looked up inside the table and drawn in its cell, in the order makefont.py packed it |
| Graphics: `kernel/graphics.cc`, `graphics.h`, `frame_buffer_config.h` | the frame buffer | `Write`, `PixelAt`, `DrawFillRectangle`, `DrawStrokeRectangle` | stays inside the frame buffer; byte order of the pixel format |
| Kernel main: `kernel/main.cc` | `pixel_writer`, `console`, the point KernelMain is at | `KernelMain`, `printk` | everything the scan found is on the screen when the kernel comes to rest |
| UEFI loader: `MikanLoaderPkg/Main.c` | memory map and its key, open files, pool and pages, boot services on or off | `GetMemoryMap`, `SaveMemoryMap`, `OpenRootDir`, `OpenGOP`, `CalcLoadAddressRange`, `CopyLoadSegments`, `UefiMain` | fills the screen before the kernel draws on it; leaves the boot services with a current key; does not use them afterwards; the kernel's segments are where the file says, zero-filled, and inside the pages it owns |
| C library stubs: `kernel/newlib_support.c` | `program_break` | `sbrk`, `_exit`, `kill` and stubs that fail | `abort` ends in a `hlt` loop |
| Build files, vendored Boost, editor settings | - | - | not part of the program's logic |

How they interact: `UefiMain` fills the frame buffer with white and calls `KernelMain`
once, with the frame buffer's configuration; `KernelMain` constructs the pixel writer and the console in
static buffers, calls `ScanAllBus` once and `printk` once per line; `printk`
calls `Console::PutString`, which calls `WriteAscii`, and on the last row
`NewLine`, which calls `WriteString`; both write pixels through the pixel
writer.  `ScanBus`, `ScanDevice` and `ScanFunction` call each other
recursively, and read the configuration space through two I/O ports.

The hazards are listed in `PROJECT.json`, each at its line with the properties
that cover it.

## Modules

| Module | Models |
|---|---|
| `PciConfigSpace` | the registers the scan reads, and, independently of the code's loops, what there is to find (`Visible`, `ReachableBuses`, `Forest`) |
| `PciScan` | `ScanAllBus` and its recursion, with an explicit stack |
| `PciEnumeration` | abstract specification: functions are listed one at a time, in any order that respects the bridges, until none is left or one is left over |
| `PciScanProofs` | theorems about `PciScan`, the refinement of `PciEnumeration` among them |
| `Console` | `Console` and the drawing routines of `font.cc`, by character cells |
| `ConsoleHistory` | `Console` with a history variable (the text put so far) and the layout that text should have |
| `ConsoleProofs` | theorems about `Console` and `ConsoleHistory` |
| `Kernel` | `KernelMain`: composes `PciScan` and `Console`, line by line, with the mouse cursor among the lines |
| `KernelProofs` | theorems about `Kernel`, from instances of the proofs of its two parts |
| `PciRegisters` | abstract specification: what the readers of `pci.h` promise |
| `PciPort` | the readers of `pci.cc` over the two I/O ports, bit by bit |
| `PciPortProofs` | theorems about `PciPort` |
| `Font` | `makefont.py` and the look-up and drawing of `font.cc`, as operators |
| `FontFile` | from the font file through the build to the dots on the screen |
| `FontProofs` | theorems about `FontFile` |
| `Graphics` | pixel positions, the two pixel writers and the rectangles, as operators |
| `Picture` | abstract specification: the desktop as layers over whatever the screen has shown before |
| `Desktop` | `KernelMain` by what it writes to the frame buffer, on `Graphics` and `Font` |
| `DesktopProofs` | theorems about `Desktop` and `Boot` |
| `Firmware` | external: the UEFI boot services as `Main.c` uses them |
| `Loader` | `UefiMain`: the boot services called one by one, on `Firmware` |
| `LoaderProofs` | theorems about `Loader` |
| `ElfLoad` | `CalcLoadAddressRange`, the page count, `CopyLoadSegments` and the entry point, byte by byte |
| `ElfLoadProofs` | theorems about `ElfLoad` |
| `Boot` | extends `Desktop` and composes it with `Loader`, which fills the screen the kernel draws on: from power on to the desktop |
| `MC*` | instances for TLC |

### PciScan and the code

`ScanBus` calls `ScanDevice`, which calls `ScanFunction`, which may call
`ScanBus`.  One record of `stack` is one such chain; its fields are the
parameter `bus`, ScanBus's variable `device` and ScanDevice's variable
`function`.  `pc` says where the top chain is: `ScanBus` and `NextFunction` are
the heads of the two loops, `ScanFunction` its call, `ScanDevice` the code after
that call has returned `err`, `Return` the return of `ScanBus`.  With an empty
stack `ScanAllBus` is running; `host` is its loop variable, 0 on the path
without a loop.  `devices` is the array up to `num_device`.

A configuration space is a function from locations to records with the four
things the branches test: present, multi-function, bridge, secondary bus.  An
absent function reads as all ones, so its header says "multi-function": that is
what the code would see at 0.0.0 of a machine with nothing there.  The
configuration space does not change during the scan.

### Console and the code

`pending` is what `PutString` has still to look at; each character is one step
(`PutChar`, `DropChar`, `NewLine`, `Scroll`).  `screen[row][column]` is the set
of characters drawn in the cell since it was last cleared, because `WriteAscii`
draws the pixels of a glyph without erasing what is under them.

`Scroll` is the whole of `NewLine` on the last row: clear the screen, then for
each row but the last copy the next one onto it and redraw it, then blank the
last one.  The loop of `WriteString` asks `s.at(i) != '\0'`, but its
`string_view` is built from a `const char*` and ends before the NUL, so `at(i)`
is out of range when the string has been drawn.  The kernel is compiled with
`-fno-exceptions`, so `at` aborts; `abort` raises a signal, `kill` of
`newlib_support.c` returns -1, and `_exit` loops on `hlt`: `pc = "Halted"`.  The
model says so with `WriteStringReturns`, which asks for a NUL inside the view,
and derives from it which rows get redrawn (`Redrawn`, `AllRedrawn`).

### Kernel and the code

`main` is the next statement of `KernelMain`, from the construction of the
console on.  While a call of the console is running (`console_pc` is not "Idle")
`KernelMain` waits; `ScanAllBus` steps are those of `PciScan`.  A line of output
is one character of the console model: the longest line of `main.cc`
("255.31.7: vend ffff, class ffffffff, head ff") has 44 characters and a row
takes 79.

`DrawCursor` is the mouse cursor (`main.cc:122-130`): 15 by 24 pixels at (200, 100), which
is in columns 25 and 26 of the rows 6 and 7 of the console, where the lines of the fifth and
sixth device have digits of their class.  The console knows nothing of it, so `mouse_cursor` says for each
of its rows whether it is above what else is there or below a line drawn later; a scroll paints
it over.  `CursorRows` may be any rows below the first two, those the
welcome and the result of the scan are written to.  The text is drawn over the cursor, so none of it is
lost, but both are black: a dot of the text on the cursor's edge cannot be told from it.

`KernelMain` prints the list also when `ScanAllBus` has returned `kFull`.  With the
sizes of the code (32 entries, 25 rows) such a list is too long for the screen: the console halts, and
`KernelMain` does not come to its `hlt` loop (`StopsWhenScreenFull`).  That holds of the instance TLC checks too; the
theorems are also about screens that have room for a full array.

### Loader and the code

`pc` names the next call of `UefiMain`; a step is one call of a boot service with
the test of its status, or a few in a row whose failure has one outcome
(`OpenRootDir` opens two protocols and a volume; any failure prints and halts).  `memory`
gives each page an owner, so that the number of descriptors of the memory map
(`Descriptors`) follows from what has been allocated.  Of map keys one thing is
kept: `fresh` says whether the key read last is still the current one, and every
allocation and release makes it stale.  That is why the first
`ExitBootServices` (`Main.c:340`) never succeeds: its key is that of the map read
at the start, and the buffer for the kernel's file has been allocated since.
`image` is the kernel's file, first in its buffer, then in its place; `stray` is a
history variable: a boot service has been called after they were left.  Between
any two steps `FirmwareEvent` may change the memory map.

`FillScreen` is the loop at `Main.c:266-269` which writes 255 to every byte from `FrameBufferBase`
on.  It calls nothing and tests nothing: in a PixelBltOnly mode, which `UefiMain` notices only at
line 370, there is no frame buffer at that address, and `fill = "other"`.  What the loop writes on
then, and what comes of it, is not followed.

`KernelMain` does not return, so `Main.c:380-384` is never reached and `pc = "Kernel"`
is the end.  Every status the loader tests may be an error, that of `FreePool` (`Main.c:331`) too.
Three things are assumed of the firmware: a pool allocation takes one page; the library's
`FreePool`, which returns nothing and frees the handles (`Main.c:151`), frees them; and
`GetMemoryMap` still works after a failed `ExitBootServices`, as UEFI promises.
That other services may be shut down by then is not modelled: the only one the
loader still calls is the `Print` before it halts.

### ElfLoad and the code

`ElfLoad` is the detail of three steps of `Loader`: the range and the page count
(in `PlaceKernel`), `CopyLoadSegments` and `CallKernel`.  `phdr` is the array of program
headers; `i` is the variable of the two loops over it.  A cell of memory holds
what was there before, a zero, or a byte of the file, named by its offset, so that a
byte in the wrong place is seen as such.  Addresses have the width `Modulus`: the
page count of a file without a loadable segment underflows (`first` is the
greatest address, `last` is 0), as in the code.  `AllocatePages` is the firmware's: it
gives free pages from a page boundary on, or fails.  `WellFormed` is what the ELF format
asks of a file; the loader does not test it.

### PciPort and the code

A reader is two steps, `WriteAddress` and `ReadData`, its two lines.  A 32-bit word is
the set of the positions of its ones, so shifts, masks and `|` are operations on
sets.  `reg_addr`, `shift` and `mask` hold what differs between the five readers.  The
host bridge (`Named`, `Data`) decodes an address by its own cuts, not by
`MakeAddress`.  `PciRegisters` has no port: a reader is asked and then answers with the field
that `pci.h` documents, and `WriteData` stores where the last reader pointed.  `PciScan` reads
the configuration space as a function of the location; this refinement is what
allows it.

### Font, FontFile and the code

`compile`, `Packed` and `IsBitmap` are `makefont.py`'s; `Index`, `HasFont`, `FontRow` and
`BitShown` are the expressions of `font.cc`.  `FontFile` is a build and
then any number of calls of `WriteAscii`.  The build opens its output, and so empties it,
before it reads the font (`makefont.py:35`); when it fails, the empty file stays, newer than the font, and
make, called again, links it (`MakeAgain`): a kernel without a font, which draws nothing.  The property compares what is drawn with the
picture in the file, so packing and unpacking are checked against each other and
against the file's layout of a line with the code before each picture.

### Graphics, Picture, Desktop and the code

`PixelAt` has the widths of the code (`graphics.h:24-28`): the product and the sum of the position are made in
unsigned 32-bit arithmetic and become an int, `Signed`; and four times that int, the offset, is an int
again, `FourTimes`.  An overflow of the latter is undefined behaviour.  A build either keeps the low bits, or, since
the offset is added to a pointer, multiplies in 64 bits; the constant `Wraps` says which, and all
theorems hold for both.

`bytes` is a function on the offsets of the frame buffer and on those that have been written, so an offset
outside of the buffer comes into its domain when it is written to.  Each
call of `KernelMain` that draws is one step of `Desktop`.  A call through a null
`pixel_writer` is undefined behaviour; the model stops there, and `BootEnds`
would not hold.

Nothing in the code tests that the console, the rectangles and the cursor are inside the frame buffer.  The
properties say when they are, in two steps.  `InBuffer`: the last pixel of each ends before the buffer
does, counted in positions, so that a console wider than the screen, whose characters go on at the left
edge a line below, is inside; the screen is not lower than the bar and the icon, which are placed from its
lower edge; and no offset overflows.  `Fits`: moreover all of it is on the screen.
`OnScreen` promises no byte outside the frame buffer under the first, and nothing
in the padding and the reserved bytes under the second; `ShowsDesktop` needs the second.  `InBuffer` and `Fits`
are preconditions of the properties only: `Configs` may be any frame buffers,
and on the others the model writes where the code does.  What comes
of a write outside of the buffer (it may be on anything) is not followed.

`Picture` describes the desktop from the side of a
pixel: whether it is in the bar, on the icon, a dot of a character, under the
cursor.  Its first picture is any (the loader and the firmware have drawn before), and may
change until the first layer is laid.  `Desktop` is shown to implement it under the mapping that reads three bytes
of a pixel as a screen in the format `config.pixel_format` shows them, without reference to
the writer that was chosen.

### Boot and the code

`Boot` runs `Loader`, and after `CallKernel` has filled in `config` from the mode of the screen,
`Desktop`.  At power on the screen is dark.  While there are boot services the firmware's console may
change the screen at any step (`FirmwarePrints`, with the bytes in `Marks`): that is what the loader's
`Print` calls do.  `Fill` is the loader's loop: every byte of the frame buffer, padding and reserved bytes
included, becomes 255.  So `KernelMain` starts on a white screen, maybe with some text of the
firmware on it.  (The `Print` after the exit, `Main.c:372`, has no defined effect; what it
may do to the screen is not followed.)  `PixelFormat` is the loader's switch, `ChooseWriter` the kernel's, and the
numbers between them are those of `frame_buffer_config.h`.  The loader has a default, the
kernel has none: `KernelHasWriter` is the contract.

## What each run checks

| Run | Instance | Shows |
|---|---|---|
| `pci_scan` | 2 buses, 2 devices, 2 functions, capacity 4; 10976 configuration spaces: all contents of the slots 0.0, 0.1, 1.0 and a plain 1.1 | on any topology, including cycles of bridges, bridges back to bus 0 and two bridges to one bus: the scan ends (`Terminates`); the depth of the recursion is paid for by entries (`DepthBounded`); only existing functions of reachable buses are listed (`OnlyVisible`), a bridge before what is behind it (`BridgeFirst`); `kSuccess` means that all of them are (`SuccessMeansAll`); after a failure nothing is listed and the error is not lost (`FullUnwinds`) |
| `pci_forest` | 3 buses, 2 devices, 3 functions, capacity 4; the machines of a family of trees and forests in which each bus is entered once | each bus is listed in order and no function twice (`BusOrder`); `kFull` means more functions than room (`FullMeansTooMany`), so filling the array exactly succeeds; the scan implements `PciEnumeration`, its liveness included (`ImplementsEnumeration`) |
| `pci_bus_zero` | the multi-host machines of `pci_scan` | violation: see Findings |
| `console` | 3 rows, 3 columns (2 usable), all strings of up to 2 characters over two drawable ones, one without a glyph and the newline, texts of up to 8 characters | the buffer is the layout of the text, defined from positions and newlines (`ShowsText`); rows are C strings with two NULs to spare (`RowsTerminated`); the cursor is at the end of the text (`CursorAtEnd`); screen and buffer agree and nothing is drawn over anything (`ScreenShowsBuffer`); the machine halts at the newline number `Rows`, neither before nor after (`HaltsAtLastRow`); every call ends (`PutStringEnds`) |
| `console_scroll` | as `console` | violation: see Findings |
| `kernel` | 2 buses, 2 devices, 2 functions, capacity 4, 6 rows, the mouse cursor in the rows of the second and third device; 512 configuration spaces with one or two host controllers, a bridge, a cycle | in its `hlt` loop the console is the report, line by line, with the mouse cursor below the lines that meet it (`ScreenIsReport`), and after a successful scan every reachable function is on it (`EveryFunctionShown`); the console stops the kernel exactly when there are more than `Rows - 3` devices (`StopsWhenScreenFull`); it comes to rest (`ComesToRest`) |
| `loader` | 5 pages, the kernel's being 1 and 2, a buffer for 4 descriptors, every memory at the start, every call whose status is tested may fail, a firmware that changes the memory map at any time, all pixel formats | the segments are copied from a buffer that is held into pages that were given (`CopyIsSafe`); what holds when the kernel is entered, the filled screen included (`Handover`); no boot service is used once they are left, except the `Print` about an unknown pixel format (`StrayOnlyForFormat`); the loader gets to the kernel or to `Halt` and does not try for ever (`LoaderEnds`) |
| `elf_load` | addresses of 5 bits, pages of 4 bytes; all files of up to 3 headers out of 17 (aligned and not, sharing a page, leaving one out, without a file part, not loadable) that are well formed; three memories | nothing is written outside the pages (`InsidePages`); every loadable segment is in place at the end, zero-filled (`Loaded`); the pages asked for are no more than the segments need (`LoadableIsLoaded`); the entry point is the file's (`EntryIsElfEntry`) |
| `pci_port` | two functions and a third that is not there, words of 32 bits that differ in each byte from register to register; the four readers the kernel calls, and writes | between the two port accesses the port names the reader's own register (`AddressNames`); readers and writes act as `pci.h` says (`ImplementsRegisters`) |
| `pci_device_id` | the same functions, all five readers | violation: see Findings |
| `font` | four pictures of 3 by 2 dots, all contents of the first two, lines that are too wide, chars of 2 bits | a character is drawn as its picture, and one with the sign bit is not drawn at all (`DrawsPicture`); the table has a whole glyph for each picture, or the build has failed because of a wide line, and only a second make after that links an empty one (`TableWhole`) |
| `boot` | 5 pages, the kernel's being 1 and 2, pool memory above them, a buffer for 5 descriptors; nothing fails and the firmware leaves the memory map alone; four pixel formats of the firmware; eight sizes of screens of 5 to 10 by 4 to 8 pixels with up to 2 pixels of padding: four that the desktop fits on, two too narrow for the console, one too low for the bar, one so large that offsets overflow an int of 9 bits; a firmware that prints a black dot at any time; two lines of text | the machine comes to show the whole desktop, or, for an unknown format, halts in the loader and the kernel draws nothing (`BootEnds`): the stale first key and the second, longer map do not keep the loader from the kernel; the kernel draws with the writer of the screen's format, after the boot services (`KernelHasWriter`); the bytes are the desktop's, layer by layer, over what the loader and the firmware left (`ShowsDesktop`); no byte outside the frame buffer is written, and none outside the visible pixels if everything fits (`OnScreen`) |

Why the bounds are enough.  Two buses are the least with a cycle, a shared
secondary bus, or a bridge back to its own bus; capacity 4 is less than the
7 functions the largest machines have and more than the smallest have, so the
array overflows at every depth of the recursion and is also filled exactly.
The third bus of `pci_forest` gives chains of bridges, and the third function
gives the inner loop more than one turn.  Three rows give a first, a middle and
a last one.  Six rows let 3 devices be shown and not 4.
Five pages can make a map of 5 descriptors, one more than `loader`'s buffer holds,
and leave room for the handles, the file and the kernel at once, or not.
Three headers are the least with a segment between two others, in each order; the
places of `elf_load` make two segments share a page and leave one out, and the highest
ends close to the last address, where the page count would wrap.  In `pci_port` the numbers have ones at both ends of
their fields.  In `boot` the least screen is the one everything just fits on; the
cursor overlaps the second line, the icon the button and the console the bar, so that
the order of the layers matters.  `IntModulus` is 512 there: the offsets of the first seven screens are
below 256, those of the 10 by 8 screen are not, and `FourTimes` wraps.
`boot` keeps `AllocatePool` off the kernel's pages because nothing in
`Main.c` does: `kernel.elf` is linked at 1 MiB, and if the pool takes a page there,
`AllocatePages` fails and the loader halts.  `MaxText` (8), the bound
on the history, is the only bound the code has no counterpart of; it is in the
guard of `HistoryCall`, and 8 characters are enough to fill a row, overrun it
and go through all rows in one text.

`CHECK_DEADLOCK FALSE` is in every configuration but those of `PciPort`, because the
programs end: the scan returns, the kernel halts, the console is halted by the scroll.

Fairness.  `PciScan` and `Kernel` assume weak fairness of the next-state
relation: the kernel is one thread, it takes no interrupts, and it does not stop
between two instructions; a run that stops early is not one of the machine.
`Loader` assumes it of the loader's own steps: the firmware's work between them
ends, but may come back at any time.
`Console` and `ConsoleHistory` assume it of the steps of a call only: nothing obliges a
caller to call.  `ElfLoad` assumes it of its next-state relation
(straight-line code of the loader), `Boot` of the loader's steps, of the call and of the
kernel's steps.  `PciPort`, `FontFile` and `Desktop` have none: they are used for safety.

Every property has a mutant: a definition written next to the original one,
marked "Mutant", that changes it as a plausible slip would (an off-by-one in a
loop, a missing test, an error not looked at, a missing increment) and for
which TLC finds the property violated.

## Findings

* `pci_bus_zero`: `pci.h:63-65` says that `ScanAllBus` searches all PCI devices,
  recursively from bus 0.  When 0.0.0 is multi-function, `pci.cc:133-141` scans the
  buses of functions 1 to 7 and never bus 0, and returns `kSuccess` without
  any of bus 0's functions.  `SuccessMeansAll` takes what the code means by its
  roots (`RootBuses`), so this is a disagreement about the roots only.
* `console_scroll`: the first scroll aborts while redrawing the first row
  (`font.cc:60` against the terminator promised at `console.h:24`).  The rest of
  the console is right up to that point, and `HaltsAtLastRow` and
  `StopsWhenScreenFull` say where the point is: with 25 rows, the kernel shows 22
  devices, and on a machine with more it halts in the middle of the list with one
  line on the screen, although the array has room for 32.
* `pci_device_id`: `pci.h:24` says that `ReadDeviceId` reads the device ID register, and its type
  is `uint16_t`; `pci.cc:103` masks the upper half of the word with `0xff` and returns 8 of
  the 16 bits.  Nothing calls it yet; `pci_port` and its theorem are about the four readers
  that are called.

## What is proved

The theorems about `PciScan` hold for all sizes of buses, devices and functions,
every capacity and every set of configuration spaces, cyclic topologies included;
they assume `PciSizes`, `PciCapacity` and `PciMachines`.

`PciScanProofs`:

* `TypeCorrect`: `Spec => []TypeOK`.  `TypeOK` is not inductive: that a stack has a
  top, and that a loop variable used as a device or function number is below
  its bound, depends on where `pc` is.  `TInv` adds that (`Shape`): the stack is empty
  exactly when ScanAllBus runs, every record below the top is inside a call of
  ScanFunction, so its loop variables are in range, and the top's are where `pc`
  says so.  The lemmas `CallEffect`, `ContinueEffect` and `ReturnEffect` say what the
  three stack operations do; every later proof uses them instead of the sequence
  operators.
* `DepthIsBounded`: `DepthBounded` is inductive relative to `TInv`.
* `FullIsFull`: by `FullInv`, which says that after a failed AddDevice the scan is on
  its way up with a full array.
* `ErrorUnwinds`: the action property `FullUnwinds`, step by step from the same
  invariants: a step with an error only shortens the stack.

* `OnlyVisibleListed`: by `Sound`, which says that every bus on the stack is reachable,
  that each record below the top stands at a function a bus scan sees, and that in
  the loop over functions the device is there and multi-function.  Without the last
  part the check of function 0, which the loop does not repeat, would be lost.
* `BridgesComeFirst`: by `Ordered`: every bus on the stack is a root or is led to by a
  bridge that is listed already.

* `ScanCountsDown`: every step of the scan brings `StepsLeft` down, a natural number.  It makes one number of
  five, each counting for more than those after it: what is left of ScanAllBus's loop, the room in the array, the
  depth of the stack, the devices left of the running ScanBus and the calls left of its turn.  A call
  of ScanBus puts a record on the stack, but it takes a place in the array first; that is why a cycle of bridges does not
  keep the scan from ending.  This is the part of `Terminates` that needs no fairness: the scan takes no more steps than
  `StepsLeft` of its start, for every size.
* `SuccessIsComplete`: `Spec => []SuccessMeansAll`, the correctness of the search.
  `Complete` says that, while no error is on its way, (`Chains`) each running chain
  has listed all of its bus that its loop variables have passed, and the bridges
  the calls below the top are in; and (`Asked`) each bus a listed bridge or a root asks
  for is covered, on the stack, or a root still to come.  At the end the stack is
  empty and no root is left, so the covered buses hold the roots and are closed
  under bridges; `ReachableBuses` is the least such set.  One lemma per way the loops
  go on (`ScannedEmptySlot`, `ScannedSingle`, `ScannedNextFunction`, `ScannedDevice`,
  `ScannedBus`) says why nothing is skipped.
* `EntriesInBusOrder`: `Spec => [](Forest(config) => BusOrder)`.  On a forest the list is no
  longer only sound, it is in order: `InTurn` says that no bus is on
  the stack twice, that an entry of a bus on the stack is not after the place its chain
  has come to (`UpTo`), and that a root bus still to come is untouched (`Touched`); a bus that is
  entered was untouched, since there is one way into it.  From it no function is listed twice.
* `FullIsTooMany`: `Refused` keeps, on the way up from a failed AddDevice, a function that
  is visible and not listed; the list has `Capacity` different entries, all visible, so
  there are more than `Capacity` visible functions.
* `ScanEnumerates`: if every machine is a forest, `Spec` implements `EnumInit` and
  `[][EnumNext]_enumVars`, the safety part of `ImplementsEnumeration`.  A successful AddDevice is the step
  that lists one function of the frontier; the end of ScanAllBus is `Succeed` or `GiveUp`; every
  other step is a stutter.

`LoaderProofs`, for every finite memory, every set of kernel pages, buffer size, set
of failing calls and behaviour of the firmware, from `FirmwarePages`, `LoaderSizes`
and `LoaderMemories`:

* `LoaderTypes`: `Spec => []TypeOK`; its part about `lines` says that SaveMemoryMap stays
  inside the buffer, because (`TypeInv`) the map it writes out is one that fitted.
* `CopySafe`, `HandedOver`, `StrayOnly`: by `LoaderInv`, which says at each point of
  UefiMain whether the boot services are on (`Services`), which buffers are held
  (`Buffers`), and where the kernel's file and pages are (`File`); `Filled` says what
  the loop over the frame buffer has filled from its point on.

`ElfLoadProofs`, for every width of an address, page size, set of well-formed files and
set of free pages, from `ElfSizes`, `ElfFiles` and `ElfFrees`:

* `ElfTypes`, `CopyInside`, `AllLoaded`, `EntryRight`: the invariant says that the range covers
  all loadable headers before `i`, that the page count covers the range, hence that each
  loadable segment lies in `owned`, and that those before `i` are loaded in the second
  loop.  That a later segment does not go over an earlier one is where `WellFormed`'s
  disjointness is used.

`PciPortProofs`, for every set of functions, locations, readers and contents:

* `Addressed`: the cuts of the host bridge undo the shifts of `MakeAddress`, so the address
  word names the register that was meant.
* `RegistersImplemented`: each step of `PciPort` is one of `PciRegisters` or a stutter, for readers
  other than `ReadDeviceId`.  With `pci_device_id` this says exactly which reader is wrong.

`ConsoleProofs`, for every number of rows and columns the console's assumption allows:

* `ConsoleTypes`, `RowsAreStrings`, `CursorIsAtEnd`, `ScreenIsBuffer`: `RowsTerminated` is not
  inductive, since where a row's text ends is not part of it.  `Texts` adds that each row is a
  text of some length (`IsText`), the cursor's row one of length `cursor_column`,
  and rows below it are empty.
* `ScrollHalts`: with two rows or more every scroll halts.  This is the finding of `console_scroll` for
  every size.
* `CallCountsDown`: each step of a call takes a character off the string that is put, or ends the call; what is left of
  `PutStringEnds` is that the steps are taken.
* `TextShown`, `LastRowHalts`, about `ConsoleHistory`: the text put so far, `printed`, determines the
  buffer.  `HistoryInv` has, besides the invariant of `Console`, that the cursor is where
  the layout of `printed` puts the next character (`CursorInText`).  Appending one
  character to a text leaves the places of the earlier ones alone, and that of the new one
  is the cursor's; a console that has not halted has seen fewer than `Rows` newlines.

`DesktopProofs`, for every frame buffer, font, cursor and text, and both kinds of build (`Wraps`), from
`GraphicsModulus`, `GraphicsBuild`, `FontSizes`, `DesktopConfigs`, `DesktopSizes` and `DesktopText`.
What a theorem needs of the frame buffer, `InBuffer` or `Fits`, is in the property it proves:

* `DesktopTypes`: for all frame buffers, also those that are written outside of.
* `DrawsOnScreen`: `Spec => OnScreen`.  A pixel whose position is below the number of pixels of the buffer
  has an offset below half of `IntModulus`, so neither `Signed` nor `FourTimes` changes it, and its bytes are in the
  buffer.  Each statement of `KernelMain` draws such pixels when `InBuffer` holds, lines that are too
  long for the screen included; and visible ones when `Fits` holds, whose offsets are not those of
  padding or reserved bytes.
* `DesktopShown`: `Spec => ShowsDesktop`, the refinement of `Picture` on the screens that `Fits`, over any first picture.  One lemma says what drawing a set of visible pixels does
  to the picture: those pixels take the colour and the others keep theirs, whichever
  format is in use.  Then each statement of `KernelMain` has a lemma that its loop writes
  the pixels of its layer.
* `BootLoads`: seen by the loader, `Boot` does what `Loader` does, so the theorems of
  `LoaderProofs` hold from power on (`BootMemory` gives their assumptions).
* `WriterAtHand`: `BootSpec => []KernelHasWriter`.  What is needed at the kernel's first
  statement is established by the loader many steps before, so `BootInv` joins
  `LoaderInv`, the invariant of `Desktop`, and `Called`: until the call the kernel has done
  nothing, and from the call on `config` describes the mode the firmware had set, in
  a supported format.
* `BootTypes`, `BootOnScreen`, `BootShown`: the theorems about `Desktop`, from power on.  Until the call the
  bytes change as the loader's loop and the firmware have them (`BootMarks` says that those are bytes), which is
  a step `Before` of `Picture`; nothing but the frame buffer is touched.  They use `BootConfigs`: the format of its pixels does not change whether a screen is one of `Configs`.

`FontProofs`, for every size of a glyph, every font and all characters, from `FontSizes`,
`FontPictures` and `FontCharacters`:

* `TableIsWhole`: `TableRows` follows `compile` through the lines of the file: after `n` lines the
  table has `GlyphHeight` rows for each whole picture, and one for each line of the picture the
  file is in.  `PackedBound` says that a line of `GlyphWidth` dots or fewer fits a byte.
  A failed build leaves an empty table, and a line wider than a glyph is there.
* `PictureDrawn`: `Digits` says that after `n` dots the accumulator's digits are the dots read so
  far, so that shifting by `dx` and cutting to a byte leaves dot `dx` in the highest
  bit (`BitOfDot`); `Indexes` computes the index of a character in 32 bits, from
  `GlyphHeight * char` for one of the table to a place past its end for a negative one.
* Both rest on induction, over the lines of a file and the dots of a line.  The library's induction theorem has
  an operator as its parameter, which the provers cannot instantiate; `Induction` is the same principle for
  sets of numbers, from the well-foundedness of `<`, and `Recursion` shows from it that a function
  with the equations of a recursive definition exists.  That is why `Font` writes the reduction and
  the table as recursive functions, and `2 ^ n` as `PowerOfTwo[n]`.

`KernelProofs`, for every machine, capacity and screen of at least two rows and columns
(`KernelSizes`):

* `ReportOnScreen`, `FullScreenStops`: `KernelInv` joins the invariants of the scan and of the
  console, which the instances `SP` and `CP` of their proof modules give, with `Progress` (where
  KernelMain is) and `Saying` (where the console is in the line it was given).  No history of the text is
  needed: `Lit(n)` says that the screen shows the first `n` lines of the report, and `n` follows from
  the statement KernelMain is at.  The console's part knows nothing of the mouse cursor; an invariant of its own
  says that it is below the text in a row that shows any, and above in a blank one.  The console halts at the end of line `Rows`, so the report
  has at least `Rows` lines, two of which are not devices.
* `NoFunctionLost`: `SuccessMeansAll` at the end of the scan, and then `Lit`: a function that is visible is
  listed, so its line is on the screen.
* `KernelScans`, `KernelPrints`: `Kernel` implements both of its parts, so the other theorems about
  `PciScan` and `Console` hold in the kernel too.

Only model-checked: liveness (`Terminates`, `PutStringEnds`, `ComesToRest`, `LoaderEnds`,
`LoadableIsLoaded`, `BootEnds`, and the fairness of `ImplementsEnumeration`), since the prover handles
neither ENABLED nor fairness (`ScanCountsDown` and `CallCountsDown` are what can be proved towards the first two).  Every safety property a run checks is also a theorem.

Only proved, checked by no run because other properties say more on a small instance:
`FullMeansFull` (`FullMeansTooMany` and `FullUnwinds`) and
the types of `PciPort` (inside `Addressed`).

## What is not modelled

* Instruction-level behaviour, caches, and the bytes of formatted lines: `printk`'s
  `vsprintf`, `GetMemoryTypeUnicode`, `GetPixelFormatUnicode` and the `Print` calls of
  the loader are wording.
* A configuration space that changes during the scan (hot plug).
* What a write outside of the frame buffer does (to the kernel, the firmware or a device), and the
  `Print` after the boot services have been left.
* The pixels of the console after a scroll: the scroll halts the machine (Findings), so
  `Desktop` has as many lines as fit.
* `sbrk` and the file stubs of `newlib_support.c`: `program_break` is never set, so `sbrk`
  fails at once, and the stubs return an error.  Nothing in the kernel calls them on a
  path that is modelled.
* `elf.h`'s structures for dynamic linking and relocation, which no code uses.
* `src/include/`: a vendored copy of Boost.  The kernel takes `span`, `bit_cast` and
  `as_writable_bytes` from it, which are accesses to memory and casts; the rest are the headers
  these include.  It is nearly all of the lines in the repository, and none of it is logic of this program.
* Build files and editor settings, apart from the font's rule.  The rest of `hankaku.txt`
  is data: pictures of the layout that `FontFile` takes as a constant.

With that, every function of `kernel/` and `MikanLoaderPkg/` that changes state is in a module.

## Plan

Done, in this order: the scan and its proofs, the console, the kernel's report, the loader and its proofs, the
loading of the kernel (`ElfLoad`), the ports (`PciPort`), the font, the desktop, the boot, and their proofs.
