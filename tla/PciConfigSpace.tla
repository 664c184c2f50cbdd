--------------------------- MODULE PciConfigSpace ---------------------------
(***************************************************************************)
(* What the PCI configuration space of a machine answers to the scanner of *)
(* kernel/pci.cc, and the set of functions that scanner can get to see.    *)
(*                                                                         *)
(* A configuration space is a function from <<bus, device, function>> to   *)
(* the registers the scanner reads.  Of a 32-bit register only what a      *)
(* branch of the code tells apart is kept: whether the vendor ID differs   *)
(* from 0xffff, the multi-function bit of the header type, whether the     *)
(* class code is that of a PCI-PCI bridge, and its secondary bus.          *)
(***************************************************************************)
EXTENDS Naturals, FiniteSets

CONSTANTS
  NumBus,       \* number of bus numbers (256 on the machine: a uint8_t)
  NumDevice,    \* devices per bus, the bound of ScanBus's loop (32)
  NumFunction   \* functions per device, the bound of ScanDevice's loop (8)

(***************************************************************************)
(* ScanAllBus passes a function number where a bus number is expected, so  *)
(* every function number must be a bus number (8 <= 256).                  *)
(***************************************************************************)
ASSUME PciSizes ==
  /\ NumBus \in Nat \ {0}
  /\ NumDevice \in Nat \ {0}
  /\ NumFunction \in Nat \ {0}
  /\ NumFunction <= NumBus

Bus        == 0 .. NumBus - 1
DeviceNo   == 0 .. NumDevice - 1
FunctionNo == 0 .. NumFunction - 1
Location   == Bus \X DeviceNo \X FunctionNo

(***************************************************************************)
(* The registers of a function.  Reads of a location where there is no     *)
(* function return all ones: vendor 0xffff, header type 0xff (whose bit 7  *)
(* says "multi-function"), class code 0xffffffff (not a bridge).           *)
(***************************************************************************)
Absent ==
  [present |-> FALSE, multi |-> TRUE, bridge |-> FALSE, secondary |-> NumBus - 1]

Registers ==
  {Absent} \union
  [present : {TRUE}, multi : BOOLEAN, bridge : BOOLEAN, secondary : Bus]

ConfigSpace == [Location -> Registers]

(***************************************************************************)
(* The reads of pci.cc, on a configuration space c.                        *)
(***************************************************************************)
Present(c, bus, device, function) == c[<<bus, device, function>>].present

ReadHeaderType(c, bus, device, function) == c[<<bus, device, function>>].multi

IsSingleFunctionDevice(header_type) == ~header_type

IsBridge(c, bus, device, function) == c[<<bus, device, function>>].bridge

SecondaryBus(c, bus, device, function) == c[<<bus, device, function>>].secondary

-----------------------------------------------------------------------------
(***************************************************************************)
(* What there is to find.  The next definitions do not follow the code's   *)
(* loops: they say which locations the scan of a bus is meant to see, and  *)
(* which buses it is meant to get to, as a closure.                        *)
(***************************************************************************)

\* A bus scan sees function 0 of each device, and the functions above it when
\* function 0 declares the device multi-function.
OnBus(c, loc) ==
  /\ Present(c, loc[1], loc[2], 0)
  /\ Present(c, loc[1], loc[2], loc[3])
  /\ loc[3] = 0 \/ ReadHeaderType(c, loc[1], loc[2], 0)

\* The buses ScanAllBus starts from: bus 0, or one bus per host controller
\* when location 0.0.0 is a multi-function device.
RootBuses(c) ==
  IF IsSingleFunctionDevice(ReadHeaderType(c, 0, 0, 0))
    THEN {0}
    ELSE {f \in FunctionNo \ {0} : Present(c, 0, 0, f)}

\* loc is a bridge a bus scan sees, and bus is the bus behind it.
Leads(c, loc, bus) ==
  /\ OnBus(c, loc)
  /\ IsBridge(c, loc[1], loc[2], loc[3])
  /\ SecondaryBus(c, loc[1], loc[2], loc[3]) = bus

Closed(c, S) ==
  \A loc \in Location, b \in Bus : loc[1] \in S /\ Leads(c, loc, b) => b \in S

\* The buses reachable from the roots: the least closed set that holds them.
ReachableBuses(c) ==
  {b \in Bus : \A S \in SUBSET Bus : RootBuses(c) \subseteq S /\ Closed(c, S) => b \in S}

\* Every function a scan should list.
Visible(c) ==
  LET reachable == ReachableBuses(c)
  IN  {loc \in Location : loc[1] \in reachable /\ OnBus(c, loc)}

\* Bus numbers are assigned as the PCI specification asks for: a reachable bus
\* is entered in one way only, as a root or through one bridge.
Forest(c) ==
  LET bridges == {loc \in Visible(c) : IsBridge(c, loc[1], loc[2], loc[3])}
  IN  \A l1 \in bridges, b \in Bus :
        Leads(c, l1, b) =>
          /\ b \notin RootBuses(c)
          /\ \A l2 \in bridges : Leads(c, l2, b) => l1 = l2
=============================================================================
