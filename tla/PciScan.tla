------------------------------ MODULE PciScan ------------------------------
(***************************************************************************)
(* pci::ScanAllBus of kernel/pci.cc: the depth-first scan of the PCI buses *)
(* that fills the fixed array pci::devices.                                *)
(*                                                                         *)
(* ScanBus calls ScanDevice, which calls ScanFunction, which calls ScanBus *)
(* on the bus behind a bridge.  The three are always nested in that order, *)
(* so one activation record stands for one chain ScanBus -> ScanDevice ->  *)
(* ScanFunction and holds the chain's three arguments: bus (a parameter),  *)
(* device (the loop variable of ScanBus) and function (the one of          *)
(* ScanDevice).  pc is where the top chain is, or where ScanAllBus is when *)
(* the stack is empty.                                                     *)
(***************************************************************************)
EXTENDS PciConfigSpace, Sequences

CONSTANTS
  Capacity,       \* devices.size() (32)
  ConfigSpaces    \* the configuration spaces the machine may have

ASSUME PciCapacity == Capacity \in Nat
ASSUME PciMachines == ConfigSpaces \subseteq ConfigSpace

VARIABLES
  config,     \* the machine's configuration space: no step changes it
  devices,    \* devices[0 .. num_device-1] of pci.h, as a sequence
  stack,      \* the activation records, the running one last
  host,       \* ScanAllBus's loop variable; 0 when it took the single-function path
  pc,         \* control point
  err         \* the Error a return statement hands to its caller

vars == <<config, devices, stack, host, pc, err>>

Device == [bus : Bus, device : DeviceNo, function : FunctionNo, header_type : BOOLEAN]

Frame == [bus : Bus, device : 0 .. NumDevice, function : 0 .. NumFunction]

ControlPoint ==
  {"ScanAllBus", "ScanHosts", "ScanBus", "ScanFunction", "ScanDevice",
   "NextFunction", "Return", "Done"}

Error == {"kSuccess", "kFull"}

top == stack[Len(stack)]

-----------------------------------------------------------------------------
Init ==
  /\ config \in ConfigSpaces
  /\ devices = <<>>
  /\ stack = <<>>
  /\ host = 0
  /\ pc = "ScanAllBus"
  /\ err = "kSuccess"

\* Call ScanBus(bus): a new record on top, its loop at device 0.
CallScanBus(bus) ==
  /\ stack' = Append(stack, [bus |-> bus, device |-> 0, function |-> 0])
  /\ pc' = "ScanBus"

\* Let the loops of the running chain go on at this device and function.
Continue(device, function, at) ==
  /\ stack' = [stack EXCEPT ![Len(stack)] =
                  [bus |-> top.bus, device |-> device, function |-> function]]
  /\ pc' = at

\* pci.cc:125-130.  Empties the list and looks at the host bridge.
ScanAllBus ==
  /\ pc = "ScanAllBus"
  /\ devices' = <<>>
  /\ IF IsSingleFunctionDevice(ReadHeaderType(config, 0, 0, 0))
       THEN CallScanBus(0) /\ host' = 0
       ELSE pc' = "ScanHosts" /\ host' = 1 /\ UNCHANGED stack
  /\ UNCHANGED <<config, err>>

\* pci.cc:133-141.  The function number of a host controller is its bus number.
ScanHosts ==
  /\ pc = "ScanHosts"
  /\ \/ /\ host >= NumFunction
        /\ pc' = "Done" /\ err' = "kSuccess"
        /\ UNCHANGED <<stack, host>>
     \/ /\ host < NumFunction
        /\ ~Present(config, 0, 0, host)
        /\ host' = host + 1
        /\ UNCHANGED <<stack, pc, err>>
     \/ /\ host < NumFunction
        /\ Present(config, 0, 0, host)
        /\ CallScanBus(host)
        /\ UNCHANGED <<host, err>>
  /\ UNCHANGED <<config, devices>>

\* Mutant: the loop does not go on after an empty slot.
ScanBusStuck ==
  /\ pc = "ScanBus"
  /\ \/ /\ top.device >= NumDevice
        /\ pc' = "Return" /\ err' = "kSuccess"
        /\ UNCHANGED stack
     \/ /\ top.device < NumDevice
        /\ Present(config, top.bus, top.device, 0)
        /\ Continue(top.device, 0, "ScanFunction")
        /\ UNCHANGED err
  /\ UNCHANGED <<config, devices, host>>

\* pci.cc:74-84.  One turn of ScanBus's loop, up to the call of ScanDevice,
\* whose first act is ScanFunction(bus, device, 0).
ScanBus ==
  /\ pc = "ScanBus"
  /\ \/ /\ top.device >= NumDevice
        /\ pc' = "Return" /\ err' = "kSuccess"
        /\ UNCHANGED stack
     \/ /\ top.device < NumDevice
        /\ ~Present(config, top.bus, top.device, 0)
        /\ Continue(top.device + 1, 0, "ScanBus")
        /\ UNCHANGED err
     \/ /\ top.device < NumDevice
        /\ Present(config, top.bus, top.device, 0)
        /\ Continue(top.device, 0, "ScanFunction")
        /\ UNCHANGED err
  /\ UNCHANGED <<config, devices, host>>

\* Mutants: the capacity is compared with > and with an off-by-one.
ArrayFullLate  == Len(devices) > Capacity
ArrayFullEarly == Len(devices) >= Capacity - 1

ArrayFull == Len(devices) = Capacity

\* pci.cc:17-26.  AddDevice succeeds: the array has room and takes the running function.
AddDevice ==
  /\ ~ArrayFull
  /\ devices' =
       Append(devices,
              [bus |-> top.bus, device |-> top.device, function |-> top.function,
               header_type |-> ReadHeaderType(config, top.bus, top.device, top.function)])

\* Mutant: a bridge is followed but not listed.
ScanFunctionNoBridge ==
  /\ pc = "ScanFunction"
  /\ \/ /\ ArrayFull
        /\ err' = "kFull" /\ pc' = "ScanDevice"
        /\ UNCHANGED <<devices, stack>>
     \/ /\ ~IsBridge(config, top.bus, top.device, top.function)
        /\ AddDevice
        /\ err' = "kSuccess" /\ pc' = "ScanDevice"
        /\ UNCHANGED stack
     \/ /\ IsBridge(config, top.bus, top.device, top.function)
        /\ CallScanBus(SecondaryBus(config, top.bus, top.device, top.function))
        /\ UNCHANGED <<devices, err>>
  /\ UNCHANGED <<config, host>>

\* pci.cc:33-48.  A full array is an error; a bridge is followed at once.
ScanFunction ==
  /\ pc = "ScanFunction"
  /\ \/ /\ ArrayFull
        /\ err' = "kFull" /\ pc' = "ScanDevice"
        /\ UNCHANGED <<devices, stack>>
     \/ /\ AddDevice
        /\ ~IsBridge(config, top.bus, top.device, top.function)
        /\ err' = "kSuccess" /\ pc' = "ScanDevice"
        /\ UNCHANGED stack
     \/ /\ AddDevice
        /\ IsBridge(config, top.bus, top.device, top.function)
        /\ CallScanBus(SecondaryBus(config, top.bus, top.device, top.function))
        /\ UNCHANGED err
  /\ UNCHANGED <<config, host>>

\* Mutant: the errors of ScanFunction are not looked at.
ScanDeviceNoError ==
  /\ pc = "ScanDevice"
  /\ \/ /\ top.function = 0
        /\ IsSingleFunctionDevice(ReadHeaderType(config, top.bus, top.device, 0))
        /\ Continue(top.device + 1, 0, "ScanBus")
     \/ /\ top.function = 0 =>
             ~IsSingleFunctionDevice(ReadHeaderType(config, top.bus, top.device, 0))
        /\ Continue(top.device, top.function + 1, "NextFunction")
  /\ UNCHANGED <<config, devices, host, err>>

\* Mutant: the loop over the functions starts at 0.
ScanDeviceFromZero ==
  /\ pc = "ScanDevice"
  /\ \/ /\ err # "kSuccess"
        /\ pc' = "Return"
        /\ UNCHANGED stack
     \/ /\ err = "kSuccess"
        /\ IF IsSingleFunctionDevice(ReadHeaderType(config, top.bus, top.device, 0))
             THEN Continue(top.device + 1, 0, "ScanBus")
             ELSE Continue(top.device, top.function, "NextFunction")
  /\ UNCHANGED <<config, devices, host, err>>

\* pci.cc:54-59 after function 0, 64-66 after another function.  An error
\* leaves ScanDevice and then ScanBus; function 0 of a single-function device
\* ends ScanDevice, and ScanBus goes on with the next device.
ScanDevice ==
  /\ pc = "ScanDevice"
  /\ \/ /\ err # "kSuccess"
        /\ pc' = "Return"
        /\ UNCHANGED stack
     \/ /\ err = "kSuccess"
        /\ top.function = 0
        /\ IsSingleFunctionDevice(ReadHeaderType(config, top.bus, top.device, 0))
        /\ Continue(top.device + 1, 0, "ScanBus")
     \/ /\ err = "kSuccess"
        /\ top.function = 0 =>
             ~IsSingleFunctionDevice(ReadHeaderType(config, top.bus, top.device, 0))
        /\ Continue(top.device, top.function + 1, "NextFunction")
  /\ UNCHANGED <<config, devices, host, err>>

\* Mutant: no look at the vendor ID.
NextFunctionUnchecked ==
  /\ pc = "NextFunction"
  /\ IF top.function >= NumFunction
       THEN Continue(top.device + 1, 0, "ScanBus")
       ELSE Continue(top.device, top.function, "ScanFunction")
  /\ UNCHANGED <<config, devices, host, err>>

\* Mutant: the loop ends one function early.
NextFunctionShort ==
  /\ pc = "NextFunction"
  /\ IF top.function >= NumFunction - 1
       THEN Continue(top.device + 1, 0, "ScanBus")
       ELSE IF Present(config, top.bus, top.device, top.function)
         THEN Continue(top.device, top.function, "ScanFunction")
         ELSE Continue(top.device, top.function + 1, "NextFunction")
  /\ UNCHANGED <<config, devices, host, err>>

\* pci.cc:60-68.  One turn of ScanDevice's loop over functions 1 .. 7.
NextFunction ==
  /\ pc = "NextFunction"
  /\ \/ /\ top.function >= NumFunction
        /\ Continue(top.device + 1, 0, "ScanBus")
     \/ /\ top.function < NumFunction
        /\ ~Present(config, top.bus, top.device, top.function)
        /\ Continue(top.device, top.function + 1, "NextFunction")
     \/ /\ top.function < NumFunction
        /\ Present(config, top.bus, top.device, top.function)
        /\ Continue(top.device, top.function, "ScanFunction")
  /\ UNCHANGED <<config, devices, host, err>>

\* ScanBus returns err.  Its caller is the ScanFunction of the record below
\* (pci.cc:45, which returns it on to ScanDevice) or ScanAllBus (130, 137).
Return ==
  /\ pc = "Return"
  /\ stack' = SubSeq(stack, 1, Len(stack) - 1)
  /\ \/ /\ Len(stack) > 1
        /\ pc' = "ScanDevice"
        /\ UNCHANGED host
     \/ /\ Len(stack) = 1
        /\ host = 0 \/ err # "kSuccess"
        /\ pc' = "Done"
        /\ UNCHANGED host
     \/ /\ Len(stack) = 1
        /\ host # 0 /\ err = "kSuccess"
        /\ pc' = "ScanHosts" /\ host' = host + 1
  /\ UNCHANGED <<config, devices, err>>

Next ==
  \/ ScanAllBus \/ ScanHosts \/ ScanBus \/ ScanFunction
  \/ ScanDevice \/ NextFunction \/ Return

\* Fairness: the scan is the only thread of a kernel that takes no interrupts;
\* it does not stop between two instructions.
Spec == Init /\ [][Next]_vars /\ WF_vars(Next)

-----------------------------------------------------------------------------
TypeOK ==
  /\ config \in ConfigSpace
  /\ devices \in Seq(Device) /\ Len(devices) <= Capacity
  /\ stack \in Seq(Frame)
  /\ host \in 0 .. NumFunction
  /\ pc \in ControlPoint
  /\ err \in Error

LocationOf(d) == <<d.bus, d.device, d.function>>

Listed == {LocationOf(devices[i]) : i \in 1 .. Len(devices)}

\* The recursion of ScanBus is never deeper than the list is long, plus one:
\* whatever the bridges say, and even when they form a cycle, a call is paid
\* for by an entry, so the kernel's stack holds at most devices.size() + 1
\* chains.
DepthBounded == Len(stack) <= Len(devices) + 1

\* Nothing is listed that a scan should not see: each entry is a function of a
\* bus that the roots lead to, with its own header type.
OnlyVisible ==
  \A i \in 1 .. Len(devices) :
    /\ LocationOf(devices[i]) \in Visible(config)
    /\ devices[i].header_type =
         ReadHeaderType(config, devices[i].bus, devices[i].device, devices[i].function)

\* The list is in an order a driver can rely on: the bridge that leads to a
\* function's bus comes before the function.
BridgeFirst ==
  \A i \in 1 .. Len(devices) :
    \/ devices[i].bus \in RootBuses(config)
    \/ \E j \in 1 .. i - 1 : Leads(config, LocationOf(devices[j]), devices[i].bus)

\* ScanAllBus returns kSuccess only when every function there is to see has
\* been listed, on any topology.
SuccessMeansAll == pc = "Done" /\ err = "kSuccess" => Visible(config) \subseteq Listed

\* ScanAllBus returns kFull only when the array really is full.
FullMeansFull == pc = "Done" /\ err = "kFull" => Len(devices) = Capacity

\* Once AddDevice has failed, the failure goes up through every caller: the
\* scan neither lists anything more nor forgets the error.
FullUnwinds ==
  [][err = "kFull" => /\ err' = "kFull" /\ devices' = devices
                      /\ Len(stack') <= Len(stack)]_vars

\* The scan ends on every topology, cyclic ones included.
Terminates == <>(pc = "Done")

-----------------------------------------------------------------------------
(***************************************************************************)
(* On machines whose bus numbers are assigned properly (Forest).           *)
(***************************************************************************)

Before(a, b) == a.device < b.device \/ (a.device = b.device /\ a.function < b.function)

\* The entries of one bus are in the order of their device and function
\* numbers, however many subtrees are listed between them: in particular no
\* function is listed twice.
BusOrder ==
  \A i, j \in 1 .. Len(devices) :
    i < j /\ devices[i].bus = devices[j].bus => Before(devices[i], devices[j])

\* kFull is reported only when the machine has more functions than the array
\* has room for; a machine that fills it exactly succeeds.
FullMeansTooMany ==
  pc = "Done" /\ err = "kFull" => Cardinality(Visible(config)) > Capacity

\* The recursive scan implements the enumeration, its liveness included.
Enumeration ==
  INSTANCE PciEnumeration WITH
    listed <- Listed,
    result <- IF pc = "Done" THEN err ELSE "scanning"

ImplementsEnumeration == Enumeration!EnumSpec

-----------------------------------------------------------------------------
\* pci.h:63-65 says that ScanAllBus finds every PCI device, recursively from
\* bus 0: when it succeeds, every function of bus 0 is in the list.
BusZeroListed ==
  pc = "Done" /\ err = "kSuccess" =>
    \A loc \in Location : loc[1] = 0 /\ OnBus(config, loc) => loc \in Listed
=============================================================================
