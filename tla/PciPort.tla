------------------------------ MODULE PciPort ------------------------------
(***************************************************************************)
(* The readers of kernel/pci.cc and the two ports behind them: each        *)
(* reader writes the address of a register to the port CONFIG_ADDRESS and  *)
(* reads its word from CONFIG_DATA.  Words are sets of bits, as in         *)
(* PciRegisters, which the readers are to implement.                       *)
(***************************************************************************)
EXTENDS Naturals

CONSTANTS
  Functions, Locations, Readers, Values,   \* as in PciRegisters
  Configs,    \* what the registers may hold at the start
  Addresses   \* what CONFIG_ADDRESS may hold at the start

VARIABLES
  config,           \* the configuration space behind the ports
  config_address,   \* the register CONFIG_ADDRESS of the host bridge
  call,             \* <<reader, location>> of the reader that runs, or ran last
  result,           \* its value
  pc

vars == <<config, config_address, call, result, pc>>

Word == SUBSET (0 .. 31)
Location == (SUBSET (0 .. 7)) \X (SUBSET (0 .. 4)) \X (SUBSET (0 .. 2))
Register == {{}, {3}, {2, 3}, {3, 4}}

AllReaders ==
  {"ReadVendorId", "ReadDeviceId", "ReadHeaderType", "ReadClassCode", "ReadBusNumbers"}

ASSUME PortLocations ==
  Functions \subseteq Location /\ Locations \subseteq Location
ASSUME PortReaders == Readers \subseteq AllReaders /\ Values \subseteq Word
ASSUME PortInitial ==
  Configs \subseteq [Functions \X Register -> Word] /\ Addresses \subseteq Word

-----------------------------------------------------------------------------
(***************************************************************************)
(* Words.                                                                  *)
(***************************************************************************)
shl(x, bits) == {b + bits : b \in x} \intersect (0 .. 31)
shr(x, bits) == {b - bits : b \in {c \in x : c >= bits}}

\* Mutant: the function number overlaps the device number.
MakeAddressOverlap(bus, device, function, reg_addr) ==
  shl({0}, 31) \union shl(bus, 16) \union shl(device, 11) \union shl(function, 9)
    \union (reg_addr \intersect (2 .. 7))

\* pci.cc:8-13
MakeAddress(bus, device, function, reg_addr) ==
  shl({0}, 31) \union shl(bus, 16) \union shl(device, 11) \union shl(function, 8)
    \union (reg_addr \intersect (2 .. 7))

\* The register each reader names, and how it cuts out its value (pci.cc:96-119).
reg_addr == [ReadVendorId |-> {}, ReadDeviceId |-> {}, ReadHeaderType |-> {2, 3},
             ReadClassCode |-> {3}, ReadBusNumbers |-> {3, 4}]
shift    == [ReadVendorId |-> 0, ReadDeviceId |-> 16, ReadHeaderType |-> 16,
             ReadClassCode |-> 0, ReadBusNumbers |-> 0]
mask     == [ReadVendorId |-> 0 .. 15, ReadDeviceId |-> 0 .. 7, ReadHeaderType |-> 0 .. 7,
             ReadClassCode |-> 0 .. 31, ReadBusNumbers |-> 0 .. 31]

\* Mutant: the mask is one for the word before the shift.
ReturnedUnshifted(reader, data) == data \intersect mask[reader]

Returned(reader, data) == shr(data, shift[reader]) \intersect mask[reader]

-----------------------------------------------------------------------------
(***************************************************************************)
(* The host bridge (external).                                             *)
(***************************************************************************)
Cut(word, low, high) == {b \in 0 .. high - low : b + low \in word}

\* The register an address names, if its enable bit is set.
Named(address) ==
  IF 31 \in address
    THEN << <<Cut(address, 16, 23), Cut(address, 11, 15), Cut(address, 8, 10)>>,
            address \intersect (2 .. 7)>>
    ELSE <<>>

Data(address) ==
  IF Named(address) \in DOMAIN config THEN config[Named(address)] ELSE 0 .. 31

-----------------------------------------------------------------------------
Init ==
  /\ config \in Configs /\ config_address \in Addresses
  /\ call = <<>> /\ result = {} /\ pc = "Idle"

Call(reader, location) ==
  /\ pc = "Idle"
  /\ call' = <<reader, location>> /\ pc' = "WriteAddress"
  /\ UNCHANGED <<config, config_address, result>>

\* WriteAddress(MakeAddress(...)), the first line of each reader.
WriteAddress ==
  /\ pc = "WriteAddress"
  /\ config_address' = MakeAddress(call[2][1], call[2][2], call[2][3], reg_addr[call[1]])
  /\ pc' = "ReadData"
  /\ UNCHANGED <<config, call, result>>

\* The second line of each reader.
ReadData ==
  /\ pc = "ReadData"
  /\ result' = Returned(call[1], Data(config_address))
  /\ pc' = "Idle"
  /\ UNCHANGED <<config, config_address, call>>

\* pci.cc:92.  It writes where the address that was written last points.
WriteData(value) ==
  /\ pc = "Idle"
  /\ config' = [name \in DOMAIN config |->
                  IF name = Named(config_address) THEN value ELSE config[name]]
  /\ UNCHANGED <<config_address, call, result, pc>>

Next ==
  \/ \E reader \in Readers, location \in Locations : Call(reader, location)
  \/ WriteAddress \/ ReadData
  \/ \E value \in Values : WriteData(value)

Spec == Init /\ [][Next]_vars

-----------------------------------------------------------------------------
TypeOK ==
  /\ config \in [Functions \X Register -> Word]
  /\ config_address \in Word /\ result \in Word
  /\ pc \in {"Idle", "WriteAddress", "ReadData"}
  /\ call \in Readers \X Locations \/ (call = <<>> /\ pc = "Idle")

\* Between its two port accesses a reader's address names its own register: no
\* two registers have one address, and nothing else has written the port.
AddressNames ==
  pc = "ReadData" => Named(config_address) = <<call[2], reg_addr[call[1]]>>

\* The readers and WriteData act on the registers as pci.h:18-45 says.
Registers == INSTANCE PciRegisters WITH
  selected <- IF pc = "Idle" THEN Named(config_address) ELSE <<call[2], reg_addr[call[1]]>>,
  question <- IF pc = "Idle" THEN <<>> ELSE call
ImplementsRegisters == Registers!Spec

-----------------------------------------------------------------------------
\* pci.h:24: ReadDeviceId "reads the device ID register", bits 31 to 16 of the
\* first word (its type is uint16_t).
DeviceIdRead ==
  (pc = "Idle" /\ call # <<>>) =>
    (call[1] = "ReadDeviceId" => result = Cut(Data(config_address), 16, 31))
=============================================================================
