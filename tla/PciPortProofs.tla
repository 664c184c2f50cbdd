---------------------------- MODULE PciPortProofs ----------------------------
(***************************************************************************)
(* Proofs about PciPort: the address word names the register it was made   *)
(* from, and the readers implement PciRegisters, for all functions,        *)
(* locations, contents of the configuration space and of the port.         *)
(***************************************************************************)
EXTENDS PciPort, TLAPS

USE PortLocations, PortReaders, PortInitial

-----------------------------------------------------------------------------
(***************************************************************************)
(* The address word.                                                       *)
(***************************************************************************)

\* Each number is where the host bridge looks for it, and no other one is there.
LEMMA AddressDecodes ==
  ASSUME NEW bus \in SUBSET (0 .. 7), NEW device \in SUBSET (0 .. 4),
         NEW function \in SUBSET (0 .. 2), NEW reg \in SUBSET (2 .. 7)
  PROVE  LET address == MakeAddress(bus, device, function, reg)
         IN  /\ address \in Word
             /\ Named(address) = << <<bus, device, function>>, reg>>
<1> DEFINE address == MakeAddress(bus, device, function, reg)
<1>1. \A b \in 0 .. 31 :
        b \in address <=> \/ b = 31
                          \/ b - 16 \in bus
                          \/ b - 11 \in device
                          \/ b - 8 \in function
                          \/ b \in reg
  <2>1. ASSUME NEW b \in 0 .. 31
        PROVE  /\ b \in shl({0}, 31) <=> b = 31
               /\ b \in shl(bus, 16) <=> b - 16 \in bus
               /\ b \in shl(device, 11) <=> b - 11 \in device
               /\ b \in shl(function, 8) <=> b - 8 \in function
               /\ b \in reg \intersect (2 .. 7) <=> b \in reg
    BY DEF shl
  <2> QED
    BY <2>1 DEF MakeAddress
<1>2. address \in Word
  BY DEF MakeAddress, shl, Word
<1> HIDE DEF address
<1>3. Cut(address, 16, 23) = bus
  <2>1. ASSUME NEW b \in 0 .. 7 PROVE b + 16 \in address <=> b \in bus
    BY <1>1
  <2>2. Cut(address, 16, 23) = {b \in 0 .. 7 : b + 16 \in address}
    BY DEF Cut
  <2> QED
    BY <2>1, <2>2
<1>4. Cut(address, 11, 15) = device
  <2>1. ASSUME NEW b \in 0 .. 4 PROVE b + 11 \in address <=> b \in device
    BY <1>1
  <2>2. Cut(address, 11, 15) = {b \in 0 .. 4 : b + 11 \in address}
    BY DEF Cut
  <2> QED
    BY <2>1, <2>2
<1>5. Cut(address, 8, 10) = function
  <2>1. ASSUME NEW b \in 0 .. 2 PROVE b + 8 \in address <=> b \in function
    BY <1>1
  <2>2. Cut(address, 8, 10) = {b \in 0 .. 2 : b + 8 \in address}
    BY DEF Cut
  <2> QED
    BY <2>1, <2>2
<1>6. address \intersect (2 .. 7) = reg
  <2>1. ASSUME NEW b \in 2 .. 7 PROVE b \in address <=> b \in reg
    BY <1>1
  <2> QED
    BY <2>1
<1>7. 31 \in address
  BY <1>1
<1>8. Named(address) = << <<bus, device, function>>, reg>>
  BY <1>3, <1>4, <1>5, <1>6, <1>7 DEF Named
<1> QED
  BY <1>2, <1>8 DEF address

LEMMA LocationParts ==
  ASSUME NEW at \in Locations
  PROVE  /\ at = <<at[1], at[2], at[3]>>
         /\ at[1] \in SUBSET (0 .. 7) /\ at[2] \in SUBSET (0 .. 4)
         /\ at[3] \in SUBSET (0 .. 2)
<1>1. at \in Location
  OBVIOUS
<1> QED
  BY <1>1 DEF Location

LEMMA ReaderRegister ==
  ASSUME NEW reader \in Readers
  PROVE  reg_addr[reader] \in Register /\ reg_addr[reader] \in SUBSET (2 .. 7)
  BY DEF AllReaders, reg_addr, Register

-----------------------------------------------------------------------------
(***************************************************************************)
(* Types, and the address between the two accesses.                        *)
(***************************************************************************)
PortInv == TypeOK /\ AddressNames

LEMMA WordCut ==
  ASSUME NEW data \in Word, NEW reader \in Readers
  PROVE  Returned(reader, data) \in Word
<1>1. mask[reader] \subseteq 0 .. 31
  BY DEF mask, AllReaders
<1> QED
  BY <1>1 DEF Returned, Word

LEMMA DataWord == TypeOK => Data(config_address) \in Word
  BY DEF TypeOK, Data, Word

LEMMA WriteAddressEffect ==
  ASSUME TypeOK, WriteAddress
  PROVE  /\ call \in Readers \X Locations
         /\ config_address' \in Word
         /\ Named(config_address') = <<call[2], reg_addr[call[1]]>>
<1>1. call \in Readers \X Locations
  BY DEF TypeOK, WriteAddress
<1>2. call[1] \in Readers /\ call[2] \in Locations
  BY <1>1
<1> DEFINE at == call[2]
           reg == reg_addr[call[1]]
<1>3. config_address' = MakeAddress(at[1], at[2], at[3], reg)
  BY DEF WriteAddress
<1>4. reg \in SUBSET (2 .. 7)
  BY <1>2, ReaderRegister
<1>5. /\ at = <<at[1], at[2], at[3]>>
      /\ at[1] \in SUBSET (0 .. 7) /\ at[2] \in SUBSET (0 .. 4) /\ at[3] \in SUBSET (0 .. 2)
  BY <1>2, LocationParts
<1>6. /\ MakeAddress(at[1], at[2], at[3], reg) \in Word
      /\ Named(MakeAddress(at[1], at[2], at[3], reg)) = << <<at[1], at[2], at[3]>>, reg>>
  <2> HIDE DEF at, reg
  <2> QED
    BY <1>4, <1>5, AddressDecodes
<1> QED
  BY <1>1, <1>3, <1>5, <1>6

LEMMA PortInit == Init => PortInv
  BY DEF Init, PortInv, TypeOK, AddressNames, Word

LEMMA PortNext == PortInv /\ [Next]_vars => PortInv'
<1> SUFFICES ASSUME PortInv, [Next]_vars PROVE PortInv'
  OBVIOUS
<1>t. TypeOK
  BY DEF PortInv
<1>1. CASE \E reader \in Readers, location \in Locations : Call(reader, location)
  BY <1>1 DEF PortInv, TypeOK, AddressNames, Call
<1>2. CASE WriteAddress
  <2>1. /\ call \in Readers \X Locations /\ config_address' \in Word
        /\ Named(config_address') = <<call[2], reg_addr[call[1]]>>
    BY <1>t, <1>2, WriteAddressEffect
  <2>2. TypeOK'
    BY <1>t, <1>2, <2>1 DEF TypeOK, WriteAddress
  <2>3. AddressNames'
    BY <1>2, <2>1 DEF AddressNames, WriteAddress
  <2> QED
    BY <2>2, <2>3 DEF PortInv
<1>3. CASE ReadData
  <2>1. call \in Readers \X Locations
    BY <1>t, <1>3 DEF TypeOK, ReadData
  <2>2. result' \in Word
    BY <1>t, <1>3, <2>1, DataWord, WordCut DEF ReadData
  <2> QED
    BY <1>t, <1>3, <2>1, <2>2 DEF PortInv, TypeOK, AddressNames, ReadData
<1>4. CASE \E value \in Values : WriteData(value)
  <2>1. PICK value \in Values : WriteData(value)
    BY <1>4
  <2>2. config' \in [Functions \X Register -> Word]
    BY <1>t, <2>1 DEF TypeOK, WriteData
  <2> QED
    BY <1>t, <2>1, <2>2 DEF PortInv, TypeOK, AddressNames, WriteData
<1>5. CASE UNCHANGED vars
  BY <1>5 DEF PortInv, TypeOK, AddressNames, vars
<1> QED
  BY <1>1, <1>2, <1>3, <1>4, <1>5 DEF Next

LEMMA PortAlways == Spec => []PortInv
  BY PortInit, PortNext, PTL DEF Spec

\* The word that is read is that of the register the reader names.
THEOREM Addressed == Spec => []AddressNames
<1>1. PortInv => AddressNames
  BY DEF PortInv
<1> QED
  BY <1>1, PortAlways, PTL

-----------------------------------------------------------------------------
(***************************************************************************)
(* The refinement of PciRegisters.                                         *)
(***************************************************************************)
\* Shifting and masking cut out the field, for every reader but ReadDeviceId.
LEMMA ReturnedField ==
  ASSUME NEW data \in Word, NEW reader \in Readers, reader # "ReadDeviceId"
  PROVE  LET field == Registers!Layout[reader]
         IN  /\ field.register = reg_addr[reader]
             /\ Returned(reader, data) = Registers!Bits(data, field.low, field.high)
<1>1. reader \in {"ReadVendorId", "ReadHeaderType", "ReadClassCode", "ReadBusNumbers"}
  BY DEF AllReaders
<1>2. \A b \in data : b \in 0 .. 31
  BY DEF Word
<1>3. CASE reader = "ReadHeaderType"
  <2>1. shr(data, 16) \intersect (0 .. 7) = {b - 16 : b \in data \intersect (16 .. 23)}
    <3>1. ASSUME NEW c
          PROVE  c \in shr(data, 16) /\ c \in 0 .. 7 <=>
                 \E b \in data : b >= 16 /\ b <= 23 /\ c = b - 16
      BY <1>2 DEF shr
    <3>2. \A b : b \in data \intersect (16 .. 23) <=> b \in data /\ b >= 16 /\ b <= 23
      BY <1>2
    <3> QED
      BY <3>1, <3>2
  <2> QED
    BY <1>3, <2>1 DEF Returned, shift, mask, reg_addr, Registers!Layout, Registers!Field,
       Registers!Bits
<1>4. CASE reader = "ReadVendorId"
  <2>1. shr(data, 0) \intersect (0 .. 15) = {b - 0 : b \in data \intersect (0 .. 15)}
    BY <1>2 DEF shr
  <2> QED
    BY <1>4, <2>1 DEF Returned, shift, mask, reg_addr, Registers!Layout, Registers!Field,
       Registers!Bits
<1>5. CASE reader \in {"ReadClassCode", "ReadBusNumbers"}
  <2>1. shr(data, 0) \intersect (0 .. 31) = {b - 0 : b \in data \intersect (0 .. 31)}
    <3>1. ASSUME NEW c PROVE c \in shr(data, 0) <=> c \in data
      <4>1. \A b \in data : b >= 0 /\ b - 0 = b
        BY <1>2
      <4> QED
        BY <4>1 DEF shr
    <3>2. \A c : c \in {b - 0 : b \in data \intersect (0 .. 31)} <=> c \in data
      BY <1>2
    <3> QED
      BY <1>2, <3>1, <3>2
  <2>2. CASE reader = "ReadClassCode"
    BY <2>1, <2>2 DEF Returned, shift, mask, reg_addr, Registers!Layout, Registers!Field,
       Registers!Bits
  <2>3. CASE reader = "ReadBusNumbers"
    BY <2>1, <2>3 DEF Returned, shift, mask, reg_addr, Registers!Layout, Registers!Field,
       Registers!Bits
  <2> QED
    BY <1>5, <2>2, <2>3
<1> QED
  BY <1>1, <1>3, <1>4, <1>5

LEMMA NamedType ==
  ASSUME NEW address
  PROVE  Named(address) \in {<<>>} \union (Registers!Location \X SUBSET (2 .. 7))
<1>1. /\ Cut(address, 16, 23) \in SUBSET (0 .. 7)
      /\ Cut(address, 11, 15) \in SUBSET (0 .. 4)
      /\ Cut(address, 8, 10) \in SUBSET (0 .. 2)
      /\ address \intersect (2 .. 7) \in SUBSET (2 .. 7)
  BY DEF Cut
<1> QED
  BY <1>1 DEF Named, Registers!Location

LEMMA RefinesInit == Init => Registers!Init
<1> SUFFICES ASSUME Init PROVE Registers!Init
  OBVIOUS
<1>1. config \in [Functions \X Registers!Register -> Registers!Word]
  BY DEF Init, Register, Word, Registers!Register, Registers!Word
<1>2. pc = "Idle" /\ result = {}
  BY DEF Init
<1> QED
  BY <1>1, <1>2, NamedType DEF Registers!Init

LEMMA RefinesNext ==
  ASSUME "ReadDeviceId" \notin Readers, PortInv, [Next]_vars
  PROVE  [Registers!Next]_(Registers!vars)
<1>t. TypeOK
  BY DEF PortInv
<1>1. CASE \E reader \in Readers, location \in Locations : Call(reader, location)
  <2>1. PICK reader \in Readers, location \in Locations : Call(reader, location)
    BY <1>1
  <2>2. /\ pc = "Idle" /\ pc' = "WriteAddress" /\ call' = <<reader, location>>
        /\ config' = config /\ result' = result
    BY <2>1 DEF Call
  <2>3. Registers!Layout[reader].register = reg_addr[reader]
    BY ReturnedField DEF Word
  <2>4. Registers!Ask(reader, location)
    BY <2>2, <2>3 DEF Registers!Ask
  <2> QED
    BY <2>4 DEF Registers!Next
<1>2. CASE WriteAddress
  <2>1. /\ pc = "WriteAddress" /\ pc' = "ReadData" /\ call' = call
        /\ config' = config /\ result' = result
    BY <1>2 DEF WriteAddress
  <2> QED
    BY <2>1 DEF Registers!vars
<1>3. CASE ReadData
  <2>1. /\ pc = "ReadData" /\ pc' = "Idle" /\ call' = call
        /\ config' = config /\ config_address' = config_address
        /\ result' = Returned(call[1], Data(config_address))
    BY <1>3 DEF ReadData
  <2>2. call \in Readers \X Locations
    BY <1>t, <2>1 DEF TypeOK
  <2>3. call[1] \in Readers /\ call[1] # "ReadDeviceId" /\ call # <<>>
    BY <2>2
  <2>4. Named(config_address) = <<call[2], reg_addr[call[1]]>>
    BY <2>1 DEF PortInv, AddressNames
  <2> DEFINE field == Registers!Layout[call[1]]
             word  == IF <<call[2], reg_addr[call[1]]>> \in DOMAIN config
                        THEN config[<<call[2], reg_addr[call[1]]>>] ELSE Registers!AllOnes
  <2>5. word = Data(config_address)
    BY <2>4 DEF Data, Registers!AllOnes
  <2>6. result' = Registers!Bits(word, field.low, field.high)
    BY <1>t, <2>1, <2>3, <2>5, DataWord, ReturnedField
  <2>7. Registers!Answer
    BY <2>1, <2>3, <2>4, <2>6 DEF Registers!Answer
  <2> QED
    BY <2>7 DEF Registers!Next
<1>4. CASE \E value \in Values : WriteData(value)
  <2>1. PICK value \in Values : WriteData(value)
    BY <1>4
  <2>2. Registers!Store(value)
    BY <2>1 DEF WriteData, Registers!Store
  <2> QED
    BY <2>2 DEF Registers!Next
<1>5. CASE UNCHANGED vars
  BY <1>5 DEF vars, Registers!vars
<1> QED
  BY <1>1, <1>2, <1>3, <1>4, <1>5 DEF Next

\* If ReadDeviceId is not called, the ports are invisible: the readers and WriteData
\* act on the registers as pci.h says.
THEOREM RegistersImplemented ==
  ASSUME "ReadDeviceId" \notin Readers
  PROVE  Spec => ImplementsRegisters
<1>1. PortInv /\ [Next]_vars => [Registers!Next]_(Registers!vars)
  BY RefinesNext
<1> QED
  BY <1>1, RefinesInit, PortAlways, PTL DEF Spec, ImplementsRegisters, Registers!Spec
=============================================================================
