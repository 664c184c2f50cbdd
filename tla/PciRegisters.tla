---------------------------- MODULE PciRegisters ----------------------------
(***************************************************************************)
(* What the readers of kernel/pci.h promise: a reader asked about a        *)
(* function returns the field of the configuration space its comment       *)
(* names.  A value written goes to the register asked for last.            *)
(*                                                                         *)
(* A 32-bit word is the set of the positions of its ones; so is a number   *)
(* of a bus, a device, a function or a register.                           *)
(***************************************************************************)
EXTENDS Naturals

CONSTANTS
  Functions,  \* <<bus, device, function>> of what there is
  Locations,  \* those that callers ask about
  Readers,    \* the readers that are called
  Values      \* the words callers write

VARIABLES
  config,     \* the word of each register, by function and register
  selected,   \* <<bus, device, function, register>>, or <<>>
  question,   \* <<reader, bus, device, function>>, or <<>> between questions
  result      \* what the last reader returned

vars == <<config, selected, question, result>>

Word     == SUBSET (0 .. 31)
Location == (SUBSET (0 .. 7)) \X (SUBSET (0 .. 4)) \X (SUBSET (0 .. 2))
AllOnes  == 0 .. 31
Register == {{}, {3}, {2, 3}, {3, 4}}      \* 0x00, 0x08, 0x0c, 0x18

\* A field of the configuration space: its register, and from bit low to high.
Field(register, low, high) == [register |-> register, low |-> low, high |-> high]

\* pci.h:22-45
Layout ==
  [ReadVendorId   |-> Field({}, 0, 15),
   ReadDeviceId   |-> Field({}, 16, 31),
   ReadHeaderType |-> Field({2, 3}, 16, 23),
   ReadClassCode  |-> Field({3}, 0, 31),
   ReadBusNumbers |-> Field({3, 4}, 0, 31)]

Bits(word, low, high) == {b - low : b \in word \intersect (low .. high)}

Init ==
  /\ config \in [Functions \X Register -> Word]
  /\ selected \in {<<>>} \union (Location \X SUBSET (2 .. 7))
  /\ question = <<>> /\ result = {}

Ask(reader, at) ==
  /\ question = <<>>
  /\ question' = <<reader, at>>
  /\ selected' = <<at, Layout[reader].register>>
  /\ UNCHANGED <<config, result>>

\* What is not there reads as ones.
Answer ==
  /\ question # <<>>
  /\ LET field == Layout[question[1]]
         word  == IF selected \in DOMAIN config THEN config[selected] ELSE AllOnes
     IN  result' = Bits(word, field.low, field.high)
  /\ question' = <<>>
  /\ UNCHANGED <<config, selected>>

Store(value) ==
  /\ question = <<>>
  /\ config' = [name \in DOMAIN config |-> IF name = selected THEN value ELSE config[name]]
  /\ UNCHANGED <<selected, question, result>>

Next ==
  \/ \E reader \in Readers, at \in Locations : Ask(reader, at)
  \/ Answer
  \/ \E value \in Values : Store(value)

Spec == Init /\ [][Next]_vars
=============================================================================
