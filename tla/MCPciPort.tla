----------------------------- MODULE MCPciPort -----------------------------
(***************************************************************************)
(* Two functions whose numbers have ones at both ends and differ in every  *)
(* part, a third one that is not there, and words that differ in each      *)
(* byte from register to register.                                         *)
(***************************************************************************)
EXTENDS PciPort

There   == {<<{0, 7}, {4}, {0}>>, <<{1}, {0, 4}, {2}>>}
Nowhere == <<{0, 7}, {0}, {0, 2}>>
AskedFor == There \union {Nowhere}

\* Bits that tell one register from another, in each byte of its word.
Mark(name) ==
  (IF 7 \in name[1][1] THEN {0} ELSE {1}) \union name[2]
EachByte(bits) == {b + 8 * k : b \in bits, k \in 0 .. 3}

Marked == {[name \in There \X Register |-> EachByte(Mark(name))]}
SomeValues == {{5, 13, 22, 31}}
SomeAddresses == {{}, {0, 8, 11}, {3, 4, 8, 15, 16, 23, 31}}
CalledReaders == AllReaders \ {"ReadDeviceId"}
=============================================================================
