------------------------------ MODULE Firmware ------------------------------
(***************************************************************************)
(* The UEFI boot services that MikanLoaderPkg/Main.c calls, as far as the  *)
(* loader depends on them: the memory map, its key, and the end of the     *)
(* boot services.  This code is not in the repository; it is modelled from *)
(* how Main.c uses it.                                                     *)
(*                                                                         *)
(* Memory is a row of pages with an owner each.  Only one fact about map   *)
(* keys matters: whether the key the loader read last is still the current *)
(* one.  Every change of the memory map makes it stale.                    *)
(***************************************************************************)
EXTENDS Naturals, FiniteSets

CONSTANTS
  Page,       \* the pages of memory, 0 .. n
  PoolPages,  \* those AllocatePool takes memory from
  Restless    \* may the firmware change the memory map on its own account?

ASSUME FirmwarePages == Page \subseteq Nat /\ IsFiniteSet(Page) /\ PoolPages \subseteq Page
ASSUME FirmwareRestless == Restless \in BOOLEAN

VARIABLES
  memory,   \* the owner of each page
  fresh,    \* is memmap.map_key the key of the current memory map?
  boot      \* have the boot services not been left yet?

Owner == {"free", "firmware", "gop_handles", "kernel_buffer", "kernel"}

FreePages == {p \in Page : memory[p] = "free"}

\* The number of descriptors of the memory map: adjacent pages of one owner
\* share one.
Descriptors == Cardinality({p \in Page : p - 1 \in Page => memory[p - 1] # memory[p]})

\* The pages P pass to an owner.
Give(P, owner) ==
  /\ memory' = [p \in Page |-> IF p \in P THEN owner ELSE memory[p]]
  /\ fresh' = FALSE

AllocatePool(owner) == \E p \in PoolPages \intersect FreePages : Give({p}, owner)

FreePool(owner) == Give({p \in Page : memory[p] = owner}, "free")

\* AllocatePages with AllocateAddress: these pages or an error.
AllocatePages(P, owner) == P \subseteq FreePages /\ Give(P, owner)

\* Timers, drivers and the services themselves allocate and free memory.
FirmwareEvent ==
  /\ Restless /\ boot
  /\ \E p \in Page :
       \/ memory[p] = "free" /\ Give({p}, "firmware")
       \/ memory[p] = "firmware" /\ Give({p}, "free")
  /\ UNCHANGED boot
=============================================================================
