----------------------------- MODULE MCElfLoad -----------------------------
(***************************************************************************)
(* Kernel files for TLC: up to three program headers, in any order, that   *)
(* begin on and off a page boundary, share a page, leave a page out, have  *)
(* no file part, or only one.                                              *)
(***************************************************************************)
EXTENDS ElfLoad

Segment(type, vaddr, offset, filesz, memsz) ==
  [p_type |-> type, p_vaddr |-> vaddr, p_offset |-> offset, p_filesz |-> filesz,
   p_memsz |-> memsz]

SomePhdrs ==
  {Segment("PT_LOAD", at[1], at[2], size[1], size[2]) :
     at \in {<<4, 0>>, <<4, 3>>, <<7, 0>>, <<9, 2>>, <<16, 5>>},
     size \in {<<0, 3>>, <<2, 3>>, <<3, 5>>}}
    \union
  {Segment("PT_NOTE", 0, 0, 2, 2), Segment("PT_NOTE", 17, 4, 1, 6)}

SomeFiles == {f \in UNION {[1 .. n -> SomePhdrs] : n \in 0 .. 3} : WellFormed(f)}

\* All memory is free; a page between the segments is not; a page above is not.
SomeFrees == {Address, Address \ 12 .. 15, Address \ 20 .. 23}
=============================================================================
