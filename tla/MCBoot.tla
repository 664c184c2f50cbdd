------------------------------- MODULE MCBoot -------------------------------
(***************************************************************************)
(* Machines for TLC: five pages of memory; screens that the desktop fits   *)
(* on, with and without padding at the end of a line, and some that it     *)
(* does not fit on; a font of four glyphs of two dots by two.              *)
(***************************************************************************)
EXTENDS Boot

FivePages == 0 .. 4

\* Memory in which the kernel's pages and one that AllocatePool uses are free.
RoomyMemory ==
  {m \in [Page -> {"free", "firmware"}] : /\ \A p \in KernelPages : m[p] = "free"
                                          /\ \E p \in PoolPages : m[p] = "free"}

\* Pixels per line, visible width and height.  The desktop fits on the first four; the
\* next two are too narrow for the console, which stays inside the buffer; on the next
\* the bar does not fit; on the last four times a position overflows, the position not.
SomeSizes ==
  {<<8, 8, 6>>, <<10, 8, 6>>, <<9, 9, 7>>, <<8, 8, 8>>,
   <<6, 6, 8>>, <<7, 5, 7>>, <<8, 8, 4>>, <<10, 10, 8>>}
SomeConfigs ==
  {[pixels_per_scan_line |-> s[1], horizontal_resolution |-> s[2],
    vertical_resolution |-> s[3], pixel_format |-> f] : s \in SomeSizes, f \in {"RGB", "BGR"}}

\* The text of the firmware is a black dot in the first pixel.
SomeMarks == {[a \in 0 .. 3 |-> 0]}

SomeShape ==
  [d \in (0 .. 1) \X (0 .. 2) |->
     CASE d \in {<<0, 0>>, <<0, 1>>} -> "@" [] d = <<1, 1>> -> "." [] OTHER -> " "]

\* Glyph 0 is blank, 1 has three dots.
SomeTable == <<0, 0, 2, 3, 3, 3, 3, 3>>
SomeText  == << <<1, 0, 1>>, <<1, 1, -1>> >>
=============================================================================
