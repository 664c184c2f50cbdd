------------------------------ MODULE MCLoader ------------------------------
(***************************************************************************)
(* Machines for TLC with five pages of memory, the kernel's being two of   *)
(* them.                                                                   *)
(***************************************************************************)
EXTENDS Loader

FivePages == 0 .. 4

\* The calls that may fail for reasons of their own.
AnyCall == ControlPoint \ {"FillScreen", "CallKernel", "Kernel", "Halt"}

AnyMemory == [Page -> {"free", "firmware"}]
=============================================================================
