------------------------------ MODULE MCKernel ------------------------------
(***************************************************************************)
(* Machines for TLC with up to six functions on two buses, the second one  *)
(* behind a bridge or the bus of a second host controller.                 *)
(***************************************************************************)
EXTENDS Kernel

Leaf(multi) == [present |-> TRUE, multi |-> multi, bridge |-> FALSE, secondary |-> 0]
Bridge      == [present |-> TRUE, multi |-> FALSE, bridge |-> TRUE, secondary |-> 1]

Machine(d) ==
  [loc \in Scan!Location |->
     CASE loc = <<0, 0, 0>> -> d[1]
       [] loc = <<0, 0, 1>> -> d[2]
       [] loc = <<0, 1, 0>> -> d[3]
       [] loc = <<1, 0, 0>> -> d[4]
       [] loc = <<1, 0, 1>> -> d[5]
       [] loc = <<1, 1, 0>> -> d[6]
       [] OTHER -> Scan!Absent]

Small ==
  LET any   == {Scan!Absent, Leaf(TRUE), Leaf(FALSE), Bridge}
      plain == {Scan!Absent, Leaf(FALSE)}
  IN  {Machine(d) : d \in any \X plain \X any \X any \X plain \X plain}
=============================================================================
