----------------------------- MODULE MCPciScan -----------------------------
(***************************************************************************)
(* Machines for TLC.  Any topology of two buses, three devices and two     *)
(* functions per device, cyclic ones and shared secondary buses included:  *)
(* bus 0 has two devices, bus 1 has one and perhaps a plain second one.    *)
(***************************************************************************)
EXTENDS PciScan

Leaf(multi) == [present |-> TRUE, multi |-> multi, bridge |-> FALSE, secondary |-> 0]
BridgeTo(multi, b) == [present |-> TRUE, multi |-> multi, bridge |-> TRUE, secondary |-> b]

Zeroth == {Absent} \union {Leaf(m) : m \in BOOLEAN} \union
          {BridgeTo(m, b) : m \in BOOLEAN, b \in Bus}
Higher == {Absent, Leaf(FALSE)} \union {BridgeTo(FALSE, b) : b \in Bus}

AnyTopology ==
  {[loc \in Location |->
      CASE loc[2] = 0 /\ loc[3] = 0 -> p[loc[1] + 1]
        [] loc[2] = 0 /\ loc[3] = 1 -> q[loc[1] + 1]
        [] loc = <<0, 1, 0>> -> r
        [] loc = <<1, 1, 0>> -> s
        [] OTHER -> Absent] :
    p \in Zeroth \X Zeroth, q \in Higher \X Higher, r \in Zeroth, s \in {Absent, Leaf(FALSE)}}

\* Those with several host controllers at 0.0.
MultiHost ==
  {c \in AnyTopology : Present(c, 0, 0, 0) /\ ReadHeaderType(c, 0, 0, 0)}
=============================================================================
