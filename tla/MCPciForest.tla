---------------------------- MODULE MCPciForest ----------------------------
(***************************************************************************)
(* Machines for TLC with properly assigned bus numbers: three buses, two   *)
(* devices and three functions.  Location 0.0.0 is a single-function host  *)
(* bridge or one of up to three host controllers; buses 1 and 2 may hang   *)
(* below bus 0, below each other, or be the buses of host controllers.     *)
(***************************************************************************)
EXTENDS PciScan

Leaf(multi) == [present |-> TRUE, multi |-> multi, bridge |-> FALSE, secondary |-> 0]
BridgeTo(b) == [present |-> TRUE, multi |-> FALSE, bridge |-> TRUE, secondary |-> b]

\* A device: its functions 0, 1 and 2.
Single(targets) ==
  {<<f, Absent, Absent>> : f \in {Absent, Leaf(FALSE)} \union {BridgeTo(b) : b \in targets}}
Multi(targets) ==
  {<<Leaf(TRUE), Absent, f>> : f \in {Leaf(FALSE)} \union {BridgeTo(b) : b \in targets}}
HostBridges ==
  {<<Leaf(FALSE), Absent, Absent>>} \union
  {<<Leaf(TRUE), f, g>> : f, g \in {Absent, Leaf(FALSE)}}

Machine(d) == [loc \in Location |-> d[2 * loc[1] + loc[2] + 1][loc[3] + 1]]

Machines ==
  {Machine(d) : d \in HostBridges \X Single({1, 2}) \X
                      (Single({2}) \union Multi({2})) \X Single({2}) \X
                      (Single({1}) \union Multi({1})) \X Single({})}

Forests == {c \in Machines : Forest(c)}
=============================================================================
