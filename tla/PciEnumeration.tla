--------------------------- MODULE PciEnumeration ---------------------------
(***************************************************************************)
(* What ScanAllBus promises, without its recursion: functions are listed   *)
(* one at a time, each on a root bus or behind a bridge listed before it,  *)
(* until there is none left (kSuccess) or one is left and there is no room *)
(* for it (kFull).                                                         *)
(***************************************************************************)
EXTENDS PciConfigSpace

CONSTANT Capacity

VARIABLES
  config,   \* the machine's configuration space
  listed,   \* the locations listed so far
  result    \* "scanning", then the Error of ScanAllBus

enumVars == <<config, listed, result>>

\* The locations that the roots and the bridges in S lead to.
Frontier(c, S) ==
  {loc \in Location :
     /\ OnBus(c, loc)
     /\ loc[1] \in RootBuses(c) \/ \E b \in S : Leads(c, b, loc[1])}

EnumInit ==
  /\ config \in ConfigSpace
  /\ listed = {}
  /\ result = "scanning"

List ==
  /\ result = "scanning"
  /\ Cardinality(listed) < Capacity
  /\ \E loc \in Frontier(config, listed) \ listed : listed' = listed \union {loc}
  /\ UNCHANGED <<config, result>>

Succeed ==
  /\ result = "scanning"
  /\ Frontier(config, listed) \subseteq listed
  /\ result' = "kSuccess"
  /\ UNCHANGED <<config, listed>>

GiveUp ==
  /\ result = "scanning"
  /\ Cardinality(listed) = Capacity
  /\ ~(Frontier(config, listed) \subseteq listed)
  /\ result' = "kFull"
  /\ UNCHANGED <<config, listed>>

EnumNext == List \/ Succeed \/ GiveUp

EnumSpec == EnumInit /\ [][EnumNext]_enumVars /\ WF_enumVars(EnumNext)
=============================================================================
