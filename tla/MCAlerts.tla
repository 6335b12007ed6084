------------------------------ MODULE MCAlerts ------------------------------
(***************************************************************************)
(* Instances of Alerts for TLC: the hosts of MCPoller.                     *)
(***************************************************************************)
EXTENDS Alerts

(* One server of its own.                                                  *)
SoloSids == {"a"}
SoloName == [s \in SoloSids |-> s]
SoloGrp  == [s \in SoloSids |-> "-"]
AnySolo  == SUBSET SoloSids
(* A server of its own and a balancer of two nodes; whole hosts are listed.*)
BalancerSids == {"a", "g1", "g2"}
BalancerName == [s \in BalancerSids |-> s]
BalancerGrp  == [s \in BalancerSids |-> IF s = "a" THEN "-" ELSE "G"]
WholeHosts   == {{}, {"a"}, {"g1", "g2"}, {"a", "g1", "g2"}}
(* The two nodes of a balancer, always listed together.                    *)
NodesSids == {"g1", "g2"}
NodesName == [s \in NodesSids |-> s]
NodesGrp  == [s \in NodesSids |-> "G"]
BothNodes == {{}, NodesSids}
(* Two subscriptions with a server "X" each; any of the two is listed.     *)
TwinSids == {"x1", "x2"}
TwinName == [s \in TwinSids |-> "X"]
TwinGrp  == [s \in TwinSids |-> "-"]
AnyTwins == SUBSET TwinSids
=============================================================================
