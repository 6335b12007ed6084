------------------------------ MODULE MCPoller ------------------------------
(***************************************************************************)
(* Instances of Poller for TLC: a server of its own, and a balancer of two *)
(* nodes.                                                                  *)
(***************************************************************************)
EXTENDS Poller

(* Server "a" alone; "g1" and "g2" are the nodes of balancer "G".          *)
BalancerSids == {"a", "g1", "g2"}
BalancerName == [s \in BalancerSids |-> s]
BalancerGrp  == [s \in BalancerSids |-> IF s = "a" THEN "-" ELSE "G"]
(* Any of them are listed.                                                 *)
AnyNodes == SUBSET BalancerSids
=============================================================================
