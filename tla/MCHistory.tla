----------------------------- MODULE MCHistory -----------------------------
(***************************************************************************)
(* An instance of History for TLC: two servers of one name, one of them in *)
(* a balancer with a third, so that deleting that one takes a part of the  *)
(* name; and DELETEs that fail for one table.                              *)
(***************************************************************************)
EXTENDS HistoryBook

TrioSids == {"x1", "x2", "y"}
TrioName == [s \in TrioSids |-> IF s = "y" THEN "Y" ELSE "X"]
TrioGrp  == [s \in TrioSids |-> IF s = "x2" THEN "-" ELSE "G"]
TrioLists == {{}, {"x1"}, {"x2"}, {"x1", "x2"}, {"x2", "y"}}

OneFails == {{}, {<<"current", "x1">>}, {<<"daily", "x1">>}}
=============================================================================
