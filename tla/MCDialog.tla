------------------------------ MODULE MCDialog ------------------------------
(***************************************************************************)
(* Instances of Dialog for TLC: two admins, two handlers, two texts with a *)
(* link of its own each.                                                   *)
(***************************************************************************)
EXTENDS Dialog, TLC

CONSTANTS a1, a2, h1, h2, n1, n2, t1, t2

OwnLinks == [t \in {t1, t2} |-> t]

AllButtons ==
  {Ask(q) : q \in Questions} \cup {AskName(n) : n \in {n1, n2}}
    \cup {Home, Done, Delete, Set("resolved")}
SubButtons == {Ask("sub_add"), Home}
Alike ==
  Permutations({a1, a2}) \cup Permutations({h1, h2}) \cup Permutations({n1, n2})
    \cup Permutations({t1, t2})
=============================================================================
