------------------------------ MODULE MCWebCtl ------------------------------
(***************************************************************************)
(* Instances of WebCtl for TLC: main and two buttons at a time.            *)
(***************************************************************************)
EXTENDS WebCtl

TwoAdmins == {"main", "a", "b"}
TwoPorts  == {"http", "https"}
=============================================================================
