------------------------------- MODULE MCSite -------------------------------
(***************************************************************************)
(* Instances of Site for TLC: two subscriptions, whose panels answer with  *)
(* links or with JSON, with an error page, or not at all.                  *)
(***************************************************************************)
EXTENDS Site

(* Two links of one remark, one in each subscription; a balancer; what an  *)
(* error page in JSON is taken for.                                        *)
TwinItems  == {"a", "b", "bal", "err"}
TwinRemark == [i \in TwinItems |-> IF i \in {"a", "b"} THEN "X" ELSE IF i = "bal" THEN "G" ELSE ""]
TwinTag    == [i \in TwinItems |-> i]
TwinNodes  == [i \in TwinItems |-> IF i = "bal" THEN <<"g1", "g2">> ELSE IF i = "err" THEN <<>>
                                    ELSE <<i>>]
TwinUpstream ==
  [u \in {"A", "B"} |->
     IF u = "A" THEN {Body("links", <<"a">>, TRUE), Body("empty", <<>>, TRUE), Unreachable}
     ELSE {Body("links", <<"b", "a", "b">>, TRUE), Body("array", <<"bal">>, TRUE),
           Body("object", <<"err">>, FALSE)}]
OnlyA   == <<"A">>
Stored  == {<<>>, <<"A", "B">>}

(* These servers are such as PageIsListed and HiddenByPress are about.     *)
ASSUME TwinSetting == ServersApart /\ TwinsAreLinks
=============================================================================
