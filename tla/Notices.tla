------------------------------- MODULE Notices -------------------------------
(***************************************************************************)
(* What the alerts of the status page promise, whatever happens inside:    *)
(* a message about a host says what the page shows of it at that moment,   *)
(* and a difference between page and chat that lasts is told.              *)
(***************************************************************************)
CONSTANT Hosts

VARIABLES
  page,   \* what the page shows of each host, "new" before its first row
  told    \* what the chat was last told of it; a host starts as working

noticeVars == <<page, told>>

Init ==
  /\ page = [h \in Hosts |-> "new"]
  /\ told = [h \in Hosts |-> "up"]

(* The page changes on its own, and a host it knows is never new again.    *)
Record ==
  /\ page' \in [Hosts -> {"new", "up", "down"}]
  /\ \A h \in Hosts : page[h] # "new" => page'[h] # "new"
  /\ UNCHANGED told

Tell(h) ==
  /\ page[h] \in {"up", "down"}
  /\ told[h] # page[h]
  /\ told' = [told EXCEPT ![h] = page[h]]
  /\ UNCHANGED page

Next == Record \/ \E h \in Hosts : Tell(h)

Safe == Init /\ [][Next]_noticeVars
Spec == Safe /\ \A h \in Hosts : WF_noticeVars(Tell(h))
=============================================================================
