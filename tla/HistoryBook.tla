---------------------------- MODULE HistoryBook ----------------------------
(***************************************************************************)
(* History held against the book of Ledger, which is kept in step with the *)
(* answers and the deletions, and knows nothing of rows, merges and ids.   *)
(***************************************************************************)
EXTENDS History, Functions

VARIABLES book, seen, partly
bookVars == <<book, seen, partly>>

Book == INSTANCE Ledger

Named(n) == {s \in Sids : NameOf[s] = n}
NamesIn(S) == {NameOf[s] : s \in S}

(* What an answer says of each name.                                       *)
Says(listed, up) ==
  [n \in Names |-> [up   |-> Cardinality(up \cap Named(n)),
                    down |-> Cardinality((listed \ up) \cap Named(n)),
                    conf |-> Cardinality({s \in (listed \ up) \cap Named(n) : Confirmed(s)})]]

(* A deletion takes a name as a whole when it takes all the rows of it, and*)
(* all that belongs to them.                                               *)
Whole(s, failed) ==
  {n \in NamesIn(Doomed(s)) : \A t \in Rows \cap Named(n) :
      t \in Doomed(s) /\ \A table \in {"current", "daily", "samples"} : <<table, t>> \notin failed}

BookInit == Init /\ Book!Init

Answer(listed, up) ==
  /\ PollWrite(listed, up)
  /\ Book!Count(NamesIn(listed), Says(listed, up), now, dayOf(now))
Deletion(s, failed) ==
  /\ DeleteServer(s, failed)
  /\ Book!Forget(Whole(s, failed), NamesIn(Doomed(s)) \ Whole(s, failed))
Consolidation == ReadMerges \/ EndMerge \/ \E from, to \in Sids : MergeSid(from, to)

BookNext ==
  \/ \E listed \in Listings : \E up \in SUBSET listed : Answer(listed, up)
  \/ \E s \in Sids, failed \in Failing : Deletion(s, failed)
  \/ (Consolidation \/ Tick) /\ UNCHANGED bookVars

BookSpec == BookInit /\ [][BookNext]_<<vars, bookVars>>

-----------------------------------------------------------------------------
(* Properties.                                                             *)

(* What "daily" holds of the servers of a name.                            *)
CountOf(table, n, d) ==
  [up   |-> SumFunctionOnSet([s \in Named(n) |-> table[s][d].up], Named(n)),
   down |-> SumFunctionOnSet([s \in Named(n) |-> table[s][d].down], Named(n)),
   conf |-> SumFunctionOnSet([s \in Named(n) |-> table[s][d].conf], Named(n))]

AtMost(a, b) == a.up <= b.up /\ a.down <= b.down /\ a.conf <= b.conf

(* PollWrite, the merges, the cleaning and the deletions, in any order and *)
(* cut off anywhere, keep of a name what the answers said of it: nothing is*)
(* counted twice, and nothing is lost but what a deletion that took only a *)
(* part of the name lost with it.                                          *)
HistoryIsKept ==
  \A n \in Names, d \in Days :
    IF n \in partly THEN AtMost(CountOf(daily, n, d), book[n][d])
    ELSE CountOf(daily, n, d) = book[n][d]

(* Nothing is kept of a server without a row: what "daily" and "samples"   *)
(* hold is reachable from the page, and a server deleted half way through a*)
(* consolidation takes what was merged into it along; unless a deletion    *)
(* took only a part of its name.                                           *)
NoOrphans ==
  \A s \in Sids : (online[s] = "none" /\ NameOf[s] \notin partly) =>
                    daily[s] = NoDays /\ samples[s] = {}
=============================================================================
