------------------------------- MODULE Ledger -------------------------------
(***************************************************************************)
(* The book a status page promises to keep of each name: what every answer *)
(* of the checker said of its servers, added up by day, kept for as long   *)
(* as days are kept, and forgotten when the name was not seen for too long *)
(* or the admin deleted it.  It is made of the answers and the deletions   *)
(* alone: under which ids the database holds what is not seen here.        *)
(***************************************************************************)
EXTENDS Naturals

CONSTANTS
  Names,
  Days,       \* the days there can be, numbers in their order
  KeepDays,   \* how many days are kept
  StaleAfter  \* how long a name unseen is kept; 0 for ever

VARIABLES
  book,    \* book[n][d]: the up, down and confirmed-down readings of the name
  seen,    \* seen[n]: when the name was last in an answer
  partly   \* names of which a deletion took a part: the book keeps the whole

NoCount    == [up |-> 0, down |-> 0, conf |-> 0]
NoDays     == [d \in Days |-> NoCount]
Plus(a, b) == [up |-> a.up + b.up, down |-> a.down + b.down, conf |-> a.conf + b.conf]

Init ==
  /\ book = [n \in Names |-> NoDays]
  /\ seen = [n \in Names |-> 0]
  /\ partly = {}

(* The names an answer at "now" lets fall: all that were not seen for too  *)
(* long, unless it lists nothing at all.                                   *)
Forgotten(listed, now) ==
  {n \in Names \ listed : listed # {} /\ StaleAfter > 0 /\ seen[n] + StaleAfter < now}

(* An answer lists some names and says so much of each.                    *)
Count(listed, says, now, today) ==
  /\ book' = [n \in Names |->
                IF n \in Forgotten(listed, now) \ partly THEN NoDays
                ELSE [d \in Days |-> IF d + KeepDays < today THEN NoCount
                                     ELSE IF d = today THEN Plus(book[n][d], says[n])
                                     ELSE book[n][d]]]
  /\ seen' = [n \in Names |-> IF n \in listed THEN now ELSE seen[n]]
  /\ UNCHANGED partly

(* A deletion takes some names as a whole, and of some a part.             *)
Forget(whole, part) ==
  /\ book' = [n \in Names |-> IF n \in whole \ partly THEN NoDays ELSE book[n]]
  /\ partly' = partly \cup part
  /\ UNCHANGED seen
=============================================================================
