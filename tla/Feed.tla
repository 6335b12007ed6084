-------------------------------- MODULE Feed --------------------------------
(***************************************************************************)
(* The subscription the checker is given: Internal.sub of internal/web,    *)
(* FilterJSON and Merge of internal/sub, and the bot's diagnosis of the    *)
(* same subscriptions (subDiagText, Diagnose).  A panel answers a request  *)
(* with a body, here its form and the servers in it; a server is a share   *)
(* link, or a configuration of one or more nodes.  The requests of one     *)
(* answer read nothing the rest of the program writes but the list of      *)
(* subscriptions, read once, so an answer is computed from what they got.  *)
(***************************************************************************)
EXTENDS Integers, SequencesExt

CONSTANTS
  Items,       \* share links and configurations
  Remark,      \* Remark[i]: the name i carries, "" for none
  Tag,         \* Tag[i]: the hash of i, which two items may share
  Nodes,       \* Nodes[i]: the nodes of i that a checker can test, in order
  Env          \* SUBSCRIPTION_URL: the subscriptions where none are stored

ASSUME FeedAssumption ==
  /\ \A i \in Items : Tag[i] # "" /\ Nodes[i] \in Seq(STRING)
  /\ Remark \in [Items -> STRING]

JSONForms == {"array", "envelope", "object"}
Forms     == JSONForms \cup {"broken", "links", "empty"}
(* A body, and whether it came with status 200; no answer at all.          *)
Body(form, items, ok) == [form |-> form, items |-> items, ok |-> ok]
Unreachable == Body("none", <<>>, FALSE)

(* A name before and after its twins are told apart, and without the tag.  *)
Name(i)     == <<Remark[i], "">>
TagName(i)  == <<Remark[i], Tag[i]>>
StripTag(n) == <<n[1], "">>

-----------------------------------------------------------------------------
(* got[k] is what the k-th subscription was found to be; one that is       *)
(* unreachable has no items.                                               *)

(* Bodies of JSON are joined, and the others left out.                     *)
FilterJSON(got) ==
  [ok  |-> \E k \in DOMAIN got : got[k].form \in JSONForms,
   all |-> FlattenSeq([k \in DOMAIN got |-> IF got[k].form \in JSONForms THEN got[k].items
                                            ELSE <<>>])]

(* Mutant: one line of a remark is enough.                                 *)
Lines_remark(got) ==
  FoldLeft(LAMBDA seen, l : IF \E m \in ToSet(seen) : Remark[m] = Remark[l] THEN seen
                            ELSE Append(seen, l),
           <<>>, FlattenSeq([k \in DOMAIN got |-> got[k].items]))
(* The lines of all bodies, each of them once.                             *)
Lines(got) ==
  FoldLeft(LAMBDA seen, l : IF l \in ToSet(seen) THEN seen ELSE Append(seen, l), <<>>,
           FlattenSeq([k \in DOMAIN got |-> got[k].items]))

(* Mutant: a remark is counted in one body.                                *)
remarkCount_body(got, r) == Cardinality({l \in ToSet(got[1].items) : Remark[l] = r})
remarkCount(got, r) == Cardinality({l \in ToSet(Lines(got)) : Remark[l] = r})

Named(i, name) == [item |-> i, name |-> name]

(* Remarks that repeat get the tag of their line.                          *)
MergedName(got, i) ==
  IF Remark[i] # "" /\ remarkCount(got, Remark[i]) > 1 THEN TagName(i) ELSE Name(i)
Merge(got) ==
  LET lines == Lines(got)
  IN [k \in DOMAIN lines |-> Named(lines[k], MergedName(got, lines[k]))]

-----------------------------------------------------------------------------
(* The handler of /sub.                                                    *)

(* The subscriptions of the bot, or else those of the environment.         *)
Upstreams(stored) == IF stored = <<>> THEN Env ELSE stored

Fetched(got) == {k \in DOMAIN got : got[k] # Unreachable}

Failure(code) == [code |-> code, json |-> FALSE, served |-> <<>>]
(* The answer, from what each subscription was found to be.                *)
sub(got) ==
  LET j == FilterJSON(got)
  IN IF got = <<>> THEN Failure(404)
     ELSE IF Fetched(got) = {} THEN Failure(502)
     ELSE [code   |-> 200,
           json   |-> j.ok,
           served |-> IF j.ok THEN [k \in DOMAIN j.all |-> Named(j.all[k], Name(j.all[k]))]
                      ELSE Merge(got)]

-----------------------------------------------------------------------------
(* The diagnosis, with the groups the checker lists.                       *)

Diagnose(b) ==
  [json    |-> b.form \in JSONForms,
   configs |-> IF b.form \in JSONForms THEN b.items ELSE <<>>,
   links   |-> IF b.form = "links" THEN Len(b.items) ELSE 0]

Balancers(d) == {i \in ToSet(d.configs) : Len(Nodes[i]) > 1}

Answered(got) == {k \in DOMAIN got : got[k].ok}
Documents(got) == {k \in Answered(got) : Diagnose(got[k]).json}

(* Mutant: a mixture of formats is not looked at.                          *)
verdict_unmixed(got, chkErr, chkGroups) ==
  IF Answered(got) = {} THEN "dead" ELSE IF Documents(got) = {} THEN "no json" ELSE "ok"
(* The first line that fits: the diagnosis, unlike sub, asks for a status  *)
(* of 200.                                                                 *)
verdict(got, chkErr, chkGroups) ==
  LET groups == UNION {Balancers(Diagnose(got[k])) : k \in Documents(got)}
  IN IF got = <<>>                           THEN "none"
     ELSE IF Answered(got) = {}              THEN "dead"
     ELSE IF chkErr                          THEN "no checker"
     ELSE IF groups # {} /\ chkGroups = {}   THEN "groups unseen"
     ELSE IF Documents(got) = {}             THEN "no json"
     ELSE IF Documents(got) # Answered(got)  THEN "mixed"
     ELSE IF groups = {}                     THEN "no groups"
     ELSE "ok"
=============================================================================
