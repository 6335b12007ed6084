-------------------------------- MODULE Site --------------------------------
(***************************************************************************)
(* From the subscriptions to the page.  The checker (external) takes the   *)
(* answer of /sub, tests its nodes and lists them; a poll writes what it   *)
(* lists; the admin hides servers and opens maintenance in the bot; and    *)
(* BuildSummary and dayPayload of internal/summary make of the tables what *)
(* a visitor sees, by reads that a poll or the admin may come between.     *)
(* Names are those of Feed, the third part of a name being that of a node. *)
(* How rows are merged, deleted and cleaned is in History.                 *)
(***************************************************************************)
EXTENDS Feed

CONSTANTS
  Subscriptions,   \* the stored lists an admin may leave
  Upstream,        \* Upstream[u]: what subscription u may be found to be
  MaxPolls,        \* bound: polls, all of them on one day
  MaxMarks         \* bound: buttons the admin presses

ASSUME SiteAssumption ==
  /\ IsFiniteSet(Items)
  /\ \A u \in DOMAIN Upstream : \A b \in Upstream[u] :
       b = Unreachable \/ (b.form \in Forms /\ b.items \in Seq(Items) /\ b.ok \in BOOLEAN)
  /\ Env \in Seq(DOMAIN Upstream) /\ Subscriptions \subseteq Seq(DOMAIN Upstream)
  /\ MaxPolls \in Nat /\ MaxMarks \in Nat

VARIABLES
  answer,    \* history: what the last request of /sub found and was answered
  listed,    \* the servers the checker lists
  current,   \* table current: the row of each node, or NoRow
  daily,     \* table daily: the counters of the day
  samples,   \* table samples: of each node, when it was polled and found what
  last_poll_ts,
  hidden,    \* table hidden: names
  maint,     \* names under maintenance
  merging,   \* the poll has still to consolidate the rows
  req,       \* what the request for the summary that is under way has read
  marks,
  hid,       \* history: the servers the admin has hidden
  steady     \* history: all polls have listed the same servers

tables   == <<current, daily, samples, last_poll_ts>>
adminVars == <<hidden, maint, marks, hid>>
siteVars == <<answer, listed, tables, merging, steady, adminVars, req>>

NoGrp    == <<>>
NoRow    == [name |-> <<>>, grp |-> NoGrp, online |-> FALSE, ts |-> 0, seq |-> 0]
NoCount  == [up |-> 0, down |-> 0, conf |-> 0]
NoAnswer == [code |-> 0, json |-> FALSE, served |-> <<>>, got |-> <<>>]
NoReq    == [at |-> "none", polled |-> 0, current |-> <<>>, daily |-> <<>>, hidden |-> {}]
Sids     == UNION {ToSet(Nodes[i]) : i \in Items}
ItemOf(s) == CHOOSE i \in Items : s \in ToSet(Nodes[i])

Init ==
  /\ answer = NoAnswer
  /\ listed = <<>>
  /\ current = [s \in Sids |-> NoRow]
  /\ daily = [s \in Sids |-> NoCount]
  /\ samples = [s \in Sids |-> {}]
  /\ last_poll_ts = 0
  /\ hidden = {} /\ maint = {}
  /\ merging = FALSE
  /\ req = NoReq
  /\ marks = 0 /\ hid = {} /\ steady = TRUE

Plus(a, b) == [up |-> a.up + b.up, down |-> a.down + b.down, conf |-> a.conf + b.conf]
(* The counters of servers, added to one.                                  *)
Added(c, table, S) == FoldSet(LAMBDA s, sum : Plus(sum, table[s]), c, S)

-----------------------------------------------------------------------------
(* The checker asks for its subscription, here at most once between two    *)
(* polls, and takes a good answer.  It tests each node of a configuration  *)
(* of several as a server of a group.                                      *)

Proxies(named) ==
  LET nodes == Nodes[named.item]
  IN IF Len(nodes) = 1 THEN <<[sid |-> nodes[1], name |-> named.name, grp |-> NoGrp]>>
     ELSE [k \in DOMAIN nodes |->
             [sid |-> nodes[k], name |-> named.name \o <<nodes[k]>>, grp |-> named.name]]
Listing(served) == FlattenSeq([k \in DOMAIN served |-> Proxies(served[k])])

GetSub(stored) ==
  /\ answer = NoAnswer /\ last_poll_ts < MaxPolls
  /\ \E got \in [DOMAIN Upstreams(stored) -> UNION {Upstream[u] : u \in DOMAIN Upstream}] :
       /\ \A k \in DOMAIN got : got[k] \in Upstream[Upstreams(stored)[k]]
       /\ LET a == sub(got)
          IN /\ answer' = [code |-> a.code, json |-> a.json, served |-> a.served, got |-> got]
             /\ listed' = IF a.code # 200 THEN listed
                          ELSE Listing(a.served)
  /\ UNCHANGED <<tables, merging, steady, adminVars, req>>

Rows(cur)     == {s \in Sids : cur[s] # NoRow}
ListedSids    == {listed[k].sid : k \in DOMAIN listed}
(* The servers the last poll has written.                                  *)
Polled        == {ItemOf(s) : s \in {x \in Rows(current) : current[x].ts = last_poll_ts}}

(* What a poll counts for a server: a down is confirmed by one before it.  *)
Confirmed(s) == s \in Rows(current) /\ ~current[s].online /\ last_poll_ts' - current[s].ts <= 2
(* Mutant: confirmed whatever the new reading is.                          *)
Reading_any(s, on) ==
  [up |-> IF s \in on THEN 1 ELSE 0, down |-> IF s \in on THEN 0 ELSE 1,
   conf |-> IF Confirmed(s) THEN 1 ELSE 0]
Reading(s, on) ==
  [up |-> IF s \in on THEN 1 ELSE 0, down |-> IF s \in on THEN 0 ELSE 1,
   conf |-> IF s \notin on /\ Confirmed(s) THEN 1 ELSE 0]

(* The place of a server in the answer, which the checker gives it once,   *)
(* and the row written of it.                                              *)
seq(s) == CHOOSE k \in DOMAIN listed : listed[k].sid = s
Row(s, on) == [name |-> listed[seq(s)].name, grp |-> listed[seq(s)].grp,
               online |-> s \in on, ts |-> last_poll_ts', seq |-> seq(s)]

(* PollWrite, of what the poller takes for online.                         *)
Poll(on) ==
  /\ ~merging /\ last_poll_ts < MaxPolls
  /\ last_poll_ts' = last_poll_ts + 1
  /\ current' = [s \in Sids |-> IF s \in ListedSids THEN Row(s, on) ELSE current[s]]
  /\ daily' = [s \in Sids |-> IF s \in ListedSids THEN Plus(daily[s], Reading(s, on))
                               ELSE daily[s]]
  /\ samples' = [s \in Sids |-> IF s \in ListedSids
                                 THEN samples[s] \cup {<<last_poll_ts', s \in on>>}
                                 ELSE samples[s]]
  /\ merging' = TRUE
  /\ steady' = (steady /\ (last_poll_ts = 0 \/ Polled = {ItemOf(s) : s \in ListedSids}))
  /\ answer' = NoAnswer
  /\ UNCHANGED <<listed, adminVars, req>>

(* ConsolidateByName: a row that was not polled is merged into the most    *)
(* recent one of its name.                                                 *)
byName(s)  == {t \in Rows(current) : current[t].name = current[s].name}
canon(s)   == CHOOSE t \in byName(s) : \A r \in byName(s) : current[r].ts <= current[t].ts
Gone       == {s \in Rows(current) : canon(s) # s /\ current[s].ts < last_poll_ts}
GoneInto(s) == {g \in Gone : canon(g) = s}
ConsolidateByName ==
  /\ merging
  /\ merging' = FALSE
  /\ current' = [s \in Sids |-> IF s \in Gone THEN NoRow ELSE current[s]]
  /\ daily' = [s \in Sids |-> IF s \in Gone THEN NoCount
                               ELSE Added(daily[s], daily, GoneInto(s))]
  /\ samples' = [s \in Sids |-> IF s \in Gone THEN {}
                                 ELSE samples[s] \cup UNION {samples[g] : g \in GoneInto(s)}]
  /\ UNCHANGED <<answer, listed, last_poll_ts, steady, adminVars, req>>

-----------------------------------------------------------------------------
(* The admin, in the menus of visibility and maintenance: a button has the *)
(* name of the server it is pressed for.                                   *)

groupDisplay(r) == IF r.grp # NoGrp THEN r.grp ELSE r.name
(* The servers with a button, and what the button of a server says.        *)
Buttons   == {ItemOf(s) : s \in Rows(current)}
Button(i) == groupDisplay(current[CHOOSE s \in Rows(current) : ItemOf(s) = i])

Mark ==
  /\ marks < MaxMarks
  /\ marks' = marks + 1
  /\ UNCHANGED <<answer, listed, tables, merging, steady, req>>

SetHiddenName(n) == hidden' = (hidden \cup {n}) \ (hidden \cap {n})
handleVisCallback(i) ==
  /\ i \in Buttons
  /\ Mark
  /\ SetHiddenName(Button(i))
  /\ hid' = IF Button(i) \in hidden THEN hid \ {i} ELSE hid \cup {i}
  /\ UNCHANGED maint

AddMaintenance(i) ==
  /\ i \in Buttons
  /\ Mark
  /\ maint' = maint \cup {Button(i)}
  /\ UNCHANGED <<hidden, hid>>

-----------------------------------------------------------------------------
(* BuildSummary, as a function of what has been read.                      *)

(* Mutant: servers that are shown by one name are one.                     *)
groupKey_name(cur, s) == StripTag(groupDisplay(cur[s]))
groupKey(cur, s) == IF cur[s].grp # NoGrp THEN <<"g", cur[s].grp>> ELSE <<"s", s>>
Groups(cur) == {{t \in Rows(cur) : groupKey(cur, t) = groupKey(cur, s)} : s \in Rows(cur)}

(* The freshest member, the first of them in the answer it was written of. *)
Canon(cur, ms) ==
  CHOOSE s \in ms : \A t \in ms :
    \/ cur[s].ts > cur[t].ts
    \/ cur[s].ts = cur[t].ts /\ cur[s].seq <= cur[t].seq

Round(a, b) == (2 * a + b) \div (2 * b)
(* The day of a tile: the counters of its members, and their mean downtime.*)
Day(day, ms) ==
  LET data == {s \in ms : day[s] # NoCount}
      sum  == Added(NoCount, day, data)
  IN [up |-> sum.up, total |-> sum.up + sum.down,
      downMin |-> IF data = {} THEN 0 ELSE Round(sum.conf, Cardinality(data))]

(* Mutant: the state of a group is that of its first member.               *)
Online_canon(cur, ms) == cur[Canon(cur, ms)].online
Online(cur, ms) == \E s \in ms : cur[s].online
Active(r, ms)   == r.last = 0 \/ \E s \in ms : r.current[s].ts >= r.last

Tile(r, ms) ==
  LET sid == Canon(r.current, ms)
      raw == groupDisplay(r.current[sid])
  IN [sid |-> sid, of |-> ms, name |-> StripTag(raw), day |-> Day(r.daily, ms),
      online |-> Online(r.current, ms), maintenance |-> raw \in r.maint,
      hidden |-> raw \in r.hidden, absent |-> ~Active(r, ms)]

(* Mutant: what the page does not show is counted.                         *)
Counted_all(tiles) == {t \in tiles : ~t.maintenance}
Counted(tiles) == {t \in tiles : ~t.hidden /\ ~t.absent /\ ~t.maintenance}

(* An admin sees all servers; the totals are those of the page.            *)
BuildSummary(r, admin) ==
  LET tiles  == {Tile(r, ms) : ms \in Groups(r.current)}
      public == {t \in tiles : ~t.hidden /\ ~t.absent}
  IN [tiles  |-> IF admin THEN tiles ELSE public,
      online |-> Cardinality({t \in Counted(tiles) : t.online}),
      total  |-> Cardinality(Counted(tiles)),
      maintenance |-> Cardinality({t \in public : t.maintenance})]

(* The mark of the bot's panel, of its status and of the daily summary.    *)
liveStatus(p) ==
  IF p.online = 0 /\ p.total > 0 THEN "red" ELSE IF p.online < p.total THEN "yellow" ELSE "green"

-----------------------------------------------------------------------------
(* A visitor's request: a read of the rows, of the counters, of what is    *)
(* hidden, and the last poll and the maintenance, which are compared.      *)

Visit(from, next) ==
  /\ req.at = from
  /\ req' = next
  /\ UNCHANGED <<answer, listed, tables, merging, steady, adminVars>>

CurrentRows ==
  Visit("none", [NoReq EXCEPT !.at = "rows", !.current = current, !.polled = last_poll_ts])
DailyRows == Visit("rows", [req EXCEPT !.at = "daily", !.daily = daily])
HiddenSet == Visit("daily", [req EXCEPT !.at = "hidden", !.hidden = hidden])
(* The answer goes out; what it says is Page below.                        *)
summary   == Visit("hidden", NoReq)

(* What a request that answers now has read, and answers.                  *)
Read == [current |-> req.current, daily |-> req.daily, hidden |-> req.hidden,
         maint |-> maint, last |-> last_poll_ts]
Page(admin) == BuildSummary(Read, admin)

(* The day of a tile opened: its checks, one for each poll.                *)
GroupMembers(sid) ==
  IF current[sid] = NoRow THEN {sid}
  ELSE {s \in Rows(current) : current[s].name = current[sid].name}
dayPayload(sid) ==
  LET found == UNION {samples[s] : s \in GroupMembers(sid)}
  IN {[ts |-> p, online |-> <<p, TRUE>> \in found] : p \in {x[1] : x \in found}}

Next ==
  \/ \E stored \in Subscriptions : GetSub(stored)
  \/ \E on \in SUBSET ListedSids : Poll(on)
  \/ ConsolidateByName
  \/ \E i \in Items : handleVisCallback(i) \/ AddMaintenance(i)
  \/ CurrentRows \/ DailyRows \/ HiddenSet \/ summary

Spec == Init /\ [][Next]_siteVars

-----------------------------------------------------------------------------
(* Properties.                                                             *)

TypeOK ==
  /\ answer.code \in {0, 200, 404, 502}
  /\ \A k \in DOMAIN listed : listed[k].sid \in Sids
  /\ \A s \in Sids : current[s] = NoRow \/ current[s].ts \in 1..last_poll_ts
  /\ \A s \in Sids : /\ daily[s] \in [up : Nat, down : Nat, conf : Nat]
                   /\ (daily[s].conf = 0 \/ daily[s].conf < daily[s].down)
  /\ \A s \in Sids : samples[s] \subseteq (1..last_poll_ts) \X BOOLEAN
  /\ last_poll_ts \in 0..MaxPolls /\ marks \in 0..MaxMarks
  /\ hid \subseteq Items /\ merging \in BOOLEAN /\ steady \in BOOLEAN
  /\ req.at \in {"none", "rows", "daily", "hidden"}

(* Nothing that was fetched is lost on the way to the checker: an answer   *)
(* of links has each link of every subscription once; an answer of JSON    *)
(* all configurations of the bodies that are JSON (Merge and FilterJSON).  *)
ListsWhole ==
  LET served == [k \in DOMAIN answer.served |-> answer.served[k].item]
      bodies == {b \in ToSet(answer.got) : answer.json <=> b.form \in JSONForms}
  IN answer.code = 200 =>
       /\ ToSet(served) = UNION {ToSet(b.items) : b \in bodies}
       /\ ~answer.json => \A j, k \in DOMAIN served : served[j] = served[k] => j = k

(* Links of one remark get names of their own, unless their hashes agree   *)
(* (Merge), and keep the remark for the page (StripTag).                   *)
NamesApart ==
  ~answer.json =>
    \A x, y \in ToSet(answer.served) :
      /\ StripTag(x.name) = Name(x.item)
      /\ (x.item # y.item /\ Remark[x.item] # "" /\ Tag[x.item] # Tag[y.item]) => x.name # y.name

(* The diagnosis of subscriptions that answer with status 200, if at all,  *)
(* tells what /sub answered and the checker made of it: that no JSON came  *)
(* if and only if /sub serves links; that formats are mixed if and only if *)
(* it leaves a body out of its JSON; else that groups arrive if and only if*)
(* the checker lists one, and then no server is missing from the answer    *)
(* (subDiagText against sub).                                              *)
DiagnosisAgrees ==
  LET groups  == {listed[k].grp : k \in DOMAIN listed} \ {NoGrp}
      v       == verdict(answer.got, FALSE, groups)
      leftOut == \E b \in ToSet(answer.got) : b # Unreachable /\ b.form \notin JSONForms
      served  == {x.item : x \in ToSet(answer.served)}
      sent    == UNION {ToSet(b.items) : b \in ToSet(answer.got)}
  IN (answer.code = 200 /\ \A b \in ToSet(answer.got) : b.ok \/ b = Unreachable) =>
       /\ v = "no json"   <=> ~answer.json
       /\ v = "mixed"     <=> answer.json /\ leftOut
       /\ v = "ok"        <=> answer.json /\ ~leftOut /\ groups # {}
       /\ v = "no groups" <=> answer.json /\ ~leftOut /\ groups = {}
       /\ v # "mixed" => served = sent

(* Servers as the checker tells them apart: no two have a node in common,  *)
(* and no two of several nodes one remark.                                 *)
ServersApart ==
  \A i, j \in Items : i # j =>
    /\ ToSet(Nodes[i]) \cap ToSet(Nodes[j]) = {}
    /\ Remark[i] = Remark[j] => Len(Nodes[i]) <= 1 \/ Len(Nodes[j]) <= 1

(* Servers as Merge tells them apart: those of one remark are links, which *)
(* have a remark, hashes of their own and a node.                          *)
TwinsAreLinks ==
  \A i, j \in Items : (i # j /\ Remark[i] = Remark[j]) =>
    /\ Remark[i] # "" /\ Tag[i] # Tag[j] /\ Nodes[i] # <<>>
    /\ \A u \in DOMAIN Upstream : \A b \in Upstream[u] :
         b.form \in JSONForms => i \notin ToSet(b.items)

(* The page shows what the last poll listed and nothing else: each server  *)
(* whose name is not hidden by one tile of its nodes, which is green when  *)
(* one of them is up; where no poll came between the reads of the request  *)
(* (BuildSummary).                                                         *)
Answers == req.at = "hidden" /\ last_poll_ts > 0
Untorn  == Answers /\ req.polled = last_poll_ts
Up(i)   == \E s \in ToSet(Nodes[i]) : <<last_poll_ts, TRUE>> \in samples[s]
TilesOf(i) == {t \in Page(FALSE).tiles : t.of \cap ToSet(Nodes[i]) # {}}
PageShowsListed ==
  Untorn =>
    \A i \in Items :
      IF i \in Polled /\ Button(i) \notin req.hidden
      THEN \E t \in TilesOf(i) : /\ TilesOf(i) = {t} /\ t.of = ToSet(Nodes[i])
                                 /\ t.online <=> Up(i)
      ELSE TilesOf(i) = {}

(* Servers of one remark are hidden one by one: while the polls list the   *)
(* same servers, those missing from the page are those whose button was    *)
(* pressed, whatever they are called (Merge, handleVisCallback and         *)
(* BuildSummary).                                                          *)
HiddenOneByOne ==
  (Untorn /\ steady /\ req.hidden = hidden) =>
    \A i \in Polled : TilesOf(i) = {} <=> i \in hid

(* The bot's panel and the page count alike: the totals are of the tiles a *)
(* visitor sees, the panel is red when all of them are down and green only *)
(* when none is, whatever else the admin is shown (BuildSummary, with and  *)
(* without admin, and liveStatus).                                         *)
PanelAgrees ==
  Answers =>
    LET seen  == {t \in Page(FALSE).tiles : ~t.maintenance}
        panel == liveStatus(Page(TRUE))
    IN /\ Page(FALSE).total = Cardinality(seen)
       /\ panel = "green" <=> \A t \in seen : t.online
       /\ panel = "red" <=> (seen # {} /\ \A t \in seen : ~t.online)

(* As the README has it of a balancer, one tile that is online while one   *)
(* node lives: a check of the day opened from a tile is online if and only *)
(* if a node of the tile was (dayPayload).                                 *)
DayIsTile ==
  (Untorn /\ ~merging) =>
    \A t \in Page(FALSE).tiles : \A c \in dayPayload(t.sid) :
      c.online = \E s \in t.of : <<c.ts, TRUE>> \in samples[s]
=============================================================================
