------------------------------- MODULE Poller -------------------------------
(***************************************************************************)
(* The polling cycle of internal/poller (pollOnce) over the table          *)
(* "current" of internal/store.  One cycle is a critical section of        *)
(* Poller.mu; the settings, the maintenance windows and the rows it works  *)
(* on belong to the database, which the bot changes between any two of its *)
(* steps.  The cycle is cut into steps at exactly those reads and writes.  *)
(*                                                                         *)
(* A stable id keeps its name and its balancer group.  Times are ages      *)
(* relative to the "now" of the last cycle: time passes between cycles     *)
(* only, since pollOnce reads the clock once.                              *)
(***************************************************************************)
EXTENDS Naturals, FiniteSets

CONSTANTS
  Sids,        \* stable ids the checker can list
  NameOf,      \* NameOf[s]: the remark of server s
  GrpOf,       \* GrpOf[s]: the balancer group of s, or NoGrp
  NoGrp,
  Listings,    \* the sets of ids one answer of the checker can list
  Readings,    \* what it can say of a listed id: "off", "ok", "slow", "nolat"
  OutageNum,   \* GLOBAL_OUTAGE_RATIO = OutageNum / OutageDen
  OutageDen,
  StaleAge,    \* stale_hours, in ticks of the clock between two cycles
  AdminMay,    \* which settings the admin touches
  Faults       \* which of the cycle's database calls may fail

ASSUME PollerAssumption ==
  /\ IsFiniteSet(Sids)
  /\ NameOf \in [Sids -> {NameOf[s] : s \in Sids}]
  /\ GrpOf \in [Sids -> {GrpOf[s] : s \in Sids}]
  /\ Listings \subseteq SUBSET Sids
  /\ Readings \subseteq {"off", "ok", "slow", "nolat"}
  /\ OutageNum \in Nat /\ OutageDen \in Nat /\ StaleAge \in Nat
  /\ AdminMay \subseteq {"skip_global", "autoclean", "ping", "maint", "delete"}
  /\ Faults \subseteq {"read", "write", "merge", "delete", "crash"}

(* The host a server counts for in alerts, and the name alerts call it by. *)
groupKey(s) == IF GrpOf[s] # NoGrp THEN <<"g", GrpOf[s]>> ELSE <<"n", NameOf[s]>>
Keys        == {groupKey(s) : s \in Sids}
Disp(k)     == k[2]
Names       == {Disp(k) : k \in Keys}
AllHosts    == <<"*", "*">>
Members(k)  == {s \in Sids : groupKey(s) = k}

Outages == {"global_suspected", "global_confirmed", "global_cleared"}
Event   == [type : Outages, key : {AllHosts}]
             \cup [type : {"server_down", "server_up", "high_ping", "ping_ok"}, key : Keys]

VARIABLES
  at,          \* where the cycle that holds Poller.mu stands
  report,      \* the checker's last answer
  downStreak,  \* consecutive offline cycles of a sid, 2 for two or more
  streak,      \* consecutive cycles with everything down, 2 for two or more
  pingHigh,    \* hosts whose ping was last seen above the threshold
  transitions, \* the cycle's up/down events, before the write
  pending,     \* events about to be handed to onEvent
  quiet,       \* the cycle's copy of the names in maintenance
  row,         \* table "current": the online column, "none" for no row
  age,         \* table "current": how long ago the row was written
  settings,    \* what the cycle reads of the admin's settings
  heard,       \* history: the last up/down event onEvent got of each host
  prevOff,     \* history: who was offline in the answer before the last
  prevAllOff   \* history: whether everything was offline in that one and the one before

cycleVars  == <<at, downStreak, streak, pingHigh, transitions, pending, quiet>>
tableVars  == <<row, age>>
lastAnswers == <<prevOff, prevAllOff>>
pollerVars == <<cycleVars, tableVars, report, settings, heard, lastAnswers>>

Places == {"idle", "outage", "write", "merge", "maint", "ping", "last"}

TypeOK ==
  /\ at \in Places
  /\ report \in [Sids -> {"absent", "off", "ok", "slow", "nolat"}]
  /\ downStreak \in [Sids -> 0..2]
  /\ streak \in 0..2
  /\ pingHigh \subseteq Keys
  /\ transitions \subseteq Event
  /\ pending \subseteq Event
  /\ quiet \subseteq Names
  /\ row \in [Sids -> {"none", "up", "down"}]
  /\ age \in [Sids -> 0..StaleAge + 1]
  /\ heard \in [Keys -> {"none", "server_down", "server_up"}]
  /\ prevOff \subseteq Sids /\ prevAllOff \in BOOLEAN
  /\ settings \in [skip_global : BOOLEAN, autoclean : BOOLEAN, ping : BOOLEAN,
                   maint : SUBSET Names]

Init ==
  /\ at = "idle"
  /\ report = [s \in Sids |-> "absent"]
  /\ downStreak = [s \in Sids |-> 0]
  /\ streak = 0
  /\ pingHigh = {}
  /\ transitions = {}
  /\ pending = {}
  /\ quiet = {}
  /\ row = [s \in Sids |-> "none"]
  /\ age = [s \in Sids |-> 0]
  /\ heard = [k \in Keys |-> "none"]
  /\ prevOff = {} /\ prevAllOff = FALSE
  /\ settings = [skip_global |-> OutageNum <= OutageDen, autoclean |-> StaleAge > 0,
                 ping |-> FALSE, maint |-> {}]

-----------------------------------------------------------------------------
(* What a cycle makes of the answer: the anti-flap mask.                   *)

Listed(r)    == {s \in Sids : r[s] # "absent"}
(* Mutant: the counters are updated in place, and an absent server keeps its own. *)
nextStreak_kept(r) ==
  [s \in Sids |-> IF r[s] = "absent" THEN downStreak[s]
                  ELSE IF r[s] # "off" THEN 0 ELSE IF downStreak[s] = 0 THEN 1 ELSE 2]
nextStreak(r) ==
  [s \in Sids |-> IF r[s] # "off" THEN 0 ELSE IF downStreak[s] = 0 THEN 1 ELSE 2]
(* Servers the rest of the cycle takes for online: those reported online   *)
(* and those offline for the first cycle only.                             *)
Online(r, d)  == {s \in Listed(r) : r[s] # "off" \/ d[s] < 2}
Offline(r, d) == Listed(r) \ Online(r, d)

AllDown(r, d) ==
  /\ Cardinality(Listed(r)) >= 2
  /\ OutageDen * Cardinality(Offline(r, d)) >= OutageNum * Cardinality(Listed(r))

(* History: the same of the answers as they came: of the servers that were *)
(* offline in this one and in the one before.                              *)
AllOff(r, off) ==
  /\ Cardinality(Listed(r)) >= 2
  /\ OutageDen * Cardinality({s \in off : r[s] = "off"}) >= OutageNum * Cardinality(Listed(r))

Outage(type) == {[type |-> type, key |-> AllHosts]}

(* The decision on a checker-wide outage: the first such cycle is dropped, *)
(* every later one is reported and written.                                *)
(* Mutant: a dropped cycle forgets that it was one.                        *)
SuspectOutage_forgets ==
  /\ streak = 0
  /\ streak' = 0
  /\ pending' = Outage("global_suspected")
  /\ at' = "last"
(* Mutant: the first such cycle is reported.                               *)
SuspectOutage_reports ==
  /\ streak = 0
  /\ streak' = 2
  /\ pending' = Outage("global_confirmed")
  /\ at' = "last"
SuspectOutage ==
  /\ streak = 0
  /\ streak' = 1
  /\ pending' = Outage("global_suspected")
  /\ at' = "last"
ConfirmOutage ==
  /\ streak > 0
  /\ streak' = 2
  /\ pending' = Outage("global_confirmed")
  /\ at' = "outage"
(* Mutant: the end of an outage nobody was told of is announced.           *)
NoOutage_early ==
  /\ streak' = 0
  /\ pending' = IF streak >= 1 THEN Outage("global_cleared") ELSE {}
  /\ at' = "outage"
NoOutage ==
  /\ streak' = 0
  /\ pending' = IF streak = 2 THEN Outage("global_cleared") ELSE {}
  /\ at' = "outage"

(* pollOnce takes the lock and has an answer (a failed Fetch returns and   *)
(* changes nothing).  The clock may or may not have moved since the last   *)
(* cycle: the "refresh" button polls right after the background loop.      *)
Fetch(r, dt) ==
  /\ at = "idle"
  /\ report' = r
  /\ downStreak' = nextStreak(r)
  /\ age' = [s \in Sids |-> IF age[s] + dt > StaleAge THEN StaleAge + 1 ELSE age[s] + dt]
  /\ IF AllDown(r, downStreak') /\ settings.skip_global
     THEN SuspectOutage \/ ConfirmOutage
     ELSE NoOutage
  /\ prevOff' = {s \in Sids : report[s] = "off"}
  /\ prevAllOff' = AllOff(report, prevOff)
  /\ UNCHANGED <<pingHigh, transitions, quiet, row, settings, heard>>

FetchAnswer ==
  \E l \in Listings, dt \in 0..1 :
    \E says \in [l -> Readings] :
      Fetch([s \in Sids |-> IF s \in l THEN says[s] ELSE "absent"], dt)

-----------------------------------------------------------------------------
(* The up/down events of the cycle, from the rows of the cycles before.    *)

(* Mutant: a host was online only if all of it was.                        *)
WasUp_all(k) == \A s \in Members(k) : row[s] = "up"
WasUp(k)   == \E s \in Members(k) : row[s] = "up"
WasSeen(k) == \E s \in Members(k) : row[s] # "none"
IsUp(k)    == Members(k) \cap Online(report, downStreak) # {}
IsSeen(k)  == Members(k) \cap Listed(report) # {}

detectTransitions ==
  {[type |-> "server_down", key |-> k] :
     k \in {h \in Keys : IsSeen(h) /\ WasSeen(h) /\ WasUp(h) /\ ~IsUp(h)}}
  \cup
  {[type |-> "server_up", key |-> k] :
     k \in {h \in Keys : IsSeen(h) /\ WasSeen(h) /\ ~WasUp(h) /\ IsUp(h)}}

(* An outage event, if any, is emitted before the rows are read; if they   *)
(* cannot be read the cycle goes on without events.                        *)
Detect ==
  /\ at = "outage"
  /\ pending = {}
  /\ transitions' \in {detectTransitions} \cup (IF "read" \in Faults THEN {{}} ELSE {})
  /\ at' = "write"
  /\ UNCHANGED <<downStreak, streak, pingHigh, pending, quiet, tableVars, report,
                 settings, heard, lastAnswers>>

(* PollWrite: one row per listed server, then the names none of whose rows *)
(* is recent are dropped.                                                  *)
Stale(r, a) ==
  {s \in Sids : \A t \in Sids : (NameOf[t] = NameOf[s] /\ r[t] # "none") => a[t] > StaleAge}

PollWrite ==
  /\ at = "write"
  /\ LET on == Online(report, downStreak)
         rowW == [s \in Sids |-> IF s \notin Listed(report) THEN row[s]
                                 ELSE IF s \in on THEN "up" ELSE "down"]
         ageW == [s \in Sids |-> IF s \in Listed(report) THEN 0 ELSE age[s]]
         gone == IF Listed(report) # {} /\ StaleAge > 0 /\ settings.autoclean
                 THEN Stale(rowW, ageW) ELSE {}
     IN /\ row' = [s \in Sids |-> IF s \in gone THEN "none" ELSE rowW[s]]
        /\ age' = [s \in Sids |-> IF s \in gone THEN 0 ELSE ageW[s]]
  /\ at' = "merge"
  /\ UNCHANGED <<downStreak, streak, pingHigh, transitions, pending, quiet, report,
                 settings, heard, lastAnswers>>

(* Mutant: the error of the transaction is ignored.                        *)
PollWriteFails_ignored ==
  /\ "write" \in Faults
  /\ at = "write"
  /\ at' = "merge"
  /\ UNCHANGED <<downStreak, streak, pingHigh, transitions, pending, quiet, tableVars, report,
                 settings, heard, lastAnswers>>
(* The transaction fails: pollOnce returns and the events are lost.        *)
PollWriteFails ==
  /\ "write" \in Faults
  /\ at = "write"
  /\ transitions' = {}
  /\ at' = "idle"
  /\ UNCHANGED <<downStreak, streak, pingHigh, pending, quiet, tableVars, report,
                 settings, heard, lastAnswers>>

(* ConsolidateByName: of the rows with one name, keep those written by     *)
(* this cycle and the most recent one; the others are merged into it.      *)
Freshest(n) ==
  {s \in Sids : /\ NameOf[s] = n /\ row[s] # "none"
                /\ \A t \in Sids : (NameOf[t] = n /\ row[t] # "none") => age[s] <= age[t]}

Absorbed(canon) ==
  {s \in Sids : row[s] # "none" /\ age[s] > 0 /\ canon[NameOf[s]] # s}

Canons == {c \in [{NameOf[s] : s \in Sids} -> Sids] :
             \A n \in DOMAIN c : Freshest(n) # {} => c[n] \in Freshest(n)}

(* Mutant: rows are marked and not deleted.                                *)
Drop_marks(out) ==
  /\ row' = [s \in Sids |-> IF s \in out THEN "deleted" ELSE row[s]]
  /\ age' = [s \in Sids |-> IF s \in out THEN 0 ELSE age[s]]
Drop(out) ==
  /\ row' = [s \in Sids |-> IF s \in out THEN "none" ELSE row[s]]
  /\ age' = [s \in Sids |-> IF s \in out THEN 0 ELSE age[s]]

(* Each merge is a transaction of its own: a failure stops after some.     *)
ConsolidateByName ==
  /\ at = "merge"
  /\ \E canon \in Canons :
       \/ Drop(Absorbed(canon))
       \/ /\ "merge" \in Faults
          /\ \E some \in SUBSET Absorbed(canon) : Drop(some)
  /\ at' = "maint"
  /\ UNCHANGED <<downStreak, streak, pingHigh, transitions, pending, quiet, report,
                 settings, heard, lastAnswers>>

-----------------------------------------------------------------------------
(* Events leave the cycle through onEvent, one by one.                     *)

Silence(events, names) == {e \in events : Disp(e.key) \notin names}

(* Only now, after the write, are the maintenance windows looked at.       *)
Announce ==
  /\ at = "maint"
  /\ quiet' = settings.maint
  /\ pending' = Silence(transitions, quiet')
  /\ transitions' = {}
  /\ at' = "ping"
  /\ UNCHANGED <<downStreak, streak, pingHigh, tableVars, report, settings, heard, lastAnswers>>

(* The hosts with a latency to judge, and those whose best one is high: an *)
(* offline answer carries none.                                            *)
Timed == {k \in Keys : \E s \in Members(k) : report[s] \in {"ok", "slow"}}
High  == {k \in Timed : \A s \in Members(k) : report[s] # "ok"}

detectPingEvents ==
  {[type |-> "high_ping", key |-> k] : k \in High \ pingHigh}
    \cup {[type |-> "ping_ok", key |-> k] : k \in (Timed \ High) \cap pingHigh}

(* Maintenance silences the events and not the state they are drawn from.  *)
DetectPing ==
  /\ at = "ping"
  /\ pending = {}
  /\ IF settings.ping
     THEN pingHigh' = High /\ pending' = Silence(detectPingEvents, quiet)
     ELSE pingHigh' = {} /\ UNCHANGED pending
  /\ quiet' = {}
  /\ at' = "last"
  /\ UNCHANGED <<downStreak, streak, transitions, tableVars, report, settings, heard, lastAnswers>>

Emit(e) ==
  /\ e \in pending
  /\ pending' = pending \ {e}
  /\ heard' = IF e.type \in {"server_down", "server_up"}
              THEN [heard EXCEPT ![e.key] = e.type] ELSE heard
  /\ UNCHANGED <<at, downStreak, streak, pingHigh, transitions, quiet, tableVars,
                 report, settings, lastAnswers>>

Return ==
  /\ at = "last"
  /\ pending = {}
  /\ at' = "idle"
  /\ UNCHANGED <<downStreak, streak, pingHigh, transitions, pending, quiet, tableVars,
                 report, settings, heard, lastAnswers>>

-----------------------------------------------------------------------------
(* The rest of the process.                                                *)

(* A restart loses what the poller keeps in memory, at any step of a cycle.*)
Restart ==
  /\ "crash" \in Faults
  /\ at' = "idle"
  /\ downStreak' = [s \in Sids |-> 0]
  /\ streak' = 0
  /\ pingHigh' = {}
  /\ transitions' = {}
  /\ pending' = {}
  /\ quiet' = {}
  /\ UNCHANGED <<tableVars, report, settings, heard, lastAnswers>>

Toggle(f) ==
  /\ f \in AdminMay
  /\ settings' = [settings EXCEPT ![f] = ~@]

(* The bot's menus, whatever the poller is doing.                          *)
ChangeSettings ==
  /\ \/ \E f \in {"skip_global", "autoclean", "ping"} : Toggle(f)
     \/ /\ "maint" \in AdminMay
        /\ \E n \in Names : settings' =
             [settings EXCEPT !.maint = (@ \cup {n}) \ (@ \cap {n})]
  /\ UNCHANGED <<cycleVars, tableVars, report, heard, lastAnswers>>

(* DeleteServer drops the rows that share the name, or the group, of s:    *)
(* each by a DELETE whose error it does not look at.                       *)
Doomed(s) ==
  {t \in Sids : NameOf[t] = NameOf[s] \/ (GrpOf[s] # NoGrp /\ GrpOf[t] = GrpOf[s])}

DeleteServer(s) ==
  /\ "delete" \in AdminMay
  /\ row[s] # "none"
  /\ \E out \in SUBSET Doomed(s) :
       /\ out = Doomed(s) \/ "delete" \in Faults
       /\ Drop(out)
  /\ UNCHANGED <<cycleVars, report, settings, heard, lastAnswers>>

Cycle == FetchAnswer \/ Detect \/ PollWrite \/ ConsolidateByName \/ Announce
           \/ DetectPing \/ Return
Next ==
  \/ Cycle
  \/ PollWriteFails
  \/ \E e \in Event : Emit(e)
  \/ Restart
  \/ ChangeSettings
  \/ \E s \in Sids : DeleteServer(s)

Spec == Init /\ [][Next]_pollerVars

(* Run polls for ever and onEvent returns: no step of a cycle waits.       *)
FairSpec == Spec /\ WF_pollerVars(Cycle) /\ WF_pollerVars(\E e \in Event : Emit(e))

-----------------------------------------------------------------------------
(* Properties.                                                             *)

(* A checker that never lists a part of a host.                            *)
ListsWhole == \A l \in Listings : \A s \in l, t \in Sids : groupKey(s) = groupKey(t) => t \in l
(* No row is ever removed: names tell servers apart, so that none is       *)
(* merged, the cleaning is off and the admin deletes none.                 *)
KeepsRows ==
  /\ \A s, t \in Sids : NameOf[s] = NameOf[t] => s = t
  /\ StaleAge = 0 /\ "delete" \notin AdminMay
(* Moreover an outage means all the servers, nothing fails but a merge, and*)
(* no event is silenced.                                                   *)
Steady ==
  /\ ListsWhole /\ KeepsRows
  /\ OutageNum >= OutageDen /\ OutageDen > 0
  /\ Faults \subseteq {"merge"} /\ "maint" \notin AdminMay

(* A cycle that wrote its answer has emitted all its up/down events.       *)
Settled == at = "last" /\ pending = {} /\ streak # 1

(* The last event emitted of a host tells what the checker says of it: a   *)
(* listed host has been announced down exactly when all of it is confirmed *)
(* down, after any history of flaps and skipped outages, where the checker *)
(* is Steady.                                                              *)
HeardIsTruth ==
  Settled => \A k \in Keys : IsSeen(k) => (heard[k] = "server_down" <=> ~IsUp(k))

(* A host is called down only when two answers in a row had every listed   *)
(* server of it offline, whatever restarts, failed writes, and settings    *)
(* came between (anti-flap, pollOnce).                                     *)
NoFlapAlert ==
  \A e \in transitions \cup pending : e.type = "server_down" =>
    \A s \in Members(e.key) \cap Listed(report) : report[s] = "off" /\ s \in prevOff

(* A host that was called down and is back online is called up.            *)
RecoveryIsHeard ==
  Settled => \A k \in Keys : IsUp(k) => heard[k] # "server_down"

(* A server that stays offline ends up down on the page: the outage filter *)
(* delays it and never hides it for good.                                  *)
OutageIsWritten ==
  \A s \in Sids : <>[](report[s] = "off") => <>[](row[s] = "down")
=============================================================================
