---------------------------- MODULE PollerProofs ----------------------------
(***************************************************************************)
(* Proofs about Poller for every value of its constants.                   *)
(***************************************************************************)
EXTENDS Poller, FiniteSetTheorems, TLAPS

USE DEF Places, lastAnswers

(* The events detectTransitions finds are events.                          *)
LEMMA TransitionsAreEvents == detectTransitions \subseteq Event
  BY DEF detectTransitions, Event

LEMMA PingEventsAreEvents == High \subseteq Keys /\ detectPingEvents \subseteq Event
  BY DEF detectPingEvents, High, Timed, Event

LEMMA OutagesAreEvents == \A t \in Outages : Outage(t) \subseteq Event
  BY DEF Outage, Event

(* The mask only counts up to two.                                         *)
LEMMA StreakType ==
  ASSUME TypeOK, NEW r
  PROVE  nextStreak(r) \in [Sids -> 0..2]
  BY DEF nextStreak, TypeOK

(* Dropping rows keeps the table a table.                                  *)
LEMMA DropType ==
  ASSUME TypeOK, NEW out, Drop(out)
  PROVE  row' \in [Sids -> {"none", "up", "down"}] /\ age' \in [Sids -> 0..StaleAge + 1]
  <1>1. StaleAge \in Nat
    BY PollerAssumption
  <1> QED
    BY <1>1 DEF Drop, TypeOK

LEMMA FetchType ==
  ASSUME TypeOK, FetchAnswer
  PROVE  TypeOK'
  <1>1. PICK l \in Listings, dt \in 0..1 : \E says \in [l -> Readings] :
          Fetch([s \in Sids |-> IF s \in l THEN says[s] ELSE "absent"], dt)
    BY DEF FetchAnswer
  <1>2. PICK says \in [l -> Readings] :
          Fetch([s \in Sids |-> IF s \in l THEN says[s] ELSE "absent"], dt)
    BY <1>1
  <1> DEFINE r == [s \in Sids |-> IF s \in l THEN says[s] ELSE "absent"]
  <1>3. r \in [Sids -> {"absent", "off", "ok", "slow", "nolat"}]
    BY PollerAssumption
  <1>4. StaleAge \in Nat
    BY PollerAssumption
  <1>5. Fetch(r, dt)
    BY <1>2
  <1> HIDE DEF r
  <1>6. /\ report' \in [Sids -> {"absent", "off", "ok", "slow", "nolat"}]
        /\ prevOff' \subseteq Sids /\ prevAllOff' \in BOOLEAN
    BY <1>3, <1>5 DEF Fetch, AllOff
  <1>7. downStreak' \in [Sids -> 0..2]
    BY <1>5, StreakType DEF Fetch
  <1>8. age' \in [Sids -> 0..StaleAge + 1]
    BY <1>4, <1>5 DEF Fetch, TypeOK
  <1>9. streak' \in 0..2 /\ pending' \subseteq Event /\ at' \in Places
    BY <1>5, OutagesAreEvents
    DEF Fetch, SuspectOutage, ConfirmOutage, NoOutage, Outages
  <1> QED
    BY <1>5, <1>6, <1>7, <1>8, <1>9 DEF Fetch, TypeOK

(* Every step keeps the types: one step of the proof per action.           *)
LEMMA TypeStep ==
  ASSUME TypeOK, [Next]_pollerVars
  PROVE  TypeOK'
  <1>1. CASE FetchAnswer
    BY <1>1, FetchType
  <1>2. CASE Detect
    BY <1>2, TransitionsAreEvents DEF Detect, TypeOK, tableVars
  <1>3. CASE PollWrite
    <2>1. StaleAge \in Nat
      BY PollerAssumption
    <2>2. row' \in [Sids -> {"none", "up", "down"}] /\ age' \in [Sids -> 0..StaleAge + 1]
      BY <1>3, <2>1 DEF PollWrite, TypeOK
    <2> QED
      BY <1>3, <2>2 DEF PollWrite, TypeOK
  <1>4. CASE PollWriteFails
    BY <1>4 DEF PollWriteFails, TypeOK, tableVars
  <1>5. CASE ConsolidateByName
    <2>1. PICK out : Drop(out)
      BY <1>5 DEF ConsolidateByName
    <2> QED
      BY <1>5, <2>1, DropType DEF ConsolidateByName, TypeOK
  <1>6. CASE Announce
    BY <1>6 DEF Announce, TypeOK, tableVars, Silence
  <1>7. CASE DetectPing
    BY <1>7, PingEventsAreEvents DEF DetectPing, TypeOK, tableVars, Silence
  <1>8. CASE \E e \in Event : Emit(e)
    <2>1. PICK e \in Event : Emit(e)
      BY <1>8
    <2>2. e.type \in {"server_down", "server_up"} => e.key \in Keys
      BY DEF Event, Outages
    <2>3. heard' \in [Keys -> {"none", "server_down", "server_up"}]
      BY <2>1, <2>2 DEF Emit, TypeOK
    <2> QED
      BY <2>1, <2>3 DEF Emit, TypeOK, tableVars
  <1>9. CASE Return
    BY <1>9 DEF Return, TypeOK, tableVars
  <1>10. CASE Restart
    BY <1>10 DEF Restart, TypeOK, tableVars
  <1>11. CASE ChangeSettings
    <2> DEFINE Kind == [skip_global : BOOLEAN, autoclean : BOOLEAN, ping : BOOLEAN,
                        maint : SUBSET Names]
    <2>1. settings \in Kind
      BY DEF TypeOK
    <2>2. ASSUME NEW f \in {"skip_global", "autoclean", "ping"}, Toggle(f)
          PROVE  settings' \in Kind
      <3>1. CASE f = "skip_global"
        BY <2>1, <2>2, <3>1 DEF Toggle
      <3>2. CASE f = "autoclean"
        BY <2>1, <2>2, <3>2 DEF Toggle
      <3>3. CASE f = "ping"
        BY <2>1, <2>2, <3>3 DEF Toggle
      <3> QED
        BY <2>2, <3>1, <3>2, <3>3
    <2>3. ASSUME NEW n \in Names,
                 settings' = [settings EXCEPT !.maint = (@ \cup {n}) \ (@ \cap {n})]
          PROVE  settings' \in Kind
      BY <2>1, <2>3
    <2>4. settings' \in Kind
      BY <1>11, <2>2, <2>3 DEF ChangeSettings
    <2> QED
      BY <1>11, <2>4 DEF ChangeSettings, TypeOK, tableVars, cycleVars
  <1>12. CASE \E s \in Sids : DeleteServer(s)
    <2>1. PICK out : Drop(out)
      BY <1>12 DEF DeleteServer
    <2> QED
      BY <1>12, <2>1, DropType DEF DeleteServer, TypeOK, cycleVars
  <1>13. CASE UNCHANGED pollerVars
    BY <1>13 DEF TypeOK, pollerVars, cycleVars, tableVars
  <1> QED
    BY <1>1, <1>2, <1>3, <1>4, <1>5, <1>6, <1>7, <1>8, <1>9, <1>10, <1>11, <1>12, <1>13
    DEF Next, Cycle

LEMMA TypeInit == Init => TypeOK
  <1>1. StaleAge \in Nat /\ OutageNum \in Nat /\ OutageDen \in Nat
    BY PollerAssumption
  <1>2. Init => prevOff \subseteq Sids /\ prevAllOff \in BOOLEAN
    BY DEF Init
  <1>3. Init => settings \in [skip_global : BOOLEAN, autoclean : BOOLEAN, ping : BOOLEAN,
                              maint : SUBSET Names]
    BY <1>1 DEF Init
  <1> QED
    BY <1>1, <1>2, <1>3 DEF Init, TypeOK

(* Type correctness of the polling cycle.                                  *)
THEOREM TypeCorrect == Spec => []TypeOK
  BY TypeInit, TypeStep, PTL DEF Spec
-----------------------------------------------------------------------------
(* No host is called down on one answer.  NoFlapAlert alone is not          *)
(* inductive: a down event comes of the counters, and the counters speak of *)
(* the last two answers; and the events of a cycle are gone before the next *)
(* answer replaces those the events were drawn from.                        *)

StreakIsAnswers ==
  \A s \in Sids : /\ downStreak[s] # 0 => report[s] = "off"
                  /\ downStreak[s] = 2 => s \in prevOff
EventsInTime ==
  /\ at \in {"idle", "outage", "ping", "last"} => transitions = {}
  /\ at \in {"idle", "write", "merge", "maint"} => pending = {}
FlapInv == TypeOK /\ StreakIsAnswers /\ EventsInTime /\ NoFlapAlert

(* The events that say nothing of a server going down.                     *)
LEMMA QuietEvents ==
  /\ \A t \in Outages : \A e \in Outage(t) : e.type # "server_down"
  /\ \A e \in detectPingEvents : e.type # "server_down"
  BY DEF Outage, Outages, detectPingEvents

(* A down event is found only when all that is listed of the host has been *)
(* offline in two answers.                                                 *)
LEMMA DownIsConfirmed ==
  ASSUME TypeOK, StreakIsAnswers, NEW e \in detectTransitions, e.type = "server_down",
         NEW s \in Members(e.key) \cap Listed(report)
  PROVE  report[s] = "off" /\ s \in prevOff
  <1>1. ~IsUp(e.key)
    BY DEF detectTransitions
  <1>2. s \in Sids /\ ~(report[s] # "off" \/ downStreak[s] < 2)
    BY <1>1 DEF IsUp, Online, Listed
  <1>3. downStreak[s] = 2
    BY <1>2 DEF TypeOK
  <1> QED
    BY <1>2, <1>3 DEF StreakIsAnswers

(* The events of a cycle are gone before the next answer comes.            *)
LEMMA TimelyStep ==
  ASSUME TypeOK, EventsInTime, [Next]_pollerVars
  PROVE  EventsInTime'
  <1>1. ASSUME NEW r, NEW dt, Fetch(r, dt)
        PROVE  EventsInTime'
    BY <1>1 DEF EventsInTime, Fetch, SuspectOutage, ConfirmOutage, NoOutage
  <1> QED
    BY <1>1 DEF EventsInTime, Next, Cycle, FetchAnswer, Detect, PollWrite, PollWriteFails,
       ConsolidateByName, Announce, DetectPing, Return, Emit, Restart, ChangeSettings,
       DeleteServer, pollerVars, cycleVars, TypeOK

(* The counters of the new answer speak of it and of the one before.       *)
LEMMA StreakFetch ==
  ASSUME StreakIsAnswers, NEW r, NEW dt, Fetch(r, dt)
  PROVE  StreakIsAnswers'
  <1>1. SUFFICES ASSUME NEW s \in Sids
                 PROVE  /\ downStreak'[s] # 0 => report'[s] = "off"
                        /\ downStreak'[s] = 2 => s \in prevOff'
    BY DEF StreakIsAnswers
  <1>2. downStreak'[s] = IF r[s] # "off" THEN 0 ELSE IF downStreak[s] = 0 THEN 1 ELSE 2
    BY DEF Fetch, nextStreak
  <1>3. report' = r /\ prevOff' = {t \in Sids : report[t] = "off"}
    BY DEF Fetch
  <1> QED
    BY <1>2, <1>3 DEF StreakIsAnswers

LEMMA FetchFlap ==
  ASSUME FlapInv, NEW r, NEW dt, Fetch(r, dt)
  PROVE  NoFlapAlert'
  <1>1. transitions' = {}
    BY DEF FlapInv, Fetch, EventsInTime
  <1>2. \A e \in pending' : e.type # "server_down"
    BY QuietEvents DEF Fetch, SuspectOutage, ConfirmOutage, NoOutage, Outages
  <1> QED
    BY <1>1, <1>2 DEF NoFlapAlert

(* The steps of a cycle, and of the rest, that take no answer and find no  *)
(* up/down event: the events there are come from those there were.         *)
LEMMA FewerEvents ==
  ASSUME FlapInv, UNCHANGED <<report, downStreak, prevOff>>,
         \A e \in transitions' \cup pending' :
           e.type = "server_down" => e \in transitions \cup pending
  PROVE  StreakIsAnswers' /\ NoFlapAlert'
  BY DEF FlapInv, StreakIsAnswers, NoFlapAlert, Members, Listed

LEMMA FlapStep ==
  ASSUME FlapInv, [Next]_pollerVars
  PROVE  FlapInv'
  <1> USE DEF FlapInv
  <1>1. TypeOK'
    BY TypeStep
  <1>0. EventsInTime'
    BY TimelyStep
  <1>2. CASE FetchAnswer
    BY <1>0, <1>1, <1>2, StreakFetch, FetchFlap DEF FetchAnswer
  <1>3. CASE Detect
    <2>1. /\ UNCHANGED <<report, downStreak, prevOff, pending>>
          /\ pending = {} /\ at' = "write"
          /\ transitions' = detectTransitions \/ transitions' = {}
      BY <1>3 DEF Detect
    <2>2. NoFlapAlert'
      BY <2>1, DownIsConfirmed DEF NoFlapAlert, Members, Listed
    <2> QED
      BY <1>0, <1>1, <2>1, <2>2 DEF StreakIsAnswers
  <1>4. CASE PollWrite
    BY <1>0, <1>1, <1>4, FewerEvents DEF PollWrite
  <1>5. CASE PollWriteFails
    BY <1>0, <1>1, <1>5, FewerEvents DEF PollWriteFails
  <1>6. CASE ConsolidateByName
    BY <1>0, <1>1, <1>6, FewerEvents DEF ConsolidateByName
  <1>7. CASE Announce
    BY <1>0, <1>1, <1>7, FewerEvents DEF Announce, Silence
  <1>8. CASE DetectPing
    <2>1. /\ UNCHANGED <<report, downStreak, prevOff, transitions>>
          /\ transitions = {} /\ at' = "last"
          /\ pending' \subseteq pending \cup detectPingEvents
      BY <1>8 DEF DetectPing, Silence, EventsInTime
    <2> QED
      BY <1>0, <1>1, <2>1, QuietEvents, FewerEvents
  <1>9. CASE \E e \in Event : Emit(e)
    BY <1>0, <1>1, <1>9, FewerEvents DEF Emit
  <1>10. CASE Return
    BY <1>0, <1>1, <1>10, FewerEvents DEF Return
  <1>11. CASE Restart
    BY <1>0, <1>1, <1>11 DEF Restart, StreakIsAnswers, NoFlapAlert
  <1>12. CASE ChangeSettings
    BY <1>0, <1>1, <1>12, FewerEvents DEF ChangeSettings, cycleVars
  <1>13. CASE \E s \in Sids : DeleteServer(s)
    BY <1>0, <1>1, <1>13, FewerEvents DEF DeleteServer, cycleVars
  <1>14. CASE UNCHANGED pollerVars
    BY <1>0, <1>1, <1>14, FewerEvents DEF pollerVars, cycleVars
  <1> QED
    BY <1>2, <1>3, <1>4, <1>5, <1>6, <1>7, <1>8, <1>9, <1>10, <1>11, <1>12, <1>13, <1>14
    DEF Next, Cycle

(* No host is called down on one answer, whatever restarts, failed writes, *)
(* outages, deletions and settings come between (anti-flap of pollOnce).   *)
THEOREM NoFlap == Spec => []NoFlapAlert
  <1>1. Init => FlapInv
    BY TypeInit DEF Init, FlapInv, StreakIsAnswers, EventsInTime, NoFlapAlert
  <1>2. FlapInv /\ [Next]_pollerVars => FlapInv'
    BY FlapStep
  <1>3. FlapInv => NoFlapAlert
    BY DEF FlapInv
  <1> QED
    BY <1>1, <1>2, <1>3, PTL DEF Spec

-----------------------------------------------------------------------------
(* The last event of a host is the truth: HeardIsTruth, for any servers,   *)
(* hosts and answers of a Steady checker.                                  *)
HIDE DEF Places

UpDown == {"server_down", "server_up"}

(* What the admins have been told of host k, once the events at hand are   *)
(* handed over.                                                            *)
SaidDown(k) ==
  \/ \E e \in transitions \cup pending : e.key = k /\ e.type = "server_down"
  \/ /\ heard[k] = "server_down"
     /\ ~\E e \in transitions \cup pending : e.key = k /\ e.type = "server_up"
KnownDown(k) == WasSeen(k) /\ ~WasUp(k)

(* The parts of the inductive invariant.  What was said agrees with the    *)
(* rows, except between the events being found and the rows being written; *)
(* a server that was offline once has a row; and after the write the rows  *)
(* are the answer.                                                         *)
Agree ==
  IF at = "write"
  THEN /\ transitions = detectTransitions
       /\ \A k \in Keys : heard[k] = "server_down" <=> KnownDown(k)
  ELSE \A k \in Keys : SaidDown(k) <=> KnownDown(k)
OneWord ==
  \A e, f \in transitions \cup pending :
    e.type \in UpDown /\ f.type \in UpDown /\ e.key = f.key => e = f
Recorded ==
  \A s \in Sids : /\ downStreak[s] = 2 => row[s] # "none"
                  /\ downStreak[s] = 1 /\ at \notin {"outage", "write"} => row[s] # "none"
Written ==
  at \in {"merge", "maint", "ping"} \/ (at = "last" /\ streak # 1) =>
    \A s \in Listed(report) :
      row[s] = IF s \in Online(report, downStreak) THEN "up" ELSE "down"
WholeReport ==
  \A s, t \in Sids :
    groupKey(s) = groupKey(t) /\ report[s] # "absent" => report[t] # "absent"

TruthInv ==
  /\ TypeOK /\ StreakIsAnswers /\ EventsInTime /\ settings.maint = {}
  /\ Agree /\ OneWord /\ Recorded /\ Written /\ WholeReport

-----------------------------------------------------------------------------
(* An outage means every listed server.                                    *)

LEMMA Products ==
  /\ \A a, b, n \in Nat : a >= b => a * n >= b * n
  /\ \A a \in Nat \ {0}, m, n \in Nat : a * m >= a * n => m >= n
  <1>1. ASSUME NEW a \in Nat, NEW b \in Nat, NEW n \in Nat, a >= b
        PROVE  a * n >= b * n
    <2>1. (a - b) \in Nat
      BY <1>1
    <2>2. (a - b) * n \in Nat
      BY <2>1
    <2>3. (a - b) * n = a * n - b * n
      OBVIOUS
    <2> QED
      BY <2>2, <2>3
  <1>2. ASSUME NEW a \in Nat \ {0}, NEW m \in Nat, NEW n \in Nat, a * m >= a * n
        PROVE  m >= n
    <2> SUFFICES ASSUME n > m
                 PROVE  FALSE
      OBVIOUS
    <2>1. n - m \in Nat \ {0}
      OBVIOUS
    <2>2. a * (n - m) \in Nat \ {0}
      BY <2>1
    <2>3. a * (n - m) = a * n - a * m
      OBVIOUS
    <2> QED
      BY <1>2, <2>2, <2>3
  <1> QED
    BY <1>1, <1>2

LEMMA AllDownIsAll ==
  ASSUME Steady, NEW r, NEW d, AllDown(r, d)
  PROVE  Offline(r, d) = Listed(r)
  <1>1. Listed(r) \in SUBSET Sids /\ Offline(r, d) \in SUBSET Listed(r)
    BY DEF Listed, Offline
  <1>2. IsFiniteSet(Listed(r))
    BY <1>1, FS_Subset, PollerAssumption
  <1>3. /\ IsFiniteSet(Offline(r, d))
        /\ Cardinality(Offline(r, d)) <= Cardinality(Listed(r))
        /\ Cardinality(Listed(r)) = Cardinality(Offline(r, d)) => Listed(r) = Offline(r, d)
    BY <1>1, <1>2, FS_Subset
  <1> DEFINE n == Cardinality(Listed(r))
             m == Cardinality(Offline(r, d))
  <1>4. n \in Nat /\ m \in Nat
    BY <1>2, <1>3, FS_CardinalityType
  <1>5. OutageDen * m >= OutageNum * n
    BY DEF AllDown
  <1>6. OutageNum \in Nat /\ OutageDen \in Nat \ {0} /\ OutageNum >= OutageDen
    BY PollerAssumption DEF Steady
  <1> HIDE DEF n, m
  <1>7. OutageNum * n >= OutageDen * n
    BY <1>4, <1>6, Products
  <1>8. OutageDen * m >= OutageDen * n
    <2>1. OutageDen * m \in Nat /\ OutageNum * n \in Nat /\ OutageDen * n \in Nat
      BY <1>4, <1>6
    <2> QED
      BY <1>5, <1>7, <2>1
  <1>9. m >= n
    BY <1>4, <1>6, <1>8, Products
  <1> QED
    BY <1>3, <1>4, <1>9 DEF n, m

-----------------------------------------------------------------------------
(* The answer is taken.                                                    *)

LEMMA WholeAnswer ==
  ASSUME ListsWhole, TypeOK, FetchAnswer
  PROVE  /\ WholeReport'
         /\ \E r, dt : Fetch(r, dt)
  <1>1. PICK l \in Listings, dt \in 0..1 : \E says \in [l -> Readings] :
          Fetch([s \in Sids |-> IF s \in l THEN says[s] ELSE "absent"], dt)
    BY DEF FetchAnswer
  <1>2. PICK says \in [l -> Readings] :
          Fetch([s \in Sids |-> IF s \in l THEN says[s] ELSE "absent"], dt)
    BY <1>1
  <1> DEFINE r == [s \in Sids |-> IF s \in l THEN says[s] ELSE "absent"]
  <1>3. \A s \in Sids : r[s] # "absent" <=> s \in l
    BY PollerAssumption
  <1>4. report' = r
    BY <1>2 DEF Fetch
  <1> HIDE DEF r
  <1>5. WholeReport'
    BY <1>3, <1>4 DEF WholeReport, ListsWhole
  <1> QED
    BY <1>2, <1>5

LEMMA OutagesSayNothing ==
  \A t \in Outages : \A e \in Outage(t) : e.type \notin UpDown
  BY DEF Outage, Outages, UpDown

LEMMA FetchTruth ==
  ASSUME Steady, TruthInv, NEW r, NEW dt, Fetch(r, dt), StreakIsAnswers'
  PROVE  Agree' /\ OneWord' /\ Recorded' /\ Written'
  <1> USE DEF TruthInv
  <1>1. /\ at = "idle" /\ transitions = {} /\ pending = {} /\ transitions' = {}
        /\ UNCHANGED <<row, heard>> /\ report' = r /\ downStreak' = nextStreak(r)
    BY DEF Fetch, EventsInTime
  <1>2. \A e \in pending' : e.type \notin UpDown
    BY OutagesSayNothing DEF Fetch, SuspectOutage, ConfirmOutage, NoOutage, Outages
  <1>3. at' = "outage" \/ (at' = "last" /\ streak' = 1 /\ AllDown(r, downStreak'))
    BY DEF Fetch, SuspectOutage, ConfirmOutage, NoOutage
  <1>4. Agree'
    <2>1. \A k \in Keys : SaidDown(k) <=> heard[k] = "server_down"
      BY <1>1 DEF SaidDown
    <2>2. \A k \in Keys : SaidDown(k)' <=> heard[k] = "server_down"
      BY <1>1, <1>2 DEF SaidDown, UpDown
    <2>3. \A k \in Keys : KnownDown(k)' <=> KnownDown(k)
      BY <1>1 DEF KnownDown, WasSeen, WasUp
    <2> QED
      BY <1>1, <1>3, <2>1, <2>2, <2>3 DEF Agree
  <1>5. OneWord'
    BY <1>1, <1>2 DEF OneWord
  <1>6. ASSUME NEW s \in Sids, downStreak'[s] = 2
        PROVE  row'[s] # "none"
    <2>1. downStreak[s] # 0
      BY <1>1, <1>6 DEF nextStreak
    <2>2. downStreak[s] = 1 \/ downStreak[s] = 2
      BY <2>1 DEF TypeOK
    <2> QED
      BY <1>1, <2>2 DEF Recorded
  <1>7. ASSUME NEW s \in Sids, downStreak'[s] = 1, at' = "last"
        PROVE  FALSE
    <2>1. s \in Listed(r) /\ s \in Online(r, downStreak')
      BY <1>1, <1>7 DEF StreakIsAnswers, Listed, Online
    <2>2. Offline(r, downStreak') = Listed(r)
      BY <1>3, <1>7, AllDownIsAll
    <2> QED
      BY <2>1, <2>2 DEF Offline
  <1>8. Recorded'
    BY <1>3, <1>6, <1>7 DEF Recorded
  <1>9. Written'
    BY <1>3 DEF Written
  <1> QED
    BY <1>4, <1>5, <1>8, <1>9

-----------------------------------------------------------------------------
(* The events are found and the rows written.                              *)

(* What detectTransitions finds of a host.                                 *)
LEMMA FoundOf ==
  ASSUME NEW k \in Keys
  PROVE  /\ (\E e \in detectTransitions : e.key = k /\ e.type = "server_down")
              <=> (IsSeen(k) /\ WasSeen(k) /\ WasUp(k) /\ ~IsUp(k))
         /\ (\E e \in detectTransitions : e.key = k /\ e.type = "server_up")
              <=> (IsSeen(k) /\ WasSeen(k) /\ ~WasUp(k) /\ IsUp(k))
  <1> DEFINE Falls(h) == IsSeen(h) /\ WasSeen(h) /\ WasUp(h) /\ ~IsUp(h)
             Rises(h) == IsSeen(h) /\ WasSeen(h) /\ ~WasUp(h) /\ IsUp(h)
  <1>1. detectTransitions = {[type |-> "server_down", key |-> h] : h \in {g \in Keys : Falls(g)}}
                       \cup {[type |-> "server_up", key |-> h] : h \in {g \in Keys : Rises(g)}}
    BY DEF detectTransitions
  <1> HIDE DEF Falls, Rises
  <1>2. ASSUME Falls(k)
        PROVE  \E e \in detectTransitions : e.key = k /\ e.type = "server_down"
    <2>1. [type |-> "server_down", key |-> k] \in detectTransitions
      BY <1>1, <1>2
    <2> QED
      BY <2>1
  <1>3. ASSUME Rises(k)
        PROVE  \E e \in detectTransitions : e.key = k /\ e.type = "server_up"
    <2>1. [type |-> "server_up", key |-> k] \in detectTransitions
      BY <1>1, <1>3
    <2> QED
      BY <2>1
  <1>4. ASSUME NEW e \in detectTransitions
        PROVE  /\ e.type = "server_down" => Falls(e.key)
               /\ e.type = "server_up" => Rises(e.key)
    BY <1>1
  <1>5. (\E e \in detectTransitions : e.key = k /\ e.type = "server_down") <=> Falls(k)
    BY <1>2, <1>4
  <1>6. (\E e \in detectTransitions : e.key = k /\ e.type = "server_up") <=> Rises(k)
    BY <1>3, <1>4
  <1> QED
    BY <1>5, <1>6 DEF Falls, Rises

(* Where the rows are the answer, they say of a host what it says.         *)
LEMMA PageIsAnswer ==
  ASSUME WholeReport, NEW k \in Keys, IsSeen(k),
         \A s \in Listed(report) :
           row[s] = IF s \in Online(report, downStreak) THEN "up" ELSE "down"
  PROVE  WasSeen(k) /\ (WasUp(k) <=> IsUp(k))
  <1>1. Members(k) # {} /\ Members(k) \subseteq Listed(report)
    BY DEF IsSeen, Members, Listed, WholeReport
  <1> QED
    BY <1>1 DEF WasSeen, WasUp, IsUp, Members

LEMMA DetectTruth ==
  ASSUME Steady, TruthInv, Detect
  PROVE  Agree' /\ OneWord' /\ Recorded' /\ Written'
  <1> USE DEF TruthInv
  <1>1. /\ at = "outage" /\ at' = "write" /\ transitions = {} /\ pending = {} /\ pending' = {}
        /\ transitions' = detectTransitions
        /\ UNCHANGED <<row, heard, report, downStreak>>
    BY DEF Detect, tableVars, EventsInTime, Steady
  <1>2. Agree'
    <2>1. \A k \in Keys : heard[k] = "server_down" <=> KnownDown(k)
      BY <1>1 DEF Agree, SaidDown
    <2>2. \A k \in Keys : KnownDown(k)' <=> KnownDown(k)
      BY <1>1 DEF KnownDown, WasSeen, WasUp
    <2>3. detectTransitions' = detectTransitions
      BY <1>1 DEF detectTransitions, IsSeen, IsUp, WasSeen, WasUp
    <2> QED
      BY <1>1, <2>1, <2>2, <2>3 DEF Agree
  <1>3. OneWord'
    BY <1>1 DEF OneWord, detectTransitions
  <1> QED
    BY <1>1, <1>2, <1>3 DEF Recorded, Written

LEMMA WriteTruth ==
  ASSUME Steady, TruthInv, PollWrite, TypeOK'
  PROVE  Agree' /\ OneWord' /\ Recorded' /\ Written'
  <1> USE DEF TruthInv
  <1>1. /\ at = "write" /\ at' = "merge" /\ pending = {} /\ pending' = {}
        /\ UNCHANGED <<transitions, heard, report, downStreak>>
    BY DEF PollWrite, EventsInTime
  <1>2. \A s \in Sids :
          row'[s] = IF s \notin Listed(report) THEN row[s]
                    ELSE IF s \in Online(report, downStreak) THEN "up" ELSE "down"
    BY DEF PollWrite, Steady, KeepsRows
  <1>3. Written'
    BY <1>1, <1>2 DEF Written, Listed, Online
  <1>4. Recorded'
    <2>1. \A s \in Sids : downStreak[s] # 0 => s \in Listed(report)
      BY DEF StreakIsAnswers, Listed
    <2> QED
      BY <1>1, <1>2, <2>1 DEF Recorded
  <1>5. OneWord'
    BY <1>1 DEF OneWord
  <1>6. ASSUME NEW k \in Keys
        PROVE  SaidDown(k)' <=> KnownDown(k)'
    <2>1. SaidDown(k)' <=>
            \/ IsSeen(k) /\ WasSeen(k) /\ WasUp(k) /\ ~IsUp(k)
            \/ /\ heard[k] = "server_down"
               /\ ~(IsSeen(k) /\ WasSeen(k) /\ ~WasUp(k) /\ IsUp(k))
      <3>1. transitions' \cup pending' = detectTransitions /\ heard' = heard
        BY <1>1 DEF Agree
      <3> QED
        BY <3>1, FoundOf DEF SaidDown
    <2>2. heard[k] = "server_down" <=> KnownDown(k)
      BY <1>1 DEF Agree
    <2>3. CASE ~IsSeen(k)
      <3>1. \A s \in Members(k) : row'[s] = row[s]
        BY <1>2, <2>3 DEF IsSeen, Members
      <3>2. KnownDown(k)' <=> KnownDown(k)
        BY <3>1 DEF KnownDown, WasSeen, WasUp, Members
      <3> QED
        BY <2>1, <2>2, <2>3, <3>2
    <2>4. CASE IsSeen(k)
      <3>1. IsSeen(k)' /\ (IsUp(k)' <=> IsUp(k))
        BY <1>1, <2>4 DEF IsSeen, IsUp
      <3>2. WasSeen(k)' /\ (WasUp(k)' <=> IsUp(k)')
        <4>1. Members(k) # {} /\ Members(k) \subseteq Listed(report)
          BY <2>4 DEF IsSeen, Members, Listed, WholeReport
        <4>2. \A s \in Members(k) :
                row'[s] = IF s \in Online(report, downStreak) THEN "up" ELSE "down"
          BY <1>2, <4>1 DEF Members
        <4> QED
          BY <1>1, <4>1, <4>2 DEF WasSeen, WasUp, IsUp, Members
      <3>3. ~WasSeen(k) => IsUp(k)
        <4>1. SUFFICES ASSUME ~WasSeen(k)
                       PROVE  IsUp(k)
          OBVIOUS
        <4>2. PICK s \in Members(k) : s \in Listed(report)
          BY <2>4 DEF IsSeen
        <4>3. s \in Sids /\ downStreak[s] # 2 /\ downStreak[s] \in 0..2
          BY <4>1, <4>2 DEF Members, WasSeen, Recorded, TypeOK
        <4>4. s \in Online(report, downStreak)
          BY <4>2, <4>3 DEF Online
        <4> QED
          BY <4>2, <4>4 DEF IsUp
      <3> QED
        BY <2>1, <2>2, <2>4, <3>1, <3>2, <3>3 DEF KnownDown
    <2> QED
      BY <2>3, <2>4
  <1> QED
    BY <1>1, <1>3, <1>4, <1>5, <1>6 DEF Agree

-----------------------------------------------------------------------------
(* The rest of the cycle changes no row and adds no word.                  *)

(* With one server to a name there is nothing to merge.                    *)
LEMMA NothingAbsorbed ==
  ASSUME KeepsRows, TypeOK, NEW canon \in Canons
  PROVE  Absorbed(canon) = {}
  <1> SUFFICES ASSUME NEW s \in Absorbed(canon)
               PROVE  FALSE
    OBVIOUS
  <1>1. s \in Sids /\ row[s] # "none" /\ canon[NameOf[s]] # s
    BY DEF Absorbed
  <1>2. age[s] <= age[s]
    BY <1>1, PollerAssumption DEF TypeOK
  <1>3. s \in Freshest(NameOf[s])
    BY <1>1, <1>2 DEF Freshest, KeepsRows
  <1>4. canon[NameOf[s]] \in Freshest(NameOf[s])
    BY <1>1, <1>3 DEF Canons
  <1> QED
    BY <1>1, <1>4 DEF Freshest, KeepsRows

LEMMA SameRows ==
  ASSUME UNCHANGED row
  PROVE  \A k \in Keys : KnownDown(k)' <=> KnownDown(k)
  BY DEF KnownDown, WasSeen, WasUp

(* Steps that neither take an answer, nor write, nor find up/down events.  *)
LEMMA SameWords ==
  ASSUME TruthInv, at # "write", at' \notin {"write", "outage"}, at # "outage",
         UNCHANGED <<row, heard, report, downStreak, streak>>,
         \A e \in Event : e.type \in UpDown =>
           (e \in transitions' \cup pending' <=> e \in transitions \cup pending),
         TypeOK',
         at' \in {"merge", "maint", "ping", "last"} => at = at' \/ at \in {"merge", "maint", "ping"}
  PROVE  Agree' /\ OneWord' /\ Recorded' /\ Written'
  <1> USE DEF TruthInv
  <1>1. transitions' \cup pending' \subseteq Event /\ transitions \cup pending \subseteq Event
    BY DEF TypeOK
  <1>2. \A k \in Keys : SaidDown(k)' <=> SaidDown(k)
    BY <1>1 DEF SaidDown, UpDown
  <1>3. Agree'
    BY <1>2, SameRows DEF Agree
  <1>4. OneWord'
    BY <1>1 DEF OneWord
  <1>5. Recorded' /\ Written'
    BY DEF Recorded, Written, Listed, Online
  <1> QED
    BY <1>3, <1>4, <1>5

LEMMA EmitTruth ==
  ASSUME Steady, TruthInv, NEW e \in Event, Emit(e), TypeOK'
  PROVE  Agree' /\ OneWord' /\ Recorded' /\ Written'
  <1> USE DEF TruthInv
  <1>1. /\ UNCHANGED <<at, row, report, downStreak, streak, transitions>>
        /\ e \in pending /\ pending' = pending \ {e}
        /\ heard' = IF e.type \in UpDown THEN [heard EXCEPT ![e.key] = e.type] ELSE heard
    BY DEF Emit, tableVars, UpDown
  <1>2. at \in {"outage", "ping", "last"} /\ transitions = {} /\ transitions' = {}
    BY <1>1 DEF EventsInTime, TypeOK, Places
  <1>3. ASSUME NEW k \in Keys
        PROVE  SaidDown(k)' <=> SaidDown(k)
    <2>1. CASE e.type \in UpDown /\ e.key = k
      <3>1. \A f \in pending' : f.key = k => f.type \notin UpDown
        BY <1>1, <2>1 DEF OneWord
      <3>2. heard'[k] = e.type
        BY <1>1, <2>1 DEF TypeOK
      <3>3. SaidDown(k)' <=> e.type = "server_down"
        BY <1>2, <3>1, <3>2 DEF SaidDown, UpDown
      <3>4. SaidDown(k) <=> e.type = "server_down"
        BY <1>1, <2>1 DEF SaidDown, UpDown, OneWord
      <3> QED
        BY <3>3, <3>4
    <2>2. CASE ~(e.type \in UpDown /\ e.key = k)
      <3>1. heard'[k] = heard[k]
        BY <1>1, <2>2 DEF TypeOK
      <3>2. \A f : f.key = k /\ f.type \in UpDown => (f \in pending' <=> f \in pending)
        BY <1>1, <2>2
      <3> QED
        BY <1>2, <3>1, <3>2 DEF SaidDown, UpDown
    <2> QED
      BY <2>1, <2>2
  <1>4. Agree'
    BY <1>1, <1>2, <1>3, SameRows DEF Agree
  <1>5. OneWord'
    BY <1>1 DEF OneWord
  <1> QED
    BY <1>1, <1>4, <1>5 DEF Recorded, Written, Listed, Online

LEMMA TruthStep ==
  ASSUME Steady, TruthInv, [Next]_pollerVars
  PROVE  TruthInv'
  <1> USE DEF TruthInv
  <1>1. TypeOK'
    BY TypeStep
  <1>2. CASE FetchAnswer
    <2>1. PICK r, dt : Fetch(r, dt)
      BY <1>2, WholeAnswer DEF Steady
    <2>2. StreakIsAnswers' /\ EventsInTime'
      BY <2>1, StreakFetch, TimelyStep
    <2>3. settings' = settings
      BY <2>1 DEF Fetch
    <2> QED
      BY <1>1, <1>2, <2>1, <2>2, <2>3, WholeAnswer, FetchTruth DEF Steady
  <1>3. SUFFICES ASSUME ~FetchAnswer
                 PROVE  TruthInv'
    BY <1>2
  <1>4. UNCHANGED <<report, downStreak, prevOff>> /\ settings'.maint = {}
    <2>1. \A f \in {"skip_global", "autoclean", "ping"} : Toggle(f) => settings'.maint = settings.maint
      BY DEF Toggle, TypeOK
    <2> QED
      BY <1>3, <2>1 DEF Steady, KeepsRows, Next, Cycle, Detect, PollWrite, PollWriteFails, ConsolidateByName,
         Announce, DetectPing, Return, Emit, Restart, ChangeSettings, DeleteServer,
         pollerVars, cycleVars
  <1>5. StreakIsAnswers' /\ WholeReport'
    BY <1>4 DEF StreakIsAnswers, WholeReport
  <1>6. EventsInTime'
    BY <1>3, TimelyStep
  <1>7. SUFFICES Agree' /\ OneWord' /\ Recorded' /\ Written'
    BY <1>1, <1>4, <1>5, <1>6
  <1>8. CASE Detect
    BY <1>8, DetectTruth
  <1>9. CASE PollWrite
    BY <1>1, <1>9, WriteTruth
  <1>10. CASE ConsolidateByName
    <2>1. UNCHANGED row
      <3>1. PICK canon \in Canons : \E some \in SUBSET Absorbed(canon) : Drop(some)
        BY <1>10 DEF ConsolidateByName
      <3>2. PICK out \in SUBSET Absorbed(canon) : Drop(out)
        BY <3>1
      <3>3. out = {}
        BY <3>2, NothingAbsorbed DEF Steady
      <3> QED
        BY <3>2, <3>3 DEF Drop, TypeOK
    <2> QED
      BY <1>1, <1>10, <2>1, SameWords DEF ConsolidateByName
  <1>11. CASE Announce
    <2>1. transitions' \cup pending' = transitions \cup pending
      BY <1>4, <1>11 DEF Announce, Silence, EventsInTime
    <2> QED
      BY <1>1, <1>11, <2>1, SameWords DEF Announce, tableVars
  <1>12. CASE DetectPing
    <2>1. \A e \in detectPingEvents : e.type \notin UpDown
      BY DEF detectPingEvents, UpDown
    <2>2. /\ pending = {} /\ UNCHANGED transitions
          /\ \A e \in pending' : e.type \notin UpDown
      BY <1>12, <2>1 DEF DetectPing, Silence
    <2> QED
      BY <1>1, <1>12, <2>2, SameWords DEF DetectPing, tableVars
  <1>13. CASE \E e \in Event : Emit(e)
    BY <1>1, <1>13, EmitTruth
  <1>14. CASE Return
    BY <1>1, <1>14, SameWords DEF Return, tableVars
  <1>15. CASE UNCHANGED <<at, row, heard, report, downStreak, streak, transitions, pending>>
    <2>1. \A k \in Keys : SaidDown(k)' <=> SaidDown(k)
      BY <1>15 DEF SaidDown
    <2>2. detectTransitions' = detectTransitions
      BY <1>15 DEF detectTransitions, IsSeen, IsUp, WasSeen, WasUp
    <2>3. Agree'
      BY <1>15, <2>1, <2>2, SameRows DEF Agree
    <2> QED
      BY <1>15, <2>3 DEF OneWord, Recorded, Written, Listed, Online
  <1> QED
    BY <1>3, <1>8, <1>9, <1>10, <1>11, <1>12, <1>13, <1>14, <1>15
    DEF Steady, KeepsRows, Next, Cycle, PollWriteFails, Restart, ChangeSettings, DeleteServer,
        pollerVars, cycleVars, tableVars

LEMMA TruthInit == Steady /\ Init => TruthInv
  BY TypeInit DEF Init, TruthInv, StreakIsAnswers, EventsInTime, Agree, OneWord, Recorded,
     Written, WholeReport, SaidDown, KnownDown, WasSeen, Members

(* The last event of a host is the checker's word about it, for any number *)
(* of servers and hosts, through any flaps and outages (pollOnce).         *)
THEOREM HeardTruth == Steady /\ Spec => []HeardIsTruth
  <1> SUFFICES ASSUME Steady
               PROVE  Spec => []HeardIsTruth
    OBVIOUS
  <1>1. Init => TruthInv
    BY TruthInit
  <1>2. TruthInv /\ [Next]_pollerVars => TruthInv'
    BY TruthStep
  <1>3. TruthInv => HeardIsTruth
    <2> SUFFICES ASSUME TruthInv, Settled, NEW k \in Keys, IsSeen(k)
                 PROVE  heard[k] = "server_down" <=> ~IsUp(k)
      BY DEF HeardIsTruth
    <2>1. at = "last" /\ pending = {} /\ transitions = {} /\ streak # 1
      BY DEF Settled, TruthInv, EventsInTime
    <2>2. heard[k] = "server_down" <=> KnownDown(k)
      BY <2>1 DEF TruthInv, Agree, SaidDown
    <2>3. WasSeen(k) /\ (WasUp(k) <=> IsUp(k))
      BY <2>1, PageIsAnswer DEF TruthInv, Written
    <2> QED
      BY <2>2, <2>3 DEF KnownDown
  <1> QED
    BY <1>1, <1>2, <1>3, PTL DEF Spec
=============================================================================
