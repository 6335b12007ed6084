---------------------------- MODULE AlertsProofs ----------------------------
(***************************************************************************)
(* Proofs about Alerts: what the chat is told of a host is what the page   *)
(* shows at that moment, with every fault, crash, mute, maintenance window *)
(* and lost message, for any servers and hosts.                            *)
(***************************************************************************)
EXTENDS Alerts, PollerProofs

USE DEF lastAnswers

(* Between finding its events and writing its rows a cycle's events fit    *)
(* the answer; from the write on they fit the rows.                        *)
EventsFit ==
  \A e \in transitions \cup pending :
    /\ e.type = "server_down" =>
         IF at = "write" THEN IsSeen(e.key) /\ ~IsUp(e.key) ELSE KnownDown(e.key)
    /\ e.type = "server_up" =>
         IF at = "write" THEN IsSeen(e.key) /\ IsUp(e.key) ELSE WasSeen(e.key) /\ WasUp(e.key)

FitInv == AlertsTypeOK /\ EventsInTime /\ WholeReport /\ EventsFit

-----------------------------------------------------------------------------
(* Types.                                                                  *)

LEMMA AlertsTypeInit == AlertsInit => AlertsTypeOK
  BY TypeInit DEF AlertsInit, AlertsTypeOK

LEMMA KeyOfEvent ==
  ASSUME NEW e \in Event
  PROVE  /\ Status(e) => e.key \in Keys /\ Disp(e.key) \in Names
         /\ Topic(e) \in Topics /\ e.type \in Messages
  BY DEF Event, Outages, Status, Topics, Messages, Names

LEMMA HandleType ==
  ASSUME AlertsTypeOK, NEW e \in Event, HandleEvent(e)
  PROVE  /\ lastDown' \in [Names -> {"unset", "server_down", "server_up"}]
         /\ chat' \in [Topics -> Messages \cup {"none"}]
  <1>1. Status(e) => e.type \in {"server_down", "server_up"}
    BY DEF Status
  <1>2. lastDown' \in [Names -> {"unset", "server_down", "server_up"}]
    BY <1>1, KeyOfEvent DEF HandleEvent, AlertsTypeOK
  <1>3. chat' \in [Topics -> Messages \cup {"none"}]
    BY KeyOfEvent DEF HandleEvent, AlertsTypeOK
  <1> QED
    BY <1>2, <1>3

(* Every step of the bot and the poller is one of the poller, or none.     *)
LEMMA PollerSteps ==
  ASSUME [AlertsNext]_alertVars
  PROVE  [Next]_pollerVars
  BY DEF AlertsNext, alertVars, PollerStep, Deliver, RestartAll, SetMutedName, SetAlertOnDown, Next

LEMMA AlertsTypeStep ==
  ASSUME AlertsTypeOK, [AlertsNext]_alertVars
  PROVE  AlertsTypeOK'
  <1>1. TypeOK'
    BY PollerSteps, TypeStep DEF AlertsTypeOK
  <1>2. CASE \E e \in Event : Deliver(e)
    <2>1. PICK e \in Event : Deliver(e)
      BY <1>2
    <2>2. passed' \subseteq Keys
      BY <2>1, KeyOfEvent DEF Deliver, PassBy, AlertsTypeOK
    <2> QED
      BY <1>1, <2>1, <2>2, HandleType DEF Deliver, AlertsTypeOK
  <1>3. CASE ~\E e \in Event : Deliver(e)
    BY <1>1, <1>3 DEF AlertsTypeOK, AlertsNext, alertVars, botVars, PollerStep, RestartAll,
       SetMutedName, SetAlertOnDown
  <1> QED
    BY <1>2, <1>3

(* Type correctness of the poller with its bot.                            *)
THEOREM AlertsTypeCorrect == AlertsSpec => []AlertsTypeOK
  BY AlertsTypeInit, AlertsTypeStep, PTL DEF AlertsSpec

-----------------------------------------------------------------------------
(* Events fit the page.                                                    *)

(* Rows change at a write only, where none is ever removed.                *)
LEMMA OnlyWritesRows ==
  ASSUME KeepsRows, TypeOK, [Next]_pollerVars, ~PollWrite
  PROVE  UNCHANGED row
  <1>1. CASE ConsolidateByName
    <2>1. PICK canon \in Canons : \E some \in SUBSET Absorbed(canon) : Drop(some)
      BY <1>1 DEF ConsolidateByName
    <2>2. PICK out \in SUBSET Absorbed(canon) : Drop(out)
      BY <2>1
    <2>3. out = {}
      BY <2>2, NothingAbsorbed
    <2> QED
      BY <2>2, <2>3 DEF Drop, TypeOK
  <1>2. CASE ~ConsolidateByName
    BY <1>2 DEF KeepsRows, Next, Cycle, FetchAnswer, Fetch, Detect, PollWriteFails, Announce,
       DetectPing, Return, Emit, Restart, ChangeSettings, DeleteServer, pollerVars, tableVars
  <1> QED
    BY <1>1, <1>2

LEMMA WrittenRows ==
  ASSUME KeepsRows, PollWrite
  PROVE  \A s \in Sids :
           row'[s] = IF s \notin Listed(report) THEN row[s]
                     ELSE IF s \in Online(report, downStreak) THEN "up" ELSE "down"
  BY DEF PollWrite, KeepsRows

(* A host once seen stays seen.                                            *)
LEMMA SeenStays ==
  ASSUME KeepsRows, TypeOK, [Next]_pollerVars, NEW k \in Keys, WasSeen(k)
  PROVE  WasSeen(k)'
  <1>1. CASE PollWrite
    BY <1>1, WrittenRows DEF WasSeen, Members
  <1>2. CASE ~PollWrite
    BY <1>2, OnlyWritesRows DEF WasSeen, Members
  <1> QED
    BY <1>1, <1>2

LEMMA WriteFits ==
  ASSUME KeepsRows, FitInv, PollWrite
  PROVE  EventsFit'
  <1> USE DEF FitInv, AlertsTypeOK
  <1>1. /\ at = "write" /\ at' = "merge" /\ UNCHANGED <<transitions, pending, report, downStreak>>
    BY DEF PollWrite
  <1>2. ASSUME NEW k \in Keys, IsSeen(k)
        PROVE  WasSeen(k)' /\ (WasUp(k)' <=> IsUp(k))
    <2>1. Members(k) # {} /\ Members(k) \subseteq Listed(report)
      BY <1>2 DEF IsSeen, Members, Listed, WholeReport
    <2>2. \A s \in Members(k) :
            row'[s] = IF s \in Online(report, downStreak) THEN "up" ELSE "down"
      BY <2>1, WrittenRows DEF Members
    <2> QED
      BY <2>1, <2>2 DEF WasSeen, WasUp, IsUp, Members
  <1>3. ASSUME NEW e \in transitions' \cup pending', e.type \in UpDown
        PROVE  e \in transitions \cup pending /\ e.key \in Keys
    BY <1>1, <1>3 DEF TypeOK, Event, Outages, UpDown
  <1> QED
    BY <1>1, <1>2, <1>3 DEF EventsFit, KnownDown, UpDown

(* Steps without new up/down events, that leave the rows and are not       *)
(* taken between the events and the write.                                 *)
LEMMA FitStays ==
  ASSUME FitInv, UNCHANGED row, at # "write", at' # "write",
         \A e \in transitions' \cup pending' : e.type \in UpDown => e \in transitions \cup pending
  PROVE  EventsFit'
  BY SameRows DEF FitInv, EventsFit, UpDown, KnownDown, WasSeen, WasUp

LEMMA FitStep ==
  ASSUME ListsWhole, KeepsRows, FitInv, [Next]_pollerVars, AlertsTypeOK'
  PROVE  FitInv'
  <1> USE DEF FitInv, AlertsTypeOK
  <1>1. EventsInTime'
    BY TimelyStep
  <1>2. WholeReport'
    <2>1. CASE FetchAnswer
      BY <2>1, WholeAnswer
    <2>2. CASE ~FetchAnswer
      BY <2>2 DEF WholeReport, Next, Cycle, Detect, PollWrite, PollWriteFails, ConsolidateByName,
         Announce, DetectPing, Return, Emit, Restart, ChangeSettings, DeleteServer,
         pollerVars, cycleVars
    <2> QED
      BY <2>1, <2>2
  <1>3. SUFFICES EventsFit'
    BY <1>1, <1>2
  <1>4. CASE FetchAnswer
    <2>1. PICK r, dt : Fetch(r, dt)
      BY <1>4, WholeAnswer
    <2>2. \A e \in transitions' \cup pending' : e.type \notin UpDown
      BY <2>1, OutagesSayNothing
      DEF Fetch, EventsInTime, SuspectOutage, ConfirmOutage, NoOutage, Outages
    <2> QED
      BY <2>2 DEF EventsFit, UpDown
  <1>5. CASE Detect
    <2>1. /\ at' = "write" /\ pending' = {}
          /\ transitions' \subseteq detectTransitions
          /\ UNCHANGED <<report, downStreak>>
      BY <1>5 DEF Detect
    <2>2. \A e \in detectTransitions :
            /\ e.type = "server_down" => IsSeen(e.key) /\ ~IsUp(e.key)
            /\ e.type = "server_up" => IsSeen(e.key) /\ IsUp(e.key)
      BY DEF detectTransitions
    <2> QED
      BY <2>1, <2>2 DEF EventsFit, IsSeen, IsUp
  <1>6. CASE PollWrite
    BY <1>6, WriteFits
  <1>7. CASE ~PollWrite /\ ~FetchAnswer /\ ~Detect
    <2>1. UNCHANGED row
      BY <1>7, OnlyWritesRows
    <2>2. CASE PollWriteFails \/ Restart
      <3>1. transitions' = {} /\ pending' = {}
        BY <2>2 DEF PollWriteFails, Restart, EventsInTime
      <3> QED
        BY <3>1 DEF EventsFit
    <2>3. CASE UNCHANGED <<at, transitions, pending, report, downStreak>>
      BY <2>1, <2>3, SameRows DEF EventsFit, KnownDown, WasSeen, WasUp, IsSeen, IsUp
    <2>4. CASE ConsolidateByName
      BY <2>1, <2>4, FitStays DEF ConsolidateByName
    <2>5. CASE Announce
      BY <2>1, <2>5, FitStays DEF Announce, Silence
    <2>6. CASE DetectPing
      <3>1. \A e \in detectPingEvents : e.type \notin UpDown
        BY DEF detectPingEvents, UpDown
      <3>2. /\ pending = {} /\ UNCHANGED transitions /\ at = "ping" /\ at' = "last"
            /\ \A e \in pending' : e.type \notin UpDown
        BY <2>6, <3>1 DEF DetectPing, Silence
      <3> QED
        BY <2>1, <3>2, FitStays
    <2>7. CASE \E e \in Event : Emit(e)
      <3>1. at # "write" /\ UNCHANGED <<at, transitions>> /\ pending' \subseteq pending
        BY <2>7 DEF Emit, EventsInTime
      <3> QED
        BY <2>1, <3>1, FitStays
    <2>8. CASE Return
      BY <2>1, <2>8, FitStays DEF Return
    <2> QED
      BY <1>7, <2>2, <2>3, <2>4, <2>5, <2>6, <2>7, <2>8
      DEF Next, Cycle, ChangeSettings, DeleteServer, KeepsRows, pollerVars, cycleVars
  <1> QED
    BY <1>4, <1>5, <1>6, <1>7

-----------------------------------------------------------------------------
(* The alerts implement the promise.                                       *)

LEMMA PromiseInit == AlertsInit => Promise!Init
  <1> SUFFICES ASSUME AlertsInit
               PROVE  Promise!Init
    OBVIOUS
  <1>1. page = [k \in Keys |-> "new"]
    BY DEF AlertsInit, Init, page, WasSeen, Members
  <1>2. ASSUME NEW k \in Keys
        PROVE  chat[<<"status", k>>] # "server_down"
    <2>1. PICK s \in Sids : k = groupKey(s)
      BY DEF Keys
    <2>2. [type |-> "server_up", key |-> k] \in Event
      BY DEF Event
    <2>3. Topic([type |-> "server_up", key |-> k]) = <<"status", k>>
      BY DEF Topic, Status
    <2>4. <<"status", k>> \in Topics
      BY <2>2, <2>3 DEF Topics
    <2> QED
      BY <2>4 DEF AlertsInit
  <1>3. told = [k \in Keys |-> "up"]
    BY <1>2 DEF told
  <1> QED
    BY <1>1, <1>3 DEF Promise!Init

(* A step that leaves the chat alone moves the page as Record may.         *)
LEMMA PageMoves ==
  ASSUME KeepsRows, TypeOK, [Next]_pollerVars, UNCHANGED chat
  PROVE  Promise!Record
  <1>1. page' \in [Keys -> {"new", "up", "down"}]
    BY DEF page
  <1>2. ASSUME NEW k \in Keys, page[k] # "new"
        PROVE  page'[k] # "new"
    BY <1>2, SeenStays DEF page
  <1>3. told' = told
    BY DEF told
  <1> QED
    BY <1>1, <1>2, <1>3 DEF Promise!Record

(* A message about a host says what the page shows.                        *)
LEMMA MessageFits ==
  ASSUME FitInv, NEW e \in Event, Deliver(e), ~UNCHANGED chat
  PROVE  [Promise!Next]_<<page, told>>
  <1> USE DEF FitInv, AlertsTypeOK
  <1>1. /\ e \in pending /\ at # "write" /\ UNCHANGED row
        /\ chat' = [chat EXCEPT ![Topic(e)] = e.type]
    BY DEF Deliver, Emit, HandleEvent, EventsInTime, tableVars
  <1>2. page' = page
    BY <1>1 DEF page, WasSeen, WasUp
  <1>3. CASE ~Status(e)
    <2>1. \A k \in Keys : Topic(e) # <<"status", k>>
      BY <1>3 DEF Topic
    <2>2. \A k \in Keys : chat'[<<"status", k>>] = chat[<<"status", k>>]
      BY <1>1, <2>1
    <2> QED
      BY <1>2, <2>2 DEF told
  <1>4. CASE Status(e)
    <2>1. e.key \in Keys /\ Topic(e) = <<"status", e.key>> /\ Topic(e) \in Topics
      BY <1>4, KeyOfEvent DEF Topic
    <2> DEFINE word == IF e.type = "server_down" THEN "down" ELSE "up"
    <2>2. page[e.key] = word
      BY <1>1, <1>4, <2>1 DEF EventsFit, Status, page, KnownDown
    <2>3. told' = [told EXCEPT ![e.key] = word]
      <3>1. chat'[<<"status", e.key>>] = e.type
        BY <1>1, <2>1
      <3>2. \A k \in Keys : k # e.key => chat'[<<"status", k>>] = chat[<<"status", k>>]
        BY <1>1, <2>1
      <3> QED
        BY <2>1, <3>1, <3>2 DEF told
    <2>4. CASE told[e.key] = word
      <3>1. told' = told
        BY <2>1, <2>3, <2>4 DEF told
      <3> QED
        BY <1>2, <3>1
    <2>5. CASE told[e.key] # word
      <3>1. Promise!Tell(e.key)
        BY <1>2, <2>1, <2>2, <2>3, <2>5 DEF Promise!Tell
      <3> QED
        BY <2>1, <3>1 DEF Promise!Next
    <2> QED
      BY <2>4, <2>5
  <1> QED
    BY <1>3, <1>4

LEMMA PromiseStep ==
  ASSUME KeepsRows, FitInv, [AlertsNext]_alertVars
  PROVE  [Promise!Next]_<<page, told>>
  <1>1. [Next]_pollerVars
    BY PollerSteps
  <1>2. CASE UNCHANGED chat
    BY <1>1, <1>2, PageMoves DEF FitInv, AlertsTypeOK, Promise!Next
  <1>3. CASE ~UNCHANGED chat
    <2>1. PICK e \in Event : Deliver(e)
      BY <1>3 DEF AlertsNext, alertVars, botVars, PollerStep, RestartAll, SetMutedName,
         SetAlertOnDown
    <2> QED
      BY <1>3, <2>1, MessageFits
  <1> QED
    BY <1>2, <1>3

(* Every up/down message says what the page shows at that moment, through  *)
(* crashes, failed reads and writes, mutes, maintenance and lost messages, *)
(* where hosts are listed whole and rows are kept (HandleEvent, pollOnce). *)
THEOREM TrueMessages == ListsWhole /\ KeepsRows /\ AlertsSpec => MessagesAreTrue
  <1> SUFFICES ASSUME ListsWhole, KeepsRows
               PROVE  AlertsSpec => MessagesAreTrue
    OBVIOUS
  <1>1. AlertsInit => FitInv /\ Promise!Init
    BY PromiseInit, AlertsTypeInit
    DEF AlertsInit, Init, FitInv, EventsInTime, WholeReport, EventsFit
  <1>2. FitInv /\ [AlertsNext]_alertVars => FitInv'
    BY AlertsTypeStep, PollerSteps, FitStep DEF FitInv
  <1>3. FitInv /\ [AlertsNext]_alertVars => [Promise!Next]_<<page, told>>
    BY PromiseStep
  <1> QED
    BY <1>1, <1>2, <1>3, PTL
    DEF AlertsSpec, MessagesAreTrue, Promise!Safe, Promise!noticeVars

-----------------------------------------------------------------------------
(* Only repetitions are dropped.                                           *)

(* What the bot remembers under a name is the last event of each host of   *)
(* the name that was not passed by.                                        *)
Remembered ==
  /\ AlertsTypeOK
  /\ \A k \in Keys : lastDown[Disp(k)] # "unset" => heard[k] = lastDown[Disp(k)] \/ k \in passed

LEMMA RememberedDelivered ==
  ASSUME Remembered, NEW e \in Event, Deliver(e), NEW k \in Keys,
         lastDown'[Disp(k)] # "unset", k \notin passed'
  PROVE  heard'[k] = lastDown'[Disp(k)]
  <1> USE DEF Remembered, AlertsTypeOK, TypeOK
  <1>1. CASE ~Status(e)
    <2>1. UNCHANGED <<heard, lastDown, passed>>
      BY <1>1 DEF Deliver, Emit, HandleEvent, PassBy, Status
    <2> QED
      BY <2>1
  <1>2. CASE Status(e)
    <2>1. e.key \in Keys /\ Disp(e.key) \in Names /\ Disp(k) \in Names
      BY <1>2, KeyOfEvent DEF Names
    <2>2. heard' = [heard EXCEPT ![e.key] = e.type]
      BY <1>2 DEF Deliver, Emit, Status
    <2>3. CASE Muted(e) \/ TurnedOff(e)
      <3>1. k # e.key /\ k \notin passed /\ lastDown' = lastDown
        BY <1>2, <2>3 DEF Deliver, PassBy, HandleEvent
      <3> QED
        BY <2>1, <2>2, <3>1
    <2>4. CASE ~Muted(e) /\ ~TurnedOff(e)
      <3>1. passed' = (passed \cup {h \in Keys : Disp(h) = Disp(e.key)}) \ {e.key}
        BY <1>2, <2>4 DEF Deliver, PassBy
      <3>2. /\ lastDown'[Disp(e.key)] = e.type
            /\ \A n \in Names : n # Disp(e.key) => lastDown'[n] = lastDown[n]
        BY <1>2, <2>1, <2>4 DEF Deliver, HandleEvent, Repeated, NoText, Status
      <3>3. CASE k = e.key
        BY <2>1, <2>2, <3>2, <3>3
      <3>4. CASE k # e.key
        <4>1. Disp(k) # Disp(e.key) /\ k \notin passed
          BY <3>1, <3>4
        <4> QED
          BY <2>1, <2>2, <3>2, <3>4, <4>1
      <3> QED
        BY <3>3, <3>4
    <2> QED
      BY <2>3, <2>4
  <1> QED
    BY <1>1, <1>2

LEMMA RememberedStep ==
  ASSUME Remembered, [AlertsNext]_alertVars
  PROVE  Remembered'
  <1> USE DEF Remembered
  <1>1. AlertsTypeOK'
    BY AlertsTypeStep
  <1>2. CASE \E e \in Event : Deliver(e)
    BY <1>1, <1>2, RememberedDelivered
  <1>3. CASE RestartAll
    <2>1. \A k \in Keys : lastDown'[Disp(k)] = "unset"
      BY <1>3 DEF RestartAll, Names
    <2> QED
      BY <1>1, <2>1
  <1>4. CASE ~RestartAll /\ ~\E e \in Event : Deliver(e)
    <2>1. UNCHANGED <<heard, lastDown, passed>>
      BY <1>4 DEF AlertsNext, PollerStep, Cycle, FetchAnswer, Fetch, Detect, PollWrite,
         PollWriteFails, ConsolidateByName, Announce, DetectPing, Return, ChangeSettings,
         DeleteServer, SetMutedName, SetAlertOnDown, alertVars, pollerVars, botVars
    <2> QED
      BY <1>1, <2>1
  <1> QED
    BY <1>2, <1>3, <1>4

(* An event that is no repetition is dropped as one only of a host whose   *)
(* last event was silenced, or whose name another host was heard by since, *)
(* for any hosts, mutes, settings and restarts (Bot.HandleEvent).          *)
THEOREM OnlyRepetitions == AlertsSpec => []DroppedWereHeard
  <1>1. AlertsInit => Remembered
    BY AlertsTypeInit DEF AlertsInit, Remembered, Names
  <1>2. Remembered /\ [AlertsNext]_alertVars => Remembered'
    BY RememberedStep
  <1>3. Remembered => DroppedWereHeard
    <2> SUFFICES ASSUME Remembered, NEW e \in pending, Repeated(e), e.key \notin passed
                 PROVE  heard[e.key] = e.type
      BY DEF DroppedWereHeard
    <2>1. e \in Event /\ Status(e)
      BY DEF Remembered, AlertsTypeOK, TypeOK, Repeated
    <2>2. e.key \in Keys
      BY <2>1, KeyOfEvent
    <2> QED
      BY <2>1, <2>2 DEF Remembered, Repeated, Status
  <1> QED
    BY <1>1, <1>2, <1>3, PTL DEF AlertsSpec

-----------------------------------------------------------------------------
(* Outages are bracketed.                                                  *)

OutageTopic == <<"outage", AllHosts>>

(* The outage counter speaks of the last answers: above zero of the last,  *)
(* and with the outage's announcement of the one before.  Two cycles with  *)
(* everything down have been announced, or are about to be; an all-clear   *)
(* waits only where the chat was told of the outage.                       *)
BracketInv ==
  /\ AlertsTypeOK /\ FlapInv
  /\ \A e \in transitions : e.type \notin Outages
  /\ streak > 0 => AllOff(report, prevOff)
  /\ \A e \in pending : e.type = "global_confirmed" => streak = 2 /\ prevAllOff
  /\ \A e \in pending : e.type = "global_cleared" =>
       streak = 0 /\ chat[OutageTopic] = "global_confirmed"
  /\ streak = 2 => \/ chat[OutageTopic] = "global_confirmed"
                   \/ \E e \in pending : e.type = "global_confirmed"

LEMMA OutageEvents ==
  ASSUME NEW e \in Event, e.type \in Outages
  PROVE  e.key = AllHosts /\ e = [type |-> e.type, key |-> AllHosts] /\ Topic(e) = OutageTopic
  BY DEF Event, Outages, Topic, OutageTopic, Status

LEMMA OutageIsTopic == OutageTopic \in Topics
  <1>1. [type |-> "global_cleared", key |-> AllHosts] \in Event
    BY DEF Event, Outages
  <1> QED
    BY <1>1, OutageEvents DEF Topics, Outages

(* The mask takes for offline what was so in two answers.                  *)
LEMMA MaskedAllDown ==
  ASSUME NEW r, NEW d \in [Sids -> 0..2], NEW prev \in SUBSET Sids,
         \A s \in Sids : d[s] = 2 => s \in prev, AllDown(r, d)
  PROVE  AllOff(r, prev)
  <1> DEFINE off == {s \in prev : r[s] = "off"}
  <1>1. /\ IsFiniteSet(off)
        /\ Offline(r, d) \in SUBSET off
    <2>1. \A s \in Offline(r, d) : s \in Sids /\ r[s] = "off" /\ ~(d[s] < 2) /\ d[s] \in 0..2
      BY DEF Offline, Online, Listed
    <2>2. \A s \in Offline(r, d) : d[s] = 2
      BY <2>1
    <2> QED
      BY <2>1, <2>2, FS_Subset, PollerAssumption
  <1>2. /\ Cardinality(Offline(r, d)) \in Nat /\ Cardinality(off) \in Nat
        /\ Cardinality(Offline(r, d)) <= Cardinality(off)
    BY <1>1, FS_Subset, FS_CardinalityType
  <1>3. IsFiniteSet(Listed(r)) /\ Cardinality(Listed(r)) \in Nat
    BY FS_Subset, FS_CardinalityType, PollerAssumption DEF Listed
  <1> HIDE DEF off
  <1>4. ASSUME NEW a \in Nat, NEW b \in Nat, NEW c \in Nat, a <= b, OutageDen * a >= c
        PROVE  OutageDen * b >= c
    <2>1. OutageDen \in Nat
      BY PollerAssumption
    <2>2. OutageDen * b = OutageDen * a + OutageDen * (b - a)
      BY <2>1
    <2>3. OutageDen * (b - a) \in Nat /\ OutageDen * a \in Nat
      BY <1>4, <2>1
    <2> QED
      BY <1>4, <2>2, <2>3
  <1>5. OutageNum * Cardinality(Listed(r)) \in Nat
    BY <1>3, PollerAssumption
  <1>6. OutageDen * Cardinality(off) >= OutageNum * Cardinality(Listed(r))
    BY <1>2, <1>4, <1>5 DEF AllDown
  <1> QED
    BY <1>6 DEF AllDown, AllOff, off

LEMMA BracketFetch ==
  ASSUME BracketInv, FetchAnswer, UNCHANGED chat, AlertsTypeOK', FlapInv'
  PROVE  BracketInv'
  <1> USE DEF BracketInv
  <1>1. PICK r, dt : Fetch(r, dt)
    BY DEF FetchAnswer
  <1>2. pending = {} /\ UNCHANGED transitions
    BY <1>1 DEF Fetch, FlapInv, EventsInTime
  <1>7. AllDown(r, downStreak') => AllOff(report', prevOff')
    <2>1. /\ report' = r /\ downStreak' \in [Sids -> 0..2] /\ prevOff' \subseteq Sids
          /\ \A s \in Sids : downStreak'[s] = 2 => s \in prevOff'
      BY <1>1 DEF Fetch, FlapInv, StreakIsAnswers, TypeOK
    <2> QED
      BY <2>1, MaskedAllDown
  <1>3. streak = 2 => chat[OutageTopic] = "global_confirmed"
    BY <1>2
  <1>4. CASE SuspectOutage /\ AllDown(r, downStreak')
    BY <1>1, <1>2, <1>4, <1>7 DEF SuspectOutage, Outage, Fetch
  <1>5. CASE ConfirmOutage /\ AllDown(r, downStreak')
    <2>1. prevAllOff' = AllOff(report, prevOff) /\ streak > 0
      BY <1>1, <1>5 DEF Fetch, ConfirmOutage
    <2>2. prevAllOff' /\ AllOff(report', prevOff')
      BY <1>1, <1>5, <2>1, <1>7 DEF Fetch
    <2> QED
      BY <1>2, <1>5, <2>2 DEF ConfirmOutage, Outage
  <1>6. CASE NoOutage
    BY <1>2, <1>3, <1>6 DEF NoOutage, Outage
  <1> QED
    BY <1>1, <1>4, <1>5, <1>6 DEF Fetch

(* The last answers change with an answer only.                            *)
LEMMA AnswersStay ==
  ASSUME [Next]_pollerVars, ~FetchAnswer
  PROVE  /\ UNCHANGED <<report, lastAnswers>>
         /\ AllOff(report, prevOff)' <=> AllOff(report, prevOff)
  <1>1. UNCHANGED <<report, lastAnswers>>
    BY DEF Next, Cycle, Detect, PollWrite, PollWriteFails, ConsolidateByName, Announce,
       DetectPing, Return, Emit, Restart, ChangeSettings, DeleteServer, pollerVars
  <1> QED
    BY <1>1 DEF AllOff, Listed

LEMMA BracketDeliver ==
  ASSUME SendMayFail = FALSE, BracketInv, NEW e \in Event, Deliver(e),
         AlertsTypeOK', FlapInv', UNCHANGED prevAllOff,
         AllOff(report, prevOff)' <=> AllOff(report, prevOff)
  PROVE  BracketInv'
  <1> USE DEF BracketInv
  <1>1. /\ e \in pending /\ pending' = pending \ {e}
        /\ UNCHANGED <<transitions, streak>>
    BY DEF Deliver, Emit
  <1>2. CASE e.type \notin Outages
    <2>1. Topic(e) # OutageTopic
      BY <1>2 DEF Topic, OutageTopic
    <2>2. chat' = chat \/ chat' = [chat EXCEPT ![Topic(e)] = e.type]
      BY DEF Deliver, HandleEvent
    <2>3. chat'[OutageTopic] = chat[OutageTopic]
      BY <2>1, <2>2, OutageIsTopic DEF AlertsTypeOK
    <2> QED
      BY <1>1, <1>2, <2>3 DEF Outages
  <1>3. CASE e.type = "global_suspected"
    <2>1. UNCHANGED chat
      BY <1>3 DEF Deliver, HandleEvent, NoText
    <2> QED
      BY <1>1, <1>3, <2>1
  <1>4. CASE e.type \in {"global_confirmed", "global_cleared"}
    <2>1. e.key = AllHosts /\ Topic(e) = OutageTopic /\ OutageTopic \in Topics
      BY <1>4, OutageEvents DEF Outages, Topics
    <2>2. ~Muted(e) /\ ~Status(e) /\ ~NoText(e)
      BY <1>4, <2>1 DEF Muted, Status, NoText
    <2>3. chat'[OutageTopic] = e.type
      BY <2>1, <2>2 DEF Deliver, HandleEvent, TurnedOff, Repeated, AlertsTypeOK
    <2>4. CASE e.type = "global_confirmed"
      BY <1>1, <2>3, <2>4
    <2>5. CASE e.type = "global_cleared"
      <3>1. streak = 0
        BY <1>1, <2>5
      <3>2. \A f \in pending : f.type = "global_cleared" => f = e
        BY <1>1, <2>5, OutageEvents DEF Outages, AlertsTypeOK, TypeOK
      <3> QED
        BY <1>1, <2>5, <3>1, <3>2
    <2> QED
      BY <1>4, <2>4, <2>5
  <1> QED
    BY <1>2, <1>3, <1>4 DEF Outages

LEMMA BracketStep ==
  ASSUME SendMayFail = FALSE, BracketInv, [AlertsNext]_alertVars
  PROVE  BracketInv'
  <1> USE DEF BracketInv
  <1>1. AlertsTypeOK'
    BY AlertsTypeStep
  <1>2. FlapInv'
    BY PollerSteps, FlapStep
  <1>A. ~FetchAnswer =>
          UNCHANGED prevAllOff /\ (AllOff(report, prevOff)' <=> AllOff(report, prevOff))
    BY PollerSteps, AnswersStay
  <1>3. CASE \E e \in Event : Deliver(e)
    <2>1. ~FetchAnswer
      BY <1>3 DEF Deliver, Emit, FetchAnswer, Fetch, FlapInv, EventsInTime
    <2> QED
      BY <1>1, <1>2, <1>3, <1>A, <2>1, BracketDeliver
  <1>4. CASE RestartAll
    BY <1>1, <1>2, <1>4 DEF RestartAll, Restart
  <1>5. CASE PollerStep
    <2>1. UNCHANGED chat
      BY <1>5 DEF PollerStep, botVars
    <2>2. CASE FetchAnswer
      BY <1>1, <1>2, <2>1, <2>2, BracketFetch
    <2>3. CASE Detect
      <3>1. \A e \in transitions' : e.type \notin Outages
        BY <2>3 DEF Detect, detectTransitions, Outages
      <3> QED
        BY <1>1, <1>2, <1>A, <2>1, <2>3, <3>1 DEF Detect, FetchAnswer, Fetch
    <2>4. CASE Announce
      <3>1. pending = {} /\ transitions' = {} /\ pending' \subseteq transitions /\ UNCHANGED streak
        BY <2>4 DEF Announce, Silence, FlapInv, EventsInTime
      <3>2. \A e \in pending' : e.type \notin Outages
        BY <3>1
      <3> QED
        BY <1>1, <1>2, <1>A, <2>1, <2>4, <3>1, <3>2 DEF Outages, Announce, FetchAnswer, Fetch
    <2>5. CASE DetectPing
      <3>1. /\ pending = {} /\ UNCHANGED <<transitions, streak>>
            /\ \A e \in pending' : e.type \in {"high_ping", "ping_ok"}
        BY <2>5 DEF DetectPing, Silence, detectPingEvents
      <3> QED
        BY <1>1, <1>2, <1>A, <2>1, <2>5, <3>1 DEF DetectPing, FetchAnswer, Fetch
    <2>6. CASE PollWriteFails
      BY <1>1, <1>2, <1>A, <2>1, <2>6 DEF PollWriteFails, FetchAnswer, Fetch
    <2>7. CASE ~FetchAnswer /\ (PollWrite \/ ConsolidateByName \/ Return \/ ChangeSettings
                 \/ \E s \in Sids : DeleteServer(s))
      <3>1. UNCHANGED <<transitions, pending, streak>>
        BY <2>7 DEF PollWrite, ConsolidateByName, Return, ChangeSettings, DeleteServer, cycleVars
      <3> QED
        BY <1>1, <1>2, <1>A, <2>1, <2>7, <3>1
    <2> QED
      BY <1>5, <2>2, <2>3, <2>4, <2>5, <2>6, <2>7 DEF PollerStep, Cycle
  <1>6. CASE ~FetchAnswer /\ UNCHANGED <<transitions, pending, streak, chat>>
    BY <1>1, <1>2, <1>6, <1>A
  <1>8. CASE FetchAnswer /\ ~PollerStep
    <2>1. at = "idle" /\ at' # "idle"
      BY <1>8 DEF FetchAnswer, Fetch, SuspectOutage, ConfirmOutage, NoOutage
    <2> QED
      BY <1>3, <1>4, <1>8, <2>1
      DEF AlertsNext, SetMutedName, SetAlertOnDown, alertVars, botVars, pollerVars, cycleVars
  <1> QED
    BY <1>3, <1>4, <1>5, <1>6, <1>8
    DEF AlertsNext, SetMutedName, SetAlertOnDown, alertVars, botVars, pollerVars, cycleVars

(* An outage is announced with the third answer in a row that has          *)
(* everything offline, and an all-clear sent only to a chat that was told  *)
(* of it, through crashes, failures, mutes and settings, where no message  *)
(* is lost (pollOnce).                                                     *)
THEOREM OutagesBracketed == SendMayFail = FALSE /\ AlertsSpec => []OutageBracketed
  <1> SUFFICES ASSUME SendMayFail = FALSE
               PROVE  AlertsSpec => []OutageBracketed
    OBVIOUS
  <1>0. Init => FlapInv
    BY TypeInit DEF Init, FlapInv, StreakIsAnswers, EventsInTime, NoFlapAlert
  <1>1. AlertsInit => BracketInv
    BY <1>0, AlertsTypeInit DEF AlertsInit, Init, BracketInv
  <1>2. BracketInv /\ [AlertsNext]_alertVars => BracketInv'
    BY BracketStep
  <1>3. BracketInv => OutageBracketed
    BY OutageEvents DEF BracketInv, OutageBracketed, Outages, AlertsTypeOK, TypeOK
  <1> QED
    BY <1>1, <1>2, <1>3, PTL DEF AlertsSpec
=============================================================================
