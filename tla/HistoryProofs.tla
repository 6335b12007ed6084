---------------------------- MODULE HistoryProofs ----------------------------
(***************************************************************************)
(* Proofs about History for every value of its constants.                  *)
(***************************************************************************)
EXTENDS HistoryBook, Induction

Counts == [up : Nat, down : Nat, conf : Nat]

LEMMA SumType ==
  \A a, b \in Counts : Plus(a, b) \in Counts
  BY DEF Plus, Counts

LEMMA TodayIsADay == now \in Times => dayOf(now) \in Days
  BY DEF Days

LEMMA NoDaysType == NoDays \in [Days -> Counts]
  BY DEF NoDays, NoCount, Counts

(* What a cycle leaves of a server's days are days.                        *)
LEMMA DaysType ==
  ASSUME NEW days \in [Days -> Counts], NEW s, NEW up, now \in Times
  PROVE  /\ Retained(days) \in [Days -> Counts]
         /\ AddToday(days, Reading(s, up)) \in [Days -> Counts]
  <1>1. Reading(s, up) \in Counts
    BY DEF Reading, Counts
  <1>2. NoCount \in Counts
    BY DEF NoCount, Counts
  <1> QED
    BY <1>1, <1>2, SumType, TodayIsADay DEF Retained, AddToday

LEMMA TypeInit == Init => TypeOK
  <1>1. 1 \in Times
    BY HistoryAssumption DEF Times
  <1> QED
    BY <1>1, NoDaysType DEF Init, TypeOK, Counts

LEMMA TypeStep ==
  ASSUME TypeOK, [Next]_vars
  PROVE  TypeOK'
  <1>0. now \in Times /\ daily \in [Sids -> [Days -> Counts]]
    BY DEF TypeOK, Counts
  <1>1. CASE \E listed \in Listings : \E up \in SUBSET listed : PollWrite(listed, up)
    <2>1. PICK listed \in SUBSET Sids, up \in SUBSET Sids : PollWrite(listed, up)
      BY <1>1, HistoryAssumption
    <2>2. online' \in [Sids -> {"none", "up", "down"}] /\ ts' \in [Sids -> Times \cup {0}]
      BY <1>0, <2>1 DEF PollWrite, TypeOK, Without
    <2>3. daily' \in [Sids -> [Days -> Counts]]
      <3>1. \A s \in Sids :
              Retained(IF s \in listed THEN AddToday(daily[s], Reading(s, up)) ELSE daily[s])
                \in [Days -> Counts]
        BY <1>0, DaysType
      <3> QED
        BY <2>1, <3>1, NoDaysType DEF PollWrite, Without
    <2>4. samples' \in [Sids -> SUBSET Times]
      BY <1>0, <2>1 DEF PollWrite, TypeOK, Without
    <2>5. now' = now /\ merges' = merges /\ lastPoll' = now /\ at' = "written"
          /\ polls' = polls + 1 /\ lately' = listed
      BY <2>1 DEF PollWrite
    <2> QED
      BY <1>0, <2>2, <2>3, <2>4, <2>5 DEF TypeOK, Counts
  <1>2. CASE ReadMerges
    BY <1>2 DEF ReadMerges, TypeOK, tables, Rows, Names
  <1>3. CASE \E from, to \in Sids : MergeSid(from, to)
    <2>1. PICK from \in Sids, to \in Sids : MergeSid(from, to)
      BY <1>3
    <2>2. daily' \in [Sids -> [Days -> Counts]]
      BY <1>0, <2>1, SumType, NoDaysType DEF MergeSid
    <2> QED
      BY <2>1, <2>2 DEF MergeSid, TypeOK, Counts
  <1>4. CASE EndMerge
    BY <1>4 DEF EndMerge, TypeOK, tables
  <1>5. CASE \E s \in Sids, failed \in Failing : DeleteServer(s, failed)
    <2>1. daily' \in [Sids -> [Days -> Counts]]
      BY <1>0, <1>5, NoDaysType DEF DeleteServer, Without
    <2> QED
      BY <1>5, <2>1 DEF DeleteServer, TypeOK, Without, Counts
  <1>6. CASE Tick
    BY <1>6, HistoryAssumption DEF Tick, TypeOK, tables, Times
  <1>7. CASE UNCHANGED vars
    BY <1>7 DEF vars, tables, TypeOK
  <1> QED
    BY <1>1, <1>2, <1>3, <1>4, <1>5, <1>6, <1>7 DEF Next

(* Type correctness of the history tables.                                 *)
THEOREM HistoryTypeCorrect == Spec => []TypeOK
  BY TypeInit, TypeStep, PTL DEF Spec

-----------------------------------------------------------------------------
(* The counters agree with one another.                                    *)

Sound(days) == \A d \in Days : days[d].conf <= days[d].down

(* Counts that are sound stay so when they are added, begun or dropped.    *)
LEMMA SoundDays ==
  /\ Sound(NoDays)
  /\ \A a, b \in [Days -> Counts] :
       Sound(a) /\ Sound(b) => Sound([d \in Days |-> Plus(a[d], b[d])])
  /\ \A days \in [Days -> Counts] : Sound(days) => Sound(Retained(days))
  BY DEF Sound, NoDays, NoCount, Plus, Retained, Counts

LEMMA SoundToday ==
  ASSUME NEW days \in [Days -> Counts], Sound(days), NEW s, NEW up, now \in Times
  PROVE  Sound(AddToday(days, Reading(s, up)))
  <1>1. Reading(s, up) \in Counts /\ Reading(s, up).conf <= Reading(s, up).down
    BY DEF Reading, Counts
  <1> DEFINE c == Reading(s, up)
  <1>2. \A d \in Days : Plus(days[d], c).conf <= Plus(days[d], c).down
    BY <1>1 DEF Plus, Counts, Sound
  <1> HIDE DEF c
  <1>3. Sound(AddToday(days, c))
    BY <1>2 DEF AddToday, Sound
  <1> QED
    BY <1>3 DEF c

LEMMA ConfirmedStep ==
  ASSUME TypeOK, ConfirmedAreDowns, [Next]_vars
  PROVE  ConfirmedAreDowns'
  <1>0. /\ now \in Times /\ daily \in [Sids -> [Days -> Counts]]
        /\ \A s \in Sids : Sound(daily[s])
    BY DEF TypeOK, Counts, ConfirmedAreDowns, Sound
  <1>1. SUFFICES \A s \in Sids : Sound(daily'[s])
    BY DEF ConfirmedAreDowns, Sound
  <1>2. CASE \E listed \in Listings : \E up \in SUBSET listed : PollWrite(listed, up)
    <2>1. PICK listed \in SUBSET Sids, up \in SUBSET Sids : PollWrite(listed, up)
      BY <1>2, HistoryAssumption
    <2>2. ASSUME NEW s \in Sids
          PROVE  Sound(daily'[s])
      <3> DEFINE days == IF s \in listed THEN AddToday(daily[s], Reading(s, up)) ELSE daily[s]
      <3>1. daily'[s] = NoDays \/ daily'[s] = Retained(days)
        BY <2>1 DEF PollWrite, Without
      <3>2. days \in [Days -> Counts] /\ Sound(days)
        BY <1>0, DaysType, SoundToday
      <3> HIDE DEF days
      <3> QED
        BY <3>1, <3>2, SoundDays
    <2> QED
      BY <2>2
  <1>3. CASE \E from, to \in Sids : MergeSid(from, to)
    <2>1. PICK from \in Sids, to \in Sids : MergeSid(from, to)
      BY <1>3
    <2>2. \A s \in Sids :
            \/ daily'[s] = daily[s] \/ daily'[s] = NoDays
            \/ daily'[s] = [d \in Days |-> Plus(daily[to][d], daily[from][d])]
      BY <1>0, <2>1 DEF MergeSid
    <2>3. Sound([d \in Days |-> Plus(daily[to][d], daily[from][d])])
      <3>1. daily[to] \in [Days -> Counts] /\ daily[from] \in [Days -> Counts]
        BY <1>0
      <3>2. Sound(daily[to]) /\ Sound(daily[from])
        BY <1>0
      <3> QED
        BY <3>1, <3>2, SoundDays
    <2> QED
      BY <1>0, <2>2, <2>3, SoundDays
  <1>4. CASE \E s \in Sids, failed \in Failing : DeleteServer(s, failed)
    <2>1. \A s \in Sids : daily'[s] = daily[s] \/ daily'[s] = NoDays
      BY <1>4 DEF DeleteServer, Without
    <2> QED
      BY <1>0, <2>1, SoundDays
  <1>5. CASE UNCHANGED daily
    BY <1>0, <1>5
  <1> QED
    BY <1>2, <1>3, <1>4, <1>5 DEF Next, ReadMerges, EndMerge, Tick, tables, vars

(* However the tables are written, merged, cleaned and cut off, no day of  *)
(* a server has more confirmed downs than downs (PollWrite, mergeSid).     *)
THEOREM ConfirmedDowns == Spec => []ConfirmedAreDowns
  <1>1. Init => TypeOK /\ ConfirmedAreDowns
    BY TypeInit DEF Init, ConfirmedAreDowns, NoDays, NoCount
  <1>2. TypeOK /\ ConfirmedAreDowns /\ [Next]_vars => TypeOK' /\ ConfirmedAreDowns'
    BY TypeStep, ConfirmedStep
  <1> QED
    BY <1>1, <1>2, PTL DEF Spec

-----------------------------------------------------------------------------
(* What the last answer lists is not merged.                               *)

Sources == {m[1] : m \in merges}

(* The rows of the last answer are of its time, the others are no newer,   *)
(* and what waits to be merged is older; of two rows of a name that are not*)
(* both of the last answer's time one waits to be merged.                  *)
KeptInv ==
  /\ TypeOK
  /\ at # "merging" => merges = {}
  /\ lately \subseteq Rows
  /\ \A s \in Rows : ts[s] <= lastPoll
  /\ lastPoll <= now
  /\ \A s \in lately : ts[s] = lastPoll
  /\ \A s \in Sources : s \in Rows => ts[s] < lastPoll
  /\ at = "merging" => \A s, t \in Rows : (s # t /\ NameOf[s] = NameOf[t]) =>
                         ts[s] = lastPoll \/ s \in Sources \/ t \in Sources

(* A step that only takes rows away keeps this, if it takes from the waiting*)
(* ones only what has no row any more.                                     *)
LEMMA KeptLess ==
  ASSUME KeptInv, TypeOK', Rows' \subseteq Rows, \A s \in Rows' : ts'[s] = ts[s],
         UNCHANGED <<at, lastPoll, now>>, lately' \subseteq lately, lately' \subseteq Rows',
         merges' \subseteq merges, \A s \in Sources : s \in Rows' => s \in Sources'
  PROVE  KeptInv'
  <1>1. Sources' \subseteq Sources
    BY DEF Sources
  <1>2. at' # "merging" => merges' = {}
    BY DEF KeptInv
  <1>3. /\ lastPoll' <= now'
        /\ \A s \in Rows' : ts'[s] <= lastPoll'
        /\ \A s \in lately' : ts'[s] = lastPoll'
    BY DEF KeptInv
  <1>4. \A s \in Sources' : s \in Rows' => ts'[s] < lastPoll'
    BY <1>1 DEF KeptInv
  <1>5. ASSUME at' = "merging", NEW s \in Rows', NEW t \in Rows', s # t, NameOf[s] = NameOf[t]
        PROVE  ts'[s] = lastPoll' \/ s \in Sources' \/ t \in Sources'
    <2>1. ts[s] = lastPoll \/ s \in Sources \/ t \in Sources
      BY <1>5 DEF KeptInv
    <2> QED
      BY <1>5, <2>1
  <1> QED
    BY <1>2, <1>3, <1>4, <1>5 DEF KeptInv

LEMMA KeptStep ==
  ASSUME KeptInv, [Next]_vars
  PROVE  KeptInv'
  <1>0. TypeOK' /\ TypeOK
    BY TypeStep DEF KeptInv
  <1>1. CASE \E listed \in Listings : \E up \in SUBSET listed : PollWrite(listed, up)
    <2>1. PICK listed \in SUBSET Sids, up \in SUBSET Sids : PollWrite(listed, up)
      BY <1>1, HistoryAssumption
    <2>2. merges' = {} /\ Sources' = {} /\ at' = "written" /\ now' = now /\ lastPoll' = now
          /\ lately' = listed
      BY <2>1 DEF PollWrite, KeptInv, Sources
    <2>3. \A s \in listed : s \notin Ghosts(listed)
      BY DEF Ghosts
    <2>4. \A s \in listed : s \in Rows' /\ ts'[s] = now
      BY <2>1, <2>3 DEF PollWrite, Without, Rows
    <2>5. ASSUME NEW s \in Rows'
          PROVE  ts'[s] <= now
      <3>1. s \in Sids /\ s \notin Ghosts(listed)
        BY <2>1, <2>5 DEF Rows, PollWrite, Without
      <3>2. CASE s \in listed
        BY <1>0, <2>4, <3>2 DEF TypeOK, Times
      <3>3. CASE s \notin listed
        <4>1. s \in Rows /\ ts'[s] = ts[s]
          BY <2>1, <2>5, <3>1, <3>3 DEF Rows, PollWrite, Without
        <4>2. ts[s] <= lastPoll /\ lastPoll <= now
          BY <4>1 DEF KeptInv
        <4>3. ts[s] \in Nat /\ lastPoll \in Nat /\ now \in Nat
          BY <1>0, <3>1, HistoryAssumption DEF TypeOK, Times
        <4> QED
          BY <4>1, <4>2, <4>3
      <3> QED
        BY <3>2, <3>3
    <2>6. now <= now
      BY <1>0 DEF TypeOK, Times
    <2> QED
      BY <1>0, <2>2, <2>4, <2>5, <2>6 DEF KeptInv
  <1>2. CASE ReadMerges
    <2>1. PICK canon \in [Names -> Sids] :
            /\ \A s \in Rows : LET c == canon[NameOf[s]] IN
                 c \in Rows /\ NameOf[c] = NameOf[s] /\ Newest(c)
            /\ merges' = {<<s, canon[NameOf[s]]>> :
                            s \in {r \in Rows : r # canon[NameOf[r]] /\ ts[r] < lastPoll}}
      BY <1>2 DEF ReadMerges
    <2> DEFINE old == {r \in Rows : r # canon[NameOf[r]] /\ ts[r] < lastPoll}
    <2>2. Sources' = old
      <3>1. merges' = {<<r, canon[NameOf[r]]>> : r \in old}
        BY <2>1
      <3> HIDE DEF old
      <3>2. \A r \in old : <<r, canon[NameOf[r]]>> \in merges' /\ <<r, canon[NameOf[r]]>>[1] = r
        BY <3>1
      <3>3. \A m \in merges' : \E r \in old : m[1] = r
        BY <3>1
      <3> QED
        BY <3>2, <3>3 DEF Sources
    <2>3. Rows' = Rows /\ UNCHANGED <<ts, lastPoll, now, lately>> /\ at' = "merging"
      BY <1>2 DEF ReadMerges, tables, Rows
    <2>4. ASSUME NEW s \in Rows, NEW t \in Rows, s # t, NameOf[s] = NameOf[t]
          PROVE  ts[s] = lastPoll \/ s \in Sources' \/ t \in Sources'
      <3>0. /\ ts[s] \in Nat /\ ts[t] \in Nat /\ lastPoll \in Nat
            /\ ts[s] <= lastPoll /\ ts[t] <= lastPoll
        BY <1>0 DEF KeptInv, TypeOK, Times, Rows
      <3>1. CASE s # canon[NameOf[s]]
        BY <2>2, <3>0, <3>1
      <3>2. CASE s = canon[NameOf[s]] /\ ts[s] # lastPoll
        <4>1. ts[t] <= ts[s]
          BY <2>1, <2>4, <3>2 DEF Newest
        <4>2. t # canon[NameOf[t]] /\ ts[t] < lastPoll
          BY <2>4, <3>0, <3>2, <4>1
        <4> QED
          BY <2>2, <4>2
      <3> QED
        BY <3>1, <3>2
    <2> QED
      BY <1>0, <2>2, <2>3, <2>4 DEF KeptInv
  <1>3. CASE \E from, to \in Sids : MergeSid(from, to)
    <2>1. PICK from \in Sids, to \in Sids : MergeSid(from, to)
      BY <1>3
    <2>2. /\ <<from, to>> \in merges /\ merges' = merges \ {<<from, to>>}
          /\ UNCHANGED <<at, lastPoll, now, lately>>
          /\ online' = [online EXCEPT ![from] = "none"] /\ ts' = [ts EXCEPT ![from] = 0]
      BY <2>1 DEF MergeSid
    <2>3. Rows' = Rows \ {from} /\ \A s \in Rows' : ts'[s] = ts[s]
      BY <1>0, <2>2 DEF Rows, TypeOK
    <2>4. from \in Sources
      BY <2>2 DEF Sources
    <2>5. from \notin lately
      BY <1>0, <2>4 DEF KeptInv, TypeOK, Times
    <2>6. \A s \in Sources : s \in Rows' => s \in Sources'
      BY <2>2, <2>3 DEF Sources
    <2>7. lately' \subseteq Rows'
      BY <2>2, <2>3, <2>5 DEF KeptInv
    <2> QED
      BY <1>0, <2>2, <2>3, <2>6, <2>7, KeptLess
  <1>4. CASE EndMerge
    <2>1. merges' = {} /\ Sources' = {} /\ at' = "idle"
      BY <1>4 DEF EndMerge, Sources
    <2>2. Rows' = Rows /\ UNCHANGED <<ts, lastPoll, now, lately>>
      BY <1>4 DEF EndMerge, tables, Rows
    <2> QED
      BY <1>0, <2>1, <2>2 DEF KeptInv
  <1>5. CASE \E s \in Sids, failed \in Failing : DeleteServer(s, failed)
    <2>1. PICK s \in Sids, failed \in Failing : DeleteServer(s, failed)
      BY <1>5
    <2>2. /\ Rows' = Rows \ Taken(s, "current", failed)
          /\ \A t \in Rows' : ts'[t] = ts[t]
          /\ lately' = lately \ Taken(s, "current", failed)
          /\ UNCHANGED <<merges, at, lastPoll, now>>
      BY <2>1 DEF DeleteServer, Without, Rows
    <2>3. \A t \in Sources : t \in Rows' => t \in Sources'
      BY <2>2 DEF Sources
    <2>4. lately' \subseteq Rows'
      BY <2>2 DEF KeptInv
    <2> QED
      BY <1>0, <2>2, <2>3, <2>4, KeptLess
  <1>6. CASE Tick
    <2>1. Rows' = Rows /\ Sources' = Sources /\ UNCHANGED <<ts, merges, at, lastPoll, lately>>
          /\ now' = now + 1
      BY <1>6 DEF Tick, tables, Rows, Sources
    <2>2. lastPoll <= now + 1
      BY <1>0 DEF KeptInv, TypeOK, Times
    <2> QED
      BY <1>0, <2>1, <2>2 DEF KeptInv
  <1>7. CASE UNCHANGED vars
    <2>1. Rows' = Rows /\ Sources' = Sources /\ UNCHANGED <<ts, merges, at, lastPoll, lately, now>>
      BY <1>7 DEF vars, tables, Rows, Sources
    <2> QED
      BY <1>0, <2>1 DEF KeptInv
  <1> QED
    BY <1>1, <1>2, <1>3, <1>4, <1>5, <1>6, <1>7 DEF Next

(* Whatever deletions, crashes and answers within one tick come between, a *)
(* server of the last answer keeps its row until it is deleted, and a      *)
(* consolidation that ends leaves no older row beside it                   *)
(* (ConsolidateByName).                                                    *)
THEOREM ListedServersKept == Spec => []ListedAreKept
  <1>1. Init => KeptInv
    <2> SUFFICES ASSUME Init
                 PROVE  KeptInv
      OBVIOUS
    <2>1. TypeOK /\ Rows = {} /\ Sources = {} /\ lately = {} /\ merges = {} /\ lastPoll <= now
          /\ at = "idle"
      BY TypeInit DEF Init, Rows, Sources
    <2> QED
      BY <2>1 DEF KeptInv
  <1>2. KeptInv /\ [Next]_vars => KeptInv'
    BY KeptStep
  <1>3. KeptInv => ListedAreKept
    BY DEF KeptInv, ListedAreKept, Sources
  <1> QED
    BY <1>1, <1>2, <1>3, PTL DEF Spec

-----------------------------------------------------------------------------
(* The sums over the servers of a name.                                    *)

LEMMA NamedFinite ==
  \A n : IsFiniteSet(Named(n)) /\ Cardinality(Named(n)) \in Nat
  <1>1. \A n : Named(n) \in SUBSET Sids
    BY DEF Named
  <1> QED
    BY <1>1, FS_Subset, FS_CardinalityType, HistoryAssumption

LEMMA SumBelow ==
  ASSUME NEW f, NEW g, NEW S, IsFiniteSet(S),
         \A s \in S : f[s] \in Nat /\ g[s] \in Nat /\ f[s] <= g[s]
  PROVE  SumFunctionOnSet(f, S) <= SumFunctionOnSet(g, S)
  <1> DEFINE h == [s \in S |-> g[s] - f[s]]
  <1>1. \A s \in S : h[s] \in Nat /\ g[s] = f[s] + h[s]
    OBVIOUS
  <1> HIDE DEF h
  <1>2. SumFunctionOnSet(g, S) = SumFunctionOnSet(f, S) + SumFunctionOnSet(h, S)
    BY <1>1, SumOfSums
  <1>3. SumFunctionOnSet(f, S) \in Nat /\ SumFunctionOnSet(h, S) \in Nat
    BY <1>1, SumNat
  <1> QED
    BY <1>2, <1>3

Tables == [Sids -> [Days -> Counts]]

(* One column of the table, for the servers of a name and a day.           *)
Ups(t, n, d)   == [s \in Named(n) |-> t[s][d].up]
Downs(t, n, d) == [s \in Named(n) |-> t[s][d].down]
Confs(t, n, d) == [s \in Named(n) |-> t[s][d].conf]

LEMMA Columns ==
  ASSUME NEW t \in Tables, NEW n, NEW d \in Days, NEW s \in Named(n)
  PROVE  /\ t[s][d] \in Counts
         /\ Ups(t, n, d)[s] = t[s][d].up /\ t[s][d].up \in Nat
         /\ Downs(t, n, d)[s] = t[s][d].down /\ t[s][d].down \in Nat
         /\ Confs(t, n, d)[s] = t[s][d].conf /\ t[s][d].conf \in Nat
  BY DEF Tables, Counts, Named, Ups, Downs, Confs

LEMMA CountColumns ==
  \A t, n, d : CountOf(t, n, d) = [up   |-> SumFunctionOnSet(Ups(t, n, d), Named(n)),
                                   down |-> SumFunctionOnSet(Downs(t, n, d), Named(n)),
                                   conf |-> SumFunctionOnSet(Confs(t, n, d), Named(n))]
  BY DEF CountOf, Ups, Downs, Confs

LEMMA CountType ==
  ASSUME NEW t \in Tables, NEW n, NEW d \in Days
  PROVE  CountOf(t, n, d) \in Counts
  <1>1. /\ SumFunctionOnSet(Ups(t, n, d), Named(n)) \in Nat
        /\ SumFunctionOnSet(Downs(t, n, d), Named(n)) \in Nat
        /\ SumFunctionOnSet(Confs(t, n, d), Named(n)) \in Nat
    BY NamedFinite, Columns, SumNat
  <1> QED
    BY <1>1, CountColumns DEF Counts

(* The same rows, the same count.                                          *)
LEMMA CountAgrees ==
  ASSUME NEW t \in Tables, NEW u \in Tables, NEW n, NEW d \in Days,
         \A s \in Named(n) : t[s][d] = u[s][d]
  PROVE  CountOf(t, n, d) = CountOf(u, n, d)
  <1>1. Ups(t, n, d) = Ups(u, n, d) /\ Downs(t, n, d) = Downs(u, n, d)
        /\ Confs(t, n, d) = Confs(u, n, d)
    BY DEF Ups, Downs, Confs
  <1> QED
    BY <1>1, CountColumns

(* Rows added to make the count added to.                                  *)
LEMMA CountSum ==
  ASSUME NEW t \in Tables, NEW u \in Tables, NEW r \in Tables,
         NEW n, NEW d \in Days,
         \A s \in Named(n) : u[s][d] = Plus(t[s][d], r[s][d])
  PROVE  CountOf(u, n, d) = Plus(CountOf(t, n, d), CountOf(r, n, d))
  <1>1. \A s \in Named(n) :
          /\ u[s][d].up = t[s][d].up + r[s][d].up
          /\ u[s][d].down = t[s][d].down + r[s][d].down
          /\ u[s][d].conf = t[s][d].conf + r[s][d].conf
    <2>1. \A a, b : /\ Plus(a, b).up = a.up + b.up
                    /\ Plus(a, b).down = a.down + b.down
                    /\ Plus(a, b).conf = a.conf + b.conf
      BY DEF Plus
    <2> QED
      BY <2>1
  <1>2. SumFunctionOnSet(Ups(u, n, d), Named(n))
          = SumFunctionOnSet(Ups(t, n, d), Named(n)) + SumFunctionOnSet(Ups(r, n, d), Named(n))
    <2>1. \A s \in Named(n) : Ups(t, n, d)[s] \in Nat /\ Ups(r, n, d)[s] \in Nat
            /\ Ups(u, n, d)[s] = Ups(t, n, d)[s] + Ups(r, n, d)[s]
      BY <1>1, Columns
    <2> QED
      BY <2>1, NamedFinite, SumOfSums
  <1>3. SumFunctionOnSet(Downs(u, n, d), Named(n))
          = SumFunctionOnSet(Downs(t, n, d), Named(n)) + SumFunctionOnSet(Downs(r, n, d), Named(n))
    <2>1. \A s \in Named(n) : Downs(t, n, d)[s] \in Nat /\ Downs(r, n, d)[s] \in Nat
            /\ Downs(u, n, d)[s] = Downs(t, n, d)[s] + Downs(r, n, d)[s]
      BY <1>1, Columns
    <2> QED
      BY <2>1, NamedFinite, SumOfSums
  <1>4. SumFunctionOnSet(Confs(u, n, d), Named(n))
          = SumFunctionOnSet(Confs(t, n, d), Named(n)) + SumFunctionOnSet(Confs(r, n, d), Named(n))
    <2>1. \A s \in Named(n) : Confs(t, n, d)[s] \in Nat /\ Confs(r, n, d)[s] \in Nat
            /\ Confs(u, n, d)[s] = Confs(t, n, d)[s] + Confs(r, n, d)[s]
      BY <1>1, Columns
    <2> QED
      BY <2>1, NamedFinite, SumOfSums
  <1> QED
    BY <1>2, <1>3, <1>4, CountColumns DEF Plus

LEMMA CountOfNone ==
  ASSUME NEW t \in Tables, NEW n, NEW d \in Days,
         \A s \in Named(n) : t[s][d] = NoCount
  PROVE  CountOf(t, n, d) = NoCount
  <1>1. \A s \in Named(n) : t[s][d] = Plus(t[s][d], t[s][d])
    BY DEF NoCount, Plus
  <1>2. CountOf(t, n, d) = Plus(CountOf(t, n, d), CountOf(t, n, d))
    BY <1>1, CountSum
  <1>3. CountOf(t, n, d) \in Counts
    BY CountType
  <1>4. ASSUME NEW c \in Counts, c = Plus(c, c)
        PROVE  c = NoCount
    <2>1. c.up \in Nat /\ c.down \in Nat /\ c.conf \in Nat
      BY DEF Counts
    <2>2. c.up = c.up + c.up /\ c.down = c.down + c.down /\ c.conf = c.conf + c.conf
      BY <1>4 DEF Plus
    <2>3. c.up = 0 /\ c.down = 0 /\ c.conf = 0
      <3>1. \A m \in Nat : m = m + m => m = 0
        OBVIOUS
      <3> QED
        BY <2>1, <2>2, <3>1, Zenon
    <2>4. c = [up |-> c.up, down |-> c.down, conf |-> c.conf]
      BY DEF Counts
    <2> QED
      BY <2>3, <2>4 DEF NoCount
  <1> QED
    BY <1>2, <1>3, <1>4

(* What one server of a name hands to another leaves its count as it was.  *)
LEMMA CountMoved ==
  ASSUME NEW t \in Tables, NEW u \in Tables, NEW n, NEW d \in Days,
         NEW x \in Named(n), NEW y \in Named(n), x # y,
         u[y][d] = Plus(t[y][d], t[x][d]), u[x][d] = NoCount,
         \A s \in Named(n) \ {x, y} : u[s][d] = t[s][d]
  PROVE  CountOf(u, n, d) = CountOf(t, n, d)
  <1>1. SumFunctionOnSet(Ups(u, n, d), Named(n)) = SumFunctionOnSet(Ups(t, n, d), Named(n))
    <2>1. /\ \A s \in Named(n) : Ups(t, n, d)[s] \in Nat
          /\ Ups(u, n, d)[y] = Ups(t, n, d)[y] + Ups(t, n, d)[x] /\ Ups(u, n, d)[x] = 0
          /\ \A s \in Named(n) \ {x, y} : Ups(u, n, d)[s] = Ups(t, n, d)[s]
      BY Columns DEF Plus, NoCount
    <2> QED
      BY <2>1, NamedFinite, SumMoved
  <1>2. SumFunctionOnSet(Downs(u, n, d), Named(n)) = SumFunctionOnSet(Downs(t, n, d), Named(n))
    <2>1. /\ \A s \in Named(n) : Downs(t, n, d)[s] \in Nat
          /\ Downs(u, n, d)[y] = Downs(t, n, d)[y] + Downs(t, n, d)[x] /\ Downs(u, n, d)[x] = 0
          /\ \A s \in Named(n) \ {x, y} : Downs(u, n, d)[s] = Downs(t, n, d)[s]
      BY Columns DEF Plus, NoCount
    <2> QED
      BY <2>1, NamedFinite, SumMoved
  <1>3. SumFunctionOnSet(Confs(u, n, d), Named(n)) = SumFunctionOnSet(Confs(t, n, d), Named(n))
    <2>1. /\ \A s \in Named(n) : Confs(t, n, d)[s] \in Nat
          /\ Confs(u, n, d)[y] = Confs(t, n, d)[y] + Confs(t, n, d)[x] /\ Confs(u, n, d)[x] = 0
          /\ \A s \in Named(n) \ {x, y} : Confs(u, n, d)[s] = Confs(t, n, d)[s]
      BY Columns DEF Plus, NoCount
    <2> QED
      BY <2>1, NamedFinite, SumMoved
  <1> QED
    BY <1>1, <1>2, <1>3, CountColumns

-----------------------------------------------------------------------------
(* The book.  A merge does not look whether its target still has a row;    *)
(* that it has one whenever the source has, and that this one is no older, *)
(* is what a deletion by name leaves, and one of a part of a name may not. *)

BookType ==
  /\ TypeOK
  /\ book \in [Names -> [Days -> Counts]] /\ seen \in [Names -> Nat] /\ partly \subseteq Names
MergesMatch ==
  \A m \in merges :
    /\ m[1] \in Sids /\ m[2] \in Sids /\ NameOf[m[1]] = NameOf[m[2]] /\ m[1] # m[2]
    /\ (NameOf[m[1]] \notin partly /\ m[1] \in Rows) => m[2] \in Rows /\ ts[m[1]] <= ts[m[2]]
    /\ \A o \in merges : NameOf[o[1]] = NameOf[m[1]] => o[2] = m[2]
MergesInTime == at # "merging" => merges = {}
(* The newest row of a name is of the last answer that had the name.       *)
NewestSeen ==
  \A n \in Names :
    /\ seen[n] <= now
    /\ (n \notin partly /\ Rows \cap Named(n) # {}) =>
         /\ \A s \in Rows \cap Named(n) : ts[s] <= seen[n]
         /\ \E s \in Rows \cap Named(n) : ts[s] = seen[n]
BookInv ==
  BookType /\ NoOrphans /\ MergesMatch /\ MergesInTime /\ NewestSeen /\ HistoryIsKept

LEMMA TableType == TypeOK => daily \in Tables
  BY DEF TypeOK, Tables, Counts

LEMMA TableTypeNext == TypeOK' => daily' \in Tables
  BY DEF TypeOK, Tables, Counts

LEMMA NameOfServer == \A s \in Sids : NameOf[s] \in Names /\ s \in Named(NameOf[s])
  BY DEF Names, Named

LEMMA NamedRows == Rows \subseteq Sids /\ \A n : \A s \in Named(n) : s \in Sids /\ NameOf[s] = n
  BY DEF Rows, Named

(* What is at most a count stays so beside equal changes.                  *)
LEMMA AtMostLaws ==
  /\ \A a, b, c \in Counts : AtMost(a, b) /\ AtMost(b, c) => AtMost(a, c)
  /\ \A a \in Counts : AtMost(a, a) /\ AtMost(NoCount, a)
  /\ \A a, b, c \in Counts : AtMost(a, b) => AtMost(Plus(a, c), Plus(b, c))
  BY DEF AtMost, Counts, Plus, NoCount

LEMMA NoCountType == NoCount \in Counts
  BY DEF NoCount, Counts

(* Rows emptied make a count no larger.                                    *)
LEMMA CountBelow ==
  ASSUME NEW t \in Tables, NEW u \in Tables, NEW n, NEW d \in Days,
         \A s \in Named(n) : u[s][d] = t[s][d] \/ u[s][d] = NoCount
  PROVE  AtMost(CountOf(u, n, d), CountOf(t, n, d))
  <1>1. SumFunctionOnSet(Ups(u, n, d), Named(n)) <= SumFunctionOnSet(Ups(t, n, d), Named(n))
    <2>1. \A s \in Named(n) : Ups(u, n, d)[s] \in Nat /\ Ups(t, n, d)[s] \in Nat
            /\ Ups(u, n, d)[s] <= Ups(t, n, d)[s]
      BY Columns DEF NoCount
    <2> QED
      BY <2>1, NamedFinite, SumBelow
  <1>2. SumFunctionOnSet(Downs(u, n, d), Named(n)) <= SumFunctionOnSet(Downs(t, n, d), Named(n))
    <2>1. \A s \in Named(n) : Downs(u, n, d)[s] \in Nat /\ Downs(t, n, d)[s] \in Nat
            /\ Downs(u, n, d)[s] <= Downs(t, n, d)[s]
      BY Columns DEF NoCount
    <2> QED
      BY <2>1, NamedFinite, SumBelow
  <1>3. SumFunctionOnSet(Confs(u, n, d), Named(n)) <= SumFunctionOnSet(Confs(t, n, d), Named(n))
    <2>1. \A s \in Named(n) : Confs(u, n, d)[s] \in Nat /\ Confs(t, n, d)[s] \in Nat
            /\ Confs(u, n, d)[s] <= Confs(t, n, d)[s]
      BY Columns DEF NoCount
    <2> QED
      BY <2>1, NamedFinite, SumBelow
  <1> QED
    BY <1>1, <1>2, <1>3, CountColumns DEF AtMost

-----------------------------------------------------------------------------
(* An answer.                                                              *)

(* The table an answer makes before the cleaning, and what it makes of one *)
(* count.                                                                  *)
Polled(listed, up) ==
  [s \in Sids |-> Retained(IF s \in listed THEN AddToday(daily[s], Reading(s, up)) ELSE daily[s])]
Later(c, more, d) ==
  IF d + KeepDays < dayOf(now) THEN NoCount ELSE IF d = dayOf(now) THEN Plus(c, more) ELSE c

LEMMA DayNumbers ==
  ASSUME TypeOK
  PROVE  Days \subseteq Nat /\ dayOf(now) \in Nat /\ KeepDays \in Nat /\ dayOf(now) \in Days
         /\ now \in Nat /\ StaleAfter \in Nat
  BY HistoryAssumption DEF TypeOK, Days, dayOf, Times

LEMMA RetainedDay ==
  ASSUME TypeOK, NEW days, NEW d \in Days
  PROVE  Retained(days)[d] = IF d + KeepDays < dayOf(now) THEN NoCount ELSE days[d]
  <1>1. d + KeepDays >= dayOf(now) <=> ~(d + KeepDays < dayOf(now))
    BY DayNumbers
  <1> QED
    BY <1>1 DEF Retained

LEMMA AddedDay ==
  ASSUME NEW days \in [Days -> Counts], NEW c, NEW d \in Days
  PROVE  AddToday(days, c)[d] = IF d = dayOf(now) THEN Plus(days[d], c) ELSE days[d]
  BY DEF AddToday

LEMMA ReadingType == \A s, up : Reading(s, up) \in Counts
  BY DEF Reading, Counts

LEMMA SaysType ==
  ASSUME NEW listed \in SUBSET Sids, NEW up \in SUBSET listed, NEW n \in Names
  PROVE  Says(listed, up)[n] \in Counts
  <1> DEFINE A == up \cap Named(n)
             B == (listed \ up) \cap Named(n)
             C == {s \in (listed \ up) \cap Named(n) : Confirmed(s)}
  <1>1. A \in SUBSET Sids /\ B \in SUBSET Sids /\ C \in SUBSET Sids
    OBVIOUS
  <1>2. Cardinality(A) \in Nat /\ Cardinality(B) \in Nat /\ Cardinality(C) \in Nat
    BY <1>1, FS_Subset, FS_CardinalityType, HistoryAssumption
  <1> QED
    BY <1>2 DEF Says, Counts

LEMMA PolledType ==
  ASSUME TypeOK, NEW listed, NEW up
  PROVE  Polled(listed, up) \in Tables
  <1>1. \A s \in Sids : daily[s] \in [Days -> Counts]
    BY TableType DEF Tables
  <1>2. \A s \in Sids :
          Retained(IF s \in listed THEN AddToday(daily[s], Reading(s, up)) ELSE daily[s])
            \in [Days -> Counts]
    BY <1>1, DaysType DEF TypeOK
  <1> QED
    BY <1>2 DEF Polled, Tables

(* The readings of one answer, server by server, make what it says.        *)
LEMMA SaysIsCount ==
  ASSUME NEW listed \in SUBSET Sids, NEW up \in SUBSET listed, NEW n \in Names, NEW d \in Days,
         NEW r \in Tables,
         \A s \in Named(n) : r[s][d] = IF s \in listed THEN Reading(s, up) ELSE NoCount
  PROVE  CountOf(r, n, d) = Says(listed, up)[n]
  <1> DEFINE B == listed \ up
             C == {s \in (listed \ up) \cap Named(n) : Confirmed(s)}
  <1>1. ASSUME NEW s \in Named(n)
        PROVE  /\ Ups(r, n, d)[s] = IF s \in up THEN 1 ELSE 0
               /\ Downs(r, n, d)[s] = IF s \in B THEN 1 ELSE 0
               /\ Confs(r, n, d)[s] = IF s \in C THEN 1 ELSE 0
    <2>0. /\ Ups(r, n, d)[s] = r[s][d].up /\ Downs(r, n, d)[s] = r[s][d].down
          /\ Confs(r, n, d)[s] = r[s][d].conf
      BY Columns
    <2>1. CASE s \in listed
      <3>1. r[s][d] = Reading(s, up)
        BY <2>1
      <3> QED
        BY <2>0, <2>1, <3>1 DEF Reading
    <2>2. CASE s \notin listed
      <3>1. r[s][d] = NoCount
        BY <2>2
      <3> QED
        BY <2>0, <2>2, <3>1 DEF NoCount
    <2> QED
      BY <2>1, <2>2
  <1>2. Named(n) \cap up = up \cap Named(n) /\ Named(n) \cap B = (listed \ up) \cap Named(n)
        /\ Named(n) \cap C = C
    OBVIOUS
  <1> HIDE DEF B, C
  <1>3. SumFunctionOnSet(Ups(r, n, d), Named(n)) = Cardinality(Named(n) \cap up)
    BY <1>1, NamedFinite, SumOfMarks
  <1>4. SumFunctionOnSet(Downs(r, n, d), Named(n)) = Cardinality(Named(n) \cap B)
    BY <1>1, NamedFinite, SumOfMarks
  <1>5. SumFunctionOnSet(Confs(r, n, d), Named(n)) = Cardinality(Named(n) \cap C)
    BY <1>1, NamedFinite, SumOfMarks
  <1>6. Says(listed, up)[n] = [up |-> Cardinality(Named(n) \cap up), down |-> Cardinality(Named(n) \cap B),
                               conf |-> Cardinality(Named(n) \cap C)]
    BY <1>2 DEF Says, B, C
  <1> QED
    BY <1>3, <1>4, <1>5, <1>6, CountColumns

LEMMA PolledCount ==
  ASSUME TypeOK, NEW listed \in SUBSET Sids, NEW up \in SUBSET listed, NEW n \in Names, NEW d \in Days
  PROVE  CountOf(Polled(listed, up), n, d) = Later(CountOf(daily, n, d), Says(listed, up)[n], d)
  <1> DEFINE u == Polled(listed, up)
             r == [s \in Sids |-> [e \in Days |-> IF s \in listed THEN Reading(s, up) ELSE NoCount]]
  <1>0. daily \in Tables /\ u \in Tables /\ r \in Tables
    BY TableType, PolledType, ReadingType, NoCountType DEF Tables
  <1>1. ASSUME NEW s \in Named(n)
        PROVE  u[s][d] = IF d + KeepDays < dayOf(now) THEN NoCount
                         ELSE IF s \in listed THEN AddToday(daily[s], Reading(s, up))[d]
                         ELSE daily[s][d]
    BY <1>1, RetainedDay, NamedRows DEF Polled
  <1>2. \A s \in Named(n) : r[s][d] = IF s \in listed THEN Reading(s, up) ELSE NoCount
    BY NamedRows
  <1>3. \A s \in Named(n) : daily[s] \in [Days -> Counts]
    BY <1>0, NamedRows DEF Tables
  <1> HIDE DEF u, r
  <1>4. CASE d + KeepDays < dayOf(now)
    <2>1. \A s \in Named(n) : u[s][d] = NoCount
      BY <1>1, <1>4
    <2>2. CountOf(u, n, d) = NoCount
      BY <1>0, <2>1, CountOfNone
    <2> QED
      BY <1>4, <2>2 DEF Later, u
  <1>5. CASE ~(d + KeepDays < dayOf(now)) /\ d # dayOf(now)
    <2>1. \A s \in Named(n) : u[s][d] = daily[s][d]
      BY <1>1, <1>3, <1>5, AddedDay
    <2>2. CountOf(u, n, d) = CountOf(daily, n, d)
      BY <1>0, <2>1, CountAgrees
    <2> QED
      BY <1>5, <2>2 DEF Later, u
  <1>6. CASE ~(d + KeepDays < dayOf(now)) /\ d = dayOf(now)
    <2>1. ASSUME NEW s \in Named(n)
          PROVE  u[s][d] = Plus(daily[s][d], r[s][d])
      <3>1. \A c \in Counts : Plus(c, NoCount) = c
        BY DEF Counts, Plus, NoCount
      <3>2. CASE s \in listed
        BY <1>1, <1>2, <1>3, <1>6, <3>2, AddedDay
      <3>3. CASE s \notin listed
        BY <1>1, <1>2, <1>3, <1>6, <3>1, <3>3
      <3> QED
        BY <3>2, <3>3
    <2>2. CountOf(u, n, d) = Plus(CountOf(daily, n, d), CountOf(r, n, d))
      BY <1>0, <2>1, CountSum
    <2>3. CountOf(r, n, d) = Says(listed, up)[n]
      BY <1>0, <1>2, SaysIsCount
    <2> QED
      BY <1>6, <2>2, <2>3 DEF Later, u
  <1> QED
    BY <1>4, <1>5, <1>6

LEMMA LaterLaws ==
  ASSUME NEW a \in Counts, NEW b \in Counts, NEW c \in Counts, NEW d \in Days, AtMost(a, b)
  PROVE  Later(a, c, d) \in Counts /\ AtMost(Later(a, c, d), Later(b, c, d))
  <1>1. Plus(a, c) \in Counts /\ NoCount \in Counts
    BY SumType, NoCountType
  <1> QED
    BY <1>1, AtMostLaws DEF Later

(* What the book makes of an answer.                                       *)
LEMMA BookCounts ==
  ASSUME NEW listed, NEW up, Answer(listed, up), NEW n \in Names
  PROVE  /\ n \in Book!Forgotten(NamesIn(listed), now) \ partly => book'[n] = NoDays
         /\ n \notin Book!Forgotten(NamesIn(listed), now) \ partly =>
              \A d \in Days : book'[n][d] = Later(book[n][d], Says(listed, up)[n], d)
         /\ seen'[n] = IF n \in NamesIn(listed) THEN now ELSE seen[n]
         /\ partly' = partly
  BY DEF Answer, Book!Count, Book!NoDays, Book!NoCount, Book!Plus, NoDays, NoCount, Plus, Later

LEMMA AnswerBookType ==
  ASSUME BookType, TypeOK', NEW listed \in SUBSET Sids, NEW up \in SUBSET listed, Answer(listed, up)
  PROVE  BookType'
  <1>1. /\ book' = [n \in Names |->
                IF n \in Book!Forgotten(NamesIn(listed), now) \ partly THEN NoDays
                ELSE [d \in Days |-> Later(book[n][d], Says(listed, up)[n], d)]]
        /\ seen' = [n \in Names |-> IF n \in NamesIn(listed) THEN now ELSE seen[n]]
        /\ partly' = partly
    BY DEF Answer, Book!Count, Book!NoDays, Book!NoCount, Book!Plus, NoDays, NoCount, Plus, Later
  <1>2. ASSUME NEW n \in Names, NEW d \in Days
        PROVE  Later(book[n][d], Says(listed, up)[n], d) \in Counts
    <2>1. book[n][d] \in Counts
      BY DEF BookType
    <2> QED
      BY <2>1, SaysType, LaterLaws, AtMostLaws
  <1>3. book' \in [Names -> [Days -> Counts]]
    BY <1>1, <1>2, NoDaysType
  <1>4. seen' \in [Names -> Nat]
    BY <1>1, DayNumbers DEF BookType
  <1> QED
    BY <1>1, <1>3, <1>4 DEF BookType

(* Of a name, all rows are cleaned or none.                                *)
LEMMA GhostsByName ==
  ASSUME NEW listed \in SUBSET Sids, NEW n, NEW s \in Ghosts(listed), s \in Named(n)
  PROVE  /\ n \notin NamesIn(listed) /\ listed # {} /\ StaleAfter # 0
         /\ s \in Rows /\ \A t \in Rows \cap Named(n) : t \in Ghosts(listed) /\ ts[t] + StaleAfter < now
  <1>1. /\ listed # {} /\ StaleAfter # 0 /\ s \in Rows
        /\ \A t \in Rows \cup listed : NameOf[t] = NameOf[s] => t \notin listed /\ ts[t] + StaleAfter < now
    BY DEF Ghosts
  <1>2. NameOf[s] = n
    BY NamedRows
  <1>3. n \notin NamesIn(listed)
    BY <1>1, <1>2 DEF NamesIn
  <1>4. \A t \in Rows \cap Named(n) : NameOf[t] = NameOf[s]
    BY <1>2, NamedRows
  <1> QED
    BY <1>1, <1>3, <1>4 DEF Ghosts

(* A name is let fall by the tables just when it is by the book.           *)
LEMMA GhostsForgotten ==
  ASSUME BookInv, NEW listed \in SUBSET Sids, NEW n \in Names, n \notin partly,
         Rows \cap Named(n) # {}
  PROVE  (\E s \in Named(n) : s \in Ghosts(listed)) <=> n \in Book!Forgotten(NamesIn(listed), now)
  <1>0. TypeOK /\ seen[n] \in Nat /\ StaleAfter \in Nat /\ now \in Nat
    BY DayNumbers DEF BookInv, BookType
  <1>1. PICK s \in Rows \cap Named(n) : ts[s] = seen[n]
    BY DEF BookInv, NewestSeen
  <1>2. \A t \in Rows \cap Named(n) : ts[t] <= seen[n] /\ ts[t] \in Nat
    BY <1>0, NamedRows DEF BookInv, NewestSeen, TypeOK, Times
  <1>3. ASSUME NEW g \in Named(n), g \in Ghosts(listed)
        PROVE  n \in Book!Forgotten(NamesIn(listed), now)
    <2>1. n \notin NamesIn(listed) /\ listed # {} /\ StaleAfter # 0 /\ ts[s] + StaleAfter < now
      BY <1>1, <1>3, GhostsByName
    <2>2. NamesIn(listed) # {} /\ StaleAfter > 0
      BY <1>0, <2>1 DEF NamesIn
    <2> QED
      BY <1>1, <2>1, <2>2 DEF Book!Forgotten
  <1>4. ASSUME n \in Book!Forgotten(NamesIn(listed), now)
        PROVE  s \in Ghosts(listed)
    <2>1. n \notin NamesIn(listed) /\ NamesIn(listed) # {} /\ StaleAfter > 0 /\ seen[n] + StaleAfter < now
      BY <1>4 DEF Book!Forgotten
    <2>2. listed # {} /\ StaleAfter # 0
      BY <1>0, <2>1 DEF NamesIn
    <2>3. ASSUME NEW t \in Rows \cup listed, NameOf[t] = NameOf[s]
          PROVE  t \notin listed /\ ts[t] + StaleAfter < now
      <3>1. NameOf[t] = n /\ t \in Sids
        BY <1>1, <2>3, NamedRows
      <3>2. t \notin listed
        BY <2>1, <3>1 DEF NamesIn
      <3>3. t \in Rows \cap Named(n)
        BY <2>3, <3>1, <3>2 DEF Named
      <3>4. ts[t] <= seen[n] /\ ts[t] \in Nat
        BY <1>2, <3>3
      <3> QED
        BY <1>0, <2>1, <3>2, <3>4
    <2> QED
      BY <1>1, <2>2, <2>3 DEF Ghosts
  <1> QED
    BY <1>1, <1>3, <1>4

LEMMA AnswerTables ==
  ASSUME NEW listed \in SUBSET Sids, NEW up \in SUBSET listed, PollWrite(listed, up), NEW s \in Sids
  PROVE  /\ s \in Ghosts(listed) => s \notin Rows' /\ daily'[s] = NoDays /\ samples'[s] = {}
         /\ s \notin Ghosts(listed) =>
              /\ daily'[s] = Polled(listed, up)[s]
              /\ samples'[s] = {t \in samples[s] \cup (IF s \in listed THEN {now} ELSE {}) :
                                  t + KeepSamples >= now}
              /\ s \in Rows' <=> s \in listed \/ s \in Rows
              /\ ts'[s] = IF s \in listed THEN now ELSE ts[s]
  BY DEF PollWrite, Without, Polled, Rows

LEMMA AnswerCounts ==
  ASSUME BookInv, TypeOK', NEW listed \in SUBSET Sids, NEW up \in SUBSET listed, Answer(listed, up)
  PROVE  HistoryIsKept'
  <1>0. /\ TypeOK /\ PollWrite(listed, up) /\ daily \in Tables /\ daily' \in Tables
        /\ Polled(listed, up) \in Tables
    BY TableType, TableTypeNext, PolledType DEF BookInv, BookType, Answer
  <1>1. partly' = partly
    BY DEF Answer, Book!Count
  <1> DEFINE says == Says(listed, up)
             table == Polled(listed, up)
  <1>2. SUFFICES ASSUME NEW n \in Names, NEW d \in Days
                 PROVE  IF n \in partly THEN AtMost(CountOf(daily', n, d), book'[n][d])
                        ELSE CountOf(daily', n, d) = book'[n][d]
    BY <1>1 DEF HistoryIsKept
  <1>3. CountOf(table, n, d) = Later(CountOf(daily, n, d), says[n], d)
    BY <1>0, PolledCount
  <1>4. says[n] \in Counts /\ book[n][d] \in Counts /\ CountOf(daily, n, d) \in Counts
    BY <1>0, SaysType, CountType DEF BookInv, BookType
  <1>5. ASSUME NEW s \in Named(n)
        PROVE  /\ s \in Sids
               /\ s \in Ghosts(listed) => daily'[s][d] = NoCount
               /\ s \notin Ghosts(listed) => daily'[s][d] = table[s][d]
    BY <1>0, AnswerTables, NamedRows DEF NoDays
  <1> HIDE DEF says, table
  <1>6. CASE n \in partly
    <2>1. \A s \in Named(n) : daily'[s][d] = table[s][d] \/ daily'[s][d] = NoCount
      BY <1>5
    <2>2. AtMost(CountOf(daily', n, d), CountOf(table, n, d))
      BY <1>0, <2>1, CountBelow DEF table
    <2>3. AtMost(CountOf(daily, n, d), book[n][d])
      BY <1>6 DEF BookInv, HistoryIsKept
    <2>4. book'[n][d] = Later(book[n][d], says[n], d)
      BY <1>6, BookCounts DEF says
    <2>5. AtMost(CountOf(table, n, d), book'[n][d])
      BY <1>3, <1>4, <2>3, <2>4, LaterLaws
    <2>6. /\ CountOf(daily', n, d) \in Counts /\ CountOf(table, n, d) \in Counts
          /\ book'[n][d] \in Counts
      BY <1>0, <1>4, <2>4, CountType, LaterLaws, AtMostLaws DEF table
    <2> QED
      BY <1>6, <2>2, <2>5, <2>6, AtMostLaws
  <1>7. CASE n \notin partly /\ \E s \in Named(n) : s \in Ghosts(listed)
    <2>1. n \notin NamesIn(listed) /\ Rows \cap Named(n) # {}
          /\ \A t \in Rows \cap Named(n) : t \in Ghosts(listed)
      BY <1>7, GhostsByName
    <2>2. n \in Book!Forgotten(NamesIn(listed), now)
      BY <1>7, <2>1, GhostsForgotten
    <2>3. book'[n][d] = NoCount
      BY <1>7, <2>2, BookCounts DEF NoDays
    <2>4. ASSUME NEW t \in Named(n)
          PROVE  daily'[t][d] = NoCount
      <3>1. CASE t \in Rows
        BY <1>5, <2>1, <3>1
      <3>2. CASE t \notin Rows
        <4>1. t \in Sids /\ NameOf[t] = n
          BY NamedRows
        <4>2. daily[t] = NoDays
          BY <1>7, <3>2, <4>1 DEF BookInv, NoOrphans, Rows
        <4>3. t \notin listed
          BY <2>1, <4>1 DEF NamesIn
        <4>4. table[t][d] = NoCount
          BY <1>0, <4>1, <4>2, <4>3, RetainedDay DEF table, Polled, NoDays
        <4> QED
          BY <1>5, <4>4
      <3> QED
        BY <3>1, <3>2
    <2>5. CountOf(daily', n, d) = NoCount
      BY <1>0, <2>4, CountOfNone
    <2> QED
      BY <1>7, <2>3, <2>5
  <1>8. CASE n \notin partly /\ \A s \in Named(n) : s \notin Ghosts(listed)
    <2>1. \A s \in Named(n) : daily'[s][d] = table[s][d]
      BY <1>5, <1>8
    <2>2. CountOf(daily', n, d) = CountOf(table, n, d)
      BY <1>0, <2>1, CountAgrees DEF table
    <2>3. CountOf(daily, n, d) = book[n][d]
      BY <1>8 DEF BookInv, HistoryIsKept
    <2>4. CASE n \notin Book!Forgotten(NamesIn(listed), now)
      <3>1. book'[n][d] = Later(book[n][d], says[n], d)
        BY <2>4, BookCounts DEF says
      <3> QED
        BY <1>3, <1>8, <2>2, <2>3, <3>1
    <2>5. CASE n \in Book!Forgotten(NamesIn(listed), now)
      <3>1. book'[n][d] = NoCount
        BY <1>8, <2>5, BookCounts DEF NoDays
      <3>2. Rows \cap Named(n) = {}
        BY <1>8, <2>5, GhostsForgotten
      <3>3. n \notin NamesIn(listed)
        BY <2>5 DEF Book!Forgotten
      <3>4. ASSUME NEW t \in Named(n)
            PROVE  daily'[t][d] = NoCount
        <4>1. t \in Sids /\ NameOf[t] = n /\ t \notin Rows
          BY <3>2, NamedRows
        <4>2. daily[t] = NoDays
          BY <1>8, <4>1 DEF BookInv, NoOrphans, Rows
        <4>3. t \notin listed
          BY <3>3, <4>1 DEF NamesIn
        <4>4. table[t][d] = NoCount
          BY <1>0, <4>1, <4>2, <4>3, RetainedDay DEF table, Polled, NoDays
        <4> QED
          BY <2>1, <4>4
      <3>5. CountOf(daily', n, d) = NoCount
        BY <1>0, <3>4, CountOfNone
      <3> QED
        BY <1>8, <3>1, <3>5
    <2> QED
      BY <2>4, <2>5
  <1> QED
    BY <1>6, <1>7, <1>8

LEMMA AnswerSeen ==
  ASSUME BookInv, TypeOK', NEW listed \in SUBSET Sids, NEW up \in SUBSET listed, Answer(listed, up)
  PROVE  NewestSeen'
  <1>0. /\ TypeOK /\ PollWrite(listed, up) /\ partly' = partly /\ now' = now /\ now \in Nat
    BY DayNumbers DEF BookInv, BookType, Answer, Book!Count, PollWrite
  <1>1. SUFFICES ASSUME NEW n \in Names
                 PROVE  /\ seen'[n] <= now
                        /\ (n \notin partly /\ Rows' \cap Named(n) # {}) =>
                             /\ \A s \in Rows' \cap Named(n) : ts'[s] <= seen'[n]
                             /\ \E s \in Rows' \cap Named(n) : ts'[s] = seen'[n]
    BY <1>0 DEF NewestSeen
  <1>2. seen'[n] = (IF n \in NamesIn(listed) THEN now ELSE seen[n]) /\ seen[n] <= now /\ seen[n] \in Nat
    BY BookCounts DEF BookInv, BookType, NewestSeen
  <1>3. SUFFICES ASSUME n \notin partly, Rows' \cap Named(n) # {}
                 PROVE  /\ \A s \in Rows' \cap Named(n) : ts'[s] <= seen'[n]
                        /\ \E s \in Rows' \cap Named(n) : ts'[s] = seen'[n]
    BY <1>0, <1>2
  <1>4. \A s \in Named(n) : s \in Sids /\ NameOf[s] = n
    BY NamedRows
  <1>5. PICK k \in Rows' \cap Named(n) : TRUE
    BY <1>3
  <1>6. k \notin Ghosts(listed)
    BY <1>0, <1>4, <1>5, AnswerTables
  <1>7. \A s \in Named(n) : s \notin Ghosts(listed)
    <2> SUFFICES ASSUME NEW s \in Named(n), s \in Ghosts(listed)
                 PROVE  FALSE
      OBVIOUS
    <2>1. n \notin NamesIn(listed) /\ \A t \in Rows \cap Named(n) : t \in Ghosts(listed)
      BY GhostsByName
    <2>2. k \in listed \/ k \in Rows
      BY <1>0, <1>4, <1>5, <1>6, AnswerTables
    <2> QED
      BY <1>4, <1>5, <1>6, <2>1, <2>2 DEF NamesIn
  <1>8. \A s \in Named(n) : /\ s \in Rows' <=> s \in listed \/ s \in Rows
                            /\ ts'[s] = IF s \in listed THEN now ELSE ts[s]
    BY <1>0, <1>4, <1>7, AnswerTables
  <1>9. \A s \in Rows \cap Named(n) : ts[s] <= seen[n] /\ ts[s] \in Nat
    <2>1. \A s \in Rows \cap Named(n) : ts[s] <= seen[n]
      BY <1>3 DEF BookInv, NewestSeen
    <2>2. \A s \in Sids : ts[s] \in Nat
      BY <1>0, HistoryAssumption DEF TypeOK, Times
    <2> QED
      BY <1>4, <2>1, <2>2
  <1>10. CASE n \in NamesIn(listed)
    <2>1. PICK s \in listed : n = NameOf[s]
      BY <1>10 DEF NamesIn
    <2>2. s \in Named(n)
      BY <2>1 DEF Named
    <2>3. \A t \in Rows' \cap Named(n) : ts'[t] <= now
      BY <1>0, <1>2, <1>8, <1>9
    <2> QED
      BY <1>2, <1>8, <1>10, <2>1, <2>2, <2>3
  <1>11. CASE n \notin NamesIn(listed)
    <2>1. \A s \in Named(n) : s \notin listed
      BY <1>4, <1>11 DEF NamesIn
    <2>2. Rows' \cap Named(n) = Rows \cap Named(n) /\ \A s \in Named(n) : ts'[s] = ts[s]
      BY <1>8, <2>1
    <2>3. \E s \in Rows \cap Named(n) : ts[s] = seen[n]
      BY <1>3, <2>2 DEF BookInv, NewestSeen
    <2> QED
      BY <1>2, <1>9, <1>11, <2>2, <2>3
  <1> QED
    BY <1>10, <1>11

LEMMA AnswerOrphans ==
  ASSUME BookInv, TypeOK', NEW listed \in SUBSET Sids, NEW up \in SUBSET listed, Answer(listed, up)
  PROVE  NoOrphans'
  <1>0. /\ TypeOK /\ PollWrite(listed, up) /\ partly' = partly
    BY DEF BookInv, BookType, Answer, Book!Count
  <1>1. SUFFICES ASSUME NEW s \in Sids, s \notin Rows', NameOf[s] \notin partly
                 PROVE  daily'[s] = NoDays /\ samples'[s] = {}
    BY <1>0 DEF NoOrphans, Rows
  <1>2. CASE s \in Ghosts(listed)
    BY <1>0, <1>2, AnswerTables
  <1>3. CASE s \notin Ghosts(listed)
    <2>1. s \notin listed /\ s \notin Rows
      BY <1>0, <1>1, <1>3, AnswerTables
    <2>2. daily[s] = NoDays /\ samples[s] = {}
      BY <1>1, <2>1 DEF BookInv, NoOrphans, Rows
    <2>3. Retained(NoDays) = NoDays
      BY DEF Retained, NoDays
    <2>4. daily'[s] = Retained(daily[s])
      BY <1>0, <1>3, <2>1, AnswerTables DEF Polled
    <2>5. samples'[s] = {t \in samples[s] \cup {} : t + KeepSamples >= now}
      BY <1>0, <1>3, <2>1, AnswerTables
    <2> QED
      BY <2>2, <2>3, <2>4, <2>5
  <1> QED
    BY <1>2, <1>3

-----------------------------------------------------------------------------
(* A merge.                                                                *)

LEMMA MergeCounts ==
  ASSUME BookInv, TypeOK', NEW from \in Sids, NEW to \in Sids, MergeSid(from, to), UNCHANGED bookVars
  PROVE  HistoryIsKept'
  <1>0. daily \in Tables /\ daily' \in Tables
    BY TableType, TableTypeNext DEF BookInv, BookType
  <1>1. from # to /\ NameOf[from] = NameOf[to]
    BY DEF MergeSid, BookInv, MergesMatch
  <1>2. /\ daily'[to] = [d \in Days |-> Plus(daily[to][d], daily[from][d])]
        /\ daily'[from] = NoDays
        /\ \A s \in Sids \ {from, to} : daily'[s] = daily[s]
    BY <1>0, <1>1 DEF MergeSid, Tables
  <1>3. ASSUME NEW n \in Names, NEW d \in Days
        PROVE  CountOf(daily', n, d) = CountOf(daily, n, d)
    <2>1. CASE n = NameOf[from]
      <3>1. from \in Named(n) /\ to \in Named(n) /\ Named(n) \subseteq Sids
        BY <1>1, <2>1 DEF Named
      <3>2. daily'[to][d] = Plus(daily[to][d], daily[from][d]) /\ daily'[from][d] = NoCount
        BY <1>2 DEF NoDays
      <3>3. \A s \in Named(n) \ {from, to} : daily'[s][d] = daily[s][d]
        BY <1>2, <3>1
      <3> QED
        BY <1>0, <1>1, <3>1, <3>2, <3>3, CountMoved
    <2>2. CASE n # NameOf[from]
      <3>1. \A s \in Named(n) : daily[s][d] = daily'[s][d]
        BY <1>1, <1>2, <2>2 DEF Named
      <3> QED
        BY <1>0, <3>1, CountAgrees
    <2> QED
      BY <2>1, <2>2
  <1> QED
    BY <1>3 DEF BookInv, HistoryIsKept, bookVars

LEMMA MergeStep ==
  ASSUME BookInv, TypeOK', NEW from \in Sids, NEW to \in Sids, MergeSid(from, to), UNCHANGED bookVars
  PROVE  BookInv'
  <1>0. TypeOK /\ UNCHANGED <<book, seen, partly>>
    BY DEF BookInv, BookType, bookVars
  <1>1. /\ <<from, to>> \in merges /\ merges' = merges \ {<<from, to>>} /\ at = "merging"
        /\ UNCHANGED <<at, now>>
        /\ online' = [online EXCEPT ![from] = "none"] /\ ts' = [ts EXCEPT ![from] = 0]
    BY DEF MergeSid
  <1>2. /\ from # to /\ NameOf[from] = NameOf[to]
        /\ (NameOf[from] \notin partly /\ from \in Rows) => to \in Rows /\ ts[from] <= ts[to]
        /\ \A o \in merges : NameOf[o[1]] = NameOf[from] => o[2] = to
    BY <1>1 DEF BookInv, MergesMatch
  <1>3. Rows' = Rows \ {from} /\ \A s \in Sids : s # from => ts'[s] = ts[s]
    BY <1>0, <1>1 DEF Rows, TypeOK
  <1>4. BookType'
    BY <1>0 DEF BookInv, BookType
  <1>5. MergesMatch'
    <2>1. \A m \in merges' : m \in merges /\ m[2] # from
      BY <1>1, <1>2 DEF BookInv, MergesMatch
    <2>2. ASSUME NEW m \in merges', NameOf[m[1]] \notin partly', m[1] \in Rows'
          PROVE  m[2] \in Rows' /\ ts'[m[1]] <= ts'[m[2]]
      <3>1. m[1] \in Rows /\ m[1] # from /\ m[1] \in Sids /\ m[2] \in Sids
        BY <1>3, <2>1, <2>2 DEF BookInv, MergesMatch
      <3>2. m[2] \in Rows /\ ts[m[1]] <= ts[m[2]]
        BY <1>0, <2>1, <2>2, <3>1 DEF BookInv, MergesMatch
      <3> QED
        BY <1>3, <2>1, <3>1, <3>2
    <2> QED
      BY <2>1, <2>2 DEF BookInv, MergesMatch
  <1>6. MergesInTime'
    BY <1>1 DEF MergesInTime
  <1>7. NewestSeen'
    <2>1. SUFFICES ASSUME NEW n \in Names, n \notin partly, Rows' \cap Named(n) # {}
                   PROVE  /\ \A s \in Rows' \cap Named(n) : ts'[s] <= seen[n]
                          /\ \E s \in Rows' \cap Named(n) : ts'[s] = seen[n]
      BY <1>0, <1>1 DEF BookInv, NewestSeen
    <2>2. PICK s \in Rows \cap Named(n) : ts[s] = seen[n]
      BY <1>3, <2>1 DEF BookInv, NewestSeen
    <2>3. \A t \in Rows \cap Named(n) : ts[t] <= seen[n] /\ ts[t] \in Nat /\ t \in Sids
      <3>1. \A t \in Rows \cap Named(n) : ts[t] <= seen[n]
        BY <2>1, <2>2 DEF BookInv, NewestSeen
      <3>2. \A t \in Sids : ts[t] \in Nat
        BY <1>0, HistoryAssumption DEF TypeOK, Times
      <3> QED
        BY <3>1, <3>2, NamedRows
    <2>4. CASE s # from
      BY <1>3, <2>2, <2>3, <2>4
    <2>5. CASE s = from
      <3>1. NameOf[from] = n /\ to \in Named(n)
        BY <1>2, <2>2, <2>5 DEF Named
      <3>2. to \in Rows \cap Named(n) /\ ts[from] <= ts[to]
        BY <1>2, <2>1, <2>2, <2>5, <3>1
      <3>3. ts[to] = seen[n]
        BY <1>0, <2>2, <2>3, <2>5, <3>2 DEF BookInv, BookType
      <3> QED
        BY <1>2, <1>3, <2>3, <3>2, <3>3
    <2> QED
      BY <2>4, <2>5
  <1>8. NoOrphans'
    <2>1. SUFFICES ASSUME NEW s \in Sids, s \notin Rows', NameOf[s] \notin partly
                   PROVE  daily'[s] = NoDays /\ samples'[s] = {}
      BY <1>0 DEF NoOrphans, Rows
    <2>2. CASE s = from
      BY <1>0, <1>2, <2>2 DEF MergeSid, TypeOK
    <2>3. CASE s = to
      <3>1. to \notin Rows /\ from \notin Rows
        BY <1>2, <1>3, <2>1, <2>3
      <3>2. daily[to] = NoDays /\ daily[from] = NoDays /\ samples[to] = {} /\ samples[from] = {}
        BY <1>2, <2>1, <2>3, <3>1 DEF BookInv, NoOrphans, Rows
      <3>3. daily'[to] = [d \in Days |-> Plus(daily[to][d], daily[from][d])]
        BY <1>0, <1>2 DEF MergeSid, TypeOK
      <3>4. samples'[to] = samples[to] \cup samples[from]
        BY <1>0, <1>2 DEF MergeSid, TypeOK
      <3>5. [d \in Days |-> Plus(NoDays[d], NoDays[d])] = NoDays
        BY DEF NoDays, Plus, NoCount
      <3> QED
        BY <2>3, <3>2, <3>3, <3>4, <3>5
    <2>4. CASE s # from /\ s # to
      BY <1>0, <1>3, <2>1, <2>4 DEF MergeSid, TypeOK, BookInv, NoOrphans, Rows
    <2> QED
      BY <2>2, <2>3, <2>4
  <1>9. HistoryIsKept'
    BY MergeCounts
  <1> QED
    BY <1>4, <1>5, <1>6, <1>7, <1>8, <1>9 DEF BookInv

-----------------------------------------------------------------------------
(* A deletion.                                                             *)

LEMMA DeletionTables ==
  ASSUME NEW s \in Sids, NEW failed \in Failing, DeleteServer(s, failed), NEW t \in Sids
  PROVE  /\ t \in Rows' <=> t \in Rows /\ ~(t \in Doomed(s) /\ <<"current", t>> \notin failed)
         /\ t \in Rows' => ts'[t] = ts[t]
         /\ daily'[t] = IF t \in Doomed(s) /\ <<"daily", t>> \notin failed THEN NoDays ELSE daily[t]
         /\ samples'[t] = IF t \in Doomed(s) /\ <<"samples", t>> \notin failed THEN {} ELSE samples[t]
  BY DEF DeleteServer, Without, Taken, Rows

(* A name is taken as a whole, in part, or not at all.                     *)
LEMMA DeletionNames ==
  ASSUME BookInv, NEW s \in Sids, NEW failed \in Failing, DeleteServer(s, failed), NEW n \in Names
  PROVE  /\ n \in Whole(s, failed) /\ n \notin partly => \A t \in Named(n) :
              t \notin Rows' /\ daily'[t] = NoDays /\ samples'[t] = {}
         /\ n \notin NamesIn(Doomed(s)) => \A t \in Named(n) :
              /\ t \in Rows' <=> t \in Rows
              /\ daily'[t] = daily[t] /\ samples'[t] = samples[t]
         /\ \A t \in Named(n) : t \in Rows' => t \in Rows /\ ts'[t] = ts[t]
  <1>1. ASSUME n \in Whole(s, failed), n \notin partly, NEW t \in Named(n)
        PROVE  t \notin Rows' /\ daily'[t] = NoDays /\ samples'[t] = {}
    <2>1. t \in Sids /\ NameOf[t] = n
      BY NamedRows
    <2>2. CASE t \in Rows
      <3>1. t \in Doomed(s) /\ \A table \in {"current", "daily", "samples"} : <<table, t>> \notin failed
        BY <1>1, <2>2 DEF Whole
      <3> QED
        BY <2>1, <3>1, DeletionTables
    <2>3. CASE t \notin Rows
      <3>1. daily[t] = NoDays /\ samples[t] = {}
        BY <1>1, <2>1, <2>3 DEF BookInv, NoOrphans, Rows
      <3> QED
        BY <2>1, <2>3, <3>1, DeletionTables
    <2> QED
      BY <2>2, <2>3
  <1>2. ASSUME n \notin NamesIn(Doomed(s)), NEW t \in Named(n)
        PROVE  (t \in Rows' <=> t \in Rows) /\ daily'[t] = daily[t] /\ samples'[t] = samples[t]
    <2>1. t \in Sids /\ NameOf[t] = n
      BY NamedRows
    <2>2. t \notin Doomed(s)
      BY <1>2, <2>1 DEF NamesIn
    <2> QED
      BY <2>1, <2>2, DeletionTables
  <1>3. \A t \in Named(n) : t \in Rows' => t \in Rows /\ ts'[t] = ts[t]
    BY NamedRows, DeletionTables
  <1> QED
    BY <1>1, <1>2, <1>3

LEMMA DeletionBook ==
  ASSUME BookType, NEW s \in Sids, NEW failed \in Failing, Deletion(s, failed)
  PROVE  /\ partly' = partly \cup (NamesIn(Doomed(s)) \ Whole(s, failed))
         /\ seen' = seen
         /\ book' = [n \in Names |-> IF n \in Whole(s, failed) \ partly THEN NoDays ELSE book[n]]
  BY DEF Deletion, Book!Forget, Book!NoDays, Book!NoCount, NoDays, NoCount

LEMMA DeletionStep ==
  ASSUME BookInv, TypeOK', NEW s \in Sids, NEW failed \in Failing, Deletion(s, failed)
  PROVE  BookInv'
  <1>0. /\ TypeOK /\ DeleteServer(s, failed) /\ UNCHANGED <<merges, at, now>>
        /\ daily \in Tables /\ daily' \in Tables
    BY TableType, TableTypeNext DEF BookInv, BookType, Deletion, DeleteServer
  <1> DEFINE part == NamesIn(Doomed(s)) \ Whole(s, failed)
  <1>1. /\ partly' = partly \cup part /\ seen' = seen
        /\ book' = [n \in Names |-> IF n \in Whole(s, failed) \ partly THEN NoDays ELSE book[n]]
        /\ part \subseteq Names
    <2>1. Doomed(s) \subseteq Sids
      BY NamedRows DEF Doomed
    <2>2. part \subseteq Names
      BY <2>1 DEF NamesIn, Names
    <2> QED
      BY <2>2, DeletionBook DEF BookInv
  <1>2. BookType'
    BY <1>1, NoDaysType DEF BookInv, BookType
  <1>3. ASSUME NEW n \in Names, n \notin partly'
        PROVE  /\ n \notin partly
               /\ \/ \A t \in Named(n) : t \notin Rows' /\ daily'[t] = NoDays /\ samples'[t] = {}
                  \/ /\ n \notin Whole(s, failed)
                     /\ \A t \in Named(n) : /\ t \in Rows' <=> t \in Rows
                                            /\ daily'[t] = daily[t] /\ samples'[t] = samples[t]
    <2>1. n \notin partly /\ (n \in Whole(s, failed) \/ n \notin NamesIn(Doomed(s)))
      BY <1>1, <1>3
    <2>2. Whole(s, failed) \subseteq NamesIn(Doomed(s))
      BY DEF Whole
    <2>3. CASE n \in Whole(s, failed)
      <3>1. \A t \in Named(n) : t \notin Rows' /\ daily'[t] = NoDays /\ samples'[t] = {}
        BY <1>0, <2>1, <2>3, DeletionNames
      <3> QED
        BY <2>1, <3>1
    <2>4. CASE n \notin Whole(s, failed)
      <3>1. \A t \in Named(n) : /\ t \in Rows' <=> t \in Rows
                                /\ daily'[t] = daily[t] /\ samples'[t] = samples[t]
        BY <1>0, <2>1, <2>4, DeletionNames
      <3> QED
        BY <2>1, <2>4, <3>1
    <2> QED
      BY <2>3, <2>4
  <1> HIDE DEF part
  <1>4. NoOrphans'
    <2>1. SUFFICES ASSUME NEW t \in Sids, t \notin Rows', NameOf[t] \notin partly'
                   PROVE  daily'[t] = NoDays /\ samples'[t] = {}
      BY DEF NoOrphans, Rows
    <2>2. NameOf[t] \in Names /\ t \in Named(NameOf[t])
      BY NameOfServer
    <2>3. CASE t \in Rows
      BY <1>3, <2>1, <2>2, <2>3
    <2>4. CASE t \notin Rows
      <3>1. daily[t] = NoDays /\ samples[t] = {}
        BY <1>3, <2>1, <2>2, <2>4 DEF BookInv, NoOrphans, Rows
      <3> QED
        BY <1>3, <2>1, <2>2, <3>1
    <2> QED
      BY <2>3, <2>4
  <1>5. MergesMatch'
    <2>1. ASSUME NEW m \in merges, NameOf[m[1]] \notin partly', m[1] \in Rows'
          PROVE  m[2] \in Rows' /\ ts'[m[1]] <= ts'[m[2]]
      <3>1. m[1] \in Sids /\ m[2] \in Sids /\ NameOf[m[1]] = NameOf[m[2]]
        BY DEF BookInv, MergesMatch
      <3> DEFINE n == NameOf[m[1]]
      <3>2. n \in Names /\ m[1] \in Named(n) /\ m[2] \in Named(n)
        BY <3>1 DEF Names, Named
      <3>3. /\ n \notin partly
            /\ \A t \in Named(n) : t \in Rows' <=> t \in Rows
        BY <1>3, <2>1, <3>2
      <3>4. m[2] \in Rows /\ ts[m[1]] <= ts[m[2]]
        BY <2>1, <3>2, <3>3 DEF BookInv, MergesMatch
      <3>5. m[2] \in Rows'
        BY <3>2, <3>3, <3>4
      <3>6. ts'[m[1]] = ts[m[1]] /\ ts'[m[2]] = ts[m[2]]
        BY <1>0, <2>1, <3>1, <3>5, DeletionTables
      <3> QED
        BY <3>4, <3>5, <3>6
    <2> QED
      BY <1>0, <2>1 DEF BookInv, MergesMatch
  <1>6. MergesInTime'
    BY <1>0 DEF BookInv, MergesInTime
  <1>7. NewestSeen'
    <2>1. SUFFICES ASSUME NEW n \in Names, n \notin partly', Rows' \cap Named(n) # {}
                   PROVE  /\ \A t \in Rows' \cap Named(n) : ts'[t] <= seen[n]
                          /\ \E t \in Rows' \cap Named(n) : ts'[t] = seen[n]
      BY <1>0, <1>1 DEF BookInv, NewestSeen
    <2>2. n \notin partly /\ Rows' \cap Named(n) = Rows \cap Named(n)
      BY <1>3, <2>1
    <2>3. \A t \in Rows' \cap Named(n) : ts'[t] = ts[t]
      BY <1>0, NamedRows, DeletionTables
    <2>4. /\ \A t \in Rows \cap Named(n) : ts[t] <= seen[n]
          /\ \E t \in Rows \cap Named(n) : ts[t] = seen[n]
      BY <2>1, <2>2 DEF BookInv, NewestSeen
    <2> QED
      BY <2>2, <2>3, <2>4
  <1>8. HistoryIsKept'
    <2>1. SUFFICES ASSUME NEW n \in Names, NEW d \in Days
                   PROVE  IF n \in partly' THEN AtMost(CountOf(daily', n, d), book'[n][d])
                          ELSE CountOf(daily', n, d) = book'[n][d]
      BY DEF HistoryIsKept
    <2>2. /\ CountOf(daily, n, d) \in Counts /\ CountOf(daily', n, d) \in Counts
          /\ book[n][d] \in Counts
      BY <1>0, CountType DEF BookInv, BookType
    <2>3. CASE n \in partly'
      <3>1. \A t \in Named(n) : daily'[t][d] = daily[t][d] \/ daily'[t][d] = NoCount
        <4>1. \A t \in Named(n) : daily'[t] = daily[t] \/ daily'[t] = NoDays
          BY <1>0, DeletionTables, NamedRows
        <4>2. NoDays[d] = NoCount
          BY DEF NoDays
        <4> QED
          BY <4>1, <4>2
      <3>2. AtMost(CountOf(daily', n, d), CountOf(daily, n, d))
        BY <1>0, <3>1, CountBelow
      <3>3. AtMost(CountOf(daily, n, d), book[n][d])
        BY <2>2, AtMostLaws DEF BookInv, HistoryIsKept
      <3>4. book'[n][d] = book[n][d]
        <4>1. ~(n \in Whole(s, failed) \ partly)
          BY <1>1, <2>3 DEF part
        <4> QED
          BY <1>1, <4>1
      <3> QED
        BY <2>2, <2>3, <3>2, <3>3, <3>4, AtMostLaws
    <2>4. CASE n \notin partly'
      <3>1. n \notin partly /\ CountOf(daily, n, d) = book[n][d]
        BY <1>3, <2>4 DEF BookInv, HistoryIsKept
      <3>2. CASE n \in Whole(s, failed)
        <4>1. book'[n][d] = NoCount
          BY <1>1, <3>1, <3>2 DEF NoDays
        <4>2. \A t \in Named(n) : daily'[t][d] = NoCount
          BY <1>0, <3>1, <3>2, DeletionNames DEF NoDays
        <4> QED
          BY <1>0, <2>4, <4>1, <4>2, CountOfNone
      <3>3. CASE n \notin Whole(s, failed)
        <4>1. book'[n][d] = book[n][d]
          BY <1>1, <3>3
        <4>2. n \notin NamesIn(Doomed(s))
          BY <1>1, <2>4, <3>3 DEF part
        <4>3. \A t \in Named(n) : daily[t][d] = daily'[t][d]
          BY <1>0, <4>2, DeletionNames
        <4>4. CountOf(daily, n, d) = CountOf(daily', n, d)
          BY <1>0, <4>3, CountAgrees
        <4> QED
          BY <2>4, <3>1, <4>1, <4>4
      <3> QED
        BY <3>2, <3>3
    <2> QED
      BY <2>3, <2>4
  <1> QED
    BY <1>2, <1>4, <1>5, <1>6, <1>7, <1>8 DEF BookInv

-----------------------------------------------------------------------------
(* The theorems.                                                           *)

LEMMA BookSteps == BookNext => Next
  BY DEF BookNext, Answer, Deletion, Consolidation, Next

LEMMA BookStart == BookInit => BookInv
  <1> SUFFICES ASSUME BookInit
               PROVE  BookInv
    OBVIOUS
  <1>1. /\ TypeOK /\ Rows = {} /\ merges = {} /\ now = 1 /\ partly = {}
        /\ daily = [s \in Sids |-> NoDays] /\ samples = [s \in Sids |-> {}]
        /\ book = [n \in Names |-> NoDays] /\ seen = [n \in Names |-> 0]
    BY TypeInit DEF BookInit, Init, Rows, Book!Init, Book!NoDays, Book!NoCount, NoDays, NoCount
  <1>2. ASSUME NEW n \in Names, NEW d \in Days
        PROVE  CountOf(daily, n, d) = book[n][d]
    <2>1. \A s \in Named(n) : daily[s][d] = NoCount
      BY <1>1, NamedRows DEF NoDays
    <2>2. CountOf(daily, n, d) = NoCount
      BY <1>1, <2>1, TableType, CountOfNone
    <2> QED
      BY <1>1, <2>2 DEF NoDays
  <1>3. HistoryIsKept
    BY <1>1, <1>2 DEF HistoryIsKept
  <1>4. BookType /\ NoOrphans
    BY <1>1, NoDaysType DEF BookType, NoOrphans
  <1>5. MergesMatch /\ MergesInTime /\ NewestSeen
    BY <1>1 DEF MergesMatch, MergesInTime, NewestSeen
  <1> QED
    BY <1>3, <1>4, <1>5 DEF BookInv

LEMMA BookStep ==
  ASSUME BookInv, [BookNext]_<<vars, bookVars>>
  PROVE  BookInv'
  <1>0. TypeOK' /\ TypeOK
    <2>1. [Next]_vars
      BY BookSteps
    <2> QED
      BY <2>1, TypeStep DEF BookInv, BookType
  <1>1. CASE \E listed \in Listings : \E up \in SUBSET listed : Answer(listed, up)
    <2>0. PICK listed \in Listings : \E up \in SUBSET listed : Answer(listed, up)
      BY <1>1
    <2>1. PICK up \in SUBSET listed : Answer(listed, up)
      BY <2>0
    <2>2. listed \in SUBSET Sids
      BY HistoryAssumption
    <2>3. BookType'
      BY <1>0, <2>1, <2>2, AnswerBookType DEF BookInv
    <2>4. HistoryIsKept' /\ NewestSeen' /\ NoOrphans'
      BY <1>0, <2>1, <2>2, AnswerCounts, AnswerSeen, AnswerOrphans
    <2>5. merges' = {}
      BY <2>1 DEF Answer, PollWrite, BookInv, MergesInTime
    <2> QED
      BY <2>3, <2>4, <2>5 DEF BookInv, MergesMatch, MergesInTime
  <1>2. CASE \E s \in Sids, failed \in Failing : Deletion(s, failed)
    BY <1>0, <1>2, DeletionStep
  <1>3. CASE ReadMerges /\ UNCHANGED bookVars
    <2>1. PICK canon \in [Names -> Sids] :
            /\ \A s \in Rows : LET c == canon[NameOf[s]] IN
                 c \in Rows /\ NameOf[c] = NameOf[s] /\ Newest(c)
            /\ merges' = {<<s, canon[NameOf[s]]>> :
                            s \in {r \in Rows : r # canon[NameOf[r]] /\ ts[r] < lastPoll}}
      BY <1>3 DEF ReadMerges
    <2>2. /\ Rows' = Rows /\ at' = "merging" /\ UNCHANGED <<tables, now>> /\ UNCHANGED <<book, seen, partly>>
      BY <1>3 DEF ReadMerges, tables, Rows, bookVars
    <2>3. ASSUME NEW m \in merges'
          PROVE  /\ m[1] \in Rows /\ m[2] \in Rows /\ NameOf[m[1]] = NameOf[m[2]] /\ m[1] # m[2]
                 /\ ts[m[1]] <= ts[m[2]] /\ m[2] = canon[NameOf[m[1]]]
      BY <2>1 DEF Newest
    <2>4. MergesMatch'
      BY <2>2, <2>3, NamedRows DEF MergesMatch, tables
    <2>5. BookType' /\ NoOrphans' /\ HistoryIsKept' /\ MergesInTime'
      BY <1>0, <2>2 DEF BookInv, BookType, NoOrphans, HistoryIsKept, MergesInTime, tables
    <2>6. NewestSeen'
      BY <2>2 DEF BookInv, NewestSeen, tables
    <2> QED
      BY <2>4, <2>5, <2>6 DEF BookInv
  <1>4. CASE (\E from, to \in Sids : MergeSid(from, to)) /\ UNCHANGED bookVars
    BY <1>0, <1>4, MergeStep
  <1>5. CASE EndMerge /\ UNCHANGED bookVars
    <2>1. /\ Rows' = Rows /\ merges' = {} /\ UNCHANGED <<tables, now>> /\ UNCHANGED <<book, seen, partly>>
      BY <1>5 DEF EndMerge, tables, Rows, bookVars
    <2>2. BookType' /\ NoOrphans' /\ HistoryIsKept' /\ MergesInTime' /\ MergesMatch'
      BY <1>0, <2>1 DEF BookInv, BookType, NoOrphans, HistoryIsKept, MergesInTime, MergesMatch, tables
    <2>3. NewestSeen'
      BY <2>1 DEF BookInv, NewestSeen, tables
    <2> QED
      BY <2>2, <2>3 DEF BookInv
  <1>6. CASE (Tick \/ UNCHANGED vars) /\ UNCHANGED bookVars
    <2>1. /\ Rows' = Rows /\ UNCHANGED <<tables, merges, at>> /\ UNCHANGED <<book, seen, partly>>
          /\ now' = now \/ now' = now + 1
      BY <1>6 DEF Tick, vars, tables, Rows, bookVars
    <2>2. BookType' /\ NoOrphans' /\ HistoryIsKept' /\ MergesInTime'
      BY <1>0, <2>1 DEF BookInv, BookType, NoOrphans, HistoryIsKept, MergesInTime, tables
    <2>3. MergesMatch'
      BY <2>1 DEF BookInv, MergesMatch, tables
    <2>4. \A n \in Names : seen[n] <= now'
      BY <1>0, <2>1, DayNumbers DEF BookInv, NewestSeen, BookType
    <2>5. NewestSeen'
      BY <2>1, <2>4 DEF BookInv, NewestSeen, tables
    <2> QED
      BY <2>2, <2>3, <2>5 DEF BookInv
  <1> QED
    BY <1>1, <1>2, <1>3, <1>4, <1>5, <1>6 DEF BookNext, Consolidation

(* The tables keep of every name what the answers said of it: no poll,     *)
(* merge, cleaning, deletion or crash, in any order, loses a reading or    *)
(* counts one twice, and a deletion that takes only a part of a name, or   *)
(* fails for a table, never makes its count grow.                          *)
THEOREM HistoryKept == BookSpec => []HistoryIsKept
  <1>1. BookInv => HistoryIsKept
    BY DEF BookInv
  <1> QED
    BY <1>1, BookStart, BookStep, PTL DEF BookSpec

(* Wherever a consolidation is cut off or overtaken by a deletion, nothing *)
(* is kept of a server without a row, but of the names a deletion took only*)
(* a part of.                                                              *)
THEOREM NothingOrphaned == BookSpec => []NoOrphans
  <1>1. BookInv => NoOrphans
    BY DEF BookInv
  <1> QED
    BY <1>1, BookStart, BookStep, PTL DEF BookSpec
=============================================================================
