---------------------------- MODULE DialogProofs ----------------------------
(***************************************************************************)
(* Proofs about Dialog for any admins, handlers, hosts, texts and numbers  *)
(* of presses: what is stored was typed for it, the awaited question is    *)
(* the one asked, a title opens one incident, and links stay.              *)
(***************************************************************************)
EXTENDS Dialog, SequenceTheorems, FiniteSetTheorems, TLAPS

USE DEF crossings

-----------------------------------------------------------------------------
(* Calls, and the buttons whose handlers make them.                        *)

Wants == {Home} \cup {Ask(q) : q \in Questions} \cup {AskName(n) : n \in Names}
Every == Wants \cup {Done, Delete} \cup {Set(s) : s \in Statuses}
Await == {"ren_name"} \cup Questions
Ops   == {"put", "put text", "read await", "save title", "read target", "rename",
          "read title", "create", "status", "feed", "read list", "add", "remove"}
Calls == [op : Ops, key : State \cup {""}, val : {""} \cup Await \cup Statuses \cup Names]
(* What is left of the handler of an answer once it is no longer awaited.  *)
Answer(q) ==
  CASE q = "page_title" -> <<Call("save title")>>
    [] q = "ren_name"   -> <<Call("read target"), Del("ren_target"), Call("rename")>>
    [] q = "inc_title"  -> <<PutText("inc_title_txt")>>
    [] q = "sub_add"    -> <<Call("read list"), Call("add"), Put("await", "sub_add")>>

LEMMA Prefix ==
  ASSUME NEW S, NEW x \in S, NEW r \in Seq(S)
  PROVE  /\ <<x>> \o r \in Seq(S) /\ <<x>> \o r # <<>>
         /\ Head(<<x>> \o r) = x /\ Tail(<<x>> \o r) = r
  <1> DEFINE s == <<x>> \o r
  <1>1. <<x>> \in Seq(S) /\ Len(<<x>>) = 1
    OBVIOUS
  <1>2. /\ s \in Seq(S) /\ Len(s) = 1 + Len(r) /\ s[1] = x
        /\ \A i \in 1..Len(r) : s[i + 1] = r[i]
    BY <1>1, ConcatProperties, LenProperties
  <1>3. s # <<>> /\ Head(s) = x
    BY <1>2, EmptySeq, LenProperties
  <1>4. /\ Tail(s) \in Seq(S) /\ Len(Tail(s)) = Len(r)
        /\ \A i \in 1..Len(r) : Tail(s)[i] = s[i + 1]
    BY <1>2, <1>3, HeadTailProperties, LenProperties
  <1>5. Tail(s) = r
    <2> HIDE DEF s
    <2> QED
      BY <1>2, <1>4, SeqEqual
  <1> QED
    BY <1>2, <1>3, <1>5

LEMMA Tuples ==
  /\ \A x : Head(<<x>>) = x /\ Tail(<<x>>) = <<>> /\ <<x>> # <<>>
  /\ \A x, y : Head(<<x, y>>) = x /\ Tail(<<x, y>>) = <<y>> /\ <<x, y>> # <<>>
  /\ \A x, y, z : Head(<<x, y, z>>) = x /\ Tail(<<x, y, z>>) = <<y, z>> /\ <<x, y, z>> # <<>>
  /\ \A x, y, z, v : /\ Head(<<x, y, z, v>>) = x /\ Tail(<<x, y, z, v>>) = <<y, z, v>>
                     /\ <<x, y, z, v>> # <<>>
  OBVIOUS

LEMMA TupleTypes ==
  ASSUME NEW S
  PROVE  /\ <<>> \in Seq(S)
         /\ \A x \in S : <<x>> \in Seq(S)
         /\ \A x, y \in S : <<x, y>> \in Seq(S)
         /\ \A x, y, z \in S : <<x, y, z>> \in Seq(S)
         /\ \A x, y, z, v \in S : <<x, y, z, v>> \in Seq(S)
  OBVIOUS

LEMMA CallsAre ==
  /\ \A f \in Ops : Call(f) \in Calls
  /\ \A k \in State : PutText(k) \in Calls /\ Del(k) \in Calls
  /\ \A k \in State, v \in {""} \cup Await \cup Statuses \cup Names : Put(k, v) \in Calls
  /\ \A v \in Statuses : [op |-> "status", key |-> "", val |-> v] \in Calls
  BY DEF Call, PutText, Del, Put, Calls, Ops, State, Statuses

LEMMA ButtonCalls ==
  /\ \A q \in Questions : handleCallback(Ask(q)) = <<Put("await", q)>>
  /\ \A n \in Names : handleCallback(AskName(n)) =
       <<Del("ren_target"), Put("ren_target", n), Put("await", "ren_name")>>
  /\ handleCallback(Done) = <<Call("read title"), Call("create"), Call("feed"),
                              Del("inc_title_txt")>>
  /\ \A s \in Statuses : handleCallback(Set(s)) =
       <<[op |-> "status", key |-> "", val |-> s], Call("feed")>>
  /\ handleCallback(Delete) = <<Call("read list"), Call("remove")>>
  /\ handleCallback(Home) = <<>>
  BY DEF handleCallback, Ask, AskName, Done, Set, Delete, Home, handleRenCallback,
     createIncidentFromState, AddIncidentUpdate

LEMMA ButtonType == \A b \in Every : handleCallback(b) \in Seq(Calls)
  <1> SUFFICES ASSUME NEW b \in Every
               PROVE  handleCallback(b) \in Seq(Calls)
    OBVIOUS
  <1>1. "await" \in State /\ "ren_target" \in State /\ "inc_title_txt" \in State
    BY DEF State
  <1>2. Questions \subseteq Await /\ "ren_name" \in Await
    BY DEF Await
  <1>3. CASE b \in {Ask(q) : q \in Questions}
    BY <1>1, <1>2, <1>3, ButtonCalls, CallsAre, TupleTypes
  <1>4. CASE b \in {AskName(n) : n \in Names}
    <2>1. PICK n \in Names : b = AskName(n)
      BY <1>4
    <2>2. /\ Del("ren_target") \in Calls /\ Put("ren_target", n) \in Calls
          /\ Put("await", "ren_name") \in Calls
      BY <1>1, <1>2, CallsAre
    <2> QED
      BY <2>1, <2>2, ButtonCalls, TupleTypes
  <1>5. CASE b \in {Set(s) : s \in Statuses}
    <2>1. PICK s \in Statuses : b = Set(s)
      BY <1>5
    <2>2. [op |-> "status", key |-> "", val |-> s] \in Calls /\ Call("feed") \in Calls
      BY CallsAre DEF Ops
    <2> QED
      BY <2>1, <2>2, ButtonCalls, TupleTypes
  <1>6. CASE b \in {Home, Done, Delete}
    <2>1. /\ Call("read title") \in Calls /\ Call("create") \in Calls /\ Call("feed") \in Calls
          /\ Call("read list") \in Calls /\ Call("remove") \in Calls
          /\ Del("inc_title_txt") \in Calls
      BY <1>1, CallsAre DEF Ops
    <2> QED
      BY <1>6, <2>1, ButtonCalls, TupleTypes
  <1> QED
    BY <1>3, <1>4, <1>5, <1>6 DEF Every, Wants

LEMMA AnswerType == \A q \in Await : Answer(q) \in Seq(Calls) /\ Answer(q) # <<>>
  <1>1. "await" \in State /\ "ren_target" \in State /\ "inc_title_txt" \in State
    BY DEF State
  <1>2. "sub_add" \in Await
    BY DEF Await, Questions
  <1> QED
    BY <1>1, <1>2, CallsAre, Tuples, TupleTypes DEF Answer, Await, Questions, Ops

LEMMA PressedCalls ==
  ASSUME NEW b \in Every
  PROVE  /\ onCallback(b) \in Seq(Calls) /\ onCallback(b) # <<>>
         /\ Head(onCallback(b)) = Del("await") /\ Tail(onCallback(b)) = handleCallback(b)
  <1>1. Del("await") \in Calls
    BY CallsAre DEF State
  <1> QED
    BY <1>1, Prefix, ButtonType DEF onCallback

LEMMA AnswerCalls ==
  ASSUME NEW q \in Await
  PROVE  /\ handleAwait(q) \in Seq(Calls) /\ handleAwait(q) # <<>>
         /\ Head(handleAwait(q)) = Del("await") /\ Tail(handleAwait(q)) = Answer(q)
  <1>1. Del("await") \in Calls
    BY CallsAre DEF State
  <1>2. handleAwait(q) = <<Del("await")>> \o Answer(q)
    BY DEF handleAwait, Answer
  <1> QED
    BY <1>1, <1>2, Prefix, AnswerType

-----------------------------------------------------------------------------
(* Lists of links.                                                         *)

LEMMA AppendLink ==
  ASSUME NEW l \in Seq(Links), IsInjective(l), NEW u \in Links, ~Contains(l, u)
  PROVE  /\ Append(l, u) \in Seq(Links) /\ IsInjective(Append(l, u))
         /\ ToSet(Append(l, u)) = ToSet(l) \cup {u}
  <1> DEFINE m == Append(l, u)
  <1>1. /\ m \in Seq(Links) /\ Len(m) = Len(l) + 1 /\ m[Len(l) + 1] = u
        /\ \A i \in 1..Len(l) : m[i] = l[i]
    BY AppendProperties
  <1>2. Len(l) \in Nat /\ DOMAIN l = 1..Len(l) /\ DOMAIN m = 1..Len(l) + 1
    BY <1>1, LenProperties
  <1> HIDE DEF m
  <1>3. \A i \in 1..Len(l) + 1 : i \in 1..Len(l) \/ i = Len(l) + 1
    BY <1>2
  <1>4. IsInjective(m)
    BY <1>1, <1>2, <1>3 DEF IsInjective, Contains
  <1>5. ToSet(m) = ToSet(l) \cup {u}
    BY <1>1, <1>2, <1>3 DEF ToSet
  <1> QED
    BY <1>1, <1>4, <1>5 DEF m

LEMMA RemoveLink ==
  ASSUME NEW l \in Seq(Links), IsInjective(l), NEW i \in DOMAIN l
  PROVE  /\ RemoveAt(l, i) \in Seq(Links) /\ IsInjective(RemoveAt(l, i))
         /\ ToSet(RemoveAt(l, i)) = ToSet(l) \ {l[i]}
  <1> DEFINE p == SubSeq(l, 1, i - 1)
             r == SubSeq(l, i + 1, Len(l))
             m == RemoveAt(l, i)
  <1>1. Len(l) \in Nat /\ DOMAIN l = 1..Len(l) /\ i \in 1..Len(l)
        /\ \A k \in 1..Len(l) : l[k] \in Links
    BY LenProperties, ElementOfSeq
  <1>2. p \in Seq(Links) /\ Len(p) = i - 1 /\ \A k \in 1..i - 1 : p[k] = l[k]
    <2>1. \A k \in 1..i - 1 : l[k] \in Links
      BY <1>1
    <2> DEFINE n == i - 1
    <2>2. n \in Int /\ 1 \in Int /\ \A k \in 1..n : l[k] \in Links
      BY <1>1, <2>1
    <2> HIDE DEF n
    <2>3. /\ SubSeq(l, 1, n) \in Seq(Links)
          /\ Len(SubSeq(l, 1, n)) = IF 1 <= n THEN n - 1 + 1 ELSE 0
          /\ \A k \in 1..n - 1 + 1 : SubSeq(l, 1, n)[k] = l[1 + k - 1]
      BY <2>2, SubSeqProperties
    <2> QED
      BY <1>1, <2>3 DEF n
  <1>3. r \in Seq(Links) /\ Len(r) = Len(l) - i /\ \A k \in 1..Len(l) - i : r[k] = l[k + i]
    <2>1. \A k \in i + 1..Len(l) : l[k] \in Links
      BY <1>1
    <2>2. /\ r \in Seq(Links) /\ Len(r) = IF i + 1 <= Len(l) THEN Len(l) - (i + 1) + 1 ELSE 0
          /\ \A k \in 1..Len(l) - (i + 1) + 1 : r[k] = l[i + 1 + k - 1]
      BY <1>1, <2>1, SubSeqProperties
    <2> HIDE DEF r
    <2>3. ASSUME NEW k \in 1..Len(l) - i
          PROVE  r[k] = l[k + i]
      <3>1. i + 1 + k - 1 = k + i /\ k \in 1..Len(l) - (i + 1) + 1
        BY <1>1
      <3> QED
        BY <2>2, <3>1
    <2> QED
      BY <1>1, <2>2, <2>3
  <1> HIDE DEF p, r
  <1>4. m \in Seq(Links) /\ Len(m) = Len(l) - 1 /\ DOMAIN m = 1..Len(l) - 1
        /\ \A k \in 1..Len(l) - 1 : m[k] = IF k < i THEN l[k] ELSE l[k + 1]
    <2>1. /\ m \in Seq(Links) /\ Len(m) = Len(p) + Len(r)
          /\ \A k \in 1..Len(p) + Len(r) : m[k] = IF k <= Len(p) THEN p[k] ELSE r[k - Len(p)]
      BY <1>2, <1>3, ConcatProperties DEF RemoveAt, p, r
    <2> HIDE DEF m
    <2>2. Len(p) + Len(r) = Len(l) - 1
      BY <1>1, <1>2, <1>3
    <2>3. ASSUME NEW k \in 1..Len(l) - 1
          PROVE  m[k] = IF k < i THEN l[k] ELSE l[k + 1]
      <3>1. CASE k < i
        BY <1>1, <1>2, <2>1, <2>2, <3>1
      <3>2. CASE ~(k < i)
        <4>1. k - Len(p) \in 1..Len(l) - i /\ (k - Len(p)) + i = k + 1
          BY <1>1, <1>2, <3>2
        <4>2. m[k] = r[k - Len(p)]
          BY <1>1, <1>2, <2>1, <2>2, <3>2
        <4> QED
          BY <1>3, <3>2, <4>1, <4>2
      <3> QED
        BY <3>1, <3>2
    <2> QED
      BY <2>1, <2>2, <2>3, LenProperties
  <1> HIDE DEF m
  <1>5. IsInjective(m)
    <2> SUFFICES ASSUME NEW j \in 1..Len(l) - 1, NEW k \in 1..Len(l) - 1, m[j] = m[k]
                 PROVE  j = k
      BY <1>4 DEF IsInjective
    <2>1. PICK x \in 1..Len(l) : m[j] = l[x] /\ x = IF j < i THEN j ELSE j + 1
      BY <1>1, <1>4
    <2>2. PICK y \in 1..Len(l) : m[k] = l[y] /\ y = IF k < i THEN k ELSE k + 1
      BY <1>1, <1>4
    <2>3. x = y
      BY <1>1, <2>1, <2>2 DEF IsInjective
    <2> QED
      BY <1>1, <2>1, <2>2, <2>3
  <1>6. ToSet(m) = ToSet(l) \ {l[i]}
    <2>1. ASSUME NEW k \in 1..Len(l) - 1
          PROVE  m[k] \in ToSet(l) \ {l[i]}
      <3>1. CASE k < i
        BY <1>1, <1>4, <3>1 DEF ToSet, IsInjective
      <3>2. CASE ~(k < i)
        <4>1. k + 1 \in DOMAIN l /\ k + 1 # i /\ m[k] = l[k + 1]
          BY <1>1, <1>4, <3>2
        <4> QED
          BY <4>1 DEF ToSet, IsInjective
      <3> QED
        BY <3>1, <3>2
    <2>2. ASSUME NEW k \in 1..Len(l), l[k] # l[i]
          PROVE  l[k] \in ToSet(m)
      <3>1. CASE k < i
        BY <1>1, <1>4, <3>1 DEF ToSet
      <3>2. CASE k > i
        <4>1. k - 1 \in DOMAIN m /\ m[k - 1] = l[k]
          BY <1>1, <1>4, <3>2
        <4> QED
          BY <4>1 DEF ToSet
      <3> QED
        BY <1>1, <2>2, <3>1, <3>2
    <2> QED
      BY <1>1, <1>4, <2>1, <2>2 DEF ToSet
  <1> QED
    BY <1>4, <1>5, <1>6 DEF m

-----------------------------------------------------------------------------
(* Types.                                                                  *)

BotState == [await : {""} \cup Await, ren_target : Names \cup {""},
             inc_title_txt : Texts \cup {""}]
Job  == [who : Admins \cup {""}, todo : Seq(Calls), text : Texts \cup {""},
         got : Texts \cup Names \cup Statuses \cup {""}, id : Nat, list : Seq(Links)]
Sent == [who : Admins \cup {""}, for : Wants]

Types ==
  /\ bot_state \in [Admins -> BotState]
  /\ title \in Texts \cup {""} /\ aliases \in [Names -> Texts \cup {""}]
  /\ incidents \in Seq(Incident)
  /\ subs \in Seq(Links) /\ IsInjective(subs)
  /\ job \in [Handlers -> Job]
  /\ presses \in 0..MaxPresses
  /\ sent \in [Texts -> Sent] /\ \A t \in Texts : sent[t].who = "" => sent[t] = Unsent
  /\ wanted \in [Admins -> Wants]
  /\ astray \subseteq Admins /\ doubtful \subseteq Texts
  /\ doubled \subseteq Texts \cup {""} /\ clashed \in BOOLEAN

-----------------------------------------------------------------------------
(* What a handler has left to do, and how it fits what its admin was asked.*)
(* The latter is said of admins who are not astray.                        *)

Clean(a) == a \notin astray
asks(b)  == IF b.act \in {"ask", "ren"} THEN b ELSE Home
Later(w) == IF w = Ask("sub_add") THEN w ELSE Home

(* A text that was sent for what is asked by b.                            *)
Meant(t, b) ==
  t \in Texts /\ sent[t].who \in Admins /\ (t \notin doubtful => sent[t].for = b)
Given(u) == \E t \in Texts : UrlOf[t] = u /\ Meant(t, Ask("sub_add"))

(* Of the record j of a handler, its admin's dialog s and what was asked w:*)
Typed(j)  == j.text \in Texts /\ sent[j.text].who = j.who
Listed(j) ==
  /\ IsInjective(j.list) /\ \A u \in ToSet(j.list) : Given(u)
  /\ (~clashed /\ "read" \notin Faults) => j.list = subs
Tells(j)  == j.id \in DOMAIN incidents /\ j.got \in Statuses
Rests(j, s, w) == Clean(j.who) => (w = Home /\ s.await = "")

Pressed(j, s, w) ==
  \E b \in Every : j.todo = onCallback(b) /\ (Clean(j.who) => w = asks(b))
Picked(j, s, w) ==
  \E b \in Every \ {Home} :
    j.todo = handleCallback(b) /\ (Clean(j.who) => (w = asks(b) /\ s.await = ""))
Renaming(j, s, w) ==
  \E n \in Names : /\ j.todo = <<Put("ren_target", n), Put("await", "ren_name")>>
                   /\ Clean(j.who) => w = AskName(n)
Renamed(j, s, w) ==
  \E n \in Names : /\ j.todo = <<Put("await", "ren_name")>>
                   /\ Clean(j.who) => (w = AskName(n) /\ s.ren_target = n)
Opening(j, s, w) ==
  /\ j.todo = <<Call("create"), Call("feed"), Del("inc_title_txt")>>
  /\ Meant(j.got, Ask("inc_title")) /\ sent[j.got].who = j.who
  /\ Rests(j, s, w)
Opened(j, s, w) ==
  j.todo = <<Call("feed"), Del("inc_title_txt")>> /\ Tells(j) /\ Rests(j, s, w)
Closing(j, s, w) == j.todo = <<Del("inc_title_txt")>> /\ Rests(j, s, w)
Telling(j, s, w) == j.todo = <<Call("feed")>> /\ Tells(j) /\ Rests(j, s, w)
Removing(j, s, w) == j.todo = <<Call("remove")>> /\ Listed(j) /\ Rests(j, s, w)
Commanded(j, s, w) == j.todo = onUpdate /\ j.text = "" /\ (Clean(j.who) => w = Home)
Texted(j, s, w) ==
  /\ j.todo = onUpdate /\ Typed(j)
  /\ Clean(j.who) => Awaits(s, sent[j.text].for) /\ w = Later(sent[j.text].for)
AskedBy(q, s) == IF q = "ren_name" THEN AskName(s.ren_target) ELSE Ask(q)
Answering(j, s, w) ==
  \E q \in Await :
    /\ j.todo = handleAwait(q) /\ Typed(j)
    /\ Clean(j.who) => sent[j.text].for = AskedBy(q, s) /\ w = Later(sent[j.text].for)
Answered(j, s, w) ==
  \E q \in Await :
    /\ j.todo = Answer(q) /\ Typed(j)
    /\ Clean(j.who) => /\ sent[j.text].for = AskedBy(q, s) /\ w = Later(sent[j.text].for)
                       /\ s.await = ""
Targeting(j, s, w) ==
  /\ j.todo \in {<<Del("ren_target"), Call("rename")>>, <<Call("rename")>>}
  /\ Typed(j) /\ j.got \in Names \cup {""}
  /\ Clean(j.who) => sent[j.text].for = AskName(j.got)
  /\ Rests(j, s, w)
Adding(j, s, w) ==
  /\ j.todo = <<Call("add"), Put("await", "sub_add")>>
  /\ Typed(j) /\ Listed(j)
  /\ Clean(j.who) => sent[j.text].for = Ask("sub_add") /\ w = Ask("sub_add")
Added(j, s, w) ==
  j.todo = <<Put("await", "sub_add")>> /\ (Clean(j.who) => w = Ask("sub_add"))

Stage(j, s, w) ==
  \/ Pressed(j, s, w) \/ Picked(j, s, w) \/ Renaming(j, s, w) \/ Renamed(j, s, w)
  \/ Opening(j, s, w) \/ Opened(j, s, w) \/ Closing(j, s, w) \/ Telling(j, s, w)
  \/ Removing(j, s, w) \/ Commanded(j, s, w) \/ Texted(j, s, w) \/ Answering(j, s, w)
  \/ Answered(j, s, w) \/ Targeting(j, s, w) \/ Adding(j, s, w) \/ Added(j, s, w)

Stands(h) ==
  \/ job[h] = Idle
  \/ /\ job[h].who \in Admins
     /\ Stage(job[h], bot_state[job[h].who], wanted[job[h].who])

-----------------------------------------------------------------------------
(* The tables.                                                             *)

Stored ==
  /\ title # "" => Meant(title, Ask("page_title"))
  /\ \A n \in Names : aliases[n] # "" => Meant(aliases[n], AskName(n))
  /\ \A a \in Admins : LET t == bot_state[a].inc_title_txt
                       IN t # "" => Meant(t, Ask("inc_title")) /\ sent[t].who = a
  /\ \A i \in DOMAIN incidents :
       /\ Meant(incidents[i].title, Ask("inc_title"))
       /\ incidents[i].by = sent[incidents[i].title].who
  /\ \A u \in ToSet(subs) : Given(u)

Tables == Types /\ Stored

(* Handlers of one admin run one at a time, and leave him what he was asked*)
(* or he is astray, and his texts under way with him.                      *)
OneEach ==
  \A g, h \in Handlers :
    (job[g] # Idle /\ job[h] # Idle /\ job[g].who = job[h].who /\ Clean(job[g].who)) => g = h
LeftAsAsked ==
  \A a \in Admins : (Clean(a) /\ ~Busy(a)) => Awaits(bot_state[a], wanted[a])
Doubted ==
  \A h \in Handlers : (job[h].text # "" /\ ~Clean(job[h].who)) => job[h].text \in doubtful
(* One change of the list at a time, or they have clashed.                 *)
Changing(h) == At(h, "add") \/ At(h, "remove")
ChangeAlone == ~clashed => \A g, h \in Handlers : Changing(g) /\ Changing(h) => g = h

Inv ==
  /\ Tables /\ OneEach /\ LeftAsAsked /\ Doubted /\ ChangeAlone
  /\ \A h \in Handlers : Stands(h)

-----------------------------------------------------------------------------
(* One call.                                                               *)

LEMMA NextCall ==
  ASSUME NEW h \in Handlers, Step(h), NEW f, Head(job[h].todo).op = f
  PROVE  /\ f \in {"put", "put text"} => SetBotState(h)
         /\ f = "read await" => GetAwait(h)
         /\ f = "save title" => SetTitle(h)
         /\ f = "read target" => GetTarget(h)
         /\ f = "rename" => SetAlias(h)
         /\ f = "read title" => GetTitleText(h)
         /\ f = "create" => CreateIncident(h)
         /\ f = "status" => SetStatus(h)
         /\ f = "feed" => AddFeed(h)
         /\ f = "read list" => SubscriptionURLs(h)
         /\ f = "add" => AddSubscriptionURLs(h)
         /\ f = "remove" => RemoveSubscriptionURLAt(h)
  BY DEF Step, At, SetBotState, GetAwait, SetTitle, GetTarget, SetAlias, GetTitleText,
     CreateIncident, SetStatus, AddFeed, SubscriptionURLs, AddSubscriptionURLs,
     RemoveSubscriptionURLAt

LEMMA OpOf ==
  /\ \A f : Call(f).op = f
  /\ \A k, v : Put(k, v).op = "put" /\ Put(k, v).key = k /\ Put(k, v).val = v
  /\ \A k : PutText(k).op = "put text" /\ PutText(k).key = k
  /\ \A k : Del(k) = Put(k, "")
  BY DEF Call, Put, PutText, Del

LEMMA IdleIs ==
  /\ Idle \in Job /\ Idle.who = "" /\ Idle.todo = <<>>
  /\ \A h \in Handlers : job[h].todo # <<>> => job[h] # Idle
  <1>1. <<>> \in Seq(Calls) /\ <<>> \in Seq(Links)
    BY TupleTypes
  <1>2. Idle \in Job
    BY <1>1 DEF Idle, Job
  <1>3. Idle.who = "" /\ Idle.todo = <<>>
    BY DEF Idle
  <1> QED
    BY <1>2, <1>3

(* Where a handler goes on to.                                             *)
LEMMA Goes ==
  ASSUME Types, NEW h \in Handlers, NEW j \in Job, NEW calls \in Seq(Calls), Go(h, j, calls)
  PROVE  /\ job' \in [Handlers -> Job]
         /\ calls = <<>> => job'[h] = Idle
         /\ calls # <<>> =>
              /\ job'[h].todo = calls /\ job'[h].who = j.who /\ job'[h].text = j.text
              /\ job'[h].got = j.got /\ job'[h].id = j.id /\ job'[h].list = j.list
         /\ \A g \in Handlers : g # h => job'[g] = job[g]
  <1>1. job' = [job EXCEPT ![h] = IF calls = <<>> THEN Idle ELSE [j EXCEPT !.todo = calls]]
    BY DEF Go
  <1>2. job \in [Handlers -> Job]
    BY DEF Types
  <1>3. [j EXCEPT !.todo = calls] \in Job
    BY DEF Job
  <1> QED
    BY <1>1, <1>2, <1>3, IdleIs DEF Job

-----------------------------------------------------------------------------
(* What a step of handler h of admin a leaves to the others.               *)

Others(h, a) ==
  /\ \A g \in Handlers : g # h => job'[g] = job[g]
  /\ \A b \in Admins : b # a => bot_state'[b] = bot_state[b]
  /\ UNCHANGED <<sent, wanted, astray, doubtful, presses>>
  /\ \A i \in DOMAIN incidents :
       i \in DOMAIN incidents' /\ incidents'[i].title = incidents[i].title
  /\ \A i \in DOMAIN incidents' \ DOMAIN incidents : incidents'[i].by = a
  /\ ~clashed' => ~clashed /\ (UNCHANGED subs \/ Changing(h))

LEMMA IncidentsAre ==
  ASSUME Types
  PROVE  /\ Len(incidents) \in Nat /\ DOMAIN incidents = 1..Len(incidents)
         /\ \A i \in DOMAIN incidents : i \in Nat /\ incidents[i] \in Incident
  <1>1. /\ Len(incidents) \in Nat /\ DOMAIN incidents = 1..Len(incidents)
        /\ \A i \in DOMAIN incidents : incidents[i] \in Incident
    BY LenProperties, ElementOfSeq DEF Types
  <1>2. \A n \in Nat : \A i \in 1..n : i \in Nat
    OBVIOUS
  <1> QED
    BY <1>1, <1>2, Zenon

LEMMA AppendIs ==
  ASSUME NEW S, NEW s \in Seq(S), NEW x \in S, NEW t, t = Append(s, x)
  PROVE  /\ t \in Seq(S)
         /\ Len(s) + 1 \in DOMAIN t /\ Len(s) + 1 \notin DOMAIN s
         /\ \A i \in DOMAIN t : i \in DOMAIN s \/ i = Len(s) + 1
         /\ \A i \in DOMAIN s : i \in DOMAIN t /\ t[i] = s[i]
         /\ t[Len(s) + 1] = x
  <1>1. /\ t \in Seq(S) /\ Len(t) = Len(s) + 1 /\ t[Len(s) + 1] = x
        /\ \A i \in 1..Len(s) : t[i] = s[i]
    BY AppendProperties
  <1>2. DOMAIN t = 1..(Len(s) + 1) /\ DOMAIN s = 1..Len(s) /\ Len(s) \in Nat
    BY <1>1, LenProperties
  <1>3. \A n \in Nat : /\ 1..n \subseteq 1..(n + 1) /\ n + 1 \in 1..(n + 1) /\ n + 1 \notin 1..n
                       /\ \A i \in 1..(n + 1) : i \in 1..n \/ i = n + 1
    OBVIOUS
  <1> QED
    BY <1>1, <1>2, <1>3

LEMMA FeedAt ==
  ASSUME NEW h, \/ job[h].todo = <<Call("feed"), Del("inc_title_txt")>>
                \/ job[h].todo = <<Call("feed")>>
  PROVE  At(h, "feed")
  <1>1. Head(job[h].todo) = Call("feed") /\ job[h].todo # <<>>
    BY Tuples
  <1> QED
    BY <1>1, OpOf DEF At

LEMMA ChangingAt ==
  ASSUME NEW h, \/ job[h].todo = <<Call("add"), Put("await", "sub_add")>>
                \/ job[h].todo = <<Call("remove")>>
  PROVE  Changing(h)
  <1>1. Head(job[h].todo) \in {Call("add"), Call("remove")} /\ job[h].todo # <<>>
    BY Tuples
  <1> QED
    BY <1>1, OpOf DEF At, Changing

LEMMA SeqMore ==
  ASSUME NEW S, NEW x, NEW s \in Seq(S)
  PROVE  s \in Seq(S \cup {x})
  BY SeqDef

LEMMA OthersKept ==
  ASSUME Types, NEW h \in Handlers, NEW a \in Admins, job[h].who = a, Step(h)
  PROVE  Others(h, a)
  <1>0. \A g \in Handlers : g # h => job'[g] = job[g]
    BY DEF Step, SetBotState, GetAwait, SetTitle, GetTarget, SetAlias, GetTitleText,
       CreateIncident, SetStatus, AddFeed, SubscriptionURLs, AddSubscriptionURLs,
       RemoveSubscriptionURLAt, Next1, Go, Types
  <1> USE <1>0 DEF Me
  <1>1. CASE SetBotState(h)
    BY <1>1 DEF SetBotState, Others, history, Types
  <1>2. CASE GetAwait(h) \/ GetTarget(h) \/ GetTitleText(h)
    BY <1>2 DEF GetAwait, GetTarget, GetTitleText, Others, tables, history, Types
  <1>3. CASE SetTitle(h) \/ SetAlias(h)
    BY <1>3 DEF SetTitle, SetAlias, Others, history, Types
  <1>4. CASE CreateIncident(h)
    <2> DEFINE x == [title |-> job[h].got, by |-> job[h].who, feed |-> "",
                     status |-> "investigating"]
    <2>1. x.by = a
      OBVIOUS
    <2>4. incidents' = Append(incidents, x)
      BY <1>4 DEF CreateIncident
    <2> HIDE DEF x
    <2>3. incidents \in Seq(Incident \cup {x})
      BY SeqMore DEF Types
    <2>2. /\ \A i \in DOMAIN incidents' : i \in DOMAIN incidents \/ i = Len(incidents) + 1
          /\ \A i \in DOMAIN incidents : i \in DOMAIN incidents' /\ incidents'[i] = incidents[i]
          /\ incidents'[Len(incidents) + 1] = x
      BY <2>3, <2>4, AppendIs
    <2> QED
      BY <1>4, <2>1, <2>2, IncidentsAre DEF CreateIncident, Others, history, Incident
  <1>5. CASE SetStatus(h)
    <2>1. UNCHANGED <<bot_state, subs, history>>
      BY <1>5 DEF SetStatus
    <2>2. CASE UNCHANGED incidents
      BY <2>1, <2>2 DEF Others, history
    <2>3. CASE ~UNCHANGED incidents
      <3>1. PICK i \in DOMAIN incidents :
              incidents' = [incidents EXCEPT ![i].status = Head(job[h].todo).val]
        BY <1>5, <2>3 DEF SetStatus
      <3>2. /\ DOMAIN incidents' = DOMAIN incidents
            /\ \A k \in DOMAIN incidents : k # i => incidents'[k] = incidents[k]
            /\ incidents'[i].title = incidents[i].title
        BY <3>1, IncidentsAre DEF Incident
      <3> QED
        BY <2>1, <3>2 DEF Others, history
    <2> QED
      BY <2>2, <2>3
  <1>6. CASE AddFeed(h)
    <2>1. /\ UNCHANGED <<bot_state, subs, history>>
          /\ incidents' = [incidents EXCEPT ![job[h].id].feed = job[h].got]
      BY <1>6 DEF AddFeed
    <2>2. /\ DOMAIN incidents' = DOMAIN incidents
          /\ \A i \in DOMAIN incidents : incidents'[i].title = incidents[i].title
      BY <2>1, IncidentsAre DEF Incident
    <2> QED
      BY <2>1, <2>2 DEF Others, history
  <1>7. CASE SubscriptionURLs(h)
    BY <1>7 DEF SubscriptionURLs, Others, tables
  <1>8. CASE AddSubscriptionURLs(h) \/ RemoveSubscriptionURLAt(h)
    BY <1>8 DEF AddSubscriptionURLs, RemoveSubscriptionURLAt, Changing, Others, history
  <1> QED
    BY <1>1, <1>2, <1>3, <1>4, <1>5, <1>6, <1>7, <1>8 DEF Step

LEMMA MeantStays ==
  ASSUME UNCHANGED sent, doubtful \subseteq doubtful', NEW t, NEW b, Meant(t, b)
  PROVE  Meant(t, b)'
  BY DEF Meant

LEMMA GivenStays ==
  ASSUME UNCHANGED sent, doubtful \subseteq doubtful', NEW u, Given(u)
  PROVE  Given(u)'
  BY MeantStays DEF Given

(* A handler stands where it stood if nothing it relies on is taken away.   *)
LEMMA StandsStay ==
  ASSUME NEW g \in Handlers, job[g] # Idle, Stands(g), job'[g] = job[g],
         Clean(job[g].who)' =>
           /\ Clean(job[g].who) /\ bot_state'[job[g].who] = bot_state[job[g].who]
           /\ wanted'[job[g].who] = wanted[job[g].who],
         \A t \in Texts : sent[t].who \in Admins => sent'[t] = sent[t],
         \A t, q : Meant(t, q) => Meant(t, q)',
         Listed(job[g]) /\ Changing(g) => Listed(job[g])',
         Tells(job[g]) /\ At(g, "feed") => Tells(job[g])'
  PROVE  Stands(g)'
  <1> DEFINE j == job[g]
             b == j.who
             s == bot_state[b]
             w == wanted[b]
  <1>1. b \in Admins /\ Stage(j, s, w) /\ job'[g] = job[g]
    BY DEF Stands
  <1>3. Clean(b)' => Clean(b) /\ bot_state'[b] = s /\ wanted'[b] = w
    BY <1>1
  <1>4. Typed(j) => Typed(j)' /\ sent'[j.text] = sent[j.text]
    BY <1>1 DEF Typed
  <1>2. \A t, q : (Meant(t, q) /\ sent[t].who = b) => sent'[t].who = b
    BY <1>1 DEF Meant
  <1>6. Listed(j) /\ Changing(g) => Listed(j)'
    BY <1>1
  <1>7. Tells(j) /\ At(g, "feed") => Tells(j)'
    BY <1>1
  <1>8. \A t, q : Meant(t, q) => Meant(t, q)'
    OBVIOUS
  <1>9. job'[g].who = b /\ job'[g] = j
    BY <1>1
  <1> HIDE DEF j, b, s, w
  <1>10. CASE Pressed(j, s, w)
    BY <1>1, <1>3, <1>4, <1>9, <1>10 DEF Stage, Pressed, j, b, s, w, Stands
  <1>11. CASE Picked(j, s, w)
    BY <1>1, <1>3, <1>4, <1>9, <1>11 DEF Stage, Picked, j, b, s, w, Stands
  <1>12. CASE Renaming(j, s, w)
    BY <1>1, <1>3, <1>4, <1>9, <1>12 DEF Stage, Renaming, j, b, s, w, Stands
  <1>13. CASE Renamed(j, s, w)
    BY <1>1, <1>3, <1>4, <1>9, <1>13 DEF Stage, Renamed, j, b, s, w, Stands
  <1>14. CASE Opening(j, s, w)
    BY <1>1, <1>2, <1>3, <1>9, <1>8, <1>14 DEF Stage, Opening, Rests, j, b, s, w, Stands
  <1>15. CASE Opened(j, s, w)
    <2>1. At(g, "feed")
      BY <1>15, FeedAt DEF Opened, j
    <2> QED
      BY <1>1, <1>3, <1>4, <1>9, <1>7, <1>15, <2>1 DEF Stage, Opened, Rests, j, b, s, w, Stands
  <1>16. CASE Closing(j, s, w)
    BY <1>1, <1>3, <1>4, <1>9, <1>16 DEF Stage, Closing, Rests, j, b, s, w, Stands
  <1>17. CASE Telling(j, s, w)
    <2>1. At(g, "feed")
      BY <1>17, FeedAt DEF Telling, j
    <2> QED
      BY <1>1, <1>3, <1>4, <1>9, <1>7, <1>17, <2>1 DEF Stage, Telling, Rests, j, b, s, w, Stands
  <1>18. CASE Removing(j, s, w)
    <2>1. Changing(g)
      BY <1>18, ChangingAt DEF Removing, j
    <2> QED
      BY <1>1, <1>3, <1>4, <1>9, <1>6, <1>18, <2>1 DEF Stage, Removing, Rests, j, b, s, w, Stands
  <1>19. CASE Commanded(j, s, w)
    BY <1>1, <1>3, <1>4, <1>9, <1>19 DEF Stage, Commanded, j, b, s, w, Stands
  <1>20. CASE Texted(j, s, w)
    BY <1>1, <1>3, <1>4, <1>9, <1>20 DEF Stage, Texted, Typed, Awaits, j, b, s, w, Stands
  <1>21. CASE Answering(j, s, w)
    BY <1>1, <1>3, <1>4, <1>9, <1>21 DEF Stage, Answering, Typed, AskedBy, j, b, s, w, Stands
  <1>22. CASE Answered(j, s, w)
    BY <1>1, <1>3, <1>4, <1>9, <1>22 DEF Stage, Answered, Typed, AskedBy, j, b, s, w, Stands
  <1>23. CASE Targeting(j, s, w)
    BY <1>1, <1>3, <1>4, <1>9, <1>23 DEF Stage, Targeting, Typed, Rests, j, b, s, w, Stands
  <1>24. CASE Adding(j, s, w)
    <2>1. Changing(g)
      BY <1>24, ChangingAt DEF Adding, j
    <2> QED
      BY <1>1, <1>3, <1>4, <1>9, <1>6, <1>24, <2>1 DEF Stage, Adding, Typed, j, b, s, w, Stands
  <1>25. CASE Added(j, s, w)
    BY <1>1, <1>3, <1>4, <1>9, <1>25 DEF Stage, Added, j, b, s, w, Stands
  <1> QED
    BY <1>1, <1>10, <1>11, <1>12, <1>13, <1>14, <1>15, <1>16, <1>17, <1>18, <1>19, <1>20, <1>21, <1>22, <1>23, <1>24, <1>25 DEF Stage

(* Handlers of others stand where they stood.                              *)
LEMMA OthersStand ==
  ASSUME Inv, Types', Stored', NEW h \in Handlers, NEW a \in Admins, job[h].who = a,
         job[h] # Idle, Others(h, a), NEW g \in Handlers, g # h
  PROVE  Stands(g)'
  <1> SUFFICES ASSUME job[g] # Idle
               PROVE  Stands(g)'
    BY DEF Others, Stands
  <1> DEFINE j == job[g]
             b == j.who
             s == bot_state[b]
             w == wanted[b]
  <1>1. b \in Admins /\ Stands(g) /\ job'[g] = job[g]
    BY DEF Inv, Stands, Others
  <1>2. Clean(b) => b # a
    BY DEF Inv, OneEach
  <1>3. Clean(b) => bot_state'[b] = s
    BY <1>1, <1>2 DEF Others
  <1>4. wanted'[b] = w /\ UNCHANGED <<sent, doubtful>> /\ (Clean(b)' <=> Clean(b))
    BY DEF Others, Clean
  <1>6. ASSUME Listed(j), Changing(g)
        PROVE  Listed(j)'
    <2>1. \A u \in ToSet(j.list) : Given(u)'
      BY <1>4, <1>6, GivenStays DEF Listed
    <2>2. ~clashed' => ~clashed /\ UNCHANGED subs
      BY <1>6 DEF Others, Inv, ChangeAlone
    <2> QED
      BY <1>1, <1>6, <2>1, <2>2 DEF Listed
  <1>7. ASSUME Tells(j), At(g, "feed")
        PROVE  Tells(j)'
    BY <1>1, <1>7 DEF Tells, Others
  <1>8. \A t, q : Meant(t, q) => Meant(t, q)'
    BY <1>4, MeantStays
  <1> QED
    BY <1>1, <1>3, <1>4, <1>6, <1>7, <1>8, StandsStay

-----------------------------------------------------------------------------
(* One step of each stage keeps the tables and leads to a stage, or ends   *)
(* with what the admin was asked.                                          *)

Moved(h, a) ==
  \/ job'[h] = Idle /\ (Clean(a)' => Awaits(bot_state'[a], wanted'[a]))
  \/ job'[h].who = a /\ Stage(job[h], bot_state[a], wanted[a])'

(* The handler goes on with these calls.                                   *)
GoesOn(h, calls) ==
  /\ job' \in [Handlers -> Job]
  /\ \A g \in Handlers : g # h => job'[g] = job[g]
  /\ calls = <<>> => job'[h] = Idle
  /\ calls # <<>> =>
       /\ job'[h].todo = calls /\ job'[h].who = job[h].who /\ job'[h].text = job[h].text
       /\ job'[h].got = job[h].got /\ job'[h].id = job[h].id /\ job'[h].list = job[h].list

LEMMA GoesNext ==
  ASSUME Types, NEW h \in Handlers, Next1(h), job[h].todo # <<>>
  PROVE  GoesOn(h, Tail(job[h].todo))
  <1>1. job[h] \in Job /\ job[h].todo \in Seq(Calls)
    BY DEF Types, Job
  <1>2. Tail(job[h].todo) \in Seq(Calls)
    BY <1>1, HeadTailProperties
  <1> QED
    BY <1>1, <1>2, Goes DEF Next1, Left, GoesOn

LEMMA TablesStay ==
  ASSUME Tables, Types',
         UNCHANGED <<title, aliases, incidents, subs, sent, doubtful>>,
         \A b \in Admins : bot_state'[b].inc_title_txt = bot_state[b].inc_title_txt
  PROVE  Tables'
  <1>1. \A t, b : Meant(t, b) => Meant(t, b)'
    BY MeantStays
  <1>2. \A u : Given(u) => Given(u)'
    BY GivenStays
  <1>3. Stored'
    BY <1>1, <1>2 DEF Tables, Stored
  <1> QED
    BY <1>3 DEF Tables

(* What a handler stores is meant: its admin was asked for it, or it is    *)
(* doubtful.                                                               *)
LEMMA TextMeant ==
  ASSUME Inv, NEW h \in Handlers, Typed(job[h]), job[h].who \in Admins, NEW b,
         Clean(job[h].who) => sent[job[h].text].for = b
  PROVE  Meant(job[h].text, b)
  <1>1. job[h].text # ""
    BY DialogAssumption DEF Typed
  <1> QED
    BY <1>1 DEF Inv, Doubted, Meant, Typed

LEMMA PutCall ==
  ASSUME Inv, NEW h \in Handlers, NEW a \in Admins, job[h].who = a, Step(h),
         NEW k \in {"await", "ren_target"}, NEW v,
         job[h].todo # <<>>, Head(job[h].todo) = Put(k, v),
         k = "await" => v \in {""} \cup Await, k = "ren_target" => v \in Names \cup {""}
  PROVE  /\ Tables' /\ GoesOn(h, Tail(job[h].todo))
         /\ UNCHANGED <<incidents, subs, sent, astray, doubtful, wanted, clashed>>
         /\ k = "await" => /\ bot_state'[a].await = v
                           /\ bot_state'[a].ren_target = bot_state[a].ren_target
         /\ k = "ren_target" => /\ bot_state'[a].ren_target = v
                                /\ bot_state'[a].await = bot_state[a].await
         /\ bot_state'[a].inc_title_txt = bot_state[a].inc_title_txt
  <1>0. Put(k, v).op = "put" /\ Put(k, v).key = k /\ Put(k, v).val = v
    BY DEF Put
  <1>12. Types /\ Tables
    BY DEF Inv, Tables
  <1>1. SetBotState(h) /\ bot_state' = [bot_state EXCEPT ![a][k] = v]
    <2>1. SetBotState(h)
      BY <1>0, NextCall
    <2>2. bot_state' = [bot_state EXCEPT ![Me(h)][Head(job[h].todo).key] =
            IF Head(job[h].todo).op = "put text" THEN job[h].text ELSE Head(job[h].todo).val]
      BY <2>1 DEF SetBotState
    <2> QED
      BY <1>0, <2>1, <2>2 DEF Me
  <1>2. /\ UNCHANGED <<title, aliases, incidents, subs, sent, astray, doubtful, wanted>>
        /\ UNCHANGED <<doubled, clashed, presses>>
        /\ Next1(h)
    BY <1>1 DEF SetBotState, history
  <1>3. GoesOn(h, Tail(job[h].todo))
    BY <1>2, <1>12, GoesNext
  <1>4. /\ bot_state[a] \in BotState /\ bot_state'[a] = [bot_state[a] EXCEPT ![k] = v]
        /\ \A b \in Admins : b # a => bot_state'[b] = bot_state[b]
    BY <1>1, <1>12 DEF Types
  <1>5. /\ bot_state'[a] \in BotState
        /\ k = "await" => /\ bot_state'[a].await = v
                          /\ bot_state'[a].ren_target = bot_state[a].ren_target
        /\ k = "ren_target" => /\ bot_state'[a].ren_target = v
                               /\ bot_state'[a].await = bot_state[a].await
        /\ bot_state'[a].inc_title_txt = bot_state[a].inc_title_txt
    <2>1. CASE k = "await"
      BY <1>4, <2>1 DEF BotState
    <2>2. CASE k = "ren_target"
      BY <1>4, <2>2 DEF BotState
    <2> QED
      BY <2>1, <2>2
  <1>6. bot_state' \in [Admins -> BotState]
    BY <1>1, <1>4, <1>5, <1>12 DEF Types
  <1>7. Types'
    BY <1>2, <1>3, <1>6, <1>12 DEF Types, GoesOn
  <1>10. \A b \in Admins : bot_state'[b].inc_title_txt = bot_state[b].inc_title_txt
    BY <1>4, <1>5
  <1>11. Tables'
    BY <1>2, <1>7, <1>10, <1>12, TablesStay
  <1> QED
    BY <1>2, <1>3, <1>5, <1>11

LEMMA PutAwait ==
  ASSUME Inv, NEW h \in Handlers, NEW a \in Admins, job[h].who = a, Step(h),
         NEW v \in {""} \cup Await, job[h].todo # <<>>, Head(job[h].todo) = Put("await", v)
  PROVE  /\ Tables' /\ GoesOn(h, Tail(job[h].todo))
         /\ UNCHANGED <<incidents, subs, sent, astray, doubtful, wanted, clashed>>
         /\ bot_state'[a].await = v /\ bot_state'[a].ren_target = bot_state[a].ren_target
         /\ bot_state'[a].inc_title_txt = bot_state[a].inc_title_txt
  <1>1. "await" \in {"await", "ren_target"} /\ "await" # "ren_target"
    OBVIOUS
  <1> QED
    BY <1>1, PutCall, ZenonT(60)

LEMMA PutTarget ==
  ASSUME Inv, NEW h \in Handlers, NEW a \in Admins, job[h].who = a, Step(h),
         NEW v \in Names \cup {""}, job[h].todo # <<>>, Head(job[h].todo) = Put("ren_target", v)
  PROVE  /\ Tables' /\ GoesOn(h, Tail(job[h].todo))
         /\ UNCHANGED <<incidents, subs, sent, astray, doubtful, wanted, clashed>>
         /\ bot_state'[a].ren_target = v /\ bot_state'[a].await = bot_state[a].await
         /\ bot_state'[a].inc_title_txt = bot_state[a].inc_title_txt
  <1>1. "ren_target" \in {"await", "ren_target"} /\ "ren_target" # "await"
    OBVIOUS
  <1> QED
    BY <1>1, PutCall, ZenonT(60)

LEMMA Asking ==
  /\ \A q : asks(Ask(q)) = Ask(q)
  /\ \A n : asks(AskName(n)) = AskName(n)
  /\ \A s : asks(Set(s)) = Home
  /\ asks(Done) = Home /\ asks(Delete) = Home /\ asks(Home) = Home
  <1>1. \A q : Ask(q).act = "ask"
    BY DEF Ask
  <1>2. \A n : AskName(n).act = "ren"
    BY DEF AskName
  <1>3. Home.act = "home" /\ Done.act = "inc:affdone" /\ Delete.act = "sub:del"
    BY DEF Home, Done, Delete
  <1>4. \A s : Set(s).act = "inc:setst"
    BY DEF Set
  <1> QED
    BY <1>1, <1>2, <1>3, <1>4 DEF asks

LEMMA WaitsForNothing ==
  ASSUME NEW s, NEW w, w = Home
  PROVE  Awaits(s, w) <=> s.await = ""
  BY DEF Awaits, Home
LEMMA WaitsForAnswer ==
  ASSUME NEW s, NEW w, NEW q, w = Ask(q)
  PROVE  Awaits(s, w) <=> s.await = q
  BY DEF Awaits, Ask
LEMMA WaitsForName ==
  ASSUME NEW s, NEW w, NEW n, w = AskName(n)
  PROVE  Awaits(s, w) <=> s.await = "ren_name" /\ s.ren_target = n
  BY DEF Awaits, AskName

(* A handler that ends.                                                    *)
LEMMA Ended ==
  ASSUME NEW h, NEW a, GoesOn(h, <<>>), UNCHANGED <<astray, doubtful, wanted>>,
         Clean(a) => Awaits(bot_state'[a], wanted[a])
  PROVE  Moved(h, a)
  <1>1. job'[h] = Idle
    BY DEF GoesOn
  <1>2. Clean(a)' => Awaits(bot_state'[a], wanted'[a])
    BY DEF Clean
  <1> QED
    BY <1>1, <1>2, Zenon DEF Moved

LEMMA ThreeHeads == \A x, y, z : <<x, y, z>> # <<>> /\ Head(<<x, y, z>>) = x
  BY Tuples

LEMMA FourCalls == \A x, y, z, v : <<x, y, z, v>> # <<>>
  BY Tuples

LEMMA SomethingToDo ==
  ASSUME NEW b \in Every, b # Home
  PROVE  handleCallback(b) # <<>>
  <1>1. CASE b \in {Ask(q) : q \in Questions}
    BY <1>1, ButtonCalls, Tuples
  <1>2. CASE b \in {AskName(n) : n \in Names}
    <2>1. PICK n \in Names : b = AskName(n)
      BY <1>2
    <2>2. handleCallback(b) =
            <<Del("ren_target"), Put("ren_target", n), Put("await", "ren_name")>>
      BY <2>1, ButtonCalls
    <2> QED
      BY <2>2
  <1>3. CASE b \in {Set(s) : s \in Statuses}
    BY <1>3, ButtonCalls, Tuples
  <1>4. CASE b = Done
    <2>1. handleCallback(b) =
            <<Call("read title"), Call("create"), Call("feed"), Del("inc_title_txt")>>
      BY <1>4, ButtonCalls
    <2> QED
      BY <2>1, FourCalls
  <1>5. CASE b = Delete
    BY <1>5, ButtonCalls, Tuples
  <1> QED
    BY <1>1, <1>2, <1>3, <1>4, <1>5 DEF Every, Wants

LEMMA Then ==
  /\ \A q \in Questions : Later(Ask(q)) = IF q = "sub_add" THEN Ask(q) ELSE Home
  /\ \A n : Later(AskName(n)) = Home
  /\ Later(Home) = Home
  <1>1. \A q : Ask(q).arg = q /\ Ask(q).act = "ask"
    BY DEF Ask
  <1>2. \A n : AskName(n).act = "ren"
    BY DEF AskName
  <1>3. Home.act = "home"
    BY DEF Home
  <1> QED
    BY <1>1, <1>2, <1>3 DEF Later

LEMMA PressedStep ==
  ASSUME Inv, NEW h \in Handlers, NEW a \in Admins, job[h].who = a, Step(h),
         Pressed(job[h], bot_state[a], wanted[a])
  PROVE  Tables' /\ Moved(h, a)
  <1>1. PICK b \in Every : job[h].todo = onCallback(b) /\ (Clean(a) => wanted[a] = asks(b))
    BY DEF Pressed
  <1>2. /\ Tables' /\ GoesOn(h, handleCallback(b))
        /\ UNCHANGED <<astray, doubtful, wanted>> /\ bot_state'[a].await = ""
    <2>1. /\ job[h].todo # <<>> /\ Head(job[h].todo) = Put("await", "")
          /\ Tail(job[h].todo) = handleCallback(b)
      BY <1>1, PressedCalls, OpOf
    <2> QED
      BY <2>1, PutAwait
  <1>3. Clean(a)' <=> Clean(a)
    BY <1>2 DEF Clean
  <1>4. CASE b = Home
    <2>1. handleCallback(b) = <<>> /\ asks(b) = Home
      BY <1>4, Asking, ButtonCalls
    <2> QED
      BY <1>1, <1>2, <2>1, Ended, WaitsForNothing
  <1>5. CASE b # Home
    <2>1. handleCallback(b) # <<>>
      BY <1>5, SomethingToDo
    <2>2. Picked(job[h], bot_state[a], wanted[a])'
      BY <1>1, <1>2, <1>3, <1>5, <2>1 DEF Picked, GoesOn
    <2> QED
      BY <1>2, <2>1, <2>2 DEF Moved, Stage, GoesOn
  <1> QED
    BY <1>4, <1>5

LEMMA RenamingStep ==
  ASSUME Inv, NEW h \in Handlers, NEW a \in Admins, job[h].who = a, Step(h),
         \/ Renaming(job[h], bot_state[a], wanted[a])
         \/ Renamed(job[h], bot_state[a], wanted[a])
         \/ Added(job[h], bot_state[a], wanted[a])
  PROVE  Tables' /\ Moved(h, a)
  <1>1. CASE Renaming(job[h], bot_state[a], wanted[a])
    <2>1. PICK n \in Names : /\ job[h].todo = <<Put("ren_target", n), Put("await", "ren_name")>>
                             /\ Clean(a) => wanted[a] = AskName(n)
      BY <1>1 DEF Renaming
    <2>4. /\ job[h].todo # <<>> /\ Head(job[h].todo) = Put("ren_target", n)
          /\ Tail(job[h].todo) = <<Put("await", "ren_name")>>
      BY <2>1, Tuples
    <2>2. /\ Tables' /\ GoesOn(h, <<Put("await", "ren_name")>>)
          /\ UNCHANGED <<astray, doubtful, wanted>> /\ bot_state'[a].ren_target = n
      BY <2>4, PutTarget
    <2>3. Renamed(job[h], bot_state[a], wanted[a])'
      BY <2>1, <2>2, Tuples DEF Renamed, GoesOn, Clean
    <2> QED
      BY <2>2, <2>3, Tuples DEF Moved, Stage, GoesOn
  <1>2. CASE Renamed(job[h], bot_state[a], wanted[a])
    <2>1. PICK n \in Names : /\ job[h].todo = <<Put("await", "ren_name")>>
                             /\ Clean(a) => wanted[a] = AskName(n) /\ bot_state[a].ren_target = n
      BY <1>2 DEF Renamed
    <2>3. /\ job[h].todo # <<>> /\ Head(job[h].todo) = Put("await", "ren_name")
          /\ Tail(job[h].todo) = <<>> /\ "ren_name" \in {""} \cup Await
      BY <2>1, Tuples DEF Await
    <2>2. /\ Tables' /\ GoesOn(h, <<>>) /\ UNCHANGED <<astray, doubtful, wanted>>
          /\ bot_state'[a].await = "ren_name"
          /\ bot_state'[a].ren_target = bot_state[a].ren_target
      BY <2>3, PutAwait
    <2> QED
      BY <2>1, <2>2, Ended, WaitsForName
  <1>3. CASE Added(job[h], bot_state[a], wanted[a])
    <2>1. /\ job[h].todo = <<Put("await", "sub_add")>>
          /\ Clean(a) => wanted[a] = Ask("sub_add")
      BY <1>3 DEF Added
    <2>3. /\ job[h].todo # <<>> /\ Head(job[h].todo) = Put("await", "sub_add")
          /\ Tail(job[h].todo) = <<>> /\ "sub_add" \in {""} \cup Await
      BY <2>1, Tuples DEF Await, Questions
    <2>2. /\ Tables' /\ GoesOn(h, <<>>) /\ UNCHANGED <<astray, doubtful, wanted>>
          /\ bot_state'[a].await = "sub_add"
      BY <2>3, PutAwait
    <2> QED
      BY <2>1, <2>2, Ended, WaitsForAnswer
  <1> QED
    BY <1>1, <1>2, <1>3

-----------------------------------------------------------------------------
(* Reading calls.                                                          *)

LEMMA EmptyList == <<>> \in Seq(Links) /\ IsInjective(<<>>) /\ ToSet(<<>>) = {}
  <1>1. <<>> \in Seq(Links) /\ Len(<<>>) = 0
    OBVIOUS
  <1>2. DOMAIN <<>> = {}
    BY <1>1, LenProperties
  <1>3. IsInjective(<<>>)
    BY <1>2 DEF IsInjective
  <1>4. ToSet(<<>>) = {}
    BY <1>2 DEF ToSet
  <1> QED
    BY <1>1, <1>3, <1>4

LEMMA Reading ==
  ASSUME Tables, NEW h \in Handlers, NEW j \in Job, NEW calls \in Seq(Calls), Go(h, j, calls),
         UNCHANGED <<tables, presses, sent, wanted, astray, doubtful>>, clashed' \in BOOLEAN,
         doubled' \subseteq Texts \cup {""}
  PROVE  Tables'
  <1>1. job' \in [Handlers -> Job] /\ \A g \in Handlers : g # h => job'[g] = job[g]
    BY Goes DEF Tables
  <1>2. Types'
    BY <1>1 DEF Tables, Types, tables
  <1> QED
    BY <1>1, <1>2, TablesStay DEF tables

LEMMA TypesNow == Inv => Types /\ Tables /\ Stored
  BY DEF Inv, Tables

LEMMA ReadAwait ==
  ASSUME Inv, NEW h \in Handlers, NEW a \in Admins, job[h].who = a, Step(h),
         job[h].todo = onUpdate
  PROVE  /\ Tables' /\ UNCHANGED <<bot_state, incidents, sent, wanted, astray, doubtful>>
         /\ bot_state[a].await \in {""} \cup Await
         /\ GoesOn(h, IF bot_state[a].await = "" THEN <<>>
                      ELSE IF job[h].text = "" THEN <<Del("await")>>
                      ELSE handleAwait(bot_state[a].await))
  <1> DEFINE q == bot_state[a].await
             calls == IF q = "" THEN <<>>
                      ELSE IF job[h].text = "" THEN <<Del("await")>> ELSE handleAwait(q)
  <1>1. /\ job[h].todo # <<>> /\ Head(job[h].todo) = Call("read await")
        /\ Head(job[h].todo).op = "read await"
    <2>1. job[h].todo = <<Call("read await")>>
      BY DEF onUpdate
    <2>2. job[h].todo # <<>> /\ Head(job[h].todo) = Call("read await")
      BY <2>1, Tuples
    <2> QED
      BY <2>2, OpOf
  <1>2. GetAwait(h)
    BY <1>1, NextCall
  <1>3. Go(h, job[h], calls) /\ UNCHANGED <<tables, history>>
    BY <1>2 DEF GetAwait, Me
  <1>4. q \in {""} \cup Await /\ job[h] \in Job
    BY TypesNow DEF Types, BotState
  <1>5. calls \in Seq(Calls)
    <2>1. q # "" => handleAwait(q) \in Seq(Calls)
      BY <1>4, AnswerCalls
    <2>2. Del("await") \in Calls
      BY CallsAre DEF State
    <2>3. <<Del("await")>> \in Seq(Calls) /\ <<>> \in Seq(Calls)
      BY <2>2, TupleTypes
    <2> QED
      BY <2>1, <2>3
  <1> HIDE DEF calls
  <1>6. GoesOn(h, calls)
    BY <1>3, <1>4, <1>5, Goes, TypesNow DEF GoesOn
  <1>8. clashed' \in BOOLEAN /\ doubled' \subseteq Texts \cup {""}
    BY <1>3, TypesNow DEF Types, history
  <1>9. Tables'
    BY <1>3, <1>4, <1>5, <1>8, Reading, TypesNow DEF history
  <1> QED
    BY <1>3, <1>4, <1>6, <1>9 DEF calls, tables, history

LEMMA CommandedStep ==
  ASSUME Inv, NEW h \in Handlers, NEW a \in Admins, job[h].who = a, Step(h),
         Commanded(job[h], bot_state[a], wanted[a])
  PROVE  Tables' /\ Moved(h, a)
  <1>1. job[h].todo = onUpdate /\ job[h].text = "" /\ (Clean(a) => wanted[a] = Home)
    BY DEF Commanded
  <1>2. /\ Tables' /\ UNCHANGED <<bot_state, incidents, sent, wanted, astray, doubtful>>
        /\ GoesOn(h, IF bot_state[a].await = "" THEN <<>> ELSE <<Del("await")>>)
    BY <1>1, ReadAwait
  <1>3. CASE bot_state[a].await = ""
    <2>1. GoesOn(h, <<>>)
      BY <1>2, <1>3
    <2>2. Clean(a) => Awaits(bot_state'[a], wanted[a])
      BY <1>1, <1>2, <1>3, WaitsForNothing
    <2> QED
      BY <1>2, <2>1, <2>2, Ended
  <1>4. CASE bot_state[a].await # ""
    <2>1. GoesOn(h, <<Del("await")>>) /\ <<Del("await")>> # <<>>
      BY <1>2, <1>4, Tuples
    <2>2. <<Del("await")>> = onCallback(Home) /\ asks(Home) = Home /\ Home \in Every
      <3>1. <<Del("await")>> \o <<>> = <<Del("await")>>
        <4>1. Del("await") \in Calls
          BY CallsAre DEF State
        <4>2. <<Del("await")>> \in Seq(Calls)
          BY <4>1, TupleTypes
        <4> QED
          BY <4>2, ConcatEmptySeq
      <3> QED
        BY <3>1, ButtonCalls, Asking DEF onCallback, Every, Wants
    <2>3. job'[h].todo = onCallback(Home) /\ job'[h].who = a
      BY <2>1, <2>2 DEF GoesOn
    <2>4. Clean(a)' => wanted'[a] = asks(Home)
      BY <1>1, <1>2, <2>2 DEF Clean
    <2>5. Pressed(job[h], bot_state[a], wanted[a])'
      BY <2>2, <2>3, <2>4 DEF Pressed
    <2> QED
      BY <1>2, <2>3, <2>5 DEF Moved, Stage
  <1> QED
    BY <1>3, <1>4

LEMMA TextedStep ==
  ASSUME Inv, NEW h \in Handlers, NEW a \in Admins, job[h].who = a, Step(h),
         Texted(job[h], bot_state[a], wanted[a])
  PROVE  Tables' /\ Moved(h, a)
  <1> DEFINE q == bot_state[a].await
             f == sent[job[h].text].for
  <1>1. /\ job[h].todo = onUpdate /\ Typed(job[h])
        /\ Clean(a) => Awaits(bot_state[a], f) /\ wanted[a] = Later(f)
    BY DEF Texted
  <1>2. job[h].text # "" /\ f \in Wants
    BY <1>1, DialogAssumption, TypesNow DEF Typed, Types, Sent
  <1>3. /\ Tables' /\ UNCHANGED <<bot_state, incidents, sent, wanted, astray, doubtful>>
        /\ q \in {""} \cup Await
        /\ GoesOn(h, IF q = "" THEN <<>> ELSE handleAwait(q))
    BY <1>1, <1>2, ReadAwait
  <1>4. Clean(a) => IF q = "" THEN f = Home ELSE f = AskedBy(q, bot_state[a])
    <2> SUFFICES ASSUME Clean(a)
                 PROVE  IF q = "" THEN f = Home ELSE f = AskedBy(q, bot_state[a])
      OBVIOUS
    <2>0. Awaits(bot_state[a], f)
      BY <1>1
    <2> HIDE DEF f
    <2>1. CASE f = Home
      BY <2>0, <2>1, WaitsForNothing
    <2>2. CASE f \in {Ask(r) : r \in Questions}
      <3>1. PICK r \in Questions : f = Ask(r)
        BY <2>2
      <3>2. q = r
        BY <2>0, <3>1, WaitsForAnswer
      <3> QED
        BY <3>1, <3>2 DEF AskedBy, Questions
    <2>3. CASE f \in {AskName(n) : n \in Names}
      <3>1. PICK n \in Names : f = AskName(n)
        BY <2>3
      <3>2. q = "ren_name" /\ bot_state[a].ren_target = n
        BY <2>0, <3>1, WaitsForName
      <3> QED
        BY <3>1, <3>2 DEF AskedBy
    <2> QED
      BY <1>2, <2>1, <2>2, <2>3 DEF Wants
  <1>5. CASE q = ""
    <2>1. GoesOn(h, <<>>)
      BY <1>3, <1>5
    <2>2. Clean(a) => Awaits(bot_state'[a], wanted[a])
      BY <1>1, <1>3, <1>4, <1>5, Then, WaitsForNothing
    <2> QED
      BY <1>3, <2>1, <2>2, Ended
  <1>6. CASE q # ""
    <2>1. q \in Await /\ GoesOn(h, handleAwait(q)) /\ handleAwait(q) # <<>>
      BY <1>3, <1>6, AnswerCalls
    <2>2. job'[h].todo = handleAwait(q) /\ job'[h].who = a /\ job'[h].text = job[h].text
      BY <2>1 DEF GoesOn
    <2>3. Typed(job[h])'
      BY <1>1, <1>3, <2>2 DEF Typed
    <2>4. Clean(a)' => /\ sent'[job'[h].text].for = AskedBy(q, bot_state'[a])
                       /\ wanted'[a] = Later(sent'[job'[h].text].for)
      BY <1>1, <1>3, <1>4, <1>6, <2>2 DEF Clean
    <2>5. Answering(job[h], bot_state[a], wanted[a])'
      BY <2>1, <2>2, <2>3, <2>4 DEF Answering
    <2> QED
      BY <1>3, <2>2, <2>5 DEF Moved, Stage
  <1> QED
    BY <1>5, <1>6

LEMMA AnsweringStep ==
  ASSUME Inv, NEW h \in Handlers, NEW a \in Admins, job[h].who = a, Step(h),
         Answering(job[h], bot_state[a], wanted[a])
  PROVE  Tables' /\ Moved(h, a)
  <1>1. PICK q \in Await :
          /\ job[h].todo = handleAwait(q) /\ Typed(job[h])
          /\ Clean(a) => /\ sent[job[h].text].for = AskedBy(q, bot_state[a])
                         /\ wanted[a] = Later(sent[job[h].text].for)
    BY DEF Answering
  <1>2. /\ job[h].todo # <<>> /\ Head(job[h].todo) = Put("await", "")
        /\ Tail(job[h].todo) = Answer(q)
    BY <1>1, AnswerCalls, OpOf
  <1>3. /\ Tables' /\ GoesOn(h, Answer(q))
        /\ UNCHANGED <<incidents, sent, wanted, astray, doubtful>>
        /\ bot_state'[a].await = "" /\ bot_state'[a].ren_target = bot_state[a].ren_target
        /\ bot_state'[a].inc_title_txt = bot_state[a].inc_title_txt
    BY <1>2, PutAwait
  <1>4. job'[h].todo = Answer(q) /\ job'[h].who = a /\ job'[h].text = job[h].text
    BY <1>3, AnswerType DEF GoesOn
  <1>5. Typed(job[h])'
    BY <1>1, <1>3, <1>4 DEF Typed
  <1>6. Clean(a)' => /\ sent'[job'[h].text].for = AskedBy(q, bot_state'[a])
                     /\ wanted'[a] = Later(sent'[job'[h].text].for)
                     /\ bot_state'[a].await = ""
    BY <1>1, <1>3, <1>4 DEF Clean, AskedBy
  <1>7. Answered(job[h], bot_state[a], wanted[a])'
    BY <1>4, <1>5, <1>6 DEF Answered
  <1> QED
    BY <1>3, <1>4, <1>7 DEF Moved, Stage

-----------------------------------------------------------------------------
(* Answers.                                                                *)

LEMMA ThreeCalls ==
  ASSUME NEW t, NEW x, NEW y, NEW z, t = <<x, y, z>>
  PROVE  t # <<>> /\ Head(t) = x /\ Tail(t) = <<y, z>>
  OBVIOUS

LEMMA TitleStep ==
  ASSUME Inv, NEW h \in Handlers, NEW a \in Admins, job[h].who = a, Step(h),
         job[h].todo = Answer("page_title"), Typed(job[h]),
         Clean(a) => /\ sent[job[h].text].for = Ask("page_title")
                     /\ wanted[a] = Later(sent[job[h].text].for)
                     /\ bot_state[a].await = ""
  PROVE  Tables' /\ Moved(h, a)
  <1>1. job[h].todo = <<Call("save title")>>
    BY DEF Answer
  <1>2. /\ job[h].todo # <<>> /\ Head(job[h].todo) = Call("save title")
        /\ Tail(job[h].todo) = <<>>
    BY <1>1, Tuples
  <1>3. Head(job[h].todo).op = "save title"
    BY <1>2, OpOf
  <1>4. SetTitle(h)
    BY <1>3, NextCall
  <1>5. /\ title' = job[h].text /\ Next1(h)
        /\ UNCHANGED <<bot_state, aliases, incidents, subs, history>>
    BY <1>4 DEF SetTitle
  <1>6. GoesOn(h, <<>>)
    BY <1>2, <1>5, GoesNext, TypesNow
  <1>9. Types'
    BY <1>5, <1>6, TypesNow DEF Types, history, GoesOn, Typed
  <1>10. Meant(title', Ask("page_title"))
    BY <1>5, TextMeant
  <1>11. /\ \A t, b : Meant(t, b) => Meant(t, b)'
         /\ \A u : Given(u) => Given(u)'
    BY <1>5, MeantStays, GivenStays DEF history
  <1>12. Stored'
    BY <1>5, <1>10, <1>11, TypesNow DEF Stored, history
  <1>13. Clean(a) => Awaits(bot_state'[a], wanted[a])
    BY <1>5, Then, WaitsForNothing DEF Questions
  <1>14. Moved(h, a)
    BY <1>5, <1>6, <1>13, Ended DEF history
  <1> QED
    BY <1>9, <1>12, <1>14 DEF Tables

LEMMA NameStep ==
  ASSUME Inv, NEW h \in Handlers, NEW a \in Admins, job[h].who = a, Step(h),
         job[h].todo = Answer("ren_name"), Typed(job[h]),
         Clean(a) => /\ sent[job[h].text].for = AskName(bot_state[a].ren_target)
                     /\ wanted[a] = Later(sent[job[h].text].for)
                     /\ bot_state[a].await = ""
  PROVE  Tables' /\ Moved(h, a)
  <1> DEFINE n == bot_state[a].ren_target
             calls == <<Del("ren_target"), Call("rename")>>
             j == [job[h] EXCEPT !.got = n]
  <1>1. job[h].todo = <<Call("read target"), Del("ren_target"), Call("rename")>>
    BY DEF Answer
  <1>2. /\ job[h].todo # <<>> /\ Head(job[h].todo) = Call("read target")
        /\ Tail(job[h].todo) = calls /\ calls # <<>>
    <2>1. job[h].todo # <<>> /\ Head(job[h].todo) = Call("read target")
      BY <1>1, ThreeHeads
    <2>4. \A x, y, z : Tail(<<x, y, z>>) = <<y, z>>
      BY Tuples
    <2>2. Tail(job[h].todo) = calls
      BY <1>1, <2>4
    <2>3. calls # <<>>
      BY Tuples
    <2> QED
      BY <2>1, <2>2, <2>3
  <1>3. Head(job[h].todo).op = "read target"
    BY <1>2, OpOf
  <1>4. GetTarget(h)
    BY <1>3, NextCall
  <1>5. Go(h, j, calls) /\ UNCHANGED <<tables, history>>
    BY <1>2, <1>4 DEF GetTarget, Me, Left
  <1>6. n \in Names \cup {""} /\ job[h] \in Job
    BY TypesNow DEF Types, BotState
  <1>7. /\ j \in Job /\ j.who = a /\ j.text = job[h].text /\ j.got = n
    BY <1>6 DEF Job
  <1>8. calls \in Seq(Calls)
    <2>1. Del("ren_target") \in Calls /\ Call("rename") \in Calls
      BY CallsAre DEF State, Ops
    <2> QED
      BY <2>1, TupleTypes
  <1> HIDE DEF j
  <1>9. /\ job'[h].todo = calls /\ job'[h].who = a /\ job'[h].text = job[h].text
        /\ job'[h].got = n
    BY <1>2, <1>5, <1>7, <1>8, Goes, TypesNow
  <1>11. Tables'
    <2>1. clashed' \in BOOLEAN /\ doubled' \subseteq Texts \cup {""}
      BY <1>5, TypesNow DEF Types, history
    <2> QED
      BY <1>5, <1>7, <1>8, <2>1, Reading, TypesNow DEF history
  <1>12. Typed(job[h])'
    BY <1>5, <1>9 DEF Typed, history
  <1>13. Clean(a)' => /\ sent'[job'[h].text].for = AskName(job'[h].got)
                      /\ wanted'[a] = Home /\ bot_state'[a].await = ""
    BY <1>5, <1>9, Then DEF Clean, history, tables
  <1>14. Targeting(job[h], bot_state[a], wanted[a])'
    BY <1>6, <1>9, <1>12, <1>13 DEF Targeting, Rests
  <1> QED
    BY <1>9, <1>11, <1>14 DEF Moved, Stage

LEMMA IncidentTitleStep ==
  ASSUME Inv, NEW h \in Handlers, NEW a \in Admins, job[h].who = a, Step(h),
         job[h].todo = Answer("inc_title"), Typed(job[h]),
         Clean(a) => /\ sent[job[h].text].for = Ask("inc_title")
                     /\ wanted[a] = Later(sent[job[h].text].for)
                     /\ bot_state[a].await = ""
  PROVE  Tables' /\ Moved(h, a)
  <1> DEFINE t == job[h].text
  <1>1. job[h].todo = <<PutText("inc_title_txt")>>
    BY DEF Answer
  <1>2. /\ job[h].todo # <<>> /\ Head(job[h].todo) = PutText("inc_title_txt")
        /\ Tail(job[h].todo) = <<>>
    BY <1>1, Tuples
  <1>3. Head(job[h].todo).op = "put text" /\ Head(job[h].todo).key = "inc_title_txt"
    BY <1>2, OpOf
  <1>4. SetBotState(h)
    BY <1>3, NextCall
  <1>5. /\ bot_state' = [bot_state EXCEPT ![a]["inc_title_txt"] = t] /\ Next1(h)
        /\ UNCHANGED <<title, aliases, incidents, subs, history>>
    <2>1. bot_state' = [bot_state EXCEPT ![Me(h)][Head(job[h].todo).key] =
            IF Head(job[h].todo).op = "put text" THEN job[h].text ELSE Head(job[h].todo).val]
      BY <1>4 DEF SetBotState
    <2> QED
      BY <1>3, <1>4, <2>1 DEF SetBotState, Me
  <1>6. GoesOn(h, <<>>)
    BY <1>2, <1>5, GoesNext, TypesNow
  <1>8. /\ bot_state[a] \in BotState /\ t \in Texts /\ sent[t].who = a
        /\ bot_state'[a] = [bot_state[a] EXCEPT !["inc_title_txt"] = t]
        /\ \A b \in Admins : b # a => bot_state'[b] = bot_state[b]
    BY <1>5, TypesNow DEF Types, Typed
  <1>9. /\ bot_state'[a] \in BotState /\ bot_state'[a].inc_title_txt = t
        /\ bot_state'[a].await = bot_state[a].await
    BY <1>8 DEF BotState
  <1>10. bot_state' \in [Admins -> BotState]
    BY <1>5, <1>8, <1>9, TypesNow DEF Types
  <1>11. Types'
    BY <1>5, <1>6, <1>10, TypesNow DEF Types, history, GoesOn
  <1>12. /\ \A x, b : Meant(x, b) => Meant(x, b)'
         /\ \A u : Given(u) => Given(u)'
    BY <1>5, MeantStays, GivenStays DEF history
  <1>13. Meant(t, Ask("inc_title"))
    BY TextMeant
  <1>14. Stored'
    <2>1. ASSUME NEW b \in Admins, bot_state'[b].inc_title_txt # ""
          PROVE  /\ Meant(bot_state[b].inc_title_txt, Ask("inc_title"))'
                 /\ sent'[bot_state'[b].inc_title_txt].who = b
      <3>1. CASE b = a
        BY <1>5, <1>8, <1>9, <1>12, <1>13, <3>1 DEF history
      <3>2. CASE b # a
        BY <1>5, <1>8, <1>12, <2>1, <3>2, TypesNow DEF Stored, history
      <3> QED
        BY <3>1, <3>2
    <2> QED
      BY <1>5, <1>12, <2>1, TypesNow DEF Stored, history
  <1>17. Clean(a) => Awaits(bot_state'[a], wanted[a])
    BY <1>9, Then, WaitsForNothing DEF Questions
  <1>18. Moved(h, a)
    BY <1>5, <1>6, <1>17, Ended DEF history
  <1> QED
    BY <1>11, <1>14, <1>18 DEF Tables

(* Reading the list of links.                                              *)
LEMMA ReadList ==
  ASSUME Inv, NEW h \in Handlers, NEW a \in Admins, job[h].who = a, Step(h),
         NEW calls \in Seq(Calls), calls # <<>>, job[h].todo # <<>>,
         Head(job[h].todo) = Call("read list"), Tail(job[h].todo) = calls
  PROVE  /\ Tables' /\ UNCHANGED <<bot_state, sent, wanted, astray, doubtful>>
         /\ job'[h].todo = calls /\ job'[h].who = a /\ job'[h].text = job[h].text
         /\ Listed(job[h])'
  <1>1. Head(job[h].todo).op = "read list"
    BY OpOf
  <1>2. SubscriptionURLs(h)
    BY <1>1, NextCall
  <1>3. PICK l \in {subs} \cup (IF "read" \in Faults THEN {<<>>} ELSE {}) :
          Go(h, [job[h] EXCEPT !.list = l], calls)
    BY <1>2 DEF SubscriptionURLs, Left
  <1>4. /\ UNCHANGED <<tables, presses, sent, wanted, astray, doubtful>>
        /\ UNCHANGED doubled
        /\ clashed' = (clashed \/ \E g \in Handlers : At(g, "add") \/ At(g, "remove"))
    BY <1>2 DEF SubscriptionURLs
  <1>5. l \in Seq(Links) /\ IsInjective(l) /\ ("read" \notin Faults => l = subs) /\ ToSet(l) \subseteq ToSet(subs)
    BY EmptyList, TypesNow DEF Types
  <1> DEFINE j == [job[h] EXCEPT !.list = l]
  <1>6. j \in Job /\ j.who = a /\ j.text = job[h].text /\ j.list = l
    BY <1>5, TypesNow DEF Types, Job
  <1>7. Go(h, j, calls)
    BY <1>3
  <1> HIDE DEF j
  <1>8. /\ job'[h].todo = calls /\ job'[h].who = a /\ job'[h].text = job[h].text
        /\ job'[h].list = l
    BY <1>6, <1>7, Goes, TypesNow
  <1>10. clashed' \in BOOLEAN /\ (~clashed' => ~clashed) /\ doubled' \subseteq Texts \cup {""}
    BY <1>4, TypesNow DEF Types
  <1>11. Tables'
    BY <1>4, <1>6, <1>7, <1>10, Reading, TypesNow
  <1>12. \A u \in ToSet(l) : Given(u)'
    BY <1>4, <1>5, GivenStays, TypesNow DEF Stored
  <1>13. Listed(job[h])'
    BY <1>4, <1>5, <1>8, <1>12 DEF Listed, tables
  <1> QED
    BY <1>4, <1>8, <1>11, <1>13 DEF tables

LEMMA LinkStep ==
  ASSUME Inv, NEW h \in Handlers, NEW a \in Admins, job[h].who = a, Step(h),
         job[h].todo = Answer("sub_add"), Typed(job[h]),
         Clean(a) => /\ sent[job[h].text].for = Ask("sub_add")
                     /\ wanted[a] = Later(sent[job[h].text].for)
  PROVE  Tables' /\ Moved(h, a)
  <1> DEFINE calls == <<Call("add"), Put("await", "sub_add")>>
  <1>1. job[h].todo = <<Call("read list"), Call("add"), Put("await", "sub_add")>>
    BY DEF Answer
  <1>2. /\ job[h].todo # <<>> /\ Head(job[h].todo) = Call("read list")
        /\ Tail(job[h].todo) = calls /\ calls # <<>>
    <2>1. job[h].todo # <<>> /\ Head(job[h].todo) = Call("read list")
      BY <1>1, ThreeHeads
    <2>4. \A x, y, z : Tail(<<x, y, z>>) = <<y, z>>
      BY Tuples
    <2>2. Tail(job[h].todo) = calls
      BY <1>1, <2>4
    <2>3. calls # <<>>
      BY Tuples
    <2> QED
      BY <2>1, <2>2, <2>3
  <1>3. calls \in Seq(Calls)
    <2>1. Call("add") \in Calls /\ Put("await", "sub_add") \in Calls
      BY CallsAre DEF State, Ops, Await, Questions
    <2> QED
      BY <2>1, TupleTypes
  <1>4. /\ Tables' /\ UNCHANGED <<bot_state, sent, wanted, astray, doubtful>>
        /\ job'[h].todo = calls /\ job'[h].who = a /\ job'[h].text = job[h].text
        /\ Listed(job[h])'
    BY <1>2, <1>3, ReadList
  <1>5. Typed(job[h])'
    BY <1>4 DEF Typed
  <1>6. Clean(a)' => sent'[job'[h].text].for = Ask("sub_add") /\ wanted'[a] = Ask("sub_add")
    BY <1>4, Then DEF Clean, Questions
  <1>7. Adding(job[h], bot_state[a], wanted[a])'
    BY <1>4, <1>5, <1>6 DEF Adding
  <1> QED
    BY <1>4, <1>7 DEF Moved, Stage

LEMMA AnsweredStep ==
  ASSUME Inv, NEW h \in Handlers, NEW a \in Admins, job[h].who = a, Step(h),
         Answered(job[h], bot_state[a], wanted[a])
  PROVE  Tables' /\ Moved(h, a)
  <1>1. PICK q \in Await :
          /\ job[h].todo = Answer(q) /\ Typed(job[h])
          /\ Clean(a) => /\ sent[job[h].text].for = AskedBy(q, bot_state[a])
                         /\ wanted[a] = Later(sent[job[h].text].for)
                         /\ bot_state[a].await = ""
    BY DEF Answered
  <1>2. CASE q = "page_title"
    BY <1>1, <1>2, TitleStep DEF AskedBy
  <1>3. CASE q = "ren_name"
    BY <1>1, <1>3, NameStep DEF AskedBy
  <1>4. CASE q = "inc_title"
    BY <1>1, <1>4, IncidentTitleStep DEF AskedBy
  <1>5. CASE q = "sub_add"
    BY <1>1, <1>5, LinkStep DEF AskedBy
  <1> QED
    BY <1>2, <1>3, <1>4, <1>5 DEF Await, Questions

LEMMA AliasStep ==
  ASSUME Inv, NEW h \in Handlers, NEW a \in Admins, job[h].who = a, Step(h),
         job[h].todo = <<Call("rename")>>, Typed(job[h]), job[h].got \in Names \cup {""},
         Clean(a) => sent[job[h].text].for = AskName(job[h].got),
         Rests(job[h], bot_state[a], wanted[a])
  PROVE  Tables' /\ Moved(h, a)
  <1> DEFINE n == job[h].got
  <1>1. /\ job[h].todo # <<>> /\ Head(job[h].todo) = Call("rename")
        /\ Tail(job[h].todo) = <<>>
    BY Tuples
  <1>2. Head(job[h].todo).op = "rename"
    BY <1>1, OpOf
  <1>3. SetAlias(h)
    BY <1>2, NextCall
  <1>4. /\ aliases' = IF n = "" THEN aliases ELSE [aliases EXCEPT ![n] = job[h].text]
        /\ Next1(h) /\ UNCHANGED <<bot_state, title, incidents, subs, history>>
    BY <1>3 DEF SetAlias
  <1>5. GoesOn(h, <<>>)
    BY <1>1, <1>4, GoesNext, TypesNow
  <1>8. aliases' \in [Names -> Texts \cup {""}]
    BY <1>4, TypesNow DEF Types, Typed
  <1>9. Types'
    BY <1>4, <1>5, <1>8, TypesNow DEF Types, history, GoesOn
  <1>10. Meant(job[h].text, AskName(n))
    BY TextMeant
  <1>11. /\ \A t, b : Meant(t, b) => Meant(t, b)'
         /\ \A u : Given(u) => Given(u)'
    BY <1>4, MeantStays, GivenStays DEF history
  <1>12. \A m \in Names : aliases'[m] # "" => Meant(aliases'[m], AskName(m))
    BY <1>4, <1>10, TypesNow DEF Stored, Types
  <1>13. Stored'
    BY <1>4, <1>11, <1>12, TypesNow DEF Stored, history
  <1>14. Clean(a) => Awaits(bot_state'[a], wanted[a])
    BY <1>4, WaitsForNothing DEF Rests
  <1>15. Moved(h, a)
    BY <1>4, <1>5, <1>14, Ended DEF history
  <1> QED
    BY <1>9, <1>13, <1>15 DEF Tables

LEMMA TargetingStep ==
  ASSUME Inv, NEW h \in Handlers, NEW a \in Admins, job[h].who = a, Step(h),
         Targeting(job[h], bot_state[a], wanted[a])
  PROVE  Tables' /\ Moved(h, a)
  <1>1. /\ Typed(job[h]) /\ job[h].got \in Names \cup {""}
        /\ Clean(a) => sent[job[h].text].for = AskName(job[h].got)
        /\ Rests(job[h], bot_state[a], wanted[a])
    BY DEF Targeting
  <1>2. CASE job[h].todo = <<Call("rename")>>
    BY <1>1, <1>2, AliasStep
  <1>3. CASE job[h].todo = <<Del("ren_target"), Call("rename")>>
    <2>1. job[h].todo = <<Put("ren_target", ""), Call("rename")>>
      BY <1>3, OpOf
    <2>2. /\ job[h].todo # <<>> /\ Head(job[h].todo) = Put("ren_target", "")
          /\ Tail(job[h].todo) = <<Call("rename")>>
      BY <2>1, Tuples
    <2>3. /\ Tables' /\ GoesOn(h, <<Call("rename")>>)
          /\ UNCHANGED <<sent, wanted, astray, doubtful>> /\ bot_state'[a].await = bot_state[a].await
      BY <2>2, PutTarget
    <2>4. <<Call("rename")>> # <<>>
      BY Tuples
    <2>5. /\ job'[h].todo = <<Call("rename")>> /\ job'[h].who = a
          /\ job'[h].text = job[h].text /\ job'[h].got = job[h].got
      BY <2>3, <2>4 DEF GoesOn
    <2>6. Typed(job[h])' /\ job'[h].got \in Names \cup {""}
      BY <1>1, <2>3, <2>5 DEF Typed
    <2>7. Clean(a)' => sent'[job'[h].text].for = AskName(job'[h].got)
      BY <1>1, <2>3, <2>5 DEF Clean
    <2>8. Rests(job[h], bot_state[a], wanted[a])'
      BY <1>1, <2>3, <2>5 DEF Rests, Clean
    <2>9. Targeting(job[h], bot_state[a], wanted[a])'
      BY <2>5, <2>6, <2>7, <2>8 DEF Targeting
    <2> QED
      BY <2>3, <2>5, <2>9 DEF Moved, Stage
  <1> QED
    BY <1>2, <1>3 DEF Targeting

-----------------------------------------------------------------------------
(* Changes of the list.                                                    *)

LEMMA ListWritten ==
  ASSUME Inv, NEW h \in Handlers,
         job[h].todo # <<>>, Head(job[h].todo).op \in {"add", "remove"}, Next1(h),
         subs' \in Seq(Links), IsInjective(subs'), \A u \in ToSet(subs') : Given(u),
         UNCHANGED <<bot_state, title, aliases, incidents, history>>
  PROVE  Tables' /\ GoesOn(h, Tail(job[h].todo))
  <1>1. GoesOn(h, Tail(job[h].todo))
    BY GoesNext, TypesNow
  <1>4. Types'
    BY <1>1, TypesNow DEF Types, history, GoesOn
  <1>5. /\ \A t, b : Meant(t, b) => Meant(t, b)'
        /\ \A u : Given(u) => Given(u)'
    BY MeantStays, GivenStays DEF history
  <1>6. Stored'
    BY <1>5, TypesNow DEF Stored, history
  <1> QED
    BY <1>1, <1>4, <1>6 DEF Tables

LEMMA AddingStep ==
  ASSUME Inv, NEW h \in Handlers, NEW a \in Admins, job[h].who = a, Step(h),
         Adding(job[h], bot_state[a], wanted[a])
  PROVE  Tables' /\ Moved(h, a)
  <1> DEFINE u == UrlOf[job[h].text]
  <1>1. /\ job[h].todo = <<Call("add"), Put("await", "sub_add")>>
        /\ Typed(job[h]) /\ Listed(job[h])
        /\ Clean(a) => sent[job[h].text].for = Ask("sub_add") /\ wanted[a] = Ask("sub_add")
    BY DEF Adding
  <1>2. /\ job[h].todo # <<>> /\ Head(job[h].todo) = Call("add")
        /\ Tail(job[h].todo) = <<Put("await", "sub_add")>>
    BY <1>1, Tuples
  <1>3. Head(job[h].todo).op = "add"
    BY <1>2, OpOf
  <1>4. AddSubscriptionURLs(h)
    BY <1>3, NextCall
  <1>5. /\ subs' = Enlarged(job[h].list, u) /\ Next1(h)
        /\ UNCHANGED <<bot_state, title, aliases, incidents, history>>
    BY <1>4 DEF AddSubscriptionURLs
  <1>6. Meant(job[h].text, Ask("sub_add")) /\ u \in Links
    BY <1>1, TextMeant DEF Typed, Links
  <1>7. Given(u)
    BY <1>6 DEF Given, Meant
  <1>8. subs' \in Seq(Links) /\ IsInjective(subs') /\ \A x \in ToSet(subs') : Given(x)
    <2>1. CASE Contains(job[h].list, u)
      <3>1. subs' = subs
        BY <1>5, <2>1 DEF Enlarged
      <3> QED
        BY <3>1, TypesNow DEF Types, Stored
    <2>2. CASE ~Contains(job[h].list, u)
      <3>1. subs' = Append(job[h].list, u)
        BY <1>5, <2>2 DEF Enlarged
      <3>2. job[h].list \in Seq(Links) /\ IsInjective(job[h].list)
        BY <1>1, TypesNow DEF Types, Job, Listed
      <3>3. /\ subs' \in Seq(Links) /\ IsInjective(subs')
            /\ ToSet(subs') = ToSet(job[h].list) \cup {u}
        BY <1>6, <2>2, <3>1, <3>2, AppendLink
      <3> QED
        BY <1>1, <1>7, <3>3 DEF Listed
    <2> QED
      BY <2>1, <2>2
  <1>9. Tables' /\ GoesOn(h, <<Put("await", "sub_add")>>)
    BY <1>2, <1>3, <1>5, <1>8, ListWritten
  <1>10. <<Put("await", "sub_add")>> # <<>>
    BY Tuples
  <1>11. job'[h].todo = <<Put("await", "sub_add")>> /\ job'[h].who = a
    BY <1>9, <1>10 DEF GoesOn
  <1>12. Added(job[h], bot_state[a], wanted[a])'
    BY <1>1, <1>5, <1>11 DEF Added, history, Clean
  <1> QED
    BY <1>9, <1>11, <1>12 DEF Moved, Stage

LEMMA RemovingStep ==
  ASSUME Inv, NEW h \in Handlers, NEW a \in Admins, job[h].who = a, Step(h),
         Removing(job[h], bot_state[a], wanted[a])
  PROVE  Tables' /\ Moved(h, a)
  <1>1. /\ job[h].todo = <<Call("remove")>> /\ Listed(job[h])
        /\ Clean(a) => (wanted[a] = Home /\ bot_state[a].await = "")
    BY DEF Removing, Rests
  <1>2. /\ job[h].todo # <<>> /\ Head(job[h].todo) = Call("remove")
        /\ Tail(job[h].todo) = <<>>
    BY <1>1, Tuples
  <1>3. Head(job[h].todo).op = "remove"
    BY <1>2, OpOf
  <1>4. RemoveSubscriptionURLAt(h)
    BY <1>3, NextCall
  <1>5. PICK i \in 1..Cardinality(Links) :
          subs' = IF i \in DOMAIN job[h].list THEN RemoveAt(job[h].list, i) ELSE subs
    BY <1>4 DEF RemoveSubscriptionURLAt
  <1>6. Next1(h) /\ UNCHANGED <<bot_state, title, aliases, incidents, history>>
    BY <1>4 DEF RemoveSubscriptionURLAt
  <1>7. subs' \in Seq(Links) /\ IsInjective(subs') /\ \A x \in ToSet(subs') : Given(x)
    <2>1. CASE i \notin DOMAIN job[h].list
      <3>1. subs' = subs
        BY <1>5, <2>1
      <3> QED
        BY <3>1, TypesNow DEF Types, Stored
    <2>2. CASE i \in DOMAIN job[h].list
      <3>1. subs' = RemoveAt(job[h].list, i)
        BY <1>5, <2>2
      <3>2. job[h].list \in Seq(Links) /\ IsInjective(job[h].list)
        BY <1>1, TypesNow DEF Types, Job, Listed
      <3>3. /\ subs' \in Seq(Links) /\ IsInjective(subs')
            /\ ToSet(subs') = ToSet(job[h].list) \ {job[h].list[i]}
        BY <2>2, <3>1, <3>2, RemoveLink
      <3> QED
        BY <1>1, <3>3 DEF Listed
    <2> QED
      BY <2>1, <2>2
  <1>8. Tables' /\ GoesOn(h, <<>>)
    BY <1>2, <1>3, <1>6, <1>7, ListWritten
  <1>9. Clean(a) => Awaits(bot_state'[a], wanted[a])
    BY <1>1, <1>6, WaitsForNothing
  <1> QED
    BY <1>6, <1>8, <1>9, Ended DEF history

-----------------------------------------------------------------------------
(* Incidents.                                                              *)

LEMMA ClosingStep ==
  ASSUME Inv, NEW h \in Handlers, NEW a \in Admins, job[h].who = a, Step(h),
         Closing(job[h], bot_state[a], wanted[a])
  PROVE  Tables' /\ Moved(h, a)
  <1>1. job[h].todo = <<Put("inc_title_txt", "")>> /\ Rests(job[h], bot_state[a], wanted[a])
    BY OpOf DEF Closing
  <1>2. /\ job[h].todo # <<>> /\ Head(job[h].todo) = Put("inc_title_txt", "")
        /\ Tail(job[h].todo) = <<>>
    BY <1>1, Tuples
  <1>3. /\ Head(job[h].todo).op = "put" /\ Head(job[h].todo).key = "inc_title_txt"
        /\ Head(job[h].todo).val = ""
    <2>1. LET p == Put("inc_title_txt", "")
          IN p.op = "put" /\ p.key = "inc_title_txt" /\ p.val = ""
      BY OpOf
    <2> QED
      BY <1>2, <2>1
  <1>4. SetBotState(h)
    BY <1>3, NextCall
  <1>5. /\ bot_state' = [bot_state EXCEPT ![a]["inc_title_txt"] = ""] /\ Next1(h)
        /\ UNCHANGED <<title, aliases, incidents, subs, history>>
    <2>1. bot_state' = [bot_state EXCEPT ![Me(h)][Head(job[h].todo).key] =
            IF Head(job[h].todo).op = "put text" THEN job[h].text ELSE Head(job[h].todo).val]
      BY <1>4 DEF SetBotState
    <2> QED
      BY <1>3, <1>4, <2>1 DEF SetBotState, Me
  <1>6. GoesOn(h, <<>>) /\ \A g \in Handlers : g # h => job'[g] = job[g]
    BY <1>2, <1>5, GoesNext, TypesNow DEF GoesOn
  <1>7. /\ bot_state[a] \in BotState
        /\ bot_state'[a] = [bot_state[a] EXCEPT !["inc_title_txt"] = ""]
        /\ \A b \in Admins : b # a => bot_state'[b] = bot_state[b]
    BY <1>5, TypesNow DEF Types
  <1>8. /\ bot_state'[a] \in BotState /\ bot_state'[a].inc_title_txt = ""
        /\ bot_state'[a].await = bot_state[a].await
    BY <1>7 DEF BotState
  <1>9. bot_state' \in [Admins -> BotState]
    BY <1>5, <1>7, <1>8, TypesNow DEF Types
  <1>10. Types'
    BY <1>5, <1>6, <1>9, TypesNow DEF Types, history, GoesOn
  <1>11. /\ \A x, b : Meant(x, b) => Meant(x, b)'
         /\ \A u : Given(u) => Given(u)'
    BY <1>5, MeantStays, GivenStays DEF history
  <1>12. Stored'
    <2>1. \A b \in Admins : bot_state'[b].inc_title_txt # "" => bot_state'[b] = bot_state[b]
      BY <1>7, <1>8
    <2> QED
      BY <1>5, <1>11, <2>1, TypesNow DEF Stored, history
  <1>15. Clean(a) => Awaits(bot_state'[a], wanted[a])
    BY <1>1, <1>8, WaitsForNothing DEF Rests
  <1>16. Moved(h, a)
    BY <1>5, <1>6, <1>15, Ended DEF history
  <1> QED
    BY <1>10, <1>12, <1>16 DEF Tables

(* The entry is written.                                                   *)
LEMMA Told ==
  ASSUME Inv, NEW h \in Handlers, NEW a \in Admins, job[h].who = a, Step(h), At(h, "feed"),
         Tells(job[h])
  PROVE  /\ Tables' /\ GoesOn(h, Tail(job[h].todo))
         /\ UNCHANGED <<bot_state, sent, wanted, astray, doubtful>>
  <1> DEFINE n == job[h].id
  <1>1. job[h].todo # <<>> /\ Head(job[h].todo).op = "feed"
    BY DEF At
  <1>2. AddFeed(h)
    BY <1>1, NextCall
  <1>3. /\ incidents' = [incidents EXCEPT ![n].feed = job[h].got] /\ Next1(h)
        /\ UNCHANGED <<bot_state, title, aliases, subs, history>>
    BY <1>2 DEF AddFeed
  <1>4. GoesOn(h, Tail(job[h].todo)) /\ \A g \in Handlers : g # h => job'[g] = job[g]
    BY <1>1, <1>3, GoesNext, TypesNow DEF GoesOn
  <1>5. n \in DOMAIN incidents /\ job[h].got \in Statuses
    BY DEF Tells
  <1>6. /\ DOMAIN incidents' = DOMAIN incidents
        /\ \A i \in DOMAIN incidents :
             /\ incidents'[i] \in Incident
             /\ incidents'[i].title = incidents[i].title /\ incidents'[i].by = incidents[i].by
    BY <1>3, <1>5, IncidentsAre, TypesNow DEF Incident
  <1>7. incidents' \in Seq(Incident)
    <2>1. DOMAIN incidents' = 1..Len(incidents) /\ Len(incidents) \in Nat
      BY <1>6, IncidentsAre, TypesNow
    <2>2. incidents' = [i \in 1..Len(incidents) |-> incidents'[i]]
      BY <1>3, <2>1, IncidentsAre, TypesNow
    <2>3. \A i \in 1..Len(incidents) : incidents'[i] \in Incident
      BY <1>6, <2>1
    <2> QED
      BY <2>1, <2>2, <2>3, SeqDef
  <1>8. Types'
    BY <1>3, <1>4, <1>7, TypesNow DEF Types, history, GoesOn
  <1>9. /\ \A x, b : Meant(x, b) => Meant(x, b)'
        /\ \A u : Given(u) => Given(u)'
    BY <1>3, MeantStays, GivenStays DEF history
  <1>10. Stored'
    <2>1. ASSUME NEW i \in DOMAIN incidents'
          PROVE  /\ Meant(incidents[i].title, Ask("inc_title"))'
                 /\ incidents'[i].by = sent'[incidents'[i].title].who
      <3>1. /\ Meant(incidents[i].title, Ask("inc_title"))
            /\ incidents[i].by = sent[incidents[i].title].who
        BY <1>6, TypesNow DEF Stored
      <3> QED
        BY <1>3, <1>6, <1>9, <3>1 DEF history
    <2> QED
      BY <1>3, <1>9, <2>1, TypesNow DEF Stored, history
  <1> QED
    BY <1>3, <1>4, <1>8, <1>10 DEF Tables, history

LEMMA TellingStep ==
  ASSUME Inv, NEW h \in Handlers, NEW a \in Admins, job[h].who = a, Step(h),
         Telling(job[h], bot_state[a], wanted[a])
  PROVE  Tables' /\ Moved(h, a)
  <1>1. /\ job[h].todo = <<Call("feed")>> /\ Tells(job[h])
        /\ Clean(a) => (wanted[a] = Home /\ bot_state[a].await = "")
    BY DEF Telling, Rests
  <1>2. At(h, "feed")
    BY <1>1, FeedAt
  <1>3. Tail(job[h].todo) = <<>>
    BY <1>1, Tuples
  <1>5. /\ Tables' /\ GoesOn(h, <<>>) /\ UNCHANGED <<bot_state, sent, wanted, astray, doubtful>>
    BY <1>1, <1>2, <1>3, Told
  <1>6. Clean(a) => Awaits(bot_state'[a], wanted[a])
    BY <1>1, <1>5, WaitsForNothing
  <1> QED
    BY <1>5, <1>6, Ended

LEMMA OpenedStep ==
  ASSUME Inv, NEW h \in Handlers, NEW a \in Admins, job[h].who = a, Step(h),
         Opened(job[h], bot_state[a], wanted[a])
  PROVE  Tables' /\ Moved(h, a)
  <1>1. /\ job[h].todo = <<Call("feed"), Del("inc_title_txt")>> /\ Tells(job[h])
        /\ Rests(job[h], bot_state[a], wanted[a])
    BY DEF Opened
  <1>2. At(h, "feed")
    BY <1>1, FeedAt
  <1>3. Tail(job[h].todo) = <<Del("inc_title_txt")>> /\ <<Del("inc_title_txt")>> # <<>>
    BY <1>1, Tuples
  <1>5. /\ Tables' /\ GoesOn(h, <<Del("inc_title_txt")>>)
        /\ UNCHANGED <<bot_state, sent, wanted, astray, doubtful>>
    BY <1>1, <1>2, <1>3, Told
  <1>6. job'[h].todo = <<Del("inc_title_txt")>> /\ job'[h].who = a
    BY <1>3, <1>5 DEF GoesOn
  <1>7. Closing(job[h], bot_state[a], wanted[a])'
    BY <1>1, <1>5, <1>6 DEF Closing, Rests, Clean
  <1> QED
    BY <1>5, <1>6, <1>7 DEF Moved, Stage

(* The incident is opened; its title is not that of another.               *)
LEMMA OpeningStep ==
  ASSUME Inv, NEW h \in Handlers, NEW a \in Admins, job[h].who = a, Step(h),
         Opening(job[h], bot_state[a], wanted[a])
  PROVE  Tables' /\ Moved(h, a)
  <1> DEFINE t == job[h].got
             n == Len(incidents) + 1
             calls == <<Call("feed"), Del("inc_title_txt")>>
             x == [title |-> t, by |-> a, feed |-> "", status |-> "investigating"]
             j == [job[h] EXCEPT !.id = n, !.got = "investigating"]
  <1>1. /\ job[h].todo = <<Call("create"), Call("feed"), Del("inc_title_txt")>>
        /\ Meant(t, Ask("inc_title")) /\ sent[t].who = a
        /\ Rests(job[h], bot_state[a], wanted[a])
    BY DEF Opening
  <1>2. /\ job[h].todo # <<>> /\ Head(job[h].todo) = Call("create")
        /\ Tail(job[h].todo) = calls /\ calls # <<>>
    <2>1. job[h].todo # <<>> /\ Head(job[h].todo) = Call("create")
      BY <1>1, ThreeHeads
    <2>2. \A u, v, w : Tail(<<u, v, w>>) = <<v, w>>
      BY Tuples
    <2>3. Tail(job[h].todo) = calls
      BY <1>1, <2>2
    <2>4. calls # <<>>
      BY Tuples
    <2> QED
      BY <2>1, <2>3, <2>4
  <1>3. Head(job[h].todo).op = "create"
    BY <1>2, OpOf
  <1>4. CreateIncident(h)
    BY <1>3, NextCall
  <1>5. /\ incidents' = Append(incidents, x) /\ Go(h, j, calls)
        /\ UNCHANGED <<bot_state, title, aliases, subs, history>>
    BY <1>2, <1>4 DEF CreateIncident, Me, Left
  <1>6. x \in Incident /\ x.title = t /\ x.by = a /\ x.feed = "" /\ x.status = "investigating"
    BY <1>1 DEF Incident, Meant, Statuses
  <1>7. Len(incidents) \in Nat /\ incidents \in Seq(Incident)
    BY IncidentsAre, TypesNow DEF Types
  <1>8. /\ j \in Job /\ j.who = a /\ j.id = n /\ j.got = "investigating"
    <2>1. n \in Nat
      BY <1>7
    <2>3. job[h] \in Job
      BY TypesNow DEF Types
    <2>4. "investigating" \in Statuses
      BY DEF Statuses
    <2> HIDE DEF n
    <2>2. j \in Job
      BY <2>1, <2>3, <2>4 DEF Job
    <2> QED
      BY <2>1, <2>3, <2>4 DEF Job
  <1>9. calls \in Seq(Calls)
    <2>1. Call("feed") \in Calls /\ Del("inc_title_txt") \in Calls
      BY CallsAre DEF State, Ops
    <2> QED
      BY <2>1, TupleTypes
  <1> HIDE DEF x, j, n
  <1>10. /\ job' \in [Handlers -> Job] /\ \A g \in Handlers : g # h => job'[g] = job[g]
         /\ job'[h].todo = calls /\ job'[h].who = a /\ job'[h].id = n
         /\ job'[h].got = "investigating"
    BY <1>2, <1>5, <1>8, <1>9, Goes, TypesNow
  <1>11. /\ incidents' \in Seq(Incident) /\ n \in DOMAIN incidents' /\ n \notin DOMAIN incidents
         /\ \A i \in DOMAIN incidents' : i \in DOMAIN incidents \/ i = n
         /\ \A i \in DOMAIN incidents : i \in DOMAIN incidents' /\ incidents'[i] = incidents[i]
         /\ incidents'[n] = x
    <2> DEFINE m == Len(incidents) + 1
    <2>2. incidents' = Append(incidents, x) /\ x \in Incident /\ incidents \in Seq(Incident)
      BY <1>5, <1>6, <1>7
    <2>1. /\ incidents' \in Seq(Incident) /\ m \in DOMAIN incidents' /\ m \notin DOMAIN incidents
          /\ \A i \in DOMAIN incidents' : i \in DOMAIN incidents \/ i = m
          /\ \A i \in DOMAIN incidents : i \in DOMAIN incidents' /\ incidents'[i] = incidents[i]
          /\ incidents'[m] = x
      BY <2>2, AppendIs
    <2> QED
      BY <2>1 DEF n
  <1>12. Types'
    BY <1>5, <1>10, <1>11, TypesNow DEF Types, history
  <1>13. /\ \A y, b : Meant(y, b) => Meant(y, b)'
         /\ \A u : Given(u) => Given(u)'
    BY <1>5, MeantStays, GivenStays DEF history
  <1>14. Stored'
    <2>1. ASSUME NEW i \in DOMAIN incidents'
          PROVE  \E y : /\ incidents'[i].title = y /\ Meant(y, Ask("inc_title"))
                        /\ incidents'[i].by = sent[y].who
      <3>1. CASE i = n
        BY <1>1, <1>6, <1>11, <3>1
      <3>2. CASE i # n
        <4>1. i \in DOMAIN incidents /\ incidents'[i] = incidents[i]
          BY <1>11, <3>2
        <4>2. /\ Meant(incidents[i].title, Ask("inc_title"))
              /\ incidents[i].by = sent[incidents[i].title].who
          BY <4>1, TypesNow DEF Stored
        <4> QED
          BY <4>1, <4>2
      <3> QED
        BY <3>1, <3>2
    <2>2. ASSUME NEW i \in DOMAIN incidents'
          PROVE  /\ Meant(incidents[i].title, Ask("inc_title"))'
                 /\ incidents'[i].by = sent'[incidents'[i].title].who
      BY <1>5, <1>13, <2>1 DEF history
    <2> QED
      BY <1>5, <1>13, <2>2, TypesNow DEF Stored, history
  <1>20. Tells(job[h])'
    BY <1>6, <1>10, <1>11 DEF Tells, Statuses
  <1>21. Opened(job[h], bot_state[a], wanted[a])'
    BY <1>1, <1>5, <1>10, <1>20 DEF Opened, Rests, Clean, history
  <1> QED
    BY <1>10, <1>12, <1>14, <1>21 DEF Tables, Moved, Stage

-----------------------------------------------------------------------------
(* Buttons.                                                                *)

LEMMA AskStep ==
  ASSUME Inv, NEW h \in Handlers, NEW a \in Admins, job[h].who = a, Step(h),
         NEW q \in Questions, job[h].todo = <<Put("await", q)>>,
         Clean(a) => wanted[a] = Ask(q)
  PROVE  Tables' /\ Moved(h, a)
  <1>1. /\ job[h].todo # <<>> /\ Head(job[h].todo) = Put("await", q)
        /\ Tail(job[h].todo) = <<>>
    BY Tuples
  <1>2. q \in {""} \cup Await
    BY DEF Await
  <1>3. /\ Tables' /\ GoesOn(h, <<>>) /\ UNCHANGED <<astray, doubtful, wanted>> /\ bot_state'[a].await = q
    BY <1>1, <1>2, PutAwait
  <1> QED
    BY <1>3, Ended, WaitsForAnswer

LEMMA AskNameStep ==
  ASSUME Inv, NEW h \in Handlers, NEW a \in Admins, job[h].who = a, Step(h), NEW n \in Names,
         job[h].todo = <<Del("ren_target"), Put("ren_target", n), Put("await", "ren_name")>>,
         Clean(a) => wanted[a] = AskName(n)
  PROVE  Tables' /\ Moved(h, a)
  <1> DEFINE calls == <<Put("ren_target", n), Put("await", "ren_name")>>
  <1>1. /\ job[h].todo # <<>> /\ Head(job[h].todo) = Put("ren_target", "")
        /\ Tail(job[h].todo) = calls /\ calls # <<>>
    <2>1. job[h].todo # <<>> /\ Head(job[h].todo) = Del("ren_target")
      BY ThreeCalls, Zenon
    <2>2. \A u, v, w : Tail(<<u, v, w>>) = <<v, w>>
      BY Tuples
    <2>3. Tail(job[h].todo) = calls
      BY <2>2
    <2>4. calls # <<>>
      BY Tuples
    <2> QED
      BY <2>1, <2>3, <2>4, OpOf
  <1> HIDE DEF calls
  <1>2. Tables' /\ GoesOn(h, calls) /\ UNCHANGED <<astray, doubtful, wanted>>
    BY <1>1, PutTarget
  <1>3. job'[h].todo = calls /\ job'[h].who = a
    BY <1>1, <1>2 DEF GoesOn
  <1>4. Renaming(job[h], bot_state[a], wanted[a])'
    BY <1>2, <1>3 DEF Renaming, Clean, calls
  <1> QED
    BY <1>2, <1>3, <1>4 DEF Moved, Stage

LEMMA FourAre ==
  ASSUME NEW t, NEW x, NEW y, NEW z, NEW v, t = <<x, y, z, v>>
  PROVE  t # <<>> /\ Head(t) = x
  OBVIOUS

LEMMA FourTail ==
  ASSUME NEW t, NEW x, NEW y, NEW z, NEW v, NEW r, t = <<x, y, z, v>>, r = <<y, z, v>>
  PROVE  Tail(t) = r
  OBVIOUS

LEMMA DoneStep ==
  ASSUME Inv, NEW h \in Handlers, NEW a \in Admins, job[h].who = a, Step(h),
         job[h].todo = <<Call("read title"), Call("create"), Call("feed"), Del("inc_title_txt")>>,
         Rests(job[h], bot_state[a], wanted[a])
  PROVE  Tables' /\ Moved(h, a)
  <1> DEFINE t == bot_state[a]["inc_title_txt"]
             rest == <<Call("create"), Call("feed"), Del("inc_title_txt")>>
             calls == IF t = "" THEN <<>> ELSE rest
             j == [job[h] EXCEPT !.got = t]
  <1>1. /\ job[h].todo # <<>> /\ Head(job[h].todo) = Call("read title")
        /\ Tail(job[h].todo) = rest /\ rest # <<>>
    <2>2. job[h].todo # <<>> /\ Head(job[h].todo) = Call("read title")
      BY FourAre, Zenon
    <2>1. rest = <<Call("create"), Call("feed"), Del("inc_title_txt")>>
      OBVIOUS
    <2> HIDE DEF rest
    <2>3. Tail(job[h].todo) = rest
      BY <2>1, FourTail, Zenon
    <2>4. rest # <<>>
      BY <2>1, Tuples
    <2> QED
      BY <2>2, <2>3, <2>4
  <1>2. Head(job[h].todo).op = "read title"
    BY <1>1, OpOf
  <1>3. GetTitleText(h)
    BY <1>2, NextCall
  <1>4. /\ Go(h, j, calls)
        /\ UNCHANGED <<tables, presses, sent, wanted, astray, doubtful, clashed>>
        /\ doubled' \subseteq doubled \cup {t}
    BY <1>1, <1>3 DEF GetTitleText, Me, Left
  <1>5. t \in Texts \cup {""} /\ job[h] \in Job
    BY TypesNow DEF Types, BotState
  <1>6. j \in Job /\ j.who = a /\ j.got = t
    BY <1>5 DEF Job
  <1>7. calls \in Seq(Calls)
    <2>1. Call("create") \in Calls /\ Call("feed") \in Calls /\ Del("inc_title_txt") \in Calls
      BY CallsAre DEF State, Ops
    <2>2. rest \in Seq(Calls) /\ <<>> \in Seq(Calls)
      BY <2>1, TupleTypes
    <2> QED
      BY <2>2
  <1> HIDE DEF j, rest
  <1>9. Tables'
    <2>1. clashed' \in BOOLEAN /\ doubled' \subseteq Texts \cup {""}
      BY <1>4, <1>5, TypesNow DEF Types
    <2> QED
      BY <1>4, <1>6, <1>7, <2>1, Reading, TypesNow
  <1>10. CASE t = ""
    <2>1. job'[h] = Idle
      BY <1>4, <1>6, <1>7, <1>10, Goes, TypesNow
    <2>2. Clean(a)' => Awaits(bot_state'[a], wanted'[a])
      BY <1>4, WaitsForNothing DEF Rests, Clean, tables
    <2> QED
      BY <1>9, <2>1, <2>2, Zenon DEF Moved
  <1>11. CASE t # ""
    <2>1. job'[h].todo = rest /\ job'[h].who = a /\ job'[h].got = t
      BY <1>1, <1>4, <1>6, <1>7, <1>11, Goes, TypesNow
    <2>2. Meant(t, Ask("inc_title")) /\ sent[t].who = a
      BY <1>11, TypesNow DEF Stored
    <2>3. UNCHANGED <<bot_state, sent, wanted, astray, doubtful>>
      BY <1>4 DEF tables
    <2>4. Meant(bot_state[a]["inc_title_txt"], Ask("inc_title"))'
      BY <2>2, <2>3, MeantStays
    <2>5. Opening(job[h], bot_state[a], wanted[a])'
      BY <2>1, <2>2, <2>3, <2>4 DEF Opening, Rests, Clean, rest
    <2> QED
      BY <1>9, <2>1, <2>5 DEF Moved, Stage
  <1> QED
    BY <1>10, <1>11

LEMMA DeleteStep ==
  ASSUME Inv, NEW h \in Handlers, NEW a \in Admins, job[h].who = a, Step(h),
         job[h].todo = <<Call("read list"), Call("remove")>>,
         Rests(job[h], bot_state[a], wanted[a])
  PROVE  Tables' /\ Moved(h, a)
  <1>1. /\ job[h].todo # <<>> /\ Head(job[h].todo) = Call("read list")
        /\ Tail(job[h].todo) = <<Call("remove")>> /\ <<Call("remove")>> # <<>>
    BY Tuples
  <1>2. <<Call("remove")>> \in Seq(Calls)
    <2>1. Call("remove") \in Calls
      BY CallsAre DEF Ops
    <2> QED
      BY <2>1, TupleTypes
  <1>3. /\ Tables' /\ UNCHANGED <<bot_state, sent, wanted, astray, doubtful>>
        /\ job'[h].todo = <<Call("remove")>> /\ job'[h].who = a
        /\ Listed(job[h])'
    BY <1>1, <1>2, ReadList
  <1>4. Removing(job[h], bot_state[a], wanted[a])'
    BY <1>3 DEF Removing, Rests, Clean
  <1> QED
    BY <1>3, <1>4 DEF Moved, Stage

LEMMA SetStep ==
  ASSUME Inv, NEW h \in Handlers, NEW a \in Admins, job[h].who = a, Step(h), NEW s \in Statuses,
         job[h].todo = <<[op |-> "status", key |-> "", val |-> s], Call("feed")>>,
         Rests(job[h], bot_state[a], wanted[a])
  PROVE  Tables' /\ Moved(h, a)
  <1> DEFINE c == [op |-> "status", key |-> "", val |-> s]
             calls == <<Call("feed")>>
  <1>1. c.op = "status" /\ c.val = s
    OBVIOUS
  <1>2. job[h].todo = <<c, Call("feed")>>
    OBVIOUS
  <1> HIDE DEF c
  <1>3. /\ job[h].todo # <<>> /\ Head(job[h].todo) = c /\ Tail(job[h].todo) = calls
        /\ calls # <<>>
    BY <1>2, Tuples
  <1>4. Head(job[h].todo).op = "status" /\ Head(job[h].todo).val = s
    BY <1>1, <1>3
  <1>5. SetStatus(h)
    BY <1>4, NextCall
  <1>7. UNCHANGED <<bot_state, title, aliases, subs, history>>
    BY <1>5 DEF SetStatus
  <1>8. job[h] \in Job /\ Types
    BY TypesNow DEF Types
  <1>9. CASE UNCHANGED incidents /\ Go(h, job[h], <<>>)
    <2>1. <<>> \in Seq(Calls)
      BY TupleTypes
    <2>2. GoesOn(h, <<>>)
      BY <1>8, <1>9, <2>1, Goes DEF GoesOn
    <2>3. clashed' \in BOOLEAN /\ doubled' \subseteq Texts \cup {""}
      BY <1>7, <1>8 DEF Types, history
    <2>4. Tables'
      BY <1>7, <1>8, <1>9, <2>1, <2>3, Reading, TypesNow DEF history, tables
    <2>5. Clean(a) => Awaits(bot_state'[a], wanted[a])
      BY <1>7, WaitsForNothing DEF Rests
    <2> QED
      BY <1>7, <2>2, <2>4, <2>5, Ended DEF history
  <1>10. ASSUME NEW i \in DOMAIN incidents,
                incidents' = [incidents EXCEPT ![i].status = s],
                Go(h, [job[h] EXCEPT !.id = i, !.got = s], calls)
         PROVE  Tables' /\ Moved(h, a)
    <2> DEFINE j == [job[h] EXCEPT !.id = i, !.got = s]
               n == Len(incidents)
    <2>1. n \in Nat /\ DOMAIN incidents = 1..n /\ \A k \in 1..n : incidents[k] \in Incident
      BY <1>8, IncidentsAre
    <2> HIDE DEF n
    <2>0. i \in DOMAIN incidents
      BY <1>10, Zenon
    <2>2. i \in Nat
      BY <1>8, <2>0, IncidentsAre, Zenon
    <2>3. j \in Job /\ j.who = a /\ j.id = i /\ j.got = s
      BY <1>8, <2>2 DEF Job
    <2>4. calls \in Seq(Calls)
      <3>1. Call("feed") \in Calls
        BY CallsAre DEF Ops
      <3> QED
        BY <3>1, TupleTypes
    <2> HIDE DEF j
    <2>5. Go(h, j, calls)
      BY <1>10 DEF j
    <2>6. /\ job' \in [Handlers -> Job] /\ \A g \in Handlers : g # h => job'[g] = job[g]
          /\ job'[h].todo = calls /\ job'[h].who = a /\ job'[h].id = i /\ job'[h].got = s
      BY <1>3, <1>8, <2>3, <2>4, <2>5, Goes
    <2>7. /\ DOMAIN incidents' = DOMAIN incidents
          /\ \A k \in DOMAIN incidents :
               /\ incidents'[k].title = incidents[k].title /\ incidents'[k].by = incidents[k].by
               /\ incidents'[k] \in Incident
               /\ k # i => incidents'[k] = incidents[k]
          /\ incidents'[i].status = s
      BY <1>10, <2>1 DEF Incident
    <2>8. incidents' \in Seq(Incident)
      <3>1. incidents' = [k \in 1..n |-> incidents'[k]]
        BY <1>10, <2>1, <2>7
      <3>2. \A k \in 1..n : incidents'[k] \in Incident
        BY <2>1, <2>7
      <3>3. incidents' \in [1..n -> Incident]
        BY <3>1, <3>2
      <3> QED
        BY <2>1, <3>3, SeqDef
    <2>9. Types'
      BY <1>7, <1>8, <2>6, <2>8 DEF Types, history
    <2>10. /\ \A y, b : Meant(y, b) => Meant(y, b)'
           /\ \A u : Given(u) => Given(u)'
      BY <1>7, MeantStays, GivenStays DEF history
    <2>11. Stored'
      <3>1. ASSUME NEW k \in DOMAIN incidents'
            PROVE  /\ Meant(incidents[k].title, Ask("inc_title"))'
                   /\ incidents'[k].by = sent'[incidents'[k].title].who
        <4>1. /\ Meant(incidents[k].title, Ask("inc_title"))
              /\ incidents[k].by = sent[incidents[k].title].who
          BY <2>7, TypesNow DEF Stored
        <4> QED
          BY <1>7, <2>7, <2>10, <4>1 DEF history
      <3> QED
        BY <1>7, <2>10, <3>1, TypesNow DEF Stored, history
    <2>15. Tells(job[h])'
      BY <2>6, <2>7 DEF Tells
    <2>16. Telling(job[h], bot_state[a], wanted[a])'
      BY <1>7, <2>6, <2>15 DEF Telling, Rests, Clean, history
    <2> QED
      BY <2>6, <2>9, <2>11, <2>16 DEF Tables, Moved, Stage
  <1>11. \/ UNCHANGED incidents /\ Go(h, job[h], <<>>)
         \/ \E i \in DOMAIN incidents :
              /\ incidents' = [incidents EXCEPT ![i].status = s]
              /\ Go(h, [job[h] EXCEPT !.id = i, !.got = s], calls)
    BY <1>3, <1>4, <1>5 DEF SetStatus, Left
  <1> QED
    BY <1>9, <1>10, <1>11

LEMMA PickedStep ==
  ASSUME Inv, NEW h \in Handlers, NEW a \in Admins, job[h].who = a, Step(h),
         Picked(job[h], bot_state[a], wanted[a])
  PROVE  Tables' /\ Moved(h, a)
  <1>1. PICK b \in Every \ {Home} :
          /\ job[h].todo = handleCallback(b)
          /\ Clean(a) => (wanted[a] = asks(b) /\ bot_state[a].await = "")
    BY DEF Picked
  <1>2. asks(b) = Home => Rests(job[h], bot_state[a], wanted[a])
    BY <1>1 DEF Rests
  <1>3. CASE b \in {Ask(q) : q \in Questions}
    <2>1. PICK q \in Questions : b = Ask(q)
      BY <1>3
    <2>2. job[h].todo = <<Put("await", q)>> /\ (Clean(a) => wanted[a] = Ask(q))
      BY <1>1, <2>1, ButtonCalls, Asking
    <2> QED
      BY <2>2, AskStep
  <1>4. CASE b \in {AskName(n) : n \in Names}
    <2>1. PICK n \in Names : b = AskName(n)
      BY <1>4
    <2>2. /\ job[h].todo = <<Del("ren_target"), Put("ren_target", n), Put("await", "ren_name")>>
          /\ Clean(a) => wanted[a] = AskName(n)
      BY <1>1, <2>1, ButtonCalls, Asking
    <2> QED
      BY <2>2, AskNameStep
  <1>5. CASE b \in {Set(s) : s \in Statuses}
    <2>1. PICK s \in Statuses : b = Set(s)
      BY <1>5
    <2>2. /\ job[h].todo = <<[op |-> "status", key |-> "", val |-> s], Call("feed")>>
          /\ asks(b) = Home
      BY <1>1, <2>1, ButtonCalls, Asking
    <2> QED
      BY <1>2, <2>2, SetStep
  <1>6. CASE b = Done
    <2>1. /\ job[h].todo =
               <<Call("read title"), Call("create"), Call("feed"), Del("inc_title_txt")>>
          /\ asks(b) = Home
      BY <1>1, <1>6, ButtonCalls, Asking
    <2> QED
      BY <1>2, <2>1, DoneStep
  <1>7. CASE b = Delete
    <2>1. job[h].todo = <<Call("read list"), Call("remove")>> /\ asks(b) = Home
      BY <1>1, <1>7, ButtonCalls, Asking
    <2> QED
      BY <1>2, <2>1, DeleteStep
  <1> QED
    BY <1>3, <1>4, <1>5, <1>6, <1>7 DEF Every, Wants

-----------------------------------------------------------------------------
(* A handler goes on.                                                      *)

LEMMA HandlerStep ==
  ASSUME Inv, NEW h \in Handlers, NEW a \in Admins, job[h].who = a, Step(h),
         Stage(job[h], bot_state[a], wanted[a])
  PROVE  Tables' /\ Moved(h, a)
  BY PressedStep, PickedStep, RenamingStep, OpeningStep, OpenedStep, ClosingStep, TellingStep,
     RemovingStep, CommandedStep, TextedStep, AnsweringStep, AnsweredStep, TargetingStep,
     AddingStep DEF Stage

-----------------------------------------------------------------------------
(* A change of the list follows the reading of it, an incident that of its *)
(* title.                                                                  *)

Follows(t) ==
  Tail(t) # <<>> =>
    /\ Head(Tail(t)).op \in {"add", "remove"} => Head(t).op = "read list"
    /\ Head(Tail(t)).op = "create" => Head(t).op = "read title"

LEMMA FollowsOne == \A x : Follows(<<x>>)
  <1> SUFFICES ASSUME NEW x PROVE Follows(<<x>>)
    OBVIOUS
  <1>1. Tail(<<x>>) = <<>>
    BY Tuples
  <1> QED
    BY <1>1 DEF Follows

LEMMA SecondOfTwo == \A x, y : Head(<<x, y>>) = x /\ Head(Tail(<<x, y>>)) = y
  OBVIOUS
LEMMA SecondOfThree == \A x, y, z : Head(<<x, y, z>>) = x /\ Head(Tail(<<x, y, z>>)) = y
  OBVIOUS

Fits(x, y) ==
  \/ y.op \notin {"add", "remove", "create"}
  \/ y.op \in {"add", "remove"} /\ x.op = "read list"
  \/ y.op = "create" /\ x.op = "read title"

LEMMA SecondOfFour ==
  \A x, y, z, v : Head(<<x, y, z, v>>) = x /\ Head(Tail(<<x, y, z, v>>)) = y
  <1> SUFFICES ASSUME NEW x, NEW y, NEW z, NEW v
               PROVE  Head(<<x, y, z, v>>) = x /\ Head(Tail(<<x, y, z, v>>)) = y
    OBVIOUS
  <1>1. PICK t : t = <<x, y, z, v>>
    OBVIOUS
  <1>2. PICK r : r = <<y, z, v>>
    OBVIOUS
  <1>3. Head(t) = x
    BY <1>1, FourAre, Zenon
  <1>4. Tail(t) = r
    BY <1>1, <1>2, FourTail, Zenon
  <1>5. Head(r) = y
    BY <1>2, SecondOfThree
  <1> QED
    BY <1>1, <1>3, <1>4, <1>5, Zenon

LEMMA FollowsMore ==
  ASSUME NEW x, NEW y, Fits(x, y)
  PROVE  /\ Follows(<<x, y>>)
         /\ \A z : Follows(<<x, y, z>>)
         /\ \A z, v : Follows(<<x, y, z, v>>)
  <1>1. ASSUME NEW t, Head(t) = x, Head(Tail(t)) = y
        PROVE  Follows(t)
    BY <1>1 DEF Follows, Fits
  <1>2. Follows(<<x, y>>)
    BY <1>1, SecondOfTwo
  <1>3. \A z : Follows(<<x, y, z>>)
    <2> TAKE z
    <2> QED
      BY <1>1, SecondOfThree
  <1>4. ASSUME NEW z, NEW v
        PROVE  Follows(<<x, y, z, v>>)
    <2>1. Head(<<x, y, z, v>>) = x /\ Head(Tail(<<x, y, z, v>>)) = y
      BY SecondOfFour
    <2> QED
      BY <1>1, <2>1, Zenon
  <1> QED
    BY <1>2, <1>3, <1>4, Zenon

LEMMA FollowsAnswer ==
  ASSUME NEW q \in Await
  PROVE  /\ Follows(Answer(q)) /\ Follows(handleAwait(q))
  <1>1. /\ Call("save title").op = "save title" /\ Call("read target").op = "read target"
        /\ PutText("inc_title_txt").op = "put text" /\ Call("read list").op = "read list"
        /\ Del("ren_target").op = "put" /\ Call("add").op = "add"
    BY OpOf
  <1>2. Head(Answer(q)).op \notin {"add", "remove", "create"}
    <2>1. CASE q = "page_title"
      <3>1. Head(Answer(q)) = Call("save title")
        BY <2>1, Tuples DEF Answer
      <3> QED
        BY <1>1, <3>1
    <2>2. CASE q = "ren_name"
      <3>1. Head(Answer(q)) = Call("read target")
        BY <2>2, Tuples DEF Answer
      <3> QED
        BY <1>1, <3>1
    <2>3. CASE q = "inc_title"
      <3>1. Head(Answer(q)) = PutText("inc_title_txt")
        BY <2>3, Tuples DEF Answer
      <3> QED
        BY <1>1, <3>1
    <2>4. CASE q = "sub_add"
      <3>1. Head(Answer(q)) = Call("read list")
        BY <2>4, Tuples DEF Answer
      <3> QED
        BY <1>1, <3>1
    <2> QED
      BY <2>1, <2>2, <2>3, <2>4 DEF Await, Questions
  <1>3. Follows(handleAwait(q))
    BY <1>2, AnswerCalls DEF Follows
  <1>4. Follows(Answer(q))
    <2>1. CASE q = "page_title"
      <3>1. Answer(q) = <<Call("save title")>>
        BY <2>1 DEF Answer
      <3> QED
        BY <3>1, FollowsOne
    <2>2. CASE q = "ren_name"
      <3>1. Answer(q) = <<Call("read target"), Del("ren_target"), Call("rename")>>
        BY <2>2 DEF Answer
      <3> QED
        BY <1>1, <3>1, FollowsMore DEF Fits
    <2>3. CASE q = "inc_title"
      <3>1. Answer(q) = <<PutText("inc_title_txt")>>
        BY <2>3 DEF Answer
      <3> QED
        BY <3>1, FollowsOne
    <2>4. CASE q = "sub_add"
      <3>1. Answer(q) = <<Call("read list"), Call("add"), Put("await", "sub_add")>>
        BY <2>4 DEF Answer
      <3> QED
        BY <1>1, <3>1, FollowsMore DEF Fits
    <2> QED
      BY <2>1, <2>2, <2>3, <2>4 DEF Await, Questions
  <1> QED
    BY <1>3, <1>4

LEMMA FollowsButton ==
  ASSUME NEW b \in Every
  PROVE  (b # Home => Follows(handleCallback(b))) /\ Follows(onCallback(b))
  <1>1. /\ \A k, v : Put(k, v).op = "put" /\ Del(k) = Put(k, "")
        /\ Call("create").op = "create" /\ Call("feed").op = "feed"
        /\ Call("read list").op = "read list" /\ Call("read title").op = "read title"
        /\ Call("remove").op = "remove"
    BY OpOf
  <1>2. CASE b \in {Ask(q) : q \in Questions}
    <2>1. PICK q \in Questions : b = Ask(q)
      BY <1>2
    <2>2. handleCallback(b) = <<Put("await", q)>>
      BY <2>1, ButtonCalls
    <2>3. Head(handleCallback(b)) = Put("await", q)
      BY <2>2, Tuples
    <2>4. Follows(handleCallback(b))
      BY <2>2, FollowsOne
    <2> QED
      BY <1>1, <2>3, <2>4, PressedCalls DEF Follows
  <1>3. CASE b \in {AskName(n) : n \in Names}
    <2>1. PICK n \in Names : b = AskName(n)
      BY <1>3
    <2>2. handleCallback(b) =
            <<Del("ren_target"), Put("ren_target", n), Put("await", "ren_name")>>
      BY <2>1, ButtonCalls
    <2>3. Head(handleCallback(b)) = Del("ren_target")
      BY <2>2, ThreeCalls, Zenon
    <2>4. Follows(handleCallback(b))
      BY <1>1, <2>2, FollowsMore DEF Fits
    <2> QED
      BY <1>1, <2>3, <2>4, PressedCalls DEF Follows
  <1>4. CASE b \in {Set(s) : s \in Statuses}
    <2>1. PICK s \in Statuses : b = Set(s)
      BY <1>4
    <2>2. PICK c : c = [op |-> "status", key |-> "", val |-> s]
      OBVIOUS
    <2>3. handleCallback(b) = <<c, Call("feed")>>
      BY <2>1, <2>2, ButtonCalls
    <2>4. Head(handleCallback(b)) = c /\ c.op = "status"
      BY <2>2, <2>3, Tuples
    <2>5. Follows(handleCallback(b))
      BY <1>1, <2>3, FollowsMore DEF Fits
    <2> QED
      BY <2>4, <2>5, PressedCalls DEF Follows
  <1>5. CASE b = Done
    <2>1. handleCallback(b) =
            <<Call("read title"), Call("create"), Call("feed"), Del("inc_title_txt")>>
      BY <1>5, ButtonCalls
    <2>2. Head(handleCallback(b)) = Call("read title")
      BY <2>1, FourAre, Zenon
    <2>3. Follows(handleCallback(b))
      BY <1>1, <2>1, FollowsMore DEF Fits
    <2> QED
      BY <1>1, <2>2, <2>3, PressedCalls DEF Follows
  <1>6. CASE b = Delete
    <2>1. handleCallback(b) = <<Call("read list"), Call("remove")>>
      BY <1>6, ButtonCalls
    <2>2. Head(handleCallback(b)) = Call("read list")
      BY <2>1, Tuples
    <2>3. Follows(handleCallback(b))
      BY <1>1, <2>1, FollowsMore DEF Fits
    <2> QED
      BY <1>1, <2>2, <2>3, PressedCalls DEF Follows
  <1>7. CASE b = Home
    <2>1. handleCallback(b) = <<>> /\ Tail(onCallback(b)) = <<>>
      BY <1>7, ButtonCalls, PressedCalls
    <2>2. Follows(onCallback(b))
      BY <2>1 DEF Follows
    <2> QED
      BY <1>7, <2>2
  <1> QED
    BY <1>2, <1>3, <1>4, <1>5, <1>6, <1>7 DEF Every, Wants

(* The calls of a handler after its first step.                            *)
LEMMA FollowsStage ==
  ASSUME NEW j, NEW s, NEW w, Stage(j, s, w)
  PROVE  Follows(j.todo)
  <1>1. /\ \A k, v : Put(k, v).op = "put" /\ Del(k) = Put(k, "")
        /\ Call("create").op = "create" /\ Call("feed").op = "feed"
        /\ Call("rename").op = "rename" /\ Call("add").op = "add"
    BY OpOf
  <1>2. CASE Pressed(j, s, w)
    BY <1>2, FollowsButton DEF Pressed
  <1>3. CASE Picked(j, s, w)
    BY <1>3, FollowsButton DEF Picked
  <1>4. CASE Renaming(j, s, w)
    <2>1. PICK n : j.todo = <<Put("ren_target", n), Put("await", "ren_name")>>
      BY <1>4 DEF Renaming
    <2> QED
      BY <1>1, <2>1, FollowsMore DEF Fits
  <1>5. CASE Opening(j, s, w)
    <2>1. j.todo = <<Call("create"), Call("feed"), Del("inc_title_txt")>>
      BY <1>5 DEF Opening
    <2> QED
      BY <1>1, <2>1, FollowsMore DEF Fits
  <1>6. CASE Opened(j, s, w)
    <2>1. j.todo = <<Call("feed"), Del("inc_title_txt")>>
      BY <1>6 DEF Opened
    <2> QED
      BY <1>1, <2>1, FollowsMore DEF Fits
  <1>7. CASE Renamed(j, s, w) \/ Closing(j, s, w) \/ Telling(j, s, w) \/ Removing(j, s, w)
             \/ Commanded(j, s, w) \/ Texted(j, s, w) \/ Added(j, s, w)
    <2>1. \E x : j.todo = <<x>>
      BY <1>7 DEF Renamed, Closing, Telling, Removing, Commanded, Texted, Added, onUpdate
    <2> QED
      BY <2>1, FollowsOne
  <1>8. CASE Answering(j, s, w) \/ Answered(j, s, w)
    BY <1>8, FollowsAnswer DEF Answering, Answered
  <1>9. CASE Targeting(j, s, w)
    <2>1. CASE j.todo = <<Del("ren_target"), Call("rename")>>
      BY <1>1, <2>1, FollowsMore DEF Fits
    <2>2. CASE j.todo = <<Call("rename")>>
      BY <2>2, FollowsOne
    <2> QED
      BY <1>9, <2>1, <2>2 DEF Targeting
  <1>10. CASE Adding(j, s, w)
    <2>1. j.todo = <<Call("add"), Put("await", "sub_add")>>
      BY <1>10 DEF Adding
    <2> QED
      BY <1>1, <2>1, FollowsMore DEF Fits
  <1> QED
    BY <1>2, <1>3, <1>4, <1>5, <1>6, <1>7, <1>8, <1>9, <1>10 DEF Stage

LEMMA NotChanging ==
  ASSUME NEW h, job[h].todo = <<>> \/ Head(job[h].todo).op \notin {"add", "remove"}
  PROVE  ~Changing(h)
  BY DEF Changing, At

(* The list is read before it is changed, and a title before it is opened. *)
LEMMA ReadBefore ==
  ASSUME Types, NEW h \in Handlers, Step(h), Follows(job[h].todo), job[h].who \in Admins,
         Changing(h)' \/ At(h, "create")'
  PROVE  /\ Changing(h)' => SubscriptionURLs(h)
         /\ At(h, "create")' => GetTitleText(h)
  <1>1. job[h].todo # <<>>
    BY DEF Step, At, SetBotState, GetAwait, SetTitle, GetTarget, SetAlias, GetTitleText,
       CreateIncident, SetStatus, AddFeed, SubscriptionURLs, AddSubscriptionURLs,
       RemoveSubscriptionURLAt
  <1>2. /\ job'[h].todo # <<>> /\ Head(job'[h].todo).op \in {"add", "remove", "create"}
        /\ Changing(h)' => Head(job'[h].todo).op \in {"add", "remove"}
        /\ At(h, "create")' => Head(job'[h].todo).op = "create"
    BY DEF Changing, At
  <1>3. ASSUME NEW j \in Job, NEW calls, Go(h, j, calls)
        PROVE  job'[h].todo = calls
    <2>1. job'[h] = IF calls = <<>> THEN Idle ELSE [j EXCEPT !.todo = calls]
      BY <1>3 DEF Go, Types
    <2> QED
      BY <2>1, IdleIs DEF Job
  <1>4. CASE job'[h].todo = Tail(job[h].todo)
    BY <1>1, <1>2, <1>4, NextCall DEF Follows
  <1>5. CASE GetAwait(h)
    <2> DEFINE q == bot_state[job[h].who]["await"]
               calls == IF q = "" THEN <<>>
                        ELSE IF job[h].text = "" THEN <<Del("await")>> ELSE handleAwait(q)
    <2>1. job'[h].todo = calls
      BY <1>3, <1>5 DEF GetAwait, Me, Types
    <2>2. q \in {""} \cup Await
      BY DEF Types, BotState
    <2>3. calls # <<>> => Head(calls) = Del("await")
      <3>1. Head(<<Del("await")>>) = Del("await")
        BY Tuples
      <3>2. q # "" => Head(handleAwait(q)) = Del("await")
        BY <2>2, AnswerCalls
      <3> QED
        BY <3>1, <3>2
    <2> HIDE DEF calls
    <2>5. Del("await").op = "put"
      BY OpOf
    <2>4. Head(job'[h].todo).op = "put"
      BY <1>2, <2>1, <2>3, <2>5
    <2> QED
      BY <1>2, <2>4
  <1>6. job[h] \in Job
    BY DEF Types
  <1>7. ASSUME ~GetAwait(h)
        PROVE  job'[h].todo = Tail(job[h].todo) \/ job'[h].todo = <<>>
    <2>1. ASSUME NEW j \in Job, Go(h, j, Left(h)) \/ Go(h, j, <<>>)
          PROVE  job'[h].todo = Tail(job[h].todo) \/ job'[h].todo = <<>>
      BY <1>3, <2>1 DEF Left
    <2>2. CASE Next1(h)
      BY <1>6, <2>1, <2>2 DEF Next1
    <2>3. CASE GetTarget(h)
      <3>1. [job[h] EXCEPT !.got = bot_state[Me(h)]["ren_target"]] \in Job
        BY <1>6 DEF Me, Types, BotState, Job
      <3> QED
        BY <2>1, <2>3, <3>1 DEF GetTarget
    <2>4. CASE GetTitleText(h)
      <3>1. [job[h] EXCEPT !.got = bot_state[Me(h)]["inc_title_txt"]] \in Job
        BY <1>6 DEF Me, Types, BotState, Job
      <3> QED
        BY <2>1, <2>4, <3>1 DEF GetTitleText
    <2>5. CASE CreateIncident(h)
      <3>1. [job[h] EXCEPT !.id = Len(incidents) + 1, !.got = "investigating"] \in Job
        <4>1. Len(incidents) + 1 \in Nat
          BY IncidentsAre
        <4>2. "investigating" \in Statuses
          BY DEF Statuses
        <4> QED
          BY <1>6, <4>1, <4>2 DEF Job
      <3> QED
        BY <2>1, <2>5, <3>1 DEF CreateIncident
    <2>6. CASE SetStatus(h)
      <3>1. job[h].todo \in Seq(Calls) /\ Head(job[h].todo) \in Calls
        BY <1>1, <1>6, HeadTailProperties DEF Job
      <3>2. CASE Go(h, job[h], <<>>)
        BY <1>6, <2>1, <3>2
      <3>3. CASE \E i \in DOMAIN incidents :
                   Go(h, [job[h] EXCEPT !.id = i, !.got = Head(job[h].todo).val], Left(h))
        <4>1. PICK i \in DOMAIN incidents :
                Go(h, [job[h] EXCEPT !.id = i, !.got = Head(job[h].todo).val], Left(h))
          BY <3>3
        <4> DEFINE c == [job[h] EXCEPT !.id = i, !.got = Head(job[h].todo).val]
        <4>2. job' = [job EXCEPT ![h] = IF Left(h) = <<>> THEN Idle ELSE [c EXCEPT !.todo = Left(h)]]
          BY <4>1 DEF Go
        <4>3. DOMAIN c = {"who", "todo", "text", "got", "id", "list"}
          BY <1>6 DEF Job
        <4> HIDE DEF c
        <4>4. job'[h] = IF Left(h) = <<>> THEN Idle ELSE [c EXCEPT !.todo = Left(h)]
          BY <4>2 DEF Types
        <4> QED
          BY <4>3, <4>4, IdleIs DEF Left
      <3> QED
        BY <2>6, <3>2, <3>3 DEF SetStatus
    <2>7. CASE SubscriptionURLs(h)
      <3>1. PICK l \in {subs} \cup (IF "read" \in Faults THEN {<<>>} ELSE {}) :
              Go(h, [job[h] EXCEPT !.list = l], Left(h))
        BY <2>7 DEF SubscriptionURLs
      <3>2. l \in Seq(Links)
        BY EmptyList DEF Types
      <3>3. [job[h] EXCEPT !.list = l] \in Job
        BY <1>6, <3>2 DEF Job
      <3> QED
        BY <2>1, <3>1, <3>3
    <2> QED
      BY <1>7, <2>2, <2>3, <2>4, <2>5, <2>6, <2>7
      DEF Step, SetBotState, SetTitle, SetAlias, AddFeed, AddSubscriptionURLs,
          RemoveSubscriptionURLAt
  <1> QED
    BY <1>2, <1>4, <1>5, <1>7

-----------------------------------------------------------------------------
(* Steps of the system.                                                    *)

LEMMA SameText ==
  ASSUME Types, NEW h \in Handlers, Step(h)
  PROVE  job'[h].text = "" \/ (job'[h].text = job[h].text /\ job'[h].who = job[h].who)
  <1>1. job[h] \in Job /\ Idle.text = ""
    BY DEF Types, Idle
  <1>2. ASSUME NEW j, NEW calls, Go(h, j, calls), j.text = job[h].text, j.who = job[h].who,
               DOMAIN j = {"who", "todo", "text", "got", "id", "list"}
        PROVE  job'[h].text = "" \/ (job'[h].text = job[h].text /\ job'[h].who = job[h].who)
    <2>1. job'[h] = IF calls = <<>> THEN Idle ELSE [j EXCEPT !.todo = calls]
      BY <1>2 DEF Go, Types
    <2> QED
      BY <1>1, <1>2, <2>1
  <1>3. DOMAIN job[h] = {"who", "todo", "text", "got", "id", "list"}
    BY <1>1 DEF Job
  <1>4. CASE \E calls : Go(h, job[h], calls)
    BY <1>2, <1>3, <1>4
  <1>5. CASE \E v, calls : Go(h, [job[h] EXCEPT !.got = v], calls)
    <2>1. PICK v, calls : Go(h, [job[h] EXCEPT !.got = v], calls)
      BY <1>5
    <2> DEFINE j == [job[h] EXCEPT !.got = v]
    <2>2. j.text = job[h].text /\ j.who = job[h].who /\ DOMAIN j = DOMAIN job[h]
      BY <1>3
    <2> HIDE DEF j
    <2>3. Go(h, j, calls)
      BY <2>1 DEF j
    <2> QED
      BY <1>2, <1>3, <2>2, <2>3
  <1>6. CASE \E v, calls : Go(h, [job[h] EXCEPT !.list = v], calls)
    <2>1. PICK v, calls : Go(h, [job[h] EXCEPT !.list = v], calls)
      BY <1>6
    <2> DEFINE j == [job[h] EXCEPT !.list = v]
    <2>2. j.text = job[h].text /\ j.who = job[h].who /\ DOMAIN j = DOMAIN job[h]
      BY <1>3
    <2> HIDE DEF j
    <2>3. Go(h, j, calls)
      BY <2>1 DEF j
    <2> QED
      BY <1>2, <1>3, <2>2, <2>3
  <1>7. CASE \E i, v, calls : Go(h, [job[h] EXCEPT !.id = i, !.got = v], calls)
    <2>1. PICK i, v, calls : Go(h, [job[h] EXCEPT !.id = i, !.got = v], calls)
      BY <1>7
    <2> DEFINE j == [job[h] EXCEPT !.id = i, !.got = v]
    <2>2. j.text = job[h].text /\ j.who = job[h].who /\ DOMAIN j = DOMAIN job[h]
      BY <1>3
    <2> HIDE DEF j
    <2>3. Go(h, j, calls)
      BY <2>1 DEF j
    <2> QED
      BY <1>2, <1>3, <2>2, <2>3
  <1>8. \/ \E calls : Go(h, job[h], calls)
        \/ \E v, calls : Go(h, [job[h] EXCEPT !.got = v], calls)
        \/ \E v, calls : Go(h, [job[h] EXCEPT !.list = v], calls)
        \/ \E i, v, calls : Go(h, [job[h] EXCEPT !.id = i, !.got = v], calls)
    <2>1. CASE Next1(h) \/ GetAwait(h)
      BY <2>1 DEF Next1, GetAwait
    <2>2. CASE GetTarget(h) \/ GetTitleText(h)
      BY <2>2 DEF GetTarget, GetTitleText
    <2>3. CASE SubscriptionURLs(h)
      BY <2>3 DEF SubscriptionURLs
    <2>4. CASE CreateIncident(h)
      BY <2>4 DEF CreateIncident
    <2>5. CASE SetStatus(h)
      BY <2>5 DEF SetStatus
    <2> QED
      BY <2>1, <2>2, <2>3, <2>4, <2>5
      DEF Step, SetBotState, SetTitle, SetAlias, AddFeed, AddSubscriptionURLs,
          RemoveSubscriptionURLAt
  <1> QED
    BY <1>4, <1>5, <1>6, <1>7, <1>8

LEMMA StepKeeps ==
  ASSUME Inv, NEW h \in Handlers, Step(h)
  PROVE  Inv'
  <1>1. job[h].todo # <<>>
    BY DEF Step, At, SetBotState, GetAwait, SetTitle, GetTarget, SetAlias, GetTitleText,
       CreateIncident, SetStatus, AddFeed, SubscriptionURLs, AddSubscriptionURLs,
       RemoveSubscriptionURLAt
  <1>2. job[h] # Idle
    BY <1>1, IdleIs
  <1>3. PICK a \in Admins : job[h].who = a /\ Stage(job[h], bot_state[a], wanted[a])
    BY <1>2 DEF Inv, Stands
  <1>4. Tables' /\ Moved(h, a)
    BY <1>3, HandlerStep
  <1>5. Others(h, a)
    BY <1>3, OthersKept, TypesNow
  <1>6. \A g \in Handlers : g # h => job'[g] = job[g] /\ Stands(g)'
    BY <1>2, <1>3, <1>4, <1>5, OthersStand DEF Tables, Others
  <1>7. job'[h] = Idle \/ job'[h].who = a
    BY <1>4 DEF Moved
  <1>8. Stands(h)'
    BY <1>3, <1>4 DEF Moved, Stands
  <1>9. OneEach'
    <2> SUFFICES ASSUME NEW f \in Handlers, NEW g \in Handlers, Clean(job[f].who)',
                        job'[f] # Idle, job'[g] # Idle, job'[f].who = job'[g].who
                 PROVE  f = g
      BY DEF OneEach
    <2>1. job[f] # Idle /\ job[f].who = job'[f].who
      BY <1>2, <1>3, <1>6, <1>7
    <2>2. job[g] # Idle /\ job[g].who = job'[g].who
      BY <1>2, <1>3, <1>6, <1>7
    <2>3. Clean(job[f].who)
      BY <1>5, <2>1 DEF Others, Clean
    <2> QED
      BY <2>1, <2>2, <2>3 DEF Inv, OneEach
  <1>10. LeftAsAsked'
    <2> SUFFICES ASSUME NEW b \in Admins, Clean(b)', ~Busy(b)'
                 PROVE  Awaits(bot_state'[b], wanted'[b])
      BY DEF LeftAsAsked
    <2>1. CASE b = a
      <3>2. \/ Clean(a)' => Awaits(bot_state'[a], wanted'[a])
            \/ job'[h].who = a
        BY <1>4 DEF Moved
      <3>3. job'[h].who # a
        BY <2>1 DEF Busy
      <3> QED
        BY <2>1, <3>2, <3>3, Zenon
    <2>2. CASE b # a
      <3>1. ~Busy(b)
        BY <1>3, <1>6, <2>2 DEF Busy
      <3>2. Clean(b) /\ bot_state'[b] = bot_state[b] /\ wanted'[b] = wanted[b]
        BY <1>5, <2>2 DEF Others, Clean
      <3> QED
        BY <3>1, <3>2 DEF Inv, LeftAsAsked
    <2> QED
      BY <2>1, <2>2
  <1>11. ChangeAlone'
    <2> SUFFICES ASSUME ~clashed', NEW f \in Handlers, NEW g \in Handlers,
                        Changing(f)', Changing(g)'
                 PROVE  f = g
      BY DEF ChangeAlone
    <2>1. ~clashed
      BY <1>5 DEF Others
    <2>2. ASSUME Changing(h)', NEW k \in Handlers, k # h
          PROVE  ~Changing(k)'
      <3>1. SubscriptionURLs(h)
        BY <1>3, <2>2, FollowsStage, ReadBefore, TypesNow
      <3>2. ~Changing(k)
        BY <3>1 DEF SubscriptionURLs, Changing
      <3> QED
        BY <1>6, <2>2, <3>2 DEF Changing, At
    <2>3. CASE f # h /\ g # h
      <3>1. Changing(f) /\ Changing(g)
        BY <1>6, <2>3 DEF Changing, At
      <3> QED
        BY <2>1, <3>1 DEF Inv, ChangeAlone
    <2> QED
      BY <2>2, <2>3
  <1>12. Doubted'
    <2> SUFFICES ASSUME NEW g \in Handlers, job'[g].text # "", ~Clean(job[g].who)'
                 PROVE  job'[g].text \in doubtful'
      BY DEF Doubted
    <2>1. UNCHANGED <<astray, doubtful>>
      BY <1>5 DEF Others
    <2>2. job'[g].text = job[g].text /\ job'[g].who = job[g].who
      BY <1>6, SameText, TypesNow
    <2> QED
      BY <2>1, <2>2 DEF Inv, Doubted, Clean
  <1> QED
    BY <1>4, <1>6, <1>8, <1>9, <1>10, <1>11, <1>12 DEF Inv

(* An update arrives at handler h.                                         *)
Arrives(h, a, calls, t) ==
  /\ job[h] = Idle
  /\ job' = [job EXCEPT ![h] = [Idle EXCEPT !.who = a, !.todo = calls, !.text = t]]

LEMMA Arrived ==
  ASSUME Types, NEW h \in Handlers, NEW a \in Admins, NEW calls \in Seq(Calls),
         NEW t \in Texts \cup {""}, Arrives(h, a, calls, t)
  PROVE  /\ job' \in [Handlers -> Job] /\ \A g \in Handlers : g # h => job'[g] = job[g]
         /\ job'[h].who = a /\ job'[h].todo = calls /\ job'[h].text = t
  <1>1. [Idle EXCEPT !.who = a, !.todo = calls, !.text = t] \in Job
    BY IdleIs DEF Job
  <1>2. job' = [job EXCEPT ![h] = [Idle EXCEPT !.who = a, !.todo = calls, !.text = t]]
    BY DEF Arrives
  <1>3. LET j == [Idle EXCEPT !.who = a, !.todo = calls, !.text = t]
        IN j.who = a /\ j.todo = calls /\ j.text = t
    BY IdleIs DEF Job
  <1> QED
    BY <1>1, <1>2, <1>3 DEF Types

(* Whoever is busy goes astray, and so do his texts; a button or a command *)
(* of one who is not puts him right.                                       *)
Strays(a, t) ==
  /\ astray' = IF Busy(a) THEN astray \cup {a} ELSE IF t = "" THEN astray \ {a} ELSE astray
  /\ doubtful' = IF a \in astray' THEN doubtful \cup UnderWay(a)' ELSE doubtful

LEMMA Straying ==
  ASSUME NEW a \in Admins, NEW t, Strays(a, t)
  PROVE  /\ doubtful \subseteq doubtful'
         /\ Clean(a)' => ~Busy(a) /\ (t # "" => Clean(a))
         /\ \A b \in Admins : b # a => (Clean(b)' <=> Clean(b))
         /\ ~Clean(a)' => UnderWay(a)' \subseteq doubtful'
  BY DEF Strays, Clean

LEMMA NoText == Idle.text = ""
  BY DEF Idle

LEMMA ArrivalKeeps ==
  ASSUME Inv, NEW h \in Handlers, NEW a \in Admins, NEW calls \in Seq(Calls),
         NEW t \in Texts \cup {""}, Arrives(h, a, calls, t), Strays(a, t),
         calls # <<>>, Head(calls).op \notin {"add", "remove"},
         UNCHANGED <<tables, doubled, clashed>>,
         presses' \in 0..MaxPresses,
         sent' \in [Texts -> Sent], \A x \in Texts : sent'[x].who = "" => sent'[x] = Unsent,
         \A x \in Texts : sent[x].who \in Admins => sent'[x] = sent[x],
         wanted' \in [Admins -> Wants], \A b \in Admins : b # a => wanted'[b] = wanted[b],
         Stage(job[h], bot_state[a], wanted[a])'
  PROVE  Inv'
  <1>1. /\ job' \in [Handlers -> Job] /\ \A g \in Handlers : g # h => job'[g] = job[g]
        /\ job'[h].who = a /\ job'[h].todo = calls
    BY Arrived, TypesNow
  <1>2. job[h] = Idle /\ job[h].todo = <<>> /\ job[h].who = "" /\ "" \notin Admins
    BY IdleIs, DialogAssumption DEF Arrives
  <1>3. /\ doubtful \subseteq doubtful'
        /\ Clean(a)' => ~Busy(a) /\ (t # "" => Clean(a))
        /\ \A b \in Admins : b # a => (Clean(b)' <=> Clean(b))
        /\ ~Clean(a)' => UnderWay(a)' \subseteq doubtful'
    BY Straying
  <1>4. \A x, b : Meant(x, b) => Meant(x, b)'
    BY <1>3 DEF Meant
  <1>5. \A u : Given(u) => Given(u)'
    BY <1>4 DEF Given
  <1>6. Types'
    <2>1. astray' \subseteq Admins
      BY TypesNow DEF Strays, Types
    <2>2. UnderWay(a)' \subseteq Texts
      <3>1. \A g \in Handlers : job'[g].text \in Texts \cup {""}
        BY <1>1 DEF Job
      <3> QED
        BY <3>1 DEF UnderWay
    <2>3. doubtful' \subseteq Texts
      BY <2>2, TypesNow DEF Strays, Types
    <2> QED
      BY <1>1, <2>1, <2>3, TypesNow DEF Types, tables
  <1>7. Stored'
    <2>1. \A b \in Admins : bot_state[b].inc_title_txt # "" =>
            sent'[bot_state[b].inc_title_txt].who = b
      BY TypesNow DEF Stored, Meant
    <2>2. \A i \in DOMAIN incidents : incidents[i].by = sent'[incidents[i].title].who
      BY TypesNow DEF Stored, Meant
    <2> QED
      BY <1>4, <1>5, <2>1, <2>2, TypesNow DEF Stored, tables
  <1>9. Tables'
    BY <1>6, <1>7 DEF Tables
  <1>10. ASSUME NEW g \in Handlers, g # h
         PROVE  Stands(g)'
    <2> SUFFICES ASSUME job[g] # Idle
                 PROVE  Stands(g)'
      BY <1>1, <1>10 DEF Stands
    <2>1. Stands(g) /\ job'[g] = job[g]
      BY <1>1, <1>10 DEF Inv
    <2>2. job[g].who \in Admins /\ (job[g].who = a => Busy(a))
      BY <2>1 DEF Stands, Busy
    <2>3. Clean(job[g].who)' =>
            /\ Clean(job[g].who) /\ bot_state'[job[g].who] = bot_state[job[g].who]
            /\ wanted'[job[g].who] = wanted[job[g].who]
      <3>1. CASE job[g].who = a
        BY <1>3, <2>1, <2>2, <3>1 DEF Clean
      <3>2. CASE job[g].who # a
        BY <1>3, <2>1, <2>2, <3>2 DEF Clean, tables
      <3> QED
        BY <3>1, <3>2
    <2>5. Listed(job[g]) => Listed(job[g])'
      BY <1>5, <2>1 DEF Listed, tables
    <2>6. Tells(job[g]) => Tells(job[g])'
      BY <2>1 DEF Tells, tables
    <2> QED
      BY <1>4, <2>1, <2>3, <2>5, <2>6, StandsStay
  <1>11. Stands(h)'
    BY <1>1 DEF Stands
  <1>12. OneEach'
    <2> SUFFICES ASSUME NEW f \in Handlers, NEW g \in Handlers, Clean(job[f].who)',
                        job'[f] # Idle, job'[g] # Idle, job'[f].who = job'[g].who
                 PROVE  f = g
      BY DEF OneEach
    <2>1. CASE job'[f].who = a
      <3>1. Clean(a)'
        BY <2>1
      <3>2. ~Busy(a)
        BY <1>3, <3>1
      <3>3. \A k \in Handlers : k # h => job'[k].who # a
        BY <1>1, <3>2 DEF Busy
      <3> QED
        BY <2>1, <3>3
    <2>2. CASE job'[f].who # a
      <3>1. f # h /\ g # h
        BY <1>1, <2>2
      <3>2. /\ job[f] # Idle /\ job[g] # Idle /\ job[f].who = job[g].who
            /\ job[f].who = job'[f].who
        BY <1>1, <3>1
      <3>3. job[f].who \in Admins
        BY <3>2 DEF Inv, Stands
      <3>4. Clean(job[f].who)
        BY <1>3, <2>2, <3>2, <3>3
      <3> QED
        BY <3>2, <3>4 DEF Inv, OneEach
    <2> QED
      BY <2>1, <2>2
  <1>13. LeftAsAsked'
    <2> SUFFICES ASSUME NEW b \in Admins, Clean(b)', ~Busy(b)'
                 PROVE  Awaits(bot_state'[b], wanted'[b])
      BY DEF LeftAsAsked
    <2>1. b # a /\ ~Busy(b)
      BY <1>1, <1>2 DEF Busy
    <2>2. Clean(b) /\ bot_state'[b] = bot_state[b] /\ wanted'[b] = wanted[b]
      BY <1>3, <2>1 DEF tables
    <2> QED
      BY <2>1, <2>2 DEF Inv, LeftAsAsked
  <1>14. ChangeAlone'
    <2>1. ~Changing(h)'
      BY <1>1 DEF Changing, At
    <2>2. \A g \in Handlers : Changing(g)' => Changing(g)
      BY <1>1, <2>1 DEF Changing, At
    <2> QED
      BY <2>2 DEF Inv, ChangeAlone
  <1>15. Doubted'
    <2> SUFFICES ASSUME NEW g \in Handlers, job'[g].text # "", ~Clean(job[g].who)'
                 PROVE  job'[g].text \in doubtful'
      BY DEF Doubted
    <2>1. CASE job'[g].who = a
      <3>1. ~Clean(a)'
        BY <2>1
      <3>2. job'[g].text \in UnderWay(a)'
        BY <2>1 DEF UnderWay
      <3> QED
        BY <1>3, <3>1, <3>2
    <2>2. CASE job'[g].who # a
      <3>1. job'[g] = job[g]
        BY <1>1, <2>2
      <3>2. job[g] # Idle
        BY <3>1, NoText
      <3>3. job[g].who \in Admins
        BY <3>2 DEF Inv, Stands
      <3>4. ~Clean(job[g].who)
        BY <1>3, <2>2, <3>1, <3>3
      <3> QED
        BY <1>3, <3>1, <3>4 DEF Inv, Doubted
    <2> QED
      BY <2>1, <2>2
  <1> QED
    BY <1>9, <1>10, <1>11, <1>12, <1>13, <1>14, <1>15 DEF Inv

LEMMA HandleArrives ==
  ASSUME NEW a \in Admins, NEW calls, NEW t, Handle(a, calls, t)
  PROVE  /\ \E h \in Handlers : Arrives(h, a, calls, t)
         /\ Strays(a, t) /\ UNCHANGED <<tables, doubled, clashed>>
  BY DEF Handle, Arrives, Strays

(* One more press.                                                         *)
LEMMA OneMore ==
  ASSUME Types, presses < MaxPresses, presses' = presses + 1
  PROVE  presses' \in 0..MaxPresses
  <1>1. presses \in 0..MaxPresses /\ MaxPresses \in Nat
    BY DialogAssumption DEF Types
  <1>2. \A m \in Nat : \A p \in 0..m : p < m => p + 1 \in 0..m
    OBVIOUS
  <1> QED
    BY <1>1, <1>2, Zenon

LEMMA PressKeeps ==
  ASSUME Inv, NEW a \in Admins, NEW b \in Buttons, Press(a, b)
  PROVE  Inv'
  <1>1. b \in Every
    BY DialogAssumption DEF Every, Wants
  <1>2. /\ Handle(a, onCallback(b), "") /\ presses < MaxPresses /\ presses' = presses + 1
        /\ wanted' = [wanted EXCEPT ![a] = asks(b)] /\ UNCHANGED sent
    BY DEF Press, asks
  <1>3. PICK h \in Handlers : Arrives(h, a, onCallback(b), "")
    BY <1>2, HandleArrives
  <1>4. Strays(a, "") /\ UNCHANGED <<tables, doubled, clashed>>
    BY <1>2, HandleArrives
  <1>5. /\ onCallback(b) \in Seq(Calls) /\ onCallback(b) # <<>>
        /\ Head(onCallback(b)).op = "put"
    <2>1. Del("await").op = "put"
      BY OpOf
    <2>2. /\ onCallback(b) \in Seq(Calls) /\ onCallback(b) # <<>>
          /\ Head(onCallback(b)) = Del("await")
      BY <1>1, PressedCalls
    <2> QED
      BY <2>1, <2>2, Zenon
  <1>6. job'[h].todo = onCallback(b) /\ job'[h].who = a
    BY <1>3, <1>5, Arrived, TypesNow
  <1>7. asks(b) \in Wants
    BY <1>1, Asking DEF Every, Wants
  <1>8. wanted' \in [Admins -> Wants] /\ wanted'[a] = asks(b)
        /\ \A c \in Admins : c # a => wanted'[c] = wanted[c]
    BY <1>2, <1>7, TypesNow DEF Types
  <1>9. Stage(job[h], bot_state[a], wanted[a])'
    BY <1>1, <1>6, <1>8 DEF Stage, Pressed
  <1>10. presses' \in 0..MaxPresses
    BY <1>2, OneMore, TypesNow
  <1>11. /\ sent' \in [Texts -> Sent] /\ \A x \in Texts : sent'[x].who = "" => sent'[x] = Unsent
         /\ \A x \in Texts : sent[x].who \in Admins => sent'[x] = sent[x]
    BY <1>2, TypesNow DEF Types
  <1> QED
    BY <1>3, <1>4, <1>5, <1>8, <1>9, <1>10, <1>11, ArrivalKeeps

LEMMA UpdateCalls ==
  /\ onUpdate \in Seq(Calls) /\ onUpdate # <<>> /\ Head(onUpdate).op = "read await"
  <1>1. onUpdate = <<Call("read await")>>
    BY DEF onUpdate
  <1>2. Call("read await") \in Calls /\ Call("read await").op = "read await"
    BY CallsAre, OpOf DEF Ops
  <1> QED
    BY <1>1, <1>2, Tuples, TupleTypes

LEMMA CommandKeeps ==
  ASSUME Inv, NEW a \in Admins, Command(a)
  PROVE  Inv'
  <1>1. /\ Handle(a, onUpdate, "") /\ presses < MaxPresses /\ presses' = presses + 1
        /\ wanted' = [wanted EXCEPT ![a] = Home] /\ UNCHANGED sent
    BY DEF Command
  <1>2. PICK h \in Handlers : Arrives(h, a, onUpdate, "")
    BY <1>1, HandleArrives
  <1>3. Strays(a, "") /\ UNCHANGED <<tables, doubled, clashed>>
    BY <1>1, HandleArrives
  <1>4. job'[h].todo = onUpdate /\ job'[h].who = a /\ job'[h].text = ""
    BY <1>2, Arrived, UpdateCalls, TypesNow
  <1>5. wanted' \in [Admins -> Wants] /\ wanted'[a] = Home
        /\ \A c \in Admins : c # a => wanted'[c] = wanted[c]
    BY <1>1, TypesNow DEF Types, Wants
  <1>6. Stage(job[h], bot_state[a], wanted[a])'
    BY <1>4, <1>5 DEF Stage, Commanded
  <1>7. presses' \in 0..MaxPresses
    BY <1>1, OneMore, TypesNow
  <1>8. /\ sent' \in [Texts -> Sent] /\ \A x \in Texts : sent'[x].who = "" => sent'[x] = Unsent
        /\ \A x \in Texts : sent[x].who \in Admins => sent'[x] = sent[x]
    BY <1>1, TypesNow DEF Types
  <1> QED
    BY <1>2, <1>3, <1>5, <1>6, <1>7, <1>8, UpdateCalls, ArrivalKeeps

LEMMA SendKeeps ==
  ASSUME Inv, NEW a \in Admins, NEW t \in Texts, Send(a, t)
  PROVE  Inv'
  <1>1. /\ sent[t] = Unsent /\ Handle(a, onUpdate, t)
        /\ sent' = [sent EXCEPT ![t] = [who |-> a, for |-> wanted[a]]]
        /\ wanted' = [wanted EXCEPT ![a] = Later(wanted[a])] /\ UNCHANGED presses
    BY DEF Send, Later
  <1>2. PICK h \in Handlers : Arrives(h, a, onUpdate, t)
    BY <1>1, HandleArrives
  <1>3. Strays(a, t) /\ UNCHANGED <<tables, doubled, clashed>>
    BY <1>1, HandleArrives
  <1>4. job'[h].todo = onUpdate /\ job'[h].who = a /\ job'[h].text = t
    BY <1>2, Arrived, UpdateCalls, TypesNow
  <1>5. sent[t].who = "" /\ "" \notin Admins
    <2>1. sent[t] = Unsent /\ Unsent.who = ""
      BY <1>1 DEF Unsent
    <2>2. "" \notin Admins
      BY DialogAssumption
    <2> QED
      BY <2>1, <2>2
  <1>6. wanted[a] \in Wants /\ Later(wanted[a]) \in Wants
    BY TypesNow DEF Types, Later, Wants
  <1>7. wanted' \in [Admins -> Wants] /\ wanted'[a] = Later(wanted[a])
        /\ \A c \in Admins : c # a => wanted'[c] = wanted[c]
    BY <1>1, <1>6, TypesNow DEF Types
  <1>8. /\ sent' \in [Texts -> Sent]
        /\ sent'[t].who = a /\ sent'[t].for = wanted[a]
        /\ \A x \in Texts : x # t => sent'[x] = sent[x]
    BY <1>1, <1>6, TypesNow DEF Types, Sent
  <1>9. /\ \A x \in Texts : sent'[x].who = "" => sent'[x] = Unsent
        /\ \A x \in Texts : sent[x].who \in Admins => sent'[x] = sent[x]
    BY <1>5, <1>8, TypesNow DEF Types
  <1>10. Typed(job[h])'
    BY <1>4, <1>8 DEF Typed
  <1>12. Clean(a)' => /\ Awaits(bot_state'[a], sent'[t].for)
                      /\ wanted'[a] = Later(sent'[t].for)
    <2>1. Clean(a)' => Clean(a) /\ ~Busy(a)
      <3>1. t # ""
        BY DialogAssumption
      <3>2. Strays(a, t)
        BY <1>3
      <3>3. Clean(a)' => ~Busy(a) /\ (t # "" => Clean(a))
        BY <3>2 DEF Strays, Clean
      <3> QED
        BY <3>1, <3>3, Zenon
    <2>2. Clean(a)' => Awaits(bot_state[a], wanted[a])
      BY <2>1 DEF Inv, LeftAsAsked
    <2>4. bot_state' = bot_state
      BY <1>3 DEF tables
    <2> QED
      BY <1>7, <1>8, <2>2, <2>4
  <1>13. Texted(job[h], bot_state[a], wanted[a])'
    BY <1>4, <1>10, <1>12 DEF Texted
  <1>14. Stage(job[h], bot_state[a], wanted[a])'
    BY <1>13 DEF Stage
  <1>15. presses' \in 0..MaxPresses
    BY <1>1, TypesNow DEF Types
  <1> QED
    BY <1>2, <1>3, <1>7, <1>8, <1>9, <1>14, <1>15, UpdateCalls, ArrivalKeeps

LEMMA RestartKeeps ==
  ASSUME Inv, Restart
  PROVE  Inv'
  <1>1. /\ presses < MaxPresses /\ presses' = presses + 1
        /\ job' = [h \in Handlers |-> Idle]
        /\ astray' = astray \cup {a \in Admins : Busy(a)}
        /\ UNCHANGED <<bot_state, title, aliases, incidents, subs, sent, wanted, doubtful, clashed>>
    BY DEF Restart, tables
  <1>2. doubled' = doubled \cup {bot_state[Me(h)]["inc_title_txt"] :
                                 h \in {g \in Handlers : Opens(g) /\ ~At(g, "create")}}
    BY DEF Restart
  <1>3. doubled' \subseteq Texts \cup {""}
    <2>1. ASSUME NEW g \in Handlers, Opens(g)
          PROVE  bot_state[Me(g)]["inc_title_txt"] \in Texts \cup {""}
      <3>1. job[g].todo # <<>>
        BY <2>1, Tuples DEF Opens
      <3>2. job[g].who \in Admins
        BY <3>1, IdleIs DEF Inv, Stands
      <3> QED
        BY <3>2, TypesNow DEF Types, BotState, Me
    <2>2. {bot_state[Me(h)]["inc_title_txt"] : h \in {g \in Handlers : Opens(g) /\ ~At(g, "create")}}
            \subseteq Texts \cup {""}
      BY <2>1
    <2>3. doubled \subseteq Texts \cup {""}
      BY TypesNow DEF Types
    <2> QED
      BY <1>2, <2>2, <2>3, Zenon
  <1>5. job' \in [Handlers -> Job] /\ \A h \in Handlers : job'[h] = Idle
    BY <1>1, IdleIs
  <1>6. presses' \in 0..MaxPresses
    BY <1>1, OneMore, TypesNow
  <1>7. Types'
    BY <1>1, <1>3, <1>5, <1>6, TypesNow DEF Types
  <1>9. /\ \A x, b : Meant(x, b) => Meant(x, b)'
        /\ \A u : Given(u) => Given(u)'
    BY <1>1, MeantStays, GivenStays
  <1>10. Stored'
    BY <1>1, <1>9, TypesNow DEF Stored
  <1>11. \A a \in Admins : Clean(a)' => Clean(a) /\ ~Busy(a)
    BY <1>1 DEF Clean
  <1>14. \A h \in Handlers : Stands(h)'
    BY <1>5 DEF Stands
  <1>15. OneEach' /\ Doubted'
    BY <1>5, NoText DEF OneEach, Doubted
  <1>16. LeftAsAsked'
    <2>1. \A a \in Admins : Clean(a)' => Awaits(bot_state[a], wanted[a])
      BY <1>11 DEF Inv, LeftAsAsked
    <2> QED
      BY <1>1, <2>1 DEF LeftAsAsked
  <1>17. ChangeAlone'
    BY <1>5, IdleIs DEF ChangeAlone, Changing, At
  <1> QED
    BY <1>7, <1>10, <1>14, <1>15, <1>16, <1>17 DEF Inv, Tables

LEMMA NothingMoves ==
  ASSUME Inv, UNCHANGED dialogVars
  PROVE  Inv'
  <1>1. /\ UNCHANGED <<bot_state, title, aliases, incidents, subs, job>>
        /\ UNCHANGED <<presses, sent, wanted, astray, doubtful, doubled, clashed>>
    BY DEF dialogVars, tables, history
  <1>2. /\ \A x, b : Meant(x, b) => Meant(x, b)'
        /\ \A u : Given(u) => Given(u)'
    BY <1>1, MeantStays, GivenStays
  <1>3. Types'
    BY <1>1, TypesNow DEF Types
  <1>4. Stored'
    BY <1>1, <1>2, TypesNow DEF Stored
  <1>7. ASSUME NEW g \in Handlers
        PROVE  Stands(g)'
    <2> SUFFICES ASSUME job[g] # Idle
                 PROVE  Stands(g)'
      BY <1>1 DEF Stands
    <2>1. Stands(g) /\ job'[g] = job[g]
      BY <1>1 DEF Inv
    <2>2. Clean(job[g].who)' =>
            /\ Clean(job[g].who) /\ bot_state'[job[g].who] = bot_state[job[g].who]
            /\ wanted'[job[g].who] = wanted[job[g].who]
      BY <1>1 DEF Clean
    <2>4. Listed(job[g]) => Listed(job[g])'
      BY <1>1, <1>2 DEF Listed
    <2>5. Tells(job[g]) => Tells(job[g])'
      BY <1>1 DEF Tells
    <2>6. \A t \in Texts : sent'[t] = sent[t]
      BY <1>1
    <2> QED
      BY <1>2, <2>1, <2>2, <2>4, <2>5, <2>6, StandsStay
  <1>8. OneEach' /\ Doubted'
    BY <1>1 DEF Inv, OneEach, Doubted, Clean
  <1>9. LeftAsAsked'
    BY <1>1 DEF Inv, LeftAsAsked, Clean, Busy
  <1>10. ChangeAlone'
    BY <1>1 DEF Inv, ChangeAlone, Changing, At
  <1> QED
    BY <1>3, <1>4, <1>7, <1>8, <1>9, <1>10 DEF Inv, Tables

-----------------------------------------------------------------------------
(* A write fails: the handler goes on as after one that does not, or its   *)
(* admin is astray.                                                        *)

(* A handler that opens or changes an incident.                            *)
Changes(t) == \E s \in Statuses : t = <<[op |-> "status", key |-> "", val |-> s], Call("feed")>>
LEMMA Erasing == \A k : Del(k).op = "put"
  BY DEF Del, Put

LEMMA ChangesButton ==
  ASSUME NEW b \in Every, b # Home, Head(handleCallback(b)).op \in {"create", "status"}
  PROVE  Changes(handleCallback(b))
  <1>1. CASE b \in {Ask(q) : q \in Questions}
    <2>1. PICK q \in Questions : handleCallback(b) = <<Put("await", q)>>
      BY <1>1, ButtonCalls
    <2>2. Head(handleCallback(b)) = Put("await", q)
      BY <2>1, Tuples
    <2>4. Put("await", q).op = "put"
      BY OpOf
    <2>3. Head(handleCallback(b)).op = "put"
      BY <2>2, <2>4
    <2> QED
      BY <2>3
  <1>2. CASE b \in {AskName(n) : n \in Names}
    <2>1. PICK n \in Names : handleCallback(b) =
            <<Del("ren_target"), Put("ren_target", n), Put("await", "ren_name")>>
      BY <1>2, ButtonCalls
    <2>2. Head(handleCallback(b)) = Del("ren_target")
      BY <2>1, ThreeHeads
    <2> QED
      BY <2>2, Erasing
  <1>3. CASE b \in {Set(s) : s \in Statuses}
    BY <1>3, ButtonCalls DEF Changes
  <1>4. CASE b = Done
    <2>1. handleCallback(b) =
            <<Call("read title"), Call("create"), Call("feed"), Del("inc_title_txt")>>
      BY <1>4, ButtonCalls
    <2>2. Head(handleCallback(b)) = Call("read title")
      BY <2>1, FourAre, Zenon
    <2>3. Head(handleCallback(b)).op = "read title"
      BY <2>2, OpOf
    <2> QED
      BY <2>3
  <1>5. CASE b = Delete
    <2>1. Head(handleCallback(b)) = Call("read list")
      BY <1>5, ButtonCalls, Tuples
    <2>2. Head(handleCallback(b)).op = "read list"
      BY <2>1, OpOf
    <2> QED
      BY <2>2
  <1> QED
    BY <1>1, <1>2, <1>3, <1>4, <1>5 DEF Every, Wants

LEMMA CreatingAnswer ==
  ASSUME NEW q \in Await
  PROVE  /\ Head(Answer(q)).op \notin {"create", "status"}
         /\ Head(handleAwait(q)).op \notin {"create", "status"}
  <1>1. Head(handleAwait(q)).op = "put"
    <2>1. Head(handleAwait(q)) = Del("await")
      BY AnswerCalls
    <2> QED
      BY <2>1, Erasing
  <1>2. CASE q = "page_title"
    <2>1. Head(Answer(q)) = Call("save title")
      BY <1>2, Tuples DEF Answer
    <2>2. Head(Answer(q)).op = "save title"
      BY <2>1, OpOf
    <2> QED
      BY <1>1, <2>2
  <1>3. CASE q = "inc_title"
    <2>1. Head(Answer(q)) = PutText("inc_title_txt")
      BY <1>3, Tuples DEF Answer
    <2>2. Head(Answer(q)).op = "put text"
      BY <2>1, OpOf
    <2> QED
      BY <1>1, <2>2
  <1>4. CASE q = "ren_name"
    <2>1. Answer(q) = <<Call("read target"), Del("ren_target"), Call("rename")>>
      BY <1>4 DEF Answer
    <2>2. Head(Answer(q)) = Call("read target")
      BY <2>1, ThreeHeads
    <2>3. Head(Answer(q)).op = "read target"
      BY <2>2, OpOf
    <2> QED
      BY <1>1, <2>3
  <1>5. CASE q = "sub_add"
    <2>1. Answer(q) = <<Call("read list"), Call("add"), Put("await", "sub_add")>>
      BY <1>5 DEF Answer
    <2>2. Head(Answer(q)) = Call("read list")
      BY <2>1, ThreeHeads
    <2>3. Head(Answer(q)).op = "read list"
      BY <2>2, OpOf
    <2> QED
      BY <1>1, <2>3
  <1> QED
    BY <1>2, <1>3, <1>4, <1>5 DEF Await, Questions

LEMMA Creating ==
  ASSUME NEW j, NEW s, NEW w, Stage(j, s, w), Head(j.todo).op \in {"create", "status"}
  PROVE  Opening(j, s, w) \/ Changes(j.todo)
  <1>1. /\ \A k, v : Put(k, v).op = "put" /\ Del(k) = Put(k, "")
        /\ \A f : Call(f).op = f
    BY OpOf
  <1>2. CASE Pressed(j, s, w)
    <2>1. PICK b \in Every : j.todo = onCallback(b)
      BY <1>2 DEF Pressed
    <2>2. Head(j.todo) = Put("await", "")
      BY <1>1, <2>1, PressedCalls
    <2> QED
      BY <1>1, <2>2
  <1>3. CASE Picked(j, s, w)
    BY <1>3, ChangesButton DEF Picked
  <1>4. CASE Renaming(j, s, w)
    <2>1. PICK n \in Names : j.todo = <<Put("ren_target", n), Put("await", "ren_name")>>
      BY <1>4 DEF Renaming
    <2>2. Head(j.todo) = Put("ren_target", n)
      BY <2>1, Tuples
    <2> QED
      BY <1>1, <2>2
  <1>5. CASE \/ Renamed(j, s, w) \/ Closing(j, s, w) \/ Added(j, s, w) \/ Telling(j, s, w)
             \/ Removing(j, s, w) \/ Commanded(j, s, w) \/ Texted(j, s, w)
    <2>1. PICK x : /\ j.todo = <<x>>
                   /\ \/ \E v : x = Put("await", v)
                      \/ x = Del("inc_title_txt")
                      \/ \E f \in {"feed", "remove", "read await"} : x = Call(f)
      BY <1>5 DEF Renamed, Closing, Added, Telling, Removing, Commanded, Texted, onUpdate
    <2>2. Head(j.todo) = x
      BY <2>1, Tuples
    <2>3. x.op \notin {"create", "status"}
      BY <1>1, <2>1, Erasing
    <2> QED
      BY <2>2, <2>3
  <1>6. CASE Opened(j, s, w) \/ Adding(j, s, w)
    <2>1. PICK x, y : j.todo = <<x, y>> /\ x \in {Call("feed"), Call("add")}
      BY <1>6 DEF Opened, Adding
    <2>2. Head(j.todo) = x
      BY <2>1, Tuples
    <2>3. x.op \notin {"create", "status"}
      BY <1>1, <2>1
    <2> QED
      BY <2>2, <2>3
  <1>7. CASE Answering(j, s, w) \/ Answered(j, s, w)
    BY <1>7, CreatingAnswer DEF Answering, Answered
  <1>8. CASE Targeting(j, s, w)
    <2>1. CASE j.todo = <<Del("ren_target"), Call("rename")>>
      <3>1. Head(j.todo) = Del("ren_target")
        BY <2>1, Tuples
      <3> QED
        BY <3>1, Erasing
    <2>2. CASE j.todo = <<Call("rename")>>
      <3>1. Head(j.todo) = Call("rename")
        BY <2>2, Tuples
      <3> QED
        BY <1>1, <3>1
    <2> QED
      BY <1>8, <2>1, <2>2 DEF Targeting
  <1> QED
    BY <1>2, <1>3, <1>4, <1>5, <1>6, <1>7, <1>8 DEF Stage

(* What is left after a failed write.                                      *)
LEMMA FailedTodo ==
  ASSUME Inv, NEW h \in Handlers, NEW a \in Admins, job[h].who = a, WriteFails(h),
         Stage(job[h], bot_state[a], wanted[a])
  PROVE  job'[h].todo \in Seq(Calls)
  <1>1. job[h].todo # <<>> /\ job[h].todo \in Seq(Calls) /\ job[h] \in Job
    BY TypesNow DEF WriteFails, At, Types, Job
  <1>2. ASSUME NEW calls \in Seq(Calls), Go(h, job[h], calls)
        PROVE  job'[h].todo \in Seq(Calls)
    <2>1. job' \in [Handlers -> Job]
      BY <1>1, <1>2, Goes, TypesNow
    <2> QED
      BY <2>1 DEF Job
  <1>3. Tail(job[h].todo) \in Seq(Calls)
    BY <1>1, HeadTailProperties
  <1>4. CASE ~At(h, "create") /\ ~At(h, "status")
    BY <1>2, <1>3, <1>4 DEF WriteFails, Left
  <1>5. CASE At(h, "create") \/ At(h, "status")
    <2>1. Opening(job[h], bot_state[a], wanted[a]) \/ Changes(job[h].todo)
      BY <1>5, Creating DEF At
    <2>2. Tail(job[h].todo) # <<>>
      <3>1. \A u, v, w : Tail(<<u, v, w>>) = <<v, w>>
        BY Tuples
      <3>2. CASE Opening(job[h], bot_state[a], wanted[a])
        <4>1. Tail(job[h].todo) = <<Call("feed"), Del("inc_title_txt")>>
          BY <3>1, <3>2 DEF Opening
        <4> QED
          BY <4>1, Tuples
      <3>3. CASE Changes(job[h].todo)
        <4>1. PICK x, y : job[h].todo = <<x, y>>
          BY <3>3 DEF Changes
        <4> QED
          BY <4>1, Tuples
      <3> QED
        BY <2>1, <3>2, <3>3
    <2>3. Tail(Tail(job[h].todo)) \in Seq(Calls)
      BY <1>3, <2>2, HeadTailProperties
    <2> QED
      BY <1>2, <1>5, <2>3 DEF WriteFails, Left
  <1> QED
    BY <1>4, <1>5

LEMMA TablesGrow ==
  ASSUME Tables, Types', UNCHANGED <<tables, sent>>, doubtful \subseteq doubtful'
  PROVE  Tables'
  <1>1. \A t, b : Meant(t, b) => Meant(t, b)'
    BY MeantStays
  <1>2. \A u : Given(u) => Given(u)'
    BY GivenStays
  <1>3. Stored'
    BY <1>1, <1>2 DEF Tables, Stored, tables
  <1> QED
    BY <1>3 DEF Tables

LEMMA FailingPut ==
  ASSUME Inv, NEW h \in Handlers, NEW a \in Admins, job[h].who = a, WriteFails(h),
         NEW c, Head(job[h].todo) = c, c.op \in {"put", "put text"}
  PROVE  GoesOn(h, Tail(job[h].todo)) /\ ~Clean(a)'
  <1>1. /\ job[h].todo # <<>> /\ (At(h, "put") \/ At(h, "put text"))
        /\ ~At(h, "create") /\ ~At(h, "status")
    BY DEF WriteFails, At
  <1>2. Next1(h) /\ astray' = astray \cup {a}
    BY <1>1 DEF WriteFails, Next1, Me
  <1> QED
    BY <1>1, <1>2, GoesNext, TypesNow DEF Clean

LEMMA FailingWrite ==
  ASSUME Inv, NEW h \in Handlers, WriteFails(h), NEW c, Head(job[h].todo) = c,
         c.op \in {"save title", "rename", "feed", "add", "remove"}
  PROVE  GoesOn(h, Tail(job[h].todo)) /\ UNCHANGED <<astray, wanted, bot_state>>
  <1>1. /\ job[h].todo # <<>> /\ ~At(h, "put") /\ ~At(h, "put text")
        /\ ~At(h, "create") /\ ~At(h, "status")
    BY DEF WriteFails, At
  <1>2. Next1(h) /\ UNCHANGED <<astray, wanted, bot_state>>
    BY <1>1 DEF WriteFails, Next1, tables
  <1> QED
    BY <1>1, <1>2, GoesNext, TypesNow

LEMMA FailingIncident ==
  ASSUME Inv, NEW h \in Handlers, WriteFails(h), NEW c, Head(job[h].todo) = c,
         c.op \in {"create", "status"}, NEW calls \in Seq(Calls),
         Tail(Tail(job[h].todo)) = calls
  PROVE  GoesOn(h, calls) /\ UNCHANGED <<astray, wanted, bot_state>>
  <1>1. /\ job[h].todo # <<>> /\ ~At(h, "put") /\ ~At(h, "put text")
        /\ At(h, "create") \/ At(h, "status")
    BY DEF WriteFails, At
  <1>2. Go(h, job[h], calls) /\ UNCHANGED <<astray, wanted, bot_state>>
    BY <1>1 DEF WriteFails, Left, tables
  <1>3. job[h] \in Job
    BY TypesNow DEF Types
  <1> QED
    BY <1>2, <1>3, Goes, TypesNow DEF GoesOn

LEMMA NoWrite ==
  ASSUME NEW h, WriteFails(h), NEW f, Head(job[h].todo) = Call(f),
         f \in {"read await", "read target", "read title", "read list"}
  PROVE  FALSE
  BY OpOf DEF WriteFails, At, Writes

LEMMA EndedAstray ==
  ASSUME NEW h, NEW a, GoesOn(h, <<>>), ~Clean(a)'
  PROVE  Moved(h, a)
  <1>1. job'[h] = Idle
    BY DEF GoesOn
  <1> QED
    BY <1>1, Zenon DEF Moved

LEMMA EndedUnwritten ==
  ASSUME NEW h, NEW a, GoesOn(h, <<>>), UNCHANGED <<astray, wanted, bot_state>>,
         Clean(a) => wanted[a] = Home /\ bot_state[a].await = ""
  PROVE  Moved(h, a)
  <1>1. job'[h] = Idle
    BY DEF GoesOn
  <1>2. Clean(a)' => Awaits(bot_state'[a], wanted'[a])
    BY WaitsForNothing DEF Clean
  <1> QED
    BY <1>1, <1>2, Zenon DEF Moved

(* The handler of a button.                                                *)
LEMMA FailedButton ==
  ASSUME Inv, NEW h \in Handlers, NEW a \in Admins, job[h].who = a, WriteFails(h),
         \/ Pressed(job[h], bot_state[a], wanted[a]) \/ Picked(job[h], bot_state[a], wanted[a])
  PROVE  Moved(h, a)
  <1>1. CASE Pressed(job[h], bot_state[a], wanted[a])
    <2>1. PICK b \in Every : job[h].todo = onCallback(b)
      BY <1>1 DEF Pressed
    <2>2. /\ Head(job[h].todo) = Put("await", "") /\ Put("await", "").op = "put"
          /\ Tail(job[h].todo) = handleCallback(b)
      BY <2>1, PressedCalls, OpOf
    <2>3. GoesOn(h, handleCallback(b)) /\ ~Clean(a)'
      BY <2>2, FailingPut
    <2>4. CASE b = Home
      BY <2>3, <2>4, ButtonCalls, EndedAstray
    <2>5. CASE b # Home
      <3>1. handleCallback(b) # <<>>
        BY <2>5, SomethingToDo
      <3>2. job'[h].todo = handleCallback(b) /\ job'[h].who = a
        BY <2>3, <3>1 DEF GoesOn
      <3>3. Picked(job[h], bot_state[a], wanted[a])'
        BY <2>3, <2>5, <3>2 DEF Picked
      <3> QED
        BY <3>2, <3>3 DEF Moved, Stage
    <2> QED
      BY <2>4, <2>5
  <1>2. CASE Picked(job[h], bot_state[a], wanted[a])
    <2>1. PICK b \in Every \ {Home} :
            /\ job[h].todo = handleCallback(b)
            /\ Clean(a) => (wanted[a] = asks(b) /\ bot_state[a].await = "")
      BY <1>2 DEF Picked
    <2>2. CASE b \in {Ask(q) : q \in Questions}
      <3>1. PICK q \in Questions : b = Ask(q)
        BY <2>2
      <3>2. job[h].todo = <<Put("await", q)>>
        BY <2>1, <3>1, ButtonCalls
      <3>3. /\ Head(job[h].todo) = Put("await", q) /\ Tail(job[h].todo) = <<>>
            /\ Put("await", q).op = "put"
        BY <3>2, Tuples, OpOf
      <3>4. GoesOn(h, <<>>) /\ ~Clean(a)'
        BY <3>3, FailingPut
      <3> QED
        BY <3>4, EndedAstray
    <2>3. CASE b \in {AskName(n) : n \in Names}
      <3>1. PICK n \in Names : b = AskName(n)
        BY <2>3
      <3> DEFINE calls == <<Put("ren_target", n), Put("await", "ren_name")>>
      <3>2. job[h].todo = <<Del("ren_target"), Put("ren_target", n), Put("await", "ren_name")>>
        BY <2>1, <3>1, ButtonCalls
      <3>3. Head(job[h].todo) = Del("ren_target") /\ Tail(job[h].todo) = calls
        <4>1. Head(job[h].todo) = Del("ren_target")
          BY <3>2, ThreeCalls, Zenon
        <4>2. \A u, v, w : Tail(<<u, v, w>>) = <<v, w>>
          BY Tuples
        <4> QED
          BY <3>2, <4>1, <4>2
      <3>4. calls # <<>> /\ Del("ren_target").op = "put"
        BY Tuples, OpOf
      <3> HIDE DEF calls
      <3>5. GoesOn(h, calls) /\ ~Clean(a)'
        BY <3>3, <3>4, FailingPut
      <3>6. job'[h].todo = calls /\ job'[h].who = a
        BY <3>4, <3>5 DEF GoesOn
      <3>7. Renaming(job[h], bot_state[a], wanted[a])'
        BY <3>5, <3>6 DEF Renaming, calls
      <3> QED
        BY <3>6, <3>7 DEF Moved, Stage
    <2>4. CASE b \in {Set(s) : s \in Statuses}
      <3>1. PICK s \in Statuses : b = Set(s)
        BY <2>4
      <3> DEFINE c == [op |-> "status", key |-> "", val |-> s]
      <3>2. job[h].todo = <<c, Call("feed")>> /\ asks(b) = Home /\ c.op = "status"
        BY <2>1, <3>1, ButtonCalls, Asking
      <3> HIDE DEF c
      <3>3. Head(job[h].todo) = c /\ Tail(Tail(job[h].todo)) = <<>> /\ <<>> \in Seq(Calls)
        BY <3>2, Tuples, TupleTypes
      <3>4. GoesOn(h, <<>>) /\ UNCHANGED <<astray, wanted, bot_state>>
        BY <3>2, <3>3, FailingIncident
      <3> QED
        BY <2>1, <3>2, <3>4, EndedUnwritten
    <2>5. CASE b = Done
      <3>1. Head(job[h].todo) = Call("read title")
        <4>1. job[h].todo =
                <<Call("read title"), Call("create"), Call("feed"), Del("inc_title_txt")>>
          BY <2>1, <2>5, ButtonCalls
        <4> QED
          BY <4>1, FourAre, Zenon
      <3> QED
        BY <3>1, NoWrite
    <2>6. CASE b = Delete
      <3>1. Head(job[h].todo) = Call("read list")
        <4>1. job[h].todo = <<Call("read list"), Call("remove")>>
          BY <2>1, <2>6, ButtonCalls
        <4> QED
          BY <4>1, Tuples
      <3> QED
        BY <3>1, NoWrite
    <2> QED
      BY <2>1, <2>2, <2>3, <2>4, <2>5, <2>6 DEF Every, Wants
  <1> QED
    BY <1>1, <1>2

(* What is left of a button.                                               *)
LEMMA FailedRest ==
  ASSUME Inv, NEW h \in Handlers, NEW a \in Admins, job[h].who = a, WriteFails(h),
         \/ Renaming(job[h], bot_state[a], wanted[a]) \/ Renamed(job[h], bot_state[a], wanted[a])
         \/ Opening(job[h], bot_state[a], wanted[a]) \/ Opened(job[h], bot_state[a], wanted[a])
         \/ Closing(job[h], bot_state[a], wanted[a]) \/ Telling(job[h], bot_state[a], wanted[a])
         \/ Removing(job[h], bot_state[a], wanted[a])
  PROVE  Moved(h, a)
  <1>1. CASE Renaming(job[h], bot_state[a], wanted[a])
    <2>1. PICK n \in Names : job[h].todo = <<Put("ren_target", n), Put("await", "ren_name")>>
      BY <1>1 DEF Renaming
    <2>2. /\ Head(job[h].todo) = Put("ren_target", n)
          /\ Tail(job[h].todo) = <<Put("await", "ren_name")>>
      BY <2>1, Tuples
    <2>6. Put("ren_target", n).op = "put"
      BY OpOf
    <2>3. GoesOn(h, <<Put("await", "ren_name")>>) /\ ~Clean(a)'
      BY <2>2, <2>6, FailingPut
    <2>4. job'[h].todo = <<Put("await", "ren_name")>> /\ job'[h].who = a
      BY <2>3, Tuples DEF GoesOn
    <2>5. Renamed(job[h], bot_state[a], wanted[a])'
      BY <2>3, <2>4 DEF Renamed
    <2> QED
      BY <2>4, <2>5 DEF Moved, Stage
  <1>2. CASE Renamed(job[h], bot_state[a], wanted[a]) \/ Closing(job[h], bot_state[a], wanted[a])
    <2>1. PICK k, v : job[h].todo = <<Put(k, v)>>
      BY <1>2, OpOf DEF Renamed, Closing
    <2>2. /\ Head(job[h].todo) = Put(k, v) /\ Put(k, v).op = "put" /\ Tail(job[h].todo) = <<>>
      BY <2>1, Tuples, OpOf
    <2>3. GoesOn(h, <<>>) /\ ~Clean(a)'
      BY <2>2, FailingPut
    <2> QED
      BY <2>3, EndedAstray
  <1>3. CASE Opening(job[h], bot_state[a], wanted[a])
    <2> DEFINE calls == <<Del("inc_title_txt")>>
    <2>1. /\ job[h].todo = <<Call("create"), Call("feed"), Del("inc_title_txt")>>
          /\ Rests(job[h], bot_state[a], wanted[a])
      BY <1>3 DEF Opening
    <2>8. Head(job[h].todo) = Call("create")
      BY <2>1, ThreeHeads
    <2>2. Head(job[h].todo) = Call("create") /\ Call("create").op = "create"
      BY <2>8, OpOf
    <2>3. Tail(Tail(job[h].todo)) = calls
      <3>1. \A u, v, w : Tail(<<u, v, w>>) = <<v, w>>
        BY Tuples
      <3>2. Tail(job[h].todo) = <<Call("feed"), Del("inc_title_txt")>>
        BY <2>1, <3>1
      <3> QED
        BY <3>2, Tuples
    <2>4. calls \in Seq(Calls) /\ calls # <<>>
      <3>1. Del("inc_title_txt") \in Calls
        BY CallsAre DEF State
      <3> QED
        BY <3>1, TupleTypes, Tuples
    <2> HIDE DEF calls
    <2>5. GoesOn(h, calls) /\ UNCHANGED <<astray, wanted, bot_state>>
      BY <2>2, <2>3, <2>4, FailingIncident
    <2>6. job'[h].todo = calls /\ job'[h].who = a
      BY <2>4, <2>5 DEF GoesOn
    <2>7. Closing(job[h], bot_state[a], wanted[a])'
      BY <2>1, <2>5, <2>6 DEF Closing, Rests, Clean, calls
    <2> QED
      BY <2>6, <2>7 DEF Moved, Stage
  <1>4. CASE Opened(job[h], bot_state[a], wanted[a])
    <2>1. /\ job[h].todo = <<Call("feed"), Del("inc_title_txt")>>
          /\ Rests(job[h], bot_state[a], wanted[a])
      BY <1>4 DEF Opened
    <2>2. /\ Head(job[h].todo) = Call("feed")
          /\ Tail(job[h].todo) = <<Del("inc_title_txt")>> /\ <<Del("inc_title_txt")>> # <<>>
      BY <2>1, Tuples
    <2>6. Call("feed").op = "feed"
      BY OpOf
    <2>3. GoesOn(h, <<Del("inc_title_txt")>>) /\ UNCHANGED <<astray, wanted, bot_state>>
      BY <2>2, <2>6, FailingWrite
    <2>4. job'[h].todo = <<Del("inc_title_txt")>> /\ job'[h].who = a
      BY <2>2, <2>3 DEF GoesOn
    <2>5. Closing(job[h], bot_state[a], wanted[a])'
      BY <2>1, <2>3, <2>4 DEF Closing, Rests, Clean
    <2> QED
      BY <2>4, <2>5 DEF Moved, Stage
  <1>5. CASE Telling(job[h], bot_state[a], wanted[a]) \/ Removing(job[h], bot_state[a], wanted[a])
    <2>1. PICK f \in {"feed", "remove"} :
            /\ job[h].todo = <<Call(f)>>
            /\ Clean(a) => wanted[a] = Home /\ bot_state[a].await = ""
      BY <1>5 DEF Telling, Removing, Rests
    <2>2. /\ Head(job[h].todo) = Call(f) /\ Call(f).op = f
          /\ Tail(job[h].todo) = <<>>
      BY <2>1, Tuples, OpOf
    <2>3. GoesOn(h, <<>>) /\ UNCHANGED <<astray, wanted, bot_state>>
      BY <2>2, FailingWrite
    <2> QED
      BY <2>1, <2>3, EndedUnwritten
  <1> QED
    BY <1>1, <1>2, <1>3, <1>4, <1>5

(* The handler of a message.                                               *)
LEMMA FailedAnswer ==
  ASSUME Inv, NEW h \in Handlers, NEW a \in Admins, job[h].who = a, WriteFails(h),
         \/ Commanded(job[h], bot_state[a], wanted[a]) \/ Texted(job[h], bot_state[a], wanted[a])
         \/ Answering(job[h], bot_state[a], wanted[a])
         \/ Answered(job[h], bot_state[a], wanted[a])
         \/ Targeting(job[h], bot_state[a], wanted[a]) \/ Adding(job[h], bot_state[a], wanted[a])
         \/ Added(job[h], bot_state[a], wanted[a])
  PROVE  Moved(h, a)
  <1>0. UNCHANGED sent
    BY DEF WriteFails
  <1>1. CASE Commanded(job[h], bot_state[a], wanted[a]) \/ Texted(job[h], bot_state[a], wanted[a])
    <2>1. job[h].todo = <<Call("read await")>>
      BY <1>1 DEF Commanded, Texted, onUpdate
    <2>2. Head(job[h].todo) = Call("read await")
      BY <2>1, Tuples
    <2> QED
      BY <2>2, NoWrite
  <1>2. CASE Answering(job[h], bot_state[a], wanted[a])
    <2>1. PICK q \in Await : job[h].todo = handleAwait(q) /\ Typed(job[h])
      BY <1>2 DEF Answering
    <2>2. /\ Head(job[h].todo) = Put("await", "") /\ Put("await", "").op = "put"
          /\ Tail(job[h].todo) = Answer(q)
      BY <2>1, AnswerCalls, OpOf
    <2>3. GoesOn(h, Answer(q)) /\ ~Clean(a)'
      BY <2>2, FailingPut
    <2>4. job'[h].todo = Answer(q) /\ job'[h].who = a /\ job'[h].text = job[h].text
      BY <2>3, AnswerType DEF GoesOn
    <2>5. Typed(job[h])'
      BY <1>0, <2>1, <2>4 DEF Typed
    <2>6. Answered(job[h], bot_state[a], wanted[a])'
      BY <2>3, <2>4, <2>5 DEF Answered
    <2> QED
      BY <2>4, <2>6 DEF Moved, Stage
  <1>3. CASE Answered(job[h], bot_state[a], wanted[a])
    <2>1. PICK q \in Await :
            /\ job[h].todo = Answer(q) /\ Typed(job[h])
            /\ Clean(a) => /\ sent[job[h].text].for = AskedBy(q, bot_state[a])
                           /\ wanted[a] = Later(sent[job[h].text].for)
                           /\ bot_state[a].await = ""
      BY <1>3 DEF Answered
    <2>2. CASE q = "page_title"
      <3>1. /\ Head(job[h].todo) = Call("save title") /\ Tail(job[h].todo) = <<>>
            /\ Call("save title").op = "save title"
        BY <2>1, <2>2, Tuples, OpOf DEF Answer
      <3>2. GoesOn(h, <<>>) /\ UNCHANGED <<astray, wanted, bot_state>>
        BY <3>1, FailingWrite
      <3>3. Clean(a) => wanted[a] = Home /\ bot_state[a].await = ""
        BY <2>1, <2>2, Then DEF AskedBy, Questions
      <3> QED
        BY <3>2, <3>3, EndedUnwritten
    <2>3. CASE q = "ren_name"
      <3>1. Head(job[h].todo) = Call("read target")
        <4>1. job[h].todo = <<Call("read target"), Del("ren_target"), Call("rename")>>
          BY <2>1, <2>3 DEF Answer
        <4> QED
          BY <4>1, ThreeHeads
      <3> QED
        BY <3>1, NoWrite
    <2>4. CASE q = "inc_title"
      <3>1. /\ Head(job[h].todo) = PutText("inc_title_txt") /\ Tail(job[h].todo) = <<>>
            /\ PutText("inc_title_txt").op = "put text"
        BY <2>1, <2>4, Tuples, OpOf DEF Answer
      <3>2. GoesOn(h, <<>>) /\ ~Clean(a)'
        BY <3>1, FailingPut
      <3> QED
        BY <3>2, EndedAstray
    <2>5. CASE q = "sub_add"
      <3>1. Head(job[h].todo) = Call("read list")
        <4>1. job[h].todo = <<Call("read list"), Call("add"), Put("await", "sub_add")>>
          BY <2>1, <2>5 DEF Answer
        <4> QED
          BY <4>1, ThreeHeads
      <3> QED
        BY <3>1, NoWrite
    <2> QED
      BY <2>2, <2>3, <2>4, <2>5 DEF Await, Questions
  <1>4. CASE Targeting(job[h], bot_state[a], wanted[a])
    <2>1. /\ Typed(job[h]) /\ job[h].got \in Names \cup {""}
          /\ Clean(a) => sent[job[h].text].for = AskName(job[h].got)
          /\ Rests(job[h], bot_state[a], wanted[a])
      BY <1>4 DEF Targeting
    <2>2. CASE job[h].todo = <<Call("rename")>>
      <3>1. /\ Head(job[h].todo) = Call("rename") /\ Tail(job[h].todo) = <<>>
            /\ Call("rename").op = "rename"
        BY <2>2, Tuples, OpOf
      <3>2. GoesOn(h, <<>>) /\ UNCHANGED <<astray, wanted, bot_state>>
        BY <3>1, FailingWrite
      <3> QED
        BY <2>1, <3>2, EndedUnwritten DEF Rests
    <2>3. CASE job[h].todo = <<Del("ren_target"), Call("rename")>>
      <3>1. Head(job[h].todo) = Del("ren_target") /\ Tail(job[h].todo) = <<Call("rename")>>
        BY <2>3, Tuples
      <3>2. GoesOn(h, <<Call("rename")>>) /\ ~Clean(a)'
        BY <3>1, Erasing, FailingPut
      <3>3. /\ job'[h].todo = <<Call("rename")>> /\ job'[h].who = a
            /\ job'[h].text = job[h].text /\ job'[h].got = job[h].got
        BY <3>2, Tuples DEF GoesOn
      <3>4. Typed(job[h])' /\ job'[h].got \in Names \cup {""}
        BY <1>0, <2>1, <3>3 DEF Typed
      <3>5. Targeting(job[h], bot_state[a], wanted[a])'
        BY <3>2, <3>3, <3>4 DEF Targeting, Rests
      <3> QED
        BY <3>3, <3>5 DEF Moved, Stage
    <2> QED
      BY <1>4, <2>2, <2>3 DEF Targeting
  <1>5. CASE Adding(job[h], bot_state[a], wanted[a])
    <2>1. /\ job[h].todo = <<Call("add"), Put("await", "sub_add")>>
          /\ Clean(a) => wanted[a] = Ask("sub_add")
      BY <1>5 DEF Adding
    <2>2. /\ Head(job[h].todo) = Call("add")
          /\ Tail(job[h].todo) = <<Put("await", "sub_add")>>
          /\ <<Put("await", "sub_add")>> # <<>>
      BY <2>1, Tuples
    <2>6. Call("add").op = "add"
      BY OpOf
    <2>3. /\ GoesOn(h, <<Put("await", "sub_add")>>)
          /\ UNCHANGED <<astray, wanted, bot_state>>
      BY <2>2, <2>6, FailingWrite
    <2>4. job'[h].todo = <<Put("await", "sub_add")>> /\ job'[h].who = a
      BY <2>2, <2>3 DEF GoesOn
    <2>5. Added(job[h], bot_state[a], wanted[a])'
      BY <2>1, <2>3, <2>4 DEF Added, Clean
    <2> QED
      BY <2>4, <2>5 DEF Moved, Stage
  <1>6. CASE Added(job[h], bot_state[a], wanted[a])
    <2>1. job[h].todo = <<Put("await", "sub_add")>>
      BY <1>6 DEF Added
    <2>2. /\ Head(job[h].todo) = Put("await", "sub_add") /\ Tail(job[h].todo) = <<>>
          /\ Put("await", "sub_add").op = "put"
      BY <2>1, Tuples, OpOf
    <2>3. GoesOn(h, <<>>) /\ ~Clean(a)'
      BY <2>2, FailingPut
    <2> QED
      BY <2>3, EndedAstray
  <1> QED
    BY <1>1, <1>2, <1>3, <1>4, <1>5, <1>6

(* No change of the list comes after a failed write.                       *)
LEMMA FailedChanges ==
  ASSUME Inv, NEW h \in Handlers, NEW a \in Admins, job[h].who = a, WriteFails(h),
         Stage(job[h], bot_state[a], wanted[a])
  PROVE  ~Changing(h)' /\ ~At(h, "create")'
  <1>1. /\ job[h].todo # <<>> /\ Head(job[h].todo).op \in Writes
        /\ Follows(job[h].todo)
    BY FollowsStage DEF WriteFails, At
  <1>2. ASSUME NEW calls, Go(h, job[h], calls)
        PROVE  job'[h].todo = calls
    <2>1. job[h] \in Job /\ job'[h] = IF calls = <<>> THEN Idle ELSE [job[h] EXCEPT !.todo = calls]
      BY <1>2, TypesNow DEF Go, Types
    <2> QED
      BY <2>1, IdleIs DEF Job
  <1>3. CASE ~At(h, "create") /\ ~At(h, "status")
    <2>1. job'[h].todo = Tail(job[h].todo)
      BY <1>2, <1>3 DEF WriteFails, Left
    <2> QED
      BY <1>1, <2>1 DEF Follows, Changing, At, Writes
  <1>4. CASE At(h, "create") \/ At(h, "status")
    <2>1. job'[h].todo = Tail(Tail(job[h].todo))
      BY <1>2, <1>4 DEF WriteFails, Left
    <2>2. Opening(job[h], bot_state[a], wanted[a]) \/ Changes(job[h].todo)
      BY <1>4, Creating DEF At
    <2>3. CASE Opening(job[h], bot_state[a], wanted[a])
      <3>1. \A u, v, w : Tail(<<u, v, w>>) = <<v, w>>
        BY Tuples
      <3>2. Tail(job[h].todo) = <<Call("feed"), Del("inc_title_txt")>>
        BY <2>3, <3>1 DEF Opening
      <3>3. Tail(Tail(job[h].todo)) = <<Del("inc_title_txt")>>
        BY <3>2, Tuples
      <3>4. Head(job'[h].todo) = Del("inc_title_txt")
        BY <2>1, <3>3, Tuples
      <3>5. Head(job'[h].todo).op = "put"
        BY <3>4, Erasing
      <3> QED
        BY <3>5 DEF Changing, At
    <2>4. CASE Changes(job[h].todo)
      <3>1. job'[h].todo = <<>>
        <4>1. PICK x, y : job[h].todo = <<x, y>>
          BY <2>4 DEF Changes
        <4>2. Tail(job[h].todo) = <<y>>
          BY <4>1, Tuples
        <4> QED
          BY <2>1, <4>2, Tuples
      <3> QED
        BY <3>1 DEF Changing, At
    <2> QED
      BY <2>2, <2>3, <2>4
  <1> QED
    BY <1>3, <1>4

LEMMA FailureKeeps ==
  ASSUME Inv, NEW h \in Handlers, WriteFails(h)
  PROVE  Inv'
  <1>1. job[h].todo # <<>>
    BY DEF WriteFails, At
  <1>2. job[h] # Idle
    BY <1>1, IdleIs
  <1>3. PICK a \in Admins : job[h].who = a /\ Stage(job[h], bot_state[a], wanted[a])
    BY <1>2 DEF Inv, Stands
  <1>4. Moved(h, a) /\ ~Changing(h)'
    BY <1>3, FailedButton, FailedRest, FailedAnswer, FailedChanges DEF Stage
  <1>5. /\ UNCHANGED <<tables, sent, wanted, clashed>>
        /\ presses < MaxPresses /\ presses' = presses + 1
        /\ astray \subseteq astray' /\ astray' \subseteq astray \cup {a}
        /\ doubtful \subseteq doubtful' /\ doubtful' \subseteq doubtful \cup UnderWay(a)
        /\ a \in astray' => a \in astray \/ UnderWay(a) \subseteq doubtful'
        /\ doubled' \subseteq doubled \cup {bot_state[a]["inc_title_txt"]}
    BY <1>3 DEF WriteFails, Me
  <1>6. PICK calls : Go(h, job[h], calls)
    BY DEF WriteFails
  <1>7. /\ \A g \in Handlers : g # h => job'[g] = job[g]
        /\ job'[h] = IF calls = <<>> THEN Idle ELSE [job[h] EXCEPT !.todo = calls]
        /\ job[h] \in Job
    BY <1>6, TypesNow DEF Go, Types
  <1>8. /\ job'[h].text = "" \/ (job'[h].text = job[h].text /\ job'[h].who = a)
        /\ job'[h] = Idle \/ job'[h].who = a
    <2>1. CASE calls = <<>>
      BY <1>7, <2>1, NoText
    <2>2. CASE calls # <<>>
      BY <1>3, <1>7, <2>2 DEF Job
    <2> QED
      BY <2>1, <2>2
  <1>9. job' \in [Handlers -> Job]
    <2>1. job'[h] \in Job
      <3>1. CASE calls = <<>>
        BY <1>7, <3>1, IdleIs
      <3>2. CASE calls # <<>>
        <4>1. job'[h].todo = calls
          BY <1>7, <3>2 DEF Job
        <4>2. job'[h].todo \in Seq(Calls)
          BY <1>3, FailedTodo
        <4> QED
          BY <1>7, <3>2, <4>1, <4>2 DEF Job
      <3> QED
        BY <3>1, <3>2
    <2>2. job' = [job EXCEPT ![h] = job'[h]]
      BY <1>6, <1>7, TypesNow DEF Go, Types
    <2> QED
      BY <2>1, <2>2, TypesNow DEF Types
  <1>10. Types'
    <2>1. UnderWay(a) \subseteq Texts
      <3>1. \A g \in Handlers : job[g].text \in Texts \cup {""}
        BY TypesNow DEF Types, Job
      <3> QED
        BY <3>1 DEF UnderWay
    <2>2. bot_state[a]["inc_title_txt"] \in Texts \cup {""}
      BY TypesNow DEF Types, BotState
    <2>3. presses' \in 0..MaxPresses
      BY <1>5, OneMore, TypesNow
    <2>4. /\ astray' \subseteq Admins /\ doubtful' \subseteq Texts
          /\ doubled' \subseteq Texts \cup {""}
      BY <1>5, <2>1, <2>2, TypesNow DEF Types
    <2> QED
      BY <1>5, <1>9, <2>3, <2>4, TypesNow DEF Types, tables
  <1>11. Tables'
    BY <1>5, <1>10, TablesGrow, TypesNow DEF tables
  <1>12. ASSUME NEW g \in Handlers, g # h
         PROVE  Stands(g)'
    <2> SUFFICES ASSUME job[g] # Idle
                 PROVE  Stands(g)'
      BY <1>7, <1>12 DEF Stands
    <2>1. Stands(g) /\ job'[g] = job[g]
      BY <1>7, <1>12 DEF Inv
    <2>2. Clean(job[g].who)' =>
            /\ Clean(job[g].who) /\ bot_state'[job[g].who] = bot_state[job[g].who]
            /\ wanted'[job[g].who] = wanted[job[g].who]
      BY <1>5, <2>1 DEF Clean, tables
    <2>3. /\ \A t, q : Meant(t, q) => Meant(t, q)'
          /\ \A u : Given(u) => Given(u)'
      BY <1>5, MeantStays, GivenStays
    <2>4. Listed(job[g]) => Listed(job[g])'
      BY <1>5, <2>1, <2>3 DEF Listed, tables
    <2>5. Tells(job[g]) => Tells(job[g])'
      BY <1>5, <2>1 DEF Tells, tables
    <2> QED
      BY <1>5, <2>1, <2>2, <2>3, <2>4, <2>5, StandsStay
  <1>13. Stands(h)'
    BY <1>3, <1>4 DEF Moved, Stands
  <1>14. OneEach'
    <2> SUFFICES ASSUME NEW f \in Handlers, NEW g \in Handlers, Clean(job[f].who)',
                        job'[f] # Idle, job'[g] # Idle, job'[f].who = job'[g].who
                 PROVE  f = g
      BY DEF OneEach
    <2>1. /\ job[f] # Idle /\ job[f].who = job'[f].who
          /\ job[g] # Idle /\ job[g].who = job'[g].who
      BY <1>2, <1>3, <1>7, <1>8
    <2>2. Clean(job[f].who)
      BY <1>5, <2>1 DEF Clean
    <2> QED
      BY <2>1, <2>2 DEF Inv, OneEach
  <1>15. LeftAsAsked'
    <2> SUFFICES ASSUME NEW b \in Admins, Clean(b)', ~Busy(b)'
                 PROVE  Awaits(bot_state'[b], wanted'[b])
      BY DEF LeftAsAsked
    <2>1. CASE b = a
      <3>2. \/ Clean(a)' => Awaits(bot_state'[a], wanted'[a])
            \/ job'[h].who = a
        BY <1>4 DEF Moved
      <3>3. job'[h].who # a
        BY <2>1 DEF Busy
      <3> QED
        BY <2>1, <3>2, <3>3, Zenon
    <2>2. CASE b # a
      <3>1. ~Busy(b) /\ Clean(b)
        BY <1>3, <1>5, <1>7, <2>2 DEF Busy, Clean
      <3>2. bot_state'[b] = bot_state[b] /\ wanted'[b] = wanted[b]
        BY <1>5 DEF tables
      <3> QED
        BY <3>1, <3>2 DEF Inv, LeftAsAsked
    <2> QED
      BY <2>1, <2>2
  <1>16. Doubted'
    <2> SUFFICES ASSUME NEW g \in Handlers, job'[g].text # "", ~Clean(job[g].who)'
                 PROVE  job'[g].text \in doubtful'
      BY DEF Doubted
    <2>1. job[g].text = job'[g].text /\ job[g].who = job'[g].who
      BY <1>3, <1>7, <1>8
    <2>2. CASE ~Clean(job[g].who)
      BY <1>5, <2>1, <2>2 DEF Inv, Doubted
    <2>3. CASE Clean(job[g].who)
      <3>1. job[g].who = a /\ a \in astray' /\ a \notin astray
        BY <1>5, <2>1, <2>3 DEF Clean
      <3>2. job[g].text \in UnderWay(a)
        BY <2>1, <3>1 DEF UnderWay
      <3> QED
        BY <1>5, <2>1, <3>1, <3>2
    <2> QED
      BY <2>2, <2>3
  <1>17. ChangeAlone'
    <2>1. \A g \in Handlers : Changing(g)' => Changing(g)
      BY <1>4, <1>7 DEF Changing, At
    <2> QED
      BY <1>5, <2>1 DEF Inv, ChangeAlone
  <1> QED
    BY <1>11, <1>12, <1>13, <1>14, <1>15, <1>16, <1>17 DEF Inv

-----------------------------------------------------------------------------
LEMMA Starts == Init => Inv
  <1> SUFFICES ASSUME Init PROVE Inv
    OBVIOUS
  <1>1. /\ incidents = <<>> /\ subs = <<>> /\ DOMAIN incidents = {}
        /\ job = [h \in Handlers |-> Idle] /\ presses = 0 /\ clashed = FALSE
        /\ astray = {} /\ doubtful = {} /\ doubled = {}
        /\ sent = [t \in Texts |-> Unsent] /\ wanted = [a \in Admins |-> Home]
        /\ title = "" /\ aliases = [n \in Names |-> ""]
        /\ bot_state = [a \in Admins |-> [k \in State |-> ""]]
    <2>1. \A x : x = <<>> => DOMAIN x = {}
      OBVIOUS
    <2> QED
      BY <2>1, Zenon DEF Init
  <1>2. \A h \in Handlers : job[h] = Idle
    BY <1>1
  <1>3. [k \in State |-> ""] \in BotState
    BY DEF State, BotState
  <1>4. Home \in Wants /\ Unsent \in Sent
    BY DEF Wants, Unsent, Sent
  <1>5. presses \in 0..MaxPresses
    <2>1. presses = 0 /\ MaxPresses \in Nat
      BY <1>1, DialogAssumption
    <2>2. \A m \in Nat : 0 \in 0..m
      OBVIOUS
    <2> QED
      BY <2>1, <2>2, Zenon
  <1>6. subs \in Seq(Links) /\ IsInjective(subs) /\ ToSet(subs) = {}
    BY <1>1, EmptyList
  <1>7. job \in [Handlers -> Job]
    BY <1>1, IdleIs
  <1>8. incidents \in Seq(Incident)
    BY <1>1, TupleTypes
  <1>9. Types
    BY <1>1, <1>3, <1>4, <1>5, <1>6, <1>7, <1>8 DEF Types
  <1>10. Stored
    BY <1>1, <1>6 DEF Stored, State
  <1>12. LeftAsAsked
    BY <1>1 DEF LeftAsAsked, Awaits, Home, State
  <1>13. OneEach /\ Doubted /\ ChangeAlone /\ \A h \in Handlers : Stands(h)
    BY <1>2, IdleIs, NoText DEF OneEach, Doubted, ChangeAlone, Changing, At, Stands
  <1> QED
    BY <1>9, <1>10, <1>12, <1>13 DEF Inv, Tables

LEMMA Keeps == Inv /\ [Next]_dialogVars => Inv'
  <1> SUFFICES ASSUME Inv, [Next]_dialogVars PROVE Inv'
    OBVIOUS
  <1>1. CASE \E a \in Admins, b \in Buttons : Press(a, b)
    BY <1>1, PressKeeps
  <1>2. CASE \E a \in Admins, t \in Texts : Send(a, t)
    BY <1>2, SendKeeps
  <1>3. CASE \E a \in Admins : Command(a)
    BY <1>3, CommandKeeps
  <1>4. CASE \E h \in Handlers : Step(h)
    BY <1>4, StepKeeps
  <1>7. CASE \E h \in Handlers : WriteFails(h)
    BY <1>7, FailureKeeps
  <1>5. CASE Restart
    BY <1>5, RestartKeeps
  <1>6. CASE UNCHANGED dialogVars
    BY <1>6, NothingMoves
  <1> QED
    BY <1>1, <1>2, <1>3, <1>4, <1>5, <1>6, <1>7 DEF Next

LEMMA Always == Spec => []Inv
  BY Starts, Keeps, PTL DEF Spec

-----------------------------------------------------------------------------
(* The first call of each stage: a list that is about to be written back   *)
(* is one that was read.                                                   *)

Harmless(t) == t # <<>> /\ Head(t).op \notin {"add", "remove"}

LEMMA HarmlessCalls ==
  ASSUME NEW x, x.op \notin {"add", "remove"}
  PROVE  /\ Harmless(<<x>>) /\ \A y : Harmless(<<x, y>>)
         /\ \A y, z : Harmless(<<x, y, z>>)
         /\ \A y, z, v : Harmless(<<x, y, z, v>>)
  <1>1. Harmless(<<x>>) /\ \A y : Harmless(<<x, y>>)
    BY Tuples DEF Harmless
  <1>2. \A t : t # <<>> /\ Head(t) = x => Harmless(t)
    BY DEF Harmless
  <1>3. \A y, z : Harmless(<<x, y, z>>)
    <2> TAKE y, z
    <2>1. PICK t : t = <<x, y, z>>
      OBVIOUS
    <2>2. t # <<>> /\ Head(t) = x
      BY <2>1, ThreeCalls
    <2>3. Harmless(t)
      BY <1>2, <2>2
    <2> QED
      BY <2>1, <2>3, Zenon
  <1>4. \A y, z, v : Harmless(<<x, y, z, v>>)
    <2> TAKE y, z, v
    <2> QED
      BY <1>2, FourAre, Zenon
  <1> QED
    BY <1>1, <1>3, <1>4, Zenon

LEMMA HarmlessOps ==
  /\ \A k, v : Put(k, v).op \notin {"add", "remove"}
  /\ \A k : Del(k).op \notin {"add", "remove"} /\ PutText(k).op \notin {"add", "remove"}
  /\ \A f : f \notin {"add", "remove"} => Call(f).op \notin {"add", "remove"}
  /\ \A s : [op |-> "status", key |-> "", val |-> s].op \notin {"add", "remove"}
  BY DEF Put, Del, PutText, Call

LEMMA HarmlessButton ==
  ASSUME NEW b \in Every, b # Home
  PROVE  Harmless(handleCallback(b))
  <1>1. CASE b \in {Ask(q) : q \in Questions}
    <2>1. PICK q \in Questions : handleCallback(b) = <<Put("await", q)>>
      BY <1>1, ButtonCalls
    <2>2. Put("await", q).op \notin {"add", "remove"}
      BY HarmlessOps
    <2> QED
      BY <2>1, <2>2, HarmlessCalls
  <1>2. CASE b \in {AskName(n) : n \in Names}
    <2>1. PICK n \in Names : b = AskName(n)
      BY <1>2
    <2>2. handleCallback(b) =
            <<Del("ren_target"), Put("ren_target", n), Put("await", "ren_name")>>
      BY <2>1, ButtonCalls
    <2>3. Del("ren_target").op \notin {"add", "remove"}
      BY HarmlessOps
    <2> QED
      BY <2>2, <2>3, HarmlessCalls
  <1>3. CASE b \in {Set(s) : s \in Statuses}
    <2>1. PICK s \in Statuses : b = Set(s)
      BY <1>3
    <2>2. PICK c : c = [op |-> "status", key |-> "", val |-> s]
      OBVIOUS
    <2>3. handleCallback(b) = <<c, Call("feed")>> /\ c.op = "status"
      BY <2>1, <2>2, ButtonCalls
    <2> QED
      BY <2>3, HarmlessCalls
  <1>4. CASE b = Done
    <2>1. handleCallback(b) =
            <<Call("read title"), Call("create"), Call("feed"), Del("inc_title_txt")>>
      BY <1>4, ButtonCalls
    <2>2. Call("read title").op \notin {"add", "remove"}
      BY HarmlessOps
    <2> QED
      BY <2>1, <2>2, HarmlessCalls
  <1>5. CASE b = Delete
    <2>1. handleCallback(b) = <<Call("read list"), Call("remove")>>
      BY <1>5, ButtonCalls
    <2>2. Call("read list").op \notin {"add", "remove"}
      BY HarmlessOps
    <2> QED
      BY <2>1, <2>2, HarmlessCalls
  <1> QED
    BY <1>1, <1>2, <1>3, <1>4, <1>5 DEF Every, Wants

LEMMA HarmlessAnswer ==
  ASSUME NEW q \in Await
  PROVE  Harmless(Answer(q)) /\ Harmless(handleAwait(q))
  <1>1. /\ Call("save title").op \notin {"add", "remove"}
        /\ Call("read target").op \notin {"add", "remove"}
        /\ Call("read list").op \notin {"add", "remove"}
        /\ PutText("inc_title_txt").op \notin {"add", "remove"}
        /\ Del("await").op \notin {"add", "remove"}
    BY HarmlessOps
  <1>2. Harmless(handleAwait(q))
    BY <1>1, AnswerCalls DEF Harmless
  <1>3. Harmless(Answer(q))
    <2>1. CASE q = "page_title"
      <3>1. Answer(q) = <<Call("save title")>>
        BY <2>1 DEF Answer
      <3> QED
        BY <1>1, <3>1, HarmlessCalls
    <2>2. CASE q = "ren_name"
      <3>1. Answer(q) = <<Call("read target"), Del("ren_target"), Call("rename")>>
        BY <2>2 DEF Answer
      <3> QED
        BY <1>1, <3>1, HarmlessCalls
    <2>3. CASE q = "inc_title"
      <3>1. Answer(q) = <<PutText("inc_title_txt")>>
        BY <2>3 DEF Answer
      <3> QED
        BY <1>1, <3>1, HarmlessCalls
    <2>4. CASE q = "sub_add"
      <3>1. Answer(q) = <<Call("read list"), Call("add"), Put("await", "sub_add")>>
        BY <2>4 DEF Answer
      <3> QED
        BY <1>1, <3>1, HarmlessCalls
    <2> QED
      BY <2>1, <2>2, <2>3, <2>4 DEF Await, Questions
  <1> QED
    BY <1>2, <1>3

LEMMA WritesRead ==
  ASSUME NEW j, NEW s, NEW w, Stage(j, s, w)
  PROVE  Harmless(j.todo) \/ (Listed(j) /\ j.todo # <<>>)
  <1>1. /\ \A k, v : Put(k, v).op \notin {"add", "remove"}
        /\ Del("await").op \notin {"add", "remove"}
        /\ Del("ren_target").op \notin {"add", "remove"}
        /\ Del("inc_title_txt").op \notin {"add", "remove"}
        /\ Call("create").op \notin {"add", "remove"} /\ Call("feed").op \notin {"add", "remove"}
        /\ Call("rename").op \notin {"add", "remove"}
        /\ Call("read await").op \notin {"add", "remove"}
    BY HarmlessOps
  <1>2. CASE Pressed(j, s, w)
    <2>1. PICK b \in Every : j.todo = onCallback(b)
      BY <1>2 DEF Pressed
    <2> QED
      BY <1>1, <2>1, PressedCalls DEF Harmless
  <1>3. CASE Picked(j, s, w)
    BY <1>3, HarmlessButton DEF Picked
  <1>4. CASE Renaming(j, s, w)
    <2>1. PICK n : j.todo = <<Put("ren_target", n), Put("await", "ren_name")>>
      BY <1>4 DEF Renaming
    <2> QED
      BY <1>1, <2>1, HarmlessCalls
  <1>5. CASE Renamed(j, s, w) \/ Added(j, s, w)
    <2>1. PICK v : j.todo = <<Put("await", v)>>
      BY <1>5 DEF Renamed, Added
    <2> QED
      BY <1>1, <2>1, HarmlessCalls
  <1>6. CASE Opening(j, s, w)
    <2>1. j.todo = <<Call("create"), Call("feed"), Del("inc_title_txt")>>
      BY <1>6 DEF Opening
    <2> QED
      BY <1>1, <2>1, HarmlessCalls
  <1>7. CASE Opened(j, s, w)
    <2>1. j.todo = <<Call("feed"), Del("inc_title_txt")>>
      BY <1>7 DEF Opened
    <2> QED
      BY <1>1, <2>1, HarmlessCalls
  <1>8. CASE Closing(j, s, w)
    BY <1>1, <1>8, HarmlessCalls DEF Closing
  <1>9. CASE Telling(j, s, w)
    BY <1>1, <1>9, HarmlessCalls DEF Telling
  <1>10. CASE Commanded(j, s, w) \/ Texted(j, s, w)
    BY <1>1, <1>10, HarmlessCalls DEF Commanded, Texted, onUpdate
  <1>11. CASE Answering(j, s, w) \/ Answered(j, s, w)
    BY <1>11, HarmlessAnswer DEF Answering, Answered
  <1>12. CASE Targeting(j, s, w)
    <2>1. CASE j.todo = <<Del("ren_target"), Call("rename")>>
      BY <1>1, <2>1, HarmlessCalls
    <2>2. CASE j.todo = <<Call("rename")>>
      BY <1>1, <2>2, HarmlessCalls
    <2> QED
      BY <1>12, <2>1, <2>2 DEF Targeting
  <1>13. CASE Removing(j, s, w) \/ Adding(j, s, w)
    BY <1>13, Tuples DEF Removing, Adding
  <1> QED
    BY <1>2, <1>3, <1>4, <1>5, <1>6, <1>7, <1>8, <1>9, <1>10, <1>11, <1>12, <1>13 DEF Stage

-----------------------------------------------------------------------------
(* The properties.                                                         *)

(* The tables of the dialogs hold what their columns are for, the stored   *)
(* links differ from each other (AddSubscriptionURL), and a handler that   *)
(* runs is an admin's and has a call to make.                              *)
THEOREM DialogTypeCorrect == Spec => []TypeOK
  <1> SUFFICES ASSUME Inv PROVE TypeOK
    BY Always, PTL
  <1>1. BotState = [await : {"", "ren_name"} \cup Questions,
                    ren_target : Names \cup {""}, inc_title_txt : Texts \cup {""}]
    <2>1. {""} \cup Await = {"", "ren_name"} \cup Questions
      BY DEF Await
    <2> QED
      BY <2>1 DEF BotState
  <1>2. \A h \in Handlers : job[h] = Idle \/ (job[h].who \in Admins /\ job[h].todo # <<>>)
    BY WritesRead DEF Inv, Stands, Harmless
  <1> QED
    BY <1>1, <1>2, TypesNow DEF Types, TypeOK

(* What is stored was typed for it by its author (handleAwait), however    *)
(* the dialogs of the admins interleave, except a text under way while its *)
(* author's updates overlapped, or after a restart or a failed write.      *)
THEOREM AnswersAreFit == Spec => []AnswersFit
  <1>1. Inv => AnswersFit
    <2> SUFFICES ASSUME Inv PROVE AnswersFit
      OBVIOUS
    <2>1. \A t, b : Meant(t, b) => t \in Texts /\ For(t, b) /\ sent[t].who # ""
      BY DialogAssumption DEF Meant, For
    <2>2. \A u \in ToSet(subs) :
            \E t \in Texts : sent[t] # Unsent /\ UrlOf[t] = u /\ For(t, Ask("sub_add"))
      <3> TAKE u \in ToSet(subs)
      <3>1. PICK t \in Texts : UrlOf[t] = u /\ Meant(t, Ask("sub_add"))
        BY TypesNow DEF Stored, Given
      <3>2. sent[t].who # "" /\ For(t, Ask("sub_add"))
        BY <2>1, <3>1
      <3>3. Unsent.who = ""
        BY DEF Unsent
      <3> QED
        BY <3>1, <3>2, <3>3
    <2> QED
      BY <2>1, <2>2, TypesNow DEF Stored, AnswersFit
  <1> QED
    BY <1>1, Always, PTL

(* The question that waits between an admin's updates is the one asked     *)
(* last (onCallback, onUpdate, handleAwait), unless overlapping updates, a *)
(* restart or a failed write left another, which lasts until a button or a *)
(* command finds the admin idle.                                           *)
THEOREM AskedAwaited == Spec => []AskedIsAwaited
  <1>1. Inv => AskedIsAwaited
    BY DEF Inv, LeftAsAsked, AskedIsAwaited, Clean
  <1> QED
    BY <1>1, Always, PTL

-----------------------------------------------------------------------------
(* One incident of a title: a text is of one handler and of no title until *)
(* its handler stores it, a title read is of no incident, and a title that *)
(* is one's is being deleted, or it is one of those that were doubled.     *)

Row(a)    == bot_state[a].inc_title_txt
Titled(t) == \E i \in DOMAIN incidents : incidents[i].title = t
Closer(h) == job[h].todo \in {<<Call("feed"), Del("inc_title_txt")>>, <<Del("inc_title_txt")>>}
Used(t) ==
  \/ Titled(t)
  \/ \E a \in Admins : Row(a) = t
  \/ \E h \in Handlers : At(h, "create") /\ job[h].got = t

TextsFresh ==
  \A h \in Handlers : job[h].text # "" =>
    /\ sent[job[h].text].who # "" /\ ~Used(job[h].text)
    /\ \A g \in Handlers : job[g].text = job[h].text => g = h
Unopened ==
  \A h \in Handlers : At(h, "create") => job[h].got \in doubled \/ ~Titled(job[h].got)
BeingClosed ==
  \A a \in Admins : Titled(Row(a)) =>
    Row(a) \in doubled \/ \E h \in Handlers : job[h].who = a /\ Closer(h)
OpenedByOne ==
  \A g, h \in Handlers :
    (At(g, "create") /\ At(h, "create") /\ job[g].got = job[h].got) =>
      g = h \/ job[g].got \in doubled
Alone    == Unopened /\ BeingClosed /\ OpenedByOne /\ OneIncidentPerTitle
OneOpens == TextsFresh /\ Alone

LEMMA NoTitle == Inv => ~Titled("")
  <1> SUFFICES ASSUME Inv, NEW i \in DOMAIN incidents, incidents[i].title = ""
               PROVE  FALSE
    BY DEF Titled
  <1>1. incidents[i].title \in Texts
    BY IncidentsAre, TypesNow DEF Incident
  <1> QED
    BY <1>1, DialogAssumption

LEMMA CloserAt ==
  ASSUME NEW h, Closer(h)
  PROVE  /\ job[h].todo # <<>>
         /\ Head(job[h].todo) \in {Call("feed"), Del("inc_title_txt")}
         /\ At(h, "feed") => Tail(job[h].todo) = <<Del("inc_title_txt")>>
  <1>1. CASE job[h].todo = <<Call("feed"), Del("inc_title_txt")>>
    BY <1>1, Tuples
  <1>2. CASE job[h].todo = <<Del("inc_title_txt")>>
    <2>1. Head(job[h].todo) = Del("inc_title_txt") /\ job[h].todo # <<>>
      BY <1>2, Tuples
    <2>2. Head(job[h].todo).op = "put"
      BY <2>1, Erasing
    <2> QED
      BY <2>1, <2>2 DEF At
  <1> QED
    BY <1>1, <1>2 DEF Closer

LEMMA NotCloser ==
  ASSUME NEW h, NEW f, At(h, f), f \notin {"feed", "put"}
  PROVE  ~Closer(h)
  <1>1. Call("feed").op = "feed" /\ Del("inc_title_txt").op = "put"
    BY OpOf, Erasing
  <1> QED
    BY <1>1, CloserAt DEF At

(* Steps that open nothing and leave what is open.                         *)
SameTitles ==
  /\ DOMAIN incidents' = DOMAIN incidents
  /\ \A i \in DOMAIN incidents : incidents'[i].title = incidents[i].title
RowKept(a) ==
  /\ bot_state'[a].inc_title_txt = bot_state[a].inc_title_txt
  /\ \A h \in Handlers : (job[h].who = a /\ Closer(h)) =>
       \E g \in Handlers : job'[g].who = a /\ Closer(g)'
NoneRead ==
  \A h \in Handlers : At(h, "create")' => At(h, "create") /\ job'[h].got = job[h].got

LEMMA StillClosed ==
  ASSUME Alone, doubled \subseteq doubled', SameTitles,
         \A a \in Admins : \/ RowKept(a)
                           \/ LET t == bot_state'[a].inc_title_txt
                              IN ~Titled(t) \/ t \in doubled'
  PROVE  BeingClosed' /\ OneIncidentPerTitle'
  <1>1. BeingClosed'
    <2> SUFFICES ASSUME NEW a \in Admins, Titled(Row(a))'
                 PROVE  \/ bot_state'[a].inc_title_txt \in doubled'
                        \/ \E h \in Handlers : job'[h].who = a /\ Closer(h)'
      BY DEF BeingClosed, Row
    <2>1. Titled(bot_state'[a].inc_title_txt)
      BY DEF Titled, SameTitles, Row
    <2>2. CASE RowKept(a)
      <3>1. Titled(Row(a)) /\ Row(a) = bot_state'[a].inc_title_txt
        BY <2>1, <2>2 DEF RowKept, Row
      <3>2. Row(a) \in doubled \/ \E h \in Handlers : job[h].who = a /\ Closer(h)
        BY <3>1 DEF Alone, BeingClosed
      <3> QED
        BY <2>2, <3>1, <3>2 DEF RowKept
    <2> QED
      BY <2>1, <2>2
  <1>2. OneIncidentPerTitle'
    BY DEF Alone, OneIncidentPerTitle, SameTitles
  <1> QED
    BY <1>1, <1>2

LEMMA StaysAlone ==
  ASSUME Alone, doubled \subseteq doubled', SameTitles, NoneRead,
         \A a \in Admins : \/ RowKept(a)
                           \/ LET t == bot_state'[a].inc_title_txt
                              IN ~Titled(t) \/ t \in doubled'
  PROVE  Alone'
  <1>1. \A t : Titled(t)' <=> Titled(t)
    BY DEF Titled, SameTitles
  <1>2. Unopened'
    <2> SUFFICES ASSUME NEW h \in Handlers, At(h, "create")'
                 PROVE  job'[h].got \in doubled' \/ ~Titled(job[h].got)'
      BY DEF Unopened
    <2>1. At(h, "create") /\ job'[h].got = job[h].got
      BY DEF NoneRead
    <2>2. job[h].got \in doubled \/ ~Titled(job[h].got)
      BY <2>1 DEF Alone, Unopened
    <2> QED
      BY <1>1, <2>1, <2>2 DEF Titled
  <1>4. OpenedByOne'
    <2> SUFFICES ASSUME NEW g \in Handlers, NEW h \in Handlers, At(g, "create")',
                        At(h, "create")', job'[g].got = job'[h].got
                 PROVE  g = h \/ job'[g].got \in doubled'
      BY DEF OpenedByOne
    <2>1. /\ At(g, "create") /\ job'[g].got = job[g].got
          /\ At(h, "create") /\ job'[h].got = job[h].got
      BY DEF NoneRead
    <2> QED
      BY <2>1 DEF Alone, OpenedByOne
  <1> QED
    BY <1>2, <1>4, StillClosed DEF Alone

(* A text is taken out of use when it is stored.                           *)
SameTexts == \A h \in Handlers : job'[h].text = "" \/ job'[h].text = job[h].text
LEMMA TextsStayFresh ==
  ASSUME Inv, TextsFresh, SameTexts,
         \A t \in Texts : sent[t].who # "" => sent'[t].who # "",
         \A t \in Texts : Used(t)' => \/ Used(t)
                                      \/ \E h \in Handlers : t = job[h].text /\ job'[h].text = ""
  PROVE  TextsFresh'
  <1> SUFFICES ASSUME NEW h \in Handlers, job'[h].text # ""
               PROVE  /\ sent'[job'[h].text].who # "" /\ ~Used(job[h].text)'
                      /\ \A g \in Handlers : job'[g].text = job'[h].text => g = h
    BY DEF TextsFresh
  <1>1. job'[h].text = job[h].text
    BY DEF SameTexts
  <1>2. /\ sent[job[h].text].who # "" /\ ~Used(job[h].text)
        /\ \A g \in Handlers : job[g].text = job[h].text => g = h
    BY <1>1 DEF TextsFresh
  <1>3. job[h].text \in Texts
    BY <1>1, TypesNow DEF Types, Job
  <1>4. sent'[job'[h].text].who # ""
    BY <1>1, <1>2, <1>3
  <1>5. ~Used(job[h].text)'
    <2>1. PICK t \in Texts : t = job[h].text
      BY <1>3
    <2>2. ~Used(t)'
      BY <1>1, <1>2, <2>1
    <2>3. job'[h].text = t
      BY <1>1, <2>1
    <2> QED
      BY <2>2, <2>3 DEF Used, Titled, Row, At
  <1>6. \A g \in Handlers : job'[g].text = job'[h].text => g = h
    BY <1>1, <1>2 DEF SameTexts
  <1> QED
    BY <1>4, <1>5, <1>6

(* Who writes a row of titles: the last call of a handler.                 *)
Plain(t) ==
  /\ Head(t).op = "put" => Head(t).key # "inc_title_txt" \/ t = <<Del("inc_title_txt")>>
  /\ Head(t).op = "put text" => t = <<PutText("inc_title_txt")>>

LEMMA PlainHead ==
  ASSUME NEW t, NEW x, Head(t) = x, x.op # "put text",
         x.op = "put" => x.key # "inc_title_txt"
  PROVE  Plain(t)
  BY DEF Plain

LEMMA PlainPuts ==
  /\ \A v : Put("await", v).op = "put" /\ Put("await", v).key = "await"
  /\ \A v : Put("ren_target", v).op = "put" /\ Put("ren_target", v).key = "ren_target"
  /\ Del("await") = Put("await", "") /\ Del("ren_target") = Put("ren_target", "")
  BY OpOf

LEMMA PlainButton ==
  ASSUME NEW b \in Every, b # Home
  PROVE  Plain(handleCallback(b))
  <1>1. CASE b \in {Ask(q) : q \in Questions}
    <2>1. PICK q \in Questions : handleCallback(b) = <<Put("await", q)>>
      BY <1>1, ButtonCalls
    <2>2. Head(handleCallback(b)) = Put("await", q)
      BY <2>1, Tuples
    <2> QED
      BY <2>2, PlainPuts, PlainHead
  <1>2. CASE b \in {AskName(n) : n \in Names}
    <2>1. PICK n \in Names : handleCallback(b) =
            <<Del("ren_target"), Put("ren_target", n), Put("await", "ren_name")>>
      BY <1>2, ButtonCalls
    <2>2. Head(handleCallback(b)) = Del("ren_target")
      BY <2>1, ThreeHeads
    <2> QED
      BY <2>2, PlainPuts, PlainHead
  <1>3. CASE b \in {Set(s) : s \in Statuses}
    <2>1. PICK s \in Statuses : b = Set(s)
      BY <1>3
    <2>2. PICK c : c = [op |-> "status", key |-> "", val |-> s]
      OBVIOUS
    <2>3. handleCallback(b) = <<c, Call("feed")>> /\ c.op = "status"
      BY <2>1, <2>2, ButtonCalls
    <2>4. Head(handleCallback(b)) = c
      BY <2>3, Tuples
    <2> QED
      BY <2>3, <2>4, PlainHead
  <1>4. CASE b \in {Done, Delete}
    <2>1. CASE b = Done
      <3>1. handleCallback(b) =
              <<Call("read title"), Call("create"), Call("feed"), Del("inc_title_txt")>>
        BY <2>1, ButtonCalls
      <3>2. Head(handleCallback(b)) = Call("read title")
        BY <3>1, FourAre, Zenon
      <3>3. Call("read title").op = "read title"
        BY OpOf
      <3> QED
        BY <3>2, <3>3, PlainHead
    <2>2. CASE b = Delete
      <3>1. handleCallback(b) = <<Call("read list"), Call("remove")>>
        BY <2>2, ButtonCalls
      <3>2. Head(handleCallback(b)) = Call("read list")
        BY <3>1, Tuples
      <3>3. Call("read list").op = "read list"
        BY OpOf
      <3> QED
        BY <3>2, <3>3, PlainHead
    <2> QED
      BY <1>4, <2>1, <2>2
  <1> QED
    BY <1>1, <1>2, <1>3, <1>4 DEF Every, Wants

LEMMA PlainAnswer ==
  ASSUME NEW q \in Await
  PROVE  Plain(Answer(q)) /\ Plain(handleAwait(q))
  <1>1. Plain(handleAwait(q))
    BY AnswerCalls, PlainPuts, PlainHead
  <1>2. /\ Call("save title").op = "save title" /\ Call("read target").op = "read target"
        /\ Call("read list").op = "read list" /\ PutText("inc_title_txt").op = "put text"
    BY OpOf
  <1>3. CASE q = "page_title"
    <2>1. Head(Answer(q)) = Call("save title")
      BY <1>3, Tuples DEF Answer
    <2> QED
      BY <1>1, <1>2, <2>1, PlainHead
  <1>4. CASE q = "inc_title"
    <2>1. Answer(q) = <<PutText("inc_title_txt")>>
      BY <1>4 DEF Answer
    <2>2. Head(Answer(q)) = PutText("inc_title_txt")
      BY <2>1, Tuples
    <2> QED
      BY <1>1, <1>2, <2>1, <2>2 DEF Plain
  <1>5. CASE q = "ren_name"
    <2>1. Answer(q) = <<Call("read target"), Del("ren_target"), Call("rename")>>
      BY <1>5 DEF Answer
    <2>2. Head(Answer(q)) = Call("read target")
      BY <2>1, ThreeHeads
    <2> QED
      BY <1>1, <1>2, <2>2, PlainHead
  <1>6. CASE q = "sub_add"
    <2>1. Answer(q) = <<Call("read list"), Call("add"), Put("await", "sub_add")>>
      BY <1>6 DEF Answer
    <2>2. Head(Answer(q)) = Call("read list")
      BY <2>1, ThreeHeads
    <2> QED
      BY <1>1, <1>2, <2>2, PlainHead
  <1> QED
    BY <1>3, <1>4, <1>5, <1>6 DEF Await, Questions

LEMMA PlainStage ==
  ASSUME NEW j, NEW s, NEW w, Stage(j, s, w)
  PROVE  Plain(j.todo)
  <1>1. \A f : Call(f).op = f
    BY OpOf
  <1>2. CASE Pressed(j, s, w)
    <2>1. PICK b \in Every : j.todo = onCallback(b)
      BY <1>2 DEF Pressed
    <2>2. Head(j.todo) = Del("await")
      BY <2>1, PressedCalls
    <2> QED
      BY <2>2, PlainPuts, PlainHead
  <1>3. CASE Picked(j, s, w)
    BY <1>3, PlainButton DEF Picked
  <1>4. CASE Renaming(j, s, w)
    <2>1. PICK n \in Names : j.todo = <<Put("ren_target", n), Put("await", "ren_name")>>
      BY <1>4 DEF Renaming
    <2>2. Head(j.todo) = Put("ren_target", n)
      BY <2>1, Tuples
    <2> QED
      BY <2>2, PlainPuts, PlainHead
  <1>5. CASE Renamed(j, s, w) \/ Added(j, s, w)
    <2>1. PICK v : j.todo = <<Put("await", v)>>
      BY <1>5 DEF Renamed, Added
    <2>2. Head(j.todo) = Put("await", v)
      BY <2>1, Tuples
    <2> QED
      BY <2>2, PlainPuts, PlainHead
  <1>6. CASE Closing(j, s, w)
    <2>1. j.todo = <<Del("inc_title_txt")>>
      BY <1>6 DEF Closing
    <2>2. Head(j.todo) = Del("inc_title_txt")
      BY <2>1, Tuples
    <2>3. Head(j.todo).op = "put"
      BY <2>2, Erasing
    <2> QED
      BY <2>1, <2>3 DEF Plain
  <1>7. CASE Telling(j, s, w) \/ Removing(j, s, w) \/ Commanded(j, s, w) \/ Texted(j, s, w)
    <2>1. PICK f \in {"feed", "remove", "read await"} : j.todo = <<Call(f)>>
      BY <1>7 DEF Telling, Removing, Commanded, Texted, onUpdate
    <2>2. Head(j.todo) = Call(f)
      BY <2>1, Tuples
    <2>3. Call(f).op \notin {"put", "put text"}
      BY <1>1
    <2> QED
      BY <2>2, <2>3, PlainHead
  <1>8. CASE Opened(j, s, w) \/ Adding(j, s, w)
    <2>1. PICK f \in {"feed", "add"}, y \in {Del("inc_title_txt"), Put("await", "sub_add")} :
            j.todo = <<Call(f), y>>
      BY <1>8 DEF Opened, Adding
    <2>2. Head(j.todo) = Call(f)
      BY <2>1, Tuples
    <2>3. Call(f).op \notin {"put", "put text"}
      BY <1>1
    <2> QED
      BY <2>2, <2>3, PlainHead
  <1>9. CASE Opening(j, s, w)
    <2>1. j.todo = <<Call("create"), Call("feed"), Del("inc_title_txt")>>
      BY <1>9 DEF Opening
    <2>2. Head(j.todo) = Call("create")
      BY <2>1, ThreeHeads
    <2>3. Call("create").op = "create"
      BY <1>1
    <2> QED
      BY <2>2, <2>3, PlainHead
  <1>10. CASE Answering(j, s, w) \/ Answered(j, s, w)
    BY <1>10, PlainAnswer DEF Answering, Answered
  <1>11. CASE Targeting(j, s, w)
    <2>1. CASE j.todo = <<Del("ren_target"), Call("rename")>>
      <3>1. Head(j.todo) = Del("ren_target")
        BY <2>1, Tuples
      <3> QED
        BY <3>1, PlainPuts, PlainHead
    <2>2. CASE j.todo = <<Call("rename")>>
      <3>1. Head(j.todo) = Call("rename")
        BY <2>2, Tuples
      <3>2. Call("rename").op = "rename"
        BY <1>1
      <3> QED
        BY <3>1, <3>2, PlainHead
    <2> QED
      BY <1>11, <2>1, <2>2 DEF Targeting
  <1> QED
    BY <1>2, <1>3, <1>4, <1>5, <1>6, <1>7, <1>8, <1>9, <1>10, <1>11 DEF Stage

(* A handler about to open an incident has read a title of its admin's.    *)
LEMMA OpeningAt ==
  ASSUME Inv, NEW h \in Handlers, At(h, "create")
  PROVE  /\ job[h].todo = <<Call("create"), Call("feed"), Del("inc_title_txt")>>
         /\ Opens(h) /\ job[h].who \in Admins
         /\ job[h].got \in Texts /\ sent[job[h].got].who = job[h].who
  <1>1. job[h].todo # <<>> /\ Head(job[h].todo).op = "create"
    BY DEF At
  <1>2. /\ job[h].who \in Admins
        /\ Stage(job[h], bot_state[job[h].who], wanted[job[h].who])
    BY <1>1, IdleIs DEF Inv, Stands
  <1>3. ~Changes(job[h].todo)
    <2> SUFFICES ASSUME NEW s \in Statuses,
                        job[h].todo = <<[op |-> "status", key |-> "", val |-> s], Call("feed")>>
                 PROVE  FALSE
      BY DEF Changes
    <2>1. PICK c : c = [op |-> "status", key |-> "", val |-> s]
      OBVIOUS
    <2>2. job[h].todo = <<c, Call("feed")>> /\ c.op = "status"
      BY <2>1
    <2>3. Head(job[h].todo) = c
      BY <2>2, Tuples
    <2> QED
      BY <1>1, <2>2, <2>3
  <1>4. Opening(job[h], bot_state[job[h].who], wanted[job[h].who])
    BY <1>1, <1>2, <1>3, Creating
  <1> QED
    BY <1>2, <1>4 DEF Opening, Opens, Meant

(* A handler goes on; what its step leaves alone.                          *)
LEMMA StepLeaves ==
  ASSUME Inv, NEW h \in Handlers, Step(h)
  PROVE  /\ \A g \in Handlers : g # h => job'[g] = job[g]
         /\ UNCHANGED sent /\ SameTexts
         /\ ~GetTitleText(h) => NoneRead
  <1>1. job[h].todo # <<>>
    BY DEF Step, At, SetBotState, GetAwait, SetTitle, GetTarget, SetAlias, GetTitleText,
       CreateIncident, SetStatus, AddFeed, SubscriptionURLs, AddSubscriptionURLs,
       RemoveSubscriptionURLAt
  <1>2. PICK a \in Admins : job[h].who = a /\ Stage(job[h], bot_state[a], wanted[a])
    BY <1>1, IdleIs DEF Inv, Stands
  <1>3. (\A g \in Handlers : g # h => job'[g] = job[g]) /\ UNCHANGED sent
    BY <1>2, OthersKept, TypesNow DEF Others
  <1>4. SameTexts
    BY <1>3, SameText, TypesNow DEF SameTexts
  <1>5. ASSUME ~GetTitleText(h)
        PROVE  NoneRead
    <2>1. ~At(h, "create")'
      BY <1>2, <1>5, FollowsStage, ReadBefore, TypesNow
    <2> QED
      BY <1>3, <2>1 DEF NoneRead, At
  <1> QED
    BY <1>3, <1>4, <1>5

LEMMA RowStays ==
  ASSUME NEW h \in Handlers, \A g \in Handlers : g # h => job'[g] = job[g],
         NEW a, bot_state'[a].inc_title_txt = bot_state[a].inc_title_txt,
         \/ ~Closer(h) \/ (job'[h].who = job[h].who /\ Closer(h)') \/ job[h].who # a
  PROVE  RowKept(a)
  <1> SUFFICES ASSUME NEW f \in Handlers, job[f].who = a, Closer(f)
               PROVE  \E g \in Handlers : job'[g].who = a /\ Closer(g)'
    BY DEF RowKept
  <1>1. CASE f = h
    BY <1>1
  <1>2. CASE f # h
    <2>1. job'[f] = job[f]
      BY <1>2
    <2> QED
      BY <2>1 DEF Closer
  <1> QED
    BY <1>1, <1>2

(* Titles are neither stored nor read.                                     *)
LEMMA Untitled ==
  ASSUME Inv, OneOpens, UNCHANGED sent, SameTexts, NoneRead, SameTitles,
         UNCHANGED bot_state, doubled \subseteq doubled',
         \A a \in Admins : RowKept(a) \/ Row(a) \in doubled'
  PROVE  OneOpens'
  <1>1. Alone'
    <2>1. \A a \in Admins : \/ RowKept(a)
                            \/ LET t == bot_state'[a].inc_title_txt
                               IN ~Titled(t) \/ t \in doubled'
      BY DEF Row
    <2> QED
      BY <2>1, StaysAlone DEF OneOpens
  <1>2. \A t \in Texts : Used(t)' => Used(t)
    BY DEF Used, Titled, Row, NoneRead, SameTitles
  <1>3. TextsFresh'
    BY <1>2, TextsStayFresh DEF OneOpens
  <1> QED
    BY <1>1, <1>3 DEF OneOpens

LEMMA TitlesStay ==
  ASSUME Inv, NEW h \in Handlers, Step(h), ~CreateIncident(h)
  PROVE  SameTitles
  <1>1. CASE UNCHANGED incidents
    BY <1>1 DEF SameTitles
  <1>2. CASE SetStatus(h) \/ AddFeed(h)
    <2>1. PICK i, v : \/ incidents' = incidents
                      \/ incidents' = [incidents EXCEPT ![i].status = v]
                      \/ incidents' = [incidents EXCEPT ![i].feed = v]
      BY <1>2 DEF SetStatus, AddFeed
    <2>2. incidents \in Seq(Incident) /\ DOMAIN incidents = 1..Len(incidents)
      BY IncidentsAre, TypesNow DEF Types
    <2>3. \A k \in DOMAIN incidents : incidents[k] \in Incident
      BY <2>2
    <2>4. CASE incidents' = incidents
      BY <2>4 DEF SameTitles
    <2>5. CASE incidents' = [incidents EXCEPT ![i].status = v]
      <3>1. DOMAIN incidents' = DOMAIN incidents
        BY <2>5
      <3>2. \A k \in DOMAIN incidents : incidents'[k].title = incidents[k].title
        BY <2>3, <2>5 DEF Incident
      <3> QED
        BY <3>1, <3>2 DEF SameTitles
    <2>6. CASE incidents' = [incidents EXCEPT ![i].feed = v]
      <3>1. DOMAIN incidents' = DOMAIN incidents
        BY <2>6
      <3>2. \A k \in DOMAIN incidents : incidents'[k].title = incidents[k].title
        BY <2>3, <2>6 DEF Incident
      <3> QED
        BY <3>1, <3>2 DEF SameTitles
    <2> QED
      BY <2>1, <2>4, <2>5, <2>6
  <1> QED
    BY <1>1, <1>2 DEF Step, SetBotState, GetAwait, SetTitle, GetTarget, SetAlias, GetTitleText,
       SubscriptionURLs, AddSubscriptionURLs, RemoveSubscriptionURLAt, tables

LEMMA QuietStep ==
  ASSUME Inv, OneOpens, NEW h \in Handlers, Step(h),
         ~SetBotState(h), ~GetTitleText(h), ~CreateIncident(h)
  PROVE  OneOpens'
  <1>1. /\ \A g \in Handlers : g # h => job'[g] = job[g]
        /\ UNCHANGED sent /\ SameTexts /\ NoneRead /\ SameTitles
    BY StepLeaves, TitlesStay
  <1>2. UNCHANGED <<bot_state, doubled>>
    BY DEF Step, GetAwait, SetTitle, GetTarget, SetAlias, SetStatus, AddFeed,
       SubscriptionURLs, AddSubscriptionURLs, RemoveSubscriptionURLAt, tables, history
  <1>3. ~Closer(h) \/ (job'[h].who = job[h].who /\ Closer(h)')
    <2>1. CASE AddFeed(h)
      <3>1. /\ At(h, "feed") /\ Next1(h) /\ job[h].todo # <<>>
        BY <2>1 DEF AddFeed, At
      <3>2. GoesOn(h, Tail(job[h].todo))
        BY <3>1, GoesNext, TypesNow
      <3>3. Closer(h) => Tail(job[h].todo) = <<Del("inc_title_txt")>>
        BY <3>1, CloserAt
      <3>4. <<Del("inc_title_txt")>> # <<>>
        BY Tuples
      <3> QED
        BY <3>2, <3>3, <3>4 DEF GoesOn, Closer
    <2>2. CASE ~AddFeed(h)
      <3>1. PICK f \in Ops \ {"feed", "put"} : At(h, f)
        BY <2>2 DEF Step, GetAwait, SetTitle, GetTarget, SetAlias, SetStatus,
           SubscriptionURLs, AddSubscriptionURLs, RemoveSubscriptionURLAt, Ops
      <3> QED
        BY <3>1, NotCloser
    <2> QED
      BY <2>1, <2>2
  <1>4. \A a \in Admins : RowKept(a)
    BY <1>1, <1>2, <1>3, RowStays
  <1> QED
    BY <1>1, <1>2, <1>4, Untitled

(* A row is written: a title is stored or deleted.                         *)
LEMMA DelIs == \A k : Del(k).op = "put" /\ Del(k).key = k /\ Del(k).val = ""
  BY DEF Del, Put

LEMMA PutStep ==
  ASSUME Inv, OneOpens, NEW h \in Handlers, Step(h), SetBotState(h)
  PROVE  OneOpens'
  <1>1. /\ job[h].todo # <<>> /\ Next1(h) /\ UNCHANGED <<incidents, doubled, sent>>
        /\ Head(job[h].todo).op \in {"put", "put text"}
    BY DEF SetBotState, At, history
  <1>2. PICK a \in Admins : job[h].who = a /\ Stage(job[h], bot_state[a], wanted[a])
    BY <1>1, IdleIs DEF Inv, Stands
  <1>3. /\ \A g \in Handlers : g # h => job'[g] = job[g]
        /\ SameTexts /\ SameTitles
    BY <1>1, StepLeaves DEF SameTitles
  <1>4. NoneRead
    <2>1. ~GetTitleText(h)
      BY <1>1 DEF GetTitleText, At
    <2> QED
      BY <2>1, StepLeaves
  <1>5. Plain(job[h].todo)
    BY <1>2, PlainStage
  <1>6. /\ bot_state' = [bot_state EXCEPT ![a][Head(job[h].todo).key] =
             IF Head(job[h].todo).op = "put text" THEN job[h].text ELSE Head(job[h].todo).val]
        /\ bot_state \in [Admins -> BotState] /\ Head(job[h].todo) \in Calls
    BY <1>1, <1>2, HeadTailProperties, TypesNow DEF SetBotState, Me, Types, Job
  <1>7. GoesOn(h, Tail(job[h].todo))
    BY <1>1, GoesNext, TypesNow
  <1>8. \A b \in Admins : b # a => RowKept(b) /\ bot_state'[b] = bot_state[b]
    <2> SUFFICES ASSUME NEW b \in Admins, b # a
                 PROVE  RowKept(b) /\ bot_state'[b] = bot_state[b]
      OBVIOUS
    <2>1. bot_state'[b] = bot_state[b]
      BY <1>6
    <2> QED
      BY <1>2, <1>3, <2>1, RowStays
  <1>9. CASE Head(job[h].todo).op = "put" /\ Head(job[h].todo).key # "inc_title_txt"
    <2>1. bot_state'[a].inc_title_txt = bot_state[a].inc_title_txt
      BY <1>6, <1>9 DEF BotState
    <2>2. ~Closer(h)
      <3>1. Call("feed").op = "feed" /\ Del("inc_title_txt").key = "inc_title_txt"
        BY OpOf DEF Del, Put
      <3>2. Head(job[h].todo) # Call("feed") /\ Head(job[h].todo) # Del("inc_title_txt")
        BY <1>9, <3>1
      <3> QED
        BY <3>2, CloserAt
    <2>3. RowKept(a)
      BY <1>3, <2>1, <2>2, RowStays
    <2>4. \A b \in Admins : RowKept(b)
      BY <1>8, <2>3
    <2>5. Alone'
      BY <1>1, <1>3, <1>4, <2>4, StaysAlone DEF OneOpens
    <2>6. \A b \in Admins : Row(b)' = Row(b)
      BY <1>8, <2>1 DEF Row
    <2>7. \A t \in Texts : Used(t)' => Used(t)
      BY <1>3, <1>4, <2>6 DEF Used, Titled, NoneRead, SameTitles
    <2>8. TextsFresh'
      BY <1>1, <1>3, <2>7, TextsStayFresh DEF OneOpens
    <2> QED
      BY <2>5, <2>8 DEF OneOpens
  <1>10. CASE job[h].todo = <<Del("inc_title_txt")>>
    <2>1. Head(job[h].todo) = Del("inc_title_txt")
      BY <1>10, Tuples
    <2>2. /\ Head(job[h].todo).op = "put" /\ Head(job[h].todo).key = "inc_title_txt"
          /\ Head(job[h].todo).val = ""
      BY <2>1, DelIs, Zenon
    <2>3. bot_state'[a].inc_title_txt = ""
      <3>1. bot_state' = [bot_state EXCEPT ![a]["inc_title_txt"] = ""]
        BY <1>6, <2>2, Zenon
      <3> QED
        BY <1>6, <3>1 DEF BotState
    <2>4. ~Titled(bot_state'[a].inc_title_txt)
      BY <2>3, NoTitle
    <2>5. Alone'
      BY <1>1, <1>3, <1>4, <1>8, <2>4, StaysAlone DEF OneOpens
    <2>6. \A t \in Texts : t # ""
      BY DialogAssumption
    <2>7. \A b \in Admins, t \in Texts : Row(b)' = t => Row(b) = t
      BY <1>8, <2>3, <2>6 DEF Row
    <2>8. \A t \in Texts : Used(t)' => Used(t)
      BY <1>3, <1>4, <2>7 DEF Used, Titled, NoneRead, SameTitles
    <2>9. TextsFresh'
      BY <1>1, <1>3, <2>8, TextsStayFresh DEF OneOpens
    <2> QED
      BY <2>5, <2>9 DEF OneOpens
  <1>11. CASE job[h].todo = <<PutText("inc_title_txt")>>
    <2>1. Head(job[h].todo) = PutText("inc_title_txt") /\ Tail(job[h].todo) = <<>>
      BY <1>11, Tuples
    <2>2. Head(job[h].todo).op = "put text" /\ Head(job[h].todo).key = "inc_title_txt"
      BY <2>1, OpOf
    <2>3. bot_state'[a].inc_title_txt = job[h].text
      BY <1>6, <2>2 DEF BotState
    <2>4. job'[h].text = ""
      BY <1>7, <2>1, NoText DEF GoesOn
    <2>5. ~Titled(bot_state'[a].inc_title_txt)
      <3>1. job[h].text # "" => ~Used(job[h].text)
        BY DEF OneOpens, TextsFresh
      <3> QED
        BY <2>3, <3>1, NoTitle DEF Used
    <2>6. Alone'
      BY <1>1, <1>3, <1>4, <1>8, <2>5, StaysAlone DEF OneOpens
    <2>7. \A b \in Admins, t \in Texts : Row(b)' = t => Row(b) = t \/ t = job[h].text
      BY <1>8, <2>3 DEF Row
    <2>8. \A t \in Texts : Used(t)' => Used(t) \/ t = job[h].text
      BY <1>3, <1>4, <2>7 DEF Used, Titled, NoneRead, SameTitles
    <2>9. TextsFresh'
      BY <1>1, <1>3, <2>4, <2>8, TextsStayFresh DEF OneOpens
    <2> QED
      BY <2>6, <2>9 DEF OneOpens
  <1> QED
    BY <1>1, <1>5, <1>9, <1>10, <1>11 DEF Plain

(* A title is read to be opened, by one handler, or it is doubled.         *)
LEMMA ReadStep ==
  ASSUME Inv, OneOpens, NEW h \in Handlers, Step(h), GetTitleText(h)
  PROVE  OneOpens'
  <1>1. At(h, "read title") /\ job[h].todo # <<>>
    BY DEF GetTitleText, At
  <1>2. PICK a \in Admins : job[h].who = a
    BY <1>1, IdleIs DEF Inv, Stands
  <1>3. PICK t : t = Row(a)
    OBVIOUS
  <1>4. /\ Go(h, [job[h] EXCEPT !.got = t], IF t = "" THEN <<>> ELSE Left(h))
        /\ doubled' = IF \E g \in Handlers : job[g].who = a /\ Opens(g) THEN doubled \cup {t}
                      ELSE doubled
        /\ UNCHANGED <<bot_state, incidents, sent>>
    BY <1>2, <1>3 DEF GetTitleText, Me, Row, tables
  <1>5. /\ \A g \in Handlers : g # h => job'[g] = job[g]
        /\ SameTexts /\ SameTitles /\ doubled \subseteq doubled'
    BY <1>4, StepLeaves DEF SameTitles
  <1>6. At(h, "create")' => t # "" /\ job'[h].got = t
    <2>1. PICK calls : calls = IF t = "" THEN <<>> ELSE Left(h)
      OBVIOUS
    <2>2. /\ job[h] \in Job
          /\ job'[h] = IF calls = <<>> THEN Idle ELSE [[job[h] EXCEPT !.got = t] EXCEPT !.todo = calls]
      BY <1>4, <2>1, TypesNow DEF Go, Types
    <2>3. CASE calls = <<>>
      <3>1. job'[h].todo = <<>>
        BY <2>2, <2>3, IdleIs
      <3> QED
        BY <3>1 DEF At
    <2>4. CASE calls # <<>>
      <3>1. job'[h].got = t
        BY <2>2, <2>4 DEF Job
      <3> QED
        BY <2>1, <2>4, <3>1
    <2> QED
      BY <2>3, <2>4
  <1>7. \A b \in Admins : RowKept(b)
    <2>1. ~Closer(h)
      BY <1>1, NotCloser
    <2> QED
      BY <1>4, <1>5, <2>1, RowStays
  <1>8. BeingClosed' /\ OneIncidentPerTitle'
    BY <1>5, <1>7, StillClosed DEF OneOpens
  <1>9. (t \notin doubled' /\ t # "") =>
          ~Titled(t) /\ \A g \in Handlers : At(g, "create") => job[g].got # t
    <2> SUFFICES ASSUME t \notin doubled', t # ""
                 PROVE  ~Titled(t) /\ \A g \in Handlers : At(g, "create") => job[g].got # t
      OBVIOUS
    <2>1. t \notin doubled /\ \A g \in Handlers : job[g].who = a => ~Opens(g)
      BY <1>4
    <2>2. \A g \in Handlers : Closer(g) => Opens(g)
      BY DEF Closer, Opens
    <2>3. ~Titled(t)
      BY <1>3, <2>1, <2>2 DEF OneOpens, Alone, BeingClosed
    <2>4. sent[t].who = a
      BY <1>3, TypesNow DEF Stored, Row
    <2>5. \A g \in Handlers : At(g, "create") => job[g].got # t
      BY <2>1, <2>4, OpeningAt
    <2> QED
      BY <2>3, <2>5
  <1>10. \A x : Titled(x)' <=> Titled(x)
    BY <1>5 DEF Titled, SameTitles
  <1>11. Unopened'
    <2> SUFFICES ASSUME NEW g \in Handlers, At(g, "create")'
                 PROVE  job'[g].got \in doubled' \/ ~Titled(job[g].got)'
      BY DEF Unopened
    <2>1. CASE g = h
      <3>1. t \in doubled' \/ ~Titled(t)'
        BY <1>6, <1>9, <1>10, <2>1
      <3> QED
        BY <1>6, <2>1, <3>1 DEF Titled
    <2>2. CASE g # h
      <3>1. At(g, "create") /\ job'[g].got = job[g].got
        BY <1>5, <2>2 DEF At
      <3>2. job[g].got \in doubled \/ ~Titled(job[g].got)
        BY <3>1 DEF OneOpens, Alone, Unopened
      <3> QED
        BY <1>5, <1>10, <3>1, <3>2 DEF Titled
    <2> QED
      BY <2>1, <2>2
  <1>12. OpenedByOne'
    <2> SUFFICES ASSUME NEW f \in Handlers, NEW g \in Handlers, At(f, "create")',
                        At(g, "create")', job'[f].got = job'[g].got
                 PROVE  f = g \/ job'[f].got \in doubled'
      BY DEF OpenedByOne
    <2>1. \A k \in Handlers : (At(k, "create")' /\ k # h) => At(k, "create") /\ job'[k] = job[k]
      BY <1>5 DEF At
    <2>2. CASE f = h /\ g # h
      BY <1>6, <1>9, <2>1, <2>2
    <2>3. CASE f # h /\ g = h
      BY <1>6, <1>9, <2>1, <2>3
    <2>4. CASE f # h /\ g # h
      BY <1>5, <2>1, <2>4 DEF OneOpens, Alone, OpenedByOne
    <2> QED
      BY <2>2, <2>3, <2>4
  <1>13. TextsFresh'
    <2>1. ASSUME NEW x \in Texts, Used(x)'
          PROVE  Used(x)
      <3>1. CASE Titled(x)'
        BY <1>10, <3>1 DEF Used
      <3>2. CASE \E b \in Admins : Row(b)' = x
        BY <1>4, <3>2 DEF Used, Row
      <3>3. CASE \E g \in Handlers : At(g, "create")' /\ job'[g].got = x
        <4>1. PICK g \in Handlers : At(g, "create")' /\ job'[g].got = x
          BY <3>3
        <4>2. CASE g = h
          BY <1>3, <1>6, <4>1, <4>2 DEF Used
        <4>3. CASE g # h
          BY <1>5, <4>1, <4>3 DEF Used, At
        <4> QED
          BY <4>2, <4>3
      <3> QED
        BY <2>1, <3>1, <3>2, <3>3 DEF Used
    <2> QED
      BY <1>4, <1>5, <2>1, TextsStayFresh DEF OneOpens
  <1> QED
    BY <1>8, <1>11, <1>12, <1>13 DEF OneOpens, Alone

(* An incident is opened, and its title is to be deleted.                  *)
LEMMA CreateStep ==
  ASSUME Inv, OneOpens, NEW h \in Handlers, Step(h), CreateIncident(h)
  PROVE  OneOpens'
  <1>1. At(h, "create")
    BY DEF CreateIncident
  <1>2. PICK a \in Admins : job[h].who = a
    BY <1>1, OpeningAt
  <1>3. PICK t \in Texts : t = job[h].got /\ sent[t].who = a
    BY <1>1, <1>2, OpeningAt
  <1>4. job[h].todo = <<Call("create"), Call("feed"), Del("inc_title_txt")>>
    BY <1>1, OpeningAt
  <1>5. PICK calls : calls = <<Call("feed"), Del("inc_title_txt")>>
    OBVIOUS
  <1>6. Left(h) = calls /\ calls # <<>>
    <2>1. \A u, v, w : Tail(<<u, v, w>>) = <<v, w>>
      BY Tuples
    <2> QED
      BY <1>4, <1>5, <2>1, Tuples DEF Left
  <1>7. PICK x : x = [title |-> t, by |-> a, feed |-> "", status |-> "investigating"]
    OBVIOUS
  <1>8. incidents' = Append(incidents, x) /\ UNCHANGED <<bot_state, doubled, sent>>
    BY <1>2, <1>3, <1>7 DEF CreateIncident, Me, history, crossings
  <1>9. x \in Incident /\ x.title = t
    BY <1>7 DEF Incident, Statuses
  <1>10. PICK n : n = Len(incidents) + 1
    OBVIOUS
  <1>11. /\ n \notin DOMAIN incidents
         /\ \A i \in DOMAIN incidents' : i \in DOMAIN incidents \/ i = n
         /\ n \in DOMAIN incidents' /\ incidents'[n] = x
         /\ \A i \in DOMAIN incidents : i \in DOMAIN incidents' /\ incidents'[i] = incidents[i]
    <2>1. incidents \in Seq(Incident)
      BY TypesNow DEF Types
    <2> QED
      BY <1>8, <1>9, <1>10, <2>1, AppendIs
  <1>12. /\ \A g \in Handlers : g # h => job'[g] = job[g]
         /\ SameTexts /\ NoneRead
    <2>1. ~GetTitleText(h)
      BY <1>1 DEF GetTitleText, At
    <2> QED
      BY <2>1, StepLeaves
  <1>13. job'[h].who = a /\ Closer(h)'
    <2>1. PICK j : j = [job[h] EXCEPT !.id = Len(incidents) + 1, !.got = "investigating"]
      OBVIOUS
    <2>2. /\ job'[h] = [j EXCEPT !.todo = calls] /\ job[h] \in Job
      BY <1>6, <2>1, TypesNow DEF CreateIncident, Go, Types
    <2>3. DOMAIN j = DOMAIN job[h] /\ j.who = a
      BY <1>2, <2>1, <2>2 DEF Job
    <2>4. job'[h].todo = calls /\ job'[h].who = a
      BY <2>2, <2>3 DEF Job
    <2> QED
      BY <1>5, <2>4 DEF Closer
  <1>14. \A y : Titled(y)' <=> Titled(y) \/ y = t
    BY <1>9, <1>11 DEF Titled
  <1>15. t \in doubled \/ ~Titled(t)
    BY <1>1, <1>3 DEF OneOpens, Alone, Unopened
  <1>16. ~At(h, "create")'
    <2>1. PICK r : r = job'[h].todo
      OBVIOUS
    <2>2. Head(r) = Call("feed") \/ Head(r) = Del("inc_title_txt")
      <3>1. CASE r = <<Call("feed"), Del("inc_title_txt")>>
        BY <3>1, Tuples
      <3>2. CASE r = <<Del("inc_title_txt")>>
        BY <3>2, Tuples
      <3> QED
        BY <1>13, <2>1, <3>1, <3>2 DEF Closer
    <2>3. Call("feed").op # "create" /\ Del("inc_title_txt").op # "create"
      BY OpOf, DelIs
    <2> QED
      BY <2>1, <2>2, <2>3 DEF At
  <1>17. Unopened'
    <2> SUFFICES ASSUME NEW g \in Handlers, At(g, "create")'
                 PROVE  job'[g].got \in doubled' \/ ~Titled(job[g].got)'
      BY DEF Unopened
    <2>1. g # h /\ At(g, "create") /\ job'[g].got = job[g].got
      BY <1>12, <1>16 DEF NoneRead
    <2>2. job[g].got \in doubled \/ ~Titled(job[g].got)
      BY <2>1 DEF OneOpens, Alone, Unopened
    <2>3. job[g].got = t => t \in doubled
      BY <1>1, <1>3, <2>1 DEF OneOpens, Alone, OpenedByOne
    <2>4. PICK y : y = job[g].got
      OBVIOUS
    <2>5. y \in doubled \/ ~Titled(y)'
      BY <1>14, <2>2, <2>3, <2>4
    <2> QED
      BY <1>8, <2>1, <2>4, <2>5 DEF Titled
  <1>18. BeingClosed'
    <2> SUFFICES ASSUME NEW b \in Admins, Titled(Row(b))'
                 PROVE  \/ bot_state'[b].inc_title_txt \in doubled'
                        \/ \E g \in Handlers : job'[g].who = b /\ Closer(g)'
      BY DEF BeingClosed, Row
    <2>1. PICK y : y = Row(b) /\ y = bot_state'[b].inc_title_txt
      BY <1>8 DEF Row
    <2>2. Titled(y) \/ y = t
      BY <1>14, <2>1 DEF Titled, Row
    <2>3. CASE y = t
      <3>1. t # ""
        BY DialogAssumption
      <3>2. sent[t].who = b
        BY <2>1, <2>3, <3>1, TypesNow DEF Stored, Row
      <3> QED
        BY <1>3, <1>13, <3>2
    <2>4. CASE Titled(y)
      <3>1. y \in doubled \/ \E g \in Handlers : job[g].who = b /\ Closer(g)
        BY <2>1, <2>4 DEF OneOpens, Alone, BeingClosed
      <3>2. ~Closer(h)
        BY <1>1, NotCloser
      <3>3. \A g \in Handlers : Closer(g) => Closer(g)' /\ job'[g].who = job[g].who
        BY <1>12, <3>2 DEF Closer
      <3> QED
        BY <1>8, <2>1, <3>1, <3>3
    <2> QED
      BY <2>2, <2>3, <2>4
  <1>19. OpenedByOne'
    BY <1>8, <1>12 DEF OneOpens, Alone, OpenedByOne, NoneRead
  <1>20. OneIncidentPerTitle'
    <2> SUFFICES ASSUME NEW i \in DOMAIN incidents', NEW k \in DOMAIN incidents',
                        incidents'[i].title = incidents'[k].title,
                        incidents'[i].title \notin doubled
                 PROVE  i = k
      BY <1>8 DEF OneIncidentPerTitle
    <2>1. \A m \in DOMAIN incidents : incidents[m].title = t => t \in doubled
      BY <1>15 DEF Titled
    <2> QED
      BY <1>9, <1>11, <2>1 DEF OneOpens, Alone, OneIncidentPerTitle
  <1>21. TextsFresh'
    <2>1. ASSUME NEW y \in Texts, Used(y)'
          PROVE  Used(y)
      <3>1. CASE Titled(y)'
        BY <1>1, <1>3, <1>14, <3>1 DEF Used
      <3>2. CASE \E b \in Admins : Row(b)' = y
        BY <1>8, <3>2 DEF Used, Row
      <3>3. CASE \E g \in Handlers : At(g, "create")' /\ job'[g].got = y
        BY <1>12, <3>3 DEF Used, NoneRead
      <3> QED
        BY <2>1, <3>1, <3>2, <3>3 DEF Used
    <2> QED
      BY <1>8, <1>12, <2>1, TextsStayFresh DEF OneOpens
  <1> QED
    BY <1>17, <1>18, <1>19, <1>20, <1>21 DEF OneOpens, Alone

(* A write fails: the title that is not deleted is a doubled one.          *)
LEMMA FailedStep ==
  ASSUME Inv, OneOpens, NEW h \in Handlers, WriteFails(h)
  PROVE  OneOpens'
  <1>1. job[h].todo # <<>> /\ Head(job[h].todo).op \in Writes
    BY DEF WriteFails, At
  <1>2. PICK a \in Admins : job[h].who = a /\ Stage(job[h], bot_state[a], wanted[a])
    BY <1>1, IdleIs DEF Inv, Stands
  <1>3. /\ UNCHANGED <<bot_state, incidents, sent>> /\ doubled \subseteq doubled'
        /\ Head(job[h].todo) = Del("inc_title_txt") => Row(a) \in doubled'
    BY <1>2 DEF WriteFails, Me, Row, tables
  <1>4. PICK calls : /\ Go(h, job[h], calls)
                     /\ (~At(h, "create") /\ ~At(h, "status")) => calls = Tail(job[h].todo)
    BY DEF WriteFails, Left
  <1>5. /\ \A g \in Handlers : g # h => job'[g] = job[g]
        /\ job'[h] = IF calls = <<>> THEN Idle ELSE [job[h] EXCEPT !.todo = calls]
        /\ job[h] \in Job
    BY <1>4, TypesNow DEF Go, Types
  <1>6. SameTexts
    <2>1. job'[h].text = "" \/ job'[h].text = job[h].text
      <3>1. CASE calls = <<>>
        BY <1>5, <3>1, NoText
      <3>2. CASE calls # <<>>
        BY <1>5, <3>2 DEF Job
      <3> QED
        BY <3>1, <3>2
    <2> QED
      BY <1>5, <2>1 DEF SameTexts
  <1>7. NoneRead
    <2>1. ~At(h, "create")'
      BY <1>2, FailedChanges
    <2> QED
      BY <1>5, <2>1 DEF NoneRead, At
  <1>8. ASSUME Closer(h), At(h, "feed")
        PROVE  job'[h].who = job[h].who /\ Closer(h)'
    <2>1. calls = <<Del("inc_title_txt")>>
      BY <1>4, <1>8, CloserAt DEF At
    <2>2. calls # <<>>
      BY <2>1, Tuples
    <2>3. job'[h].who = job[h].who /\ job'[h].todo = calls
      BY <1>5, <2>2 DEF Job
    <2> QED
      BY <2>1, <2>3 DEF Closer
  <1>9. ASSUME Closer(h), ~At(h, "feed")
        PROVE  Row(a) \in doubled'
    <2>1. Head(job[h].todo) \in {Call("feed"), Del("inc_title_txt")}
      BY <1>9, CloserAt
    <2>2. Call("feed").op = "feed"
      BY OpOf
    <2> QED
      BY <1>1, <1>3, <1>9, <2>1, <2>2 DEF At
  <1>10. \A b \in Admins : RowKept(b) \/ Row(b) \in doubled'
    <2> TAKE b \in Admins
    <2>1. CASE b # a
      BY <1>2, <1>3, <1>5, <2>1, RowStays
    <2>2. CASE b = a /\ Closer(h) /\ ~At(h, "feed")
      BY <1>9, <2>2
    <2>3. CASE b = a /\ (~Closer(h) \/ At(h, "feed"))
      BY <1>3, <1>5, <1>8, <2>3, RowStays
    <2> QED
      BY <2>1, <2>2, <2>3
  <1>11. SameTitles
    BY <1>3 DEF SameTitles
  <1> QED
    BY <1>3, <1>6, <1>7, <1>10, <1>11, Untitled

(* A restart ends the handlers; the titles they opened are doubled ones.   *)
LEMMA RestartStep ==
  ASSUME Inv, OneOpens, Restart
  PROVE  OneOpens'
  <1>1. /\ job' = [h \in Handlers |-> Idle] /\ UNCHANGED <<bot_state, incidents, sent>>
        /\ doubled' = doubled \cup {bot_state[Me(h)]["inc_title_txt"] :
                                    h \in {g \in Handlers : Opens(g) /\ ~At(g, "create")}}
    BY DEF Restart, tables
  <1>2. \A h \in Handlers : job'[h] = Idle
    BY <1>1
  <1>3. SameTexts /\ NoneRead /\ SameTitles
    BY <1>1, <1>2, IdleIs, NoText DEF SameTexts, NoneRead, SameTitles, At
  <1>4. \A b \in Admins : RowKept(b) \/ Row(b) \in doubled'
    <2> TAKE b \in Admins
    <2>1. CASE \E h \in Handlers : job[h].who = b /\ Closer(h)
      <3>1. PICK h \in Handlers : job[h].who = b /\ Closer(h)
        BY <2>1
      <3>2. Head(job[h].todo) \in {Call("feed"), Del("inc_title_txt")}
        BY <3>1, CloserAt
      <3>3. Call("feed").op # "create" /\ Del("inc_title_txt").op # "create"
        BY OpOf, DelIs
      <3>4. Opens(h) /\ ~At(h, "create") /\ Me(h) = b
        BY <3>1, <3>2, <3>3 DEF Closer, Opens, At, Me
      <3> QED
        BY <1>1, <3>4 DEF Row
    <2>2. CASE ~\E h \in Handlers : job[h].who = b /\ Closer(h)
      BY <1>1, <2>2 DEF RowKept
    <2> QED
      BY <2>1, <2>2
  <1> QED
    BY <1>1, <1>3, <1>4, Untitled

(* A text that was not sent is nowhere.                                    *)
LEMMA UnsentUnused ==
  ASSUME Inv, OneOpens, NEW t \in Texts, sent[t].who = ""
  PROVE  ~Used(t) /\ \A h \in Handlers : job[h].text # t
  <1>1. "" \notin Admins /\ t # ""
    BY DialogAssumption
  <1>2. ~Titled(t)
    <2> SUFFICES ASSUME NEW i \in DOMAIN incidents, incidents[i].title = t
                 PROVE  FALSE
      BY DEF Titled
    <2>1. Meant(incidents[i].title, Ask("inc_title"))
      BY TypesNow DEF Stored
    <2> QED
      BY <1>1, <2>1 DEF Meant
  <1>3. \A a \in Admins : Row(a) # t
    <2> SUFFICES ASSUME NEW a \in Admins, Row(a) = t
                 PROVE  FALSE
      OBVIOUS
    <2>1. sent[t].who = a
      BY <1>1, TypesNow DEF Row, Stored
    <2> QED
      BY <1>1, <2>1
  <1>4. \A h \in Handlers : At(h, "create") => job[h].got # t
    BY <1>1, OpeningAt
  <1>5. \A h \in Handlers : job[h].text # t
    BY <1>1 DEF OneOpens, TextsFresh
  <1> QED
    BY <1>2, <1>3, <1>4, <1>5 DEF Used

(* An update arrives, with a text of its own or none.                      *)
LEMMA ArrivalStep ==
  ASSUME Inv, OneOpens, NEW a \in Admins, NEW h \in Handlers, NEW calls \in Seq(Calls),
         NEW t \in Texts \cup {""}, Arrives(h, a, calls, t),
         Head(calls).op # "create", UNCHANGED <<tables, doubled>>,
         \A x \in Texts : sent[x].who # "" => sent'[x].who # "",
         t # "" => sent'[t].who # "" /\ ~Used(t) /\ \A g \in Handlers : job[g].text # t
  PROVE  OneOpens'
  <1>1. /\ job[h] = Idle /\ \A g \in Handlers : g # h => job'[g] = job[g]
        /\ job'[h].todo = calls /\ job'[h].text = t
    BY Arrived, TypesNow DEF Arrives
  <1>2. UNCHANGED <<bot_state, incidents, doubled>>
    BY DEF tables
  <1>3. ~Closer(h)
    <2>1. job[h].todo = <<>>
      BY <1>1, IdleIs
    <2> QED
      BY <2>1, CloserAt
  <1>4. NoneRead /\ SameTitles
    BY <1>1, <1>2 DEF NoneRead, SameTitles, At
  <1>5. \A b \in Admins : RowKept(b)
    BY <1>1, <1>2, <1>3, RowStays
  <1>6. Alone'
    BY <1>2, <1>4, <1>5, StaysAlone DEF OneOpens
  <1>7. \A x : Used(x)' => Used(x)
    BY <1>2, <1>4 DEF Used, Titled, Row, NoneRead, SameTitles
  <1>8. TextsFresh'
    <2> SUFFICES ASSUME NEW g \in Handlers, job'[g].text # ""
                 PROVE  /\ sent'[job'[g].text].who # "" /\ ~Used(job[g].text)'
                        /\ \A f \in Handlers : job'[f].text = job'[g].text => f = g
      BY DEF TextsFresh
    <2>1. PICK x : x = job'[g].text
      OBVIOUS
    <2>2. /\ sent'[x].who # "" /\ ~Used(x)
          /\ \A f \in Handlers : job'[f].text = x => f = g
      <3>1. CASE g = h
        <4>1. x = t
          BY <1>1, <2>1, <3>1
        <4> QED
          BY <1>1, <2>1, <3>1, <4>1
      <3>2. CASE g # h
        <4>1. job'[g].text = job[g].text /\ job[g].text = x /\ x # ""
          BY <1>1, <2>1, <3>2
        <4>2. /\ sent[x].who # "" /\ ~Used(x)
              /\ \A f \in Handlers : job[f].text = x => f = g
          BY <4>1 DEF OneOpens, TextsFresh
        <4>3. x \in Texts
          BY <4>1, TypesNow DEF Types, Job
        <4>4. t # x
          BY <4>1
        <4> QED
          BY <1>1, <4>2, <4>3, <4>4
      <3> QED
        BY <3>1, <3>2
    <2>3. ~Used(x)'
      BY <1>7, <2>2
    <2>4. ~Used(job[g].text)'
      BY <2>1, <2>3 DEF Used, Titled, Row, At
    <2> QED
      BY <2>1, <2>2, <2>4
  <1> QED
    BY <1>6, <1>8 DEF OneOpens

LEMMA PressStep ==
  ASSUME Inv, OneOpens, NEW a \in Admins, NEW b \in Buttons, Press(a, b)
  PROVE  OneOpens'
  <1>1. b \in Every
    BY DialogAssumption DEF Every, Wants
  <1>2. Handle(a, onCallback(b), "") /\ UNCHANGED sent
    BY DEF Press
  <1>3. PICK h \in Handlers : Arrives(h, a, onCallback(b), "")
    BY <1>2, HandleArrives
  <1>4. UNCHANGED <<tables, doubled>>
    BY <1>2, HandleArrives
  <1>5. onCallback(b) \in Seq(Calls) /\ Head(onCallback(b)).op # "create"
    <2>1. Del("await").op # "create"
      BY DelIs
    <2>2. onCallback(b) \in Seq(Calls) /\ Head(onCallback(b)) = Del("await")
      BY <1>1, PressedCalls
    <2> QED
      BY <2>1, <2>2, Zenon
  <1> QED
    BY <1>2, <1>3, <1>4, <1>5, ArrivalStep

LEMMA CommandStep ==
  ASSUME Inv, OneOpens, NEW a \in Admins, Command(a)
  PROVE  OneOpens'
  <1>1. Handle(a, onUpdate, "") /\ UNCHANGED sent
    BY DEF Command
  <1>2. PICK h \in Handlers : Arrives(h, a, onUpdate, "")
    BY <1>1, HandleArrives
  <1>3. UNCHANGED <<tables, doubled>>
    BY <1>1, HandleArrives
  <1> QED
    BY <1>1, <1>2, <1>3, UpdateCalls, ArrivalStep

LEMMA SendStep ==
  ASSUME Inv, OneOpens, NEW a \in Admins, NEW t \in Texts, Send(a, t)
  PROVE  OneOpens'
  <1>1. /\ sent[t] = Unsent /\ Handle(a, onUpdate, t)
        /\ sent' = [sent EXCEPT ![t] = [who |-> a, for |-> wanted[a]]]
    BY DEF Send
  <1>2. PICK h \in Handlers : Arrives(h, a, onUpdate, t)
    BY <1>1, HandleArrives
  <1>3. UNCHANGED <<tables, doubled>>
    BY <1>1, HandleArrives
  <1>4. sent[t].who = ""
    <2>1. Unsent.who = ""
      BY DEF Unsent
    <2> QED
      BY <1>1, <2>1
  <1>5. ~Used(t) /\ \A h2 \in Handlers : job[h2].text # t
    BY <1>4, UnsentUnused
  <1>6. /\ sent'[t].who # ""
        /\ \A x \in Texts : sent[x].who # "" => sent'[x].who # ""
    <2>1. a # "" /\ sent \in [Texts -> Sent]
      BY DialogAssumption, TypesNow DEF Types
    <2>2. sent'[t].who = a /\ \A x \in Texts : x # t => sent'[x] = sent[x]
      BY <1>1, <2>1
    <2> QED
      BY <2>1, <2>2
  <1> QED
    BY <1>2, <1>3, <1>5, <1>6, UpdateCalls, ArrivalStep

LEMMA OpenedOnce == Inv /\ OneOpens /\ [Next]_dialogVars => OneOpens'
  <1> SUFFICES ASSUME Inv, OneOpens, [Next]_dialogVars PROVE OneOpens'
    OBVIOUS
  <1>1. CASE \E a \in Admins, b \in Buttons : Press(a, b)
    BY <1>1, PressStep
  <1>2. CASE \E a \in Admins, t \in Texts : Send(a, t)
    BY <1>2, SendStep
  <1>3. CASE \E a \in Admins : Command(a)
    BY <1>3, CommandStep
  <1>4. CASE \E h \in Handlers : Step(h)
    BY <1>4, QuietStep, PutStep, ReadStep, CreateStep
  <1>5. CASE \E h \in Handlers : WriteFails(h)
    BY <1>5, FailedStep
  <1>6. CASE Restart
    BY <1>6, RestartStep
  <1>7. CASE UNCHANGED dialogVars
    <2>1. UNCHANGED <<bot_state, incidents, job, sent, doubled>>
      BY <1>7 DEF dialogVars, tables, history, crossings
    <2>2. SameTexts /\ NoneRead /\ SameTitles /\ \A b \in Admins : RowKept(b)
      BY <2>1 DEF SameTexts, NoneRead, SameTitles, RowKept, At, Closer
    <2> QED
      BY <2>1, <2>2, Untitled
  <1> QED
    BY <1>1, <1>2, <1>3, <1>4, <1>5, <1>6, <1>7 DEF Next

(* A typed title opens one incident (createIncidentFromState), whatever    *)
(* the admins, the restarts and the failing writes do, except a title read *)
(* while its author was opening another, or not deleted when it was opened.*)
THEOREM OneIncident == Spec => []OneIncidentPerTitle
  <1>1. Init => OneOpens
    <2> SUFFICES ASSUME Init PROVE OneOpens
      OBVIOUS
    <2>1. /\ \A h \in Handlers : job[h] = Idle
          /\ incidents = <<>>
      BY DEF Init
    <2>2. DOMAIN incidents = {}
      BY <2>1
    <2>3. \A h \in Handlers : job[h].text = "" /\ ~At(h, "create")
      BY <2>1, NoText, IdleIs DEF At
    <2> QED
      BY <2>2, <2>3 DEF OneOpens, TextsFresh, Alone, Unopened, BeingClosed, OpenedByOne,
         OneIncidentPerTitle, Titled
  <1>2. Inv /\ Inv' /\ OneOpens /\ [Next]_dialogVars => OneOpens'
    BY OpenedOnce
  <1>3. OneOpens => OneIncidentPerTitle
    BY DEF OneOpens, Alone
  <1> QED
    BY <1>1, <1>2, <1>3, Always, PTL DEF Spec

-----------------------------------------------------------------------------
LEMMA ReadAsStored ==
  ASSUME Inv, NEW h \in Handlers, At(h, "add") \/ At(h, "remove"), ~clashed, "read" \notin Faults
  PROVE  job[h].list = subs
  <1>1. job[h].todo # <<>> /\ Head(job[h].todo).op \in {"add", "remove"}
    BY DEF At
  <1>2. job[h] # Idle
    BY <1>1, IdleIs
  <1>3. Listed(job[h])
    BY <1>1, <1>2, WritesRead DEF Inv, Stands, Harmless
  <1> QED
    BY <1>3 DEF Listed

LEMMA AddingLoses ==
  ASSUME Inv, NEW h \in Handlers, AddSubscriptionURLs(h), ~clashed, "read" \notin Faults
  PROVE  ToSet(subs) \ ToSet(subs') = {}
  <1> DEFINE u == UrlOf[job[h].text]
  <1>1. job[h].list = subs
    BY ReadAsStored DEF AddSubscriptionURLs
  <1>2. subs' = IF Contains(subs, u) THEN subs ELSE Append(subs, u)
    BY <1>1 DEF AddSubscriptionURLs, Enlarged
  <1> HIDE DEF u
  <1>3. CASE Contains(subs, u)
    BY <1>2, <1>3
  <1>4. CASE ~Contains(subs, u)
    <2>1. \A i \in DOMAIN subs : i \in DOMAIN subs' /\ subs'[i] = subs[i]
      <3>1. subs \in Seq(Links \cup {u})
        BY SeqMore, TypesNow DEF Types
      <3> QED
        BY <1>2, <1>4, <3>1, AppendIs
    <2> QED
      BY <2>1 DEF ToSet
  <1> QED
    BY <1>3, <1>4

LEMMA RemovingLosesOne ==
  ASSUME Inv, NEW h \in Handlers, RemoveSubscriptionURLAt(h), ~clashed, "read" \notin Faults
  PROVE  LET lost == ToSet(subs) \ ToSet(subs') IN lost = {} \/ Removed(lost)
  <1>1. job[h].list = subs /\ At(h, "remove")
    BY ReadAsStored DEF RemoveSubscriptionURLAt
  <1>2. PICK i \in 1..Cardinality(Links) :
          subs' = IF i \in DOMAIN job[h].list THEN RemoveAt(job[h].list, i) ELSE subs
    BY DEF RemoveSubscriptionURLAt
  <1>3. CASE i \notin DOMAIN subs
    BY <1>1, <1>2, <1>3
  <1>4. CASE i \in DOMAIN subs
    <2>1. ToSet(subs') = ToSet(subs) \ {subs[i]}
      BY <1>1, <1>2, <1>4, RemoveLink, TypesNow DEF Types
    <2>2. subs[i] \in ToSet(subs)
      BY <1>4 DEF ToSet
    <2>3. ToSet(subs) \ ToSet(subs') = {subs[i]}
      BY <2>1, <2>2
    <2>4. Cardinality(ToSet(subs) \ ToSet(subs')) = 1
      BY <2>3, FS_Singleton
    <2>5. job'[h] # job[h]
      <3>1. job[h].todo # <<>> /\ job[h] # Idle /\ job[h].todo \in Seq(Calls)
        BY <1>1, IdleIs, TypesNow DEF At, Types, Job
      <3>2. Tail(job[h].todo) # job[h].todo
        <4>1. PICK n \in Nat : Len(job[h].todo) = n /\ Len(Tail(job[h].todo)) = n - 1
          BY <3>1, HeadTailProperties, LenProperties
        <4>2. n - 1 # n
          OBVIOUS
        <4> QED
          BY <4>1, <4>2, Zenon
      <3>3. GoesOn(h, Tail(job[h].todo))
        BY <3>1, GoesNext, TypesNow DEF RemoveSubscriptionURLAt
      <3> QED
        BY <3>1, <3>2, <3>3 DEF GoesOn
    <2> QED
      BY <1>1, <2>4, <2>5 DEF Removed
  <1> QED
    BY <1>3, <1>4

(* While the stored list can be read, a link leaves it only by a removal,  *)
(* which takes it alone, unless two changes of the list have overlapped    *)
(* (AddSubscriptionURLs, RemoveSubscriptionURLAt).                         *)
THEOREM LinksAreKept == "read" \notin Faults => (Spec => LinksStay)
  <1> SUFFICES ASSUME "read" \notin Faults PROVE Spec => LinksStay
    OBVIOUS
  <1> DEFINE Kept == LET lost == ToSet(subs) \ ToSet(subs')
                     IN lost = {} \/ clashed \/ Removed(lost)
  <1>1. Inv /\ [Next]_dialogVars => [Kept]_dialogVars
    <2> SUFFICES ASSUME Inv, Next PROVE Kept
      OBVIOUS
    <2>1. CASE UNCHANGED subs
      BY <2>1
    <2>2. CASE \E h \in Handlers : AddSubscriptionURLs(h)
      BY <2>2, AddingLoses
    <2>3. CASE \E h \in Handlers : RemoveSubscriptionURLAt(h)
      BY <2>3, RemovingLosesOne
    <2>4. UNCHANGED subs \/ \E h \in Handlers : AddSubscriptionURLs(h) \/ RemoveSubscriptionURLAt(h)
      BY DEF Next, Press, Send, Command, Handle, Restart, tables, Step, SetBotState, GetAwait,
         SetTitle, GetTarget, SetAlias, GetTitleText, CreateIncident, SetStatus, AddFeed,
         SubscriptionURLs, WriteFails
    <2> QED
      BY <2>1, <2>2, <2>3, <2>4
  <1>2. Spec => [][Kept]_dialogVars
    BY <1>1, Always, PTL DEF Spec
  <1> QED
    BY <1>2 DEF LinksStay
=============================================================================
