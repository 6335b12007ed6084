------------------------------- MODULE Dialog -------------------------------
(***************************************************************************)
(* The bot's dialogs: onUpdate, onCallback and handleAwait of internal/bot *)
(* over the tables bot_state, settings, aliases, incidents and secrets.    *)
(* The Telegram library runs every update in a goroutine of its own, so    *)
(* the handlers of two admins, and two of one admin, interleave at each    *)
(* call of the database.  A handler is the list of calls it has to make;   *)
(* those that only repaint a message, or keep which message to repaint,    *)
(* are left out.  A write that fails is told at most, never made good; of  *)
(* the reads that fail, and read as nothing, only the links' are here.     *)
(* A question is that of the page's title (those of its other texts and of *)
(* the domain go the same way), of an incident's title, of a host's name,  *)
(* or of subscriptions; "home" stands for every button that writes no other*)
(* state of a dialog.                                                      *)
(***************************************************************************)
EXTENDS Naturals, SequencesExt

CONSTANTS
  Admins,
  Handlers,    \* goroutines
  Names,       \* hosts of the menus
  Texts,       \* messages an admin types, each of them once
  UrlOf,       \* UrlOf[t]: the subscription link in text t
  Buttons,     \* what the admins press
  Faults,      \* what may fail: "read" the stored subscriptions, "write" anything
  MayRestart,
  MaxPresses   \* bound: buttons pressed, commands, restarts and failed writes

(* The questions a button asks; a host is renamed in two of its fields.    *)
Ask(q)     == [act |-> "ask", arg |-> q]
AskName(n) == [act |-> "ren", arg |-> n]
Home       == [act |-> "home", arg |-> ""]     \* every other button of a menu
Done       == [act |-> "inc:affdone", arg |-> ""]
Delete     == [act |-> "sub:del", arg |-> ""]  \* of one link, by its place in the menu
Set(s)     == [act |-> "inc:setst", arg |-> s] \* the status of an incident
Statuses   == {"investigating", "monitoring", "resolved"}
Questions  == {"page_title", "inc_title", "sub_add"}

ASSUME DialogAssumption ==
  /\ UrlOf \in [Texts -> {UrlOf[t] : t \in Texts}]
  /\ Buttons \subseteq {Ask(q) : q \in Questions} \cup {AskName(n) : n \in Names}
                        \cup {Home, Done, Delete} \cup {Set(s) : s \in Statuses}
  /\ Faults \subseteq {"read", "write"} /\ MayRestart \in BOOLEAN /\ MaxPresses \in Nat
  /\ "" \notin Admins \cup Names \cup Texts

VARIABLES
  bot_state,   \* table bot_state of each admin; a missing row reads as ""
  title,       \* setting "title": the text it was set to, or ""
  aliases,     \* table aliases: the text each host is called by, or ""
  incidents,   \* table incidents: title, creator and status, and the status of the
               \* newest entry in the feed of each (incident_updates)
  subs,        \* the stored subscription links, in their order
  job,         \* the handlers that run: whose, what is left to do, and what it read
  presses,
  sent,        \* history: of every text, who sent it and what for
  wanted,      \* history: what each admin was last asked
  astray,      \* history: admins two of whose handlers have run at once, one of
               \* whose handlers a restart cut off or a write of whose state failed,
               \* until a button or a command finds them idle
  doubtful,    \* history: texts under way while their author was astray
  doubled,     \* history: titles read while another was being opened by their
               \* author, or left behind when they had been opened
  clashed      \* history: two changes of the list have run at once

tables     == <<bot_state, title, aliases, incidents, subs>>
crossings  == <<astray, doubtful, doubled>>
history    == <<presses, sent, wanted, crossings, clashed>>
dialogVars == <<tables, job, history>>

State  == {"await", "ren_target", "inc_title_txt"}
Idle   == [who |-> "", todo |-> <<>>, text |-> "", got |-> "", id |-> 0, list |-> <<>>]
Unsent == [who |-> "", for |-> Home]
Links  == {UrlOf[t] : t \in Texts}
Incident == [title : Texts, by : Admins, status : Statuses, feed : Statuses \cup {""}]

Init ==
  /\ bot_state = [a \in Admins |-> [k \in State |-> ""]]
  /\ title = "" /\ aliases = [n \in Names |-> ""]
  /\ incidents = <<>> /\ subs = <<>>
  /\ job = [h \in Handlers |-> Idle]
  /\ presses = 0
  /\ sent = [t \in Texts |-> Unsent]
  /\ wanted = [a \in Admins |-> Home]
  /\ astray = {} /\ doubtful = {} /\ doubled = {} /\ clashed = FALSE

-----------------------------------------------------------------------------
(* The handlers, as the database calls they make in order.                 *)

Put(k, v) == [op |-> "put", key |-> k, val |-> v]
PutText(k) == [op |-> "put text", key |-> k, val |-> ""]
Del(k)    == Put(k, "")
Call(f)   == [op |-> f, key |-> "", val |-> ""]

(* Mutant: the title is kept.                                              *)
createIncidentFromState_keeps == <<Call("read title"), Call("create"), Call("feed")>>
createIncidentFromState ==
  <<Call("read title"), Call("create"), Call("feed"), Del("inc_title_txt")>>
AddIncidentUpdate(s) == <<[op |-> "status", key |-> "", val |-> s], Call("feed")>>
handleRenCallback(n) ==
  <<Del("ren_target"), Put("ren_target", n), Put("await", "ren_name")>>
(* A button of the menus: what it does once the awaited answer is dropped. *)
handleCallback(b) ==
  CASE b.act = "ask"         -> <<Put("await", b.arg)>>
    [] b.act = "ren"         -> handleRenCallback(b.arg)
    [] b.act = "inc:affdone" -> createIncidentFromState
    [] b.act = "inc:setst"   -> AddIncidentUpdate(b.arg)
    [] b.act = "sub:del"     -> <<Call("read list"), Call("remove")>>
    [] b.act = "home"        -> <<>>

(* Mutant: navigation leaves the awaited answer awaited.                   *)
onCallback_stays(b) == handleCallback(b)
onCallback(b) == <<Del("await")>> \o handleCallback(b)

(* Mutant: the links are asked for once.                                   *)
handleAwait_once(q) ==
  <<Del("await")>> \o
  CASE q = "page_title" -> <<Call("save title")>>
    [] q = "ren_name"   -> <<Call("read target"), Del("ren_target"), Call("rename")>>
    [] q = "inc_title"  -> <<PutText("inc_title_txt")>>
    [] q = "sub_add"    -> <<Call("read list"), Call("add")>>
(* A text, once the awaited question is read.                              *)
handleAwait(q) ==
  <<Del("await")>> \o
  CASE q = "page_title" -> <<Call("save title")>>
    [] q = "ren_name"   -> <<Call("read target"), Del("ren_target"), Call("rename")>>
    [] q = "inc_title"  -> <<PutText("inc_title_txt")>>
    [] q = "sub_add"    -> <<Call("read list"), Call("add"), Put("await", "sub_add")>>

(* A message; without a text of its own it is a command.                   *)
onUpdate == <<Call("read await")>>

-----------------------------------------------------------------------------
(* Updates arrive.                                                         *)

Busy(a) == \E h \in Handlers : job[h].who = a

(* The texts whose handlers run for an admin.                              *)
UnderWay(a) == {job[h].text : h \in {g \in Handlers : job[g].who = a}} \ {""}

Handle(a, calls, t) ==
  /\ \E h \in Handlers :
       /\ job[h] = Idle
       /\ job' = [job EXCEPT ![h] = [Idle EXCEPT !.who = a, !.todo = calls, !.text = t]]
  /\ astray' = IF Busy(a) THEN astray \cup {a} ELSE IF t = "" THEN astray \ {a} ELSE astray
  /\ doubtful' = IF a \in astray' THEN doubtful \cup UnderWay(a)' ELSE doubtful
  /\ UNCHANGED <<tables, doubled, clashed>>

Press(a, b) ==
  /\ presses < MaxPresses
  /\ presses' = presses + 1
  /\ Handle(a, onCallback(b), "")
  /\ wanted' = [wanted EXCEPT ![a] = IF b.act \in {"ask", "ren"} THEN b ELSE Home]
  /\ UNCHANGED sent

(* Links may be sent one after the other, any other answer is the last.    *)
Send(a, t) ==
  /\ sent[t] = Unsent
  /\ sent' = [sent EXCEPT ![t] = [who |-> a, for |-> wanted[a]]]
  /\ Handle(a, onUpdate, t)
  /\ wanted' = [wanted EXCEPT ![a] = IF @ = Ask("sub_add") THEN @ ELSE Home]
  /\ UNCHANGED presses

Command(a) ==
  /\ presses < MaxPresses
  /\ presses' = presses + 1
  /\ Handle(a, onUpdate, "")
  /\ wanted' = [wanted EXCEPT ![a] = Home]
  /\ UNCHANGED sent

-----------------------------------------------------------------------------
(* Handlers go on, one call at a time.                                     *)

(* Handlers that have read a title, to open it and then to delete it.      *)
Opens(h) ==
  job[h].todo \in {<<Call("create"), Call("feed"), Del("inc_title_txt")>>,
                   <<Call("feed"), Del("inc_title_txt")>>, <<Del("inc_title_txt")>>}

At(h, f)  == job[h].todo # <<>> /\ Head(job[h].todo).op = f
Left(h)   == Tail(job[h].todo)
Me(h)     == job[h].who
(* The handler goes on with these calls, or ends after the last.           *)
Go(h, j, calls) ==
  job' = [job EXCEPT ![h] = IF calls = <<>> THEN Idle ELSE [j EXCEPT !.todo = calls]]
Next1(h)  == Go(h, job[h], Left(h))

SetBotState(h) ==
  /\ At(h, "put") \/ At(h, "put text")
  /\ LET o == Head(job[h].todo)
     IN bot_state' = [bot_state EXCEPT ![Me(h)][o.key] =
                        IF o.op = "put text" THEN job[h].text ELSE o.val]
  /\ Next1(h)
  /\ UNCHANGED <<title, aliases, incidents, subs, history>>

(* A message that answers nothing is left; a command drops the question.   *)
GetAwait(h) ==
  /\ At(h, "read await")
  /\ LET q == bot_state[Me(h)]["await"]
     IN Go(h, job[h], IF q = "" THEN <<>>
                      ELSE IF job[h].text = "" THEN <<Del("await")>> ELSE handleAwait(q))
  /\ UNCHANGED <<tables, history>>

SetTitle(h) ==
  /\ At(h, "save title")
  /\ title' = job[h].text
  /\ Next1(h)
  /\ UNCHANGED <<bot_state, aliases, incidents, subs, history>>

GetTarget(h) ==
  /\ At(h, "read target")
  /\ Go(h, [job[h] EXCEPT !.got = bot_state[Me(h)]["ren_target"]], Left(h))
  /\ UNCHANGED <<tables, history>>

SetAlias(h) ==
  /\ At(h, "rename")
  /\ aliases' = IF job[h].got = "" THEN aliases
                ELSE [aliases EXCEPT ![job[h].got] = job[h].text]
  /\ Next1(h)
  /\ UNCHANGED <<bot_state, title, incidents, subs, history>>

(* Mutant: an incident is opened without a title, too.                     *)
GetTitleText_any(h) ==
  /\ At(h, "read title")
  /\ Go(h, [job[h] EXCEPT !.got = bot_state[Me(h)]["inc_title_txt"]], Left(h))
  /\ UNCHANGED <<tables, history>>
GetTitleText(h) ==
  /\ At(h, "read title")
  /\ LET t == bot_state[Me(h)]["inc_title_txt"]
     IN /\ Go(h, [job[h] EXCEPT !.got = t], IF t = "" THEN <<>> ELSE Left(h))
        /\ doubled' = IF \E g \in Handlers : Me(g) = Me(h) /\ Opens(g) THEN doubled \cup {t}
                      ELSE doubled
  /\ UNCHANGED <<tables, presses, sent, wanted, astray, doubtful, clashed>>

CreateIncident(h) ==
  /\ At(h, "create")
  /\ incidents' = Append(incidents, [title |-> job[h].got, by |-> Me(h), feed |-> "",
                                     status |-> "investigating"])
  /\ Go(h, [job[h] EXCEPT !.id = Len(incidents) + 1, !.got = "investigating"], Left(h))
  /\ UNCHANGED <<bot_state, title, aliases, subs, history>>

(* The button of any incident, a closed one too.                           *)
SetStatus(h) ==
  /\ At(h, "status")
  /\ \/ \E i \in DOMAIN incidents :
          /\ incidents' = [incidents EXCEPT ![i].status = Head(job[h].todo).val]
          /\ Go(h, [job[h] EXCEPT !.id = i, !.got = Head(job[h].todo).val], Left(h))
     \/ incidents = <<>> /\ Go(h, job[h], <<>>) /\ UNCHANGED incidents
  /\ UNCHANGED <<bot_state, title, aliases, subs, history>>

(* The entry tells the status it was made for.                             *)
AddFeed(h) ==
  /\ At(h, "feed")
  /\ incidents' = [incidents EXCEPT ![job[h].id].feed = job[h].got]
  /\ Next1(h)
  /\ UNCHANGED <<bot_state, title, aliases, subs, history>>

(* A list that cannot be read or decrypted reads as empty.                 *)
SubscriptionURLs(h) ==
  /\ At(h, "read list")
  /\ \E l \in {subs} \cup (IF "read" \in Faults THEN {<<>>} ELSE {}) :
       Go(h, [job[h] EXCEPT !.list = l], Left(h))
  /\ clashed' = (clashed \/ \E g \in Handlers : At(g, "add") \/ At(g, "remove"))
  /\ UNCHANGED <<tables, presses, sent, wanted, crossings>>

(* Mutant: the link replaces the list.                                     *)
Enlarged_sets(l, u) == <<u>>
(* What is written back for the list as it was read.                       *)
Enlarged(l, u) == IF Contains(l, u) THEN subs ELSE Append(l, u)
AddSubscriptionURLs(h) ==
  /\ At(h, "add")
  /\ subs' = Enlarged(job[h].list, UrlOf[job[h].text])
  /\ Next1(h)
  /\ UNCHANGED <<bot_state, title, aliases, incidents, history>>

(* The place is that of the menu pressed, which may be an old one.         *)
RemoveSubscriptionURLAt(h) ==
  /\ At(h, "remove")
  /\ \E i \in 1..Cardinality(Links) :
       subs' = IF i \in DOMAIN job[h].list THEN RemoveAt(job[h].list, i) ELSE subs
  /\ Next1(h)
  /\ UNCHANGED <<bot_state, title, aliases, incidents, history>>

(* A write fails, and the handler goes on: an incident that is not created *)
(* or found has no entry in its feed, nothing else depends on it.          *)
Writes == {"put", "put text", "save title", "rename", "create", "status", "feed", "add", "remove"}
WriteFails(h) ==
  /\ "write" \in Faults /\ presses < MaxPresses
  /\ presses' = presses + 1
  /\ \E f \in Writes : At(h, f)
  /\ Go(h, job[h], IF At(h, "create") \/ At(h, "status") THEN Tail(Left(h)) ELSE Left(h))
  /\ IF At(h, "put") \/ At(h, "put text")
     THEN /\ astray' = astray \cup {Me(h)}
          /\ doubtful' = doubtful \cup UnderWay(Me(h))
     ELSE UNCHANGED <<astray, doubtful>>
  /\ doubled' = IF Head(job[h].todo) = Del("inc_title_txt")
                THEN doubled \cup {bot_state[Me(h)]["inc_title_txt"]} ELSE doubled
  /\ UNCHANGED <<tables, sent, wanted, clashed>>

(* The process is restarted; the tables keep what was written.             *)
Restart ==
  /\ MayRestart /\ presses < MaxPresses
  /\ presses' = presses + 1
  /\ job' = [h \in Handlers |-> Idle]
  /\ astray' = astray \cup {a \in Admins : Busy(a)}
  /\ doubled' = doubled \cup {bot_state[Me(h)]["inc_title_txt"] :
                               h \in {g \in Handlers : Opens(g) /\ ~At(g, "create")}}
  /\ UNCHANGED <<tables, sent, wanted, doubtful, clashed>>

Step(h) ==
  \/ SetBotState(h) \/ GetAwait(h) \/ SetTitle(h) \/ GetTarget(h) \/ SetAlias(h)
  \/ GetTitleText(h) \/ CreateIncident(h) \/ SetStatus(h) \/ AddFeed(h)
  \/ SubscriptionURLs(h) \/ AddSubscriptionURLs(h) \/ RemoveSubscriptionURLAt(h)

Next ==
  \/ \E a \in Admins, b \in Buttons : Press(a, b)
  \/ \E a \in Admins, t \in Texts : Send(a, t)
  \/ \E a \in Admins : Command(a)
  \/ \E h \in Handlers : Step(h) \/ WriteFails(h)
  \/ Restart

Spec == Init /\ [][Next]_dialogVars

-----------------------------------------------------------------------------
(* Properties.                                                             *)

TypeOK ==
  /\ bot_state \in [Admins -> [await : {"", "ren_name"} \cup Questions,
                               ren_target : Names \cup {""}, inc_title_txt : Texts \cup {""}]]
  /\ title \in Texts \cup {""} /\ aliases \in [Names -> Texts \cup {""}]
  /\ incidents \in Seq(Incident)
  /\ subs \in Seq(Links) /\ IsInjective(subs)
  /\ \A h \in Handlers : job[h] = Idle \/ (job[h].who \in Admins /\ job[h].todo # <<>>)
  /\ presses \in 0..MaxPresses /\ clashed \in BOOLEAN
  /\ astray \subseteq Admins /\ doubtful \subseteq Texts /\ doubled \subseteq Texts \cup {""}

(* What is stored was typed for it: the page's title, a host's name, the   *)
(* title of an incident and a link are texts their author sent in answer   *)
(* to that question (that host), whatever the other admin does meanwhile   *)
(* and however the dialogs are left, lost and come back to (handleAwait).  *)
(* Not so of a text under way while its author's updates overlapped, or    *)
(* after a restart or a failed write that no button has made good.         *)
For(t, b) == t \in doubtful \/ sent[t].for = b
AnswersFit ==
  /\ title # "" => For(title, Ask("page_title"))
  /\ \A n \in Names : aliases[n] # "" => For(aliases[n], AskName(n))
  /\ \A i \in DOMAIN incidents :
       LET x == incidents[i]
       IN x.by = sent[x.title].who /\ For(x.title, Ask("inc_title"))
  /\ \A u \in ToSet(subs) :
       \E t \in Texts : sent[t] # Unsent /\ UrlOf[t] = u /\ For(t, Ask("sub_add"))

(* Between the updates of an admin, the question that waits for an answer  *)
(* is the one asked last, and none after a button that asks nothing, a     *)
(* command or the last answer.  What overlapping updates, a restart or a   *)
(* failed write have made of it lasts until the next button or command, of *)
(* an admin none of whose updates is being handled (onCallback, onUpdate,  *)
(* handleAwait).                                                           *)
Awaits(s, w) ==
  CASE w.act = "ask" -> s.await = w.arg
    [] w.act = "ren" -> s.await = "ren_name" /\ s.ren_target = w.arg
    [] OTHER         -> s.await = ""
AskedIsAwaited ==
  \A a \in Admins \ astray : ~Busy(a) => Awaits(bot_state[a], wanted[a])

(* A typed title opens one incident, though the button that opens it stays *)
(* in the chat, unless it was tapped twice at once, or the title could not *)
(* be deleted when it was opened (createIncidentFromState).                *)
OneIncidentPerTitle ==
  \A i, j \in DOMAIN incidents :
    (incidents[i].title = incidents[j].title /\ incidents[i].title \notin doubled) => i = j

(* A link leaves the list only when a removal takes it, and it alone,      *)
(* unless two changes of the list have overlapped (AddSubscriptionURLs,    *)
(* RemoveSubscriptionURLAt).                                               *)
Removed(lost) ==
  Cardinality(lost) = 1 /\ \E h \in Handlers : At(h, "remove") /\ job'[h] # job[h]
LinksStay ==
  [][LET lost == ToSet(subs) \ ToSet(subs')
     IN lost = {} \/ clashed \/ Removed(lost)]_dialogVars

(* As the prompt of "add" has it, of links sent one message each: those    *)
(* that are there are not overwritten (handleSubCallback).                 *)
NotOverwritten ==
  [][LET lost == ToSet(subs) \ ToSet(subs')
     IN lost = {} \/ Removed(lost)]_dialogVars
=============================================================================
