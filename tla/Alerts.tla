------------------------------- MODULE Alerts -------------------------------
(***************************************************************************)
(* The poller with the bot that delivers its events: Bot.HandleEvent of    *)
(* internal/bot, which the poller calls through onEvent while it holds its *)
(* own lock, one event at a time; the mute list and the alert_on_down      *)
(* setting, which the bot's menus change at any moment; a restart, which   *)
(* empties the bot's memory with the poller's.  The chats the alerts go to *)
(* are one: each gets every message, and a message is sent or is lost.     *)
(***************************************************************************)
EXTENDS Poller

CONSTANTS
  BotMay,        \* what the admin changes of delivery: "mute", "alert_on_down"
  SendMayFail    \* whether a message to Telegram may be lost

ASSUME AlertsAssumption ==
  BotMay \subseteq {"mute", "alert_on_down"} /\ SendMayFail \in BOOLEAN

VARIABLES
  lastDown,     \* Bot.lastDown: the state the bot last sent for a name
  muted,        \* table "muted"
  alertOnDown,  \* the alert_on_down setting
  chat,         \* history: the last message the chat got on each topic
  passed        \* history: hosts of which lastDown does not tell the last event

botVars   == <<lastDown, muted, alertOnDown, chat, passed>>
alertVars == <<pollerVars, botVars>>

Status(e) == e.type \in {"server_down", "server_up"}
Topic(e)  == <<IF Status(e) THEN "status"
               ELSE IF e.type \in Outages THEN "outage" ELSE "ping", e.key>>
Topics    == {Topic(e) : e \in Event}
Messages  == {e.type : e \in Event}

AlertsTypeOK ==
  /\ TypeOK
  /\ lastDown \in [Names -> {"unset", "server_down", "server_up"}]
  /\ muted \subseteq Names
  /\ alertOnDown \in BOOLEAN
  /\ chat \in [Topics -> Messages \cup {"none"}]
  /\ passed \subseteq Keys

AlertsInit ==
  /\ Init
  /\ lastDown = [n \in Names |-> "unset"]
  /\ muted = {}
  /\ alertOnDown = TRUE
  /\ chat = [t \in Topics |-> "none"]
  /\ passed = {}

(* The early returns of HandleEvent, in its order.                         *)
Muted(e)    == e.key # AllHosts /\ Disp(e.key) \in muted
TurnedOff(e) == Status(e) /\ ~alertOnDown
(* Mutant: whatever was said of a host once is not followed up.            *)
Repeated_once(e) == Status(e) /\ lastDown[Disp(e.key)] # "unset"
Repeated(e) == Status(e) /\ lastDown[Disp(e.key)] = e.type
NoText(e)   == e.type = "global_suspected"

(* Mutant: every event is remembered as the state of the host.             *)
HandleEvent_any(e) ==
  IF Muted(e) \/ TurnedOff(e) \/ Repeated(e) \/ NoText(e)
  THEN UNCHANGED <<lastDown, chat>>
  ELSE /\ lastDown' = IF e.key # AllHosts THEN [lastDown EXCEPT ![Disp(e.key)] = e.type]
                      ELSE lastDown
       /\ \/ chat' = [chat EXCEPT ![Topic(e)] = e.type]
          \/ SendMayFail /\ UNCHANGED chat
(* Mutant: only that a host is down is remembered.                         *)
HandleEvent_downs(e) ==
  IF Muted(e) \/ TurnedOff(e) \/ Repeated(e) \/ NoText(e)
  THEN UNCHANGED <<lastDown, chat>>
  ELSE /\ lastDown' = IF e.type = "server_down"
                      THEN [lastDown EXCEPT ![Disp(e.key)] = e.type] ELSE lastDown
       /\ \/ chat' = [chat EXCEPT ![Topic(e)] = e.type]
          \/ SendMayFail /\ UNCHANGED chat
(* What was sent is remembered before it is sent.                          *)
HandleEvent(e) ==
  IF Muted(e) \/ TurnedOff(e) \/ Repeated(e) \/ NoText(e)
  THEN UNCHANGED <<lastDown, chat>>
  ELSE /\ lastDown' = IF Status(e) THEN [lastDown EXCEPT ![Disp(e.key)] = e.type]
                      ELSE lastDown
       /\ \/ chat' = [chat EXCEPT ![Topic(e)] = e.type]
          \/ SendMayFail /\ UNCHANGED chat

(* History: an event that is silenced passes lastDown by, and one that is  *)
(* not makes it tell of this host and not of another with the same name.   *)
PassBy(e) ==
  passed' = IF ~Status(e) THEN passed
            ELSE IF Muted(e) \/ TurnedOff(e) THEN passed \cup {e.key}
            ELSE (passed \cup {k \in Keys : Disp(k) = Disp(e.key)}) \ {e.key}

Deliver(e) ==
  /\ Emit(e)
  /\ HandleEvent(e)
  /\ PassBy(e)
  /\ UNCHANGED <<muted, alertOnDown>>

PollerStep ==
  /\ \/ Cycle \/ PollWriteFails \/ ChangeSettings
     \/ \E s \in Sids : DeleteServer(s)
  /\ UNCHANGED botVars

RestartAll ==
  /\ Restart
  /\ lastDown' = [n \in Names |-> "unset"]
  /\ passed' = {}
  /\ UNCHANGED <<muted, alertOnDown, chat>>

SetMutedName(n) ==
  /\ "mute" \in BotMay
  /\ muted' = (muted \cup {n}) \ (muted \cap {n})
  /\ UNCHANGED <<pollerVars, lastDown, alertOnDown, chat, passed>>

SetAlertOnDown ==
  /\ "alert_on_down" \in BotMay
  /\ alertOnDown' = ~alertOnDown
  /\ UNCHANGED <<pollerVars, lastDown, muted, chat, passed>>

AlertsNext ==
  \/ PollerStep
  \/ \E e \in Event : Deliver(e)
  \/ RestartAll
  \/ \E n \in Names : SetMutedName(n)
  \/ SetAlertOnDown

AlertsSpec == AlertsInit /\ [][AlertsNext]_alertVars
AlertsFairSpec ==
  /\ AlertsSpec
  /\ WF_alertVars(Cycle /\ UNCHANGED botVars)
  /\ WF_alertVars(\E e \in Event : Deliver(e))

-----------------------------------------------------------------------------
(* The alerts as an admin sees them, against what the page shows.          *)

page == [k \in Keys |-> IF ~WasSeen(k) THEN "new" ELSE IF WasUp(k) THEN "up" ELSE "down"]
told == [k \in Keys |-> IF chat[<<"status", k>>] = "server_down" THEN "down" ELSE "up"]

Promise == INSTANCE Notices WITH Hosts <- Keys

(* Every up/down message that reaches the chat says what the page shows of *)
(* the host at that moment, across restarts, lost messages, failed writes, *)
(* mutes and maintenance (HandleEvent and pollOnce).                       *)
MessagesAreTrue == Promise!Safe

(* With delivery switched on and nothing failing, what the page shows for  *)
(* good is what the chat was told last.                                    *)
PromiseKept == Promise!Spec

(* HandleEvent drops an event as a repetition only when the last one the   *)
(* poller handed it of that host was the same.                             *)
OnlyRepeatsDropped ==
  \A e \in pending : (Repeated(e) /\ ~Muted(e) /\ alertOnDown) => heard[e.key] = e.type

(* An event that is no repetition is dropped as one in two cases only: the *)
(* last event of the host was silenced (by the mute list or the setting),  *)
(* or the last event under its name was another host's; and not across a   *)
(* restart (HandleEvent returns before it writes lastDown).                *)
DroppedWereHeard ==
  \A e \in pending : (Repeated(e) /\ ~Muted(e) /\ alertOnDown) =>
                       heard[e.key] = e.type \/ e.key \in passed

(* An outage is announced only when in this answer and in the one before it*)
(* everything was offline that had been offline in the answer before each, *)
(* too: with the third answer at the earliest, whatever restarts, settings *)
(* and failed writes come between; and its all-clear comes only after it   *)
(* was announced (pollOnce).                                               *)
OutageBracketed ==
  \A e \in pending :
    /\ e.type = "global_confirmed" => AllOff(report, prevOff) /\ prevAllOff
    /\ e.type = "global_cleared" => chat[Topic(e)] = "global_confirmed"
=============================================================================
