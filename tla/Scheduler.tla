----------------------------- MODULE Scheduler -----------------------------
(***************************************************************************)
(* RunScheduler of internal/bot/bot.go: a ticker, and at each tick first   *)
(* the alerts whose time in the chat is over (deleteDueAlerts), then the   *)
(* daily summary, when the clock shows its minute (dueSummary).  Telegram  *)
(* may take as long as the contexts of the two let it, and a tick that     *)
(* comes meanwhile waits, one at most.  The day that was sent is kept in   *)
(* memory.  Time goes in units of 15 seconds; a day is cut down to a few   *)
(* minutes.  Which alerts are due is external here, and whether Telegram   *)
(* deletes one or not, the code goes on alike.                             *)
(***************************************************************************)
EXTENDS Integers

CONSTANTS
  Minutes,    \* minutes in a day
  Horizon,    \* bound: units of time that pass
  MaxStarts   \* bound: processes started on one day

ASSUME SchedulerAssumption ==
  /\ Minutes \in Nat \ {0} /\ Horizon \in Nat \ {0} /\ MaxStarts \in Nat \ {0}

MinuteLen == 4
DayLen    == MinuteLen * Minutes
Never     == -1

VARIABLES
  clock,     \* units since the first midnight
  toTick,    \* units until the ticker's next tick
  tick,      \* a tick waits in the channel
  stage,     \* where RunScheduler stands; "off": no process
  left,      \* units the context of its call has left
  lastSent,  \* the day of the last summary, as this process remembers
  daily_summary,  \* the setting: a minute, or Never
  sent,      \* history: summaries sent today
  starts,    \* history: processes that have run today
  calm       \* history: today no process ended, the setting was read when it
             \* was needed and left alone

schedulerVars == <<clock, toTick, tick, stage, left, lastSent, daily_summary,
                   sent, starts, calm>>

Today    == clock \div DayLen
Midnight == DayLen * Today
(* "15:04" of the clock.                                                   *)
hhmm     == (clock % DayLen) \div MinuteLen

(* Mutant: a tick a minute will do.                                        *)
Ticker_minute == 4
Ticker        == 2
(* Mutant: Telegram is given 45 seconds.                                   *)
DeleteTimeout_long == 3
DeleteTimeout      == 1
SendTimeout        == 1

SchedulerInit ==
  /\ clock = 0
  /\ toTick \in 1..Ticker /\ tick = FALSE
  /\ stage = "wait" /\ left = 0
  /\ lastSent = Never
  /\ daily_summary \in (0..(Minutes - 1)) \cup {Never}
  /\ sent = 0 /\ starts = 1 /\ calm = TRUE

(* A unit of time passes, which nothing but a call of Telegram outlasts.   *)
Advance ==
  /\ clock + 1 < Horizon
  /\ CASE stage = "off"                 -> TRUE
       [] stage = "wait"                -> ~tick
       [] stage \in {"delete", "send"}  -> left > 0
       [] stage = "check"               -> FALSE
  /\ clock' = clock + 1
  /\ left' = IF left > 0 THEN left - 1 ELSE 0
  /\ IF stage = "off" THEN UNCHANGED <<toTick, tick>>
     ELSE /\ toTick' = IF toTick = 1 THEN Ticker ELSE toTick - 1
          /\ tick' = (tick \/ toTick = 1)
  /\ IF clock' % DayLen = 0
     THEN sent' = 0 /\ starts' = (IF stage = "off" THEN 0 ELSE 1) /\ calm' = (stage # "off")
     ELSE UNCHANGED <<sent, starts, calm>>
  /\ UNCHANGED <<stage, lastSent, daily_summary>>

(* A tick: the alerts that are due, if any can be read, are tried one by   *)
(* one, and forgotten.                                                     *)
deleteDueAlerts ==
  /\ stage = "wait" /\ tick
  /\ tick' = FALSE
  /\ \/ stage' = "delete" /\ left' = DeleteTimeout
     \/ stage' = "check" /\ UNCHANGED left
  /\ UNCHANGED <<clock, toTick, lastSent, daily_summary, sent, starts, calm>>

(* Telegram has answered for the last of them, or the time is up.          *)
Deleted ==
  /\ stage = "delete"
  /\ stage' = "check" /\ left' = 0
  /\ UNCHANGED <<clock, toTick, tick, lastSent, daily_summary, sent, starts, calm>>

dueSummary == daily_summary = hhmm /\ lastSent # Today

(* Mutant: the day is not remembered.                                      *)
Summary_forgetful ==
  /\ stage = "check"
  /\ IF dueSummary THEN stage' = "send" /\ left' = SendTimeout /\ sent' = sent + 1
     ELSE stage' = "wait" /\ UNCHANGED <<left, sent>>
  /\ UNCHANGED <<clock, toTick, tick, lastSent, daily_summary, starts, calm>>
(* The clock is read after the deletions, and the setting then; a setting  *)
(* that cannot be read is none.                                            *)
Summary ==
  /\ stage = "check"
  /\ \/ /\ dueSummary
        /\ lastSent' = Today
        /\ stage' = "send" /\ left' = SendTimeout
        /\ sent' = sent + 1
        /\ UNCHANGED calm
     \/ ~dueSummary /\ stage' = "wait" /\ UNCHANGED <<left, lastSent, sent, calm>>
     \/ stage' = "wait" /\ calm' = FALSE /\ UNCHANGED <<left, lastSent, sent>>
  /\ UNCHANGED <<clock, toTick, tick, daily_summary, starts>>

Sent ==
  /\ stage = "send"
  /\ stage' = "wait" /\ left' = 0
  /\ UNCHANGED <<clock, toTick, tick, lastSent, daily_summary, sent, starts, calm>>

-----------------------------------------------------------------------------
SetDailySummaryTime ==
  /\ stage # "off"
  /\ daily_summary' \in ((0..(Minutes - 1)) \cup {Never}) \ {daily_summary}
  /\ calm' = FALSE
  /\ UNCHANGED <<clock, toTick, tick, stage, left, lastSent, sent, starts>>

(* A process begins, with a new ticker and nothing remembered, or ends.    *)
RunScheduler ==
  /\ starts < MaxStarts
  /\ stage' = "wait" /\ left' = 0
  /\ toTick' = Ticker /\ tick' = FALSE
  /\ lastSent' = Never
  /\ starts' = starts + 1
  /\ calm' = FALSE
  /\ UNCHANGED <<clock, daily_summary, sent>>

StopScheduler ==
  /\ stage' = "off" /\ left' = 0
  /\ calm' = FALSE
  /\ UNCHANGED <<clock, toTick, tick, lastSent, daily_summary, sent, starts>>

SchedulerStep ==
  \/ Advance \/ deleteDueAlerts \/ Deleted \/ Summary \/ Sent \/ SetDailySummaryTime

SchedulerTypeOK ==
  /\ clock \in 0..(Horizon - 1)
  /\ toTick \in 1..Ticker /\ tick \in BOOLEAN
  /\ stage \in {"off", "wait", "delete", "check", "send"}
  /\ left \in 0..1
  /\ lastSent \in {Never} \cup 0..Today
  /\ daily_summary \in Never..(Minutes - 1)
  /\ sent \in Nat /\ starts \in 0..MaxStarts /\ calm \in BOOLEAN

-----------------------------------------------------------------------------
(* Properties.                                                             *)

(* On a calm day the summary goes out once, in its minute: however long    *)
(* Telegram takes, no minute passes between two looks at the clock         *)
(* (RunScheduler: its ticker, its timeouts and lastSent).                  *)
SummaryOnce ==
  calm => /\ sent <= 1
          /\ (daily_summary # Never /\ hhmm > daily_summary) => sent = 1

(* A process sends no more than one summary a day, whatever time it is     *)
(* told meanwhile (lastSent); only a restart makes it a second.            *)
OncePerProcess == sent <= starts
=============================================================================
