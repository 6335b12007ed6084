------------------------------- MODULE History -------------------------------
(***************************************************************************)
(* The history tables of internal/store: "current", "daily" and "samples", *)
(* written by the poller (PollWrite, then ConsolidateByName, which reads   *)
(* the rows and merges them one transaction at a time) and emptied by the  *)
(* bot (DeleteServer, which drops the errors of its statements) between any*)
(* two of those transactions.  A crash can stop a consolidation half way.  *)
(*                                                                         *)
(* Here the tables hold what the page counts: the latency columns are left *)
(* out, and the samples of one server at one second are one.  The outages  *)
(* the poller filters never reach PollWrite, so any listing may be written.*)
(***************************************************************************)
EXTENDS Naturals, FiniteSets

CONSTANTS
  Sids, NameOf, GrpOf, NoGrp, Listings,  \* as in Poller
  MaxTime,      \* bound: the clock, in ticks
  DayLen,       \* ticks in a day
  MaxPolls,     \* bound: cycles written
  PollInterval, \* in ticks
  StaleAfter,   \* StaleAfterHours, in ticks; 0 turns the cleaning off
  KeepDays,     \* days "daily" keeps
  KeepSamples,  \* ticks "samples" keeps
  Failing       \* the sets of DELETEs of one deletion that may fail, <<table, server>>

ASSUME HistoryAssumption ==
  /\ IsFiniteSet(Sids) /\ Listings \subseteq SUBSET Sids
  /\ {} \in Failing /\ Failing \subseteq SUBSET ({"current", "daily", "samples"} \X Sids)
  /\ MaxTime \in Nat \ {0} /\ DayLen \in Nat \ {0} /\ MaxPolls \in Nat
  /\ PollInterval \in Nat /\ StaleAfter \in Nat /\ KeepDays \in Nat /\ KeepSamples \in Nat

Times    == 1..MaxTime
dayOf(t) == t \div DayLen
Days     == {dayOf(t) : t \in Times}
Names    == {NameOf[s] : s \in Sids}

VARIABLES
  now,      \* the clock
  online,   \* "current": the online column, "none" for no row
  ts,       \* "current": when the row was written, 0 for no row
  daily,    \* "daily": the counters of each server and day
  samples,  \* "samples": when each server has a sample
  at,       \* "idle", "written" or "merging": where the cycle stands
  lastPoll, \* the "now" of the cycle
  merges,   \* the pairs <<from, to>> the consolidation has still to merge
  polls,    \* cycles written so far
  lately    \* history: the servers of the last answer, without those deleted since

tables == <<online, ts, daily, samples>>
vars   == <<now, tables, at, lastPoll, merges, polls, lately>>

NoCount    == [up |-> 0, down |-> 0, conf |-> 0]
NoDays     == [d \in Days |-> NoCount]
Plus(a, b) == [up |-> a.up + b.up, down |-> a.down + b.down, conf |-> a.conf + b.conf]

TypeOK ==
  /\ now \in Times /\ lastPoll \in Times
  /\ online \in [Sids -> {"none", "up", "down"}]
  /\ ts \in [Sids -> Times \cup {0}]
  /\ daily \in [Sids -> [Days -> [up : Nat, down : Nat, conf : Nat]]]
  /\ samples \in [Sids -> SUBSET Times]
  /\ at \in {"idle", "written", "merging"}
  /\ merges \subseteq Sids \X Sids
  /\ polls \in Nat
  /\ lately \subseteq Sids

Init ==
  /\ now = 1 /\ lastPoll = 1
  /\ online = [s \in Sids |-> "none"]
  /\ ts = [s \in Sids |-> 0]
  /\ daily = [s \in Sids |-> NoDays]
  /\ samples = [s \in Sids |-> {}]
  /\ at = "idle"
  /\ merges = {}
  /\ polls = 0
  /\ lately = {}

Rows == {s \in Sids : online[s] # "none"}

(* Mutant: the table has no place for a deleted server any more.           *)
Without_place(f, gone, none) == [s \in Sids \ gone |-> f[s]]
(* Table f without the rows of the servers gone.                           *)
Without(f, gone, none) == [s \in Sids |-> IF s \in gone THEN none ELSE f[s]]

-----------------------------------------------------------------------------
(* What a cycle adds to a listed server's day: a down counts as confirmed  *)
(* when the row before it is a down no older than two intervals.           *)
Confirmed(s) == online[s] = "down" /\ now - ts[s] <= 2 * PollInterval
(* Mutant: confirmed whatever the new reading is.                          *)
Reading_any(s, up) ==
  [up   |-> IF s \in up THEN 1 ELSE 0,
   down |-> IF s \in up THEN 0 ELSE 1,
   conf |-> IF Confirmed(s) THEN 1 ELSE 0]
Reading(s, up) ==
  [up   |-> IF s \in up THEN 1 ELSE 0,
   down |-> IF s \in up THEN 0 ELSE 1,
   conf |-> IF s \notin up /\ Confirmed(s) THEN 1 ELSE 0]

(* The servers of the names all of whose rows are older than the limit.    *)
Ghosts(listed) ==
  IF listed = {} \/ StaleAfter = 0 THEN {}
  ELSE {s \in Rows : \A t \in Rows \cup listed :
          NameOf[t] = NameOf[s] => t \notin listed /\ ts[t] + StaleAfter < now}

Retained(days) == [d \in Days |-> IF d + KeepDays >= dayOf(now) THEN days[d] ELSE NoCount]
AddToday(days, c) == [days EXCEPT ![dayOf(now)] = Plus(@, c)]

(* One transaction: rows, day counters and samples of the listed servers,  *)
(* the ghosts out of all three tables, the retention.                      *)
PollWrite(listed, up) ==
  /\ at = "idle" /\ polls < MaxPolls
  /\ LET gone == Ghosts(listed) IN
     /\ online' = Without([s \in Sids |-> IF s \notin listed THEN online[s]
                                          ELSE IF s \in up THEN "up" ELSE "down"], gone, "none")
     /\ ts' = Without([s \in Sids |-> IF s \in listed THEN now ELSE ts[s]], gone, 0)
     /\ daily' = Without([s \in Sids |->
                   Retained(IF s \in listed THEN AddToday(daily[s], Reading(s, up))
                            ELSE daily[s])], gone, NoDays)
     /\ samples' = Without([s \in Sids |->
                     {t \in samples[s] \cup (IF s \in listed THEN {now} ELSE {}) :
                        t + KeepSamples >= now}], gone, {})
  /\ lastPoll' = now
  /\ at' = "written"
  /\ polls' = polls + 1
  /\ lately' = listed
  /\ UNCHANGED <<now, merges>>

(* ConsolidateByName looks at the rows once: of the servers of one name a  *)
(* most recent one stays, with those this cycle wrote.                     *)
Newest(s) == \A t \in Rows : NameOf[t] = NameOf[s] => ts[t] <= ts[s]
(* Mutant: rows the cycle has just written are merged too.                 *)
ReadMerges_active ==
  /\ at = "written"
  /\ \E canon \in [Names -> Sids] :
       /\ \A s \in Rows : LET c == canon[NameOf[s]] IN
            c \in Rows /\ NameOf[c] = NameOf[s] /\ Newest(c)
       /\ merges' = {<<s, canon[NameOf[s]]>> :
                       s \in {r \in Rows : r # canon[NameOf[r]] /\ ts[r] <= lastPoll}}
  /\ at' = "merging"
  /\ UNCHANGED <<now, tables, lastPoll, polls, lately>>
ReadMerges ==
  /\ at = "written"
  /\ \E canon \in [Names -> Sids] :
       /\ \A s \in Rows : LET c == canon[NameOf[s]] IN
            c \in Rows /\ NameOf[c] = NameOf[s] /\ Newest(c)
       /\ merges' = {<<s, canon[NameOf[s]]>> :
                       s \in {r \in Rows : r # canon[NameOf[r]] /\ ts[r] < lastPoll}}
  /\ at' = "merging"
  /\ UNCHANGED <<now, tables, lastPoll, polls, lately>>

(* Mutant: the day of "to" is replaced and not added to.                   *)
MergeSid_replaces(from, to) ==
  /\ at = "merging" /\ <<from, to>> \in merges
  /\ daily' = [daily EXCEPT ![to] = daily[from], ![from] = NoDays]
  /\ samples' = [samples EXCEPT ![to] = @ \cup samples[from], ![from] = {}]
  /\ online' = [online EXCEPT ![from] = "none"]
  /\ ts' = [ts EXCEPT ![from] = 0]
  /\ merges' = merges \ {<<from, to>>}
  /\ UNCHANGED <<now, at, lastPoll, polls, lately>>
(* One merge is one transaction, and does not look whether "to" is there.  *)
MergeSid(from, to) ==
  /\ at = "merging" /\ <<from, to>> \in merges
  /\ daily' = [daily EXCEPT ![to] = [d \in Days |-> Plus(@[d], daily[from][d])],
                            ![from] = NoDays]
  /\ samples' = [samples EXCEPT ![to] = @ \cup samples[from], ![from] = {}]
  /\ online' = [online EXCEPT ![from] = "none"]
  /\ ts' = [ts EXCEPT ![from] = 0]
  /\ merges' = merges \ {<<from, to>>}
  /\ UNCHANGED <<now, at, lastPoll, polls, lately>>

(* The cycle ends: all is merged, a merge failed, or the process crashed.  *)
EndMerge ==
  /\ at # "idle"
  /\ at' = "idle"
  /\ merges' = {}
  /\ UNCHANGED <<now, tables, lastPoll, polls, lately>>

(* The bot's delete button: the servers of its name, and of its balancer.  *)
Doomed(s) ==
  {t \in Rows : NameOf[t] = NameOf[s] \/ (GrpOf[s] # NoGrp /\ GrpOf[t] = GrpOf[s])}
(* The rows of a table it takes: the error of a DELETE is dropped, and the *)
(* transaction committed without it.                                       *)
Taken(s, table, failed) == {t \in Doomed(s) : <<table, t>> \notin failed}

(* Mutant: only the row of the server is deleted, and not its days.        *)
DeleteServer_row(s, failed) ==
  /\ s \in Rows
  /\ online' = Without(online, Taken(s, "current", failed), "none")
  /\ ts' = Without(ts, Taken(s, "current", failed), 0)
  /\ lately' = lately \ Taken(s, "current", failed)
  /\ UNCHANGED <<now, daily, samples, at, lastPoll, merges, polls>>
DeleteServer(s, failed) ==
  /\ s \in Rows
  /\ online' = Without(online, Taken(s, "current", failed), "none")
  /\ ts' = Without(ts, Taken(s, "current", failed), 0)
  /\ daily' = Without(daily, Taken(s, "daily", failed), NoDays)
  /\ samples' = Without(samples, Taken(s, "samples", failed), {})
  /\ lately' = lately \ Taken(s, "current", failed)
  /\ UNCHANGED <<now, at, lastPoll, merges, polls>>

Tick ==
  /\ now < MaxTime
  /\ now' = now + 1
  /\ UNCHANGED <<tables, at, lastPoll, merges, polls, lately>>

Next ==
  \/ \E listed \in Listings : \E up \in SUBSET listed : PollWrite(listed, up)
  \/ ReadMerges
  \/ \E from, to \in Sids : MergeSid(from, to)
  \/ EndMerge
  \/ \E s \in Sids, failed \in Failing : DeleteServer(s, failed)
  \/ Tick

Spec == Init /\ [][Next]_vars

-----------------------------------------------------------------------------
(* Properties.                                                             *)

(* No day has more confirmed downs than downs, however it was merged.      *)
ConfirmedAreDowns ==
  \A s \in Sids, d \in Days : daily[s][d].conf <= daily[s][d].down

(* Two servers of one name that the last answer lists are two: neither is  *)
(* merged into the other or cleaned away, even when answers come within a  *)
(* tick and the row that stays is of the answer before; and a finished     *)
(* consolidation leaves one row of a name, or rows of that tick only       *)
(* (ConsolidateByName).                                                    *)
ListedAreKept ==
  /\ lately \subseteq Rows
  /\ (at = "merging" /\ merges = {}) =>
       \A s, t \in Rows : (s # t /\ NameOf[s] = NameOf[t]) => ts[s] = lastPoll
=============================================================================
