# A formal model of xray-checker-statuspage

TLA+ specifications of the status page in this repository, the TLC configurations that
check them on small instances, and TLAPS proofs of what matters most for every instance.
The program polls an [xray-checker](../src/README.md), keeps the history of every
server, shows it on a page, and sends its admins Telegram alerts.

Run everything from this directory: `tlc -workers 2 -config X.cfg M` for a run of
`PROJECT.json`, `tlapm MProofs.tla` for the proofs of module `M`.

## 1. Inventory

One process. `cmd/statuspage/main.go` opens the database and starts these goroutines:
the poller's loop, the bot's long poll (one goroutine per update), the bot's scheduler,
the public web server (listeners of the web controller), the internal web server, and
main itself, which waits for a signal.

| Component (package) | State it keeps | Operations | Talks to |
|---|---|---|---|
| **poller** (`internal/poller`) | `prev` (anti-flap counters), `downStreak` (outage filter), `pingHigh`; all under `Poller.mu` | `pollOnce`: fetch, mask, filter, transitions, write, consolidate, announce, ping; `RunOnce` from the bot's button | checker client, store, and the bot through `onEvent` |
| **checker client** (`internal/checker`) | none | `Fetch`: three attempts | the checker over HTTP |
| **store: history** (`internal/store/write.go`, `consolidate.go`) | tables `current`, `daily`, `samples` | `PollWrite`, `ConsolidateByName`/`mergeSid`, `DeleteServer`, reads | poller writes, bot deletes, page reads |
| **store: settings** (`settings.go`, `muted.go`, `aliases.go`, ...) | tables `settings`, `muted`, `aliases`, `hidden` | one-row reads and writes | everyone |
| **store: incidents, maintenance** (`incidents.go`) | tables `incidents`, `incident_updates`, `maintenance` | create, set status, add to the feed, resolve; windows | bot writes; poller, bot and page read |
| **store: subscriptions** (`subscription.go`, `secrets.go`) | encrypted lists in `secrets` | read, append, remove by index | bot, subscription proxy |
| **bot: alerts** (`bot.go` `HandleEvent`, `sendAlert`) | `lastDown`; rows of `alert_msgs` | filter an event, send it to the chats | called by the poller inside its lock |
| **bot: scheduler** (`bot.go` `RunScheduler`) | `lastSent` | daily summary, deletion of old alerts | store, Telegram |
| **bot: dialogs** (`onUpdate`, `onCallback`, `handleAwait`, the menus) | `bot_state` per admin | menus; one awaited answer per admin | store, web controller, updater, poller |
| **web controller** (`internal/webctl`) | `servers`, `running`, the probe's cache; setting `web_enabled` | `Start`, `Stop`, `Shutdown`, `Probe` | `net/http`, store |
| **web pages** (`internal/web`) | none | render | summary, store |
| **subscription proxy** (`internal/web/sub.go`, `internal/sub`) | none | fetch several subscriptions and merge them | store, the network |
| **summary** (`internal/summary`) | none | group servers, colour days, uptime | store |
| **updater** (`internal/updater`) | files, the last check | check, download, verify, replace, restart | GitHub, the file system |
| **configuration, secret, geo, version, notify** | none | pure helpers, key file | |

### What is hard about each

* **Poller.** The cycle reads the rows, draws events from them, writes, merges and only
  then hands the events over; the bot deletes rows, opens maintenance windows and flips
  settings in between; each database call can fail on its own; the process can stop
  anywhere. Three memories (the anti-flap counters, the outage counter, the rows of
  `current`) have to agree for an alert to be right, and a server the checker stops
  listing leaves each of them in a different way. *Correct when* no host is called down
  on one bad answer, the last word about a host is the checker's word, and a real outage
  gets written.
* **Alerts.** A fourth memory (`lastDown`) suppresses repetitions; mutes, the alert
  switch, maintenance and lost messages keep it from following the rows. *Correct when*
  a message agrees with the page at the moment it comes, and only repetitions are
  suppressed.
* **History.** A row can be removed by the cleaning, by the retention, by a merge or by
  the admin, each over three tables; a consolidation is many transactions, planned from
  one read. *Correct when* a name's readings are neither lost nor counted twice, nothing
  is left of a server without a row, and two servers the checker lists under one name
  stay two.
* **Web controller.** Buttons run in goroutines of their own, `Stop` gives the lock up
  before it closes and saves, listeners come to `Serve` on their own. *Correct when* no
  listener is lost, a stopped server frees its ports, every command ends, and a restart
  brings back what there was.
* **Subscriptions, incidents.** Read, change and write back without a lock or a
  transaction; indices and ids from menus that may be old; a status and its entry in the
  feed are two writes, and either may fail unseen. *Correct when* a change is not lost
  and a title opens one incident.
* **Subscription proxy, summary, page.** Several panels answer in different forms, or
  with error pages; names have to be told apart for the checker and be one for the
  visitor; the page is four reads with polls and buttons between. *Correct when* nothing
  fetched is lost, a server is shown once and hidden by its own button, and panel,
  totals and page agree.
* **Dialogs.** One row per admin says what the next message means, every update runs in
  a goroutine of its own, buttons of old menus stay pressable, and the errors of the
  writes are dropped. *Correct when* an answer is taken for the question it answers.
* **Scheduler, updater.** At most once and at least once, across restarts; calls of
  Telegram that last longer than a tick; a replacement in two renames, from several
  presses at once. *Correct when* a summary is sent once a day, only a verified build is
  installed, and an executable is never lost.

Every one of these has an entry with its line under `hazards` of `PROJECT.json`, with
the properties that are aimed at it, or a note saying why there is none.

## 2. Modules

| Module | Models | EXTENDS / uses |
|---|---|---|
| `Poller` | the polling cycle over table `current`, with the bot's menus acting between its steps | |
| `MCPoller` | instances of it | `Poller` |
| `PollerProofs` | type correctness and `NoFlapAlert` proved; `HeardIsTruth` too, of a checker that lists hosts whole | `Poller`, `TLAPS` |
| `Alerts` | the poller together with `Bot.HandleEvent` | `Poller`, `Notices` |
| `Notices` | abstract: what alerts promise a reader | |
| `MCAlerts` | instances | `Alerts` |
| `AlertsProofs` | the refinement `Alerts` => `Notices`, `DroppedWereHeard` and `OutageBracketed` proved | `Alerts`, `PollerProofs` |
| `History` | the three history tables, PollWrite, the consolidation, deletion | |
| `Ledger` | abstract: the exact book of a *name*, made of the answers and the deletions alone | |
| `HistoryBook` | `History` and `Ledger` side by side, and what they must agree on | `History`, `Ledger` |
| `MCHistory` | instances | `HistoryBook` |
| `HistoryProofs` | type correctness, `HistoryIsKept`, `NoOrphans`, `ConfirmedAreDowns` and `ListedAreKept` proved | `HistoryBook`, `Induction` |
| `WebCtl`, `MCWebCtl` | the web controller and its callers | |
| `WebCtlProofs` | type correctness, `RunningListens`, `NoLeak` and `SavedIsState` proved | `WebCtl`, `TLAPS` |
| `DialogProofs` | the properties of `Dialog` proved | `Dialog`, `TLAPS` |
| `Dialog`, `MCDialog` | the bot's dialogs, with the tables they write | |
| `Feed` | the answer of `/sub` and the diagnosis, as functions of what the panels sent | |
| `Site` | from the answer of `/sub` through the checker, the tables and the admin's buttons to the page | `Feed` |
| `MCSite` | instances of it | `Site` |
| `SiteProofs` | all that `site` checks proved | `Site`, `Induction` |
| `Induction` | least members of finite sets and of sets of numbers; what folds and sums over finite sets are | `TLAPS` |
| `Updater` | the executable that replaces itself | |
| `Scheduler` | the ticker, the deletion of alerts and the daily summary | |
| `Upkeep`, `MCUpkeep` | the two in one process | `Updater`, `Scheduler` |
| `UpkeepProofs` | all safety properties of `Upkeep` proved | `Upkeep`, `TLAPS` |

An operator `X_word` under a comment that begins "Mutant:" is a bug one could make in
`X`. No specification uses it: `PROJECT.json` names it under `mutants`, and with it in
the place of `X` the property named there fails. It says that the property does depend
on that line of the code.

### Poller

`at` says where in `pollOnce` the cycle is; a step of the model is what the code does
between two uses of the database or two calls of `onEvent`:

| `at` before | action | code |
|---|---|---|
| `idle` | `FetchAnswer` | lock, `Fetch`, the anti-flap mask, the outage decision |
| (`pending` not empty) | `Emit` | one `onEvent` |
| `outage` | `Detect` | `detectTransitions`, which reads `current` |
| `write` | `PollWrite`, `PollWriteFails` | the write transaction with its cleaning |
| `merge` | `ConsolidateByName` | the merges, all or some |
| `maint` | `Announce` | `MaintenanceNames`, the filter |
| `ping` | `DetectPing` | threshold and ping events |
| `last` | `Return` | unlock |

`Restart`, `ChangeSettings` and `DeleteServer` are possible at any of them. `downStreak`
is the code's `prev[sid]` counter of offline cycles, cut at two because the code only
compares it with two; `streak` is its `downStreak`, cut the same way. A latency is one
of "ok", "slow" (above the threshold) and "nolat" (zero, which is not timed). The
variables `heard`, `prevOff` and `prevAllOff` are history: no action reads them.
`AllOff` is the outage condition
without the counters: of the servers that were offline in this answer and in the one before.

Abstractions: a stable id keeps its name and its group; times are ages relative to the
cycle's "now", read once per cycle by the code; `Fetch`'s three attempts are one that
answers or changes nothing (then nothing happens, which is a stuttering step); the
setting of the cleaning, read at the beginning of the cycle, is read at its write; a
failing read of the maintenance windows is left out (the code then silences nothing).
Servers the code skips for want of a stable id are not in an answer. An offline answer
has no latency; the code would time one that has, while its server is masked online.

### Alerts and Notices

`Deliver` is `Emit` and `Bot.HandleEvent` in one step, which they are: the poller calls
the bot and waits. `lastDown` is the bot's map; `chat` is a history variable, the last
message of each topic that arrived. Several chats get the same messages and are one.
`passed` is history too: the hosts of which `lastDown` does not tell the last event,
because it was silenced or because another host of the same name was heard by since.
`Notices` has a page and a reader, who may be told of a host only what the page shows at
that moment; its refinement mapping takes the page from the rows, grouped as
`internal/summary` groups them, and the reader's belief from `chat`.

### History and Ledger

`daily` and `samples` with the counters the page uses. The consolidation is `ReadMerges`
(one read), `MergeSid` (a transaction each) and `EndMerge` (done, failed or crashed),
and `DeleteServer` and the clock go on in between. A deletion is a transaction that
drops the error of each `DELETE` and commits the others (`write.go:200-211`): `failed`
is the set of those that fail. `lately` is history, the servers of the last answer
without those deleted since.

`Ledger` is a book that knows no ids: an answer adds to each name it lists exactly what
it says of it and lets a name fall that was unseen for too long, days are kept for as
long as they are kept, a deletion wipes a name. `HistoryBook` keeps it in step with
`History` (`BookSpec`): the answers and the deletions are steps of both, the merges, the
end of a cycle and the clock of `History` alone. `HistoryIsKept` is that the counters of
the servers of a name add up to the book, exactly: a reading lost, kept twice, put on
another day or under another name breaks it. A deletion can take a *part* of a name
(another server of the name is outside the balancer, or a `DELETE` failed); the book
keeps such a name whole and has it in `partly`, and what the tables hold is then at most
the book's.

### WebCtl

Each goroutine that runs a command has a program counter; `holder` is `Controller.mu`
where the code keeps it over several steps. `bound`, `serving` and `shut` are the part
of `net/http` that matters: `Shutdown` closes the listener of a server that is in
`Serve`, and `Serve` on a server that was shut down closes its listener and returns.
`Order` is a button; "domain" is the restart after a new domain was typed, which asks
`Running` first. `Enabled` is main's reading of the setting at boot, a step of its own,
since the bot and its buttons are there before it (`main.go:87-97`). `Elsewhere` is
another program that takes or frees a port. `kept` is history: as what the last process
left the pages, "up" or "down", or "open" where there is nothing to hold it to.

### Dialog

A handler (`onUpdate`, `onCallback`, `handleAwait` with the menu it leads to) is the
list of database calls it has still to make, `job[h].todo`, and what it has read;
`Press`, `Send` and `Command` start one, and each other action is one call of
`internal/store`. So handlers interleave at every call, as the goroutines of the
Telegram library do, those of one admin like those of two. `WriteFails` is any of the
writes: the callers drop the error (`bot.go:504`, `incident_menu.go:154-159,197,204`),
so the handler goes on with the old state; only an incident that could not be created or
found has no entry in its feed. `Restart` drops the handlers and keeps the tables.
`SetStatus` and `AddFeed` are the two writes of `AddIncidentUpdate`; the entry written
last is the newest of a feed. A text is sent once and carries one link.

Six variables are history, and say where a property makes an exception: `sent` and
`wanted` (what each text was sent in answer to, and what each admin was asked last),
`astray` (admins two of whose handlers ran at once, one of whose handlers a restart cut
off or whose dialog state could not be written, *until* a button or a command finds them
idle), `doubtful` (texts whose handlers ran while their author was astray), `doubled`
(titles read while their author was opening another, or left behind when they had been
opened) and `clashed` (two changes of the list of links at once).

Left out: the severity and the affected hosts of an incident, the time it was resolved,
the number of the message to repaint, pages of menus, the favicon, the slash commands
that write (`/set`, `/incident`), and failing reads but the links'.

### Feed and Site

`Feed` has no variables. A body is its form (a JSON array, an envelope, an object,
broken JSON, share links, nothing) and the servers in it; base64 and percent-encoding
are read away. `sub` is the handler of `/sub` with `FilterJSON` and `Merge`, `verdict`
the bot's diagnosis with the order of its lines. A name is a sequence of remark, tag and
node, so that adding and stripping a tag are what they do and not the identity.

`Site` puts it into the system. `GetSub` is the checker asking for its subscription:
each panel answers with one of the bodies it may answer with, and the checker lists the
nodes of what it is served (the checker is external; how it names the nodes of a
balancer is taken from the comments in `write.go`). `Poll` and `ConsolidateByName` are
the writes of the cycle, `handleVisCallback` and `AddMaintenance` the admin's buttons,
which carry the name of a row. A visitor's request is a step per read: `CurrentRows`,
`DailyRows`, `HiddenSet`, and `summary`, which reads the last poll and the maintenance
and answers. `Page` is `BuildSummary` of what has been read; `dayPayload` is the day a
visitor opens from a tile. `summary` has three of the code's reads in one step (the last
poll, the names in maintenance, the windows), and `handleVisCallback` its read and its
write. One day passes; latencies and labels are left out. What the cycle does besides is
in `Poller` and `History`. `answer`, `hid` and `steady` are history variables. A row
carries the place of its server in the answer it was written of (`seq`), by which the
page chooses the row that names a tile; the checker lists a node once.

### Updater, Scheduler and Upkeep

A press of the update button or of the restart button is a job; its steps are the path
of the executable (`Apply`), the download, the checksum, the removal of the old backup,
the two renames, the way back, the clean-up, the setting `restart_notify`, and the exec.
Each that the code lets fail can fail, the way back included (`RollBack`, whose error
`updater.go:221` drops), and each can be the last of the process (`Crash`), after which
docker starts it again from the entry point if there is an executable (`Boot`). `Junk`
is a file that is an ELF and no build. The file is a build's number, `published` the
latest; the checksum is that of the latest at the time it is fetched.

`disk[n]` is the file at the entry point's path with n times ".old" behind it, and
`image` where the process's own file is now: Linux has `/proc/self/exe` follow a rename,
so after a way back that failed the process calls the `.old` file its own, and its next
update replaces *that* one. `astray` remembers that a process died between the renames,
that a way back failed, or that the process was not started from the entry point. The
process's confirmation of `restart_notify` is part of its start; `Run` deletes it after
it has edited the message, and drops the error (`bot.go:128-133`), as `startUpdate`
drops that of writing it: neither is modelled.

`Scheduler` counts time in units of 15 seconds: the ticker's 30 seconds and the
deletions' timeout of 15 are multiples, the summary's 10 seconds (`bot.go:450`) are
rounded up to one. `Advance` lets a unit pass where the scheduler waits for the ticker
or for Telegram, which answers any time before its timeout; every other step takes no
time. A tick that comes while it is busy waits in the channel, one at most. `calm`
remembers that no process ended today and that the setting could be read and was left
alone.

`Upkeep` is both: `reexec` and `Crash` end the scheduler's process too, and a new one
has an empty memory of what it sent.

## 3. Runs

| Run | Question | Answer |
|---|---|---|
| `alerts_faults` | With twins, every fault, deletion and setting: can a host be called down on one bad answer, are only repetitions dropped, is an outage announced only with the third answer of it and the all-clear only after an outage? | no; yes; yes (`NoFlapAlert`, `OnlyRepeatsDropped`, `OutageBracketed`) |
| `poller_lost_up` | Is the recovery of a balancer announced? | **not** when a node is no longer listed (`RecoveryIsHeard`) |
| `alerts_true` | Does every message agree with the page, with mutes, faults, crashes and lost messages, and what is dropped as a repetition that is none? | yes (`MessagesAreTrue`, a refinement); only what follows a silenced event, or another host's of the name (`DroppedWereHeard`) |
| `alerts_live` | With nothing failing: is the last event of a host the truth, is a lasting outage written, is a lasting state told? | yes, for hosts listed whole (`HeardIsTruth`, `OutageIsWritten`, and `PromiseKept`, the same refinement with fairness) |
| `alerts_swallowed` | Are only repetitions dropped, with mutes? | **no** |
| `history` | Is of every name exactly what the answers said kept, through merges, deletions that fail in part, cleaning, crashes; are the counters consistent; are listed twins kept? | yes (`NoOrphans`, `HistoryIsKept`, `ConfirmedAreDowns`, `ListedAreKept`) |
| `web_controller` | Is a listener ever lost, or a running server without one? Does every command end, does a stopped server free its ports, does a restart bring back what there was? | all is well, where commands do not overlap or are cut off (`RunningListens`, `NoLeak`, `CommandsEnd`, `StoppedFreesPorts`, `SavedIsState`) |
| `dialog` | Is an answer taken for the question it answers, a title for one incident, and is no link lost, with two admins, two handlers of any of them at once, failing writes and restarts? | yes, with the exceptions each names (`AnswersFit`, `AskedIsAwaited`, `OneIncidentPerTitle`, `LinksStay`) |
| `dialog_overwritten` | The last of these with two messages of one admin at once | **no** (`NotOverwritten`) |
| `site` | Does the checker get all that was fetched, under names of its own; is the diagnosis right; do page, totals and panel agree with the polls and the buttons? | yes (`ListsWhole`, `NamesApart`, `DiagnosisAgrees`, `PageShowsListed`, `HiddenOneByOne`, `PanelAgrees`) |
| `site_day` | Is the day opened from a tile the day of that tile? | **not** of a balancer (`DayIsTile`) |
| `upkeep` | Is only a verified build installed, the executable never lost, the confirmation true, the summary sent once? | yes, where presses do not overlap, on calm days, and but for a death or a failed way back between the renames (`VerifiedOnly`, `NeverLost`, `DoneIsTrue`, `SummaryOnce`, `OncePerProcess`) |

The answers in bold are runs that expect a violation; each is a finding of
`PROJECT.json`, with the line of the code or of the README it disagrees with.

Other disagreements the models show, without a run of their own:

* `lastDown` is keyed by the bare name (`bot.go:371`), so a balancer and a server of one
  name share an entry, though `groupKey` keeps them apart: an alert of one is dropped
  after the same alert of the other, and is never sent. With such names in an instance
  `OnlyRepeatsDropped` and `PromiseKept` fail.
* A server that was called down, is left out of one answer and comes back still offline
  is announced as *restored*: the mask starts anew (`poller.go:117-137`) and takes its
  first offline cycle for online.
* *Connection restored* (`global_cleared`) is announced on an answer that lists no
  server, since such an answer is not "all down" (`poller.go:159`).
* A host whose ping is high and which is offline for a cycle is reported high a second
  time: `poller.go:269` keeps the marks of the hosts timed in this cycle.
* A `Stop` that a `Start` overtakes stores "0" after it (`webctl.go:139`), and the
  server runs, stored as stopped. `SavedIsState` excepts commands that overlap.
* A `Start` begins with a `Stop`, which stores "0" (`webctl.go:42-43,65`): if the
  process ends in it (in the one of the boot, too), or the port is taken, the page stays
  down after every later boot, though nobody stopped it. `SavedIsState` has `kept =
  "open"` there.
* Two updates of one admin at once: the links' handler awaits the next one
  (`bot.go:504`) after a button pressed meanwhile has cancelled the question, and the
  next message is stored as a link, against the comment at `bot.go:274-275`; two rename
  buttons can leave the host of one with the question of the other. `AskedIsAwaited` and
  `AnswersFit` except them, and have it that the next button or command that finds the
  admin idle puts all right.
* A double tap on "create" reads the title twice before either tap deletes it
  (`incident_menu.go:143,154,157`) and opens two incidents of it; so does a second tap
  when the deletion failed or a restart came before it. `OneIncidentPerTitle` excepts
  these (`doubled`) and only these.
* A status is set and its entry in the feed is lost (`incidents.go:76-79`, an error that
  `incident_menu.go:197,204` drops), or two updates of one incident write their entries
  in the other order: the feed then tells another status than the incident has, for
  good. There is no property about the feed: one that excepts the lost entry, the
  restart and the overlap says nothing that the two lines do not.
* With "read" in `Faults`, a list of links that cannot be read or decrypted reads as
  empty (`subscription.go:19-25`), and the next link sent replaces it.
* A link is removed by its place in the menu (`sub_menu.go`): that of an old menu
  removes another link than the one shown.
* A title typed for an incident outlives the menu it was typed in; an old "create"
  button still opens the incident that was given up. An old status button reopens a
  resolved incident, which keeps its `resolved_ts`. The entries of a feed are ordered by
  seconds (`incidents.go:132`), and two of one second come in any order.
* Two servers of one name that are both missing from one answer are merged
  (`consolidate.go:47`), against `src/README.md:100-102` and `consolidate.go:9-10`,
  which have it that servers of one name stay two.
* A server's name changes between "X" and "X ·#tag" when the only other subscription
  with an "X" cannot be fetched; what was hidden or silenced under the one name is not
  under the other. Names that come in JSON, and links without a remark, are never
  tagged.
* `/sub` takes the body of an error page like any other, while the diagnosis asks for
  status 200; one that looks like JSON turns the answer to JSON and drops all links
  (`web/sub.go:72`, `sub.go:104-129`).
* A request that reads the rows before a poll and the time of the last poll after it
  (`summary.go:58,74`) finds every server absent: an empty page until the next one.
* The downtime of a balancer's day is the mean over its nodes (`summary.go:159`), not
  the time it was offline. The daily summary calls "за сутки" what has been counted
  since midnight, and counts servers under maintenance.
* `SetHidden`, which hides by id, has no caller; hiding is by name.
* Two updates pressed at once: one can find no executable while the other is between its
  renames, and then its exec ends the process; the older download can be the one that
  stays.
* A death between the two renames leaves only the `.old` file, and the container cannot
  start, though `updater.go:195` calls the replacement atomic. A way back that fails
  (`updater.go:221`) does the same unseen: the update is told as failed, the process
  runs on, and the next start of the container finds nothing. Its own restart button
  executes the `.old` file, and an update from there replaces `.old` by way of
  `.old.old`: the entry point is not repaired.
* A restart within the minute of the daily summary sends it twice; one that is down for
  that minute, or a setting that cannot be read in it, means none. Alerts that are due
  are forgotten whether or not Telegram deletes them, which `alertmsgs.go:36-38`
  intends.
* A transition that falls into a maintenance window is dropped and not made good when
  the window ends: `HeardIsTruth` assumes there is none.

### Bounds, and why they are enough

*Servers.* Anti-flap and merging need two servers of one name, grouping needs two nodes,
and a host that is independent of them a third. Every set of them (or every set of whole
hosts) can be an answer, and any reading of each. The poller's state is finite without a
bound on the number of cycles: counters stop at two, ages at `StaleAge + 1`. The runs of
`Poller` and `Alerts` therefore cover behaviours of every length. `GLOBAL_OUTAGE_RATIO`
is 1, its default, as `OutageNum / OutageDen`: with fewer than all servers down
`HeardIsTruth` does not hold, since a host may be seen for the first time, down, inside
a dropped cycle.
*History.* The clock has three ticks and three cycles are written (`MaxTime`,
`MaxPolls`): enough for a day to end, a row to grow stale, and a down, a confirmed down
and a merge of both; the clock may stand between two cycles, so that their rows share a
second. Two ids share a name, one of them in a balancer with the third, so that deleting
that balancer takes a part of the name; of a deletion's statements those of one row in
"current" or in "daily" may fail (`Failing`). 274,541 states, a minute.
*Dialog.* Two admins, two handlers, two hosts, two texts with a link each, three
buttons, commands, failed writes or restarts (`MaxPresses`), one of the statuses: ask,
answer and answer again; ask, go elsewhere and come back; tap twice; ask, be cut off and
ask again. 1,083,041 states up to symmetry, under a minute.
*Web.* Two ports, of which one is mandatory and one is not; the boot and two buttons at
once, on two goroutines (`MaxOrders`); one restart (`MaxRestarts`), at any step of any
of them.
*Site.* Two links of one remark, one in each of two subscriptions, a balancer of two
nodes, an error page that looks like JSON; each panel with every form of answer that the
code tells apart. Two polls on one day (`MaxPolls`): a server appears, goes down, is
confirmed down or leaves and is merged. Two buttons (`MaxMarks`): hide both twins, hide
and show again, hide and open maintenance. `site_day` needs none.
*Upkeep.* Two jobs, two builds, a day of two minutes, two days, two processes a day: two
presses that overlap, or follow each other with a death or a release between; a minute
to hit and one to miss, a midnight. Paths go one ".old" deep (`MaxOld`), so an update of
a process that runs from `.old` ends before it replaces anything; the deeper paths are
in the proof. `UpkeepProofs`, `WebCtlProofs`, `DialogProofs`, `HistoryProofs` and
`SiteProofs` show that safety does not depend on these bounds.

Deadlock is checked in all runs of `Poller` and `Alerts`. The runs of `History` end when
clock and cycles are used up, that of `Upkeep` when its clock has reached its bound,
those of `WebCtl` and `Dialog` when nobody presses a button any more, so their
configurations switch the deadlock check off. In `Site` a visitor can always come.

### Fairness

`Poller.FairSpec`: `Run` polls for as long as the process lives and waits for nothing
but the database and `onEvent`, which return, so weak fairness on a step of the cycle
and on handing over an event. Settings change or not: no fairness.
`Alerts.AlertsFairSpec` is the same with `Deliver` for `Emit`. `WebCtl.FairSpec`:
goroutines run, and Go's `sync.Mutex` hands itself over to one that has waited for more
than a millisecond, so a step that needs `mu` is taken if it is possible again and
again: strong fairness on the steps of a command, weak fairness on the goroutine of a
listener.

## 4. Proofs

`PollerProofs` proves, for any sets of servers, names, groups, listings, any ratio,
faults and settings:

* `TypeCorrect`: `Spec => []TypeOK`.
* `NoFlap`: `Spec => []NoFlapAlert`. `NoFlapAlert` is not inductive: an event drawn by
  `Detect` is about a mask computed steps earlier. The inductive invariant `FlapInv`
  adds `StreakIsAnswers` (a counter of two means offline in this answer and in the one
  before, whatever crash emptied the counters in between) and `EventsInTime` (events
  exist only in the steps between `Detect` and `Return`, so none survives into the next
  answer).

It also proves `HeardTruth`: `Spec => []HeardIsTruth`, assuming `Steady`: a host is
listed whole or not at all (`ListsWhole`), no row is ever removed (`KeepsRows`: names
tell servers apart, the cleaning is off, the admin deletes none), sets are finite, the
outage ratio is at least one, nothing but a merge fails and nobody opens maintenance
windows. Without `ListsWhole` it is false (`poller_lost_up`), without the ratio too (see
the bounds). The inductive invariant `TruthInv` follows the word about a host through
the cycle: before the write the rows of a host agree with what was last said of it
(`Agree`); the events drawn hold one word about each host (`OneWord`), and it is the one
that leads from the rows to the answer; after the write the rows are the answer's
(`Recorded`, `Written`, `WholeReport`). The ratio is where the empty answer and the
answer of all down come together: at one or more no host can be down unseen in a dropped
cycle.

`AlertsProofs` proves `AlertsTypeCorrect` and `TrueMessages`: that `Alerts` implements
`Notices`, assuming `ListsWhole` and `KeepsRows` and *nothing else*: with every failing
call, crash, mute, switch, maintenance window and lost message. Each step of
`AlertsSpec` is shown to be a step of the page, of the reader, or a stutter. The
inductive invariant `FitInv` says that the events still to be delivered fit: up to the
write they agree with the answer, and after it with the rows, so that a message
delivered is true of the page when it comes. It also proves `OnlyRepetitions`, with no
assumption at all: `DroppedWereHeard` of any hosts, names they share, mutes, settings,
crashes and faults. The inductive `Remembered` says that an entry of `lastDown` is what
was last handed over of each host of that name that was not passed by. And
`OutagesBracketed`, with every fault and setting, where no message is lost: `BracketInv`
says that the poller's counter `streak` and the events waiting lead from what the chat
was told last to what comes next, and that the counter speaks of the last answers (`AllOff`): above zero of this one, and
where an outage waits to be announced of the one before, too.

`HistoryProofs` proves, for every value of the constants, `HistoryTypeCorrect`;
`ConfirmedDowns`, that no day of a server counts more confirmed downs than downs; and
`ListedServersKept`: a server of the last answer keeps its row until it is deleted, and
after a finished consolidation the rows of a name that are left are one, or all of the
last answer's second. What makes it more than the guard of `ReadMerges`: the clock may
not have moved since the answer before, so "older than the cycle" and "not listed by it"
are two things, and the row that stays may be of an answer before this one; `KeptInv`
says which rows a pending merge can still take.

`HistoryKept` (`BookSpec => []HistoryIsKept`) and `NothingOrphaned` have one invariant,
`BookInv`. `MergesMatch` says that a pending merge joins two ids of one name, and that
its source has a row only while its target has, *unless* the name is in `partly`: a
deletion drops the ids that share the name or the balancer of the one chosen, so it can
take the target of a merge and leave its source, which is then merged into nothing.
`NewestSeen` says that `seen` is the age of the youngest row of a name, which makes the
ghosts of the cleaning the names the book lets fall. The counters of a name are sums
over its servers (`CountOf`), so each action becomes a fact about sums: a merge moves a
count from one server of the name to another and leaves the sum alone; a poll adds to
the day of a name what the answer says, one reading of each server listed; a deletion
takes whole names, or leaves less of a name than there was.

`Induction` gives the laws of these sums, and of the sequences below. Induction over
finite sets is had from a least counterexample: of a set of subsets of a finite set that
is not empty, one has no other inside it (`SmallestSet`), which the library's theorems
on well-founded orders give. `FoldExists` and `FoldType` say that a fold of the
community modules is a function on finite sets with the equations it ought to have,
`SumStep`, `SumOfSums` and `SumMoved` what that makes of sums.

`UpkeepProofs` proves every property of `Upkeep`, for any number of presses, builds,
minutes in a day, days and restarts. `VerifiedBuilds`: every file past the checksum is a
build, wherever a job carries it (`VerifiedInv`). `ExecutableKept` and `DoneTrue`: as
long as one job runs at a time, where it stands tells at which path the executable is
(`KeptInv`), at any depth of ".old", and the confirmation is promised only by a job that
is about to execute what it promises, or by one that died there (`Promise`).
`OnePerProcess`: a process that has not sent today has a turn left (`ProcessInv`).
`SentOnce` is about time: `UntilLook` is how many units can pass before the scheduler
looks at the clock again, and on a calm day without a summary the units of its minute
that have passed and `UntilLook` are together less than a minute (`SummaryInv`). The
ticker of two units and the timeouts of one make `UntilLook` at most three, so the
minute cannot be jumped over; with a ticker of a minute it can be. `InDay` gives the
arithmetic of days.

`WebCtlProofs` proves `RunningMeansListening`, `NothingLeaks` and `SavedCorrectly` for
any goroutines, ports and orders. The invariant says who holds `mu` (`Mutex`), that what
a Stop is shutting down is no longer the controller's (`Closing`), that what the
controller has or a Start is making is open (`Open`), that the number of a Start is new,
so that its listeners are not among those told to stop (`Numbered`), and that a Start
that got the HTTP port finds the controller empty (`Making`, `Up`): a server that
another Start left there would have the port. `SavedInv` follows one command at a time,
and the boot from what the process before left: as long as nobody presses and no port is
taken it has to end there. `WebTypeCorrect` bounds the number of Starts by the commands
given: it needs the count of the goroutines whose command may still get the lock
(`Pending`), which with the Starts that did is never more than the buttons pressed and
the one of the boot (`Budget`).

`DialogProofs` proves all that `dialog` checks, for any admins, goroutines, hosts,
texts, buttons and presses, however the handlers of any admins overlap, fail to write
and are cut off: `DialogTypeCorrect`, `AnswersAreFit`, `AskedAwaited`, `OneIncident`,
and, while the stored list can be read (`"read" \notin Faults`), `LinksAreKept`. None is
inductive: what is stored fits only because of what the handlers had read before. A
handler's list of calls is one of sixteen stages (`Stage`), and each says what the
record it carries, its admin's row and what he was asked have to do with each other, as
far as its admin is not astray; the lemma of a stage (`PressedStep`, `AnsweredStep`,
...) shows that its next call leads to another stage and keeps the tables, and
`OthersStand` that the other handlers stay in theirs. `Stored` is about the tables,
`LeftAsAsked` about an admin without a handler, `OneEach` says that only an admin who is
astray has two handlers, `Doubted` that their texts are doubtful, and `ChangeAlone` is
about two changes of the list at once. `OneIncident` has an invariant of its own
(`OneOpens`): a title outside `doubled` is in the row of its author, with one handler
that opens it, or opened and in no row (`Unopened`, `BeingClosed`, `OpenedByOne`).

`SiteProofs` proves every property of `site`, for any servers, subscriptions, answers of
panels, polls and buttons. That a fold or `FlattenSeq` over sequences yields what a set
of places says (`Flattened`, `EachOnceLaw`) is by the induction above; the rest is about
sets. `WholeLists`, `NamesToldApart` and `RightDiagnosis` rest on `AnswerInv`: what was
served is `sub` of what was got, and what the checker lists is the listing of some
answer of code 200, maybe of an earlier one. `RightDiagnosis` has each of the four
diagnoses *if and only if* it describes what `/sub` serves, where panels answer with 200
or cannot be reached; another status is reported by the diagnosis and ignored by `/sub`
(see §3). `PanelIsPage` is a fact of `BuildSummary` alone, of finitely many tiles.
`SiteTypeCorrect` has the bound on confirmed downs: a server's first reading of a day
has no row before it to confirm it, and a merge adds counters that each keep the bound
(`RowsInv`). `PageIsListed` proves `PageShowsListed` where servers are told apart
(`ServersApart`: no two have a node in common, no two of several nodes a remark).
Without it a balancer and its namesake are one tile. The invariant `PageInv` has four
parts: a row is of one server and its group has that server's name (`RowsOnly`); the
last poll wrote all nodes of a server under one name, or none, and no merge has taken
one (`FreshWhole`); no sample is younger than its row (`SamplesInv`); and what a request
has read of the last poll, a merge or a button has not changed (`ReadInv`).
`HiddenByPress` proves `HiddenOneByOne` where moreover servers of one remark are links
with a remark and hashes of their own (`TwinsAreLinks`): `Merge` tells only those apart,
as §3 says. `HidingInv`: while the polls list the same servers, all rows are of the last
poll, their names stay the same, and a name is hidden exactly if its server was.
`MCSite` assumes `TwinSetting`, so TLC shows that the servers it checks are told apart
as the two theorems ask.

The assumptions on constants (`PollerAssumption`, `HistoryAssumption`,
`WebCtlAssumption`, `DialogAssumption`, `FeedAssumption`, `SiteAssumption`,
`UpdaterAssumption`, `SchedulerAssumption`) say what kind of values they are and no
more.

Every invariant and every action property that a passing run checks is proved, except
`OnlyRepeatsDropped`, which holds where an admin neither mutes nor switches alerts off
and every name is one host's, and of which `DroppedWereHeard` is the general form. Only
model-checked, because the prover does not do it: liveness, which needs fairness and
ENABLED (`PromiseKept`, `OutageIsWritten`, `CommandsEnd`, `StoppedFreesPorts`).

## 5. Not modelled, and why

* Wording, rendering, translation, geography, version, assets: no state. Configuration:
  read once, a constant of the modules that depend on it.
* `internal/storetest`, dialects, connections, migrations: a transaction is taken as
  atomic, as the databases give it.
* TLS certificates: their failure is an outcome of `ListenMore`.
* `Probe` of the web controller: its answer is kept for five seconds and only shown.
* Latency sums and averages, uptime of more than one day: no control depends on them.
  Daylight saving: a day of the scheduler has one length.
* Encryption of the stored secrets: a read that fails stands for it ("read" in
  `Faults`).
* `/set` and `/incident`, the severity and the affected hosts of incidents, the favicon,
  a proxy dialer: one-shot writes of one row.
* The temporary files of an update that dies.

## 6. Plan

Done in this order, the most important behaviour first: `Poller`, `Alerts` over
`Notices`, `History` over `Ledger`, `WebCtl`, `Dialog`, `Feed` and `Site`, `Updater`,
`Scheduler` and `Upkeep`; proofs of the poller, the alerts, the history, the upkeep, the
web controller, the dialogs and the site. Next:

1. `Alerts` with an outage ratio below one.
2. `Site` over several days, with the retention and the aliases; `Probe` in `WebCtl`.
