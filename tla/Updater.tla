------------------------------ MODULE Updater ------------------------------
(***************************************************************************)
(* The bot replaces its own executable: startUpdate and startRestart of    *)
(* internal/bot/update.go, Apply and ReplaceExecutable of internal/updater.*)
(* Every press of a button starts a goroutine, and nothing keeps two of    *)
(* them apart.  The process can die between any two steps; a container     *)
(* that ends is started again (external) as long as it has an executable.  *)
(* Linux tells a process the path its file has now, so that a process whose*)
(* executable was moved to .old and never back calls that its own.         *)
(* Temporary files that a death leaves behind, and the messages the jobs   *)
(* edit on their way, are left out.                                        *)
(***************************************************************************)
EXTENDS Integers

CONSTANTS
  Jobs,        \* the presses that can be under way at once
  MaxBuilds,   \* bound: the builds published, 1 being the one installed
  MaxOld,      \* bound: how often ".old" can be added to the path
  CheckSha     \* UPDATE_SHA256_URL is set

ASSUME UpdaterAssumption ==
  MaxBuilds \in Nat \ {0} /\ MaxOld \in Nat \ {0} /\ CheckSha \in BOOLEAN /\ "nobody" \notin Jobs

None   == 0
Builds == 1..MaxBuilds
Junk   == MaxBuilds + 1      \* an ELF file that is no build
Files  == Builds \cup {Junk}
Paths  == 0..MaxOld
Nowhere == -1                \* a path that leads to no file

VARIABLES
  published,  \* the latest build, and its checksum
  disk,       \* disk[n]: the file at the container's entry point with n times ".old"
  image,      \* the path of the file the process was started from
  linked,     \* whether that file is still there
  running,    \* what the process was started from, None when it is down
  jobs,       \* where each goroutine stands, what it has fetched, what it replaces
  restart_notify,   \* the message to be confirmed, and what it promised
  overlapped, \* history: two presses were under way at once
  astray      \* history: a process died between the renames, a way back failed, or
              \* the process was not started from the entry point

files   == <<disk, image, linked>>
history == <<overlapped, astray>>
updaterVars == <<published, files, running, jobs, restart_notify, history>>

Idle     == [at |-> "idle", data |-> None, path |-> Nowhere]
NoNotify == [by |-> "nobody", data |-> None]

UpdaterInit ==
  /\ published = 1 /\ running = 1
  /\ disk = [n \in Paths |-> IF n = 0 THEN 1 ELSE None]
  /\ image = 0 /\ linked = TRUE
  /\ jobs = [j \in Jobs |-> Idle]
  /\ restart_notify = NoNotify
  /\ overlapped = FALSE /\ astray = FALSE

Busy == {j \in Jobs : jobs[j] # Idle}

Publish ==
  /\ published < MaxBuilds
  /\ published' = published + 1
  /\ UNCHANGED <<files, running, jobs, restart_notify, history>>

(* os.Remove and os.Rename: the process's own file may be the one concerned.*)
Remove(n) ==
  /\ disk' = [disk EXCEPT ![n] = None]
  /\ linked' = (linked /\ image # n)
  /\ UNCHANGED image
Rename(n, m) ==
  /\ disk[n] # None
  /\ disk' = [disk EXCEPT ![m] = disk[n], ![n] = None]
  /\ image' = IF linked /\ image = n THEN m ELSE image
  /\ linked' = (linked /\ image # m)

-----------------------------------------------------------------------------
Press(j, at) ==
  /\ running # None /\ jobs[j] = Idle
  /\ jobs' = [jobs EXCEPT ![j].at = at]
  /\ overlapped' = (overlapped \/ Busy # {})
  /\ UNCHANGED <<published, files, running, astray>>

(* Mutant: the confirmation is asked for before the update is made.        *)
startUpdate_early(j) ==
  /\ Press(j, "apply")
  /\ restart_notify' = [by |-> j, data |-> published]
startUpdate(j) ==
  /\ Press(j, "apply")
  /\ UNCHANGED restart_notify

(* The confirmation is asked for before the goroutine runs.                *)
startRestart(j) ==
  /\ Press(j, "exec")
  /\ restart_notify' = [by |-> j, data |-> None]

Step(j, from, to) ==
  /\ jobs[j].at = from
  /\ jobs' = [jobs EXCEPT ![j].at = to]
  /\ UNCHANGED <<published, running, restart_notify, history>>

(* A job that fails tells so and ends.                                     *)
Ends(j, from) ==
  /\ jobs[j].at = from
  /\ jobs' = [jobs EXCEPT ![j] = Idle]
  /\ UNCHANGED <<published, running, restart_notify, overlapped>>
Fail(j, from) == Ends(j, from) /\ UNCHANGED <<files, astray>>

(* Apply begins with the path of the executable (os.Executable and         *)
(* EvalSymlinks), whatever file may be there now.                          *)
Apply(j) ==
  /\ jobs[j].at = "apply"
  /\ jobs' = [jobs EXCEPT ![j] = [at |-> "fetch", data |-> None,
                                  path |-> IF disk[image] # None THEN image ELSE Nowhere]]
  /\ UNCHANGED <<published, files, running, restart_notify, history>>

(* Fetch and ValidateELF: a body that is no ELF is as good as none.        *)
Fetch(j) ==
  \/ Fail(j, "fetch")
  \/ \E file \in {published, Junk} :
       /\ jobs[j].at = "fetch"
       /\ jobs' = [jobs EXCEPT ![j] = [at |-> "verify", data |-> file, path |-> @.path]]
       /\ UNCHANGED <<published, files, running, restart_notify, history>>

(* Mutant: a checksum file that cannot be had does no harm.                *)
verifySHA_lenient(j) ==
  \/ Fail(j, "verify")
  \/ Step(j, "verify", "remove") /\ UNCHANGED files
(* The checksum is fetched after the file, and may be of a later build.    *)
verifySHA(j) ==
  \/ CheckSha /\ Fail(j, "verify")
  \/ /\ CheckSha => jobs[j].data = published
     /\ Step(j, "verify", "remove") /\ UNCHANGED files

(* ReplaceExecutable works on the path and on its backup.                  *)
Target(j)  == jobs[j].path
Backup(j)  == jobs[j].path + 1
Replaces(j) == Target(j) \in 0..(MaxOld - 1)

(* The file is written beside the executable, which may fail, and an old   *)
(* backup is removed, if that can be done.                                 *)
RemoveBackup(j) ==
  \/ Fail(j, "remove")
  \/ /\ Step(j, "remove", "away")
     /\ UNCHANGED files \/ (Replaces(j) /\ Remove(Backup(j)))

(* Mutant: the backup is thrown away at once.                              *)
RenameAway_lost(j) ==
  \/ Fail(j, "away")
  \/ Replaces(j) /\ Step(j, "away", "place") /\ disk[Target(j)] # None /\ Remove(Target(j))
(* Without an executable at its place the rename fails.                    *)
RenameAway(j) ==
  \/ Fail(j, "away")
  \/ Replaces(j) /\ Step(j, "away", "place") /\ Rename(Target(j), Backup(j))

RenameIn(j) ==
  \/ Step(j, "place", "undo") /\ UNCHANGED files
  \/ /\ Step(j, "place", "clean")
     /\ disk' = [disk EXCEPT ![Target(j)] = jobs[j].data]
     /\ linked' = (linked /\ image # Target(j))
     /\ UNCHANGED image

(* The way back: that it failed is ignored.                                *)
RollBack(j) ==
  /\ Ends(j, "undo")
  /\ \/ Rename(Backup(j), Target(j)) /\ UNCHANGED astray
     \/ UNCHANGED files /\ astray' = TRUE

CleanUp(j) ==
  /\ Step(j, "clean", "tell")
  /\ UNCHANGED files \/ Remove(Backup(j))

(* The message to confirm replaces one of another press.                   *)
SetRestartNotify(j) ==
  /\ jobs[j].at = "tell"
  /\ jobs' = [jobs EXCEPT ![j].at = "exec"]
  /\ restart_notify' = [by |-> j, data |-> jobs[j].data]
  /\ UNCHANGED <<published, files, running, history>>

-----------------------------------------------------------------------------
(* A process starts from the file at a path, and Run confirms the message  *)
(* it finds.                                                               *)
Start(path) ==
  /\ disk[path] # None
  /\ running' = disk[path]
  /\ image' = path /\ linked' = TRUE
  /\ restart_notify' = NoNotify
  /\ jobs' = [j \in Jobs |-> Idle]
  /\ overlapped' = FALSE /\ astray' = (path # 0)
  /\ UNCHANGED <<published, disk>>

(* The memory of a process that ends is gone, and its goroutines.          *)
End ==
  /\ running' = None
  /\ image' = 0 /\ linked' = FALSE
  /\ jobs' = [j \in Jobs |-> Idle]
  /\ astray' = (astray \/ \E j \in Jobs : jobs[j].at \in {"place", "undo"})
  /\ UNCHANGED <<published, disk, restart_notify, overlapped>>

(* Reexec of what was replaced, or of what the process is told is its own; *)
(* an exit when there is nothing to execute.                               *)
Own(j) == IF jobs[j].data = None THEN image ELSE Target(j)
reexec(j) ==
  /\ jobs[j].at = "exec"
  /\ Start(Own(j)) \/ (disk[Own(j)] = None /\ End)

Crash == running # None /\ End
Boot  == running = None /\ Start(0)

JobStep(j) ==
  \/ startUpdate(j) \/ startRestart(j)
  \/ Apply(j) \/ Fetch(j) \/ verifySHA(j) \/ RemoveBackup(j) \/ RenameAway(j) \/ RenameIn(j)
  \/ RollBack(j) \/ CleanUp(j) \/ SetRestartNotify(j)

UpdaterTypeOK ==
  /\ published \in Builds
  /\ disk \in [Paths -> Files \cup {None}]
  /\ image \in Paths /\ linked \in BOOLEAN
  /\ running \in Files \cup {None}
  /\ jobs \in [Jobs -> [at : {"idle", "apply", "fetch", "verify", "remove", "away", "place",
                              "undo", "clean", "tell", "exec"},
                        data : Files \cup {None}, path : Paths \cup {Nowhere}]]
  /\ restart_notify \in [by : Jobs \cup {"nobody"}, data : Files \cup {None}]
  /\ overlapped \in BOOLEAN /\ astray \in BOOLEAN
  /\ running = None => Busy = {}
=============================================================================
