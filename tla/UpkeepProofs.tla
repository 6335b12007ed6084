---------------------------- MODULE UpkeepProofs ----------------------------
(***************************************************************************)
(* Proofs about Upkeep for every value of its constants: any number of     *)
(* presses, builds, minutes in a day, days and restarts.                   *)
(***************************************************************************)
EXTENDS Upkeep, TLAPS

(* What a step of Upkeep is for each of its two parts.                     *)
UpdaterNext ==
  \/ Publish \/ Crash \/ Boot
  \/ \E j \in Jobs : JobStep(j) \/ reexec(j)
  \/ UNCHANGED updaterVars
SchedulerNext ==
  SchedulerStep \/ RunScheduler \/ StopScheduler \/ UNCHANGED schedulerVars

LEMMA Parts == [Next]_vars => UpdaterNext /\ SchedulerNext
  BY DEF Next, vars, UpdaterNext, SchedulerNext

-----------------------------------------------------------------------------
(* The updater.                                                            *)

(* A job that has fetched a file still holds it, one that has ended holds  *)
(* none, and one that renames has a path within the bound.                 *)
Holding == {"verify", "remove", "away", "place", "undo", "clean", "tell"}
Working == {"place", "undo", "clean", "tell"}
FilesHeld  == \A j \in Jobs : jobs[j].at \in Holding => jobs[j].data \in Files
IdleEmpty  == \A j \in Jobs : jobs[j].at = "idle" => jobs[j] = Idle
PathsHeld  ==
  \A j \in Jobs : (jobs[j].at \in Working \/ (jobs[j].at = "exec" /\ jobs[j].data # None)) => Replaces(j)
UpdaterInv == UpdaterTypeOK /\ FilesHeld /\ IdleEmpty /\ PathsHeld

USE DEF None, Builds, Junk, Files, Idle, NoNotify, Busy, Holding, Working, Nowhere

LEMMA PathNumbers ==
  /\ MaxOld \in Nat /\ 0 \in Paths /\ Paths \subseteq Nat /\ Nowhere \notin Paths
  /\ \A j \in Jobs : Replaces(j) => /\ Target(j) \in Paths /\ Backup(j) \in Paths
                                    /\ Backup(j) # Target(j) /\ Backup(j) # 0
  BY UpdaterAssumption DEF Paths, Replaces, Target, Backup

(* The path of a process's own file, and which file it is, after a rename  *)
(* or a removal.                                                           *)
LEMMA RemoveType ==
  ASSUME UpdaterTypeOK, NEW n \in Paths, Remove(n)
  PROVE  /\ disk' \in [Paths -> Files \cup {None}] /\ image' \in Paths /\ linked' \in BOOLEAN
         /\ \A m \in Paths : disk'[m] = IF m = n THEN None ELSE disk[m]
         /\ image' = image /\ (linked' <=> linked /\ image # n)
  BY DEF Remove, UpdaterTypeOK

LEMMA RenameType ==
  ASSUME UpdaterTypeOK, NEW n \in Paths, NEW m \in Paths, n # m, Rename(n, m)
  PROVE  /\ disk' \in [Paths -> Files \cup {None}] /\ image' \in Paths /\ linked' \in BOOLEAN
         /\ disk[n] # None /\ disk'[m] = disk[n] /\ disk'[n] = None
         /\ \A k \in Paths : k # m /\ k # n => disk'[k] = disk[k]
         /\ image' = (IF linked /\ image = n THEN m ELSE image) /\ (linked' <=> linked /\ image # m)
  BY DEF Rename, UpdaterTypeOK

LEMMA StartType ==
  ASSUME UpdaterInv, NEW path \in Paths, Start(path)
  PROVE  UpdaterInv'
  BY UpdaterAssumption DEF UpdaterInv, UpdaterTypeOK, FilesHeld, IdleEmpty, PathsHeld, Start

LEMMA EndType ==
  ASSUME UpdaterInv, End
  PROVE  UpdaterInv'
  BY UpdaterAssumption, PathNumbers DEF UpdaterInv, UpdaterTypeOK, FilesHeld, IdleEmpty, PathsHeld, End

LEMMA OwnPath ==
  ASSUME UpdaterInv, NEW j \in Jobs, jobs[j].at = "exec"
  PROVE  Own(j) \in Paths
  BY PathNumbers DEF Own, UpdaterInv, UpdaterTypeOK, PathsHeld

(* A job that ends or goes on leaves the others as they are.               *)
LEMMA FailType ==
  ASSUME UpdaterInv, NEW j \in Jobs, NEW from, Fail(j, from)
  PROVE  UpdaterInv'
  BY UpdaterAssumption DEF UpdaterInv, UpdaterTypeOK, FilesHeld, IdleEmpty, PathsHeld, Fail, Ends,
     files, Replaces, Target

LEMMA StepType ==
  ASSUME UpdaterInv, NEW j \in Jobs, NEW from \in Holding,
         NEW to \in {"remove", "away", "place", "undo", "clean", "tell"},
         Step(j, from, to), to \in Working => Replaces(j),
         disk' \in [Paths -> Files \cup {None}], image' \in Paths, linked' \in BOOLEAN
  PROVE  UpdaterInv'
  <1> USE DEF UpdaterInv, UpdaterTypeOK, FilesHeld, IdleEmpty, PathsHeld
  <1>1. /\ jobs[j].at = from /\ jobs' = [jobs EXCEPT ![j].at = to]
        /\ UNCHANGED <<published, running, restart_notify, overlapped, astray>>
    BY DEF Step, history
  <1>2. UpdaterTypeOK'
    BY <1>1
  <1>3. FilesHeld' /\ IdleEmpty'
    BY <1>1
  <1>4. PathsHeld'
    BY <1>1 DEF Replaces, Target
  <1> QED
    BY <1>2, <1>3, <1>4

LEMMA JobType ==
  ASSUME UpdaterInv, NEW j \in Jobs, JobStep(j)
  PROVE  UpdaterInv'
  <1> USE UpdaterAssumption, PathNumbers
  <1>0. UpdaterTypeOK /\ disk \in [Paths -> Files \cup {None}] /\ image \in Paths /\ linked \in BOOLEAN
    BY DEF UpdaterInv, UpdaterTypeOK
  <1>1. CASE startUpdate(j)
    BY <1>1 DEF startUpdate, Press, UpdaterInv, UpdaterTypeOK, FilesHeld, IdleEmpty, PathsHeld,
                files, Replaces, Target
  <1>2. CASE startRestart(j)
    BY <1>2 DEF startRestart, Press, UpdaterInv, UpdaterTypeOK, FilesHeld, IdleEmpty, PathsHeld,
                files, Replaces, Target
  <1>3. CASE Apply(j)
    <2>1. PICK p \in Paths \cup {Nowhere} : jobs' = [jobs EXCEPT ![j] = [at |-> "fetch", data |-> None, path |-> p]]
      BY <1>0, <1>3 DEF Apply
    <2>2. /\ UNCHANGED <<published, disk, image, linked, running, restart_notify, overlapped, astray>>
          /\ jobs[j].at = "apply"
      BY <1>3 DEF Apply, files, history
    <2> HIDE DEF Nowhere
    <2>5. running # None
      BY <1>0, <2>2 DEF UpdaterTypeOK
    <2>6. jobs' \in [Jobs -> [at : {"idle", "apply", "fetch", "verify", "remove", "away", "place",
                      "undo", "clean", "tell", "exec"},
                data : Files \cup {None}, path : Paths \cup {Nowhere}]]
      BY <1>0, <2>1 DEF UpdaterTypeOK
    <2>3. UpdaterTypeOK'
      BY <1>0, <2>2, <2>5, <2>6 DEF UpdaterTypeOK
    <2>4. (FilesHeld /\ IdleEmpty /\ PathsHeld)'
      BY <1>0, <2>1, <2>2 DEF UpdaterTypeOK, UpdaterInv, FilesHeld, IdleEmpty, PathsHeld, Replaces, Target
    <2> QED
      BY <2>3, <2>4 DEF UpdaterInv
  <1>4. CASE Fetch(j)
    <2>1. ASSUME NEW file \in {published, Junk},
                 jobs[j].at = "fetch",
                 jobs' = [jobs EXCEPT ![j] = [at |-> "verify", data |-> file, path |-> @.path]],
                 UNCHANGED <<published, files, running, restart_notify, history>>
          PROVE  UpdaterInv'
      <3>1. /\ file \in Files
            /\ UNCHANGED <<published, disk, image, linked, running, restart_notify, overlapped, astray>>
        BY <1>0, <2>1 DEF files, history, UpdaterTypeOK
      <3> HIDE DEF Nowhere
      <3>4. running # None
        BY <1>0, <2>1 DEF UpdaterTypeOK
      <3>5. jobs' \in [Jobs -> [at : {"idle", "apply", "fetch", "verify", "remove", "away", "place",
                        "undo", "clean", "tell", "exec"},
                  data : Files \cup {None}, path : Paths \cup {Nowhere}]]
        BY <1>0, <2>1, <3>1 DEF UpdaterTypeOK
      <3>2. UpdaterTypeOK'
        BY <1>0, <3>1, <3>4, <3>5 DEF UpdaterTypeOK
      <3>3. (FilesHeld /\ IdleEmpty /\ PathsHeld)'
        BY <1>0, <2>1, <3>1 DEF UpdaterTypeOK, UpdaterInv, FilesHeld, IdleEmpty, PathsHeld, Replaces, Target
      <3> QED
        BY <3>2, <3>3 DEF UpdaterInv
    <2> QED
      BY <1>4, <2>1, FailType DEF Fetch
  <1>5. CASE verifySHA(j)
    BY <1>0, <1>5, FailType, StepType DEF verifySHA, files
  <1>6. CASE RemoveBackup(j)
    <2>1. CASE Step(j, "remove", "away") /\ UNCHANGED files
      BY <1>0, <2>1, StepType DEF files
    <2>2. CASE Step(j, "remove", "away") /\ Replaces(j) /\ Remove(Backup(j))
      BY <1>0, <2>2, RemoveType, StepType
    <2> QED
      BY <1>6, <2>1, <2>2, FailType DEF RemoveBackup
  <1>7. CASE RenameAway(j)
    <2>1. CASE Replaces(j) /\ Step(j, "away", "place") /\ Rename(Target(j), Backup(j))
      BY <1>0, <2>1, RenameType, StepType
    <2> QED
      BY <1>7, <2>1, FailType DEF RenameAway
  <1>8. CASE RenameIn(j)
    <2>0. jobs[j].at = "place" /\ Replaces(j) /\ jobs[j].data \in Files
      BY <1>8 DEF RenameIn, Step, UpdaterInv, PathsHeld, FilesHeld
    <2>1. CASE Step(j, "place", "undo") /\ UNCHANGED files
      BY <1>0, <2>0, <2>1, StepType DEF files
    <2>2. CASE /\ Step(j, "place", "clean")
               /\ disk' = [disk EXCEPT ![Target(j)] = jobs[j].data]
               /\ linked' = (linked /\ image # Target(j))
               /\ UNCHANGED image
      BY <1>0, <2>0, <2>2, StepType
    <2> QED
      BY <1>8, <2>1, <2>2 DEF RenameIn
  <1>9. CASE RollBack(j)
    <2>0. jobs[j].at = "undo" /\ Replaces(j)
      BY <1>9 DEF RollBack, Ends, UpdaterInv, PathsHeld
    <2>1. /\ disk' \in [Paths -> Files \cup {None}] /\ image' \in Paths /\ linked' \in BOOLEAN
          /\ astray' \in BOOLEAN
      BY <1>0, <1>9, <2>0, RenameType DEF RollBack, files, UpdaterTypeOK
    <2> QED
      BY <1>9, <2>0, <2>1 DEF RollBack, Ends, UpdaterInv, UpdaterTypeOK, FilesHeld, IdleEmpty, PathsHeld,
                              Replaces, Target
  <1>10. CASE CleanUp(j)
    <2>0. jobs[j].at = "clean" /\ Replaces(j)
      BY <1>10 DEF CleanUp, Step, UpdaterInv, PathsHeld
    <2>1. disk' \in [Paths -> Files \cup {None}] /\ image' \in Paths /\ linked' \in BOOLEAN
      BY <1>0, <1>10, <2>0, RemoveType DEF CleanUp, files
    <2> QED
      BY <1>10, <2>0, <2>1, StepType DEF CleanUp
  <1>11. CASE SetRestartNotify(j)
    BY <1>11 DEF SetRestartNotify, UpdaterInv, UpdaterTypeOK, FilesHeld, IdleEmpty, PathsHeld, files,
                 history, Replaces, Target
  <1> QED
    BY <1>1, <1>2, <1>3, <1>4, <1>5, <1>6, <1>7, <1>8, <1>9, <1>10, <1>11 DEF JobStep

LEMMA UpdaterTypeStep ==
  ASSUME UpdaterInv, UpdaterNext
  PROVE  UpdaterInv'
  <1>1. CASE Publish
    BY <1>1, UpdaterAssumption DEF Publish, UpdaterInv, UpdaterTypeOK, FilesHeld, IdleEmpty, PathsHeld,
       files, history, Replaces, Target
  <1>2. CASE Crash
    BY <1>2, EndType DEF Crash
  <1>3. CASE Boot
    BY <1>3, StartType, PathNumbers DEF Boot
  <1>4. ASSUME NEW j \in Jobs, JobStep(j)
        PROVE  UpdaterInv'
    BY <1>4, JobType
  <1>5. ASSUME NEW j \in Jobs, reexec(j)
        PROVE  UpdaterInv'
    BY <1>5, StartType, EndType, OwnPath DEF reexec
  <1>6. CASE UNCHANGED updaterVars
    BY <1>6 DEF updaterVars, UpdaterInv, UpdaterTypeOK, FilesHeld, IdleEmpty, PathsHeld, files, history,
       Replaces, Target
  <1> QED
    BY <1>1, <1>2, <1>3, <1>4, <1>5, <1>6 DEF UpdaterNext

-----------------------------------------------------------------------------
(* A file that has passed the checksum is a build, and only such files     *)
(* come near the executable.                                               *)
Trusted == {"remove", "away", "place", "undo", "clean", "tell"}
Sound   == running # Junk /\ \A n \in Paths : disk[n] # Junk
VerifiedInv ==
  CheckSha => Sound /\ \A j \in Jobs : jobs[j].at \in Trusted => jobs[j].data # Junk

(* Renames and removals put nothing new on the disk.                       *)
LEMMA SameFiles ==
  ASSUME UpdaterInv, Sound, running' = running,
         \/ UNCHANGED files
         \/ \E n \in Paths : Remove(n)
         \/ \E n, m \in Paths : n # m /\ Rename(n, m)
  PROVE  Sound'
  <1>1. Junk # None /\ UpdaterTypeOK
    BY UpdaterAssumption DEF UpdaterInv
  <1>2. CASE UNCHANGED files
    BY <1>2 DEF files, Sound
  <1>3. ASSUME NEW n \in Paths, Remove(n)
        PROVE  Sound'
    BY <1>1, <1>3, RemoveType DEF Sound
  <1>4. ASSUME NEW n \in Paths, NEW m \in Paths, n # m, Rename(n, m)
        PROVE  Sound'
    BY <1>1, <1>4, RenameType DEF Sound
  <1> QED
    BY <1>2, <1>3, <1>4

LEMMA VerifiedStep ==
  ASSUME UpdaterInv, VerifiedInv, UpdaterNext
  PROVE  VerifiedInv'
  <1> SUFFICES ASSUME CheckSha
               PROVE  Sound' /\ \A j \in Jobs : jobs'[j].at \in Trusted => jobs'[j].data # Junk
    BY DEF VerifiedInv
  <1> USE UpdaterAssumption DEF Trusted
  <1>0. /\ Sound /\ \A j \in Jobs : jobs[j].at \in Trusted => jobs[j].data # Junk
        /\ UpdaterTypeOK
    BY DEF VerifiedInv, UpdaterInv
  <1>1. CASE Publish \/ UNCHANGED updaterVars
    BY <1>0, <1>1 DEF Publish, updaterVars, files, Sound
  <1>2. ASSUME NEW path \in Paths, Start(path)
        PROVE  Sound' /\ \A j \in Jobs : jobs'[j].at \in Trusted => jobs'[j].data # Junk
    BY <1>0, <1>2 DEF Start, Sound
  <1>3. CASE End
    BY <1>0, <1>3 DEF End, Sound
  <1>4. ASSUME NEW j \in Jobs, JobStep(j)
        PROVE  Sound' /\ \A i \in Jobs : jobs'[i].at \in Trusted => jobs'[i].data # Junk
    <2>1. \A i \in Jobs : jobs'[i].at \in Trusted => jobs'[i].data # Junk
      BY <1>0, <1>4 DEF JobStep, startUpdate, startRestart, Press, Apply, Fetch, Fail, Ends, verifySHA, Step,
         RemoveBackup, RenameAway, RenameIn, RollBack, CleanUp, SetRestartNotify, UpdaterTypeOK
    <2>2. CASE RenameIn(j)
      <3>1. Replaces(j) /\ jobs[j].data # Junk /\ running' = running
        BY <1>0, <2>2 DEF RenameIn, Step, UpdaterInv, PathsHeld
      <3>2. UNCHANGED files \/ disk' = [disk EXCEPT ![Target(j)] = jobs[j].data]
        BY <2>2 DEF RenameIn
      <3> QED
        BY <1>0, <2>1, <3>1, <3>2, PathNumbers DEF Sound, files, UpdaterTypeOK
    <2>3. CASE ~RenameIn(j)
      <3>1. running' = running
        BY <1>4, <2>3 DEF JobStep, startUpdate, startRestart, Press, Apply, Fetch, Fail, Ends, verifySHA, Step,
           RemoveBackup, RenameAway, RollBack, CleanUp, SetRestartNotify
      <3>2. RollBack(j) \/ CleanUp(j) => Replaces(j)
        BY DEF RollBack, Ends, CleanUp, Step, UpdaterInv, PathsHeld
      <3>3. \/ UNCHANGED files
            \/ Replaces(j) /\ Remove(Backup(j))
            \/ Replaces(j) /\ (Rename(Target(j), Backup(j)) \/ Rename(Backup(j), Target(j)))
        BY <1>4, <2>3, <3>2 DEF JobStep, startUpdate, startRestart, Press, Apply, Fetch, Fail, verifySHA,
           RemoveBackup, RenameAway, RollBack, CleanUp, SetRestartNotify
      <3>4. Sound'
        BY <1>0, <3>1, <3>3, SameFiles, PathNumbers
      <3> QED
        BY <2>1, <3>4
    <2> QED
      BY <2>2, <2>3
  <1> QED
    BY <1>1, <1>2, <1>3, <1>4, OwnPath, PathNumbers DEF UpdaterNext, Crash, Boot, reexec

-----------------------------------------------------------------------------
(* Where the executable is, told by where the one job stands.              *)
OneJob == \A i, j \in Jobs : jobs[i] # Idle /\ jobs[j] # Idle => i = j
Whole  == linked /\ disk[image] = running /\ running # None /\ (image = 0 \/ astray)
Stands(j) ==
  /\ jobs[j].at \in {"apply", "fetch", "verify", "remove", "away"} => Whole
  /\ jobs[j].at \in {"fetch", "verify", "remove", "away"} => Target(j) = image
  /\ jobs[j].at \in {"place", "undo"} =>
       /\ linked /\ image = Backup(j) /\ disk[Backup(j)] = running /\ running # None
       /\ Target(j) = 0 \/ astray
  /\ (jobs[j].at \in {"clean", "tell"} \/ (jobs[j].at = "exec" /\ jobs[j].data # None)) =>
       disk[Target(j)] = jobs[j].data /\ jobs[j].data # None /\ (Target(j) = 0 \/ astray)
  /\ jobs[j].at = "exec" /\ jobs[j].data = None => Whole
Promise ==
  (restart_notify.data # None /\ ~astray) =>
    /\ disk[0] = restart_notify.data
    /\ running = None \/ \E j \in Jobs : jobs[j].at = "exec"
Copy  == \E n \in Paths : disk[n] # None
Entry == disk[0] # None \/ astray \/ \E j \in Jobs : jobs[j].at \in {"place", "undo"}
KeptInv ==
  ~overlapped =>
    /\ OneJob /\ \A j \in Jobs : Stands(j)
    /\ Promise /\ Copy /\ Entry
    /\ (running # None /\ Busy = {}) => Whole

(* A step of the one job leaves the others idle; what is to be shown of it.*)
Alone(j) ==
  /\ ~overlapped /\ ~overlapped'
  /\ \A i \in Jobs : i # j => jobs[i] = Idle /\ jobs'[i] = Idle

LEMMA JobAlone ==
  ASSUME UpdaterInv, KeptInv, ~overlapped', NEW j \in Jobs, JobStep(j)
  PROVE  Alone(j)
  <1> USE DEF UpdaterInv, UpdaterTypeOK, Alone
  <1>1. ~overlapped
    BY DEF JobStep, startUpdate, startRestart, Press, Apply, Fetch, Fail, Ends, verifySHA, Step,
       RemoveBackup, RenameAway, RenameIn, RollBack, CleanUp, SetRestartNotify, history
  <1>2. \A i \in Jobs : i # j => jobs'[i] = jobs[i]
    BY DEF JobStep, startUpdate, startRestart, Press, Apply, Fetch, Fail, Ends, verifySHA, Step,
       RemoveBackup, RenameAway, RenameIn, RollBack, CleanUp, SetRestartNotify
  <1>3. CASE jobs[j] # Idle
    BY <1>1, <1>2, <1>3 DEF KeptInv, OneJob
  <1>4. CASE jobs[j] = Idle
    <2>1. Press(j, "apply") \/ Press(j, "exec")
      BY <1>4 DEF JobStep, startUpdate, startRestart, Apply, Fetch, Fail, Ends, verifySHA, Step,
         RemoveBackup, RenameAway, RenameIn, RollBack, CleanUp, SetRestartNotify
    <2>2. Busy = {}
      BY <2>1 DEF Press
    <2> QED
      BY <1>1, <1>2, <2>2
  <1> QED
    BY <1>3, <1>4

LEMMA KeptFrom ==
  ASSUME NEW j \in Jobs, Alone(j), Stands(j)', Promise', Copy', Entry',
         running' # None /\ jobs'[j] = Idle => Whole'
  PROVE  KeptInv'
  BY DEF Alone, KeptInv, OneJob, Stands

(* What a running job starts from.                                         *)
LEMMA JobStands ==
  ASSUME UpdaterInv, KeptInv, NEW j \in Jobs, Alone(j), jobs[j].at # "idle"
  PROVE  /\ Stands(j) /\ Copy /\ Entry /\ running # None
         /\ jobs[j].at # "exec" => restart_notify.data = None \/ astray
         /\ jobs[j].at \notin {"place", "undo"} => disk[0] # None \/ astray
         /\ image \in Paths /\ (jobs[j].at \in Working => Replaces(j))
         /\ (jobs[j].at \in Holding => jobs[j].data \in Files)
         /\ jobs[j].path \in Paths \cup {Nowhere} /\ jobs \in [Jobs -> [at : {"idle", "apply", "fetch",
               "verify", "remove", "away", "place", "undo", "clean", "tell", "exec"},
               data : Files \cup {None}, path : Paths \cup {Nowhere}]]
  <1>1. running # None
    BY DEF UpdaterInv, UpdaterTypeOK
  <1>2. \A i \in Jobs : jobs[i].at # "idle" => i = j
    BY DEF Alone
  <1>3. Stands(j) /\ Copy /\ Entry /\ Promise
    BY DEF KeptInv, Alone
  <1> QED
    BY <1>1, <1>2, <1>3 DEF UpdaterInv, UpdaterTypeOK, FilesHeld, PathsHeld, Promise, Entry

LEMMA KeptPress ==
  ASSUME UpdaterInv, KeptInv, NEW j \in Jobs, Alone(j), startUpdate(j) \/ startRestart(j)
  PROVE  KeptInv'
  <1>1. Busy = {} /\ running # None /\ ~overlapped
    BY DEF Alone, startUpdate, startRestart, Press
  <1>2. \A i \in Jobs : jobs[i].at = "idle"
    BY <1>1
  <1>3. Whole /\ Copy /\ Entry /\ (restart_notify.data = None \/ astray)
    BY <1>1, <1>2 DEF KeptInv, Promise
  <1>4. disk[0] # None \/ astray
    BY <1>2, <1>3 DEF Entry
  <1>5. /\ UNCHANGED <<files, running, astray>> /\ jobs' = [jobs EXCEPT ![j].at = jobs'[j].at]
        /\ jobs[j] = Idle /\ jobs'[j].at \in {"apply", "exec"} /\ jobs'[j].data = None
        /\ restart_notify'.data \in {restart_notify.data, None}
    BY DEF startUpdate, startRestart, Press, UpdaterInv, UpdaterTypeOK
  <1>6. Whole' /\ Copy' /\ Entry' /\ Promise'
    BY <1>3, <1>4, <1>5 DEF Whole, Copy, Entry, Promise, files
  <1>7. Stands(j)'
    BY <1>5, <1>6 DEF Stands
  <1> QED
    BY <1>6, <1>7, KeptFrom

(* Up to the renames the process stands where it was started.              *)
LEMMA KeptEarly ==
  ASSUME UpdaterInv, KeptInv, NEW j \in Jobs, Alone(j),
         Apply(j) \/ Fetch(j) \/ verifySHA(j) \/ RemoveBackup(j) \/ Fail(j, "away")
  PROVE  KeptInv'
  <1> USE DEF UpdaterInv
  <1>1. jobs[j].at \in {"apply", "fetch", "verify", "remove", "away"}
    BY DEF Apply, Fetch, verifySHA, RemoveBackup, Fail, Ends, Step
  <1>2. /\ Whole /\ Copy
        /\ restart_notify.data = None \/ astray
        /\ disk[0] # None \/ astray
        /\ jobs[j].at # "apply" => Target(j) = image
    BY <1>1, JobStands DEF Stands
  <1>3. /\ UNCHANGED <<running, restart_notify, astray, image>>
        /\ \/ UNCHANGED files
           \/ jobs[j].at = "remove" /\ Replaces(j) /\ Remove(Backup(j))
    BY DEF Apply, Fetch, verifySHA, RemoveBackup, Fail, Ends, Step, files, history, Remove
  <1>4. Whole' /\ (disk'[0] # None \/ astray')
    <2>1. CASE UNCHANGED files
      BY <1>2, <1>3, <2>1 DEF Whole, files
    <2>2. CASE jobs[j].at = "remove" /\ Replaces(j) /\ Remove(Backup(j))
      <3>1. Backup(j) # image /\ Backup(j) # 0 /\ image \in Paths /\ 0 \in Paths /\ Backup(j) \in Paths
        BY <1>2, <2>2, PathNumbers
      <3>2. disk'[image] = disk[image] /\ disk'[0] = disk[0] /\ linked'
        BY <1>2, <2>2, <3>1, RemoveType DEF Whole
      <3> QED
        BY <1>2, <1>3, <3>2 DEF Whole
    <2> QED
      BY <1>3, <2>1, <2>2
  <1>5. Copy' /\ Entry' /\ Promise'
    BY <1>2, <1>3, <1>4, JobStands DEF Whole, Copy, Entry, Promise, UpdaterInv, UpdaterTypeOK
  <1>6. \/ jobs'[j] = Idle
        \/ /\ jobs'[j].at \in {"fetch", "verify", "remove", "away"}
           /\ jobs'[j].path = image
    <2>1. disk[image] # None
      BY <1>2 DEF Whole
    <2>2. jobs[j].at # "apply" => jobs[j].path = image
      BY <1>2 DEF Target
    <2> QED
      BY <2>1, <2>2 DEF Apply, Fetch, verifySHA, RemoveBackup, Fail, Ends, Step, UpdaterTypeOK
  <1>7. Stands(j)'
    BY <1>3, <1>4, <1>6 DEF Stands, Target
  <1> QED
    BY <1>4, <1>5, <1>7, KeptFrom

LEMMA KeptAway ==
  ASSUME UpdaterInv, KeptInv, NEW j \in Jobs, Alone(j),
         Replaces(j), Step(j, "away", "place"), Rename(Target(j), Backup(j))
  PROVE  KeptInv'
  <1>1. jobs[j].at = "away" /\ UpdaterTypeOK
    BY DEF Step, UpdaterInv
  <1>2. Whole /\ Target(j) = image
    BY <1>1, JobStands DEF Stands
  <1>3. /\ Target(j) \in Paths /\ Backup(j) \in Paths /\ Target(j) # Backup(j)
        /\ UNCHANGED <<running, restart_notify, astray>>
        /\ jobs'[j].at = "place" /\ Target(j)' = Target(j) /\ Backup(j)' = Backup(j)
    BY <1>1, PathNumbers DEF Step, history, UpdaterTypeOK, Target, Backup
  <1>4. linked' /\ image' = Backup(j) /\ disk'[Backup(j)] = running
    BY <1>1, <1>2, <1>3, RenameType DEF Whole
  <1>5. Stands(j)'
    BY <1>2, <1>3, <1>4 DEF Stands, Whole
  <1>6. Copy' /\ Entry' /\ Promise'
    BY <1>1, <1>2, <1>3, <1>4, JobStands DEF Whole, Copy, Entry, Promise
  <1> QED
    BY <1>3, <1>5, <1>6, KeptFrom

LEMMA KeptIn ==
  ASSUME UpdaterInv, KeptInv, NEW j \in Jobs, Alone(j), RenameIn(j)
  PROVE  KeptInv'
  <1>1. jobs[j].at = "place" /\ UpdaterTypeOK
    BY DEF RenameIn, Step, UpdaterInv
  <1>2. /\ linked /\ image = Backup(j) /\ disk[Backup(j)] = running /\ running # None
        /\ Target(j) = 0 \/ astray
        /\ restart_notify.data = None \/ astray
        /\ Replaces(j) /\ jobs[j].data \in Files
    BY <1>1, JobStands DEF Stands
  <1>3. /\ Target(j) \in Paths /\ Backup(j) \in Paths /\ Target(j) # Backup(j)
        /\ UNCHANGED <<running, restart_notify, astray>>
        /\ jobs'[j].at \in {"undo", "clean"}
        /\ jobs'[j].data = jobs[j].data /\ Target(j)' = Target(j) /\ Backup(j)' = Backup(j)
    BY <1>1, <1>2, PathNumbers DEF RenameIn, Step, history, UpdaterTypeOK, Target, Backup
  <1>4. CASE Step(j, "place", "undo") /\ UNCHANGED files
    <2>1. jobs'[j].at = "undo"
      BY <1>1, <1>4 DEF Step, UpdaterTypeOK
    <2>2. Stands(j)'
      BY <1>2, <1>3, <1>4, <2>1 DEF Stands, files
    <2>3. Copy' /\ Entry' /\ Promise'
      BY <1>2, <1>3, <1>4, <2>1 DEF Copy, Entry, Promise, files
    <2> QED
      BY <2>1, <2>2, <2>3, KeptFrom
  <1>5. CASE /\ Step(j, "place", "clean")
             /\ disk' = [disk EXCEPT ![Target(j)] = jobs[j].data]
    <2>1. jobs'[j].at = "clean"
      BY <1>1, <1>5 DEF Step, UpdaterTypeOK
    <2>2. disk'[Target(j)] = jobs[j].data /\ jobs[j].data # None
      BY <1>1, <1>2, <1>3, <1>5, UpdaterAssumption DEF UpdaterTypeOK
    <2>3. Stands(j)'
      BY <1>2, <1>3, <2>1, <2>2 DEF Stands
    <2>4. Copy' /\ Entry' /\ Promise'
      BY <1>2, <1>3, <2>1, <2>2 DEF Copy, Entry, Promise
    <2> QED
      BY <2>1, <2>3, <2>4, KeptFrom
  <1> QED
    BY <1>4, <1>5 DEF RenameIn

LEMMA KeptBack ==
  ASSUME UpdaterInv, KeptInv, NEW j \in Jobs, Alone(j), RollBack(j)
  PROVE  KeptInv'
  <1>1. jobs[j].at = "undo" /\ UpdaterTypeOK /\ jobs'[j] = Idle /\ UNCHANGED <<running, restart_notify>>
    BY DEF RollBack, Ends, UpdaterInv, UpdaterTypeOK
  <1>2. /\ linked /\ image = Backup(j) /\ disk[Backup(j)] = running /\ running # None
        /\ Target(j) = 0 \/ astray
        /\ restart_notify.data = None \/ astray
        /\ Replaces(j) /\ Target(j) \in Paths /\ Backup(j) \in Paths /\ Target(j) # Backup(j)
    BY <1>1, JobStands, PathNumbers DEF Stands
  <1>3. CASE Rename(Backup(j), Target(j)) /\ UNCHANGED astray
    <2>1. linked' /\ image' = Target(j) /\ disk'[Target(j)] = running
      BY <1>1, <1>2, <1>3, RenameType
    <2>2. Whole' /\ Copy' /\ Entry' /\ Promise'
      BY <1>1, <1>2, <1>3, <2>1 DEF Whole, Copy, Entry, Promise
    <2> QED
      BY <1>1, <2>2, KeptFrom DEF Stands
  <1>4. CASE UNCHANGED files /\ astray'
    <2>1. Whole' /\ Copy' /\ Entry' /\ Promise'
      BY <1>1, <1>2, <1>4 DEF Whole, Copy, Entry, Promise, files
    <2> QED
      BY <1>1, <2>1, KeptFrom DEF Stands
  <1> QED
    BY <1>3, <1>4 DEF RollBack

LEMMA KeptLate ==
  ASSUME UpdaterInv, KeptInv, NEW j \in Jobs, Alone(j), CleanUp(j) \/ SetRestartNotify(j)
  PROVE  KeptInv'
  <1>1. /\ jobs[j].at \in {"clean", "tell"} /\ UpdaterTypeOK
        /\ UNCHANGED <<running, astray>> /\ jobs'[j].data = jobs[j].data
        /\ Target(j)' = Target(j)
    BY DEF CleanUp, SetRestartNotify, Step, history, UpdaterInv, UpdaterTypeOK, Target
  <1>2. /\ disk[Target(j)] = jobs[j].data /\ jobs[j].data # None /\ (Target(j) = 0 \/ astray)
        /\ restart_notify.data = None \/ astray
        /\ Target(j) \in Paths /\ Backup(j) \in Paths /\ Target(j) # Backup(j)
    BY <1>1, JobStands, PathNumbers DEF Stands
  <1>3. disk'[Target(j)] = jobs[j].data
    <2>1. CASE UNCHANGED disk
      BY <1>2, <2>1
    <2>2. CASE Remove(Backup(j))
      BY <1>1, <1>2, <2>2, RemoveType
    <2> QED
      BY <2>1, <2>2 DEF CleanUp, SetRestartNotify, files
  <1>4. \/ jobs'[j].at = "tell" /\ UNCHANGED restart_notify
        \/ jobs'[j].at = "exec" /\ restart_notify'.data = jobs[j].data
    BY <1>1 DEF CleanUp, SetRestartNotify, Step, UpdaterTypeOK
  <1>5. Stands(j)'
    BY <1>1, <1>2, <1>3, <1>4 DEF Stands
  <1>6. Copy' /\ Entry' /\ Promise'
    BY <1>1, <1>2, <1>3, <1>4 DEF Copy, Entry, Promise
  <1>7. jobs'[j] # Idle
    BY <1>4
  <1> QED
    BY <1>5, <1>6, <1>7, KeptFrom

LEMMA KeptJob ==
  ASSUME UpdaterInv, KeptInv, NEW j \in Jobs, JobStep(j)
  PROVE  KeptInv'
  <1>1. CASE overlapped'
    BY <1>1 DEF KeptInv
  <1>2. CASE ~overlapped'
    <2>1. Alone(j)
      BY <1>2, JobAlone
    <2> QED
      BY <2>1, KeptPress, KeptEarly, KeptAway, KeptIn, KeptBack, KeptLate DEF JobStep, RenameAway
  <1> QED
    BY <1>1, <1>2

LEMMA KeptStart ==
  ASSUME UpdaterInv, NEW path \in Paths, Start(path)
  PROVE  KeptInv'
  <1>1. /\ disk'[path] # None /\ running' = disk'[path] /\ image' = path /\ linked'
        /\ restart_notify' = NoNotify /\ (astray' <=> path # 0)
        /\ \A j \in Jobs : jobs'[j] = Idle
    BY DEF Start
  <1>2. Whole' /\ Copy' /\ Entry' /\ Promise'
    BY <1>1 DEF Whole, Copy, Entry, Promise
  <1> QED
    BY <1>1, <1>2 DEF KeptInv, OneJob, Stands

LEMMA KeptEnd ==
  ASSUME UpdaterInv, KeptInv, End
  PROVE  KeptInv'
  <1>1. /\ running' = None /\ UNCHANGED <<disk, restart_notify, overlapped>>
        /\ \A j \in Jobs : jobs'[j] = Idle
        /\ astray' <=> (astray \/ \E j \in Jobs : jobs[j].at \in {"place", "undo"})
    BY DEF End
  <1>2. ~overlapped => Copy' /\ Entry' /\ Promise'
    BY <1>1 DEF KeptInv, Copy, Entry, Promise
  <1> QED
    BY <1>1, <1>2 DEF KeptInv, OneJob, Stands

LEMMA KeptStep ==
  ASSUME UpdaterInv, KeptInv, UpdaterNext
  PROVE  KeptInv'
  <1>1. CASE Publish \/ UNCHANGED updaterVars
    <2>1. UNCHANGED <<disk, image, linked, running, jobs, restart_notify, overlapped, astray>>
      BY <1>1 DEF Publish, updaterVars, files, history
    <2> QED
      BY <2>1 DEF KeptInv, OneJob, Stands, Whole, Promise, Copy, Entry, Target, Backup
  <1>2. CASE Crash
    BY <1>2, KeptEnd DEF Crash
  <1>3. CASE Boot
    BY <1>3, KeptStart, PathNumbers DEF Boot
  <1>4. ASSUME NEW j \in Jobs, JobStep(j)
        PROVE  KeptInv'
    BY <1>4, KeptJob
  <1>5. ASSUME NEW j \in Jobs, reexec(j)
        PROVE  KeptInv'
    BY <1>5, KeptStart, KeptEnd, OwnPath DEF reexec
  <1> QED
    BY <1>1, <1>2, <1>3, <1>4, <1>5 DEF UpdaterNext

(* What the invariants say of the executable and of the confirmation.      *)
LEMMA KeptIsNeverLost ==
  ASSUME UpdaterInv, KeptInv
  PROVE  NeverLost
  BY DEF KeptInv, NeverLost, Copy, Entry, Whole

LEMMA DoneStep ==
  ASSUME UpdaterInv, KeptInv, UpdaterNext, ~overlapped, ~astray,
         restart_notify # NoNotify, restart_notify' = NoNotify
  PROVE  restart_notify.data \in {None, running'}
  <1>1. UpdaterTypeOK /\ Promise /\ \A j \in Jobs : Stands(j)
    BY DEF UpdaterInv, KeptInv
  <1>2. CASE Start(0)
    BY <1>1, <1>2 DEF Start, Promise
  <1>3. ASSUME NEW j \in Jobs, jobs[j].at = "exec"
        PROVE  Own(j) = 0
    BY <1>1, <1>3 DEF Own, Stands, Whole
  <1>4. CASE End \/ Publish \/ UNCHANGED updaterVars
    BY <1>4 DEF End, Publish, updaterVars
  <1>5. ASSUME NEW j \in Jobs, JobStep(j)
        PROVE  FALSE
    <2>1. UNCHANGED restart_notify \/ restart_notify'.by = j
      BY <1>5 DEF JobStep, startUpdate, startRestart, Press, Apply, Fetch, Fail, Ends, verifySHA, Step,
                  RemoveBackup, RenameAway, RenameIn, RollBack, CleanUp, SetRestartNotify
    <2> QED
      BY <2>1, UpdaterAssumption
  <1> QED
    BY <1>2, <1>3, <1>4, <1>5 DEF UpdaterNext, Crash, Boot, reexec

-----------------------------------------------------------------------------
(* The scheduler.  Division by the length of a day: the clock advances     *)
(* within a day, or to the next midnight.                                  *)
LEMMA DayAssumption == DayLen \in Nat \ {0} /\ Horizon \in Nat \ {0}
  BY SchedulerAssumption DEF DayLen, MinuteLen

LEMMA DivUnique ==
  ASSUME NEW c \in Nat, NEW d \in Nat \ {0}, NEW q \in Int, NEW r \in 0..(d - 1), c = d * q + r
  PROVE  c \div d = q /\ c % d = r
  <1> DEFINE p == c \div d
             s == c % d
  <1>1. p \in Int /\ s \in 0..(d - 1) /\ c = d * p + s
    OBVIOUS
  <1> HIDE DEF p, s
  <1>2. d * (q - p) = s - r
    BY <1>1
  <1>3. ASSUME q - p >= 1 PROVE FALSE
    <2>1. d * (q - p) >= d * 1
      BY <1>1, <1>3
    <2> QED
      BY <1>1, <1>2, <2>1
  <1>4. ASSUME q - p <= -1 PROVE FALSE
    <2>1. d * (q - p) <= d * (-1)
      BY <1>1, <1>4
    <2> QED
      BY <1>1, <1>2, <2>1
  <1>5. q = p
    BY <1>1, <1>3, <1>4
  <1>6. r = s
    BY <1>1, <1>5
  <1> QED
    BY <1>5, <1>6 DEF p, s

LEMMA NextUnit ==
  ASSUME NEW c \in Nat, NEW d \in Nat \ {0}
  PROVE  /\ c \div d \in Nat /\ c % d \in 0..(d - 1)
         /\ (c + 1) % d = 0 => (c + 1) \div d = (c \div d) + 1
         /\ (c + 1) % d # 0 => /\ (c + 1) \div d = c \div d
                               /\ (c + 1) % d = (c % d) + 1
  <1> DEFINE p == c \div d
             s == c % d
  <1>1. p \in Int /\ s \in 0..(d - 1) /\ c = d * p + s
    OBVIOUS
  <1>2. p \in Nat
    OBVIOUS
  <1> HIDE DEF p, s
  <1>3. CASE s = d - 1
    <2>1. c + 1 = d * (p + 1) + 0
      BY <1>1, <1>3
    <2>2. (c + 1) \div d = p + 1 /\ (c + 1) % d = 0
      BY <1>1, <2>1, DivUnique
    <2> QED
      BY <1>1, <1>2, <2>2 DEF p, s
  <1>4. CASE s # d - 1
    <2>1. c + 1 = d * p + (s + 1) /\ s + 1 \in 0..(d - 1)
      BY <1>1, <1>4
    <2>2. (c + 1) \div d = p /\ (c + 1) % d = s + 1
      BY <1>1, <2>1, DivUnique
    <2> QED
      BY <1>1, <1>2, <2>2 DEF p, s
  <1> QED
    BY <1>3, <1>4

Offset == clock % DayLen

LEMMA InDay ==
  ASSUME SchedulerTypeOK
  PROVE  /\ Today \in Nat /\ Offset \in 0..(DayLen - 1)
         /\ UNCHANGED clock => UNCHANGED <<Today, Offset, hhmm>>
         /\ clock' = clock + 1 =>
              /\ Offset' = 0 => Today' = Today + 1
              /\ Offset' # 0 => Today' = Today /\ Offset' = Offset + 1
  <1>1. clock \in Nat
    BY DayAssumption DEF SchedulerTypeOK
  <1> QED
    BY <1>1, DayAssumption, NextUnit DEF Today, Offset, hhmm

USE DEF Never, MinuteLen, Ticker, DeleteTimeout, SendTimeout

(* The provers take numbers and truth values better apart.                 *)
Ranges ==
  /\ clock \in 0..(Horizon - 1)
  /\ toTick \in 1..Ticker
  /\ stage \in {"off", "wait", "delete", "check", "send"}
  /\ left \in 0..1
  /\ lastSent \in {Never} \cup 0..Today
  /\ daily_summary \in Never..(Minutes - 1)
  /\ sent \in Nat /\ starts \in 0..MaxStarts
Flags == tick \in BOOLEAN /\ calm \in BOOLEAN

LEMMA RangesFlags ==
  /\ SchedulerTypeOK <=> Ranges /\ Flags
  /\ SchedulerTypeOK' <=> Ranges' /\ Flags'
  BY Zenon DEF SchedulerTypeOK, Ranges, Flags

LEMMA SchedulerTypeStep ==
  ASSUME SchedulerTypeOK, SchedulerNext
  PROVE  SchedulerTypeOK'
  <1>1. Today \in Nat /\ Ranges /\ Flags
    BY InDay, RangesFlags
  <1>2. Ranges'
    <2>1. CASE Advance
      <3>1. Today' = Today \/ Today' = Today + 1
        BY <2>1, InDay DEF Advance
      <3>2. clock' \in 0..(Horizon - 1) /\ toTick' \in 1..Ticker /\ left' \in 0..1
        BY <1>1, <2>1, DayAssumption DEF Advance, Ranges
      <3>3. lastSent' \in {Never} \cup 0..Today'
        BY <1>1, <2>1, <3>1 DEF Advance, Ranges
      <3>4. sent' \in Nat /\ starts' \in 0..MaxStarts
        BY <1>1, <2>1, SchedulerAssumption DEF Advance, Ranges
      <3> QED
        BY <1>1, <2>1, <3>2, <3>3, <3>4 DEF Advance, Ranges
    <2>2. UNCHANGED clock => Today' = Today
      BY InDay
    <2>3. CASE deleteDueAlerts \/ Deleted \/ Sent
      BY <1>1, <2>2, <2>3 DEF deleteDueAlerts, Deleted, Sent, Ranges
    <2>4. CASE Summary
      BY <1>1, <2>2, <2>4 DEF Summary, Ranges
    <2>5. CASE SetDailySummaryTime
      BY <1>1, <2>2, <2>5, SchedulerAssumption DEF SetDailySummaryTime, Ranges
    <2>6. CASE RunScheduler
      BY <1>1, <2>2, <2>6, SchedulerAssumption DEF RunScheduler, Ranges
    <2>7. CASE StopScheduler
      BY <1>1, <2>2, <2>7 DEF StopScheduler, Ranges
    <2>8. CASE UNCHANGED schedulerVars
      BY <1>1, <2>2, <2>8 DEF schedulerVars, Ranges
    <2> QED
      BY <2>1, <2>3, <2>4, <2>5, <2>6, <2>7, <2>8 DEF SchedulerNext, SchedulerStep
  <1>3. Flags'
    BY <1>1 DEF Flags, SchedulerNext, SchedulerStep, Advance, deleteDueAlerts, Deleted, Summary,
                Sent, SetDailySummaryTime, RunScheduler, StopScheduler, schedulerVars
  <1> QED
    BY <1>2, <1>3, RangesFlags

(* A process that has not sent today's summary has not used its turn.      *)
ProcessInv ==
  /\ sent <= starts
  /\ stage # "off" /\ lastSent # Today => sent < starts

LEMMA ProcessStep ==
  ASSUME SchedulerTypeOK, ProcessInv, SchedulerNext
  PROVE  ProcessInv'
  <1> USE InDay DEF SchedulerTypeOK, ProcessInv
  <1>1. CASE Advance
    BY <1>1 DEF Advance, Offset
  <1>2. CASE deleteDueAlerts \/ Deleted \/ Sent
    BY <1>2 DEF deleteDueAlerts, Deleted, Sent
  <1>3. CASE Summary
    BY <1>3 DEF Summary, dueSummary
  <1>4. CASE SetDailySummaryTime
    BY <1>4 DEF SetDailySummaryTime
  <1>5. CASE RunScheduler
    BY <1>5 DEF RunScheduler
  <1>6. CASE StopScheduler
    BY <1>6 DEF StopScheduler
  <1>7. CASE UNCHANGED schedulerVars
    BY <1>7 DEF schedulerVars
  <1> QED
    BY <1>1, <1>2, <1>3, <1>4, <1>5, <1>6, <1>7 DEF SchedulerNext, SchedulerStep

(* The units that can pass before the scheduler looks at the clock again,  *)
(* and those of the minute that have passed.                               *)
UntilLook ==
  IF stage = "check" THEN 0
  ELSE IF stage = "delete" THEN left
  ELSE IF tick THEN left + 1
  ELSE (IF left > toTick THEN left ELSE toTick) + 1
Elapsed == Offset % MinuteLen

(* On a calm day without a summary its minute is not over, and will not be *)
(* before the next look.                                                   *)
SummaryInv ==
  /\ stage \in {"off", "wait", "check"} => left = 0
  /\ calm =>
       /\ stage # "off"
       /\ sent = 0 => lastSent # Today
       /\ sent # 0 => sent = 1 /\ lastSent = Today
       /\ (sent = 0 /\ daily_summary # Never) =>
            /\ hhmm <= daily_summary
            /\ hhmm = daily_summary => Elapsed + UntilLook < MinuteLen

LEMMA Sooner ==
  \A e, l, k \in Nat : k <= l /\ e + l < MinuteLen => e + k < MinuteLen
  OBVIOUS

LEMMA SummaryStep ==
  ASSUME SchedulerTypeOK, SummaryInv, SchedulerNext
  PROVE  SummaryInv'
  <1> USE InDay DEF SchedulerTypeOK, SummaryInv
  <1>0. UNCHANGED clock => UNCHANGED <<Today, hhmm, Elapsed>>
    BY DEF Elapsed
  <1>1. CASE Advance
    <2>1. stage # "check" /\ clock' = clock + 1 /\ UNCHANGED <<stage, lastSent, daily_summary>>
      BY <1>1 DEF Advance
    <2>2. stage' \in {"off", "wait", "check"} => left' = 0
      BY <1>1 DEF Advance
    <2>3. stage # "off" => UntilLook' = UntilLook - 1 /\ UntilLook \in 1..3
      <3>1. left \in 0..1 /\ toTick \in 1..2
        OBVIOUS
      <3>2. stage # "off" => /\ toTick' = IF toTick = 1 THEN 2 ELSE toTick - 1
                             /\ tick' <=> tick \/ toTick = 1
        BY <1>1 DEF Advance
      <3>3. left' = IF left > 0 THEN left - 1 ELSE 0
        BY <1>1 DEF Advance
      <3>4. CASE stage = "wait"
        <4>1. ~tick /\ left = 0
          BY <1>1, <3>4 DEF Advance
        <4> QED
          BY <2>1, <3>1, <3>2, <3>3, <3>4, <4>1 DEF UntilLook
      <3>5. CASE stage = "delete"
        BY <1>1, <2>1, <3>1, <3>3, <3>5 DEF Advance, UntilLook
      <3>6. CASE stage = "send"
        <4>1. left = 1
          BY <1>1, <3>1, <3>6 DEF Advance
        <4> QED
          BY <2>1, <3>1, <3>2, <3>3, <3>6, <4>1 DEF UntilLook
      <3> QED
        BY <2>1, <3>4, <3>5, <3>6
    <2>4. CASE Offset' = 0
      <3>1. sent' = 0 /\ (calm' => stage' # "off") /\ lastSent' # Today'
        BY <1>1, <2>1, <2>4 DEF Advance, Offset
      <3>2. hhmm' = 0 /\ Elapsed' = 0
        BY <2>4 DEF hhmm, Offset, Elapsed
      <3> QED
        BY <2>1, <2>2, <2>3, <3>1, <3>2
    <2>5. CASE Offset' # 0
      <3>1. UNCHANGED <<sent, calm, Today>>
        BY <1>1, <2>1, <2>5 DEF Advance, Offset
      <3>2. Offset' = Offset + 1
        BY <2>1, <2>5
      <3>3. \/ hhmm' = hhmm /\ Elapsed' = Elapsed + 1
            \/ hhmm' = hhmm + 1 /\ Elapsed' = 0 /\ Elapsed = 3
        BY <3>2, DayAssumption DEF hhmm, Offset, Elapsed
      <3>4. hhmm \in Nat /\ Elapsed \in 0..3
        BY DayAssumption DEF hhmm, Offset, Elapsed
      <3> QED
        BY <2>1, <2>2, <2>3, <3>1, <3>3, <3>4
    <2> QED
      BY <2>4, <2>5
  <1>2. CASE deleteDueAlerts \/ Deleted \/ Sent
    <2>1. UNCHANGED <<clock, lastSent, daily_summary, sent, calm, toTick>>
      BY <1>2 DEF deleteDueAlerts, Deleted, Sent
    <2>2. stage' # "off" /\ (stage' \in {"wait", "check"} => left' = 0)
      BY <1>2 DEF deleteDueAlerts, Deleted, Sent
    <2>3. UntilLook' <= UntilLook /\ UntilLook \in Nat /\ UntilLook' \in Nat
      BY <1>2 DEF deleteDueAlerts, Deleted, Sent, UntilLook
    <2>4. Elapsed \in Nat
      BY DayAssumption DEF Elapsed, Offset
    <2>5. UNCHANGED <<Today, hhmm, Elapsed>>
      BY <1>0, <2>1
    <2>6. ASSUME calm', sent' = 0, daily_summary' # Never
          PROVE  /\ hhmm' <= daily_summary'
                 /\ hhmm' = daily_summary' => Elapsed' + UntilLook' < MinuteLen
      <3>1. /\ hhmm <= daily_summary
            /\ hhmm = daily_summary => Elapsed + UntilLook < MinuteLen
        BY <2>1, <2>6
      <3>2. hhmm' = hhmm /\ Elapsed' = Elapsed /\ daily_summary' = daily_summary
        BY <2>1, <2>5
      <3>3. Elapsed + UntilLook < MinuteLen => Elapsed + UntilLook' < MinuteLen
        BY <2>3, <2>4, Sooner
      <3> QED
        BY <3>1, <3>2, <3>3
    <2>7. ASSUME calm'
          PROVE  /\ sent' = 0 => lastSent' # Today'
                 /\ sent' # 0 => sent' = 1 /\ lastSent' = Today'
      BY <2>1, <2>5, <2>7
    <2> QED
      BY <2>2, <2>6, <2>7
  <1>3. CASE Summary
    BY <1>0, <1>3 DEF Summary, dueSummary, UntilLook
  <1>4. CASE SetDailySummaryTime
    BY <1>4 DEF SetDailySummaryTime
  <1>5. CASE RunScheduler \/ StopScheduler
    BY <1>5 DEF RunScheduler, StopScheduler
  <1>6. CASE UNCHANGED schedulerVars
    BY <1>0, <1>6 DEF schedulerVars, UntilLook
  <1> QED
    BY <1>1, <1>2, <1>3, <1>4, <1>5, <1>6 DEF SchedulerNext, SchedulerStep

-----------------------------------------------------------------------------
(* Theorems.                                                               *)
Link == stage = "off" <=> running = None

LEMMA LinkStep ==
  ASSUME Link, [Next]_vars
  PROVE  Link'
  <1> USE DEF Link
  <1>1. CASE SchedulerStep /\ UNCHANGED updaterVars
    BY <1>1 DEF SchedulerStep, updaterVars, Advance, deleteDueAlerts, Deleted, Summary, Sent,
                SetDailySummaryTime
  <1>2. ASSUME NEW j \in Jobs, JobStep(j), UNCHANGED schedulerVars
        PROVE  Link'
    BY <1>2 DEF schedulerVars, JobStep, startUpdate, startRestart, Press, Apply, Fetch, Fail, Ends,
                verifySHA, Step, RemoveBackup, RenameAway, RenameIn, RollBack, CleanUp,
                SetRestartNotify
  <1>3. CASE Publish /\ UNCHANGED schedulerVars
    BY <1>3 DEF Publish, schedulerVars
  <1>4. ASSUME NEW j \in Jobs, reexec(j),
               IF running' = None THEN StopScheduler ELSE RunScheduler
        PROVE  Link'
    BY <1>4 DEF StopScheduler, RunScheduler
  <1>5. CASE Crash /\ StopScheduler
    BY <1>5 DEF Crash, End, StopScheduler
  <1>6. CASE Boot /\ RunScheduler
    BY <1>6 DEF Boot, Start, RunScheduler
  <1>7. CASE UNCHANGED vars
    BY <1>7 DEF vars, updaterVars, schedulerVars
  <1> QED
    BY <1>1, <1>2, <1>3, <1>4, <1>5, <1>6, <1>7 DEF Next

Inv ==
  /\ UpdaterInv /\ VerifiedInv /\ KeptInv
  /\ SchedulerTypeOK /\ ProcessInv /\ SummaryInv
  /\ Link

LEMMA AtStart == Init => Inv
  <1> SUFFICES ASSUME Init PROVE Inv
    OBVIOUS
  <1> USE UpdaterAssumption, SchedulerAssumption DEF Init
  <1>1. UpdaterInv
    <2>1. /\ published \in Builds /\ running \in Files /\ running # None
          /\ disk \in [Paths -> Files \cup {None}] /\ image \in Paths /\ linked = TRUE
          /\ jobs = [j \in Jobs |-> Idle] /\ restart_notify = NoNotify
          /\ overlapped = FALSE /\ astray = FALSE
      BY PathNumbers DEF UpdaterInit
    <2> QED
      BY <2>1 DEF UpdaterInv, UpdaterTypeOK, FilesHeld, IdleEmpty, PathsHeld
  <1>2. VerifiedInv
    BY DEF UpdaterInit, VerifiedInv, Sound, Trusted
  <1>3. KeptInv
    <2>1. /\ disk[0] = 1 /\ running = 1 /\ image = 0 /\ linked /\ restart_notify = NoNotify
          /\ \A j \in Jobs : jobs[j] = Idle
      BY PathNumbers DEF UpdaterInit
    <2> QED
      BY <2>1, PathNumbers DEF KeptInv, OneJob, Stands, Whole, Promise, Copy, Entry
  <1>4. 0 \div DayLen = 0 /\ 0 % DayLen = 0
    BY DayAssumption, DivUnique
  <1>5. Today = 0 /\ hhmm = 0 /\ Elapsed = 0
    BY <1>4 DEF SchedulerInit, Today, hhmm, Elapsed, Offset
  <1>6. SchedulerTypeOK
    <2>1. clock \in 0..(Horizon - 1)
      BY DayAssumption DEF SchedulerInit
    <2>2. Ranges
      BY <1>5, <2>1 DEF SchedulerInit, Ranges
    <2>3. Flags
      BY DEF SchedulerInit, Flags
    <2> QED
      BY <2>2, <2>3, RangesFlags
  <1>7. ProcessInv /\ SummaryInv
    BY <1>5, <1>6 DEF SchedulerInit, SchedulerTypeOK, ProcessInv, SummaryInv, UntilLook
  <1>8. Link
    BY DEF SchedulerInit, UpdaterInit, Link
  <1> QED
    BY <1>1, <1>2, <1>3, <1>6, <1>7, <1>8 DEF Inv

LEMMA AtEachStep == Inv /\ [Next]_vars => Inv'
  BY Parts, UpdaterTypeStep, VerifiedStep, KeptStep, SchedulerTypeStep, ProcessStep,
     SummaryStep, LinkStep DEF Inv

THEOREM Invariance == Spec => []Inv
  BY AtStart, AtEachStep, PTL DEF Spec

(* The state stays within its types, and the scheduler is off exactly when *)
(* no process runs (Run starts it, a death or an exec ends it).            *)
THEOREM TypeCorrect == Spec => []TypeOK
  <1>1. Inv => TypeOK
    BY DEF Inv, UpdaterInv, Link, TypeOK
  <1> QED
    BY <1>1, Invariance, PTL

(* With a checksum asked for, nothing but builds is installed, kept beside *)
(* it or run, whatever presses and deaths come in between (verifySHA).     *)
THEOREM VerifiedBuilds == Spec => []VerifiedOnly
  <1>1. Inv => VerifiedOnly
    BY DEF Inv, VerifiedInv, Sound, VerifiedOnly
  <1> QED
    BY <1>1, Invariance, PTL

(* Presses that do not overlap never lose the last copy, and a job that    *)
(* ends without a new build leaves the running one at its place, unless a  *)
(* death between the renames or a way back that failed left it beside it   *)
(* (ReplaceExecutable, which ignores that its way back failed).            *)
THEOREM ExecutableKept == Spec => []NeverLost
  <1>1. Inv => NeverLost
    BY KeptIsNeverLost DEF Inv
  <1> QED
    BY <1>1, Invariance, PTL

(* What a new process confirms is what it was started from, unless presses *)
(* overlapped or its predecessor was astray (restart_notify, confirmed in  *)
(* Run).                                                                   *)
THEOREM DoneTrue == Spec => DoneIsTrue
  <1>1. Inv /\ [Next]_vars =>
          [(restart_notify # NoNotify /\ restart_notify' = NoNotify /\ ~overlapped /\ ~astray) =>
             restart_notify.data \in {None, running'}]_vars
    BY Parts, DoneStep DEF Inv
  <1> QED
    BY <1>1, Invariance, PTL DEF Spec, DoneIsTrue

(* One process sends at most one summary a day, whatever is set meanwhile  *)
(* (lastSent in RunScheduler).                                             *)
THEOREM OnePerProcess == Spec => []OncePerProcess
  <1>1. Inv => OncePerProcess
    BY DEF Inv, ProcessInv, OncePerProcess
  <1> QED
    BY <1>1, Invariance, PTL

(* On a calm day the summary is sent once, and in its minute, however many *)
(* minutes a day has and however long Telegram takes (RunScheduler: the    *)
(* ticker and the timeouts of its calls).                                  *)
THEOREM SentOnce == Spec => []SummaryOnce
  <1>1. Inv => SummaryOnce
    <2> SUFFICES ASSUME Inv PROVE SummaryOnce
      OBVIOUS
    <2>1. hhmm \in Nat
      BY InDay DEF Inv, Offset, hhmm
    <2> QED
      BY <2>1 DEF Inv, SummaryInv, SchedulerTypeOK, SummaryOnce
  <1> QED
    BY <1>1, Invariance, PTL
=============================================================================
