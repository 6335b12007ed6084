------------------------------- MODULE Upkeep -------------------------------
(***************************************************************************)
(* One process runs the scheduler and replaces its own executable: what    *)
(* ends it for the Updater empties the memory of the Scheduler.            *)
(***************************************************************************)
EXTENDS Updater, Scheduler

vars == <<updaterVars, schedulerVars>>

Init == UpdaterInit /\ SchedulerInit

Next ==
  \/ SchedulerStep /\ UNCHANGED updaterVars
  \/ /\ \/ Publish
        \/ \E j \in Jobs : JobStep(j)
     /\ UNCHANGED schedulerVars
  \/ \E j \in Jobs : /\ reexec(j)
                     /\ IF running' = None THEN StopScheduler ELSE RunScheduler
  \/ Crash /\ StopScheduler
  \/ Boot /\ RunScheduler

Spec == Init /\ [][Next]_vars

TypeOK == UpdaterTypeOK /\ SchedulerTypeOK /\ (stage = "off" <=> running = None)

-----------------------------------------------------------------------------
(* Properties.                                                             *)

(* Nothing is installed, kept or run that the checksum does not vouch for  *)
(* (verifySHA before ReplaceExecutable).                                   *)
VerifiedOnly == CheckSha => running # Junk /\ \A n \in Paths : disk[n] # Junk

(* Presses that do not overlap never lose the last copy: a process without *)
(* a job finds what it runs on the disk, and the entry point is missing    *)
(* only between the two renames, after a death there, or after a way back  *)
(* that failed, which nothing repairs (ReplaceExecutable).                 *)
NeverLost ==
  ~overlapped =>
    /\ \E n \in Paths : disk[n] # None
    /\ disk[0] # None \/ astray \/ \E j \in Jobs : jobs[j].at \in {"place", "undo"}
    /\ (running # None /\ Busy = {}) => disk[image] = running /\ (image = 0 \/ astray)

(* "Done", which a process says when it starts, is true of the build whose *)
(* update asked for it, unless presses overlapped or the process before was*)
(* not started from the entry point (restart_notify in startUpdate and in  *)
(* Run).                                                                   *)
DoneIsTrue ==
  [][(restart_notify # NoNotify /\ restart_notify' = NoNotify /\ ~overlapped /\ ~astray) =>
       restart_notify.data \in {None, running'}]_vars
=============================================================================
