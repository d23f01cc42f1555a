------------------------------ MODULE MCFiles -------------------------------
(***************************************************************************)
(* The two files that must survive a death of the process at any step:     *)
(* PENDING.md and the scheduler's job list.  They share nothing: a         *)
(* behaviour moves one while the other stays in its initial state.         *)
(***************************************************************************)
EXTENDS PendingFile, Scheduler

CONSTANTS once, interval, cron

FilesInit == PendingInit /\ SchedulerInit

\* A step of one file's users while the other file is as it began
Writing(step) == SchedulerInit /\ step
Scheduling(step) == PendingInit /\ step

FilesFairness ==
    /\ WF_pendingVars(Writing(AppendContinues)) /\ WF_pendingVars(Writing(Optimize))
    /\ SF_pendingVars(Writing(MergeOk)) /\ SF_pendingVars(Writing(WriteMemory))
    /\ SF_pendingVars(Writing(CommitSnapshot))
    /\ WF_schedulerVars(Scheduling(ClockTicks)) /\ WF_schedulerVars(Scheduling(Tick(0)))
    /\ \A j \in Jobs : WF_schedulerVars(Scheduling(Finish(j)))

FilesSpec ==
    /\ FilesInit
    /\ [][\/ Writing(PendingNext) /\ UNCHANGED schedulerVars
          \/ Scheduling(SchedulerNext) /\ UNCHANGED pendingVars]_<<pendingVars, schedulerVars>>
    /\ FilesFairness

FilesTypeOK == PendingTypeOK /\ SchedulerTypeOK
=============================================================================
