------------------------------ MODULE Scheduler ------------------------------
(***************************************************************************)
(* Scheduled jobs: the one-second tick that starts due jobs, the tasks     *)
(* that execute and reschedule them, registration and cancelling by the    *)
(* agent's tools, and recovery at start-up from schedules.json             *)
(* (agent/scheduler.py, agent/tools/schedule.py,                           *)
(* infra/persistence/json_store.py).                                       *)
(*                                                                         *)
(* Time is counted in ticks.  A soft job is started lead ticks before its  *)
(* nominal time, where lead follows the measured latencies; an instant job *)
(* at its time.  A ScheduledJob object outlives its entry in _jobs while a *)
(* task holds it, so its fire_at is kept apart from membership.            *)
(***************************************************************************)
EXTENDS Integers, FiniteSets

CONSTANTS
    OnceJobs, IntervalJobs, CronJobs,   \* triggers at/after, every 2h, every <cron>
    SoftJobs,                           \* tier soft; the others are instant
    Interval,                           \* ticks between occurrences
    Grace,                              \* GRACE_SECONDS
    Leads,                              \* values LatencyTracker.lead takes
    MaxTime, MaxCrashes                 \* bounds

Jobs == OnceJobs \cup IntervalJobs \cup CronJobs
Every == IntervalJobs \cup CronJobs

ASSUME SoftAssumption == SoftJobs \subseteq Jobs
ASSUME NumberAssumption == Interval \in Nat \ {0} /\ Grace \in Nat /\ Leads \subseteq Nat
ASSUME BoundAssumption == MaxTime \in Nat /\ MaxCrashes \in Nat

VARIABLES
    now,
    listed,     \* keys of _jobs
    fireAt,     \* fire_at of the object; 0 before the job is registered
    exec,       \* _in_flight and how far the task is
    saved,      \* schedules.json: fire_at of the jobs in it, 0 for the others
    cancelled,  \* jobs cancel_job answered True for
    expired,    \* jobs discarded at a start because they were beyond Grace
    delivered,  \* per job, occurrences pushed
    repeats,    \* per job, pushes of an occurrence already pushed
    tried,      \* jobs whose execution was started
    crashes,
    torn        \* has a death hit a write of schedules.json?

schedulerVars == <<now, listed, fireAt, exec, saved, cancelled, expired, delivered, repeats,
          tried, crashes, torn>>
deaths == <<crashes, torn>>
history == <<cancelled, expired, delivered, repeats, tried>>

SchedulerTypeOK ==
    /\ now \in 0 .. MaxTime
    /\ listed \subseteq Jobs /\ tried \subseteq Jobs
    /\ cancelled \subseteq Jobs /\ expired \subseteq OnceJobs
    /\ fireAt \in [Jobs -> Nat] /\ saved \in [Jobs -> Nat]
    /\ exec \in [Jobs -> {"no", "started", "pushed"}]
    /\ delivered \in [Jobs -> SUBSET Nat] /\ repeats \in [Jobs -> Nat]
    /\ crashes \in 0 .. MaxCrashes /\ torn \in BOOLEAN

SchedulerInit ==
    /\ now = 0 /\ crashes = 0 /\ torn = FALSE
    /\ listed = {} /\ cancelled = {} /\ expired = {} /\ tried = {}
    /\ fireAt = [j \in Jobs |-> 0] /\ saved = fireAt
    /\ exec = [j \in Jobs |-> "no"]
    /\ delivered = [j \in Jobs |-> {}] /\ repeats = [j \in Jobs |-> 0]

Larger(a, b) == IF a > b THEN a ELSE b
Least(S) == CHOOSE t \in S : \A u \in S : t <= u

\* Occurrences come every Interval: of an interval job counted from its own
\* fire_at, of a cron job from the start of the clock.
Origin(j, from) == IF j \in CronJobs THEN 0 ELSE from
Occurrences(j, from, after) ==
    {t \in {Origin(j, from) + k * Interval : k \in 1 .. after + 1} : t > after}

\* _advance_every: an interval job moves on from its own fire_at by at least
\* one interval, a cron job to the next time on the clock.
Advance(j, from, after) == Least(Occurrences(j, from, after))

Save(jobs, times) == saved' = [j \in Jobs |-> IF j \in jobs THEN times[j] ELSE 0]

-----------------------------------------------------------------------------
ClockTicks ==
    /\ now < MaxTime
    /\ now' = now + 1
    /\ UNCHANGED <<listed, fireAt, exec, saved, history, deaths>>

\* Mutant: the new job is not saved.
AddJob_unsaved(j, t) ==
    /\ fireAt[j] = 0 /\ t > now
    /\ j \in CronJobs => t = Advance(j, now, now)
    /\ j \in IntervalJobs => t = now + Interval
    /\ listed' = listed \cup {j}
    /\ fireAt' = [fireAt EXCEPT ![j] = t]
    /\ UNCHANGED <<now, exec, saved, history, deaths>>

\* schedule: compute_fire_at, then add_job.
AddJob(j, t) ==
    /\ fireAt[j] = 0 /\ t > now
    /\ j \in CronJobs => t = Advance(j, now, now)
    /\ j \in IntervalJobs => t = now + Interval
    /\ listed' = listed \cup {j}
    /\ fireAt' = [fireAt EXCEPT ![j] = t]
    /\ Save(listed', fireAt')
    /\ UNCHANGED <<now, exec, history, deaths>>

\* cancel_schedule: the task of a job in flight is not told.
CancelJob(j) ==
    /\ j \in listed
    /\ listed' = listed \ {j}
    /\ Save(listed', fireAt)
    /\ cancelled' = cancelled \cup {j}
    /\ UNCHANGED <<now, fireAt, exec, expired, delivered, repeats, tried, deaths>>

\* Mutant: only a job whose time is exactly now is started.
Due_exact(lead) ==
    {j \in listed : exec[j] = "no" /\ fireAt[j] - (IF j \in SoftJobs THEN lead ELSE 0) = now}

Due(lead) ==
    {j \in listed : exec[j] = "no" /\ fireAt[j] - (IF j \in SoftJobs THEN lead ELSE 0) <= now}

\* _tick: a task for every due job.
Tick(lead) ==
    /\ Due(lead) # {}
    /\ exec' = [j \in Jobs |-> IF j \in Due(lead) THEN "started" ELSE exec[j]]
    /\ tried' = tried \cup Due(lead)
    /\ UNCHANGED <<now, listed, fireAt, saved, cancelled, expired, delivered, repeats, deaths>>

\* _execute got its text out.
Push(j) ==
    /\ exec[j] = "started"
    /\ exec' = [exec EXCEPT ![j] = "pushed"]
    /\ IF fireAt[j] \in delivered[j]
         THEN repeats' = [repeats EXCEPT ![j] = @ + 1] /\ UNCHANGED delivered
         ELSE delivered' = [delivered EXCEPT ![j] = @ \cup {fireAt[j]}] /\ UNCHANGED repeats
    /\ UNCHANGED <<now, listed, fireAt, saved, cancelled, expired, tried, deaths>>

\* Mutant: the next occurrence is counted from now.
Finish_fromNow(j) ==
    /\ exec[j] # "no"
    /\ exec' = [exec EXCEPT ![j] = "no"]
    /\ IF j \in Every
         THEN /\ fireAt' = [fireAt EXCEPT ![j] = Advance(j, @, now)]
              /\ listed' = listed \cup {j}
         ELSE /\ listed' = listed \ {j}
              /\ UNCHANGED fireAt
    /\ Save(listed', fireAt')
    /\ UNCHANGED <<now, history, deaths>>

\* The finally block, after a push, an exception or an empty answer.
Finish(j) ==
    /\ exec[j] # "no"
    /\ exec' = [exec EXCEPT ![j] = "no"]
    /\ IF j \in Every
         THEN /\ fireAt' = [fireAt EXCEPT ![j] = Advance(j, @, Larger(now, @))]
              /\ listed' = listed \cup {j}
         ELSE /\ listed' = listed \ {j}
              /\ UNCHANGED fireAt
    /\ Save(listed', fireAt')
    /\ UNCHANGED <<now, history, deaths>>

-----------------------------------------------------------------------------
(* Restart.                                                                 *)

\* Mutant: whatever is late is discarded.
Keeps_inTime(j, t) == t > now

\* load_and_recover drops a one-off job that is later than Grace.
Keeps(j, t) == j \in Every \/ t > now \/ now - t <= Grace

\* Mutant: a late recurring job is discarded like a late one-off job.
Recover_asOnce(content) ==
    /\ listed' = {j \in Jobs : content[j] # 0 /\ now - content[j] <= Grace}
    /\ fireAt' = [j \in Jobs |-> IF content[j] # 0 THEN content[j] ELSE fireAt[j]]
    /\ exec' = [j \in Jobs |-> "no"]
    /\ expired' = expired \cup {j \in Jobs : content[j] # 0 /\ now - content[j] > Grace}
    /\ crashes' = crashes + 1
    /\ UNCHANGED <<now, cancelled, delivered, repeats, tried>>

\* What a start finds in the file; nothing of it is written back.
Recover(content) ==
    /\ listed' = {j \in Jobs : content[j] # 0 /\ Keeps(j, content[j])}
    /\ fireAt' = [j \in Jobs |->
         IF content[j] # 0 /\ j \in Every /\ content[j] <= now
           THEN Advance(j, content[j], now)
           ELSE IF content[j] # 0 THEN content[j] ELSE fireAt[j]]
    /\ exec' = [j \in Jobs |-> "no"]
    /\ expired' = expired \cup {j \in OnceJobs : content[j] # 0 /\ now - content[j] > Grace}
    /\ crashes' = crashes + 1
    /\ UNCHANGED <<now, cancelled, delivered, repeats, tried>>

Restart ==
    /\ crashes < MaxCrashes
    /\ Recover(saved)
    /\ UNCHANGED <<saved, torn>>

\* The process dies inside the write_text of a job's last save: load_json
\* cannot parse the file and answers the default.
RestartTorn ==
    /\ crashes < MaxCrashes
    /\ \E j \in Jobs : exec[j] # "no"
    /\ saved' = [j \in Jobs |-> 0]
    /\ torn' = TRUE
    /\ Recover(saved')

-----------------------------------------------------------------------------
Task(j) == Push(j) \/ Finish(j)

SchedulerNext ==
    \/ ClockTicks
    \/ \E j \in Jobs : (\E t \in 1 .. MaxTime : AddJob(j, t)) \/ CancelJob(j) \/ Task(j)
    \/ \E lead \in Leads : Tick(lead)
    \/ Restart \/ RestartTorn

\* The loop ticks every second, and pushes and model calls end.
SchedulerFairness ==
    /\ WF_schedulerVars(ClockTicks)
    /\ WF_schedulerVars(Tick(0))
    /\ \A j \in Jobs : WF_schedulerVars(Finish(j))

SchedulerSpec == SchedulerInit /\ [][SchedulerNext]_schedulerVars /\ SchedulerFairness

-----------------------------------------------------------------------------
(* Properties.                                                              *)

(***************************************************************************)
(* "Otherwise cron jobs can re-fire the same occurrence": an occurrence is *)
(* pushed once, and once more at most for each restart that came between a *)
(* push and the save after it.                                             *)
(***************************************************************************)
NoRefire == \A j \in Jobs : repeats[j] <= crashes

(***************************************************************************)
(* A registered job disappears for a reason: it was tried, cancelled, or   *)
(* beyond the grace period at a start; a recurring one only by cancelling. *)
(* The exception is a death inside the write of schedules.json.  And what  *)
(* a restart would find is what is listed, up to the advance of overdue    *)
(* recurring jobs and the expired ones it would discard again.             *)
(***************************************************************************)
NoJobVanishes ==
    ~torn => \A j \in Jobs : fireAt[j] # 0 /\ j \notin listed =>
        \/ j \in cancelled
        \/ j \in OnceJobs /\ j \in tried \cup expired

SavedIsListed == \A j \in Jobs : j \in listed => saved[j] # 0 /\ saved[j] <= fireAt[j]

JobsAreKept == NoJobVanishes /\ SavedIsListed

(***************************************************************************)
(* Restarts, overdue starts and executions before the nominal time neither *)
(* repeat an occurrence (but for the one of a death before the save) nor   *)
(* lose a job.                                                             *)
(***************************************************************************)
JobsSurviveCrashes == NoRefire /\ JobsAreKept

(***************************************************************************)
(* A due job runs: no occurrence stays the next one for ever.              *)
(***************************************************************************)
Waits(j, t) == j \in listed /\ fireAt[j] = t
OccurrencesPass ==
    \A j \in Jobs : \A t \in 1 .. MaxTime : Waits(j, t) ~> ~Waits(j, t)

(***************************************************************************)
(* "Cancelled": a job reported cancelled is not listed again.              *)
(***************************************************************************)
CancelledStaysAway == cancelled \cap listed = {}
=============================================================================
