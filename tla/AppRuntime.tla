----------------------------- MODULE AppRuntime -----------------------------
(***************************************************************************)
(* The life of the process (bootstrap/app.py, bootstrap/channels.py):      *)
(* start builds and starts one part after the other and, if one fails,     *)
(* shuts down what it has a handle of; run waits for the tasks; shutdown   *)
(* goes through its steps once.  Each step may fail; of the peers'         *)
(* processes only shutdown_all would remember.  The loop of the turns      *)
(* swallows a cancellation while a turn runs, and what a turn leaves       *)
(* behind or a scheduled job does, tasks of their own, nobody ends.        *)
(***************************************************************************)
EXTENDS Integers, Sequences, SequencesExt, FiniteSets

CONSTANTS MaxAppFaults      \* bound: steps that fail, parts that die

ASSUME AppAssumption == MaxAppFaults \in Nat

VARIABLES
    config,                 \* the optional parts that are configured
    appPhase,               \* "starting", "running", "ending", "over", "cut" (shutdown cancelled)
    appStep,                \* the next step of StartOrder or EndOrder
    up,                     \* what is open or runs: "loop" the turns', "tasks" gather's others,
                            \* "work" spawn jobs, consolidations, post-turn and scheduled work
    held,                   \* what the AppRuntime has a handle of
    raisedTasks,            \* tasks with a handle that have raised
    cause,                  \* why it ends: a step of start, "task", "dashboard", "cancelled",
                            \* "swallowed" (cancelled, but not the loop)
    failures,               \* steps of shutdown that raised, in order
    untidy,                 \* parts whose end was tried and failed
    belated,                   \* history: what was started after the step that would have ended it
    pollingConflict,        \* _polling_conflict_task is there
    appFaults

appVars == <<config, appPhase, appStep, up, held, raisedTasks, cause, failures, untidy,
             belated, pollingConflict, appFaults>>

Optional == {"peers", "telegram", "qq"}

\* start, with what core.start and start_channels do in it
StartOrder == <<"core", "core.start", "telegram", "qq", "observe", "dashboard", "proactive">>

\* shutdown, with the steps it hands to _run_cleanup_steps
EndOrder == <<"dashboard", "observe", "core.stop", "ipc.stop", "telegram.stop", "qq.stop", "memory", "http">>

AppInit ==
    /\ config \in SUBSET Optional
    /\ appPhase = "starting" /\ appStep = 1 /\ up = {"http"} /\ held = {} /\ raisedTasks = {} /\ cause = "none"
    /\ failures = <<>> /\ untidy = {} /\ belated = {} /\ pollingConflict = FALSE /\ appFaults = 0

-----------------------------------------------------------------------------
(* start                                                                    *)

\* The bot, and the polling that it begins last and ends first
TelegramParts == {"telegram", "polling"}

\* What a step of start brings up.  Neither core.start nor shutdown ends the MCP
\* clients of the registry.
Brings(step) ==
    CASE step = "core" -> {"memory"}
      [] step = "core.start" -> {"mcp"} \cup IF "peers" \in config THEN {"poller"} ELSE {}
      [] step = "telegram" -> IF "telegram" \in config THEN TelegramParts ELSE {}
      [] step = "qq" -> IF "qq" \in config THEN {"qq"} ELSE {}
      [] step \in {"observe", "dashboard"} -> {step}
      [] OTHER -> {}

\* Mutant: core is set when it has started.
Handles_late(step) ==
    CASE step = "core.start" -> {"core"}
      [] step = "qq" -> {"ipc"} \cup (config \cap {"telegram", "qq"})
      [] step \in {"observe", "dashboard"} -> {step}
      [] OTHER -> {}

\* The handles it gives: core before core.start, the channels all at once.
Handles(step) ==
    CASE step = "core" -> {"core"}
      [] step = "qq" -> {"ipc"} \cup (config \cap {"telegram", "qq"})
      [] step \in {"observe", "dashboard"} -> {step}
      [] OTHER -> {}

StartStep ==
    /\ appPhase = "starting" /\ appStep <= Len(StartOrder)
    /\ up' = up \cup Brings(StartOrder[appStep])
    /\ held' = held \cup Handles(StartOrder[appStep])
    /\ appStep' = appStep + 1
    /\ UNCHANGED <<config, appPhase, raisedTasks, cause, failures, untidy, belated, pollingConflict, appFaults>>

\* What it has brought so far stays: not what comes last in it.  The observe task has
\* only to be created.
StartFails ==
    /\ appPhase = "starting" /\ appStep <= Len(StartOrder) /\ appFaults < MaxAppFaults
    /\ StartOrder[appStep] # "observe" /\ (StartOrder[appStep] \in Optional => StartOrder[appStep] \in config)
    /\ \E some \in SUBSET (Brings(StartOrder[appStep]) \ {"poller", "polling", "dashboard"}) : up' = up \cup some
    /\ cause' = StartOrder[appStep] /\ appPhase' = "ending" /\ appStep' = 1
    /\ appFaults' = appFaults + 1
    /\ UNCHANGED <<config, held, raisedTasks, failures, untidy, belated, pollingConflict>>

\* The tasks are begun by run's gather.
Started ==
    /\ appPhase = "starting" /\ appStep = Len(StartOrder) + 1
    /\ appPhase' = "running" /\ up' = up \cup {"loop", "tasks"}
    /\ UNCHANGED <<config, appStep, held, raisedTasks, cause, failures, untidy, belated, pollingConflict, appFaults>>

-----------------------------------------------------------------------------
(* While it runs                                                            *)

\* There are turns: of messages, of the proactive loop, of scheduled jobs.
TurnsRun == up \cap {"loop", "tasks", "work"} # {} /\ appPhase \notin {"over", "cut"}

\* A tool call of a turn starts a peer: also during shutdown.
PeerSpawns ==
    /\ TurnsRun /\ "peers" \in config /\ "peer" \notin up
    /\ up' = up \cup {"peer"}
    /\ belated' = IF appPhase = "ending" /\ appStep > 3 THEN belated \cup {"peer"} ELSE belated
    /\ UNCHANGED <<config, appPhase, appStep, held, raisedTasks, cause, failures, untidy,
                   pollingConflict, appFaults>>

\* What it leaves to a task of its own: it uses stores and clients until it is done.
WorkBegins ==
    /\ TurnsRun /\ up' = up \cup {"work"}
    /\ UNCHANGED <<config, appPhase, appStep, held, raisedTasks, cause, failures, untidy, belated,
                   pollingConflict, appFaults>>

WorkEnds ==
    /\ "work" \in up /\ appPhase \notin {"over", "cut"} /\ up' = up \ {"work"}
    /\ UNCHANGED <<config, appPhase, appStep, held, raisedTasks, cause, failures, untidy, belated,
                   pollingConflict, appFaults>>

\* _on_polling_error: another instance polls; the first conflict ends the polling,
\* and its bot goes on sending.
PollingConflicts ==
    /\ appPhase = "running" /\ "polling" \in up /\ ~pollingConflict
    /\ pollingConflict' = TRUE
    /\ \/ up' = up \ {"polling"} /\ UNCHANGED appFaults
       \/ appFaults < MaxAppFaults /\ appFaults' = appFaults + 1 /\ UNCHANGED up
    /\ UNCHANGED <<config, appPhase, appStep, held, raisedTasks, cause, failures, untidy, belated>>

\* The writer of traces cannot open its database; nobody waits for its task.
ObserveDies ==
    /\ appPhase = "running" \/ (appPhase = "ending" /\ appStep = 1 /\ "dashboard" \in held)
    /\ "observe" \in up /\ appFaults < MaxAppFaults
    /\ up' = up \ {"observe"} /\ raisedTasks' = raisedTasks \cup {"observe"} /\ appFaults' = appFaults + 1
    /\ UNCHANGED <<config, appPhase, appStep, held, cause, failures, untidy, belated, pollingConflict>>

EndBegins(why) == appPhase' = "ending" /\ appStep' = 1 /\ cause' = why

\* gather is cancelled, and with it every task, the dashboard's among them.  The first
\* that is over ends the gather; AgentLoop.run, if a turn runs, ends the turn and goes on.
RunCancelled ==
    /\ appPhase = "running"
    /\ \/ EndBegins("cancelled") /\ up' = up \ {"loop", "tasks", "dashboard"}
       \/ "loop" \in up /\ EndBegins("swallowed") /\ up' = up \ {"tasks", "dashboard"}
    /\ UNCHANGED <<config, held, raisedTasks, failures, untidy, belated, pollingConflict, appFaults>>

\* gather passes on the first error; the other tasks go on.
TaskFails ==
    /\ appPhase = "running" /\ appFaults < MaxAppFaults
    /\ appFaults' = appFaults + 1
    /\ \/ EndBegins("task") /\ up' \in {up, up \ {"loop"}} /\ UNCHANGED raisedTasks
       \/ EndBegins("dashboard") /\ up' = up \ {"dashboard"} /\ raisedTasks' = raisedTasks \cup {"dashboard"}
    /\ UNCHANGED <<config, held, failures, untidy, belated, pollingConflict>>

-----------------------------------------------------------------------------
(* shutdown                                                                 *)

ShutdownOver == appPhase' = "over" /\ UNCHANGED appStep

\* await of dashboard_task and observe_task: one that was cancelled is over; the
\* error of one that has raised is the end of shutdown.
AwaitsTask ==
    /\ appPhase = "ending" /\ appStep <= 2
    /\ LET task == EndOrder[appStep]
       IN  \/ /\ task \notin held \/ task \notin raisedTasks
              /\ up' = IF task \in held THEN up \ {task} ELSE up
              /\ appStep' = appStep + 1 /\ UNCHANGED <<appPhase, failures, raisedTasks, appFaults>>
           \/ /\ task \in held \cap raisedTasks
              /\ failures' = Append(failures, task) /\ ShutdownOver /\ UNCHANGED <<up, raisedTasks, appFaults>>
           \/ /\ task = "dashboard" /\ task \in up /\ appFaults < MaxAppFaults
              /\ failures' = Append(failures, task) /\ ShutdownOver
              /\ up' = up \ {task} /\ raisedTasks' = raisedTasks \cup {task} /\ appFaults' = appFaults + 1
    /\ UNCHANGED <<config, held, cause, untidy, belated, pollingConflict>>

\* What a cleanup step is to end; those without a handle have nothing to do.
Ends(step) ==
    CASE step = "core.stop" /\ "core" \in held -> {"poller", "peer"}
      [] step = "telegram.stop" /\ "telegram" \in held -> TelegramParts
      [] step = "qq.stop" /\ "qq" \in held -> {"qq"}
      [] step = "memory" /\ "core" \in held -> {"memory"}
      [] step = "http" -> {"http"}
      [] OTHER -> {}

\* Mutant: an error is the end of the cleanup.
GoesOn_raising(failed) == IF failed \/ appStep = Len(EndOrder)
                          THEN ShutdownOver ELSE appStep' = appStep + 1 /\ UNCHANGED appPhase

\* _run_cleanup_steps goes on whether a step has failed or not.
GoesOn(failed) == IF appStep = Len(EndOrder)
                  THEN ShutdownOver ELSE appStep' = appStep + 1 /\ UNCHANGED appPhase

\* The IPC server was never started (channels.py:26), so its stop has nothing to
\* close and raises.  A peer that cannot be killed is no error (return_exceptions).
CleanupStep ==
    /\ appPhase = "ending" /\ appStep > 2
    /\ LET step == EndOrder[appStep]
           unstarted == step = "ipc.stop" /\ "ipc" \in held
       IN  \/ /\ ~unstarted
              /\ up' = up \ Ends(step)
              /\ GoesOn(FALSE) /\ UNCHANGED <<failures, untidy, appFaults>>
           \/ /\ unstarted
              /\ failures' = Append(failures, step)
              /\ GoesOn(TRUE) /\ UNCHANGED <<up, untidy, appFaults>>
           \/ /\ Ends(step) \cap up # {} /\ appFaults < MaxAppFaults
              /\ appFaults' = appFaults + 1
              /\ \E rest \in SUBSET (Ends(step) \cap up) \ {{}} :
                    /\ step = "core.stop" => rest = {"peer"}
                    /\ "polling" \in rest => "telegram" \in rest
                    /\ up' = (up \ Ends(step)) \cup rest
                    /\ untidy' = untidy \cup rest
              /\ failures' = IF step = "core.stop" THEN failures ELSE Append(failures, step)
              /\ GoesOn(step # "core.stop")
    /\ UNCHANGED <<config, held, raisedTasks, cause, belated, pollingConflict>>

\* The process is interrupted while a cleanup step waits: _run_cleanup_steps catches no
\* cancellation.  One that has been interrupted before is killed by the next.
CleanupCut ==
    /\ appPhase = "ending" /\ appStep > 2 /\ cause \notin {"cancelled", "swallowed"}
    /\ appPhase' = "cut"
    /\ UNCHANGED <<config, appStep, up, held, raisedTasks, cause, failures, untidy, belated,
                   pollingConflict, appFaults>>

AppNext ==
    \/ StartStep \/ StartFails \/ Started \/ PeerSpawns \/ WorkBegins \/ WorkEnds
    \/ PollingConflicts \/ ObserveDies
    \/ RunCancelled \/ TaskFails \/ AwaitsTask \/ CleanupStep \/ CleanupCut

AppSpec == AppInit /\ [][AppNext]_appVars

-----------------------------------------------------------------------------
AppTypeOK ==
    /\ appPhase \in {"starting", "running", "ending", "over", "cut"}
    /\ up \subseteq {"http", "memory", "mcp", "poller", "peer", "telegram", "polling", "qq",
                     "observe", "dashboard", "loop", "tasks", "work"}
    /\ belated \subseteq {"peer"}
    /\ untidy \subseteq up \cup {"peer"} /\ appFaults <= MaxAppFaults

\* The handle of what runs is there, but for a start that failed in between.
Unheld ==
    CASE cause = "core" -> {"memory"}
      [] cause \in {"telegram", "qq"} -> {"telegram", "polling", "qq"}
      [] OTHER -> {}

\* What nobody ends: the other tasks when one has failed, the loop if it swallowed the
\* cancellation, what turns left behind, and a peer that came after core.stop.
Unended ==
    {"work"} \cup belated \cup
        CASE cause = "task" -> {"loop", "tasks"}
          [] cause = "swallowed" -> {"loop"}
          [] OTHER -> {}

\* What is left when shutdown is over: MCP clients; what could not be ended; what the
\* start that failed had no handle of; what nobody ends; and everything, if the dashboard
\* or the writer of traces had failed, or shutdown was interrupted.
NothingElseIsLeft ==
    appPhase = "over" /\ raisedTasks = {} => up \subseteq {"mcp"} \cup untidy \cup Unheld \cup Unended

\* Clients and stores are closed when those that use them are no more.  The exceptions
\* are the same: what nobody ends finds its stores and clients closed.
UsersEndFirst ==
    LET excused == untidy \cup Unheld \cup Unended
    IN  /\ "memory" \notin up =>
            up \cap {"loop", "tasks", "work", "telegram", "polling", "qq", "dashboard"} \subseteq excused
        /\ "http" \notin up => up \cap {"poller", "peer", "qq", "loop", "tasks", "work"} \subseteq excused

\* What could not be closed is told by the error that run ends with.
FailuresAreTold == appPhase = "over" /\ untidy \ {"peer"} # {} => failures # <<>>

(***************************************************************************)
(* Whichever step of start or shutdown fails, and whatever dies in         *)
(* between, the parts that are held are ended, users before what they use, *)
(* and what could not be ended is told.  Not ended are a loop that         *)
(* swallowed its cancellation, and the tasks that have no owner.           *)
(***************************************************************************)
EndIsClean == NothingElseIsLeft /\ UsersEndFirst /\ FailuresAreTold
=============================================================================
