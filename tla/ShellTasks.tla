----------------------------- MODULE ShellTasks -----------------------------
(***************************************************************************)
(* Commands of the shell tool and the background tasks they become: the    *)
(* registry, the output pump, the timeout timer, the delayed eviction, and *)
(* the calls of task_output and task_stop that meet them                   *)
(* (agent/tools/shell.py).                                                 *)
(*                                                                         *)
(* Durations are not counted: a deadline passes, a grace period ends or a  *)
(* timer fires at any later moment.                                        *)
(***************************************************************************)
EXTENDS FiniteSets

CONSTANT Commands

VARIABLES
    pc,          \* how far the shell call is: new, fg, finalize, bg, over
    proc,        \* the process group: none, alive, exited by itself, killed
    pump,        \* _bg_pump: none, running, done, cancelled
    deadline,    \* timeout_s against the clock: none, ahead, passed
    registered,  \* keys of _BG_REGISTRY
    timer,       \* tasks whose timeout_handle is armed
    evicting,    \* tasks with a pending _evict
    log,         \* log files on disk
    waiting,     \* tasks a task_output call with block=true waits for
    broken       \* history: such calls that ended their turn

shellVars == <<pc, proc, pump, deadline, registered, timer, evicting, log, waiting,
               broken>>
call == <<pc, deadline>>
output == <<waiting, broken>>

ShellTypeOK ==
    /\ pc \in [Commands -> {"new", "fg", "finalize", "bg", "over"}]
    /\ proc \in [Commands -> {"none", "alive", "exited", "killed"}]
    /\ pump \in [Commands -> {"none", "running", "done", "cancelled"}]
    /\ deadline \in [Commands -> {"none", "ahead", "passed"}]
    /\ timer \subseteq registered /\ registered \subseteq Commands
    /\ evicting \subseteq Commands /\ log \subseteq Commands
    /\ waiting \subseteq registered /\ broken \subseteq Commands

ShellInit ==
    /\ pc = [c \in Commands |-> "new"] /\ proc = [c \in Commands |-> "none"]
    /\ pump = [c \in Commands |-> "none"] /\ deadline = [c \in Commands |-> "none"]
    /\ registered = {} /\ timer = {} /\ evicting = {} /\ log = {}
    /\ waiting = {} /\ broken = {}

-----------------------------------------------------------------------------
(* The shell call.                                                          *)

\* mkstemp, create_subprocess_shell, the pump.
Launch(c, limit) ==
    /\ pc[c] = "new"
    /\ log' = log \cup {c}
    /\ proc' = [proc EXCEPT ![c] = "alive"] /\ pump' = [pump EXCEPT ![c] = "running"]
    /\ deadline' = [deadline EXCEPT ![c] = limit]

Register(c, limit) ==
    /\ registered' = registered \cup {c}
    /\ timer' = IF limit = "none" THEN timer ELSE timer \cup {c}

StartForeground(c) ==
    /\ Launch(c, "ahead") /\ pc' = [pc EXCEPT ![c] = "fg"]
    /\ UNCHANGED <<registered, timer, evicting, output>>

\* run_in_background: a deadline only when the caller gave a timeout.
StartBackground(c) ==
    \E limit \in {"none", "ahead"} :
        /\ Launch(c, limit) /\ Register(c, limit) /\ pc' = [pc EXCEPT ![c] = "bg"]
        /\ UNCHANGED <<evicting, output>>

\* The process cannot be created; the empty log stays.
StartFails(c) ==
    /\ pc[c] = "new" /\ pc' = [pc EXCEPT ![c] = "over"] /\ log' = log \cup {c}
    /\ UNCHANGED <<proc, pump, deadline, registered, timer, evicting, output>>

Answered(c) ==
    /\ pc[c] = "fg" /\ pump[c] = "done"
    /\ pc' = [pc EXCEPT ![c] = "over"] /\ log' = log \ {c}
    /\ UNCHANGED <<proc, pump, deadline, registered, timer, evicting, output>>

\* Mutant: the promoted task keeps its deadline and gets no timer.
Promote_unarmed(c) ==
    /\ pc[c] = "fg" /\ deadline[c] = "ahead"
    /\ pc' = [pc EXCEPT ![c] = "bg"] /\ Register(c, "none")
    /\ evicting' = IF pump[c] = "done" THEN evicting \cup {c} ELSE evicting
    /\ UNCHANGED <<proc, pump, deadline, log, output>>

\* The wait of at most _FG_THRESHOLD ends before the deadline.  The pump may
\* have finished in between: its new done callback then runs at once.
Promote(c) ==
    /\ pc[c] = "fg" /\ deadline[c] = "ahead"
    /\ pc' = [pc EXCEPT ![c] = "bg"] /\ Register(c, "ahead")
    /\ evicting' = IF pump[c] = "done" THEN evicting \cup {c} ELSE evicting
    /\ UNCHANGED <<proc, pump, deadline, log, output>>

KillGroup(c) == proc' = [proc EXCEPT ![c] = IF @ = "alive" THEN "killed" ELSE @]

\* The wait ends at the deadline.
TimeOut(c) ==
    /\ pc[c] = "fg" /\ deadline[c] = "passed"
    /\ pc' = [pc EXCEPT ![c] = "finalize"] /\ KillGroup(c)
    /\ UNCHANGED <<pump, deadline, registered, timer, evicting, log, output>>

StopPump(c) == pump' = [pump EXCEPT ![c] = IF @ = "running" THEN "cancelled" ELSE @]

\* The drain grace ends: what was read is the answer.
Finalize(c) ==
    /\ pc[c] = "finalize"
    /\ pc' = [pc EXCEPT ![c] = "over"] /\ StopPump(c) /\ log' = log \ {c}
    /\ UNCHANGED <<proc, deadline, registered, timer, evicting, output>>

\* Mutant: the turn is cancelled and the process left alone.
CancelForeground_spared(c) ==
    /\ pc[c] = "fg"
    /\ pc' = [pc EXCEPT ![c] = "over"] /\ StopPump(c) /\ log' = log \ {c}
    /\ UNCHANGED <<proc, deadline, registered, timer, evicting, output>>

\* The turn of a call that waits in the foreground is cancelled.
CancelForeground(c) ==
    /\ pc[c] = "fg"
    /\ pc' = [pc EXCEPT ![c] = "over"]
    /\ KillGroup(c) /\ StopPump(c) /\ log' = log \ {c}
    /\ UNCHANGED <<deadline, registered, timer, evicting, output>>

\* ... and of one in its drain grace, where nothing handles it.
CancelFinalize(c) ==
    /\ pc[c] = "finalize" /\ pc' = [pc EXCEPT ![c] = "over"]
    /\ UNCHANGED <<proc, pump, deadline, registered, timer, evicting, log, output>>

-----------------------------------------------------------------------------
(* What goes on while nobody calls.                                         *)

Exit(c) ==
    /\ proc[c] = "alive" /\ proc' = [proc EXCEPT ![c] = "exited"]
    /\ UNCHANGED <<call, pump, registered, timer, evicting, log, output>>

DeadlinePasses(c) ==
    /\ deadline[c] = "ahead" /\ deadline' = [deadline EXCEPT ![c] = "passed"]
    /\ UNCHANGED <<pc, proc, pump, registered, timer, evicting, log, output>>

\* Only a background task has the done callback that schedules the eviction.
PumpEnds(c) ==
    /\ pump[c] = "running" /\ proc[c] \in {"exited", "killed"}
    /\ pump' = [pump EXCEPT ![c] = "done"]
    /\ evicting' = IF pc[c] = "bg" THEN evicting \cup {c} ELSE evicting
    /\ UNCHANGED <<call, proc, registered, timer, log, output>>

\* _bg_kill.  Cancelling the pump runs its done callback, and cancels whoever
\* waits for it through asyncio.shield.
BgKill(c) ==
    /\ registered' = registered \ {c} /\ timer' = timer \ {c} /\ log' = log \ {c}
    /\ KillGroup(c) /\ StopPump(c)
    /\ evicting' = IF pump[c] = "running" THEN evicting \cup {c} ELSE evicting
    /\ waiting' = waiting \ {c}
    /\ broken' = IF pump[c] = "running" /\ c \in waiting THEN broken \cup {c} ELSE broken
    /\ UNCHANGED call

TimerFires(c) == c \in timer /\ deadline[c] = "passed" /\ BgKill(c)

\* Mutant: the timer of an evicted task is left armed.
Evict_armed(c) ==
    /\ c \in evicting /\ evicting' = evicting \ {c}
    /\ registered' = registered \ {c} /\ log' = log \ {c} /\ waiting' = waiting \ {c}
    /\ UNCHANGED <<call, proc, pump, timer, broken>>

\* _evict.  A call waiting for the pump returned when the pump ended.
Evict(c) ==
    /\ c \in evicting /\ evicting' = evicting \ {c}
    /\ registered' = registered \ {c} /\ timer' = timer \ {c} /\ log' = log \ {c}
    /\ waiting' = waiting \ {c}
    /\ UNCHANGED <<call, proc, pump, broken>>

-----------------------------------------------------------------------------
(* task_output and task_stop.                                               *)

\* The task is past its timeout, or (after any time) past _BG_TTL_S.
OutputExpired(c) == c \in registered /\ BgKill(c)

OutputBlocks(c) ==
    /\ c \in registered /\ deadline[c] # "passed" /\ pump[c] = "running"
    /\ waiting' = waiting \cup {c}
    /\ UNCHANGED <<call, proc, pump, registered, timer, evicting, log, broken>>

\* The pump ends, timeout_ms is over, or the turn is cancelled.
OutputReturns(c) ==
    /\ c \in waiting /\ waiting' = waiting \ {c}
    /\ UNCHANGED <<call, proc, pump, registered, timer, evicting, log, broken>>

TaskStop(c) == c \in registered /\ BgKill(c)

ShellCall(c) ==
    \/ StartForeground(c) \/ StartBackground(c) \/ StartFails(c)
    \/ Answered(c) \/ Promote(c) \/ TimeOut(c) \/ Finalize(c)
    \/ CancelForeground(c) \/ CancelFinalize(c)
ShellStep(c) ==
    \/ ShellCall(c)
    \/ Exit(c) \/ DeadlinePasses(c) \/ PumpEnds(c) \/ TimerFires(c) \/ Evict(c)
    \/ OutputExpired(c) \/ OutputBlocks(c) \/ OutputReturns(c) \/ TaskStop(c)
ShellNext == \E c \in Commands : ShellStep(c)

\* The event loop runs armed timers and ready tasks; time passes.
ShellFairness ==
    \A c \in Commands :
        /\ WF_shellVars(DeadlinePasses(c)) /\ WF_shellVars(TimerFires(c))
        /\ WF_shellVars(PumpEnds(c)) /\ WF_shellVars(Evict(c))
        /\ WF_shellVars(Promote(c) \/ TimeOut(c) \/ Answered(c))

ShellSpec == ShellInit /\ [][ShellNext]_shellVars /\ ShellFairness

-----------------------------------------------------------------------------
\* A live process has somebody who can stop it: the turn that waits for it or
\* the registry; and what is in the registry can be read.
LiveIsReachable ==
    /\ \A c \in Commands : proc[c] = "alive" => pc[c] = "fg" \/ c \in registered
    /\ registered \subseteq log

\* A background task with a timeout ends, and leaves the registry and no log,
\* whether it was started in the background or promoted, and whoever calls.
TimedTaskEnds ==
    \A c \in Commands :
        c \in registered /\ deadline[c] # "none"
            ~> proc[c] # "alive" /\ c \notin registered \cup log

\* task_output: a call that blocks "waits for the task to finish or timeout_ms
\* to pass, then returns".
WaitReturns == broken = {}

\* A task that ended in time keeps its entry and its log for _BG_EVICT_DELAY_S:
\* no timer is left that would take them away sooner.
EndedKeepsItsDelay == \A c \in timer : pump[c] # "done"
=============================================================================
