---------------------------- MODULE MCBackground ----------------------------
(***************************************************************************)
(* The tool loop of a turn, shell commands, subagent jobs and the tasks of *)
(* a peer agent share no variable.  A behaviour moves one of the four, the *)
(* one in `system'; all but the tool loop do so under one of its two       *)
(* initial states.                                                         *)
(***************************************************************************)
EXTENDS ShellTasks, SpawnJobs, ToolLoop, PeerTasks

CONSTANTS t, s, u, m        \* deferred tools

Call(tool) == [tool |-> tool, args |-> 1]

\* A search and a use of what it may find in one response, a management call
\* behind a server's tool, a denied tool, and the calls that loop detection skips.
MCBatches ==
    {<<Call("tool_search"), Call(t)>>, <<Call(t)>>, <<Call(u), Call(m)>>,
     <<Call("shell")>>, <<Call("task_output")>>, <<Call(s)>>}

VARIABLE system

Init ==
    /\ ShellInit /\ SpawnInit /\ ToolInit /\ PeerInit
    /\ (system \in {"shell", "jobs", "peers"} /\ searching) \/ system = "tools"

Spec ==
    /\ Init
    /\ [][/\ UNCHANGED system
          /\ \/ system = "shell" /\ ShellNext /\ UNCHANGED <<spawnVars, toolVars, peerVars>>
             \/ system = "jobs" /\ SpawnNext /\ UNCHANGED <<shellVars, toolVars, peerVars>>
             \/ system = "tools" /\ ToolNext /\ UNCHANGED <<shellVars, spawnVars, peerVars>>
             \/ system = "peers" /\ PeerNext /\ UNCHANGED <<shellVars, spawnVars, toolVars>>
         ]_<<system, shellVars, spawnVars, toolVars, peerVars>>
    /\ ShellFairness /\ SpawnFairness /\ ToolFairness /\ PeerFairness

BackgroundTypeOK == ShellTypeOK /\ SpawnTypeOK /\ ToolTypeOK /\ PeerTypeOK

(***************************************************************************)
(* What runs behind the turn is told of in the chat that asked for it: a   *)
(* subagent's job and a peer's task.                                       *)
(***************************************************************************)
JobsAreTold == EveryJobTold /\ PendingIsTold
=============================================================================
