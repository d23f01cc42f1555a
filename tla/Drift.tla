------------------------------- MODULE Drift --------------------------------
(***************************************************************************)
(* Drift runs: what the model may do in the steps of a run, and the two    *)
(* files in which finish_drift records it, state.json of the skill and     *)
(* drift.json (proactive_v2/drift_runner.py, drift_tools.py,               *)
(* drift_state.py, infra/persistence/json_store.py).                       *)
(*                                                                         *)
(* A run's time (now_utc of its tick) is its number.  ProactiveTick models *)
(* when a run begins and what becomes of its message.                      *)
(***************************************************************************)
EXTENDS Integers, FiniteSets, Sequences, SequencesExt, FiniteSetsExt

CONSTANTS
    Skills,         \* names under skills/
    Servers,        \* names of MCP servers
    RequiresMcp,    \* requires_mcp of each skill's SKILL.md
    Allowed,        \* allowed_tool_risks
    DriftSteps,     \* max_steps
    RecentCap,      \* entries kept in recent_runs
    PromptCap,      \* of which the prompt shows the newest
    MaxRuns         \* bound on runs

ASSUME DriftAssumption ==
    /\ RequiresMcp \in [Skills -> SUBSET Servers]
    /\ Allowed \subseteq {"read-only", "write", "external-side-effect"}
    /\ DriftSteps \in Nat /\ {RecentCap, PromptCap} \subseteq Nat \ {0} /\ MaxRuns \in Nat

VARIABLES
    valid,          \* skills with a SKILL.md that parses
    servers,        \* MCP servers with tools in the shared registry
    runCount, lastRun,      \* state.json of each skill; 0 where there is none
    recentRuns,     \* recent_runs of drift.json
    drift,          \* none, asking, recording: between the two files
    steps,          \* in this run
    mountable,      \* mount_server is registered in this run
    mounted,        \* servers whose tools are in mounted_tool_names
    sent,           \* ctx.drift_message_sent
    using,          \* the skill finish_drift was called with
    promptRuns,     \* the runs the system prompt of this run listed, newest first
    rewritten,      \* history: a tool wrote one of these files, bounded to once
    acked,          \* history: runs whose finish_drift answered ok, oldest first
    pushes,         \* history: messages of this run that arrived
    unsure,         \* history: those of them whose send raised or said it failed
    runs            \* number of this run

files == <<valid, runCount, lastRun, recentRuns, rewritten>>
run == <<mountable, mounted, sent, promptRuns, pushes, unsure>>
driftVars == <<files, servers, drift, steps, run, using, acked, runs>>

Entry == [skill : Skills, at : 1..MaxRuns]

DriftTypeOK ==
    /\ valid \subseteq Skills /\ servers \subseteq Servers /\ mounted \subseteq Servers
    /\ runCount \in [Skills -> Nat] /\ lastRun \in [Skills -> 0..MaxRuns]
    /\ recentRuns \in Seq(Entry) /\ Len(recentRuns) <= RecentCap
    /\ promptRuns \in Seq(Entry) /\ acked \in Seq(Entry)
    /\ drift \in {"none", "asking", "recording"} /\ steps \in 0..DriftSteps
    /\ {mountable, sent, rewritten} \subseteq BOOLEAN /\ using \in Skills \cup {"none"}
    /\ {pushes, unsure} \subseteq Nat /\ runs \in 0..MaxRuns

DriftInit ==
    /\ valid = Skills /\ servers = Servers
    /\ runCount = [k \in Skills |-> 0] /\ lastRun = [k \in Skills |-> 0]
    /\ recentRuns = <<>> /\ drift = "none" /\ steps = 0 /\ mountable = FALSE
    /\ mounted = {} /\ sent = FALSE /\ using = "none" /\ promptRuns = <<>>
    /\ acked = <<>> /\ pushes = 0 /\ unsure = 0 /\ runs = 0 /\ rewritten = FALSE

-----------------------------------------------------------------------------
(* The tools of a run                                                       *)

Readers == {"read_file", "recall_memory", "web_fetch", "web_search", "fetch_messages",
            "search_messages"}
Editing == {"write_file", "edit_file"}

Registered ==
    Readers \cup Editing \cup {"shell", "message_push", "finish_drift"}
        \cup IF mountable THEN {"mount_server"} ELSE {}

Risk(tool) ==
    CASE tool \in Readers \cup {"mount_server"} -> "read-only"
      [] tool \in Editing \cup {"finish_drift"} -> "write"
      [] OTHER -> "external-side-effect"

\* ToolRiskGuardHook: only a registered tool has a risk to refuse.
Refused(tool) == tool \in Registered /\ Risk(tool) \notin Allowed

-----------------------------------------------------------------------------
(* The loop                                                                 *)

LastN(s, n) == IF Len(s) <= n THEN s ELSE SubSeq(s, Len(s) - n + 1, Len(s))

\* scan_skills: a directory with a SKILL.md that parses, once per name.
Scanned == valid
Runnable == {k \in Scanned : RequiresMcp[k] \subseteq servers}

\* The part of _build_system_prompt that recorded runs decide.
PromptOf(list) == Reverse(LastN(list, PromptCap))

DriftRunBegins ==
    /\ drift = "none" /\ runs < MaxRuns /\ Runnable # {}
    /\ drift' = "asking" /\ runs' = runs + 1
    /\ mountable' = (servers # {}) /\ promptRuns' = PromptOf(recentRuns)
    /\ UNCHANGED <<files, servers, steps, mounted, sent, pushes, unsure, using, acked>>

\* The context and the messages of the run are dropped.
Over ==
    /\ drift' = "none" /\ steps' = 0 /\ mountable' = FALSE /\ mounted' = {} /\ sent' = FALSE
    /\ promptRuns' = <<>> /\ pushes' = 0 /\ unsure' = 0 /\ using' = "none"

\* The step budget is used up, the model names no tool or a hook raises.
DriftRunEnds ==
    /\ drift = "asking" /\ Over
    /\ UNCHANGED <<files, servers, acked, runs>>

Step == drift = "asking" /\ steps < DriftSteps /\ steps' = steps + 1

\* A refused call, one the tool refuses or that raises in it, an unknown tool, a
\* tool that reads, or one of a mounted server: the answer goes to the model.
CallOnlyAnswers ==
    /\ Step
    /\ \/ \E tool \in Registered \ Editing : Refused(tool) \/ tool # "shell"
       \/ mounted # {}
    /\ UNCHANGED <<files, servers, drift, run, using, acked, runs>>

\* _load_skill_meta accepts a SKILL.md that was completed, and no more a spoilt one.
Edited(k) == {valid, valid \cup {k}, valid \ {k}}

\* What a tool may leave of the two records of a skill: a file that is gone or
\* does not parse counts as empty, and one that does says what the model wrote.
Rewrites(k) ==
    \/ /\ runCount' = [runCount EXCEPT ![k] = 0] /\ lastRun' = [lastRun EXCEPT ![k] = 0]
       /\ UNCHANGED recentRuns
    \/ /\ recentRuns' \in {<<>>, <<[skill |-> k, at |-> MaxRuns]>>}
       /\ UNCHANGED <<runCount, lastRun>>

\* write_file, edit_file and shell may do any of it: all of it lies in their directory.
CallChangesFiles ==
    /\ Step /\ \E tool \in Editing \cup {"shell"} : ~Refused(tool)
    /\ \E k \in Skills :
        \/ valid' \in Edited(k) /\ UNCHANGED <<runCount, lastRun, recentRuns, rewritten>>
        \/ ~rewritten /\ rewritten' = TRUE /\ Rewrites(k) /\ UNCHANGED valid
    /\ UNCHANGED <<servers, drift, run, using, acked, runs>>

\* SendMessageTool.execute with a text: the flag is set by a send that says it
\* succeeded.  One that raised or said it failed may have arrived all the same.
CallPushes ==
    /\ Step /\ ~Refused("message_push") /\ ~sent /\ pushes' = pushes + 1
    /\ \/ sent' = TRUE /\ UNCHANGED unsure
       \/ unsure' = unsure + 1 /\ UNCHANGED sent
    /\ UNCHANGED <<files, servers, drift, mountable, mounted, promptRuns, using, acked, runs>>

CallMounts(server) ==
    /\ Step /\ mountable /\ ~Refused("mount_server") /\ server \in servers
    /\ mounted' = mounted \cup {server}
    /\ UNCHANGED <<files, servers, drift, mountable, sent, promptRuns, pushes, unsure, using, acked, runs>>

-----------------------------------------------------------------------------
(* finish_drift                                                             *)

\* Mutant: drift.json is written first.
CallFinishes_listFirst(k) ==
    /\ Step /\ ~Refused("finish_drift") /\ k \in Scanned
    /\ recentRuns' = LastN(Append(recentRuns, [skill |-> k, at |-> runs]), RecentCap)
    /\ drift' = "recording" /\ using' = k
    /\ UNCHANGED <<valid, runCount, lastRun, rewritten, servers, run, acked, runs>>

\* The skill exists, and its state.json is written.
CallFinishes(k) ==
    /\ Step /\ ~Refused("finish_drift") /\ k \in Scanned
    /\ runCount' = [runCount EXCEPT ![k] = @ + 1] /\ lastRun' = [lastRun EXCEPT ![k] = runs]
    /\ drift' = "recording" /\ using' = k
    /\ UNCHANGED <<valid, recentRuns, rewritten, servers, run, acked, runs>>

\* drift.json is replaced, and the run ends with ctx.drift_finished.
FinishLists ==
    LET entry == [skill |-> using, at |-> runs]
    IN  /\ drift = "recording" /\ Over
        /\ recentRuns' = LastN(Append(recentRuns, entry), RecentCap)
        /\ acked' = Append(acked, entry)
        /\ UNCHANGED <<valid, runCount, lastRun, rewritten, servers, runs>>

\* Writing drift.json raises: the model is told, and may finish again.
FinishFails ==
    /\ drift = "recording" /\ drift' = "asking" /\ using' = "none"
    /\ UNCHANGED <<files, servers, steps, run, acked, runs>>

-----------------------------------------------------------------------------
\* A server appears or is lost.
ServersChange ==
    /\ \E srv \in Servers : servers' \in {servers \cup {srv}, servers \ {srv}}
    /\ servers' # servers
    /\ UNCHANGED <<files, drift, steps, run, using, acked, runs>>

\* The process dies, perhaps after drift.json was replaced and before it answered.
DriftDies ==
    /\ drift # "none" /\ Over
    /\ recentRuns' \in {recentRuns} \cup
         (IF drift = "recording"
          THEN {LastN(Append(recentRuns, [skill |-> using, at |-> runs]), RecentCap)}
          ELSE {})
    /\ UNCHANGED <<valid, runCount, lastRun, rewritten, servers, acked, runs>>

DriftNext ==
    \/ DriftRunBegins \/ DriftRunEnds \/ CallOnlyAnswers \/ CallChangesFiles \/ CallPushes
    \/ \E server \in Servers : CallMounts(server)
    \/ \E k \in Skills : CallFinishes(k)
    \/ FinishLists \/ FinishFails \/ ServersChange \/ DriftDies

DriftSpec == DriftInit /\ [][DriftNext]_driftVars

-----------------------------------------------------------------------------
(***************************************************************************)
(* The two files agree whatever fails or dies between them, as long as no  *)
(* tool of a run has written them by itself: each listed run was counted   *)
(* by its skill and is no later than the skill's last run, runs are listed *)
(* in order, and a run that was acknowledged is listed unless newer ones   *)
(* filled the list.  A later run's prompt shows it, or a newer one.  And   *)
(* of the messages of a run that arrived, all but one were said to have    *)
(* failed, and it says that it sent one if and only if one was not.        *)
(***************************************************************************)
Listed(k) == {i \in DOMAIN recentRuns : recentRuns[i].skill = k}

RecordsAgree ==
    /\ \A k \in Skills :
        /\ Cardinality(Listed(k)) <= runCount[k]
        /\ \A i \in Listed(k) : recentRuns[i].at <= lastRun[k]
    /\ \A i \in DOMAIN recentRuns, j \in DOMAIN recentRuns :
        i < j => recentRuns[i].at < recentRuns[j].at
    /\ \A e \in ToSet(acked) :
        \/ e \in ToSet(recentRuns)
        \/ Len(recentRuns) = RecentCap /\ e.at < recentRuns[1].at
    /\ drift # "none" =>
        \A e \in ToSet(acked) : promptRuns # <<>> /\ e.at <= promptRuns[1].at

DriftIsRecorded ==
    /\ ~rewritten => RecordsAgree
    /\ pushes = unsure + (IF sent THEN 1 ELSE 0)
=============================================================================
