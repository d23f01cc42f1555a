---------------------------- MODULE SubAgentLoop ----------------------------
(***************************************************************************)
(* One subagent: its bounded loop of requests and tool calls, the messages *)
(* it sends, the tools it must call before it gives up, its final summary, *)
(* and the status under which its end is reported (agent/subagent.py,      *)
(* agent/tool_runtime.py, agent/tool_hooks/executor.py,                    *)
(* agent/background/runtime.py, agent/background/subagent_manager.py).     *)
(*                                                                         *)
(* An entry of the messages is what one append adds: a text, a request for *)
(* n calls, or a result with the n user messages behind it that hold what  *)
(* it shows (the picture of a file; 0 or 1).  So the next result of a round *)
(* may come after a user message, as it may in the code.  A call keeps its *)
(* tool and arguments.                                                     *)
(***************************************************************************)
EXTENDS Integers, FiniteSets, Sequences, SequencesExt

CONSTANTS
    CallBatches,        \* what a response may ask for: sequences of calls
    ExitTools,          \* mandatory_exit_tools, a sequence
    MaxSteps,           \* max_iterations
    RecentRounds,       \* _RECENT_TOOL_ROUNDS
    MaxJobs             \* bound on runs

ASSUME SubAgentAssumption ==
    /\ {MaxSteps, RecentRounds} \subseteq Nat \ {0} /\ MaxJobs \in Nat
    /\ ExitTools \in Seq(STRING)
    /\ \A b \in CallBatches : b # <<>> /\ b \in Seq(ToSet(b))

VARIABLES
    profile,                \* of the job: its tools
    at,                     \* none, ask (a request), exec (its calls), exit, sum, final, done
    iteration,              \* iterations_used
    messages,
    callsLeft,              \* calls of the response still to make
    exits,                  \* mandatory exit tools still to run: their places in ExitTools
    after,                  \* what comes after them: sum or final
    signature, streak,      \* last_tool_signature, repeat_count
    reason,                 \* last_exit_reason
    text,                   \* what run() returns
    called,                 \* tools_called
    ran,                    \* history: tools whose code returned in this run
    forced,                 \* history: those of them that ran as its exit tools
    report,                 \* status of the job runner's last result
    jobCount

subVars == <<profile, at, iteration, messages, callsLeft, exits, after, signature, streak, reason, text,
             called, ran, forced, report, jobCount>>
owner == <<profile, jobCount>>
looping == <<iteration, signature, streak>>
tools == <<called, ran, forced>>
ending == <<reason, text, report>>

Research == {"read_file", "list_dir", "web_search", "web_fetch"}
Changing == {"write_file", "edit_file", "restore_checkpoint", "shell"}

\* build_spawn_spec: what the three profiles may use; another name means research.
ToolsOf(name) ==
    CASE name = "scripting" -> {"read_file", "list_dir"} \cup Changing
      [] name = "general" -> Research \cup Changing
      [] OTHER -> Research

KnownTools == ToolsOf(profile)
ExitsToRun == {i \in DOMAIN ExitTools : ExitTools[i] \in KnownTools}
Profiles == {"research", "scripting", "general", "unknown"}

Reasons == {"idle", "running", "error", "completed", "tool_loop", "forced_summary",
            "forced_summary_fallback"}
Texts == {"none", "answer", "summary", "default", "empty", "exception"}
Statuses == {"none", "completed", "incomplete", "error"}

CallLimit == 3          \* _TOOL_LOOP_REPEAT_LIMIT
NamesOf(batch) == SelectSeq(batch, LAMBDA c : c.tool \notin {"task_output", "task_stop"})

Say(what) == [kind |-> what, n |-> 0]
Asks(count) == [kind |-> "calls", n |-> count]
ResultWith(pictures) == [kind |-> "result", n |-> pictures]

SubTypeOK ==
    /\ profile \in Profiles
    /\ at \in {"none", "ask", "exec", "exit", "sum", "final", "done"}
    /\ iteration \in 0..MaxSteps /\ streak \in 0..CallLimit
    /\ messages \in Seq([kind : {"note", "calls", "result", "cleared"}, n : Nat])
    /\ \A c \in ToSet(callsLeft) : \E b \in CallBatches : c \in ToSet(b)
    /\ exits \subseteq ExitsToRun /\ after \in {"sum", "final"}
    /\ signature \in {NamesOf(b) : b \in CallBatches} \cup {<<>>}
    /\ reason \in Reasons /\ text \in Texts /\ report \in Statuses
    /\ {called, ran, forced} \subseteq SUBSET KnownTools /\ jobCount \in 0..MaxJobs

SubInit ==
    /\ profile = "research" /\ at = "none" /\ iteration = 0 /\ messages = <<>> /\ callsLeft = <<>> /\ exits = {}
    /\ after = "sum" /\ signature = <<>> /\ streak = 0
    /\ reason = "idle" /\ text = "none" /\ called = {} /\ ran = {} /\ forced = {} /\ report = "none"
    /\ jobCount = 0

-----------------------------------------------------------------------------
(* The messages of a request                                                *)

CallRounds(s) == {i \in DOMAIN s : s[i].kind = "calls"}

\* Mutant: the round at the boundary is cleared as well.
Trimmed_early(s) ==
    [i \in DOMAIN s |->
        IF s[i].kind = "result" /\ Cardinality({r \in CallRounds(s) : r > i}) >= RecentRounds - 1
        THEN [s[i] EXCEPT !.kind = "cleared"] ELSE s[i]]

\* _trim_tool_results: results before the newest rounds give way to a placeholder;
\* a picture stays, for it is no tool message.
Trimmed(s) ==
    [i \in DOMAIN s |->
        IF s[i].kind = "result" /\ Cardinality({r \in CallRounds(s) : r > i}) >= RecentRounds
        THEN [s[i] EXCEPT !.kind = "cleared"] ELSE s[i]]

-----------------------------------------------------------------------------
\* SubAgent.run begins.
SubBegins ==
    /\ profile' \in Profiles
    /\ at = "none" /\ jobCount < MaxJobs /\ jobCount' = jobCount + 1
    /\ at' = "ask" /\ iteration' = 1 /\ messages' = <<Say("note")>>
    /\ signature' = <<>> /\ streak' = 0 /\ reason' = "running" /\ text' = "none"
    /\ called' = {} /\ ran' = {} /\ forced' = {} /\ report' = "none"
    /\ UNCHANGED <<callsLeft, exits, after>>

End(why, what) == at' = "done" /\ reason' = why /\ text' = what

\* A request of the loop raises: no text at all.
SubRequestFails ==
    /\ at = "ask" /\ End("error", "empty")
    /\ UNCHANGED <<looping, messages, callsLeft, exits, after, tools, report, owner>>

SubAnswers ==
    /\ at = "ask" /\ End("completed", "answer")
    /\ UNCHANGED <<looping, messages, callsLeft, exits, after, tools, report, owner>>

\* The tools that must be called, if it has them, come first, then the last text.
WindUp(last) ==
    /\ exits' = ExitsToRun /\ after' = last
    /\ at' = IF exits' = {} THEN last ELSE "exit"

\* Mutant: the calls that were cut short are already in the messages.
SubCalls_appendFirst(batch) ==
    LET sig == NamesOf(batch)
    IN  /\ at = "ask" /\ signature' = sig
        /\ streak' = IF sig # <<>> /\ sig = signature THEN streak + 1 ELSE 1
        /\ messages' = Append(messages, Asks(Len(batch)))
        /\ IF streak' >= CallLimit
           THEN /\ WindUp("sum") /\ reason' = "tool_loop" /\ UNCHANGED callsLeft
           ELSE /\ at' = "exec" /\ callsLeft' = batch /\ UNCHANGED <<exits, after, reason>>
        /\ UNCHANGED <<iteration, tools, text, report, owner>>

\* The response has calls: they are made, or the third repetition is cut short.
SubCalls(batch) ==
    LET sig == NamesOf(batch)
    IN  /\ at = "ask" /\ signature' = sig
        /\ streak' = IF sig # <<>> /\ sig = signature THEN streak + 1 ELSE 1
        /\ IF streak' >= CallLimit
           THEN /\ WindUp("sum") /\ reason' = "tool_loop" /\ UNCHANGED <<messages, callsLeft>>
           ELSE /\ at' = "exec" /\ callsLeft' = batch /\ UNCHANGED <<exits, after, reason>>
                /\ messages' = Append(messages, Asks(Len(batch)))
        /\ UNCHANGED <<iteration, tools, text, report, owner>>

\* _run_pre_hooks: they pass, or the first that denies or raises ends them.
PreHooks == {"passes", "denies", "raises"}

\* ToolExecutor.execute: a hook before the call may raise or deny, the tool may
\* raise; what hooks after it do is not an error.
Executed(before, tool) ==
    CASE before = "raises" -> "error"
      [] before = "denies" -> "denied"
      [] OTHER -> IF tool = "raises" THEN "error" ELSE "success"

\* _execute_tool_call: how a call ends, and the pictures its result comes with.
Runs(name, status, pictures) ==
    /\ \/ name \notin KnownTools /\ status = "error" /\ ran' = ran
       \/ /\ name \in KnownTools
          /\ \E before \in PreHooks, tool \in {"returns", "raises"} :
               /\ status = Executed(before, tool)
               /\ ran' = IF before = "passes" /\ tool = "returns" THEN ran \cup {name} ELSE ran
    /\ pictures <= IF name = "read_file" /\ status = "success" THEN 1 ELSE 0

Endings == {"success", "denied", "error"}

\* One call of the response; after the last one a text asks to go on, and the
\* budget decides whether there is another request.
SubCallReturns ==
    /\ at = "exec" /\ callsLeft' = Tail(callsLeft)
    /\ \E status \in Endings, pictures \in 0..1 :
         LET name == Head(callsLeft).tool
         IN  /\ Runs(name, status, pictures) /\ forced' = forced
             /\ called' = IF status = "success" THEN called \cup {name} ELSE called
             /\ messages' = IF callsLeft' # <<>> THEN Append(messages, ResultWith(pictures))
                            ELSE messages \o <<ResultWith(pictures), Say("note")>>
    /\ IF callsLeft' # <<>> THEN UNCHANGED <<at, iteration, exits, after>>
       ELSE IF iteration < MaxSteps
            THEN iteration' = iteration + 1 /\ at' = "ask" /\ UNCHANGED <<exits, after>>
            ELSE WindUp("final") /\ UNCHANGED iteration
    /\ UNCHANGED <<signature, streak, ending, owner>>

-----------------------------------------------------------------------------
(* The end of a run that found none                                         *)

\* _run_mandatory_exit: of what the response asks for the first call is made,
\* of the tool it was told to use or, from a model that does not heed that, of
\* another; tools_called does not get it.  A failed request or a response
\* without calls is passed over.
ExitTool ==
    /\ at = "exit" /\ exits' = exits \ {Min(exits)} /\ at' = IF exits' = {} THEN after ELSE "exit"
    /\ \/ messages' = Append(messages, Say("note")) /\ UNCHANGED <<ran, forced>>
       \/ \E name \in {ExitTools[Min(exits)], "read_file"}, status \in Endings, pictures \in 0..1 :
            /\ Runs(name, status, pictures)
            /\ forced' = IF status = "success" THEN forced \cup {name} ELSE forced
            /\ messages' = messages \o <<Say("note"), Asks(1), ResultWith(pictures)>>
    /\ UNCHANGED <<looping, callsLeft, after, called, ending, owner>>

\* _summarize_incomplete_progress, after a loop of calls.
Summarises ==
    /\ at = "sum" /\ \E what \in {"summary", "default"} : End(reason, what)
    /\ UNCHANGED <<looping, messages, callsLeft, exits, after, tools, report, owner>>

\* _force_final_summary, after the last iteration.
ForcesSummary ==
    /\ at = "final"
    /\ End("forced_summary", "summary") \/ End("forced_summary_fallback", "default")
    /\ UNCHANGED <<looping, messages, callsLeft, exits, after, tools, report, owner>>

\* Building the subagent or its run raises.
SubRaises ==
    /\ at \notin {"none", "done"} /\ End("error", "exception")
    /\ callsLeft' = <<>> /\ exits' = {}
    /\ UNCHANGED <<looping, messages, after, tools, report, owner>>

\* Mutant: what is not an error is complete.
StatusOf_lax(why) == IF why = "error" THEN "error" ELSE "completed"

\* status_from_exit_reason
StatusOf(why) ==
    CASE why = "completed" -> "completed"
      [] why = "error" -> "error"
      [] OTHER -> "incomplete"

\* AgentBackgroundJobRunner.run returns, or spawn_sync.
SubReports ==
    /\ at = "done" /\ at' = "none" /\ report' = StatusOf(reason)
    /\ UNCHANGED <<looping, messages, callsLeft, exits, after, tools, reason, text, owner>>

-----------------------------------------------------------------------------
SubSteps ==
    \/ SubRequestFails \/ SubAnswers \/ \E b \in CallBatches : SubCalls(b)
    \/ SubCallReturns \/ ExitTool \/ Summarises \/ ForcesSummary \/ SubRaises \/ SubReports

SubNext == SubBegins \/ SubSteps

SubSpec == SubInit /\ [][SubNext]_subVars

-----------------------------------------------------------------------------
(***************************************************************************)
(* In every request the subagent sends each call that was announced is     *)
(* answered once, in the order of the calls, before anything else is said, *)
(* also after a loop was cut short or an exit tool was forced: between the *)
(* results of a round there is at most the picture that one of them shows. *)
(* And a request of the loop carries the results of the newest rounds in   *)
(* full, of no others, and all pictures.                                   *)
(***************************************************************************)
AnsweredInPlace(s) ==
    \A i \in DOMAIN s :
        /\ s[i].kind = "calls" =>
            /\ \A d \in 1..s[i].n : i + d \in DOMAIN s /\ s[i + d].kind \in {"result", "cleared"}
            /\ i + s[i].n + 1 \in DOMAIN s => s[i + s[i].n + 1].kind = "note"
        /\ s[i].kind = "note" /\ i + 1 \in DOMAIN s => s[i + 1].kind \in {"note", "calls"}

InFull(s) == {r \in CallRounds(s) : s[r + 1].kind = "result"}

RequestsAreSound ==
    /\ at \in {"ask", "exit", "sum", "final"} => AnsweredInPlace(messages)
    /\ at = "ask" =>
        LET sent == Trimmed(messages)
        IN  /\ AnsweredInPlace(sent) /\ \A i \in DOMAIN messages : sent[i].n = messages[i].n
            /\ Cardinality(InFull(sent)) =
                 (IF Cardinality(CallRounds(sent)) < RecentRounds
                  THEN Cardinality(CallRounds(sent)) ELSE RecentRounds)
            /\ \A r \in InFull(sent), q \in CallRounds(sent) \ InFull(sent) : q < r

(***************************************************************************)
(* A job is reported as completed if and only if the model said by itself  *)
(* that it was done; an unfinished one comes with an account of its        *)
(* progress; and the tools that ran are those it is said to have called    *)
(* and those of the forced exit, which are not said.                       *)
(***************************************************************************)
ReportIsHonest ==
    /\ report = "completed" <=> report # "none" /\ text = "answer"
    /\ report = "incomplete" => text \in {"summary", "default"}
    /\ ran = called \cup forced
=============================================================================
