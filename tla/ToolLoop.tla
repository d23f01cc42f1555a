------------------------------ MODULE ToolLoop ------------------------------
(***************************************************************************)
(* The ReAct loop of one chat: DefaultReasoner.run_turn with its retries,  *)
(* run with its rounds of model requests and tool calls, the hooks around  *)
(* a call, tool_search, and the tools a chat keeps loaded between turns    *)
(* (agent/core/reasoner.py, agent/core/runtime_support.py,                 *)
(* agent/tool_hooks/, agent/tools/registry.py, agent/tools/tool_search.py, *)
(* agent/provider.py).                                                     *)
(*                                                                         *)
(* Texts are left out; a call keeps its tool and its arguments, which the  *)
(* loop detection compares.  A turn is one at a time in a chat.            *)
(***************************************************************************)
EXTENDS Integers, FiniteSets, Sequences, SequencesExt

CONSTANTS
    Builtin, Mcp,       \* deferred tools; an MCP server's come and go
    Manager,            \* mcp_add and mcp_remove, deferred too
    Denied,             \* tools whose risk is not in allowed_tool_risks
    Batches,            \* what a response may ask for: sequences of calls
    Capacity,           \* ToolDiscoveryState.capacity
    MaxIterations,      \* max_iterations
    Plans,              \* number of attempt plans
    MaxRetries,         \* LLMProvider._max_retries
    MaxTurns            \* bound on turns

Deferred == Builtin \cup Mcp \cup {Manager}
AlwaysOn == {"tool_search", "shell", "task_output"}
RepeatLimit == 3        \* _TOOL_LOOP_REPEAT_LIMIT

ASSUME ToolAssumption ==
    /\ {Capacity, MaxIterations, Plans} \subseteq Nat \ {0}
    /\ MaxRetries \in Nat /\ MaxTurns \in Nat
    /\ AlwaysOn \cap Deferred = {}
    /\ Batches \subseteq Seq([tool : AlwaysOn \cup Deferred, args : Nat]) \ {<<>>}

VARIABLES
    installed,      \* deferred tools in the registry
    searching,      \* tool_search_enabled
    unlocked,       \* ToolDiscoveryState._unlocked of the chat, oldest first
    stage,          \* idle, ask (a model request), exec (its calls), sum (the summary)
    attempt, round, tries,
    visible,        \* visible_names; all tools when tool search is off
    todo,           \* calls of the response still to make
    last, repeats,  \* last_tool_signature, repeat_count
    used,           \* tools_used, the deferred ones
    outcome,        \* how the last turn ended
    turnCount,
    recency,        \* history: deferred tools by their last use in an answered turn
    ranSignatures   \* history: signatures of the last two batches made in this run

toolVars == <<installed, searching, unlocked, stage, attempt, round, tries, visible, todo,
              last, repeats, used, outcome, turnCount, recency, ranSignatures>>
kept == <<installed, searching, unlocked, recency, turnCount>>   \* what a round leaves alone
tracking == <<visible, last, repeats, used, ranSignatures>>

Outcomes == {"none", "answer", "summary", "refused", "raised", "stopped"}

\* _tool_call_signature: calls of task_output and task_stop are not compared.
Signature(batch) == SelectSeq(batch, LAMBDA c : c.tool # "task_output")
Signatures == {Signature(b) : b \in Batches} \cup {<<>>}

ToolTypeOK ==
    /\ installed \subseteq Deferred /\ searching \in BOOLEAN
    /\ unlocked \in Seq(Deferred) /\ Len(unlocked) <= Capacity /\ IsInjective(unlocked)
    /\ stage \in {"idle", "ask", "exec", "sum"} /\ outcome \in Outcomes
    /\ attempt \in 1..Plans /\ round \in 1..MaxIterations /\ tries \in 0..MaxRetries
    /\ visible \subseteq AlwaysOn \cup Deferred
    /\ todo \in Seq([tool : AlwaysOn \cup Deferred, args : Nat])
    /\ stage = "exec" <=> todo # <<>>
    /\ last \in Signatures /\ repeats \in 0..RepeatLimit
    /\ used \in Seq(Deferred) /\ turnCount \in 0..MaxTurns
    /\ recency \in Seq(Deferred) /\ IsInjective(recency)
    /\ ranSignatures \in Signatures \X Signatures

ToolInit ==
    /\ installed = Deferred /\ searching \in BOOLEAN /\ unlocked = <<>>
    /\ stage = "idle" /\ attempt = 1 /\ round = 1 /\ tries = 0
    /\ visible = AlwaysOn /\ todo = <<>> /\ last = <<>> /\ repeats = 0
    /\ used = <<>> /\ outcome = "none" /\ turnCount = 0
    /\ recency = <<>> /\ ranSignatures = <<<<>>, <<>>>>

-----------------------------------------------------------------------------
(* Tool discovery                                                           *)

\* The tools a run starts with: always-on and preloaded ones, or all.
Preloaded == IF searching THEN AlwaysOn \cup ToSet(unlocked) ELSE AlwaysOn \cup Deferred

\* The list without a name, which is in it at most once.
Without(t) ==
    [s \in Seq(Deferred) |->
        IF Contains(s, t) THEN RemoveAt(s, CHOOSE i \in DOMAIN s : s[i] = t) ELSE s]
\* The name goes behind the others.
MoveToEnd(s, t) == Append(Without(t)[s], t)

\* Mutant: a tool that is already loaded keeps its place.
Touch_inPlace(lru, t) ==
    LET grown == IF Contains(lru, t) THEN lru ELSE Append(lru, t)
    IN  IF Len(grown) > Capacity THEN Tail(grown) ELSE grown

\* One name of ToolDiscoveryState.update.
Touch(lru, t) ==
    LET grown == MoveToEnd(lru, t)
    IN  IF Len(grown) > Capacity THEN Tail(grown) ELSE grown

\* What tool_search may return: registered tools that are not visible yet.
Findable == installed \ visible

-----------------------------------------------------------------------------
(* The turn                                                                 *)

StartRun(n) ==
    /\ stage' = "ask" /\ attempt' = n /\ round' = 1 /\ tries' = 0 /\ visible' = Preloaded
    /\ todo' = <<>> /\ last' = <<>> /\ repeats' = 0 /\ used' = <<>> /\ ranSignatures' = <<<<>>, <<>>>>

ToolTurnBegins ==
    /\ stage = "idle" /\ turnCount < MaxTurns /\ turnCount' = turnCount + 1
    /\ StartRun(1) /\ outcome' = "none"
    /\ UNCHANGED <<installed, searching, unlocked, recency>>

\* A reply or a summary: the tools used become the chat's most recent ones.
Finish(how) ==
    /\ stage' = "idle" /\ outcome' = how /\ todo' = <<>>
    /\ unlocked' = IF searching THEN FoldLeft(Touch, unlocked, used) ELSE unlocked
    /\ recency' = IF searching THEN FoldLeft(MoveToEnd, recency, used) ELSE recency
    /\ UNCHANGED <<installed, searching, turnCount, attempt, round, tries, tracking>>

\* The turn ends and nothing is kept of its tools.
Abandon(how) ==
    /\ stage' = "idle" /\ outcome' = how /\ todo' = <<>>
    /\ UNCHANGED <<kept, attempt, round, tries, tracking>>

-----------------------------------------------------------------------------
(* A model request                                                          *)

\* The response has no tool calls.
ModelAnswers == stage = "ask" /\ Finish("answer")

\* Mutant: one repetition too many.
Looping_late(count) == count > RepeatLimit
Looping(count) == count >= RepeatLimit

\* repeat_count after a response with this signature.
Repeated(sig) == IF sig # <<>> /\ sig = last THEN repeats + 1 ELSE 1

\* The response has tool calls: they are made, or the run is cut short.
ModelCalls(batch) ==
    LET sig == Signature(batch)
    IN  /\ stage = "ask" /\ repeats' = Repeated(sig) /\ last' = sig /\ tries' = 0
        /\ IF Looping(repeats')
           THEN stage' = "sum" /\ UNCHANGED <<todo, ranSignatures>>
           ELSE /\ stage' = "exec" /\ todo' = batch
                /\ ranSignatures' = <<ranSignatures[2], sig>>
        /\ UNCHANGED <<kept, attempt, round, visible, used, outcome>>

\* Mutant: a refusal counts as a failed request of the same attempt.
ModelRefuses_again ==
    /\ stage = "ask" /\ StartRun(attempt) /\ UNCHANGED <<kept, outcome>>

\* ContentSafetyError or ContextLengthError, at any round: the next plan, with
\* a shorter prompt, starts from nothing.
ModelRefuses ==
    /\ stage = "ask"
    /\ IF attempt < Plans THEN StartRun(attempt + 1) /\ UNCHANGED <<kept, outcome>>
                          ELSE Abandon("refused")

\* _create_with_retry on a timeout, a rate limit or a server error.
RequestRetried ==
    /\ stage = "ask" /\ tries < MaxRetries /\ tries' = tries + 1
    /\ UNCHANGED <<kept, stage, attempt, round, todo, tracking, outcome>>

\* The last retry failed, the error is no such one, or a stream broke off.
RequestFails == stage = "ask" /\ Abandon("raised")

-----------------------------------------------------------------------------
(* The calls of a response                                                  *)

\* Mutant: a call of a tool that is not loaded does not count as a round.
NextCall_free ==
    LET rest == Tail(todo)
        loaded == Head(todo).tool \in visible
    IN  /\ todo' = rest
        /\ IF rest # <<>> THEN stage' = "exec" /\ round' = round
           ELSE IF ~loaded THEN stage' = "ask" /\ round' = round
           ELSE IF round = MaxIterations THEN stage' = "sum" /\ round' = round
           ELSE stage' = "ask" /\ round' = round + 1
        /\ UNCHANGED <<searching, unlocked, recency, turnCount, attempt, tries, last, repeats,
                       outcome, ranSignatures>>

\* The result is appended; after the last one comes the next round or the summary.
NextCall ==
    LET rest == Tail(todo)
    IN  /\ todo' = rest
        /\ IF rest # <<>> THEN stage' = "exec" /\ round' = round
           ELSE IF round = MaxIterations THEN stage' = "sum" /\ round' = round
           ELSE stage' = "ask" /\ round' = round + 1
        /\ UNCHANGED <<searching, unlocked, recency, turnCount, attempt, tries, last, repeats,
                       outcome, ranSignatures>>

\* The tool's schema is not visible: the model is told to search for it.
CallNotLoaded ==
    /\ stage = "exec" /\ Head(todo).tool \notin visible /\ NextCall
    /\ UNCHANGED <<installed, visible, used>>

\* ToolRiskGuardHook; a tool that is not registered counts as read-only.
Refused(tool) == tool \in Denied /\ tool \in installed \cup AlwaysOn

\* The guard denies the call, or the hook that rewrites rm raises.
CallStopped ==
    /\ stage = "exec" /\ Head(todo).tool \in visible
    /\ Refused(Head(todo).tool) \/ Head(todo).tool = "shell"
    /\ NextCall /\ UNCHANGED <<installed, visible, used>>

\* The tool runs, raises, or is no longer there: registry.execute answers each
\* with a text, a success.
CallReturns ==
    LET tool == Head(todo).tool
    IN  /\ stage = "exec" /\ tool \in visible /\ ~Refused(tool)
        /\ used' = IF tool \in Deferred THEN Append(used, tool) ELSE used
        /\ IF tool = "tool_search"
           THEN \E found \in SUBSET Findable : visible' = visible \cup found
           ELSE visible' = visible
        /\ IF tool = Manager /\ tool \in installed
           THEN \E there \in SUBSET Mcp : installed' = (installed \ Mcp) \cup there
           ELSE installed' = installed
        /\ NextCall

\* _summarize_incomplete_progress: a failed request leaves a default text.
Summarise == stage = "sum" /\ Finish("summary")

\* /stop, or the deadline of the turn.
ToolTurnStops == stage # "idle" /\ Abandon("stopped")

-----------------------------------------------------------------------------
ToolSteps ==
    \/ ModelAnswers \/ ModelRefuses \/ RequestRetried \/ RequestFails
    \/ \E b \in Batches : ModelCalls(b)
    \/ CallNotLoaded \/ CallStopped \/ CallReturns \/ Summarise

ToolNext == ToolTurnBegins \/ ToolSteps \/ ToolTurnStops

\* Requests have a timeout and tools return; nobody has to stop a turn.
ToolFairness == WF_toolVars(ToolSteps)

ToolSpec == ToolInit /\ [][ToolNext]_toolVars /\ ToolFairness

-----------------------------------------------------------------------------
(* Properties.                                                              *)

(***************************************************************************)
(* The tools a chat starts its next turn with are the Capacity ones used   *)
(* last in answered turns, whatever was found, used in between, evicted,   *)
(* unregistered, refused or stopped since.                                 *)
(***************************************************************************)
LoadedAreRecent ==
    unlocked = SubSeq(recency, Len(recency) - Len(unlocked) + 1, Len(recency))
    /\ (Len(unlocked) = Capacity \/ unlocked = recency)

(***************************************************************************)
(* The calls of one response are not made three times in a row: other      *)
(* calls, task_output alone or a retry of the turn must come between.      *)
(***************************************************************************)
NoThirdRun ==
    [][\A b \in Batches :
        ModelCalls(b) /\ stage' = "exec" /\ Signature(b) # <<>>
            => ranSignatures # <<Signature(b), Signature(b)>>]_toolVars

(***************************************************************************)
(* However the model behaves, a turn ends: rounds, attempts and retries    *)
(* are all counted.                                                        *)
(***************************************************************************)
TurnsEnd == stage # "idle" ~> stage = "idle"
=============================================================================
