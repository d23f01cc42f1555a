------------------------------ MODULE AgentLoop ------------------------------
(***************************************************************************)
(* The passive main loop: one consumer that takes inbound messages off the *)
(* bus and runs one turn at a time for all chats, the /stop control path   *)
(* that bypasses the bus, and a scheduled soft job that runs a turn of its *)
(* own beside it (agent/looping/core.py, agent/looping/interrupt.py,       *)
(* agent/core/runner.py, agent/core/agent_core.py).                        *)
(*                                                                         *)
(* Everything between two awaits is one step.  The user messages of a chat *)
(* are numbered 1, 2, ...; a turn carries the texts of its prompt in their *)
(* order, more than one when it resumes an interrupted turn.  A completion *)
(* is the message a finished subagent puts on the bus for the chat that    *)
(* spawned it: it carries no user text.                                    *)
(***************************************************************************)
EXTENDS Integers, Sequences, SequencesExt

CONSTANTS
    Chats,          \* channel:chat_id, the session keys of users
    JobChats,       \* chats a scheduled soft job is addressed to
    MaxMessages,    \* bound: user messages
    MaxCompletions  \* bound: subagent completions

ASSUME BoundsAssumption == MaxMessages \in Nat /\ MaxCompletions \in Nat
ASSUME ChatsAssumption == Chats # {} /\ JobChats \subseteq Chats

VARIABLES
    inbox,       \* MessageBus._inbound
    arrived,     \* per chat, user messages published so far
    completions, \* per chat, completions published so far
    turn,        \* the turn run() is awaiting, with its _active_turn_states
    interrupts,  \* _interrupt_states
    toolCtx,     \* ToolRegistry._context: chat, and the chat of the
                 \* current_user_source_ref
    busy,        \* ProcessingState._counts
    job,         \* a soft job inside process_direct
    log,         \* per chat, the user texts in Session.messages, in order
    answered,    \* per chat, messages whose turn put a reply on the bus
    stopped,     \* per chat, messages whose turn was interrupted
    timedOut,    \* per chat, messages whose turn timed out
    cut,         \* per chat, messages whose turn one of its own tools cancelled
    broken       \* per chat, texts whose commit failed once they were in the session

outcome == <<log, answered, stopped, timedOut, cut, broken>>
vars == <<inbox, arrived, completions, turn, interrupts, toolCtx, busy, job, outcome>>

Numbers == Nat \ {0}
Message == [chat : Chats, kind : {"user"}, no : Numbers]
           \cup [chat : Chats, kind : {"completion"}, no : {0}]

State == [on : BOOLEAN, texts : Seq(Numbers)]
NoState == [on |-> FALSE, texts |-> <<>>]

NoTurn == [pc |-> "idle", msg |-> [chat |-> CHOOSE c \in Chats : TRUE,
                                   kind |-> "completion", no |-> 0],
           state |-> NoState, resumed |-> FALSE, cancelled |-> FALSE]
NoJob == [pc |-> "idle", chat |-> CHOOSE c \in Chats : TRUE]

Running == turn.pc \in {"prepare", "reason"}
Own(m) == IF m.kind = "user" THEN <<m.no>> ELSE <<>>
Here == turn.msg.chat

TypeOK ==
    /\ inbox \in Seq(Message)
    /\ arrived \in [Chats -> Nat]
    /\ completions \in [Chats -> Nat]
    /\ turn \in [pc : {"idle", "created", "prepare", "reason", "done"}, msg : Message,
                 state : State, resumed : BOOLEAN, cancelled : BOOLEAN]
    /\ interrupts \in [Chats -> State]
    /\ toolCtx \in [chat : Chats \cup {"none"}, ref : Chats \cup {"none", "job"}]
    /\ busy \in [Chats -> Nat]
    /\ job \in [pc : {"idle", "prepare", "reason"}, chat : Chats]
    /\ log \in [Chats -> Seq(Numbers)]
    /\ answered \in [Chats -> SUBSET Numbers] /\ stopped \in [Chats -> SUBSET Numbers]
    /\ timedOut \in [Chats -> SUBSET Numbers] /\ cut \in [Chats -> SUBSET Numbers]
    /\ broken \in [Chats -> SUBSET Numbers]

Init ==
    /\ inbox = <<>>
    /\ arrived = [c \in Chats |-> 0] /\ completions = [c \in Chats |-> 0]
    /\ turn = NoTurn /\ job = NoJob
    /\ interrupts = [c \in Chats |-> NoState]
    /\ toolCtx = [chat |-> "none", ref |-> "none"]
    /\ busy = [c \in Chats |-> 0]
    /\ log = [c \in Chats |-> <<>>]
    /\ answered = [c \in Chats |-> {}]
    /\ stopped = answered /\ timedOut = answered /\ cut = answered /\ broken = answered

-----------------------------------------------------------------------------
(* Producers.                                                               *)

Total(count) == FoldFunction(+, 0, count)

PublishUser(c) ==
    /\ Total(arrived) < MaxMessages
    /\ arrived' = [arrived EXCEPT ![c] = @ + 1]
    /\ inbox' = Append(inbox, [chat |-> c, kind |-> "user", no |-> arrived[c] + 1])
    /\ UNCHANGED <<completions, turn, interrupts, toolCtx, busy, job, outcome>>

PublishCompletion(c) ==
    /\ Total(completions) < MaxCompletions
    /\ completions' = [completions EXCEPT ![c] = @ + 1]
    /\ inbox' = Append(inbox, [chat |-> c, kind |-> "completion", no |-> 0])
    /\ UNCHANGED <<arrived, turn, interrupts, toolCtx, busy, job, outcome>>

-----------------------------------------------------------------------------
(* run() and _process().                                                    *)

\* Take a message, register its state and create the task.
Consume ==
    /\ turn.pc = "idle" /\ inbox # <<>>
    /\ inbox' = Tail(inbox)
    /\ turn' = [NoTurn EXCEPT !.pc = "created", !.msg = Head(inbox),
                              !.state = [on |-> TRUE, texts |-> Own(Head(inbox))]]
    /\ UNCHANGED <<arrived, completions, interrupts, toolCtx, busy, job, outcome>>

\* The first step of _process: an interrupt state that has not expired is
\* put before the new text, and the registered state is replaced.
Begin(expired) ==
    /\ turn.pc = "created" /\ ~turn.cancelled
    /\ expired => interrupts[Here].on
    /\ interrupts' = IF expired THEN [interrupts EXCEPT ![Here] = NoState] ELSE interrupts
    /\ LET old == interrupts'[Here]
       IN  turn' = [turn EXCEPT !.pc = "prepare", !.resumed = old.on,
                      !.state = IF old.on
                                  THEN [on |-> TRUE, texts |-> old.texts \o Own(turn.msg)]
                                  ELSE @]
    /\ busy' = [busy EXCEPT ![Here] = @ + 1]
    /\ UNCHANGED <<inbox, arrived, completions, toolCtx, job, outcome>>

\* AgentCore.process after prepare, or the completion handler, which leaves
\* the source_ref of an earlier turn in place.
SetContext ==
    /\ turn.pc = "prepare" /\ ~turn.cancelled
    /\ turn' = [turn EXCEPT !.pc = "reason"]
    /\ toolCtx' = [chat |-> Here,
                   ref |-> IF turn.msg.kind = "user" THEN Here ELSE toolCtx.ref]
    /\ UNCHANGED <<inbox, arrived, completions, interrupts, busy, job, outcome>>

\* The finally blocks of _process.
Leave ==
    /\ turn' = [turn EXCEPT !.pc = "done"]
    /\ busy' = [busy EXCEPT ![Here] = IF @ > 0 THEN @ - 1 ELSE 0]

Answer == answered' = [answered EXCEPT ![Here] = @ \cup ToSet(Own(turn.msg))]

\* What add_message puts in the session: the prompt, or the marker of its
\* own that the completion handler commits instead.
Texts == IF turn.msg.kind = "user" THEN turn.state.texts ELSE <<>>
AddMessages == log' = [log EXCEPT ![Here] = @ \o Texts]

\* Mutant: the interrupt state is not consumed.
Commit_keepsState ==
    /\ turn.pc = "reason" /\ ~turn.cancelled
    /\ AddMessages /\ Answer /\ Leave
    /\ UNCHANGED <<inbox, arrived, completions, interrupts, toolCtx, job, stopped,
                   timedOut, cut, broken>>

\* ContextStore.commit (session, rows, post-turn scheduling, outbound) and
\* the return of _process, without an await that suspends.
Commit ==
    /\ turn.pc = "reason" /\ ~turn.cancelled
    /\ AddMessages /\ Answer /\ Leave
    /\ interrupts' = IF turn.resumed THEN [interrupts EXCEPT ![Here] = NoState]
                                     ELSE interrupts
    /\ UNCHANGED <<inbox, arrived, completions, toolCtx, job, stopped, timedOut, cut, broken>>

\* commit raises once the texts are in the session, as append_messages does
\* when the database fails: run() publishes an error message, and what the
\* turn resumed is still there to be resumed.
CommitBreaks ==
    /\ turn.pc = "reason" /\ ~turn.cancelled
    /\ AddMessages /\ Answer /\ Leave
    /\ broken' = [broken EXCEPT ![Here] = @ \cup ToSet(Texts)]
    /\ UNCHANGED <<inbox, arrived, completions, interrupts, toolCtx, job, stopped,
                   timedOut, cut>>

\* Mutant: the error is logged and not published.
Fail_silent ==
    /\ Running /\ ~turn.cancelled
    /\ Leave
    /\ UNCHANGED <<inbox, arrived, completions, interrupts, toolCtx, job, outcome>>

\* An exception before the commit: run() publishes an error message.
Fail ==
    /\ Running /\ ~turn.cancelled
    /\ Answer /\ Leave
    /\ UNCHANGED <<inbox, arrived, completions, interrupts, toolCtx, job, log,
                   stopped, timedOut, cut, broken>>

\* Mutant: a turn has no time limit.
TimeOut_never == FALSE /\ UNCHANGED vars

\* wait_for expires: _process returns a notice, which run() does not use.
TimeOut ==
    /\ Running /\ ~turn.cancelled
    /\ timedOut' = [timedOut EXCEPT ![Here] = @ \cup ToSet(Own(turn.msg))]
    /\ Leave
    /\ UNCHANGED <<inbox, arrived, completions, interrupts, toolCtx, job, log,
                   answered, stopped, cut, broken>>

\* Mutants: the busy counter is left as it is, or released by a task that
\* never entered the section.
Cancelled_released ==
    /\ turn.pc \in {"created", "prepare", "reason"} /\ turn.cancelled
    /\ turn' = [turn EXCEPT !.pc = "done"]
    /\ busy' = [busy EXCEPT ![Here] = @ - 1]
    /\ UNCHANGED <<inbox, arrived, completions, interrupts, toolCtx, job, outcome>>

Cancelled_staysBusy ==
    /\ turn.pc \in {"created", "prepare", "reason"} /\ turn.cancelled
    /\ turn' = [turn EXCEPT !.pc = "done"]
    /\ UNCHANGED <<inbox, arrived, completions, interrupts, toolCtx, busy, job, outcome>>

\* The cancellation is delivered; a task that had not started never enters
\* the busy section.
Cancelled ==
    /\ turn.pc \in {"created", "prepare", "reason"} /\ turn.cancelled
    /\ IF Running THEN Leave ELSE turn' = [turn EXCEPT !.pc = "done"] /\ UNCHANGED busy
    /\ UNCHANGED <<inbox, arrived, completions, interrupts, toolCtx, job, outcome>>

\* A task that a tool of the turn awaits is cancelled (task_output beside a
\* kill, shell.py): the CancelledError passes the handlers of the turn, and
\* run() takes it for a /stop.
ToolCancels ==
    /\ turn.pc = "reason" /\ ~turn.cancelled
    /\ cut' = [cut EXCEPT ![Here] = @ \cup ToSet(Own(turn.msg))]
    /\ Leave
    /\ UNCHANGED <<inbox, arrived, completions, interrupts, toolCtx, job, log,
                   answered, stopped, timedOut, broken>>

\* run() wakes up and drops the task and its state.
Cleanup ==
    /\ turn.pc = "done"
    /\ turn' = NoTurn
    /\ UNCHANGED <<inbox, arrived, completions, interrupts, toolCtx, busy, job, outcome>>

-----------------------------------------------------------------------------
(* /stop.                                                                   *)

\* Mutant: task.done() is not asked.
RequestInterrupt_done(c) ==
    /\ turn.pc # "idle" /\ Here = c
    /\ interrupts' = [interrupts EXCEPT ![c] = turn.state]
    /\ turn' = [turn EXCEPT !.cancelled = TRUE]
    /\ stopped' = [stopped EXCEPT ![c] = @ \cup ToSet(Own(turn.msg))]
    /\ UNCHANGED <<inbox, arrived, completions, toolCtx, busy, job, log, answered,
                   timedOut, cut, broken>>

\* Copies the registered state and cancels; "idle" otherwise.
RequestInterrupt(c) ==
    /\ turn.pc \notin {"idle", "done"} /\ Here = c
    /\ interrupts' = [interrupts EXCEPT ![c] = turn.state]
    /\ turn' = [turn EXCEPT !.cancelled = TRUE]
    /\ stopped' = [stopped EXCEPT ![c] = @ \cup ToSet(Own(turn.msg))]
    /\ UNCHANGED <<inbox, arrived, completions, toolCtx, busy, job, log, answered,
                   timedOut, cut, broken>>

-----------------------------------------------------------------------------
(* A soft job: process_direct under the session key scheduler:<id>, with    *)
(* the channel and chat_id of a user's chat.                                *)

JobStart(c) ==
    /\ job.pc = "idle"
    /\ job' = [pc |-> "prepare", chat |-> c]
    /\ UNCHANGED <<inbox, arrived, completions, turn, interrupts, toolCtx, busy, outcome>>

JobSetContext ==
    /\ job.pc = "prepare"
    /\ job' = [job EXCEPT !.pc = "reason"]
    /\ toolCtx' = [chat |-> job.chat, ref |-> "job"]
    /\ UNCHANGED <<inbox, arrived, completions, turn, interrupts, busy, outcome>>

JobEnds ==
    /\ job.pc # "idle"
    /\ job' = NoJob
    /\ UNCHANGED <<inbox, arrived, completions, turn, interrupts, toolCtx, busy, outcome>>

-----------------------------------------------------------------------------
Job == (\E c \in JobChats : JobStart(c)) \/ JobSetContext \/ JobEnds

TurnEnds == Commit \/ CommitBreaks \/ Fail \/ TimeOut \/ Cancelled \/ ToolCancels

Loop == Consume \/ (\E expired \in BOOLEAN : Begin(expired)) \/ SetContext \/ Cleanup

Next ==
    \/ \E c \in Chats : PublishUser(c) \/ PublishCompletion(c) \/ RequestInterrupt(c)
    \/ Loop \/ TurnEnds
    \/ Job

\* The event loop runs ready tasks and timers; a provider need not answer.
Fairness ==
    /\ WF_vars(Loop \/ Cancelled)
    /\ WF_vars(TimeOut)

Spec == Init /\ [][Next]_vars /\ Fairness

-----------------------------------------------------------------------------
(* Properties.                                                              *)

(***************************************************************************)
(* The user texts of a chat reach its session in the order they were sent  *)
(* and at most once, whatever was interrupted, resumed or timed out.  Only *)
(* a text whose commit broke off halfway may come again, after newer ones. *)
(***************************************************************************)
CommitsInOrder ==
    \A c \in Chats : \A i, j \in DOMAIN log[c] :
        i < j => log[c][i] < log[c][j] \/ log[c][j] \in broken[c]

(***************************************************************************)
(* A stored interrupt never offers for resumption what is in the session   *)
(* already, but for the texts of a commit that broke off halfway: /stop    *)
(* that loses the race with the commit answers "idle".                     *)
(***************************************************************************)
InterruptIsUncommitted ==
    \A c \in Chats : ToSet(interrupts[c].texts) \cap ToSet(log[c]) \subseteq broken[c]

(***************************************************************************)
(* A message taken off the bus is being worked on, answered, interrupted,  *)
(* timed out or cut off by a tool of its turn; none is dropped without one *)
(* of these.                                                               *)
(***************************************************************************)
InTheBox(c, n) == \E i \in DOMAIN inbox : inbox[i] = [chat |-> c, kind |-> "user", no |-> n]
Current(c, n) == turn.pc # "idle" /\ Here = c /\ n \in ToSet(Own(turn.msg))
EveryMessageAccounted ==
    \A c \in Chats : \A n \in 1 .. arrived[c] :
        InTheBox(c, n) \/ Current(c, n) \/ n \in answered[c] \cup stopped[c] \cup timedOut[c] \cup cut[c]

(***************************************************************************)
(* A chat is marked busy exactly while its turn runs: proactive delivery   *)
(* trusts the counter.                                                     *)
(***************************************************************************)
BusyIsTurn ==
    \A c \in Chats : busy[c] = IF Running /\ Here = c THEN 1 ELSE 0

(***************************************************************************)
(* However turns end and race with /stop: each message is accounted for,   *)
(* committed at most once and in order (but for commits that break off     *)
(* halfway), and the busy counter agrees.                                  *)
(***************************************************************************)
TurnsAreAccounted == CommitsInOrder /\ EveryMessageAccounted /\ BusyIsTurn

(***************************************************************************)
(* However long a provider hangs in one chat, every message is taken off   *)
(* the bus.                                                                *)
(***************************************************************************)
InboxDrains == \A c \in Chats, n \in 1 .. MaxMessages : InTheBox(c, n) ~> ~InTheBox(c, n)

(***************************************************************************)
(* "I will go on with this matter": an interrupt state that is cleared     *)
(* other than by its expiry has had its texts committed.                   *)
(***************************************************************************)
ResumedIsCommitted ==
    [][\A c \in Chats :
         /\ interrupts[c].on /\ ~interrupts'[c].on /\ turn'.pc = "done"
         => ToSet(interrupts[c].texts) \subseteq ToSet(log'[c])]_vars

(***************************************************************************)
(* A second /stop keeps the texts an earlier one saved.                    *)
(***************************************************************************)
StopKeepsEarlier ==
    [][\A c \in Chats : interrupts'[c].on =>
         ToSet(interrupts[c].texts) \subseteq ToSet(interrupts'[c].texts)]_vars

(***************************************************************************)
(* "The context of the current session": while a turn calls tools, the     *)
(* registry's channel and chat_id are those of the turn.                   *)
(***************************************************************************)
ToolsSeeOwnChat == turn.pc = "reason" => toolCtx.chat = Here

(***************************************************************************)
(* "Bound to this message of the current user": the source_ref a turn's    *)
(* tools are given is of its own session.                                  *)
(***************************************************************************)
SourceIsOwn == turn.pc = "reason" /\ job.pc = "idle" => toolCtx.ref \in {Here, "none"}

(***************************************************************************)
(* "Sends the result back to the bus": a turn that times out is answered.  *)
(***************************************************************************)
TimeoutIsReported == \A c \in Chats : timedOut[c] \subseteq answered[c] \cup stopped[c]
=============================================================================
