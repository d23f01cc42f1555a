----------------------------- MODULE SpawnJobs ------------------------------
(***************************************************************************)
(* Background subagent jobs and the message bus that carries their         *)
(* results: the spawn tool and its limit, the job, its completion event    *)
(* among the users' messages, the turn that reports it, and the delivery   *)
(* of outbound messages with a retry and a notice                          *)
(* (agent/tools/spawn.py, agent/policies/delegation.py,                    *)
(* agent/background/, agent/looping/handlers.py, agent/looping/core.py,    *)
(* bus/queue.py).                                                          *)
(*                                                                         *)
(* One run of the program: jobs and queues are in memory.                  *)
(***************************************************************************)
EXTENDS Integers, FiniteSets, Sequences

CONSTANTS
    Chats,              \* (channel, chat_id) pairs, each with a subscriber
    Jobs,               \* job ids
    Slots,              \* _MAX_CONCURRENT_SPAWNS
    MaxAsked,           \* bound on users' messages
    MaxFailures         \* bound on failed attempts to send

ASSUME SpawnAssumption == Slots \in Nat \ {0} /\ MaxAsked \in Nat /\ MaxFailures \in Nat

VARIABLES
    job,        \* none, running, announced; stopped or dropped: what became of
                \* the turn that was to report it
    origin,     \* the chat a job was spawned from
    slots,      \* keys of _running_tasks
    inbound,    \* MessageBus._inbound
    turn,       \* what AgentLoop processes: an inbound message or NoTurn
    outbound,   \* MessageBus._outbound
    sending,    \* what dispatch_outbound delivers, and which attempt it is
    shown,      \* what each chat has received
    lost,       \* messages whose three attempts failed
    asked, published, failures    \* counts

spawnVars == <<job, origin, slots, inbound, turn, outbound, sending, shown, lost,
               asked, published, failures>>
jobVars == <<job, origin, slots>>
delivery == <<sending, shown, lost, failures>>

UserItem == "user"
NoTurn == [chat |-> "none", about |-> "none"]
NoMessage == [chat |-> "none", about |-> "none", n |-> 0]
Items == [chat : Chats, about : Jobs \cup {UserItem}]
Messages == [chat : Chats, about : Jobs \cup {UserItem}, n : Nat]

SpawnTypeOK ==
    /\ job \in [Jobs -> {"none", "running", "announced", "stopped", "dropped"}]
    /\ origin \in [Jobs -> Chats \cup {"none"}] /\ slots \subseteq Jobs
    /\ Cardinality(slots) <= Slots
    /\ {j \in Jobs : job[j] = "running"} \subseteq slots
    /\ inbound \in Seq(Items) /\ turn \in Items \cup {NoTurn}
    /\ outbound \in Seq(Messages) /\ lost \subseteq Messages
    /\ sending \in [attempt : {"idle", "first", "retry", "notice"},
                    message : Messages \cup {NoMessage}]
    /\ shown \in [Chats -> Seq(Messages)]
    /\ asked \in 0..MaxAsked /\ published \in Nat /\ failures \in 0..MaxFailures

SpawnInit ==
    /\ job = [j \in Jobs |-> "none"] /\ origin = [j \in Jobs |-> "none"] /\ slots = {}
    /\ inbound = <<>> /\ turn = NoTurn /\ outbound = <<>>
    /\ sending = [attempt |-> "idle", message |-> NoMessage]
    /\ shown = [c \in Chats |-> <<>>] /\ lost = {}
    /\ asked = 0 /\ published = 0 /\ failures = 0

-----------------------------------------------------------------------------
\* A channel's publish_inbound.
UserAsks(c) ==
    /\ asked < MaxAsked /\ asked' = asked + 1
    /\ inbound' = Append(inbound, [chat |-> c, about |-> UserItem])
    /\ UNCHANGED <<jobVars, turn, outbound, delivery, published>>

\* AgentLoop.run: one turn at a time over all chats.
BeginTurn ==
    /\ turn = NoTurn /\ inbound # <<>>
    /\ turn' = Head(inbound) /\ inbound' = Tail(inbound)
    /\ UNCHANGED <<jobVars, outbound, delivery, asked, published>>

\* DelegationPolicy.decide on get_running_count
MayRun_offByOne(held) == Cardinality(held) <= Slots
MayRun(held) == Cardinality(held) < Slots

\* SpawnTool.execute with run_in_background, from any turn: a report may spawn
\* its one retry.  Nothing is awaited between the count and the registration.
Spawn(j) ==
    /\ turn # NoTurn /\ job[j] = "none" /\ MayRun(slots)
    /\ job' = [job EXCEPT ![j] = "running"] /\ slots' = slots \cup {j}
    /\ origin' = [origin EXCEPT ![j] = turn.chat]
    /\ UNCHANGED <<inbound, turn, outbound, delivery, asked, published>>

\* Mutant: the chat is read when the job ends, from the running turn.
JobEnds_lateContext(j) ==
    /\ job[j] = "running" /\ job' = [job EXCEPT ![j] = "announced"]
    /\ inbound' = Append(inbound,
           [chat |-> IF turn = NoTurn THEN origin[j] ELSE turn.chat, about |-> j])
    /\ UNCHANGED <<origin, slots, turn, outbound, delivery, asked, published>>

\* The subagent completes, runs out of budget or raises: each is announced.
JobEnds(j) ==
    /\ job[j] = "running" /\ job' = [job EXCEPT ![j] = "announced"]
    /\ inbound' = Append(inbound, [chat |-> origin[j], about |-> j])
    /\ UNCHANGED <<origin, slots, turn, outbound, delivery, asked, published>>

\* Mutant: the slot is free as soon as somebody asks.
FreeSlot_early(j) ==
    /\ j \in slots /\ slots' = slots \ {j}
    /\ UNCHANGED <<job, origin, inbound, turn, outbound, delivery, asked, published>>

\* Done callback of the job's task.
FreeSlot(j) ==
    /\ j \in slots /\ job[j] # "running" /\ slots' = slots \ {j}
    /\ UNCHANGED <<job, origin, inbound, turn, outbound, delivery, asked, published>>

\* The turn's reply, a default text when the model gave none, or the text of
\* the exception it died of.
EndTurn ==
    /\ turn # NoTurn /\ turn' = NoTurn /\ published' = published + 1
    /\ outbound' = Append(outbound, [chat |-> turn.chat, about |-> turn.about, n |-> published'])
    /\ UNCHANGED <<jobVars, inbound, delivery, asked>>

\* A turn that ends without publishing anything.
TurnVanishes(outcome) ==
    /\ turn # NoTurn /\ turn' = NoTurn
    /\ job' = [j \in Jobs |-> IF j = turn.about THEN outcome ELSE job[j]]
    /\ UNCHANGED <<origin, slots, inbound, outbound, delivery, asked, published>>

\* request_interrupt.
StopTurn == TurnVanishes("stopped")

\* wait_for expires, and run() does not use the notice that _process returns;
\* or a task that one of the turn's tools awaits is cancelled under it.
DropTurn == TurnVanishes("dropped")

-----------------------------------------------------------------------------
(* dispatch_outbound                                                        *)

Idle == [attempt |-> "idle", message |-> NoMessage]
Show(m) == shown' = [shown EXCEPT ![m.chat] = Append(@, m)]

TakeOutbound ==
    /\ sending = Idle /\ outbound # <<>>
    /\ sending' = [attempt |-> "first", message |-> Head(outbound)]
    /\ outbound' = Tail(outbound)
    /\ UNCHANGED <<jobVars, inbound, turn, shown, lost, failures, asked, published>>

Delivered ==
    /\ sending.attempt \in {"first", "retry", "notice"}
    /\ Show(sending.message) /\ sending' = Idle
    /\ UNCHANGED <<jobVars, inbound, turn, outbound, lost, failures, asked, published>>

\* Mutant: a failed message goes back to the end of the queue.
Fails_requeued(m, attempt) ==
    /\ outbound' = Append(outbound, m) /\ sending' = Idle /\ UNCHANGED lost

\* What a failed attempt leads to: the retry after 2 s, the notice, or nothing.
Fails(m, attempt) ==
    CASE attempt = "first" ->
            sending' = [sending EXCEPT !.attempt = "retry"] /\ UNCHANGED <<outbound, lost>>
      [] attempt = "retry" ->
            sending' = [sending EXCEPT !.attempt = "notice"] /\ UNCHANGED <<outbound, lost>>
      [] attempt = "notice" ->
            sending' = Idle /\ lost' = lost \cup {m} /\ UNCHANGED outbound

\* The callback raises, before or after the text reached the chat.
SendFails ==
    /\ failures < MaxFailures /\ failures' = failures + 1
    /\ sending # Idle /\ Fails(sending.message, sending.attempt)
    /\ Show(sending.message) \/ UNCHANGED shown
    /\ UNCHANGED <<jobVars, inbound, turn, asked, published>>

SpawnNext ==
    \/ \E c \in Chats : UserAsks(c)
    \/ \E j \in Jobs : Spawn(j) \/ JobEnds(j) \/ FreeSlot(j)
    \/ BeginTurn \/ EndTurn \/ StopTurn \/ DropTurn
    \/ TakeOutbound \/ Delivered \/ SendFails

\* Jobs have an iteration budget, turns a timeout; both loops keep running.
SpawnFairness ==
    /\ \A j \in Jobs : WF_spawnVars(JobEnds(j))
    /\ WF_spawnVars(BeginTurn) /\ WF_spawnVars(EndTurn \/ DropTurn)
    /\ WF_spawnVars(TakeOutbound) /\ WF_spawnVars(Delivered \/ SendFails)

SpawnSpec == SpawnInit /\ [][SpawnNext]_spawnVars /\ SpawnFairness

-----------------------------------------------------------------------------
\* Every job that was spawned is reported in the chat it came from (its answer
\* or the notice), unless /stop, the turn's time limit or a cancellation ended
\* the turn that was to report it, or every attempt to send failed.
EveryJobTold ==
    \A j \in Jobs :
        job[j] = "running" ~>
            \/ job[j] \in {"stopped", "dropped"}
            \/ \E c \in Chats : c = origin[j] /\ \E i \in 1..Len(shown[c]) : shown[c][i].about = j
            \/ \E m \in lost : m.about = j

\* A chat receives its messages in the order they were published, however
\* often an attempt failed in between.
RepliesInOrder ==
    \A c \in Chats : \A i, k \in 1..Len(shown[c]) :
        i < k => shown[c][i].n <= shown[c][k].n
=============================================================================
