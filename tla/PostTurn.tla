------------------------------- MODULE PostTurn -------------------------------
(***************************************************************************)
(* What follows a committed turn: DefaultPostTurnPipeline puts the event   *)
(* into two queues of its session, each served by a task that exists only  *)
(* while there is work (agent/postturn/default_pipeline.py).  One queue    *)
(* refreshes the "Recent Turns" block of RECENT_CONTEXT.md, the other      *)
(* feeds the memory engine.  The consolidation run that a turn may start   *)
(* rewrites the same file at its end (agent/looping/consolidation.py).     *)
(*                                                                         *)
(* Turns of a session are numbered.  The file is one for all sessions: the *)
(* session and newest turn its recent block shows.  Reads and writes of it *)
(* run in worker threads, so other steps come between them.                *)
(***************************************************************************)
EXTENDS Integers, Sequences

CONSTANTS
    Sessions,
    MaxTurns      \* bound: turns per session

ASSUME TurnsAssumption == MaxTurns \in Nat

VARIABLES
    turns,      \* per session, turns committed
    recentQ,    \* _recent_context_queues
    recent,     \* _recent_context_tasks: where the session's task is
    memoryQ,    \* _post_mem_queues
    memory,     \* _post_mem_tasks
    due,        \* per session, turns scheduled for the memory engine, in order
    settled,    \* per session, turns whose ingestion returned or failed, in order
    file,       \* RECENT_CONTEXT.md: whose recent turns, up to which
    snapshot    \* the end of a consolidation run, per session

postVars == <<turns, recentQ, recent, memoryQ, memory, due, settled, file, snapshot>>

Turns == 1 .. MaxTurns
Shown == [of : Sessions \cup {"nobody"}, upto : 0 .. MaxTurns]
NoTask == [pc |-> "none", upto |-> 0]
Refreshing == [pc : {"none", "ready", "reading", "writing"}, upto : 0 .. MaxTurns]
Compressing == [pc : {"none", "running", "compressing", "writing"}, upto : 0 .. MaxTurns]
Ingesting == [pc : {"none", "ready"}, upto : {0}] \cup [pc : {"ingesting"}, upto : Turns]

PostTypeOK ==
    /\ turns \in [Sessions -> 0 .. MaxTurns]
    /\ recentQ \in [Sessions -> Seq(Turns)]
    /\ recent \in [Sessions -> Refreshing]
    /\ memoryQ \in [Sessions -> Seq(Turns)]
    /\ memory \in [Sessions -> Ingesting]
    /\ due \in [Sessions -> Seq(Turns)]
    /\ settled \in [Sessions -> Seq(Turns)]
    /\ file \in Shown
    /\ snapshot \in [Sessions -> Compressing]

PostInit ==
    /\ turns = [s \in Sessions |-> 0]
    /\ recentQ = [s \in Sessions |-> <<>>] /\ recent = [s \in Sessions |-> NoTask]
    /\ memoryQ = [s \in Sessions |-> <<>>] /\ memory = [s \in Sessions |-> NoTask]
    /\ due = [s \in Sessions |-> <<>>] /\ settled = [s \in Sessions |-> <<>>]
    /\ file = [of |-> "nobody", upto |-> 0]
    /\ snapshot = [s \in Sessions |-> NoTask]

Started(task) == IF task.pc = "none" THEN [NoTask EXCEPT !.pc = "ready"] ELSE task

-----------------------------------------------------------------------------
\* schedule, called by the commit of a turn: queue, start a task if there is
\* none, let the scheduler decide on a consolidation run, then the same for
\* the memory engine unless the turn is marked skip_post_memory.
Schedule(s, skip, consolidate) ==
    /\ turns[s] < MaxTurns
    /\ LET n == turns[s] + 1
       IN  /\ turns' = [turns EXCEPT ![s] = n]
           /\ recentQ' = [recentQ EXCEPT ![s] = Append(@, n)]
           /\ memoryQ' = IF skip THEN memoryQ ELSE [memoryQ EXCEPT ![s] = Append(@, n)]
           /\ due' = IF skip THEN due ELSE [due EXCEPT ![s] = Append(@, n)]
    /\ recent' = [recent EXCEPT ![s] = Started(@)]
    /\ memory' = IF skip THEN memory ELSE [memory EXCEPT ![s] = Started(@)]
    /\ consolidate => snapshot[s].pc = "none"
    /\ snapshot' = IF consolidate THEN [snapshot EXCEPT ![s].pc = "running"] ELSE snapshot
    /\ UNCHANGED <<settled, file>>

-----------------------------------------------------------------------------
(* The recent-context task.                                                 *)

\* refresh_recent_turns takes the newest turns of the session as it is now,
\* whatever event it was called for, and starts reading the file.
RecentTake(s) ==
    /\ recent[s].pc = "ready" /\ recentQ[s] # <<>>
    /\ recentQ' = [recentQ EXCEPT ![s] = Tail(@)]
    /\ recent' = [recent EXCEPT ![s] = [pc |-> "reading", upto |-> turns[s]]]
    /\ UNCHANGED <<turns, memoryQ, memory, due, settled, file, snapshot>>

RecentRead(s) ==
    /\ recent[s].pc = "reading"
    /\ recent' = [recent EXCEPT ![s].pc = "writing"]
    /\ UNCHANGED <<turns, recentQ, memoryQ, memory, due, settled, file, snapshot>>

RecentWrite(s) ==
    /\ recent[s].pc = "writing"
    /\ file' = [of |-> s, upto |-> recent[s].upto]
    /\ recent' = [recent EXCEPT ![s] = [NoTask EXCEPT !.pc = "ready"]]
    /\ UNCHANGED <<turns, recentQ, memoryQ, memory, due, settled, snapshot>>

\* The finally block: drop the task, start another if the queue refilled.
Restart(queue) == IF queue # <<>> THEN [NoTask EXCEPT !.pc = "ready"] ELSE NoTask

RecentDone(s) ==
    /\ recent[s].pc = "ready" /\ recentQ[s] = <<>>
    /\ recent' = [recent EXCEPT ![s] = Restart(recentQ[s])]
    /\ UNCHANGED <<turns, recentQ, memoryQ, memory, due, settled, file, snapshot>>

\* Mutant: an exception just ends the task.
RecentFails_noRestart(s) ==
    /\ recent[s].pc \in {"reading", "writing"}
    /\ recent' = [recent EXCEPT ![s] = NoTask]
    /\ UNCHANGED <<turns, recentQ, memoryQ, memory, due, settled, file, snapshot>>

\* An exception of the file access ends the task.
RecentFails(s) ==
    /\ recent[s].pc \in {"reading", "writing"}
    /\ recent' = [recent EXCEPT ![s] = Restart(recentQ[s])]
    /\ UNCHANGED <<turns, recentQ, memoryQ, memory, due, settled, file, snapshot>>

-----------------------------------------------------------------------------
(* The memory task.                                                         *)

\* Mutant: the newest event first.
IngestTake_newest(s) ==
    /\ memory[s].pc = "ready" /\ memoryQ[s] # <<>>
    /\ memory' = [memory EXCEPT ![s] = [pc |-> "ingesting", upto |-> memoryQ[s][Len(memoryQ[s])]]]
    /\ memoryQ' = [memoryQ EXCEPT ![s] = SubSeq(@, 1, Len(@) - 1)]
    /\ UNCHANGED <<turns, recentQ, recent, due, settled, file, snapshot>>

IngestTake(s) ==
    /\ memory[s].pc = "ready" /\ memoryQ[s] # <<>>
    /\ memory' = [memory EXCEPT ![s] = [pc |-> "ingesting", upto |-> Head(memoryQ[s])]]
    /\ memoryQ' = [memoryQ EXCEPT ![s] = Tail(@)]
    /\ UNCHANGED <<turns, recentQ, recent, due, settled, file, snapshot>>

\* Mutant: the number of the event is taken from the session.
IngestReturns_overrun(s) ==
    /\ memory[s].pc = "ingesting"
    /\ settled' = [settled EXCEPT ![s] = Append(@, turns[s] + 1)]
    /\ memory' = [memory EXCEPT ![s] = [NoTask EXCEPT !.pc = "ready"]]
    /\ UNCHANGED <<turns, recentQ, recent, memoryQ, due, file, snapshot>>

\* ingest returns or raises; the exception is counted and the loop goes on.
IngestReturns(s) ==
    /\ memory[s].pc = "ingesting"
    /\ settled' = [settled EXCEPT ![s] = Append(@, memory[s].upto)]
    /\ memory' = [memory EXCEPT ![s] = [NoTask EXCEPT !.pc = "ready"]]
    /\ UNCHANGED <<turns, recentQ, recent, memoryQ, due, file, snapshot>>

\* Mutant: the drained task stays, waiting for more.
MemoryDone_waits(s) ==
    /\ memory[s].pc = "ready" /\ memoryQ[s] = <<>>
    /\ UNCHANGED postVars

MemoryDone(s) ==
    /\ memory[s].pc = "ready" /\ memoryQ[s] = <<>>
    /\ memory' = [memory EXCEPT ![s] = Restart(memoryQ[s])]
    /\ UNCHANGED <<turns, recentQ, recent, memoryQ, due, settled, file, snapshot>>

-----------------------------------------------------------------------------
(* _build_recent_context_snapshot and write_recent_context, at the end of a *)
(* consolidation run.                                                       *)

\* The newest turns are taken before the file is read and the model asked.
SnapshotTake(s) ==
    /\ snapshot[s].pc = "running"
    /\ snapshot' = [snapshot EXCEPT ![s] = [pc |-> "compressing", upto |-> turns[s]]]
    /\ UNCHANGED <<turns, recentQ, recent, memoryQ, memory, due, settled, file>>

SnapshotCompress(s) ==
    /\ snapshot[s].pc = "compressing"
    /\ snapshot' = [snapshot EXCEPT ![s].pc = "writing"]
    /\ UNCHANGED <<turns, recentQ, recent, memoryQ, memory, due, settled, file>>

SnapshotWrite(s) ==
    /\ snapshot[s].pc = "writing"
    /\ file' = [of |-> s, upto |-> snapshot[s].upto]
    /\ snapshot' = [snapshot EXCEPT ![s] = NoTask]
    /\ UNCHANGED <<turns, recentQ, recent, memoryQ, memory, due, settled>>

\* Any earlier step of the run, the model or the file raises.
SnapshotFails(s) ==
    /\ snapshot[s].pc # "none"
    /\ snapshot' = [snapshot EXCEPT ![s] = NoTask]
    /\ UNCHANGED <<turns, recentQ, recent, memoryQ, memory, due, settled, file>>

-----------------------------------------------------------------------------
RecentTask(s) == RecentTake(s) \/ RecentRead(s) \/ RecentWrite(s) \/ RecentDone(s) \/ RecentFails(s)
MemoryTask(s) == IngestTake(s) \/ IngestReturns(s) \/ MemoryDone(s)
Snapshot(s) == SnapshotTake(s) \/ SnapshotCompress(s) \/ SnapshotWrite(s) \/ SnapshotFails(s)

PostNext ==
    \E s \in Sessions :
        \/ \E skip, consolidate \in BOOLEAN : Schedule(s, skip, consolidate)
        \/ RecentTask(s) \/ MemoryTask(s) \/ Snapshot(s)

\* Tasks run, threads return, calls to the engine and the model end.
PostFairness == \A s \in Sessions :
    WF_postVars(RecentTask(s)) /\ WF_postVars(MemoryTask(s)) /\ WF_postVars(Snapshot(s))

PostSpec == PostInit /\ [][PostNext]_postVars /\ PostFairness

-----------------------------------------------------------------------------
(* Properties.                                                              *)

(***************************************************************************)
(* The engine gets every turn of a session that was due, once and in the   *)
(* order of the turns, failures in between notwithstanding: what is        *)
(* settled, in hand and queued is what was scheduled.                      *)
(***************************************************************************)
InHand(s) == IF memory[s].pc = "ingesting" THEN <<memory[s].upto>> ELSE <<>>
IngestedInOrder == \A s \in Sessions : settled[s] \o InHand(s) \o memoryQ[s] = due[s]

(***************************************************************************)
(* Both queues of a session drain, and its memory task goes away.          *)
(***************************************************************************)
QueuesDrain ==
    \A s \in Sessions :
        (recentQ[s] # <<>> \/ memory[s].pc # "none") ~> (recentQ[s] = <<>> /\ memory[s].pc = "none")

(***************************************************************************)
(* "It mirrors the sliding window": the block never goes back from newer   *)
(* turns of a session to older ones.                                       *)
(***************************************************************************)
MirrorsWindow ==
    [][\A s \in Sessions : file.of = s /\ file'.of = s => file'.upto >= file.upto]_postVars
=============================================================================
