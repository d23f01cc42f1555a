--------------------------- MODULE Consolidation ---------------------------
(***************************************************************************)
(* One conversation session, the turns that append to it and the           *)
(* background pipeline that archives its older messages into long-term     *)
(* memory (session/manager.py, agent/looping/ports.py,                     *)
(* agent/looping/consolidation.py).                                        *)
(*                                                                         *)
(* A message is its position in the session's rows of sessions.db, so the  *)
(* rows are 0 .. stored-1.  The cached Session always holds a suffix of    *)
(* the rows: base is the number of rows a context trim removed from it,    *)
(* and lc is Session.last_consolidated, an index into the CACHED list.     *)
(*                                                                         *)
(* Everything between two awaits of the event loop is one step.            *)
(***************************************************************************)
EXTENDS Integers, FiniteSets

CONSTANTS
    Keep,          \* keep_count: the newest messages a window leaves alone
    MinNew,        \* consolidation_min_new_messages
    MaxMessages,   \* bound: rows the session ever gets
    MaxWaiters,    \* bound: manual triggers waiting at the same time
    MaxTrims       \* bound: context trims

ASSUME KeepAssumption == Keep \in Nat
ASSUME MinNewAssumption == MinNew \in Nat \ {0}
ASSUME BoundsAssumption ==
    MaxMessages \in Nat /\ MaxWaiters \in Nat /\ MaxTrims \in Nat

VARIABLES
    stored,     \* rows of the session in sessions.db
    storedLc,   \* last_consolidated in the sessions row
    base,       \* rows missing at the front of the cached Session.messages
    lc,         \* last_consolidated of the cached Session
    phase,      \* where the session's only consolidation task is
    window,     \* the ConsolidationWindow it selected, in row positions
    archived,   \* per sink, the rows whose window it has processed
    refs,       \* source_refs (row ranges) present in HISTORY.md
    waiters,    \* manual triggers polling wait_for_consolidation_idle
    trims       \* history: how often a retry shortened the cached list

sessionVars == <<stored, storedLc, base, lc>>
taskVars == <<phase, window, archived, refs, waiters>>
vars == <<sessionVars, taskVars, trims>>

\* HISTORY.md and PENDING.md (files, indexed by source_ref) and the two
\* writes to the vector store.
FileSinks == {"history", "pending"}
Sinks == FileSinks \cup {"vector", "implicit"}

Phases == {"idle", "scheduled", "reading", "extracting", "history",
           "pending", "vector", "implicit", "recent"}

NoWindow == [from |-> 0, upto |-> 0, mark |-> 0]

Consolidating == phase # "idle"

Length == stored - base

\* _select_consolidation_window, in positions of the cached list.
Selectable(lo) ==
    /\ Length > Keep
    /\ Length - lo > 0
    /\ Length - Keep - lo >= MinNew
    /\ Length - Keep > lo

\* Mutant: the newest messages are not kept out of the window.
SelectedWindow_keepIgnored(lo) ==
    [from |-> base + lo, upto |-> stored, mark |-> Length]

SelectedWindow(lo) ==
    [from |-> base + lo, upto |-> stored - Keep, mark |-> Length - Keep]

\* archive_all: every cached message; the mark goes back to 0 afterwards.
WholeWindow == [from |-> base, upto |-> stored, mark |-> 0]

CurrentRef == <<window.from, window.upto>>

Covers(ref, m) == ref[1] <= m /\ m < ref[2]

WindowRows == window.from .. (window.upto - 1)

TypeOK ==
    /\ stored \in Nat /\ storedLc \in Nat /\ base \in Nat /\ lc \in Nat
    /\ base <= stored
    /\ phase \in Phases
    /\ window \in [from : Nat, upto : Nat, mark : Nat]
    /\ archived \in [Sinks -> SUBSET Nat]
    /\ refs \subseteq Nat \X Nat
    /\ waiters \in Nat
    /\ trims \in Nat

Init ==
    /\ stored = 0 /\ storedLc = 0 /\ base = 0 /\ lc = 0
    /\ phase = "idle" /\ window = NoWindow
    /\ archived = [s \in Sinks |-> {}] /\ refs = {}
    /\ waiters = 0
    /\ trims = 0

-----------------------------------------------------------------------------
(* Turns.                                                                   *)

\* schedule_consolidation: start the task unless the key is already marked.
ScheduleIfReady(rows) ==
    phase' = IF rows - base - Keep - lc >= MinNew /\ ~Consolidating
               THEN "scheduled" ELSE phase

\* DefaultContextStore.commit: the assistant message, and the user message
\* unless omit_user_turn, are added to the cached session and inserted; the
\* sessions row is rewritten with the cached last_consolidated; post-turn
\* scheduling follows without leaving the event loop.
CommitTurn(added) ==
    /\ stored + added <= MaxMessages
    /\ stored' = stored + added
    /\ storedLc' = lc
    /\ ScheduleIfReady(stored')
    /\ UNCHANGED <<base, lc, window, archived, refs, waiters>>

\* DefaultReasoner.run_turn after a retry that succeeded on a smaller
\* prompt: keep the last w cached messages (none when w = 0), reset
\* last_consolidated and save.  No row is deleted.
TrimAfterRetry(w) ==
    /\ w <= Length
    /\ base' = stored - w
    /\ lc' = 0
    /\ storedLc' = 0
    /\ UNCHANGED <<stored, phase, window, archived, refs, waiters>>

-----------------------------------------------------------------------------
(* The consolidation task.                                                  *)

GoIdle ==
    /\ phase' = "idle"
    /\ window' = NoWindow

\* The task starts running: window selection, then the file reads begin.
StartRun ==
    /\ phase = "scheduled"
    /\ Selectable(lc)
    /\ phase' = "reading"
    /\ window' = SelectedWindow(lc)
    /\ UNCHANGED <<sessionVars, archived, refs, waiters>>

\* Mutant: the key is not released on the early return.
StartEmpty_keyKept ==
    /\ phase = "scheduled"
    /\ ~Selectable(lc)
    /\ storedLc' = lc
    /\ UNCHANGED <<stored, base, lc, phase, window, archived, refs, waiters>>

\* Nothing to do any more: return, save the session, release the key.
StartEmpty ==
    /\ phase = "scheduled"
    /\ ~Selectable(lc)
    /\ GoIdle
    /\ storedLc' = lc
    /\ UNCHANGED <<stored, base, lc, archived, refs, waiters>>

ReadMemory ==
    /\ phase = "reading"
    /\ phase' = "extracting"
    /\ UNCHANGED <<sessionVars, window, archived, refs, waiters>>

\* An exception of the reads is outside the try block: the runner raises
\* before it saves, and only the key is released.
ReadFails ==
    /\ phase = "reading"
    /\ GoIdle
    /\ UNCHANGED <<sessionVars, archived, refs, waiters>>

\* The event extraction returned a JSON object.
ExtractEvents ==
    /\ phase = "extracting"
    /\ phase' = "history"
    /\ UNCHANGED <<sessionVars, window, archived, refs, waiters>>

Record(sink) == archived' = [archived EXCEPT ![sink] = @ \cup WindowRows]

\* append_history_once and append_pending_once; with nothing to append the
\* window counts as processed for that sink.
WriteHistory ==
    /\ phase = "history"
    /\ Record("history")
    /\ refs' = refs \cup {CurrentRef}
    /\ phase' = "pending"
    /\ UNCHANGED <<sessionVars, window, waiters>>

WritePending ==
    /\ phase = "pending"
    /\ Record("pending")
    /\ phase' = "vector"
    /\ UNCHANGED <<sessionVars, window, refs, waiters>>

\* save_from_consolidation: Memorizer and MemoryPort log an embedding or
\* database error and return, so the pipeline goes on either way.
WriteVector ==
    /\ phase = "vector"
    /\ Record("vector") \/ UNCHANGED archived
    /\ phase' = "implicit"
    /\ UNCHANGED <<sessionVars, window, refs, waiters>>

\* The implicit extraction answers None on any failure, which is treated
\* like "nothing found".
WriteImplicit ==
    /\ phase = "implicit"
    /\ Record("implicit") \/ UNCHANGED archived
    /\ phase' = "recent"
    /\ UNCHANGED <<sessionVars, window, refs, waiters>>

\* Mutant: the index is computed from the list as it is now.
FinishRun_lateMark ==
    /\ phase = "recent"
    /\ lc' = IF window.mark = 0 THEN 0 ELSE Length - Keep
    /\ storedLc' = lc'
    /\ GoIdle
    /\ UNCHANGED <<stored, base, archived, refs, waiters>>

\* The last await (write_recent_context) returned: advance, save, release.
FinishRun ==
    /\ phase = "recent"
    /\ lc' = window.mark
    /\ storedLc' = window.mark
    /\ GoIdle
    /\ UNCHANGED <<stored, base, archived, refs, waiters>>

\* Mutant: the failed run saves the index it was working towards.
RunFails_marks ==
    /\ phase \in Phases \ {"idle", "scheduled", "reading"}
    /\ GoIdle
    /\ storedLc' = window.mark
    /\ UNCHANGED <<stored, base, lc, archived, refs, waiters>>

\* An empty or malformed answer, or an exception in any later step: the
\* index does not advance, the session is saved all the same.
RunFails ==
    /\ phase \in Phases \ {"idle", "scheduled", "reading"}
    /\ GoIdle
    /\ storedLc' = lc
    /\ UNCHANGED <<stored, base, lc, archived, refs, waiters>>

-----------------------------------------------------------------------------
(* Manual triggers (ConsolidationRuntime.trigger_memory_consolidation).     *)

\* Marks the key and enters consolidate without an await in between.
BeginManual(w) ==
    /\ phase' = "reading"
    /\ window' = w

TriggerNow(all) ==
    /\ ~Consolidating
    /\ all \/ Selectable(lc)
    /\ BeginManual(IF all THEN WholeWindow ELSE SelectedWindow(lc))
    /\ UNCHANGED <<sessionVars, archived, refs, waiters>>

TriggerWaits(all) ==
    /\ Consolidating
    /\ all \/ Selectable(lc)
    /\ waiters < MaxWaiters
    /\ waiters' = waiters + 1
    /\ UNCHANGED <<sessionVars, phase, window, archived, refs>>

\* A poll finds the key free: the window is selected again, and the trigger
\* either starts at once or reports that nothing is left.
WaiterProceeds(all) ==
    /\ waiters > 0
    /\ ~Consolidating
    /\ waiters' = waiters - 1
    /\ IF all \/ Selectable(lc)
         THEN BeginManual(IF all THEN WholeWindow ELSE SelectedWindow(lc))
         ELSE UNCHANGED <<phase, window>>
    /\ UNCHANGED <<sessionVars, archived, refs>>

\* Mutants: a deadline that fires for nobody, and no deadline at all.
WaiterTimesOut_nobody ==
    /\ Consolidating
    /\ waiters' = waiters - 1
    /\ UNCHANGED <<sessionVars, phase, window, archived, refs>>

WaiterTimesOut_never == FALSE /\ UNCHANGED vars

WaiterTimesOut ==
    /\ waiters > 0
    /\ Consolidating
    /\ waiters' = waiters - 1
    /\ UNCHANGED <<sessionVars, phase, window, archived, refs>>

-----------------------------------------------------------------------------
(* Process death.  Caches, tasks and waiters go; get_or_create reloads      *)
(* every row and the stored index.                                          *)

Reload ==
    /\ base' = 0
    /\ lc' = storedLc
    /\ GoIdle
    /\ waiters' = 0

Crash ==
    /\ Reload
    /\ UNCHANGED <<stored, storedLc, archived, refs>>

\* Each row is committed by itself: the process dies after the user's row.
CrashInCommit ==
    /\ stored < MaxMessages
    /\ stored' = stored + 1
    /\ Reload
    /\ UNCHANGED <<storedLc, archived, refs>>

-----------------------------------------------------------------------------
Pipeline ==
    \/ StartRun \/ StartEmpty \/ ReadMemory \/ ReadFails \/ ExtractEvents
    \/ WriteHistory \/ WritePending \/ WriteVector \/ WriteImplicit
    \/ FinishRun \/ RunFails

Manual ==
    \/ \E all \in BOOLEAN : TriggerNow(all) \/ TriggerWaits(all) \/ WaiterProceeds(all)
    \/ WaiterTimesOut

Untrimmed ==
    \/ \E added \in {1, 2} : CommitTurn(added)
    \/ Pipeline
    \/ Manual
    \/ Crash
    \/ CrashInCommit

Next ==
    \/ Untrimmed /\ UNCHANGED trims
    \/ /\ trims < MaxTrims
       /\ trims' = trims + 1
       /\ \E w \in 0..Length : TrimAfterRetry(w)

\* The event loop runs a ready task, calls return and polls are repeated.
Fairness ==
    /\ WF_vars(Pipeline /\ UNCHANGED trims)
    /\ WF_vars(/\ (\E all \in BOOLEAN : WaiterProceeds(all)) \/ WaiterTimesOut
               /\ UNCHANGED trims)

Spec == Init /\ [][Next]_vars /\ Fairness

-----------------------------------------------------------------------------
(* Properties.                                                              *)

(***************************************************************************)
(* "last_consolidated advances only after all writes": every message the   *)
(* session counts as consolidated has been through both file sinks, also   *)
(* when turns were committed, a trigger waited, a run failed half-way or   *)
(* the process died in between.  A session that was trimmed is excepted:   *)
(* see MarkedAlwaysArchived.                                               *)
(***************************************************************************)
MarkedAlwaysArchived ==
    \A m \in base..(stored - 1) :
        m < base + lc => \A s \in FileSinks : m \in archived[s]

MarkedIsArchived == trims > 0 \/ MarkedAlwaysArchived

(***************************************************************************)
(* The same after a restart: what the database says is consolidated has    *)
(* been archived, so a reload can skip it.                                 *)
(***************************************************************************)
StoredMarkIsArchived ==
    \/ trims > 0
    \/ \A m \in 0..(stored - 1) :
           m < storedLc => \A s \in FileSinks : m \in archived[s]

(***************************************************************************)
(* No index, of the list in memory or of the database, passes a message    *)
(* that the files lack.                                                    *)
(***************************************************************************)
ArchiveIsWhole == MarkedIsArchived /\ StoredMarkIsArchived

(***************************************************************************)
(* The newest Keep messages stay unconsolidated: the index never points    *)
(* past them, although the list grew while the window was processed.       *)
(***************************************************************************)
TailKept == lc = 0 \/ lc + Keep <= Length
TailIsKept == trims > 0 \/ TailKept

(***************************************************************************)
(* A key never stays marked: whatever step of a run fails, the session can *)
(* be consolidated again, and every manual trigger gets an answer.         *)
(***************************************************************************)
KeyIsReleased == Consolidating ~> ~Consolidating
WaitersReturn == (waiters > 0) ~> (waiters = 0)
RunsComplete == KeyIsReleased /\ WaitersReturn

(***************************************************************************)
(* "The next run repeats the same window": no message is summarised into   *)
(* HISTORY.md under two different source_refs.                             *)
(***************************************************************************)
HistoryOnce ==
    \A r, q \in refs :
        r # q => \A m \in 0..(stored - 1) : ~(Covers(r, m) /\ Covers(q, m))
=============================================================================
