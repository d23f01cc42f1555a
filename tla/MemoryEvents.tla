---------------------------- MODULE MemoryEvents ----------------------------
(***************************************************************************)
(* One history entry on its way into the long-term store                   *)
(* (Memorizer.save_from_consolidation,                                     *)
(* MemoryStore2.upsert_consolidation_event), statement by statement.  The  *)
(* event loop and the thread in which _reinforce_context_result runs       *)
(* reinforce_items_batch use one sqlite3 connection, hence one             *)
(* transaction: either may commit what the other has begun.                *)
(*                                                                         *)
(* The consolidation that calls save_from_consolidation repeats a window   *)
(* as long as it has not advanced past it.                                 *)
(***************************************************************************)
EXTENDS Integers, FiniteSets

VARIABLES
    step,       \* where the event loop is in save_from_consolidation
    inserted,   \* this call inserted the row and owes it a vector
    advanced,   \* last_consolidated has passed the entry's window
    txn,        \* the connection has an open transaction
    saved,      \* committed: which of the entry's row, vector and ref exist
    pending,    \* written in the open transaction
    touch,      \* the reinforcing thread: idle, or between UPDATE and COMMIT
    skipped     \* history: the call gave up (embedding, near duplicate, SQL error)

eventVars == <<step, inserted, advanced, txn, saved, pending, touch, skipped>>

Parts == {"row", "ref", "vec"}
Visible == saved \cup pending

EventTypeOK ==
    /\ step \in {"idle", "embed", "begin", "look", "first", "second", "commit", "vec",
                "vecCommit", "done"}
    /\ inserted \in BOOLEAN /\ advanced \in BOOLEAN /\ txn \in BOOLEAN
    /\ saved \subseteq Parts /\ pending \subseteq Parts
    /\ touch \in {"idle", "updated"} /\ skipped \in BOOLEAN
    /\ pending # {} => txn

EventInit ==
    /\ step = "idle" /\ inserted = FALSE /\ advanced = FALSE
    /\ txn = FALSE /\ saved = {} /\ pending = {}
    /\ touch = "idle" /\ skipped = FALSE

-----------------------------------------------------------------------------
(* The connection: a DML statement opens a transaction unless one is open.  *)

Write(part) == txn' = TRUE /\ pending' = pending \cup {part} /\ UNCHANGED saved
Commit == txn' = FALSE /\ pending' = {} /\ saved' = Visible
Rollback == txn' = FALSE /\ pending' = {} /\ UNCHANGED saved
NoSql == UNCHANGED <<txn, saved, pending>>

GoTo(s) == step' = s /\ UNCHANGED <<inserted, advanced, touch, skipped>>

-----------------------------------------------------------------------------
(* The event loop.                                                          *)

\* has_consolidation_source_ref: an entry that has its ref is done.
CheckRef ==
    /\ step = "idle" /\ ~advanced
    /\ step' = IF "ref" \in Visible THEN "done" ELSE "embed"
    /\ inserted' = FALSE
    /\ skipped' = FALSE
    /\ NoSql
    /\ UNCHANGED <<advanced, touch>>

\* The embedding arrives; or it fails, or a recent event is so similar that
\* it is reinforced instead (UPDATE and commit of another row).
Embedded == step = "embed" /\ GoTo("begin") /\ NoSql

GivenUp(commits) ==
    /\ step = "embed"
    /\ step' = "done" /\ skipped' = TRUE
    /\ IF commits THEN Commit ELSE NoSql
    /\ UNCHANGED <<inserted, advanced, touch>>

\* BEGIN IMMEDIATE raises inside a transaction; the caller logs a warning.
Begin ==
    /\ step = "begin"
    /\ IF txn THEN GoTo("done") /\ NoSql
       ELSE GoTo("look") /\ txn' = TRUE /\ UNCHANGED <<saved, pending>>

\* Look the ref up again: another run may have saved the entry meanwhile.
Look ==
    /\ step = "look"
    /\ IF "ref" \in Visible THEN GoTo("done") /\ Commit ELSE GoTo("first") /\ NoSql

\* Mutant: the ref is written first.
Writes_refFirst == <<"ref", "row">>

\* The order of the transaction's two writes.
Writes == <<"row", "ref">>

\* A row with the entry's content_hash is reinforced, otherwise inserted.
WriteFirst ==
    /\ step = "first"
    /\ step' = "second"
    /\ inserted' = ("row" \notin Visible)
    /\ Write(Writes[1])
    /\ UNCHANGED <<advanced, touch, skipped>>

WriteSecond == step = "second" /\ GoTo("commit") /\ Write(Writes[2])

\* COMMIT raises when the other thread has ended the transaction: the
\* exception skips the vector.
CommitEvent ==
    /\ step = "commit"
    /\ IF ~txn THEN GoTo("done") /\ NoSql
       ELSE Commit /\ GoTo(IF inserted THEN "vec" ELSE "done")

WriteVec == step = "vec" /\ GoTo("vecCommit") /\ Write("vec")
CommitVec == step = "vecCommit" /\ GoTo("done") /\ Commit

\* Any statement raises (disk full, locked by the dashboard's connection).
StatementFails ==
    /\ step \in {"look", "first", "second", "commit"}
    /\ step' = "done" /\ skipped' = TRUE
    /\ Rollback
    /\ UNCHANGED <<inserted, advanced, touch>>

\* The rest of the consolidation succeeds: last_consolidated moves.  When it
\* fails the window, and with it the entry, comes again.
Advance(succeeds) ==
    /\ step = "done"
    /\ step' = "idle"
    /\ advanced' = succeeds
    /\ NoSql
    /\ UNCHANGED <<inserted, touch, skipped>>

-----------------------------------------------------------------------------
(* The thread of asyncio.to_thread(reinforce_items_batch).                  *)

TouchItems ==
    /\ touch = "idle" /\ touch' = "updated"
    /\ txn' = TRUE /\ UNCHANGED <<saved, pending>>
    /\ UNCHANGED <<step, inserted, advanced, skipped>>

CommitTouch ==
    /\ touch = "updated" /\ touch' = "idle"
    /\ Commit
    /\ UNCHANGED <<step, inserted, advanced, skipped>>

\* Process death; at the next start a committed row gets its vector.
EventCrash ==
    /\ step' = "idle" /\ inserted' = FALSE /\ touch' = "idle"
    /\ txn' = FALSE /\ pending' = {}
    /\ saved' = IF "row" \in saved THEN saved \cup {"vec"} ELSE saved
    /\ UNCHANGED <<advanced, skipped>>

EventNext ==
    \/ CheckRef \/ Embedded \/ (\E commits \in BOOLEAN : GivenUp(commits))
    \/ Begin \/ Look \/ WriteFirst \/ WriteSecond \/ CommitEvent
    \/ WriteVec \/ CommitVec \/ StatementFails
    \/ \E succeeds \in BOOLEAN : Advance(succeeds)
    \/ TouchItems \/ CommitTouch \/ EventCrash

EventSpec == EventInit /\ [][EventNext]_eventVars

-----------------------------------------------------------------------------
(* Properties.                                                              *)

(***************************************************************************)
(* "Atomic write of a consolidation event": a committed source_ref never   *)
(* stands without its row, whoever committed it and wherever the process   *)
(* died; the ref alone would make every later run skip the event.          *)
(***************************************************************************)
RefMeansRow == "ref" \in saved => "row" \in saved

(***************************************************************************)
(* Once last_consolidated has passed a window, its entry is in the store   *)
(* or a call gave it up.                                                   *)
(***************************************************************************)
EventIsSaved == advanced => skipped \/ "ref" \in Visible

(***************************************************************************)
(* A saved event can be found: its row has a vector.                       *)
(***************************************************************************)
EventIsFound == step = "done" /\ "ref" \in saved => "vec" \in saved
=============================================================================
