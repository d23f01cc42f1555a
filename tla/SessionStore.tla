---------------------------- MODULE SessionStore ----------------------------
(***************************************************************************)
(* One session: the list the process keeps in memory, its rows and its     *)
(* entry in sessions.db, and the dashboard, which changes the rows through *)
(* a connection of its own and tells the process nothing                   *)
(* (session/manager.py, session/store.py, bootstrap/dashboard_api.py).     *)
(*                                                                         *)
(* A save has no await: the process does nothing else until it ends.  But  *)
(* each of its statements commits by itself, may fail, and may be the last *)
(* one before the process dies; and the dashboard works between them.      *)
(* A message is the number of its birth; the id of a row is its seq.       *)
(***************************************************************************)
EXTENDS Integers, FiniteSets, FiniteSetsExt, Sequences, SequencesExt, Functions

CONSTANTS MaxBorn, MaxSessionSaves, MaxBreaksOfSaves, MaxDashboard     \* bounds

ASSUME SessionAssumption == {MaxBorn, MaxSessionSaves, MaxBreaksOfSaves, MaxDashboard} \subseteq Nat

Unsaved == -1
NoEntry == -1

VARIABLES
    table,       \* messages: from seq to message
    entry,      \* last_consolidated in the session's row, or NoEntry
    cached, list, mark,     \* the Session in _cache: its messages with their ids, its mark
    todo,       \* messages the save under way has still to look at
    stage,      \* of the save: idle, meta, rows
    nextSeq,    \* as the save counts it
    counted,    \* the dashboard found no messages and goes on to delete the entry
    born, settled, failed, cut, deleted, archived,    \* history: of messages
    moved,      \* history: the dashboard set last_consolidated itself
    saveCount, broken, dashboards

sessionVars == <<table, entry, cached, list, mark, todo, stage, nextSeq, counted,
                 born, settled, failed, cut, deleted, archived, moved, saveCount, broken, dashboards>>
memory == <<cached, list, mark>>
save == <<todo, stage, nextSeq>>
past == <<born, settled, failed, cut, archived>>
desk == <<counted, deleted, moved, dashboards>>

Messages == 1..MaxBorn
Saved(x) == x.id # Unsaved
Names(s) == {s[i].msg : i \in DOMAIN s}

SessionTypeOK ==
    /\ DOMAIN table \subseteq 0..MaxBorn /\ Range(table) \subseteq Messages
    /\ entry \in {NoEntry} \cup 0..MaxBorn /\ mark \in 0..MaxBorn
    /\ list \in Seq([msg : Messages, id : {Unsaved} \cup 0..MaxBorn]) /\ (~cached => list = <<>>)
    /\ ToSet(todo) \subseteq Messages /\ stage \in {"idle", "meta", "rows"}
    /\ settled \cup failed \cup cut \cup deleted \cup archived \subseteq 1..born

SessionInit ==
    /\ table = <<>> /\ entry = NoEntry /\ cached = FALSE /\ list = <<>> /\ mark = 0
    /\ todo = <<>> /\ stage = "idle" /\ nextSeq = 0 /\ counted = FALSE
    /\ born = 0 /\ settled = {} /\ failed = {} /\ cut = {} /\ deleted = {} /\ archived = {} /\ moved = FALSE
    /\ saveCount = 0 /\ broken = 0 /\ dashboards = 0

-----------------------------------------------------------------------------
(* The process                                                              *)

\* Mutant: the newest first, as the dashboard lists them.
InOrder_newestFirst(seqs) ==
    CHOOSE s \in [1..Cardinality(seqs) -> seqs] : \A i, j \in DOMAIN s : i < j => s[i] > s[j]

\* ORDER BY seq ASC
InOrder(seqs) ==
    CHOOSE s \in [1..Cardinality(seqs) -> seqs] : \A i, j \in DOMAIN s : i < j => s[i] < s[j]

\* fetch_session_messages
Stored ==
    LET seqs == InOrder(DOMAIN table)
    IN  [i \in 1..Cardinality(DOMAIN table) |-> [msg |-> table[seqs[i]], id |-> seqs[i]]]

\* Mutant: what is loaded counts as consolidated.
Opens_marksAll ==
    /\ stage = "idle" /\ ~cached /\ cached' = TRUE
    /\ list' = Stored /\ mark' = Len(list')
    /\ entry' = IF entry = NoEntry /\ Stored = <<>> THEN 0 ELSE entry
    /\ UNCHANGED <<table, save, past, desk, saveCount, broken>>

\* SessionManager.get_or_create: from the cache, from the tables, or a new one.
Opens ==
    /\ stage = "idle" /\ ~cached /\ cached' = TRUE
    /\ list' = Stored
    /\ mark' = IF entry = NoEntry THEN 0 ELSE entry
    /\ entry' = IF entry = NoEntry /\ Stored = <<>> THEN 0 ELSE entry
    /\ UNCHANGED <<table, save, past, desk, saveCount, broken>>

\* update_presence: before the user's turn is added, or after a push was sent.
Presence ==
    /\ stage = "idle" /\ entry = NoEntry /\ entry' = 0
    /\ UNCHANGED <<table, memory, save, past, desk, saveCount, broken>>

SaveBegins(messages) ==
    /\ todo' = messages /\ stage' = "meta" /\ saveCount < MaxSessionSaves /\ saveCount' = saveCount + 1
    /\ UNCHANGED nextSeq

\* add_message for a turn (two) or a push (one), then append_messages of these.
Says(count) ==
    /\ stage = "idle" /\ cached /\ born + count <= MaxBorn /\ born' = born + count
    /\ list' = list \o [i \in 1..count |-> [msg |-> born + i, id |-> Unsaved]]
    /\ SaveBegins([i \in 1..count |-> born + i])
    /\ UNCHANGED <<table, entry, cached, mark, settled, failed, cut, archived, desk, broken>>

\* save_async: after a consolidation, or a change of metadata (the same mark).
SavesAll ==
    /\ stage = "idle" /\ cached
    /\ \E to \in {mark, Len(list)} :
        /\ to >= mark /\ mark' = to
        /\ archived' = archived \cup Names(SubSeq(list, mark + 1, to))
    /\ SaveBegins([i \in DOMAIN list |-> list[i].msg])
    /\ UNCHANGED <<table, entry, cached, list, born, settled, failed, cut, desk, broken>>

\* A retry with a smaller window that succeeded cuts the list and saveCount it.
Trims ==
    /\ stage = "idle" /\ cached /\ mark' = 0
    /\ \E window \in 0..(Len(list) - 1) :
        /\ list' = SubSeq(list, Len(list) - window + 1, Len(list))
        /\ SaveBegins([i \in 1..window |-> list[Len(list) - window + i].msg])
        /\ cut' = cut \cup {list[i].msg : i \in 1..(Len(list) - window)}
    /\ UNCHANGED <<table, entry, cached, born, settled, failed, archived, desk, broken>>

-----------------------------------------------------------------------------
(* The statements of a save                                                 *)

\* Mutant: the rows are counted.
FreeSeq_count == Cardinality(DOMAIN table)

\* next_seq
FreeSeq == IF table = <<>> THEN 0 ELSE Max(DOMAIN table) + 1

\* _ensure_session_meta, then next_seq.
SaveEntry ==
    /\ stage = "meta" /\ stage' = "rows" /\ entry' = mark /\ nextSeq' = FreeSeq
    /\ UNCHANGED <<table, memory, todo, past, desk, saveCount, broken>>

IdOf(message) == (CHOOSE i \in DOMAIN list : list[i].msg = message)

\* Mutant: a message that has an id is inserted again.
SaveRow_again ==
    /\ stage = "rows" /\ todo # <<>> /\ todo' = Tail(todo)
    /\ LET i == IdOf(Head(todo))
       IN  /\ table' = [s \in DOMAIN table \cup {nextSeq} |->
                            IF s = nextSeq THEN Head(todo) ELSE table[s]]
           /\ list' = [list EXCEPT ![i].id = nextSeq] /\ nextSeq' = nextSeq + 1
    /\ UNCHANGED <<entry, cached, mark, stage, past, desk, saveCount, broken>>

\* _persist_messages: one message; only those without an id are inserted.
SaveRow ==
    /\ stage = "rows" /\ todo # <<>> /\ todo' = Tail(todo)
    /\ LET i == IdOf(Head(todo))
       IN  IF Saved(list[i]) THEN UNCHANGED <<table, list, nextSeq>>
           ELSE /\ table' = [s \in DOMAIN table \cup {nextSeq} |->
                                IF s = nextSeq THEN Head(todo) ELSE table[s]]
                /\ list' = [list EXCEPT ![i].id = nextSeq] /\ nextSeq' = nextSeq + 1
    /\ UNCHANGED <<entry, cached, mark, stage, past, desk, saveCount, broken>>

\* The last upsert_session; the save returns.
SaveCloses ==
    /\ stage = "rows" /\ todo = <<>> /\ stage' = "idle" /\ entry' = mark /\ nextSeq' = 0
    /\ settled' = settled \cup {list[i].msg : i \in {j \in DOMAIN list : Saved(list[j])}}
    /\ UNCHANGED <<table, memory, todo, born, failed, cut, archived, desk, saveCount, broken>>

\* A statement raises, since the dashboard's connection held the lock too long.
SaveRaises ==
    /\ stage # "idle" /\ stage' = "idle" /\ todo' = <<>> /\ nextSeq' = 0
    /\ broken < MaxBreaksOfSaves /\ broken' = broken + 1
    /\ failed' = failed \cup {list[i].msg : i \in {j \in DOMAIN list : ~Saved(list[j])}}
    /\ UNCHANGED <<table, entry, memory, born, settled, cut, archived, desk, saveCount>>

SessionDies ==
    /\ cached /\ broken < MaxBreaksOfSaves /\ broken' = broken + 1
    /\ cached' = FALSE /\ list' = <<>> /\ mark' = 0
    /\ stage' = "idle" /\ todo' = <<>> /\ nextSeq' = 0 /\ counted' = FALSE
    /\ UNCHANGED <<table, entry, past, deleted, moved, dashboards, saveCount>>

-----------------------------------------------------------------------------
(* The dashboard                                                            *)

Dashboard == dashboards < MaxDashboard /\ dashboards' = dashboards + 1
Without(seqs) == [s \in DOMAIN table \ seqs |-> table[s]]

\* delete_message, delete_messages_batch
DeletesRows ==
    /\ \E seqs \in SUBSET DOMAIN table \ {{}} :
        table' = Without(seqs) /\ deleted' = deleted \cup {table[s] : s \in seqs}
    /\ Dashboard
    /\ UNCHANGED <<entry, memory, save, past, counted, moved, saveCount, broken>>

\* delete_session, delete_sessions_batch with cascade: one transaction.
DeletesSession ==
    /\ entry # NoEntry /\ entry' = NoEntry /\ table' = <<>> /\ deleted' = deleted \cup Range(table)
    /\ Dashboard
    /\ UNCHANGED <<memory, save, past, counted, moved, saveCount, broken>>

\* Without cascade: the count and the deletion are not one transaction.
CountsRows ==
    /\ ~counted /\ table = <<>> /\ counted' = TRUE /\ Dashboard
    /\ UNCHANGED <<table, entry, memory, save, past, deleted, moved, saveCount, broken>>

DeletesEntry ==
    /\ counted /\ counted' = FALSE /\ entry' = NoEntry
    /\ UNCHANGED <<table, memory, save, past, deleted, moved, saveCount, broken, dashboards>>

\* update_session
MovesMark ==
    /\ entry # NoEntry /\ entry' \in 0..MaxBorn /\ moved' = TRUE /\ Dashboard
    /\ UNCHANGED <<table, memory, save, past, counted, deleted, saveCount, broken>>

-----------------------------------------------------------------------------
SessionNext ==
    \/ Opens \/ Presence \/ \E count \in {1, 2} : Says(count)
    \/ SavesAll \/ Trims
    \/ SaveEntry \/ SaveRow \/ SaveCloses \/ SaveRaises \/ SessionDies
    \/ DeletesRows \/ DeletesSession \/ CountsRows \/ DeletesEntry \/ MovesMark

SessionSpec == SessionInit /\ [][SessionNext]_sessionVars

-----------------------------------------------------------------------------
AckedAreStored ==
    /\ settled \ deleted \subseteq Range(table) /\ IsInjective(table)
    /\ \A i \in DOMAIN list :
        Saved(list[i]) /\ list[i].msg \notin deleted => table[list[i].id] = list[i].msg

ListInOrder ==
    \A i, j \in DOMAIN list :
        /\ i < j /\ Saved(list[i]) /\ Saved(list[j])
           /\ {list[i].msg, list[j].msg} \subseteq Range(table) /\ list[i].id > list[j].id =>
            list[i].msg \in failed
        /\ i # j /\ Saved(list[i]) /\ list[i].id = list[j].id =>
            {list[i].msg, list[j].msg} \cap deleted # {}

(***************************************************************************)
(* Below last_consolidated there are no more messages that were never      *)
(* archived than were deleted, left behind by a failed save, or cut off.   *)
(***************************************************************************)
FewSlipBelowMark ==
    cached /\ ~moved =>
        Cardinality({list[i].msg : i \in DOMAIN list \cap 1..mark} \ archived)
            <= Cardinality(deleted) + Cardinality(failed) + Cardinality(cut)

(***************************************************************************)
(* Whatever the dashboard deletes meanwhile and whichever save fails: a    *)
(* message whose save returned has its row, and one row only, as long as   *)
(* the dashboard leaves it; the rows of the messages in memory stand in    *)
(* the list's order, but for those that an earlier save failed to write;   *)
(* and an id is carried by two messages only after a deletion.             *)
(***************************************************************************)
SessionsAgree == AckedAreStored /\ ListInOrder
=============================================================================
