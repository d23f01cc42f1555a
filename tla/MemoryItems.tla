---------------------------- MODULE MemoryItems ----------------------------
(***************************************************************************)
(* The rules and preferences of the long-term store (memory2/store.py,     *)
(* memory2/memorizer.py): the saves of the memorize tool and of the        *)
(* consolidation's implicit extraction, the post-response worker that      *)
(* retires what the user took back, forget_memory, and the dashboard.      *)
(*                                                                         *)
(* A summary is the sequence of the facts it states.  All items have one   *)
(* memory_type, so content_hash is the summary.  What a step does between  *)
(* two awaits is one action; the process may die between its commits.      *)
(***************************************************************************)
EXTENDS Integers, FiniteSets, Sequences, SequencesExt, Functions

CONSTANTS
    Facts,         \* what a summary can state
    MaxFacts,      \* bound: facts of one summary
    MaxItems,      \* bound: rows ever inserted
    MaxSaves,      \* bound: calls of save_item_with_supersede
    MaxMishaps     \* bound: rows without the vector of their text, with the calls of
                   \* forget_memory and of the dashboard

ASSUME MaxFactsAssumption == MaxFacts \in Nat \ {0}
ASSUME ItemBoundsAssumption ==
    MaxItems \in Nat \ {0} /\ MaxSaves \in Nat /\ MaxMishaps \in Nat

VARIABLES
    row,       \* memory_items with the vec_items entry of each row
    writer,    \* the two callers of save_item_with_supersede
    pinned,    \* ids that memorize calls in the running turn's tool chain reported
    own,       \* history: rows those calls really left their summary in
    worker,    \* the post-response worker of the last finished turn
    saves,     \* counts saves
    retired,   \* counts forget_memory and dashboard calls
    torn,      \* history: rows whose vector was not written when their text was
    collided   \* history: a merge ended on an existing content_hash

itemVars == <<row, writer, pinned, own, worker, saves, retired, torn, collided>>

Ids == 1..MaxItems
Writers == {"tool", "implicit"}
Summaries == {s \in SeqOf(Facts, MaxFacts) : s # <<>> /\ IsInjective(s)}
None == <<>>

NoRow == [text |-> None, status |-> "absent", vec |-> None]
IdleWriter == [pc |-> "idle", text |-> None, target |-> 1, seen |-> None,
               said |-> FALSE]
NoWorker == [pc |-> "off", spared |-> {}, own |-> {}, found |-> {}]

Existing(r) == {i \in Ids : r[i].status \in {"active", "superseded"}}
Active(r) == {i \in Ids : r[i].status = "active"}
Within(s, t) == \E i, j \in 1..Len(t) : s = SubSeq(t, i, j)

ItemTypeOK ==
    /\ row \in [Ids -> [text : Summaries \cup {None}, vec : Summaries \cup {None},
                        status : {"absent", "active", "superseded", "deleted"}]]
    /\ writer \in [Writers -> [pc : {"idle", "embed", "merge"}, target : Ids,
                               text : Summaries \cup {None},
                               seen : Summaries \cup {None}, said : BOOLEAN]]
    /\ pinned \subseteq Ids /\ own \subseteq Ids
    /\ worker \in [pc : {"off", "topics", "judge"}, spared : SUBSET Ids,
                   own : SUBSET Ids, found : SUBSET Ids]
    /\ saves \in 0..MaxSaves /\ retired \in 0..MaxMishaps
    /\ torn \subseteq Ids /\ collided \in BOOLEAN
    \* ux_items_hash
    /\ \A i, j \in Existing(row) : row[i].text = row[j].text => i = j

ItemInit ==
    /\ row = [i \in Ids |-> NoRow]
    /\ writer = [w \in Writers |-> IdleWriter]
    /\ pinned = {} /\ own = {} /\ worker = NoWorker
    /\ saves = 0 /\ retired = 0
    /\ torn = {} /\ collided = FALSE

-----------------------------------------------------------------------------
(* The store's write operations, on the rows r.                             *)

SetStatus(r, ids, status) ==
    [i \in Ids |-> IF i \in ids THEN [r[i] EXCEPT !.status = status] ELSE r[i]]

\* mark_superseded, mark_superseded_batch: ids without a row change nothing.
Retire(r, ids) == SetStatus(r, ids \cap Existing(r), "superseded")

Holder(r, t) == {i \in Existing(r) : r[i].text = t}
NextId(r) == CHOOSE i \in Ids : r[i].status = "absent"
                /\ \A j \in 1..(i - 1) : r[j].status # "absent"
HasRoom(r) == \E i \in Ids : r[i].status = "absent"

\* The row upsert_item reinforces or inserts.
UpsertId(r, t) ==
    IF Holder(r, t) # {} THEN CHOOSE i \in Holder(r, t) : TRUE ELSE NextId(r)

MishapsLeft == retired + Cardinality(torn) < MaxMishaps

\* _vec_insert, where the entry was old: it is written, or left alone as the
\* vector has another dimension, or the new one fails after the old one's
\* DELETE.  The caller never knows.
VecInsert(old, t) == {t} \cup (IF MishapsLeft THEN {old, None} ELSE {})

\* Mutants: the content_hash is not looked up; a reinforced row keeps its status.
Upsert_noLookup(r, t, v) ==
    IF HasRoom(r) THEN [r EXCEPT ![NextId(r)] = [text |-> t, status |-> "active", vec |-> v]]
    ELSE r

Upsert_keepsStatus(r, t, v) ==
    IF Holder(r, t) # {} THEN r
    ELSE [r EXCEPT ![NextId(r)] = [text |-> t, status |-> "active", vec |-> v]]

\* upsert_item: an existing content_hash is reinforced, and reactivated when
\* it was superseded; otherwise the row is inserted, then its vector.
Upsert(r, t, v) ==
    IF Holder(r, t) # {} THEN SetStatus(r, Holder(r, t), "active")
    ELSE [r EXCEPT ![NextId(r)] = [text |-> t, status |-> "active", vec |-> v]]

\* vector_search: the index finds active rows by their entries; a vector of
\* another dimension is compared with the embedding of every active row.
Searchable == {i \in Active(row) : row[i].vec # None}
Nearby(t) ==
    {close \in SUBSET Active(row) :
        \/ close \subseteq Searchable /\ {i \in Searchable : row[i].vec = t} \subseteq close
        \/ {i \in Active(row) : row[i].text = t} \subseteq close}

\* Row i was to get the vector of t, and v is what it has.
TornBy(i, t, v) == IF v = t THEN torn \ {i} ELSE torn \cup {i}

\* _merge_summary_text
JoinText(old, new) ==
    IF Within(new, old) THEN old
    ELSE IF Within(old, new) THEN new
    ELSE old \o new

-----------------------------------------------------------------------------
(* save_item_with_supersede.                                                *)

StartSave(w, t) ==
    /\ writer[w].pc = "idle"
    /\ saves < MaxSaves
    /\ saves' = saves + 1
    /\ writer' = [writer EXCEPT ![w] = [IdleWriter EXCEPT !.pc = "embed", !.text = t]]
    /\ UNCHANGED <<row, pinned, own, worker, retired, torn, collided>>

\* Either embedding call raises: the tool reports the error, the memory port
\* logs it.
EmbedFails(w) ==
    /\ writer[w].pc # "idle"
    /\ writer' = [writer EXCEPT ![w] = IdleWriter]
    /\ UNCHANGED <<row, pinned, own, worker, saves, retired, torn, collided>>

\* The call returns id; the attempt's tool chain remembers it.
Answer(w, id, holder) ==
    /\ writer' = [writer EXCEPT ![w] = [IdleWriter EXCEPT !.said = TRUE]]
    /\ IF w = "tool"
         THEN pinned' = pinned \cup {id} /\ own' = own \cup {holder}
         ELSE UNCHANGED <<pinned, own>>

\* Close matches are retired, then the summary is written, and v is what its
\* entry in the index becomes.
Replace(w, close, v) ==
    /\ writer[w].pc = "embed"
    /\ close \in Nearby(writer[w].text)
    /\ LET kept == Retire(row, close)
           t == writer[w].text
           id == UpsertId(kept, t)
       IN /\ Holder(kept, t) # {} \/ HasRoom(kept)
          /\ row' = Upsert(kept, t, v)
          /\ torn' = IF Holder(kept, t) # {} THEN torn ELSE TornBy(id, t, v)
          /\ Answer(w, id, id)
    /\ UNCHANGED <<worker, saves, retired, collided>>

\* A procedure with the same tool requirement is near: merge into it.  Its
\* summary is read here, the merged one is embedded next.
BeginMerge(w, target) ==
    /\ writer[w].pc = "embed"
    /\ JoinText(row[target].text, writer[w].text) \in Summaries
    /\ writer' = [writer EXCEPT ![w].pc = "merge", ![w].target = target,
                                ![w].seen = row[target].text]
    /\ UNCHANGED <<row, pinned, own, worker, saves, retired, torn, collided>>

Merged(w) == JoinText(writer[w].seen, writer[w].text)
Collides(w) ==
    /\ writer[w].target \in Existing(row)
    /\ Holder(row, Merged(w)) \ {writer[w].target} # {}

\* Mutant: after a collision the target is retired and that is all.
MergeRaw_noFallback(w, v) ==
    IF Collides(w) THEN Retire(row, {writer[w].target})
    ELSE IF writer[w].target \in Existing(row)
      THEN [row EXCEPT ![writer[w].target].text = Merged(w),
                       ![writer[w].target].vec = v]
    ELSE row

\* merge_item_raw: the UPDATE names only the id, whatever became of the row,
\* and v is what its entry in the index becomes; on a unique-index conflict the
\* target is retired and the merged summary upserted.
MergeRaw(w, v) ==
    IF Collides(w) THEN Upsert(Retire(row, {writer[w].target}), Merged(w), v)
    ELSE IF writer[w].target \in Existing(row)
      THEN [row EXCEPT ![writer[w].target].text = Merged(w),
                       ![writer[w].target].vec = v]
    ELSE row

FinishMerge(w, v) ==
    /\ writer[w].pc = "merge"
    /\ row' = MergeRaw(w, v)
    /\ collided' = (collided \/ Collides(w))
    /\ torn' = IF Collides(w) THEN torn ELSE TornBy(writer[w].target, Merged(w), v)
    /\ Answer(w, writer[w].target,
              IF Collides(w) THEN UpsertId(row, Merged(w)) ELSE writer[w].target)
    /\ UNCHANGED <<worker, saves, retired>>

-----------------------------------------------------------------------------
(* The post-response worker.                                                *)

\* The provider refuses the attempt: it is tried again with a shorter context,
\* and the chain begins anew, without the calls that were already executed.
AttemptRefused ==
    /\ writer["tool"].pc = "idle"
    /\ pinned' = {} /\ own' = {}
    /\ UNCHANGED <<row, writer, worker, saves, retired, torn, collided>>

\* The turn is over: its worker gets the ids that the calls in its tool chain
\* reported.
StartWorker ==
    /\ worker.pc = "off"
    /\ writer["tool"].pc = "idle"
    /\ worker' = [pc |-> "topics", spared |-> pinned, own |-> own, found |-> {}]
    /\ pinned' = {} /\ own' = {}
    /\ UNCHANGED <<row, writer, saves, retired, torn, collided>>

\* Mutant: what the turn itself memorized is not left out.
Retrieve_unspared(ids) ==
    /\ worker.pc = "topics"
    /\ ids # {}
    /\ worker' = [worker EXCEPT !.pc = "judge", !.found = ids]
    /\ UNCHANGED <<row, writer, pinned, own, saves, retired, torn, collided>>

\* The topic's close matches, without the spared ids, go to the light model.
Retrieve(ids) ==
    /\ worker.pc = "topics"
    /\ ids # {}
    /\ ids \cap worker.spared = {}
    /\ worker' = [worker EXCEPT !.pc = "judge", !.found = ids]
    /\ UNCHANGED <<row, writer, pinned, own, saves, retired, torn, collided>>

\* The model's answer, cut down to the ids it was shown, is retired; the
\* next topic follows.
Judge(ids) ==
    /\ worker.pc = "judge"
    /\ row' = Retire(row, ids)
    /\ worker' = [worker EXCEPT !.pc = "topics", !.found = {}]
    /\ UNCHANGED <<writer, pinned, own, saves, retired, torn, collided>>

\* No topic is left, the token budget is used up, or a call failed.
EndWorker ==
    /\ worker.pc # "off"
    /\ worker' = NoWorker
    /\ UNCHANGED <<row, writer, pinned, own, saves, retired, torn, collided>>

-----------------------------------------------------------------------------
(* forget_memory and the dashboard.                                         *)

Counted ==
    /\ MishapsLeft
    /\ retired' = retired + 1
    /\ UNCHANGED <<writer, pinned, own, worker, saves, torn, collided>>

\* The ids come from an earlier recall, so any row may be named.
Forget(i) == Counted /\ row' = Retire(row, {i})

PatchStatus(i, status) == Counted /\ row' = SetStatus(row, {i}, status)

DeleteItem(i) ==
    Counted /\ row' = [row EXCEPT ![i] = [NoRow EXCEPT !.status = "deleted"]]

-----------------------------------------------------------------------------
(* Process death and the next start.                                        *)

Unindexed(r) == {i \in Existing(r) : r[i].vec = None}

\* Mutant: vectors are not completed at startup.
Migrate_nothing(r, unfit) == r

\* _migrate_existing_to_vec: rows that have no vector get one, but for those
\* whose embedding has another dimension or cannot be inserted.
Migrate(r, unfit) ==
    [i \in Ids |-> IF i \in Unindexed(r) \ unfit
                     THEN [r[i] EXCEPT !.vec = r[i].text] ELSE r[i]]

\* The rows are r, and those in stale have the vector of an earlier text, or none.
Restart(r, stale) ==
    /\ \E unfit \in SUBSET Unindexed(r) :
          /\ Cardinality(unfit) <= MaxMishaps
          /\ row' = Migrate(r, unfit)
          /\ torn' = (stale \ Unindexed(r)) \cup unfit
    /\ writer' = [w \in Writers |-> IdleWriter]
    /\ pinned' = {} /\ own' = {} /\ worker' = NoWorker
    /\ UNCHANGED <<saves, retired, collided>>

ItemCrash == Restart(row, torn)

\* After the close matches were retired, or after the new row was committed
\* and before its vector was.
CrashInReplace(w, close) ==
    /\ writer[w].pc = "embed"
    /\ close \in Nearby(writer[w].text)
    /\ LET kept == Retire(row, close)
           t == writer[w].text
       IN \/ Restart(kept, torn)
          \/ /\ Holder(kept, t) = {} /\ HasRoom(kept)
             /\ Restart([kept EXCEPT ![NextId(kept)] =
                           [text |-> t, status |-> "active", vec |-> None]], torn)

\* After the row's UPDATE was committed and before its vector was replaced,
\* or after the colliding target was retired.
CrashInMerge(w) ==
    /\ writer[w].pc = "merge"
    /\ writer[w].target \in Existing(row)
    /\ IF Collides(w)
         THEN Restart(Retire(row, {writer[w].target}), torn)
         ELSE Restart([row EXCEPT ![writer[w].target].text = Merged(w)],
                      torn \cup {writer[w].target})

-----------------------------------------------------------------------------
Saving(w) ==
    \/ \E t \in Summaries : StartSave(w, t)
    \/ EmbedFails(w)
    \/ \E close \in SUBSET Active(row) :
          \/ \E v \in VecInsert(None, writer[w].text) : Replace(w, close, v)
          \/ CrashInReplace(w, close)
    \/ \E target \in Active(row) : BeginMerge(w, target)
    \/ \E v \in VecInsert(row[writer[w].target].vec, Merged(w)) : FinishMerge(w, v)
    \/ CrashInMerge(w)

ItemNext ==
    \/ \E w \in Writers : Saving(w)
    \/ AttemptRefused \/ StartWorker \/ EndWorker
    \/ \E ids \in SUBSET Active(row) : Retrieve(ids)
    \/ \E ids \in SUBSET worker.found : Judge(ids)
    \/ \E i \in Existing(row) :
          \/ Forget(i) \/ DeleteItem(i)
          \/ \E status \in {"active", "superseded"} : PatchStatus(i, status)
    \/ ItemCrash

-----------------------------------------------------------------------------
(* Properties.                                                              *)

Returned(w) == writer[w].pc # "idle" /\ writer'[w].pc = "idle" /\ writer'[w].said
MergeReturned(w) == writer[w].pc = "merge" /\ Returned(w)

\* The merge target is not the row any more whose summary the save has read.
Overtaken(w) ==
    /\ writer[w].pc = "merge"
    /\ \/ row[writer[w].target].status # "active"
       \/ row[writer[w].target].text # writer[w].seen

(***************************************************************************)
(* When a save reports success an active row states its summary: retiring  *)
(* the close matches never takes the new summary with it, and a collision  *)
(* ends on the row that has it.  Excepted are saves whose merge target was *)
(* changed or retired while the merged summary was embedded.               *)
(***************************************************************************)
SaidAndStored ==
    [][\A w \in Writers : Returned(w) /\ ~Overtaken(w) =>
          \E i \in Active(row') : Within(writer[w].text, row'[i].text)]_itemVars

StatedFacts(r) == UNION {Range(r[i].text) : i \in Active(r)}

(***************************************************************************)
(* merge_item only adds: what active items stated before, they state after *)
(* it, with the same exception.                                            *)
(***************************************************************************)
MergeKeepsFacts ==
    [][\A w \in Writers : MergeReturned(w) /\ ~Overtaken(w) =>
          StatedFacts(row) \subseteq StatedFacts(row')]_itemVars

(***************************************************************************)
(* Without the exception: "atomic update of the merge target".             *)
(***************************************************************************)
MergeIsAtomic ==
    [][\A w \in Writers : MergeReturned(w) =>
          StatedFacts(row) \subseteq StatedFacts(row')]_itemVars

(***************************************************************************)
(* Every row can be found under its own summary, also after the process    *)
(* died between the commit of the row and that of its vector.  Excepted is *)
(* a row whose vector was not written when its text was, while the save    *)
(* reported success, and a row whose merge died there: startup completes   *)
(* vectors where it can, it does not replace them.                         *)
(***************************************************************************)
VectorsMatch ==
    \A i \in Existing(row) \ torn : row[i].vec = row[i].text

NewlyRetired == {i \in Active(row) : row'[i].status = "superseded"}

(***************************************************************************)
(* The worker of a turn does not retire what the calls in its tool chain   *)
(* memorized, however they wrote it: new, reinforced or merged.  Excepted  *)
(* are turns after a merge that ended on an existing content_hash, and so  *)
(* is what a turn memorized in attempts that the provider refused: their   *)
(* calls are in no tool chain, and the worker may retire it.               *)
(***************************************************************************)
WorkerSparesOwnTurn ==
    [][worker.pc = "judge" /\ worker'.pc = "topics" /\ ~collided =>
          NewlyRetired \cap worker.own = {}]_itemVars

(***************************************************************************)
(* "protected_ids: the ids the memorize tool wrote in this turn, which the *)
(* worker must not supersede."                                             *)
(***************************************************************************)
OwnTurnIsSpared ==
    [][worker.pc = "judge" /\ worker'.pc = "topics" =>
          NewlyRetired \cap worker.own = {}]_itemVars

(***************************************************************************)
(* A save that reports success can be found: an active row states its      *)
(* summary, and each row's vector is that of its own text, unless it was   *)
(* not written (VectorsMatch).                                             *)
(***************************************************************************)
SavedIsFound == []VectorsMatch /\ SaidAndStored

(***************************************************************************)
(* Neither a merge nor the worker of a turn takes away what was stored:    *)
(* a merge only adds, and the worker spares its own turn's items, as far   *)
(* as its tool chain tells of them.                                        *)
(***************************************************************************)
FactsAreSpared == MergeKeepsFacts /\ WorkerSparesOwnTurn
=============================================================================
