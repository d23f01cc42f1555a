---------------------------- MODULE PendingFile ----------------------------
(***************************************************************************)
(* The pending-fact buffer: PENDING.md, its snapshot, the index of written *)
(* source_refs and MEMORY.md (agent/memory.py), with its two users: a      *)
(* consolidation run that appends from a worker thread                     *)
(* (append_pending_once) and the memory optimizer, whose file operations   *)
(* run on the event-loop thread (proactive_v2/memory_optimizer.py).        *)
(*                                                                         *)
(* A fact stands for the payload of one source_ref together with its       *)
(* marker line; a file is the number of copies it holds of each fact.  An  *)
(* absent PENDING.md and an empty one behave alike; PENDING.snapshot.md    *)
(* exists iff it holds a fact, since only a non-empty file is renamed.     *)
(*                                                                         *)
(* Snapshot, commit and rollback do not take the lock that appends take,   *)
(* and write_text truncates before it writes.  The history variable risked *)
(* holds the facts that one of these two has hit: the properties say that  *)
(* nothing else can lose a fact.                                           *)
(***************************************************************************)
EXTENDS Integers, FiniteSets

CONSTANTS
    Facts,
    MaxAppends,    \* bound: append_pending_once calls
    MaxKills       \* bound: process deaths

ASSUME FactsAssumption == IsFiniteSet(Facts) /\ Facts # {}
ASSUME PendingAssumption == MaxAppends \in Nat /\ MaxKills \in Nat

VARIABLES
    pending,    \* PENDING.md
    snapshot,   \* PENDING.snapshot.md
    memory,     \* what has been merged into MEMORY.md
    index,      \* facts with a row in consolidation_writes.db
    app,        \* the appending thread
    opt,        \* the optimizer
    calls,      \* append_pending_once calls so far
    kills,      \* process deaths so far
    risked      \* facts written past the optimizer or hit by a torn write

files == <<pending, snapshot, memory, index>>
pendingVars == <<pending, snapshot, memory, index, app, opt, calls, kills, risked>>
pendingHistory == <<calls, kills, risked>>

Content == [Facts -> Nat]
Nothing == [f \in Facts |-> 0]
Plus(a, b) == [f \in Facts |-> a[f] + b[f]]
\* MEMORY.md is told apart up to MaxMerges copies: a round that fails after
\* writing it merges the same snapshot again, without end.
MaxMerges == 2
Merge(a, b) ==
    [f \in Facts |-> IF a[f] + b[f] > MaxMerges THEN MaxMerges ELSE a[f] + b[f]]
One(fact) == [f \in Facts |-> IF f = fact THEN 1 ELSE 0]

NoAppend == [pc |-> "idle", fact |-> CHOOSE f \in Facts : TRUE, file |-> "none"]
AtRest == [pc |-> "idle", text |-> Nothing, then |-> "idle"]

\* Control points of the optimizer at which it is not inside a sequence of
\* file operations.
Outside == {"idle", "merging"}
OptPoints == Outside \cup {"rbRead", "rbWrite", "rbUnlink", "rename",
                           "readSnap", "writeMem", "unlink"}

PendingTypeOK ==
    /\ pending \in Content /\ snapshot \in Content /\ memory \in Content
    /\ index \subseteq Facts
    /\ app \in [pc : {"idle", "checked", "opened", "flushed"}, fact : Facts,
                file : {"none", "pending", "snapshot", "gone"}]
    /\ opt \in [pc : OptPoints, text : Content, then : {"idle", "rename", "boot"}]
    /\ calls \in Nat
    /\ kills \in Nat /\ risked \subseteq Facts

PendingInit ==
    /\ pending = Nothing /\ snapshot = Nothing /\ memory = Nothing
    /\ index = {}
    /\ app = NoAppend
    /\ opt = AtRest
    /\ calls = 0 /\ kills = 0 /\ risked = {}

-----------------------------------------------------------------------------
(* append_pending_once, under _consolidation_lock in a worker thread.       *)

\* Start-up recovery runs in the constructor, before any other thread.
MayAppend == opt.then # "boot"

\* A write that lands in a renamed file, or in one that is being rewritten
\* from what was read before.
Overlaps == app.file # "pending" \/ opt.pc = "rbWrite"

\* BEGIN IMMEDIATE, look the row up, scan PENDING.md for the marker.  With
\* the marker there, the row is added if it is missing and nothing is
\* appended; a row without marker appends the stored payload again.
AppendCheck(f) ==
    /\ app.pc = "idle" /\ MayAppend
    /\ calls < MaxAppends
    /\ calls' = calls + 1
    /\ IF pending[f] > 0
         THEN index' = index \cup {f} /\ UNCHANGED app
         ELSE app' = [pc |-> "checked", fact |-> f, file |-> "none"] /\ UNCHANGED index
    /\ UNCHANGED <<pending, snapshot, memory, opt, kills, risked>>

AppendOpen ==
    /\ app.pc = "checked" /\ MayAppend
    /\ app' = [app EXCEPT !.pc = "opened", !.file = "pending"]
    /\ UNCHANGED <<files, opt, pendingHistory>>

\* The buffered write reaches whatever file the handle refers to by now.
AppendFlush ==
    /\ app.pc = "opened" /\ MayAppend
    /\ app' = [app EXCEPT !.pc = "flushed", !.file = "none"]
    /\ pending' = IF app.file = "pending" THEN Plus(pending, One(app.fact)) ELSE pending
    /\ snapshot' = IF app.file = "snapshot" THEN Plus(snapshot, One(app.fact)) ELSE snapshot
    /\ risked' = IF Overlaps THEN risked \cup {app.fact} ELSE risked
    /\ UNCHANGED <<memory, index, opt, calls, kills>>

AppendCommit ==
    /\ app.pc = "flushed" /\ MayAppend
    /\ index' = index \cup {app.fact}
    /\ app' = NoAppend
    /\ UNCHANGED <<pending, snapshot, memory, opt, pendingHistory>>

\* Opening or writing raises: ROLLBACK, and the exception ends the run.
AppendFails ==
    /\ app.pc \in {"checked", "opened"} /\ MayAppend
    /\ app' = NoAppend
    /\ UNCHANGED <<files, opt, pendingHistory>>

-----------------------------------------------------------------------------
(* The optimizer.                                                           *)

\* An open handle follows its file.
Follow(from, to) ==
    app' = IF app.pc = "opened" /\ app.file = from THEN [app EXCEPT !.file = to] ELSE app

\* Mutant: a round finds a snapshot and leaves it to the next start.
OptStart_skips ==
    /\ opt.pc = "idle"
    /\ snapshot = Nothing
    /\ opt' = [AtRest EXCEPT !.pc = "rename"]
    /\ UNCHANGED <<files, app, pendingHistory>>

\* snapshot_pending begins: a snapshot an earlier round left behind is
\* rolled back first.
OptStart ==
    /\ opt.pc = "idle"
    /\ opt' = IF snapshot # Nothing
                THEN [AtRest EXCEPT !.pc = "rbRead", !.then = "rename"]
                ELSE [AtRest EXCEPT !.pc = "rename"]
    /\ UNCHANGED <<files, app, pendingHistory>>

Rename ==
    /\ opt.pc = "rename"
    /\ IF pending = Nothing
         THEN /\ opt' = [AtRest EXCEPT !.pc = "merging"]
              /\ UNCHANGED <<pending, snapshot, app>>
         ELSE /\ snapshot' = pending
              /\ pending' = Nothing
              /\ Follow("pending", "snapshot")
              /\ opt' = [AtRest EXCEPT !.pc = "readSnap"]
    /\ UNCHANGED <<memory, index, pendingHistory>>

ReadSnapshot ==
    /\ opt.pc = "readSnap"
    /\ opt' = [AtRest EXCEPT !.pc = "merging", !.text = snapshot]
    /\ UNCHANGED <<files, app, pendingHistory>>

\* The model answered with a merged text.
MergeOk ==
    /\ opt.pc = "merging"
    /\ opt' = [opt EXCEPT !.pc = "writeMem"]
    /\ UNCHANGED <<files, app, pendingHistory>>

\* Mutant: the snapshot is dropped although the merge failed.
MergeEmpty_dropped ==
    /\ opt.pc = "merging"
    /\ opt' = AtRest
    /\ snapshot' = Nothing
    /\ UNCHANGED <<pending, memory, index, app, pendingHistory>>

\* An error or an empty answer: rollback_pending_snapshot, which returns at
\* once when there is no snapshot.
MergeEmpty ==
    /\ opt.pc = "merging"
    /\ opt' = IF snapshot # Nothing THEN [AtRest EXCEPT !.pc = "rbRead"] ELSE AtRest
    /\ UNCHANGED <<files, app, pendingHistory>>

\* write_long_term.
WriteMemory ==
    /\ opt.pc = "writeMem"
    /\ memory' = Merge(memory, opt.text)
    /\ opt' = [opt EXCEPT !.pc = "unlink"]
    /\ UNCHANGED <<pending, snapshot, index, app, pendingHistory>>

\* write_long_term or append_history raises: the round ends, the snapshot
\* stays for the next one.
OptRaises ==
    /\ opt.pc \in {"writeMem", "unlink"}
    /\ opt' = AtRest
    /\ UNCHANGED <<files, app, pendingHistory>>

\* Mutant: commit also empties PENDING.md (clear_pending).
CommitSnapshot_clearsPending ==
    /\ opt.pc = "unlink"
    /\ snapshot' = Nothing
    /\ pending' = Nothing
    /\ Follow("snapshot", "gone")
    /\ opt' = AtRest
    /\ UNCHANGED <<memory, index, pendingHistory>>

\* commit_pending_snapshot.
CommitSnapshot ==
    /\ opt.pc = "unlink"
    /\ snapshot' = Nothing
    /\ Follow("snapshot", "gone")
    /\ opt' = AtRest
    /\ UNCHANGED <<pending, memory, index, pendingHistory>>

\* rollback_pending_snapshot: read both files ...
RollbackRead ==
    /\ opt.pc = "rbRead"
    /\ opt' = [opt EXCEPT !.pc = "rbWrite", !.text = Plus(snapshot, pending)]
    /\ UNCHANGED <<files, app, pendingHistory>>

\* Mutant: PENDING.md is overwritten with the snapshot alone.
RollbackWrite_snapshotOnly ==
    /\ opt.pc = "rbWrite"
    /\ pending' = snapshot
    /\ opt' = [opt EXCEPT !.pc = "rbUnlink", !.text = Nothing]
    /\ UNCHANGED <<snapshot, memory, index, app, pendingHistory>>

\* ... rewrite PENDING.md ...
RollbackWrite ==
    /\ opt.pc = "rbWrite"
    /\ pending' = opt.text
    /\ opt' = [opt EXCEPT !.pc = "rbUnlink", !.text = Nothing]
    /\ UNCHANGED <<snapshot, memory, index, app, pendingHistory>>

\* Mutant: the constructor's recovery has no way back.
RollbackUnlink_boot ==
    /\ opt.pc = "rbUnlink"
    /\ snapshot' = Nothing
    /\ Follow("snapshot", "gone")
    /\ opt' = [AtRest EXCEPT !.pc = opt.then]
    /\ UNCHANGED <<pending, memory, index, pendingHistory>>

\* ... and remove the snapshot.
RollbackUnlink ==
    /\ opt.pc = "rbUnlink"
    /\ snapshot' = Nothing
    /\ Follow("snapshot", "gone")
    /\ opt' = [AtRest EXCEPT !.pc = IF opt.then = "rename" THEN "rename" ELSE "idle"]
    /\ UNCHANGED <<pending, memory, index, pendingHistory>>

-----------------------------------------------------------------------------
(* The process dies: the uncommitted row is rolled back, an unflushed write *)
(* is lost.  The constructor recovers a leftover snapshot.                  *)

\* The death comes inside the write_text of that point.
Torn(point, old, new) ==
    /\ opt.pc = point
    /\ new = Nothing
    /\ risked' = risked \cup {f \in Facts : old[f] > 0}

PendingDies ==
    /\ kills < MaxKills
    /\ kills' = kills + 1
    /\ app' = NoAppend
    /\ \/ UNCHANGED <<pending, memory, risked>>
       \/ Torn("rbWrite", pending, pending') /\ UNCHANGED memory
       \/ Torn("writeMem", memory, memory') /\ UNCHANGED pending
    /\ opt' = IF snapshot # Nothing
                THEN [AtRest EXCEPT !.pc = "rbRead", !.then = "boot"] ELSE AtRest
    /\ UNCHANGED <<snapshot, index, calls>>

-----------------------------------------------------------------------------
Append ==
    \/ \E f \in Facts : AppendCheck(f)
    \/ AppendOpen \/ AppendFlush \/ AppendCommit \/ AppendFails

AppendContinues == AppendOpen \/ AppendFlush \/ AppendCommit

Rollback == RollbackRead \/ RollbackWrite \/ RollbackUnlink

Optimize ==
    \/ OptStart \/ Rename \/ ReadSnapshot
    \/ MergeOk \/ MergeEmpty
    \/ WriteMemory \/ OptRaises \/ CommitSnapshot
    \/ Rollback

PendingNext == Append \/ Optimize \/ PendingDies

\* Threads are scheduled and the hourly loop always comes round again.
PendingProgress == WF_pendingVars(AppendContinues) /\ WF_pendingVars(Optimize)

PendingSpec == PendingInit /\ [][PendingNext]_pendingVars /\ PendingProgress

\* In addition, the provider answers and the disk works again and again.
RoundsSucceed ==
    SF_pendingVars(MergeOk) /\ SF_pendingVars(WriteMemory) /\ SF_pendingVars(CommitSnapshot)
PendingLiveSpec == PendingSpec /\ RoundsSucceed
-----------------------------------------------------------------------------
(* Properties.                                                              *)

Kept(f) == pending[f] > 0 \/ snapshot[f] > 0
Merged(f) == memory[f] > 0

(***************************************************************************)
(* "No data is lost": a fact whose append was reported done (it has an     *)
(* index row, so no later run writes it again of its own accord) is in     *)
(* PENDING.md, in the snapshot, or merged, unless it was written past the  *)
(* optimizer or a death tore the file that held it.                        *)
(***************************************************************************)
NoFactLost == \A f \in index \ risked : Kept(f) \/ Merged(f)

(***************************************************************************)
(* "Completely isolated from this snapshot": what commit removes is what   *)
(* the round read, nothing arrives in between.                             *)
(***************************************************************************)
SnapshotIsolated ==
    opt.pc \in {"merging", "writeMem", "unlink"} => opt.text = snapshot

\* What has become of each fact.
Standing ==
    [f \in Facts |-> IF f \in risked THEN "risked"
                     ELSE IF Merged(f) THEN "merged"
                     ELSE IF Kept(f) THEN "kept" ELSE "absent"]

Ledger == INSTANCE FactLedger WITH ledger <- Standing

(***************************************************************************)
(* The buffer implements the ledger: kept facts stay kept until merged, at *)
(* every step of every append, round, failure and recovery.                *)
(***************************************************************************)
ImplementsLedger == Ledger!Spec

(***************************************************************************)
(* Every fact reported done reaches MEMORY.md once rounds succeed.         *)
(***************************************************************************)
ReachesMemory == \A f \in Facts : (f \in index) ~> (Merged(f) \/ f \in risked)

(***************************************************************************)
(* A snapshot never stays behind: a commit, a rollback or the next start   *)
(* removes it, whatever failed.                                            *)
(***************************************************************************)
SnapshotResolved == (snapshot # Nothing) ~> (snapshot = Nothing)

(***************************************************************************)
(* A fact reported done, and a snapshot taken for a round, find their way  *)
(* into MEMORY.md, through failed rounds, rollbacks, deaths and restarts.  *)
(***************************************************************************)
FactsReachMemory == ReachesMemory /\ SnapshotResolved
=============================================================================
