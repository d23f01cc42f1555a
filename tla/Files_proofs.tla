---------------------------- MODULE Files_proofs ----------------------------
(***************************************************************************)
(* What is archived of a session, and the two files that must survive a    *)
(* death of the process: PENDING.md, which implements the ledger of        *)
(* FactLedger, and the scheduler's job list.                               *)
(***************************************************************************)
EXTENDS Consolidation, MCFiles, WellFoundedInduction, TLAPS

-----------------------------------------------------------------------------
(* Consolidation: For every keep_count and minimum window, until a retry    *)
(* trims the session, last_consolidated covers only rows that reached       *)
(* HISTORY.md and PENDING.md.                                               *)

stepVars == <<sessionVars, taskVars>>

Running == phase \notin {"idle", "scheduled"}

\* The cached list is the whole table, and both copies of the index agree.
CacheIsStore == base = 0 /\ storedLc = lc

\* A running window lies inside the table and starts where the index is;
\* only archive_all (mark 0) may start earlier.
WindowInv ==
    Running =>
        /\ window.upto <= stored
        /\ \/ window.mark = 0
           \/ /\ window.mark = window.upto
              /\ window.from = lc
              /\ window.mark + Keep <= stored

\* What the pipeline has already done for the rows of its window.
ProgressInv ==
    \A m \in Nat : window.from <= m /\ m < window.upto =>
        /\ phase \in {"pending", "vector", "implicit", "recent"}
              => m \in archived["history"]
        /\ phase \in {"vector", "implicit", "recent"}
              => m \in archived["pending"]

BelowMark == \A s \in FileSinks : \A m \in Nat : m < lc => m \in archived[s]

IInv ==
    /\ TypeOK /\ CacheIsStore /\ WindowInv /\ ProgressInv /\ BelowMark
    /\ TailKept

(***************************************************************************)
(* Each variable keeps its type in every step but a trim.                  *)
(***************************************************************************)
LEMMA InitType == Init => TypeOK
BY DEF Init, TypeOK, Phases, Sinks, FileSinks, NoWindow

LEMMA StepType == TypeOK /\ [Untrimmed]_stepVars /\ UNCHANGED trims => TypeOK'
<1> USE KeepAssumption, MinNewAssumption DEF TypeOK
<1> SUFFICES ASSUME TypeOK, [Untrimmed]_stepVars, UNCHANGED trims PROVE TypeOK'
  OBVIOUS
<1>1. ASSUME NEW added \in {1, 2}, CommitTurn(added) PROVE TypeOK'
  BY <1>1 DEF CommitTurn, ScheduleIfReady, Phases
<1>2. CASE StartRun
  BY <1>2 DEF StartRun, Selectable, SelectedWindow, Length, sessionVars, Phases
<1>3. CASE StartEmpty
  BY <1>3 DEF StartEmpty, GoIdle, NoWindow, Phases
<1>4. CASE ReadMemory \/ ExtractEvents
  BY <1>4 DEF ReadMemory, ExtractEvents, sessionVars, Phases
<1>5. CASE ReadFails
  BY <1>5 DEF ReadFails, GoIdle, NoWindow, sessionVars, Phases
<1>6. ASSUME NEW s \in Sinks, Record(s) PROVE archived' \in [Sinks -> SUBSET Nat]
  <2>1. WindowRows \subseteq Nat
    BY DEF WindowRows
  <2> QED BY <1>6, <2>1 DEF Record
<1>7. CASE WriteHistory
  <2>1. archived' \in [Sinks -> SUBSET Nat]
    BY <1>6, <1>7 DEF WriteHistory, Sinks, FileSinks
  <2>2. refs' \subseteq Nat \X Nat
    BY <1>7 DEF WriteHistory, CurrentRef
  <2> QED BY <1>7, <2>1, <2>2 DEF WriteHistory, sessionVars, Phases
<1>8. CASE WritePending \/ WriteVector \/ WriteImplicit
  <2>1. archived' \in [Sinks -> SUBSET Nat]
    BY <1>6, <1>8 DEF WritePending, WriteVector, WriteImplicit, Sinks, FileSinks
  <2> QED BY <1>8, <2>1 DEF WritePending, WriteVector, WriteImplicit, sessionVars, Phases
<1>9. CASE FinishRun
  BY <1>9 DEF FinishRun, GoIdle, NoWindow, Phases
<1>10. CASE RunFails
  BY <1>10 DEF RunFails, GoIdle, NoWindow, Phases
<1>11. ASSUME NEW all \in BOOLEAN, TriggerNow(all) PROVE TypeOK'
  BY <1>11 DEF TriggerNow, BeginManual, WholeWindow, Selectable,
               SelectedWindow, Length, sessionVars, Phases
<1>12. ASSUME NEW all \in BOOLEAN, TriggerWaits(all) PROVE TypeOK'
  BY <1>12 DEF TriggerWaits, sessionVars
<1>13. ASSUME NEW all \in BOOLEAN, WaiterProceeds(all) PROVE TypeOK'
  BY <1>13 DEF WaiterProceeds, BeginManual, WholeWindow, Selectable,
               SelectedWindow, Length, sessionVars, Phases
<1>14. CASE WaiterTimesOut
  BY <1>14 DEF WaiterTimesOut, sessionVars
<1>15. CASE Crash \/ CrashInCommit
  BY <1>15 DEF Crash, CrashInCommit, Reload, GoIdle, NoWindow, Phases
<1>16. CASE UNCHANGED stepVars
  BY <1>16 DEF stepVars, sessionVars, taskVars
<1> QED
  BY <1>1, <1>2, <1>3, <1>4, <1>5, <1>7, <1>8, <1>9, <1>10, <1>11, <1>12,
     <1>13, <1>14, <1>15, <1>16 DEF Untrimmed, Pipeline, Manual

(***************************************************************************)
(* Each variable keeps its type, trims included.                           *)
(***************************************************************************)
LEMMA TrimType ==
    ASSUME TypeOK, NEW w \in 0..Length, TrimAfterRetry(w), trims' = trims + 1
    PROVE  TypeOK'
BY DEF TrimAfterRetry, TypeOK, Length

THEOREM TypeCorrect == Spec => []TypeOK
<1>1. Init => TypeOK
  BY InitType
<1>2. TypeOK /\ [Next]_vars => TypeOK'
  <2> SUFFICES ASSUME TypeOK, [Next]_vars PROVE TypeOK'
    OBVIOUS
  <2>1. CASE Untrimmed /\ UNCHANGED trims
    BY <2>1, StepType
  <2>2. CASE UNCHANGED vars
    BY <2>2, StepType DEF vars, stepVars
  <2>3. ASSUME NEW w \in 0..Length, TrimAfterRetry(w), trims' = trims + 1
        PROVE  TypeOK'
    BY <2>3, TrimType
  <2> QED BY <2>1, <2>2, <2>3 DEF Next
<1> QED BY <1>1, <1>2, PTL DEF Spec

(***************************************************************************)
(* The strengthening is inductive: the window of a running task starts at  *)
(* the index, lies inside the table, and its rows are in every file sink   *)
(* the task has passed, so moving the index to its end adds archived rows  *)
(* only.                                                                   *)
(***************************************************************************)
LEMMA InitInv == Init => IInv
<1> SUFFICES ASSUME Init PROVE IInv
  OBVIOUS
<1>1. TypeOK
  BY InitType
<1> QED
  BY <1>1 DEF Init, IInv, CacheIsStore, WindowInv, ProgressInv, BelowMark,
              TailKept, Running, NoWindow

(*************************************************************************)
(* Every step of an untrimmed session keeps the strengthening.           *)
(*************************************************************************)
LEMMA StepInv == IInv /\ [Untrimmed]_stepVars /\ UNCHANGED trims => IInv'
<1> USE KeepAssumption, MinNewAssumption
<1> SUFFICES ASSUME IInv, [Untrimmed]_stepVars, UNCHANGED trims PROVE IInv'
  OBVIOUS
<1>0. TypeOK'
  BY StepType DEF IInv
<1>t. TypeOK
  BY DEF IInv
<1> USE DEF IInv, CacheIsStore, WindowInv, ProgressInv, BelowMark, Running
<1>1. ASSUME NEW added \in {1, 2}, CommitTurn(added) PROVE IInv'
  BY <1>0, <1>1, <1>t DEF CommitTurn, ScheduleIfReady, Consolidating, TypeOK,
                          TailKept, Length
<1>2. CASE StartRun
  BY <1>0, <1>2, <1>t DEF StartRun, Selectable, SelectedWindow, Length,
                          sessionVars, TypeOK, TailKept
<1>3. CASE StartEmpty \/ ReadFails \/ RunFails
  BY <1>0, <1>3, <1>t DEF StartEmpty, ReadFails, RunFails, GoIdle, NoWindow,
                          sessionVars, TypeOK, TailKept, Length
<1>4. CASE ReadMemory \/ ExtractEvents
  BY <1>0, <1>4, <1>t DEF ReadMemory, ExtractEvents, sessionVars, TypeOK,
                          TailKept, Length
<1>5. ASSUME NEW s \in Sinks, Record(s)
      PROVE  /\ \A t \in Sinks : archived[t] \subseteq archived'[t]
             /\ \A m \in Nat : window.from <= m /\ m < window.upto
                   => m \in archived'[s]
  BY <1>5, <1>t DEF Record, WindowRows, TypeOK
<1>6. CASE WriteHistory
  BY <1>0, <1>6, <1>5, <1>t DEF WriteHistory, sessionVars, Sinks, FileSinks,
                          TypeOK, TailKept, Length
<1>7. CASE WritePending
  BY <1>0, <1>7, <1>5, <1>t DEF WritePending, sessionVars, Sinks, FileSinks,
                          TypeOK, TailKept, Length
<1>8. CASE WriteVector \/ WriteImplicit
  <2>1. \A t \in Sinks : archived[t] \subseteq archived'[t]
    BY <1>5, <1>8 DEF WriteVector, WriteImplicit, Sinks, FileSinks
  <2>2. ProgressInv' /\ BelowMark'
    BY <1>8, <2>1, <1>t DEF WriteVector, WriteImplicit, sessionVars, Sinks,
                            FileSinks, TypeOK
  <2> QED
    BY <1>0, <1>8, <2>2, <1>t DEF WriteVector, WriteImplicit, sessionVars,
                            TypeOK, TailKept, Length
<1>9. CASE FinishRun
  <2>1. BelowMark'
    BY <1>9, <1>t DEF FinishRun, GoIdle, NoWindow, TypeOK, FileSinks
  <2>2. TailKept'
    BY <1>9, <1>t DEF FinishRun, TypeOK, TailKept, Length
  <2> QED
    BY <1>0, <1>9, <2>1, <2>2, <1>t DEF FinishRun, GoIdle, NoWindow, TypeOK
<1>10. ASSUME NEW all \in BOOLEAN, TriggerNow(all) PROVE IInv'
  BY <1>0, <1>10, <1>t DEF TriggerNow, BeginManual, Consolidating, WholeWindow,
             Selectable, SelectedWindow, Length, sessionVars, TypeOK, TailKept
<1>11. ASSUME NEW all \in BOOLEAN, TriggerWaits(all) PROVE IInv'
  BY <1>0, <1>11, <1>t DEF TriggerWaits, sessionVars, TailKept, Length
<1>12. ASSUME NEW all \in BOOLEAN, WaiterProceeds(all) PROVE IInv'
  BY <1>0, <1>12, <1>t DEF WaiterProceeds, BeginManual, Consolidating, WholeWindow,
             Selectable, SelectedWindow, Length, sessionVars, TypeOK, TailKept
<1>13. CASE WaiterTimesOut
  BY <1>0, <1>13, <1>t DEF WaiterTimesOut, sessionVars, TailKept, Length
<1>14. CASE Crash \/ CrashInCommit
  <2>1. /\ base' = 0 /\ lc' = storedLc /\ storedLc' = storedLc
        /\ phase' = "idle" /\ window' = NoWindow
        /\ stored <= stored' /\ UNCHANGED archived
    BY <1>14, <1>t DEF Crash, CrashInCommit, Reload, GoIdle, TypeOK
  <2>2. CacheIsStore' /\ WindowInv' /\ BelowMark'
    BY <2>1, <1>t DEF TypeOK
  <2>3. ProgressInv'
    BY <2>1 DEF NoWindow
  <2>4. TailKept'
    <3>1. lc = 0 \/ lc + Keep <= stored
      BY <1>t DEF TypeOK, TailKept, Length
    <3>2. lc' = lc /\ base' = 0 /\ stored' \in Nat /\ stored <= stored'
      BY <1>0, <2>1 DEF TypeOK
    <3>3. lc' = 0 \/ lc' + Keep <= stored'
      BY <3>1, <3>2, <1>t DEF TypeOK
    <3> QED BY <3>2, <3>3 DEF TailKept, Length
  <2> QED BY <1>0, <2>2, <2>3, <2>4
<1>15. CASE UNCHANGED stepVars
  BY <1>0, <1>15, <1>t DEF stepVars, sessionVars, taskVars, TailKept, Length
<1> QED
  BY <1>1, <1>2, <1>3, <1>4, <1>6, <1>7, <1>8, <1>9, <1>10, <1>11, <1>12,
     <1>13, <1>14, <1>15 DEF Untrimmed, Pipeline, Manual

(***************************************************************************)
(* Until a retry shortens the cached list, IInv holds; from then on only   *)
(* the types are left.                                                     *)
(***************************************************************************)
UntilTrimmed == TypeOK /\ (trims > 0 \/ IInv)

(*************************************************************************)
(* The weakened invariant is inductive over all steps, trims included.   *)
(*************************************************************************)
LEMMA Inductive == UntilTrimmed /\ [Next]_vars => UntilTrimmed'
<1> SUFFICES ASSUME UntilTrimmed, [Next]_vars PROVE UntilTrimmed'
  OBVIOUS
<1>1. CASE (Untrimmed \/ UNCHANGED stepVars) /\ UNCHANGED trims
  <2>1. TypeOK'
    BY <1>1, StepType DEF UntilTrimmed
  <2>2. trims > 0 \/ IInv'
    BY <1>1, StepInv DEF UntilTrimmed
  <2> QED BY <1>1, <2>1, <2>2 DEF UntilTrimmed
<1>2. ASSUME NEW w \in 0..Length, TrimAfterRetry(w), trims' = trims + 1
      PROVE  UntilTrimmed'
  <2>1. TypeOK'
    BY <1>2, TrimType DEF UntilTrimmed
  <2>2. trims' > 0
    BY <1>2 DEF UntilTrimmed, TypeOK
  <2> QED BY <2>1, <2>2 DEF UntilTrimmed
<1> QED BY <1>1, <1>2 DEF Next, vars, stepVars

(*************************************************************************)
(* It holds at every step of every behaviour.                            *)
(*************************************************************************)
LEMMA AlwaysUntilTrimmed == Spec => []UntilTrimmed
<1>1. Init => UntilTrimmed
  BY InitInv DEF UntilTrimmed, IInv
<1> QED BY <1>1, Inductive, PTL DEF Spec

(***************************************************************************)
(* No row below last_consolidated, cached or stored, is missing from       *)
(* HISTORY.md or PENDING.md: a failed run, a crash or turns that append    *)
(* while a window is processed never make the pipeline skip a message, as  *)
(* long as no retry has trimmed the session.                               *)
(***************************************************************************)
THEOREM NothingSkipped == Spec => []ArchiveIsWhole
<1>1. UntilTrimmed => ArchiveIsWhole
  BY DEF UntilTrimmed, IInv, CacheIsStore, BelowMark, TypeOK,
         ArchiveIsWhole, MarkedIsArchived, MarkedAlwaysArchived, StoredMarkIsArchived
<1> QED BY <1>1, AlwaysUntilTrimmed, PTL

(***************************************************************************)
(* The newest Keep messages are never counted as consolidated, with the    *)
(* same exception.                                                         *)
(***************************************************************************)
THEOREM TailStaysUnconsolidated == Spec => []TailIsKept
<1>1. UntilTrimmed => TailIsKept
  BY DEF UntilTrimmed, IInv, TailIsKept
<1> QED BY <1>1, AlwaysUntilTrimmed, PTL

-----------------------------------------------------------------------------
(* PENDING.md: types.                                                       *)

(***************************************************************************)
(* Files are counts of facts, whatever is put together or taken once       *)
(* (append_pending, rollback_pending_snapshot).                            *)
(***************************************************************************)
LEMMA ContentType ==
  ASSUME NEW x \in Content, NEW y \in Content, NEW fact
  PROVE  /\ Nothing \in Content /\ One(fact) \in Content
         /\ Plus(x, y) \in Content /\ Merge(x, y) \in Content
BY DEF Content, Nothing, One, Plus, Merge, MaxMerges

(***************************************************************************)
(* An idle appender and an idle optimizer have their types.                *)
(***************************************************************************)
LEMMA RestType ==
  /\ NoAppend \in [pc : {"idle", "checked", "opened", "flushed"}, fact : Facts,
                   file : {"none", "pending", "snapshot", "gone"}]
  /\ AtRest \in [pc : OptPoints, text : Content, then : {"idle", "rename", "boot"}]
<1>1. (CHOOSE f \in Facts : TRUE) \in Facts
  BY FactsAssumption
<1>2. Nothing \in Content
  BY DEF Nothing, Content
<1> QED BY <1>1, <1>2 DEF NoAppend, AtRest, OptPoints, Outside

(***************************************************************************)
(* Every step of an append, a round, a failure and a recovery keeps the    *)
(* types.                                                                  *)
(***************************************************************************)
LEMMA PendingStepType == PendingTypeOK /\ [PendingNext]_pendingVars => PendingTypeOK'
<1> SUFFICES ASSUME PendingTypeOK, [PendingNext]_pendingVars PROVE PendingTypeOK'
  OBVIOUS
<1> USE DEF PendingTypeOK, files, pendingHistory
<1>1. ASSUME NEW f \in Facts, AppendCheck(f) PROVE PendingTypeOK'
  BY <1>1 DEF AppendCheck
<1>2. CASE AppendOpen
  BY <1>2 DEF AppendOpen
<1>3. CASE AppendFlush
  <2>1. app.fact \in Facts
    OBVIOUS
  <2>2. One(app.fact) \in Content
    BY ContentType
  <2>3. Plus(pending, One(app.fact)) \in Content /\ Plus(snapshot, One(app.fact)) \in Content
    BY <2>2, ContentType
  <2> QED BY <1>3, <2>1, <2>3 DEF AppendFlush
<1>4. CASE AppendCommit \/ AppendFails
  BY <1>4, RestType DEF AppendCommit, AppendFails
<1>5. CASE OptStart
  BY <1>5, RestType DEF OptStart, OptPoints, Outside
<1>6. CASE Rename
  BY <1>6, RestType, ContentType DEF Rename, Follow, OptPoints, Outside
<1>7. CASE ReadSnapshot \/ MergeOk \/ MergeEmpty
  BY <1>7, RestType DEF ReadSnapshot, MergeOk, MergeEmpty, OptPoints, Outside
<1>8. CASE WriteMemory
  <2>1. Merge(memory, opt.text) \in Content
    BY ContentType
  <2> QED BY <1>8, <2>1 DEF WriteMemory, OptPoints
<1>9. CASE OptRaises \/ CommitSnapshot
  BY <1>9, RestType, ContentType DEF OptRaises, CommitSnapshot, Follow
<1>10. CASE RollbackRead
  <2>1. Plus(snapshot, pending) \in Content
    BY ContentType
  <2> QED BY <1>10, <2>1 DEF RollbackRead, OptPoints
<1>11. CASE RollbackWrite \/ RollbackUnlink
  BY <1>11, RestType, ContentType
  DEF RollbackWrite, RollbackUnlink, Follow, OptPoints, Outside
<1>12. CASE PendingDies
  <2>1. pending' \in Content /\ memory' \in Content /\ risked' \subseteq Facts
    BY <1>12, ContentType DEF PendingDies, Torn
  <2>2. app' = NoAppend /\ kills' \in Nat /\ UNCHANGED <<snapshot, index, calls>>
    BY <1>12, PendingAssumption DEF PendingDies
  <2>3. opt' \in {AtRest, [AtRest EXCEPT !.pc = "rbRead", !.then = "boot"]}
    BY <1>12 DEF PendingDies
  <2>4. opt' \in [pc : OptPoints, text : Content, then : {"idle", "rename", "boot"}]
    BY <2>3, RestType DEF OptPoints
  <2> QED BY <2>1, <2>2, <2>4, RestType
<1>13. CASE UNCHANGED pendingVars
  BY <1>13 DEF pendingVars
<1> QED
  BY <1>1, <1>2, <1>3, <1>4, <1>5, <1>6, <1>7, <1>8, <1>9, <1>10, <1>11, <1>12, <1>13
  DEF PendingNext, Append, Optimize, Rollback

(***************************************************************************)
(* A fact is in what is put together if it is in one of the parts.         *)
(***************************************************************************)
LEMMA CopiesAddUp ==
  ASSUME NEW x \in Content, NEW y \in Content, NEW fact, NEW f \in Facts
  PROVE  /\ Nothing[f] = 0
         /\ One(fact)[f] > 0 <=> f = fact
         /\ Plus(x, y)[f] > 0 <=> x[f] > 0 \/ y[f] > 0
         /\ Merge(x, y)[f] > 0 <=> x[f] > 0 \/ y[f] > 0
BY DEF Content, Nothing, One, Plus, Merge, MaxMerges

\* A merged text has what either text had.
LEMMA MergeAdds ==
  ASSUME NEW x \in Content, NEW y \in Content, NEW f \in Facts
  PROVE  Merge(x, y)[f] > 0 <=> x[f] > 0 \/ y[f] > 0
BY DEF Content, Merge, MaxMerges

-----------------------------------------------------------------------------
(* PENDING.md: no fact is lost.                                             *)

(***************************************************************************)
(* What a fact that nothing has put at risk can rely on at each step of a  *)
(* round.  Between the rename and the commit the snapshot holds what the   *)
(* round has read, and nothing else; the commit comes after the merge.  In *)
(* a rollback what will be written holds both files, and the snapshot goes *)
(* only when its facts are back in PENDING.md.                             *)
(***************************************************************************)
Sound(f) ==
    /\ f \in index \/ (app.pc = "flushed" /\ app.fact = f) => Kept(f) \/ Merged(f)
    /\ opt.pc = "rename" => snapshot[f] = 0
    /\ opt.pc \in {"merging", "writeMem", "unlink"} => (opt.text[f] > 0 <=> snapshot[f] > 0)
    /\ opt.pc = "unlink" /\ opt.text[f] > 0 => Merged(f)
    /\ opt.pc = "rbWrite" => (opt.text[f] > 0 <=> Kept(f))
    /\ opt.pc = "rbUnlink" /\ snapshot[f] > 0 => pending[f] > 0

BufferInv == \A f \in Facts \ risked : Sound(f)

(***************************************************************************)
(* No step of either user, no failure and no death breaks it for a fact    *)
(* that is not at risk after it.                                           *)
(***************************************************************************)
LEMMA BufferStep == PendingTypeOK /\ BufferInv /\ [PendingNext]_pendingVars => BufferInv'
<1> SUFFICES ASSUME PendingTypeOK, BufferInv, [PendingNext]_pendingVars,
                    NEW f \in Facts, f \notin risked'
             PROVE  Sound(f)'
  BY DEF BufferInv
<1>0. f \notin risked
  BY DEF PendingNext, Append, Optimize, Rollback, AppendCheck, AppendOpen, AppendFlush, AppendCommit,
     AppendFails, OptStart, Rename, ReadSnapshot, MergeOk, MergeEmpty, WriteMemory, OptRaises,
     CommitSnapshot, RollbackRead, RollbackWrite, RollbackUnlink, PendingDies, Torn, pendingVars,
     pendingHistory
<1>s. Sound(f)
  BY <1>0 DEF BufferInv
<1>c. /\ pending \in Content /\ snapshot \in Content /\ memory \in Content /\ opt.text \in Content
      /\ pending[f] \in Nat /\ snapshot[f] \in Nat /\ memory[f] \in Nat /\ opt.text[f] \in Nat
      /\ Nothing[f] = 0
  BY DEF PendingTypeOK, Content, Nothing
<1> USE DEF PendingTypeOK, files, pendingHistory, Sound, Kept, Merged
<1>1. ASSUME NEW g \in Facts, AppendCheck(g) PROVE Sound(f)'
  BY <1>1, <1>s, <1>c DEF AppendCheck
<1>2. CASE AppendOpen \/ AppendCommit \/ AppendFails
  <2>1. CASE AppendOpen
    BY <1>s, <2>1 DEF AppendOpen
  <2>2. CASE AppendCommit
    BY <1>s, <2>2 DEF AppendCommit, NoAppend
  <2>3. CASE AppendFails
    BY <1>s, <2>3 DEF AppendFails, NoAppend
  <2> QED BY <1>2, <2>1, <2>2, <2>3
<1>3. CASE AppendFlush
  <2>1. One(app.fact) \in Content
    BY ContentType
  <2>2. CASE f = app.fact
    <3>1. app.file = "pending" /\ opt.pc # "rbWrite"
      BY <1>3, <2>2 DEF AppendFlush, Overlaps
    <3>2. pending' = Plus(pending, One(app.fact)) /\ snapshot' = snapshot
      BY <1>3, <3>1 DEF AppendFlush
    <3>3. pending'[f] > 0
      BY <1>c, <2>1, <2>2, <3>2, CopiesAddUp
    <3> QED BY <1>3, <1>s, <1>c, <3>1, <3>2, <3>3 DEF AppendFlush
  <2>3. CASE f # app.fact
    <3>1. /\ pending'[f] > 0 <=> pending[f] > 0
          /\ snapshot'[f] > 0 <=> snapshot[f] > 0
          /\ opt.pc = "rename" => snapshot'[f] = 0
      BY <1>3, <1>c, <1>s, <2>3 DEF AppendFlush, Plus, One, Content
    <3> QED BY <1>3, <1>s, <2>3, <3>1 DEF AppendFlush
  <2> QED BY <2>2, <2>3
<1>4. CASE OptStart
  BY <1>4, <1>s, <1>c DEF OptStart, AtRest
<1>5. CASE Rename
  <2>1. CASE pending = Nothing
    BY <1>5, <1>s, <1>c, <2>1 DEF Rename, AtRest
  <2>2. CASE pending # Nothing
    <3>1. snapshot' = pending /\ pending' = Nothing /\ opt'.pc = "readSnap"
      BY <1>5, <2>2 DEF Rename, AtRest
    <3>2. /\ app'.pc = app.pc /\ app'.fact = app.fact
          /\ snapshot[f] = 0 /\ UNCHANGED <<index, memory>>
      BY <1>5, <1>s, <2>2 DEF Rename, Follow
    <3> QED BY <1>s, <1>c, <3>1, <3>2
  <2> QED BY <2>1, <2>2
<1>6. CASE ReadSnapshot \/ MergeOk \/ MergeEmpty
  <2>1. CASE ReadSnapshot
    BY <1>s, <2>1 DEF ReadSnapshot, AtRest
  <2>2. CASE MergeOk
    BY <1>s, <2>2 DEF MergeOk
  <2>3. CASE MergeEmpty
    BY <1>s, <2>3 DEF MergeEmpty, AtRest
  <2> QED BY <1>6, <2>1, <2>2, <2>3
<1>7. CASE WriteMemory
  <2>1. memory'[f] > 0 <=> memory[f] > 0 \/ opt.text[f] > 0
    <3>1. memory' = Merge(memory, opt.text)
      BY <1>7 DEF WriteMemory
    <3>2. memory \in Content /\ opt.text \in Content
      BY <1>c
    <3> QED BY <3>1, <3>2, MergeAdds
  <2> QED BY <1>7, <1>s, <2>1 DEF WriteMemory
<1>8. CASE OptRaises \/ CommitSnapshot
  BY <1>8, <1>s, <1>c DEF OptRaises, CommitSnapshot, AtRest, Follow
<1>9. CASE RollbackRead
  <2>1. opt'.text[f] > 0 <=> snapshot[f] > 0 \/ pending[f] > 0
    BY <1>9, <1>c, CopiesAddUp DEF RollbackRead
  <2> QED BY <1>9, <1>s, <2>1 DEF RollbackRead
<1>10. CASE RollbackWrite \/ RollbackUnlink
  BY <1>10, <1>s, <1>c DEF RollbackWrite, RollbackUnlink, AtRest, Follow
<1>11. CASE PendingDies
  <2>1. (pending'[f] > 0 <=> pending[f] > 0) /\ (memory'[f] > 0 <=> memory[f] > 0)
    BY <1>11, <1>c DEF PendingDies, Torn
  <2>2. /\ app'.pc = "idle" /\ opt'.pc \in {"idle", "rbRead"}
        /\ UNCHANGED <<snapshot, index>>
    BY <1>11 DEF PendingDies, NoAppend, AtRest
  <2> QED BY <1>s, <2>1, <2>2
<1>12. CASE UNCHANGED pendingVars
  BY <1>12, <1>s DEF pendingVars
<1> QED
  BY <1>1, <1>2, <1>3, <1>4, <1>5, <1>6, <1>7, <1>8, <1>9, <1>10, <1>11, <1>12
  DEF PendingNext, Append, Optimize, Rollback

(***************************************************************************)
(* Nothing is kept, merged or at risk in the beginning.                    *)
(***************************************************************************)
LEMMA PendingBegins == PendingInit => PendingTypeOK /\ BufferInv /\ Ledger!Init
<1> SUFFICES ASSUME PendingInit PROVE PendingTypeOK /\ BufferInv /\ Ledger!Init
  OBVIOUS
<1>1. Nothing \in Content /\ \A f \in Facts : Nothing[f] = 0
  BY DEF Nothing, Content
<1>2. PendingTypeOK
  BY <1>1, RestType DEF PendingInit, PendingTypeOK
<1>3. BufferInv
  BY <1>1 DEF PendingInit, BufferInv, Sound, NoAppend, AtRest
<1>4. Ledger!Init
  BY <1>1 DEF PendingInit, Ledger!Init, Standing, Merged, Kept
<1> QED BY <1>2, <1>3, <1>4

(***************************************************************************)
(* What is known of a fact at each point of an append and of a round       *)
(* promises that it is somewhere.                                          *)
(***************************************************************************)
LEMMA BufferIsEnough == PendingTypeOK /\ BufferInv => NoFactLost
BY DEF PendingTypeOK, BufferInv, Sound, NoFactLost

(***************************************************************************)
(* It is known in every state.                                             *)
(***************************************************************************)
LEMMA AlwaysBuffer == PendingSpec => [](PendingTypeOK /\ BufferInv)
BY PendingBegins, PendingStepType, BufferStep, PTL DEF PendingSpec

(***************************************************************************)
(* "No data is lost": however an append, a round, a rollback, a failure, a *)
(* death and a recovery interleave, a fact with an index row is in         *)
(* PENDING.md, in the snapshot or merged, unless it was written past the   *)
(* optimizer or its file torn (agent/memory.py).                           *)
(***************************************************************************)
THEOREM FactsAreNotLost == PendingSpec => [](PendingTypeOK /\ NoFactLost)
BY BufferIsEnough, AlwaysBuffer, PTL

-----------------------------------------------------------------------------
(* PENDING.md: it implements the ledger.                                    *)

(***************************************************************************)
(* A step after which every fact is where it was, as far as the ledger     *)
(* tells, is none of the ledger's.                                         *)
(***************************************************************************)
LEMMA Unmoved ==
  ASSUME risked' = risked,
         \A f \in Facts \ risked :
            (Merged(f)' <=> Merged(f)) /\ (Merged(f) \/ (Kept(f)' <=> Kept(f)))
  PROVE  UNCHANGED Standing
BY DEF Standing, Merged, Kept

(***************************************************************************)
(* What is put at risk is struck off the ledger.                           *)
(***************************************************************************)
LEMMA PutAtRisk ==
  ASSUME NEW batch \in SUBSET Facts, risked' = risked \cup batch,
         \A f \in Facts \ risked' : (Merged(f)' <=> Merged(f)) /\ (Kept(f)' <=> Kept(f))
  PROVE  Ledger!Next
<1>1. Standing' = [f \in Facts |-> IF f \in batch THEN "risked" ELSE Standing[f]]
  BY DEF Standing, Merged, Kept
<1> QED BY <1>1 DEF Ledger!Next, Ledger!Risk

(***************************************************************************)
(* Each step of the buffer is a step of the ledger or none.                *)
(***************************************************************************)
LEMMA LedgerStep ==
  PendingTypeOK /\ BufferInv /\ [PendingNext]_pendingVars => [Ledger!Next]_Standing
<1> SUFFICES ASSUME PendingTypeOK, BufferInv, [PendingNext]_pendingVars
             PROVE  [Ledger!Next]_Standing
  OBVIOUS
<1>c. /\ pending \in Content /\ snapshot \in Content /\ memory \in Content /\ opt.text \in Content
      /\ \A f \in Facts : Nothing[f] = 0 /\ ~(Nothing[f] > 0)
  BY DEF PendingTypeOK, Content, Nothing
<1>s. \A f \in Facts \ risked : Sound(f)
  BY DEF BufferInv
<1> USE DEF Kept, Merged, files, pendingHistory
<1>1. CASE (\E f \in Facts : AppendCheck(f)) \/ AppendOpen \/ AppendCommit \/ AppendFails
  BY <1>1, Unmoved DEF AppendCheck, AppendOpen, AppendCommit, AppendFails
<1>2. CASE AppendFlush
  <2>1. app.fact \in Facts
    BY DEF PendingTypeOK
  <2>2. \A f \in Facts : f # app.fact =>
          (pending'[f] > 0 <=> pending[f] > 0) /\ (snapshot'[f] > 0 <=> snapshot[f] > 0)
    BY <1>2, <1>c DEF AppendFlush, Plus, One, Content
  <2>3. UNCHANGED memory
    BY <1>2 DEF AppendFlush
  <2>4. CASE Overlaps
    <3>1. risked' = risked \cup {app.fact}
      BY <1>2, <2>4 DEF AppendFlush
    <3> QED BY <2>1, <2>2, <2>3, <3>1, PutAtRisk
  <2>5. CASE ~Overlaps
    <3>1. risked' = risked /\ pending'[app.fact] > 0 /\ UNCHANGED snapshot
      BY <1>2, <1>c, <2>1, <2>5 DEF AppendFlush, Overlaps, Plus, One, Content
    <3>2. CASE Merged(app.fact) \/ Kept(app.fact)
      BY <2>2, <2>3, <3>1, <3>2, Unmoved
    <3>3. CASE ~(Merged(app.fact) \/ Kept(app.fact)) /\ app.fact \in risked
      BY <2>2, <2>3, <3>1, <3>3, Unmoved
    <3>4. CASE ~(Merged(app.fact) \/ Kept(app.fact)) /\ app.fact \notin risked
      <4>1. Standing[app.fact] = "absent"
        BY <2>1, <3>4 DEF Standing
      <4>2. Standing' = [Standing EXCEPT ![app.fact] = "kept"]
        BY <2>1, <2>2, <2>3, <3>1, <3>4 DEF Standing
      <4> QED BY <2>1, <4>1, <4>2 DEF Ledger!Next, Ledger!Keep
    <3> QED BY <3>2, <3>3, <3>4
  <2> QED BY <2>4, <2>5
<1>3. CASE OptStart \/ ReadSnapshot \/ MergeOk \/ MergeEmpty \/ OptRaises \/ RollbackRead
  BY <1>3, Unmoved DEF OptStart, ReadSnapshot, MergeOk, MergeEmpty, OptRaises, RollbackRead
<1>4. CASE Rename
  <2>1. \A f \in Facts \ risked : snapshot[f] = 0
    BY <1>4, <1>s DEF Rename, Sound
  <2>2. UNCHANGED <<memory, risked>>
    BY <1>4 DEF Rename
  <2>3. CASE UNCHANGED <<pending, snapshot>>
    BY <2>2, <2>3, Unmoved
  <2>4. CASE snapshot' = pending /\ pending' = Nothing
    BY <1>c, <2>1, <2>2, <2>4, Unmoved
  <2> QED BY <1>4, <2>3, <2>4 DEF Rename
<1>5. CASE WriteMemory
  <2> DEFINE batch == {f \in Facts \ risked : opt.text[f] > 0 /\ ~Merged(f)}
  <2>1. \A f \in Facts : memory'[f] > 0 <=> memory[f] > 0 \/ opt.text[f] > 0
    BY <1>5, <1>c, CopiesAddUp DEF WriteMemory
  <2>2. UNCHANGED <<pending, snapshot, risked>>
    BY <1>5 DEF WriteMemory
  <2>3. CASE batch = {}
    BY <2>1, <2>2, <2>3, Unmoved
  <2>4. CASE batch # {}
    <3>1. \A f \in batch : Standing[f] = "kept"
      BY <1>5, <1>s DEF WriteMemory, Sound, Standing
    <3>2. Standing' = [f \in Facts |-> IF f \in batch THEN "merged" ELSE Standing[f]]
      BY <2>1, <2>2 DEF Standing
    <3> QED BY <2>4, <3>1, <3>2 DEF Ledger!Next, Ledger!Merge
  <2> QED BY <2>3, <2>4
<1>6. CASE CommitSnapshot
  <2>1. \A f \in Facts \ risked : snapshot[f] > 0 => Merged(f)
    BY <1>6, <1>s DEF CommitSnapshot, Sound
  <2>2. UNCHANGED <<pending, memory, risked>> /\ snapshot' = Nothing
    BY <1>6 DEF CommitSnapshot
  <2> QED BY <1>c, <2>1, <2>2, Unmoved
<1>7. CASE RollbackWrite
  <2>1. \A f \in Facts \ risked : opt.text[f] > 0 <=> Kept(f)
    BY <1>7, <1>s DEF RollbackWrite, Sound
  <2>2. UNCHANGED <<snapshot, memory, risked>> /\ pending' = opt.text
    BY <1>7 DEF RollbackWrite
  <2> QED BY <2>1, <2>2, Unmoved
<1>8. CASE RollbackUnlink
  <2>1. \A f \in Facts \ risked : snapshot[f] > 0 => pending[f] > 0
    BY <1>8, <1>s DEF RollbackUnlink, Sound
  <2>2. UNCHANGED <<pending, memory, risked>> /\ snapshot' = Nothing
    BY <1>8 DEF RollbackUnlink
  <2> QED BY <1>c, <2>1, <2>2, Unmoved
<1>9. CASE PendingDies
  <2>1. CASE UNCHANGED <<pending, memory, risked>>
    BY <1>9, <2>1, Unmoved DEF PendingDies
  <2>2. CASE ~UNCHANGED <<pending, memory, risked>>
    <3>1. PICK batch \in SUBSET Facts :
             /\ risked' = risked \cup batch
             /\ \A f \in Facts \ batch :
                  (pending'[f] > 0 <=> pending[f] > 0) /\ (memory'[f] > 0 <=> memory[f] > 0)
      <4>1. CASE Torn("rbWrite", pending, pending') /\ UNCHANGED memory
        BY <1>c, <4>1 DEF Torn
      <4>2. CASE Torn("writeMem", memory, memory') /\ UNCHANGED pending
        BY <1>c, <4>2 DEF Torn
      <4> QED BY <1>9, <2>2, <4>1, <4>2 DEF PendingDies
    <3>2. UNCHANGED snapshot
      BY <1>9 DEF PendingDies
    <3> QED BY <3>1, <3>2, PutAtRisk
  <2> QED BY <2>1, <2>2
<1>10. CASE UNCHANGED pendingVars
  BY <1>10, Unmoved DEF pendingVars
<1> QED
  BY <1>1, <1>2, <1>3, <1>4, <1>5, <1>6, <1>7, <1>8, <1>9, <1>10
  DEF PendingNext, Append, Optimize, Rollback

(***************************************************************************)
(* The buffer implements the ledger, for every set of facts and every      *)
(* number of appends and deaths.                                           *)
(***************************************************************************)
THEOREM BufferImplementsLedger == PendingSpec => ImplementsLedger
BY PendingBegins, AlwaysBuffer, LedgerStep, PTL DEF PendingSpec, ImplementsLedger, Ledger!Spec

-----------------------------------------------------------------------------
(* The job list: when the next occurrence is.                               *)

(***************************************************************************)
(* Every nonempty set of times has an earliest one.                        *)
(***************************************************************************)
LEMMA LeastExists ==
  ASSUME NEW S \in SUBSET Nat, S # {}
  PROVE  \E n \in S : \A m \in S : n <= m
<1> DEFINE R == OpToRel(<, Nat)
<1>1. IsWellFoundedOn(R, Nat)
  BY NatLessThanWellFounded
<1>2. \A x, y \in Nat : <<x, y>> \in R <=> x < y
  BY DEF OpToRel
<1> HIDE DEF R
<1>3. PICK x \in S : \A y \in S : ~(<<y, x>> \in R)
  BY <1>1, WFMin
<1>4. ASSUME NEW y \in S PROVE x <= y
  <2>1. x \in Nat /\ y \in Nat
    OBVIOUS
  <2>2. ~(y < x)
    BY <1>2, <1>3, <2>1
  <2> QED BY <2>1, <2>2
<1> QED BY <1>4

(***************************************************************************)
(* The next occurrence (_advance_every) is one, it is later than the time  *)
(* it has to be later than, and there is none between.                     *)
(***************************************************************************)
LEMMA AdvanceIsNext ==
  ASSUME NEW j \in Jobs, NEW from \in Nat, NEW after \in Nat
  PROVE  /\ Advance(j, from, after) \in Occurrences(j, from, after)
         /\ Advance(j, from, after) \in Nat
         /\ Advance(j, from, after) > after
         /\ \A t \in Occurrences(j, from, after) : Advance(j, from, after) <= t
<1> DEFINE S == Occurrences(j, from, after)
<1>1. Origin(j, from) \in Nat /\ Interval \in Nat /\ Interval >= 1
  BY NumberAssumption DEF Origin
<1>2. \A k \in Nat : k * Interval \in Nat
  BY <1>1
<1>3. S \in SUBSET Nat /\ \A t \in S : t > after
  BY <1>1, <1>2 DEF Occurrences
<1>4. (after + 1) * Interval >= after + 1
  BY <1>1
<1>5. Origin(j, from) + (after + 1) * Interval > after
  BY <1>1, <1>2, <1>4
<1>6. Origin(j, from) + (after + 1) * Interval \in S
  BY <1>5 DEF Occurrences
<1> HIDE DEF S
<1>7. PICK n \in S : \A m \in S : n <= m
  BY <1>3, <1>6, LeastExists
<1>8. Least(S) \in S /\ \A u \in S : Least(S) <= u
  BY <1>7 DEF Least
<1>9. Advance(j, from, after) = Least(S)
  BY DEF Advance, S
<1> QED BY <1>3, <1>8, <1>9 DEF S

(***************************************************************************)
(* The later the restart, the later the occurrence it moves on to.         *)
(***************************************************************************)
LEMMA AdvanceIsMonotone ==
  ASSUME NEW j \in Jobs, NEW from \in Nat, NEW n \in Nat, NEW m \in Nat, n <= m
  PROVE  Advance(j, from, n) <= Advance(j, from, m)
<1> DEFINE first == Origin(j, from)
           t == Advance(j, from, m)
<1>1. first \in Nat /\ Interval \in Nat
  BY NumberAssumption DEF Origin
<1>2. PICK k \in 1 .. m + 1 : t = first + k * Interval
  BY AdvanceIsNext DEF Occurrences
<1>3. t > m /\ t \in Nat
  BY AdvanceIsNext
<1> HIDE DEF t
<1>4. CASE k <= n + 1
  <2>1. k \in 1 .. n + 1 /\ t > n
    BY <1>3, <1>4
  <2>2. t \in Occurrences(j, from, n)
    BY <1>2, <2>1 DEF Occurrences
  <2> QED BY <2>2, AdvanceIsNext DEF t
<1>5. CASE k > n + 1
  <2> DEFINE u == first + (n + 1) * Interval
  <2>1. (n + 1) * Interval >= n + 1 /\ (n + 1) * Interval \in Nat
    BY NumberAssumption
  <2>2. u \in Occurrences(j, from, n)
    BY <1>1, <2>1 DEF Occurrences
  <2>3. Advance(j, from, n) <= u
    BY <2>2, AdvanceIsNext
  <2>4. (n + 1) * Interval <= k * Interval
    BY <1>1, <1>5
  <2>5. u <= t
    <3>1. k * Interval \in Nat
      BY <1>1
    <3> QED BY <1>1, <1>2, <2>1, <2>4, <3>1
  <2>6. u \in Nat /\ Advance(j, from, n) \in Nat
    <3>1. u \in Nat
      BY <1>1, <2>1
    <3>2. Advance(j, from, n) \in Nat
      BY AdvanceIsNext
    <3> QED BY <3>1, <3>2
  <2> HIDE DEF u
  <2>7. Advance(j, from, n) <= t
    BY <1>3, <2>3, <2>5, <2>6
  <2> QED BY <2>7 DEF t
<1> QED BY <1>1, <1>4, <1>5


-----------------------------------------------------------------------------
(* The job list: the inductive invariant.                                   *)

(***************************************************************************)
(* The object's fire_at is what the file has or what some restart, not in  *)
(* the future, advanced it to without writing it back.                     *)
(***************************************************************************)
FollowsSaved(j) ==
    saved[j] # 0 =>
        \/ fireAt[j] = saved[j]
        \/ /\ j \in Every
           /\ \E n \in Nat : saved[j] <= n /\ n <= now /\ fireAt[j] = Advance(j, saved[j], n)

(***************************************************************************)
(* The next occurrence was pushed already and may be pushed once more: the *)
(* task that pushed it has died, which is one of the crashes.              *)
(***************************************************************************)
Owed(j) ==
    /\ fireAt[j] \in delivered[j] /\ exec[j] # "pushed"
    /\ j \in listed \/ saved[j] # 0 \/ exec[j] = "started"

JobInv(j) ==
    /\ FollowsSaved(j)
    /\ j \in listed => saved[j] # 0
    /\ exec[j] # "no" => j \in tried
    /\ \A t \in delivered[j] : t <= fireAt[j]
    /\ repeats[j] + (IF Owed(j) THEN 1 ELSE 0) <= crashes

SchedulerInv == NoJobVanishes /\ \A j \in Jobs : JobInv(j)

(***************************************************************************)
(* The steps of the scheduler keep the types.                              *)
(***************************************************************************)
LEMMA SchedulerStepType ==
  SchedulerTypeOK /\ [SchedulerNext]_schedulerVars => SchedulerTypeOK'
<1> SUFFICES ASSUME SchedulerTypeOK, [SchedulerNext]_schedulerVars PROVE SchedulerTypeOK'
  OBVIOUS
<1> USE NumberAssumption, BoundAssumption DEF SchedulerTypeOK, history, deaths
<1>1. CASE ClockTicks
  BY <1>1 DEF ClockTicks
<1>2. ASSUME NEW j \in Jobs, NEW t \in 1 .. MaxTime, AddJob(j, t) PROVE SchedulerTypeOK'
  BY <1>2 DEF AddJob, Save
<1>3. ASSUME NEW j \in Jobs, CancelJob(j) PROVE SchedulerTypeOK'
  BY <1>3 DEF CancelJob, Save
<1>4. ASSUME NEW lead \in Leads, Tick(lead) PROVE SchedulerTypeOK'
  BY <1>4 DEF Tick, Due
<1>5. ASSUME NEW j \in Jobs, Push(j) PROVE SchedulerTypeOK'
  BY <1>5 DEF Push
<1>6. ASSUME NEW j \in Jobs, Finish(j) PROVE SchedulerTypeOK'
  <2>1. fireAt[j] \in Nat /\ Larger(now, fireAt[j]) \in Nat
    BY DEF Larger
  <2>2. Advance(j, fireAt[j], Larger(now, fireAt[j])) \in Nat
    BY <2>1, AdvanceIsNext
  <2>3. fireAt' \in [Jobs -> Nat]
    BY <1>6, <2>2 DEF Finish
  <2>4. saved' \in [Jobs -> Nat]
    BY <1>6, <2>3 DEF Finish, Save
  <2> QED BY <1>6, <2>3, <2>4 DEF Finish
<1>7. ASSUME NEW content \in [Jobs -> Nat], crashes < MaxCrashes, Recover(content)
      PROVE  /\ listed' \subseteq Jobs /\ fireAt' \in [Jobs -> Nat]
             /\ exec' \in [Jobs -> {"no", "started", "pushed"}]
             /\ expired' \subseteq OnceJobs /\ crashes' \in 0 .. MaxCrashes
             /\ UNCHANGED <<now, cancelled, delivered, repeats, tried>>
  <2>1. ASSUME NEW j \in Jobs PROVE Advance(j, content[j], now) \in Nat
    <3>1. content[j] \in Nat /\ now \in Nat
      OBVIOUS
    <3> QED BY <3>1, AdvanceIsNext
  <2>2. fireAt' \in [Jobs -> Nat]
    BY <1>7, <2>1 DEF Recover
  <2> QED BY <1>7, <2>2 DEF Recover
<1>8. CASE Restart
  BY <1>7, <1>8 DEF Restart
<1>9. CASE RestartTorn
  <2>1. saved' \in [Jobs -> Nat]
    BY <1>9 DEF RestartTorn
  <2> QED BY <1>7, <1>9, <2>1 DEF RestartTorn
<1>10. CASE UNCHANGED schedulerVars
  BY <1>10 DEF schedulerVars
<1> QED
  BY <1>1, <1>2, <1>3, <1>4, <1>5, <1>6, <1>8, <1>9, <1>10 DEF SchedulerNext, Task

(***************************************************************************)
(* Every step keeps the invariant.  A restart is the step that needs it:   *)
(* going on from the file it arrives at the occurrence the process had, or *)
(* at a later one.                                                         *)
(***************************************************************************)
LEMMA SchedulerStepInv ==
  SchedulerTypeOK /\ SchedulerInv /\ [SchedulerNext]_schedulerVars => SchedulerInv'
<1> SUFFICES ASSUME SchedulerTypeOK, SchedulerInv, [SchedulerNext]_schedulerVars
             PROVE  SchedulerInv'
  OBVIOUS
<1>t. /\ now \in Nat /\ crashes \in Nat /\ torn \in BOOLEAN
      /\ listed \subseteq Jobs /\ tried \subseteq Jobs
      /\ \A j \in Jobs : /\ fireAt[j] \in Nat /\ saved[j] \in Nat /\ repeats[j] \in Nat
                        /\ delivered[j] \subseteq Nat
                        /\ exec[j] \in {"no", "started", "pushed"}
      /\ fireAt \in [Jobs -> Nat] /\ repeats \in [Jobs -> Nat]
      /\ delivered \in [Jobs -> SUBSET Nat]
      /\ exec \in [Jobs -> {"no", "started", "pushed"}]
  BY BoundAssumption DEF SchedulerTypeOK
<1>i. \A j \in Jobs : JobInv(j)
  BY DEF SchedulerInv
<1>n. NoJobVanishes
  BY DEF SchedulerInv
<1>p. \A j \in Jobs : j \in listed => saved[j] # 0 /\ fireAt[j] # 0
  <2> SUFFICES ASSUME NEW j \in Jobs, j \in listed PROVE saved[j] # 0 /\ fireAt[j] # 0
    OBVIOUS
  <2>1. saved[j] # 0 /\ FollowsSaved(j)
    BY <1>i DEF JobInv
  <2>2. ASSUME NEW n \in Nat PROVE Advance(j, saved[j], n) > n
    BY <1>t, AdvanceIsNext
  <2> QED BY <1>t, <2>1, <2>2 DEF FollowsSaved
<1> USE DEF history, deaths
<1>1. CASE ClockTicks
  <2>1. ASSUME NEW j \in Jobs PROVE JobInv(j)'
    <3>1. FollowsSaved(j)'
      BY <1>1, <1>t, <1>i DEF ClockTicks, JobInv, FollowsSaved, Every
    <3> QED BY <1>1, <1>t, <1>i, <3>1 DEF ClockTicks, JobInv, Owed
  <2>2. NoJobVanishes'
    BY <1>1, <1>n DEF ClockTicks, NoJobVanishes
  <2> QED BY <2>1, <2>2 DEF SchedulerInv
<1>2. ASSUME NEW j \in Jobs, NEW t \in 1 .. MaxTime, AddJob(j, t) PROVE SchedulerInv'
  <2>1. ASSUME NEW k \in Jobs PROVE JobInv(k)'
    <3>1. FollowsSaved(k)'
      BY <1>2 DEF AddJob, Save, FollowsSaved
    <3>2. (k \in listed => saved[k] # 0)'
      BY <1>2, <1>t, <1>p DEF AddJob, Save
    <3>3. (\A u \in delivered[k] : u <= fireAt[k])'
      BY <1>2, <1>t, <1>i DEF AddJob, JobInv
    <3>4. Owed(k)' => Owed(k)
      BY <1>2, <1>t, <1>i DEF AddJob, JobInv, Owed, Save
    <3> QED BY <1>2, <1>t, <1>i, <3>1, <3>2, <3>3, <3>4 DEF AddJob, JobInv
  <2>2. NoJobVanishes'
    BY <1>2, <1>t, <1>n DEF AddJob, NoJobVanishes
  <2> QED BY <2>1, <2>2 DEF SchedulerInv
<1>3. ASSUME NEW j \in Jobs, CancelJob(j) PROVE SchedulerInv'
  <2>1. ASSUME NEW k \in Jobs PROVE JobInv(k)'
    <3>1. FollowsSaved(k)'
      BY <1>3 DEF CancelJob, Save, FollowsSaved
    <3>2. (k \in listed => saved[k] # 0)'
      BY <1>3, <1>t, <1>p DEF CancelJob, Save
    <3>3. Owed(k)' => Owed(k)
      BY <1>3, <1>t DEF CancelJob, Owed, Save
    <3> QED BY <1>3, <1>t, <1>i, <3>1, <3>2, <3>3 DEF CancelJob, JobInv
  <2>2. NoJobVanishes'
    BY <1>3, <1>n DEF CancelJob, NoJobVanishes
  <2> QED BY <2>1, <2>2 DEF SchedulerInv
<1>4. ASSUME NEW lead \in Leads, Tick(lead) PROVE SchedulerInv'
  <2>1. ASSUME NEW k \in Jobs PROVE JobInv(k)'
    <3>1. FollowsSaved(k)'
      BY <1>4, <1>i DEF Tick, JobInv, FollowsSaved, Every
    <3>2. Owed(k)' => Owed(k)
      BY <1>4, <1>t DEF Tick, Due, Owed
    <3>3. (exec[k] # "no" => k \in tried)'
      BY <1>4, <1>i DEF Tick, JobInv
    <3> QED BY <1>4, <1>t, <1>i, <3>1, <3>2, <3>3 DEF Tick, JobInv
  <2>2. NoJobVanishes'
    BY <1>4, <1>n DEF Tick, NoJobVanishes
  <2> QED BY <2>1, <2>2 DEF SchedulerInv
<1>5. ASSUME NEW j \in Jobs, Push(j) PROVE SchedulerInv'
  <2>1. ASSUME NEW k \in Jobs PROVE JobInv(k)'
    <3>1. FollowsSaved(k)'
      BY <1>5, <1>i DEF Push, JobInv, FollowsSaved, Every
    <3>2. (\A u \in delivered[k] : u <= fireAt[k])'
      BY <1>5, <1>t, <1>i DEF Push, JobInv
    <3>3. (exec[k] # "no" => k \in tried)'
      BY <1>5, <1>t, <1>i DEF Push, JobInv
    <3>4. (repeats[k] + (IF Owed(k) THEN 1 ELSE 0) <= crashes)'
      <4>1. CASE k = j
        BY <1>5, <1>t, <1>i, <4>1 DEF Push, JobInv, Owed
      <4>2. CASE k # j
        BY <1>5, <1>t, <1>i, <4>2 DEF Push, JobInv, Owed
      <4> QED BY <4>1, <4>2
    <3> QED BY <1>5, <1>i, <3>1, <3>2, <3>3, <3>4 DEF Push, JobInv
  <2>2. NoJobVanishes'
    BY <1>5, <1>n DEF Push, NoJobVanishes
  <2> QED BY <2>1, <2>2 DEF SchedulerInv
<1>6. ASSUME NEW j \in Jobs, Finish(j) PROVE SchedulerInv'
  <2> DEFINE next == Advance(j, fireAt[j], Larger(now, fireAt[j]))
  <2>1. next \in Nat /\ next > fireAt[j]
    <3>1. Larger(now, fireAt[j]) \in Nat /\ Larger(now, fireAt[j]) >= fireAt[j]
      BY <1>t DEF Larger
    <3>2. next \in Nat /\ next > Larger(now, fireAt[j])
      BY <1>t, <3>1, AdvanceIsNext
    <3> QED BY <1>t, <3>1, <3>2
  <2>2. /\ exec' = [exec EXCEPT ![j] = "no"]
        /\ j \in Every => /\ fireAt' = [fireAt EXCEPT ![j] = next]
                          /\ listed' = listed \cup {j}
        /\ j \notin Every => fireAt' = fireAt /\ listed' = listed \ {j}
        /\ saved' = [k \in Jobs |-> IF k \in listed' THEN fireAt'[k] ELSE 0]
        /\ UNCHANGED <<now, history, deaths>>
    BY <1>6 DEF Finish, Save
  <2> HIDE DEF next
  <2>3. ASSUME NEW k \in Jobs PROVE JobInv(k)'
    <3>1. FollowsSaved(k)'
      BY <2>2 DEF FollowsSaved
    <3>2. fireAt'[k] \in Nat /\ fireAt'[k] >= fireAt[k] /\ (k = j /\ j \in Every => fireAt'[k] > fireAt[k])
      BY <1>t, <2>1, <2>2
    <3>3. (k \in listed => saved[k] # 0)'
      BY <1>t, <1>p, <2>1, <2>2, <3>2
    <3>4. (\A u \in delivered[k] : u <= fireAt[k])'
      BY <1>t, <1>i, <2>2, <3>2 DEF JobInv
    <3>5. Owed(k)' => Owed(k)
      <4>1. CASE k = j /\ j \in Every
        <5>1. fireAt'[k] \notin delivered[k]
          BY <1>t, <1>i, <3>2, <4>1 DEF JobInv
        <5> QED BY <2>2, <5>1 DEF Owed
      <4>2. CASE k = j /\ j \notin Every
        BY <1>t, <2>2, <4>2 DEF Owed
      <4>3. CASE k # j
        BY <1>t, <2>2, <4>3 DEF Owed
      <4> QED BY <4>1, <4>2, <4>3
    <3>6. (exec[k] # "no" => k \in tried)'
      BY <1>t, <1>i, <2>2 DEF JobInv
    <3>7. repeats[k] + (IF Owed(k) THEN 1 ELSE 0) <= crashes
      BY <1>i DEF JobInv
    <3>8. (repeats[k] + (IF Owed(k) THEN 1 ELSE 0) <= crashes)'
      BY <1>t, <2>2, <3>5, <3>7
    <3> QED BY <3>1, <3>3, <3>4, <3>6, <3>8 DEF JobInv
  <2>4. NoJobVanishes'
    <3>1. j \in tried
      BY <1>6, <1>i DEF JobInv, Finish
    <3>2. j \in OnceJobs \/ j \in Every
      BY DEF Jobs, Every
    <3> QED BY <1>n, <1>t, <2>2, <3>1, <3>2 DEF NoJobVanishes
  <2> QED BY <2>3, <2>4 DEF SchedulerInv
<1>7. CASE Restart
  <2>1. Recover(saved) /\ UNCHANGED <<saved, torn>>
    BY <1>7 DEF Restart
  <2>2. /\ listed' = {j \in Jobs : saved[j] # 0 /\ Keeps(j, saved[j])}
        /\ \A j \in Jobs : exec'[j] = "no"
        /\ crashes' = crashes + 1
        /\ expired' = expired \cup {j \in OnceJobs : saved[j] # 0 /\ now - saved[j] > Grace}
        /\ UNCHANGED <<now, cancelled, delivered, repeats, tried>>
    BY <2>1 DEF Recover
  <2>3. ASSUME NEW j \in Jobs PROVE FollowsSaved(j)' /\ fireAt'[j] \in Nat /\ fireAt'[j] >= fireAt[j]
    <3>1. CASE saved[j] = 0
      BY <1>t, <2>1, <3>1 DEF Recover, FollowsSaved
    <3>2. CASE saved[j] # 0 /\ j \in Every /\ saved[j] <= now
      <4>1. fireAt'[j] = Advance(j, saved[j], now)
        BY <2>1, <3>2 DEF Recover
      <4>0. saved[j] \in Nat /\ now \in Nat
        BY <1>t
      <4>2. fireAt'[j] \in Nat /\ fireAt'[j] > now
        BY <4>0, <4>1, AdvanceIsNext
      <4>3. FollowsSaved(j)'
        BY <1>t, <2>1, <2>2, <3>2, <4>1 DEF FollowsSaved, Every
      <4>4. CASE fireAt[j] = saved[j]
        BY <1>t, <3>2, <4>2, <4>3, <4>4
      <4>5. CASE fireAt[j] # saved[j]
        <5>1. PICK n \in Nat : n <= now /\ fireAt[j] = Advance(j, saved[j], n)
          BY <1>i, <3>2, <4>5 DEF JobInv, FollowsSaved
        <5>2. Advance(j, saved[j], n) <= Advance(j, saved[j], now)
          BY <1>t, <5>1, AdvanceIsMonotone
        <5> QED BY <1>t, <4>1, <4>2, <4>3, <5>1, <5>2
      <4> QED BY <4>4, <4>5
    <3>3. CASE saved[j] # 0 /\ ~(j \in Every /\ saved[j] <= now)
      <4>1. fireAt'[j] = saved[j]
        BY <2>1, <3>3 DEF Recover
      <4>2. fireAt[j] = saved[j]
        BY <1>t, <1>i, <3>3 DEF JobInv, FollowsSaved
      <4> QED BY <1>t, <2>1, <4>1, <4>2 DEF FollowsSaved
    <3> QED BY <3>1, <3>2, <3>3
  <2>4. ASSUME NEW j \in Jobs PROVE JobInv(j)'
    <3>1. (\A u \in delivered[j] : u <= fireAt[j])'
      BY <1>t, <1>i, <2>2, <2>3 DEF JobInv
    <3>2. repeats[j] <= crashes
      BY <1>t, <1>i DEF JobInv
    <3>3. (repeats[j] + (IF Owed(j) THEN 1 ELSE 0) <= crashes)'
      BY <1>t, <2>2, <3>2
    <3> QED BY <2>1, <2>2, <2>3, <3>1, <3>3 DEF JobInv
  <2>5. NoJobVanishes'
    <3> SUFFICES ASSUME ~torn', NEW j \in Jobs, fireAt'[j] # 0, j \notin listed'
                 PROVE  j \in cancelled' \/ (j \in OnceJobs /\ j \in tried' \cup expired')
      BY DEF NoJobVanishes
    <3>1. CASE saved[j] = 0
      <4>1. fireAt'[j] = fireAt[j] /\ j \notin listed
        BY <1>p, <2>1, <3>1 DEF Recover
      <4> QED BY <1>n, <2>1, <2>2, <4>1 DEF NoJobVanishes
    <3>2. CASE saved[j] # 0
      <4>1. ~Keeps(j, saved[j])
        BY <2>2, <3>2
      <4>2. j \notin Every /\ now - saved[j] > Grace
        BY <1>t, <4>1, NumberAssumption DEF Keeps
      <4> QED BY <2>2, <3>2, <4>2 DEF Jobs, Every
    <3> QED BY <3>1, <3>2
  <2> QED BY <2>4, <2>5 DEF SchedulerInv
<1>8. CASE RestartTorn
  <2>1. /\ saved' = [j \in Jobs |-> 0] /\ torn' = TRUE /\ crashes' = crashes + 1
        /\ \A j \in Jobs : fireAt'[j] = fireAt[j] /\ exec'[j] = "no"
        /\ listed' = {}
        /\ UNCHANGED <<now, cancelled, delivered, repeats, tried>>
    BY <1>8 DEF RestartTorn, Recover
  <2>2. ASSUME NEW j \in Jobs PROVE JobInv(j)'
    <3>1. FollowsSaved(j)' /\ ~Owed(j)'
      BY <2>1 DEF FollowsSaved, Owed
    <3> QED BY <1>t, <1>i, <2>1, <3>1 DEF JobInv
  <2> QED BY <2>1, <2>2 DEF SchedulerInv, NoJobVanishes
<1>9. CASE UNCHANGED schedulerVars
  <2>1. ASSUME NEW j \in Jobs PROVE JobInv(j)'
    BY <1>9, <1>i DEF schedulerVars, JobInv, FollowsSaved, Owed, Every
  <2> QED BY <1>9, <1>n, <2>1 DEF schedulerVars, SchedulerInv, NoJobVanishes
<1> QED
  BY <1>1, <1>2, <1>3, <1>4, <1>5, <1>6, <1>7, <1>8, <1>9 DEF SchedulerNext, Task

(***************************************************************************)
(* Before the first job nothing is listed, saved or pushed.                *)
(***************************************************************************)
LEMMA SchedulerBegins == SchedulerInit => SchedulerTypeOK /\ SchedulerInv
<1> SUFFICES ASSUME SchedulerInit PROVE SchedulerTypeOK /\ SchedulerInv
  OBVIOUS
<1>1. SchedulerTypeOK
  <2>1. fireAt \in [Jobs -> Nat] /\ saved \in [Jobs -> Nat] /\ repeats \in [Jobs -> Nat]
    BY DEF SchedulerInit
  <2>2. exec \in [Jobs -> {"no", "started", "pushed"}]
    BY DEF SchedulerInit
  <2>3. delivered \in [Jobs -> SUBSET Nat]
    BY DEF SchedulerInit
  <2>4. now \in 0 .. MaxTime /\ crashes \in 0 .. MaxCrashes
    BY BoundAssumption DEF SchedulerInit
  <2> QED BY <2>1, <2>2, <2>3, <2>4 DEF SchedulerInit, SchedulerTypeOK
<1>2. NoJobVanishes
  BY DEF SchedulerInit, NoJobVanishes
<1>3. ASSUME NEW j \in Jobs PROVE JobInv(j)
  BY DEF SchedulerInit, JobInv, FollowsSaved, Owed
<1> QED BY <1>1, <1>2, <1>3 DEF SchedulerInv

(***************************************************************************)
(* The invariant has what is promised.                                     *)
(***************************************************************************)
LEMMA SchedulerIsEnough == SchedulerTypeOK /\ SchedulerInv => JobsSurviveCrashes
<1> SUFFICES ASSUME SchedulerTypeOK, SchedulerInv PROVE JobsSurviveCrashes
  OBVIOUS
<1>1. crashes \in Nat /\ now \in Nat /\ \A j \in Jobs : saved[j] \in Nat /\ fireAt[j] \in Nat /\ repeats[j] \in Nat
  BY BoundAssumption DEF SchedulerTypeOK
<1>2. NoRefire
  BY <1>1 DEF SchedulerInv, JobInv, NoRefire
<1>3. ASSUME NEW j \in Jobs, j \in listed PROVE saved[j] # 0 /\ saved[j] <= fireAt[j]
  <2>1. saved[j] # 0 /\ FollowsSaved(j)
    BY <1>3 DEF SchedulerInv, JobInv
  <2>2. ASSUME NEW n \in Nat PROVE Advance(j, saved[j], n) \in Nat /\ Advance(j, saved[j], n) > n
    BY <1>1, AdvanceIsNext
  <2> QED BY <1>1, <2>1, <2>2 DEF FollowsSaved
<1> QED BY <1>2, <1>3 DEF SchedulerInv, JobsSurviveCrashes, JobsAreKept, SavedIsListed

(***************************************************************************)
(* Restarts, overdue starts and early executions neither repeat an         *)
(* occurrence (but for the one of a death before the save) nor lose a job, *)
(* for every set of jobs, interval, grace, lead and number of deaths.      *)
(***************************************************************************)
THEOREM JobsAreSafe == SchedulerSpec => [](SchedulerTypeOK /\ JobsSurviveCrashes)
<1>1. SchedulerTypeOK /\ SchedulerInv /\ [SchedulerNext]_schedulerVars => (SchedulerTypeOK /\ SchedulerInv)'
  BY SchedulerStepType, SchedulerStepInv
<1> QED BY <1>1, SchedulerBegins, SchedulerIsEnough, PTL DEF SchedulerSpec

-----------------------------------------------------------------------------
(* Both files.                                                              *)

(***************************************************************************)
(* Users of the one file do not move the other: the promises of both hold  *)
(* of the behaviours in which they are checked together.                   *)
(***************************************************************************)
THEOREM FilesAreSafe == FilesSpec => [](FilesTypeOK /\ NoFactLost /\ JobsSurviveCrashes)
<1> DEFINE Inv == PendingTypeOK /\ BufferInv /\ SchedulerTypeOK /\ SchedulerInv
           Step == \/ Writing(PendingNext) /\ UNCHANGED schedulerVars
                   \/ Scheduling(SchedulerNext) /\ UNCHANGED pendingVars
<1>1. FilesInit => Inv
  BY PendingBegins, SchedulerBegins DEF FilesInit
<1>2. Inv /\ [Step]_<<pendingVars, schedulerVars>> => Inv'
  BY PendingStepType, BufferStep, SchedulerStepType, SchedulerStepInv DEF Writing, Scheduling
<1>3. Inv => FilesTypeOK /\ NoFactLost /\ JobsSurviveCrashes
  BY BufferIsEnough, SchedulerIsEnough DEF FilesTypeOK
<1> QED BY <1>1, <1>2, <1>3, PTL DEF FilesSpec
=============================================================================
