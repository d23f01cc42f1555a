----------------------------- MODULE FileTools ------------------------------
(***************************************************************************)
(* write_file, edit_file, restore_checkpoint and the checkpoints they keep *)
(* on disk (agent/tools/filesystem.py, checkpoint.py).  A call does not    *)
(* await while it holds its file's lock, so calls do not interleave; but   *)
(* each of its file operations may fail, and the process may die between   *)
(* or in them.  The shell changes files without a checkpoint.              *)
(*                                                                         *)
(* A checkpoint is its number; the mutated file is recorded in its meta.   *)
(***************************************************************************)
EXTENDS FileText

CONSTANTS
    Paths,          \* files inside the allowed directory
    FileContents,       \* what files hold: texts
    Replacements,   \* pairs of texts edit_file is called with
    MaxCheckpoints, MaxBreaks       \* bounds on checkpoints and on failures

ASSUME FileToolsAssumption ==
    /\ {MaxCheckpoints, MaxBreaks} \subseteq Nat
    /\ FileContents \cup {r[1] : r \in Replacements} \cup {r[2] : r \in Replacements} \subseteq Seq(TextChars)

Absent == [kind |-> "absent"]
Torn == [kind |-> "torn"]       \* neither the old nor the new content
Text(t) == [kind |-> "text", text |-> t]

VARIABLES
    disk,                   \* of each path
    contentOf,              \* <checkpoint_id>.bin
    meta,                   \* <checkpoint_id>.json: the file and whether it existed
    op,                     \* the mutation under way, up to its next file operation
    given,                  \* checkpoint ids that were returned
    was,                    \* history: what the file held when the checkpoint's call began
    either,                 \* history: of a torn file, the contents it is torn between
    breaks                  \* failures and deaths

fileVars == <<disk, contentOf, meta, op, given, was, either, breaks>>

CheckpointIds == 1..MaxCheckpoints
NoOp == [step |-> "none"]

FileTypeOK ==
    /\ disk \in [Paths -> [kind : {"absent", "torn"}] \cup [kind : {"text"}, text : Seq(TextChars)]]
    /\ DOMAIN contentOf \subseteq CheckpointIds /\ DOMAIN meta \subseteq CheckpointIds /\ given \subseteq DOMAIN meta
    /\ op.step \in {"none", "content", "meta", "file"}
    /\ DOMAIN was \subseteq CheckpointIds /\ DOMAIN either = Paths /\ breaks \in 0..MaxBreaks

FileInit ==
    /\ disk = [p \in Paths |-> Absent]
    /\ contentOf = <<>> /\ meta = <<>> /\ op = NoOp /\ given = {} /\ was = <<>>
    /\ either = [p \in Paths |-> {}] /\ breaks = 0

-----------------------------------------------------------------------------
(* The calls that change a file                                             *)

\* FileCheckpointStore.create begins: a new id, and the content if there is a file.
Mutate(path, next) ==
    LET id == Len(was) + 1
    IN  /\ op.step = "none" /\ id \in CheckpointIds /\ was' = Append(was, disk[path])
        /\ op' = [step |-> IF disk[path] = Absent THEN "meta" ELSE "content",
                  id |-> id, path |-> path, next |-> next,
                  payload |-> Absent]
        /\ UNCHANGED <<disk, contentOf, meta, given, either, breaks>>

WriteFile(path) == \E t \in FileContents : Mutate(path, Text(t))

\* _edit: a file that is missing or does not decode, and a text that is not found
\* or found several times, are refused before the checkpoint.
EditFile(path) ==
    /\ disk[path].kind = "text"
    /\ \E r \in Replacements, all \in BOOLEAN :
        LET edit == Edit(disk[path].text, r[1], r[2], all)
        IN  edit.made = "edited" /\ Mutate(path, Text(edit.text))

\* Mutant: the checkpoint is taken of the file as the call leaves it.
SaveContent_after ==
    /\ op.step = "content"
    /\ op' = [op EXCEPT !.step = "meta", !.payload = op.next]
    /\ contentOf' = [i \in DOMAIN contentOf \cup {op.id} |->
                        IF i = op.id THEN op.next ELSE contentOf[i]]
    /\ UNCHANGED <<disk, meta, given, was, either, breaks>>

SaveContent ==
    /\ op.step = "content"
    /\ op' = [op EXCEPT !.step = "meta", !.payload = disk[op.path]]
    /\ contentOf' = [i \in DOMAIN contentOf \cup {op.id} |->
                        IF i = op.id THEN disk[op.path] ELSE contentOf[i]]
    /\ UNCHANGED <<disk, meta, given, was, either, breaks>>

SaveMeta ==
    /\ op.step = "meta" /\ op' = [op EXCEPT !.step = "file"]
    /\ meta' = [i \in DOMAIN meta \cup {op.id} |->
                  IF i = op.id THEN [path |-> op.path, existed |-> disk[op.path] # Absent,
                                     sum |-> op.payload]
                               ELSE meta[i]]
    /\ UNCHANGED <<disk, contentOf, given, was, either, breaks>>

\* The file is rewritten in place, and the call returns the id.
PutFile ==
    /\ op.step = "file" /\ op' = NoOp
    /\ disk' = [disk EXCEPT ![op.path] = op.next] /\ given' = given \cup {op.id}
    /\ UNCHANGED <<contentOf, meta, was, either, breaks>>

Tear(path, next) ==
    /\ disk' = [disk EXCEPT ![path] = Torn]
    /\ either' = [either EXCEPT ![path] = IF disk[path] = Torn THEN @ \cup {next}
                                                            ELSE {disk[path], next}]

\* A write raises or the process dies in it: the file is torn, or as it was.
Breaks ==
    /\ op.step # "none" /\ op' = NoOp /\ breaks < MaxBreaks /\ breaks' = breaks + 1
    /\ \/ op.step = "file" /\ Tear(op.path, op.next)
       \/ UNCHANGED <<disk, either>>
    /\ contentOf' \in {contentOf} \cup
         (IF op.step = "content"
          THEN {[i \in DOMAIN contentOf \cup {op.id} |->
                    IF i = op.id THEN Torn ELSE contentOf[i]]}
          ELSE {})
    /\ UNCHANGED <<meta, given, was>>

-----------------------------------------------------------------------------
(* restore_checkpoint                                                       *)

\* A checkpoint without its meta, or whose content has another checksum, is refused.
Loadable(id) ==
    /\ id \in DOMAIN meta
    /\ meta[id].existed => id \in DOMAIN contentOf /\ contentOf[id] = meta[id].sum

Restored(id) == IF meta[id].existed THEN contentOf[id] ELSE Absent

\* No checkpoint is made of what the file held.
Restore(id) ==
    /\ op.step = "none" /\ Loadable(id)
    /\ disk' = [disk EXCEPT ![meta[id].path] = Restored(id)]
    /\ UNCHANGED <<contentOf, meta, op, given, was, either, breaks>>

RestoreBreaks(id) ==
    /\ op.step = "none" /\ Loadable(id) /\ meta[id].existed
    /\ breaks < MaxBreaks /\ breaks' = breaks + 1
    /\ Tear(meta[id].path, Restored(id))
    /\ UNCHANGED <<contentOf, meta, op, given, was>>

\* A shell command, without a checkpoint.
ShellWrites(path) ==
    /\ op.step = "none" /\ \E t \in FileContents : disk' = [disk EXCEPT ![path] = Text(t)]
    /\ UNCHANGED <<contentOf, meta, op, given, was, either, breaks>>

-----------------------------------------------------------------------------
FileNext ==
    \/ \E path \in Paths : WriteFile(path) \/ EditFile(path) \/ ShellWrites(path)
    \/ SaveContent \/ SaveMeta \/ PutFile \/ Breaks
    \/ \E id \in CheckpointIds : Restore(id) \/ RestoreBreaks(id)

FileSpec == FileInit /\ [][FileNext]_fileVars

-----------------------------------------------------------------------------
(***************************************************************************)
(* At any later time, whatever was done to the file since and however it   *)
(* ended, each checkpoint id that was returned restores what the file held *)
(* before the call that returned it; and of a torn file, a checkpoint      *)
(* holds what it was before, or what it was to become.                     *)
(***************************************************************************)
RestoreBringsBack ==
    /\ \A id \in given : Loadable(id) /\ Restored(id) = was[id]
    /\ \A path \in Paths :
        disk[path] = Torn =>
            \E id \in DOMAIN meta :
                meta[id].path = path /\ Loadable(id) /\ Restored(id) \in either[path]
=============================================================================
