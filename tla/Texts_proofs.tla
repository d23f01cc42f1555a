---------------------------- MODULE Texts_proofs ----------------------------
(***************************************************************************)
(* What the program reads and changes of files, and what it answers in a   *)
(* chat: the lemmas of Recall_proofs, Replies_proofs and TextLemmas for    *)
(* the specification that the runs of MCSafety check.                      *)
(***************************************************************************)
EXTENDS MCSafety, Replies_proofs, TextLemmas

\* What is asked of a text is answered as the code does, and each checkpoint loads.
FilesInv == When("files", CheckpointInv) /\ When("texts", TextInv)

\* The same of a text that is sent, and the replies are on their way.
AnswersInv == When("replies", RepliesInv) /\ When("layout", LayoutInv)

\* A step is one of the machine that moves, or of none.
LEMMA TextsMove ==
  ASSUME [StayPut /\ Moves]_<<system, machines>>
  PROVE  /\ system' = system
         /\ system = "files" => [FileNext]_fileVars
         /\ system = "texts" => [TextNext]_textVars
         /\ system = "replies" => [ReplyNext]_replyVars
         /\ system = "layout" => [LayoutNext]_layoutVars
<1>1. CASE UNCHANGED <<system, machines>>
  BY <1>1 DEF machines
<1>2. CASE StayPut /\ Moves
  BY <1>2 DEF StayPut, Moves
<1> QED BY <1>1, <1>2

(***************************************************************************)
(* Each checkpoint id that was returned brings back what the file held,    *)
(* whatever was written, restored, torn or cut off by a crash since        *)
(* (FileCheckpointStore.create, load_verified, RestoreCheckpointTool); and *)
(* whatever file is read or edited, a page is of the file and says what is *)
(* left, and an edit is local (ReadFileTool.execute, EditFileTool.execute).*)
(***************************************************************************)
THEOREM FilesStaySound == Spec => []FilesAreSound
<1>1. Init => FilesInv
  BY FilesBegin, TextBegins DEF Init, FilesInv, When
<1>2. FilesInv /\ [StayPut /\ Moves]_<<system, machines>> => FilesInv'
  BY TextsMove, FilesStep, TextStep DEF FilesInv, When
<1>3. FilesInv => FilesAreSound
  BY CheckpointInvIsEnough, PagesAreHonest, EditsAreLocal DEF FilesInv, FilesAreSound, When
<1> QED BY <1>1, <1>2, <1>3, PTL DEF Spec

(***************************************************************************)
(* A reply that was brought whole can be read in the chat: in the message  *)
(* of its stream, or in messages of its own, each piece of it, whatever    *)
(* was thrown by a callback, flooded by Telegram or stopped by the user    *)
(* on the way (TelegramStreamMessage, TelegramChannel._on_response,        *)
(* send_markdown, MessageBus.dispatch_outbound); and whatever text is cut, *)
(* stripped, previewed or laid out for a chat, nothing of it is lost or    *)
(* moved, and in the UTF-16 units that Telegram counts it fits into its    *)
(* messages: thinking always, replies and previews, which are cut by       *)
(* characters, but for their wide ones (telegram_utils.py).                *)
(***************************************************************************)
THEOREM ChannelsStayFaithful == Spec => []ChannelsAreFaithful
<1>1. Init => AnswersInv
  BY ReplyBegins, LayoutBegins DEF Init, AnswersInv, When
<1>2. AnswersInv /\ [StayPut /\ Moves]_<<system, machines>> => AnswersInv'
  BY TextsMove, ReplyStep, LayoutStep DEF AnswersInv, When
<1>3. AnswersInv => ChannelsAreFaithful
  BY RepliesInvIsEnough, LayoutsAreFaithful DEF AnswersInv, ChannelsAreFaithful, When
<1> QED BY <1>1, <1>2, <1>3, PTL DEF Spec
=============================================================================
