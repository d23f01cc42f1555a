------------------------------ MODULE MCSafety ------------------------------
(***************************************************************************)
(* The state machines that are checked for safety only.  What one needs of *)
(* another is among its own inputs (the proactive loop reads memory, a     *)
(* tick contains a drift run, a job is a subagent's loop), so they share   *)
(* no variable, and a behaviour moves one of them: the one in `system'.    *)
(***************************************************************************)
EXTENDS MemoryItems, MemoryEvents, ProactiveTick, Drift, FileTools,
        SubAgentLoop, SessionStore, SessionViews, MemoryQuery, MemoryRetrieval, McpPool,
        McpServers, Traces, TelegramReplies, Channels, HttpRequests, AppRuntime, TLC

CONSTANTS alert, article

\* The second skill needs a server.
Requirement == ("explore" :> {}) @@ ("watch" :> {"feeds"})

\* Each event has a ref of its own.
Stories == (alert :> alert) @@ (article :> article)

\* Two contents, one with CRLF lines; an edit of either, and one within a line end.
MCContents == {<<"x">>, <<"x", "r", "n", "x">>}
MCReplacements == {<< <<"x">>, <<"y">> >>, << <<"n", "x">>, <<"n">> >>}

MCOlds == SeqOf({"x", "r", "n"}, 2)
MCNews == {<<>>, <<"y">>, <<"n">>, <<"y", "n">>, <<"r", "n">>}

AgentCall(tool) == [tool |-> tool, args |-> 1]

\* A call alone, one that may show a picture with an unknown tool's, and one
\* that loop detection skips.
MCCallBatches ==
    {<<AgentCall("shell")>>, <<AgentCall("read_file"), AgentCall("unknown")>>, <<AgentCall("task_output")>>}

MCExitTools == <<"shell", "write_file">>

\* No tool, one round, and rounds with and without calls.
MCChains == {<<>>, <<2>>, <<1, 0>>, <<1, 2>>}

TableRow(kind, scope, active, hot, terms) ==
    [kind |-> kind, scope |-> scope, active |-> active, hot |-> hot, terms |-> terms]

\* Tables of three: of any state, of another kind or chat, and a plain one.
MCRowSets ==
    {<<TableRow("event", "here", active, 1, terms), other, TableRow("event", "here", TRUE, 0, 1)>> :
        active \in BOOLEAN, terms \in 0..1,
        other \in {TableRow("preference", "here", TRUE, 0, 1), TableRow("event", "there", TRUE, 1, 2)}}

\* More rules that require a tool than a block takes, an event too long for
\* one, and one of another chat.
MCLore ==
    LET lore(kind, place, size) == [kind |-> kind, chat |-> place, size |-> size]
    IN  <<lore("forced", "any", 4), lore("norm", "any", 2), lore("tale", "own", 1),
          lore("tale", "own", 5), lore("tale", "other", 1), lore("forced", "any", 1)>>

\* One event names another server, and one has no id.
MCFeedEvents ==
    LET event(kind, id, to) == [kind |-> kind, id |-> id, to |-> to]
    IN  "f" :> <<event("alert", "a1", ""), event("content", "c1", "g"), event("content", "", "")>>
        @@ "g" :> <<event("content", "c2", "")>>

MCSourceLists ==
    SeqOf({s \in [server : {"f", "g"}, channel : {"", "alert", "content", "context"},
                  ack : {"", "mark"}, poll : BOOLEAN] : s.poll => s.ack = ""}, 2)

\* A retrieval, a failed turn of no session, and what a turn wrote to memory.
MCTraceForms ==
    LET form(kind, place, error) == [kind |-> kind, session |-> place, error |-> error]
    IN  {form("rag", "x", FALSE), form("turn", NoSession, TRUE), form("write", "x", FALSE)}

\* A long answer that follows thinking and something said before a tool call, and a
\* short one.
MCTurnForms ==
    LET form(size, thinks, aside) == [size |-> size, thinks |-> thinks, aside |-> aside]
    IN  {form(14, TRUE, TRUE), form(9, FALSE, FALSE)}

\* Private chats and groups of both channels, with a user who is not allowed
MCPostForms ==
    LET form(app, place, user, kind) == [app |-> app, chat |-> place, user |-> user, kind |-> kind]
    IN  {form("tg", "ann", "ann", "text"), form("tg", "g", "ann", "media"), form("tg", "g", "ben", "text"),
         form("tg", "g", "ben", "document"), form("tg", "eve", "eve", "stop"), form("tg", "ann", "ann", "stop"),
         form("qq", "q", "ann", "text"), form("qq", "ben", "ben", "text"),
         form("qq", "q", "ben", "media"), form("qq", "q", "ben", "stop"),
         form("qq", "q", "eve", "text")}

VARIABLE system    \* the state machine that this behaviour moves

Init ==
    /\ ItemInit
    /\ EventInit
    /\ ProactiveInit
    /\ DriftInit
    /\ FileInit
    /\ TextInit
    /\ SubInit
    /\ SessionInit
    /\ ViewInit
    /\ QueryInit
    /\ RetrievalInit
    /\ PoolInit
    /\ SourceInit
    /\ ServersInit
    /\ TraceInit
    /\ LayoutInit
    /\ ReplyInit
    /\ ChannelInit
    /\ HttpInit
    /\ AppInit
    /\ system \in {"items", "events", "tick", "drift", "files", "texts", "subagent",
                   "session", "views", "queries", "retrieval", "pool", "sources",
                   "servers", "traces", "layout", "replies", "channels", "requests",
                   "process"}
    /\ system # "requests" => budget = 0
    /\ system # "process" => config = {}

machines == <<itemVars, eventVars, proactiveVars, driftVars, fileVars, textVars,
              subVars, sessionVars, viewVars, queryVars, retrievalVars, poolVars,
              sourceVars, serversVars, traceVars, layoutVars, replyVars, channelVars,
              httpVars, appVars>>

\* Every machine but the one that moves stays as it is.
StayPut ==
    /\ UNCHANGED system
    /\ IF system = "items" THEN TRUE ELSE UNCHANGED itemVars
    /\ IF system = "events" THEN TRUE ELSE UNCHANGED eventVars
    /\ IF system = "tick" THEN TRUE ELSE UNCHANGED proactiveVars
    /\ IF system = "drift" THEN TRUE ELSE UNCHANGED driftVars
    /\ IF system = "files" THEN TRUE ELSE UNCHANGED fileVars
    /\ IF system = "texts" THEN TRUE ELSE UNCHANGED textVars
    /\ IF system = "subagent" THEN TRUE ELSE UNCHANGED subVars
    /\ IF system = "session" THEN TRUE ELSE UNCHANGED sessionVars
    /\ IF system = "views" THEN TRUE ELSE UNCHANGED viewVars
    /\ IF system = "queries" THEN TRUE ELSE UNCHANGED queryVars
    /\ IF system = "retrieval" THEN TRUE ELSE UNCHANGED retrievalVars
    /\ IF system = "pool" THEN TRUE ELSE UNCHANGED poolVars
    /\ IF system = "sources" THEN TRUE ELSE UNCHANGED sourceVars
    /\ IF system = "servers" THEN TRUE ELSE UNCHANGED serversVars
    /\ IF system = "traces" THEN TRUE ELSE UNCHANGED traceVars
    /\ IF system = "layout" THEN TRUE ELSE UNCHANGED layoutVars
    /\ IF system = "replies" THEN TRUE ELSE UNCHANGED replyVars
    /\ IF system = "channels" THEN TRUE ELSE UNCHANGED channelVars
    /\ IF system = "requests" THEN TRUE ELSE UNCHANGED httpVars
    /\ IF system = "process" THEN TRUE ELSE UNCHANGED appVars

Moves ==
    \/ system = "items" /\ ItemNext
    \/ system = "events" /\ EventNext
    \/ system = "tick" /\ ProactiveNext
    \/ system = "drift" /\ DriftNext
    \/ system = "files" /\ FileNext
    \/ system = "texts" /\ TextNext
    \/ system = "subagent" /\ SubNext
    \/ system = "session" /\ SessionNext
    \/ system = "views" /\ ViewNext
    \/ system = "queries" /\ QueryNext
    \/ system = "retrieval" /\ RetrievalNext
    \/ system = "pool" /\ PoolNext
    \/ system = "sources" /\ SourceNext
    \/ system = "servers" /\ ServersNext
    \/ system = "traces" /\ TraceNext
    \/ system = "layout" /\ LayoutNext
    \/ system = "replies" /\ ReplyNext
    \/ system = "channels" /\ ChannelNext
    \/ system = "requests" /\ HttpNext
    \/ system = "process" /\ AppNext

Spec == Init /\ [][StayPut /\ Moves]_<<system, machines>>

\* A machine that does not move is in an initial state of the behaviours that move
\* it, and its properties hold there as they do in those.
When(machine, property) == system = machine => property

SafetyTypeOK ==
    /\ When("items", ItemTypeOK)
    /\ When("events", EventTypeOK)
    /\ When("tick", ProactiveTypeOK)
    /\ When("drift", DriftTypeOK)
    /\ When("files", FileTypeOK)
    /\ When("subagent", SubTypeOK)
    /\ When("session", SessionTypeOK)
    /\ When("retrieval", RetrievalTypeOK)
    /\ When("pool", PoolTypeOK)
    /\ When("servers", ServersTypeOK)
    /\ When("traces", TraceTypeOK)
    /\ When("replies", ReplyTypeOK)
    /\ When("channels", ChannelTypeOK)
    /\ When("requests", HttpTypeOK)
    /\ When("process", AppTypeOK)

(***************************************************************************)
(* However a run of a subagent or a drift is cut short, forced or fails:   *)
(* each of its requests answers the calls in it, its report says how far   *)
(* it came, and its records agree.                                         *)
(***************************************************************************)
RunsAreSound ==
    /\ When("subagent", RequestsAreSound)
    /\ When("subagent", ReportIsHonest)
    /\ When("drift", DriftIsRecorded)

(***************************************************************************)
(* What the file tools change they can take back; a page of a file is      *)
(* honest, and an edit local.                                              *)
(***************************************************************************)
FilesAreSound ==
    /\ When("files", RestoreBringsBack)
    /\ When("texts", PageIsHonest)
    /\ When("texts", EditIsLocal)

(***************************************************************************)
(* What users say comes in once, in order and from those who may, and what *)
(* was said in a session is stored in order, beside the dashboard's        *)
(* deletions and failed inserts.                                           *)
(***************************************************************************)
SessionsAreWhole ==
    /\ When("channels", InboundIsSound)
    /\ When("session", SessionsAgree)

(***************************************************************************)
(* A list or a search shows all that is there and nothing twice, memory    *)
(* that matches is found, and every source is asked on its channel.        *)
(***************************************************************************)
ReadingsAreFaithful ==
    /\ When("views", ViewsAreWhole)
    /\ When("queries", SearchIsFaithful)
    /\ When("sources", SourcesAreServed)

(***************************************************************************)
(* What the prompt shows of memory is what is counted and reinforced, and  *)
(* of what was said little slips below the mark of what is archived.       *)
(***************************************************************************)
RecallIsFaithful ==
    /\ When("retrieval", RetrievalIsHonest)
    /\ When("session", FewSlipBelowMark)

(***************************************************************************)
(* MCP servers answer their own callers and are not forgotten, in the pool *)
(* and in the registry of tools.                                           *)
(***************************************************************************)
McpIsSound ==
    /\ When("pool", PoolIsSound)
    /\ When("servers", ToolsHaveClients)

(***************************************************************************)
(* The traces of what the program did are kept in order, and streamed.     *)
(***************************************************************************)
TracesStayKept ==
    /\ When("traces", TracesAreKept)

(***************************************************************************)
(* What is answered in a channel is shown: whole, in order, and once; and  *)
(* it is cut, stripped, previewed and laid out without loss, to the size   *)
(* of a message but for the wide characters of replies and previews.       *)
(***************************************************************************)
ChannelsAreFaithful ==
    /\ When("replies", RepliesAreShown)
    /\ When("layout", LayoutIsFaithful)

(***************************************************************************)
(* The process and each request end as they should: nothing is left, and   *)
(* in time.                                                                *)
(***************************************************************************)
EndsAreOrderly ==
    /\ When("process", EndIsClean)
    /\ When("requests", RequestsEndInTime)
=============================================================================
