------------------------------ MODULE McpPool -------------------------------
(***************************************************************************)
(* The proactive loop's connection to one MCP server: McpClient            *)
(* (agent/mcp/client.py), which speaks JSON-RPC over a child's pipes, and  *)
(* McpClientPool (proactive_v2/mcp_sources.py), which keeps a client per   *)
(* server and reconnects once when a call fails.  The callers are the      *)
(* fetches of a tick and the poll of the feeds, which runs beside it.  The *)
(* server may answer late, answer with what is no JSON, or end at any time.*)
(***************************************************************************)
EXTENDS Integers, Sequences, SequencesExt, FiniteSets

CONSTANTS
    PoolCallers,            \* whoever may have a call in flight
    MaxClients,             \* bound: clients that are ever started
    MaxPoolCalls,           \* bound: calls in all
    MaxEnds,                \* bound: servers that end by themselves
    SourceLists,            \* enabled sources of proactive_sources.json
    FeedEvents              \* each server's events, as its tool returns them

NoClient == 0
Open == -1
Closed == 0
Nobody == "nobody"

ASSUME PoolAssumption ==
    {MaxClients, MaxPoolCalls, MaxEnds} \subseteq Nat /\ Nobody \notin PoolCallers

ClientIds == 1..MaxClients

VARIABLES
    clients,                \* each McpClient with its process and its pipes
    pooled,                 \* _clients[server], or NoClient
    poolLock,               \* who holds _locks[server]
    poolCalls,              \* each caller's call
    poolStop,               \* Open, the client that disconnect_all awaits, Closed
    callsMade, serverEnds

poolVars == <<clients, pooled, poolLock, poolCalls, poolStop, callsMade, serverEnds>>

\* process: of the child; left: nobody holds the client any more
Unused == [process |-> "none", left |-> FALSE, nextId |-> 1, work |-> {}, lines |-> <<>>]
NoCall == [step |-> "idle", on |-> NoClient, id |-> 0, sent |-> 0, got |-> 0]

\* The pool is new: connect_all's first attempt is that of a server's first call.
PoolInit ==
    /\ clients = [n \in ClientIds |-> Unused]
    /\ pooled = NoClient
    /\ poolLock = Nobody
    /\ poolCalls = [c \in PoolCallers |-> NoCall]
    /\ poolStop = Open
    /\ callsMade = 0 /\ serverEnds = 0

Fresh ==
    {n \in ClientIds :
        clients[n].process = "none" /\ \A m \in 1..(n - 1) : clients[m].process # "none"}

-----------------------------------------------------------------------------
\* client.call: the next id, and the request written to the child's pipe.
RequestSent(client) == [client EXCEPT !.nextId = @ + 1, !.work = @ \cup {client.nextId}]

\* client.connect: initialize and tools/list have used the first two ids.
Connected == [Unused EXCEPT !.process = "live", !.nextId = 3]

Asking(call, n, id) == [call EXCEPT !.step = "asks", !.on = n, !.id = id, !.sent = @ + 1]

\* The call is over, with an answer or (got 0) with an error.
Returns(c, got) ==
    /\ poolCalls' = [poolCalls EXCEPT ![c].step = "idle", ![c].got = got]
    /\ poolLock' = Nobody

Calls(c) ==
    /\ poolCalls[c].step = "idle" /\ callsMade < MaxPoolCalls
    /\ poolCalls' = [poolCalls EXCEPT ![c] = [NoCall EXCEPT !.step = "waits"]]
    /\ callsMade' = callsMade + 1
    /\ UNCHANGED <<clients, pooled, poolLock, poolStop, serverEnds>>

\* Mutant: no lock per server.
Enters_unlocked(c) ==
    /\ poolCalls[c].step = "waits"
    /\ poolLock' = c
    /\ IF pooled = NoClient
       THEN /\ poolCalls' = [poolCalls EXCEPT ![c].step = "dials"]
            /\ UNCHANGED clients
       ELSE /\ clients' = [clients EXCEPT ![pooled] = RequestSent(@)]
            /\ poolCalls' = [poolCalls EXCEPT ![c] = Asking(@, pooled, clients[pooled].nextId)]
    /\ UNCHANGED <<pooled, poolStop, callsMade, serverEnds>>

\* pool.call has the lock: it asks the client it has, or connects first.
Enters(c) ==
    /\ poolCalls[c].step = "waits"
    /\ poolLock = Nobody
    /\ poolLock' = c
    /\ IF pooled = NoClient
       THEN /\ poolCalls' = [poolCalls EXCEPT ![c].step = "dials"]
            /\ UNCHANGED clients
       ELSE /\ clients' = [clients EXCEPT ![pooled] = RequestSent(@)]
            /\ poolCalls' = [poolCalls EXCEPT ![c] = Asking(@, pooled, clients[pooled].nextId)]
    /\ UNCHANGED <<pooled, poolStop, callsMade, serverEnds>>

\* _connect, for the first time or again, and the request on the new client.
Dials(c) ==
    /\ poolCalls[c].step \in {"dials", "redials"}
    /\ \E n \in Fresh :
        /\ clients' = [clients EXCEPT ![n] = RequestSent(Connected)]
        /\ pooled' = n
        /\ poolCalls' = [poolCalls EXCEPT ![c] = Asking(@, n, Connected.nextId)]
    /\ UNCHANGED <<poolLock, poolStop, callsMade, serverEnds>>

\* The child cannot be started, or its handshake fails and it is left running.
DialFails(c) ==
    /\ poolCalls[c].step \in {"dials", "redials"}
    /\ \/ UNCHANGED clients
       \/ \E n \in Fresh :
            clients' = [clients EXCEPT ![n] = [Unused EXCEPT !.process = "live", !.left = TRUE]]
    /\ Returns(c, 0)
    /\ UNCHANGED <<pooled, poolStop, callsMade, serverEnds>>

-----------------------------------------------------------------------------
(* What comes back: _recv                                                   *)

\* A call has failed: the first time the client is given up, then it is an error.
Fails(c) ==
    IF poolCalls[c].sent = 1
    THEN /\ pooled' = NoClient
         /\ poolCalls' = [poolCalls EXCEPT ![c].step = "drops"]
         /\ UNCHANGED poolLock
    ELSE Returns(c, 0) /\ UNCHANGED pooled

\* Mutant: whatever line comes is the answer.
Reads_anyId(c) ==
    LET n == poolCalls[c].on
    IN  /\ poolCalls[c].step = "asks" /\ clients[n].lines # <<>>
        /\ clients' = [clients EXCEPT ![n].lines = Tail(@)]
        /\ LET line == Head(clients[n].lines)
           IN  IF line.json THEN Returns(c, line.id) /\ UNCHANGED pooled ELSE Fails(c)
        /\ UNCHANGED <<poolStop, callsMade, serverEnds>>

\* Lines of other ids are passed over; an answer that looks like JSON and is
\* not fails the call, though the server has done what it asked for.
Reads(c) ==
    LET n == poolCalls[c].on
    IN  /\ poolCalls[c].step = "asks" /\ clients[n].lines # <<>>
        /\ clients' = [clients EXCEPT ![n].lines = Tail(@)]
        /\ LET line == Head(clients[n].lines)
           IN  CASE line.id # poolCalls[c].id -> UNCHANGED <<poolCalls, poolLock, pooled>>
                 [] line.id = poolCalls[c].id /\ line.json -> Returns(c, line.id) /\ UNCHANGED pooled
                 [] OTHER -> Fails(c)
        /\ UNCHANGED <<poolStop, callsMade, serverEnds>>

\* _RECV_TIMEOUT without a line, or the end of the child's output.
Waits(c) ==
    /\ poolCalls[c].step = "asks" /\ clients[poolCalls[c].on].lines = <<>>
    /\ Fails(c)
    /\ UNCHANGED <<clients, poolStop, callsMade, serverEnds>>

\* disconnect: the child ends, or outlives the five seconds it is given; its
\* pipes are of no more use, for the client has forgotten its process.
Ended(client) ==
    IF client.process = "live"
    THEN {[Unused EXCEPT !.process = "over"], [Unused EXCEPT !.process = "live", !.left = TRUE]}
    ELSE {client}

Drops(c) ==
    LET n == poolCalls[c].on
    IN  /\ poolCalls[c].step = "drops"
        /\ \E client \in Ended(clients[n]) : clients' = [clients EXCEPT ![n] = client]
        /\ poolCalls' = [poolCalls EXCEPT ![c].step = "redials"]
        /\ UNCHANGED <<pooled, poolLock, poolStop, callsMade, serverEnds>>

ServerAnswers(n) ==
    /\ clients[n].process = "live"
    /\ \E id \in clients[n].work, json \in BOOLEAN :
        clients' = [clients EXCEPT ![n].work = @ \ {id},
                                   ![n].lines = Append(@, [id |-> id, json |-> json])]
    /\ UNCHANGED <<pooled, poolLock, poolCalls, poolStop, callsMade, serverEnds>>

ServerEnds(n) ==
    /\ clients[n].process = "live" /\ serverEnds < MaxEnds
    /\ clients' = [clients EXCEPT ![n].process = "over", ![n].work = {}]
    /\ serverEnds' = serverEnds + 1
    /\ UNCHANGED <<pooled, poolLock, poolCalls, poolStop, callsMade>>

\* disconnect_all takes no lock: calls in flight go on beside it.
Stops ==
    /\ poolStop = Open
    /\ poolStop' = IF pooled = NoClient THEN Closed ELSE pooled
    /\ UNCHANGED <<clients, pooled, poolLock, poolCalls, callsMade, serverEnds>>

StopEnds ==
    \E n \in ClientIds :
        /\ poolStop = n
        /\ poolStop' = Closed /\ pooled' = NoClient
        /\ \E client \in Ended(clients[n]) :
            clients' = [m \in ClientIds |->
                CASE m = n -> client
                  [] m = pooled /\ m # n -> [clients[m] EXCEPT !.left = TRUE]
                  [] OTHER -> clients[m]]
        /\ UNCHANGED <<poolLock, poolCalls, callsMade, serverEnds>>

PoolNext ==
    \/ \E c \in PoolCallers :
        \/ Calls(c) \/ Enters(c) \/ Dials(c) \/ DialFails(c)
        \/ Reads(c) \/ Waits(c) \/ Drops(c)
    \/ \E n \in ClientIds : ServerAnswers(n) \/ ServerEnds(n)
    \/ Stops \/ StopEnds

PoolSpec == PoolInit /\ [][PoolNext]_poolVars

-----------------------------------------------------------------------------
(* The users of the pool: one question each about a list of sources         *)

VARIABLES sourceAsked, sourceView

sourceVars == <<sourceAsked, sourceView>>

EventsOf(server) == IF server \in DOMAIN FeedEvents THEN FeedEvents[server] ELSE <<>>

\* Mutant: a source is asked on every channel but its own.
Routed_all(sources, channel) ==
    SelectSeq(sources, LAMBDA s : channel = "context" \/ s.channel # "context")

\* _iter_sources_by_channel: a source that names no channel serves both.
Routed(sources, channel) ==
    SelectSeq(sources, LAMBDA s :
        IF channel = "context" THEN s.channel = "context" ELSE s.channel \in {"", channel})

\* _extract_proactive_events: those of the channel's kind, each with the server
\* that is told of it; context items are taken as they are.
Extracted(server, channel) ==
    LET kept == SelectSeq(EventsOf(server), LAMBDA e : channel = "context" \/ e.kind = channel)
    IN  [i \in DOMAIN kept |->
            IF kept[i].to = "" THEN [kept[i] EXCEPT !.to = server] ELSE kept[i]]

\* _fetch_by_channel_async: a server that fails gives nothing, the others go on.
FetchedFrom(sources, channel, failing) ==
    LET routed == Routed(sources, channel)
    IN  FlattenSeq([i \in DOMAIN routed |->
            IF routed[i].server \in failing THEN <<>> ELSE Extracted(routed[i].server, channel)])

\* poll_content_feeds_async: every feed that can be polled, and which failed.
Polls(sources, failing) ==
    LET asked == SelectSeq(Routed(sources, "content"), LAMBDA s : s.poll)
    IN  [asked |-> [i \in DOMAIN asked |-> asked[i].server],
         failed |-> {s.server : s \in ToSet(asked)} \cap failing]

\* Mutant: the first source's tool stands.
AckTool_first(sources, server) ==
    LET own == SelectSeq(sources, LAMBDA s : s.server = server)
    IN  IF own = <<>> THEN "" ELSE Head(own).ack

\* _build_ack_map: the server's last source that has a tool.
AckTool(sources, server) ==
    LET own == SelectSeq(sources, LAMBDA s : s.server = server /\ s.ack # "")
    IN  IF own = <<>> THEN "" ELSE Last(own).ack

\* ack_fn, alert_ack_fn: one key, which names its server; an id may be missing.
Acked(sources, event) ==
    IF event.id = "" \/ AckTool(sources, event.to) = "" THEN {}
    ELSE {[server |-> event.to, tool |-> AckTool(sources, event.to), id |-> event.id]}

SourceInit == sourceAsked = [kind |-> "none"] /\ sourceView = <<>>

AsksFetch ==
    \E sources \in SourceLists, channel \in {"alert", "content", "context"},
       failing \in SUBSET DOMAIN FeedEvents :
        /\ sourceAsked' = [kind |-> "fetch", sources |-> sources, channel |-> channel,
                           failing |-> failing]
        /\ sourceView' = FetchedFrom(sources, channel, failing)

AsksPoll ==
    \E sources \in SourceLists, failing \in SUBSET DOMAIN FeedEvents :
        /\ sourceAsked' = [kind |-> "poll", sources |-> sources, failing |-> failing]
        /\ sourceView' = Polls(sources, failing)

\* A tick takes an event that it has fetched for dealt with.
AsksAck ==
    /\ sourceAsked.kind = "fetch" /\ sourceAsked.channel # "context"
    /\ \E e \in ToSet(sourceView) :
        /\ sourceAsked' = [kind |-> "ack", sources |-> sourceAsked.sources, event |-> e]
        /\ sourceView' = Acked(sourceAsked.sources, e)

SourceNext ==
    \/ sourceAsked.kind = "none" /\ (AsksFetch \/ AsksPoll)
    \/ AsksAck

-----------------------------------------------------------------------------
PoolTypeOK ==
    /\ \A n \in ClientIds :
        /\ clients[n].process \in {"none", "live", "over"} /\ clients[n].left \in BOOLEAN
        /\ clients[n].nextId \in Nat \ {0}
        /\ \A id \in clients[n].work : id \in 3..clients[n].nextId
        /\ \A i \in DOMAIN clients[n].lines : clients[n].lines[i].id \in 3..clients[n].nextId
    /\ pooled \in ClientIds \cup {NoClient}
    /\ poolLock \in PoolCallers \cup {Nobody} /\ poolStop \in ClientIds \cup {Open, Closed}

\* Whose answer is read, who reads, and how often a call is made.
AnswersAreOwn == \A c \in PoolCallers : poolCalls[c].got \in {0, poolCalls[c].id}

OneReader ==
    \A c, d \in PoolCallers :
        poolCalls[c].step = "asks" /\ poolCalls[d].step = "asks" /\ poolCalls[c].on = poolCalls[d].on
        => c = d

\* A call is made on two clients at most, the second time with the first given up.
CalledTwice ==
    \A c \in PoolCallers :
        /\ poolCalls[c].sent \in 0..2
        /\ poolCalls[c].step \in {"drops", "redials"} =>
            poolCalls[c].sent < 2 /\ poolCalls[c].on # pooled

\* A running child is the pool's, or about to be ended, or one whose handshake
\* failed or that outlived its end; or the pool was being closed.
ChildrenAreHeld ==
    \A n \in ClientIds :
        clients[n].process = "live" =>
            \/ n = pooled \/ clients[n].left
            \/ \E c \in PoolCallers : poolCalls[c].step = "drops" /\ poolCalls[c].on = n
            \/ poolStop = n

(***************************************************************************)
(* Whoever calls through the pool gets the answer to its own request or an *)
(* error, however late the answers of earlier requests come; nobody else   *)
(* reads the pipe meanwhile; a request is made at most twice; and no child *)
(* is forgotten but in the ways that ChildrenAreHeld names.                *)
(***************************************************************************)
PoolIsSound == AnswersAreOwn /\ OneReader /\ CalledTwice /\ ChildrenAreHeld

\* An event is on the channel of its kind, of every entry that serves it and of
\* no other; a failing server or feed takes nothing from the others; and what is
\* acknowledged is told the server it names, once, if any entry of it has a tool.
SourcesAreServed ==
    LET asked == sourceAsked
    IN  CASE asked.kind = "fetch" /\ asked.channel # "context" ->
                /\ \A e \in ToSet(sourceView) : e.kind = asked.channel /\ e.to # ""
                /\ \A server \in DOMAIN FeedEvents \ asked.failing :
                    \A e \in {x \in ToSet(EventsOf(server)) : x.kind = asked.channel} :
                        Cardinality({i \in DOMAIN sourceView : sourceView[i].id = e.id}) =
                        Cardinality({i \in DOMAIN asked.sources :
                                        /\ asked.sources[i].server = server
                                        /\ asked.sources[i].channel \in {"", e.kind}})
          [] asked.kind = "fetch" /\ asked.channel = "context" ->
                \A server \in DOMAIN FeedEvents \ asked.failing :
                    (\E i \in DOMAIN asked.sources :
                        asked.sources[i].server = server /\ asked.sources[i].channel = "context")
                    <=> \A e \in ToSet(EventsOf(server)) : \E x \in ToSet(sourceView) : x.id = e.id
          [] asked.kind = "ack" ->
                LET tools == {asked.sources[i].ack : i \in
                                {j \in DOMAIN asked.sources : asked.sources[j].server = asked.event.to}}
                IN  IF asked.event.id = "" THEN sourceView = {}
                    ELSE /\ (sourceView = {}) <=> (tools \subseteq {""})
                         /\ \A x, y \in sourceView :
                            x = y /\ x.server = asked.event.to /\ x.tool \in tools \ {""}
          [] asked.kind = "poll" ->
                /\ ToSet(sourceView.asked) = {asked.sources[i].server : i \in
                        {j \in DOMAIN asked.sources :
                            asked.sources[j].poll /\ asked.sources[j].channel \in {"", "content"}}}
                /\ sourceView.failed = ToSet(sourceView.asked) \cap asked.failing
          [] OTHER -> TRUE
=============================================================================
