----------------------------- MODULE McpServers -----------------------------
(***************************************************************************)
(* The agent's own MCP servers (agent/mcp/registry.py): mcp_add and        *)
(* mcp_remove connect and end clients, keep the tool registry in step and  *)
(* write mcp_servers.json, from which the next start connects again.  They *)
(* are called by turns, of a chat or of a scheduled job, which may overlap *)
(* and be cancelled, and take no lock; a tool of a server is               *)
(* McpToolWrapper, bound to one client.                                    *)
(***************************************************************************)
EXTENDS Integers, FiniteSets, Sequences

CONSTANTS
    ServerNames,
    ServerTools,            \* names of a server's tools: those that one start of it lists
    Operators,              \* whoever may be in mcp_add or mcp_remove
    MaxStarts,              \* bound: clients ever started
    MaxFaults,              \* bound: writes that fail, and restarts
    MaxOperations           \* bound: calls of the two tools

ASSUME ServersAssumption == {MaxStarts, MaxFaults, MaxOperations} \subseteq Nat

NotHeld == 0
Starts == 1..MaxStarts

VARIABLES
    started,                \* clients so far, each with the tools it lists
    ended,                  \* those that were disconnected, or died with the program
    heldClient,             \* _clients: each name's, or NotHeld
    heldTools,              \* _server_tools: the tools registered for each name
    wrappers,               \* the tool registry: [server, tool] -> client, or NotHeld
    serverFile,             \* names in mcp_servers.json
    operations,             \* what each operator is at
    loading,                \* names load_and_connect_all has yet to connect
    unwritten,                \* history: removed, but cancelled before the file was written
    operated, faulted

serversVars == <<started, ended, heldClient, heldTools, wrappers, serverFile, operations,
                 loading, unwritten, operated, faulted>>

NoOperation == [op |-> "none", name |-> "none", client |-> NotHeld]
Held == {s \in ServerNames : heldClient[s] # NotHeld}

ServersInit ==
    /\ started = <<>> /\ ended = {}
    /\ heldClient = [s \in ServerNames |-> NotHeld]
    /\ heldTools = [s \in ServerNames |-> {}]
    /\ wrappers = [s \in ServerNames |-> [t \in ServerTools |-> NotHeld]]
    /\ serverFile = {}
    /\ operations = [o \in Operators |-> NoOperation]
    /\ loading = {} /\ unwritten = {} /\ operated = 0 /\ faulted = 0

-----------------------------------------------------------------------------
\* _connect, once the client is connected: its tools take the place of others
\* of their names, and the client the place of one connected meanwhile.
Takes(name, listed) ==
    LET client == Len(started) + 1
    IN  /\ started' = Append(started, listed)
        /\ heldClient' = [heldClient EXCEPT ![name] = client]
        /\ heldTools' = [heldTools EXCEPT ![name] = listed]
        /\ wrappers' = [wrappers EXCEPT ![name] =
                [t \in ServerTools |-> IF t \in listed THEN client ELSE @[t]]]

\* _save writes the clients there are; a write that fails leaves the file as
\* it was, or cut off and so of no use to the next start.
Saves ==
    \/ /\ serverFile' = {s \in ServerNames : heldClient'[s] # NotHeld} /\ unwritten' = {}
       /\ UNCHANGED faulted
    \/ /\ faulted < MaxFaults /\ faulted' = faulted + 1 /\ UNCHANGED unwritten
       /\ serverFile' \in {serverFile, {}}

\* add: refused for a name that has a client, else connecting.
Adds(o) ==
    /\ operations[o] = NoOperation /\ operated < MaxOperations /\ loading = {}
    /\ \E name \in ServerNames :
        /\ heldClient[name] = NotHeld
        /\ operations' = [operations EXCEPT ![o] = [op |-> "adds", name |-> name, client |-> NotHeld]]
    /\ operated' = operated + 1
    /\ UNCHANGED <<started, ended, heldClient, heldTools, wrappers, serverFile, loading, unwritten, faulted>>

AddEnds(o) ==
    /\ operations[o].op = "adds" /\ Len(started) < MaxStarts
    /\ \E listed \in SUBSET ServerTools : Takes(operations[o].name, listed)
    /\ Saves
    /\ operations' = [operations EXCEPT ![o] = NoOperation]
    /\ UNCHANGED <<ended, loading, operated>>

AddFails(o) ==
    /\ operations[o].op = "adds"
    /\ operations' = [operations EXCEPT ![o] = NoOperation]
    /\ UNCHANGED <<started, ended, heldClient, heldTools, wrappers, serverFile, loading, unwritten, operated, faulted>>

\* Mutant: the tools go once the server has gone.
Removes_toolsLast(o) ==
    /\ operations[o] = NoOperation /\ operated < MaxOperations /\ loading = {}
    /\ \E name \in Held :
        /\ heldClient' = [heldClient EXCEPT ![name] = NotHeld]
        /\ ended' = ended \cup {heldClient[name]}
        /\ operations' = [operations EXCEPT ![o] =
                [op |-> "removes", name |-> name, client |-> heldClient[name]]]
    /\ operated' = operated + 1
    /\ UNCHANGED <<started, wrappers, heldTools, serverFile, loading, unwritten, faulted>>

\* remove: the tools and the client go at once, and the client is being ended.
Removes(o) ==
    /\ operations[o] = NoOperation /\ operated < MaxOperations /\ loading = {}
    /\ \E name \in Held :
        /\ wrappers' = [wrappers EXCEPT ![name] =
                [t \in ServerTools |-> IF t \in heldTools[name] THEN NotHeld ELSE @[t]]]
        /\ heldTools' = [heldTools EXCEPT ![name] = {}]
        /\ heldClient' = [heldClient EXCEPT ![name] = NotHeld]
        /\ ended' = ended \cup {heldClient[name]}
        /\ operations' = [operations EXCEPT ![o] =
                [op |-> "removes", name |-> name, client |-> heldClient[name]]]
    /\ operated' = operated + 1
    /\ UNCHANGED <<started, serverFile, loading, unwritten, faulted>>

\* disconnect has returned, and the file is written.
RemoveEnds(o) ==
    /\ operations[o].op = "removes"
    /\ UNCHANGED heldClient
    /\ Saves
    /\ operations' = [operations EXCEPT ![o] = NoOperation]
    /\ UNCHANGED <<started, ended, heldTools, wrappers, loading, operated>>

\* The turn is stopped or times out while it awaits disconnect, which lets a
\* cancellation through: the file is not written.
RemoveIsCut(o) ==
    /\ operations[o].op = "removes" /\ unwritten' = unwritten \cup {operations[o].name}
    /\ operations' = [operations EXCEPT ![o] = NoOperation]
    /\ UNCHANGED <<started, ended, heldClient, heldTools, wrappers, serverFile, loading, operated, faulted>>

-----------------------------------------------------------------------------
\* The program ends, at any point, and starts again: load_and_connect_all.
Restarts ==
    /\ faulted < MaxFaults /\ faulted' = faulted + 1
    /\ ended' = DOMAIN started
    /\ heldClient' = [s \in ServerNames |-> NotHeld]
    /\ heldTools' = [s \in ServerNames |-> {}]
    /\ wrappers' = [s \in ServerNames |-> [t \in ServerTools |-> NotHeld]]
    /\ operations' = [o \in Operators |-> NoOperation]
    /\ loading' = serverFile
    /\ UNCHANGED <<started, serverFile, unwritten, operated>>

\* One after the other; a server that cannot be connected is passed over.
Loads ==
    \E name \in loading :
        /\ loading' = loading \ {name}
        /\ \/ UNCHANGED <<started, heldClient, heldTools, wrappers>>
           \/ /\ Len(started) < MaxStarts
              /\ \E listed \in SUBSET ServerTools : Takes(name, listed)
        /\ UNCHANGED <<ended, serverFile, unwritten, operations, operated, faulted>>

ServersNext ==
    \/ \E o \in Operators : Adds(o) \/ AddEnds(o) \/ AddFails(o)
    \/ \E o \in Operators : Removes(o) \/ RemoveEnds(o) \/ RemoveIsCut(o)
    \/ Restarts
    \/ Loads

ServersSpec == ServersInit /\ [][ServersNext]_serversVars

-----------------------------------------------------------------------------
ServersTypeOK ==
    /\ \A k \in DOMAIN started : started[k] \subseteq ServerTools
    /\ ended \subseteq Starts
    /\ heldClient \in [ServerNames -> Starts \cup {NotHeld}]
    /\ heldTools \in [ServerNames -> SUBSET ServerTools]
    /\ wrappers \in [ServerNames -> [ServerTools -> Starts \cup {NotHeld}]]
    /\ serverFile \subseteq ServerNames /\ {loading, unwritten} \subseteq SUBSET ServerNames

(***************************************************************************)
(* However additions and removals overlap, fail or are cut off: no tool    *)
(* that can be called is bound to a client that was ended; a server that   *)
(* is held has all its tools, bound to its client; and as long as no write *)
(* failed and the program was not restarted, the servers held are those in *)
(* the file but for one that is being removed and those whose removal was  *)
(* cancelled, until the file is next written.                              *)
(***************************************************************************)
ToolsHaveClients ==
    /\ \A s \in ServerNames, t \in ServerTools :
        /\ wrappers[s][t] \notin ended
        /\ wrappers[s][t] # NotHeld => t \in started[wrappers[s][t]]
    /\ \A s \in Held : \A t \in started[heldClient[s]] : wrappers[s][t] = heldClient[s]
    /\ faulted = 0 =>
        /\ Held \subseteq serverFile
        /\ \A s \in serverFile \ (Held \cup unwritten) : \E o \in Operators :
            operations[o].op = "removes" /\ operations[o].name = s
=============================================================================
