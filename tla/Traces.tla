------------------------------- MODULE Traces -------------------------------
(***************************************************************************)
(* The traces that the program keeps of itself (core/observe): emit puts a *)
(* trace on the writer's bounded queue and, through the StreamHub, on the  *)
(* queue of every dashboard stream that asked for its session; a task      *)
(* writes them to observe.db, and a cleanup in a thread of its own deletes *)
(* old ones once a day.  Nothing waits for anything: what does not fit is  *)
(* dropped, and what cannot be written is lost.                            *)
(***************************************************************************)
EXTENDS Integers, Sequences, SequencesExt, FiniteSets

CONSTANTS
    TraceForms,             \* what may be emitted: kind ("turn", "rag", "write"), session, error
    TraceSessions,
    Streams,                \* requests to /api/stream/events
    TraceQueueMax,          \* _QUEUE_MAX
    StreamQueueMax,         \* _SUBSCRIBER_QUEUE_MAX
    MaxTraces,              \* bound: traces emitted
    MaxStreams,             \* bound: subscriptions
    MaxTraceFaults          \* bound: writes that fail

AllSessions == "*"      \* what a stream asks for that names no session
Away == "away"
NoSession == ""

ASSUME TracesAssumption ==
    /\ {TraceQueueMax, StreamQueueMax, MaxTraces, MaxStreams, MaxTraceFaults} \subseteq Nat
    /\ NoSession \notin TraceSessions

VARIABLES
    emitted,                \* every trace so far: kind, session, error
    traceQueue,             \* numbers of those that wait for the writer
    stored,                 \* numbers in the tables, in the order of their ids
    ragItems,               \* numbers of the traces that have rows in rag_items
    traceWriter,            \* "runs", "flushes" or "stopped"
    streams,                \* each stream: what it asks for, its queue, what was sent
    aged,                   \* old enough for the cleanup
    gone,                   \* [full, failed, cleaned]: what the database has not, and why
    subscribed, traceFaults

traceVars == <<emitted, traceQueue, stored, ragItems, traceWriter, streams, aged, gone,
               subscribed, traceFaults>>

Traced == DOMAIN emitted
NoStream == [key |-> Away, queue |-> <<>>, shown |-> <<>>, since |-> 0, missed |-> {}]

\* open_db: the tables are there, with all their columns.
TraceInit ==
    /\ emitted = <<>> /\ traceQueue = <<>> /\ stored = <<>> /\ ragItems = {}
    /\ traceWriter = "runs"
    /\ streams = [s \in Streams |-> NoStream]
    /\ aged = {}
    /\ gone = [full |-> {}, failed |-> {}, cleaned |-> {}]
    /\ subscribed = 0 /\ traceFaults = 0

-----------------------------------------------------------------------------
\* Mutant: a stream that asks for all misses those of no session.
Wants_named(stream, session) == stream.key = session \/ (stream.key = AllSessions /\ session # NoSession)

\* A trace without a session reaches those only that ask for all.
Wants(stream, session) ==
    stream.key = AllSessions \/ (session # NoSession /\ stream.key = session)

\* publish, _put: dropped for a stream that is too slow.
Published(stream, n, session) ==
    CASE ~Wants(stream, session) -> stream
      [] Wants(stream, session) /\ Len(stream.queue) < StreamQueueMax ->
            [stream EXCEPT !.queue = Append(@, n)]
      [] OTHER -> [stream EXCEPT !.missed = @ \cup {n}]

\* emit: on the queue, or dropped and counted; and to the streams either way.
Emits ==
    /\ Len(emitted) < MaxTraces
    /\ \E form \in TraceForms :
        LET n == Len(emitted) + 1
        IN  /\ emitted' = Append(emitted, form)
            /\ IF Len(traceQueue) < TraceQueueMax
               THEN traceQueue' = Append(traceQueue, n) /\ UNCHANGED gone
               ELSE gone' = [gone EXCEPT !.full = @ \cup {n}] /\ UNCHANGED traceQueue
            /\ streams' = [s \in Streams |-> Published(streams[s], n, form.session)]
    /\ UNCHANGED <<stored, ragItems, traceWriter, aged, subscribed, traceFaults>>

\* Mutant: a retrieval and its items are written in two transactions.
Written_apart(n, whole) ==
    /\ stored' = Append(stored, n)
    /\ ragItems' = IF emitted[n].kind = "rag" /\ whole THEN ragItems \cup {n} ELSE ragItems
    /\ gone' = gone

\* _write_one: a row and, of a retrieval, its items, in one transaction.
Written(n, whole) ==
    IF whole
    THEN /\ stored' = Append(stored, n)
         /\ ragItems' = IF emitted[n].kind = "rag" THEN ragItems \cup {n} ELSE ragItems
         /\ UNCHANGED gone
    ELSE /\ gone' = [gone EXCEPT !.failed = @ \cup {n}]
         /\ UNCHANGED <<stored, ragItems>>

\* run takes the next; a write that raises (the cleanup may have the database
\* locked) is logged.  A writer that is cancelled writes what is left first.
TraceWrites ==
    /\ traceWriter # "stopped" /\ traceQueue # <<>>
    /\ traceQueue' = Tail(traceQueue)
    /\ \E whole \in BOOLEAN :
        /\ IF whole THEN UNCHANGED traceFaults
           ELSE traceFaults < MaxTraceFaults /\ traceFaults' = traceFaults + 1
        /\ Written(Head(traceQueue), whole)
    /\ UNCHANGED <<emitted, traceWriter, streams, aged, subscribed>>

Cancelled ==
    /\ traceWriter = "runs"
    /\ traceWriter' = IF traceQueue = <<>> THEN "stopped" ELSE "flushes"
    /\ UNCHANGED <<emitted, traceQueue, stored, ragItems, streams, aged, gone, subscribed, traceFaults>>

Flushed ==
    /\ traceWriter = "flushes" /\ traceQueue = <<>>
    /\ traceWriter' = "stopped"
    /\ UNCHANGED <<emitted, traceQueue, stored, ragItems, streams, aged, gone, subscribed, traceFaults>>

-----------------------------------------------------------------------------
(* retention.py                                                             *)

GrowsOld ==
    /\ \E n \in ToSet(stored) \ aged :
        /\ \A m \in ToSet(stored) \ aged : n <= m
        /\ aged' = aged \cup {n}
    /\ UNCHANGED <<emitted, traceQueue, stored, ragItems, traceWriter, streams, gone,
                   subscribed, traceFaults>>

\* Mutant: errors are not kept.
Expired_all(n) == n \in aged /\ emitted[n].kind \in {"turn", "rag"}

\* Old and without an error; what was written to memory is kept for good.
Expired(n) == n \in aged /\ emitted[n].kind \in {"turn", "rag"} /\ ~emitted[n].error

\* Deleting rows leaves the others, in the order of their ids.
Uncleaned ==
    {kept \in SeqOf(ToSet(stored), Len(stored)) :
        /\ ToSet(kept) = {n \in ToSet(stored) : ~Expired(n)}
        /\ \A i, j \in DOMAIN kept : i < j =>
             \E k, l \in DOMAIN stored : k < l /\ stored[k] = kept[i] /\ stored[l] = kept[j]}

\* _run_cleanup, one transaction: the stored, then the items that have lost theirs.
Cleans ==
    /\ \E n \in ToSet(stored) : Expired(n)
    /\ stored' \in Uncleaned
    /\ ragItems' = ragItems \cap ToSet(stored')
    /\ gone' = [gone EXCEPT !.cleaned = @ \cup (ToSet(stored) \ ToSet(stored'))]
    /\ UNCHANGED <<emitted, traceQueue, traceWriter, streams, aged, subscribed, traceFaults>>

-----------------------------------------------------------------------------
(* stream_events                                                            *)

Subscribes(s) ==
    /\ streams[s].key = Away /\ subscribed < MaxStreams
    /\ \E key \in TraceSessions \cup {AllSessions} :
        streams' = [streams EXCEPT ![s] = [NoStream EXCEPT !.key = key, !.since = Len(emitted)]]
    /\ subscribed' = subscribed + 1
    /\ UNCHANGED <<emitted, traceQueue, stored, ragItems, traceWriter, aged, gone, traceFaults>>

Shows(s) ==
    /\ streams[s].key # Away /\ streams[s].queue # <<>>
    /\ streams' = [streams EXCEPT ![s].queue = Tail(@), ![s].shown = Append(@, Head(streams[s].queue))]
    /\ UNCHANGED <<emitted, traceQueue, stored, ragItems, traceWriter, aged, gone, subscribed,
                   traceFaults>>

\* The client has gone: nothing more is put on its queue.
Unsubscribes(s) ==
    /\ streams[s].key # Away
    /\ streams' = [streams EXCEPT ![s] = NoStream]
    /\ UNCHANGED <<emitted, traceQueue, stored, ragItems, traceWriter, aged, gone, subscribed,
                   traceFaults>>

TraceNext ==
    \/ Emits \/ TraceWrites \/ Cancelled \/ Flushed \/ GrowsOld \/ Cleans
    \/ \E s \in Streams : Subscribes(s) \/ Shows(s) \/ Unsubscribes(s)

TraceSpec == TraceInit /\ [][TraceNext]_traceVars

-----------------------------------------------------------------------------
TraceTypeOK ==
    /\ Len(traceQueue) <= TraceQueueMax
    /\ ToSet(stored) \cup ragItems \cup aged \subseteq Traced
    /\ \A s \in Streams : Len(streams[s].queue) <= StreamQueueMax
    /\ traceWriter \in {"runs", "flushes", "stopped"}

Rising(s) == \A i, j \in DOMAIN s : i < j => s[i] < s[j]

\* Each trace is waiting, stored, or lost in one known way; those stored are in
\* the order in which they happened; a retrieval never stands without its items.
StoredInOrder ==
    /\ \A n \in Traced : Cardinality({i \in 1..5 :
            n \in <<ToSet(traceQueue), ToSet(stored), gone.full, gone.failed, gone.cleaned>>[i]}) = 1
    /\ Rising(stored)
    /\ ragItems = {n \in ToSet(stored) : emitted[n].kind = "rag"}
    /\ traceWriter = "stopped" => \A n \in ToSet(traceQueue), m \in ToSet(stored) : m < n

\* Errors are kept, and so is what a memory write says.
CleanedIsOld ==
    \A n \in gone.cleaned : n \in aged /\ ~emitted[n].error /\ emitted[n].kind # "write"

\* A stream shows what its session did since it was opened, in that order and
\* all of it but what came while it was full.
StreamsAreWhole ==
    \A s \in Streams :
        LET stream == streams[s]
            due == {n \in Traced : n > stream.since /\ stream.key \in {AllSessions, emitted[n].session}}
        IN  stream.key # Away =>
                /\ ToSet(stream.shown \o stream.queue) = due \ stream.missed
                /\ Rising(stream.shown \o stream.queue)

(***************************************************************************)
(* However fast traces come and whoever stops, fails or is slow: the       *)
(* database has them in order and whole, but for those that did not fit,   *)
(* could not be written or were cleaned away as old; and a stream shows    *)
(* its session's, in order, from when it was opened.                       *)
(***************************************************************************)
TracesAreKept == StoredInOrder /\ CleanedIsOld /\ StreamsAreWhole
=============================================================================
