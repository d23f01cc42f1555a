---------------------------- MODULE SessionViews ----------------------------
(***************************************************************************)
(* What is read of a session: the history a request carries                *)
(* (session/manager.py), the messages an id or a search finds              *)
(* (session/store.py, agent/tools/message_lookup.py), and the pages the    *)
(* dashboard shows and its deletions by filter (bootstrap/dashboard_api.py *)
(* and its ProactiveDashboardReader).  The state machine asks one of them  *)
(* one question.                                                           *)
(***************************************************************************)
EXTENDS Integers, FiniteSets, FiniteSetsExt, Sequences, SequencesExt

CONSTANTS
    Chains, Talk,       \* tool chains (the calls of each round), length of a list of messages
    MaxContext,         \* _MAX_CONTEXT of fetch_messages
    LastSeq,            \* seqs of the rows that are looked up
    Terms,              \* of a search
    MaxPage             \* the largest page: 200, 100 or 50 by the caller

ASSUME ViewsAssumption == {Talk, MaxContext, LastSeq} \subseteq Nat /\ MaxPage \in Nat \ {0}

VARIABLES asked, view

viewVars == <<asked, view>>

Clip(n, low, high) == IF n < low THEN low ELSE IF n > high THEN high ELSE n
LastOf(s, n) == SubSeq(s, IF n >= Len(s) THEN 1 ELSE Len(s) - n + 1, Len(s))

-----------------------------------------------------------------------------
(* Session.get_history                                                      *)

Item(kind, n) == [kind |-> kind, n |-> n]

\* Mutant: the boundary is the first of the assistant's messages.
Recent_first(messages) ==
    LET own == {i \in DOMAIN messages : messages[i].role = "assistant"}
    IN  IF Cardinality(own) > 1 THEN Min(own) ELSE 1

\* Where the messages begin whose tool results are shown.
Recent(messages) ==
    LET own == {i \in DOMAIN messages : messages[i].role = "assistant"}
    IN  IF Cardinality(own) > 1 THEN Max(own) ELSE 1

\* A round without calls is passed over.
Expanded(chain, full) ==
    FlattenSeq([g \in DOMAIN chain |->
        IF chain[g] = 0 THEN <<>>
        ELSE <<Item("calls", chain[g])>>
             \o [c \in 1..chain[g] |-> Item(IF full THEN "result" ELSE "cleared", c)]])

\* A role that is neither (the dashboard can write one) is left out.
History(all, window) ==
    LET messages == IF window = 0 THEN <<>> ELSE LastOf(all, window)
    IN  FlattenSeq([i \in DOMAIN messages |->
            CASE messages[i].role = "user" -> <<Item("user", 0)>>
              [] messages[i].role = "assistant" ->
                    Expanded(messages[i].chain, i >= Recent(messages)) \o <<Item("text", 0)>>
              [] OTHER -> <<>>])

-----------------------------------------------------------------------------
(* fetch_messages and search_messages                                       *)

\* _resolve_fetch_ids
Resolved(ids) ==
    FoldLeft(LAMBDA kept, id : IF id \in ToSet(kept) THEN kept ELSE Append(kept, id), <<>>, ids)

\* fetch_by_ids in the order of the request; with context the rows around each
\* id, whether or not it has a row itself, in the order of the rows.
Fetched(rows, ids, context) ==
    LET wanted == Resolved(ids)
        reach == Clip(context, 0, MaxContext)
        around == {s \in rows : \E id \in ToSet(wanted) : s \in (id - reach)..(id + reach)}
    IN  IF reach = 0 THEN SelectSeq(wanted, LAMBDA id : id \in rows)
                     ELSE SetToSortSeq(around, <)

\* How many of the terms a row's content has.
Score(contents, s) == Cardinality(contents[s])

\* search_messages: more terms first, then the better rank, then the newer.
Ranked(contents, rank) ==
    SetToSortSeq({s \in DOMAIN contents : Score(contents, s) > 0},
        LAMBDA a, b :
            \/ Score(contents, a) > Score(contents, b)
            \/ Score(contents, a) = Score(contents, b) /\ rank[a] < rank[b]
            \/ Score(contents, a) = Score(contents, b) /\ rank[a] = rank[b] /\ a > b)

Slice(s, offset, limit) ==
    SubSeq(s, offset + 1, IF offset + limit < Len(s) THEN offset + limit ELSE Len(s))

NoMore == -1

\* Mutant: the page that fills the limit is followed by another.
Found_limit(contents, rank, limit, offset) ==
    LET all == Ranked(contents, rank)
        page == Slice(all, offset, Clip(limit, 1, MaxPage))
    IN  [rows |-> page, total |-> Len(all),
         next |-> IF offset + Len(page) < Len(all) THEN offset + Clip(limit, 1, MaxPage) + 1
                                                   ELSE NoMore]

\* SearchMessagesTool.execute
Found(contents, rank, limit, offset) ==
    LET all == Ranked(contents, rank)
        page == Slice(all, offset, Clip(limit, 1, MaxPage))
    IN  [rows |-> page, total |-> Len(all),
         next |-> IF offset + Len(page) < Len(all) THEN offset + Len(page) ELSE NoMore]

-----------------------------------------------------------------------------
(* The dashboard's lists                                                    *)

\* Mutant: pages are counted from nought.
ListPage_fromZero(all, page, size) == Slice(all, page * Clip(size, 1, MaxPage), Clip(size, 1, MaxPage))

\* A page of a sorted list: page 0 is page 1.
ListPage(all, page, size) ==
    Slice(all, (Clip(page, 1, page + 1) - 1) * Clip(size, 1, MaxPage), Clip(size, 1, MaxPage))

\* list_sessions_for_dashboard with has_proactive
SessionsShown(sessions, proactive) ==
    SelectSeq(sessions, LAMBDA s : proactive = "any" \/ s = proactive)

\* list_messages_for_dashboard with a role and a direction
MessagesShown(roles, role, descending) ==
    LET kept == {i \in DOMAIN roles : role = "any" \/ roles[i] = role}
    IN  IF descending THEN SetToSortSeq(kept, >) ELSE SetToSortSeq(kept, <)

\* list_tick_logs: every filter that is given must hold.
TicksShown(ticks, flow, gate) ==
    SelectSeq(ticks, LAMBDA t : flow \in {"", t.flow} /\ gate \in {"", t.gate})

\* list_items_for_dashboard: by a field in the direction asked for, equals by id.
ItemsShown(items, kind, status, embedded, descending) ==
    LET kept == {i \in DOMAIN items : /\ kind \in {"", items[i].kind}
                                      /\ status \in {"", items[i].status}
                                      /\ embedded \in {"any", items[i].embedded}}
    IN  SetToSortSeq(kept, LAMBDA a, b :
            \/ IF descending THEN items[a].field > items[b].field ELSE items[a].field < items[b].field
            \/ items[a].field = items[b].field /\ a < b)

\* _delete_rows: rows of the source and of the ids, as far as either is given.
Kept(table, source, ids) ==
    IF source = "" /\ ids = {} THEN table
    ELSE {r \in table : (source # "" /\ r.source # source) \/ (ids # {} /\ r.id \notin ids)}

-----------------------------------------------------------------------------
ViewInit == asked = [kind |-> "none"] /\ view = <<>>

AsksHistory ==
    \E all \in SeqOf([role : {"assistant"}, chain : Chains] \cup
                     [role : {"user", "system"}, chain : {<<>>}], Talk), window \in 0..Talk :
        asked' = [kind |-> "history", all |-> all, window |-> window] /\ view' = History(all, window)

AsksMessages ==
    \E rows \in SUBSET (0..LastSeq), ids \in SeqOf(0..LastSeq, 2), context \in 0..(MaxContext + 1) :
        /\ asked' = [kind |-> "fetch", rows |-> rows, ids |-> ids, context |-> context]
        /\ view' = Fetched(rows, ids, context)

AsksSearch ==
    \E contents \in [0..LastSeq -> SUBSET Terms], limit \in 0..MaxPage + 1 :
        \E rank \in [0..LastSeq -> {0, 1}] :
            /\ asked' = [kind |-> "search", contents |-> contents, rank |-> rank, limit |-> limit]
            /\ view' = Found(contents, rank, limit, 0)

AsksSessions ==
    \E sessions \in SeqOf({"yes", "no"}, LastSeq), proactive \in {"any", "yes", "no"},
       size \in 0..(MaxPage + 1) :
        /\ asked' = [kind |-> "list", all |-> SessionsShown(sessions, proactive), size |-> size]
        /\ view' = ListPage(SessionsShown(sessions, proactive), 1, size)

AsksList ==
    \E roles \in SeqOf({"user", "assistant"}, LastSeq), role \in {"any", "user"},
       descending \in BOOLEAN, size \in 0..(MaxPage + 1) :
        /\ asked' = [kind |-> "list", all |-> MessagesShown(roles, role, descending), size |-> size]
        /\ view' = ListPage(MessagesShown(roles, role, descending), 1, size)

AsksTicks ==
    \E ticks \in SeqOf([flow : {"drift", "proactive"}, gate : {"busy", "none"}], 2),
       flow \in {"", "drift"}, gate \in {"", "busy"}, size \in 0..(MaxPage + 1) :
        /\ asked' = [kind |-> "list", all |-> TicksShown(ticks, flow, gate), size |-> size]
        /\ view' = ListPage(TicksShown(ticks, flow, gate), 1, size)

AsksItems ==
    \E items \in SeqOf([kind : {"event"}, status : {"active", "superseded"},
                        embedded : {"yes", "no"}, field : {1, 2}], 2),
       status \in {"", "active"}, embedded \in {"any", "no"}, descending \in BOOLEAN,
       size \in 0..(MaxPage + 1) :
        LET all == ItemsShown(items, "event", status, embedded, descending)
        IN  asked' = [kind |-> "list", all |-> all, size |-> size] /\ view' = ListPage(all, 1, size)

AsksDeletion ==
    \E table \in SUBSET [source : {"a", "b"}, id : {1, 2}], source \in {"", "a"},
       ids \in SUBSET {1, 2} :
        /\ asked' = [kind |-> "delete", table |-> table, source |-> source, ids |-> ids]
        /\ view' = Kept(table, source, ids)

ViewNext ==
    /\ asked.kind = "none"
    /\ \/ AsksHistory \/ AsksMessages \/ AsksSearch \/ AsksSessions \/ AsksList \/ AsksTicks
       \/ AsksItems \/ AsksDeletion

ViewSpec == ViewInit /\ [][ViewNext]_viewVars

-----------------------------------------------------------------------------
\* The history keeps the API's protocol and says all that the window holds; the
\* results of the newest of the assistant's messages, and no others, are in full.
HistoryIsSound ==
    asked.kind = "history" =>
        LET shown == SelectSeq(LastOf(asked.all, asked.window), LAMBDA m : m.role # "system")
            ends == SelectSeq(view, LAMBDA x : x.kind \in {"user", "text"})
            texts == {i \in DOMAIN view : view[i].kind = "text"}
            before == {i \in texts : \E j \in texts : i < j}
            old == IF before = {} THEN 0 ELSE Max(before)
        IN  /\ Len(ends) = Len(shown)
            /\ \A i \in DOMAIN shown :
                ends[i].kind = IF shown[i].role = "user" THEN "user" ELSE "text"
            /\ \A i \in DOMAIN view :
                /\ view[i].kind = "calls" =>
                    /\ view[i].n > 0
                    /\ \A c \in 1..view[i].n : view[i + c] = Item(view[i + 1].kind, c)
                    /\ view[i + view[i].n + 1].kind \in {"calls", "text"}
                /\ view[i].kind = "result" => i > old
                /\ view[i].kind = "cleared" => i < old

\* The ids that have rows are among what is shown, and all else is near one.
FetchIsExact ==
    asked.kind = "fetch" =>
        /\ Cardinality(ToSet(view)) = Len(view)
        /\ ToSet(asked.ids) \cap asked.rows \subseteq ToSet(view) /\ ToSet(view) \subseteq asked.rows
        /\ \A s \in asked.rows :
            s \in ToSet(view) <=>
                \E id \in ToSet(asked.ids), d \in 0..MaxContext :
                    d <= asked.context /\ (s = id + d \/ s + d = id)

\* Whoever follows next_offset sees each match once, the best first.
Followed(contents, rank, limit) ==
    LET from[offset \in 0..(2 * LastSeq + 2)] ==
            LET page == Found(contents, rank, limit, offset)
            IN  IF page.next = NoMore THEN page.rows ELSE page.rows \o from[page.next]
    IN  from[0]

SearchIsWhole ==
    asked.kind = "search" =>
        LET seen == Followed(asked.contents, asked.rank, asked.limit)
        IN  /\ ToSet(seen) = {s \in DOMAIN asked.contents : asked.contents[s] # {}}
            /\ Cardinality(ToSet(seen)) = Len(seen) /\ Len(seen) = view.total
            /\ \A i, j \in DOMAIN seen :
                i < j => Score(asked.contents, seen[i]) >= Score(asked.contents, seen[j])

PagesPartition ==
    asked.kind = "list" =>
        LET pages == [p \in 1..(LastSeq + 1) |-> ListPage(asked.all, p, asked.size)]
        IN  FlattenSeq(pages) = asked.all /\ ListPage(asked.all, 0, asked.size) = pages[1]

\* A deletion takes what every given filter names, and an empty one nothing.
DeletionIsNarrow ==
    asked.kind = "delete" =>
        \A r \in asked.table \ view :
            /\ asked.source # "" \/ asked.ids # {}
            /\ asked.source \in {"", r.source} /\ asked.ids \in {{}} \cup {s \in SUBSET {1, 2} : r.id \in s}

(***************************************************************************)
(* What is read of the sessions is whole: the history of a request keeps   *)
(* the protocol of the API, a lookup by ids and a search or a list read    *)
(* page by page miss nothing and show nothing twice, and a deletion by     *)
(* filter takes only what all its filters name.                            *)
(***************************************************************************)
ViewsAreWhole ==
    HistoryIsSound /\ FetchIsExact /\ SearchIsWhole /\ PagesPartition /\ DeletionIsNarrow
=============================================================================
