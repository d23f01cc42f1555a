----------------------------- MODULE MemoryQuery -----------------------------
(***************************************************************************)
(* What a search of memory finds: the nearest vectors and the scan that    *)
(* stands in for them (memory2/store.py), the several queries of the       *)
(* engine (core/memory/default_engine.py), the two paths that              *)
(* recall_memory fuses (agent/tools/recall_memory.py) and the dashboard's  *)
(* similar items.  The state machine asks one of them one question.        *)
(*                                                                         *)
(* A row is [kind, scope, active, hot, terms]: its hotness, the number of  *)
(* the query's terms its summary has.  A query is how near each row is.    *)
(***************************************************************************)
EXTENDS Integers, FiniteSets, FiniteSetsExt, Sequences, SequencesExt

CONSTANTS
    RowScopes,              \* (scope_channel, scope_chat_id)
    RowSets, Nearness,      \* the tables that are searched, how near a row can be
    HotWeight,              \* hotness_alpha, against a weight of 1 for nearness
    LeastFetch,             \* the 20 of fetch_k
    RrfK                    \* _RRF_K

ASSUME QueryAssumption == {HotWeight, LeastFetch, RrfK} \subseteq Nat /\ Nearness \subseteq Nat

VARIABLES sought, found

queryVars == <<sought, found>>

AtLeastOne(k) == IF k < 1 THEN 1 ELSE k
TopOf(s, k) == SubSeq(s, 1, IF AtLeastOne(k) < Len(s) THEN AtLeastOne(k) ELSE Len(s))
Rank(s, x) == CHOOSE i \in DOMAIN s : s[i] = x

-----------------------------------------------------------------------------
(* MemoryStore2.vector_search                                               *)

\* A question to the store: which kinds and scope ("any" for neither), how
\* many, from which nearness on, with the retired rows or not, and how much
\* hotness counts.
Wanted(table, i, q) ==
    /\ q.retired \/ table[i].active
    /\ q.kinds = {} \/ table[i].kind \in q.kinds
    /\ q.scope \in {"any", table[i].scope}
    /\ q.near[i] >= q.least

Fusion(table, i, q) == q.near[i] + q.weight * table[i].hot

\* A stable sort by score of rows that came in the order `before'.
ByScore(table, ids, q, before(_, _)) ==
    SetToSortSeq(ids, LAMBDA a, b :
        \/ Fusion(table, a, q) > Fusion(table, b, q)
        \/ Fusion(table, a, q) = Fusion(table, b, q) /\ before(a, b))

Nearer(q, a, b) == q.near[a] > q.near[b] \/ (q.near[a] = q.near[b] /\ a < b)

\* The nearest of all vectors, those of retired rows and of other kinds included.
Fetched20(table, q) ==
    LET order == SetToSortSeq(DOMAIN table, LAMBDA a, b : Nearer(q, a, b))
    IN  ToSet(TopOf(order, IF 2 * q.top > LeastFetch THEN 2 * q.top ELSE LeastFetch))

VecSearch(table, q) ==
    TopOf(ByScore(table, {i \in Fetched20(table, q) : Wanted(table, i, q)}, q,
                  LAMBDA a, b : Nearer(q, a, b)), q.top)

\* Mutant: the rows are cut to the number that is wanted before they are sorted.
ScanSearch_cutFirst(table, q) ==
    LET kept == {i \in DOMAIN table : Wanted(table, i, q)}
    IN  ByScore(table, ToSet(TopOf(SetToSortSeq(kept, <), q.top)), q, <)

\* The whole table, without sqlite-vec or for a vector of another dimension.
ScanSearch(table, q) ==
    TopOf(ByScore(table, {i \in DOMAIN table : Wanted(table, i, q)}, q, <), q.top)

\* find_similar_items_for_dashboard: one more than wanted, the item itself left out.
Similar(table, i, q) ==
    TopOf(SelectSeq(VecSearch(table, [q EXCEPT !.top = AtLeastOne(q.top) + 1]), LAMBDA x : x # i),
          q.top)

-----------------------------------------------------------------------------
(* DefaultMemoryEngine._retrieve_items                                      *)

Hit(table, i, q) == [id |-> i, score |-> Fusion(table, i, q)]
Hits(table, q) == LET s == VecSearch(table, q) IN [n \in DOMAIN s |-> Hit(table, s[n], q)]

\* Mutant: the first score of an item is kept.
Pooled_first(hits) ==
    {h \in ToSet(hits) : hits[Min({n \in DOMAIN hits : hits[n].id = h.id})] = h}

\* _max_pool_memory_items: the best score of each item.
Pooled(hits) == {h \in ToSet(hits) : \A g \in ToSet(hits) : g.id = h.id => g.score <= h.score}

\* Sorted by score, then by id, both descending.
HitOrder(hits) ==
    SetToSortSeq(hits, LAMBDA a, b : a.score > b.score \/ (a.score = b.score /\ a.id > b.id))

EngineItems(table, queries) ==
    TopOf(HitOrder(Pooled(FlattenSeq([n \in DOMAIN queries |-> Hits(table, queries[n])]))),
          queries[1].top)

-----------------------------------------------------------------------------
(* RecallMemoryTool                                                         *)

\* _vector_union: none when the query itself could not be embedded.  The order
\* among equal scores is that of first sight.
VectorUnion(table, queries) ==
    LET all == FlattenSeq([n \in DOMAIN queries |-> Hits(table, queries[n])])
        seen(h) == Min({n \in DOMAIN all : all[n].id = h.id})
        order == SetToSortSeq(Pooled(all), LAMBDA a, b :
                     a.score > b.score \/ (a.score = b.score /\ seen(a) < seen(b)))
    IN  [n \in DOMAIN order |-> order[n].id]

\* keyword_search_summary: more terms first, then more reinforced.
KeywordHits(table, kinds) ==
    SetToSortSeq({i \in DOMAIN table : /\ table[i].active /\ table[i].terms > 0
                                       /\ kinds = {} \/ table[i].kind \in kinds},
        LAMBDA a, b :
            \/ table[a].terms > table[b].terms
            \/ table[a].terms = table[b].terms /\ table[a].hot > table[b].hot
            \/ table[a].terms = table[b].terms /\ table[a].hot = table[b].hot /\ a < b)

\* Mutant: only the better of the two ranks counts.
Rrf_best(vector, keyword, i) ==
    LET path == IF i \in ToSet(vector) THEN vector ELSE keyword
    IN  <<1, RrfK + Rank(path, i)>>

\* 1/(k + rank) of each path that has the item, as <<numerator, denominator>>.
Rrf(vector, keyword, i) ==
    LET v == RrfK + Rank(vector, i)
        w == RrfK + Rank(keyword, i)
    IN  CASE i \notin ToSet(keyword) -> <<1, v>>
          [] i \notin ToSet(vector) -> <<1, w>>
          [] OTHER -> <<v + w, v * w>>

Above(x, y) == x[1] * y[2] > y[1] * x[2]

\* _rrf_merge: ids come out of a set, so equal scores stand in any order.
Fused(vector, keyword, limit) ==
    LET ids == ToSet(vector) \cup ToSet(keyword)
        sorted == {s \in SetToSeqs(ids) : \A m, n \in DOMAIN s :
                       m < n => ~Above(Rrf(vector, keyword, s[n]), Rrf(vector, keyword, s[m]))}
    IN  {TopOf(s, limit) : s \in sorted}

-----------------------------------------------------------------------------
Question(near, kinds, scope, top, retired, weight) ==
    [near |-> near, kinds |-> kinds, scope |-> scope, top |-> top, least |-> 1,
     retired |-> retired, weight |-> weight]

Tops == 0..2

QueryInit == sought = [kind |-> "none"] /\ found = <<>>

AsksStore ==
    \E table \in RowSets, near \in [1..3 -> Nearness], kinds \in {{}, {"event"}},
       scope \in {"any"} \cup RowScopes, top \in Tops, retired \in BOOLEAN :
        LET q == Question(near, kinds, scope, top, retired, HotWeight)
        IN  sought' = [kind |-> "store", table |-> table, q |-> q] /\ found' = VecSearch(table, q)

\* The scope of an engine's query is that of the chat, its items are in force.
AsksEngine ==
    \E table \in RowSets, near \in [1..2 -> [1..3 -> Nearness]], top \in Tops :
        LET queries == [n \in 1..2 |-> Question(near[n], {}, "any", top, FALSE, HotWeight)]
        IN  /\ sought' = [kind |-> "engine", table |-> table, queries |-> queries]
            /\ found' = EngineItems(table, queries)

\* A query that cannot be embedded, or the query with what hypotheses there are.
AsksRecall ==
    \E table \in RowSets, near \in SeqOf([1..3 -> Nearness], 2), kinds \in {{}, {"event"}},
       limit \in Tops :
        LET queries == [n \in DOMAIN near |-> Question(near[n], kinds, "any", 2, FALSE, 0)]
            vector == VectorUnion(table, queries)
            keyword == KeywordHits(table, kinds)
        IN  /\ sought' = [kind |-> "recall", vector |-> vector, keyword |-> keyword, limit |-> limit]
            /\ found' \in Fused(vector, keyword, limit)

AsksSimilar ==
    \E table \in RowSets, i \in 1..3, others \in [1..3 -> Nearness], top \in Tops :
        LET most == 1 + Max(Nearness)
            q == Question([others EXCEPT ![i] = most], {}, "any", top, FALSE, 0)
        IN  /\ sought' = [kind |-> "similar", table |-> table, q |-> q, of |-> i]
            /\ found' = Similar(table, i, q)

QueryNext ==
    /\ sought.kind = "none"
    /\ AsksStore \/ AsksEngine \/ AsksRecall \/ AsksSimilar

QuerySpec == QueryInit /\ [][QueryNext]_queryVars

-----------------------------------------------------------------------------
\* The vectors answer as the scan does, as long as what they fetch is not taken
\* by rows that the question excludes; in any case they show only what the scan
\* may, in its order.
VectorsAgreeWithScan ==
    sought.kind = "store" =>
        LET t == sought.table
            q == sought.q
            scan == ScanSearch(t, q)
            crowded == {i \in DOMAIN t : Wanted(t, i, q)} \ Fetched20(t, q)
            scores(s) == [n \in DOMAIN s |-> Fusion(t, s[n], q)]
        IN  /\ \A n \in DOMAIN found : Wanted(t, found[n], q)
            /\ \A m, n \in DOMAIN found : m < n => scores(found)[m] >= scores(found)[n]
            /\ crowded = {} => scores(found) = scores(scan)
            /\ Len(found) < Len(scan) =>
                Cardinality(Fetched20(t, q)) >= 2 * q.top
                    /\ \E i \in Fetched20(t, q) : ~Wanted(t, i, q)

\* However many queries there were, the items are the best of all they found.
PoolIsBest ==
    sought.kind = "engine" =>
        LET queries == sought.queries
            hits == UNION {ToSet(Hits(sought.table, queries[n])) : n \in DOMAIN queries}
            best(i) == Max({h.score : h \in {g \in hits : g.id = i}})
            ids == {h.id : h \in hits}
        IN  /\ Len(found) = IF Cardinality(ids) < AtLeastOne(queries[1].top)
                            THEN Cardinality(ids) ELSE AtLeastOne(queries[1].top)
            /\ \A n \in DOMAIN found :
                /\ found[n].score = best(found[n].id)
                /\ \A i \in ids : (\A m \in DOMAIN found : found[m].id # i)
                                    => best(i) <= found[n].score
                /\ \A m \in DOMAIN found : m # n => found[m].id # found[n].id

\* No item stands behind one that both paths, or the only one that has it,
\* rank lower; and nothing is cut that stands above what is shown.
FusionIsFair ==
    sought.kind = "recall" =>
        LET v == sought.vector
            k == sought.keyword
            beats(i, j) ==    \* i is ahead of j wherever j is found
                /\ i \in ToSet(v) \cup ToSet(k) /\ i # j
                /\ j \in ToSet(v) => i \in ToSet(v) /\ Rank(v, i) < Rank(v, j)
                /\ j \in ToSet(k) => i \in ToSet(k) /\ Rank(k, i) < Rank(k, j)
        IN  \A n \in DOMAIN found :
                \A i \in ToSet(v) \cup ToSet(k) :
                    beats(i, found[n]) => \E m \in 1..(n - 1) : found[m] = i

SimilarLeavesItselfOut ==
    sought.kind = "similar" =>
        /\ \A n \in DOMAIN found : found[n] # sought.of
        /\ Len(found) = LET others == ToSet(VecSearch(sought.table, [sought.q EXCEPT !.top = 3]))
                                          \ {sought.of}
                            top == AtLeastOne(sought.q.top)
                        IN  IF Cardinality(others) < top THEN Cardinality(others) ELSE top

(***************************************************************************)
(* A search of memory is as good as a look at every row, within what it    *)
(* fetches: filters leave only what was asked for, the best of several     *)
(* queries come first, the fusion of two rankings respects both, and the   *)
(* item that is compared takes nobody's place.                             *)
(***************************************************************************)
SearchIsFaithful ==
    VectorsAgreeWithScan /\ PoolIsBest /\ FusionIsFair /\ SimilarLeavesItselfOut
=============================================================================
