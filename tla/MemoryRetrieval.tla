--------------------------- MODULE MemoryRetrieval ---------------------------
(***************************************************************************)
(* The memory block of a request (core/memory/default_runtime_facade.py    *)
(* with memory2/retriever.py's injection block, query_rewriter.py,         *)
(* hyde_enhancer.py, sufficiency_checker.py and agent/policies/            *)
(* history_route.py): a gate beside a search for rules, a search for       *)
(* events and its hypothetical double, one retry when nothing would be     *)
(* shown, and the reinforcement of what is shown.                          *)
(*                                                                         *)
(* A search finds any of the rows its filters leave, at any scores; a      *)
(* block is the sequence of its sections, each the sequence of the ids of  *)
(* its lines.                                                              *)
(***************************************************************************)
EXTENDS Integers, FiniteSets, Sequences, SequencesExt

CONSTANTS
    Remembered,         \* ids; Lore[id] = [kind, chat, size]
    Lore,
    OwnChat,            \* of the request
    Marks, Bar,         \* scores, and the score a line needs (score_thresholds)
    SectionBudget,      \* inject_max_chars
    MaxForced, MaxNorms, MaxTales    \* lines of each section

ASSUME RetrievalAssumption ==
    /\ Remembered \subseteq Nat /\ IsFiniteSet(Remembered) /\ Marks \cup {Bar} \subseteq Int
    /\ {SectionBudget, MaxTales} \subseteq Nat /\ {MaxForced, MaxNorms} \subseteq Nat \ {0}
    /\ Lore \in [Remembered -> [kind : {"forced", "norm", "tale"}, chat : STRING, size : Nat]]

VARIABLES
    setup,      \* which parts are there: [mode, hyde, checker, engine]
    phase,      \* where retrieve_context is
    awaited,    \* what its gather waits for
    route,      \* the gate's answer: history is needed
    norms, raw, history,    \* results of the searches
    guess,      \* a hypothesis was made
    tries,      \* searches for history that were begun
    memo,       \* [block, ids]: what the request carries
    traced,     \* ids of the items of the trace
    reinforced  \* ids whose reinforcement was raised

retrievalVars == <<setup, phase, awaited, route, norms, raw, history, guess, tries, memo,
                   traced, reinforced>>

Rules == {"forced", "norm"}
Tales == {"tale"}
Nothing == [hits |-> {}, block |-> <<>>]
Silence == [block |-> <<>>, ids |-> {}]
Lines(block) == UNION {ToSet(section) : section \in ToSet(block)}
HitIds(result) == {h.id : h \in result.hits}
Injected(result) == {h.id : h \in {g \in result.hits : g.injected}}

-----------------------------------------------------------------------------
(* Retriever.build_injection_block                                          *)

AtMost(s, n) == SubSeq(s, 1, IF n < Len(s) THEN n ELSE Len(s))

\* By score, descending, in the order the engine gives equals.
Ahead(scores, a, b) == scores[a] > scores[b] \/ (scores[a] = scores[b] /\ a > b)
Best(scores, ids) ==
    CHOOSE s \in [1..Cardinality(ids) -> ids] :
        \A i, j \in DOMAIN s : i < j => Ahead(scores, s[i], s[j])

\* Rules that require a tool need no score.
OfKind(scores, kind) ==
    Best(scores, {i \in DOMAIN scores : Lore[i].kind = kind /\ (kind = "forced" \/ scores[i] >= Bar)})

\* A title with its separator, of one, and the lines.
Size(section) ==
    LET upTo[n \in 0..Len(section)] == IF n = 0 THEN 1 ELSE upTo[n - 1] + Lore[section[n]].size
    IN  upTo[Len(section)]

\* Of the sections of a block, three at most.
SizeAt(block, n) == IF n \in DOMAIN block THEN Size(block[n]) ELSE 0
Total(block) == SizeAt(block, 1) + SizeAt(block, 2) + SizeAt(block, 3)
IsForced(section) == Lore[section[1]].kind = "forced"

\* Mutant: what a section adds is not counted before it is taken.
Taking_late(kept, section) ==
    IF section = <<>> \/ (Total(kept) > SectionBudget /\ ~IsForced(section))
    THEN kept ELSE Append(kept, section)

\* _apply_char_budget: a section that does not fit is left out, a later one may fit.
Taking(kept, section) ==
    IF section = <<>> \/ (Total(kept) + Size(section) > SectionBudget /\ ~IsForced(section))
    THEN kept ELSE Append(kept, section)

Block(scores) ==
    LET forced == AtMost(OfKind(scores, "forced"), MaxForced)
        rules == AtMost(OfKind(scores, "norm"), MaxNorms)
        tales == AtMost(OfKind(scores, "tale"), MaxTales)
    IN  Taking(Taking(Taking(<<>>, forced), rules), tales)

\* DefaultMemoryEngine.retrieve
Result(scores) ==
    [hits |-> {[id |-> i, score |-> scores[i], injected |-> i \in Lines(Block(scores))] :
                  i \in DOMAIN scores},
     block |-> Block(scores)]

-----------------------------------------------------------------------------
(* The searches                                                             *)

\* Mutant: the search for history is not held to the chat.
Eligible_anyChat(kinds, scoped) == {i \in Remembered : Lore[i].kind \in kinds}

\* memory_types and require_scope_match
Eligible(kinds, scoped) ==
    {i \in Remembered : Lore[i].kind \in kinds /\ (scoped => Lore[i].chat = OwnChat)}

Answers(kinds, scoped) ==
    {Result(scores) : scores \in UNION {[ids -> Marks] : ids \in SUBSET Eligible(kinds, scoped)}}

\* Mutant: the hit that is kept keeps its own flag.
MergedHits_first(one, two) ==
    LET of(id) == CHOOSE h \in one.hits \cup two.hits :
                      h.id = id /\ \A g \in one.hits \cup two.hits : g.id = id => g.score <= h.score
    IN  {of(id) : id \in HitIds(one) \cup HitIds(two)}

\* _merge_engine_hits: the higher score, and injected if either was.
MergedHits(one, two) ==
    LET of(id) == CHOOSE h \in one.hits \cup two.hits :
                      h.id = id /\ \A g \in one.hits \cup two.hits : g.id = id => g.score <= h.score
    IN  {[of(id) EXCEPT !.injected = id \in Injected(one) \cup Injected(two)] :
            id \in HitIds(one) \cup HitIds(two)}

\* _retrieve_episodic_with_hyde: the second block only if it tells something new.
WithHyde(one, two) ==
    [hits |-> MergedHits(one, two),
     block |-> one.block \o IF Injected(two) \subseteq Injected(one) THEN <<>> ELSE two.block]

\* _build_injection_payload
Payload(rules, tales) ==
    [block |-> rules.block \o tales.block, ids |-> Injected(rules) \cup Injected(tales)]

\* QueryRewriter.decide, HistoryRoutePolicy.decide: only a clear no is a no.
GateSays == {"disabled", "flow", "fails", "garbled", "unsure", "yes", "no"}
Needed(answer) == answer # "no"

-----------------------------------------------------------------------------
RetrievalTypeOK ==
    /\ phase \in {"idle", "gate", "history", "hyde", "check", "reinforce", "done", "cancelled"}
    /\ awaited \subseteq {"route", "norms", "raw", "hypothesis"}
    /\ {route, guess} \subseteq BOOLEAN /\ tries \in 0..2
    /\ memo.ids \subseteq Remembered /\ traced \subseteq Remembered /\ reinforced \subseteq Remembered
    /\ \A result \in {norms, raw, history} : HitIds(result) \subseteq Remembered

RetrievalInit ==
    /\ setup = [mode |-> "semantics", hyde |-> FALSE, checker |-> FALSE, engine |-> FALSE]
    /\ phase = "idle" /\ awaited = {} /\ route = FALSE /\ guess = FALSE /\ tries = 0
    /\ norms = Nothing /\ raw = Nothing /\ history = Nothing
    /\ memo = Silence /\ traced = {} /\ reinforced = {}

\* DefaultMemoryRuntimeFacade.retrieve_context: the semantics that are bound, or
\* one search of everything when there is an engine.  What parts there are is the
\* configuration's.
Called ==
    /\ phase = "idle"
    /\ setup' \in [mode : {"semantics", "fallback"}, hyde : BOOLEAN, checker : BOOLEAN,
                   engine : BOOLEAN]
    /\ IF setup'.mode = "semantics"
       THEN phase' = "gate" /\ awaited' = {"route", "norms"} /\ UNCHANGED <<memo, traced>>
       ELSE /\ \E result \in IF setup'.engine THEN Answers(Rules \cup Tales, FALSE) ELSE {Nothing} :
                memo' = Payload(result, Nothing) /\ traced' = HitIds(result)
            /\ phase' = "reinforce" /\ UNCHANGED awaited
    /\ UNCHANGED <<route, norms, raw, history, guess, tries, reinforced>>

\* _retrieve_episodic_items: the search and the hypothesis side by side.
BeginHistory(needed) ==
    /\ phase' = "history"
    /\ awaited' = IF needed /\ setup.engine
                  THEN {"raw"} \cup (IF setup.hyde THEN {"hypothesis"} ELSE {}) ELSE {}

RouteAnswered(answer) ==
    /\ "route" \in awaited
    /\ route' = Needed(answer) /\ awaited' = awaited \ {"route"}
    /\ UNCHANGED <<setup, phase, norms, raw, history, guess, tries, memo, traced, reinforced>>

NormsFound ==
    /\ "norms" \in awaited
    /\ norms' \in IF setup.engine THEN Answers(Rules, FALSE) ELSE {Nothing}
    /\ awaited' = awaited \ {"norms"}
    /\ UNCHANGED <<setup, phase, route, raw, history, guess, tries, memo, traced, reinforced>>

GatePassed ==
    /\ phase = "gate" /\ awaited = {}
    /\ BeginHistory(route) /\ tries' = 1 /\ traced' = HitIds(norms)
    /\ UNCHANGED <<setup, route, norms, raw, history, guess, memo, reinforced>>

RawFound ==
    /\ "raw" \in awaited
    /\ raw' \in Answers(Tales, TRUE) /\ awaited' = awaited \ {"raw"}
    /\ UNCHANGED <<setup, phase, route, norms, history, guess, tries, memo, traced, reinforced>>

\* HyDEEnhancer.generate_hypothesis: none after a timeout or an error.
Guessed ==
    /\ "hypothesis" \in awaited
    /\ guess' \in BOOLEAN /\ awaited' = awaited \ {"hypothesis"}
    /\ UNCHANGED <<setup, phase, route, norms, raw, history, tries, memo, traced, reinforced>>

\* Mutant: the checker is asked whatever there is to show.
Retry_always == setup.checker /\ route /\ tries = 1

\* _retry_empty_episodic_block: nothing at all would be shown.
Retry == setup.checker /\ route /\ tries = 1 /\ Payload(norms, history').block = <<>>

\* The payload with what was found, and the checker's question if it is empty.
\* A search that was not made leaves the result that there is.
Composed(result) ==
    /\ history' = result /\ memo' = Payload(norms, history')
    /\ traced' = traced \cup HitIds(result)
    /\ phase' = IF Retry THEN "check" ELSE "reinforce"

HistoryFound ==
    /\ phase = "history" /\ awaited = {}
    /\ IF guess THEN phase' = "hyde" /\ UNCHANGED <<history, memo, traced>>
                ELSE Composed(IF route /\ setup.engine THEN raw ELSE history)
    /\ UNCHANGED <<setup, awaited, route, norms, raw, guess, tries, reinforced>>

HydeFound ==
    /\ phase = "hyde"
    /\ \E result \in Answers(Tales, TRUE) : Composed(WithHyde(raw, result))
    /\ UNCHANGED <<setup, awaited, route, norms, raw, guess, tries, reinforced>>

\* SufficiencyChecker.check: only a no with a better query begins again.
Checked(refined) ==
    /\ phase = "check"
    /\ IF refined
       THEN BeginHistory(TRUE) /\ tries' = 2 /\ raw' = Nothing /\ guess' = FALSE
       ELSE phase' = "reinforce" /\ UNCHANGED <<awaited, tries, raw, guess>>
    /\ UNCHANGED <<setup, route, norms, history, memo, traced, reinforced>>

\* An error of any search ends the whole of it, rules that were found included.
SearchFailed ==
    /\ setup.engine
    /\ phase = "hyde" \/ awaited \cap {"norms", "raw"} # {}
    /\ phase' = "done" /\ awaited' = {} /\ memo' = Silence /\ traced' = {}
    /\ UNCHANGED <<setup, route, norms, raw, history, guess, tries, reinforced>>

\* _reinforce_context_result: in one batch, an error is swallowed.
Reinforced(ok) ==
    /\ phase = "reinforce" /\ phase' = "done"
    /\ reinforced' = IF ok THEN memo.ids ELSE {}
    /\ UNCHANGED <<setup, awaited, route, norms, raw, history, guess, tries, memo, traced>>

\* The turn is stopped at one of the awaits.
RetrievalCancelled ==
    /\ phase \notin {"idle", "done", "cancelled"}
    /\ phase' = "cancelled" /\ awaited' = {} /\ memo' = Silence
    /\ UNCHANGED <<setup, route, norms, raw, history, guess, tries, traced, reinforced>>

RetrievalNext ==
    \/ Called
    \/ \E answer \in GateSays : RouteAnswered(answer)
    \/ NormsFound \/ GatePassed \/ RawFound \/ Guessed \/ HistoryFound \/ HydeFound
    \/ \E refined \in BOOLEAN : Checked(refined)
    \/ SearchFailed
    \/ \E ok \in BOOLEAN : Reinforced(ok)
    \/ RetrievalCancelled

RetrievalSpec == RetrievalInit /\ [][RetrievalNext]_retrievalVars

-----------------------------------------------------------------------------
Answering == phase \in {"reinforce", "done"}

\* The ids that are reinforced and traced as injected are those of the lines.
IdsAreTheLines ==
    Answering =>
        /\ memo.ids = Lines(memo.block) /\ memo.ids \subseteq traced
        /\ reinforced \subseteq memo.ids

\* What the block tells of another chat is a rule, unless there are no semantics.
TalesAreOwn ==
    setup.mode = "semantics" =>
        \A i \in memo.ids : Lore[i].kind = "tale" => Lore[i].chat = OwnChat

\* The rules that were found fit for the block are in it whatever became of the
\* history, and a rule that requires a tool is left out only for another one.
RulesAreTold ==
    (phase = "reinforce" /\ setup.mode = "semantics") =>
        /\ Lines(norms.block) \subseteq memo.ids
        /\ LET all == {i \in HitIds(norms) : Lore[i].kind = "forced"}
               kept == all \cap memo.ids
           IN  Cardinality(kept) = IF Cardinality(all) < MaxForced THEN Cardinality(all)
                                                                    ELSE MaxForced

\* A second search for history is made only when the first left the block empty.
RetriesAddOnly == tries = 2 => norms.block = <<>> /\ route

\* A block keeps the budget, but for the rules that require a tool.
BudgetIsKept ==
    \A result \in {norms, raw} :
        \/ Total(result.block) <= SectionBudget
        \/ Len(result.block) = 1 /\ IsForced(result.block[1])

(***************************************************************************)
(* The block tells what is counted: whatever was merged, retried, cut by   *)
(* the budget or failed, the ids that the request carries, that are        *)
(* reinforced and that the trace marks are exactly those of its lines,     *)
(* events are of this chat, the rules found are among them, and each       *)
(* search keeps its budget.                                                *)
(***************************************************************************)
RetrievalIsHonest == IdsAreTheLines /\ TalesAreOwn /\ RulesAreTold /\ RetriesAddOnly
                     /\ BudgetIsKept
=============================================================================
