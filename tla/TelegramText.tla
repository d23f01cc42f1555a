---------------------------- MODULE TelegramText ----------------------------
(***************************************************************************)
(* How a text is cut and laid out for Telegram (telegram_utils.py), as     *)
(* functions.  The state machine asks one of them one question.            *)
(*                                                                         *)
(* A text is a sequence of characters: "n" ends a line and "w", a wide one *)
(* such as an emoji, is one of two UTF-16 units.  Telegram's limit counts  *)
(* units.  Only the cuts of thinking count them; those of replies and      *)
(* previews count characters, and what they cut may be too long by its     *)
(* wide ones.  For the layout, a text is the sequence of its lines' kinds. *)
(***************************************************************************)
EXTENDS Integers, FiniteSets, Sequences, SequencesExt

CONSTANTS
    MessageLimit,           \* _TELEGRAM_MSG_LIMIT
    PreviewOverhead,        \* _PREVIEW_OVERHEAD
    ThinkingCap, ThinkingMin,   \* _THINKING_CAP, _THINKING_MIN
    CutLimits,              \* limits that texts are cut to, _STREAM_CHUNK_STEP among them
    MaxChars, MaxRows       \* bounds: sizes of the texts

LineKinds == {"fence", "quote", "blank", "heading", "item", "text"}

\* What is around thinking and reply in a preview is within the overhead, in units.
ASSUME LayoutAssumption ==
    /\ {MessageLimit, PreviewOverhead, ThinkingCap, ThinkingMin, MaxChars, MaxRows} \subseteq Nat
    /\ CutLimits \subseteq Nat \ {0, 1}
    /\ 5 <= PreviewOverhead /\ 2 <= ThinkingMin /\ ThinkingMin <= ThinkingCap
    /\ PreviewOverhead + ThinkingCap < MessageLimit

VARIABLES layoutAsked, layoutMade

layoutVars == <<layoutAsked, layoutMade>>

-----------------------------------------------------------------------------
(* Cutting                                                                  *)

\* The size of a text in characters or in UTF-16 units
Units(text, utf16) ==
    Len(text) + IF utf16 THEN Cardinality({i \in DOMAIN text : text[i] = "w"}) ELSE 0

\* Its characters that take two
Wide(text) == Units(text, TRUE) - Len(text)

\* Adds a character to the last part, or starts a part with it.
Extended(parts, c, starts) ==
    IF parts = <<>> \/ starts THEN Append(parts, <<c>>)
    ELSE [parts EXCEPT ![Len(parts)] = Append(@, c)]

TextLines(text) ==
    LET upTo[i \in 0..Len(text)] ==
            IF i = 0 THEN <<>>
            ELSE LET lines == upTo[i - 1]
                 IN  Extended(lines, text[i], lines # <<>> /\ Last(Last(lines)) = "n")
    IN  upTo[Len(text)]

\* _utf16_cut, again and again: as many characters as fit.
Forced(line, limit, utf16) ==
    LET upTo[i \in 0..Len(line)] ==
            IF i = 0 THEN <<>>
            ELSE LET cuts == upTo[i - 1]
                 IN  Extended(cuts, line[i],
                              cuts # <<>> /\ Units(Append(Last(cuts), line[i]), utf16) > limit)
    IN  upTo[Len(line)]

\* Mutant: a line that is cut by force is added to what is before it.
Split_joined(text, limit, utf16) ==
    LET lines == TextLines(text)
        upTo[i \in 0..Len(lines)] ==
            IF i = 0 THEN <<>>
            ELSE LET made == upTo[i - 1]
                     cuts == Forced(lines[i], limit, utf16)
                 IN  IF made # <<>> /\ Units(Last(made) \o Last(cuts), utf16) <= limit
                     THEN Front(made) \o Front(cuts) \o <<Last(made) \o Last(cuts)>> ELSE made \o cuts
    IN  upTo[Len(lines)]

\* _split_text, and _split_thinking in UTF-16 units: a chunk is whole lines, and
\* a line that is too long is cut; its rest is the start of the next chunk.
Split(text, limit, utf16) ==
    LET lines == TextLines(text)
        upTo[i \in 0..Len(lines)] ==
            IF i = 0 THEN <<>>
            ELSE LET made == upTo[i - 1]
                 IN  IF made # <<>> /\ Units(Last(made) \o lines[i], utf16) <= limit
                     THEN Append(Front(made), Last(made) \o lines[i])
                     ELSE made \o Forced(lines[i], limit, utf16)
    IN  upTo[Len(lines)]

\* _iter_stream_chunks: at the last line end of a step, unless it is its first character.
StreamChunks(text, step) ==
    LET end(start) ==
            LET most == IF start + step < Len(text) THEN start + step ELSE Len(text)
                ends == {i \in (start + 2)..most : text[i] = "n"}
            IN  IF most < Len(text) /\ ends # {} THEN Max(ends) ELSE most
        stop[k \in 0..Len(text)] == IF k = 0 THEN 0 ELSE end(stop[k - 1])
        last == Min({k \in 0..Len(text) : stop[k] = Len(text)})
    IN  [k \in 1..last |-> SubSeq(text, stop[k - 1] + 1, stop[k])]

\* Line ends at either end of a text
Edge(text) == IF \E i \in DOMAIN text : text[i] # "n"
              THEN Min({i \in DOMAIN text : text[i] # "n"}) - 1 ELSE Len(text)

\* Mutant: an entity keeps its place.
Stripped_unmoved(text, entity) ==
    LET kept == SubSeq(text, Edge(text) + 1, Len(text) - Edge(Reverse(text)))
        end == IF entity.to > Units(kept, TRUE) THEN Units(kept, TRUE) ELSE entity.to
    IN  [text |-> kept, entity |-> IF entity.from >= end THEN [from |-> 0, to |-> 0]
                                   ELSE [from |-> entity.from, to |-> end]]

\* _strip_chunk: the line ends at both ends go; an entity moves and is clipped.
Stripped(text, entity) ==
    LET before == Edge(text)
        kept == SubSeq(text, before + 1, Len(text) - Edge(Reverse(text)))
        from == IF entity.from < before THEN 0 ELSE entity.from - before
        to == IF entity.to - before > Units(kept, TRUE) THEN Units(kept, TRUE) ELSE entity.to - before
    IN  [text |-> kept, entity |-> IF from >= to
                                   THEN [from |-> 0, to |-> 0] ELSE [from |-> from, to |-> to]]

-----------------------------------------------------------------------------
(* The preview of a message that is still being written                     *)

Capped(n, cap) == IF n < cap THEN n ELSE cap
Raised(n, least) == IF n < least THEN least ELSE n

\* Mutant: the reply is not given what thinking does not need.
ThinkingBudget_fixed(reply) == ThinkingCap

\* What thinking may take: at most the cap, and less as the reply grows.
ThinkingBudget(reply) ==
    LET need == Capped(reply, MessageLimit - PreviewOverhead - ThinkingMin)
    IN  Raised(Capped(MessageLimit - need - PreviewOverhead, ThinkingCap), ThinkingMin)

ReplyBudget(reply) == MessageLimit - ThinkingBudget(reply) - PreviewOverhead

\* _build_stream_preview, in characters: the end of the thinking (_ring_tail) and
\* the start of the reply, with what is around them.
StreamPreview(reply, thinking) ==
    CASE thinking = 0 -> [tail |-> 0, reply |-> Capped(reply, MessageLimit), around |-> 0]
      [] thinking > 0 /\ reply = 0 ->
            [tail |-> Capped(thinking, MessageLimit - PreviewOverhead), reply |-> 0, around |-> 2]
      [] OTHER -> [tail |-> Capped(thinking, ThinkingBudget(reply)),
                   reply |-> Capped(reply, ReplyBudget(reply)), around |-> 4]

\* What Telegram counts of it when so many of what it shows are wide: what is
\* around thinking has a wide one too.
PreviewUnits(preview, wide) ==
    preview.tail + preview.reply + wide + preview.around + IF preview.around = 0 THEN 0 ELSE 1

-----------------------------------------------------------------------------
(* Its layout                                                               *)

Spaced == {"text", "quote", "code"}
Gap == [kind |-> "gap", rows |-> <<>>]

\* _append_preview_part
WithPart(page, kind, rows) ==
    LET gap == page.parts # <<>> /\ page.blank /\ {page.before, kind} \subseteq Spaced
    IN  [page EXCEPT !.parts = @ \o (IF gap THEN <<Gap>> ELSE <<>>) \o <<[kind |-> kind, rows |-> rows]>>,
                     !.before = kind, !.blank = FALSE]

\* flush_blockquote
Unquoted(page) ==
    IF page.quote = <<>> THEN page ELSE [WithPart(page, "quote", page.quote) EXCEPT !.quote = <<>>]

\* Mutant: a fence that is not closed is dropped with its lines.
Unfenced_open(page) == [page EXCEPT !.fenced = FALSE, !.code = <<>>]

\* flush_fence.  Its strip("\n") of the code's blank ends is left out.
Unfenced(page) ==
    IF page.fenced
    THEN [WithPart(page, "code", page.code) EXCEPT !.fenced = FALSE, !.code = <<>>] ELSE page

NewPage == [parts |-> <<>>, before |-> "none", blank |-> FALSE, fenced |-> FALSE, code |-> <<>>, quote |-> <<>>]

\* One line of _render_preview_blocks; row is its number.
LaidOut(page, row, kind) ==
    CASE kind = "fence" ->
            LET open == Unquoted(page)
            IN  IF page.fenced THEN Unfenced(open) ELSE [open EXCEPT !.fenced = TRUE, !.code = <<>>]
      [] kind # "fence" /\ page.fenced -> [page EXCEPT !.code = Append(@, row)]
      [] kind = "quote" /\ ~page.fenced -> [page EXCEPT !.quote = Append(@, row)]
      [] kind = "blank" /\ ~page.fenced -> [Unquoted(page) EXCEPT !.blank = TRUE]
      [] OTHER -> WithPart(Unquoted(page), kind, <<row>>)

\* _render_preview_blocks
Blocks(rows) ==
    LET page[i \in 0..Len(rows)] == IF i = 0 THEN NewPage ELSE LaidOut(page[i - 1], i, rows[i])
    IN  Unfenced(Unquoted(page[Len(rows)])).parts

-----------------------------------------------------------------------------
LayoutInit == layoutAsked = [kind |-> "none"] /\ layoutMade = <<>>

LayoutTexts == SeqOf({"a", "w", "n"}, MaxChars)

SplitsText ==
    \E text \in LayoutTexts, limit \in CutLimits, utf16 \in BOOLEAN :
        /\ layoutAsked' = [kind |-> "split", text |-> text, limit |-> limit, utf16 |-> utf16]
        /\ layoutMade' = Split(text, limit, utf16)

StreamsText ==
    \E text \in LayoutTexts, limit \in CutLimits :
        /\ layoutAsked' = [kind |-> "stream", text |-> text, limit |-> limit]
        /\ layoutMade' = StreamChunks(text, limit)

StripsText ==
    \E text \in LayoutTexts : \E from \in 0..Units(text, TRUE), to \in 0..Units(text, TRUE) :
        /\ from < to
        /\ layoutAsked' = [kind |-> "strip", text |-> text, entity |-> [from |-> from, to |-> to]]
        /\ layoutMade' = Stripped(text, [from |-> from, to |-> to])

Previews ==
    \E reply, thinking \in 0..(MessageLimit + 2) : \E wide \in 0..(reply + thinking) :
        /\ layoutMade' = StreamPreview(reply, thinking)
        /\ wide <= layoutMade'.tail + layoutMade'.reply
        /\ layoutAsked' = [kind |-> "preview", size |-> reply, thinking |-> thinking, wide |-> wide]

LaysOut ==
    \E rows \in SeqOf(LineKinds, MaxRows) :
        /\ layoutAsked' = [kind |-> "blocks", rows |-> rows]
        /\ layoutMade' = Blocks(rows)

LayoutNext ==
    layoutAsked.kind = "none" /\ (SplitsText \/ StreamsText \/ StripsText \/ Previews \/ LaysOut)

-----------------------------------------------------------------------------
\* Nothing is lost or added, and only a line that is too long is cut.  In Telegram's
\* units each part of a thinking block fits; that of a reply may be too long by its
\* wide characters.
CutsAreSound ==
    LET text == layoutAsked.text
        limit == layoutAsked.limit
        ends == [k \in DOMAIN layoutMade |-> Len(FlattenSeq(SubSeq(layoutMade, 1, k)))]
        lineAt(i) == [from |-> Max({0} \cup {j \in 1..(i - 1) : text[j] = "n"}),
                      to |-> Min({Len(text)} \cup {j \in i..Len(text) : text[j] = "n"})]
        whole(i) == SubSeq(text, lineAt(i).from + 1, lineAt(i).to)
        utf16 == layoutAsked.kind = "split" /\ layoutAsked.utf16
    IN  layoutAsked.kind \in {"split", "stream"} =>
            /\ FlattenSeq(layoutMade) = text
            /\ \A k \in DOMAIN layoutMade :
                /\ layoutMade[k] # <<>>
                /\ Units(layoutMade[k], TRUE) <= limit + IF utf16 THEN 0 ELSE Wide(layoutMade[k])
            /\ layoutAsked.kind = "split" =>
                \A k \in DOMAIN layoutMade :
                    text[ends[k]] = "n" \/ ends[k] = Len(text) \/ Units(whole(ends[k]), utf16) > limit

\* The characters that an entity marks are those it marked before.
EntitiesStay ==
    LET text == layoutAsked.text
        place(t, i) == Units(SubSeq(t, 1, i - 1), TRUE)
        marked(t, e) == {i \in DOMAIN t : e.from <= place(t, i) /\ place(t, i) < e.to}
    IN  layoutAsked.kind = "strip" =>
            LET kept == (Edge(text) + 1)..(Len(text) - Edge(Reverse(text)))
                even == {layoutAsked.entity.from, layoutAsked.entity.to}
                            \subseteq {place(text, i) : i \in 1..(Len(text) + 1)}
            IN  even => {i + Edge(text) : i \in marked(layoutMade.text, layoutMade.entity)}
                            = marked(text, layoutAsked.entity) \cap kept

\* In Telegram's units a preview is too long at most by the wide characters it shows;
\* a reply that leaves thinking its least is in it whole; and a reply that has grown
\* shows no less of itself.
PreviewsFit ==
    layoutAsked.kind = "preview" =>
        LET reply == layoutAsked.size
            thinking == layoutAsked.thinking
        IN  /\ PreviewUnits(layoutMade, layoutAsked.wide) <= MessageLimit + layoutAsked.wide
            /\ reply + (IF thinking = 0 THEN 0 ELSE PreviewOverhead + ThinkingMin) <= MessageLimit =>
                layoutMade.reply = reply
            /\ layoutMade.reply <= StreamPreview(reply + 1, thinking).reply

\* Every line that says something is on the page once and in its place, one
\* within a fence as code; and no gap is first, last or next to another.
PageIsWhole ==
    layoutAsked.kind = "blocks" =>
        LET rows == layoutAsked.rows
            inFence(i) == Cardinality({j \in 1..i : rows[j] = "fence"}) % 2 = 1
            said(i) == rows[i] # "fence" /\ (rows[i] # "blank" \/ inFence(i))
            due == FlattenSeq([i \in DOMAIN rows |-> IF said(i) THEN <<i>> ELSE <<>>])
        IN  /\ FlattenSeq([k \in DOMAIN layoutMade |-> layoutMade[k].rows]) = due
            /\ \A k \in DOMAIN layoutMade : \A i \in ToSet(layoutMade[k].rows) :
                layoutMade[k].kind = IF inFence(i) THEN "code" ELSE rows[i]
            /\ \A k \in DOMAIN layoutMade : layoutMade[k] = Gap =>
                /\ k \in 2..(Len(layoutMade) - 1)
                /\ {layoutMade[k - 1].kind, layoutMade[k + 1].kind} \subseteq Spaced

(***************************************************************************)
(* However a text is cut, stripped, previewed or laid out for Telegram,    *)
(* nothing of it is lost or moved.  A part of a thinking block fits into a *)
(* message; a part of a reply and a preview fit if they have no wide       *)
(* characters, and are else too long by no more than those.                *)
(***************************************************************************)
LayoutIsFaithful == CutsAreSound /\ EntitiesStay /\ PreviewsFit /\ PageIsWhole
=============================================================================
