------------------------------ MODULE FileText ------------------------------
(***************************************************************************)
(* What read_file shows of a file and what edit_file makes of a text       *)
(* (agent/tools/filesystem.py), as functions.  The state machine asks one  *)
(* of them one question.                                                   *)
(*                                                                         *)
(* A text is a sequence of characters: "r" and "n" end lines, any other is *)
(* text.  For reading, a file is the sequence of its lines' sizes.         *)
(***************************************************************************)
EXTENDS Integers, FiniteSets, FiniteSetsExt, Sequences, SequencesExt

CONSTANTS
    PageLines, PageBytes,   \* _READ_MAX_LINES, _READ_MAX_BYTES
    NumberBytes,            \* the line number before a line
    LineSizes, MaxLines,    \* the lines of the files that are read
    TextChars, MaxText, Olds, News,     \* what is edited, looked for and put in place
    Qualities               \* JPEG qualities that are tried

ASSUME TextAssumption ==
    /\ {PageLines, PageBytes, NumberBytes, MaxLines, MaxText, Qualities} \subseteq Nat
    /\ LineSizes \subseteq Nat \ {0} /\ {"r", "n"} \subseteq TextChars
    /\ Olds \cup News \subseteq Seq(TextChars)

VARIABLES question, answer

textVars == <<question, answer>>

-----------------------------------------------------------------------------
(* read_file                                                                *)

NoLimit == MaxLines + 1

\* _scan_text_file: limit lines after offset.
Sliced(lines, offset, limit) ==
    SubSeq(lines, offset + 1, IF offset + limit < Len(lines) THEN offset + limit ELSE Len(lines))

Numbered(n) == n + NumberBytes

\* The bytes of the first k numbered lines
Bytes(slice, k) ==
    LET upTo[i \in 0..Len(slice)] == IF i = 0 THEN 0 ELSE upTo[i - 1] + Numbered(slice[i])
    IN  upTo[k]

\* Mutant: the line that goes over the limit is still shown.
Fitting_over(slice) ==
    Max({k \in 0..Len(slice) : k <= PageLines /\ (k = 0 \/ Bytes(slice, k - 1) <= PageBytes)})

\* _truncate_numbered_lines: how many lines are shown.
Fitting(slice) == Max({k \in 0..Len(slice) : k <= PageLines /\ Bytes(slice, k) <= PageBytes})

\* ReadFileTool.execute for a text: the lines shown, and what the note tells.
Page(lines, offset, limit) ==
    LET slice == Sliced(lines, offset, limit)
        long == slice # <<>> /\ slice[1] > PageBytes
        shown == IF long THEN 0 ELSE Fitting(slice)
    IN  [shown |-> SubSeq(slice, 1, shown),
         note |-> CASE long -> "first line"
                    [] ~long /\ shown < Len(slice) -> "truncated"
                    [] OTHER -> IF offset > 0 \/ limit # NoLimit THEN "range" ELSE "none"]

\* _encode_image_for_model: the first quality that fits, or the last one.
Encoded(fits) ==
    IF \E q \in DOMAIN fits : fits[q] THEN Min({q \in DOMAIN fits : fits[q]}) ELSE Len(fits)

-----------------------------------------------------------------------------
(* edit_file                                                                *)

At(part, text) ==
    {i \in 1..(Len(text) - Len(part) + 1) : SubSeq(text, i, i + Len(part) - 1) = part}

\* str.count: the matches from the left, none within the one before.
Matches(part, text) ==
    LET counts[i \in 1..(Len(text) + 1)] ==
            /\ i \in At(part, text)
            /\ \A j \in 1..(i - 1) : counts[j] => j + Len(part) <= i
    IN  {i \in At(part, text) : counts[i]}

\* str.replace: the matches at these places; one of nothing is before a character or at the end.
Replaced(text, places, part, new) ==
    LET within(i) == \E p \in places : p <= i /\ i < p + Len(part)
    IN  FlattenSeq([i \in 1..(Len(text) + 1) |->
            (IF i \in places THEN new ELSE <<>>)
            \o (IF i > Len(text) \/ within(i) THEN <<>> ELSE <<text[i]>>)])

\* _supports_crlf_compat
CrlfOnly(text) ==
    /\ At(<<"r", "n">>, text) # {}
    /\ \A i \in DOMAIN text :
        /\ text[i] = "n" => i > 1 /\ text[i - 1] = "r"
        /\ text[i] = "r" => i < Len(text) /\ text[i + 1] = "n"

Crlf(text) == FlattenSeq([i \in DOMAIN text |-> IF text[i] = "n" THEN <<"r", "n">> ELSE <<text[i]>>])

\* Mutant: only what is looked for gets the file's line ends.
Edit_oldOnly(text, old, new, all) ==
    LET compat == At(old, text) = {} /\ CrlfOnly(text) /\ At(Crlf(old), text) # {}
        part == IF compat THEN Crlf(old) ELSE old
        found == Matches(part, text)
    IN  CASE found = {} -> [made |-> "not found", text |-> text]
          [] Cardinality(found) > 1 /\ ~all -> [made |-> "ambiguous", text |-> text]
          [] OTHER -> [made |-> "edited", text |-> Replaced(text, found, part, new)]

\* _edit: the match is literal or, in a file of CRLF lines, with its line ends.
Edit(text, old, new, all) ==
    LET compat == At(old, text) = {} /\ CrlfOnly(text) /\ At(Crlf(old), text) # {}
        part == IF compat THEN Crlf(old) ELSE old
        found == Matches(part, text)
    IN  CASE found = {} -> [made |-> "not found", text |-> text]
          [] Cardinality(found) > 1 /\ ~all -> [made |-> "ambiguous", text |-> text]
          [] OTHER -> [made |-> "edited",
                       text |-> Replaced(text, found, part, IF compat THEN Crlf(new) ELSE new)]

-----------------------------------------------------------------------------
TextInit == question = [kind |-> "none"] /\ answer = [made |-> "none"]

ReadText ==
    \E lines \in SeqOf(LineSizes, MaxLines), offset \in 0..MaxLines, limit \in 1..NoLimit :
        /\ question' = [kind |-> "read", lines |-> lines, offset |-> offset, limit |-> limit]
        /\ answer' = Page(lines, offset, limit)

ReadImage ==
    \E fits \in [1..Qualities -> BOOLEAN] :
        /\ question' = [kind |-> "image", fits |-> fits] /\ answer' = [quality |-> Encoded(fits)]

EditText ==
    \E text \in SeqOf(TextChars, MaxText), old \in Olds, new \in News, all \in BOOLEAN :
        /\ question' = [kind |-> "edit", text |-> text, old |-> old, new |-> new, all |-> all]
        /\ answer' = Edit(text, old, new, all)

TextNext == question.kind = "none" /\ (ReadText \/ ReadImage \/ EditText)

TextSpec == TextInit /\ [][TextNext]_textVars

-----------------------------------------------------------------------------
(***************************************************************************)
(* A page shows the lines from its offset on, within the limits, and says  *)
(* so when it leaves out lines that were asked for; and it leaves one out  *)
(* only if it does not fit.                                                *)
(***************************************************************************)
PageIsHonest ==
    question.kind = "read" =>
        LET lines == question.lines
            k == Len(answer.shown)
            asked == {i \in DOMAIN lines : i > question.offset
                                            /\ i <= question.offset + question.limit}
        IN  /\ \A i \in 1..k : answer.shown[i] = lines[question.offset + i]
            /\ k <= PageLines /\ Bytes(answer.shown, k) <= PageBytes
            /\ (k < Cardinality(asked)) <=> answer.note \in {"truncated", "first line"}
            /\ answer.note = "truncated" =>
                \/ k = PageLines
                \/ Bytes(answer.shown, k) + Numbered(lines[question.offset + k + 1]) > PageBytes
            /\ k < Len(lines) => answer.note # "none"

(***************************************************************************)
(* An edit that is not to replace all replaces the one match there is (two *)
(* that overlap count as one) and leaves the rest of the text; it refuses  *)
(* to choose; and a file of CRLF lines stays one where the match took its  *)
(* line ends and the texts of the call brought none of their own.          *)
(***************************************************************************)
Spliced(text, i, part, new) ==
    SubSeq(text, 1, i - 1) \o new \o SubSeq(text, i + Len(part), Len(text))

EditIsLocal ==
    question.kind = "edit" =>
        LET text == question.text
            old == question.old
            new == question.new
        IN  /\ answer.made # "edited" => answer.text = text
            /\ answer.made = "not found" => At(old, text) = {}
            /\ answer.made = "edited" /\ ~question.all =>
                \/ \E i \in At(old, text) :
                    /\ \A j \in At(old, text) : i <= j /\ (j < i + Len(old) \/ j = i)
                    /\ answer.text = Spliced(text, i, old, new)
                \/ \E i \in At(Crlf(old), text) :
                    answer.text = Spliced(text, i, Crlf(old), Crlf(new))
            /\ answer.made = "edited" /\ CrlfOnly(text) /\ At(old, text) = {}
               /\ "r" \notin ToSet(old) \cup ToSet(new) =>
                answer.text = <<>> \/ CrlfOnly(answer.text)
                    \/ ToSet(answer.text) \cap {"r", "n"} = {}
=============================================================================
