----------------------------- MODULE TextLemmas -----------------------------
(***************************************************************************)
(* The texts that the program reads, edits, cuts, strips, previews and     *)
(* lays out: FileText and TelegramText compute them by functions of the    *)
(* numbers up to a text's length, and what holds of such a function is     *)
(* proved from one number to the next.                                     *)
(***************************************************************************)
EXTENDS TelegramText, Recall_proofs

-----------------------------------------------------------------------------
(* FileText: Functions of the numbers up to one                             *)

\* The functions of the numbers up to n that begin with b, and go on by F.
Recursions(S, b, n, F) ==
    {g \in [0..n -> S] : g[0] = b /\ \A i \in 1..n : g[i] = F[<<g[i - 1], i>>]}

\* There is one.
LEMMA Recursion ==
  ASSUME NEW S, NEW b \in S, NEW n \in Nat, NEW F \in [S \X (1..n) -> S]
  PROVE  \E g : g \in Recursions(S, b, n, F)
<1> DEFINE Is(g, m) == g \in [0..m -> S] /\ g[0] = b /\ \A i \in 1..m : g[i] = F[<<g[i - 1], i>>]
           Has(m) == \E g : Is(g, m)
           Bad == {m \in 0..n : ~Has(m)}
<1>1. Has(n)
  <2> SUFFICES ASSUME Bad # {} PROVE FALSE
    <3> HIDE DEF Has
    <3> QED OBVIOUS
  <2>1. Bad \in SUBSET Nat
    <3> HIDE DEF Has
    <3> QED OBVIOUS
  <2>2. PICK m \in Bad : \A k \in Bad : m <= k
    <3> HIDE DEF Bad
    <3> QED BY <2>1, LeastOf
  <2>3. m \in 0..n /\ ~Has(m) /\ m \in Nat
    BY <2>1, <2>2
  <2>4. m # 0
    <3> SUFFICES ASSUME m = 0 PROVE FALSE
      OBVIOUS
    <3> DEFINE g == [i \in 0..0 |-> b]
    <3>1. Is(g, 0)
      OBVIOUS
    <3> HIDE DEF Is
    <3> QED BY <2>3, <3>1
  <2>5. m - 1 \in 0..n /\ Has(m - 1)
    <3>1. m - 1 \in 0..n /\ ~(m <= m - 1)
      BY <2>3, <2>4
    <3> HIDE DEF Has
    <3> QED BY <2>2, <3>1
  <2>6. PICK f : Is(f, m - 1)
    BY <2>5
  <2> DEFINE new == F[<<f[m - 1], m>>]
             g == [i \in 0..m |-> IF i = m THEN new ELSE f[i]]
  <2>7. new \in S
    <3>1. m - 1 \in 0..(m - 1) /\ m \in 1..n
      BY <2>3, <2>4
    <3>2. <<f[m - 1], m>> \in S \X (1..n)
      BY <2>6, <3>1
    <3> QED BY <3>2
  <2> HIDE DEF new
  <2>8. g \in [0..m -> S] /\ g[0] = b
    <3>1. \A i \in 0..m : i # m => i \in 0..(m - 1)
      BY <2>3
    <3>2. 0 \in 0..m /\ 0 # m
      BY <2>3, <2>4
    <3> QED BY <2>6, <2>7, <3>1, <3>2
  <2>9. ASSUME NEW i \in 1..m PROVE g[i] = F[<<g[i - 1], i>>]
    <3>1. i - 1 \in 0..m /\ i - 1 # m /\ i \in 0..m /\ g[i - 1] = f[i - 1]
      <4>1. i - 1 \in 0..m /\ i - 1 # m /\ i \in 0..m
        BY <2>3
      <4> QED BY <4>1
    <3>2. CASE i = m
      BY <3>1, <3>2 DEF new
    <3>3. CASE i # m
      <4>1. i \in 1..(m - 1)
        BY <2>3, <3>3
      <4> QED BY <2>6, <3>1, <3>3, <4>1
    <3> QED BY <3>2, <3>3
  <2> HIDE DEF g
  <2>10. Is(g, m)
    BY <2>8, <2>9
  <2> HIDE DEF Is
  <2> QED BY <2>3, <2>10
<1>2. PICK g : Is(g, n)
  BY <1>1
<1> QED BY <1>2 DEF Recursions

\* What holds of 0, and of each number up to n when of the one before, holds of all.
LEMMA Upward ==
  ASSUME NEW n \in Nat, NEW S, 0 \in S, \A i \in 1..n : i - 1 \in S => i \in S
  PROVE  \A i \in 0..n : i \in S
<1> DEFINE Bad == {i \in 0..n : i \notin S}
<1> SUFFICES ASSUME Bad # {} PROVE FALSE
  OBVIOUS
<1>1. Bad \in SUBSET Nat
  OBVIOUS
<1>2. PICK m \in Bad : \A k \in Bad : m <= k
  <2> HIDE DEF Bad
  <2> QED BY <1>1, LeastOf
<1>3. m \in 0..n /\ m \notin S /\ m # 0
  BY <1>2
<1>4. m \in 1..n /\ m - 1 \in 0..n /\ ~(m <= m - 1)
  BY <1>3
<1>5. m - 1 \in S
  BY <1>2, <1>4
<1> QED BY <1>3, <1>4, <1>5

-----------------------------------------------------------------------------
(* FileText: Pages                                                          *)

\* The bytes of the first lines are counted from line to line.
LEMMA BytesAre ==
  ASSUME NEW s \in Seq(Nat)
  PROVE  /\ Bytes(s, 0) = 0
         /\ \A k \in 1..Len(s) : Bytes(s, k) = Bytes(s, k - 1) + Numbered(s[k])
         /\ \A k \in 0..Len(s) : Bytes(s, k) \in Nat
<1> DEFINE n == Len(s)
           Is(g) == g = [i \in 0..n |-> IF i = 0 THEN 0 ELSE g[i - 1] + Numbered(s[i])]
           F == [p \in Nat \X (1..n) |-> p[1] + Numbered(s[p[2]])]
           up == CHOOSE g : Is(g)
<1>1. n \in Nat /\ \A i \in 1..n : Numbered(s[i]) \in Nat
  BY TextAssumption DEF Numbered
<1>2. F \in [Nat \X (1..n) -> Nat] /\ \A x \in Nat, i \in 1..n : F[<<x, i>>] = x + Numbered(s[i])
  <2> DEFINE num(i) == Numbered(s[i])
  <2> HIDE DEF num, n
  <2>1. [p \in Nat \X (1..n) |-> p[1] + num(p[2])] \in [Nat \X (1..n) -> Nat]
    BY <1>1 DEF num
  <2>2. \A x \in Nat, i \in 1..n : [p \in Nat \X (1..n) |-> p[1] + num(p[2])][<<x, i>>] = x + num(i)
    OBVIOUS
  <2> QED BY <2>1, <2>2 DEF num
<1> HIDE DEF F
<1>3. PICK g \in [0..n -> Nat] : g[0] = 0 /\ \A i \in 1..n : g[i] = F[<<g[i - 1], i>>]
  <2>1. 0 \in Nat
    OBVIOUS
  <2>2. n \in Nat /\ F \in [Nat \X (1..n) -> Nat]
    BY <1>1, <1>2
  <2> HIDE DEF n
  <2>3. \E g : g \in Recursions(Nat, 0, n, F)
    BY <2>1, <2>2, Recursion
  <2> QED BY <2>3 DEF Recursions
<1>4. Is(g)
  <2>1. ASSUME NEW i \in 0..n, i # 0 PROVE F[<<g[i - 1], i>>] = g[i - 1] + Numbered(s[i])
    <3>1. i - 1 \in 0..n /\ i \in 1..n
      BY <1>1, <2>1
    <3> QED BY <1>2, <3>1
  <2>2. \A i \in 0..n : g[i] = IF i = 0 THEN 0 ELSE g[i - 1] + Numbered(s[i])
    <3>1. \A i \in 0..n : i # 0 => i \in 1..n
      BY <1>1
    <3> QED BY <1>3, <2>1, <3>1
  <2>3. g = [i \in 0..n |-> g[i]]
    BY <1>3
  <2> QED BY <2>2, <2>3
<1>5. Is(up)
  <2> HIDE DEF Is
  <2> QED BY <1>4
<1>6. \A k : Bytes(s, k) = up[k]
  BY DEF Bytes
<1>7. /\ up[0] = 0 /\ \A k \in 1..n : up[k] = up[k - 1] + Numbered(s[k])
  <2> HIDE DEF up
  <2>1. 0 \in 0..n /\ \A k \in 1..n : k \in 0..n /\ k # 0
    BY <1>1
  <2> QED BY <1>5, <2>1
<1> HIDE DEF up, Is
<1>8. \A k \in 0..n : up[k] \in Nat
  <2> DEFINE Bad == {k \in 0..n : up[k] \notin Nat}
  <2> SUFFICES ASSUME Bad # {} PROVE FALSE
    OBVIOUS
  <2>1. Bad \in SUBSET Nat
    OBVIOUS
  <2>2. PICK k \in Bad : \A m \in Bad : k <= m
    <3> HIDE DEF Bad
    <3> QED BY <2>1, LeastOf
  <2>3. k \in 0..n /\ up[k] \notin Nat /\ k # 0
    BY <1>7, <2>2
  <2>4. k - 1 \in 0..n /\ ~(k <= k - 1) /\ k \in 1..n
    BY <1>1, <2>3
  <2>5. up[k - 1] \in Nat
    BY <2>2, <2>4
  <2> QED BY <1>1, <1>7, <2>3, <2>4, <2>5
<1> QED BY <1>6, <1>7, <1>8

\* The lines that are read: those from the offset on, as many as are asked for.
LEMMA SlicedIs ==
  ASSUME NEW lines \in Seq(Nat), NEW offset \in Nat, NEW limit \in Nat
  PROVE  /\ Sliced(lines, offset, limit) \in Seq(Nat)
         /\ Len(Sliced(lines, offset, limit)) \in Nat
         /\ Len(Sliced(lines, offset, limit)) <= limit
         /\ Len(Sliced(lines, offset, limit)) > 0 => offset + Len(Sliced(lines, offset, limit)) <= Len(lines)
         /\ Len(Sliced(lines, offset, limit)) < limit => Len(lines) <= offset + Len(Sliced(lines, offset, limit))
         /\ \A i \in 1..Len(Sliced(lines, offset, limit)) :
                offset + i \in 1..Len(lines) /\ Sliced(lines, offset, limit)[i] = lines[offset + i]
<1> DEFINE end == IF offset + limit < Len(lines) THEN offset + limit ELSE Len(lines)
           s == SubSeq(lines, offset + 1, end)
<1>1. Len(lines) \in Nat /\ end \in Nat /\ end <= Len(lines) /\ end <= offset + limit
      /\ (end = Len(lines) \/ end = offset + limit)
  OBVIOUS
<1>2. Sliced(lines, offset, limit) = s
  BY DEF Sliced
<1> HIDE DEF end
<1>3. /\ s \in Seq(Nat) /\ Len(s) = (IF offset + 1 <= end THEN end - offset ELSE 0)
      /\ \A i \in 1..Len(s) : s[i] = lines[offset + i]
  <2> DEFINE a == offset + 1
  <2>1. a \in Int /\ end \in Int /\ \A i \in a..end : lines[i] \in Nat
    BY <1>1
  <2>2. /\ SubSeq(lines, a, end) \in Seq(Nat)
        /\ Len(SubSeq(lines, a, end)) = IF a <= end THEN end - a + 1 ELSE 0
        /\ \A i \in 1..(end - a + 1) : SubSeq(lines, a, end)[i] = lines[a + i - 1]
    <3> HIDE DEF a, s
    <3> QED BY <2>1, SubSeqProperties
  <2> HIDE DEF s
  <2>3. \A i \in 1..Len(s) : i \in 1..(end - a + 1) /\ a + i - 1 = offset + i
    BY <2>1, <2>2 DEF s
  <2> QED BY <2>1, <2>2, <2>3 DEF s
<1> HIDE DEF s
<1> QED BY <1>1, <1>2, <1>3

\* How many of them are asked for.
LEMMA AskedAre ==
  ASSUME NEW lines \in Seq(Nat), NEW offset \in Nat, NEW limit \in Nat
  PROVE  Cardinality({i \in DOMAIN lines : i > offset /\ i <= offset + limit}) = Len(Sliced(lines, offset, limit))
<1> DEFINE k == Len(Sliced(lines, offset, limit))
           asked == {i \in DOMAIN lines : i > offset /\ i <= offset + limit}
<1>1. /\ k \in Nat /\ k <= limit /\ (k > 0 => offset + k <= Len(lines)) /\ (k < limit => Len(lines) <= offset + k)
  BY SlicedIs
<1>2. Len(lines) \in Nat /\ DOMAIN lines = 1..Len(lines)
  OBVIOUS
<1> HIDE DEF k
<1>3. asked = (offset + 1)..(offset + k)
  <2>1. ASSUME NEW i \in asked PROVE i \in (offset + 1)..(offset + k)
    <3>1. i \in 1..Len(lines) /\ i > offset /\ i <= offset + limit
      BY <1>2
    <3>2. i <= offset + k
      BY <1>1, <1>2, <3>1
    <3> QED BY <1>1, <3>1, <3>2
  <2>2. ASSUME NEW i \in (offset + 1)..(offset + k) PROVE i \in asked
    BY <1>1, <1>2
  <2> QED BY <2>1, <2>2
<1>4. Cardinality((offset + 1)..(offset + k)) = k
  <2>1. offset + 1 \in Int /\ offset + k \in Int
    BY <1>1
  <2> DEFINE a == offset + 1  b == offset + k
  <2> HIDE DEF a, b
  <2>2. Cardinality(a..b) = IF a > b THEN 0 ELSE b - a + 1
    BY <2>1, FS_Interval DEF a, b
  <2> QED BY <1>1, <2>2 DEF a, b
<1> QED BY <1>3, <1>4 DEF k

\* The bytes of the first lines do not depend on those after them.
LEMMA BytesOfFront ==
  ASSUME NEW s \in Seq(Nat), NEW k \in 0..Len(s)
  PROVE  Bytes(SubSeq(s, 1, k), k) = Bytes(s, k)
<1> DEFINE f == SubSeq(s, 1, k)
<1>1. Len(s) \in Nat /\ f \in Seq(Nat) /\ Len(f) = k /\ \A i \in 1..k : f[i] = s[i]
  OBVIOUS
<1> HIDE DEF f
<1>2. /\ Bytes(f, 0) = 0 /\ \A i \in 1..k : Bytes(f, i) = Bytes(f, i - 1) + Numbered(f[i])
  BY <1>1, BytesAre
<1>3. /\ Bytes(s, 0) = 0 /\ \A i \in 1..k : Bytes(s, i) = Bytes(s, i - 1) + Numbered(s[i])
  <2>1. 1..k \subseteq 1..Len(s)
    BY <1>1
  <2> QED BY <2>1, BytesAre
<1> DEFINE Bad == {i \in 0..k : Bytes(f, i) # Bytes(s, i)}
<1>4. Bad = {}
  <2> SUFFICES ASSUME Bad # {} PROVE FALSE
    OBVIOUS
  <2>1. Bad \in SUBSET Nat
    OBVIOUS
  <2>2. PICK i \in Bad : \A m \in Bad : i <= m
    <3> HIDE DEF Bad
    <3> QED BY <2>1, LeastOf
  <2>3. i \in 0..k /\ Bytes(f, i) # Bytes(s, i) /\ i # 0
    BY <1>2, <1>3, <2>2
  <2>4. i \in 1..k /\ i - 1 \in 0..k /\ ~(i <= i - 1)
    BY <2>3
  <2>5. Bytes(f, i - 1) = Bytes(s, i - 1)
    BY <2>2, <2>4
  <2> QED BY <1>1, <1>2, <1>3, <2>3, <2>4, <2>5
<1>5. k \in 0..k
  BY <1>1
<1> QED BY <1>4, <1>5 DEF f

\* As many lines are shown as fit, and the next one would not.
LEMMA FittingIs ==
  ASSUME NEW s \in Seq(Nat)
  PROVE  /\ Fitting(s) \in 0..Len(s) /\ Fitting(s) <= PageLines /\ Bytes(s, Fitting(s)) <= PageBytes
         /\ Fitting(s) < Len(s) =>
                Fitting(s) = PageLines \/ Bytes(s, Fitting(s)) + Numbered(s[Fitting(s) + 1]) > PageBytes
<1> DEFINE fits == {k \in 0..Len(s) : k <= PageLines /\ Bytes(s, k) <= PageBytes}
           m == Max(fits)
<1>1. Len(s) \in Nat /\ PageLines \in Nat /\ PageBytes \in Nat
  BY TextAssumption
<1>2. 0 \in fits
  BY <1>1, BytesAre
<1>3. m \in fits /\ \A k \in fits : k <= m
  <2>1. fits \in SUBSET (0..Len(s)) /\ fits # {}
    BY <1>2
  <2> HIDE DEF fits
  <2>2. PICK x \in fits : \A y \in fits : y <= x
    BY <1>1, <2>1, GreatestBelow
  <2>3. \A y \in fits : x >= y
    BY <1>1, <2>1, <2>2
  <2>4. m \in fits /\ \A y \in fits : m >= y
    BY <2>2, <2>3 DEF Max
  <2> QED BY <1>1, <2>1, <2>4
<1>4. Fitting(s) = m
  BY DEF Fitting
<1>5. m \in 0..Len(s) /\ m <= PageLines /\ Bytes(s, m) <= PageBytes
  <2> HIDE DEF m
  <2> QED BY <1>3
<1> HIDE DEF m
<1>6. ASSUME m < Len(s) PROVE m = PageLines \/ Bytes(s, m) + Numbered(s[m + 1]) > PageBytes
  <2>1. m + 1 \in 1..Len(s) /\ m + 1 \in 0..Len(s) /\ ~(m + 1 <= m) /\ m + 1 - 1 = m
    BY <1>1, <1>5, <1>6
  <2>2. m + 1 \notin fits
    <3> HIDE DEF fits
    <3> QED BY <1>3, <2>1
  <2>3. Bytes(s, m + 1) = Bytes(s, m) + Numbered(s[m + 1]) /\ Bytes(s, m + 1) \in Nat
    <3> DEFINE j == m + 1
    <3>1. j \in 1..Len(s) /\ j \in 0..Len(s) /\ j - 1 = m
      BY <1>1, <1>5, <2>1
    <3> HIDE DEF j
    <3>2. Bytes(s, j) = Bytes(s, j - 1) + Numbered(s[j]) /\ Bytes(s, j) \in Nat
      BY <3>1, BytesAre
    <3> QED BY <3>1, <3>2 DEF j
  <2>4. ~(m + 1 <= PageLines) \/ ~(Bytes(s, m + 1) <= PageBytes)
    BY <2>1, <2>2
  <2> QED BY <1>1, <1>5, <2>3, <2>4
<1> QED BY <1>4, <1>5, <1>6

\* A sequence of a bounded length is a sequence.
LEMMA BoundedSeqs ==
  ASSUME NEW S, NEW n \in Nat, NEW s \in SeqOf(S, n)
  PROVE  s \in Seq(S) /\ Len(s) <= n
<1>1. PICK m \in 0..n : s \in [1..m -> S]
  BY DEF SeqOf
<1>2. m \in Nat /\ m <= n
  OBVIOUS
<1> QED BY <1>1, <1>2

\* What is read, and what it was edited to, are answered as the code does.
TextInv ==
    \/ question.kind \in {"none", "image"}
    \/ /\ question.kind = "read"
       /\ question.lines \in Seq(Nat) /\ Len(question.lines) <= MaxLines
       /\ question.offset \in Nat /\ question.limit \in 1..NoLimit
       /\ answer = Page(question.lines, question.offset, question.limit)
    \/ /\ question.kind = "edit"
       /\ {question.text, question.old, question.new} \subseteq Seq(TextChars)
       /\ answer = Edit(question.text, question.old, question.new, question.all)

\* Nothing was read or edited yet.
LEMMA TextBegins == TextInit => TextInv
BY DEF TextInit, TextInv

\* A step asks one question and answers it.
LEMMA TextStep ==
  ASSUME TextInv, [TextNext]_textVars
  PROVE  TextInv'
<1>1. CASE ReadText
  <2>1. PICK lines \in SeqOf(LineSizes, MaxLines), offset \in 0..MaxLines, limit \in 1..NoLimit :
            /\ question' = [kind |-> "read", lines |-> lines, offset |-> offset, limit |-> limit]
            /\ answer' = Page(lines, offset, limit)
    BY <1>1 DEF ReadText
  <2>2. lines \in Seq(LineSizes) /\ Len(lines) <= MaxLines
    BY TextAssumption, BoundedSeqs
  <2>3. lines \in Seq(Nat)
    <3>1. LineSizes \subseteq Nat
      BY TextAssumption
    <3>0. lines \in Seq(LineSizes)
      BY <2>2
    <3>2. \A i \in 1..Len(lines) : lines[i] \in Nat
      BY <3>0, <3>1, ElementOfSeq
    <3>3. lines \in [1..Len(lines) -> Nat] /\ Len(lines) \in Nat
      BY <2>2, <3>2
    <3> QED BY <3>3
  <2>4. offset \in Nat
    BY TextAssumption
  <2>5. /\ question'.kind = "read" /\ question'.lines = lines /\ question'.offset = offset
        /\ question'.limit = limit
    BY <2>1
  <2> QED BY <2>1, <2>2, <2>3, <2>4, <2>5 DEF TextInv
<1>2. CASE ReadImage
  BY <1>2 DEF ReadImage, TextInv
<1>3. CASE EditText
  <2>1. PICK text \in SeqOf(TextChars, MaxText), old \in Olds, new \in News, all \in BOOLEAN :
            /\ question' = [kind |-> "edit", text |-> text, old |-> old, new |-> new, all |-> all]
            /\ answer' = Edit(text, old, new, all)
    BY <1>3 DEF EditText
  <2>2. text \in Seq(TextChars) /\ old \in Seq(TextChars) /\ new \in Seq(TextChars)
    BY TextAssumption, BoundedSeqs
  <2>5. /\ question'.kind = "edit" /\ question'.text = text /\ question'.old = old
        /\ question'.new = new /\ question'.all = all
    BY <2>1
  <2> QED BY <2>1, <2>2, <2>5 DEF TextInv
<1>4. CASE UNCHANGED textVars
  BY <1>4 DEF textVars, TextInv
<1> QED BY <1>1, <1>2, <1>3, <1>4 DEF TextNext

(***************************************************************************)
(* What is read is what was asked for, it fits, and the rest of a file is  *)
(* announced by where it goes on (_format_page_result).                    *)
(***************************************************************************)
LEMMA PagesAreHonest == TextInv => PageIsHonest
<1> SUFFICES ASSUME TextInv, question.kind = "read" PROVE PageIsHonest
  BY DEF PageIsHonest
<1> DEFINE lines == question.lines
           offset == question.offset
           limit == question.limit
           s == Sliced(lines, offset, limit)
           long == s # <<>> /\ s[1] > PageBytes
           shown == IF long THEN 0 ELSE Fitting(s)
           asked == {i \in DOMAIN lines : i > offset /\ i <= offset + limit}
           k == Len(answer.shown)
<1>1. /\ lines \in Seq(Nat) /\ Len(lines) <= MaxLines /\ offset \in Nat /\ limit \in Nat
      /\ limit <= MaxLines + 1 /\ MaxLines \in Nat /\ Len(lines) \in Nat
      /\ answer = Page(lines, offset, limit)
  BY TextAssumption DEF TextInv, NoLimit
<1>2. /\ answer.shown = SubSeq(s, 1, shown)
      /\ answer.note = CASE long -> "first line"
                    [] ~long /\ shown < Len(s) -> "truncated"
                    [] OTHER -> IF offset > 0 \/ limit # NoLimit THEN "range" ELSE "none"
  BY <1>1 DEF Page
<1> HIDE DEF lines, offset, limit
<1>3. /\ s \in Seq(Nat) /\ Len(s) \in Nat /\ Len(s) <= limit
      /\ (Len(s) > 0 => offset + Len(s) <= Len(lines)) /\ (Len(s) < limit => Len(lines) <= offset + Len(s))
      /\ \A i \in 1..Len(s) : s[i] = lines[offset + i]
  BY <1>1, SlicedIs
<1>4. Cardinality(asked) = Len(s)
  BY <1>1, AskedAre
<1> HIDE DEF s
<1>5. /\ shown \in 0..Len(s) /\ shown <= PageLines /\ Bytes(s, shown) <= PageBytes
      /\ ~long /\ shown < Len(s) =>
                shown = PageLines \/ Bytes(s, shown) + Numbered(s[shown + 1]) > PageBytes
  <2>1. 0 \in 0..Len(s) /\ 0 <= PageLines /\ 0 <= PageBytes
    BY <1>3, TextAssumption
  <2>2. Bytes(s, 0) = 0
    BY <1>3, BytesAre
  <2> QED BY <1>3, <2>1, <2>2, FittingIs
<1>6. long => shown = 0 /\ Len(s) > 0
  BY <1>3
<1> HIDE DEF long, shown
<1>7. k = shown /\ (\A i \in 1..k : answer.shown[i] = lines[offset + i]) /\ Bytes(answer.shown, k) = Bytes(s, shown)
  <2>1. /\ SubSeq(s, 1, shown) \in Seq(Nat) /\ Len(SubSeq(s, 1, shown)) = shown
        /\ \A i \in 1..shown : SubSeq(s, 1, shown)[i] = s[i]
    BY <1>3, <1>5
  <2>2. Bytes(SubSeq(s, 1, shown), shown) = Bytes(s, shown)
    BY <1>3, <1>5, BytesOfFront
  <2>3. k = shown
    BY <1>2, <2>1
  <2>4. \A i \in 1..k : i \in 1..Len(s) /\ i \in 1..shown
    BY <1>3, <1>5, <2>3
  <2> QED BY <1>2, <1>3, <2>1, <2>2, <2>3, <2>4
<1> HIDE DEF k
<1>8. (k < Cardinality(asked)) <=> answer.note \in {"truncated", "first line"}
  <2>1. CASE long
    BY <1>2, <1>3, <1>4, <1>6, <1>7, <2>1
  <2>2. CASE ~long /\ shown < Len(s)
    BY <1>2, <1>4, <1>7, <2>2
  <2>3. CASE ~long /\ ~(shown < Len(s))
    BY <1>2, <1>4, <1>7, <2>3
  <2> QED BY <2>1, <2>2, <2>3
<1>9. answer.note = "truncated" => k = PageLines \/ Bytes(answer.shown, k) + Numbered(lines[offset + k + 1]) > PageBytes
  <2> SUFFICES ASSUME answer.note = "truncated"
               PROVE  k = PageLines \/ Bytes(answer.shown, k) + Numbered(lines[offset + k + 1]) > PageBytes
    OBVIOUS
  <2>1. ~long /\ shown < Len(s)
    BY <1>2
  <2>2. shown + 1 \in 1..Len(s) /\ offset + (shown + 1) = offset + k + 1
    BY <1>1, <1>3, <1>5, <1>7, <2>1
  <2>3. s[shown + 1] = lines[offset + k + 1]
    BY <1>3, <2>2
  <2> QED BY <1>5, <1>7, <2>1, <2>3
<1>10. k < Len(lines) => answer.note # "none"
  <2> SUFFICES ASSUME k < Len(lines), answer.note = "none" PROVE FALSE
    OBVIOUS
  <2>1. ~long /\ ~(shown < Len(s)) /\ ~(offset > 0 \/ limit # NoLimit)
    BY <1>2
  <2>2. offset = 0 /\ limit = MaxLines + 1
    BY <1>1, <2>1 DEF NoLimit
  <2>3. Len(s) <= shown /\ Len(lines) <= Len(s)
    <3>1. CASE Len(s) < limit
      BY <1>1, <1>3, <1>5, <2>1, <2>2, <3>1
    <3>2. CASE ~(Len(s) < limit)
      BY <1>1, <1>3, <1>5, <2>1, <2>2, <3>2
    <3> QED BY <3>1, <3>2
  <2> QED BY <1>1, <1>3, <1>5, <1>7, <2>3
<1> QED
  <2>1. k <= PageLines /\ Bytes(answer.shown, k) <= PageBytes
    BY <1>5, <1>7
  <2> QED BY <1>7, <1>8, <1>9, <1>10, <2>1 DEF PageIsHonest, k, lines, offset, limit

-----------------------------------------------------------------------------
(* FileText: Edits                                                          *)

\* Where a part is, in numbers.
LEMMA AtIs ==
  ASSUME NEW text \in Seq(TextChars), NEW part \in Seq(TextChars)
  PROVE  /\ Len(text) \in Nat /\ Len(part) \in Nat /\ At(part, text) \subseteq 1..(Len(text) + 1)
         /\ \A i \in At(part, text) : /\ i + Len(part) - 1 <= Len(text)
                                      /\ \A k \in 1..Len(part) : part[k] = text[i + k - 1]
<1>1. Len(text) \in Nat /\ Len(part) \in Nat
  OBVIOUS
<1>2. ASSUME NEW i \in At(part, text)
      PROVE  /\ i \in 1..(Len(text) + 1) /\ i + Len(part) - 1 <= Len(text)
             /\ \A k \in 1..Len(part) : part[k] = text[i + k - 1]
  <2>1. i \in 1..(Len(text) - Len(part) + 1) /\ part = SubSeq(text, i, i + Len(part) - 1)
    BY DEF At
  <2>2. i \in Int /\ i >= 1 /\ i + Len(part) - 1 <= Len(text) /\ i \in 1..(Len(text) + 1)
    BY <1>1, <2>1
  <2>3. \A k \in 1..Len(part) : part[k] = text[i + k - 1]
    <3> DEFINE b == i + Len(part) - 1
    <3>1. b \in Int /\ b - i + 1 = Len(part)
      BY <1>1, <2>2
    <3>2. \A k \in i..b : text[k] \in TextChars
      <4>1. \A k \in i..b : k \in 1..Len(text)
        BY <1>1, <2>2
      <4> QED BY <4>1, ElementOfSeq
    <3> HIDE DEF b
    <3>3. \A k \in 1..(b - i + 1) : SubSeq(text, i, b)[k] = text[i + k - 1]
      BY <2>2, <3>1, <3>2, SubSeqProperties
    <3> QED BY <2>1, <3>1, <3>3 DEF b
  <2> QED BY <2>2, <2>3
<1> QED BY <1>1, <1>2

\* The matches are those places of the part that no match before them reaches.
LEMMA MatchesAre ==
  ASSUME NEW text \in Seq(TextChars), NEW part \in Seq(TextChars)
  PROVE  /\ Matches(part, text) \subseteq At(part, text)
         /\ \A i \in At(part, text) :
                i \in Matches(part, text) <=> \A j \in Matches(part, text) : j < i => j + Len(part) <= i
<1> DEFINE n == Len(text) + 1
           A == At(part, text)
           L == Len(part)
           Is(f) == f = [i \in 1..n |-> /\ i \in A
                                        /\ \A j \in 1..(i - 1) : f[j] => j + L <= i]
           Ok(G, m) == /\ G \subseteq A \cap (1..m)
                       /\ \A i \in A \cap (1..m) : i \in G <=> \A j \in G : j < i => j + L <= i
           Has(m) == \E G : Ok(G, m)
<1>1. n \in Nat /\ L \in Nat /\ A \subseteq 1..n
  BY AtIs
<1> HIDE DEF n, A, L
<1>2. Has(n)
  <2> DEFINE Bad == {m \in 0..n : ~Has(m)}
  <2> SUFFICES ASSUME Bad # {} PROVE FALSE
    <3>1. n \in 0..n
      BY <1>1
    <3> HIDE DEF Has
    <3> QED BY <3>1
  <2>1. Bad \in SUBSET Nat
    <3> HIDE DEF Has
    <3> QED BY <1>1
  <2>2. PICK m \in Bad : \A k \in Bad : m <= k
    <3> HIDE DEF Bad
    <3> QED BY <2>1, LeastOf
  <2>3. m \in 0..n /\ ~Has(m) /\ m \in Nat
    BY <1>1, <2>1, <2>2
  <2>4. m # 0
    <3>1. Ok({}, 0)
      OBVIOUS
    <3> HIDE DEF Ok
    <3> QED BY <2>3, <3>1
  <2>5. m - 1 \in 0..n /\ Has(m - 1)
    <3>1. m - 1 \in 0..n /\ ~(m <= m - 1)
      BY <1>1, <2>3, <2>4
    <3> HIDE DEF Has
    <3> QED BY <2>2, <3>1
  <2>6. PICK G : Ok(G, m - 1)
    BY <2>5
  <2> DEFINE free == m \in A /\ \A j \in G : j < m => j + L <= m
             H == IF free THEN G \cup {m} ELSE G
  <2>7. Ok(H, m)
    <3>1. H \subseteq A \cap (1..m) /\ G \subseteq A \cap (1..m) /\ m \notin G
      BY <1>1, <2>3, <2>4, <2>6
    <3>2. ASSUME NEW i \in A \cap (1..m) PROVE i \in H <=> \A j \in H : j < i => j + L <= i
      <4>1. CASE i = m
        <5>1. i \in H <=> free
          BY <3>1, <4>1
        <5>2. (\A j \in H : j < i => j + L <= i) <=> (\A j \in G : j < i => j + L <= i)
          BY <2>3, <4>1
        <5> QED BY <4>1, <5>1, <5>2
      <4>2. CASE i # m
        <5>1. i \in A \cap (1..(m - 1)) /\ (i \in H <=> i \in G)
          BY <2>3, <4>2
        <5>2. (\A j \in H : j < i => j + L <= i) <=> (\A j \in G : j < i => j + L <= i)
          BY <2>3, <5>1
        <5> QED BY <2>6, <5>1, <5>2
      <4> QED BY <4>1, <4>2
    <3> QED BY <3>1, <3>2
  <2> HIDE DEF Ok, H
  <2> QED BY <2>3, <2>7
<1>3. PICK G : Ok(G, n)
  BY <1>2
<1>4. \E f : Is(f)
  <2> DEFINE f == [i \in 1..n |-> i \in G]
  <2> DEFINE Q(i) == i \in A /\ \A j \in 1..(i - 1) : f[j] => j + L <= i
  <2>1. \A j \in 1..n : f[j] = (j \in G)
    OBVIOUS
  <2> HIDE DEF f
  <2>2. ASSUME NEW i \in 1..n PROVE (i \in G) <=> Q(i)
    <3>1. \A j \in 1..(i - 1) : j \in 1..n /\ j < i
      BY <1>1
    <3>2. \A j \in 1..(i - 1) : f[j] <=> j \in G
      BY <2>1, <3>1
    <3>3. (\A j \in 1..(i - 1) : f[j] => j + L <= i) <=> (\A j \in G : j < i => j + L <= i)
      <4>1. \A j \in G : j \in 1..n /\ (j < i <=> j \in 1..(i - 1))
        BY <1>1, <1>3
      <4> QED BY <3>1, <3>2, <4>1
    <3>4. i \in G => i \in A
      BY <1>3
    <3>5. i \in A => (i \in G <=> \A j \in G : j < i => j + L <= i)
      BY <1>3
    <3> QED BY <3>3, <3>4, <3>5
  <2>3. ASSUME NEW i \in 1..n PROVE (i \in G) = Q(i)
    BY <2>2
  <2>4. f = [i \in 1..n |-> i \in G]
    BY DEF f
  <2>5. f = [i \in 1..n |-> Q(i)]
    <3> HIDE DEF Q
    <3> QED BY <2>3, <2>4
  <2> QED BY <2>5
<1> DEFINE counts == CHOOSE f : Is(f)
<1>5. Is(counts)
  <2> HIDE DEF Is
  <2> QED BY <1>4
<1>6. Matches(part, text) = {i \in A : counts[i]}
  BY DEF Matches, n, A, L
<1> HIDE DEF counts
<1>7. \A i \in 1..n : counts[i] <=> (i \in A /\ \A j \in 1..(i - 1) : counts[j] => j + L <= i)
  BY <1>5
<1> DEFINE M == {i \in A : counts[i]}
<1>8. ASSUME NEW i \in A PROVE i \in M <=> \A j \in M : j < i => j + L <= i
  <2>1. i \in 1..n /\ i \in Int
    BY <1>1
  <2>2. \A j \in 1..n : counts[j] <=> j \in M
    BY <1>7
  <2>3. (\A j \in 1..(i - 1) : counts[j] => j + L <= i) <=> (\A j \in M : j < i => j + L <= i)
    <3>1. \A j \in M : j \in 1..n /\ (j < i <=> j \in 1..(i - 1))
      BY <1>1, <2>1
    <3>2. \A j \in 1..(i - 1) : j \in 1..n /\ j < i
      BY <1>1, <2>1
    <3> HIDE DEF M
    <3> QED BY <2>2, <3>1, <3>2
  <2> HIDE DEF M
  <2> QED BY <1>7, <2>1, <2>2, <2>3
<1> QED BY <1>6, <1>8 DEF A, L

\* Texts are put together one after the other.
LEMMA FlattenUp ==
  ASSUME NEW X, NEW s \in Seq(Seq(X))
  PROVE  \E up \in [0..Len(s) -> Seq(X)] :
            /\ up[0] = <<>>
            /\ \A i \in 1..Len(s) : up[i] = up[i - 1] \o s[i]
            /\ FlattenSeq(s) = up[Len(s)]
<1> DEFINE n == Len(s)
           S == Seq(X)
<1>1. n \in Nat /\ \A i \in 1..n : s[i] \in S
  OBVIOUS
<1>2. <<>> \in S
  OBVIOUS
<1>3. CASE n = 0
  <2> DEFINE up == [i \in 0..n |-> <<>>]
  <2>1. s = <<>> /\ FlattenSeq(s) = s
    BY <1>3 DEF FlattenSeq
  <2>2. up \in [0..n -> S] /\ up[0] = <<>> /\ up[n] = <<>> /\ 1..n = {}
    BY <1>2, <1>3
  <2> HIDE DEF up
  <2> QED BY <2>1, <2>2
<1>4. CASE n # 0
  <2>1. PICK up \in [1..n -> S] :
            /\ up[1] = s[1] /\ \A i \in 1..n : i # 1 => up[i] = up[i - 1] \o s[i]
            /\ FlattenSeq(s) = up[n]
    <3>1. Len(s) > 0
      BY <1>1, <1>4
    <3> QED BY <3>1, FlattenIs
  <2> DEFINE all == [i \in 0..n |-> IF i = 0 THEN <<>> ELSE up[i]]
  <2> HIDE DEF n, S
  <2>2. all \in [0..n -> S] /\ all[0] = <<>> /\ all[n] = up[n] /\ \A i \in 1..n : all[i] = up[i]
    <3>1. \A i \in 0..n : i # 0 => i \in 1..n
      BY <1>1
    <3>2. 0 \in 0..n /\ n \in 0..n /\ n # 0 /\ \A i \in 1..n : i \in 0..n /\ i # 0
      BY <1>1, <1>4
    <3> QED BY <1>2, <2>1, <3>1, <3>2
  <2> HIDE DEF all
  <2>3. ASSUME NEW i \in 1..n PROVE all[i] = all[i - 1] \o s[i]
    <3>1. CASE i = 1
      <4>1. s[1] \in S /\ all[1] = s[1] /\ i - 1 = 0
        BY <1>1, <2>1, <2>2, <3>1
      <4>2. <<>> \o s[1] = s[1]
        BY <4>1 DEF S
      <4> QED BY <2>2, <3>1, <4>1, <4>2
    <3>2. CASE i # 1
      <4>1. i - 1 \in 1..n
        BY <1>1, <3>2
      <4> QED BY <2>1, <2>2, <3>2, <4>1
    <3> QED BY <3>1, <3>2
  <2> DEFINE Right(u) == u[0] = <<>> /\ (\A i \in 1..n : u[i] = u[i - 1] \o s[i]) /\ FlattenSeq(s) = u[n]
  <2>4. Right(all)
    BY <2>1, <2>2, <2>3
  <2>5. \E u \in [0..n -> S] : Right(u)
    <3> HIDE DEF Right
    <3> QED BY <2>2, <2>4
  <2> QED BY <2>5 DEF n, S
<1> QED BY <1>3, <1>4

\* The characters that are not kept: those of a match, and the end of the text.
Gone(text, places, part) ==
    {i \in 1..(Len(text) + 1) : i > Len(text) \/ \E p \in places : p <= i /\ i < p + Len(part)}

\* What is put at a place: what the match there is replaced with, then the character.
TextPieces(text, places, part, new) ==
    {p \in [1..(Len(text) + 1) -> Seq(TextChars)] :
        \A i \in 1..(Len(text) + 1) :
            \E a, b \in Seq(TextChars) :
                /\ p[i] = a \o b
                /\ (i \in places => a = new) /\ (i \notin places => a = <<>>)
                /\ i \in Gone(text, places, part) => b = <<>>
                /\ i \notin Gone(text, places, part) => i \in 1..Len(text) /\ b = <<text[i]>>}

\* The text with replacements is its pieces, put together from the left.
IsPutTogether(text, places, part, new) ==
    \E p \in TextPieces(text, places, part, new), up \in [0..(Len(text) + 1) -> Seq(TextChars)] :
        /\ up[0] = <<>>
        /\ \A i \in 1..(Len(text) + 1) : up[i] = up[i - 1] \o p[i]
        /\ Replaced(text, places, part, new) = up[Len(text) + 1]

\* The pieces are put together one after the other.
LEMMA ReplacedIs ==
  ASSUME NEW text \in Seq(TextChars), NEW new \in Seq(TextChars), NEW places \in SUBSET Int,
         NEW part \in Seq(TextChars)
  PROVE  IsPutTogether(text, places, part, new)
<1> DEFINE n == Len(text) + 1
           S == Seq(TextChars)
           gone == Gone(text, places, part)
           A(i) == IF i \in places THEN new ELSE <<>>
           B(i) == IF i \in gone THEN <<>> ELSE <<text[i]>>
           p == [i \in 1..n |-> A(i) \o B(i)]
<1>1. n \in Nat /\ <<>> \in S /\ new \in S
  OBVIOUS
<1>2. Replaced(text, places, part, new) = FlattenSeq(p)
  <2>1. \A i \in 1..(Len(text) + 1) :
            i \in gone <=> i > Len(text) \/ \E q \in places : q <= i /\ i < q + Len(part)
    BY DEF Gone
  <2> QED BY <2>1 DEF Replaced
<1>3. \A i \in 1..n : i \notin gone => i \in 1..Len(text) /\ <<text[i]>> \in S
  <2>1. \A i \in 1..n : i \notin gone => i \in 1..Len(text)
    BY DEF Gone
  <2>2. \A i \in 1..Len(text) : <<text[i]>> \in S
    OBVIOUS
  <2> QED BY <2>1, <2>2
<1>4. ASSUME NEW i \in 1..n
      PROVE  /\ A(i) \in S /\ B(i) \in S
             /\ (i \in places => A(i) = new) /\ (i \notin places => A(i) = <<>>)
             /\ i \in gone => B(i) = <<>>
             /\ i \notin gone => i \in 1..Len(text) /\ B(i) = <<text[i]>>
  <2> HIDE DEF n, S, gone
  <2> QED BY <1>1, <1>3
<1> HIDE DEF A, B
<1>5. \A i \in 1..n : A(i) \o B(i) \in S
  <2>1. ASSUME NEW a \in S, NEW b \in S PROVE a \o b \in S
    OBVIOUS
  <2> HIDE DEF S, n
  <2> QED BY <1>4, <2>1
<1> HIDE DEF n, S, gone
<1>6. p \in [1..n -> S]
  BY <1>5
<1>7. \A i \in 1..n : p[i] = A(i) \o B(i)
  OBVIOUS
<1> HIDE DEF p
<1>8. p \in TextPieces(text, places, part, new)
  <2>1. \A i \in 1..n : \E a, b \in S :
                /\ p[i] = a \o b
                /\ (i \in places => a = new) /\ (i \notin places => a = <<>>)
                /\ i \in gone => b = <<>>
                /\ i \notin gone => i \in 1..Len(text) /\ b = <<text[i]>>
    BY <1>4, <1>7
  <2> QED BY <1>6, <2>1 DEF TextPieces, n, S, gone
<1>9. p \in Seq(S) /\ Len(p) = n
  BY <1>1, <1>6
<1>10. \E up \in [0..Len(p) -> Seq(TextChars)] :
            /\ up[0] = <<>> /\ \A i \in 1..Len(p) : up[i] = up[i - 1] \o p[i]
            /\ FlattenSeq(p) = up[Len(p)]
  BY <1>9, FlattenUp DEF S
<1> HIDE DEF n
<1>11. \E up \in [0..n -> Seq(TextChars)] :
            /\ up[0] = <<>> /\ \A i \in 1..n : up[i] = up[i - 1] \o p[i]
            /\ Replaced(text, places, part, new) = up[n]
  BY <1>2, <1>9, <1>10
<1> QED BY <1>8, <1>11 DEF IsPutTogether, n

\* A part of a text grows by a character.
LEMMA GrowsBy ==
  ASSUME NEW text \in Seq(TextChars), NEW a \in Nat, a >= 1, NEW m \in 1..Len(text)
  PROVE  /\ SubSeq(text, a, m - 1) \in Seq(TextChars) /\ SubSeq(text, a, m) \in Seq(TextChars)
         /\ m < a => SubSeq(text, a, m) = SubSeq(text, a, m - 1)
         /\ m >= a => SubSeq(text, a, m) = SubSeq(text, a, m - 1) \o <<text[m]>>
<1>1. Len(text) \in Nat /\ m \in Int /\ m - 1 \in Int /\ a \in Int
  OBVIOUS
<1>2. SubSeq(text, a, m - 1) \in Seq(TextChars) /\ SubSeq(text, a, m) \in Seq(TextChars)
  <2>1. \A i \in a..m : i \in 1..Len(text)
    BY <1>1
  <2>2. \A i \in a..m : text[i] \in TextChars
    BY <2>1, ElementOfSeq
  <2> DEFINE l == m - 1
  <2>3. l \in Int /\ \A i \in a..l : text[i] \in TextChars
    BY <1>1, <2>2
  <2>4. SubSeq(text, a, m) \in Seq(TextChars)
    BY <1>1, <2>2, SubSeqProperties
  <2>5. SubSeq(text, a, l) \in Seq(TextChars)
    <3> HIDE DEF l
    <3> QED BY <1>1, <2>3, SubSeqProperties
  <2> QED BY <2>4, <2>5
<1>3. ASSUME m < a PROVE SubSeq(text, a, m) = SubSeq(text, a, m - 1)
  <2> DEFINE l == m - 1
  <2>1. l \in Int /\ l < a
    BY <1>1, <1>3
  <2>2. SubSeq(text, a, m) = <<>>
    BY <1>1, <1>3, SubSeqEmpty
  <2>3. SubSeq(text, a, l) = <<>>
    <3> HIDE DEF l
    <3> QED BY <1>1, <2>1, SubSeqEmpty
  <2> QED BY <2>2, <2>3
<1>4. ASSUME m >= a PROVE SubSeq(text, a, m) = SubSeq(text, a, m - 1) \o <<text[m]>>
  <2>1. a \in 1..Len(text) /\ m \in a..Len(text)
    BY <1>1, <1>4
  <2> QED BY <2>1, SubSeqRecursiveSecond
<1> QED BY <1>2, <1>3, <1>4

\* Three parts, put together from either end.
LEMMA JoinIsAssociative ==
  ASSUME NEW x \in Seq(TextChars), NEW y \in Seq(TextChars), NEW z \in Seq(TextChars)
  PROVE  (x \o y) \o z = x \o (y \o z)
BY ConcatAssociative

\* One match that is replaced leaves what is before and after it.
LEMMA OneIsReplaced ==
  ASSUME NEW text \in Seq(TextChars), NEW part \in Seq(TextChars), NEW new \in Seq(TextChars),
         NEW i \in At(part, text)
  PROVE  Replaced(text, {i}, part, new) = Spliced(text, i, part, new)
<1> DEFINE N == Len(text)
           L == Len(part)
           S == Seq(TextChars)
           one == {i}
           gone == Gone(text, one, part)
           last == i + L
           front == [m \in 0..N |-> SubSeq(text, 1, m)]
           rest == [m \in 0..(N + 1) |-> SubSeq(text, last, IF m <= N THEN m ELSE N)]
           opening == front[i - 1] \o new
<1>1. N \in Nat /\ L \in Nat /\ i \in 1..(N + 1) /\ last - 1 <= N /\ last \in Nat /\ last >= i
  BY AtIs
<1>2. PICK p \in TextPieces(text, one, part, new), up \in [0..(N + 1) -> S] :
            /\ up[0] = <<>> /\ \A m \in 1..(N + 1) : up[m] = up[m - 1] \o p[m]
            /\ Replaced(text, one, part, new) = up[N + 1]
  <2>0. one \in SUBSET Int
    BY <1>1
  <2> HIDE DEF one
  <2>1. IsPutTogether(text, one, part, new)
    BY <2>0, ReplacedIs
  <2> QED BY <2>1 DEF IsPutTogether
<1>3. \A m \in 1..(N + 1) : m \in gone <=> m > N \/ (i <= m /\ m < last)
  BY DEF Gone
<1>4. ASSUME NEW m \in 1..(N + 1)
      PROVE  \E a, b \in S : /\ p[m] = a \o b
                             /\ (m = i => a = new) /\ (m # i => a = <<>>)
                             /\ (m \in gone => b = <<>>)
                             /\ (m \notin gone => m \in 1..N /\ b = <<text[m]>>)
  <2>1. \E a, b \in S : /\ p[m] = a \o b
                        /\ (m \in one => a = new) /\ (m \notin one => a = <<>>)
                        /\ (m \in gone => b = <<>>)
                        /\ (m \notin gone => m \in 1..N /\ b = <<text[m]>>)
    BY <1>2 DEF TextPieces
  <2>2. m \in one <=> m = i
    OBVIOUS
  <2> HIDE DEF one, gone, S, N
  <2> QED BY <2>1, <2>2
<1>5. front[0] = <<>> /\ front \in [0..N -> S] /\ \A m \in 1..N : front[m] = front[m - 1] \o <<text[m]>>
  <2>1. SubSeq(text, 1, 0) = <<>> /\ 0 \in 0..N
    BY <1>1, SubSeqEmpty
  <2>2. ASSUME NEW m \in 1..N
        PROVE SubSeq(text, 1, m) = SubSeq(text, 1, m - 1) \o <<text[m]>> /\ SubSeq(text, 1, m) \in S
    <3>1. 1 \in Nat /\ 1 >= 1 /\ m >= 1
      OBVIOUS
    <3> QED BY <3>1, GrowsBy
  <2>3. \A m \in 0..N : SubSeq(text, 1, m) \in S
    <3>1. \A m \in 0..N : m = 0 \/ m \in 1..N
      OBVIOUS
    <3>2. <<>> \in S
      OBVIOUS
    <3> QED BY <2>1, <2>2, <3>1, <3>2
  <2>4. \A m \in 1..N : m \in 0..N /\ m - 1 \in 0..N
    OBVIOUS
  <2> QED BY <2>1, <2>2, <2>3, <2>4
<1>6. \A m \in 1..N : /\ rest[m] \in S /\ rest[m - 1] \in S
                      /\ m < last => rest[m] = rest[m - 1]
                      /\ m >= last => rest[m] = rest[m - 1] \o <<text[m]>>
  <2> SUFFICES ASSUME NEW m \in 1..N
      PROVE  /\ rest[m] \in S /\ rest[m - 1] \in S
             /\ m < last => rest[m] = rest[m - 1]
             /\ m >= last => rest[m] = rest[m - 1] \o <<text[m]>>
    OBVIOUS
  <2>1. m \in 0..(N + 1) /\ m - 1 \in 0..(N + 1) /\ m <= N /\ m - 1 <= N
    BY <1>1
  <2>2. rest[m] = SubSeq(text, last, m) /\ rest[m - 1] = SubSeq(text, last, m - 1)
    <3> HIDE DEF last
    <3> QED BY <2>1
  <2>3. last \in Nat /\ last >= 1
    BY <1>1
  <2> HIDE DEF rest, last
  <2>4. /\ SubSeq(text, last, m - 1) \in S /\ SubSeq(text, last, m) \in S
        /\ m < last => SubSeq(text, last, m) = SubSeq(text, last, m - 1)
        /\ m >= last => SubSeq(text, last, m) = SubSeq(text, last, m - 1) \o <<text[m]>>
    BY <2>3, GrowsBy
  <2> HIDE DEF S
  <2> QED BY <2>2, <2>4
<1>7. /\ rest[N + 1] = rest[N] /\ rest[N] \in S /\ rest[N] = SubSeq(text, last, N)
      /\ rest[i - 1] = <<>>
  <2>1. N \in 0..(N + 1) /\ N + 1 \in 0..(N + 1) /\ i - 1 \in 0..(N + 1) /\ ~(N + 1 <= N) /\ N <= N /\ i - 1 <= N
        /\ N \in Int /\ last \in Int
    BY <1>1
  <2> DEFINE b == i - 1
  <2>2. b \in Int /\ b < last
    BY <1>1
  <2>3. SubSeq(text, last, b) = <<>>
    <3> HIDE DEF last, b
    <3> QED BY <2>1, <2>2, SubSeqEmpty
  <2>4. SubSeq(text, last, N) \in S
    <3>1. \A k \in last..N : k \in 1..N
      BY <1>1
    <3>2. \A k \in last..N : text[k] \in TextChars
      BY <3>1, ElementOfSeq
    <3> HIDE DEF last
    <3> QED BY <2>1, <3>2, SubSeqProperties
  <2>5. rest[N + 1] = SubSeq(text, last, N) /\ rest[N] = SubSeq(text, last, N) /\ rest[b] = SubSeq(text, last, b)
    <3> HIDE DEF last
    <3> QED BY <2>1
  <2> QED BY <2>3, <2>4, <2>5
<1>8. front[i - 1] \in S /\ opening \in S
  <2>1. i - 1 \in 0..N
    BY <1>1
  <2> HIDE DEF front
  <2>2. front[i - 1] \in S
    BY <1>5, <2>1
  <2> QED BY <2>2
<1>9. Spliced(text, i, part, new) = opening \o rest[N]
  <2>1. i - 1 \in 0..N
    BY <1>1
  <2>2. front[i - 1] = SubSeq(text, 1, i - 1)
    BY <2>1
  <2> HIDE DEF front, rest
  <2> QED BY <1>7, <2>2 DEF Spliced
<1>10. \A m \in 1..N : <<text[m]>> \in S
  OBVIOUS
<1>11. \A x \in S : x \o <<>> = x /\ <<>> \o x = x
  OBVIOUS
<1>12. \A x, y, z \in S : (x \o y) \o z = x \o (y \o z)
  BY JoinIsAssociative
<1>13. \A x, y \in S : x \o y \in S
  OBVIOUS
<1>14. new \in S
  OBVIOUS
<1> HIDE DEF one, gone, front, rest, opening, N, L, S, last
<1> DEFINE Right(m) == IF m < i THEN up[m] = front[m] ELSE up[m] = opening \o rest[m]
           Bad == {m \in 0..(N + 1) : ~Right(m)}
<1>15. ASSUME NEW m \in 1..(N + 1), Right(m - 1) PROVE Right(m)
  <2>1. up[m] = up[m - 1] \o p[m]
    BY <1>2
  <2>2. m \in Int /\ m - 1 \in 0..(N + 1) /\ (m # N + 1 => m \in 1..N) /\ (m <= i => m - 1 < i /\ m - 1 \in 0..N)
        /\ (m > i => ~(m - 1 < i))
    BY <1>1
  <2>3. up[m - 1] \in S
    BY <1>2, <2>2
  <2>4. PICK a \in S, b \in S :
            /\ p[m] = a \o b /\ (m = i => a = new) /\ (m # i => a = <<>>)
            /\ (m \in gone => b = <<>>) /\ (m \notin gone => m \in 1..N /\ b = <<text[m]>>)
    BY <1>4
  <2>5. CASE m < i
    <3>1. m # i /\ m \notin gone
      BY <1>1, <1>3, <2>2, <2>5
    <3>2. a = <<>> /\ m \in 1..N /\ b = <<text[m]>> /\ a \o b = b
      BY <1>11, <2>4, <3>1
    <3>3. up[m - 1] = front[m - 1]
      BY <1>1, <1>15, <2>2, <2>5
    <3> QED BY <1>5, <2>1, <2>4, <2>5, <3>2, <3>3
  <2>6. CASE m = i
    <3>1. up[m - 1] = front[i - 1] /\ ~(m < i)
      BY <1>1, <1>15, <2>2, <2>6
    <3>2. up[m] = opening \o b
      <4>1. up[m] = front[i - 1] \o (new \o b)
        BY <2>1, <2>4, <2>6, <3>1
      <4> DEFINE c == front[i - 1]
      <4>2. c \in S /\ new \in S /\ b \in S
        BY <1>8, <1>14, <2>4
      <4> HIDE DEF c
      <4>3. (c \o new) \o b = c \o (new \o b)
        BY <4>2, <1>12
      <4> QED BY <4>1, <4>3 DEF opening, c
    <3>3. rest[m] = b
      <4>1. CASE m = N + 1
        <5>1. i - 1 = N /\ m \in gone
          BY <1>1, <1>3, <2>6, <4>1
        <5> QED BY <1>7, <2>4, <4>1, <5>1
      <4>2. CASE m \in 1..N /\ m < last
        <5>1. m \in gone
          BY <1>1, <1>3, <2>6, <4>2
        <5> QED BY <1>6, <1>7, <2>4, <2>6, <4>2, <5>1
      <4>3. CASE m \in 1..N /\ m >= last
        <5>1. m \notin gone
          BY <1>1, <1>3, <2>6, <4>3
        <5>2. rest[m] = <<>> \o b
          BY <1>6, <1>7, <2>4, <2>6, <4>3, <5>1
        <5> QED BY <1>11, <2>4, <5>2
      <4> QED BY <1>1, <2>2, <4>1, <4>2, <4>3
    <3> QED BY <3>1, <3>2, <3>3
  <2>7. CASE m > i
    <3>1. up[m - 1] = opening \o rest[m - 1] /\ m # i /\ ~(m < i)
      BY <1>1, <1>15, <2>2, <2>7
    <3>2. p[m] = b
      BY <1>11, <2>4, <3>1
    <3>3. CASE m = N + 1
      <4>1. m \in gone /\ m - 1 = N
        BY <1>1, <1>3, <3>3
      <4>2. up[m] = up[m - 1]
        BY <1>11, <2>1, <2>3, <2>4, <3>2, <4>1
      <4>3. rest[m] = rest[m - 1]
        BY <1>7, <3>3, <4>1
      <4> QED BY <3>1, <4>2, <4>3
    <3>4. CASE m \in 1..N /\ m < last
      <4>1. m \in gone
        BY <1>1, <1>3, <2>7, <3>4
      <4>2. up[m] = up[m - 1]
        BY <1>11, <2>1, <2>3, <2>4, <3>2, <4>1
      <4>3. rest[m] = rest[m - 1]
        BY <1>6, <3>4
      <4> QED BY <3>1, <4>2, <4>3
    <3>5. CASE m \in 1..N /\ m >= last
      <4>1. m \notin gone
        BY <1>1, <1>3, <3>5
      <4>2. rest[m] = rest[m - 1] \o b /\ rest[m - 1] \in S
        BY <1>6, <2>4, <3>5, <4>1
      <4>3. (opening \o rest[m - 1]) \o b = opening \o (rest[m - 1] \o b)
        BY <1>8, <1>12, <2>4, <4>2
      <4> QED BY <2>1, <3>1, <3>2, <4>2, <4>3
    <3> QED BY <1>1, <2>2, <3>3, <3>4, <3>5
  <2> QED BY <1>1, <2>2, <2>5, <2>6, <2>7
<1>16. Bad = {}
  <2> SUFFICES ASSUME Bad # {} PROVE FALSE
    OBVIOUS
  <2> HIDE DEF Right
  <2>1. Bad \in SUBSET Nat
    BY <1>1
  <2>2. PICK m \in Bad : \A k \in Bad : m <= k
    <3> HIDE DEF Bad
    <3> QED BY <2>1, LeastOf
  <2>3. m \in 0..(N + 1) /\ ~Right(m)
    BY <2>2
  <2>4. m # 0
    <3>1. 0 < i
      BY <1>1
    <3> QED BY <1>2, <1>5, <2>3, <3>1 DEF Right
  <2>5. m \in 1..(N + 1) /\ m - 1 \in 0..(N + 1) /\ ~(m <= m - 1)
    BY <1>1, <2>3, <2>4
  <2>6. Right(m - 1)
    BY <2>2, <2>5
  <2> QED BY <1>15, <2>3, <2>5, <2>6
<1>17. up[N + 1] = opening \o rest[N + 1]
  <2>1. Right(N + 1)
    <3> HIDE DEF Right
    <3>1. N + 1 \in 0..(N + 1)
      BY <1>1
    <3> QED BY <1>16, <3>1
  <2>2. ~(N + 1 < i)
    BY <1>1
  <2> QED BY <2>1, <2>2
<1> QED BY <1>2, <1>7, <1>9, <1>17 DEF one

\* Every line end of a text is CRLF, but for a last character "\r".
Paired(s) ==
    \A i \in 1..Len(s) : /\ s[i] = "n" => i > 1 /\ s[i - 1] = "r"
                         /\ s[i] = "r" /\ i < Len(s) => s[i + 1] = "n"

\* The last character is "\r".
OpenEnd(s) == Len(s) > 0 /\ s[Len(s)] = "r"

\* Texts with whole line ends, one after the other.
LEMMA PairedJoin ==
  ASSUME NEW s \in Seq(TextChars), NEW t \in Seq(TextChars), Paired(s), ~OpenEnd(s), Paired(t)
  PROVE  Paired(s \o t) /\ (~OpenEnd(t) => ~OpenEnd(s \o t))
<1> DEFINE u == s \o t
           m == Len(s)
           k == Len(t)
<1>1. m \in Nat /\ k \in Nat
  OBVIOUS
<1>2. Len(u) = m + k /\ \A i \in 1..(m + k) : u[i] = IF i <= m THEN s[i] ELSE t[i - m]
  BY ConcatProperties
<1>3. \A i \in 1..m : /\ s[i] = "n" => i > 1 /\ s[i - 1] = "r"
                      /\ s[i] = "r" => i < m /\ s[i + 1] = "n"
  <2>1. ASSUME NEW i \in 1..m, s[i] = "r" PROVE i < m
    BY <1>1, <2>1 DEF OpenEnd
  <2> QED BY <2>1 DEF Paired
<1>4. \A i \in 1..k : /\ t[i] = "n" => i > 1 /\ t[i - 1] = "r"
                      /\ t[i] = "r" /\ i < k => t[i + 1] = "n"
  BY DEF Paired
<1> HIDE DEF u, m, k
<1>5. ASSUME NEW i \in 1..(m + k)
      PROVE  /\ u[i] = "n" => i > 1 /\ u[i - 1] = "r"
             /\ u[i] = "r" /\ i < m + k => u[i + 1] = "n"
  <2>1. CASE i <= m
    <3>1. i \in 1..m /\ u[i] = s[i]
      BY <1>1, <1>2, <2>1
    <3>2. ASSUME u[i] = "n" PROVE i > 1 /\ u[i - 1] = "r"
      <4>1. i > 1 /\ s[i - 1] = "r"
        BY <1>3, <3>1, <3>2
      <4>2. i - 1 \in 1..(m + k) /\ i - 1 <= m
        BY <1>1, <3>1, <4>1
      <4> QED BY <1>2, <4>1, <4>2
    <3>3. ASSUME u[i] = "r" PROVE u[i + 1] = "n"
      <4>1. i < m /\ s[i + 1] = "n"
        BY <1>3, <3>1, <3>3
      <4>2. i + 1 \in 1..(m + k) /\ i + 1 <= m
        BY <1>1, <3>1, <4>1
      <4> QED BY <1>2, <4>1, <4>2
    <3> QED BY <3>2, <3>3
  <2>2. CASE i > m
    <3> DEFINE j == i - m
    <3>1. j \in 1..k /\ u[i] = t[j] /\ ~(i <= m)
      BY <1>1, <1>2, <2>2
    <3>2. ASSUME u[i] = "n" PROVE i > 1 /\ u[i - 1] = "r"
      <4>1. j > 1 /\ t[j - 1] = "r"
        BY <1>4, <3>1, <3>2
      <4>2. i - 1 \in 1..(m + k) /\ ~(i - 1 <= m) /\ i - 1 - m = j - 1 /\ i > 1
        BY <1>1, <3>1, <4>1
      <4> QED BY <1>2, <4>1, <4>2
    <3>3. ASSUME u[i] = "r", i < m + k PROVE u[i + 1] = "n"
      <4>1. j < k
        BY <1>1, <3>1, <3>3
      <4>2. t[j + 1] = "n"
        BY <1>4, <3>1, <3>3, <4>1
      <4> DEFINE h == i + 1
      <4>3. h \in 1..(m + k) /\ ~(h <= m) /\ h - m = j + 1
        BY <1>1, <3>1, <3>3
      <4> HIDE DEF h
      <4>4. u[h] = t[h - m]
        BY <1>2, <4>3
      <4> QED BY <4>2, <4>3, <4>4 DEF h
    <3> QED BY <3>2, <3>3
  <2> QED BY <1>1, <2>1, <2>2
<1>6. Paired(u)
  BY <1>2, <1>5 DEF Paired
<1>7. ASSUME ~OpenEnd(t) PROVE ~OpenEnd(u)
  <2> SUFFICES ASSUME m + k > 0, u[m + k] = "r" PROVE FALSE
    BY <1>2 DEF OpenEnd
  <2>1. CASE k = 0
    <3>1. m + k = m /\ m \in 1..(m + k) /\ m <= m
      BY <1>1, <2>1
    <3>2. u[m] = s[m]
      BY <1>2, <3>1
    <3>3. m > 0 /\ s[m] = "r"
      BY <1>1, <3>1, <3>2
    <3> QED BY <3>3 DEF OpenEnd, m
  <2>2. CASE k # 0
    <3> DEFINE e == m + k
    <3>1. e \in 1..(m + k) /\ ~(e <= m) /\ e - m = k /\ k > 0
      BY <1>1, <2>2
    <3>2. u[e] = t[k]
      <4> HIDE DEF e
      <4>1. u[e] = t[e - m]
        BY <1>2, <3>1
      <4> QED BY <3>1, <4>1
    <3> QED BY <1>7, <3>1, <3>2 DEF OpenEnd, k
  <2> QED BY <2>1, <2>2
<1> QED BY <1>6, <1>7 DEF u

\* A "\n" closes the line end that a "\r" begins.
LEMMA ClosingJoin ==
  ASSUME NEW s \in Seq(TextChars), Paired(s), OpenEnd(s)
  PROVE  Paired(s \o <<"n">>) /\ ~OpenEnd(s \o <<"n">>)
<1> DEFINE u == s \o <<"n">>
           m == Len(s)
<1>1. m \in Nat /\ m > 0 /\ s[m] = "r"
  BY DEF OpenEnd
<1>2. Len(u) = m + 1 /\ u[m + 1] = "n" /\ \A i \in 1..m : u[i] = s[i]
  <2>1. <<"n">> \in Seq(TextChars)
    BY TextAssumption
  <2>2. Len(u) = m + 1
    BY <2>1
  <2>3. \A i \in 1..(m + 1) : u[i] = IF i <= m THEN s[i] ELSE <<"n">>[i - m]
    OBVIOUS
  <2> QED BY <1>1, <2>2, <2>3
<1>3. \A i \in 1..m : /\ s[i] = "n" => i > 1 /\ s[i - 1] = "r"
                      /\ s[i] = "r" /\ i < m => s[i + 1] = "n"
  BY DEF Paired
<1> HIDE DEF u, m
<1>4. ASSUME NEW i \in 1..(m + 1)
      PROVE  /\ u[i] = "n" => i > 1 /\ u[i - 1] = "r"
             /\ u[i] = "r" /\ i < m + 1 => u[i + 1] = "n"
  <2>1. CASE i = m + 1
    <3>1. i - 1 = m /\ m \in 1..m
      BY <1>1, <2>1
    <3> QED BY <1>1, <1>2, <2>1, <3>1
  <2>2. CASE i = m
    <3>1. m \in 1..m /\ i + 1 = m + 1 /\ u[i] = "r"
      BY <1>1, <1>2, <2>2
    <3> QED BY <1>2, <3>1
  <2>3. CASE i < m
    <3>1. i \in 1..m /\ i + 1 \in 1..m
      BY <1>1, <2>3
    <3>2. i > 1 => i - 1 \in 1..m
      BY <1>1, <2>3
    <3> QED BY <1>2, <1>3, <2>3, <3>1, <3>2
  <2> QED BY <1>1, <2>1, <2>2, <2>3
<1> QED BY <1>2, <1>4 DEF Paired, OpenEnd, u

\* A single character and no character.
LEMMA OneIsPaired ==
  ASSUME NEW c \in TextChars
  PROVE  /\ <<c>> \in Seq(TextChars) /\ (OpenEnd(<<c>>) <=> c = "r") /\ (c # "n" => Paired(<<c>>))
         /\ <<>> \in Seq(TextChars) /\ Paired(<<>>) /\ ~OpenEnd(<<>>)
<1>1. Len(<<c>>) = 1 /\ <<c>>[1] = c /\ Len(<<>>) = 0 /\ 1..0 = {} /\ 1..1 = {1}
  OBVIOUS
<1>2. <<c>> \in Seq(TextChars) /\ <<>> \in Seq(TextChars)
  OBVIOUS
<1>3. (OpenEnd(<<c>>) <=> c = "r") /\ ~OpenEnd(<<>>)
  BY <1>1 DEF OpenEnd
<1>4. Paired(<<>>)
  BY <1>1 DEF Paired
<1>5. c # "n" => Paired(<<c>>)
  BY <1>1 DEF Paired
<1> QED BY <1>2, <1>3, <1>4, <1>5

\* A text without a "\r" gets whole line ends.
LEMMA CrlfIs ==
  ASSUME NEW s \in Seq(TextChars)
  PROVE  /\ Crlf(s) \in Seq(TextChars)
         /\ (\A i \in 1..Len(s) : s[i] # "r") => Paired(Crlf(s)) /\ ~OpenEnd(Crlf(s))
         /\ Len(s) > 0 => Len(Crlf(s)) > 0
<1> DEFINE n == Len(s)
           S == Seq(TextChars)
           P(i) == IF s[i] = "n" THEN <<"r", "n">> ELSE <<s[i]>>
           p == [i \in 1..n |-> P(i)]
<1>1. n \in Nat
  OBVIOUS
<1>2. Crlf(s) = FlattenSeq(p)
  <2>1. DOMAIN s = 1..n
    OBVIOUS
  <2> QED BY <2>1 DEF Crlf
<1>3. /\ <<"r", "n">> \in S /\ Paired(<<"r", "n">>) /\ ~OpenEnd(<<"r", "n">>)
  <2> DEFINE t == <<"r", "n">>
  <2>1. Len(t) = 2 /\ t[1] = "r" /\ t[2] = "n" /\ \A i \in 1..2 : i = 1 \/ i = 2
    OBVIOUS
  <2>2. t \in S
    BY TextAssumption
  <2> HIDE DEF t
  <2>3. Paired(t)
    BY <2>1 DEF Paired
  <2>4. ~OpenEnd(t)
    BY <2>1 DEF OpenEnd
  <2> QED BY <2>2, <2>3, <2>4 DEF t
<1>4. ASSUME NEW i \in 1..n PROVE P(i) \in S /\ (s[i] # "r" => Paired(P(i)) /\ ~OpenEnd(P(i)))
  <2>1. s[i] \in TextChars
    BY ElementOfSeq
  <2>2. <<s[i]>> \in S /\ (s[i] # "n" => Paired(<<s[i]>>)) /\ (s[i] # "r" => ~OpenEnd(<<s[i]>>))
    BY <2>1, OneIsPaired
  <2>3. CASE s[i] = "n"
    BY <1>3, <2>3
  <2>4. CASE s[i] # "n"
    BY <2>2, <2>4
  <2> QED BY <2>3, <2>4
<1>12. \A i \in 1..n : Len(P(i)) > 0
  OBVIOUS
<1> HIDE DEF n, S, P
<1>5. p \in [1..n -> S] /\ \A i \in 1..n : p[i] = P(i)
  BY <1>4
<1> HIDE DEF p
<1>6. p \in Seq(S) /\ Len(p) = n
  BY <1>1, <1>5
<1>7. PICK up \in [0..n -> S] : /\ up[0] = <<>> /\ \A i \in 1..n : up[i] = up[i - 1] \o p[i]
                                /\ FlattenSeq(p) = up[n]
  <2>1. \E up \in [0..Len(p) -> Seq(TextChars)] :
            /\ up[0] = <<>> /\ \A i \in 1..Len(p) : up[i] = up[i - 1] \o p[i]
            /\ FlattenSeq(p) = up[Len(p)]
    BY <1>6, FlattenUp DEF S
  <2> QED BY <1>6, <2>1 DEF S
<1> DEFINE Right(m) == Paired(up[m]) /\ ~OpenEnd(up[m])
           Bad == {m \in 0..n : ~Right(m)}
<1>8. ASSUME \A i \in 1..n : s[i] # "r" PROVE Bad = {}
  <2> SUFFICES ASSUME Bad # {} PROVE FALSE
    OBVIOUS
  <2> HIDE DEF Right
  <2>1. Bad \in SUBSET Nat
    BY <1>1
  <2>2. PICK m \in Bad : \A k \in Bad : m <= k
    <3> HIDE DEF Bad
    <3> QED BY <2>1, LeastOf
  <2>3. m \in 0..n /\ ~Right(m)
    BY <2>2
  <2>4. m # 0
    <3>1. Paired(<<>>) /\ ~OpenEnd(<<>>)
      BY TextAssumption, OneIsPaired
    <3> QED BY <1>7, <2>3, <3>1 DEF Right
  <2>5. m \in 1..n /\ m - 1 \in 0..n /\ ~(m <= m - 1)
    BY <1>1, <2>3, <2>4
  <2>6. Paired(up[m - 1]) /\ ~OpenEnd(up[m - 1]) /\ up[m - 1] \in S
    BY <1>7, <2>2, <2>5 DEF Right
  <2>7. up[m] = up[m - 1] \o p[m] /\ p[m] \in S /\ Paired(p[m]) /\ ~OpenEnd(p[m])
    BY <1>4, <1>5, <1>7, <1>8, <2>5
  <2>8. Paired(up[m - 1] \o p[m]) /\ ~OpenEnd(up[m - 1] \o p[m])
    BY <2>6, <2>7, PairedJoin DEF S
  <2> QED BY <2>3, <2>7, <2>8 DEF Right
<1>9. n \in 0..n
  BY <1>1
<1>11. n > 0 => Len(up[n]) > 0
  <2> SUFFICES ASSUME n > 0 PROVE Len(up[n]) > 0
    OBVIOUS
  <2>1. n \in 1..n /\ n - 1 \in 0..n
    BY <1>1
  <2> DEFINE u == up[n - 1]
             v == p[n]
  <2>2. up[n] = u \o v /\ u \in S /\ v \in S /\ Len(v) > 0
    BY <1>5, <1>7, <1>12, <2>1
  <2> HIDE DEF u, v
  <2>3. Len(u) \in Nat /\ Len(v) \in Nat /\ Len(u \o v) = Len(u) + Len(v)
    BY <2>2 DEF S
  <2>4. Len(u \o v) > 0
    BY <2>2, <2>3
  <2> QED BY <2>2, <2>4
<1>10. up[n] \in S /\ ((\A i \in 1..n : s[i] # "r") => Right(n))
  <2> HIDE DEF Right
  <2> QED BY <1>7, <1>8, <1>9
<1> QED BY <1>2, <1>7, <1>10, <1>11 DEF S, n

\* Matches with whole line ends that are replaced with whole line ends leave them whole.
LEMMA ReplacedIsPaired ==
  ASSUME NEW text \in Seq(TextChars), NEW part \in Seq(TextChars), NEW new \in Seq(TextChars),
         NEW places \in SUBSET At(part, text), Len(part) > 0,
         Paired(text), ~OpenEnd(text), Paired(part), ~OpenEnd(part), Paired(new), ~OpenEnd(new)
  PROVE  /\ Replaced(text, places, part, new) \in Seq(TextChars)
         /\ Paired(Replaced(text, places, part, new)) /\ ~OpenEnd(Replaced(text, places, part, new))
<1> DEFINE N == Len(text)
           L == Len(part)
           S == Seq(TextChars)
           gone == Gone(text, places, part)
           all == Replaced(text, places, part, new)
<1>1. N \in Nat /\ L \in Nat /\ L > 0
  OBVIOUS
<1>2. \A q \in places : /\ q \in 1..(N + 1) /\ q + L - 1 <= N
                        /\ \A k \in 1..L : part[k] = text[q + k - 1]
  <2>1. \A q \in places : q \in At(part, text)
    OBVIOUS
  <2> QED BY <2>1, AtIs
<1>3. places \in SUBSET Int
  BY <1>2
<1>4. PICK p \in TextPieces(text, places, part, new), up \in [0..(N + 1) -> S] :
            /\ up[0] = <<>> /\ \A m \in 1..(N + 1) : up[m] = up[m - 1] \o p[m]
            /\ all = up[N + 1]
  <2>1. IsPutTogether(text, places, part, new)
    BY <1>3, ReplacedIs
  <2> QED BY <2>1 DEF IsPutTogether
<1>5. \A m \in 1..(N + 1) : m \in gone <=> m > N \/ \E q \in places : q <= m /\ m < q + L
  BY DEF Gone
<1>6. \A m \in 1..N : /\ text[m] = "n" => m > 1 /\ text[m - 1] = "r"
                      /\ text[m] = "r" => m < N /\ text[m + 1] = "n"
  <2>1. ASSUME NEW m \in 1..N, text[m] = "r" PROVE m < N
    BY <2>1 DEF OpenEnd
  <2> QED BY <2>1 DEF Paired
<1>7. part[1] # "n" /\ part[L] # "r"
  <2>1. 1 \in 1..L /\ L \in 1..L
    BY <1>1
  <2> QED BY <2>1 DEF Paired, OpenEnd
\* A match does not begin within a line end, nor end within one.
<1>8. ASSUME NEW q \in places PROVE text[q] # "n" /\ text[q + L - 1] # "r"
  <2>1. 1 \in 1..L /\ L \in 1..L /\ q + 1 - 1 = q
    BY <1>1, <1>2
  <2>2. part[1] = text[q + 1 - 1] /\ part[L] = text[q + L - 1]
    BY <1>2, <2>1
  <2> QED BY <1>7, <2>1, <2>2
<1>9. ASSUME NEW m \in 1..(N + 1)
      PROVE  \E a, b \in S : /\ p[m] = a \o b
                             /\ (m \in places => a = new) /\ (m \notin places => a = <<>>)
                             /\ (m \in gone => b = <<>>)
                             /\ (m \notin gone => m \in 1..N /\ b = <<text[m]>>)
  BY <1>4 DEF TextPieces
<1>10. \A m \in 1..N : text[m] \in TextChars
  BY ElementOfSeq
<1>11. /\ <<>> \in S /\ Paired(<<>>) /\ ~OpenEnd(<<>>)
       /\ \A c \in TextChars : <<c>> \in S /\ (OpenEnd(<<c>>) <=> c = "r") /\ (c # "n" => Paired(<<c>>))
  BY TextAssumption, OneIsPaired
<1>12. new \in S /\ \A x \in S : x \o <<>> = x /\ <<>> \o x = x
  OBVIOUS
<1> HIDE DEF gone, N, L, S, all
<1> DEFINE Half(m) == m \in 1..N /\ m \notin gone /\ text[m] = "r"
           Right(m) == Paired(up[m]) /\ (OpenEnd(up[m]) <=> Half(m))
           Bad == {m \in 0..(N + 1) : ~Right(m)}
<1>13. ASSUME NEW m \in 1..(N + 1), Right(m - 1) PROVE Right(m)
  <2>0. m - 1 \in 0..(N + 1) /\ m \in Int /\ m - 1 \in Int
    BY <1>1
  <2>1. up[m] = up[m - 1] \o p[m] /\ m - 1 \in 0..(N + 1) /\ m \in Int /\ m - 1 \in Int
    BY <1>4, <2>0
  <2>2. up[m - 1] \in S
    BY <1>4, <2>1
  <2>3. PICK a \in S, b \in S :
            /\ p[m] = a \o b /\ (m \in places => a = new) /\ (m \notin places => a = <<>>)
            /\ (m \in gone => b = <<>>) /\ (m \notin gone => m \in 1..N /\ b = <<text[m]>>)
    BY <1>9
  <2>4. CASE Half(m - 1)
    <3>1. m - 1 \in 1..N /\ m - 1 \notin gone /\ text[m - 1] = "r"
      BY <2>4
    <3>2. m \in 1..N /\ text[m] = "n"
      <4> DEFINE l == m - 1
      <4>1. l \in 1..N /\ text[l] = "r" /\ l + 1 = m
        BY <2>1, <3>1
      <4> HIDE DEF l
      <4>2. l < N /\ text[l + 1] = "n"
        BY <1>6, <4>1
      <4> QED BY <1>1, <4>1, <4>2
    <3>3. m \notin places
      BY <1>8, <3>2
    <3>4. m \notin gone
      <4> SUFFICES ASSUME m \in gone PROVE FALSE
        OBVIOUS
      <4>1. PICK q \in places : q <= m /\ m < q + L
        BY <1>1, <1>5, <3>2
      <4>2. q # m /\ q \in Int
        BY <1>2, <3>3
      <4>3. q <= m - 1 /\ m - 1 < q + L
        BY <1>1, <2>1, <4>1, <4>2
      <4>4. m - 1 \in 1..(N + 1)
        BY <1>1, <3>1
      <4> QED BY <1>5, <3>1, <4>3, <4>4
    <3>5. a \o b = b /\ b = <<"n">>
      BY <1>12, <2>3, <3>2, <3>3, <3>4
    <3>6. Paired(up[m - 1]) /\ OpenEnd(up[m - 1])
      BY <1>13, <2>4
    <3>7. Paired(up[m - 1] \o <<"n">>) /\ ~OpenEnd(up[m - 1] \o <<"n">>)
      BY <2>2, <3>6, ClosingJoin DEF S
    <3>8. ~Half(m)
      BY <3>2
    <3> QED BY <2>1, <2>3, <3>5, <3>7, <3>8
  <2>5. CASE ~Half(m - 1)
    <3>1. Paired(up[m - 1]) /\ ~OpenEnd(up[m - 1])
      BY <1>13, <2>5
    <3>2. a \in S /\ Paired(a) /\ ~OpenEnd(a)
      BY <1>11, <2>3
    <3>3. b \in S /\ Paired(b) /\ (OpenEnd(b) <=> Half(m))
      <4>1. CASE m \in gone
        <5>1. ~Half(m)
          BY <4>1
        <5> QED BY <1>11, <2>3, <4>1, <5>1
      <4>2. CASE m \notin gone
        <5>1. m \in 1..N /\ b = <<text[m]>> /\ text[m] \in TextChars
          BY <1>10, <2>3, <4>2
        <5>2. text[m] # "n"
          <6> SUFFICES ASSUME text[m] = "n" PROVE FALSE
            OBVIOUS
          <6>1. m > 1 /\ text[m - 1] = "r"
            BY <1>6, <5>1
          <6>2. m - 1 \in 1..N /\ m - 1 \in 1..(N + 1) /\ ~(m - 1 > N)
            BY <1>1, <5>1, <6>1
          <6>3. m - 1 \in gone
            BY <2>5, <6>1, <6>2
          <6>4. PICK q \in places : q <= m - 1 /\ m - 1 < q + L
            BY <1>5, <6>2, <6>3
          <6>5. ~(q <= m /\ m < q + L)
            BY <1>5, <4>2
          <6>6. q \in Int
            BY <1>2
          <6>7. m = q + L
            BY <1>1, <2>1, <6>4, <6>5, <6>6
          <6>8. text[q + L - 1] # "r"
            BY <1>8
          <6> DEFINE e == q + L - 1
          <6>9. m - 1 = e
            BY <1>1, <6>6, <6>7
          <6>10. text[e] # "r"
            BY <6>8
          <6> HIDE DEF e
          <6> QED BY <6>1, <6>9, <6>10
        <5>3. Half(m) <=> text[m] = "r"
          BY <4>2, <5>1
        <5> QED BY <1>11, <2>3, <5>1, <5>2, <5>3
      <4> QED BY <4>1, <4>2
    <3> HIDE DEF Half
    <3>4. Paired(up[m - 1] \o a) /\ ~OpenEnd(up[m - 1] \o a) /\ up[m - 1] \o a \in S
      <4>1. up[m - 1] \o a \in S
        BY <2>2, <3>2 DEF S
      <4> QED BY <2>2, <3>1, <3>2, <4>1, PairedJoin DEF S
    <3>5. up[m] = (up[m - 1] \o a) \o b
      <4>1. (up[m - 1] \o a) \o b = up[m - 1] \o (a \o b)
        BY <2>2, <3>2, <3>3, JoinIsAssociative DEF S
      <4> QED BY <2>1, <2>3, <4>1
    <3> DEFINE x == up[m - 1] \o a
    <3> HIDE DEF x
    <3>6. x \in S /\ Paired(x) /\ ~OpenEnd(x) /\ up[m] = x \o b
      BY <3>4, <3>5 DEF x
    <3>7. Paired(x \o b) /\ (~OpenEnd(b) => ~OpenEnd(x \o b))
      BY <3>3, <3>6, PairedJoin DEF S
    <3>8. OpenEnd(b) => OpenEnd(x \o b)
      <4> SUFFICES ASSUME OpenEnd(b) PROVE OpenEnd(x \o b)
        OBVIOUS
      <4>1. /\ Len(x \o b) = Len(x) + Len(b) /\ Len(x) \in Nat /\ Len(b) \in Nat
            /\ \A i \in 1..(Len(x) + Len(b)) : (x \o b)[i] = IF i <= Len(x) THEN x[i] ELSE b[i - Len(x)]
        BY <3>3, <3>6 DEF S
      <4>2. Len(b) > 0 /\ b[Len(b)] = "r"
        BY DEF OpenEnd
      <4> DEFINE e == Len(x) + Len(b)
      <4>3. e \in 1..e /\ ~(e <= Len(x)) /\ e - Len(x) = Len(b)
        BY <4>1, <4>2
      <4> HIDE DEF e
      <4>4. (x \o b)[e] = b[e - Len(x)]
        BY <4>1, <4>3 DEF e
      <4>5. e > 0 /\ (x \o b)[e] = "r" /\ Len(x \o b) = e
        BY <4>1, <4>2, <4>3, <4>4 DEF e
      <4> QED BY <4>5 DEF OpenEnd
    <3> QED BY <3>3, <3>6, <3>7, <3>8
  <2> QED BY <2>4, <2>5
<1>14. Bad = {}
  <2> SUFFICES ASSUME Bad # {} PROVE FALSE
    OBVIOUS
  <2>0. Right(0)
    <3>1. ~Half(0)
      BY <1>1
    <3> QED BY <1>4, <1>11, <3>1
  <2> HIDE DEF Right
  <2>1. Bad \in SUBSET Nat
    BY <1>1
  <2>2. PICK m \in Bad : \A k \in Bad : m <= k
    <3> HIDE DEF Bad
    <3> QED BY <2>1, LeastOf
  <2>3. m \in 0..(N + 1) /\ ~Right(m)
    BY <2>2
  <2>4. m # 0
    BY <2>0, <2>3
  <2>5. m \in 1..(N + 1) /\ m - 1 \in 0..(N + 1) /\ ~(m <= m - 1)
    BY <1>1, <2>3, <2>4
  <2>6. Right(m - 1)
    BY <2>2, <2>5
  <2> QED BY <1>13, <2>3, <2>5, <2>6
<1>15. Paired(up[N + 1]) /\ ~OpenEnd(up[N + 1]) /\ up[N + 1] \in S
  <2>1. N + 1 \in 0..(N + 1) /\ N + 1 \notin 1..N
    BY <1>1
  <2>2. Right(N + 1)
    <3> HIDE DEF Right
    <3> QED BY <1>14, <2>1
  <2> QED BY <1>4, <2>1, <2>2
<1> QED BY <1>4, <1>15 DEF S, all

\* Whole line ends are what _supports_crlf_compat asks for.
LEMMA CrlfOnlyIs ==
  ASSUME NEW text \in Seq(TextChars)
  PROVE  /\ CrlfOnly(text) => Paired(text) /\ ~OpenEnd(text)
         /\ Paired(text) /\ ~OpenEnd(text) => CrlfOnly(text) \/ ToSet(text) \cap {"r", "n"} = {}
<1> DEFINE n == Len(text)
<1>1. n \in Nat /\ DOMAIN text = 1..n
  OBVIOUS
<1>2. ASSUME CrlfOnly(text) PROVE Paired(text) /\ ~OpenEnd(text)
  <2>1. \A i \in 1..n : /\ text[i] = "n" => i > 1 /\ text[i - 1] = "r"
                        /\ text[i] = "r" => i < n /\ text[i + 1] = "n"
    BY <1>1, <1>2 DEF CrlfOnly
  <2> HIDE DEF n
  <2>2. ~(n > 0 /\ text[n] = "r")
    <3>1. n > 0 => n \in 1..n /\ ~(n < n)
      BY <1>1
    <3> QED BY <2>1, <3>1
  <2> QED BY <2>1, <2>2 DEF Paired, OpenEnd, n
<1>3. ASSUME Paired(text), ~OpenEnd(text) PROVE CrlfOnly(text) \/ ToSet(text) \cap {"r", "n"} = {}
  <2>1. \A i \in 1..n : /\ text[i] = "n" => i > 1 /\ text[i - 1] = "r"
                        /\ text[i] = "r" => i < n /\ text[i + 1] = "n"
    <3>1. ASSUME NEW i \in 1..n, text[i] = "r" PROVE i < n
      BY <1>1, <1>3, <3>1 DEF OpenEnd
    <3> QED BY <1>3, <3>1 DEF Paired
  <2>2. CASE \E i \in 1..n : text[i] = "r" /\ text[i + 1] = "n" /\ i < n
    <3>1. PICK i \in 1..n : text[i] = "r" /\ text[i + 1] = "n" /\ i < n
      BY <2>2
    <3> DEFINE t == <<"r", "n">>
               j == i + 1
               u == SubSeq(text, i, j)
    <3>2. /\ t \in [1..2 -> {"r", "n"}] /\ Len(t) = 2 /\ t[1] = "r" /\ t[2] = "n" /\ \A k \in 1..2 : k = 1 \/ k = 2
      OBVIOUS
    <3>3. i \in Int /\ j \in Int /\ j - i + 1 = 2 /\ i <= j /\ i + 1 - 1 = i /\ i + 2 - 1 = j
      OBVIOUS
    <3>4. \A k \in i..j : text[k] \in TextChars
      <4>1. \A k \in i..j : k \in 1..n
        BY <1>1, <3>1
      <4> QED BY <4>1, ElementOfSeq
    <3>5. /\ u \in Seq(TextChars) /\ Len(u) = (IF i <= j THEN j - i + 1 ELSE 0)
          /\ \A k \in 1..(j - i + 1) : u[k] = text[i + k - 1]
      <4> HIDE DEF j
      <4> QED BY <3>3, <3>4, SubSeqProperties
    <3>6. Len(u) = 2 /\ u \in Seq(TextChars)
      BY <3>3, <3>5
    <3>7. u[1] = text[i] /\ u[2] = text[j]
      <4> HIDE DEF u, j
      <4>1. 1 \in 1..(j - i + 1) /\ 2 \in 1..(j - i + 1)
        BY <3>3
      <4>2. u[1] = text[i + 1 - 1] /\ u[2] = text[i + 2 - 1]
        BY <3>5, <4>1
      <4> QED BY <3>3, <4>2
    <3>8. text[i] = "r" /\ text[j] = "n"
      BY <3>1
    <3>9. u = t
      <4> HIDE DEF u, t, j
      <4>1. u = [k \in 1..2 |-> u[k]]
        BY <3>6
      <4>2. t = [k \in 1..2 |-> t[k]]
        BY <3>2
      <4>3. \A k \in 1..2 : u[k] = t[k]
        BY <3>2, <3>7, <3>8
      <4> QED BY <4>1, <4>2, <4>3
    <3>10. i \in At(t, text)
      <4>1. i \in 1..(n - Len(t) + 1) /\ i + Len(t) - 1 = j
        BY <1>1, <3>1, <3>2
      <4> HIDE DEF t, j
      <4>2. SubSeq(text, i, i + Len(t) - 1) = t
        BY <3>9, <4>1
      <4> QED BY <4>1, <4>2 DEF At
    <3> QED BY <1>1, <2>1, <3>10 DEF CrlfOnly
  <2>3. CASE ~\E i \in 1..n : text[i] = "r" /\ text[i + 1] = "n" /\ i < n
    <3>1. \A i \in 1..n : text[i] # "r"
      BY <2>1, <2>3
    <3>2. \A i \in 1..n : text[i] # "n"
      <4>1. ASSUME NEW i \in 1..n, text[i] = "n" PROVE FALSE
        <5>1. i > 1 /\ text[i - 1] = "r"
          BY <2>1, <4>1
        <5>2. i - 1 \in 1..n
          BY <1>1, <5>1
        <5> QED BY <3>1, <5>1, <5>2
      <4> QED BY <4>1
    <3> QED BY <1>1, <3>1, <3>2 DEF ToSet
  <2> QED BY <2>2, <2>3
<1> QED BY <1>2, <1>3

\* What is there is matched.
LEMMA FirstIsMatched ==
  ASSUME NEW text \in Seq(TextChars), NEW part \in Seq(TextChars), Matches(part, text) = {}
  PROVE  At(part, text) = {}
<1> SUFFICES ASSUME At(part, text) # {} PROVE FALSE
  OBVIOUS
<1>1. \A i \in At(part, text) :
            i \in Matches(part, text) <=> \A j \in Matches(part, text) : j < i => j + Len(part) <= i
  BY MatchesAre
<1> QED BY <1>1

\* Nothing is everywhere.
LEMMA NothingIsThere ==
  ASSUME NEW text \in Seq(TextChars), NEW part \in Seq(TextChars), At(part, text) = {}
  PROVE  Len(part) > 0
<1> SUFFICES ASSUME ~(Len(part) > 0) PROVE FALSE
  OBVIOUS
<1>1. Len(part) = 0 /\ part = <<>> /\ Len(text) \in Nat
  OBVIOUS
<1>2. 1 \in 1..(Len(text) - Len(part) + 1) /\ 1 + Len(part) - 1 = 0
  BY <1>1
<1>3. SubSeq(text, 1, 0) = <<>>
  BY SubSeqEmpty
<1>4. 1 \in At(part, text)
  BY <1>1, <1>2, <1>3 DEF At
<1> QED BY <1>4

(***************************************************************************)
(* An edit replaces what it matched and nothing else, with whole line ends *)
(* in a file that has no others (EditFileTool.execute).                    *)
(***************************************************************************)
LEMMA EditsAreLocal == TextInv => EditIsLocal
<1> SUFFICES ASSUME TextInv, question.kind = "edit" PROVE EditIsLocal
  BY DEF EditIsLocal
<1> DEFINE text == question.text
           old == question.old
           new == question.new
           all == question.all
           compat == At(old, text) = {} /\ CrlfOnly(text) /\ At(Crlf(old), text) # {}
           part == IF compat THEN Crlf(old) ELSE old
           put == IF compat THEN Crlf(new) ELSE new
           found == Matches(part, text)
<1>1. /\ text \in Seq(TextChars) /\ old \in Seq(TextChars) /\ new \in Seq(TextChars)
      /\ answer = Edit(text, old, new, all)
  BY DEF TextInv
<1>2. /\ found = {} => answer.made = "not found" /\ answer.text = text
      /\ found # {} /\ Cardinality(found) > 1 /\ ~all => answer.made = "ambiguous" /\ answer.text = text
      /\ found # {} /\ ~(Cardinality(found) > 1 /\ ~all) =>
            answer.made = "edited" /\ answer.text = Replaced(text, found, part, put)
  <2>1. answer = CASE found = {} -> [made |-> "not found", text |-> text]
                   [] Cardinality(found) > 1 /\ ~all -> [made |-> "ambiguous", text |-> text]
                   [] OTHER -> [made |-> "edited", text |-> Replaced(text, found, part, put)]
    BY <1>1 DEF Edit
  <2> DEFINE many == Cardinality(found) > 1
             made == Replaced(text, found, part, put)
  <2>6. found = {} => ~many
    <3> HIDE DEF found
    <3> QED BY FS_EmptySet
  <2> HIDE DEF found, part, put, text, all, many, made
  <2>2. found = {} => answer = [made |-> "not found", text |-> text]
    BY <2>1, <2>6 DEF many
  <2>3. found # {} /\ many /\ ~all => answer = [made |-> "ambiguous", text |-> text]
    BY <2>1 DEF many
  <2>4. found # {} /\ ~(many /\ ~all) => answer = [made |-> "edited", text |-> made]
    BY <2>1 DEF many, made
  <2>5. ASSUME found = {} PROVE answer.made = "not found" /\ answer.text = text
    <3>1. answer = [made |-> "not found", text |-> text]
      BY <2>2, <2>5
    <3> QED BY <3>1
  <2>7. found # {} /\ many /\ ~all => answer.made = "ambiguous" /\ answer.text = text
    BY <2>3
  <2>8. found # {} /\ ~(many /\ ~all) => answer.made = "edited" /\ answer.text = made
    BY <2>4
  <2> QED BY <2>5, <2>7, <2>8 DEF many, made
<1> HIDE DEF text, old, new, all
<1>3. ~compat => part = old /\ put = new
  OBVIOUS
<1>4. compat => part = Crlf(old) /\ put = Crlf(new) /\ At(old, text) = {} /\ CrlfOnly(text)
  OBVIOUS
<1> HIDE DEF compat, part, put, found
<1>5. answer.made = "edited" => found # {} /\ ~(Cardinality(found) > 1 /\ ~all)
                                /\ answer.text = Replaced(text, found, part, put)
  BY <1>2
<1>6. answer.made # "edited" => answer.text = text
  BY <1>2
<1>7. answer.made = "not found" => At(old, text) = {}
  <2> SUFFICES ASSUME found = {} PROVE At(old, text) = {}
    BY <1>2
  <2>1. CASE compat
    BY <1>4, <2>1
  <2>2. CASE ~compat
    BY <1>1, <1>3, <2>2, FirstIsMatched DEF found
  <2> QED BY <2>1, <2>2
<1>8. part \in Seq(TextChars) /\ put \in Seq(TextChars)
  BY <1>1, <1>3, <1>4, CrlfIs
<1>9. found \subseteq At(part, text) /\ At(part, text) \subseteq 1..(Len(text) + 1)
      /\ \A i \in At(part, text) : i \in found <=> \A j \in found : j < i => j + Len(part) <= i
  <2>1. found \subseteq At(part, text)
      /\ \A i \in At(part, text) : i \in found <=> \A j \in found : j < i => j + Len(part) <= i
    BY <1>1, <1>8, MatchesAre DEF found
  <2>2. At(part, text) \subseteq 1..(Len(text) + 1)
    BY <1>1, <1>8, AtIs
  <2> QED BY <2>1, <2>2
<1>10. ASSUME answer.made = "edited", ~all
       PROVE  \/ \E i \in At(old, text) :
                    /\ \A j \in At(old, text) : i <= j /\ (j < i + Len(old) \/ j = i)
                    /\ answer.text = Spliced(text, i, old, new)
              \/ \E i \in At(Crlf(old), text) : answer.text = Spliced(text, i, Crlf(old), Crlf(new))
  <2>1. PICK i : found = {i}
    <3>1. IsFiniteSet(found)
      <4>1. Len(text) + 1 \in Int /\ 1 \in Int
        BY <1>1
      <4> DEFINE e == Len(text) + 1
      <4> HIDE DEF e
      <4>2. IsFiniteSet(1..e)
        BY <4>1, FS_Interval DEF e
      <4> QED BY <1>9, <4>2, FS_Subset DEF e
    <3>2. Cardinality(found) \in Nat /\ Cardinality(found) # 0 /\ ~(Cardinality(found) > 1)
      BY <1>5, <1>10, <3>1, FS_EmptySet, FS_CardinalityType
    <3>3. Cardinality(found) = 1
      BY <3>2
    <3> QED BY <3>1, <3>3, FS_Singleton
  <2>2. i \in At(part, text) /\ answer.text = Replaced(text, {i}, part, put)
    BY <1>5, <1>9, <1>10, <2>1
  <2>3. answer.text = Spliced(text, i, part, put)
    BY <1>1, <1>8, <2>2, OneIsReplaced
  <2>4. CASE compat
    BY <1>4, <2>2, <2>3, <2>4
  <2>5. CASE ~compat
    <3>1. ASSUME NEW j \in At(old, text) PROVE i <= j /\ (j < i + Len(old) \/ j = i)
      <4>1. j \in Int /\ i \in Int /\ Len(old) \in Nat
        BY <1>1, <1>3, <1>9, <2>2, <2>5
      <4>2. j # i => i < j /\ ~(i + Len(old) <= j)
        BY <1>3, <1>9, <2>1, <2>5
      <4> QED BY <4>1, <4>2
    <3> QED BY <1>3, <2>2, <2>3, <2>5, <3>1
  <2> QED BY <2>4, <2>5
<1>11. ASSUME answer.made = "edited", CrlfOnly(text), At(old, text) = {}, "r" \notin ToSet(old) \cup ToSet(new)
       PROVE  answer.text = <<>> \/ CrlfOnly(answer.text) \/ ToSet(answer.text) \cap {"r", "n"} = {}
  <2>1. compat
    <3> SUFFICES ASSUME ~compat PROVE FALSE
      OBVIOUS
    <3> QED BY <1>3, <1>5, <1>9, <1>11
  <2>2. (\A i \in 1..Len(old) : old[i] # "r") /\ (\A i \in 1..Len(new) : new[i] # "r")
    BY <1>1, <1>11 DEF ToSet
  <2>3. Paired(part) /\ ~OpenEnd(part) /\ Paired(put) /\ ~OpenEnd(put)
    BY <1>1, <1>4, <2>1, <2>2, CrlfIs
  <2>4. Paired(text) /\ ~OpenEnd(text)
    BY <1>1, <1>11, CrlfOnlyIs
  <2>5. Len(part) > 0
    <3>1. Len(old) > 0
      BY <1>1, <1>11, NothingIsThere
    <3> QED BY <1>1, <1>4, <2>1, <3>1, CrlfIs
  <2>6. Paired(answer.text) /\ ~OpenEnd(answer.text) /\ answer.text \in Seq(TextChars)
    BY <1>1, <1>5, <1>8, <1>9, <1>11, <2>3, <2>4, <2>5, ReplacedIsPaired
  <2> QED BY <2>6, CrlfOnlyIs
<1> QED BY <1>6, <1>7, <1>10, <1>11 DEF EditIsLocal, text, old, new, all

-----------------------------------------------------------------------------
(* TelegramText: Cutting                                                    *)

\* The characters of a text, and how many units one has.
LayoutChars == {"a", "w", "n"}
UnitsOf(c, utf16) == IF utf16 /\ c = "w" THEN 2 ELSE 1

\* A text from one place to another.
From(t, a, b) == SubSeq(t, a + 1, b)

\* Its length and its characters.
LEMMA FromIs ==
  ASSUME NEW X, NEW t \in Seq(X), NEW a \in 0..Len(t), NEW b \in a..Len(t)
  PROVE  /\ From(t, a, b) \in Seq(X) /\ Len(From(t, a, b)) = b - a /\ Len(t) \in Nat
         /\ \A i \in 1..(b - a) : a + i \in 1..Len(t) /\ From(t, a, b)[i] = t[a + i]
<1> DEFINE m == a + 1
<1>1. Len(t) \in Nat /\ m \in Int /\ b \in Int /\ a \in Int /\ a <= b /\ b <= Len(t) /\ 0 <= a
  OBVIOUS
<1>2. \A i \in m..b : t[i] \in X
  <2>1. \A i \in m..b : i \in 1..Len(t)
    BY <1>1
  <2> QED BY <2>1, ElementOfSeq
<1>3. /\ SubSeq(t, m, b) \in Seq(X)
      /\ Len(SubSeq(t, m, b)) = IF m <= b THEN b - m + 1 ELSE 0
      /\ \A i \in 1..(b - m + 1) : SubSeq(t, m, b)[i] = t[m + i - 1]
  <2> HIDE DEF m
  <2> QED BY <1>1, <1>2, SubSeqProperties
<1>4. From(t, a, b) = SubSeq(t, m, b)
  BY DEF From
<1>5. b - m + 1 = b - a /\ (m <= b <=> a < b)
  BY <1>1
<1>6. \A i \in 1..(b - a) : a + i \in 1..Len(t) /\ m + i - 1 = a + i
  BY <1>1
<1> HIDE DEF m
<1> QED BY <1>1, <1>3, <1>4, <1>5, <1>6

\* Two parts that meet.
LEMMA FromJoin ==
  ASSUME NEW X, NEW t \in Seq(X), NEW a \in 0..Len(t), NEW b \in a..Len(t), NEW c \in b..Len(t)
  PROVE  From(t, a, b) \o From(t, b, c) = From(t, a, c)
<1> DEFINE s == From(t, a, b) \o From(t, b, c)
<1>1. Len(t) \in Nat /\ a \in Int /\ b \in Int /\ c \in Int /\ a <= b /\ b <= c /\ 0 <= a /\ c <= Len(t)
      /\ b \in 0..Len(t) /\ c \in a..Len(t)
  OBVIOUS
<1>2. /\ From(t, a, b) \in Seq(X) /\ Len(From(t, a, b)) = b - a
      /\ \A i \in 1..(b - a) : From(t, a, b)[i] = t[a + i]
  BY FromIs
<1>3. /\ From(t, b, c) \in Seq(X) /\ Len(From(t, b, c)) = c - b
      /\ \A i \in 1..(c - b) : From(t, b, c)[i] = t[b + i]
  BY <1>1, FromIs
<1>4. /\ From(t, a, c) \in Seq(X) /\ Len(From(t, a, c)) = c - a
      /\ \A i \in 1..(c - a) : From(t, a, c)[i] = t[a + i]
  BY <1>1, FromIs
<1>5. /\ s \in Seq(X) /\ Len(s) = (b - a) + (c - b)
      /\ \A i \in 1..((b - a) + (c - b)) :
            s[i] = IF i <= b - a THEN From(t, a, b)[i] ELSE From(t, b, c)[i - (b - a)]
  <2> DEFINE u == From(t, a, b)
             v == From(t, b, c)
  <2>1. u \in Seq(X) /\ v \in Seq(X) /\ Len(u) = b - a /\ Len(v) = c - b /\ s = u \o v
    BY <1>2, <1>3
  <2> HIDE DEF u, v, s
  <2>2. /\ s \in Seq(X) /\ Len(s) = Len(u) + Len(v)
        /\ \A i \in 1..(Len(u) + Len(v)) : s[i] = IF i <= Len(u) THEN u[i] ELSE v[i - Len(u)]
    BY <2>1, ConcatProperties
  <2> QED BY <2>1, <2>2 DEF u, v
<1> HIDE DEF s
<1>6. ASSUME NEW i \in 1..Len(s) PROVE s[i] = From(t, a, c)[i]
  <2>1. i \in 1..(c - a) /\ i \in 1..((b - a) + (c - b)) /\ i \in Int
    BY <1>1, <1>5
  <2>2. CASE i <= b - a
    <3>1. i \in 1..(b - a)
      BY <1>1, <2>1, <2>2
    <3> QED BY <1>2, <1>4, <1>5, <2>1, <2>2, <3>1
  <2>3. CASE ~(i <= b - a)
    <3> DEFINE j == i - (b - a)
    <3>1. j \in 1..(c - b) /\ b + j = a + i
      BY <1>1, <2>1, <2>3
    <3>2. s[i] = From(t, b, c)[j]
      BY <1>5, <2>1, <2>3
    <3> HIDE DEF j
    <3>3. From(t, b, c)[j] = t[b + j]
      BY <1>3, <3>1
    <3> QED BY <1>4, <2>1, <3>1, <3>2, <3>3
  <2> QED BY <2>2, <2>3
<1>7. Len(s) = Len(From(t, a, c))
  BY <1>1, <1>4, <1>5
<1> QED BY <1>4, <1>5, <1>6, <1>7, SeqEqual DEF s

\* The units of a text.
LEMMA UnitsAre ==
  ASSUME NEW t \in Seq(LayoutChars), NEW utf16 \in BOOLEAN
  PROVE  /\ Units(t, utf16) \in Nat /\ Len(t) <= Units(t, utf16) /\ (Len(t) = 0 => Units(t, utf16) = 0)
         /\ ~utf16 => Units(t, utf16) = Len(t)
<1> DEFINE W == {i \in DOMAIN t : t[i] = "w"}
<1>1. Len(t) \in Nat /\ DOMAIN t = 1..Len(t)
  OBVIOUS
<1>2. IsFiniteSet(1..Len(t)) /\ W \subseteq 1..Len(t)
  BY <1>1, FS_Interval
<1>3. IsFiniteSet(W) /\ Cardinality(W) \in Nat
  BY <1>2, FS_Subset, FS_CardinalityType
<1>4. Len(t) = 0 => Cardinality(W) = 0
  <2>1. Len(t) = 0 => W = {}
    BY <1>1
  <2> HIDE DEF W
  <2> QED BY <2>1, FS_EmptySet
<1> QED BY <1>1, <1>3, <1>4 DEF Units

\* Those of its beginning, from character to character.
LEMMA UnitsGrow ==
  ASSUME NEW t \in Seq(LayoutChars), NEW utf16 \in BOOLEAN, NEW k \in 1..Len(t)
  PROVE  Units(From(t, 0, k), utf16) = Units(From(t, 0, k - 1), utf16) + UnitsOf(t[k], utf16)
<1> DEFINE s == From(t, 0, k)
           r == From(t, 0, k - 1)
           W(u) == {i \in DOMAIN u : u[i] = "w"}
<1>1. Len(t) \in Nat /\ k \in Int /\ 0 \in 0..Len(t) /\ k \in 0..Len(t) /\ k - 1 \in 0..Len(t)
  OBVIOUS
<1>2. /\ s \in Seq(LayoutChars) /\ Len(s) = k /\ \A i \in 1..k : s[i] = t[i]
  <2>1. /\ s \in Seq(LayoutChars) /\ Len(s) = k - 0 /\ \A i \in 1..(k - 0) : s[i] = t[0 + i]
    BY <1>1, FromIs
  <2> HIDE DEF s
  <2> QED BY <2>1
<1>3. /\ r \in Seq(LayoutChars) /\ Len(r) = k - 1 /\ \A i \in 1..(k - 1) : r[i] = t[i]
  <2> DEFINE l == k - 1
  <2>1. l \in 0..Len(t)
    BY <1>1
  <2> HIDE DEF l
  <2>2. /\ From(t, 0, l) \in Seq(LayoutChars) /\ Len(From(t, 0, l)) = l - 0
        /\ \A i \in 1..(l - 0) : From(t, 0, l)[i] = t[0 + i]
    BY <1>1, <2>1, FromIs
  <2>3. l - 0 = l /\ \A i \in 1..l : 0 + i = i
    BY <2>1
  <2> QED BY <2>2, <2>3 DEF l
<1> HIDE DEF s, r
<1>4. DOMAIN s = 1..k /\ DOMAIN r = 1..(k - 1)
  BY <1>2, <1>3
<1>5. W(r) \subseteq 1..(k - 1) /\ k \notin W(r)
  BY <1>1, <1>4
<1>6. W(s) = IF t[k] = "w" THEN W(r) \cup {k} ELSE W(r)
  <2>1. \A i \in 1..k : i = k \/ i \in 1..(k - 1)
    BY <1>1
  <2>2. k \in 1..k /\ 1..(k - 1) \subseteq 1..k /\ k \notin 1..(k - 1)
    BY <1>1
  <2> QED BY <1>2, <1>3, <1>4, <2>1, <2>2
<1> HIDE DEF W
<1>7. IsFiniteSet(W(r)) /\ Cardinality(W(r)) \in Nat
  <2>1. IsFiniteSet(1..(k - 1))
    <3> DEFINE l == k - 1
    <3>1. l \in Int /\ 1 \in Int
      BY <1>1
    <3> HIDE DEF l
    <3>2. IsFiniteSet(1..l)
      BY <3>1, FS_Interval
    <3> QED BY <3>2 DEF l
  <2> QED BY <1>5, <2>1, FS_Subset, FS_CardinalityType
<1>8. Cardinality(W(s)) = Cardinality(W(r)) + (IF t[k] = "w" THEN 1 ELSE 0)
  <2>1. CASE t[k] = "w"
    <3>1. W(s) = W(r) \cup {k}
      BY <1>6, <2>1
    <3> QED BY <1>5, <1>7, <2>1, <3>1, FS_AddElement
  <2>2. CASE t[k] # "w"
    BY <1>6, <1>7, <2>2
  <2> QED BY <2>1, <2>2
<1>9. Units(s, utf16) = k + (IF utf16 THEN Cardinality(W(s)) ELSE 0)
      /\ Units(r, utf16) = k - 1 + (IF utf16 THEN Cardinality(W(r)) ELSE 0)
  BY <1>2, <1>3 DEF Units, W
<1>10. Units(s, utf16) = Units(r, utf16) + UnitsOf(t[k], utf16)
  BY <1>1, <1>7, <1>8, <1>9 DEF UnitsOf
<1> QED BY <1>10 DEF s, r

\* A part of a part is a part.
LEMMA FromFrom ==
  ASSUME NEW X, NEW t \in Seq(X), NEW a \in 0..Len(t), NEW b \in a..Len(t),
         NEW c \in 0..(b - a), NEW d \in c..(b - a)
  PROVE  From(From(t, a, b), c, d) = From(t, a + c, a + d)
<1> DEFINE s == From(t, a, b)
           c2 == a + c
           d2 == a + d
<1>1. /\ Len(t) \in Nat /\ a \in Int /\ b \in Int /\ c \in Int /\ d \in Int
      /\ 0 <= a /\ a <= b /\ b <= Len(t) /\ 0 <= c /\ c <= d /\ d <= b - a
  OBVIOUS
<1>2. c2 \in 0..Len(t) /\ d2 \in c2..Len(t) /\ d2 - c2 = d - c
  BY <1>1
<1>3. s \in Seq(X) /\ Len(s) = b - a /\ \A i \in 1..(b - a) : s[i] = t[a + i]
  BY FromIs
<1> HIDE DEF s
<1>4. c \in 0..Len(s) /\ d \in c..Len(s)
  BY <1>1, <1>3
<1>5. /\ From(s, c, d) \in Seq(X) /\ Len(From(s, c, d)) = d - c
      /\ \A i \in 1..(d - c) : From(s, c, d)[i] = s[c + i]
  <2>1. s \in Seq(X)
    BY <1>3
  <2> QED BY <2>1, <1>4, FromIs
<1>6. /\ From(t, c2, d2) \in Seq(X) /\ Len(From(t, c2, d2)) = d - c
      /\ \A i \in 1..(d - c) : From(t, c2, d2)[i] = t[c2 + i]
  <2> HIDE DEF c2, d2
  <2>1. /\ From(t, c2, d2) \in Seq(X) /\ Len(From(t, c2, d2)) = d2 - c2
        /\ \A i \in 1..(d2 - c2) : From(t, c2, d2)[i] = t[c2 + i]
    BY <1>2, FromIs
  <2> QED BY <1>2, <2>1
<1>7. ASSUME NEW i \in 1..(d - c) PROVE From(s, c, d)[i] = From(t, c2, d2)[i]
  <2> DEFINE j == c + i
  <2>1. j \in 1..(b - a) /\ a + j = c2 + i
    BY <1>1
  <2>2. s[j] = t[a + j]
    <3> HIDE DEF j
    <3> QED BY <1>3, <2>1
  <2>3. From(s, c, d)[i] = s[j] /\ From(t, c2, d2)[i] = t[c2 + i]
    BY <1>5, <1>6
  <2> QED BY <2>1, <2>2, <2>3
<1> DEFINE u == From(s, c, d)
           v == From(t, c2, d2)
<1>8. u \in Seq(X) /\ v \in Seq(X) /\ Len(u) = Len(v) /\ \A i \in 1..Len(u) : u[i] = v[i]
  BY <1>5, <1>6, <1>7
<1>9. u = v
  <2> HIDE DEF u, v
  <2> QED BY <1>8, SeqEqual
<1> QED BY <1>9 DEF s

\* A character is the part from it to itself.
LEMMA OneFrom ==
  ASSUME NEW X, NEW t \in Seq(X), NEW m \in 1..Len(t)
  PROVE  From(t, m - 1, m) = <<t[m]>>
<1> DEFINE l == m - 1
           s == From(t, l, m)
<1>1. Len(t) \in Nat /\ l \in 0..Len(t) /\ m \in l..Len(t) /\ m - l = 1 /\ l + 1 = m /\ t[m] \in X
  BY ElementOfSeq
<1> HIDE DEF l
<1>2. s \in Seq(X) /\ Len(s) = 1 /\ s[1] = t[m]
  <2>1. s \in Seq(X) /\ Len(s) = m - l /\ \A i \in 1..(m - l) : s[i] = t[l + i]
    BY <1>1, FromIs
  <2>2. 1 \in 1..(m - l)
    BY <1>1
  <2> HIDE DEF s
  <2> QED BY <1>1, <2>1, <2>2
<1> HIDE DEF s
<1>3. s = <<t[m]>>
  BY <1>1, <1>2
<1> QED BY <1>3 DEF l, s

\* The whole of a text.
LEMMA AllFrom ==
  ASSUME NEW X, NEW t \in Seq(X)
  PROVE  From(t, 0, Len(t)) = t /\ From(t, 0, 0) = <<>>
<1> DEFINE n == Len(t)
           s == From(t, 0, n)
           z == From(t, 0, 0)
<1>1. n \in Nat /\ 0 \in 0..n /\ n \in 0..n /\ 0 \in 0..0
  OBVIOUS
<1>2. s \in Seq(X) /\ Len(s) = n - 0 /\ \A i \in 1..(n - 0) : s[i] = t[0 + i]
  BY <1>1, FromIs
<1>3. z \in Seq(X) /\ Len(z) = 0 - 0
  BY <1>1, FromIs
<1> HIDE DEF s, z
<1>4. Len(s) = Len(t) /\ \A i \in 1..Len(s) : s[i] = t[i]
  BY <1>1, <1>2
<1>5. s = t
  BY <1>2, <1>4, SeqEqual
<1>6. z = <<>>
  BY <1>3
<1> QED BY <1>5, <1>6 DEF s, z

\* Where the parts end that the beginning of a text is cut into: none is empty.
CutEnds(t, m, parts) ==
    {e \in [0..Len(parts) -> 0..m] :
        /\ e[0] = 0 /\ e[Len(parts)] = m
        /\ \A k \in 1..Len(parts) : e[k - 1] < e[k] /\ parts[k] = From(t, e[k - 1], e[k])}

\* The ends are numbers, and a part is what is between two of them.
LEMMA CutEndsAre ==
  ASSUME NEW X, NEW t \in Seq(X), NEW m \in 0..Len(t), NEW parts \in Seq(Seq(X)), NEW e \in CutEnds(t, m, parts)
  PROVE  /\ Len(parts) \in Nat /\ Len(t) \in Nat /\ e \in [0..Len(parts) -> 0..m] /\ e[0] = 0 /\ e[Len(parts)] = m
         /\ \A k \in 0..Len(parts) : e[k] \in 0..m /\ e[k] \in 0..Len(t)
         /\ \A k \in 1..Len(parts) : /\ k - 1 \in 0..Len(parts) /\ k \in 0..Len(parts)
                                     /\ e[k - 1] \in 0..Len(t) /\ e[k] \in e[k - 1]..Len(t)
                                     /\ e[k - 1] < e[k] /\ parts[k] = From(t, e[k - 1], e[k]) /\ parts[k] # <<>>
<1>1. /\ Len(parts) \in Nat /\ Len(t) \in Nat /\ e \in [0..Len(parts) -> 0..m] /\ e[0] = 0 /\ e[Len(parts)] = m
      /\ \A k \in 1..Len(parts) : e[k - 1] < e[k] /\ parts[k] = From(t, e[k - 1], e[k])
  BY DEF CutEnds
<1>2. \A k \in 0..Len(parts) : e[k] \in 0..m /\ e[k] \in 0..Len(t)
  BY <1>1
<1>3. ASSUME NEW k \in 1..Len(parts)
      PROVE  /\ k - 1 \in 0..Len(parts) /\ k \in 0..Len(parts)
             /\ e[k - 1] \in 0..Len(t) /\ e[k] \in e[k - 1]..Len(t) /\ parts[k] # <<>>
  <2> DEFINE a == e[k - 1]
             b == e[k]
  <2>1. k - 1 \in 0..Len(parts) /\ k \in 0..Len(parts)
    BY <1>1
  <2>2. a \in 0..Len(t) /\ b \in 0..Len(t) /\ a < b
    BY <1>1, <1>2, <2>1
  <2>3. b \in a..Len(t) /\ b - a # 0
    BY <2>2
  <2>4. parts[k] = From(t, a, b)
    BY <1>1
  <2> HIDE DEF a, b
  <2>5. Len(From(t, a, b)) = b - a
    BY <2>2, <2>3, FromIs
  <2>6. parts[k] # <<>>
    BY <2>3, <2>4, <2>5
  <2> QED BY <2>1, <2>2, <2>3, <2>6 DEF a, b
<1> QED BY <1>1, <1>2, <1>3

\* What is cut into parts is what they make together.
LEMMA CutIsWhole ==
  ASSUME NEW X, NEW t \in Seq(X), NEW m \in 0..Len(t), NEW parts \in Seq(Seq(X)), NEW e \in CutEnds(t, m, parts)
  PROVE  FlattenSeq(parts) = From(t, 0, m)
<1> DEFINE n == Len(parts)
<1>1. PICK up \in [0..n -> Seq(X)] :
            /\ up[0] = <<>> /\ \A i \in 1..n : up[i] = up[i - 1] \o parts[i]
            /\ FlattenSeq(parts) = up[n]
  BY FlattenUp
<1>2. /\ n \in Nat /\ Len(t) \in Nat /\ e[0] = 0 /\ e[n] = m
      /\ \A k \in 1..n : /\ k - 1 \in 0..n /\ k \in 0..n /\ e[k - 1] \in 0..Len(t) /\ e[k] \in e[k - 1]..Len(t)
                         /\ parts[k] = From(t, e[k - 1], e[k])
  BY CutEndsAre
<1> HIDE DEF n
<1> DEFINE S == {k \in 0..n : up[k] = From(t, 0, e[k])}
<1>3. 0 \in S
  <2>1. From(t, 0, 0) = <<>>
    BY AllFrom
  <2> QED BY <1>1, <1>2, <2>1
<1>4. ASSUME NEW k \in 1..n, k - 1 \in S PROVE k \in S
  <2> DEFINE a == e[k - 1]
             b == e[k]
  <2>1. a \in 0..Len(t) /\ b \in a..Len(t) /\ a \in 0..Len(t) /\ 0 \in 0..Len(t)
    BY <1>2
  <2>2. up[k] = From(t, 0, a) \o From(t, a, b)
    BY <1>1, <1>2, <1>4
  <2> HIDE DEF a, b
  <2>3. From(t, 0, a) \o From(t, a, b) = From(t, 0, b)
    BY <2>1, FromJoin
  <2> QED BY <1>2, <2>2, <2>3 DEF b
<1>5. \A k \in 0..n : k \in S
  <2> HIDE DEF S
  <2> QED BY <1>2, <1>3, <1>4, Upward
<1>6. n \in 0..n
  BY <1>2
<1> QED BY <1>1, <1>2, <1>5, <1>6

\* The first of the parts, and where they end.
LEMMA FirstParts ==
  ASSUME NEW X, NEW t \in Seq(X), NEW m \in 0..Len(t), NEW parts \in Seq(Seq(X)), NEW e \in CutEnds(t, m, parts),
         NEW k \in 1..Len(parts)
  PROVE  Len(FlattenSeq(SubSeq(parts, 1, k))) = e[k] /\ e[k] \in 1..Len(t)
<1> DEFINE n == Len(parts)
           first == SubSeq(parts, 1, k)
           f == [i \in 0..k |-> e[i]]
           w == e[k]
<1>1. /\ n \in Nat /\ Len(t) \in Nat /\ e[0] = 0 /\ m \in Nat
      /\ \A i \in 1..n : /\ i - 1 \in 0..n /\ i \in 0..n /\ e[i - 1] \in 0..Len(t) /\ e[i] \in e[i - 1]..Len(t)
                         /\ e[i - 1] < e[i] /\ parts[i] = From(t, e[i - 1], e[i])
  BY CutEndsAre
<1>2. first \in Seq(Seq(X)) /\ Len(first) = k /\ \A i \in 1..k : first[i] = parts[i]
  <2>1. \A i \in 1..k : parts[i] \in Seq(X)
    BY <1>1, ElementOfSeq
  <2>2. /\ SubSeq(parts, 1, k) \in Seq(Seq(X)) /\ Len(SubSeq(parts, 1, k)) = IF 1 <= k THEN k - 1 + 1 ELSE 0
        /\ \A i \in 1..(k - 1 + 1) : SubSeq(parts, 1, k)[i] = parts[1 + i - 1]
    BY <1>1, <2>1, SubSeqProperties
  <2>3. \A i \in 1..k : 1 + i - 1 = i
    OBVIOUS
  <2> HIDE DEF first
  <2>4. k - 1 + 1 = k /\ 1 <= k
    BY <1>1
  <2> QED BY <2>2, <2>3, <2>4 DEF first
<1> HIDE DEF first
<1>3. w \in 1..Len(t)
  <2>1. k - 1 \in 0..n /\ e[k - 1] \in Nat /\ e[k - 1] < e[k] /\ e[k] \in e[k - 1]..Len(t)
    BY <1>1
  <2> QED BY <1>1, <2>1
<1>4. \A i \in 0..k : e[i] <= w /\ e[i] \in Nat
  <2> DEFINE S == {j \in 0..k : e[k - j] <= w /\ e[k - j] \in Nat}
  <2>1. 0 \in S
    BY <1>1, <1>3
  <2>2. ASSUME NEW j \in 1..k, j - 1 \in S PROVE j \in S
    <3> DEFINE i == k - (j - 1)
    <3>1. i \in 1..n /\ i - 1 = k - j /\ j \in 0..k
      BY <1>1
    <3>2. e[i] <= w /\ e[i] \in Nat
      BY <2>2
    <3> HIDE DEF i
    <3>3. e[i - 1] \in 0..Len(t) /\ e[i - 1] < e[i]
      BY <1>1, <3>1
    <3>4. e[i - 1] <= w /\ e[i - 1] \in Nat
      <4> HIDE DEF w
      <4>1. w \in Nat /\ Len(t) \in Nat
        BY <1>1, <1>3
      <4> QED BY <3>2, <3>3, <4>1
    <3> QED BY <3>1, <3>4
  <2>3. \A j \in 0..k : j \in S
    <3>1. k \in Nat
      BY <1>1
    <3> HIDE DEF S
    <3> QED BY <2>1, <2>2, <3>1, Upward
  <2>4. \A i \in 0..k : k - i \in 0..k /\ k - (k - i) = i
    BY <1>1
  <2> QED BY <2>3, <2>4
<1>5. f \in CutEnds(t, w, first)
  <2>1. f \in [0..k -> 0..w] /\ \A i \in 0..k : f[i] = e[i]
    BY <1>3, <1>4
  <2> HIDE DEF f, w
  <2>2. f[0] = 0 /\ f[k] = w
    BY <1>1, <2>1 DEF w
  <2>3. \A i \in 1..k : f[i - 1] < f[i] /\ first[i] = From(t, f[i - 1], f[i])
    <3>1. \A i \in 1..k : i \in 1..n /\ i \in 0..k /\ i - 1 \in 0..k
      BY <1>1
    <3> QED BY <1>1, <1>2, <2>1, <3>1
  <2> QED BY <1>2, <2>1, <2>2, <2>3 DEF CutEnds
<1> HIDE DEF f, w
<1>6. w \in 0..Len(t) /\ 0 \in 0..Len(t) /\ w \in 0..Len(t) /\ w - 0 = w
  BY <1>1, <1>3
<1>7. FlattenSeq(first) = From(t, 0, w)
  BY <1>2, <1>5, <1>6, CutIsWhole
<1>8. Len(From(t, 0, w)) = w - 0
  BY <1>6, FromIs
<1> QED BY <1>3, <1>6, <1>7, <1>8 DEF first, w

\* The ends with one more.
MoreEnds(e, n, b) == [k \in 0..(n + 1) |-> IF k <= n THEN e[k] ELSE b]

\* A part more, with what comes next.
LEMMA CutMore ==
  ASSUME NEW X, NEW t \in Seq(X), NEW m \in 0..Len(t), NEW parts \in Seq(Seq(X)), NEW e \in CutEnds(t, m, parts),
         NEW b \in (m + 1)..Len(t)
  PROVE  /\ Append(parts, From(t, m, b)) \in Seq(Seq(X)) /\ Len(Append(parts, From(t, m, b))) = Len(parts) + 1
         /\ MoreEnds(e, Len(parts), b) \in CutEnds(t, b, Append(parts, From(t, m, b)))
<1> DEFINE n == Len(parts)
           more == n + 1
           part == From(t, m, b)
           long == Append(parts, part)
           f == MoreEnds(e, n, b)
<1>1. /\ n \in Nat /\ Len(t) \in Nat /\ e \in [0..n -> 0..m] /\ e[0] = 0 /\ e[n] = m
      /\ \A k \in 0..n : e[k] \in 0..m
      /\ \A k \in 1..n : e[k - 1] < e[k] /\ parts[k] = From(t, e[k - 1], e[k])
  BY CutEndsAre
<1>2. m \in 0..Len(t) /\ b \in m..Len(t) /\ m < b /\ b \in Nat
  BY <1>1
<1>3. part \in Seq(X)
  BY <1>2, FromIs
<1> HIDE DEF part
<1>4. long \in Seq(Seq(X)) /\ Len(long) = more /\ long[more] = part /\ \A k \in 1..n : long[k] = parts[k]
  BY <1>3, AppendProperties
<1>5. /\ f = [k \in 0..more |-> IF k <= n THEN e[k] ELSE b] /\ more \in Nat /\ more - 1 = n /\ more > n
  BY <1>1 DEF MoreEnds
<1> HIDE DEF n, long, f, more
<1>6. f \in [0..more -> 0..b] /\ f[more] = b /\ \A k \in 0..n : f[k] = e[k]
  <2>1. more \in 0..more /\ ~(more <= n) /\ \A k \in 0..n : k \in 0..more /\ k <= n
    BY <1>1, <1>5 DEF more
  <2>2. \A k \in 0..more : k <= n => k \in 0..n /\ e[k] \in 0..b
    BY <1>1, <1>2
  <2>3. b \in 0..b
    BY <1>2
  <2> QED BY <1>5, <2>1, <2>2, <2>3
<1>7. f[0] = 0
  BY <1>1, <1>6
<1>8. ASSUME NEW k \in 1..more PROVE f[k - 1] < f[k] /\ long[k] = From(t, f[k - 1], f[k])
  <2>1. CASE k \in 1..n
    <3>1. k - 1 \in 0..n /\ k \in 0..n
      BY <1>1, <2>1
    <3> QED BY <1>1, <1>4, <1>6, <2>1, <3>1
  <2>2. CASE k \notin 1..n
    <3>1. k = more /\ k - 1 = n /\ n \in 0..n
      BY <1>1, <2>2 DEF more
    <3>2. f[k - 1] = m /\ f[k] = b /\ long[k] = part
      BY <1>1, <1>4, <1>6, <3>1
    <3> QED BY <1>2, <3>2 DEF part
  <2> QED BY <2>1, <2>2
<1>9. f \in CutEnds(t, b, long)
  BY <1>4, <1>6, <1>7, <1>8 DEF CutEnds
<1> QED BY <1>4, <1>9 DEF f, long, part, n, more

\* The ends when the last is later.
LaterEnds(e, n, b) == [e EXCEPT ![n] = b]

\* The last part becomes longer.
LEMMA CutLonger ==
  ASSUME NEW X, NEW t \in Seq(X), NEW m \in 0..Len(t), NEW parts \in Seq(Seq(X)), NEW e \in CutEnds(t, m, parts),
         parts # <<>>, NEW b \in m..Len(t), NEW long \in Seq(Seq(X)), Len(long) = Len(parts),
         long[Len(parts)] = From(t, e[Len(parts) - 1], b),
         \A k \in 1..Len(parts) : k # Len(parts) => long[k] = parts[k]
  PROVE  LaterEnds(e, Len(parts), b) \in CutEnds(t, b, long)
<1> DEFINE n == Len(parts)
           f == LaterEnds(e, n, b)
<1>1. /\ n \in Nat /\ Len(t) \in Nat /\ e \in [0..n -> 0..m] /\ e[0] = 0 /\ e[n] = m
      /\ \A k \in 0..n : e[k] \in 0..m
      /\ \A k \in 1..n : e[k - 1] < e[k] /\ parts[k] = From(t, e[k - 1], e[k])
  BY CutEndsAre
<1>2. n \in 1..n /\ n - 1 \in 0..n /\ n - 1 # n /\ 0 # n /\ 0 \in 0..n
  BY <1>1
<1>3. m \in Nat /\ b \in Nat /\ m <= b
  BY <1>1
<1>4. Len(long) = n /\ long[n] = From(t, e[n - 1], b) /\ \A k \in 1..n : k # n => long[k] = parts[k]
  OBVIOUS
<1> HIDE DEF n
<1>5. f \in [0..n -> 0..b] /\ f[n] = b /\ \A k \in 0..n : k # n => f[k] = e[k]
  <2>1. e \in [0..n -> 0..b] /\ b \in 0..b /\ n \in 0..n
    BY <1>1, <1>3
  <2> QED BY <2>1 DEF LaterEnds
<1> HIDE DEF f
<1>6. ASSUME NEW k \in 1..n PROVE f[k - 1] < f[k] /\ long[k] = From(t, f[k - 1], f[k])
  <2>1. k - 1 \in 0..n /\ k \in 0..n /\ k - 1 # n /\ e[k - 1] \in Int
    BY <1>1
  <2>2. f[k - 1] = e[k - 1] /\ e[k - 1] < e[k]
    BY <1>1, <1>5, <2>1
  <2>3. CASE k = n
    <3>1. e[k] = m /\ f[k] = b
      BY <1>1, <1>5, <2>3
    <3>2. e[k - 1] < b
      BY <1>3, <2>1, <2>2, <3>1
    <3> QED BY <1>4, <2>2, <2>3, <3>1, <3>2
  <2>4. CASE k # n
    BY <1>1, <1>4, <1>5, <2>1, <2>2, <2>4
  <2> QED BY <2>3, <2>4
<1>7. f[0] = 0
  BY <1>1, <1>2, <1>5
<1>8. f \in CutEnds(t, b, long)
  BY <1>4, <1>5, <1>6, <1>7 DEF CutEnds
<1> QED BY <1>4, <1>8 DEF f, n

\* The ends with those of what comes after.
JoinedEnds(e, n, m, f, l) == [k \in 0..(n + l) |-> IF k <= n THEN e[k] ELSE m + f[k - n]]

\* More parts, with what comes next cut.
LEMMA CutJoined ==
  ASSUME NEW X, NEW t \in Seq(X), NEW m \in 0..Len(t), NEW parts \in Seq(Seq(X)), NEW e \in CutEnds(t, m, parts),
         NEW b \in m..Len(t), NEW rest \in Seq(Seq(X)), NEW f \in CutEnds(From(t, m, b), b - m, rest)
  PROVE  /\ parts \o rest \in Seq(Seq(X)) /\ Len(parts \o rest) = Len(parts) + Len(rest)
         /\ JoinedEnds(e, Len(parts), m, f, Len(rest)) \in CutEnds(t, b, parts \o rest)
<1> DEFINE n == Len(parts)
           l == Len(rest)
           s == From(t, m, b)
           d == b - m
           g == JoinedEnds(e, n, m, f, l)
           long == parts \o rest
           all == n + l
<1>1. /\ n \in Nat /\ Len(t) \in Nat /\ e \in [0..n -> 0..m] /\ e[0] = 0 /\ e[n] = m
      /\ \A k \in 0..n : e[k] \in 0..m
      /\ \A k \in 1..n : e[k - 1] < e[k] /\ parts[k] = From(t, e[k - 1], e[k])
  BY CutEndsAre
<1>2. m \in Nat /\ b \in Nat /\ m <= b /\ d \in Nat /\ m + d = b
  BY <1>1
<1>3. s \in Seq(X) /\ Len(s) = d
  BY FromIs
<1>4. /\ l \in Nat /\ f[0] = 0 /\ f[l] = d /\ \A k \in 0..l : f[k] \in 0..d
      /\ \A k \in 1..l : /\ k - 1 \in 0..l /\ k \in 0..l /\ f[k - 1] < f[k] /\ f[k] \in f[k - 1]..d
                         /\ rest[k] = From(s, f[k - 1], f[k])
  <2> HIDE DEF s, d
  <2>1. d \in 0..Len(s) /\ f \in CutEnds(s, d, rest)
    BY <1>2, <1>3 DEF s, d
  <2>2. /\ Len(rest) \in Nat /\ f[0] = 0 /\ f[Len(rest)] = d
        /\ \A k \in 0..Len(rest) : f[k] \in 0..d
        /\ \A k \in 1..Len(rest) : /\ k - 1 \in 0..Len(rest) /\ k \in 0..Len(rest)
                                   /\ f[k] \in f[k - 1]..Len(s)
                                   /\ f[k - 1] < f[k] /\ rest[k] = From(s, f[k - 1], f[k])
    BY <1>3, <2>1, CutEndsAre
  <2> QED BY <1>3, <2>2
<1>5. /\ long \in Seq(Seq(X)) /\ Len(long) = all
      /\ \A k \in 1..all : long[k] = IF k <= n THEN parts[k] ELSE rest[k - n]
  BY ConcatProperties
<1>6. g = [k \in 0..all |-> IF k <= n THEN e[k] ELSE m + f[k - n]] /\ all \in Nat
  BY <1>1, <1>4 DEF JoinedEnds
<1> HIDE DEF g, long, s, d
<1>7. ASSUME NEW k \in 0..all
      PROVE  g[k] \in 0..b /\ (k <= n => k \in 0..n /\ g[k] = e[k]) /\ (k >= n => k - n \in 0..l /\ g[k] = m + f[k - n])
  <2>1. CASE k <= n
    <3>1. k \in 0..n /\ g[k] = e[k]
      BY <1>6, <2>1
    <3>2. e[k] \in 0..b
      BY <1>1, <1>2, <3>1
    <3>3. k >= n => k = n /\ k - n = 0 /\ 0 \in 0..l /\ e[k] = m + f[0]
      BY <1>1, <1>2, <1>4, <2>1, <3>1
    <3> QED BY <3>1, <3>2, <3>3
  <2>2. CASE ~(k <= n)
    <3> DEFINE j == k - n
    <3>1. j \in 0..l
      BY <1>1, <1>4, <2>2
    <3>2. g[k] = m + f[j]
      BY <1>6, <2>2
    <3> HIDE DEF j
    <3>3. f[j] \in 0..d
      BY <1>4, <3>1
    <3>4. m + f[j] \in 0..b
      BY <1>2, <3>3
    <3> QED BY <2>2, <3>1, <3>2, <3>4 DEF j
  <2> QED BY <2>1, <2>2
<1>8. g \in [0..all -> 0..b]
  BY <1>6, <1>7
<1>9. g[0] = 0 /\ g[all] = b
  <2>1. 0 \in 0..all /\ 0 <= n /\ all \in 0..all /\ all >= n /\ all - n = l
    BY <1>1, <1>4
  <2> HIDE DEF all, n, l
  <2> QED BY <1>1, <1>2, <1>4, <1>7, <2>1
<1>10. ASSUME NEW k \in 1..all PROVE g[k - 1] < g[k] /\ long[k] = From(t, g[k - 1], g[k])
  <2>0. k \in 0..all /\ k - 1 \in 0..all /\ k \in Int
    BY <1>6
  <2>1. CASE k <= n
    <3>1. k \in 1..n /\ k - 1 <= n
      BY <1>1, <2>1
    <3> QED BY <1>1, <1>5, <1>7, <2>0, <2>1, <3>1
  <2>2. CASE ~(k <= n)
    <3> DEFINE j == k - n
    <3>1. j \in 1..l /\ (k - 1) - n = j - 1 /\ k >= n /\ k - 1 >= n
      BY <1>1, <1>4, <2>2
    <3>2. g[k] = m + f[j] /\ g[k - 1] = m + f[j - 1] /\ long[k] = rest[j]
      BY <1>5, <1>7, <2>0, <2>2, <3>1
    <3> HIDE DEF j, all
    <3> DEFINE c == f[j - 1]
               h == f[j]
    <3>3. rest[j] = From(s, c, h) /\ c < h /\ c \in 0..d /\ h \in c..d
      BY <1>4, <3>1
    <3> HIDE DEF c, h
    <3>4. From(s, c, h) = From(t, m + c, m + h)
      BY <3>3, FromFrom DEF s, d
    <3>5. m + c < m + h
      BY <1>2, <3>3
    <3> QED BY <3>2, <3>3, <3>4, <3>5 DEF c, h
  <2> QED BY <2>1, <2>2
<1>11. g \in CutEnds(t, b, long)
  <2> HIDE DEF all
  <2> QED BY <1>5, <1>8, <1>9, <1>10 DEF CutEnds
<1> QED BY <1>5, <1>11 DEF g, long

\* A character more makes parts of parts.
LEMMA ExtendedType ==
  ASSUME NEW X, NEW parts \in Seq(Seq(X)), NEW c \in X, NEW starts \in BOOLEAN
  PROVE  Extended(parts, c, starts) \in Seq(Seq(X))
<1>1. <<c>> \in Seq(X)
  OBVIOUS
<1>2. CASE parts = <<>> \/ starts
  BY <1>1, <1>2, AppendProperties DEF Extended
<1>3. CASE ~(parts = <<>> \/ starts)
  <2> DEFINE n == Len(parts)
  <2>1. n \in 1..Len(parts) /\ parts[n] \in Seq(X)
    BY <1>3, ElementOfSeq
  <2>2. Append(parts[n], c) \in Seq(X)
    BY <2>1, AppendProperties
  <2>3. [parts EXCEPT ![n] = Append(parts[n], c)] \in Seq(Seq(X))
    <3> HIDE DEF n
    <3> QED BY <2>1, <2>2, ExceptSeq
  <2> QED BY <1>3, <2>3 DEF Extended
<1> QED BY <1>2, <1>3

\* A text that is cut, and its next character.
LEMMA ExtendedIs ==
  ASSUME NEW X, NEW t \in Seq(X), NEW i \in 1..Len(t), NEW parts \in Seq(Seq(X)),
         NEW e \in CutEnds(t, i - 1, parts), NEW starts \in BOOLEAN
  PROVE  /\ Extended(parts, t[i], starts) \in Seq(Seq(X))
         /\ parts # <<>> => /\ Last(parts) = From(t, e[Len(parts) - 1], i - 1) /\ e[Len(parts) - 1] \in 0..(i - 1)
                            /\ Append(Last(parts), t[i]) = From(t, e[Len(parts) - 1], i)
         /\ parts = <<>> \/ starts =>
                /\ Len(Extended(parts, t[i], starts)) = Len(parts) + 1
                /\ MoreEnds(e, Len(parts), i) \in CutEnds(t, i, Extended(parts, t[i], starts))
         /\ ~(parts = <<>> \/ starts) =>
                /\ Len(Extended(parts, t[i], starts)) = Len(parts)
                /\ LaterEnds(e, Len(parts), i) \in CutEnds(t, i, Extended(parts, t[i], starts))
<1> DEFINE n == Len(parts)
           m == i - 1
           c == t[i]
           new == Extended(parts, c, starts)
           a == e[n - 1]
<1>1. Len(t) \in Nat /\ m \in 0..Len(t) /\ i \in (m + 1)..Len(t) /\ i \in m..Len(t) /\ c \in X /\ i \in Nat
  BY ElementOfSeq
<1>2. From(t, m, i) = <<c>>
  BY OneFrom
<1> HIDE DEF c, m
<1>3. new = Extended(parts, c, starts) /\ new \in Seq(Seq(X))
  BY <1>1, ExtendedType
<1> HIDE DEF new
<1>4. e \in CutEnds(t, m, parts)
  BY DEF m
<1>5. /\ n \in Nat /\ e[n] = m
      /\ \A k \in 1..n : /\ e[k - 1] \in 0..Len(t) /\ e[k] \in e[k - 1]..Len(t) /\ e[k - 1] < e[k]
                         /\ parts[k] = From(t, e[k - 1], e[k])
  BY <1>1, <1>4, CutEndsAre
<1>6. ASSUME parts # <<>>
      PROVE  /\ Last(parts) = From(t, a, m) /\ a \in 0..m
             /\ Append(Last(parts), c) = From(t, a, i)
  <2>1. n \in 1..n
    BY <1>6
  <2>2. parts[n] = From(t, a, m) /\ a \in 0..m /\ a \in 0..Len(t) /\ m \in a..Len(t)
    <3>1. parts[n] = From(t, e[n - 1], e[n]) /\ e[n - 1] \in 0..Len(t) /\ e[n] \in e[n - 1]..Len(t)
      BY <1>5, <2>1
    <3> QED BY <1>1, <1>5, <3>1
  <2> HIDE DEF a
  <2>3. From(t, a, m) \o From(t, m, i) = From(t, a, i)
    BY <1>1, <2>2, FromJoin
  <2>4. From(t, a, m) \in Seq(X)
    BY <2>2, FromIs
  <2>5. Append(From(t, a, m), c) = From(t, a, m) \o <<c>>
    BY <1>1, <2>4
  <2>6. Last(parts) = parts[n]
    BY DEF Last
  <2> QED BY <1>2, <2>2, <2>3, <2>5, <2>6
<1>7. ASSUME parts = <<>> \/ starts
      PROVE  Len(new) = n + 1 /\ MoreEnds(e, n, i) \in CutEnds(t, i, new)
  <2>1. new = Append(parts, From(t, m, i))
    BY <1>2, <1>3, <1>7 DEF Extended
  <2> QED BY <1>1, <1>4, <2>1, CutMore
<1>8. ASSUME ~(parts = <<>> \/ starts)
      PROVE  Len(new) = n /\ LaterEnds(e, n, i) \in CutEnds(t, i, new)
  <2>1. new = [parts EXCEPT ![n] = Append(parts[n], c)]
    BY <1>3, <1>8 DEF Extended
  <2>2. Append(parts[n], c) = From(t, e[n - 1], i)
    BY <1>6, <1>8 DEF Last
  <2>3. Len(new) = n /\ new[n] = From(t, e[n - 1], i) /\ \A k \in 1..n : k # n => new[k] = parts[k]
    <3>1. n \in 1..Len(parts)
      BY <1>8
    <3> QED BY <2>1, <2>2, <3>1
  <2>4. m \in 0..Len(t) /\ i \in m..Len(t) /\ parts # <<>> /\ new \in Seq(Seq(X))
    BY <1>1, <1>3, <1>8
  <2> QED BY <1>4, <2>3, <2>4, CutLonger
<1> QED BY <1>3, <1>6, <1>7, <1>8 DEF m, c, new

\* The ends of the first lines: of a line, only the last character may end it, and
\* of all but the last line it does.
LineEnds(t, m, parts) ==
    {e \in CutEnds(t, m, parts) :
        /\ \A k \in 1..Len(parts) : k # Len(parts) => t[e[k]] = "n"
        /\ \A k \in 1..Len(parts) : \A j \in 1..m : e[k - 1] < j /\ j < e[k] => t[j] # "n"}

\* The lines of a text up to each of its characters.
LEMMA LinesAre ==
  ASSUME NEW t \in Seq(LayoutChars)
  PROVE  TextLines(t) \in Seq(Seq(LayoutChars)) /\ \E e : e \in LineEnds(t, Len(t), TextLines(t))
<1> DEFINE n == Len(t)
           S == Seq(Seq(LayoutChars))
           Starts(lines) == lines # <<>> /\ Last(Last(lines)) = "n"
           G(lines, i) == Extended(lines, t[i], lines # <<>> /\ Last(Last(lines)) = "n")
           Is(g) == g = [i \in 0..n |-> IF i = 0 THEN <<>> ELSE G(g[i - 1], i)]
           F == [p \in S \X (1..n) |-> G(p[1], p[2])]
           up == CHOOSE g : Is(g)
<1>1. n \in Nat /\ <<>> \in S /\ \A i \in 1..n : t[i] \in LayoutChars
  BY ElementOfSeq
<1>2. TextLines(t) = up[n]
  BY DEF TextLines
<1>3. ASSUME NEW lines \in S, NEW i \in 1..n PROVE G(lines, i) \in S
  <2> DEFINE st == Starts(lines)
  <2>1. st \in BOOLEAN /\ G(lines, i) = Extended(lines, t[i], st)
    OBVIOUS
  <2> HIDE DEF st, G
  <2> QED BY <1>1, <2>1, ExtendedType
<1> HIDE DEF G, n, S
<1>4. F \in [S \X (1..n) -> S] /\ \A x \in S, i \in 1..n : F[<<x, i>>] = G(x, i)
  BY <1>3
<1> HIDE DEF F
<1>5. PICK g \in [0..n -> S] : g[0] = <<>> /\ \A i \in 1..n : g[i] = F[<<g[i - 1], i>>]
  <2>1. \E g : g \in Recursions(S, <<>>, n, F)
    BY <1>1, <1>4, Recursion
  <2> QED BY <2>1 DEF Recursions
<1>6. \A i \in 1..n : i - 1 \in 0..n /\ i \in 0..n /\ i # 0 /\ g[i] = G(g[i - 1], i) /\ g[i - 1] \in S
  <2>1. \A i \in 1..n : i - 1 \in 0..n /\ i \in 0..n /\ i # 0
    BY <1>1
  <2> QED BY <1>4, <1>5, <2>1
<1>7. Is(g)
  <2>1. \A i \in 0..n : g[i] = IF i = 0 THEN <<>> ELSE G(g[i - 1], i)
    <3>1. \A i \in 0..n : i # 0 => i \in 1..n
      BY <1>1
    <3> QED BY <1>5, <1>6, <3>1
  <2> QED BY <1>5, <2>1
<1>8. Is(up)
  <2> HIDE DEF Is
  <2> QED BY <1>7
<1> HIDE DEF up
<1>9. up[0] = <<>> /\ \A i \in 1..n : up[i] = G(up[i - 1], i)
  <2>1. 0 \in 0..n /\ \A i \in 1..n : i \in 0..n /\ i # 0
    BY <1>1
  <2> QED BY <1>8, <2>1
<1> HIDE DEF Is
<1> DEFINE Good == {i \in 0..n : up[i] \in S /\ \E e : e \in LineEnds(t, i, up[i])}
<1>10. 0 \in Good
  <2> DEFINE e == [k \in 0..0 |-> 0]
  <2>1. Len(<<>>) = 0 /\ e \in [0..0 -> 0..0] /\ e[0] = 0 /\ 1..0 = {}
    OBVIOUS
  <2> HIDE DEF e
  <2>2. e \in LineEnds(t, 0, <<>>)
    BY <2>1 DEF LineEnds, CutEnds
  <2> QED BY <1>1, <1>9, <2>2
<1>11. ASSUME NEW i \in 1..n, i - 1 \in Good PROVE i \in Good
  <2> DEFINE m == i - 1
             parts == up[m]
             st == Starts(parts)
             new == up[i]
             l == Len(parts)
  <2>1. PICK e : e \in LineEnds(t, m, parts)
    BY <1>11
  <2>2. m \in 0..n /\ parts \in S /\ st \in BOOLEAN /\ i \in 0..n /\ i \in Nat /\ m < i /\ m \in Nat
    BY <1>1, <1>11
  <2>3. new = Extended(parts, t[i], st)
    BY <1>9 DEF G
  <2>4. /\ e \in CutEnds(t, m, parts)
        /\ \A k \in 1..l : k # l => t[e[k]] = "n"
        /\ \A k \in 1..l : \A j \in 1..m : e[k - 1] < j /\ j < e[k] => t[j] # "n"
    BY <2>1 DEF LineEnds
  <2>5. st <=> parts # <<>> /\ Last(Last(parts)) = "n"
    OBVIOUS
  <2> HIDE DEF parts, st, new
  <2>6. /\ l \in Nat /\ e \in [0..l -> 0..m] /\ e[l] = m
        /\ \A k \in 1..l : k - 1 \in 0..l /\ k \in 0..l
    <3>1. m \in 0..Len(t) /\ parts \in Seq(Seq(LayoutChars)) /\ e \in CutEnds(t, m, parts)
      BY <2>2, <2>4 DEF S, n
    <3> HIDE DEF m
    <3> QED BY <3>1, CutEndsAre
  <2>7. /\ new \in S
        /\ parts # <<>> => Last(parts) = From(t, e[l - 1], m) /\ e[l - 1] \in 0..m
        /\ parts = <<>> \/ st => Len(new) = l + 1 /\ MoreEnds(e, l, i) \in CutEnds(t, i, new)
        /\ ~(parts = <<>> \/ st) => Len(new) = l /\ LaterEnds(e, l, i) \in CutEnds(t, i, new)
    <3>1. i \in 1..Len(t) /\ parts \in Seq(Seq(LayoutChars)) /\ e \in CutEnds(t, i - 1, parts) /\ st \in BOOLEAN
      BY <2>2, <2>4 DEF S, n
    <3> DEFINE made == Extended(parts, t[i], st)
    <3>2. /\ made \in Seq(Seq(LayoutChars))
          /\ parts # <<>> => Last(parts) = From(t, e[Len(parts) - 1], i - 1) /\ e[Len(parts) - 1] \in 0..(i - 1)
          /\ parts = <<>> \/ st =>
                Len(made) = Len(parts) + 1 /\ MoreEnds(e, Len(parts), i) \in CutEnds(t, i, made)
          /\ ~(parts = <<>> \/ st) => Len(made) = Len(parts) /\ LaterEnds(e, Len(parts), i) \in CutEnds(t, i, made)
      BY <3>1, ExtendedIs
    <3>3. made = new
      BY <2>3
    <3> HIDE DEF made
    <3> QED BY <3>2, <3>3 DEF S
  <2>8. parts # <<>> => (st <=> t[m] = "n")
    <3> SUFFICES ASSUME parts # <<>> PROVE st <=> t[m] = "n"
      OBVIOUS
    <3> DEFINE a == e[l - 1]
               part == From(t, a, m)
    <3>1. l \in 1..l
      BY <2>2, <2>6 DEF S
    <3>2. a \in 0..Len(t) /\ m \in a..Len(t) /\ a < m
      <4>1. e[l - 1] \in 0..Len(t) /\ e[l] \in e[l - 1]..Len(t) /\ e[l - 1] < e[l]
        <5>1. m \in 0..Len(t) /\ parts \in Seq(Seq(LayoutChars)) /\ e \in CutEnds(t, m, parts)
          BY <2>2, <2>4 DEF S, n
        <5> HIDE DEF m
        <5> QED BY <3>1, <5>1, CutEndsAre
      <4> QED BY <2>6, <4>1
    <3> HIDE DEF a, m
    <3>3. Len(part) = m - a /\ \A j \in 1..(m - a) : part[j] = t[a + j]
      BY <3>2, FromIs
    <3>4. m - a \in 1..(m - a) /\ a + (m - a) = m
      BY <3>2
    <3>5. Last(parts) = part
      BY <2>7 DEF a
    <3> HIDE DEF part
    <3>6. Last(part) = t[m]
      BY <3>3, <3>4 DEF Last
    <3> QED BY <2>5, <3>5, <3>6
  <2>9. CASE parts = <<>> \/ st
    <3> DEFINE f == MoreEnds(e, l, i)
               h == l + 1
    <3>1. f = [k \in 0..h |-> IF k <= l THEN e[k] ELSE i] /\ h \in Nat
      BY <2>6 DEF MoreEnds
    <3>2. Len(new) = h /\ f \in CutEnds(t, i, new)
      BY <2>7, <2>9
    <3> HIDE DEF f
    <3>3. /\ \A k \in 0..l : f[k] = e[k] /\ e[k] \in 0..m
          /\ f[h] = i
      <4>1. \A k \in 0..l : k \in 0..h /\ k <= l
        BY <2>6
      <4>2. h \in 0..h /\ ~(h <= l)
        BY <2>6
      <4> HIDE DEF h
      <4> QED BY <2>6, <3>1, <4>1, <4>2
    <3>4. ASSUME NEW k \in 1..h, k # h PROVE t[f[k]] = "n"
      <4>1. k \in 1..l /\ k \in 0..l
        BY <2>6, <3>4
      <4>2. CASE k = l
        <5>1. parts # <<>> /\ e[k] = m /\ st
          BY <2>2, <2>6, <2>9, <4>1, <4>2 DEF S
        <5> QED BY <2>8, <3>3, <4>1, <5>1
      <4>3. CASE k # l
        BY <2>4, <3>3, <4>1, <4>3
      <4> QED BY <4>2, <4>3
    <3>5. ASSUME NEW k \in 1..h, NEW j \in 1..i, f[k - 1] < j, j < f[k] PROVE t[j] # "n"
      <4>1. CASE k = h
        <5>1. k - 1 = l /\ l \in 0..l
          BY <2>6, <4>1
        <5>2. f[k - 1] = m /\ f[k] = i
          BY <2>6, <3>3, <4>1, <5>1
        <5> QED BY <2>2, <3>5, <5>2
      <4>2. CASE k # h
        <5>0. l \in Nat /\ k \in 1..(l + 1) /\ k # l + 1
          BY <2>6, <4>2
        <5>1. k \in 1..l
          BY <5>0
        <5>2. k - 1 \in 0..l /\ k \in 0..l
          BY <2>6, <5>1
        <5>3. f[k - 1] = e[k - 1] /\ f[k] = e[k] /\ e[k] \in 0..m
          BY <3>3, <5>2
        <5>4. j \in 1..m
          BY <2>2, <3>5, <5>3
        <5> QED BY <2>4, <3>5, <5>1, <5>3, <5>4
      <4> QED BY <4>1, <4>2
    <3>6. f \in LineEnds(t, i, new)
      <4> HIDE DEF h
      <4> QED BY <3>2, <3>4, <3>5 DEF LineEnds
    <3> QED BY <2>2, <2>7, <3>6 DEF new
  <2>10. CASE ~(parts = <<>> \/ st)
    <3> DEFINE f == LaterEnds(e, l, i)
    <3>1. Len(new) = l /\ f \in CutEnds(t, i, new)
      BY <2>7, <2>10
    <3>2. l \in 1..l /\ l \in 0..l
      BY <2>2, <2>6, <2>10 DEF S
    <3>3. f[l] = i /\ (\A k \in 0..l : k # l => f[k] = e[k]) /\ \A k \in 0..l : e[k] \in 0..m
      BY <2>6, <3>2 DEF LaterEnds
    <3> HIDE DEF f
    <3>4. ASSUME NEW k \in 1..l, k # l PROVE t[f[k]] = "n"
      <4>1. k \in 0..l
        BY <2>6
      <4> QED BY <2>4, <3>3, <3>4, <4>1
    <3>5. ASSUME NEW k \in 1..l, NEW j \in 1..i, f[k - 1] < j, j < f[k] PROVE t[j] # "n"
      <4>1. k - 1 \in 0..l /\ k - 1 # l /\ k \in 0..l
        BY <2>6
      <4>2. f[k - 1] = e[k - 1]
        BY <3>3, <4>1
      <4>3. CASE k = l
        <5>1. f[k] = i /\ e[k] = m
          BY <2>6, <3>3, <4>3
        <5>2. CASE j = m
          BY <2>8, <2>10, <5>2
        <5>3. CASE j # m
          <6>1. j \in 1..m /\ j < m
            BY <2>2, <3>5, <5>1, <5>3
          <6> QED BY <2>4, <3>5, <4>2, <5>1, <6>1
        <5> QED BY <5>2, <5>3
      <4>4. CASE k # l
        <5>1. f[k] = e[k] /\ e[k] \in 0..m
          BY <3>3, <4>1, <4>4
        <5>2. j \in 1..m
          BY <2>2, <3>5, <5>1
        <5> QED BY <2>4, <3>5, <4>2, <5>1, <5>2
      <4> QED BY <4>3, <4>4
    <3>6. f \in LineEnds(t, i, new)
      BY <3>1, <3>4, <3>5 DEF LineEnds
    <3> QED BY <2>2, <2>7, <3>6 DEF new
  <2> QED BY <2>9, <2>10
<1>12. \A i \in 0..n : i \in Good
  <2> HIDE DEF Good
  <2> QED BY <1>1, <1>10, <1>11, Upward
<1>13. n \in 0..n
  BY <1>1
<1>14. n \in Good
  <2> HIDE DEF Good
  <2> QED BY <1>12, <1>13
<1> QED BY <1>2, <1>14 DEF n, S

\* One character is of one or two units.
LEMMA OneUnits ==
  ASSUME NEW c \in LayoutChars, NEW utf16 \in BOOLEAN
  PROVE  Units(<<c>>, utf16) = UnitsOf(c, utf16) /\ Units(<<c>>, utf16) \in 1..2
<1> DEFINE t == <<c>>
<1>1. t \in Seq(LayoutChars) /\ Len(t) = 1 /\ t[1] = c /\ 1 \in 1..Len(t) /\ 1 - 1 = 0
  OBVIOUS
<1> HIDE DEF t
<1>2. From(t, 0, Len(t)) = t /\ From(t, 0, 0) = <<>>
  BY <1>1, AllFrom
<1>3. Units(From(t, 0, 1), utf16) = Units(From(t, 0, 1 - 1), utf16) + UnitsOf(t[1], utf16)
  BY <1>1, UnitsGrow
<1>4. Units(<<>>, utf16) = 0
  <2>1. <<>> \in Seq(LayoutChars) /\ Len(<<>>) = 0
    OBVIOUS
  <2> QED BY <2>1, UnitsAre
<1>5. UnitsOf(c, utf16) \in 1..2
  BY DEF UnitsOf
<1> QED BY <1>1, <1>2, <1>3, <1>4, <1>5 DEF t

\* A line that is cut by force: every cut fits, and there is one cut if the line fits.
LEMMA ForcedIs ==
  ASSUME NEW t \in Seq(LayoutChars), NEW limit \in Nat \ {0, 1}, NEW utf16 \in BOOLEAN
  PROVE  /\ Forced(t, limit, utf16) \in Seq(Seq(LayoutChars))
         /\ \E e : e \in CutEnds(t, Len(t), Forced(t, limit, utf16))
         /\ \A k \in 1..Len(Forced(t, limit, utf16)) : Units(Forced(t, limit, utf16)[k], utf16) <= limit
         /\ Len(Forced(t, limit, utf16)) >= 2 => Units(t, utf16) > limit
<1> DEFINE n == Len(t)
           S == Seq(Seq(LayoutChars))
           Starts(cuts, i) == cuts # <<>> /\ Units(Append(Last(cuts), t[i]), utf16) > limit
           G(cuts, i) == Extended(cuts, t[i], cuts # <<>> /\ Units(Append(Last(cuts), t[i]), utf16) > limit)
           Is(g) == g = [i \in 0..n |-> IF i = 0 THEN <<>> ELSE G(g[i - 1], i)]
           F == [p \in S \X (1..n) |-> G(p[1], p[2])]
           up == CHOOSE g : Is(g)
<1>1. n \in Nat /\ <<>> \in S /\ \A i \in 1..n : t[i] \in LayoutChars
  BY ElementOfSeq
<1>2. Forced(t, limit, utf16) = up[n]
  BY DEF Forced
<1>3. ASSUME NEW cuts \in S, NEW i \in 1..n PROVE G(cuts, i) \in S
  <2> DEFINE st == Starts(cuts, i)
  <2>1. st \in BOOLEAN /\ G(cuts, i) = Extended(cuts, t[i], st)
    OBVIOUS
  <2> HIDE DEF st, G
  <2> QED BY <1>1, <2>1, ExtendedType
<1> HIDE DEF G, n, S
<1>4. F \in [S \X (1..n) -> S] /\ \A x \in S, i \in 1..n : F[<<x, i>>] = G(x, i)
  BY <1>3
<1> HIDE DEF F
<1>5. PICK g \in [0..n -> S] : g[0] = <<>> /\ \A i \in 1..n : g[i] = F[<<g[i - 1], i>>]
  <2>1. \E g : g \in Recursions(S, <<>>, n, F)
    BY <1>1, <1>4, Recursion
  <2> QED BY <2>1 DEF Recursions
<1>6. \A i \in 1..n : i - 1 \in 0..n /\ i \in 0..n /\ i # 0 /\ g[i] = G(g[i - 1], i) /\ g[i - 1] \in S
  <2>1. \A i \in 1..n : i - 1 \in 0..n /\ i \in 0..n /\ i # 0
    BY <1>1
  <2> QED BY <1>4, <1>5, <2>1
<1>7. Is(g)
  <2>1. \A i \in 0..n : g[i] = IF i = 0 THEN <<>> ELSE G(g[i - 1], i)
    <3>1. \A i \in 0..n : i # 0 => i \in 1..n
      BY <1>1
    <3> QED BY <1>5, <1>6, <3>1
  <2> QED BY <1>5, <2>1
<1>8. Is(up)
  <2> HIDE DEF Is
  <2> QED BY <1>7
<1> HIDE DEF up
<1>9. up[0] = <<>> /\ \A i \in 1..n : up[i] = G(up[i - 1], i)
  <2>1. 0 \in 0..n /\ \A i \in 1..n : i \in 0..n /\ i # 0
    BY <1>1
  <2> QED BY <1>8, <2>1
<1> HIDE DEF Is
<1> DEFINE Good == {i \in 0..n : /\ up[i] \in S /\ \E e : e \in CutEnds(t, i, up[i])
                                 /\ \A k \in 1..Len(up[i]) : Units(up[i][k], utf16) <= limit
                                 /\ Len(up[i]) >= 2 => Units(From(t, 0, i), utf16) > limit}
<1>10. 0 \in Good
  <2> DEFINE e == [k \in 0..0 |-> 0]
  <2>1. Len(<<>>) = 0 /\ e \in [0..0 -> 0..0] /\ e[0] = 0 /\ 1..0 = {}
    OBVIOUS
  <2> HIDE DEF e
  <2>2. e \in CutEnds(t, 0, <<>>)
    BY <2>1 DEF CutEnds
  <2> QED BY <1>1, <1>9, <2>1, <2>2
<1>11. ASSUME NEW i \in 1..n, i - 1 \in Good PROVE i \in Good
  <2> DEFINE m == i - 1
             parts == up[m]
             c == t[i]
             st == Starts(parts, i)
             new == up[i]
             l == Len(parts)
             before == Units(From(t, 0, m), utf16)
             after == Units(From(t, 0, i), utf16)
  <2>1. PICK e : e \in CutEnds(t, m, parts)
    BY <1>11
  <2>2. /\ m \in 0..n /\ parts \in S /\ st \in BOOLEAN /\ i \in 0..n /\ i \in Nat /\ m < i /\ m \in Nat
        /\ c \in LayoutChars
        /\ \A k \in 1..l : Units(parts[k], utf16) <= limit
        /\ l >= 2 => before > limit
    BY <1>1, <1>11
  <2>3. new = Extended(parts, c, st)
    BY <1>9 DEF G
  <2>4. before \in Nat /\ after \in Nat /\ before <= after
    <3>1. i \in 1..Len(t) /\ m \in 0..Len(t) /\ i \in 0..Len(t) /\ 0 \in 0..Len(t)
      BY <1>1, <2>2 DEF n
    <3>2. Units(From(t, 0, i), utf16) = Units(From(t, 0, i - 1), utf16) + UnitsOf(t[i], utf16)
      BY <3>1, UnitsGrow
    <3>3. UnitsOf(t[i], utf16) \in Nat
      BY DEF UnitsOf
    <3>4. before \in Nat
      <4> HIDE DEF m
      <4>1. From(t, 0, m) \in Seq(LayoutChars)
        BY <3>1, FromIs
      <4> QED BY <4>1, UnitsAre
    <3> QED BY <3>2, <3>3, <3>4
  <2>5. st <=> parts # <<>> /\ Units(Append(Last(parts), c), utf16) > limit
    OBVIOUS
  <2> HIDE DEF parts, st, new, c, before, after
  <2>c. m \in 0..Len(t) /\ parts \in Seq(Seq(LayoutChars)) /\ e \in CutEnds(t, m, parts)
    BY <1>1, <2>1, <2>2 DEF S, n
  <2>6. /\ l \in Nat /\ e[0] = 0 /\ e[l] = m /\ (parts = <<>> <=> l = 0)
    <3>1. l \in Nat /\ e[0] = 0 /\ e[l] = m
      <4> HIDE DEF m
      <4> QED BY <2>c, CutEndsAre
    <3> QED BY <2>c, <3>1
  <2>7. /\ new \in S
        /\ parts # <<>> => Append(Last(parts), c) = From(t, e[l - 1], i)
        /\ \E f : f \in CutEnds(t, i, new)
    <3>1. i \in 1..Len(t) /\ parts \in Seq(Seq(LayoutChars)) /\ e \in CutEnds(t, i - 1, parts) /\ st \in BOOLEAN
      BY <2>1, <2>2 DEF S, n
    <3> DEFINE made == Extended(parts, t[i], st)
    <3>2. /\ made \in Seq(Seq(LayoutChars))
          /\ parts # <<>> => Append(Last(parts), t[i]) = From(t, e[Len(parts) - 1], i)
          /\ parts = <<>> \/ st => MoreEnds(e, Len(parts), i) \in CutEnds(t, i, made)
          /\ ~(parts = <<>> \/ st) => LaterEnds(e, Len(parts), i) \in CutEnds(t, i, made)
      BY <3>1, ExtendedIs
    <3>3. made = new
      BY <2>3 DEF c
    <3> HIDE DEF made
    <3>4. \E f : f \in CutEnds(t, i, made)
      BY <3>2
    <3> QED BY <3>2, <3>3, <3>4 DEF S, c
  <2>8. CASE parts = <<>> \/ st
    <3>1. new = Append(parts, <<c>>) /\ <<c>> \in Seq(LayoutChars)
      BY <2>2, <2>3, <2>8 DEF Extended
    <3>2. Len(new) = l + 1 /\ new[l + 1] = <<c>> /\ \A k \in 1..l : new[k] = parts[k]
      BY <2>2, <3>1, AppendProperties DEF S
    <3>3. Units(<<c>>, utf16) <= limit
      <4>1. Units(<<c>>, utf16) \in 1..2
        BY <2>2, OneUnits
      <4>2. limit >= 2
        OBVIOUS
      <4> QED BY <4>1, <4>2
    <3>4. ASSUME NEW k \in 1..Len(new) PROVE Units(new[k], utf16) <= limit
      <4>1. k = l + 1 \/ k \in 1..l
        BY <2>6, <3>2
      <4> QED BY <2>2, <3>2, <3>3, <4>1
    <3>5. ASSUME Len(new) >= 2 PROVE after > limit
      <4>1. l >= 1 /\ st
        BY <2>6, <2>8, <3>2, <3>5
      <4>2. CASE l = 1
        <5>1. e[l - 1] = 0
          BY <2>6, <4>2
        <5>2. Append(Last(parts), c) = From(t, 0, i)
          BY <2>6, <2>7, <4>2, <5>1
        <5> QED BY <2>5, <4>1, <5>2 DEF after
      <4>3. CASE l # 1
        <5>0. l \in Nat /\ l >= 1 /\ l # 1
          BY <2>6, <4>1, <4>3
        <5>1. l >= 2
          <6> HIDE DEF l
          <6> QED BY <5>0
        <5>2. before > limit
          BY <2>2, <5>1
        <5>3. limit \in Nat
          OBVIOUS
        <5> QED BY <2>4, <5>2, <5>3
      <4> QED BY <4>2, <4>3
    <3> QED BY <2>2, <2>7, <3>4, <3>5 DEF new, after
  <2>9. CASE ~(parts = <<>> \/ st)
    <3>1. l \in 1..Len(parts)
      BY <2>6, <2>9
    <3>2. new = [parts EXCEPT ![l] = Append(parts[l], c)]
      BY <2>3, <2>9 DEF Extended
    <3>3. Len(new) = l /\ new[l] = Append(Last(parts), c) /\ \A k \in 1..l : k # l => new[k] = parts[k]
      BY <2>2, <3>1, <3>2 DEF Last, S
    <3>4. Units(new[l], utf16) <= limit
      <4> DEFINE part == From(t, e[l - 1], i)
                 a == e[l - 1]
      <4>1. a \in 0..Len(t) /\ i \in a..Len(t)
        <5>1. e[l - 1] \in 0..Len(t) /\ e[l] \in e[l - 1]..Len(t)
          <6> HIDE DEF m
          <6> QED BY <2>c, <3>1, CutEndsAre
        <5> QED BY <1>1, <2>2, <2>6, <5>1 DEF n
      <4> HIDE DEF a
      <4>2. From(t, a, i) \in Seq(LayoutChars)
        BY <4>1, FromIs
      <4>3. part \in Seq(LayoutChars)
        BY <4>2 DEF a
      <4> HIDE DEF part
      <4>4. Units(part, utf16) \in Nat
        BY <4>3, UnitsAre
      <4>5. Append(Last(parts), c) = part
        BY <2>7, <2>9 DEF part
      <4>6. ~(Units(part, utf16) > limit)
        BY <2>5, <2>9, <4>5
      <4> QED BY <3>3, <4>4, <4>5, <4>6
    <3>5. \A k \in 1..Len(new) : Units(new[k], utf16) <= limit
      BY <2>2, <3>3, <3>4
    <3>6. Len(new) >= 2 => after > limit
      BY <2>2, <2>4, <3>3
    <3> QED BY <2>2, <2>7, <3>5, <3>6 DEF new, after
  <2> QED BY <2>8, <2>9
<1>12. \A i \in 0..n : i \in Good
  <2> HIDE DEF Good
  <2> QED BY <1>1, <1>10, <1>11, Upward
<1>13. n \in 0..n
  BY <1>1
<1>14. n \in Good
  <2> HIDE DEF Good
  <2> QED BY <1>12, <1>13
<1>15. From(t, 0, n) = t
  BY AllFrom DEF n
<1> QED BY <1>2, <1>14, <1>15 DEF n, S

\* A sequence with another last member.
LEMMA LastReplaced ==
  ASSUME NEW Y, NEW s \in Seq(Y), s # <<>>, NEW y \in Y
  PROVE  /\ Append(Front(s), y) \in Seq(Y) /\ Len(Append(Front(s), y)) = Len(s) /\ Append(Front(s), y)[Len(s)] = y
         /\ \A k \in 1..Len(s) : k # Len(s) => Append(Front(s), y)[k] = s[k]
<1> DEFINE n == Len(s)
           l == n - 1
           front == SubSeq(s, 1, l)
<1>1. n \in Nat /\ n >= 1 /\ l \in Nat /\ l + 1 = n
  OBVIOUS
<1>2. front \in Seq(Y) /\ Len(front) = l /\ \A k \in 1..l : front[k] = s[k]
  <2>1. \A k \in 1..l : s[k] \in Y
    <3>1. \A k \in 1..l : k \in 1..n
      BY <1>1
    <3> QED BY <3>1, ElementOfSeq
  <2> HIDE DEF l
  <2>2. /\ SubSeq(s, 1, l) \in Seq(Y) /\ Len(SubSeq(s, 1, l)) = IF 1 <= l THEN l - 1 + 1 ELSE 0
        /\ \A k \in 1..(l - 1 + 1) : SubSeq(s, 1, l)[k] = s[1 + k - 1]
    BY <1>1, <2>1, SubSeqProperties
  <2>3. l - 1 + 1 = l /\ (~(1 <= l) => l = 0) /\ \A k \in 1..l : 1 + k - 1 = k
    BY <1>1
  <2> QED BY <2>2, <2>3
<1>3. Front(s) = front
  BY DEF Front
<1> HIDE DEF front, l, n
<1>4. /\ Append(front, y) \in Seq(Y) /\ Len(Append(front, y)) = l + 1 /\ Append(front, y)[l + 1] = y
      /\ \A k \in 1..l : Append(front, y)[k] = front[k]
  BY <1>2, AppendProperties
<1>5. \A k \in 1..n : k # n => k \in 1..l
  BY <1>1
<1> QED BY <1>1, <1>2, <1>3, <1>4, <1>5 DEF n

\* The lines that a text is split at, and its lines.
LEMMA LineIs ==
  ASSUME NEW t \in Seq(LayoutChars), NEW le \in LineEnds(t, Len(t), TextLines(t)), NEW k \in 1..Len(TextLines(t))
  PROVE  /\ TextLines(t) \in Seq(Seq(LayoutChars)) /\ Len(TextLines(t)) \in Nat /\ Len(t) \in Nat
         /\ k - 1 \in 0..Len(TextLines(t)) /\ k \in 0..Len(TextLines(t))
         /\ le[k - 1] \in 0..Len(t) /\ le[k] \in le[k - 1]..Len(t) /\ le[k - 1] < le[k]
         /\ TextLines(t)[k] = From(t, le[k - 1], le[k])
<1> DEFINE lines == TextLines(t)
<1>1. lines \in Seq(Seq(LayoutChars))
  BY LinesAre
<1>2. le \in CutEnds(t, Len(t), lines)
  BY DEF LineEnds
<1> HIDE DEF lines
<1>3. Len(t) \in 0..Len(t)
  OBVIOUS
<1>4. k \in 1..Len(lines)
  BY DEF lines
<1>5. /\ Len(lines) \in Nat /\ Len(t) \in Nat /\ k - 1 \in 0..Len(lines) /\ k \in 0..Len(lines)
      /\ le[k - 1] \in 0..Len(t) /\ le[k] \in le[k - 1]..Len(t) /\ le[k - 1] < le[k]
      /\ lines[k] = From(t, le[k - 1], le[k])
  BY <1>1, <1>2, <1>3, <1>4, CutEndsAre
<1> QED BY <1>1, <1>5 DEF lines

\* What a text is split into: every part fits, and ends at a line's end or in a
\* line that does not fit; R is where that is.
LEMMA SplitIs ==
  ASSUME NEW t \in Seq(LayoutChars), NEW limit \in Nat \ {0, 1}, NEW utf16 \in BOOLEAN,
         NEW le \in LineEnds(t, Len(t), TextLines(t)), NEW R,
         \A i \in 1..Len(TextLines(t)) : le[i] \in R,
         \A i \in 1..Len(TextLines(t)) : Units(TextLines(t)[i], utf16) > limit =>
                \A x \in Nat : le[i - 1] < x /\ x <= le[i] => x \in R
  PROVE  /\ Split(t, limit, utf16) \in Seq(Seq(LayoutChars))
         /\ \A k \in 1..Len(Split(t, limit, utf16)) : Units(Split(t, limit, utf16)[k], utf16) <= limit
         /\ \E e \in CutEnds(t, Len(t), Split(t, limit, utf16)) :
                \A k \in 1..Len(Split(t, limit, utf16)) : e[k] \in R
<1> DEFINE lines == TextLines(t)
           n == Len(lines)
           P == Seq(LayoutChars)
           S == Seq(P)
           Joins(made, i) == made # <<>> /\ Units(Last(made) \o lines[i], utf16) <= limit
           G(made, i) == IF made # <<>> /\ Units(Last(made) \o lines[i], utf16) <= limit
                         THEN Append(Front(made), Last(made) \o lines[i])
                         ELSE made \o Forced(lines[i], limit, utf16)
           Is(g) == g = [i \in 0..n |-> IF i = 0 THEN <<>> ELSE G(g[i - 1], i)]
           F == [p \in S \X (1..n) |-> G(p[1], p[2])]
           up == CHOOSE g : Is(g)
<1>1. lines \in S /\ n \in Nat /\ <<>> \in S /\ Len(t) \in Nat /\ le \in CutEnds(t, Len(t), lines)
  BY LinesAre DEF LineEnds
<1>2. Split(t, limit, utf16) = up[n]
  BY DEF Split
<1>3. ASSUME NEW i \in 1..n
      PROVE  /\ i - 1 \in 0..n /\ i \in 0..n /\ i # 0 /\ lines[i] \in P
             /\ le[i - 1] \in 0..Len(t) /\ le[i] \in le[i - 1]..Len(t) /\ le[i - 1] < le[i]
             /\ lines[i] = From(t, le[i - 1], le[i]) /\ le[i] \in R
             /\ Units(lines[i], utf16) > limit => \A x \in Nat : le[i - 1] < x /\ x <= le[i] => x \in R
  <2>1. lines[i] \in P
    <3> HIDE DEF lines, P
    <3> QED BY <1>1, ElementOfSeq
  <2>2. i - 1 \in 0..n /\ i \in 0..n /\ i # 0
    BY <1>1
  <2> QED BY <2>1, <2>2, LineIs
<1>4. le[0] = 0 /\ le[n] = Len(t)
  BY <1>1 DEF CutEnds
<1> HIDE DEF lines
<1>5. ASSUME NEW i \in 1..n PROVE Forced(lines[i], limit, utf16) \in S
  BY <1>3, ForcedIs
<1>6. ASSUME NEW made \in S, NEW i \in 1..n, made # <<>>
      PROVE  Last(made) \in P /\ Last(made) \o lines[i] \in P /\ Last(made) = made[Len(made)] /\ Len(made) \in 1..Len(made)
  <2>1. Len(made) \in 1..Len(made) /\ Last(made) = made[Len(made)]
    BY <1>6 DEF Last
  <2>2. Last(made) \in P
    <3> HIDE DEF P
    <3> QED BY <2>1, ElementOfSeq
  <2>3. lines[i] \in P
    BY <1>3
  <2>4. Last(made) \o lines[i] \in P
    <3> DEFINE x == Last(made)
               y == lines[i]
    <3> HIDE DEF x, y
    <3>1. x \in P /\ y \in P
      BY <2>2, <2>3 DEF x, y
    <3>2. x \o y \in P
      BY <3>1
    <3> QED BY <3>2 DEF x, y
  <2> QED BY <2>1, <2>2, <2>4
<1>7. ASSUME NEW made \in S, NEW i \in 1..n PROVE G(made, i) \in S
  <2>1. CASE Joins(made, i)
    <3>1. made # <<>> /\ G(made, i) = Append(Front(made), Last(made) \o lines[i])
      BY <2>1
    <3>2. Last(made) \o lines[i] \in P
      BY <1>6, <3>1
    <3> HIDE DEF G, P
    <3> QED BY <3>1, <3>2, LastReplaced
  <2>2. CASE ~Joins(made, i)
    <3>1. G(made, i) = made \o Forced(lines[i], limit, utf16)
      BY <2>2
    <3> DEFINE cuts == Forced(lines[i], limit, utf16)
    <3>2. cuts \in S
      BY <1>5
    <3> HIDE DEF cuts, G, P
    <3>3. made \o cuts \in S
      BY <3>2
    <3> QED BY <3>1, <3>3 DEF cuts
  <2> QED BY <2>1, <2>2
<1> HIDE DEF G, n, S
<1>8. F \in [S \X (1..n) -> S] /\ \A x \in S, i \in 1..n : F[<<x, i>>] = G(x, i)
  BY <1>7
<1> HIDE DEF F
<1>9. PICK g \in [0..n -> S] : g[0] = <<>> /\ \A i \in 1..n : g[i] = F[<<g[i - 1], i>>]
  <2>1. \E g : g \in Recursions(S, <<>>, n, F)
    BY <1>1, <1>8, Recursion
  <2> QED BY <2>1 DEF Recursions
<1>10. \A i \in 1..n : i - 1 \in 0..n /\ i \in 0..n /\ i # 0 /\ g[i] = G(g[i - 1], i) /\ g[i - 1] \in S
  <2>1. \A i \in 1..n : i - 1 \in 0..n /\ i \in 0..n /\ i # 0
    BY <1>1
  <2> QED BY <1>8, <1>9, <2>1
<1>11. Is(g)
  <2>1. \A i \in 0..n : g[i] = IF i = 0 THEN <<>> ELSE G(g[i - 1], i)
    <3>1. \A i \in 0..n : i # 0 => i \in 1..n
      BY <1>1
    <3> QED BY <1>9, <1>10, <3>1
  <2> QED BY <1>9, <2>1
<1>12. Is(up)
  <2> HIDE DEF Is
  <2> QED BY <1>11
<1> HIDE DEF up
<1>13. up[0] = <<>> /\ \A i \in 1..n : up[i] = G(up[i - 1], i)
  <2>1. 0 \in 0..n /\ \A i \in 1..n : i \in 0..n /\ i # 0
    BY <1>1
  <2> QED BY <1>12, <2>1
<1> HIDE DEF Is
<1> DEFINE Good == {i \in 0..n : /\ up[i] \in S
                                 /\ \A k \in 1..Len(up[i]) : Units(up[i][k], utf16) <= limit
                                 /\ \E e \in CutEnds(t, le[i], up[i]) : \A k \in 1..Len(up[i]) : e[k] \in R}
<1>14. 0 \in Good
  <2> DEFINE e == [k \in 0..0 |-> 0]
  <2>1. Len(<<>>) = 0 /\ e \in [0..0 -> 0..0] /\ e[0] = 0 /\ 1..0 = {}
    OBVIOUS
  <2> HIDE DEF e
  <2>2. e \in CutEnds(t, 0, <<>>)
    BY <2>1 DEF CutEnds
  <2> QED BY <1>1, <1>4, <1>13, <2>1, <2>2
<1>15. ASSUME NEW i \in 1..n, i - 1 \in Good PROVE i \in Good
  <2> DEFINE m == le[i - 1]
             b == le[i]
             line == lines[i]
             made == up[i - 1]
             new == up[i]
             l == Len(made)
  <2>1. PICK e \in CutEnds(t, m, made) : \A k \in 1..l : e[k] \in R
    BY <1>15
  <2>2. made \in S /\ \A k \in 1..l : Units(made[k], utf16) <= limit
    BY <1>15
  <2>3. /\ m \in 0..Len(t) /\ b \in m..Len(t) /\ m < b /\ line = From(t, m, b) /\ b \in R /\ line \in P /\ i \in 0..n
        /\ Units(line, utf16) > limit => \A x \in Nat : m < x /\ x <= b => x \in R
    BY <1>3
  <2>4. new = G(made, i)
    BY <1>13
  <2>5. m \in Nat /\ b \in Nat /\ b - m \in Nat /\ m + (b - m) = b
    BY <1>1, <2>3
  <2> HIDE DEF m, b, made, new
  <2>6. /\ l \in Nat /\ e[l] = m
        /\ \A k \in 1..l : e[k - 1] \in 0..Len(t) /\ e[k] \in e[k - 1]..Len(t) /\ made[k] = From(t, e[k - 1], e[k])
    <3>1. made \in Seq(Seq(LayoutChars)) /\ m \in 0..Len(t) /\ e \in CutEnds(t, m, made)
      BY <2>1, <2>2, <2>3 DEF S, P
    <3> QED BY <3>1, CutEndsAre
  <2>7. CASE made # <<>> /\ Units(Last(made) \o line, utf16) <= limit
    <3> DEFINE joined == Last(made) \o line
               a == e[l - 1]
    <3>1. new = Append(Front(made), joined)
      BY <2>4, <2>7 DEF G
    <3>2. joined \in P /\ Last(made) = made[l] /\ l \in 1..l
      BY <1>6, <2>2, <2>7
    <3>3. made[l] = From(t, a, m) /\ a \in 0..Len(t) /\ m \in a..Len(t)
      BY <2>6, <3>2
    <3> HIDE DEF a
    <3>4. joined = From(t, a, b)
      <4>1. From(t, a, m) \o From(t, m, b) = From(t, a, b)
        BY <2>3, <3>3, FromJoin
      <4> QED BY <2>3, <3>2, <3>3, <4>1
    <3> HIDE DEF joined
    <3>5. /\ new \in S /\ Len(new) = l /\ new[l] = joined
          /\ \A k \in 1..l : k # l => new[k] = made[k]
      BY <2>2, <2>7, <3>1, <3>2, LastReplaced DEF S
    <3> DEFINE f == LaterEnds(e, l, b)
    <3>6. f \in CutEnds(t, b, new)
      <4>1. new[Len(made)] = From(t, e[Len(made) - 1], b)
        BY <3>4, <3>5 DEF a
      <4>2. made # <<>> /\ new \in Seq(Seq(LayoutChars)) /\ made \in Seq(Seq(LayoutChars))
        BY <2>2, <2>7, <3>5 DEF S, P
      <4> QED BY <2>1, <2>3, <3>5, <4>1, <4>2, CutLonger
    <3>7. \A k \in 1..l : f[k] \in R
      <4>1. e \in [0..l -> 0..m]
        BY <2>1 DEF CutEnds
      <4>2. \A k \in 1..l : k \in 0..l
        BY <2>6
      <4>3. f[l] = b /\ \A k \in 1..l : k # l => f[k] = e[k]
        BY <3>2, <4>1, <4>2 DEF LaterEnds
      <4> HIDE DEF f
      <4> QED BY <2>1, <2>3, <4>3
    <3>8. \A k \in 1..Len(new) : Units(new[k], utf16) <= limit
      <4>1. Units(joined, utf16) <= limit
        BY <2>7 DEF joined
      <4> QED BY <2>2, <3>5, <4>1
    <3> HIDE DEF f
    <3>9. \E x \in CutEnds(t, b, new) : \A k \in 1..Len(new) : x[k] \in R
      BY <3>5, <3>6, <3>7
    <3> QED BY <2>3, <3>5, <3>8, <3>9 DEF new, b
  <2>8. CASE ~(made # <<>> /\ Units(Last(made) \o line, utf16) <= limit)
    <3> DEFINE cuts == Forced(line, limit, utf16)
               q == Len(cuts)
               d == b - m
    <3>1. new = made \o cuts
      BY <2>4, <2>8 DEF G
    <3>2. /\ cuts \in S /\ \E f : f \in CutEnds(line, Len(line), cuts)
          /\ \A k \in 1..q : Units(cuts[k], utf16) <= limit
          /\ q >= 2 => Units(line, utf16) > limit
      <4> HIDE DEF line
      <4> QED BY <2>3, ForcedIs DEF S, P
    <3>3. Len(line) = d
      <4>1. Len(From(t, m, b)) = b - m
        <5> HIDE DEF P
        <5> QED BY <2>3, FromIs
      <4> HIDE DEF line
      <4> QED BY <2>3, <4>1 DEF d
    <3> HIDE DEF cuts, line
    <3>4. PICK f : f \in CutEnds(From(t, m, b), b - m, cuts)
      BY <2>3, <3>2, <3>3
    <3>5. /\ q \in Nat /\ f[q] = d /\ f[0] = 0
          /\ \A k \in 1..q : f[k] \in Nat /\ f[k] <= d /\ f[k] > 0
      <4>1. f \in CutEnds(line, d, cuts) /\ d \in 0..Len(line) /\ line \in Seq(LayoutChars)
        BY <2>3, <2>5, <3>3, <3>4 DEF P
      <4> HIDE DEF d
      <4>2. /\ Len(cuts) \in Nat /\ f[Len(cuts)] = d /\ f[0] = 0
            /\ \A k \in 0..Len(cuts) : f[k] \in 0..d
            /\ \A k \in 1..Len(cuts) : k - 1 \in 0..Len(cuts) /\ k \in 0..Len(cuts) /\ f[k - 1] < f[k]
        <5>1. cuts \in Seq(Seq(LayoutChars))
          BY <3>2 DEF S, P
        <5> QED BY <4>1, <5>1, CutEndsAre
      <4>3. ASSUME NEW k \in 1..q PROVE f[k] \in Nat /\ f[k] <= d /\ f[k] > 0
        <5>1. f[k - 1] \in Nat /\ f[k] \in 0..d /\ f[k - 1] < f[k]
          BY <4>2
        <5> QED BY <5>1
      <4> QED BY <4>2, <4>3
    <3> DEFINE g2 == JoinedEnds(e, l, m, f, q)
               all == l + q
    <3>6. new \in S /\ Len(new) = all /\ g2 \in CutEnds(t, b, new)
      <4>1. made \in Seq(Seq(LayoutChars)) /\ cuts \in Seq(Seq(LayoutChars))
        BY <2>2, <3>2 DEF S, P
      <4> DEFINE long == made \o cuts
      <4>2. /\ long \in Seq(Seq(LayoutChars)) /\ Len(long) = Len(made) + Len(cuts)
            /\ JoinedEnds(e, Len(made), m, f, Len(cuts)) \in CutEnds(t, b, long)
        BY <2>1, <2>3, <3>4, <4>1, CutJoined
      <4> QED BY <3>1, <4>2 DEF S, P
    <3>7. \A k \in 1..all : new[k] = IF k <= l THEN made[k] ELSE cuts[k - l]
      BY <2>2, <3>1, <3>2, ConcatProperties DEF S
    <3>8. \A k \in 1..all : g2[k] = IF k <= l THEN e[k] ELSE m + f[k - l]
      <4>1. \A k \in 1..all : k \in 0..all
        BY <2>6, <3>5
      <4> QED BY <4>1 DEF JoinedEnds
    <3> HIDE DEF g2
    <3>9. ASSUME NEW k \in 1..all PROVE g2[k] \in R /\ Units(new[k], utf16) <= limit
      <4>1. CASE k <= l
        <5>1. k \in 1..l
          BY <2>6, <4>1
        <5> QED BY <2>1, <2>2, <3>7, <3>8, <4>1, <5>1
      <4>2. CASE ~(k <= l)
        <5> DEFINE j == k - l
                   x == m + f[j]
        <5>1. j \in 1..q
          BY <2>6, <3>5, <4>2
        <5>2. g2[k] = m + f[j] /\ new[k] = cuts[j]
          BY <3>7, <3>8, <4>2
        <5> HIDE DEF j
        <5>3. f[j] \in Nat /\ f[j] <= d /\ f[j] > 0 /\ Units(cuts[j], utf16) <= limit
          BY <3>2, <3>5, <5>1
        <5>4. x \in Nat /\ m < x /\ x <= b
          BY <2>5, <5>3
        <5>5. x \in R
          <6>1. CASE q >= 2
            <7> HIDE DEF x, q
            <7> QED BY <2>3, <3>2, <5>4, <6>1 DEF line, q
          <6>2. CASE ~(q >= 2)
            <7>1. j = q
              BY <3>5, <5>1, <6>2
            <7>2. x = b
              BY <2>5, <3>5, <7>1
            <7> QED BY <2>3, <7>2
          <6> QED BY <6>1, <6>2
        <5> QED BY <5>2, <5>3, <5>5
      <4> QED BY <4>1, <4>2
    <3>10. \E x \in CutEnds(t, b, new) : \A k \in 1..Len(new) : x[k] \in R
      <4> HIDE DEF all
      <4> QED BY <3>6, <3>9
    <3>11. \A k \in 1..Len(new) : Units(new[k], utf16) <= limit
      <4> HIDE DEF all
      <4> QED BY <3>6, <3>9
    <3> QED BY <2>3, <3>6, <3>10, <3>11 DEF new, b
  <2> QED BY <2>7, <2>8
<1>16. \A i \in 0..n : i \in Good
  <2> HIDE DEF Good
  <2> QED BY <1>1, <1>14, <1>15, Upward
<1>17. n \in 0..n
  BY <1>1
<1>18. n \in Good
  <2> HIDE DEF Good
  <2> QED BY <1>16, <1>17
<1> QED BY <1>2, <1>4, <1>18 DEF S

\* The greatest and the least of numbers up to a bound.
LEMMA MaxIs ==
  ASSUME NEW b \in Nat, NEW A \in SUBSET (0..b), A # {}
  PROVE  Max(A) \in A /\ \A y \in A : y <= Max(A)
<1>1. PICK x \in A : \A y \in A : y <= x
  BY GreatestBelow
<1>2. \A y \in A : x >= y
  <2>1. x \in Nat /\ \A y \in A : y \in Nat
    OBVIOUS
  <2> QED BY <1>1, <2>1
<1>3. Max(A) \in A /\ \A y \in A : Max(A) >= y
  BY <1>1, <1>2 DEF Max
<1>4. \A y \in A : y \in Nat
  OBVIOUS
<1> QED BY <1>3, <1>4

LEMMA MinIs ==
  ASSUME NEW A \in SUBSET Nat, A # {}
  PROVE  Min(A) \in A /\ \A y \in A : Min(A) <= y
BY LeastOf DEF Min

\* The line around a character.
LineBegin(t, x) == Max({0} \cup {j \in 1..(x - 1) : t[j] = "n"})
LineStop(t, x) == Min({Len(t)} \cup {j \in x..Len(t) : t[j] = "n"})

\* It is the line that the character is in.
LEMMA LineAround ==
  ASSUME NEW t \in Seq(LayoutChars), NEW le \in LineEnds(t, Len(t), TextLines(t)),
         NEW k \in 1..Len(TextLines(t)), NEW x \in Nat, le[k - 1] < x, x <= le[k]
  PROVE  LineBegin(t, x) = le[k - 1] /\ LineStop(t, x) = le[k]
         /\ (t[le[k]] = "n" \/ le[k] = Len(t))
<1> DEFINE lines == TextLines(t)
           n == Len(lines)
           N == Len(t)
           a == le[k - 1]
           b == le[k]
           A == {0} \cup {j \in 1..(x - 1) : t[j] = "n"}
           B == {N} \cup {j \in x..N : t[j] = "n"}
<1>1. /\ lines \in Seq(Seq(LayoutChars)) /\ n \in Nat /\ N \in Nat
      /\ a \in Nat /\ b \in Nat /\ a < b /\ b <= N /\ a < x /\ x <= b
  BY LineIs
<1>2. /\ le \in CutEnds(t, N, lines)
      /\ \A i \in 1..n : i # n => t[le[i]] = "n"
      /\ \A j \in 1..N : a < j /\ j < b => t[j] # "n"
  BY DEF LineEnds
<1>3. le[0] = 0 /\ le[n] = N
  BY <1>2 DEF CutEnds
<1>4. t[b] = "n" \/ b = N
  BY <1>2, <1>3
<1>5. a = 0 \/ t[a] = "n"
  <2>1. CASE k = 1
    BY <1>3, <2>1
  <2>2. CASE k # 1
    <3> DEFINE i == k - 1
    <3>1. i \in 1..n /\ i # n
      BY <1>1, <2>2
    <3> HIDE DEF n
    <3>2. t[le[i]] = "n"
      <4> HIDE DEF i
      <4> QED BY <1>2, <3>1
    <3> QED BY <3>2
  <2> QED BY <2>1, <2>2
<1> HIDE DEF a, b, N, n, lines
<1>6. Max(A) = a
  <2>1. A \in SUBSET (0..x) /\ a \in A
    BY <1>1, <1>5
  <2>2. \A y \in A : y <= a
    <3> SUFFICES ASSUME NEW y \in 1..(x - 1), t[y] = "n" PROVE y <= a
      BY <1>1
    <3>1. y \in 1..N /\ y < b
      BY <1>1
    <3> QED BY <1>1, <1>2, <3>1
  <2> HIDE DEF A
  <2>3. Max(A) \in A /\ \A y \in A : y <= Max(A)
    BY <2>1, MaxIs
  <2> DEFINE z == Max(A)
  <2>4. z \in A /\ z <= a /\ a <= z
    BY <2>1, <2>2, <2>3
  <2> HIDE DEF z
  <2>5. z \in Nat
    BY <1>1, <2>1, <2>4
  <2>6. z = a
    BY <1>1, <2>4, <2>5
  <2> QED BY <2>6 DEF z
<1>7. Min(B) = b
  <2>1. B \in SUBSET Nat /\ b \in B
    BY <1>1, <1>4
  <2>2. \A y \in B : b <= y
    <3> SUFFICES ASSUME NEW y \in x..N, t[y] = "n" PROVE b <= y
      BY <1>1
    <3>1. y \in 1..N /\ a < y
      BY <1>1
    <3> QED BY <1>1, <1>2, <3>1
  <2> HIDE DEF B
  <2>3. Min(B) \in B /\ \A y \in B : Min(B) <= y
    BY <2>1, MinIs
  <2>4. Min(B) <= b /\ b <= Min(B) /\ Min(B) \in Nat
    BY <2>1, <2>2, <2>3
  <2> QED BY <1>1, <2>4
<1> QED BY <1>4, <1>6, <1>7 DEF a, b, N, LineBegin, LineStop

\* What is cut into steps: every part is at most as long as a step.
LEMMA ChunksAre ==
  ASSUME NEW t \in Seq(LayoutChars), NEW step \in Nat \ {0}
  PROVE  /\ StreamChunks(t, step) \in Seq(Seq(LayoutChars))
         /\ \A k \in 1..Len(StreamChunks(t, step)) : Len(StreamChunks(t, step)[k]) <= step
         /\ \E e : e \in CutEnds(t, Len(t), StreamChunks(t, step))
<1> DEFINE n == Len(t)
           most(start) == IF start + step < n THEN start + step ELSE n
           ends(start) == {i \in (start + 2)..most(start) : t[i] = "n"}
           End(start) == IF most(start) < n /\ ends(start) # {} THEN Max(ends(start)) ELSE most(start)
           Is(g) == g = [k \in 0..n |-> IF k = 0 THEN 0 ELSE End(g[k - 1])]
           S == 0..n
           F == [p \in S \X (1..n) |-> End(p[1])]
           up == CHOOSE g : Is(g)
           D == {k \in 0..n : up[k] = n}
           last == Min(D)
           chunks == [k \in 1..last |-> SubSeq(t, up[k - 1] + 1, up[k])]
<1>1. n \in Nat /\ 0 \in S
  OBVIOUS
<1>2. StreamChunks(t, step) = chunks
  BY DEF StreamChunks
<1>3. ASSUME NEW a \in S
      PROVE  /\ End(a) \in S /\ End(a) <= a + step /\ (a < n => a < End(a)) /\ (a = n => End(a) = n)
  <2> HIDE DEF n
  <2>1. most(a) \in S /\ most(a) <= a + step /\ (a < n => a < most(a)) /\ (a = n => most(a) = n)
    BY <1>1
  <2>2. CASE most(a) < n /\ ends(a) # {}
    <3>1. ends(a) \in SUBSET (0..n) /\ \A i \in ends(a) : i >= a + 2 /\ i <= most(a)
      BY <1>1, <2>1
    <3>2. Max(ends(a)) \in ends(a)
      <4> HIDE DEF ends
      <4> QED BY <1>1, <2>2, <3>1, MaxIs
    <3>3. End(a) = Max(ends(a))
      BY <2>2
    <3> DEFINE y == Max(ends(a))
    <3>4. y \in 0..n /\ y >= a + 2 /\ y <= most(a)
      BY <3>1, <3>2
    <3> HIDE DEF y, most, ends
    <3>5. End(a) = y
      BY <3>3 DEF y
    <3>6. y <= a + step /\ a < y /\ (a = n => FALSE)
      BY <1>1, <2>1, <2>2, <3>4
    <3> HIDE DEF End
    <3> QED BY <3>4, <3>5, <3>6
  <2>3. CASE ~(most(a) < n /\ ends(a) # {})
    <3>1. End(a) = most(a)
      BY <2>3
    <3> HIDE DEF End, most
    <3> QED BY <2>1, <3>1
  <2> QED BY <2>2, <2>3
<1> HIDE DEF End, n, S
<1>4. F \in [S \X (1..n) -> S] /\ \A x \in S, i \in 1..n : F[<<x, i>>] = End(x)
  BY <1>3
<1> HIDE DEF F
<1>5. PICK g \in [0..n -> S] : g[0] = 0 /\ \A i \in 1..n : g[i] = F[<<g[i - 1], i>>]
  <2>1. \E g : g \in Recursions(S, 0, n, F)
    BY <1>1, <1>4, Recursion
  <2> QED BY <2>1 DEF Recursions
<1>6. \A i \in 1..n : i - 1 \in 0..n /\ i \in 0..n /\ i # 0 /\ g[i] = End(g[i - 1]) /\ g[i - 1] \in S
  <2>1. \A i \in 1..n : i - 1 \in 0..n /\ i \in 0..n /\ i # 0
    BY <1>1
  <2> QED BY <1>4, <1>5, <2>1
<1>7. Is(g)
  <2>1. \A i \in 0..n : g[i] = IF i = 0 THEN 0 ELSE End(g[i - 1])
    <3>1. \A i \in 0..n : i # 0 => i \in 1..n
      BY <1>1
    <3> QED BY <1>5, <1>6, <3>1
  <2> QED BY <1>5, <2>1
<1>8. Is(up)
  <2> HIDE DEF Is
  <2> QED BY <1>7
<1> HIDE DEF up
<1>9. up[0] = 0 /\ \A i \in 1..n : up[i] = End(up[i - 1])
  <2>1. 0 \in 0..n /\ \A i \in 1..n : i \in 0..n /\ i # 0
    BY <1>1
  <2> QED BY <1>8, <2>1
<1> HIDE DEF Is
<1> DEFINE Good == {k \in 0..n : (up[k] \in S /\ up[k] >= k) \/ up[k] = n}
<1>10. \A k \in 0..n : k \in Good
  <2>1. 0 \in Good
    BY <1>1, <1>9 DEF S
  <2>2. ASSUME NEW k \in 1..n, k - 1 \in Good PROVE k \in Good
    <3> DEFINE a == up[k - 1]
               b == up[k]
    <3>1. b = End(a) /\ ((a \in S /\ a >= k - 1) \/ a = n) /\ k \in 0..n
      BY <1>1, <1>9, <2>2
    <3>2. n \in S
      BY <1>1 DEF S
    <3> HIDE DEF a, b
    <3>3. a \in S
      BY <3>1, <3>2
    <3>4. b \in S /\ (a < n => a < b) /\ (a = n => b = n)
      BY <1>3, <3>1, <3>3
    <3>5. b >= k \/ b = n
      BY <1>1, <3>1, <3>3, <3>4 DEF S
    <3> QED BY <3>1, <3>4, <3>5 DEF b
  <2> HIDE DEF Good
  <2> QED BY <1>1, <2>1, <2>2, Upward
<1>11. n \in D
  <2>1. n \in 0..n /\ n \in Good
    BY <1>1, <1>10
  <2>2. up[n] = n
    BY <1>1, <2>1 DEF S
  <2> QED BY <2>1, <2>2
<1>12. last \in D /\ \A y \in D : last <= y
  <2>1. D \in SUBSET Nat
    OBVIOUS
  <2> HIDE DEF D
  <2> QED BY <1>11, <2>1, MinIs
<1>13. last \in 0..n /\ up[last] = n
  BY <1>12
<1>14. \A k \in 0..n : up[k] \in S
  BY <1>1, <1>10 DEF S
<1>15. ASSUME NEW k \in 1..last
       PROVE  /\ k \in 1..n /\ k - 1 \in 0..n /\ k \in 0..n
              /\ up[k - 1] \in 0..n /\ up[k] \in up[k - 1]..n /\ up[k - 1] < up[k] /\ up[k] <= up[k - 1] + step
  <2> DEFINE a == up[k - 1]
             b == up[k]
  <2>1. k \in 1..n /\ k - 1 \in 0..n /\ k \in 0..n /\ ~(last <= k - 1)
    BY <1>1, <1>13
  <2>2. a \in S /\ b = End(a)
    BY <1>9, <1>14, <2>1
  <2>3. k - 1 \notin D
    <3> HIDE DEF last, D
    <3> QED BY <1>12, <2>1
  <2>4. a # n
    BY <2>1, <2>3
  <2> HIDE DEF a, b
  <2>5. a < n
    BY <1>1, <2>2, <2>4 DEF S
  <2>6. b \in S /\ b <= a + step /\ a < b
    BY <1>3, <2>2, <2>5
  <2>7. a \in 0..n /\ b \in a..n
    BY <1>1, <2>2, <2>6 DEF S
  <2> QED BY <2>1, <2>6, <2>7 DEF a, b
<1> HIDE DEF last, D
<1>16. ASSUME NEW k \in 1..last
       PROVE  /\ chunks[k] = From(t, up[k - 1], up[k]) /\ chunks[k] \in Seq(LayoutChars)
              /\ Len(chunks[k]) <= step
  <2> DEFINE a == up[k - 1]
             b == up[k]
  <2>1. chunks[k] = From(t, a, b)
    BY DEF From
  <2>2. a \in 0..Len(t) /\ b \in a..Len(t) /\ b <= a + step
    BY <1>15 DEF n
  <2> HIDE DEF a, b, chunks
  <2>3. From(t, a, b) \in Seq(LayoutChars) /\ Len(From(t, a, b)) = b - a
    BY <2>2, FromIs
  <2>4. b - a <= step
    BY <2>2
  <2> QED BY <2>1, <2>3, <2>4 DEF a, b
<1>17. chunks \in Seq(Seq(LayoutChars)) /\ Len(chunks) = last
  <2>1. last \in Nat
    BY <1>1, <1>13
  <2>2. \A k \in 1..last : chunks[k] \in Seq(LayoutChars)
    BY <1>16
  <2>3. chunks \in [1..last -> Seq(LayoutChars)]
    BY <2>2
  <2> HIDE DEF chunks
  <2> QED BY <2>1, <2>3
<1> HIDE DEF chunks
<1> DEFINE e == [k \in 0..last |-> up[k]]
<1>18. e \in CutEnds(t, n, chunks)
  <2>1. /\ \A k \in 0..last : e[k] = up[k] /\ up[k] \in 0..n
        /\ e \in [0..last -> 0..n]
    <3>1. \A k \in 0..last : k \in 0..n
      BY <1>1, <1>13
    <3> QED BY <1>14, <3>1 DEF S
  <2> HIDE DEF e
  <2>2. 0 \in 0..last /\ last \in 0..last /\ \A k \in 1..last : k - 1 \in 0..last /\ k \in 0..last
    BY <1>1, <1>13
  <2>3. e[0] = 0 /\ e[last] = n
    BY <1>9, <1>13, <2>1, <2>2
  <2>4. \A k \in 1..last : e[k - 1] < e[k] /\ chunks[k] = From(t, e[k - 1], e[k])
    BY <1>15, <1>16, <2>1, <2>2
  <2> QED BY <1>17, <2>1, <2>3, <2>4 DEF CutEnds
<1> HIDE DEF e
<1>19. \E f : f \in CutEnds(t, Len(t), chunks)
  BY <1>18 DEF n
<1> QED BY <1>2, <1>16, <1>17, <1>19

\* Whatever was asked is answered as the code does.
LayoutInv ==
    /\ layoutAsked.kind \in {"none", "split", "stream", "strip", "preview", "blocks"}
    /\ layoutAsked.kind = "split" =>
        /\ layoutAsked.text \in Seq(LayoutChars) /\ layoutAsked.limit \in CutLimits /\ layoutAsked.utf16 \in BOOLEAN
        /\ layoutMade = Split(layoutAsked.text, layoutAsked.limit, layoutAsked.utf16)
    /\ layoutAsked.kind = "stream" =>
        /\ layoutAsked.text \in Seq(LayoutChars) /\ layoutAsked.limit \in CutLimits
        /\ layoutMade = StreamChunks(layoutAsked.text, layoutAsked.limit)
    /\ layoutAsked.kind = "strip" =>
        /\ layoutAsked.text \in Seq(LayoutChars)
        /\ \E from, to \in Nat : /\ layoutAsked.entity = [from |-> from, to |-> to]
                                 /\ layoutMade = Stripped(layoutAsked.text, [from |-> from, to |-> to])
    /\ layoutAsked.kind = "preview" =>
        /\ layoutAsked.size \in Nat /\ layoutAsked.thinking \in Nat /\ layoutAsked.wide \in Nat
        /\ layoutMade = StreamPreview(layoutAsked.size, layoutAsked.thinking)
    /\ layoutAsked.kind = "blocks" =>
        /\ layoutAsked.rows \in Seq(LineKinds)
        /\ layoutMade = Blocks(layoutAsked.rows)

\* Nothing was laid out yet.
LEMMA LayoutBegins == LayoutInit => LayoutInv
BY DEF LayoutInit, LayoutInv

\* A step asks one question and answers it.
LEMMA LayoutStep ==
  ASSUME LayoutInv, [LayoutNext]_layoutVars
  PROVE  LayoutInv'
<1>0. \A text \in LayoutTexts : text \in Seq(LayoutChars)
  <2>1. MaxChars \in Nat
    BY LayoutAssumption
  <2> QED BY <2>1, BoundedSeqs DEF LayoutTexts, LayoutChars
<1>1. CASE SplitsText
  <2>1. PICK text \in LayoutTexts, limit \in CutLimits, utf16 \in BOOLEAN :
            /\ layoutAsked' = [kind |-> "split", text |-> text, limit |-> limit, utf16 |-> utf16]
            /\ layoutMade' = Split(text, limit, utf16)
    BY <1>1 DEF SplitsText
  <2>2. /\ layoutAsked'.kind = "split" /\ layoutAsked'.text = text /\ layoutAsked'.limit = limit
        /\ layoutAsked'.utf16 = utf16
    BY <2>1
  <2> QED BY <1>0, <2>1, <2>2 DEF LayoutInv
<1>2. CASE StreamsText
  <2>1. PICK text \in LayoutTexts, limit \in CutLimits :
            /\ layoutAsked' = [kind |-> "stream", text |-> text, limit |-> limit]
            /\ layoutMade' = StreamChunks(text, limit)
    BY <1>2 DEF StreamsText
  <2>2. layoutAsked'.kind = "stream" /\ layoutAsked'.text = text /\ layoutAsked'.limit = limit
    BY <2>1
  <2> QED BY <1>0, <2>1, <2>2 DEF LayoutInv
<1>3. CASE StripsText
  <2>1. PICK text \in LayoutTexts : \E from \in 0..Units(text, TRUE), to \in 0..Units(text, TRUE) :
            /\ layoutAsked' = [kind |-> "strip", text |-> text, entity |-> [from |-> from, to |-> to]]
            /\ layoutMade' = Stripped(text, [from |-> from, to |-> to])
    BY <1>3 DEF StripsText
  <2>2. Units(text, TRUE) \in Nat
    BY <1>0, UnitsAre
  <2>3. PICK from \in Nat, to \in Nat :
            /\ layoutAsked' = [kind |-> "strip", text |-> text, entity |-> [from |-> from, to |-> to]]
            /\ layoutMade' = Stripped(text, [from |-> from, to |-> to])
    BY <2>1, <2>2
  <2>4. /\ layoutAsked'.kind = "strip" /\ layoutAsked'.text = text
        /\ layoutAsked'.entity = [from |-> from, to |-> to]
    BY <2>3
  <2> QED BY <1>0, <2>3, <2>4 DEF LayoutInv
<1>4. CASE Previews
  <2>1. PICK reply \in 0..(MessageLimit + 2), thinking \in 0..(MessageLimit + 2) :
            \E wide \in 0..(reply + thinking) :
                /\ layoutAsked' = [kind |-> "preview", size |-> reply, thinking |-> thinking, wide |-> wide]
                /\ layoutMade' = StreamPreview(reply, thinking)
    BY <1>4 DEF Previews
  <2>2. /\ layoutAsked'.kind = "preview" /\ layoutAsked'.size = reply /\ layoutAsked'.thinking = thinking
        /\ layoutAsked'.wide \in Nat
    BY <2>1
  <2>3. reply \in Nat /\ thinking \in Nat
    BY LayoutAssumption
  <2> QED BY <2>1, <2>2, <2>3 DEF LayoutInv
<1>5. CASE LaysOut
  <2>1. PICK rows \in SeqOf(LineKinds, MaxRows) :
            /\ layoutAsked' = [kind |-> "blocks", rows |-> rows]
            /\ layoutMade' = Blocks(rows)
    BY <1>5 DEF LaysOut
  <2>2. layoutAsked'.kind = "blocks" /\ layoutAsked'.rows = rows
    BY <2>1
  <2>3. rows \in Seq(LineKinds)
    <3>1. MaxRows \in Nat
      BY LayoutAssumption
    <3> QED BY <3>1, BoundedSeqs
  <2> QED BY <2>1, <2>2, <2>3 DEF LayoutInv
<1>6. CASE UNCHANGED layoutVars
  BY <1>6 DEF layoutVars, LayoutInv
<1> QED BY <1>1, <1>2, <1>3, <1>4, <1>5, <1>6 DEF LayoutNext

(***************************************************************************)
(* Whatever is cut is there in its parts, each part fits but for its wide  *)
(* characters where characters are counted, and only a line that is too    *)
(* long is cut (_split_text, _split_thinking, _iter_stream_chunks).        *)
(***************************************************************************)
LEMMA CutsAreSoundly == LayoutInv => CutsAreSound
<1> SUFFICES ASSUME LayoutInv, layoutAsked.kind \in {"split", "stream"} PROVE CutsAreSound
  BY DEF CutsAreSound
<1> DEFINE t == layoutAsked.text
           limit == layoutAsked.limit
           made == layoutMade
           utf16 == layoutAsked.kind = "split" /\ layoutAsked.utf16
           ends == [k \in DOMAIN made |-> Len(FlattenSeq(SubSeq(made, 1, k)))]
           begin(i) == Max({0} \cup {j \in 1..(i - 1) : t[j] = "n"})
           stop(i) == Min({Len(t)} \cup {j \in i..Len(t) : t[j] = "n"})
           whole(i) == SubSeq(t, begin(i) + 1, stop(i))
           Right(i) == t[i] = "n" \/ i = Len(t) \/ Units(whole(i), utf16) > limit
           n == Len(made)
<1>1. t \in Seq(LayoutChars) /\ limit \in Nat \ {0, 1} /\ Len(t) \in Nat /\ limit \in Nat \ {0}
  <2>1. t \in Seq(LayoutChars) /\ limit \in CutLimits
    <3>1. CASE layoutAsked.kind = "split"
      BY <3>1 DEF LayoutInv
    <3>2. CASE layoutAsked.kind = "stream"
      BY <3>2 DEF LayoutInv
    <3> QED BY <3>1, <3>2
  <2> HIDE DEF t, limit
  <2> QED BY <2>1, LayoutAssumption
<1>2. SUFFICES /\ FlattenSeq(made) = t
               /\ \A k \in DOMAIN made :
                    made[k] # <<>> /\ made[k] \in Seq(LayoutChars) /\ Units(made[k], utf16) <= limit
               /\ layoutAsked.kind = "split" => \A k \in DOMAIN made : Right(ends[k])
  <2> DEFINE lineAt(i) == [from |-> begin(i), to |-> stop(i)]
             span(i) == SubSeq(t, lineAt(i).from + 1, lineAt(i).to)
  <2>0. ASSUME NEW k \in DOMAIN made
        PROVE  made[k] # <<>> /\ Units(made[k], TRUE) <= limit + IF utf16 THEN 0 ELSE Wide(made[k])
    <3>1. made[k] # <<>> /\ made[k] \in Seq(LayoutChars) /\ Units(made[k], utf16) <= limit
      BY <1>2
    <3>2. /\ limit \in Nat /\ utf16 \in BOOLEAN /\ Len(made[k]) \in Nat /\ Units(made[k], TRUE) \in Nat
          /\ Units(made[k], FALSE) = Len(made[k])
      BY <1>1, <3>1, UnitsAre DEF LayoutInv
    <3> DEFINE units == Units(made[k], TRUE)
               over == IF utf16 THEN 0 ELSE Wide(made[k])
    <3>3. /\ units \in Nat /\ limit \in Nat
          /\ \/ units <= limit /\ over = 0
             \/ Len(made[k]) \in Nat /\ Len(made[k]) <= limit /\ over = units - Len(made[k])
      <4> HIDE DEF made, limit, utf16
      <4> QED BY <3>1, <3>2 DEF Wide
    <3> HIDE DEF units, over
    <3>4. units <= limit + over
      BY <3>3
    <3> QED BY <3>1, <3>4 DEF units, over
  <2>1. \A i : span(i) = whole(i)
    <3> HIDE DEF begin, stop
    <3> QED OBVIOUS
  <2>2. \A i : Right(i) <=> t[i] = "n" \/ i = Len(t) \/ Units(span(i), utf16) > limit
    <3> HIDE DEF span, whole, utf16, t
    <3> QED BY <2>1
  <2>3. layoutAsked.kind = "split" =>
            \A k \in DOMAIN made : \/ t[ends[k]] = "n" \/ ends[k] = Len(t)
                                   \/ Units(span(ends[k]), utf16) > limit
    <3> HIDE DEF span, whole, utf16, t, ends, Right
    <3> QED BY <1>2, <2>2
  <2> HIDE DEF Right
  <2> QED BY <1>2, <2>0, <2>3 DEF CutsAreSound
<1> HIDE DEF t, limit, utf16, Right
<1>3. ASSUME NEW e \in CutEnds(t, Len(t), made), made \in Seq(Seq(LayoutChars))
      PROVE  /\ FlattenSeq(made) = t /\ DOMAIN made = 1..n /\ n \in Nat /\ \A k \in 1..n : made[k] # <<>>
             /\ \A k \in 1..n : ends[k] = e[k] /\ e[k] \in 1..Len(t)
  <2>1. Len(t) \in 0..Len(t)
    BY <1>1
  <2>2. FlattenSeq(made) = From(t, 0, Len(t))
    BY <1>1, <1>3, <2>1, CutIsWhole
  <2>3. From(t, 0, Len(t)) = t
    BY <1>1, AllFrom
  <2>4. \A k \in 1..Len(made) : made[k] # <<>>
    <3> DEFINE m == Len(t)
    <3>1. t \in Seq(LayoutChars) /\ m \in 0..Len(t) /\ e \in CutEnds(t, m, made)
      BY <1>1, <1>3, <2>1
    <3> HIDE DEF m
    <3> QED BY <1>3, <3>1, CutEndsAre
  <2>5. \A k \in 1..Len(made) : Len(FlattenSeq(SubSeq(made, 1, k))) = e[k] /\ e[k] \in 1..Len(t)
    BY <1>1, <1>3, <2>1, FirstParts
  <2>6. DOMAIN made = 1..n /\ n \in Nat
    BY <1>3
  <2>7. \A k \in 1..n : ends[k] = Len(FlattenSeq(SubSeq(made, 1, k)))
    BY <2>6
  <2> HIDE DEF ends
  <2> QED BY <2>2, <2>3, <2>4, <2>5, <2>6, <2>7
<1>4. CASE layoutAsked.kind = "stream"
  <2>1. made = StreamChunks(t, limit) /\ ~utf16
    BY <1>4 DEF LayoutInv, t, limit, utf16
  <2>2. /\ made \in Seq(Seq(LayoutChars)) /\ \A k \in 1..n : Len(made[k]) <= limit
        /\ \E e : e \in CutEnds(t, Len(t), made)
    <3> HIDE DEF made
    <3> QED BY <1>1, <2>1, ChunksAre
  <2>3. FlattenSeq(made) = t /\ DOMAIN made = 1..n /\ n \in Nat /\ \A k \in 1..n : made[k] # <<>>
    BY <1>3, <2>2
  <2>4. ASSUME NEW k \in 1..n PROVE Units(made[k], utf16) <= limit
    <3>1. made[k] \in Seq(LayoutChars)
      BY <2>2, ElementOfSeq
    <3>2. FALSE \in BOOLEAN /\ utf16 = FALSE
      BY <2>1 DEF utf16
    <3>3. Units(made[k], FALSE) = Len(made[k])
      BY <3>1, <3>2, UnitsAre
    <3> QED BY <2>2, <3>2, <3>3
  <2> QED BY <1>4, <2>2, <2>3, <2>4, ElementOfSeq
<1>5. CASE layoutAsked.kind = "split"
  <2> DEFINE lines == TextLines(t)
             R == {x \in 1..Len(t) : Right(x)}
  <2>1. made = Split(t, limit, utf16) /\ utf16 \in BOOLEAN
    <3>1. layoutAsked.utf16 \in BOOLEAN /\ made = Split(t, limit, layoutAsked.utf16)
      BY <1>5 DEF LayoutInv, t, limit
    <3>2. utf16 = layoutAsked.utf16
      BY <1>5, <3>1 DEF utf16
    <3> QED BY <3>1, <3>2
  <2>2. PICK le : le \in LineEnds(t, Len(t), TextLines(t))
    BY <1>1, LinesAre
  <2>3. ASSUME NEW i \in 1..Len(lines)
        PROVE  /\ le[i] \in R
               /\ Units(lines[i], utf16) > limit => \A x \in Nat : le[i - 1] < x /\ x <= le[i] => x \in R
    <3> DEFINE a == le[i - 1]
               b == le[i]
    <3>1. a \in Nat /\ b \in Nat /\ a < b /\ b <= Len(t) /\ lines[i] = From(t, a, b)
      BY <1>1, <2>2, LineIs
    <3>2. ASSUME NEW x \in Nat, a < x, x <= b
          PROVE  begin(x) = a /\ stop(x) = b /\ (t[b] = "n" \/ b = Len(t)) /\ whole(x) = lines[i]
      <4>1. begin(x) = le[i - 1] /\ stop(x) = le[i] /\ (t[le[i]] = "n" \/ le[i] = Len(t))
        <5> HIDE DEF lines
        <5>1. i \in 1..Len(TextLines(t))
          BY DEF lines
        <5>2. LineBegin(t, x) = le[i - 1] /\ LineStop(t, x) = le[i] /\ (t[le[i]] = "n" \/ le[i] = Len(t))
          BY <1>1, <2>2, <3>2, <5>1, LineAround
        <5>3. begin(x) = LineBegin(t, x) /\ stop(x) = LineStop(t, x)
          BY DEF LineBegin, LineStop
        <5> QED BY <5>2, <5>3
      <4> HIDE DEF begin, stop
      <4>2. whole(x) = SubSeq(t, a + 1, b)
        BY <4>1
      <4> QED BY <3>1, <4>1, <4>2 DEF From
    <3>3. le[i] \in R
      <4>1. b \in Nat /\ a < b /\ b <= b /\ b \in 1..Len(t)
        BY <1>1, <3>1
      <4>2. t[b] = "n" \/ b = Len(t)
        BY <3>2, <4>1
      <4>3. Right(b)
        BY <4>2 DEF Right
      <4> QED BY <4>1, <4>3
    <3>4. ASSUME Units(lines[i], utf16) > limit, NEW x \in Nat, a < x, x <= b PROVE x \in R
      <4>1. x \in 1..Len(t)
        BY <1>1, <3>1, <3>4
      <4>2. whole(x) = lines[i]
        BY <3>2, <3>4
      <4>3. Right(x)
        <5> HIDE DEF whole, lines
        <5> QED BY <3>4, <4>2 DEF Right
      <4> QED BY <4>1, <4>3
    <3> HIDE DEF R, lines
    <3> QED BY <3>3, <3>4
  <2>4. /\ made \in Seq(Seq(LayoutChars))
        /\ \A k \in 1..Len(made) : Units(made[k], utf16) <= limit
        /\ \E e \in CutEnds(t, Len(t), made) : \A k \in 1..Len(made) : e[k] \in R
    <3> HIDE DEF R, made
    <3> QED BY <1>1, <2>1, <2>2, <2>3, SplitIs
  <2>5. PICK e \in CutEnds(t, Len(t), made) : \A k \in 1..Len(made) : e[k] \in R
    BY <2>4
  <2>6. /\ FlattenSeq(made) = t /\ DOMAIN made = 1..n /\ n \in Nat /\ \A k \in 1..n : made[k] # <<>>
        /\ \A k \in 1..n : ends[k] = e[k]
    BY <1>3, <2>4
  <2>7. \A k \in 1..n : Right(ends[k])
    <3>1. \A k \in 1..n : Right(e[k])
      BY <2>5
    <3> HIDE DEF ends
    <3>2. ASSUME NEW k \in 1..n PROVE Right(ends[k])
      <4>1. ends[k] = e[k] /\ Right(e[k])
        BY <2>6, <3>1
      <4> QED BY <4>1
    <3> QED BY <3>2
  <2> HIDE DEF ends
  <2> QED BY <2>4, <2>6, <2>7, ElementOfSeq
<1> QED BY <1>4, <1>5

-----------------------------------------------------------------------------
(* TelegramText: Entities                                                   *)

\* The line ends before a text.
LEMMA EdgeIs ==
  ASSUME NEW t \in Seq(LayoutChars)
  PROVE  /\ Edge(t) \in 0..Len(t) /\ Len(t) \in Nat
         /\ \A i \in 1..Edge(t) : t[i] = "n"
         /\ Edge(t) < Len(t) => Edge(t) + 1 \in 1..Len(t) /\ t[Edge(t) + 1] # "n"
<1> DEFINE D == {i \in DOMAIN t : t[i] # "n"}
           N == Len(t)
<1>1. N \in Nat /\ DOMAIN t = 1..N
  OBVIOUS
<1>2. CASE D = {}
  <2>1. Edge(t) = N
    BY <1>2 DEF Edge
  <2>2. \A i \in 1..N : t[i] = "n"
    BY <1>1, <1>2
  <2> QED BY <1>1, <2>1, <2>2
<1>3. CASE D # {}
  <2> DEFINE x == Min(D)
  <2>1. Edge(t) = x - 1
    BY <1>3 DEF Edge
  <2>2. D \in SUBSET Nat
    BY <1>1
  <2>3. x \in D /\ \A y \in D : x <= y
    <3> HIDE DEF D
    <3> QED BY <1>3, <2>2, MinIs
  <2>4. x \in 1..N /\ t[x] # "n" /\ \A y \in 1..N : t[y] # "n" => x <= y
    BY <1>1, <2>3
  <2> HIDE DEF x, D
  <2>5. \A i \in 1..(x - 1) : i \in 1..N /\ ~(x <= i)
    BY <1>1, <2>4
  <2>6. x - 1 \in 0..N /\ (x - 1) + 1 = x
    BY <1>1, <2>4
  <2>7. \A i \in 1..(x - 1) : t[i] = "n"
    BY <2>4, <2>5
  <2> QED BY <1>1, <2>1, <2>4, <2>6, <2>7
<1> QED BY <1>2, <1>3

\* What is between the line ends at both ends.
LEMMA EdgesAre ==
  ASSUME NEW t \in Seq(LayoutChars)
  PROVE  LET b == Len(t) - Edge(Reverse(t))
         IN  b \in 0..Len(t) /\ (Edge(t) <= b \/ SubSeq(t, Edge(t) + 1, b) = <<>>)
<1> DEFINE r == Reverse(t)
           N == Len(t)
           e == Edge(r)
           b == N - e
           a == Edge(t)
<1>1. N \in Nat /\ DOMAIN t = 1..N /\ \A i \in 1..N : t[i] \in LayoutChars
  BY ElementOfSeq
<1>2. r = [i \in 1..N |-> t[(N - i) + 1]]
  BY DEF Reverse
<1>3. r \in Seq(LayoutChars) /\ Len(r) = N
  <2>1. \A i \in 1..N : (N - i) + 1 \in 1..N
    BY <1>1
  <2>2. r \in [1..N -> LayoutChars]
    BY <1>1, <1>2, <2>1
  <2> HIDE DEF r, N
  <2> QED BY <1>1, <2>2
<1> HIDE DEF r
<1>4. e \in 0..N
  BY <1>3, EdgeIs
<1>5. a \in 0..N
  BY EdgeIs
<1> HIDE DEF e, a, N
<1>6. b \in 0..N
  BY <1>1, <1>4
<1>7. CASE a <= b
  BY <1>6, <1>7 DEF r, e, a, N
<1>8. CASE ~(a <= b)
  <2> DEFINE c == a + 1
  <2>1. c \in Int /\ b \in Int /\ b < c
    BY <1>1, <1>5, <1>6, <1>8
  <2>2. SubSeq(t, c, b) = <<>>
    <3> HIDE DEF c, b
    <3> QED BY <2>1, SubSeqEmpty
  <2> QED BY <1>6, <2>2 DEF r, e, a, N
<1> QED BY <1>7, <1>8

\* How many units are before a character of a part that only line ends precede.
LEMMA PlacesMove ==
  ASSUME NEW t \in Seq(LayoutChars), NEW a \in 0..Len(t), NEW b \in a..Len(t), \A i \in 1..a : t[i] = "n",
         NEW k, k = From(t, a, b)
  PROVE  /\ \A j \in 0..(b - a) : Units(From(k, 0, j), TRUE) \in Nat
         /\ \A j \in 0..(b - a) : Units(From(t, 0, a + j), TRUE) = a + Units(From(k, 0, j), TRUE)
         /\ \A j \in 1..(b - a) : Units(From(k, 0, j - 1), TRUE) < Units(k, TRUE)
<1> DEFINE N == Len(t)
           K == b - a
           PT(j) == Units(From(t, 0, j), TRUE)
           PK(j) == Units(From(k, 0, j), TRUE)
<1>1. N \in Nat /\ a \in Nat /\ b \in Nat /\ K \in Nat /\ a <= b /\ b <= N /\ TRUE \in BOOLEAN
  OBVIOUS
<1>2. k \in Seq(LayoutChars) /\ Len(k) = K /\ \A i \in 1..K : a + i \in 1..N /\ k[i] = t[a + i]
  BY FromIs
<1>3. \A j \in 1..N : PT(j) = PT(j - 1) + UnitsOf(t[j], TRUE)
  BY UnitsGrow
<1>4. \A j \in 1..K : PK(j) = PK(j - 1) + UnitsOf(k[j], TRUE)
  BY <1>2, UnitsGrow
<1>5. PT(0) = 0 /\ PK(0) = 0
  <2>1. From(t, 0, 0) = <<>> /\ From(k, 0, 0) = <<>>
    BY <1>2, AllFrom
  <2>2. <<>> \in Seq(LayoutChars) /\ Len(<<>>) = 0
    OBVIOUS
  <2>3. Units(<<>>, TRUE) = 0
    BY <2>2, UnitsAre
  <2> QED BY <2>1, <2>3
<1>6. UnitsOf("n", TRUE) = 1 /\ \A c : UnitsOf(c, TRUE) \in 1..2
  BY DEF UnitsOf
<1>7. PK(K) = Units(k, TRUE)
  BY <1>2, AllFrom
<1>8. \A j \in 0..K : PK(j) \in Nat
  <2>1. \A j \in 0..Len(k) : From(k, 0, j) \in Seq(LayoutChars)
    <3>1. 0 \in 0..Len(k)
      BY <1>1, <1>2
    <3> QED BY <1>2, <3>1, FromIs
  <2> QED BY <1>2, <2>1, UnitsAre
<1> HIDE DEF PT, PK, K, N
<1>9. \A j \in 0..a : PT(j) = j
  <2> DEFINE S == {j \in 0..a : PT(j) = j}
  <2>1. 0 \in S
    BY <1>1, <1>5
  <2>2. ASSUME NEW j \in 1..a, j - 1 \in S PROVE j \in S
    <3>1. j \in 1..N /\ t[j] = "n" /\ j \in 0..a /\ (j - 1) + 1 = j
      BY <1>1
    <3>2. PT(j - 1) = j - 1
      BY <2>2
    <3>3. PT(j) = PT(j - 1) + 1
      BY <1>3, <1>6, <3>1
    <3> QED BY <3>1, <3>2, <3>3
  <2>3. \A j \in 0..a : j \in S
    <3> HIDE DEF S
    <3> QED BY <1>1, <2>1, <2>2, Upward
  <2> QED BY <2>3
<1>10. \A j \in 0..K : PT(a + j) = a + PK(j)
  <2> DEFINE S == {j \in 0..K : PT(a + j) = a + PK(j)}
  <2>1. 0 \in S
    <3>1. a \in 0..a /\ a + 0 = a /\ 0 \in 0..K
      BY <1>1
    <3> QED BY <1>5, <1>9, <3>1
  <2>2. ASSUME NEW j \in 1..K, j - 1 \in S PROVE j \in S
    <3> DEFINE h == a + j
               l == a + (j - 1)
    <3>1. h \in 1..N /\ h - 1 = l /\ k[j] = t[h] /\ j \in 0..K /\ j - 1 \in 0..K
      BY <1>1, <1>2
    <3> HIDE DEF h
    <3>2. PT(h) = PT(h - 1) + UnitsOf(t[h], TRUE)
      BY <1>3, <3>1
    <3>3. PT(l) = a + PK(j - 1)
      BY <2>2
    <3>4. PK(j) = PK(j - 1) + UnitsOf(t[h], TRUE)
      BY <1>4, <3>1
    <3> HIDE DEF l
    <3> DEFINE p == PK(j - 1)
               u == UnitsOf(t[h], TRUE)
    <3>5. p \in Nat /\ u \in Nat
      <4>1. u \in Nat
        BY DEF UnitsOf
      <4>2. p \in Nat
        BY <1>8, <3>1
      <4> QED BY <4>1, <4>2
    <3>6. PT(h) = (a + p) + u /\ PK(j) = p + u
      BY <3>1, <3>2, <3>3, <3>4
    <3> HIDE DEF p, u
    <3>7. PT(h) = a + PK(j)
      BY <1>1, <3>5, <3>6
    <3> QED BY <3>1, <3>7 DEF h
  <2>3. \A j \in 0..K : j \in S
    <3> HIDE DEF S
    <3> QED BY <1>1, <2>1, <2>2, Upward
  <2> QED BY <2>3
<1>11. ASSUME NEW i \in 1..K PROVE PK(i - 1) < PK(K)
  <2> DEFINE S == {j \in 0..K : j >= i => PK(i - 1) < PK(j)}
  <2>0. i - 1 \in 0..K /\ PK(i - 1) \in Nat /\ i \in Nat
    BY <1>1, <1>8
  <2>1. 0 \in S
    BY <1>1
  <2>2. ASSUME NEW j \in 1..K, j - 1 \in S PROVE j \in S
    <3>1. j - 1 \in 0..K /\ j \in 0..K /\ PK(j - 1) \in Nat /\ PK(j) \in Nat
      BY <1>1, <1>8
    <3>2. PK(j - 1) < PK(j)
      <4>1. PK(j) = PK(j - 1) + UnitsOf(k[j], TRUE) /\ UnitsOf(k[j], TRUE) \in 1..2
        <5>1. UnitsOf(k[j], TRUE) \in 1..2
          BY DEF UnitsOf
        <5> QED BY <1>4, <5>1
      <4> DEFINE p == PK(j - 1)
                 q == PK(j)
                 u == UnitsOf(k[j], TRUE)
      <4>2. p \in Nat /\ q \in Nat /\ q = p + u /\ u \in 1..2
        BY <3>1, <4>1
      <4> HIDE DEF p, q, u
      <4>3. p < q
        BY <4>2
      <4> QED BY <4>3 DEF p, q
    <3>3. ASSUME j >= i PROVE PK(i - 1) < PK(j)
      <4>1. CASE j = i
        BY <3>2, <4>1
      <4>2. CASE j # i
        <5>1. j - 1 >= i
          BY <2>0, <3>3, <4>2
        <5>2. PK(i - 1) < PK(j - 1)
          BY <2>2, <5>1
        <5> QED BY <2>0, <3>1, <3>2, <5>2
      <4> QED BY <4>1, <4>2
    <3> QED BY <3>1, <3>3
  <2>3. \A j \in 0..K : j \in S
    <3> HIDE DEF S
    <3> QED BY <1>1, <2>1, <2>2, Upward
  <2>4. K \in 0..K /\ K >= i
    BY <1>1
  <2> QED BY <2>3, <2>4
<1> QED BY <1>7, <1>8, <1>10, <1>11 DEF PT, PK, K

(***************************************************************************)
(* An entity marks the same characters when the line ends are stripped     *)
(* (_strip_chunk).                                                         *)
(***************************************************************************)
LEMMA EntitiesDoStay == LayoutInv => EntitiesStay
<1> SUFFICES ASSUME LayoutInv, layoutAsked.kind = "strip" PROVE EntitiesStay
  BY DEF EntitiesStay
<1> DEFINE t == layoutAsked.text
           a == Edge(t)
           N == Len(t)
           b == N - Edge(Reverse(t))
           k == SubSeq(t, a + 1, b)
           U == Units(k, TRUE)
           place(s, i) == Units(SubSeq(s, 1, i - 1), TRUE)
           marked(s, e) == {i \in DOMAIN s : e.from <= place(s, i) /\ place(s, i) < e.to}
           kept == (a + 1)..b
<1>1. t \in Seq(LayoutChars)
  BY DEF LayoutInv
<1>2. PICK from \in Nat, to \in Nat : /\ layoutAsked.entity = [from |-> from, to |-> to]
                                      /\ layoutMade = Stripped(t, [from |-> from, to |-> to])
  BY DEF LayoutInv
<1> DEFINE early == IF from < a THEN 0 ELSE from - a
           late == IF to - a > U THEN U ELSE to - a
           begin == IF early >= late THEN 0 ELSE early
           end == IF early >= late THEN 0 ELSE late
<1>3. layoutMade = [text |-> k, entity |-> IF early >= late THEN [from |-> 0, to |-> 0]
                                           ELSE [from |-> early, to |-> late]]
  BY <1>2 DEF Stripped
<1>4. layoutMade.text = k /\ layoutMade.entity.from = begin /\ layoutMade.entity.to = end
  BY <1>3
<1>5. layoutAsked.entity.from = from /\ layoutAsked.entity.to = to
  BY <1>2
<1>6. SUFFICES {i + a : i \in marked(layoutMade.text, layoutMade.entity)} = marked(t, layoutAsked.entity) \cap kept
  <2> HIDE DEF marked
  <2>1. {i + a : i \in marked(layoutMade.text, layoutMade.entity)} = marked(t, layoutAsked.entity) \cap kept
    BY <1>6
  <2> QED BY <2>1 DEF EntitiesStay, marked
<1>7. a \in 0..N /\ N \in Nat /\ \A i \in 1..a : t[i] = "n"
  BY <1>1, EdgeIs
<1>8. b \in 0..N /\ (a <= b \/ k = <<>>)
  <2>1. LET c == Len(t) - Edge(Reverse(t)) IN c \in 0..Len(t) /\ (Edge(t) <= c \/ SubSeq(t, Edge(t) + 1, c) = <<>>)
    BY <1>1, EdgesAre
  <2> QED BY <2>1
<1>9. DOMAIN t = 1..N
  BY <1>1
<1> HIDE DEF a, b, N, t
<1>10. CASE a <= b
  <2> DEFINE K == b - a
  <2>1. b \in a..Len(t) /\ a \in 0..Len(t) /\ k = From(t, a, b) /\ K \in Nat
    BY <1>7, <1>8, <1>10 DEF From, N
  <2>2. DOMAIN k = 1..K
    <3>1. k \in Seq(LayoutChars) /\ Len(k) = b - a
      <4> HIDE DEF k
      <4> QED BY <1>1, <2>1, FromIs
    <3> HIDE DEF k
    <3> QED BY <2>1, <3>1
  <2> HIDE DEF k
  <2>3. /\ \A j \in 0..(b - a) : Units(From(k, 0, j), TRUE) \in Nat
        /\ \A j \in 0..(b - a) : Units(From(t, 0, a + j), TRUE) = a + Units(From(k, 0, j), TRUE)
        /\ \A j \in 1..(b - a) : Units(From(k, 0, j - 1), TRUE) < Units(k, TRUE)
    BY <1>1, <1>7, <2>1, PlacesMove DEF N
  <2>4. U \in Nat
    <3>1. k \in Seq(LayoutChars)
      BY <1>1, <2>1, FromIs
    <3> QED BY <3>1, UnitsAre
  <2>5. ASSUME NEW i \in 1..K
        PROVE  /\ place(k, i) \in Nat /\ place(k, i) < U /\ place(t, i + a) = a + place(k, i)
    <3> DEFINE j == i - 1
               h == (i + a) - 1
    <3>1. j \in 0..(b - a) /\ h = a + j
      BY <1>7, <2>1
    <3>2. place(k, i) = Units(From(k, 0, j), TRUE)
      BY DEF From
    <3>3. place(t, i + a) = Units(From(t, 0, h), TRUE)
      BY DEF From
    <3> HIDE DEF j, h, place, U
    <3>4. Units(From(k, 0, j), TRUE) \in Nat /\ Units(From(t, 0, a + j), TRUE) = a + Units(From(k, 0, j), TRUE)
      BY <2>3, <3>1
    <3>5. Units(From(k, 0, j), TRUE) < U
      BY <2>3 DEF j, U
    <3> QED BY <3>1, <3>2, <3>3, <3>4, <3>5
  <2> HIDE DEF place, U
  <2>6. ASSUME NEW i \in 1..K
        PROVE  begin <= place(k, i) /\ place(k, i) < end <=> from <= place(t, i + a) /\ place(t, i + a) < to
    <3> DEFINE p == place(k, i)
               q == place(t, i + a)
    <3>1. p \in Nat /\ p < U /\ q = a + p /\ a \in Nat
      BY <1>7, <2>5
    <3> HIDE DEF p, q
    <3>2. begin <= p /\ p < end <=> from <= q /\ q < to
      BY <2>4, <3>1
    <3> QED BY <3>2 DEF p, q
  <2>7. \A i \in 1..K : i + a \in 1..N /\ i + a \in kept
    BY <1>7, <1>8, <1>10
  <2>8. \A j \in kept : \E i \in 1..K : j = i + a
    <3> SUFFICES ASSUME NEW j \in kept PROVE \E i \in 1..K : j = i + a
      OBVIOUS
    <3>1. j - a \in 1..K /\ j = (j - a) + a
      BY <1>7, <1>8
    <3> QED BY <3>1
  <2> DEFINE M == {i \in 1..K : begin <= place(k, i) /\ place(k, i) < end}
             T == {i \in 1..N : from <= place(t, i) /\ place(t, i) < to}
  <2>9. marked(layoutMade.text, layoutMade.entity) = M /\ marked(t, layoutAsked.entity) = T
    <3> HIDE DEF begin, end
    <3> QED BY <1>4, <1>5, <1>9, <2>2
  <2>10. \A i \in 1..K : i \in M <=> i + a \in T
    <3> HIDE DEF begin, end
    <3> QED BY <2>6, <2>7
  <2>11. M \subseteq 1..K
    OBVIOUS
  <2> HIDE DEF M, T, K, kept, marked
  <2>12. {i + a : i \in M} = T \cap kept
    <3>1. \A i \in M : i + a \in T \cap kept
      BY <2>7, <2>10, <2>11
    <3>2. ASSUME NEW j \in T \cap kept PROVE j \in {i + a : i \in M}
      <4>1. PICK i \in 1..K : j = i + a
        BY <2>8
      <4>2. i \in M
        BY <2>10, <4>1
      <4> QED BY <4>1, <4>2
    <3> QED BY <3>1, <3>2
  <2> QED BY <2>9, <2>12
<1>11. CASE ~(a <= b)
  <2>1. k = <<>>
    BY <1>8, <1>11
  <2> HIDE DEF k
  <2>2. DOMAIN k = {}
    BY <2>1
  <2>3. marked(layoutMade.text, layoutMade.entity) = {}
    <3> HIDE DEF begin, end, place
    <3> QED BY <1>4, <2>2
  <2>4. kept = {}
    BY <1>7, <1>8, <1>11
  <2> HIDE DEF marked, kept
  <2> QED BY <2>3, <2>4
<1> QED BY <1>10, <1>11

-----------------------------------------------------------------------------
(* TelegramText: Layout                                                     *)

\* One text more is put after the others.
LEMMA FlattenMore ==
  ASSUME NEW X, NEW s \in Seq(Seq(X)), NEW x \in Seq(X)
  PROVE  FlattenSeq(Append(s, x)) = FlattenSeq(s) \o x
<1> DEFINE n == Len(s)
           m == n + 1
           l == Append(s, x)
<1>1. n \in Nat /\ m \in Nat /\ m - 1 = n
  OBVIOUS
<1>2. l \in Seq(Seq(X)) /\ Len(l) = m /\ l[m] = x /\ \A k \in 1..n : l[k] = s[k]
  BY AppendProperties
<1>3. PICK up \in [0..n -> Seq(X)] :
            up[0] = <<>> /\ (\A i \in 1..n : up[i] = up[i - 1] \o s[i]) /\ FlattenSeq(s) = up[n]
  BY FlattenUp
<1> HIDE DEF l
<1>4. PICK on \in [0..m -> Seq(X)] :
            on[0] = <<>> /\ (\A i \in 1..m : on[i] = on[i - 1] \o l[i]) /\ FlattenSeq(l) = on[m]
  <2>1. \E on \in [0..Len(l) -> Seq(X)] :
            /\ on[0] = <<>> /\ \A i \in 1..Len(l) : on[i] = on[i - 1] \o l[i]
            /\ FlattenSeq(l) = on[Len(l)]
    BY <1>2, FlattenUp
  <2> QED BY <1>2, <2>1
<1> HIDE DEF n, m
<1> DEFINE S == {i \in 0..n : up[i] = on[i]}
<1>5. 0 \in S
  BY <1>1, <1>3, <1>4
<1>6. ASSUME NEW i \in 1..n, i - 1 \in S PROVE i \in S
  <2>1. i \in 1..m /\ i \in 0..n /\ up[i - 1] = on[i - 1]
    BY <1>1, <1>6
  <2>2. up[i] = up[i - 1] \o s[i] /\ on[i] = on[i - 1] \o l[i] /\ l[i] = s[i]
    BY <1>2, <1>3, <1>4, <2>1
  <2> QED BY <2>1, <2>2
<1>7. \A i \in 0..n : i \in S
  <2> HIDE DEF S
  <2> QED BY <1>1, <1>5, <1>6, Upward
<1>8. n \in 0..n /\ m \in 1..m
  BY <1>1 DEF m
<1>9. up[n] = on[n] /\ on[m] = on[n] \o x
  BY <1>1, <1>2, <1>4, <1>7, <1>8
<1> QED BY <1>3, <1>4, <1>9 DEF l

\* The rows on a page, one part after the other.
PartKinds == {"none", "gap", "quote", "code", "text", "heading", "item"}
PageParts == Seq([kind : PartKinds, rows : Seq(Nat)])
RowsOf(parts) == [k \in DOMAIN parts |-> parts[k].rows]
RowsShown(parts) == FlattenSeq(RowsOf(parts))

\* A part more shows its rows after the others.
LEMMA ShownIs ==
  ASSUME NEW parts \in PageParts, NEW kind \in PartKinds, NEW rows \in Seq(Nat)
  PROVE  /\ RowsShown(parts) \in Seq(Nat) /\ RowsShown(<<>>) = <<>>
         /\ Append(parts, [kind |-> kind, rows |-> rows]) \in PageParts
         /\ RowsShown(Append(parts, [kind |-> kind, rows |-> rows])) = RowsShown(parts) \o rows
<1> DEFINE part == [kind |-> kind, rows |-> rows]
           more == Append(parts, part)
           n == Len(parts)
           s == RowsOf(parts)
<1>1. part \in [kind : PartKinds, rows : Seq(Nat)] /\ part.rows = rows
  OBVIOUS
<1> HIDE DEF part
<1>2. /\ parts \in Seq([kind : PartKinds, rows : Seq(Nat)]) /\ n \in Nat /\ DOMAIN parts = 1..n
      /\ \A k \in 1..n : parts[k].rows \in Seq(Nat)
  <2>1. parts \in Seq([kind : PartKinds, rows : Seq(Nat)])
    BY DEF PageParts
  <2>2. \A k \in 1..n : parts[k] \in [kind : PartKinds, rows : Seq(Nat)]
    BY <2>1, ElementOfSeq
  <2>3. n \in Nat /\ DOMAIN parts = 1..n
    BY <2>1
  <2>4. \A k \in 1..n : parts[k].rows \in Seq(Nat)
    BY <2>2
  <2> QED BY <2>1, <2>3, <2>4
<1>3. s \in Seq(Seq(Nat)) /\ Len(s) = n /\ \A k \in 1..n : s[k] = parts[k].rows
  <2>1. s = [k \in 1..n |-> parts[k].rows]
    BY <1>2 DEF RowsOf
  <2>2. s \in [1..n -> Seq(Nat)]
    BY <1>2, <2>1
  <2> HIDE DEF s, n
  <2> QED BY <1>2, <2>1, <2>2
<1>4. more \in PageParts /\ Len(more) = n + 1 /\ more[n + 1] = part /\ \A k \in 1..n : more[k] = parts[k]
  BY <1>1, <1>2, AppendProperties DEF PageParts
<1>5. RowsOf(more) = Append(s, rows)
  <2> DEFINE x == RowsOf(more)
             y == Append(s, rows)
             m == n + 1
  <2>1. y \in Seq(Seq(Nat)) /\ Len(y) = m /\ y[m] = rows /\ \A k \in 1..n : y[k] = s[k]
    <3> HIDE DEF s
    <3> QED BY <1>3, AppendProperties
  <2>2. DOMAIN more = 1..m /\ m \in Nat
    BY <1>2, <1>4 DEF PageParts
  <2>3. x = [k \in 1..m |-> more[k].rows]
    BY <2>2 DEF RowsOf
  <2> HIDE DEF s, more, y
  <2>4. \A k \in 1..m : more[k].rows = y[k]
    <3>1. ASSUME NEW k \in 1..m PROVE more[k].rows = y[k]
      <4>1. k = m \/ k \in 1..n
        BY <1>2
      <4> HIDE DEF m, n
      <4>2. CASE k = m
        BY <1>1, <1>4, <2>1, <4>2 DEF m
      <4>3. CASE k \in 1..n
        BY <1>3, <1>4, <2>1, <4>3
      <4> QED BY <4>1, <4>2, <4>3
    <3> QED BY <3>1
  <2>5. y = [k \in 1..m |-> y[k]]
    BY <2>1
  <2> HIDE DEF m
  <2> QED BY <2>3, <2>4, <2>5 DEF y, s
<1>6. RowsShown(more) = RowsShown(parts) \o rows
  <2>1. FlattenSeq(Append(s, rows)) = FlattenSeq(s) \o rows
    <3> HIDE DEF s
    <3> QED BY <1>3, FlattenMore
  <2> QED BY <1>5, <2>1 DEF RowsShown
<1>7. RowsShown(parts) \in Seq(Nat)
  <2> HIDE DEF s
  <2>1. FlattenSeq(s) \in Seq(Nat)
    BY <1>3, FlattenType
  <2> QED BY <2>1 DEF RowsShown, s
<1>8. RowsShown(<<>>) = <<>>
  <2>1. RowsOf(<<>>) = <<>>
    BY DEF RowsOf
  <2>2. FlattenSeq(<<>>) = <<>>
    BY DEF FlattenSeq
  <2> QED BY <2>1, <2>2 DEF RowsShown
<1> QED BY <1>4, <1>6, <1>7, <1>8 DEF part

\* A page that is being laid out, when K is what each row is to be: its parts are of
\* their rows' kinds, no gap is first, last or next to another, and what waits is
\* within a fence or a quote.
Pages == [parts : PageParts, before : PartKinds, blank : BOOLEAN, fenced : BOOLEAN,
          code : Seq(Nat), quote : Seq(Nat)]
RightParts(K) ==
    {parts \in PageParts : \A k \in 1..Len(parts) : \A j \in 1..Len(parts[k].rows) :
                                parts[k].kind = K[parts[k].rows[j]]}
GapAt(parts, k) ==
    k \in 2..(Len(parts) - 1) /\ parts[k - 1].kind \in Spaced /\ parts[k + 1].kind \in Spaced
GapsBetween ==
    {parts \in PageParts : \A k \in 1..Len(parts) : parts[k].kind = "gap" => GapAt(parts, k)}
WellLaid(K) ==
    {p \in Pages :
        /\ p.parts \in RightParts(K) /\ p.parts \in GapsBetween
        /\ p.before # "gap" /\ (p.parts # <<>> => p.parts[Len(p.parts)].kind = p.before)
        /\ (p.fenced => p.quote = <<>>) /\ (~p.fenced => p.code = <<>>)
        /\ \A j \in 1..Len(p.code) : K[p.code[j]] = "code"
        /\ \A j \in 1..Len(p.quote) : K[p.quote[j]] = "quote"}

\* What is to be seen of each gap.
LEMMA GapsAre ==
  ASSUME NEW parts \in PageParts, \A k \in 1..Len(parts) : parts[k].kind = "gap" => GapAt(parts, k)
  PROVE  parts \in GapsBetween
BY DEF GapsBetween

\* The parts of a page and a part more, with a gap before it or without.
Added(parts, gap, kind, rows) ==
    parts \o (IF gap THEN <<Gap>> ELSE <<>>) \o <<[kind |-> kind, rows |-> rows]>>

\* It is still a page of right parts, and its last row is the last of the new part.
LEMMA PartsMore ==
  ASSUME NEW K, NEW parts \in RightParts(K), parts \in GapsBetween,
         NEW kind \in PartKinds \ {"gap"}, NEW rows \in Seq(Nat), \A j \in 1..Len(rows) : K[rows[j]] = kind,
         NEW gap \in BOOLEAN, gap => parts # <<>> /\ parts[Len(parts)].kind \in Spaced /\ kind \in Spaced
  PROVE  /\ Added(parts, gap, kind, rows) \in PageParts
         /\ Added(parts, gap, kind, rows) \in RightParts(K) /\ Added(parts, gap, kind, rows) \in GapsBetween
         /\ Added(parts, gap, kind, rows) # <<>>
         /\ Added(parts, gap, kind, rows)[Len(Added(parts, gap, kind, rows))].kind = kind
         /\ RowsShown(Added(parts, gap, kind, rows)) = RowsShown(parts) \o rows
<1>a. PICK new : new = Added(parts, gap, kind, rows)
  OBVIOUS
<1>0. new = parts \o (IF gap THEN <<Gap>> ELSE <<>>) \o <<[kind |-> kind, rows |-> rows]>>
  BY <1>a DEF Added
<1> DEFINE P == [kind : PartKinds, rows : Seq(Nat)]
           n == Len(parts)
           part == [kind |-> kind, rows |-> rows]
<1>1. /\ parts \in PageParts
      /\ \A k \in 1..n : \A j \in 1..Len(parts[k].rows) : parts[k].kind = K[parts[k].rows[j]]
      /\ \A k \in 1..n : parts[k].kind = "gap" =>
            k \in 2..(n - 1) /\ parts[k - 1].kind \in Spaced /\ parts[k + 1].kind \in Spaced
  BY DEF RightParts, GapsBetween, GapAt
<1>2. parts \in Seq(P) /\ n \in Nat /\ (parts # <<>> => n >= 1)
  BY <1>1 DEF PageParts
<1>3. /\ part \in P /\ part.kind = kind /\ part.rows = rows /\ Gap \in P /\ Gap.kind = "gap" /\ Gap.rows = <<>>
      /\ kind \in PartKinds
  <2>1. part \in P /\ part.kind = kind /\ part.rows = rows /\ kind \in PartKinds
    OBVIOUS
  <2>2. "gap" \in PartKinds /\ <<>> \in Seq(Nat)
    <3>1. "gap" \in PartKinds
      BY DEF PartKinds
    <3>2. <<>> \in Seq(Nat)
      OBVIOUS
    <3> QED BY <3>1, <3>2
  <2>3. Gap \in P /\ Gap.kind = "gap" /\ Gap.rows = <<>>
    BY <2>2 DEF Gap
  <2> QED BY <2>1, <2>3
<1>4. kind # "gap" /\ Len(<<>>) = 0 /\ 1..0 = {}
  OBVIOUS
<1>5. CASE ~gap
  <2> DEFINE m == n + 1
  <2>1. new = Append(parts, part)
    <3>1. new = (parts \o <<>>) \o <<part>>
      BY <1>0, <1>5
    <3> HIDE DEF part, P
    <3>2. parts \o <<>> = parts /\ parts \o <<part>> = Append(parts, part)
      BY <1>2, <1>3
    <3> QED BY <3>1, <3>2
  <2>2. /\ new \in Seq(P) /\ Len(new) = m /\ new[m] = part /\ \A k \in 1..n : new[k] = parts[k]
    <3> DEFINE more == Append(parts, part)
    <3> HIDE DEF P
    <3>1. more \in Seq(P) /\ Len(more) = n + 1 /\ more[n + 1] = part /\ \A k \in 1..n : more[k] = parts[k]
      <4> HIDE DEF part
      <4> QED BY <1>2, <1>3, AppendProperties
    <3>2. new = more
      BY <2>1
    <3> HIDE DEF more
    <3> QED BY <3>1, <3>2
  <2>3. RowsShown(new) = RowsShown(parts) \o rows
    <3>1. RowsShown(Append(parts, [kind |-> kind, rows |-> rows])) = RowsShown(parts) \o rows
      BY <1>1, <1>3, ShownIs
    <3> QED BY <2>1, <3>1
  <2>4. m \in Nat /\ m \in 1..m /\ \A k \in 1..m : k = m \/ k \in 1..n
    BY <1>2
  <2> HIDE DEF part, P
  <2>5. \A k \in 1..m : \A j \in 1..Len(new[k].rows) : new[k].kind = K[new[k].rows[j]]
    <3>1. ASSUME NEW k \in 1..m, NEW j \in 1..Len(new[k].rows) PROVE new[k].kind = K[new[k].rows[j]]
      <4> HIDE DEF m, n
      <4>1. CASE k = m
        BY <1>3, <2>2, <3>1, <4>1
      <4>2. CASE k \in 1..n
        BY <1>1, <2>2, <3>1, <4>2
      <4> QED BY <2>4, <4>1, <4>2
    <3> QED BY <3>1
  <2>6. ASSUME NEW k \in 1..m, new[k].kind = "gap"
        PROVE k \in 2..(m - 1) /\ new[k - 1].kind \in Spaced /\ new[k + 1].kind \in Spaced
    <3>1. k # m
      BY <1>3, <1>4, <2>2, <2>6
    <3>2. k \in 1..n /\ parts[k].kind = "gap"
      BY <2>2, <2>4, <2>6, <3>1
    <3>3. k \in 2..(n - 1) /\ parts[k - 1].kind \in Spaced /\ parts[k + 1].kind \in Spaced
      BY <1>1, <3>2
    <3>4. k \in 2..(m - 1) /\ k - 1 \in 1..n /\ k + 1 \in 1..n
      BY <1>2, <3>3
    <3>5. new[k - 1] = parts[k - 1] /\ new[k + 1] = parts[k + 1]
      BY <2>2, <3>4
    <3> QED BY <3>3, <3>4, <3>5
  <2>7. new \in PageParts /\ new # <<>> /\ new[Len(new)].kind = kind
    BY <1>3, <2>2, <2>4 DEF PageParts, P
  <2> HIDE DEF m
  <2>8. new \in RightParts(K)
    BY <2>2, <2>5, <2>7 DEF RightParts
  <2>9. new \in GapsBetween
    <3>1. \A k \in 1..Len(new) : new[k].kind = "gap" => GapAt(new, k)
      BY <2>2, <2>6 DEF GapAt
    <3> QED BY <2>7, <3>1, GapsAre
  <2> QED BY <1>a, <2>3, <2>7, <2>8, <2>9
<1>6. CASE gap
  <2> DEFINE l == n + 1
             m == l + 1
             mid == Append(parts, Gap)
  <2>1. new = Append(mid, part)
    <3>1. new = (parts \o <<Gap>>) \o <<part>>
      BY <1>0, <1>6
    <3>2. mid \in Seq(P) /\ parts \o <<Gap>> = mid
      <4> HIDE DEF part, P
      <4> QED BY <1>2, <1>3
    <3> HIDE DEF part, P, mid
    <3>3. mid \o <<part>> = Append(mid, part)
      BY <1>3, <3>2
    <3> QED BY <3>1, <3>2, <3>3
  <2>2. mid \in Seq(P) /\ Len(mid) = l /\ mid[l] = Gap /\ \A k \in 1..n : mid[k] = parts[k]
    <3> HIDE DEF P
    <3> QED BY <1>2, <1>3, AppendProperties
  <2>3. RowsShown(mid) = RowsShown(parts) \o <<>> /\ RowsShown(parts) \in Seq(Nat)
    <3>1. "gap" \in PartKinds /\ <<>> \in Seq(Nat)
      <4>1. "gap" \in PartKinds
        BY DEF PartKinds
      <4>2. <<>> \in Seq(Nat)
        OBVIOUS
      <4> QED BY <4>1, <4>2
    <3>2. /\ RowsShown(Append(parts, [kind |-> "gap", rows |-> <<>>])) = RowsShown(parts) \o <<>>
          /\ RowsShown(parts) \in Seq(Nat)
      BY <1>1, <3>1, ShownIs
    <3> QED BY <3>2 DEF Gap
  <2>4. RowsShown(new) = RowsShown(parts) \o rows
    <3>1. mid \in PageParts
      BY <2>2 DEF PageParts
    <3> HIDE DEF mid
    <3>2. RowsShown(new) = RowsShown(mid) \o rows
      BY <2>1, <3>1, ShownIs
    <3>3. RowsShown(mid) = RowsShown(parts)
      BY <2>3
    <3> QED BY <3>2, <3>3
  <2> HIDE DEF mid
  <2>5. /\ new \in Seq(P) /\ Len(new) = m /\ new[m] = part /\ new[l] = Gap /\ \A k \in 1..n : new[k] = parts[k]
    <3>1. /\ new \in Seq(P) /\ Len(new) = l + 1 /\ new[l + 1] = part /\ \A k \in 1..l : new[k] = mid[k]
      <4> DEFINE more == Append(mid, part)
      <4> HIDE DEF P, l
      <4>1. more \in Seq(P) /\ Len(more) = l + 1 /\ more[l + 1] = part /\ \A k \in 1..l : more[k] = mid[k]
        <5> HIDE DEF part
        <5> QED BY <1>3, <2>2, AppendProperties
      <4>2. new = more
        BY <2>1
      <4> HIDE DEF more, part
      <4> QED BY <4>1, <4>2
    <3>2. l \in 1..l /\ \A k \in 1..n : k \in 1..l
      BY <1>2
    <3> HIDE DEF l, P, part
    <3> QED BY <2>2, <3>1, <3>2
  <2>6. m \in Nat /\ m \in 1..m /\ l \in 1..m /\ l # m /\ \A k \in 1..m : k = m \/ k = l \/ k \in 1..n
    <3>1. n \in Nat
      BY <1>2
    <3> HIDE DEF n
    <3> QED BY <3>1
  <2> HIDE DEF part, P
  <2>7. \A k \in 1..m : \A j \in 1..Len(new[k].rows) : new[k].kind = K[new[k].rows[j]]
    <3>1. ASSUME NEW k \in 1..m, NEW j \in 1..Len(new[k].rows) PROVE new[k].kind = K[new[k].rows[j]]
      <4> HIDE DEF m, n, l
      <4>1. CASE k = m
        BY <1>3, <2>5, <3>1, <4>1
      <4>2. CASE k \in 1..n
        BY <1>1, <2>5, <3>1, <4>2
      <4>3. CASE k = l
        BY <1>3, <1>4, <2>5, <3>1, <4>3
      <4> QED BY <2>6, <4>1, <4>2, <4>3
    <3> QED BY <3>1
  <2>8. ASSUME NEW k \in 1..m, new[k].kind = "gap"
        PROVE k \in 2..(m - 1) /\ new[k - 1].kind \in Spaced /\ new[k + 1].kind \in Spaced
    <3>1. k # m
      BY <1>3, <1>4, <2>5, <2>8
    <3>2. CASE k \in 1..n
      <4>1. parts[k].kind = "gap"
        BY <2>5, <2>8, <3>2
      <4>2. k \in 2..(n - 1) /\ parts[k - 1].kind \in Spaced /\ parts[k + 1].kind \in Spaced
        BY <1>1, <3>2, <4>1
      <4>3. k \in 2..(m - 1) /\ k - 1 \in 1..n /\ k + 1 \in 1..n
        BY <1>2, <4>2
      <4>4. new[k - 1] = parts[k - 1] /\ new[k + 1] = parts[k + 1]
        BY <2>5, <4>3
      <4> QED BY <4>2, <4>3, <4>4
    <3>3. CASE k = l
      <4>1. n >= 1 /\ parts # <<>>
        BY <1>2, <1>6
      <4>2. k \in 2..(m - 1) /\ k - 1 = n /\ k + 1 = m /\ n \in 1..n
        BY <1>2, <3>3, <4>1
      <4>3. new[n] = parts[n] /\ new[m] = part
        BY <2>5, <4>2
      <4>4. parts[n].kind \in Spaced /\ part.kind \in Spaced
        BY <1>3, <1>6, <4>1
      <4> HIDE DEF m, n
      <4> QED BY <4>2, <4>3, <4>4
    <3> QED BY <2>6, <3>1, <3>2, <3>3
  <2>9. new \in PageParts /\ new # <<>> /\ new[Len(new)].kind = kind
    BY <1>3, <2>5, <2>6 DEF PageParts, P
  <2> HIDE DEF m
  <2>10. new \in RightParts(K)
    BY <2>5, <2>7, <2>9 DEF RightParts
  <2>11. new \in GapsBetween
    <3>1. \A k \in 1..Len(new) : new[k].kind = "gap" => GapAt(new, k)
      BY <2>5, <2>8 DEF GapAt
    <3> QED BY <2>9, <3>1, GapsAre
  <2> QED BY <1>a, <2>4, <2>9, <2>10, <2>11
<1> QED BY <1>5, <1>6, <1>a

\* All rows of a page, with those that wait.
AllOf(p) == (RowsShown(p.parts) \o p.quote) \o p.code

\* What a well laid page is, field by field.
LEMMA WellLaidIs ==
  ASSUME NEW K, NEW p \in WellLaid(K)
  PROVE  /\ p \in Pages /\ p.parts \in PageParts /\ p.before \in PartKinds /\ p.blank \in BOOLEAN
         /\ p.fenced \in BOOLEAN /\ p.code \in Seq(Nat) /\ p.quote \in Seq(Nat)
         /\ p.parts \in RightParts(K) /\ p.parts \in GapsBetween
         /\ p.before # "gap" /\ (p.parts # <<>> => p.parts[Len(p.parts)].kind = p.before)
         /\ (p.fenced => p.quote = <<>>) /\ (~p.fenced => p.code = <<>>)
         /\ \A j \in 1..Len(p.code) : K[p.code[j]] = "code"
         /\ \A j \in 1..Len(p.quote) : K[p.quote[j]] = "quote"
         /\ RowsShown(p.parts) \in Seq(Nat)
<1>1. p \in Pages
  BY DEF WellLaid
<1>2. /\ p.parts \in PageParts /\ p.before \in PartKinds /\ p.blank \in BOOLEAN
      /\ p.fenced \in BOOLEAN /\ p.code \in Seq(Nat) /\ p.quote \in Seq(Nat)
  BY <1>1 DEF Pages
<1>3. RowsShown(p.parts) \in Seq(Nat)
  <2>1. "none" \in PartKinds
    BY DEF PartKinds
  <2>2. <<>> \in Seq(Nat)
    OBVIOUS
  <2> QED BY <1>2, <2>1, <2>2, ShownIs
<1> QED BY <1>1, <1>2, <1>3 DEF WellLaid

\* A part more: what waits still waits.
LEMMA WithPartIs ==
  ASSUME NEW K, NEW p \in WellLaid(K), NEW kind \in PartKinds \ {"gap"}, NEW rows \in Seq(Nat),
         \A j \in 1..Len(rows) : K[rows[j]] = kind
  PROVE  /\ WithPart(p, kind, rows).parts \in PageParts
         /\ WithPart(p, kind, rows).parts \in RightParts(K) /\ WithPart(p, kind, rows).parts \in GapsBetween
         /\ WithPart(p, kind, rows).parts # <<>>
         /\ WithPart(p, kind, rows).parts[Len(WithPart(p, kind, rows).parts)].kind = kind
         /\ RowsShown(WithPart(p, kind, rows).parts) = RowsShown(p.parts) \o rows
         /\ WithPart(p, kind, rows) = [parts |-> WithPart(p, kind, rows).parts, before |-> kind, blank |-> FALSE,
                                       fenced |-> p.fenced, code |-> p.code, quote |-> p.quote]
<1> DEFINE gap == p.parts # <<>> /\ p.blank /\ {p.before, kind} \subseteq Spaced
           new == Added(p.parts, gap, kind, rows)
           q == WithPart(p, kind, rows)
<1>1. /\ p \in Pages /\ p.parts \in RightParts(K) /\ p.parts \in GapsBetween /\ p.before # "gap"
      /\ p.parts # <<>> => p.parts[Len(p.parts)].kind = p.before
  BY WellLaidIs
<1>2. gap \in BOOLEAN /\ (gap => p.parts # <<>> /\ p.before \in Spaced /\ kind \in Spaced)
  <2>1. p.blank \in BOOLEAN
    BY WellLaidIs
  <2> QED BY <2>1
<1>3. q = [p EXCEPT !.parts = new, !.before = kind, !.blank = FALSE]
  BY DEF WithPart, Added
<1>4. /\ q.parts = new
      /\ q = [parts |-> new, before |-> kind, blank |-> FALSE, fenced |-> p.fenced, code |-> p.code, quote |-> p.quote]
  <2> HIDE DEF new, q, gap
  <2>1. q = [parts |-> new, before |-> kind, blank |-> FALSE, fenced |-> p.fenced, code |-> p.code, quote |-> p.quote]
    BY <1>1, <1>3 DEF Pages
  <2> QED BY <2>1
<1>a. PICK parts, before : parts = p.parts /\ before = p.before
  OBVIOUS
<1>b. PICK g \in BOOLEAN : g = gap
  BY <1>2
<1> HIDE DEF gap
<1>5. /\ new \in PageParts /\ new \in RightParts(K) /\ new \in GapsBetween
      /\ new # <<>> /\ new[Len(new)].kind = kind /\ RowsShown(new) = RowsShown(parts) \o rows
  <2>1. /\ parts \in RightParts(K) /\ parts \in GapsBetween /\ before # "gap"
        /\ parts # <<>> => parts[Len(parts)].kind = before
        /\ g \in BOOLEAN /\ (g => parts # <<>> /\ before \in Spaced /\ kind \in Spaced)
    BY <1>1, <1>2, <1>a, <1>b
  <2>2. /\ Added(parts, g, kind, rows) \in PageParts
        /\ Added(parts, g, kind, rows) \in RightParts(K) /\ Added(parts, g, kind, rows) \in GapsBetween
        /\ Added(parts, g, kind, rows) # <<>>
        /\ Added(parts, g, kind, rows)[Len(Added(parts, g, kind, rows))].kind = kind
        /\ RowsShown(Added(parts, g, kind, rows)) = RowsShown(parts) \o rows
    <3>1. rows \in Seq(Nat) /\ \A j \in 1..Len(rows) : K[rows[j]] = kind
      OBVIOUS
    <3>2. kind \in PartKinds \ {"gap"}
      OBVIOUS
    <3>3. /\ parts \in RightParts(K) /\ parts \in GapsBetween
          /\ g \in BOOLEAN /\ (g => parts # <<>> /\ parts[Len(parts)].kind \in Spaced /\ kind \in Spaced)
      BY <2>1
    <3> HIDE DEF new, q
    <3> QED BY <3>1, <3>2, <3>3, PartsMore, SMT
  <2> QED BY <1>a, <1>b, <2>2
<1> HIDE DEF new, q
<1> QED BY <1>4, <1>5, <1>a DEF q

\* The quote that waits becomes a part.
LEMMA UnquotedIs ==
  ASSUME NEW K, NEW p \in WellLaid(K)
  PROVE  /\ Unquoted(p) \in WellLaid(K) /\ Unquoted(p).quote = <<>> /\ Unquoted(p).code = p.code
         /\ Unquoted(p).fenced = p.fenced /\ AllOf(Unquoted(p)) = AllOf(p)
<1> DEFINE u == Unquoted(p)
           w == WithPart(p, "quote", p.quote)
           quote == p.quote
<1>1. /\ p \in Pages /\ p.parts \in PageParts /\ p.fenced \in BOOLEAN /\ p.code \in Seq(Nat) /\ quote \in Seq(Nat)
      /\ (p.fenced => quote = <<>>) /\ (~p.fenced => p.code = <<>>)
      /\ (\A j \in 1..Len(p.code) : K[p.code[j]] = "code") /\ (\A j \in 1..Len(quote) : K[quote[j]] = "quote")
      /\ RowsShown(p.parts) \in Seq(Nat)
  BY WellLaidIs
<1>2. CASE quote = <<>>
  <2>1. u = p
    BY <1>2 DEF Unquoted
  <2> QED BY <1>2, <2>1
<1>3. CASE quote # <<>>
  <2>1. ~p.fenced /\ p.code = <<>>
    BY <1>1, <1>3
  <2>2. u = [w EXCEPT !.quote = <<>>]
    BY <1>3 DEF Unquoted
  <2>3. "quote" \in PartKinds \ {"gap"}
    BY DEF PartKinds
  <2> DEFINE s == w.parts
  <2> HIDE DEF quote
  <2>4. /\ s \in PageParts /\ s \in RightParts(K) /\ s \in GapsBetween
        /\ s # <<>> /\ s[Len(s)].kind = "quote" /\ RowsShown(s) = RowsShown(p.parts) \o quote
        /\ w = [parts |-> s, before |-> "quote", blank |-> FALSE, fenced |-> p.fenced, code |-> p.code, quote |-> quote]
    <3>1. w = WithPart(p, "quote", quote)
      BY DEF quote
    <3>3. quote \in Seq(Nat) /\ \A j \in 1..Len(quote) : K[quote[j]] = "quote"
      BY <1>1
    <3>2. /\ WithPart(p, "quote", quote).parts \in PageParts
          /\ WithPart(p, "quote", quote).parts \in RightParts(K) /\ WithPart(p, "quote", quote).parts \in GapsBetween
          /\ WithPart(p, "quote", quote).parts # <<>>
          /\ WithPart(p, "quote", quote).parts[Len(WithPart(p, "quote", quote).parts)].kind = "quote"
          /\ RowsShown(WithPart(p, "quote", quote).parts) = RowsShown(p.parts) \o quote
          /\ WithPart(p, "quote", quote) = [parts |-> WithPart(p, "quote", quote).parts, before |-> "quote", blank |-> FALSE,
                                         fenced |-> p.fenced, code |-> p.code, quote |-> p.quote]
      BY <2>3, <3>3, WithPartIs
    <3> HIDE DEF w
    <3> QED BY <3>1, <3>2 DEF quote
  <2> HIDE DEF w, s
  <2>5. u = [parts |-> s, before |-> "quote", blank |-> FALSE, fenced |-> p.fenced, code |-> p.code, quote |-> <<>>]
    BY <2>2, <2>4
  <2> HIDE DEF u
  <2>6. /\ u.parts = s /\ u.before = "quote" /\ u.blank = FALSE /\ u.fenced = p.fenced
        /\ u.code = p.code /\ u.quote = <<>>
    BY <2>5
  <2>7. u \in Pages
    BY <1>1, <2>3, <2>4, <2>5 DEF Pages
  <2>8. u \in WellLaid(K)
    BY <1>1, <2>1, <2>4, <2>6, <2>7 DEF WellLaid
  <2>9. AllOf(u) = AllOf(p)
    <3> DEFINE x == RowsShown(p.parts)
    <3>1. AllOf(u) = ((x \o quote) \o <<>>) \o <<>> /\ AllOf(p) = (x \o quote) \o <<>> /\ x \in Seq(Nat) /\ quote \in Seq(Nat)
      BY <1>1, <2>1, <2>4, <2>6 DEF AllOf, quote
    <3> HIDE DEF x
    <3> QED BY <3>1
  <2> QED BY <2>6, <2>8, <2>9 DEF u
<1> QED BY <1>2, <1>3

\* The code that waits becomes a part.
LEMMA UnfencedIs ==
  ASSUME NEW K, NEW p \in WellLaid(K), p.quote = <<>>
  PROVE  /\ Unfenced(p) \in WellLaid(K) /\ Unfenced(p).quote = <<>> /\ Unfenced(p).code = <<>>
         /\ Unfenced(p).fenced = FALSE /\ AllOf(Unfenced(p)) = AllOf(p)
<1> DEFINE u == Unfenced(p)
           w == WithPart(p, "code", p.code)
           code == p.code
<1>1. /\ p \in Pages /\ p.parts \in PageParts /\ p.fenced \in BOOLEAN /\ code \in Seq(Nat)
      /\ (~p.fenced => code = <<>>)
      /\ (\A j \in 1..Len(code) : K[code[j]] = "code")
      /\ RowsShown(p.parts) \in Seq(Nat)
  BY WellLaidIs
<1>2. CASE ~p.fenced
  <2>1. u = p /\ code = <<>> /\ p.fenced = FALSE
    BY <1>1, <1>2 DEF Unfenced
  <2> QED BY <2>1
<1>3. CASE p.fenced
  <2>2. u = [w EXCEPT !.fenced = FALSE, !.code = <<>>]
    BY <1>3 DEF Unfenced
  <2>3. "code" \in PartKinds \ {"gap"}
    BY DEF PartKinds
  <2> DEFINE s == w.parts
  <2> HIDE DEF code
  <2>4. /\ s \in PageParts /\ s \in RightParts(K) /\ s \in GapsBetween
        /\ s # <<>> /\ s[Len(s)].kind = "code" /\ RowsShown(s) = RowsShown(p.parts) \o code
        /\ w = [parts |-> s, before |-> "code", blank |-> FALSE, fenced |-> p.fenced, code |-> code, quote |-> p.quote]
    <3>1. w = WithPart(p, "code", code)
      BY DEF code
    <3>3. code \in Seq(Nat) /\ \A j \in 1..Len(code) : K[code[j]] = "code"
      BY <1>1
    <3>2. /\ WithPart(p, "code", code).parts \in PageParts
          /\ WithPart(p, "code", code).parts \in RightParts(K) /\ WithPart(p, "code", code).parts \in GapsBetween
          /\ WithPart(p, "code", code).parts # <<>>
          /\ WithPart(p, "code", code).parts[Len(WithPart(p, "code", code).parts)].kind = "code"
          /\ RowsShown(WithPart(p, "code", code).parts) = RowsShown(p.parts) \o code
          /\ WithPart(p, "code", code) = [parts |-> WithPart(p, "code", code).parts, before |-> "code", blank |-> FALSE,
                                         fenced |-> p.fenced, code |-> p.code, quote |-> p.quote]
      BY <2>3, <3>3, WithPartIs
    <3> HIDE DEF w
    <3> QED BY <3>1, <3>2 DEF code
  <2> HIDE DEF w, s
  <2>5. u = [parts |-> s, before |-> "code", blank |-> FALSE, fenced |-> FALSE, code |-> <<>>, quote |-> <<>>]
    BY <2>2, <2>4
  <2> HIDE DEF u
  <2>6. /\ u.parts = s /\ u.before = "code" /\ u.blank = FALSE /\ u.fenced = FALSE
        /\ u.code = <<>> /\ u.quote = <<>>
    BY <2>5
  <2>7. u \in Pages
    BY <1>1, <2>3, <2>4, <2>5 DEF Pages
  <2>8. u \in WellLaid(K)
    BY <1>1, <2>4, <2>6, <2>7 DEF WellLaid
  <2>9. AllOf(u) = AllOf(p)
    <3> DEFINE x == RowsShown(p.parts)
    <3>1. AllOf(u) = ((x \o code) \o <<>>) \o <<>> /\ AllOf(p) = (x \o <<>>) \o code /\ x \in Seq(Nat) /\ code \in Seq(Nat)
      BY <1>1, <2>4, <2>6 DEF AllOf, code
    <3> HIDE DEF x
    <3> QED BY <3>1
  <2> QED BY <2>6, <2>8, <2>9 DEF u
<1> QED BY <1>2, <1>3

\* A line is laid out where it belongs.
LEMMA LaidOutIs ==
  ASSUME NEW K, NEW p \in WellLaid(K), NEW row \in Nat, NEW kind \in LineKinds,
         kind # "fence" => K[row] = IF p.fenced THEN "code" ELSE kind
  PROVE  /\ LaidOut(p, row, kind) \in WellLaid(K)
         /\ LaidOut(p, row, kind).fenced = (IF kind = "fence" THEN ~p.fenced ELSE p.fenced)
         /\ AllOf(LaidOut(p, row, kind)) =
                AllOf(p) \o (IF kind # "fence" /\ (kind # "blank" \/ p.fenced) THEN <<row>> ELSE <<>>)
<1> DEFINE new == LaidOut(p, row, kind)
           u == Unquoted(p)
<1>1. /\ p \in Pages /\ p.parts \in PageParts /\ p.fenced \in BOOLEAN /\ p.code \in Seq(Nat) /\ p.quote \in Seq(Nat)
      /\ (p.fenced => p.quote = <<>>) /\ (~p.fenced => p.code = <<>>)
      /\ (\A j \in 1..Len(p.code) : K[p.code[j]] = "code") /\ (\A j \in 1..Len(p.quote) : K[p.quote[j]] = "quote")
      /\ RowsShown(p.parts) \in Seq(Nat) /\ p.parts \in RightParts(K) /\ p.parts \in GapsBetween
      /\ p.before # "gap" /\ (p.parts # <<>> => p.parts[Len(p.parts)].kind = p.before)
      /\ p.before \in PartKinds /\ p.blank \in BOOLEAN
  BY WellLaidIs
<1>2. /\ u \in WellLaid(K) /\ u.quote = <<>> /\ u.code = p.code /\ u.fenced = p.fenced /\ AllOf(u) = AllOf(p)
  BY UnquotedIs
<1> HIDE DEF u
<1>3. /\ u \in Pages /\ u.parts \in PageParts /\ u.fenced \in BOOLEAN /\ u.code \in Seq(Nat)
      /\ (~u.fenced => u.code = <<>>)
      /\ (\A j \in 1..Len(u.code) : K[u.code[j]] = "code")
      /\ RowsShown(u.parts) \in Seq(Nat) /\ u.parts \in RightParts(K) /\ u.parts \in GapsBetween
      /\ u.before # "gap" /\ (u.parts # <<>> => u.parts[Len(u.parts)].kind = u.before)
      /\ u.before \in PartKinds /\ u.blank \in BOOLEAN /\ u.quote \in Seq(Nat)
  BY <1>2, WellLaidIs
<1>4. AllOf(p) \in Seq(Nat) /\ AllOf(p) \o <<>> = AllOf(p)
  <2> DEFINE x == RowsShown(p.parts)
             y == p.quote
             z == p.code
  <2>1. AllOf(p) = (x \o y) \o z /\ x \in Seq(Nat) /\ y \in Seq(Nat) /\ z \in Seq(Nat)
    BY <1>1 DEF AllOf
  <2> HIDE DEF x, y, z
  <2>2. x \o y \in Seq(Nat)
    BY <2>1
  <2>3. (x \o y) \o z \in Seq(Nat)
    BY <2>1, <2>2
  <2> QED BY <2>1, <2>3
<1>5. CASE kind = "fence"
  <2>1. new = IF p.fenced THEN Unfenced(u) ELSE [u EXCEPT !.fenced = TRUE, !.code = <<>>]
    BY <1>5 DEF LaidOut, u
  <2>2. CASE p.fenced
    <3>1. new = Unfenced(u)
      BY <2>1, <2>2
    <3>2. Unfenced(u) \in WellLaid(K) /\ Unfenced(u).fenced = FALSE /\ AllOf(Unfenced(u)) = AllOf(u)
      BY <1>2, UnfencedIs
    <3> HIDE DEF new
    <3> QED BY <1>2, <1>4, <1>5, <2>2, <3>1, <3>2 DEF new
  <2>3. CASE ~p.fenced
    <3>1. new = [u EXCEPT !.fenced = TRUE, !.code = <<>>]
      BY <2>1, <2>3
    <3> HIDE DEF new
    <3>2. /\ new.parts = u.parts /\ new.before = u.before /\ new.blank = u.blank /\ new.fenced = TRUE
          /\ new.code = <<>> /\ new.quote = <<>> /\ new \in Pages
      BY <1>2, <1>3, <3>1 DEF Pages
    <3>3. new \in WellLaid(K)
      BY <1>3, <3>2 DEF WellLaid
    <3>4. AllOf(new) = AllOf(u)
      <4>1. u.code = <<>>
        BY <1>2, <1>3, <2>3
      <4> QED BY <1>2, <3>2, <4>1 DEF AllOf
    <3> QED BY <1>2, <1>4, <1>5, <2>3, <3>2, <3>3, <3>4 DEF new
  <2> QED BY <2>2, <2>3
<1>6. CASE kind # "fence" /\ p.fenced
  <2>1. new = [p EXCEPT !.code = Append(@, row)]
    BY <1>6 DEF LaidOut
  <2> DEFINE c == Append(p.code, row)
             m == Len(p.code) + 1
  <2>2. /\ c \in Seq(Nat) /\ Len(c) = m /\ c[m] = row /\ \A j \in 1..Len(p.code) : c[j] = p.code[j]
    <3> DEFINE z == p.code
    <3>1. z \in Seq(Nat)
      BY <1>1
    <3> HIDE DEF z
    <3>2. Append(z, row) \in Seq(Nat) /\ Len(Append(z, row)) = Len(z) + 1 /\ Append(z, row)[Len(z) + 1] = row
          /\ \A j \in 1..Len(z) : Append(z, row)[j] = z[j]
      BY <3>1, AppendProperties
    <3> QED BY <3>2 DEF z
  <2> HIDE DEF new, c
  <2>3. /\ new.parts = p.parts /\ new.before = p.before /\ new.blank = p.blank /\ new.fenced = p.fenced
        /\ new.code = c /\ new.quote = p.quote /\ new \in Pages
    BY <1>1, <2>1, <2>2 DEF Pages, c
  <2>4. \A j \in 1..Len(c) : K[c[j]] = "code"
    <3>1. K[row] = "code"
      BY <1>6
    <3>2. \A j \in 1..m : j = m \/ j \in 1..Len(p.code)
      BY <1>1
    <3>3. \A j \in 1..Len(p.code) : K[p.code[j]] = "code"
      BY <1>1
    <3>4. ASSUME NEW j \in 1..Len(c) PROVE K[c[j]] = "code"
      <4>1. j \in 1..m
        BY <2>2
      <4> HIDE DEF m
      <4>2. CASE j = m
        BY <2>2, <3>1, <4>2
      <4>3. CASE j \in 1..Len(p.code)
        BY <2>2, <3>3, <4>3
      <4> QED BY <3>2, <4>1, <4>2, <4>3
    <3> QED BY <3>4
  <2>5. new \in WellLaid(K)
    <3>1. new.quote = <<>> /\ new.fenced
      BY <1>1, <1>6, <2>3
    <3>2. \A j \in 1..Len(new.quote) : K[new.quote[j]] = "quote"
      BY <1>1, <2>3
    <3>3. \A j \in 1..Len(new.code) : K[new.code[j]] = "code"
      BY <2>3, <2>4
    <3>4. /\ new.parts \in RightParts(K) /\ new.parts \in GapsBetween
          /\ new.before # "gap" /\ (new.parts # <<>> => new.parts[Len(new.parts)].kind = new.before)
      BY <1>1, <2>3
    <3> QED BY <2>3, <3>1, <3>2, <3>3, <3>4 DEF WellLaid
  <2>6. AllOf(new) = AllOf(p) \o <<row>>
    <3> DEFINE x == RowsShown(p.parts) \o p.quote
               z == p.code
    <3>1. AllOf(new) = x \o Append(z, row) /\ AllOf(p) = x \o z /\ z \in Seq(Nat)
      BY <1>1, <2>3 DEF AllOf, c
    <3>2. x \in Seq(Nat)
      <4> DEFINE s == RowsShown(p.parts)
                 y == p.quote
      <4>1. s \in Seq(Nat) /\ y \in Seq(Nat)
        BY <1>1
      <4> HIDE DEF s, y
      <4>2. s \o y \in Seq(Nat)
        BY <4>1
      <4> QED BY <4>2 DEF s, y
    <3> HIDE DEF x, z
    <3>3. x \o Append(z, row) = (x \o z) \o <<row>>
      <4>1. Append(z, row) = z \o <<row>> /\ <<row>> \in Seq(Nat)
        BY <3>1
      <4>2. (x \o z) \o <<row>> = x \o (z \o <<row>>)
        BY <3>1, <3>2, <4>1, ConcatAssociative
      <4> QED BY <4>1, <4>2
    <3> QED BY <3>1, <3>3
  <2> QED BY <1>6, <2>3, <2>5, <2>6 DEF new
<1>7. CASE kind = "quote" /\ ~p.fenced
  <2>1. new = [p EXCEPT !.quote = Append(@, row)]
    BY <1>7 DEF LaidOut
  <2> DEFINE c == Append(p.quote, row)
             m == Len(p.quote) + 1
  <2>2. /\ c \in Seq(Nat) /\ Len(c) = m /\ c[m] = row /\ \A j \in 1..Len(p.quote) : c[j] = p.quote[j]
    <3> DEFINE z == p.quote
    <3>1. z \in Seq(Nat)
      BY <1>1
    <3> HIDE DEF z
    <3>2. Append(z, row) \in Seq(Nat) /\ Len(Append(z, row)) = Len(z) + 1 /\ Append(z, row)[Len(z) + 1] = row
          /\ \A j \in 1..Len(z) : Append(z, row)[j] = z[j]
      BY <3>1, AppendProperties
    <3> QED BY <3>2 DEF z
  <2> HIDE DEF new, c
  <2>3. /\ new.parts = p.parts /\ new.before = p.before /\ new.blank = p.blank /\ new.fenced = p.fenced
        /\ new.quote = c /\ new.code = p.code /\ new \in Pages
    BY <1>1, <2>1, <2>2 DEF Pages, c
  <2>4. \A j \in 1..Len(c) : K[c[j]] = "quote"
    <3>1. K[row] = "quote"
      BY <1>7
    <3>2. \A j \in 1..m : j = m \/ j \in 1..Len(p.quote)
      BY <1>1
    <3> HIDE DEF m
    <3> QED BY <1>1, <2>2, <3>1, <3>2
  <2>5. new \in WellLaid(K)
    BY <1>1, <1>7, <2>3, <2>4 DEF WellLaid
  <2>6. AllOf(new) = AllOf(p) \o <<row>>
    <3> DEFINE x == RowsShown(p.parts)
               z == p.quote
    <3>1. AllOf(new) = (x \o Append(z, row)) \o <<>> /\ AllOf(p) = (x \o z) \o <<>> /\ z \in Seq(Nat) /\ x \in Seq(Nat)
      BY <1>1, <1>7, <2>3 DEF AllOf, c
    <3> HIDE DEF x, z
    <3>2. Append(z, row) = z \o <<row>> /\ <<row>> \in Seq(Nat) /\ Append(z, row) \in Seq(Nat)
      BY <3>1
    <3>3. (x \o z) \o <<row>> = x \o (z \o <<row>>)
      BY <3>1, <3>2, ConcatAssociative
    <3>4. (x \o z) \o <<>> = x \o z /\ (x \o Append(z, row)) \o <<>> = x \o Append(z, row)
      BY <3>1, <3>2
    <3> QED BY <3>1, <3>2, <3>3, <3>4
  <2> QED BY <1>7, <2>3, <2>5, <2>6 DEF new
<1>8. CASE kind = "blank" /\ ~p.fenced
  <2>1. new = [u EXCEPT !.blank = TRUE]
    BY <1>8 DEF LaidOut, u
  <2> HIDE DEF new
  <2>2. /\ new.parts = u.parts /\ new.before = u.before /\ new.blank = TRUE /\ new.fenced = u.fenced
        /\ new.code = u.code /\ new.quote = u.quote /\ new \in Pages
    BY <1>3, <2>1 DEF Pages
  <2>3. new \in WellLaid(K)
    BY <1>2, <1>3, <2>2 DEF WellLaid
  <2>4. AllOf(new) = AllOf(u)
    BY <2>2 DEF AllOf
  <2> QED BY <1>2, <1>4, <1>8, <2>2, <2>3, <2>4 DEF new
<1>9. CASE kind \notin {"fence", "quote", "blank"} /\ ~p.fenced
  <2>1. new = WithPart(u, kind, <<row>>)
    BY <1>9 DEF LaidOut, u
  <2>2. kind \in PartKinds \ {"gap"} /\ <<row>> \in Seq(Nat) /\ K[row] = kind
    <3>1. kind \in PartKinds \ {"gap"}
      BY <1>9 DEF LineKinds, PartKinds
    <3> QED BY <1>9, <3>1
  <2>3. \A j \in 1..Len(<<row>>) : K[<<row>>[j]] = kind
    BY <2>2
  <2> DEFINE rows == <<row>>
             s == new.parts
  <2> HIDE DEF rows, new
  <2>4. /\ s \in PageParts /\ s \in RightParts(K) /\ s \in GapsBetween
        /\ s # <<>> /\ s[Len(s)].kind = kind /\ RowsShown(s) = RowsShown(u.parts) \o rows
        /\ new = [parts |-> s, before |-> kind, blank |-> FALSE, fenced |-> u.fenced, code |-> u.code, quote |-> u.quote]
    <3>1. rows \in Seq(Nat) /\ \A j \in 1..Len(rows) : K[rows[j]] = kind
      BY <2>2, <2>3 DEF rows
    <3>2. new = WithPart(u, kind, rows)
      BY <2>1 DEF rows
    <3> QED BY <1>2, <2>2, <3>1, <3>2, WithPartIs
  <2> HIDE DEF s
  <2>5. /\ new.parts = s /\ new.before = kind /\ new.blank = FALSE /\ new.fenced = u.fenced
        /\ new.code = u.code /\ new.quote = u.quote
    BY <2>4
  <2>6. new \in Pages
    BY <1>3, <2>2, <2>4 DEF Pages
  <2>7. new \in WellLaid(K)
    BY <1>2, <1>3, <2>2, <2>4, <2>5, <2>6 DEF WellLaid
  <2>8. AllOf(new) = AllOf(u) \o <<row>>
    <3> DEFINE x == RowsShown(u.parts)
    <3>1. u.code = <<>> /\ u.quote = <<>>
      BY <1>2, <1>3, <1>9
    <3>2. AllOf(new) = ((x \o rows) \o <<>>) \o <<>> /\ AllOf(u) = (x \o <<>>) \o <<>> /\ x \in Seq(Nat) /\ rows \in Seq(Nat)
      BY <1>3, <2>2, <2>4, <2>5, <3>1 DEF AllOf, rows
    <3> HIDE DEF x
    <3> QED BY <3>2 DEF rows
  <2> QED BY <1>2, <1>9, <2>5, <2>7, <2>8 DEF new
<1>10. \/ kind = "fence"
       \/ kind # "fence" /\ p.fenced
       \/ kind = "quote" /\ ~p.fenced
       \/ kind = "blank" /\ ~p.fenced
       \/ kind \notin {"fence", "quote", "blank"} /\ ~p.fenced
  <2>1. kind \in {"fence", "quote", "blank"} => kind = "fence" \/ kind = "quote" \/ kind = "blank"
    OBVIOUS
  <2> QED BY <2>1, Zenon
<1> HIDE DEF new
<1>11. /\ new \in WellLaid(K) /\ new.fenced = (IF kind = "fence" THEN ~p.fenced ELSE p.fenced)
       /\ AllOf(new) = AllOf(p) \o (IF kind # "fence" /\ (kind # "blank" \/ p.fenced) THEN <<row>> ELSE <<>>)
  BY <1>5, <1>6, <1>7, <1>8, <1>9, <1>10 DEF new
<1> QED BY <1>11 DEF new

\* Whether a line is within a fence, or opens one; and what each is to be.
Fences(rows, i) == {j \in 1..i : rows[j] = "fence"}
InFence(rows, i) == Cardinality(Fences(rows, i)) % 2 = 1
ToBe(rows) == [i \in Nat |-> IF InFence(rows, i) THEN "code" ELSE rows[i]]

\* There is none before the first line.
LEMMA NoFenceYet == ASSUME NEW rows PROVE InFence(rows, 0) = FALSE
<1>1. Fences(rows, 0) = {}
  BY DEF Fences
<1>2. Cardinality({}) = 0
  BY FS_EmptySet
<1>3. Cardinality(Fences(rows, 0)) = 0
  BY <1>1, <1>2
<1> QED BY <1>3 DEF InFence

\* A fence opens or closes, and no other line does.
LEMMA FenceFlips ==
  ASSUME NEW rows, NEW i \in Nat \ {0}
  PROVE  InFence(rows, i) = IF rows[i] = "fence" THEN ~InFence(rows, i - 1) ELSE InFence(rows, i - 1)
<1> DEFINE m == i - 1
           A == Fences(rows, m)
           B == Fences(rows, i)
<1>1. m \in Nat /\ IsFiniteSet(1..m) /\ i \in 1..i /\ i \notin 1..m /\ \A j \in 1..i : j = i \/ j \in 1..m
  <2>1. m \in Nat /\ i \in 1..i /\ i \notin 1..m /\ \A j \in 1..i : j = i \/ j \in 1..m
    OBVIOUS
  <2> HIDE DEF m
  <2> QED BY <2>1, FS_Interval
<1>2. IsFiniteSet(A) /\ i \notin A /\ Cardinality(A) \in Nat
  <2>1. A \subseteq 1..m
    BY DEF Fences
  <2>2. IsFiniteSet(A)
    <3> HIDE DEF A, m
    <3> QED BY <1>1, <2>1, FS_Subset
  <2> QED BY <1>1, <2>1, <2>2, FS_CardinalityType
<1>4. CASE rows[i] = "fence"
  <2>1. B = A \cup {i}
    <3> HIDE DEF m
    <3>1. \A j \in 1..m : j \in 1..i
      BY DEF m
    <3> QED BY <1>1, <1>4, <3>1 DEF Fences
  <2> DEFINE a == Cardinality(A)
             b == Cardinality(B)
  <2>2. b = a + 1 /\ a \in Nat
    <3> HIDE DEF A
    <3>1. Cardinality(A \cup {i}) = Cardinality(A) + 1
      BY <1>2, FS_AddElement
    <3> QED BY <1>2, <2>1, <3>1
  <2> HIDE DEF a, b
  <2>3. (b % 2 = 1) = ~(a % 2 = 1)
    BY <2>2
  <2> QED BY <1>4, <2>3 DEF InFence, a, b
<1>5. CASE rows[i] # "fence"
  <2>1. B = A
    <3> HIDE DEF m
    <3>1. \A j \in 1..m : j \in 1..i
      BY DEF m
    <3> QED BY <1>1, <1>5, <3>1 DEF Fences
  <2> QED BY <1>5, <2>1 DEF InFence
<1> QED BY <1>4, <1>5

\* A new page is laid out well.
LEMMA NewPageIs ==
  ASSUME NEW K
  PROVE  NewPage \in WellLaid(K) /\ NewPage \in Pages /\ NewPage.fenced = FALSE /\ AllOf(NewPage) = <<>>
<1>1. /\ NewPage.parts = <<>> /\ NewPage.before = "none" /\ NewPage.blank = FALSE /\ NewPage.fenced = FALSE
      /\ NewPage.code = <<>> /\ NewPage.quote = <<>>
  BY DEF NewPage
<1>2. "none" \in PartKinds /\ <<>> \in PageParts /\ <<>> \in Seq(Nat) /\ "none" # "gap"
  <2>1. "none" \in PartKinds
    BY DEF PartKinds
  <2>2. <<>> \in PageParts
    BY DEF PageParts
  <2> QED BY <2>1, <2>2
<1>3. NewPage \in Pages
  BY <1>2 DEF NewPage, Pages
<1>4. Len(<<>>) = 0 /\ 1..0 = {}
  OBVIOUS
<1>5. <<>> \in RightParts(K)
  BY <1>2, <1>4 DEF RightParts
<1>6. <<>> \in GapsBetween
  BY <1>2, <1>4, GapsAre
<1>7. NewPage \in WellLaid(K)
  BY <1>1, <1>2, <1>3, <1>4, <1>5, <1>6 DEF WellLaid
<1>8. AllOf(NewPage) = <<>>
  <2>1. RowsShown(<<>>) = <<>>
    BY <1>2, ShownIs
  <2>2. AllOf(NewPage) = (<<>> \o <<>>) \o <<>>
    BY <1>1, <2>1 DEF AllOf
  <2>3. (<<>> \o <<>>) \o <<>> = <<>>
    OBVIOUS
  <2> QED BY <2>2, <2>3
<1> QED BY <1>1, <1>3, <1>7, <1>8

\* What is to be on a page: the lines that say something.
DueRows(rows) ==
    [i \in DOMAIN rows |->
        IF rows[i] # "fence" /\ (rows[i] # "blank" \/ InFence(rows, i)) THEN <<i>> ELSE <<>>]

\* Each line brings its row or nothing.
LEMMA DueIs ==
  ASSUME NEW rows \in Seq(LineKinds)
  PROVE  /\ DueRows(rows) \in Seq(Seq(Nat)) /\ Len(DueRows(rows)) = Len(rows)
         /\ \A i \in 1..Len(rows) :
                DueRows(rows)[i] = IF rows[i] # "fence" /\ (rows[i] # "blank" \/ InFence(rows, i)) THEN <<i>> ELSE <<>>
<1> DEFINE n == Len(rows)
           D == DueRows(rows)
<1>1. n \in Nat /\ DOMAIN rows = 1..n
  OBVIOUS
<1>2. D = [i \in 1..n |-> IF rows[i] # "fence" /\ (rows[i] # "blank" \/ InFence(rows, i)) THEN <<i>> ELSE <<>>]
  BY <1>1 DEF DueRows
<1> HIDE DEF D, n
<1>3. \A i \in 1..n :
        D[i] = IF rows[i] # "fence" /\ (rows[i] # "blank" \/ InFence(rows, i)) THEN <<i>> ELSE <<>>
  BY <1>2
<1>4. \A i \in 1..n : D[i] \in Seq(Nat)
  <2>1. ASSUME NEW i \in 1..n PROVE <<i>> \in Seq(Nat) /\ <<>> \in Seq(Nat)
    OBVIOUS
  <2> QED BY <1>3, <2>1
<1>5. D \in [1..n -> Seq(Nat)]
  BY <1>2, <1>4
<1>6. D \in Seq(Seq(Nat)) /\ Len(D) = n
  BY <1>1, <1>5
<1> QED BY <1>3, <1>6 DEF D, n

\* The lines of a text, laid out one after the other.
LEMMA BlocksAre ==
  ASSUME NEW rows \in Seq(LineKinds)
  PROVE  /\ Blocks(rows) \in RightParts(ToBe(rows)) /\ Blocks(rows) \in GapsBetween
         /\ RowsShown(Blocks(rows)) = FlattenSeq(DueRows(rows))
<1> DEFINE n == Len(rows)
           K == ToBe(rows)
           G(p, i) == LaidOut(p, i, rows[i])
           H(p, i) == IF G(p, i) \in Pages THEN G(p, i) ELSE NewPage
           Is(g) == g = [i \in 0..n |-> IF i = 0 THEN NewPage ELSE G(g[i - 1], i)]
           F == [p \in Pages \X (1..n) |-> H(p[1], p[2])]
           page == CHOOSE g : Is(g)
<1>1. n \in Nat /\ \A i \in 1..n : i - 1 \in 0..n /\ i \in 0..n /\ i # 0 /\ i \in Nat
  OBVIOUS
<1>2. Blocks(rows) = Unfenced(Unquoted(page[n])).parts
  BY DEF Blocks
<1>3. NewPage \in WellLaid(K) /\ NewPage \in Pages /\ NewPage.fenced = FALSE /\ AllOf(NewPage) = <<>>
  <2> HIDE DEF K
  <2> QED BY NewPageIs
<1>4. PICK up \in [0..n -> Seq(Nat)] :
        /\ up[0] = <<>> /\ FlattenSeq(DueRows(rows)) = up[n]
        /\ \A i \in 1..n : up[i] = up[i - 1] \o DueRows(rows)[i]
  <2> DEFINE D == DueRows(rows)
  <2>1. D \in Seq(Seq(Nat)) /\ Len(D) = n
    BY DueIs
  <2> HIDE DEF D, n
  <2>2. \E up \in [0..Len(D) -> Seq(Nat)] :
            /\ up[0] = <<>> /\ \A i \in 1..Len(D) : up[i] = up[i - 1] \o D[i]
            /\ FlattenSeq(D) = up[Len(D)]
    BY <2>1, FlattenUp
  <2> QED BY <2>1, <2>2 DEF D
<1>5. \A i \in 1..n : rows[i] \in LineKinds
  OBVIOUS
<1>6. ASSUME NEW i \in 1..n, NEW p \in WellLaid(K), p.fenced = InFence(rows, i - 1), AllOf(p) = up[i - 1]
      PROVE  /\ G(p, i) \in WellLaid(K) /\ G(p, i) \in Pages
             /\ G(p, i).fenced = InFence(rows, i) /\ AllOf(G(p, i)) = up[i]
  <2> DEFINE kind == rows[i]
  <2>1. kind \in LineKinds /\ i \in Nat \ {0}
    BY <1>1, <1>5
  <2>2. InFence(rows, i) = IF kind = "fence" THEN ~InFence(rows, i - 1) ELSE InFence(rows, i - 1)
    BY <2>1, FenceFlips
  <2>3. K[i] = IF InFence(rows, i) THEN "code" ELSE kind
    BY <1>1 DEF ToBe
  <2>4. up[i] = up[i - 1] \o
            (IF kind # "fence" /\ (kind # "blank" \/ InFence(rows, i)) THEN <<i>> ELSE <<>>)
    BY <1>4, DueIs
  <2> HIDE DEF K, kind
  <2>5. kind # "fence" => K[i] = IF p.fenced THEN "code" ELSE kind
    BY <1>6, <2>2, <2>3
  <2>6. /\ LaidOut(p, i, kind) \in WellLaid(K)
        /\ LaidOut(p, i, kind).fenced = (IF kind = "fence" THEN ~p.fenced ELSE p.fenced)
        /\ AllOf(LaidOut(p, i, kind)) =
                AllOf(p) \o (IF kind # "fence" /\ (kind # "blank" \/ p.fenced) THEN <<i>> ELSE <<>>)
    BY <1>1, <2>1, <2>5, LaidOutIs
  <2>7. AllOf(LaidOut(p, i, kind)) = up[i]
    BY <1>6, <2>2, <2>4, <2>6
  <2>8. LaidOut(p, i, kind) \in Pages
    BY <2>6, WellLaidIs
  <2>9. LaidOut(p, i, kind).fenced = InFence(rows, i)
    BY <1>6, <2>2, <2>6
  <2>10. G(p, i) = LaidOut(p, i, kind)
    BY DEF kind
  <2> HIDE DEF G
  <2> QED BY <2>6, <2>7, <2>8, <2>9, <2>10
<1> HIDE DEF G, K, n
<1>7. F \in [Pages \X (1..n) -> Pages] /\ \A x \in Pages, i \in 1..n : F[<<x, i>>] = H(x, i)
  BY <1>3
<1>8. \A x, i : G(x, i) \in Pages => H(x, i) = G(x, i)
  OBVIOUS
<1> HIDE DEF F, H
<1>9. PICK g \in [0..n -> Pages] : g[0] = NewPage /\ \A i \in 1..n : g[i] = F[<<g[i - 1], i>>]
  <2>1. \E g : g \in Recursions(Pages, NewPage, n, F)
    BY <1>1, <1>3, <1>7, Recursion
  <2> QED BY <2>1 DEF Recursions
<1> DEFINE Good(x) == {i \in 0..n : /\ x[i] \in WellLaid(K) /\ x[i].fenced = InFence(rows, i)
                                    /\ AllOf(x[i]) = up[i]}
<1>10. ASSUME NEW x, x[0] = NewPage PROVE 0 \in Good(x)
  <2>1. InFence(rows, 0) = FALSE
    BY NoFenceYet
  <2>2. x[0] \in WellLaid(K) /\ x[0].fenced = InFence(rows, 0)
    BY <1>3, <1>10, <2>1
  <2>3. AllOf(x[0]) = up[0] /\ 0 \in 0..n
    BY <1>1, <1>3, <1>4, <1>10
  <2> QED BY <2>2, <2>3
<1>11. ASSUME NEW i \in 1..n, i - 1 \in Good(g) PROVE i \in Good(g) /\ g[i] = G(g[i - 1], i)
  <2> DEFINE p == g[i - 1]
  <2>1. p \in WellLaid(K) /\ p.fenced = InFence(rows, i - 1) /\ AllOf(p) = up[i - 1] /\ p \in Pages
    BY <1>1, <1>9, <1>11
  <2>2. g[i] = H(p, i)
    BY <1>7, <1>9, <2>1
  <2> HIDE DEF p
  <2>3. /\ G(p, i) \in WellLaid(K) /\ G(p, i) \in Pages
        /\ G(p, i).fenced = InFence(rows, i) /\ AllOf(G(p, i)) = up[i]
    BY <1>6, <2>1
  <2>4. g[i] = G(p, i)
    BY <1>8, <2>2, <2>3
  <2> QED BY <1>1, <2>3, <2>4 DEF p
<1>12. \A i \in 0..n : i \in Good(g)
  <2> DEFINE S == Good(g)
  <2>1. 0 \in S
    BY <1>9, <1>10
  <2>2. \A i \in 1..n : i - 1 \in S => i \in S
    BY <1>11
  <2> HIDE DEF S
  <2>3. \A i \in 0..n : i \in S
    BY <1>1, <2>1, <2>2, Upward
  <2> QED BY <2>3 DEF S
<1>13. \A i \in 1..n : g[i] = G(g[i - 1], i)
  BY <1>1, <1>11, <1>12
<1>14. Is(g)
  <2>1. \A i \in 0..n : g[i] = IF i = 0 THEN NewPage ELSE G(g[i - 1], i)
    <3>1. \A i \in 0..n : i # 0 => i \in 1..n
      BY <1>1
    <3> QED BY <1>9, <1>13, <3>1
  <2> QED BY <1>9, <2>1
<1>15. Is(page)
  <2> HIDE DEF Is
  <2> QED BY <1>14
<1> HIDE DEF page
<1>16. page[0] = NewPage /\ \A i \in 1..n : page[i] = G(page[i - 1], i)
  <2>1. 0 \in 0..n
    BY <1>1
  <2> QED BY <1>1, <1>15, <2>1
<1> HIDE DEF Is
<1>17. \A i \in 0..n : i \in Good(page)
  <2> DEFINE S == Good(page)
  <2>1. 0 \in S
    BY <1>10, <1>16
  <2>2. ASSUME NEW i \in 1..n, i - 1 \in S PROVE i \in S
    <3> DEFINE p == page[i - 1]
    <3>1. p \in WellLaid(K) /\ p.fenced = InFence(rows, i - 1) /\ AllOf(p) = up[i - 1]
      BY <2>2
    <3>2. page[i] = G(p, i)
      BY <1>16
    <3> HIDE DEF p
    <3>3. /\ G(p, i) \in WellLaid(K)
          /\ G(p, i).fenced = InFence(rows, i) /\ AllOf(G(p, i)) = up[i]
      BY <1>6, <3>1
    <3> QED BY <1>1, <3>2, <3>3
  <2> HIDE DEF S
  <2>3. \A i \in 0..n : i \in S
    BY <1>1, <2>1, <2>2, Upward
  <2> QED BY <2>3 DEF S
<1> DEFINE p == page[n]
           u == Unquoted(p)
           w == Unfenced(u)
<1>18. p \in WellLaid(K) /\ AllOf(p) = up[n]
  <2>1. n \in 0..n
    BY <1>1
  <2> QED BY <1>17, <2>1
<1> HIDE DEF p
<1>19. u \in WellLaid(K) /\ u.quote = <<>> /\ AllOf(u) = AllOf(p)
  BY <1>18, UnquotedIs
<1> HIDE DEF u
<1>20. w \in WellLaid(K) /\ w.quote = <<>> /\ w.code = <<>> /\ AllOf(w) = AllOf(u)
  BY <1>19, UnfencedIs
<1> HIDE DEF w
<1>21. w.parts \in RightParts(K) /\ w.parts \in GapsBetween /\ RowsShown(w.parts) \in Seq(Nat)
  BY <1>20, WellLaidIs
<1>22. RowsShown(w.parts) = up[n]
  <2> DEFINE s == RowsShown(w.parts)
  <2>1. AllOf(w) = (s \o <<>>) \o <<>> /\ s \in Seq(Nat)
    BY <1>20, <1>21 DEF AllOf
  <2> HIDE DEF s
  <2>2. (s \o <<>>) \o <<>> = s
    BY <2>1
  <2>3. AllOf(w) = up[n]
    BY <1>18, <1>19, <1>20
  <2>4. s = up[n]
    BY <2>1, <2>2, <2>3
  <2> QED BY <2>4 DEF s
<1>23. Blocks(rows) = w.parts
  BY <1>2 DEF w, u, p, n
<1> QED BY <1>4, <1>21, <1>22, <1>23 DEF K

\* What is laid out is a whole page.
LEMMA PagesAreWhole == LayoutInv => PageIsWhole
<1> SUFFICES ASSUME LayoutInv, layoutAsked.kind = "blocks" PROVE PageIsWhole
  BY DEF PageIsWhole
<1>1. PICK rows : rows = layoutAsked.rows /\ rows \in Seq(LineKinds) /\ layoutMade = Blocks(rows)
  BY DEF LayoutInv
<1>2. PICK made : made = layoutMade
  OBVIOUS
<1> DEFINE K == ToBe(rows)
<1>3. made \in RightParts(K) /\ made \in GapsBetween /\ RowsShown(made) = FlattenSeq(DueRows(rows))
  BY <1>1, <1>2, BlocksAre
<1>4. DOMAIN made = 1..Len(made) /\ \A k \in 1..Len(made) : made[k].rows \in Seq(Nat)
  <2>1. made \in Seq([kind : PartKinds, rows : Seq(Nat)])
    BY <1>3 DEF RightParts, PageParts
  <2>2. \A k \in 1..Len(made) : made[k] \in [kind : PartKinds, rows : Seq(Nat)]
    BY <2>1, ElementOfSeq
  <2> QED BY <2>1, <2>2
<1>5. FlattenSeq([k \in DOMAIN made |-> made[k].rows]) = FlattenSeq(DueRows(rows))
  BY <1>3 DEF RowsShown, RowsOf
<1>6. ASSUME NEW k \in DOMAIN made, NEW i \in ToSet(made[k].rows)
      PROVE  made[k].kind = IF InFence(rows, i) THEN "code" ELSE rows[i]
  <2> DEFINE r == made[k].rows
  <2>1. k \in 1..Len(made) /\ r \in Seq(Nat)
    BY <1>4
  <2>2. PICK j \in 1..Len(r) : i = r[j]
    <3>1. DOMAIN r = 1..Len(r) /\ i \in {r[j] : j \in DOMAIN r}
      BY <1>6, <2>1 DEF ToSet
    <3> HIDE DEF r
    <3> QED BY <3>1
  <2>3. made[k].kind = K[r[j]]
    <3> HIDE DEF K
    <3> QED BY <1>3, <2>1, <2>2 DEF RightParts
  <2>4. i \in Nat
    BY <2>1, <2>2, ElementOfSeq
  <2> HIDE DEF r
  <2> QED BY <2>2, <2>3, <2>4 DEF ToBe
<1>7. ASSUME NEW k \in DOMAIN made, made[k] = Gap PROVE GapAt(made, k)
  <2>1. made[k].kind = "gap"
    BY <1>7 DEF Gap
  <2> QED BY <1>3, <1>4, <2>1 DEF GapsBetween
<1> HIDE DEF K
<1> DEFINE asked == layoutAsked.rows
           inFence(i) == Cardinality({j \in 1..i : asked[j] = "fence"}) % 2 = 1
           said(i) == asked[i] # "fence" /\ (asked[i] # "blank" \/ inFence(i))
           due == FlattenSeq([i \in DOMAIN asked |-> IF said(i) THEN <<i>> ELSE <<>>])
<1>8. asked = rows /\ layoutMade = made
  BY <1>1, <1>2
<1>9. \A i : inFence(i) = InFence(rows, i)
  BY <1>8 DEF InFence, Fences
<1>10. due = FlattenSeq(DueRows(rows))
  <2>1. due = FlattenSeq([i \in DOMAIN rows |->
            IF rows[i] # "fence" /\ (rows[i] # "blank" \/ Cardinality({j \in 1..i : rows[j] = "fence"}) % 2 = 1)
            THEN <<i>> ELSE <<>>])
    BY <1>8
  <2> HIDE DEF due
  <2> QED BY <2>1 DEF DueRows, InFence, Fences
<1>11. FlattenSeq([k \in DOMAIN layoutMade |-> layoutMade[k].rows]) = due
  <2> HIDE DEF due
  <2> QED BY <1>5, <1>8, <1>10
<1>12. \A k \in DOMAIN layoutMade : \A i \in ToSet(layoutMade[k].rows) :
            layoutMade[k].kind = IF inFence(i) THEN "code" ELSE asked[i]
  <2> HIDE DEF inFence, asked
  <2> QED BY <1>6, <1>8, <1>9
<1>13. \A k \in DOMAIN layoutMade : layoutMade[k] = Gap =>
            /\ k \in 2..(Len(layoutMade) - 1)
            /\ {layoutMade[k - 1].kind, layoutMade[k + 1].kind} \subseteq Spaced
  BY <1>7, <1>8 DEF GapAt
<1> QED BY <1>11, <1>12, <1>13, Zenon DEF PageIsWhole

-----------------------------------------------------------------------------
(* TelegramText: Previews                                                   *)

\* The budgets of a reply that grows.
LEMMA BudgetsAre ==
  ASSUME NEW n \in Nat
  PROVE  /\ ThinkingBudget(n) \in Nat /\ ReplyBudget(n) \in Nat
         /\ ThinkingMin <= ThinkingBudget(n) /\ ThinkingBudget(n) <= ThinkingCap
         /\ ThinkingBudget(n) + ReplyBudget(n) + PreviewOverhead = MessageLimit
         /\ n + PreviewOverhead + ThinkingMin <= MessageLimit => n <= ReplyBudget(n)
         /\ ThinkingBudget(n + 1) <= ThinkingBudget(n)
         /\ ReplyBudget(n) <= ReplyBudget(n + 1)
<1>1. /\ MessageLimit \in Nat /\ PreviewOverhead \in Nat /\ ThinkingCap \in Nat /\ ThinkingMin \in Nat
      /\ ThinkingMin <= ThinkingCap /\ PreviewOverhead + ThinkingCap < MessageLimit
  BY LayoutAssumption
<1> QED BY <1>1 DEF ThinkingBudget, ReplyBudget, Capped, Raised

(***************************************************************************)
(* A preview fits but for its wide characters, and its reply does not      *)
(* shrink as it grows (_build_stream_preview).                             *)
(***************************************************************************)
LEMMA PreviewsDoFit == LayoutInv => PreviewsFit
<1> SUFFICES ASSUME LayoutInv, layoutAsked.kind = "preview" PROVE PreviewsFit
  BY DEF PreviewsFit
<1> DEFINE reply == layoutAsked.size
           thinking == layoutAsked.thinking
           made == StreamPreview(reply, thinking)
           next == StreamPreview(reply + 1, thinking)
           wide == layoutAsked.wide
<1>1. reply \in Nat /\ thinking \in Nat /\ wide \in Nat /\ layoutMade = made
  BY DEF LayoutInv
<1>2. /\ MessageLimit \in Nat /\ PreviewOverhead \in Nat /\ ThinkingCap \in Nat /\ ThinkingMin \in Nat
      /\ 5 <= PreviewOverhead /\ ThinkingMin <= ThinkingCap /\ PreviewOverhead + ThinkingCap < MessageLimit
  BY LayoutAssumption
<1>3. /\ ThinkingBudget(reply) \in Nat /\ ReplyBudget(reply) \in Nat
      /\ ThinkingBudget(reply) + ReplyBudget(reply) + PreviewOverhead = MessageLimit
      /\ reply + PreviewOverhead + ThinkingMin <= MessageLimit => reply <= ReplyBudget(reply)
      /\ ReplyBudget(reply) <= ReplyBudget(reply + 1)
  BY <1>1, BudgetsAre
<1>4. ReplyBudget(reply + 1) \in Nat
  <2> DEFINE m == reply + 1
  <2>1. m \in Nat
    BY <1>1
  <2> HIDE DEF m
  <2>2. ReplyBudget(m) \in Nat
    BY <2>1, BudgetsAre
  <2> QED BY <2>2 DEF m
<1> HIDE DEF reply, thinking, wide
<1>5. CASE thinking = 0
  <2>1. made = [tail |-> 0, reply |-> Capped(reply, MessageLimit), around |-> 0]
        /\ next = [tail |-> 0, reply |-> Capped(reply + 1, MessageLimit), around |-> 0]
    BY <1>5 DEF StreamPreview
  <2>2. made.tail = 0 /\ made.around = 0 /\ made.reply = Capped(reply, MessageLimit)
        /\ next.reply = Capped(reply + 1, MessageLimit)
    BY <2>1
  <2> HIDE DEF made, next
  <2>3. /\ PreviewUnits(made, wide) <= MessageLimit + wide
        /\ reply <= MessageLimit => made.reply = reply
        /\ made.reply <= next.reply
    BY <1>1, <1>2, <2>2 DEF Capped, PreviewUnits
  <2> QED BY <1>1, <1>5, <2>3 DEF PreviewsFit, reply, thinking, wide, next
<1>6. CASE thinking # 0 /\ reply = 0
  <2>1. made = [tail |-> Capped(thinking, MessageLimit - PreviewOverhead), reply |-> 0, around |-> 2]
    BY <1>1, <1>6 DEF StreamPreview
  <2>2. next = [tail |-> Capped(thinking, ThinkingBudget(reply + 1)),
                reply |-> Capped(reply + 1, ReplyBudget(reply + 1)), around |-> 4]
    BY <1>1, <1>6 DEF StreamPreview
  <2>3. made.tail = Capped(thinking, MessageLimit - PreviewOverhead) /\ made.around = 2 /\ made.reply = 0
    BY <2>1
  <2>4. next.reply = Capped(reply + 1, ReplyBudget(reply + 1))
    BY <2>2
  <2> HIDE DEF made, next
  <2>5. /\ PreviewUnits(made, wide) <= MessageLimit + wide /\ made.reply = reply
        /\ made.reply <= next.reply
    BY <1>1, <1>2, <1>4, <1>6, <2>3, <2>4 DEF Capped, PreviewUnits
  <2> QED BY <1>1, <1>6, <2>5 DEF PreviewsFit, reply, thinking, wide, next
<1>7. CASE thinking # 0 /\ reply # 0
  <2>1. made = [tail |-> Capped(thinking, ThinkingBudget(reply)),
                reply |-> Capped(reply, ReplyBudget(reply)), around |-> 4]
    BY <1>1, <1>7 DEF StreamPreview
  <2>2. next = [tail |-> Capped(thinking, ThinkingBudget(reply + 1)),
                reply |-> Capped(reply + 1, ReplyBudget(reply + 1)), around |-> 4]
    BY <1>1, <1>7 DEF StreamPreview
  <2>3. made.tail = Capped(thinking, ThinkingBudget(reply)) /\ made.around = 4
        /\ made.reply = Capped(reply, ReplyBudget(reply))
    BY <2>1
  <2>4. next.reply = Capped(reply + 1, ReplyBudget(reply + 1))
    BY <2>2
  <2> HIDE DEF made, next
  <2>5. /\ PreviewUnits(made, wide) <= MessageLimit + wide
        /\ reply + PreviewOverhead + ThinkingMin <= MessageLimit => made.reply = reply
        /\ made.reply <= next.reply
    BY <1>1, <1>2, <1>3, <1>4, <2>3, <2>4 DEF Capped, PreviewUnits
  <2>6. reply + (PreviewOverhead + ThinkingMin) <= MessageLimit => made.reply = reply
    BY <1>1, <1>2, <2>5
  <2> QED BY <1>1, <1>7, <2>5, <2>6 DEF PreviewsFit, reply, thinking, wide, next
<1> QED BY <1>5, <1>6, <1>7

\* However a text is cut, stripped, previewed or laid out.
LEMMA LayoutsAreFaithful == LayoutInv => LayoutIsFaithful
BY CutsAreSoundly, EntitiesDoStay, PreviewsDoFit, PagesAreWhole DEF LayoutIsFaithful
=============================================================================
