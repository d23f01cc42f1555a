-------------------------- MODULE Background_proofs -------------------------
(***************************************************************************)
(* What runs in, behind and around a turn: the tool loop, shell commands,  *)
(* subagent jobs with the delivery of replies, and the tasks of a peer     *)
(* agent; and the four systems of MCBackground together.                   *)
(*                                                                         *)
(* The tool loop's loop detection (NoThirdRun): StreakInv says what        *)
(* repeat_count is worth, which is never behind the batches executed in    *)
(* the run.  What a chat keeps loaded (LoadedAreRecent): RunInv relates    *)
(* the list of the chat to the history of uses place by place.  A turn's   *)
(* uses are a fold, so the lemmas first say that the function by which the *)
(* library defines a fold exists and goes through the names in turn.       *)
(***************************************************************************)
EXTENDS MCBackground, SequenceTheorems, FiniteSetTheorems, WellFoundedInduction,
        TLAPS

-----------------------------------------------------------------------------
(* The tool loop                                                            *)

\* The last batch made is the one compared next, and each repetition of it
\* has been counted.
Counted ==
    /\ last = ranSignatures[2]
    /\ last # <<>> => repeats >= 1
    /\ last # <<>> /\ ranSignatures[1] = last => repeats >= 2

StreakInv ==
    /\ ranSignatures \in Signatures \X Signatures
    /\ repeats \in Nat
    /\ stage \in {"ask", "exec"} => Counted

\* No batch has run when a turn or an attempt starts.
LEMMA StartCounts == ASSUME NEW n, StartRun(n) PROVE StreakInv'
  BY DEF StartRun, StreakInv, Counted, Signatures

\* A response that asks for calls is counted before they are made.
LEMMA CallsCount ==
  ASSUME StreakInv, NEW b \in Batches, ModelCalls(b)
  PROVE  StreakInv'
  <1> DEFINE sig == Signature(b)
  <1>0. sig \in Signatures BY DEF Signatures
  <1> HIDE DEF sig
  <1>1. /\ repeats' = (IF sig # <<>> /\ sig = last THEN repeats + 1 ELSE 1)
        /\ last' = sig /\ stage = "ask"
        BY DEF ModelCalls, Repeated, sig
  <1>2. repeats' \in Nat BY <1>1 DEF StreakInv
  <1>3. CASE Looping(repeats')
    BY <1>2, <1>3 DEF ModelCalls, StreakInv
  <1>4. CASE ~Looping(repeats')
    <2>1. /\ ranSignatures' = <<ranSignatures[2], sig>>
          /\ ranSignatures' \in Signatures \X Signatures
          BY <1>0, <1>4 DEF ModelCalls, StreakInv, sig
    <2>2. repeats' >= 1 BY <1>1 DEF StreakInv
    <2>3. sig # <<>> /\ ranSignatures[2] = sig => repeats' >= 2
      BY <1>1 DEF StreakInv, Counted
    <2>. QED BY <1>1, <1>2, <2>1, <2>2, <2>3 DEF StreakInv, Counted
  <1>. QED BY <1>3, <1>4

\* The inductive step.
LEMMA StreakStep == ASSUME StreakInv, [ToolNext]_toolVars PROVE StreakInv'
  <1>1. CASE ToolTurnBegins BY <1>1, StartCounts DEF ToolTurnBegins
  <1>2. CASE ModelAnswers \/ Summarise
    BY <1>2 DEF ModelAnswers, Summarise, Finish, StreakInv, tracking
  <1>3. CASE ModelRefuses
    <2>1. CASE attempt < Plans BY <1>3, <2>1, StartCounts DEF ModelRefuses
    <2>2. CASE ~(attempt < Plans)
      BY <1>3, <2>2 DEF ModelRefuses, Abandon, StreakInv, tracking
    <2>. QED BY <2>1, <2>2
  <1>4. CASE RequestRetried
    BY <1>4 DEF RequestRetried, StreakInv, Counted, tracking
  <1>5. CASE RequestFails \/ ToolTurnStops
    BY <1>5 DEF RequestFails, ToolTurnStops, Abandon, StreakInv, tracking
  <1>6. ASSUME NEW b \in Batches, ModelCalls(b) PROVE StreakInv'
    BY <1>6, CallsCount
  <1>7. CASE CallNotLoaded \/ CallStopped \/ CallReturns
    BY <1>7 DEF CallNotLoaded, CallStopped, CallReturns, NextCall, StreakInv, Counted
  <1>8. CASE UNCHANGED toolVars
    BY <1>8 DEF toolVars, StreakInv, Counted
  <1>. QED BY <1>1, <1>2, <1>3, <1>4, <1>5, <1>6, <1>7, <1>8 DEF ToolNext, ToolSteps

\* The first two executions are counted, so a third request is cut short.
LEMMA ThirdIsCut ==
  ASSUME StreakInv, NEW b \in Batches, ModelCalls(b), stage' = "exec", Signature(b) # <<>>
  PROVE  ranSignatures # <<Signature(b), Signature(b)>>
  <1> SUFFICES ASSUME ranSignatures = <<Signature(b), Signature(b)>> PROVE FALSE
    OBVIOUS
  <1> DEFINE sig == Signature(b)
  <1> HIDE DEF sig
  <1>1. ranSignatures[1] = sig /\ ranSignatures[2] = sig BY DEF sig
  <1>2. stage = "ask" /\ repeats' = Repeated(sig) BY DEF ModelCalls, sig
  <1>3. last = sig /\ sig # <<>> BY <1>1, <1>2 DEF StreakInv, Counted, sig
  <1>4. repeats >= 2 /\ repeats \in Nat BY <1>1, <1>2, <1>3 DEF StreakInv, Counted
  <1>5. repeats' >= 3 BY <1>2, <1>3, <1>4 DEF Repeated
  <1>6. stage' = "sum" BY <1>5 DEF ModelCalls, Looping, RepeatLimit
  <1>. QED BY <1>6

(***************************************************************************)
(* The calls of one response never run three times in a row, whatever      *)
(* tools there are and however often a turn is retried, failed or stopped. *)
(***************************************************************************)
THEOREM RepetitionIsCut == ToolSpec => NoThirdRun
  <1>1. ToolInit => StreakInv
    BY DEF ToolInit, StreakInv, Signatures
  <1>2. StreakInv /\ [ToolNext]_toolVars => StreakInv'
    BY StreakStep
  <1>3. StreakInv /\ [ToolNext]_toolVars =>
          [\A b \in Batches :
             ModelCalls(b) /\ stage' = "exec" /\ Signature(b) # <<>>
               => ranSignatures # <<Signature(b), Signature(b)>>]_toolVars
    BY ThirdIsCut
  <1>. QED BY <1>1, <1>2, <1>3, PTL DEF ToolSpec, NoThirdRun

-----------------------------------------------------------------------------
(* The tools a chat keeps loaded.                                           *)

(***************************************************************************)
(* Every nonempty set of numbers has a least one, and a bounded one has a  *)
(* greatest.                                                               *)
(***************************************************************************)
LEMMA LeastNumber ==
  ASSUME NEW S \in SUBSET Nat, S # {}
  PROVE  \E n \in S : \A k \in S : n <= k
<1> DEFINE R == OpToRel(<, Nat)
<1>1. IsWellFoundedOn(R, Nat)
  BY NatLessThanWellFounded
<1>2. \A x, y \in Nat : <<x, y>> \in R <=> x < y
  BY DEF OpToRel
<1> HIDE DEF R
<1>3. PICK x \in S : \A y \in S : ~(<<y, x>> \in R)
  BY <1>1, WFMin
<1>4. ASSUME NEW y \in S PROVE x <= y
  <2>1. x \in Nat /\ y \in Nat
    OBVIOUS
  <2>2. ~(y < x)
    BY <1>2, <1>3, <2>1
  <2> QED BY <2>1, <2>2
<1> QED BY <1>4

\* Max of a bounded set of numbers is its greatest.
LEMMA GreatestNumber ==
  ASSUME NEW k \in Nat, NEW S \in SUBSET (1..k), S # {}
  PROVE  Max(S) \in S /\ \A i \in S : Max(S) >= i
<1> DEFINE T == {k - i : i \in S}
<1>0. \A i \in S : i \in Nat /\ k - i \in Nat /\ k - i \in T
  OBVIOUS
<1>1. T \in SUBSET Nat /\ T # {}
  BY <1>0
<1>2. PICK n \in T : \A j \in T : n <= j
  BY <1>1, LeastNumber
<1>3. PICK top \in S : n = k - top
  BY <1>2
<1> HIDE DEF T
<1>4. \A i \in S : top >= i
  <2> SUFFICES ASSUME NEW i \in S PROVE top >= i
    OBVIOUS
  <2>1. k - i \in T /\ i \in Nat /\ top \in Nat
    BY <1>0
  <2>2. k - top <= k - i
    BY <1>2, <1>3, <2>1
  <2> QED BY <2>1, <2>2
<1> QED BY <1>4 DEF Max

\* The greatest of the first k numbers and fewer is k when k is there.
LEMMA GreatestIs ==
  ASSUME NEW k \in Nat, NEW S \in SUBSET (1..k), k \in S
  PROVE  Max(S) = k
<1>1. Max(S) \in S /\ Max(S) >= k
  BY GreatestNumber
<1>2. Max(S) \in 1..k
  BY <1>1
<1> QED BY <1>1, <1>2

\* The functions by which a fold over the first k elements of names is computed.
Folds(V, F, base, names, k) ==
    {g \in [SUBSET (1..k) -> V] : \A S \in SUBSET (1..k) :
        g[S] = IF S = {} THEN base ELSE F[<<g[S \ {Max(S)}], names[Max(S)]>>]}

(***************************************************************************)
(* A fold over a sequence goes through its elements one after the other:   *)
(* the function by which the library defines it exists.                    *)
(***************************************************************************)
LEMMA FoldExists ==
  ASSUME NEW V, NEW E, NEW F \in [V \X E -> V], NEW base \in V, NEW names \in Seq(E)
  PROVE  \A k \in 0..Len(names) : \E g : g \in Folds(V, F, base, names, k)
<1> DEFINE Step(g, S) == IF S = {} THEN base ELSE F[<<g[S \ {Max(S)}], names[Max(S)]>>]
           Good(k) == \E g \in [SUBSET (1..k) -> V] : \A S \in SUBSET (1..k) : g[S] = Step(g, S)
           Bad == {k \in 0..Len(names) : ~Good(k)}
<1>1. Good(0)
  <2> DEFINE g == [S \in SUBSET (1..0) |-> base]
  <2>1. g \in [SUBSET (1..0) -> V] /\ \A S \in SUBSET (1..0) : g[S] = Step(g, S)
    OBVIOUS
  <2> QED BY <2>1
<1>2. ASSUME NEW k \in 1..Len(names), Good(k - 1) PROVE Good(k)
  <2>1. PICK g \in [SUBSET (1..(k - 1)) -> V] : \A S \in SUBSET (1..(k - 1)) : g[S] = Step(g, S)
    BY <1>2
  <2> DEFINE w == [S \in SUBSET (1..k) |-> IF k \in S THEN F[<<g[S \ {k}], names[k]>>] ELSE g[S]]
  <2>2. names[k] \in E
    BY ElementOfSeq
  <2>3. \A S \in SUBSET (1..k) : k \notin S => S \in SUBSET (1..(k - 1))
    OBVIOUS
  <2>4. \A S \in SUBSET (1..k) : S \ {k} \in SUBSET (1..(k - 1))
    OBVIOUS
  <2>5. w \in [SUBSET (1..k) -> V]
    BY <2>2, <2>3, <2>4
  <2>6. ASSUME NEW S \in SUBSET (1..k) PROVE w[S] = Step(w, S)
    <3>1. CASE k \in S
      <4>1. Max(S) = k
        BY <3>1, GreatestIs
      <4>2. w[S \ {k}] = g[S \ {k}]
        OBVIOUS
      <4>3. w[S] = F[<<g[S \ {k}], names[k]>>]
        BY <3>1
      <4> QED BY <3>1, <4>1, <4>2, <4>3
    <3>2. CASE k \notin S
      <4>1. S \in SUBSET (1..(k - 1)) /\ w[S] = g[S]
        BY <2>3, <3>2
      <4>2. CASE S = {}
        BY <2>1, <4>1, <4>2
      <4>3. CASE S # {}
        <5>1. Max(S) \in S
          <6>1. k \in Nat
            BY LenProperties
          <6> QED BY <4>3, <6>1, GreatestNumber
        <5>2. w[S \ {Max(S)}] = g[S \ {Max(S)}]
          BY <3>2
        <5>3. g[S] = F[<<g[S \ {Max(S)}], names[Max(S)]>>]
          BY <2>1, <4>1, <4>3
        <5> QED BY <4>1, <4>3, <5>2, <5>3
      <4> QED BY <4>2, <4>3
    <3> QED BY <3>1, <3>2
  <2> HIDE DEF w
  <2> QED BY <2>5, <2>6
<1> HIDE DEF Good
<1>3. SUFFICES ASSUME Bad # {} PROVE FALSE
  BY DEF Good, Folds
<1>4. PICK k \in Bad : \A i \in Bad : k <= i
  <2>1. Bad \in SUBSET Nat
    BY LenProperties
  <2> HIDE DEF Bad
  <2> QED BY <1>3, <2>1, LeastNumber
<1>5. k # 0
  BY <1>1
<1>6. k - 1 \notin Bad /\ k - 1 \in 0..Len(names) /\ k \in 1..Len(names)
  BY <1>4, <1>5
<1> QED BY <1>2, <1>6

\* The first n numbers without the last.
LEMMA OneLess == ASSUME NEW n \in Nat PROVE (1..n) \ {n} = 1..(n - 1)
<1>1. ASSUME NEW i PROVE i \in (1..n) \ {n} <=> i \in 1..(n - 1)
  <2>1. CASE i \in Int
    BY <2>1
  <2>2. CASE i \notin Int
    BY <2>2
  <2> QED BY <2>1, <2>2
<1> QED BY <1>1

\* Names moved and dropped are still names of deferred tools.
LEMMA LruType ==
  ASSUME NEW x \in Seq(Deferred), NEW y \in Deferred
  PROVE  MoveToEnd(x, y) \in Seq(Deferred) /\ Touch(x, y) \in Seq(Deferred)
<1> DEFINE i == CHOOSE k \in DOMAIN x : x[k] = y
<1>1. Contains(x, y) => i \in 1..Len(x)
  BY LenProperties DEF Contains
<1>2. Without(y)[x] = IF Contains(x, y) THEN RemoveAt(x, i) ELSE x
  BY DEF Without
<1> HIDE DEF i
<1>3. Contains(x, y) => RemoveAt(x, i) \in Seq(Deferred)
  BY <1>1 DEF RemoveAt
<1>4. MoveToEnd(x, y) \in Seq(Deferred) /\ MoveToEnd(x, y) # <<>>
  BY <1>2, <1>3 DEF MoveToEnd
<1> QED BY <1>4 DEF Touch

(***************************************************************************)
(* ToolDiscoveryState.update takes the names of a turn one after the other.*)
(* The fold that models it is computed by a function of the first n names. *)
(***************************************************************************)
LEMMA TouchInTurn ==
  ASSUME NEW lru \in Seq(Deferred), NEW names \in Seq(Deferred)
  PROVE  \E h : /\ h[0] = lru
                /\ \A n \in 1..Len(names) : h[n] = Touch(h[n - 1], names[n])
                /\ FoldLeft(Touch, lru, names) = h[Len(names)]
<1> DEFINE D == SUBSET (DOMAIN names)
           P(g) == g = [S \in D |-> IF S = {} THEN lru
                                    ELSE LET x == Max(S) IN Touch(g[S \ {x}], names[x])]
           iter == CHOOSE g : P(g)
           F == [p \in Seq(Deferred) \X Deferred |-> Touch(p[1], p[2])]
<1>1. DOMAIN names = 1..Len(names) /\ Len(names) \in Nat
  BY LenProperties
<1>2. \E g : P(g)
  <2>1. F \in [Seq(Deferred) \X Deferred -> Seq(Deferred)]
    BY LruType
  <2>2. \A x \in Seq(Deferred), y \in Deferred : F[<<x, y>>] = Touch(x, y)
    OBVIOUS
  <2> HIDE DEF F
  <2>3. PICK g \in [D -> Seq(Deferred)] : \A S \in D :
            g[S] = IF S = {} THEN lru ELSE F[<<g[S \ {Max(S)}], names[Max(S)]>>]
    <3>1. Len(names) \in 0..Len(names) /\ D = SUBSET (1..Len(names))
      BY <1>1
    <3>2. PICK g : g \in Folds(Seq(Deferred), F, lru, names, Len(names))
      BY <2>1, <3>1, FoldExists
    <3> HIDE DEF D
    <3> QED BY <3>1, <3>2 DEF Folds
  <2>4. ASSUME NEW S \in D, S # {}
        PROVE  F[<<g[S \ {Max(S)}], names[Max(S)]>>] = Touch(g[S \ {Max(S)}], names[Max(S)])
    <3>1. Max(S) \in S
      BY <1>1, <2>4, GreatestNumber
    <3>2. names[Max(S)] \in Deferred
      BY <1>1, <3>1, ElementOfSeq
    <3>3. g[S \ {Max(S)}] \in Seq(Deferred)
      OBVIOUS
    <3> QED BY <2>2, <3>2, <3>3
  <2>5. P(g)
    BY <2>3, <2>4
  <2> QED BY <2>5
<1>3. P(iter)
  BY <1>2
<1>4. FoldLeft(Touch, lru, names) = iter[DOMAIN names]
  BY DEF FoldLeft, MapThenFoldSet
<1> HIDE DEF iter
<1> DEFINE h == [n \in 0..Len(names) |-> iter[1..n]]
<1>5. h[0] = lru
  <2>1. 1..0 = {} /\ {} \in D
    OBVIOUS
  <2> QED BY <1>3, <2>1
<1>6. ASSUME NEW n \in 1..Len(names) PROVE h[n] = Touch(h[n - 1], names[n])
  <2>0. n \in Nat /\ n - 1 \in Nat /\ Len(names) \in Nat /\ n \in 1..n
    BY <1>1
  <2>1. 1..n \in D /\ 1..n # {} /\ (1..n) \ {n} = 1..(n - 1) /\ n - 1 \in 0..Len(names)
    <3>1. n - 1 \in 0..Len(names)
      BY <2>0
    <3>2. (1..n) \ {n} = 1..(n - 1)
      BY <2>0, OneLess
    <3>3. 1..n \in D
      BY <1>1, <2>0
    <3> QED BY <2>0, <3>1, <3>2, <3>3
  <2>2. Max(1..n) = n
    BY <2>0, GreatestIs
  <2>3. iter[1..n] = Touch(iter[(1..n) \ {n}], names[n])
    BY <1>3, <2>1, <2>2
  <2>4. h[n] = iter[1..n] /\ h[n - 1] = iter[1..(n - 1)]
    BY <2>0, <2>1
  <2> QED BY <2>1, <2>3, <2>4
<1>7. h[Len(names)] = iter[DOMAIN names]
  BY <1>1
<1> HIDE DEF h
<1> QED BY <1>4, <1>5, <1>6, <1>7

(***************************************************************************)
(* The same of the history.  An operator cannot be a parameter of a lemma  *)
(* that is cited, so the argument is given for each of the two.            *)
(***************************************************************************)
LEMMA MoveInTurn ==
  ASSUME NEW lru \in Seq(Deferred), NEW names \in Seq(Deferred)
  PROVE  \E h : /\ h[0] = lru
                /\ \A n \in 1..Len(names) : h[n] = MoveToEnd(h[n - 1], names[n])
                /\ FoldLeft(MoveToEnd, lru, names) = h[Len(names)]
<1> DEFINE D == SUBSET (DOMAIN names)
           P(g) == g = [S \in D |-> IF S = {} THEN lru
                                    ELSE LET x == Max(S) IN MoveToEnd(g[S \ {x}], names[x])]
           iter == CHOOSE g : P(g)
           F == [p \in Seq(Deferred) \X Deferred |-> MoveToEnd(p[1], p[2])]
<1>1. DOMAIN names = 1..Len(names) /\ Len(names) \in Nat
  BY LenProperties
<1>2. \E g : P(g)
  <2>1. F \in [Seq(Deferred) \X Deferred -> Seq(Deferred)]
    BY LruType
  <2>2. \A x \in Seq(Deferred), y \in Deferred : F[<<x, y>>] = MoveToEnd(x, y)
    OBVIOUS
  <2> HIDE DEF F
  <2>3. PICK g \in [D -> Seq(Deferred)] : \A S \in D :
            g[S] = IF S = {} THEN lru ELSE F[<<g[S \ {Max(S)}], names[Max(S)]>>]
    <3>1. Len(names) \in 0..Len(names) /\ D = SUBSET (1..Len(names))
      BY <1>1
    <3>2. PICK g : g \in Folds(Seq(Deferred), F, lru, names, Len(names))
      BY <2>1, <3>1, FoldExists
    <3> HIDE DEF D
    <3> QED BY <3>1, <3>2 DEF Folds
  <2>4. ASSUME NEW S \in D, S # {}
        PROVE  F[<<g[S \ {Max(S)}], names[Max(S)]>>] = MoveToEnd(g[S \ {Max(S)}], names[Max(S)])
    <3>1. Max(S) \in S
      BY <1>1, <2>4, GreatestNumber
    <3>2. names[Max(S)] \in Deferred
      BY <1>1, <3>1, ElementOfSeq
    <3>3. g[S \ {Max(S)}] \in Seq(Deferred)
      OBVIOUS
    <3> QED BY <2>2, <3>2, <3>3
  <2>5. P(g)
    BY <2>3, <2>4
  <2> QED BY <2>5
<1>3. P(iter)
  BY <1>2
<1>4. FoldLeft(MoveToEnd, lru, names) = iter[DOMAIN names]
  BY DEF FoldLeft, MapThenFoldSet
<1> HIDE DEF iter
<1> DEFINE h == [n \in 0..Len(names) |-> iter[1..n]]
<1>5. h[0] = lru
  <2>1. 1..0 = {} /\ {} \in D
    OBVIOUS
  <2> QED BY <1>3, <2>1
<1>6. ASSUME NEW n \in 1..Len(names) PROVE h[n] = MoveToEnd(h[n - 1], names[n])
  <2>0. n \in Nat /\ n - 1 \in Nat /\ Len(names) \in Nat /\ n \in 1..n
    BY <1>1
  <2>1. 1..n \in D /\ 1..n # {} /\ (1..n) \ {n} = 1..(n - 1) /\ n - 1 \in 0..Len(names)
    <3>1. n - 1 \in 0..Len(names)
      BY <2>0
    <3>2. (1..n) \ {n} = 1..(n - 1)
      BY <2>0, OneLess
    <3>3. 1..n \in D
      BY <1>1, <2>0
    <3> QED BY <2>0, <3>1, <3>2, <3>3
  <2>2. Max(1..n) = n
    BY <2>0, GreatestIs
  <2>3. iter[1..n] = MoveToEnd(iter[(1..n) \ {n}], names[n])
    BY <1>3, <2>1, <2>2
  <2>4. h[n] = iter[1..n] /\ h[n - 1] = iter[1..(n - 1)]
    BY <2>0, <2>1
  <2> QED BY <2>1, <2>3, <2>4
<1>7. h[Len(names)] = iter[DOMAIN names]
  BY <1>1
<1> HIDE DEF h
<1> QED BY <1>4, <1>5, <1>6, <1>7

\* The place of a name in a list, or the next free one.
At(x, y) == IF Contains(x, y) THEN CHOOSE i \in DOMAIN x : x[i] = y ELSE Len(x) + 1

\* A list without repetition has a name in one place or in none.
LEMMA WhereItWas ==
  ASSUME NEW x \in Seq(Deferred), IsInjective(x), NEW y \in Deferred
  PROVE  /\ Len(x) \in Nat /\ At(x, y) \in 1..(Len(x) + 1)
         /\ \A i \in 1..Len(x) : x[i] = y <=> i = At(x, y)
         /\ Contains(x, y) <=> At(x, y) <= Len(x)
<1>1. DOMAIN x = 1..Len(x) /\ Len(x) \in Nat
  BY LenProperties
<1>2. CASE Contains(x, y)
  <2>1. PICK i \in 1..Len(x) : x[i] = y
    BY <1>2 DEF Contains
  <2>2. \A k \in 1..Len(x) : x[k] = y <=> k = i
    BY <1>1, <2>1 DEF IsInjective
  <2>3. At(x, y) = i
    BY <1>1, <1>2, <2>2 DEF At
  <2> QED BY <1>1, <1>2, <2>2, <2>3
<1>3. CASE ~Contains(x, y)
  <2>1. At(x, y) = Len(x) + 1
    BY <1>3 DEF At
  <2>2. \A i \in 1..Len(x) : x[i] # y
    BY <1>3 DEF Contains
  <2> QED BY <1>1, <1>3, <2>1, <2>2
<1> QED BY <1>2, <1>3

(***************************************************************************)
(* A name that is used goes behind the others, which keep their order:     *)
(* those before its place stay, those after it move one to the front.      *)
(***************************************************************************)
LEMMA Moved ==
  ASSUME NEW x \in Seq(Deferred), IsInjective(x), NEW y \in Deferred, NEW z, z = MoveToEnd(x, y)
  PROVE  /\ z \in Seq(Deferred) /\ IsInjective(z)
         /\ Len(z) = IF Contains(x, y) THEN Len(x) ELSE Len(x) + 1
         /\ Len(z) >= 1 /\ z[Len(z)] = y
         /\ \A i \in 1..(Len(z) - 1) : z[i] = IF i < At(x, y) THEN x[i] ELSE x[i + 1]
<1> DEFINE p == At(x, y)
           w == Without(y)[x]
<1>0. /\ Len(x) \in Nat /\ p \in 1..(Len(x) + 1) /\ DOMAIN x = 1..Len(x)
      /\ \A i \in 1..Len(x) : x[i] = y <=> i = p
      /\ Contains(x, y) <=> p <= Len(x)
  BY WhereItWas, LenProperties
<1>1. w = IF Contains(x, y) THEN RemoveAt(x, p) ELSE x
  BY DEF Without, At
<1>2. z = Append(w, y)
  BY DEF MoveToEnd
<1> HIDE DEF p, w
<1>3. /\ w \in Seq(Deferred)
      /\ Len(w) = IF Contains(x, y) THEN Len(x) - 1 ELSE Len(x)
      /\ \A i \in 1..Len(w) : w[i] = IF i < p THEN x[i] ELSE x[i + 1]
  <2>1. CASE Contains(x, y)
    <3> DEFINE before == SubSeq(x, 1, p - 1)
               after == SubSeq(x, p + 1, Len(x))
    <3>1. /\ before \in Seq(Deferred) /\ Len(before) = p - 1
          /\ \A i \in 1..(p - 1) : before[i] = x[i]
      BY <1>0, <2>1
    <3>2. /\ after \in Seq(Deferred) /\ Len(after) = Len(x) - p
          /\ \A i \in 1..(Len(x) - p) : after[i] = x[p + i]
      <4>1. p \in Int /\ p + 1 \in Int /\ p + 1 <= Len(x) + 1 /\ \A i \in (p + 1)..Len(x) : x[i] \in Deferred
        BY <1>0, <2>1
      <4>2. /\ after \in Seq(Deferred)
            /\ Len(after) = IF p + 1 <= Len(x) THEN Len(x) - (p + 1) + 1 ELSE 0
            /\ \A i \in 1..(Len(x) - (p + 1) + 1) : after[i] = x[p + 1 + i - 1]
        BY <1>0, <4>1, SubSeqProperties
      <4> HIDE DEF after
      <4>3. Len(after) = Len(x) - p
        <5>1. p <= Len(x) /\ p \in Int /\ Len(x) \in Int
          BY <1>0, <2>1
        <5>2. CASE p + 1 <= Len(x)
          BY <4>2, <5>1, <5>2
        <5>3. CASE ~(p + 1 <= Len(x))
          BY <4>2, <5>1, <5>3
        <5> QED BY <5>2, <5>3
      <4>4. ASSUME NEW i \in 1..(Len(x) - p) PROVE after[i] = x[p + i]
        <5>1. i \in Int /\ i \in 1..(Len(x) - (p + 1) + 1) /\ p + 1 + i - 1 = p + i
          BY <1>0, <4>1
        <5> QED BY <4>2, <5>1
      <4> QED BY <4>2, <4>3, <4>4
    <3>3. w = before \o after
      BY <1>1, <2>1 DEF RemoveAt
    <3> HIDE DEF before, after
    <3>4. w \in Seq(Deferred) /\ Len(w) = Len(x) - 1
      <4>1. w \in Seq(Deferred) /\ Len(w) = Len(before) + Len(after)
        BY <3>1, <3>2, <3>3, ConcatProperties
      <4> QED BY <1>0, <3>1, <3>2, <4>1
    <3>5. ASSUME NEW i \in 1..Len(w) PROVE w[i] = IF i < p THEN x[i] ELSE x[i + 1]
      <4>1. CASE i < p
        BY <1>0, <3>1, <3>2, <3>3, <3>4, <4>1
      <4>2. CASE ~(i < p)
        <5>1. w[i] = after[i - (p - 1)] /\ i - (p - 1) \in 1..(Len(x) - p)
          BY <1>0, <3>1, <3>2, <3>3, <3>4, <4>2
        <5> QED BY <1>0, <3>2, <3>4, <4>2, <5>1
      <4> QED BY <4>1, <4>2
    <3> QED BY <2>1, <3>4, <3>5
  <2>2. CASE ~Contains(x, y)
    BY <1>0, <1>1, <2>2
  <2> QED BY <2>1, <2>2
<1>4. /\ z \in Seq(Deferred) /\ Len(z) = Len(w) + 1 /\ z[Len(z)] = y /\ Len(w) \in Nat
      /\ \A i \in 1..Len(w) : z[i] = w[i]
  BY <1>2, <1>3
<1>5. \A i \in 1..(Len(z) - 1) : z[i] = IF i < p THEN x[i] ELSE x[i + 1]
  BY <1>3, <1>4
<1>9. /\ Len(w) <= Len(x) /\ Len(z) - 1 = Len(w) /\ p \in Nat
      /\ \A i \in 1..Len(w) : i >= p => i + 1 \in 1..Len(x)
  <2>1. CASE Contains(x, y)
    BY <1>0, <1>3, <1>4, <2>1
  <2>2. CASE ~Contains(x, y)
    BY <1>0, <1>3, <1>4, <2>2
  <2> QED BY <2>1, <2>2
<1>6. ASSUME NEW i \in 1..(Len(z) - 1) PROVE z[i] # y
  <2>1. i \in 1..Len(w) /\ i \in 1..Len(x) /\ i \in Nat
    BY <1>0, <1>4, <1>9
  <2>2. CASE i < p
    BY <1>0, <1>5, <1>9, <2>1, <2>2
  <2>3. CASE ~(i < p)
    <3>1. i + 1 \in 1..Len(x) /\ i + 1 # p
      BY <1>9, <2>1, <2>3
    <3> QED BY <1>0, <1>5, <2>3, <3>1
  <2> QED BY <2>2, <2>3
<1>7. ASSUME NEW i \in 1..Len(z), NEW k \in 1..Len(z), z[i] = z[k] PROVE i = k
  <2>1. \A a, b \in 1..Len(x) : x[a] = x[b] => a = b
    BY <1>0 DEF IsInjective
  <2>2. CASE i = Len(z) \/ k = Len(z)
    BY <1>4, <1>6, <1>7, <2>2
  <2>3. CASE i \in 1..(Len(z) - 1) /\ k \in 1..(Len(z) - 1)
    <3> DEFINE was(n) == IF n < p THEN n ELSE n + 1
    <3>1. ASSUME NEW n \in 1..(Len(z) - 1) PROVE was(n) \in 1..Len(x) /\ z[n] = x[was(n)]
      <4>1. n \in Nat /\ n \in 1..Len(w) /\ n \in 1..Len(x)
        BY <1>0, <1>4, <1>9
      <4> QED BY <1>5, <1>9, <4>1
    <3>2. was(i) = was(k)
      BY <1>7, <2>1, <2>3, <3>1
    <3> QED BY <1>0, <1>4, <2>3, <3>2
  <2> QED BY <1>4, <2>2, <2>3
<1>8. IsInjective(z)
  BY <1>4, <1>7, LenProperties DEF IsInjective
<1> QED BY <1>3, <1>4, <1>5, <1>8 DEF p

(***************************************************************************)
(* A chat's tools are the end of the history of their uses: all of it, or  *)
(* as many as the capacity.                                                *)
(***************************************************************************)
Recent(x, y) ==
    /\ x \in Seq(Deferred) /\ IsInjective(x) /\ y \in Seq(Deferred) /\ IsInjective(y)
    /\ Len(x) <= Capacity /\ Len(x) <= Len(y)
    /\ \A i \in 1..Len(x) : x[i] = y[i + (Len(y) - Len(x))]
    /\ Len(x) = Capacity \/ Len(x) = Len(y)

(***************************************************************************)
(* One more use, of a tool that is loaded, that was evicted or that is new,*)
(* evicts the one used longest ago if there is no room.                    *)
(***************************************************************************)
LEMMA TouchIsRecent ==
  ASSUME NEW x, NEW y, Recent(x, y), NEW name \in Deferred
  PROVE  Recent(Touch(x, name), MoveToEnd(y, name))
<1> DEFINE grown == MoveToEnd(x, name)
           z == MoveToEnd(y, name)
           d == Len(y) - Len(x)
<1>0. /\ x \in Seq(Deferred) /\ IsInjective(x) /\ y \in Seq(Deferred) /\ IsInjective(y)
      /\ Len(x) \in Nat /\ Len(y) \in Nat /\ d \in Nat /\ Capacity \in Nat \ {0}
      /\ Len(x) <= Capacity /\ Len(x) <= Len(y)
      /\ \A i \in 1..Len(x) : x[i] = y[i + d]
      /\ Len(x) = Capacity \/ d = 0
  BY ToolAssumption, LenProperties DEF Recent
<1>1. /\ grown \in Seq(Deferred) /\ IsInjective(grown)
      /\ Len(grown) = IF Contains(x, name) THEN Len(x) ELSE Len(x) + 1
      /\ Len(grown) >= 1 /\ grown[Len(grown)] = name
      /\ \A i \in 1..(Len(grown) - 1) : grown[i] = IF i < At(x, name) THEN x[i] ELSE x[i + 1]
  BY <1>0, Moved
<1>2. /\ z \in Seq(Deferred) /\ IsInjective(z)
      /\ Len(z) = IF Contains(y, name) THEN Len(y) ELSE Len(y) + 1
      /\ Len(z) >= 1 /\ z[Len(z)] = name
      /\ \A i \in 1..(Len(z) - 1) : z[i] = IF i < At(y, name) THEN y[i] ELSE y[i + 1]
  BY <1>0, Moved
<1>3. /\ At(x, name) \in 1..(Len(x) + 1) /\ \A i \in 1..Len(x) : x[i] = name <=> i = At(x, name)
      /\ Contains(x, name) <=> At(x, name) <= Len(x)
      /\ At(y, name) \in 1..(Len(y) + 1) /\ \A i \in 1..Len(y) : y[i] = name <=> i = At(y, name)
      /\ Contains(y, name) <=> At(y, name) <= Len(y)
  BY <1>0, WhereItWas
<1>4. Touch(x, name) = IF Len(grown) > Capacity THEN Tail(grown) ELSE grown
  BY DEF Touch
<1> HIDE DEF grown, z, d
<1>d. d = Len(y) - Len(x)
  BY DEF d
\* It was loaded: nothing is evicted.
<1>5. CASE Contains(x, name)
  <2>1. Touch(x, name) = grown /\ Len(grown) = Len(x)
    BY <1>0, <1>1, <1>4, <1>5
  <2>2. At(y, name) = At(x, name) + d
    <3>1. At(x, name) \in 1..Len(x) /\ x[At(x, name)] = name
      BY <1>0, <1>3, <1>5
    <3>2. At(x, name) + d \in 1..Len(y)
      BY <1>0, <1>d, <3>1
    <3> QED BY <1>0, <1>3, <3>1, <3>2
  <2>3. Contains(y, name) /\ Len(z) = Len(y)
    BY <1>0, <1>2, <1>3, <1>5, <1>d, <2>2
  <2>4. ASSUME NEW i \in 1..Len(grown) PROVE grown[i] = z[i + d]
    <3>1. CASE i = Len(grown)
      BY <1>0, <1>1, <1>2, <1>d, <2>1, <2>3, <3>1
    <3>2. CASE i # Len(grown)
      <4>1. i \in 1..(Len(grown) - 1) /\ i + d \in 1..(Len(z) - 1) /\ i \in 1..Len(x) /\ i + 1 \in 1..Len(x)
        BY <1>0, <1>d, <2>1, <2>3, <3>2
      <4>2. i < At(x, name) <=> i + d < At(y, name)
        BY <1>0, <1>3, <2>2
      <4>3. x[i] = y[i + d] /\ x[i + 1] = y[i + d + 1]
        <5>1. i + 1 + d = i + d + 1
          BY <1>0
        <5> QED BY <1>0, <4>1, <5>1
      <4> QED BY <1>1, <1>2, <4>1, <4>2, <4>3
    <3> QED BY <3>1, <3>2
  <2>5. Len(z) - Len(grown) = d /\ Len(grown) <= Capacity /\ Len(grown) <= Len(z)
        /\ (Len(grown) = Capacity \/ Len(grown) = Len(z))
    BY <1>0, <1>d, <2>1, <2>3
  <2>6. Recent(grown, z)
    BY <1>1, <1>2, <2>4, <2>5 DEF Recent
  <2> QED BY <2>1, <2>6 DEF z
\* It was not, but there is room for it: every tool ever used is loaded.
<1>6. CASE ~Contains(x, name) /\ Len(x) # Capacity
  <2>1. Touch(x, name) = grown /\ d = 0 /\ Len(y) = Len(x) /\ Len(grown) = Len(x) + 1
    BY <1>0, <1>1, <1>4, <1>6, <1>d
  <2>2. \A i \in 1..Len(x) : x[i] = y[i]
    BY <1>0, <2>1
  <2>3. x = y
    BY <1>0, <2>1, <2>2, SeqEqual
  <2>4. z = grown
    BY <2>3 DEF z, grown
  <2>5. Len(grown) <= Capacity /\ Len(grown) \in Nat /\ \A i \in 1..Len(grown) : i + (Len(grown) - Len(grown)) = i
    BY <1>0, <1>6, <2>1
  <2>6. Recent(grown, grown)
    <3>1. \A i \in 1..Len(grown) : grown[i] = grown[i + (Len(grown) - Len(grown))]
      BY <2>5
    <3> QED BY <1>1, <2>5, <3>1 DEF Recent
  <2> QED BY <2>1, <2>4, <2>6 DEF z
\* The one used longest ago makes room.
<1>7. CASE ~Contains(x, name) /\ Len(x) = Capacity
  <2> DEFINE new == Touch(x, name)
  <2>1. /\ new = Tail(grown) /\ Len(grown) = Capacity + 1 /\ At(x, name) = Len(x) + 1
    BY <1>0, <1>1, <1>3, <1>4, <1>7
  <2>2. /\ new \in Seq(Deferred) /\ Len(new) = Capacity
        /\ \A i \in 1..Capacity : new[i] = grown[i + 1]
    BY <1>0, <1>1, <2>1, HeadTailProperties, EmptySeq
  <2> HIDE DEF new
  <2>3. IsInjective(new)
    <3>1. DOMAIN new = 1..Capacity /\ DOMAIN grown = 1..(Capacity + 1)
      BY <1>1, <2>1, <2>2, LenProperties
    <3>2. \A a, b \in 1..(Capacity + 1) : grown[a] = grown[b] => a = b
      BY <1>1, <3>1 DEF IsInjective
    <3>3. ASSUME NEW a \in 1..Capacity, NEW b \in 1..Capacity, new[a] = new[b] PROVE a = b
      <4>1. a + 1 \in 1..(Capacity + 1) /\ b + 1 \in 1..(Capacity + 1) /\ grown[a + 1] = grown[b + 1]
        BY <1>0, <2>2, <3>3
      <4> QED BY <1>0, <3>2, <4>1
    <3> QED BY <3>1, <3>3 DEF IsInjective
  <2>4. \A i \in 1..(Capacity - 1) : new[i] = x[i + 1]
    <3> SUFFICES ASSUME NEW i \in 1..(Capacity - 1) PROVE new[i] = x[i + 1]
      OBVIOUS
    <3>1. i \in 1..Capacity /\ i + 1 \in 1..(Len(grown) - 1) /\ i + 1 < At(x, name)
      BY <1>0, <1>7, <2>1
    <3> QED BY <1>1, <2>2, <3>1
  <2>5. new[Capacity] = name
    BY <1>0, <1>1, <2>1, <2>2
  <2>6. Contains(y, name) => At(y, name) <= d
    <3> SUFFICES ASSUME Contains(y, name), At(y, name) > d PROVE FALSE
      BY <1>0, <1>3
    <3>1. At(y, name) \in 1..Len(y) /\ y[At(y, name)] = name
      BY <1>0, <1>3
    <3>2. At(y, name) - d \in 1..Len(x) /\ At(y, name) - d + d = At(y, name)
      BY <1>0, <1>3, <1>d, <3>1
    <3>3. x[At(y, name) - d] = name
      BY <1>0, <3>1, <3>2
    <3> QED BY <1>7, <3>2, <3>3 DEF Contains
  <2>7. CASE Contains(y, name)
    <3>1. Len(z) = Len(y) /\ Len(z) - Len(new) = d
      BY <1>0, <1>2, <1>7, <1>d, <2>2, <2>7
    <3>2. ASSUME NEW i \in 1..Capacity PROVE new[i] = z[i + d]
      <4>1. CASE i = Capacity
        BY <1>0, <1>2, <1>7, <1>d, <2>5, <3>1, <4>1
      <4>2. CASE i # Capacity
        <5>1. i \in 1..(Capacity - 1) /\ i + 1 \in 1..Len(x) /\ i + d \in 1..(Len(z) - 1)
          BY <1>0, <1>7, <1>d, <3>1, <4>2
        <5>2. ~(i + d < At(y, name)) /\ i + d + 1 = i + 1 + d
          BY <1>0, <1>3, <2>6, <2>7
        <5>3. z[i + d] = y[i + d + 1]
          BY <1>2, <5>1, <5>2
        <5>4. x[i + 1] = y[i + 1 + d]
          BY <1>0, <5>1
        <5> QED BY <2>4, <5>1, <5>2, <5>3, <5>4
      <4> QED BY <4>1, <4>2
    <3>3. Len(new) <= Len(z) /\ Len(new) <= Capacity
      BY <1>0, <1>7, <1>d, <2>2, <3>1
    <3>4. Recent(new, z)
      BY <1>2, <2>2, <2>3, <3>1, <3>2, <3>3 DEF Recent
    <3> QED BY <3>4 DEF new, z
  <2>8. CASE ~Contains(y, name)
    <3>1. Len(z) = Len(y) + 1 /\ Len(z) - Len(new) = d + 1 /\ At(y, name) = Len(y) + 1
      BY <1>0, <1>2, <1>3, <1>7, <1>d, <2>2, <2>8
    <3>2. ASSUME NEW i \in 1..Capacity PROVE new[i] = z[i + (d + 1)]
      <4>1. CASE i = Capacity
        BY <1>0, <1>2, <1>7, <1>d, <2>5, <3>1, <4>1
      <4>2. CASE i # Capacity
        <5>1. /\ i \in 1..(Capacity - 1) /\ i + 1 \in 1..Len(x) /\ i + (d + 1) \in 1..(Len(z) - 1)
              /\ i + (d + 1) < At(y, name) /\ i + (d + 1) = i + 1 + d
          BY <1>0, <1>7, <1>d, <3>1, <4>2
        <5>2. z[i + (d + 1)] = y[i + 1 + d]
          BY <1>2, <5>1
        <5>3. x[i + 1] = y[i + 1 + d]
          BY <1>0, <5>1
        <5> QED BY <2>4, <5>1, <5>2, <5>3
      <4> QED BY <4>1, <4>2
    <3>3. Len(new) <= Len(z) /\ Len(new) <= Capacity
      BY <1>0, <1>7, <1>d, <2>2, <3>1
    <3>4. Recent(new, z)
      BY <1>2, <2>2, <2>3, <3>1, <3>2, <3>3 DEF Recent
    <3> QED BY <3>4 DEF new, z
  <2> QED BY <2>7, <2>8
<1> QED BY <1>5, <1>6, <1>7 DEF z

(***************************************************************************)
(* The tools a turn has used, one after the other.                         *)
(***************************************************************************)
LEMMA UseIsRecent ==
  ASSUME NEW x, NEW y, Recent(x, y), NEW names \in Seq(Deferred)
  PROVE  Recent(FoldLeft(Touch, x, names), FoldLeft(MoveToEnd, y, names))
<1>0. x \in Seq(Deferred) /\ y \in Seq(Deferred) /\ Len(names) \in Nat
  BY LenProperties DEF Recent
<1>1. PICK h : /\ h[0] = x
               /\ \A n \in 1..Len(names) : h[n] = Touch(h[n - 1], names[n])
               /\ FoldLeft(Touch, x, names) = h[Len(names)]
  BY <1>0, TouchInTurn
<1>2. PICK r : /\ r[0] = y
               /\ \A n \in 1..Len(names) : r[n] = MoveToEnd(r[n - 1], names[n])
               /\ FoldLeft(MoveToEnd, y, names) = r[Len(names)]
  BY <1>0, MoveInTurn
<1> DEFINE Bad == {n \in 0..Len(names) : ~Recent(h[n], r[n])}
<1>3. SUFFICES ASSUME Bad # {} PROVE FALSE
  BY <1>0, <1>1, <1>2
<1>4. PICK n \in Bad : \A k \in Bad : n <= k
  <2>1. Bad \in SUBSET Nat
    BY <1>0
  <2> HIDE DEF Bad
  <2> QED BY <1>3, <2>1, LeastNumber
<1>5. n # 0
  BY <1>1, <1>2
<1>6. n \in 1..Len(names) /\ n - 1 \in 0..Len(names) /\ n - 1 \notin Bad
  BY <1>0, <1>4, <1>5
<1>7. Recent(h[n - 1], r[n - 1]) /\ names[n] \in Deferred
  BY <1>6, ElementOfSeq
<1>8. Recent(h[n], r[n])
  BY <1>1, <1>2, <1>6, <1>7, TouchIsRecent
<1> QED BY <1>4, <1>8

(***************************************************************************)
(* Loop detection ends a run of calls, so a run that goes on has counted   *)
(* fewer repetitions than it takes.                                        *)
(***************************************************************************)
RunInv ==
    /\ Recent(unlocked, recency)
    /\ stage \in {"ask", "exec"} => repeats < RepeatLimit

(***************************************************************************)
(* Every step of the turn, its retries, rounds and calls keeps the types,  *)
(* and what a chat has loaded is the end of the history.                   *)
(***************************************************************************)
LEMMA ToolStepType ==
  ToolTypeOK /\ RunInv /\ [ToolNext]_toolVars => ToolTypeOK' /\ RunInv'
<1> SUFFICES ASSUME ToolTypeOK, RunInv, [ToolNext]_toolVars PROVE ToolTypeOK' /\ RunInv'
  OBVIOUS
<1>0. /\ Capacity \in Nat \ {0} /\ MaxIterations \in Nat \ {0} /\ Plans \in Nat \ {0}
      /\ MaxRetries \in Nat /\ MaxTurns \in Nat /\ RepeatLimit = 3
      /\ Batches \subseteq Seq([tool : AlwaysOn \cup Deferred, args : Nat]) \ {<<>>}
      /\ <<>> \in Signatures /\ \A b \in Batches : Signature(b) \in Signatures
  BY ToolAssumption DEF RepeatLimit, Signatures
<1> USE DEF ToolTypeOK, RunInv, Outcomes
<1>1. ASSUME NEW n \in 1..Plans, StartRun(n), UNCHANGED <<installed, searching, unlocked, recency>>,
             turnCount' \in 0..MaxTurns, outcome' \in Outcomes
      PROVE  ToolTypeOK' /\ RunInv'
  <2>1. visible' \subseteq AlwaysOn \cup Deferred
    BY <1>1 DEF StartRun, Preloaded, ToSet
  <2> QED BY <1>0, <1>1, <2>1 DEF StartRun
<1>2. CASE ToolTurnBegins
  <2>1. 1 \in 1..Plans
    BY <1>0
  <2>2. turnCount' \in 0..MaxTurns
    BY <1>0, <1>2 DEF ToolTurnBegins
  <2>3. /\ StartRun(1) /\ outcome' \in Outcomes
        /\ UNCHANGED <<installed, searching, unlocked, recency>>
    BY <1>2 DEF ToolTurnBegins
  <2> QED BY <1>1, <2>1, <2>2, <2>3
<1>3. ASSUME NEW how \in {"answer", "summary"}, Finish(how)
      PROVE  ToolTypeOK' /\ RunInv'
  <2>1. Recent(unlocked', recency')
    BY <1>3, UseIsRecent DEF Finish
  <2>2. unlocked' \in Seq(Deferred) /\ Len(unlocked') <= Capacity /\ IsInjective(unlocked')
        /\ recency' \in Seq(Deferred) /\ IsInjective(recency')
    BY <2>1 DEF Recent
  <2>3. stage' = "idle" /\ outcome' = how /\ todo' = <<>>
        /\ UNCHANGED <<installed, searching, turnCount, attempt, round, tries, visible, last, repeats, used,
                       ranSignatures>>
    BY <1>3 DEF Finish, tracking
  <2> QED BY <2>1, <2>2, <2>3
<1>4. ASSUME NEW how \in Outcomes, Abandon(how)
      PROVE  ToolTypeOK' /\ RunInv'
  BY <1>4 DEF Abandon, kept, tracking
<1>5. CASE ModelAnswers \/ Summarise
  BY <1>3, <1>5 DEF ModelAnswers, Summarise
<1>6. CASE ModelRefuses
  <2>1. attempt < Plans => attempt + 1 \in 1..Plans
    BY <1>0
  <2> QED BY <1>1, <1>4, <1>6, <2>1 DEF ModelRefuses, kept
<1>7. CASE RequestRetried
  BY <1>0, <1>7 DEF RequestRetried, kept, tracking
<1>8. CASE RequestFails \/ ToolTurnStops
  BY <1>4, <1>8 DEF RequestFails, ToolTurnStops
<1>9. ASSUME NEW b \in Batches, ModelCalls(b) PROVE ToolTypeOK' /\ RunInv'
  <2> DEFINE sig == Signature(b)
  <2>1. sig \in Signatures /\ b # <<>> /\ b \in Seq([tool : AlwaysOn \cup Deferred, args : Nat])
    BY <1>0
  <2>2. /\ stage = "ask" /\ last' = sig /\ tries' = 0
        /\ repeats' = IF sig # <<>> /\ sig = last THEN repeats + 1 ELSE 1
        /\ UNCHANGED <<installed, searching, unlocked, recency, turnCount, attempt, round, visible, used,
                       outcome>>
    BY <1>9 DEF ModelCalls, Repeated, kept
  <2>3. /\ Looping(repeats') => stage' = "sum" /\ UNCHANGED <<todo, ranSignatures>>
        /\ ~Looping(repeats') => stage' = "exec" /\ todo' = b /\ ranSignatures' = <<ranSignatures[2], sig>>
    BY <1>9 DEF ModelCalls
  <2> HIDE DEF sig
  <2>4. repeats' \in 0..RepeatLimit
    BY <1>0, <2>2
  <2>5. stage' \in {"sum", "exec"} /\ (stage' \in {"ask", "exec"} => repeats' < RepeatLimit)
    BY <1>0, <2>3, <2>4 DEF Looping
  <2>6. ranSignatures' \in Signatures \X Signatures
    BY <2>1, <2>3
  <2>7. todo' \in Seq([tool : AlwaysOn \cup Deferred, args : Nat]) /\ (stage' = "exec" <=> todo' # <<>>)
    BY <2>1, <2>2, <2>3
  <2>8. /\ installed' \subseteq Deferred /\ searching' \in BOOLEAN
        /\ unlocked' \in Seq(Deferred) /\ Len(unlocked') <= Capacity /\ IsInjective(unlocked')
        /\ recency' \in Seq(Deferred) /\ IsInjective(recency') /\ turnCount' \in 0..MaxTurns
        /\ Recent(unlocked', recency')
    BY <2>2
  <2>9. /\ attempt' \in 1..Plans /\ round' \in 1..MaxIterations /\ tries' \in 0..MaxRetries
        /\ visible' \subseteq AlwaysOn \cup Deferred /\ used' \in Seq(Deferred)
        /\ last' \in Signatures /\ outcome' \in Outcomes
    BY <1>0, <2>1, <2>2
  <2> QED BY <2>4, <2>5, <2>6, <2>7, <2>8, <2>9
<1>10. ASSUME stage = "exec", NextCall, installed' \subseteq Deferred,
              visible' \subseteq AlwaysOn \cup Deferred, used' \in Seq(Deferred)
       PROVE  ToolTypeOK' /\ RunInv'
  <2>1. todo # <<>> /\ todo' = Tail(todo) /\ todo' \in Seq([tool : AlwaysOn \cup Deferred, args : Nat])
    BY <1>10, HeadTailProperties DEF NextCall
  <2>2. UNCHANGED <<searching, unlocked, recency, turnCount, attempt, tries, last, repeats, outcome,
                    ranSignatures>>
    BY <1>10 DEF NextCall
  <2>3. /\ round' \in 1..MaxIterations
        /\ stage' \in {"exec", "sum", "ask"} /\ (stage' = "exec" <=> todo' # <<>>)
    <3>1. CASE todo' # <<>>
      BY <1>10, <2>1, <3>1 DEF NextCall
    <3>2. CASE todo' = <<>> /\ round = MaxIterations
      BY <1>10, <2>1, <3>2 DEF NextCall
    <3>3. CASE todo' = <<>> /\ round # MaxIterations
      <4>1. stage' = "ask" /\ round' = round + 1
        BY <1>10, <2>1, <3>3 DEF NextCall
      <4>2. round + 1 \in 1..MaxIterations
        BY <1>0, <3>3
      <4> QED BY <3>3, <4>1, <4>2
    <3> QED BY <3>1, <3>2, <3>3
  <2> QED BY <1>10, <2>1, <2>2, <2>3
<1>11. CASE CallNotLoaded \/ CallStopped
  BY <1>10, <1>11 DEF CallNotLoaded, CallStopped
<1>12. CASE CallReturns
  <2>1. Head(todo).tool \in AlwaysOn \cup Deferred
    BY <1>12, HeadTailProperties DEF CallReturns
  <2>2. used' \in Seq(Deferred)
    BY <1>12 DEF CallReturns
  <2>3. visible' \subseteq AlwaysOn \cup Deferred
    BY <1>12 DEF CallReturns, Findable
  <2>4. installed' \subseteq Deferred
    BY <1>12 DEF CallReturns, Deferred
  <2> QED BY <1>10, <1>12, <2>2, <2>3, <2>4 DEF CallReturns
<1>13. CASE UNCHANGED toolVars
  BY <1>13 DEF toolVars
<1> QED
  BY <1>2, <1>5, <1>6, <1>7, <1>8, <1>9, <1>11, <1>12, <1>13 DEF ToolNext, ToolSteps

\* A chat begins with no tool loaded and no use of one.
LEMMA ToolBegins == ToolInit => ToolTypeOK /\ RunInv
<1> SUFFICES ASSUME ToolInit PROVE ToolTypeOK /\ RunInv
  OBVIOUS
<1>1. Recent(<<>>, <<>>)
  BY ToolAssumption DEF Recent, IsInjective
<1>2. <<>> \in Signatures /\ RepeatLimit = 3
  BY DEF Signatures, RepeatLimit
<1> QED BY <1>1, <1>2, ToolAssumption DEF ToolInit, ToolTypeOK, RunInv, Outcomes, Recent

\* A list that agrees with the end of the history is that end.
LEMMA RecentIsLoaded == RunInv => LoadedAreRecent
<1> SUFFICES ASSUME RunInv PROVE LoadedAreRecent
  OBVIOUS
<1> DEFINE d == Len(recency) - Len(unlocked)
<1>1. /\ unlocked \in Seq(Deferred) /\ recency \in Seq(Deferred)
      /\ Len(unlocked) \in Nat /\ Len(recency) \in Nat /\ d \in Nat /\ Len(unlocked) <= Len(recency)
      /\ \A i \in 1..Len(unlocked) : unlocked[i] = recency[i + d]
      /\ Len(unlocked) = Capacity \/ d = 0
  BY LenProperties DEF RunInv, Recent
<1> DEFINE end == SubSeq(recency, d + 1, Len(recency))
<1>2. /\ end \in Seq(Deferred) /\ Len(end) = Len(unlocked)
      /\ \A i \in 1..Len(unlocked) : end[i] = recency[i + d]
  <2>1. d + 1 \in Int /\ Len(recency) \in Int /\ \A i \in (d + 1)..Len(recency) : recency[i] \in Deferred
    BY <1>1
  <2> HIDE DEF d
  <2>2. /\ end \in Seq(Deferred)
        /\ Len(end) = IF d + 1 <= Len(recency) THEN Len(recency) - (d + 1) + 1 ELSE 0
        /\ \A i \in 1..(Len(recency) - (d + 1) + 1) : end[i] = recency[d + 1 + i - 1]
    BY <2>1, SubSeqProperties
  <2> HIDE DEF end
  <2>3. Len(recency) - d = Len(unlocked)
    BY <1>1 DEF d
  <2>4. Len(end) = Len(unlocked)
    BY <1>1, <2>2, <2>3
  <2>5. ASSUME NEW i \in 1..Len(unlocked) PROVE end[i] = recency[i + d]
    <3>1. i \in 1..(Len(recency) - (d + 1) + 1) /\ d + 1 + i - 1 = i + d
      BY <1>1, <2>3
    <3> QED BY <2>2, <3>1
  <2> QED BY <2>2, <2>4, <2>5
<1> HIDE DEF end
<1>3. unlocked = end
  BY <1>1, <1>2, SeqEqual
<1>4. end = SubSeq(recency, Len(recency) - Len(unlocked) + 1, Len(recency))
  BY DEF end
<1>5. d = 0 => unlocked = recency
  BY <1>1, SeqEqual
<1> QED BY <1>1, <1>3, <1>4, <1>5 DEF LoadedAreRecent

(***************************************************************************)
(* The tools of the next turn are the Capacity ones used last in answered  *)
(* turns: for every set of tools, capacity and number of uses, whatever was*)
(* searched for, refused, retried, evicted or stopped in between.          *)
(***************************************************************************)
THEOREM LoadedAreTheRecent == ToolSpec => [](ToolTypeOK /\ LoadedAreRecent)
<1> QED BY ToolBegins, ToolStepType, RecentIsLoaded, PTL DEF ToolSpec

-----------------------------------------------------------------------------
(* Shell commands.                                                          *)

(***************************************************************************)
(* A task in the registry is one that runs in the background and has its   *)
(* log; a process alive is that of a call that waits in the foreground or  *)
(* in the registry.  That is kept because an entry leaves the registry     *)
(* only with its process killed (_bg_kill) or by an eviction, which is due *)
(* only when the output has ended, after the process.                      *)
(***************************************************************************)
ShellInv ==
    \A c \in Commands :
        /\ proc[c] = "alive" => pc[c] = "fg" \/ c \in registered
        /\ c \in registered => pc[c] = "bg"
        /\ pc[c] = "fg" \/ c \in registered => c \in log
        /\ c \in evicting => pc[c] = "bg" /\ proc[c] # "alive"
        /\ pump[c] = "done" => proc[c] # "alive"

(***************************************************************************)
(* Every step of a shell call, of the timers and callbacks, and of         *)
(* task_output and task_stop keeps the types.                              *)
(***************************************************************************)
LEMMA ShellStepType ==
  ShellTypeOK /\ ShellInv /\ [ShellNext]_shellVars => ShellTypeOK' /\ ShellInv'
<1> SUFFICES ASSUME ShellTypeOK, ShellInv, [ShellNext]_shellVars
             PROVE  ShellTypeOK' /\ ShellInv'
  OBVIOUS
<1> USE DEF ShellTypeOK, ShellInv, call, output
<1>1. CASE UNCHANGED shellVars
  BY <1>1 DEF shellVars
<1>2. ASSUME NEW c \in Commands, ShellCall(c) PROVE ShellTypeOK' /\ ShellInv'
  <2>1. CASE StartForeground(c)
    BY <2>1 DEF StartForeground, Launch
  <2>5. CASE StartBackground(c)
    <3>1. PICK limit \in {"none", "ahead"} : Launch(c, limit) /\ Register(c, limit)
      BY <2>5 DEF StartBackground
    <3>2. pc' = [pc EXCEPT ![c] = "bg"] /\ UNCHANGED <<evicting, waiting, broken>>
      BY <2>5 DEF StartBackground
    <3> QED BY <3>1, <3>2 DEF Launch, Register
  <2>6. CASE StartFails(c)
    BY <2>6 DEF StartFails
  <2>2. CASE Promote(c)
    <3>1. /\ pc[c] = "fg" /\ pc' = [pc EXCEPT ![c] = "bg"]
          /\ registered' = registered \cup {c} /\ timer' = timer \cup {c}
          /\ UNCHANGED <<proc, pump, deadline, log, waiting, broken>>
      BY <2>2 DEF Promote, Register
    <3>2. evicting' = evicting \/ (evicting' = evicting \cup {c} /\ pump[c] = "done")
      BY <2>2 DEF Promote
    <3>3. c \in log
      BY <3>1
    <3>4. ShellTypeOK'
      BY <3>1, <3>2
    <3> QED BY <3>1, <3>2, <3>3, <3>4
  <2>3. CASE Answered(c) \/ Finalize(c) \/ CancelFinalize(c)
    BY <2>3 DEF Answered, Finalize, CancelFinalize, StopPump
  <2>4. CASE TimeOut(c) \/ CancelForeground(c)
    BY <2>4 DEF TimeOut, CancelForeground, StopPump, KillGroup
  <2> QED BY <1>2, <2>1, <2>2, <2>3, <2>4, <2>5, <2>6 DEF ShellCall
<1>3. ASSUME NEW c \in Commands, Exit(c) \/ DeadlinePasses(c) \/ PumpEnds(c)
      PROVE  ShellTypeOK' /\ ShellInv'
  BY <1>3 DEF Exit, DeadlinePasses, PumpEnds
<1>4. ASSUME NEW c \in Commands, BgKill(c), c \in registered PROVE ShellTypeOK' /\ ShellInv'
  BY <1>4 DEF BgKill, KillGroup, StopPump
<1>5. ASSUME NEW c \in Commands, Evict(c) \/ OutputBlocks(c) \/ OutputReturns(c)
      PROVE  ShellTypeOK' /\ ShellInv'
  BY <1>5 DEF Evict, OutputBlocks, OutputReturns
<1> SUFFICES ASSUME NEW c \in Commands, ShellStep(c) PROVE ShellTypeOK' /\ ShellInv'
  BY <1>1 DEF ShellNext
<1> QED BY <1>2, <1>3, <1>4, <1>5 DEF ShellStep, TimerFires, OutputExpired, TaskStop

\* Before the first command nothing runs.
LEMMA ShellBegins == ShellInit => ShellTypeOK /\ ShellInv
BY DEF ShellInit, ShellTypeOK, ShellInv

\* The invariant has what is promised.
LEMMA ShellIsEnough == ShellTypeOK /\ ShellInv => LiveIsReachable
BY DEF ShellTypeOK, ShellInv, LiveIsReachable

(***************************************************************************)
(* Whatever the order of exits, timeouts, promotions, cancellations, kills *)
(* and evictions, a live process is one that a turn or the registry can    *)
(* stop, and a task of the registry has its log.                           *)
(***************************************************************************)
THEOREM ProcessesAreReachable == ShellSpec => [](ShellTypeOK /\ LiveIsReachable)
BY ShellBegins, ShellStepType, ShellIsEnough, PTL DEF ShellSpec

-----------------------------------------------------------------------------
(* Subagent jobs and the delivery of replies.                               *)

(***************************************************************************)
(* Messages are numbered as they are published.  Those in the queue are in *)
(* that order, the one being delivered is older than all of them, and what *)
(* a chat has received is no younger than either: a failed attempt keeps   *)
(* its message in hand instead of putting it back.                         *)
(***************************************************************************)
QueueInOrder ==
    \A i \in 1..Len(outbound) :
        /\ outbound[i].n <= published
        /\ \A k \in 1..Len(outbound) : i < k => outbound[i].n < outbound[k].n

HandBeforeQueue ==
    sending # Idle =>
        /\ sending.message.n <= published
        /\ \A i \in 1..Len(outbound) : sending.message.n < outbound[i].n

ShownBeforeQueue ==
    \A c \in Chats : \A i \in 1..Len(shown[c]) :
        /\ shown[c][i].n <= published
        /\ \A k \in 1..Len(outbound) : shown[c][i].n < outbound[k].n
        /\ sending # Idle => shown[c][i].n <= sending.message.n

DeliveryInv == QueueInOrder /\ HandBeforeQueue /\ ShownBeforeQueue /\ RepliesInOrder

(***************************************************************************)
(* A job has the chat it was spawned from, slots are counted, and whatever *)
(* is being delivered is a message.                                        *)
(***************************************************************************)
JobInv ==
    /\ IsFiniteSet(slots)
    /\ \A j \in Jobs : job[j] = "running" => origin[j] \in Chats
    /\ sending = Idle \/ (sending.attempt \in {"first", "retry", "notice"} /\ sending.message \in Messages)

SpawnInv == JobInv /\ DeliveryInv

(***************************************************************************)
(* Every step of a turn, a job and the delivery keeps the types.  The slots*)
(* are counted, so the set of jobs that hold one has to be finite.         *)
(***************************************************************************)
LEMMA JobStepType ==
  SpawnTypeOK /\ JobInv /\ [SpawnNext]_spawnVars => SpawnTypeOK' /\ JobInv'
<1> SUFFICES ASSUME SpawnTypeOK, JobInv, [SpawnNext]_spawnVars
             PROVE  SpawnTypeOK' /\ JobInv'
  OBVIOUS
<1> USE DEF SpawnTypeOK, JobInv, jobVars, delivery
<1>1. ASSUME NEW c \in Chats, UserAsks(c) PROVE SpawnTypeOK' /\ JobInv'
  <2>1. [chat |-> c, about |-> UserItem] \in Items
    BY DEF Items
  <2> QED BY <1>1, <2>1, SpawnAssumption DEF UserAsks
<1>2. CASE BeginTurn
  <2>1. Head(inbound) \in Items /\ Tail(inbound) \in Seq(Items)
    BY <1>2, HeadTailProperties DEF BeginTurn
  <2> QED BY <1>2, <2>1 DEF BeginTurn
<1>3. ASSUME NEW j \in Jobs, Spawn(j) PROVE SpawnTypeOK' /\ JobInv'
  <2>1. turn.chat \in Chats
    BY <1>3 DEF Spawn, Items
  <2>2. IsFiniteSet(slots') /\ Cardinality(slots') <= Slots
    <3>1. slots' = slots \cup {j} /\ Cardinality(slots) < Slots /\ Cardinality(slots) \in Nat
      BY <1>3, FS_CardinalityType DEF Spawn, MayRun
    <3>2. /\ IsFiniteSet(slots \cup {j})
          /\ Cardinality(slots \cup {j}) \in {Cardinality(slots), Cardinality(slots) + 1}
      BY FS_AddElement
    <3> QED BY <3>1, <3>2, SpawnAssumption
  <2> QED BY <1>3, <2>1, <2>2 DEF Spawn
<1>4. ASSUME NEW j \in Jobs, JobEnds(j) PROVE SpawnTypeOK' /\ JobInv'
  <2>1. [chat |-> origin[j], about |-> j] \in Items
    BY <1>4 DEF JobEnds, Items
  <2> QED BY <1>4, <2>1 DEF JobEnds
<1>5. ASSUME NEW j \in Jobs, FreeSlot(j) PROVE SpawnTypeOK' /\ JobInv'
  <2>1. IsFiniteSet(slots') /\ Cardinality(slots') <= Slots
    <3>1. slots' = slots \ {j} /\ Cardinality(slots) \in Nat
      BY <1>5, FS_CardinalityType DEF FreeSlot
    <3>2. /\ IsFiniteSet(slots \ {j})
          /\ Cardinality(slots \ {j}) \in {Cardinality(slots), Cardinality(slots) - 1}
      BY FS_RemoveElement
    <3> QED BY <3>1, <3>2, SpawnAssumption
  <2> QED BY <1>5, <2>1 DEF FreeSlot
<1>6. CASE EndTurn
  <2>1. [chat |-> turn.chat, about |-> turn.about, n |-> published'] \in Messages
    BY <1>6 DEF EndTurn, Items, Messages
  <2>2. outbound' \in Seq(Messages) /\ published' \in Nat
    BY <1>6, <2>1 DEF EndTurn
  <2> QED BY <1>6, <2>2 DEF EndTurn
<1>7. CASE StopTurn \/ DropTurn
  BY <1>7 DEF StopTurn, DropTurn, TurnVanishes
<1>8. CASE TakeOutbound
  <2>1. Head(outbound) \in Messages /\ Tail(outbound) \in Seq(Messages)
    BY <1>8, HeadTailProperties DEF TakeOutbound
  <2> QED BY <1>8, <2>1 DEF TakeOutbound
<1>9. Idle \in [attempt : {"idle", "first", "retry", "notice"}, message : Messages \cup {NoMessage}]
  BY DEF Idle
<1>10. ASSUME sending # Idle, Show(sending.message)
       PROVE  shown' \in [Chats -> Seq(Messages)]
  <2>1. sending.message \in Messages /\ sending.message.chat \in Chats
    BY <1>10 DEF Messages
  <2>2. Append(shown[sending.message.chat], sending.message) \in Seq(Messages)
    BY <2>1
  <2> QED BY <1>10, <2>1, <2>2 DEF Show
<1>11. CASE Delivered
  <2>1. sending # Idle
    BY <1>11 DEF Delivered, Idle
  <2> QED BY <1>9, <1>10, <1>11, <2>1 DEF Delivered
<1>12. CASE SendFails
  <2>1. shown' \in [Chats -> Seq(Messages)] /\ failures' \in 0..MaxFailures
    BY <1>10, <1>12, SpawnAssumption DEF SendFails
  <2>2. UNCHANGED <<job, origin, slots, inbound, turn, outbound, asked, published>>
    BY <1>12 DEF SendFails, Fails
  <2>3. /\ lost' \subseteq Messages
        /\ sending' \in [attempt : {"idle", "first", "retry", "notice"}, message : Messages \cup {NoMessage}]
        /\ sending' = Idle \/ (sending'.attempt \in {"first", "retry", "notice"} /\ sending'.message \in Messages)
    <3>1. /\ sending.attempt \in {"idle", "first", "retry", "notice"} /\ sending.message \in Messages
          /\ sending = [attempt |-> sending.attempt, message |-> sending.message]
          /\ Fails(sending.message, sending.attempt) /\ sending.attempt # "idle"
      BY <1>12 DEF SendFails, Idle
    <3>2. \/ sending' = [attempt |-> "retry", message |-> sending.message] /\ lost' = lost
          \/ sending' = [attempt |-> "notice", message |-> sending.message] /\ lost' = lost
          \/ sending' = Idle /\ lost' = lost \cup {sending.message}
      BY <3>1 DEF Fails
    <3> QED BY <1>9, <3>1, <3>2
  <2> QED BY <2>1, <2>2, <2>3
<1>13. CASE UNCHANGED spawnVars
  BY <1>13 DEF spawnVars
<1> QED
  BY <1>1, <1>2, <1>3, <1>4, <1>5, <1>6, <1>7, <1>8, <1>11, <1>12, <1>13 DEF SpawnNext

(***************************************************************************)
(* An attempt that fails keeps its message in hand, and the next message is*)
(* taken only when there is none: the order is kept.                       *)
(***************************************************************************)
LEMMA DeliveryStep ==
  SpawnTypeOK /\ SpawnInv /\ [SpawnNext]_spawnVars => DeliveryInv'
<1> SUFFICES ASSUME SpawnTypeOK, SpawnInv, [SpawnNext]_spawnVars
             PROVE  DeliveryInv'
  OBVIOUS
<1>0. /\ published \in Nat /\ outbound \in Seq(Messages) /\ shown \in [Chats -> Seq(Messages)]
      /\ \A x \in Messages : x.n \in Nat /\ x.chat \in Chats
  BY DEF SpawnTypeOK, Messages
<1> USE DEF SpawnInv, DeliveryInv
<1>1. CASE UNCHANGED <<outbound, sending, shown, published>>
  BY <1>1 DEF QueueInOrder, HandBeforeQueue, ShownBeforeQueue, RepliesInOrder
<1>2. CASE EndTurn
  <2> DEFINE new == [chat |-> turn.chat, about |-> turn.about, n |-> published']
  <2>1. new \in Messages /\ new.n = published + 1
    BY <1>2 DEF EndTurn, SpawnTypeOK, Items, Messages
  <2>2. outbound' = Append(outbound, new) /\ UNCHANGED <<sending, shown>> /\ published' = published + 1
    BY <1>2 DEF EndTurn, delivery
  <2> HIDE DEF new
  <2>3. /\ Len(outbound') = Len(outbound) + 1
        /\ \A i \in 1..Len(outbound) : outbound'[i] = outbound[i] /\ outbound[i].n \in Nat
        /\ outbound'[Len(outbound) + 1] = new
    BY <1>0, <2>1, <2>2
  <2>4. QueueInOrder'
    BY <1>0, <2>1, <2>2, <2>3 DEF QueueInOrder
  <2>5. HandBeforeQueue'
    <3> SUFFICES ASSUME sending # Idle
                 PROVE  /\ sending.message.n <= published'
                        /\ \A i \in 1..Len(outbound') : sending.message.n < outbound'[i].n
      BY <2>2 DEF HandBeforeQueue, Idle
    <3>1. sending.message.n \in Nat /\ sending.message.n <= published
      BY <1>0 DEF JobInv, HandBeforeQueue
    <3>2. \A i \in 1..Len(outbound) : sending.message.n < outbound'[i].n
      BY <2>3 DEF HandBeforeQueue
    <3> QED BY <1>0, <2>1, <2>2, <2>3, <3>1, <3>2
  <2>6. ShownBeforeQueue'
    BY <1>0, <2>1, <2>2, <2>3 DEF ShownBeforeQueue
  <2>7. RepliesInOrder'
    BY <2>2 DEF RepliesInOrder
  <2> QED BY <2>4, <2>5, <2>6, <2>7
<1>3. CASE TakeOutbound
  <2>1. /\ outbound # <<>> /\ outbound' = Tail(outbound) /\ sending = Idle
        /\ sending' = [attempt |-> "first", message |-> outbound[1]]
        /\ UNCHANGED <<shown, published>>
    BY <1>0, <1>3 DEF TakeOutbound
  <2>2. /\ Len(outbound') = Len(outbound) - 1 /\ Len(outbound) \in Nat /\ Len(outbound) >= 1
        /\ \A i \in 1..Len(outbound') : outbound'[i] = outbound[i + 1]
        /\ outbound[1] \in Messages
    BY <1>0, <2>1, HeadTailProperties, EmptySeq
  <2>3. QueueInOrder'
    BY <1>0, <2>1, <2>2 DEF QueueInOrder
  <2>4. HandBeforeQueue'
    BY <1>0, <2>1, <2>2 DEF QueueInOrder, HandBeforeQueue
  <2>5. ShownBeforeQueue'
    BY <1>0, <2>1, <2>2 DEF ShownBeforeQueue
  <2>6. RepliesInOrder'
    BY <2>1 DEF RepliesInOrder
  <2> QED BY <2>3, <2>4, <2>5, <2>6
<1>4. ASSUME sending # Idle, UNCHANGED <<outbound, published>>,
             Show(sending.message) \/ UNCHANGED shown,
             sending' = Idle \/ sending'.message = sending.message
      PROVE  DeliveryInv'
  <2> DEFINE msg == sending.message
  <2>1. msg \in Messages /\ msg.n \in Nat /\ msg.chat \in Chats
    BY <1>0, <1>4 DEF JobInv
  <2>2. QueueInOrder' /\ HandBeforeQueue'
    BY <1>4 DEF QueueInOrder, HandBeforeQueue
  <2> HIDE DEF msg
  <2>3. CASE UNCHANGED shown
    BY <1>4, <2>2, <2>3 DEF ShownBeforeQueue, RepliesInOrder
  <2>4. CASE Show(sending.message)
    <3>1. ASSUME NEW c \in Chats
          PROVE  \/ shown'[c] = shown[c]
                 \/ /\ Len(shown'[c]) = Len(shown[c]) + 1 /\ Len(shown[c]) \in Nat
                    /\ \A i \in 1..Len(shown[c]) : shown'[c][i] = shown[c][i]
                    /\ shown'[c][Len(shown[c]) + 1] = msg
      <4>1. shown'[c] = IF c = msg.chat THEN Append(shown[c], msg) ELSE shown[c]
        BY <1>0, <2>1, <2>4 DEF Show, msg
      <4> QED BY <1>0, <2>1, <4>1
    <3>2. \A c \in Chats : \A i \in 1..Len(shown[c]) : shown[c][i].n \in Nat /\ shown[c][i].n <= msg.n
      BY <1>0, <1>4 DEF ShownBeforeQueue, msg
    <3>3. ASSUME NEW c \in Chats, NEW i \in 1..Len(shown'[c])
          PROVE  shown'[c][i].n \in Nat /\ shown'[c][i].n <= msg.n
      <4>1. CASE shown'[c] = shown[c]
        BY <3>2, <4>1
      <4>2. CASE shown'[c] # shown[c]
        <5>1. i \in 1..Len(shown[c]) \/ i = Len(shown[c]) + 1
          BY <3>1, <4>2
        <5> QED BY <2>1, <3>1, <3>2, <4>2, <5>1
      <4> QED BY <4>1, <4>2
    <3>4. ShownBeforeQueue'
      <4>1. msg.n <= published /\ \A i \in 1..Len(outbound) : msg.n < outbound[i].n /\ outbound[i].n \in Nat
        BY <1>0, <1>4 DEF HandBeforeQueue, msg
      <4>2. sending' # Idle => sending'.message.n = msg.n
        BY <1>4 DEF msg
      <4>3. ASSUME NEW c \in Chats, NEW i \in 1..Len(shown'[c])
            PROVE  /\ shown'[c][i].n <= published'
                   /\ \A k \in 1..Len(outbound') : shown'[c][i].n < outbound'[k].n
                   /\ sending' # Idle => shown'[c][i].n <= sending'.message.n
        <5>1. shown'[c][i].n \in Nat /\ shown'[c][i].n <= msg.n
          BY <3>3
        <5>2. outbound' = outbound /\ published' = published
          BY <1>4
        <5> QED BY <1>0, <2>1, <4>1, <4>2, <5>1, <5>2
      <4> QED BY <4>3 DEF ShownBeforeQueue, Idle
    <3>5. RepliesInOrder'
      <4> SUFFICES ASSUME NEW c \in Chats, NEW i \in 1..Len(shown'[c]),
                          NEW k \in 1..Len(shown'[c]), i < k
                   PROVE  shown'[c][i].n <= shown'[c][k].n
        BY DEF RepliesInOrder
      <4>1. CASE shown'[c] = shown[c]
        BY <4>1 DEF RepliesInOrder
      <4>2. CASE shown'[c] # shown[c] /\ k = Len(shown[c]) + 1
        BY <3>1, <3>3, <4>2
      <4>3. CASE shown'[c] # shown[c] /\ k # Len(shown[c]) + 1
        <5>1. i \in 1..Len(shown[c]) /\ k \in 1..Len(shown[c])
          BY <3>1, <4>3
        <5> QED BY <3>1, <4>3, <5>1 DEF RepliesInOrder
      <4> QED BY <4>1, <4>2, <4>3
    <3> QED BY <2>2, <3>4, <3>5
  <2> QED BY <1>4, <2>3, <2>4
<1>5. CASE Delivered
  BY <1>4, <1>5 DEF Delivered, Idle
<1>6. CASE SendFails
  <2>1. sending' = Idle \/ sending'.message = sending.message
    <3>1. sending.attempt \in {"first", "retry", "notice"}
      BY <1>6 DEF SendFails, JobInv
    <3>2. sending' = Idle \/ \E x : sending' = [sending EXCEPT !.attempt = x]
      BY <1>6, <3>1 DEF SendFails, Fails
    <3> QED BY <3>2 DEF SpawnTypeOK
  <2>2. UNCHANGED <<outbound, published>>
    BY <1>6 DEF SendFails, Fails, SpawnTypeOK, JobInv
  <2> QED BY <1>4, <1>6, <2>1, <2>2 DEF SendFails
<1> QED
  BY <1>1, <1>2, <1>3, <1>5, <1>6
  DEF SpawnNext, spawnVars, UserAsks, BeginTurn, Spawn, JobEnds, FreeSlot, StopTurn, DropTurn,
      TurnVanishes, delivery

\* Before the first message nothing is queued, in hand or shown.
LEMMA SpawnBegins == SpawnInit => SpawnTypeOK /\ SpawnInv
<1> SUFFICES ASSUME SpawnInit PROVE SpawnTypeOK /\ SpawnInv
  OBVIOUS
<1>1. IsFiniteSet({}) /\ Cardinality({}) = 0
  BY FS_EmptySet
<1>2. SpawnTypeOK /\ JobInv
  BY <1>1, SpawnAssumption DEF SpawnInit, SpawnTypeOK, JobInv, Idle
<1>3. Len(outbound) = 0 /\ sending = Idle /\ \A c \in Chats : Len(shown[c]) = 0
  BY DEF SpawnInit, Idle
<1>4. QueueInOrder /\ HandBeforeQueue /\ ShownBeforeQueue /\ RepliesInOrder
  BY <1>3 DEF QueueInOrder, HandBeforeQueue, ShownBeforeQueue, RepliesInOrder
<1> QED BY <1>2, <1>4 DEF SpawnInv, DeliveryInv

(***************************************************************************)
(* Messages reach a chat in the order of their publication, for every number*)
(* of jobs, slots, questions and failed attempts.                          *)
(***************************************************************************)
THEOREM DeliveryIsInOrder == SpawnSpec => [](SpawnTypeOK /\ RepliesInOrder)
<1>1. SpawnTypeOK /\ SpawnInv /\ [SpawnNext]_spawnVars => (SpawnTypeOK /\ SpawnInv)'
  BY JobStepType, DeliveryStep DEF SpawnInv
<1>2. SpawnInv => RepliesInOrder
  BY DEF SpawnInv, DeliveryInv
<1> QED BY <1>1, <1>2, SpawnBegins, PTL DEF SpawnSpec

-----------------------------------------------------------------------------
(* Tasks of a peer agent.                                                   *)

PollStates == [stage : {"sleeps", "picks", "ends", "kills"}, round : SUBSET PeerJobs,
               victim : Peers \cup {NoPeer}]

(***************************************************************************)
(* What the variables hold: the tasks' work and messages, the round of the *)
(* poller.                                                                 *)
(***************************************************************************)
WorkOK ==
    /\ atPeer \in [PeerJobs -> [peer : Peers \cup {NoPeer},
                                state : {"none", "working", "completed", "failed"}]]
    /\ messages \in [PeerJobs -> {<<>>, <<"completed">>, <<"failed">>}]
    /\ poll \in PollStates
    /\ poll.round \subseteq Pending
    /\ peerFaults \in 0..MaxPeerFaults

(***************************************************************************)
(* Who has the lock of the peer's process: the one task that checks or     *)
(* starts it, or the poller while it ends the process it has taken.        *)
(***************************************************************************)
LockInv ==
    /\ \A x \in PeerJobs : delegated[x] \in {"checks", "boots"} => peerLock = x
    /\ \A x \in PeerJobs : delegated[x] = "boots" => heldPeer # NoPeer
    /\ poll.stage = "kills" => peerLock = Poller
    /\ poll.stage = "kills" <=> poll.victim # NoPeer

(***************************************************************************)
(* Processes are started one after the other, and a live one is held, is   *)
(* being ended, was asked to end, or is not the last.                      *)
(***************************************************************************)
StartedInv ==
    /\ \A p, q \in Peers : p < q /\ peer[q] # "none" => peer[p] # "none"
    /\ \A p \in {heldPeer, poll.victim} \ {NoPeer} : peer[p] # "none"
    /\ \A p \in Peers :
        peer[p] \in {"booting", "up"} =>
            \/ p = heldPeer \/ p = poll.victim \/ p \in forgotten
            \/ \E q \in Peers : q > p /\ peer[q] # "none"

PeerInv == WorkOK /\ ToldOnce /\ LockInv /\ StartedInv

\* The poller goes to sleep or to its round with nothing to kill.
LEMMA PollerTurns ==
  ASSUME Wakes \/ RoundEnds
  PROVE  /\ poll' \in PollStates /\ poll'.victim = NoPeer /\ poll'.stage # "kills"
         /\ poll'.round \subseteq Pending /\ poll.stage \notin {"ends", "kills"}
<1>1. Pending \in SUBSET PeerJobs
  BY DEF Pending
<1>2. CASE Wakes
  <2>1. poll.stage = "sleeps"
    BY <1>2 DEF Wakes
  <2>2. poll' = [stage |-> "picks", round |-> Pending, victim |-> NoPeer]
    BY <1>2 DEF Wakes, Asleep
  <2>3. ASSUME NEW S \in SUBSET PeerJobs PROVE [stage |-> "picks", round |-> S, victim |-> NoPeer] \in PollStates
    BY DEF PollStates
  <2>4. poll' \in PollStates
    BY <1>1, <2>2, <2>3
  <2> QED BY <2>1, <2>2, <2>4
<1>3. CASE RoundEnds
  <2>1. poll' = Asleep /\ poll.stage = "picks"
    BY <1>3 DEF RoundEnds
  <2> QED BY <2>1 DEF Asleep, PollStates
<1> QED BY <1>2, <1>3

\* Every step of a delegation, the process and the poller keeps the types.
LEMMA PeerStepType ==
  PeerTypeOK /\ PeerInv /\ [PeerNext]_peerVars => PeerTypeOK' /\ WorkOK' /\ ToldOnce'
<1> SUFFICES ASSUME PeerTypeOK, PeerInv, [PeerNext]_peerVars
             PROVE  PeerTypeOK' /\ WorkOK' /\ ToldOnce'
  OBVIOUS
<1> USE DEF PeerTypeOK, PeerInv, WorkOK, ToldOnce, Pending, Leaves, PollStates
<1>0. Fault => peerFaults' \in 0..MaxPeerFaults
  BY PeerAssumption DEF Fault
<1>1. ASSUME NEW x \in PeerJobs,
             Delegates(x) \/ Enlocks(x) \/ FindsReady(x) \/ SpawnFails(x) \/ BootSeen(x) \/ BootOver(x)
      PROVE  PeerTypeOK' /\ WorkOK' /\ ToldOnce'
  <2>1. /\ \E step \in {"waits", "checks", "submits", "refused"} : delegated' = [delegated EXCEPT ![x] = step]
        /\ delegated[x] \notin {"pending", "told"}
        /\ peerLock' \in PeerJobs \cup {Free, Poller}
    BY <1>1 DEF Delegates, Enlocks, FindsReady, SpawnFails, BootSeen, BootOver
  <2>2. UNCHANGED <<peer, onPort, heldPeer, overdue, atPeer, messages, poll, peerFaults, forgotten>>
    BY <1>1 DEF Delegates, Enlocks, FindsReady, SpawnFails, BootSeen, BootOver
  <2> QED BY <2>1, <2>2
<1>2. ASSUME NEW x \in PeerJobs, Spawns(x)
      PROVE  PeerTypeOK' /\ WorkOK' /\ ToldOnce'
  BY <1>0, <1>2 DEF Spawns, NextPeer
<1>3. ASSUME NEW x \in PeerJobs, BootLate(x)
      PROVE  PeerTypeOK' /\ WorkOK' /\ ToldOnce'
  <2>1. heldPeer \in Peers
    BY <1>3 DEF BootLate, LockInv
  <2> QED BY <1>3, <2>1 DEF BootLate
<1>4. ASSUME NEW x \in PeerJobs, Submits(x) \/ SubmitFails(x)
      PROVE  PeerTypeOK' /\ WorkOK' /\ ToldOnce'
  <2>1. atPeer' \in [PeerJobs -> [peer : Peers \cup {NoPeer},
                                  state : {"none", "working", "completed", "failed"}]]
    BY <1>4 DEF Submits, SubmitFails
  <2>2. \A y \in PeerJobs : y # x => atPeer'[y] = atPeer[y]
    BY <1>4 DEF Submits, SubmitFails
  <2>6. delegated[x] = "submits" /\ x \notin poll.round /\ messages[x] = <<>>
    BY <1>4 DEF Submits, SubmitFails
  <2>3. delegated[x] = "submits" /\ delegated' \in {[delegated EXCEPT ![x] = "pending"], [delegated EXCEPT ![x] = "refused"]}
    BY <1>4 DEF Submits, SubmitFails
  <2>4. UNCHANGED <<peer, onPort, heldPeer, peerLock, overdue, messages, poll, forgotten>>
    BY <1>4 DEF Submits, SubmitFails
  <2>5. peerFaults' \in 0..MaxPeerFaults
    BY <1>0, <1>4 DEF Submits, SubmitFails
  <2>7. poll'.round \subseteq Pending'
    BY <2>3, <2>4, <2>6
  <2>8. PeerTypeOK' /\ WorkOK'
    BY <2>1, <2>3, <2>4, <2>5, <2>7
  <2>10. \A y \in PeerJobs : delegated'[y] = "told" <=> delegated[y] = "told"
    BY <2>3
  <2>9. ToldOnce'
    <3>1. messages' = messages
      BY <2>4
    <3>2. messages[x] # <<"completed">>
      BY <2>6
    <3>3. \A y \in PeerJobs : messages[y] = <<"completed">> => atPeer'[y].state = "completed"
      BY <2>2, <3>2
    <3> QED BY <2>10, <3>1, <3>3
  <2> QED BY <2>8, <2>9
<1>5. ASSUME NEW x \in PeerJobs, CallCancelled(x)
      PROVE  PeerTypeOK' /\ WorkOK' /\ ToldOnce'
  BY <1>0, <1>5 DEF CallCancelled
<1>6. ASSUME NEW x \in PeerJobs, Works(x) \/ Ages(x)
      PROVE  PeerTypeOK' /\ WorkOK' /\ ToldOnce'
  BY <1>6 DEF Works, Ages
<1>7. ASSUME NEW p \in Peers, Boots(p) \/ Heeds(p) \/ Crashes(p)
      PROVE  PeerTypeOK' /\ WorkOK' /\ ToldOnce'
  BY <1>0, <1>7 DEF Boots, Heeds, Crashes, Over
<1>8. ASSUME NEW x \in PeerJobs, Checks(x)
      PROVE  PeerTypeOK' /\ WorkOK' /\ ToldOnce'
  <2>1. x \in poll.round /\ delegated[x] = "pending" /\ messages[x] = <<>>
    BY <1>8 DEF Checks
  <2>2. UNCHANGED <<peer, onPort, heldPeer, peerLock, overdue, atPeer, forgotten>> /\ peerFaults' \in 0..MaxPeerFaults
    BY <1>0, <1>8 DEF Checks
  <2>3. CASE UNCHANGED <<delegated, messages>> /\ poll' = [poll EXCEPT !.round = @ \ {x}]
    BY <2>2, <2>3
  <2>4. ASSUME NEW what \in {"completed", "failed"}, Tells(x, Append(messages[x], what)),
               what = "completed" => atPeer[x].state = "completed"
        PROVE  PeerTypeOK' /\ WorkOK' /\ ToldOnce'
    <3>1. Append(messages[x], what) = <<what>>
      BY <2>1
    <3>2. /\ delegated' = [delegated EXCEPT ![x] = "told"]
          /\ messages' = [messages EXCEPT ![x] = <<what>>]
          /\ poll' = [poll EXCEPT !.stage = "ends", !.round = @ \ {x}]
      BY <2>4, <3>1 DEF Tells
    <3>3. messages' \in [PeerJobs -> {<<>>, <<"completed">>, <<"failed">>}]
      BY <2>4, <3>2
    <3> QED BY <2>2, <2>4, <3>2, <3>3
  <2> QED BY <1>8, <2>3, <2>4 DEF Checks
<1>9. CASE Wakes \/ RoundEnds
  <2>1. UNCHANGED <<peer, onPort, heldPeer, peerLock, delegated, overdue, atPeer, messages, peerFaults, forgotten>>
    BY <1>9 DEF Wakes, RoundEnds
  <2>2. poll' \in PollStates /\ poll'.victim = NoPeer /\ poll'.round \subseteq Pending
    BY <1>9, PollerTurns
  <2>3. PeerTypeOK' /\ ToldOnce'
    BY <2>1, <2>2
  <2>4. WorkOK'
    BY <2>1, <2>2
  <2> QED BY <2>3, <2>4
<1>10. CASE Terminates
  <2>1. poll' \in PollStates /\ poll'.round = poll.round /\ peerLock' \in PeerJobs \cup {Free, Poller}
    <3>1. CASE heldPeer = NoPeer
      BY <1>10, <3>1 DEF Terminates
    <3>2. CASE heldPeer # NoPeer
      <4>1. poll' = [poll EXCEPT !.stage = "kills", !.victim = heldPeer] /\ peerLock' = Poller
        BY <1>10, <3>2 DEF Terminates
      <4> QED BY <4>1
    <3> QED BY <3>1, <3>2
  <2>2. heldPeer' = NoPeer /\ UNCHANGED <<peer, onPort, delegated, overdue, atPeer, messages, peerFaults, forgotten>>
    BY <1>10 DEF Terminates
  <2> QED BY <2>1, <2>2
<1>11. CASE Killed
  BY <1>11 DEF Killed, Over
<1>12. CASE UNCHANGED peerVars
  BY <1>12 DEF peerVars
<1> QED
  BY <1>1, <1>2, <1>3, <1>4, <1>5, <1>6, <1>7, <1>8, <1>9, <1>10, <1>11, <1>12
  DEF PeerNext, Acts, PollerNext

(***************************************************************************)
(* The lock.                                                               *)
(***************************************************************************)
LEMMA PeerStepLock ==
  PeerTypeOK /\ PeerInv /\ [PeerNext]_peerVars => LockInv'
<1> SUFFICES ASSUME PeerTypeOK, PeerInv, [PeerNext]_peerVars PROVE LockInv'
  OBVIOUS
<1> USE PeerAssumption DEF PeerTypeOK, PeerInv, WorkOK, LockInv, Leaves, PollStates
<1>1. ASSUME NEW x \in PeerJobs,
             Delegates(x) \/ Enlocks(x) \/ FindsReady(x) \/ SpawnFails(x) \/ BootSeen(x) \/ BootOver(x)
      PROVE  LockInv'
  <2>1. poll' = poll /\ heldPeer' = heldPeer
    BY <1>1 DEF Delegates, Enlocks, FindsReady, SpawnFails, BootSeen, BootOver
  <2>2. CASE Delegates(x) \/ Enlocks(x)
    <3>1. CASE Delegates(x)
      BY <2>1, <3>1 DEF Delegates
    <3>2. CASE Enlocks(x)
      <4>1. \A y \in PeerJobs : delegated[y] \notin {"checks", "boots"}
        BY <3>2 DEF Enlocks
      <4>2. poll.stage # "kills"
        BY <3>2 DEF Enlocks, Free, Poller
      <4> QED BY <2>1, <3>2, <4>1, <4>2 DEF Enlocks
    <3> QED BY <2>2, <3>1, <3>2
  <2>3. CASE FindsReady(x) \/ SpawnFails(x) \/ BootSeen(x) \/ BootOver(x)
    <3>1. PICK step \in {"submits", "refused"} : Leaves(x, step)
      BY <2>3 DEF FindsReady, SpawnFails, BootSeen, BootOver
    <3>2. peerLock = x
      BY <2>3 DEF FindsReady, SpawnFails, BootSeen, BootOver
    <3> QED BY <2>1, <3>1, <3>2
  <2> QED BY <1>1, <2>2, <2>3
<1>2. ASSUME NEW x \in PeerJobs, Spawns(x) PROVE LockInv'
  BY <1>2 DEF Spawns, NextPeer, Peers, NoPeer
<1>3. ASSUME NEW x \in PeerJobs, BootLate(x) PROVE LockInv'
  BY <1>3 DEF BootLate
<1>4. ASSUME NEW x \in PeerJobs, Submits(x) \/ SubmitFails(x) \/ CallCancelled(x) PROVE LockInv'
  BY <1>4 DEF Submits, SubmitFails, CallCancelled
<1>5. CASE UNCHANGED <<heldPeer, peerLock, delegated, poll>>
  BY <1>5
<1>6. ASSUME NEW x \in PeerJobs, Checks(x) PROVE LockInv'
  <2>1. /\ poll'.victim = poll.victim /\ poll.stage # "kills" /\ poll'.stage # "kills"
        /\ UNCHANGED <<heldPeer, peerLock>>
    BY <1>6 DEF Checks, Tells
  <2>2. \A y \in PeerJobs : delegated'[y] \in {"checks", "boots"} => delegated'[y] = delegated[y]
    BY <1>6 DEF Checks, Tells
  <2> QED BY <2>1, <2>2
<1>7. CASE Wakes \/ RoundEnds
  <2>1. poll'.victim = NoPeer /\ poll'.stage # "kills" /\ poll.stage # "kills"
    BY <1>7, PollerTurns
  <2>2. UNCHANGED <<heldPeer, peerLock, delegated>>
    BY <1>7 DEF Wakes, RoundEnds
  <2> QED BY <2>1, <2>2
<1>8. CASE Terminates
  BY <1>8 DEF Terminates
<1>9. CASE Killed
  BY <1>9 DEF Killed
<1> QED
  BY <1>1, <1>2, <1>3, <1>4, <1>5, <1>6, <1>7, <1>8, <1>9
  DEF PeerNext, Acts, PollerNext, Works, Ages, Boots, Heeds, Crashes, peerVars

(***************************************************************************)
(* The processes.                                                          *)
(***************************************************************************)
LEMMA PeerStepStarted ==
  PeerTypeOK /\ PeerInv /\ [PeerNext]_peerVars => StartedInv'
<1> SUFFICES ASSUME PeerTypeOK, PeerInv, [PeerNext]_peerVars PROVE StartedInv'
  OBVIOUS
<1>0. Peers \subseteq Nat /\ NoPeer \notin Peers /\ heldPeer \in Peers \cup {NoPeer}
      /\ poll.victim \in Peers \cup {NoPeer} /\ peer \in [Peers -> {"none", "booting", "up", "over"}]
      /\ poll \in PollStates
  BY PeerAssumption DEF Peers, NoPeer, PeerTypeOK, PeerInv, WorkOK
<1> USE DEF PeerInv, StartedInv, PollStates
<1>1. CASE UNCHANGED <<peer, heldPeer, forgotten>> /\ poll'.victim = poll.victim
  BY <1>1
<1>2. ASSUME NEW x \in PeerJobs, Spawns(x) PROVE StartedInv'
  <2>1. PICK p \in NextPeer : peer' = [peer EXCEPT ![p] = "booting"] /\ heldPeer' = p
    BY <1>2 DEF Spawns
  <2>2. p \in Peers /\ peer[p] = "none" /\ \A q \in Peers : q < p => peer[q] # "none"
    BY <1>0, <2>1 DEF NextPeer, Peers
  <2>3. poll' = poll /\ forgotten' = forgotten
    BY <1>2 DEF Spawns
  <2> QED BY <1>0, <2>1, <2>2, <2>3
<1>3. ASSUME NEW x \in PeerJobs, BootLate(x) PROVE StartedInv'
  <2>1. /\ heldPeer' = NoPeer /\ forgotten' = forgotten \cup {heldPeer}
        /\ UNCHANGED <<peer, poll>>
    BY <1>3 DEF BootLate
  <2> QED BY <2>1
<1>4. ASSUME NEW p \in Peers, Boots(p) \/ Heeds(p) \/ Crashes(p) PROVE StartedInv'
  <2>1. PICK q \in {"up", "over"} : peer' = [peer EXCEPT ![p] = q]
    BY <1>4 DEF Boots, Heeds, Crashes, Over
  <2>2. peer[p] \in {"booting", "up"} /\ UNCHANGED <<heldPeer, poll, forgotten>>
    BY <1>4 DEF Boots, Heeds, Crashes
  <2> QED BY <1>0, <2>1, <2>2
<1>5. CASE Terminates
  <2>1. poll.victim = NoPeer
    BY <1>5 DEF Terminates, LockInv
  <2>2. heldPeer' = NoPeer /\ UNCHANGED <<peer, forgotten>> /\ poll'.victim = heldPeer
    BY <1>0, <1>5, <2>1 DEF Terminates
  <2> QED BY <1>0, <2>1, <2>2
<1>6. CASE Killed
  <2>1. poll.victim \in Peers
    BY <1>0, <1>6 DEF Killed, LockInv
  <2> QED BY <1>0, <1>6, <2>1 DEF Killed, Over
<1>7. CASE Wakes \/ RoundEnds \/ \E x \in PeerJobs : Checks(x)
  <2>1. poll'.victim = poll.victim /\ UNCHANGED <<peer, heldPeer, forgotten>>
    <3>1. poll.victim = NoPeer
      BY <1>0, <1>7 DEF Wakes, RoundEnds, Checks, LockInv
    <3>2. CASE Wakes \/ RoundEnds
      BY <3>1, <3>2, PollerTurns DEF Wakes, RoundEnds
    <3>3. ASSUME NEW x \in PeerJobs, Checks(x) PROVE poll'.victim = poll.victim /\ UNCHANGED <<peer, heldPeer, forgotten>>
      BY <1>0, <3>3 DEF Checks, Tells
    <3> QED BY <1>7, <3>2, <3>3
  <2> QED BY <1>1, <2>1
<1> QED
  BY <1>1, <1>2, <1>3, <1>4, <1>5, <1>6, <1>7
  DEF PeerNext, Acts, PollerNext, Works, Ages, peerVars, Delegates, Enlocks, FindsReady, SpawnFails,
      BootSeen, BootOver, Submits, SubmitFails, CallCancelled

\* Before the first task there is no process and the poller sleeps.
LEMMA PeerBegins == PeerInit => PeerTypeOK /\ PeerInv
<1> SUFFICES ASSUME PeerInit PROVE PeerTypeOK /\ PeerInv
  OBVIOUS
<1> USE DEF PeerInit
<1>1. Asleep \in PollStates /\ Asleep.victim = NoPeer /\ Asleep.round = {} /\ Asleep.stage = "sleeps"
  BY DEF Asleep, PollStates
<1>2. PeerTypeOK
  BY <1>1 DEF PeerTypeOK
<1>3. WorkOK
  BY <1>1, PeerAssumption DEF WorkOK, NoWork
<1>4. ToldOnce
  BY DEF ToldOnce
<1>5. LockInv /\ StartedInv
  BY <1>1 DEF LockInv, StartedInv
<1> QED BY <1>2, <1>3, <1>4, <1>5 DEF PeerInv

\* The invariant has what is promised.
LEMMA PeerIsEnough == PeerTypeOK /\ PeerInv => PeerTasksAreSound
BY DEF PeerTasksAreSound, PeersAreHeld, PeerInv, LockInv, StartedInv

(***************************************************************************)
(* A task is told of once, at most one process is held and none is lost but*)
(* to a start beside one too busy to answer, or when it took too long to   *)
(* boot and ignores SIGTERM: for every set of tasks and number of processes*)
(* and faults, however delegations, the boot of the process and the rounds *)
(* of the poller interleave.                                               *)
(***************************************************************************)
THEOREM PeersAreSafe == PeerSpec => [](PeerTypeOK /\ PeerTasksAreSound)
<1>1. PeerTypeOK /\ PeerInv /\ [PeerNext]_peerVars => (PeerTypeOK /\ PeerInv)'
  BY PeerStepType, PeerStepLock, PeerStepStarted DEF PeerInv
<1> QED BY <1>1, PeerBegins, PeerIsEnough, PTL DEF PeerSpec

-----------------------------------------------------------------------------
(* The four systems.                                                        *)

(***************************************************************************)
(* The four share no variable, and a step of one leaves the others as they *)
(* are: the promises of all hold of the behaviours in which they are checked*)
(* together.                                                               *)
(***************************************************************************)
THEOREM BackgroundIsSafe ==
  Spec => [](BackgroundTypeOK /\ LiveIsReachable /\ RepliesInOrder /\ PeerTasksAreSound /\ LoadedAreRecent)
<1> DEFINE Inv == /\ ShellTypeOK /\ ShellInv /\ SpawnTypeOK /\ SpawnInv
                  /\ ToolTypeOK /\ RunInv /\ PeerTypeOK /\ PeerInv
           Step == /\ UNCHANGED system
                   /\ \/ system = "shell" /\ ShellNext /\ UNCHANGED <<spawnVars, toolVars, peerVars>>
                      \/ system = "jobs" /\ SpawnNext /\ UNCHANGED <<shellVars, toolVars, peerVars>>
                      \/ system = "tools" /\ ToolNext /\ UNCHANGED <<shellVars, spawnVars, peerVars>>
                      \/ system = "peers" /\ PeerNext /\ UNCHANGED <<shellVars, spawnVars, toolVars>>
<1>1. Init => Inv
  BY ShellBegins, SpawnBegins, ToolBegins, PeerBegins DEF Init
<1>2. Inv /\ [Step]_<<system, shellVars, spawnVars, toolVars, peerVars>> => Inv'
  <2> SUFFICES ASSUME Inv, [Step]_<<system, shellVars, spawnVars, toolVars, peerVars>> PROVE Inv'
    OBVIOUS
  <2>1. [ShellNext]_shellVars /\ [SpawnNext]_spawnVars /\ [ToolNext]_toolVars /\ [PeerNext]_peerVars
    OBVIOUS
  <2> HIDE DEF Step
  <2>2. (ShellTypeOK /\ ShellInv)'
    BY <2>1, ShellStepType
  <2>3. (SpawnTypeOK /\ SpawnInv)'
    BY <2>1, JobStepType, DeliveryStep DEF SpawnInv
  <2>4. (ToolTypeOK /\ RunInv)'
    BY <2>1, ToolStepType
  <2>5. (PeerTypeOK /\ PeerInv)'
    BY <2>1, PeerStepType, PeerStepLock, PeerStepStarted DEF PeerInv
  <2> QED BY <2>2, <2>3, <2>4, <2>5
<1>3. Inv => BackgroundTypeOK /\ LiveIsReachable /\ RepliesInOrder /\ PeerTasksAreSound /\ LoadedAreRecent
  BY ShellIsEnough, PeerIsEnough, RecentIsLoaded DEF SpawnInv, DeliveryInv, BackgroundTypeOK
<1> QED BY <1>1, <1>2, <1>3, PTL DEF Spec
=============================================================================
