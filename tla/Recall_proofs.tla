---------------------------- MODULE Recall_proofs ---------------------------
(***************************************************************************)
(* What is stored and what is remembered of it: the rows of a session, the *)
(* mark of what was archived, the memory block of a request, and the       *)
(* checkpoints of the files that the tools change.                         *)
(***************************************************************************)
EXTENDS SessionStore, MemoryRetrieval, FileTools, FiniteSetTheorems, SequenceTheorems,
        NaturalsInduction, WellFoundedInduction, TLAPS

-----------------------------------------------------------------------------
(* Least numbers                                                            *)

\* A set of numbers has a least one.
LEMMA LeastOf ==
  ASSUME NEW S \in SUBSET Nat, S # {}
  PROVE  \E n \in S : \A m \in S : n <= m
<1> DEFINE R == OpToRel(<, Nat)
<1>1. IsWellFoundedOn(R, Nat)
  BY NatLessThanWellFounded
<1>2. \A x, y \in Nat : <<x, y>> \in R <=> x < y
  BY DEF OpToRel
<1> HIDE DEF R
<1>3. PICK x \in S : \A y \in S : ~(<<y, x>> \in R)
  BY <1>1, WFMin
<1>4. ASSUME NEW y \in S PROVE x <= y
  <2>1. x \in Nat /\ y \in Nat
    OBVIOUS
  <2>2. ~(y < x)
    BY <1>2, <1>3, <2>1
  <2> QED BY <2>1, <2>2
<1> QED BY <1>4

-----------------------------------------------------------------------------
(* SessionStore: A session and its rows                                     *)

\* A set of numbers below a bound has a greatest one.
LEMMA GreatestBelow ==
  ASSUME NEW b \in Nat, NEW S \in SUBSET (0..b), S # {}
  PROVE  \E x \in S : \A y \in S : y <= x
<1> DEFINE U == {u \in Nat : \A y \in S : y <= u}
<1>1. U \in SUBSET Nat /\ b \in U
  OBVIOUS
<1>2. PICK u \in U : \A m \in U : u <= m
  BY <1>1, LeastOf
<1>3. u \in Nat /\ \A y \in S : y <= u /\ y \in Nat
  BY <1>2
<1>4. u \in S
  <2> SUFFICES ASSUME u \notin S PROVE FALSE
    OBVIOUS
  <2>1. \A y \in S : y < u
    BY <1>3
  <2>2. PICK y \in S : TRUE
    OBVIOUS
  <2>3. u - 1 \in Nat /\ \A z \in S : z <= u - 1
    BY <1>3, <2>1, <2>2
  <2>4. u - 1 \in U
    BY <2>3
  <2> QED BY <1>2, <1>3, <2>4
<1> QED BY <1>3, <1>4


\* The orders that rows can be read in.
RowOrders(seqs) == {s \in [1..Cardinality(seqs) -> seqs] : \A i, j \in DOMAIN s : i < j => s[i] < s[j]}

\* Rows can be put in the order of their numbers.
LEMMA RowsHaveAnOrder ==
  ASSUME NEW b \in Nat, NEW S \in SUBSET (0..b)
  PROVE  RowOrders(S) # {} /\ IsFiniteSet(S) /\ Cardinality(S) \in Nat
<1>1. ASSUME NEW T \in SUBSET (0..b) PROVE IsFiniteSet(T) /\ Cardinality(T) \in Nat
  <2>1. IsFiniteSet(0..b)
    BY FS_Interval
  <2> QED BY <2>1, FS_Subset, FS_CardinalityType
<1>2. RowOrders(S) # {}
  <2> SUFFICES ASSUME RowOrders(S) = {} PROVE FALSE
    OBVIOUS
  <2> DEFINE Bad == {n \in Nat : \E T \in SUBSET (0..b) : Cardinality(T) = n /\ RowOrders(T) = {}}
  <2>1. Bad \in SUBSET Nat /\ Bad # {}
    BY <1>1
  <2>2. PICK n \in Bad : \A m \in Bad : n <= m
    BY <2>1, LeastOf
  <2>3. PICK T \in SUBSET (0..b) : Cardinality(T) = n /\ RowOrders(T) = {}
    BY <2>2
  <2>4. T # {}
    <3> SUFFICES ASSUME T = {} PROVE FALSE
      OBVIOUS
    <3>1. Cardinality(T) = 0
      BY FS_EmptySet
    <3> DEFINE s == [i \in 1..0 |-> i]
    <3>2. s \in [1..Cardinality(T) -> T] /\ DOMAIN s = {}
      BY <3>1
    <3>3. s \in RowOrders(T)
      BY <3>2 DEF RowOrders
    <3> QED BY <2>3, <3>3
  <2>5. PICK x \in T : \A y \in T : y <= x
    BY <2>4, GreatestBelow
  <2>6. n \in Nat /\ Cardinality(T \ {x}) = n - 1 /\ n - 1 \in Nat
    <3>1. Cardinality(T \ {x}) = n - 1
      BY <1>1, <2>3, FS_RemoveElement
    <3>2. Cardinality(T \ {x}) \in Nat
      BY <1>1
    <3> QED BY <2>2, <3>1, <3>2
  <2>7. RowOrders(T \ {x}) # {}
    <3> SUFFICES ASSUME RowOrders(T \ {x}) = {} PROVE FALSE
      OBVIOUS
    <3>1. n - 1 \in Bad
      BY <2>6
    <3> QED BY <2>2, <2>6, <3>1
  <2>8. PICK s \in [1..(n - 1) -> T \ {x}] : \A i, j \in 1..(n - 1) : i < j => s[i] < s[j]
    BY <2>6, <2>7 DEF RowOrders
  <2> DEFINE r == [i \in 1..n |-> IF i = n THEN x ELSE s[i]]
  <2>9. \A i \in 1..n : i = n \/ i \in 1..(n - 1)
    BY <2>6
  <2>10. r \in [1..n -> T]
    BY <2>8, <2>9
  <2>11. ASSUME NEW i \in 1..n, NEW j \in 1..n, i < j PROVE r[i] < r[j]
    <3>1. i \in 1..(n - 1) /\ r[i] = s[i] /\ s[i] \in T \ {x}
      BY <2>6, <2>8, <2>9, <2>11
    <3>2. CASE j = n
      <4>1. s[i] \in T /\ s[i] # x /\ r[j] = x
        BY <3>1, <3>2
      <4>2. s[i] \in 0..b /\ x \in 0..b /\ s[i] <= x
        BY <2>3, <2>5, <4>1
      <4> QED BY <3>1, <4>1, <4>2
    <3>3. CASE j \in 1..(n - 1)
      <4>1. r[j] = s[j]
        BY <2>6, <3>3
      <4> QED BY <2>8, <2>11, <3>1, <3>3, <4>1
    <3> QED BY <2>9, <3>2, <3>3
  <2> HIDE DEF r
  <2>12. DOMAIN r = 1..n
    BY <2>10
  <2>13. r \in RowOrders(T)
    BY <2>3, <2>10, <2>11, <2>12 DEF RowOrders
  <2> QED BY <2>3, <2>13
<1> QED BY <1>1, <1>2

-----------------------------------------------------------------------------
MessageType == [msg : Nat, id : {Unsaved} \cup Nat]

TableOK ==
    /\ \E b \in Nat : DOMAIN table \in SUBSET (0..b)
    /\ table \in [DOMAIN table -> 1..born] /\ IsInjective(table)
    /\ Range(table) \cap deleted = {}
    /\ settled \ deleted \subseteq Range(table)
    /\ stage = "rows" => nextSeq \in Nat /\ \A s \in DOMAIN table : s < nextSeq

\* What is in memory, beside the rows.
ListOK ==
    /\ born \in Nat /\ list \in Seq(MessageType) /\ (~cached => list = <<>>)
    /\ deleted \subseteq 1..born
    /\ \A i \in 1..Len(list) : list[i].msg \in 1..born
    /\ \A i, j \in 1..Len(list) : list[i].msg = list[j].msg => i = j
    /\ \A i \in 1..Len(list) :
        IF Saved(list[i])
          THEN list[i].msg \in deleted \/ (list[i].id \in DOMAIN table /\ table[list[i].id] = list[i].msg)
          ELSE list[i].msg \notin Range(table) /\ list[i].msg \notin deleted

\* What a save has still to look at is the end of the list.
TodoOK ==
    /\ todo \in Seq(Nat) /\ Len(todo) <= Len(list)
    /\ \A i \in 1..Len(todo) : todo[i] = list[Len(list) - Len(todo) + i].msg
    /\ \A i \in 1..(Len(list) - Len(todo)) : Saved(list[i]) \/ list[i].msg \in failed
    /\ stage \in {"idle", "meta", "rows"} /\ (stage = "idle" => todo = <<>>)

\* Numbers rise along the list, but for messages that were left behind.
RisesOK ==
    \A i, j \in 1..Len(list) : i < j /\ Saved(list[j]) /\ list[i].msg \notin failed =>
        /\ Saved(list[i])
        /\ {list[i].msg, list[j].msg} \cap deleted = {} => list[i].id < list[j].id

SessionInv == TableOK /\ ListOK /\ TodoOK /\ RisesOK

-----------------------------------------------------------------------------
\* No session yet.
LEMMA SessionBegins == SessionInit => SessionInv
<1> SUFFICES ASSUME SessionInit PROVE SessionInv
  OBVIOUS
<1>1. DOMAIN table = {} /\ table \in [{} -> 1..born] /\ Range(table) = {} /\ 0 \in Nat
  BY DEF SessionInit, Range
<1>2. TableOK
  BY <1>1 DEF SessionInit, TableOK, IsInjective
<1>3. list = <<>> /\ Len(list) = 0 /\ list \in Seq(MessageType) /\ todo = <<>> /\ todo \in Seq(Nat) /\ Len(todo) = 0
  BY DEF SessionInit
<1> QED BY <1>2, <1>3 DEF SessionInit, SessionInv, ListOK, TodoOK, RisesOK

\* What the invariant is for.
LEMMA SessionInvIsEnough == SessionInv => SessionsAgree
<1> SUFFICES ASSUME SessionInv PROVE AckedAreStored /\ ListInOrder
  BY DEF SessionsAgree
<1>1. DOMAIN list = 1..Len(list) /\ \A i \in 1..Len(list) : list[i] \in MessageType
  BY DEF SessionInv, ListOK
<1>2. AckedAreStored
  BY <1>1 DEF SessionInv, TableOK, ListOK, AckedAreStored
<1>3. ListInOrder
  <2> SUFFICES ASSUME NEW i \in 1..Len(list), NEW j \in 1..Len(list)
               PROVE  /\ i < j /\ Saved(list[i]) /\ Saved(list[j])
                         /\ {list[i].msg, list[j].msg} \subseteq Range(table) /\ list[i].id > list[j].id =>
                          list[i].msg \in failed
                      /\ i # j /\ Saved(list[i]) /\ list[i].id = list[j].id =>
                          {list[i].msg, list[j].msg} \cap deleted # {}
    BY <1>1 DEF ListInOrder
  <2>1. ASSUME i < j, Saved(list[i]), Saved(list[j]),
               {list[i].msg, list[j].msg} \subseteq Range(table), list[i].id > list[j].id
        PROVE  list[i].msg \in failed
    <3> SUFFICES ASSUME list[i].msg \notin failed PROVE FALSE
      OBVIOUS
    <3>1. {list[i].msg, list[j].msg} \cap deleted = {}
      BY <2>1 DEF SessionInv, TableOK
    <3>2. list[i].id < list[j].id
      BY <2>1, <3>1 DEF SessionInv, RisesOK
    <3>3. list[i].id \in Int /\ list[j].id \in Int
      BY <1>1 DEF MessageType, Unsaved
    <3> QED BY <2>1, <3>2, <3>3
  <2>2. ASSUME i # j, Saved(list[i]), list[i].id = list[j].id
        PROVE  {list[i].msg, list[j].msg} \cap deleted # {}
    BY <2>2 DEF SessionInv, ListOK, Saved
  <2> QED BY <2>1, <2>2
<1> QED BY <1>2, <1>3
-----------------------------------------------------------------------------
\* A session is loaded: its rows in their order.
LEMMA OpensStep == SessionInv /\ Opens => SessionInv'
<1> SUFFICES ASSUME SessionInv, Opens PROVE SessionInv'
  OBVIOUS
<1> DEFINE D == DOMAIN table
           n == Cardinality(D)
           s == InOrder(D)
<1>1. PICK b \in Nat : D \in SUBSET (0..b)
  BY DEF SessionInv, TableOK
<1>2. RowOrders(D) # {} /\ n \in Nat
  BY <1>1, RowsHaveAnOrder
<1>3. s \in RowOrders(D)
  BY <1>2 DEF InOrder, RowOrders
<1>4. s \in [1..n -> D] /\ \A i, j \in 1..n : i < j => s[i] < s[j]
  BY <1>3 DEF RowOrders
<1>5. list' = [i \in 1..n |-> [msg |-> table[s[i]], id |-> s[i]]]
  BY DEF Opens, Stored
<1>6. /\ table \in [D -> 1..born] /\ born \in Nat /\ stage = "idle" /\ todo = <<>>
      /\ \A x, y \in D : table[x] = table[y] => x = y
      /\ Range(table) \cap deleted = {} /\ Unsaved \notin D
      /\ UNCHANGED <<table, born, deleted, settled, failed, todo, stage, nextSeq>>
      /\ cached'
  BY <1>1 DEF SessionInv, TableOK, ListOK, TodoOK, Opens, IsInjective, past, save, desk, Unsaved
<1> HIDE DEF D, n, s
<1>7. ASSUME NEW i \in 1..n
      PROVE  /\ list'[i] \in MessageType /\ list'[i].id = s[i] /\ list'[i].msg = table[s[i]]
             /\ s[i] \in D /\ table[s[i]] \in 1..born /\ Saved(list'[i])
  <2>1. s[i] \in D
    BY <1>4
  <2>2. table[s[i]] \in 1..born /\ s[i] # Unsaved
    BY <1>6, <2>1
  <2>3. s[i] \in Nat
    <3>1. s[i] \in 0..b
      BY <1>1, <2>1
    <3> QED BY <1>1, <3>1
  <2>4. list'[i] = [msg |-> table[s[i]], id |-> s[i]]
    BY <1>5
  <2>5. table[s[i]] \in Nat
    BY <1>6, <2>2
  <2> QED BY <2>1, <2>2, <2>3, <2>4, <2>5 DEF MessageType, Saved
<1>8. list' \in Seq(MessageType) /\ Len(list') = n
  <2>1. list' \in [1..n -> MessageType]
    BY <1>5, <1>7
  <2> QED BY <1>2, <2>1
<1>9. \A i, j \in 1..n : list'[i].msg = list'[j].msg => i = j
  <2> SUFFICES ASSUME NEW i \in 1..n, NEW j \in 1..n, list'[i].msg = list'[j].msg PROVE i = j
    OBVIOUS
  <2>1. table[s[i]] = table[s[j]] /\ s[i] \in D /\ s[j] \in D
    BY <1>7
  <2>2. s[i] = s[j]
    BY <1>6, <2>1
  <2>3. s[i] \in Nat
    <3>1. s[i] \in 0..b
      BY <1>1, <2>1
    <3> QED BY <1>1, <3>1
  <2>4. ~(i < j) /\ ~(j < i)
    BY <1>4, <2>2, <2>3
  <2> QED BY <1>2, <2>4
<1>10. TableOK'
  BY <1>6 DEF SessionInv, TableOK, D
<1>11. ListOK'
  <2>1. \A i \in 1..Len(list') : list'[i].msg \in 1..born /\ Saved(list'[i])
    BY <1>7, <1>8
  <2>2. \A i \in 1..Len(list') : list'[i].id \in DOMAIN table /\ table[list'[i].id] = list'[i].msg
    BY <1>7, <1>8 DEF D
  <2>3. deleted \subseteq 1..born
    BY DEF SessionInv, ListOK
  <2> QED BY <1>6, <1>8, <1>9, <2>1, <2>2, <2>3 DEF ListOK
<1>12. TodoOK'
  BY <1>6, <1>7, <1>8 DEF SessionInv, TodoOK
<1>13. RisesOK'
  BY <1>4, <1>7, <1>8 DEF RisesOK
<1> QED BY <1>10, <1>11, <1>12, <1>13 DEF SessionInv

\* Messages are added, and are what the save looks at.
LEMMA SaysStep ==
  ASSUME SessionInv, NEW count \in {1, 2}, Says(count)
  PROVE  SessionInv'
<1> DEFINE n == Len(list)
           more == [i \in 1..count |-> [msg |-> born + i, id |-> Unsaved]]
<1>1. /\ born \in Nat /\ n \in Nat /\ stage = "idle" /\ todo = <<>> /\ cached /\ list \in Seq(MessageType)
      /\ \A i \in 1..n : list[i].msg \in 1..born
      /\ \A i, j \in 1..n : list[i].msg = list[j].msg => i = j
      /\ Range(table) \subseteq 1..born /\ deleted \subseteq 1..born
  BY DEF SessionInv, TableOK, ListOK, TodoOK, Says, Range
<1>2. /\ born' = born + count /\ list' = list \o more
      /\ todo' = [i \in 1..count |-> born + i] /\ stage' = "meta"
      /\ UNCHANGED <<table, cached, settled, failed, deleted, nextSeq>>
  BY DEF Says, SaveBegins, desk
<1>3. /\ more \in Seq(MessageType) /\ Len(more) = count
      /\ \A i \in 1..count : more[i].msg = born + i /\ more[i].id = Unsaved /\ ~Saved(more[i])
  <2>1. more \in [1..count -> MessageType]
    BY <1>1 DEF MessageType
  <2>2. \A i \in 1..count : more[i] = [msg |-> born + i, id |-> Unsaved]
    OBVIOUS
  <2> QED BY <2>1, <2>2 DEF Saved
<1> HIDE DEF more
<1>4. /\ list' \in Seq(MessageType) /\ Len(list') = n + count
      /\ \A i \in 1..n : list'[i] = list[i]
      /\ \A i \in 1..count : list'[n + i] = more[i]
  BY <1>1, <1>2, <1>3
<1>5. /\ todo' \in Seq(Nat) /\ Len(todo') = count /\ \A i \in 1..count : todo'[i] = born + i
  <2>1. todo' \in [1..count -> Nat]
    BY <1>1, <1>2
  <2> QED BY <1>2, <2>1
<1> HIDE DEF n
<1>6. /\ count \in Nat
      /\ \A i \in 1..(n + count) : i \in 1..n \/ \E k \in 1..count : i = n + k
  <2>1. \A i \in 1..(n + count) : i \notin 1..n => i - n \in 1..count /\ i = n + (i - n)
    BY <1>1
  <2> QED BY <2>1
<1>7. TableOK'
  <2>1. table' \in [DOMAIN table' -> 1..born']
    <3>1. \A m \in 1..born : m \in 1..(born + count)
      BY <1>1, <1>6
    <3> QED BY <1>2, <3>1 DEF SessionInv, TableOK
  <2> QED BY <1>2, <2>1 DEF SessionInv, TableOK
<1>8. ListOK'
  <2>1. born' \in Nat /\ deleted' \subseteq 1..born' /\ cached'
    BY <1>1, <1>2
  <2>2. \A i \in 1..Len(list') : list'[i].msg \in 1..born'
    BY <1>1, <1>2, <1>3, <1>4, <1>6
  <2>3. \A i, j \in 1..Len(list') : list'[i].msg = list'[j].msg => i = j
    <3> SUFFICES ASSUME NEW i \in 1..(n + count), NEW j \in 1..(n + count), list'[i].msg = list'[j].msg PROVE i = j
      BY <1>4
    <3>0. ASSUME NEW k \in 1..n PROVE list'[k].msg = list[k].msg /\ list'[k].msg <= born /\ list'[k].msg \in Nat
      BY <1>1, <1>4
    <3>m. ASSUME NEW k \in 1..count PROVE list'[n + k].msg = born + k
      BY <1>3, <1>4
    <3>1. CASE i \in 1..n /\ j \in 1..n
      BY <3>1, <3>0, <1>1
    <3>5. \A k \in 1..count : born + k > born
      BY <1>1, <1>6
    <3>2. ASSUME i \in 1..n, NEW k \in 1..count, j = n + k PROVE FALSE
      <4>1. list'[j].msg = born + k /\ list'[i].msg <= born
        BY <3>0, <3>m, <3>2
      <4> QED BY <1>1, <3>5, <4>1
    <3>3. ASSUME j \in 1..n, NEW k \in 1..count, i = n + k PROVE FALSE
      <4>1. list'[i].msg = born + k /\ list'[j].msg <= born
        BY <3>0, <3>m, <3>3
      <4> QED BY <1>1, <3>5, <4>1
    <3>4. ASSUME NEW k \in 1..count, i = n + k, NEW l \in 1..count, j = n + l PROVE i = j
      <4>1. born + k = born + l
        BY <3>m, <3>4
      <4> QED BY <1>1, <1>6, <3>4, <4>1
    <3> QED BY <1>6, <3>1, <3>2, <3>3, <3>4
  <2>4. ASSUME NEW i \in 1..Len(list')
        PROVE  IF Saved(list'[i])
                 THEN list'[i].msg \in deleted' \/ (list'[i].id \in DOMAIN table' /\ table'[list'[i].id] = list'[i].msg)
                 ELSE list'[i].msg \notin Range(table') /\ list'[i].msg \notin deleted'
    <3>1. CASE i \in 1..n
      BY <3>1, <1>2, <1>4 DEF SessionInv, ListOK, n
    <3>2. ASSUME NEW k \in 1..count, i = n + k
          PROVE ~Saved(list'[i]) /\ list'[i].msg \notin Range(table') /\ list'[i].msg \notin deleted'
      <4>1. list'[i].msg = born + k /\ ~Saved(list'[i])
        BY <3>2, <1>3, <1>4
      <4>2. born + k \notin 1..born
        BY <1>1
      <4> QED BY <1>1, <1>2, <4>1, <4>2
    <3> QED BY <1>4, <1>6, <3>1, <3>2
  <2> QED BY <1>4, <2>1, <2>2, <2>3, <2>4 DEF ListOK
<1>9. TodoOK'
  <2>1. \A i \in 1..n : Saved(list[i]) \/ list[i].msg \in failed
    BY <1>1 DEF SessionInv, TodoOK, n
  <2>2. n + count - count = n /\ count <= n + count
    BY <1>1, <1>6
  <2>3. todo' \in Seq(Nat) /\ Len(todo') <= Len(list')
    BY <1>4, <1>5, <2>2
  <2>4. Len(list') - Len(todo') = n
    <3>1. Len(list') = n + count
      BY <1>4
    <3>2. Len(todo') = count
      BY <1>5
    <3> DEFINE x == Len(list')
               y == Len(todo')
    <3>3. x = n + count /\ y = count
      BY <3>1, <3>2
    <3> HIDE DEF x, y
    <3>4. n \in Nat /\ count \in Nat
      BY <1>1, <1>6
    <3>5. x - y = n
      BY <3>3, <3>4
    <3> QED BY <3>5 DEF x, y
  <2>5. ASSUME NEW i \in 1..Len(todo') PROVE todo'[i] = list'[Len(list') - Len(todo') + i].msg
    <3>1. todo'[i] = born + i /\ list'[n + i] = more[i] /\ more[i].msg = born + i
      BY <1>3, <1>4, <1>5
    <3> QED BY <2>4, <3>1
  <2>6. ASSUME NEW i \in 1..(Len(list') - Len(todo')) PROVE Saved(list'[i]) \/ list'[i].msg \in failed'
    <3>1. i \in 1..n /\ list'[i] = list[i] /\ failed' = failed
      BY <2>4, <1>2, <1>4
    <3> QED BY <2>1, <3>1
  <2>7. stage' = "meta"
    BY <1>2
  <2> QED BY <2>3, <2>5, <2>6, <2>7 DEF TodoOK
<1>10. RisesOK'
  <2> SUFFICES ASSUME NEW i \in 1..(n + count), NEW j \in 1..(n + count), i < j, Saved(list'[j]), list'[i].msg \notin failed
               PROVE  /\ Saved(list'[i])
                      /\ {list'[i].msg, list'[j].msg} \cap deleted = {} => list'[i].id < list'[j].id
    BY <1>2, <1>4 DEF RisesOK
  <2>1. j \in 1..n
    BY <1>3, <1>4, <1>6
  <2>2. i \in 1..n
    BY <2>1, <1>1, <1>6
  <2> QED BY <1>4, <2>1, <2>2 DEF SessionInv, RisesOK, n
<1> QED BY <1>7, <1>8, <1>9, <1>10 DEF SessionInv

\* All of the list is looked at, or all that is left of it.
LEMMA SavesStep == SessionInv /\ (SavesAll \/ Trims) => SessionInv'
<1> SUFFICES ASSUME SessionInv, SavesAll \/ Trims PROVE SessionInv'
  OBVIOUS
<1> DEFINE n == Len(list)
<1>1. /\ n \in Nat /\ stage = "idle" /\ todo = <<>> /\ cached /\ list \in Seq(MessageType)
      /\ \A i \in 1..n : Saved(list[i]) \/ list[i].msg \in failed
  BY DEF SessionInv, ListOK, TodoOK, SavesAll, Trims
<1>t. \A i \in 1..n : list[i].msg \in Nat
  <2>1. \A i \in 1..n : list[i] \in MessageType
    BY <1>1
  <2> QED BY <2>1 DEF MessageType
<1>2. UNCHANGED <<table, cached, born, settled, failed, deleted, nextSeq>> /\ stage' = "meta"
  BY DEF SavesAll, Trims, SaveBegins, desk
<1>3. PICK w \in 0..n :
        /\ list' \in Seq(MessageType) /\ Len(list') = w
        /\ \A i \in 1..w : list'[i] = list[n - w + i]
        /\ todo' \in Seq(Nat) /\ Len(todo') = w /\ \A i \in 1..w : todo'[i] = list[n - w + i].msg
  <2>1. CASE SavesAll
    <3>1. list' = list /\ todo' = [i \in 1..n |-> list[i].msg]
      BY <1>1, <2>1 DEF SavesAll, SaveBegins
    <3>2. \A i \in 1..n : list[i].msg \in Nat
      BY <1>t
    <3>3. todo' \in [1..n -> Nat]
      BY <3>1, <3>2
    <3>4. \A i \in 1..n : n - n + i = i
      BY <1>1
    <3> HIDE DEF n
    <3> QED BY <1>1, <3>1, <3>3, <3>4 DEF n
  <2>2. CASE Trims
    <3>1. PICK w \in 0..(n - 1) :
            /\ list' = SubSeq(list, n - w + 1, n) /\ todo' = [i \in 1..w |-> list[n - w + i].msg]
      BY <2>2 DEF Trims, SaveBegins
    <3>2. w \in 0..n /\ w \in Nat /\ n - w + 1 \in 1..(n + 1) /\ n - (n - w + 1) + 1 = w
      BY <1>1, <3>1
    <3>3. list' \in Seq(MessageType) /\ Len(list') = w /\ \A i \in 1..w : list'[i] = list[n - w + i]
      <4> DEFINE a == n - w + 1
      <4>1. list' = SubSeq(list, a, n) /\ a \in 1..(n + 1) /\ n - a + 1 = w
        BY <3>1, <3>2
      <4> HIDE DEF a
      <4>2. list' \in Seq(MessageType) /\ Len(list') = w /\ \A i \in 1..w : list'[i] = list[a + i - 1]
        BY <1>1, <4>1
      <4>3. \A i \in 1..w : a + i - 1 = n - w + i
        <5> HIDE DEF n
        <5> QED BY <1>1, <3>2 DEF a
      <4> QED BY <4>2, <4>3
    <3>4. \A i \in 1..w : n - w + i \in 1..n /\ list[n - w + i].msg \in Nat
      <4> SUFFICES ASSUME NEW i \in 1..w PROVE n - w + i \in 1..n
        BY <1>t
      <4> HIDE DEF n
      <4> QED BY <1>1, <3>2
    <3>5. todo' \in [1..w -> Nat] /\ \A i \in 1..w : todo'[i] = list[n - w + i].msg
      BY <3>1, <3>4
    <3>6. todo' \in Seq(Nat) /\ Len(todo') = w
      BY <3>2, <3>5
    <3> QED BY <3>2, <3>3, <3>5, <3>6
  <2> QED BY <2>1, <2>2
<1>4. \A i \in 1..w : n - w + i \in 1..n
  BY <1>1
<1>5. TableOK'
  BY <1>2 DEF SessionInv, TableOK
<1>6. ListOK'
  <2>1. \A i, j \in 1..w : list'[i].msg = list'[j].msg => i = j
    <3> SUFFICES ASSUME NEW i \in 1..w, NEW j \in 1..w, list'[i].msg = list'[j].msg PROVE i = j
      OBVIOUS
    <3>1. \A k, l \in 1..n : list[k].msg = list[l].msg => k = l
      BY DEF SessionInv, ListOK
    <3>2. n - w + i \in 1..n /\ n - w + j \in 1..n /\ list[n - w + i].msg = list[n - w + j].msg
      BY <1>3, <1>4
    <3>3. n - w + i = n - w + j
      BY <3>1, <3>2
    <3> HIDE DEF n
    <3> QED BY <1>1, <1>3, <3>3
  <2>2. \A i \in 1..w : list'[i].msg \in 1..born
    BY <1>3, <1>4 DEF SessionInv, ListOK
  <2>3. \A i \in 1..w :
          IF Saved(list'[i])
            THEN list'[i].msg \in deleted \/ (list'[i].id \in DOMAIN table /\ table[list'[i].id] = list'[i].msg)
            ELSE list'[i].msg \notin Range(table) /\ list'[i].msg \notin deleted
    <3> SUFFICES ASSUME NEW i \in 1..w
                 PROVE  IF Saved(list'[i])
                          THEN list'[i].msg \in deleted \/ (list'[i].id \in DOMAIN table /\ table[list'[i].id] = list'[i].msg)
                          ELSE list'[i].msg \notin Range(table) /\ list'[i].msg \notin deleted
      OBVIOUS
    <3> DEFINE k == n - w + i
    <3>1. k \in 1..n /\ list'[i] = list[k]
      BY <1>3, <1>4
    <3>2. IF Saved(list[k])
            THEN list[k].msg \in deleted \/ (list[k].id \in DOMAIN table /\ table[list[k].id] = list[k].msg)
            ELSE list[k].msg \notin Range(table) /\ list[k].msg \notin deleted
      BY <3>1 DEF SessionInv, ListOK
    <3> HIDE DEF k
    <3> QED BY <3>1, <3>2
  <2> QED BY <1>1, <1>2, <1>3, <2>1, <2>2, <2>3 DEF SessionInv, ListOK
<1>7. TodoOK'
  <2>1. w - w = 0 /\ \A i \in 1..w : w - w + i = i
    BY <1>3
  <2> QED BY <1>2, <1>3, <2>1 DEF TodoOK
<1>8. RisesOK'
  <2> SUFFICES ASSUME NEW i \in 1..w, NEW j \in 1..w, i < j, Saved(list'[j]), list'[i].msg \notin failed
               PROVE  /\ Saved(list'[i])
                      /\ {list'[i].msg, list'[j].msg} \cap deleted = {} => list'[i].id < list'[j].id
    BY <1>2, <1>3 DEF RisesOK
  <2>1. n - w + i < n - w + j
    BY <1>1
  <2> QED BY <1>3, <1>4, <2>1 DEF SessionInv, RisesOK
<1> QED BY <1>5, <1>6, <1>7, <1>8 DEF SessionInv

\* A session's entry is written: the next number is above all there are.
LEMMA SaveEntryStep == SessionInv /\ SaveEntry => SessionInv'
<1> SUFFICES ASSUME SessionInv, SaveEntry PROVE SessionInv'
  OBVIOUS
<1>1. /\ stage = "meta" /\ stage' = "rows" /\ nextSeq' = FreeSeq
      /\ UNCHANGED <<table, cached, list, todo, born, settled, failed, deleted>>
  BY DEF SaveEntry, memory, past, desk
<1>2. FreeSeq \in Nat /\ \A s \in DOMAIN table : s < FreeSeq
  <2>1. PICK b \in Nat : DOMAIN table \in SUBSET (0..b)
    BY DEF SessionInv, TableOK
  <2>2. CASE table = <<>>
    BY <2>2 DEF FreeSeq
  <2>3. CASE table # <<>>
    <3> DEFINE D == DOMAIN table
    <3>1. D # {}
      <4> SUFFICES ASSUME D = {} PROVE table = <<>>
        BY <2>3
      <4>1. table \in [{} -> 1..born]
        BY DEF SessionInv, TableOK
      <4> QED BY <4>1
    <3>2. \E x \in D : \A y \in D : x >= y
      <4> HIDE DEF D
      <4>1. PICK x \in D : \A y \in D : y <= x
        BY <2>1, <3>1, GreatestBelow DEF D
      <4>2. \A y \in D : y \in 0..b
        BY <2>1 DEF D
      <4> QED BY <4>1, <4>2
    <3>3. Max(D) \in D /\ \A y \in D : Max(D) >= y
      <4> HIDE DEF D
      <4> QED BY <3>2 DEF Max
    <3>4. FreeSeq = Max(D) + 1
      BY <2>3 DEF FreeSeq
    <3>5. \A y \in D : y \in 0..b
      BY <2>1
    <3> HIDE DEF D
    <3>6. FreeSeq \in Nat /\ \A y \in D : y < FreeSeq
      <4>1. Max(D) \in 0..b
        BY <3>3, <3>5
      <4> QED BY <4>1, <3>3, <3>4, <3>5
    <3> QED BY <3>6 DEF D
  <2> QED BY <2>2, <2>3
<1>3. TableOK'
  BY <1>1, <1>2 DEF SessionInv, TableOK
<1>4. ListOK' /\ RisesOK'
  BY <1>1 DEF SessionInv, ListOK, RisesOK
<1>5. TodoOK'
  BY <1>1 DEF SessionInv, TodoOK
<1> QED BY <1>3, <1>4, <1>5 DEF SessionInv

\* What of a session's message is known by its type.
LEMMA MessageHasId ==
  ASSUME NEW x \in MessageType, NEW n \in Nat
  PROVE  /\ [x EXCEPT !.id = n] \in MessageType /\ [x EXCEPT !.id = n].msg = x.msg
         /\ [x EXCEPT !.id = n].id = n /\ Saved([x EXCEPT !.id = n])
BY DEF MessageType, Saved, Unsaved

\* A row is inserted for a message that has none, or passed over.
LEMMA SaveRowStep == SessionInv /\ SaveRow => SessionInv'
<1> SUFFICES ASSUME SessionInv, SaveRow PROVE SessionInv'
  OBVIOUS
<1> DEFINE n == Len(list)
           p == Len(list) - Len(todo) + 1
<1>1. /\ stage = "rows" /\ todo # <<>> /\ todo' = Tail(todo)
      /\ UNCHANGED <<cached, stage, born, settled, failed, deleted>>
  BY DEF SaveRow, past, desk
<1>2. /\ n \in Nat /\ list \in Seq(MessageType) /\ todo \in Seq(Nat) /\ Len(todo) \in Nat /\ Len(todo) <= n
      /\ Len(todo) # 0
  BY <1>1 DEF SessionInv, ListOK, TodoOK
<1>3. /\ p \in 1..n /\ Head(todo) = todo[1]
      /\ Tail(todo) \in Seq(Nat) /\ Len(Tail(todo)) = Len(todo) - 1
      /\ \A i \in 1..(Len(todo) - 1) : Tail(todo)[i] = todo[i + 1]
  <2>1. Tail(todo) \in Seq(Nat) /\ Len(Tail(todo)) = Len(todo) - 1
    BY <1>1, <1>2, HeadTailProperties
  <2>2. \A i \in 1..(Len(todo) - 1) : Tail(todo)[i] = todo[i + 1]
    BY <1>1, <1>2, <2>1, HeadTailProperties
  <2> QED BY <1>1, <1>2, <2>1, <2>2
<1>4. Head(todo) = list[p].msg
  <2>1. todo[1] = list[n - Len(todo) + 1].msg
    BY <1>2 DEF SessionInv, TodoOK
  <2> QED BY <1>3, <2>1
<1>5. /\ \A i, j \in 1..n : list[i].msg = list[j].msg => i = j
      /\ \A i \in 1..n : list[i] \in MessageType
  <2>1. \A i, j \in 1..Len(list) : list[i].msg = list[j].msg => i = j
    BY DEF SessionInv, ListOK
  <2>2. \A i \in 1..n : list[i] \in MessageType
    BY <1>2, ElementOfSeq
  <2> QED BY <2>1, <2>2
<1>6. IdOf(Head(todo)) = p
  <2>1. DOMAIN list = 1..n
    BY <1>2
  <2> HIDE DEF n, p
  <2>2. \A i \in DOMAIN list : list[i].msg = Head(todo) <=> i = p
    BY <1>3, <1>4, <1>5, <2>1
  <2> QED BY <1>3, <2>1, <2>2 DEF IdOf
<1>7. TodoOK'
  <2> DEFINE left == Len(todo) - 1
  <2>1. /\ Len(list') = n /\ \A i \in 1..n : list'[i].msg = list[i].msg
        /\ \A i \in 1..n : Saved(list[i]) => Saved(list'[i])
        /\ Saved(list'[p])
    <3>1. CASE Saved(list[p])
      BY <1>3, <1>6, <3>1 DEF SaveRow
    <3>2. CASE ~Saved(list[p])
      <4>1. list' = [list EXCEPT ![p].id = nextSeq] /\ nextSeq \in Nat
        BY <1>1, <1>6, <3>2 DEF SaveRow, SessionInv, TableOK
      <4>2. list' = [list EXCEPT ![p] = [list[p] EXCEPT !.id = nextSeq]]
        BY <1>2, <1>3, <4>1
      <4>3. /\ [list[p] EXCEPT !.id = nextSeq].msg = list[p].msg
            /\ Saved([list[p] EXCEPT !.id = nextSeq])
        BY <1>3, <1>5, <4>1, MessageHasId
      <4> DEFINE row == [list[p] EXCEPT !.id = nextSeq]
      <4>4. list' = [list EXCEPT ![p] = row] /\ row.msg = list[p].msg /\ Saved(row)
        BY <4>2, <4>3
      <4> HIDE DEF p, row
      <4>5. Len(list') = n /\ list'[p] = row /\ \A i \in 1..n : i # p => list'[i] = list[i]
        BY <1>2, <1>3, <4>4
      <4> HIDE DEF n
      <4> QED BY <1>3, <4>4, <4>5
    <3> QED BY <3>1, <3>2
  <2>2. \A i \in 1..left : Tail(todo)[i] = list[n - left + i].msg
    <3> SUFFICES ASSUME NEW i \in 1..left PROVE Tail(todo)[i] = list[n - left + i].msg
      OBVIOUS
    <3>1. i + 1 \in 1..Len(todo) /\ n - Len(todo) + (i + 1) = n - left + i
      BY <1>2
    <3>2. todo[i + 1] = list[n - Len(todo) + (i + 1)].msg
      BY <3>1 DEF SessionInv, TodoOK
    <3> QED BY <1>3, <3>1, <3>2
  <2>3. \A i \in 1..(n - left) : i = p \/ i \in 1..(n - Len(todo))
    BY <1>2
  <2>4. \A i \in 1..(n - left) : Saved(list'[i]) \/ list'[i].msg \in failed
    <3> SUFFICES ASSUME NEW i \in 1..(n - left) PROVE Saved(list'[i]) \/ list'[i].msg \in failed
      OBVIOUS
    <3>1. CASE i = p
      BY <2>1, <3>1
    <3>2. CASE i \in 1..(n - Len(todo))
      <4>1. i \in 1..n
        BY <1>2, <3>2
      <4>2. Saved(list[i]) \/ list[i].msg \in failed
        BY <3>2 DEF SessionInv, TodoOK
      <4> QED BY <2>1, <4>1, <4>2
    <3> QED BY <2>3, <3>1, <3>2
  <2>5. \A i \in 1..left : n - left + i \in 1..n
    BY <1>2
  <2>6. \A i \in 1..left : Tail(todo)[i] = list'[n - left + i].msg
    BY <2>1, <2>2, <2>5
  <2> HIDE DEF n, p
  <2>7. left \in Nat /\ left <= n
    BY <1>2, <1>3
  <2>8. todo' \in Seq(Nat) /\ Len(todo') = left
    BY <1>1, <1>3
  <2> HIDE DEF left
  <2> QED BY <1>1, <2>1, <2>4, <2>6, <2>7, <2>8 DEF TodoOK
<1>8. CASE Saved(list[p])
  <2>1. UNCHANGED <<table, list, nextSeq>>
    BY <1>6, <1>8 DEF SaveRow
  <2>2. TableOK' /\ ListOK' /\ RisesOK'
    BY <1>1, <2>1 DEF SessionInv, TableOK, ListOK, RisesOK
  <2> QED BY <1>7, <2>2 DEF SessionInv
<1>9. CASE ~Saved(list[p])
  <2> DEFINE m == Head(todo)
             x == [list[p] EXCEPT !.id = nextSeq]
             D == DOMAIN table
  <2>1. /\ list' = [list EXCEPT ![p].id = nextSeq] /\ nextSeq' = nextSeq + 1
        /\ table' = [s \in D \cup {nextSeq} |-> IF s = nextSeq THEN m ELSE table[s]]
    BY <1>6, <1>9 DEF SaveRow
  <2>2. nextSeq \in Nat /\ (\A s \in D : s < nextSeq) /\ nextSeq \notin D
    BY <1>1 DEF SessionInv, TableOK
  <2>3. PICK b \in Nat : D \in SUBSET (0..b)
    BY DEF SessionInv, TableOK
  <2>4. list' = [list EXCEPT ![p] = x]
    BY <1>2, <1>3, <2>1
  <2>5. x \in MessageType /\ x.msg = m /\ x.id = nextSeq /\ Saved(x)
    BY <1>3, <1>4, <1>5, <2>2, MessageHasId
  <2>6. m \in 1..born /\ m \notin Range(table) /\ m \notin deleted
    BY <1>3, <1>4, <1>9 DEF SessionInv, ListOK
  <2> HIDE DEF m, x, D, p, n
  <2>7. /\ DOMAIN table' = D \cup {nextSeq} /\ table'[nextSeq] = m
        /\ \A s \in D : table'[s] = table[s]
    BY <2>1, <2>2
  <2>8. Range(table') = Range(table) \cup {m}
    BY <2>7 DEF Range, D
  <2>9. TableOK'
    <3>1. DOMAIN table' \in SUBSET (0..(b + nextSeq)) /\ b + nextSeq \in Nat
      <4>1. b + nextSeq \in Nat /\ nextSeq \in 0..(b + nextSeq) /\ \A s \in 0..b : s \in 0..(b + nextSeq)
        BY <2>2
      <4>2. \A s \in DOMAIN table' : s \in 0..(b + nextSeq)
        BY <2>3, <2>7, <4>1
      <4> QED BY <4>1, <4>2
    <3>2. table' \in [DOMAIN table' -> 1..born']
      <4>1. \A s \in D : table[s] \in 1..born
        BY DEF SessionInv, TableOK, D
      <4> QED BY <1>1, <2>1, <2>6, <4>1
    <3>3. IsInjective(table')
      <4>1. \A s, r \in D : table[s] = table[r] => s = r
        BY DEF SessionInv, TableOK, IsInjective, D
      <4>2. \A s \in D : table[s] # m
        BY <2>6 DEF Range, D
      <4> QED BY <2>7, <4>1, <4>2 DEF IsInjective
    <3>4. Range(table') \cap deleted' = {} /\ settled' \ deleted' \subseteq Range(table')
      BY <1>1, <2>6, <2>8 DEF SessionInv, TableOK
    <3>5. nextSeq' \in Nat /\ \A s \in DOMAIN table' : s < nextSeq'
      <4>1. \A s \in D : s \in 0..b
        BY <2>3
      <4> QED BY <2>1, <2>2, <2>7, <4>1
    <3> QED BY <3>1, <3>2, <3>3, <3>4, <3>5 DEF TableOK
  <2>10. /\ list' \in Seq(MessageType) /\ Len(list') = n /\ list'[p] = x
         /\ \A i \in 1..n : i # p => list'[i] = list[i]
    BY <1>2, <1>3, <2>4, <2>5 DEF n
  <2>11. \A i \in 1..n : list'[i].msg = list[i].msg
    BY <1>4, <2>5, <2>10 DEF m
  <2>12. ListOK'
    <3>1. ASSUME NEW i \in 1..n
          PROVE  IF Saved(list'[i])
                   THEN list'[i].msg \in deleted \/ (list'[i].id \in DOMAIN table' /\ table'[list'[i].id] = list'[i].msg)
                   ELSE list'[i].msg \notin Range(table') /\ list'[i].msg \notin deleted
      <4>1. CASE i = p
        BY <4>1, <2>5, <2>7, <2>10
      <4>2. CASE i # p /\ Saved(list[i])
        <5>1. list[i].msg \in deleted \/ (list[i].id \in D /\ table[list[i].id] = list[i].msg)
          BY <4>2 DEF SessionInv, ListOK, n, D
        <5>2. list'[i] = list[i]
          BY <4>2, <2>10
        <5>3. \A s \in D : s \in DOMAIN table' /\ table'[s] = table[s]
          BY <2>7
        <5>4. Saved(list'[i])
          BY <4>2, <5>2
        <5>5. list'[i].msg \in deleted \/ (list'[i].id \in DOMAIN table' /\ table'[list'[i].id] = list'[i].msg)
          BY <5>1, <5>2, <5>3
        <5> QED BY <5>4, <5>5
      <4>3. CASE i # p /\ ~Saved(list[i])
        <5>1. list[i].msg \notin Range(table) /\ list[i].msg \notin deleted
          BY <4>3 DEF SessionInv, ListOK, n
        <5>2. list[i].msg # m
          BY <1>3, <1>4, <1>5, <4>3 DEF m
        <5> QED BY <4>3, <5>1, <5>2, <2>8, <2>10
      <4> QED BY <4>1, <4>2, <4>3
    <3>2. \A i \in 1..n : list'[i].msg \in 1..born
      BY <2>11 DEF SessionInv, ListOK, n
    <3>3. \A i, j \in 1..n : list'[i].msg = list'[j].msg => i = j
      BY <1>5, <2>11
    <3>4. ~cached => list' = <<>>
      <4> SUFFICES ASSUME ~cached PROVE FALSE
        OBVIOUS
      <4>1. n = 0
        BY DEF SessionInv, ListOK, n
      <4> QED BY <1>3, <4>1
    <3> QED BY <1>1, <2>10, <3>1, <3>2, <3>3, <3>4 DEF SessionInv, ListOK
  <2>13. RisesOK'
    <3> SUFFICES ASSUME NEW i \in 1..n, NEW j \in 1..n, i < j, Saved(list'[j]), list'[i].msg \notin failed
                 PROVE  /\ Saved(list'[i])
                        /\ {list'[i].msg, list'[j].msg} \cap deleted = {} => list'[i].id < list'[j].id
      BY <1>1, <2>10 DEF RisesOK
    <3>1. CASE i # p /\ j # p
      BY <3>1, <2>10 DEF SessionInv, RisesOK, n
    <3>2. CASE j = p
      <4>1. i \in 1..(n - Len(todo)) /\ i # p
        BY <1>2, <1>3, <3>2 DEF p, n
      <4>2. Saved(list[i]) /\ list'[i] = list[i]
        BY <2>10, <4>1 DEF SessionInv, TodoOK, n
      <4>3. list[i].msg \notin deleted => list[i].id \in D
        BY <4>2 DEF SessionInv, ListOK, n, D
      <4> QED BY <2>2, <2>5, <2>10, <3>2, <4>2, <4>3
    <3>3. CASE i = p /\ j # p
      <4>1. Saved(list[j]) /\ list[p].msg \notin failed
        BY <2>10, <2>11, <3>3
      <4>2. Saved(list[p])
        BY <3>3, <4>1 DEF SessionInv, RisesOK, n
      <4> QED BY <1>9, <4>2
    <3> QED BY <3>1, <3>2, <3>3
  <2> QED BY <1>7, <2>9, <2>12, <2>13 DEF SessionInv
<1> QED BY <1>8, <1>9

\* A save ends, as it should or not.
LEMMA SaveEndsStep == SessionInv /\ (SaveCloses \/ SaveRaises) => SessionInv'
<1> SUFFICES ASSUME SessionInv, SaveCloses \/ SaveRaises PROVE SessionInv'
  OBVIOUS
<1>1. UNCHANGED <<table, cached, list, born, deleted>> /\ stage' = "idle" /\ todo' = <<>> /\ failed \subseteq failed'
  BY DEF SaveCloses, SaveRaises, memory, desk
<1>2. DOMAIN list = 1..Len(list) /\ Len(list) \in Nat
  BY DEF SessionInv, ListOK
<1>3. settled' \ deleted \subseteq Range(table)
  <2>1. CASE SaveCloses
    <3> SUFFICES ASSUME NEW i \in 1..Len(list), Saved(list[i]), list[i].msg \notin deleted
                 PROVE  list[i].msg \in Range(table)
      BY <1>2, <2>1 DEF SaveCloses, SessionInv, TableOK
    <3> QED BY DEF SessionInv, ListOK, Range
  <2>2. CASE SaveRaises
    BY <2>2 DEF SaveRaises, SessionInv, TableOK
  <2> QED BY <2>1, <2>2
<1>4. \A i \in 1..Len(list) : Saved(list[i]) \/ list[i].msg \in failed'
  <2>1. CASE SaveCloses
    <3>1. todo = <<>> /\ Len(todo) = 0 /\ Len(list) - 0 = Len(list)
      BY <1>2, <2>1 DEF SaveCloses
    <3> QED BY <1>1, <3>1 DEF SessionInv, TodoOK
  <2>2. CASE SaveRaises
    BY <1>2, <2>2 DEF SaveRaises
  <2> QED BY <2>1, <2>2
<1>5. TableOK'
  BY <1>1, <1>3 DEF SessionInv, TableOK
<1>6. ListOK'
  BY <1>1 DEF SessionInv, ListOK
<1>7. TodoOK'
  <2>1. todo' \in Seq(Nat) /\ Len(todo') = 0 /\ Len(list) - 0 = Len(list)
    BY <1>1, <1>2
  <2> QED BY <1>1, <1>2, <1>4, <2>1 DEF TodoOK
<1>8. RisesOK'
  BY <1>1 DEF SessionInv, RisesOK
<1> QED BY <1>5, <1>6, <1>7, <1>8 DEF SessionInv

\* The process died: nothing is in memory.
LEMMA SessionDiesStep == SessionInv /\ SessionDies => SessionInv'
<1> SUFFICES ASSUME SessionInv, SessionDies PROVE SessionInv'
  OBVIOUS
<1>1. /\ UNCHANGED <<table, born, settled, failed, deleted>> /\ ~cached' /\ list' = <<>>
      /\ stage' = "idle" /\ todo' = <<>>
  BY DEF SessionDies, past
<1>2. /\ list' \in Seq(MessageType) /\ Len(list') = 0 /\ todo' \in Seq(Nat) /\ Len(todo') = 0
  BY <1>1
<1>3. TableOK'
  BY <1>1 DEF SessionInv, TableOK
<1>4. ListOK' /\ TodoOK' /\ RisesOK'
  BY <1>1, <1>2 DEF SessionInv, ListOK, TodoOK, RisesOK
<1> QED BY <1>3, <1>4 DEF SessionInv

\* The dashboard deletes rows, or the session with all of them.
LEMMA DeletesStep == SessionInv /\ (DeletesRows \/ DeletesSession) => SessionInv'
<1> SUFFICES ASSUME SessionInv, DeletesRows \/ DeletesSession PROVE SessionInv'
  OBVIOUS
<1> DEFINE D == DOMAIN table
<1>1. UNCHANGED <<list, cached, todo, stage, nextSeq, born, settled, failed>>
  BY DEF DeletesRows, DeletesSession, memory, save, past
<1>2. PICK leaving \in SUBSET D :
        /\ DOMAIN table' = D \ leaving /\ table' \in [D \ leaving -> 1..born]
        /\ \A s \in D \ leaving : table'[s] = table[s]
        /\ deleted' = deleted \cup {table[s] : s \in leaving}
  <2>1. table \in [D -> 1..born]
    BY DEF SessionInv, TableOK
  <2>2. CASE DeletesRows
    <3>1. PICK seqs \in SUBSET D \ {{}} : table' = Without(seqs) /\ deleted' = deleted \cup {table[s] : s \in seqs}
      BY <2>2 DEF DeletesRows
    <3> HIDE DEF D
    <3>2. table' = [s \in D \ seqs |-> table[s]]
      BY <3>1 DEF Without, D
    <3> QED BY <2>1, <3>1, <3>2
  <2>3. CASE DeletesSession
    <3>1. table' = <<>> /\ deleted' = deleted \cup Range(table)
      BY <2>3 DEF DeletesSession
    <3>2. Range(table) = {table[s] : s \in D}
      BY DEF Range
    <3>3. D \ D = {} /\ DOMAIN table' = {} /\ table' \in [{} -> 1..born]
      BY <3>1
    <3> HIDE DEF D
    <3> QED BY <3>1, <3>2, <3>3
  <2> QED BY <2>2, <2>3
<1>3. \A s, r \in D : table[s] = table[r] => s = r
  BY DEF SessionInv, TableOK, IsInjective
<1>4. PICK b \in Nat : D \in SUBSET (0..b)
  BY DEF SessionInv, TableOK
<1>5. Range(table') \cap deleted' = {} /\ Range(table') \subseteq Range(table)
  <2> SUFFICES ASSUME NEW s \in D \ leaving PROVE table[s] \notin deleted' /\ table[s] \in Range(table)
    BY <1>2 DEF Range
  <2>1. table[s] \in Range(table) /\ table[s] \notin deleted
    BY DEF SessionInv, TableOK, Range
  <2> QED BY <1>2, <1>3, <2>1
<1>6. TableOK'
  <2>1. DOMAIN table' \in SUBSET (0..b) /\ table' \in [DOMAIN table' -> 1..born']
    BY <1>1, <1>2, <1>4
  <2>2. IsInjective(table')
    BY <1>2, <1>3 DEF IsInjective
  <2>3. settled' \ deleted' \subseteq Range(table')
    <3> SUFFICES ASSUME NEW m \in settled, m \notin deleted' PROVE m \in Range(table')
      BY <1>1
    <3>1. PICK s \in D : table[s] = m
      BY <1>2 DEF SessionInv, TableOK, Range
    <3>2. s \notin leaving
      BY <1>2, <3>1
    <3> QED BY <1>2, <3>1, <3>2 DEF Range
  <2>4. stage' = "rows" => nextSeq' \in Nat /\ \A s \in DOMAIN table' : s < nextSeq'
    BY <1>1, <1>2 DEF SessionInv, TableOK
  <2> QED BY <1>5, <2>1, <2>2, <2>3, <2>4 DEF TableOK
<1>7. ListOK'
  <2>1. ASSUME NEW i \in 1..Len(list)
        PROVE  IF Saved(list[i])
                 THEN list[i].msg \in deleted' \/ (list[i].id \in DOMAIN table' /\ table'[list[i].id] = list[i].msg)
                 ELSE list[i].msg \notin Range(table') /\ list[i].msg \notin deleted'
    <3>1. CASE Saved(list[i])
      <4>1. list[i].msg \in deleted \/ (list[i].id \in D /\ table[list[i].id] = list[i].msg)
        BY <3>1 DEF SessionInv, ListOK
      <4>2. ASSUME list[i].msg \notin deleted'
            PROVE  list[i].id \in DOMAIN table' /\ table'[list[i].id] = list[i].msg
        <5>1. list[i].id \in D /\ table[list[i].id] = list[i].msg
          BY <1>2, <4>1, <4>2
        <5> HIDE DEF D
        <5>2. list[i].id \notin leaving
          BY <1>2, <4>2, <5>1
        <5>3. list[i].id \in D \ leaving
          BY <5>1, <5>2
        <5>4. table'[list[i].id] = table[list[i].id] /\ list[i].id \in DOMAIN table'
          BY <1>2, <5>3
        <5> QED BY <5>1, <5>4
      <4> QED BY <3>1, <4>2
    <3>2. CASE ~Saved(list[i])
      <4>1. list[i].msg \notin Range(table) /\ list[i].msg \notin deleted
        BY <3>2 DEF SessionInv, ListOK
      <4>2. \A s \in leaving : table[s] \in Range(table)
        BY DEF Range
      <4> QED BY <1>2, <1>5, <3>2, <4>1, <4>2
    <3> QED BY <3>1, <3>2
  <2>2. deleted' \subseteq 1..born
    <3>1. \A s \in leaving : table[s] \in 1..born
      BY DEF SessionInv, TableOK
    <3> QED BY <1>2, <3>1 DEF SessionInv, ListOK
  <2> QED BY <1>1, <2>1, <2>2 DEF SessionInv, ListOK
<1>8. TodoOK'
  BY <1>1 DEF SessionInv, TodoOK
<1>9. RisesOK'
  BY <1>1, <1>2 DEF SessionInv, RisesOK
<1> QED BY <1>6, <1>7, <1>8, <1>9 DEF SessionInv

\* Whatever the process and the dashboard do to the session keeps the invariant.
LEMMA SessionStep ==
  ASSUME SessionInv, [SessionNext]_sessionVars
  PROVE  SessionInv'
<1>1. CASE UNCHANGED <<table, list, cached, born, settled, deleted, failed, todo, stage, nextSeq>>
  <2>1. TableOK'
    BY <1>1 DEF SessionInv, TableOK
  <2>2. ListOK'
    BY <1>1 DEF SessionInv, ListOK
  <2>3. TodoOK'
    BY <1>1 DEF SessionInv, TodoOK
  <2>4. RisesOK'
    BY <1>1 DEF SessionInv, RisesOK
  <2> QED BY <2>1, <2>2, <2>3, <2>4 DEF SessionInv
<1>2. CASE UNCHANGED sessionVars \/ Presence \/ CountsRows \/ DeletesEntry \/ MovesMark
  BY <1>1, <1>2 DEF sessionVars, Presence, CountsRows, DeletesEntry, MovesMark, memory, save, past, desk
<1>3. ASSUME NEW count \in {1, 2}, Says(count) PROVE SessionInv'
  BY <1>3, SaysStep
<1> QED BY <1>2, <1>3, OpensStep, SavesStep, SaveEntryStep, SaveRowStep, SaveEndsStep, SessionDiesStep, DeletesStep
        DEF SessionNext

-----------------------------------------------------------------------------
(* SessionStore: What slips below the mark                                  *)

\* What can leave a message unarchived below the mark: what was deleted, what failed to be
\* inserted, and what a trim has cut off.
Toll == Cardinality(deleted) + Cardinality(failed) + Cardinality(cut)

\* The messages of the first places of the list.
Heads(m) == {list[i].msg : i \in {j \in 1..Len(list) : j <= m}}

\* Messages whose rows, or whose lack of one, are not where the list has them.
IsLate(i) ==
    /\ list[i].msg \notin deleted
    /\ IF Saved(list[i])
       THEN \E k \in 1..Len(list) :
               i < k /\ Saved(list[k]) /\ list[k].msg \notin deleted /\ list[k].id < list[i].id
       ELSE list[i].msg \in failed
Late == {list[i].msg : i \in {j \in 1..Len(list) : IsLate(j)}}
InList == {list[i].msg : i \in 1..Len(list)}
Unlisted == Range(table) \ InList
Astray == (deleted \cap InList) \cup Late \cup Unlisted

\* Rows with all that are before them.
Leading(X) == X \subseteq DOMAIN table /\ \A s \in X : \A t \in DOMAIN table : t < s => t \in X
Told(X) == {table[s] : s \in X}

SlipTypes ==
    /\ failed \cup cut \subseteq 1..born /\ archived \subseteq 1..born
    /\ mark \in Nat /\ (entry = NoEntry \/ entry \in Nat)
    /\ stage # "idle" => cached
SlipSets ==
    cached =>
      /\ Unlisted \subseteq cut /\ Late \subseteq failed
      /\ \A i \in 1..Len(list) : ~Saved(list[i]) /\ list[i].msg \in archived => list[i].msg \in failed
StoredSlips ==
    ~moved /\ entry # NoEntry =>
        \E X \in SUBSET DOMAIN table :
            Leading(X) /\ Cardinality(X) <= entry /\ entry <= Cardinality(Told(X) \cap archived) + Toll
ListSlips ==
    ~moved /\ cached => mark + Cardinality(Astray) <= Cardinality(Heads(mark) \cap archived) + Toll
SlipInv == SlipTypes /\ SlipSets /\ StoredSlips /\ ListSlips
-----------------------------------------------------------------------------
(* Counting                                                                 *)

\* A part of a finite set has no more members.
LEMMA Fewer ==
  ASSUME NEW S, IsFiniteSet(S), NEW T \in SUBSET S
  PROVE  /\ IsFiniteSet(T) /\ Cardinality(T) \in Nat /\ Cardinality(S) \in Nat
         /\ Cardinality(T) <= Cardinality(S)
BY FS_Subset, FS_CardinalityType

\* What is covered by two sets has no more members than both.
LEMMA Covered ==
  ASSUME NEW S, NEW T, IsFiniteSet(S), IsFiniteSet(T), NEW R \in SUBSET (S \cup T)
  PROVE  /\ IsFiniteSet(R) /\ {Cardinality(R), Cardinality(S), Cardinality(T)} \subseteq Nat
         /\ Cardinality(R) <= Cardinality(S) + Cardinality(T)
<1>1. /\ IsFiniteSet(S \cup T)
      /\ Cardinality(S \cup T) = Cardinality(S) + Cardinality(T) - Cardinality(S \cap T)
  BY FS_Union
<1>2. Cardinality(S) \in Nat /\ Cardinality(T) \in Nat /\ Cardinality(S \cap T) \in Nat
  BY FS_CardinalityType, FS_Intersection
<1>3. IsFiniteSet(R) /\ Cardinality(R) \in Nat /\ Cardinality(R) <= Cardinality(S \cup T)
  BY <1>1, Fewer
<1> QED BY <1>1, <1>2, <1>3

\* Two sets apart have as many members as both.
LEMMA DisjointCounts ==
  ASSUME NEW S, NEW T, IsFiniteSet(S), IsFiniteSet(T), S \cap T = {}
  PROVE  /\ IsFiniteSet(S \cup T) /\ {Cardinality(S), Cardinality(T), Cardinality(S \cup T)} \subseteq Nat
         /\ Cardinality(S \cup T) = Cardinality(S) + Cardinality(T)
<1>1. /\ IsFiniteSet(S \cup T)
      /\ Cardinality(S \cup T) = Cardinality(S) + Cardinality(T) - Cardinality(S \cap T)
  BY FS_Union
<1>2. Cardinality(S) \in Nat /\ Cardinality(T) \in Nat /\ Cardinality(S \cap T) = 0 /\ Cardinality(S \cup T) \in Nat
  BY <1>1, FS_CardinalityType, FS_EmptySet
<1> QED BY <1>1, <1>2

\* The values of a function are no more than its arguments.
LEMMA ValuesAreFew ==
  ASSUME NEW S, IsFiniteSet(S), NEW f, DOMAIN f = S, f = [x \in S |-> f[x]]
  PROVE  /\ IsFiniteSet({f[x] : x \in S}) /\ Cardinality({f[x] : x \in S}) \in Nat /\ Cardinality(S) \in Nat
         /\ Cardinality({f[x] : x \in S}) <= Cardinality(S)
<1> DEFINE R == {f[x] : x \in S}
<1>1. f \in Surjection(S, R)
  BY DEF Surjection
<1>2. /\ IsFiniteSet(R) /\ Cardinality(R) <= Cardinality(S)
  BY <1>1, FS_Surjection
<1>3. Cardinality(R) \in Nat /\ Cardinality(S) \in Nat
  BY <1>2, FS_CardinalityType
<1> HIDE DEF R
<1> QED BY <1>2, <1>3 DEF R

\* They are as many when they differ.
LEMMA ValuesDiffer ==
  ASSUME NEW S, IsFiniteSet(S), NEW f, DOMAIN f = S, f = [x \in S |-> f[x]],
         \A x, y \in S : f[x] = f[y] => x = y
  PROVE  Cardinality({f[x] : x \in S}) = Cardinality(S)
<1> DEFINE R == {f[x] : x \in S}
<1>1. f \in Surjection(S, R)
  BY DEF Surjection
<1>2. Cardinality(R) = Cardinality(S) <=> f \in Injection(S, R)
  BY <1>1, FS_Surjection
<1>3. f \in Injection(S, R)
  BY <1>1 DEF Injection, Surjection, IsInjective
<1> HIDE DEF R
<1> QED BY <1>2, <1>3 DEF R

\* The numbers from 1 to n are n.
LEMMA UpTo ==
  ASSUME NEW n \in Nat
  PROVE  IsFiniteSet(1..n) /\ Cardinality(1..n) = n
BY FS_Interval
-----------------------------------------------------------------------------
\* Of a session: what there is can be counted.
LEMMA SlipCounts ==
  ASSUME SessionInv, SlipTypes
  PROVE  /\ born \in Nat /\ \A S \in SUBSET (1..born) : IsFiniteSet(S) /\ Cardinality(S) \in Nat
         /\ {deleted, failed, cut, archived, Range(table), InList, Late, Unlisted, Astray}
               \subseteq SUBSET (1..born)
         /\ Toll \in Nat
         /\ \A m : Heads(m) \subseteq 1..born
         /\ \A X \in SUBSET DOMAIN table : Told(X) \subseteq Range(table) /\ IsFiniteSet(X) /\ Cardinality(X) \in Nat
<1>1. born \in Nat /\ \A S \in SUBSET (1..born) : IsFiniteSet(S) /\ Cardinality(S) \in Nat
  <2>1. born \in Nat
    BY DEF SessionInv, ListOK
  <2> QED BY <2>1, UpTo, Fewer
<1>2. deleted \subseteq 1..born /\ failed \subseteq 1..born /\ cut \subseteq 1..born /\ archived \subseteq 1..born
  BY DEF SessionInv, ListOK, SlipTypes
<1>3. \A i \in 1..Len(list) : list[i].msg \in 1..born
  BY DEF SessionInv, ListOK
<1>4. Range(table) \subseteq 1..born
  BY DEF SessionInv, TableOK, Range
<1>5. InList \subseteq 1..born /\ Late \subseteq InList
  BY <1>3 DEF InList, Late
<1>6. \A m : Heads(m) \subseteq 1..born
  BY <1>3 DEF Heads
<1>7. Unlisted \subseteq 1..born /\ Astray \subseteq 1..born
  BY <1>4, <1>5 DEF Unlisted, Astray
<1>8. Toll \in Nat
  <2>1. Cardinality(deleted) \in Nat /\ Cardinality(failed) \in Nat /\ Cardinality(cut) \in Nat
    BY <1>1, <1>2
  <2> QED BY <2>1 DEF Toll
<1>9. \A X \in SUBSET DOMAIN table : Told(X) \subseteq Range(table)
  BY DEF Told, Range
<1>10. \A X \in SUBSET DOMAIN table : IsFiniteSet(X) /\ Cardinality(X) \in Nat
  <2>1. PICK b \in Nat : DOMAIN table \in SUBSET (0..b)
    BY DEF SessionInv, TableOK
  <2>2. IsFiniteSet(0..b)
    BY <2>1, FS_Interval
  <2> QED BY <2>1, <2>2, Fewer
<1> QED BY <1>1, <1>2, <1>4, <1>5, <1>6, <1>7, <1>8, <1>9, <1>10

\* The first places are no more than they are.
LEMMA HeadsAreFew ==
  ASSUME SessionInv, SlipTypes, NEW m \in Nat
  PROVE  IsFiniteSet(Heads(m)) /\ Cardinality(Heads(m)) \in Nat /\ Cardinality(Heads(m)) <= m
<1> DEFINE J == {j \in 1..Len(list) : j <= m}
           f == [j \in J |-> list[j].msg]
<1>1. J \in SUBSET (1..m) /\ IsFiniteSet(1..m) /\ Cardinality(1..m) = m
  BY UpTo
<1>2. IsFiniteSet(J) /\ Cardinality(J) \in Nat /\ Cardinality(J) <= m
  BY <1>1, Fewer
<1> HIDE DEF J
<1>3. IsFiniteSet({f[j] : j \in J}) /\ Cardinality({f[j] : j \in J}) \in Nat /\ Cardinality({f[j] : j \in J}) <= Cardinality(J)
  BY <1>2, ValuesAreFew
<1>4. Heads(m) = {f[j] : j \in J}
  BY DEF Heads, J
<1> HIDE DEF f
<1> QED BY <1>2, <1>3, <1>4

\* Nothing is in memory, and nothing stored.
LEMMA SlipBegins == SessionInit => SlipInv
<1> SUFFICES ASSUME SessionInit PROVE SlipInv
  OBVIOUS
<1> QED BY DEF SessionInit, SlipInv, SlipTypes, SlipSets, StoredSlips, ListSlips, NoEntry

\* What the invariant is for.
LEMMA SlipInvIsEnough == SessionInv /\ SlipInv => FewSlipBelowMark
<1> SUFFICES ASSUME SessionInv, SlipInv, cached, ~moved
             PROVE  Cardinality({list[i].msg : i \in DOMAIN list \cap 1..mark} \ archived) <= Toll
  BY DEF FewSlipBelowMark, Toll
<1> DEFINE H == Heads(mark)
<1>1. mark \in Nat /\ SlipTypes
  BY DEF SlipInv, SlipTypes
<1>2. {list[i].msg : i \in DOMAIN list \cap 1..mark} = H
  <2>1. DOMAIN list = 1..Len(list) /\ Len(list) \in Nat
    BY DEF SessionInv, ListOK
  <2>2. \A i : i \in DOMAIN list \cap 1..mark <=> i \in 1..Len(list) /\ i <= mark
    BY <1>1, <2>1
  <2> QED BY <2>2 DEF Heads
<1>3. IsFiniteSet(H) /\ Cardinality(H) \in Nat /\ Cardinality(H) <= mark
  BY <1>1, HeadsAreFew
<1>4. mark + Cardinality(Astray) <= Cardinality(H \cap archived) + Toll
  BY DEF SlipInv, ListSlips
<1>5. Cardinality(Astray) \in Nat /\ Toll \in Nat
  BY <1>1, SlipCounts
<1> HIDE DEF H
<1>6. Cardinality(H \ archived) = Cardinality(H) - Cardinality(H \cap archived) /\ Cardinality(H \cap archived) \in Nat
  BY <1>3, FS_Difference, FS_Intersection, FS_CardinalityType
<1>7. Cardinality(H \ archived) <= Toll
  <2> DEFINE h == Cardinality(H)
             a == Cardinality(H \cap archived)
             y == Cardinality(Astray)
  <2>1. h \in Nat /\ a \in Nat /\ y \in Nat /\ h <= mark /\ mark + y <= a + Toll
    BY <1>3, <1>4, <1>5, <1>6
  <2> HIDE DEF h, a, y
  <2>2. h - a <= Toll
    BY <1>1, <1>5, <2>1
  <2> QED BY <1>6, <2>2 DEF h, a
<1> QED BY <1>2, <1>7

-----------------------------------------------------------------------------
(* The rows                                                                 *)

\* What is stored keeps the bound as long as rows are only added at the end.
LEMMA StoredStays ==
  ASSUME SessionInv, SlipInv, SessionInv', SlipTypes', entry' = entry, moved' = moved,
         DOMAIN table \subseteq DOMAIN table', \A s \in DOMAIN table : table'[s] = table[s],
         \A t \in DOMAIN table' \ DOMAIN table : \A s \in DOMAIN table : s < t,
         archived \subseteq archived', Toll <= Toll'
  PROVE  StoredSlips'
<1> SUFFICES ASSUME ~moved, entry # NoEntry
             PROVE  \E X \in SUBSET DOMAIN table' :
                       Leading(X)' /\ Cardinality(X) <= entry /\ entry <= Cardinality(Told(X)' \cap archived') + Toll'
  BY DEF StoredSlips
<1>1. PICK X \in SUBSET DOMAIN table :
        Leading(X) /\ Cardinality(X) <= entry /\ entry <= Cardinality(Told(X) \cap archived) + Toll
  BY DEF SlipInv, StoredSlips
<1>2. SlipTypes /\ entry \in Nat
  BY DEF SlipInv, SlipTypes
<1>3. Leading(X)'
  <2> SUFFICES ASSUME NEW s \in X, NEW t \in DOMAIN table', t < s PROVE t \in X
    BY <1>1 DEF Leading
  <2>1. t \in DOMAIN table
    <3> SUFFICES ASSUME t \notin DOMAIN table PROVE FALSE
      OBVIOUS
    <3>1. s < t
      BY <1>1
    <3>2. PICK b \in Nat : DOMAIN table' \in SUBSET (0..b)
      BY DEF SessionInv, TableOK
    <3>3. s \in 0..b /\ t \in 0..b
      BY <3>2
    <3> QED BY <3>1, <3>2, <3>3
  <2> QED BY <1>1, <2>1 DEF Leading
<1>4. Told(X)' = Told(X)
  BY <1>1 DEF Told
<1>5. Cardinality(Told(X) \cap archived) <= Cardinality(Told(X)' \cap archived') /\ Cardinality(Told(X) \cap archived) \in Nat
      /\ Cardinality(Told(X)' \cap archived') \in Nat
  <2>1. born' \in Nat /\ archived' \subseteq 1..born' /\ IsFiniteSet(1..born')
    BY UpTo DEF SessionInv, ListOK, SlipTypes
  <2>2. IsFiniteSet(Told(X)' \cap archived')
    BY <2>1, Fewer
  <2> HIDE DEF Told
  <2>3. Told(X) \cap archived \in SUBSET (Told(X)' \cap archived')
    BY <1>4
  <2> QED BY <2>2, <2>3, Fewer
<1>6. Toll \in Nat /\ Toll' \in Nat
  <2>1. Toll \in Nat
    BY <1>2, SlipCounts
  <2>2. /\ born' \in Nat /\ deleted' \subseteq 1..born' /\ failed' \subseteq 1..born' /\ cut' \subseteq 1..born'
        /\ IsFiniteSet(1..born')
    BY UpTo DEF SessionInv, ListOK, SlipTypes
  <2>3. Cardinality(deleted') \in Nat /\ Cardinality(failed') \in Nat /\ Cardinality(cut') \in Nat
    BY <2>2, Fewer
  <2> QED BY <2>1, <2>3 DEF Toll
<1>7. entry <= Cardinality(Told(X)' \cap archived') + Toll'
  <2> DEFINE a == Cardinality(Told(X) \cap archived)
             c == Cardinality(Told(X)' \cap archived')
  <2>1. a \in Nat /\ c \in Nat /\ a <= c /\ entry <= a + Toll
    BY <1>1, <1>5
  <2>2. entry \in Nat /\ Toll \in Nat /\ Toll' \in Nat /\ Toll <= Toll'
    BY <1>2, <1>6
  <2> DEFINE e == entry
             t == Toll
             u == Toll'
  <2>3. e \in Nat /\ t \in Nat /\ u \in Nat /\ t <= u /\ a \in Nat /\ c \in Nat /\ a <= c /\ e <= a + t
    BY <2>1, <2>2
  <2> HIDE DEF a, c, e, t, u
  <2>4. e <= c + u
    BY <2>3
  <2> QED BY <2>4 DEF c, e, u
<1> QED BY <1>1, <1>3, <1>7

\* Of rows with all that are before them, the first n are such as well.
LEMMA FirstLead ==
  ASSUME SessionInv, NEW Z, Leading(Z), NEW n \in Nat, NEW k \in Nat, Cardinality(Z) <= n + k
  PROVE  \E X \in SUBSET Z : Leading(X) /\ Cardinality(X) <= n /\ Cardinality(Z \ X) <= k
<1>1. PICK b \in Nat : DOMAIN table \in SUBSET (0..b)
  BY DEF SessionInv, TableOK
<1>2. Z \in SUBSET DOMAIN table /\ Z \in SUBSET Nat /\ DOMAIN table \in SUBSET Nat
  <2>1. 0..b \in SUBSET Nat
    OBVIOUS
  <2> QED BY <1>1, <2>1 DEF Leading
<1>3. IsFiniteSet(Z)
  <2>1. IsFiniteSet(0..b)
    BY FS_Interval
  <2> QED BY <1>1, <1>2, <2>1, Fewer
<1> DEFINE Sizes == {Cardinality(X) : X \in {Y \in SUBSET Z : Leading(Y) /\ Cardinality(Y) <= n}}
<1>4. Sizes \in SUBSET (0..n) /\ Sizes # {}
  <2>1. \A Y \in SUBSET Z : Cardinality(Y) \in Nat
    BY <1>3, Fewer
  <2>2. {} \in SUBSET Z /\ Leading({}) /\ Cardinality({}) = 0
    BY FS_EmptySet DEF Leading
  <2>3. Sizes \in SUBSET (0..n)
    BY <2>1
  <2>4. 0 \in Sizes
    BY <2>2
  <2> QED BY <2>3, <2>4
<1>5. PICK m \in Sizes : \A y \in Sizes : y <= m
  <2> HIDE DEF Sizes
  <2> QED BY <1>4, GreatestBelow
<1>6. PICK X \in SUBSET Z : Leading(X) /\ Cardinality(X) <= n /\ m = Cardinality(X)
  BY <1>5
<1>7. IsFiniteSet(X) /\ Cardinality(X) \in Nat /\ Cardinality(Z) \in Nat
  BY <1>3, <1>6, Fewer
<1>8. ASSUME X # Z PROVE Cardinality(X) = n
  <2>1. Z \ X \in SUBSET Nat /\ Z \ X # {}
    BY <1>2, <1>6, <1>8
  <2>2. PICK x \in Z \ X : \A y \in Z \ X : x <= y
    BY <2>1, LeastOf
  <2>3. Leading(X \cup {x})
    <3>1. X \cup {x} \subseteq DOMAIN table
      BY <1>2, <1>6, <2>2
    <3>2. ASSUME NEW t \in DOMAIN table, t < x PROVE t \in X
      <4>1. t \in Z
        BY <2>2, <3>2 DEF Leading
      <4>2. ~(x <= t)
        BY <1>2, <2>2, <3>2
      <4> QED BY <2>2, <4>1, <4>2
    <3>3. \A s \in X : \A t \in DOMAIN table : t < s => t \in X
      BY <1>6 DEF Leading
    <3> QED BY <3>1, <3>2, <3>3 DEF Leading
  <2>4. Cardinality(X \cup {x}) = Cardinality(X) + 1
    BY <1>7, <2>2, FS_AddElement
  <2>5. ASSUME Cardinality(X) # n PROVE FALSE
    <3>1. Cardinality(X \cup {x}) <= n
      BY <1>6, <1>7, <2>4, <2>5
    <3>2. X \cup {x} \in SUBSET Z
      BY <2>2
    <3>3. Cardinality(X \cup {x}) \in Sizes
      BY <2>3, <3>1, <3>2
    <3>4. Cardinality(X \cup {x}) <= Cardinality(X)
      BY <1>5, <1>6, <3>3
    <3> QED BY <1>7, <2>4, <3>4
  <2> QED BY <2>5
<1>9. Cardinality(Z \ X) <= k
  <2>1. CASE X = Z
    <3>1. Z \ X = {}
      BY <2>1
    <3>2. Cardinality(Z \ X) = 0
      BY <3>1, FS_EmptySet
    <3> QED BY <3>2
  <2>2. CASE X # Z
    <3>1. Cardinality(Z \ X) = Cardinality(Z) - Cardinality(X)
      <4>1. Z \cap X = X
        BY <1>6
      <4>2. Cardinality(Z \ X) = Cardinality(Z) - Cardinality(Z \cap X)
        BY <1>3, FS_Difference
      <4> QED BY <4>1, <4>2
    <3> QED BY <1>7, <1>8, <2>2, <3>1
  <2> QED BY <2>1, <2>2
<1> QED BY <1>6, <1>9
\* Each row tells one message.
LEMMA ToldAreMany ==
  ASSUME SessionInv, SlipTypes, NEW X \in SUBSET DOMAIN table
  PROVE  IsFiniteSet(Told(X)) /\ Cardinality(Told(X)) \in Nat /\ Cardinality(Told(X)) = Cardinality(X)
<1> DEFINE f == [x \in X |-> table[x]]
<1>1. IsFiniteSet(X)
  BY SlipCounts
<1>2. \A x, y \in X : f[x] = f[y] => x = y
  BY DEF SessionInv, TableOK, IsInjective
<1>3. Told(X) = {f[x] : x \in X}
  BY DEF Told
<1>4. DOMAIN f = X /\ f = [x \in X |-> f[x]]
  OBVIOUS
<1> HIDE DEF f
<1>5. Cardinality({f[x] : x \in X}) = Cardinality(X)
  BY <1>1, <1>2, <1>4, ValuesDiffer
<1>6. IsFiniteSet({f[x] : x \in X}) /\ Cardinality({f[x] : x \in X}) \in Nat
  BY <1>1, <1>4, ValuesAreFew
<1> QED BY <1>3, <1>5, <1>6

\* What a save writes of its mark keeps the bound: rows that stand before one of the
\* list's first messages are of such messages, or are not in the list.
LEMMA ListStores ==
  ASSUME SessionInv, SlipInv, cached, ~moved
  PROVE  \E X \in SUBSET DOMAIN table :
            Leading(X) /\ Cardinality(X) <= mark /\ mark <= Cardinality(Told(X) \cap archived) + Toll
<1> DEFINE H == Heads(mark)
           Lost == (deleted \cap InList) \cup Late
           K == (H \cap archived) \ Lost
           KR == {s \in DOMAIN table : table[s] \in K}
           Z == {t \in DOMAIN table : \E s \in KR : t <= s}
           u == Cardinality(Unlisted)
<1>1. SlipTypes /\ mark \in Nat /\ SlipSets /\ ListSlips
  BY DEF SlipInv, SlipTypes
<1>2. mark + u <= Cardinality(K) + Toll /\ u \in Nat /\ Cardinality(K) \in Nat /\ Toll \in Nat
  <2>0. Late \subseteq InList /\ Lost \cap Unlisted = {} /\ Astray = Lost \cup Unlisted
    BY DEF Late, InList, Unlisted, Astray
  <2>1. /\ Toll \in Nat /\ IsFiniteSet(Lost) /\ IsFiniteSet(Unlisted) /\ IsFiniteSet(H) /\ IsFiniteSet(K)
    <3>1. Lost \subseteq 1..born /\ Unlisted \subseteq 1..born /\ H \subseteq 1..born /\ Toll \in Nat
      BY <1>1, <2>0, SlipCounts
    <3> HIDE DEF Lost, H
    <3> QED BY <1>1, <3>1, SlipCounts
  <2> HIDE DEF Lost, H
  <2>2. Cardinality(Astray) = Cardinality(Lost) + Cardinality(Unlisted) /\ {Cardinality(Lost), u} \subseteq Nat
    BY <2>0, <2>1, DisjointCounts
  <2>3. /\ Cardinality(H \cap archived) <= Cardinality(K) + Cardinality(Lost) /\ Cardinality(K) \in Nat
        /\ Cardinality(H \cap archived) \in Nat
    <3>1. H \cap archived \in SUBSET (K \cup Lost)
      OBVIOUS
    <3> HIDE DEF K
    <3> QED BY <2>1, <3>1, Covered
  <2>4. mark + Cardinality(Astray) <= Cardinality(H \cap archived) + Toll
    BY <1>1 DEF ListSlips, H
  <2> DEFINE a == Cardinality(H \cap archived)
             k == Cardinality(K)
             l == Cardinality(Lost)
             y == Cardinality(Astray)
  <2>5. y = l + u /\ l \in Nat /\ u \in Nat /\ k \in Nat /\ a \in Nat /\ a <= k + l /\ mark + y <= a + Toll
    BY <2>2, <2>3, <2>4
  <2> HIDE DEF a, k, l, y, u
  <2>6. mark + u <= k + Toll
    BY <1>1, <2>1, <2>5
  <2> QED BY <2>1, <2>5, <2>6 DEF k
<1>3. ASSUME NEW m \in K
      PROVE  \E i \in 1..Len(list) : /\ i <= mark /\ list[i].msg = m /\ ~IsLate(i) /\ Saved(list[i]) /\ m \notin deleted
                                     /\ list[i].id \in DOMAIN table /\ table[list[i].id] = m
  <2>1. PICK i \in 1..Len(list) : i <= mark /\ list[i].msg = m
    BY DEF Heads
  <2>2. m \notin deleted /\ ~IsLate(i)
    BY <2>1 DEF Late, InList
  <2>3. Saved(list[i])
    <3>1. ~Saved(list[i]) => m \in failed
      BY <1>1, <2>1 DEF SlipSets
    <3> QED BY <2>1, <2>2, <3>1 DEF IsLate
  <2>4. list[i].id \in DOMAIN table /\ table[list[i].id] = m
    BY <2>1, <2>2, <2>3 DEF SessionInv, ListOK
  <2> QED BY <2>1, <2>2, <2>3, <2>4
<1> HIDE DEF K
<1>4. PICK b \in Nat : DOMAIN table \in SUBSET (0..b)
  BY DEF SessionInv, TableOK
<1>5. Leading(Z)
  <2>1. \A s \in DOMAIN table : s \in Nat
    BY <1>4
  <2> QED BY <2>1 DEF Leading
<1>6. Told(Z) \subseteq H \cup Unlisted
  <2> SUFFICES ASSUME NEW t \in Z, table[t] \notin Unlisted PROVE table[t] \in H
    BY DEF Told
  <2>1. PICK s \in DOMAIN table : table[s] \in K /\ t <= s
    OBVIOUS
  <2>2. t \in DOMAIN table /\ t \in Nat /\ s \in Nat /\ table[t] \in Range(table)
    BY <1>4 DEF Range
  <2>3. PICK i \in 1..Len(list) : /\ i <= mark /\ list[i].msg = table[s] /\ ~IsLate(i) /\ Saved(list[i])
                                  /\ table[s] \notin deleted
                                  /\ list[i].id \in DOMAIN table /\ table[list[i].id] = table[s]
    BY <1>3, <2>1
  <2>4. PICK j \in 1..Len(list) : list[j].msg = table[t]
    BY <2>2 DEF Unlisted, InList
  <2>5. table[t] \notin deleted
    BY <2>2 DEF SessionInv, TableOK
  <2>6. Saved(list[j]) /\ list[j].id \in DOMAIN table /\ table[list[j].id] = table[t]
    BY <2>2, <2>4, <2>5 DEF SessionInv, ListOK
  <2>7. list[j].id = t /\ list[i].id = s
    BY <2>2, <2>3, <2>6 DEF SessionInv, TableOK, IsInjective
  <2>8. j <= mark
    <3> SUFFICES ASSUME ~(j <= mark) PROVE FALSE
      OBVIOUS
    <3>0. Len(list) \in Nat
      BY DEF SessionInv, ListOK
    <3>1. i < j
      BY <1>1, <2>3, <3>0
    <3>2. ~(list[j].id < list[i].id)
      BY <2>3, <2>4, <2>5, <2>6, <3>1 DEF IsLate
    <3>3. t = s
      BY <2>1, <2>2, <2>7, <3>2
    <3>4. i = j
      BY <2>3, <2>4, <3>3 DEF SessionInv, ListOK
    <3> QED BY <3>0, <3>1, <3>4
  <2> QED BY <2>4, <2>8 DEF Heads
<1>7. Cardinality(Z) <= mark + u
  <2>1. Cardinality(Told(Z)) = Cardinality(Z)
    BY <1>1, ToldAreMany
  <2>2. IsFiniteSet(H) /\ Cardinality(H) \in Nat /\ Cardinality(H) <= mark
    BY <1>1, HeadsAreFew
  <2>3. IsFiniteSet(Unlisted)
    BY <1>1, SlipCounts
  <2> HIDE DEF H, Z
  <2>4. Cardinality(Told(Z)) <= Cardinality(H) + Cardinality(Unlisted) /\ Cardinality(Told(Z)) \in Nat
    BY <1>6, <2>2, <2>3, Covered
  <2> QED BY <1>1, <1>2, <2>1, <2>2, <2>4
<1>8. K \subseteq Told(Z)
  <2> SUFFICES ASSUME NEW m \in K PROVE m \in Told(Z)
    OBVIOUS
  <2>1. PICK s \in DOMAIN table : table[s] = m
    BY <1>3
  <2>2. s \in Nat
    BY <1>4
  <2> QED BY <2>1, <2>2 DEF Told
<1>9. Z \in SUBSET DOMAIN table
  OBVIOUS
<1> HIDE DEF Z
<1>10. PICK X \in SUBSET Z : Leading(X) /\ Cardinality(X) <= mark /\ Cardinality(Z \ X) <= u
  BY <1>1, <1>2, <1>5, <1>7, FirstLead
<1>11. Cardinality(K) <= Cardinality(Told(X) \cap archived) + u /\ Cardinality(Told(X) \cap archived) \in Nat
  <2>1. K \subseteq archived
    BY DEF K
  <2>2. K \subseteq (Told(X) \cap archived) \cup Told(Z \ X)
    <3> SUFFICES ASSUME NEW m \in K PROVE m \in Told(X) \/ m \in Told(Z \ X)
      BY <2>1
    <3> QED BY <1>8 DEF Told
  <2>3. IsFiniteSet(Told(X)) /\ IsFiniteSet(Told(Z \ X)) /\ Cardinality(Told(Z \ X)) = Cardinality(Z \ X)
    BY <1>1, <1>9, ToldAreMany
  <2>4. IsFiniteSet(Told(X) \cap archived)
    BY <2>3, FS_Intersection
  <2>5. /\ Cardinality(K) <= Cardinality(Told(X) \cap archived) + Cardinality(Told(Z \ X))
        /\ {Cardinality(Told(X) \cap archived), Cardinality(Told(Z \ X))} \subseteq Nat
    <3> DEFINE A == Told(X) \cap archived
               B == Told(Z \ X)
    <3>1. IsFiniteSet(A) /\ IsFiniteSet(B) /\ K \in SUBSET (A \cup B)
      BY <2>2, <2>3, <2>4
    <3> HIDE DEF A, B, K
    <3>2. Cardinality(K) <= Cardinality(A) + Cardinality(B) /\ {Cardinality(A), Cardinality(B)} \subseteq Nat
      BY <3>1, Covered
    <3> QED BY <3>2 DEF A, B
  <2> QED BY <1>2, <1>10, <2>3, <2>5
<1>12. mark <= Cardinality(Told(X) \cap archived) + Toll
  <2> DEFINE k == Cardinality(K)
             t == Cardinality(Told(X) \cap archived)
  <2>1. k \in Nat /\ t \in Nat /\ k <= t + u /\ mark + u <= k + Toll
    BY <1>2, <1>11
  <2> HIDE DEF k, t, u
  <2>2. mark <= t + Toll
    BY <1>1, <1>2, <2>1
  <2> QED BY <2>2 DEF t
<1> QED BY <1>9, <1>10, <1>12
-----------------------------------------------------------------------------
(* The list                                                                 *)

\* The list keeps the bound when what goes astray in a step is paid for.
LEMMA ListStays ==
  ASSUME SessionInv, SlipInv, SessionInv', SlipTypes', cached, mark' = mark, moved' = moved,
         Heads(mark) \subseteq Heads(mark)', archived \subseteq archived',
         NEW D, IsFiniteSet(D), Astray' \subseteq Astray \cup D, Toll' >= Toll + Cardinality(D)
  PROVE  ListSlips'
<1> SUFFICES ASSUME ~moved
             PROVE  mark + Cardinality(Astray') <= Cardinality((Heads(mark) \cap archived)') + Toll'
  BY DEF ListSlips
<1>1. SlipTypes /\ mark \in Nat /\ mark + Cardinality(Astray) <= Cardinality(Heads(mark) \cap archived) + Toll
  BY DEF SlipInv, SlipTypes, ListSlips
<1>2. Toll \in Nat /\ Astray \subseteq 1..born /\ IsFiniteSet(Astray) /\ IsFiniteSet(Heads(mark) \cap archived)
  <2>1. /\ Toll \in Nat /\ Astray \in SUBSET (1..born) /\ Heads(mark) \cap archived \in SUBSET (1..born)
        /\ \A S \in SUBSET (1..born) : IsFiniteSet(S)
    BY <1>1, SlipCounts
  <2> QED BY <2>1
<1>3. born' \in Nat /\ archived' \subseteq 1..born' /\ IsFiniteSet(archived')
  BY UpTo, Fewer DEF SessionInv, ListOK, SlipTypes
<1>4. Toll' \in Nat
  <2>2. /\ born' \in Nat /\ deleted' \subseteq 1..born' /\ failed' \subseteq 1..born' /\ cut' \subseteq 1..born'
        /\ IsFiniteSet(1..born')
    BY UpTo DEF SessionInv, ListOK, SlipTypes
  <2>3. Cardinality(deleted') \in Nat /\ Cardinality(failed') \in Nat /\ Cardinality(cut') \in Nat
    BY <2>2, Fewer
  <2> QED BY <2>3 DEF Toll
<1> HIDE DEF Toll
<1>5. Cardinality(Astray') <= Cardinality(Astray) + Cardinality(D) /\ {Cardinality(Astray'), Cardinality(Astray), Cardinality(D)} \subseteq Nat
  BY <1>2, Covered
<1> DEFINE H == Heads(mark) \cap archived
           G == (Heads(mark) \cap archived)'
<1>6. Cardinality(H) <= Cardinality(G) /\ {Cardinality(H), Cardinality(G)} \subseteq Nat
  <2>1. H \in SUBSET G /\ G \in SUBSET archived'
    OBVIOUS
  <2> HIDE DEF H, G
  <2>2. IsFiniteSet(G)
    BY <1>3, <2>1, Fewer
  <2> QED BY <2>1, <2>2, Fewer
<1> DEFINE h == Cardinality(H)
           g == Cardinality(G)
           a == Cardinality(Astray)
           c == Cardinality(Astray')
           d == Cardinality(D)
           t == Toll'
<1>7. /\ {h, g, a, c, d, t} \subseteq Nat /\ mark + a <= h + Toll /\ h <= g /\ c <= a + d /\ t >= Toll + d
  BY <1>1, <1>4, <1>5, <1>6
<1> HIDE DEF h, g, a, c, d, t
<1>8. mark + c <= g + t
  BY <1>1, <1>2, <1>7
<1> QED BY <1>8 DEF c, g, t

\* The rows in their order.
LEMMA StoredIs ==
  ASSUME SessionInv
  PROVE  \E n \in Nat : \E s \in [1..n -> DOMAIN table] :
            /\ \A i, j \in 1..n : i < j => s[i] < s[j]
            /\ \A x \in DOMAIN table : \E i \in 1..n : s[i] = x
            /\ Stored = [i \in 1..n |-> [msg |-> table[s[i]], id |-> s[i]]]
<1> DEFINE D == DOMAIN table
           n == Cardinality(D)
           s == InOrder(D)
<1>1. PICK b \in Nat : D \in SUBSET (0..b)
  BY DEF SessionInv, TableOK
<1>2. RowOrders(D) # {} /\ n \in Nat /\ IsFiniteSet(D)
  BY <1>1, RowsHaveAnOrder
<1>3. s \in RowOrders(D)
  BY <1>2 DEF InOrder, RowOrders
<1>4. s \in [1..n -> D] /\ \A i, j \in 1..n : i < j => s[i] < s[j]
  BY <1>3 DEF RowOrders
<1>5. Stored = [i \in 1..n |-> [msg |-> table[s[i]], id |-> s[i]]]
  BY DEF Stored
<1> HIDE DEF D, n, s
<1>6. \A x \in D : \E i \in 1..n : s[i] = x
  <2> DEFINE R == {s[i] : i \in 1..n}
  <2>1. IsFiniteSet(1..n) /\ Cardinality(1..n) = n /\ DOMAIN s = 1..n /\ s = [i \in 1..n |-> s[i]]
    BY <1>2, <1>4, UpTo
  <2>2. ASSUME NEW i \in 1..n, NEW j \in 1..n, s[i] = s[j] PROVE i = j
    <3>1. s[i] \in D /\ s[j] \in D
      BY <1>4
    <3>2. s[i] \in 0..b /\ s[j] \in 0..b
      BY <1>1, <3>1
    <3>3. ~(i < j) /\ ~(j < i)
      BY <1>4, <2>2, <3>2
    <3> QED BY <1>2, <3>3
  <2>3. Cardinality(R) = n
    <3>1. \A x, y \in 1..n : s[x] = s[y] => x = y
      BY <2>2
    <3>2. IsFiniteSet(1..n)
      BY <2>1
    <3>3. DOMAIN s = 1..n /\ s = [i \in 1..n |-> s[i]]
      BY <2>1
    <3>4. Cardinality({s[x] : x \in 1..n}) = Cardinality(1..n)
      BY <1>2, <3>1, <3>2, <3>3, ValuesDiffer
    <3> QED BY <2>1, <3>4
  <2>4. R \in SUBSET D
    BY <1>4
  <2> HIDE DEF R
  <2>5. R = D
    BY <1>2, <2>3, <2>4, FS_Subset DEF n
  <2> QED BY <2>5 DEF R
<1> QED BY <1>2, <1>4, <1>5, <1>6 DEF D

\* A session is loaded: what the entry counts are the first messages of the list.
LEMMA OpensSlip == SessionInv /\ SlipInv /\ Opens => SlipInv'
<1> SUFFICES ASSUME SessionInv, SlipInv, Opens PROVE SlipInv'
  OBVIOUS
<1>1. SessionInv' /\ SlipTypes
  BY OpensStep DEF SlipInv
<1>a. PICK n \in Nat : \E s \in [1..n -> DOMAIN table] :
            /\ \A i, j \in 1..n : i < j => s[i] < s[j]
            /\ \A x \in DOMAIN table : \E i \in 1..n : s[i] = x
            /\ Stored = [i \in 1..n |-> [msg |-> table[s[i]], id |-> s[i]]]
  BY StoredIs
<1>2. PICK s \in [1..n -> DOMAIN table] :
            /\ \A i, j \in 1..n : i < j => s[i] < s[j]
            /\ \A x \in DOMAIN table : \E i \in 1..n : s[i] = x
            /\ Stored = [i \in 1..n |-> [msg |-> table[s[i]], id |-> s[i]]]
  BY <1>a
<1>3. /\ UNCHANGED <<table, born, failed, cut, deleted, archived, moved, stage>> /\ cached'
      /\ stage = "idle" /\ list' = Stored
      /\ mark' = IF entry = NoEntry THEN 0 ELSE entry
      /\ entry' = entry \/ (entry = NoEntry /\ entry' = 0)
  BY DEF Opens, past, save, desk
<1>4. Len(list') = n /\ \A i \in 1..n : list'[i].msg = table[s[i]] /\ list'[i].id = s[i] /\ s[i] \in DOMAIN table
  BY <1>2, <1>3
<1>5. PICK b \in Nat : DOMAIN table \in SUBSET (0..b)
  BY DEF SessionInv, TableOK
<1>6. \A i \in 1..n : Saved(list'[i]) /\ s[i] \in Nat /\ table[s[i]] \in Range(table)
  <2> SUFFICES ASSUME NEW i \in 1..n PROVE Saved(list'[i]) /\ s[i] \in Nat /\ table[s[i]] \in Range(table)
    OBVIOUS
  <2>1. s[i] \in 0..b
    BY <1>4, <1>5
  <2> QED BY <1>4, <2>1 DEF Saved, Unsaved, Range
<1>7. Unlisted' = {}
  <2> SUFFICES ASSUME NEW x \in DOMAIN table PROVE table[x] \in InList'
    BY <1>3 DEF Unlisted, Range
  <2>1. PICK i \in 1..n : s[i] = x
    BY <1>2
  <2> QED BY <1>4, <2>1 DEF InList
<1>8. Late' = {}
  <2> SUFFICES ASSUME NEW i \in 1..n, IsLate(i)' PROVE FALSE
    BY <1>4 DEF Late
  <2>1. PICK k \in 1..n : i < k /\ list'[k].id < list'[i].id
    BY <1>4, <1>6 DEF IsLate
  <2> QED BY <1>2, <1>4, <1>6, <2>1
<1>9. deleted' \cap InList' = {}
  <2>1. InList' \subseteq Range(table)
    BY <1>4, <1>6 DEF InList
  <2> QED BY <1>3, <2>1 DEF SessionInv, TableOK
<1>10. SlipTypes'
  BY <1>3 DEF SlipInv, SlipTypes, NoEntry
<1>11. SlipSets'
  BY <1>3, <1>4, <1>6, <1>7, <1>8 DEF SlipSets
<1>12. StoredSlips'
  <2>1. CASE entry' = entry
    <3>1. Toll' = Toll /\ Toll \in Nat
      BY <1>1, <1>3, SlipCounts DEF Toll
    <3> QED BY <1>1, <1>3, <1>10, <2>1, <3>1, StoredStays
  <2>2. CASE entry' = 0
    <3>1. Leading({})' /\ {} \in SUBSET DOMAIN table' /\ Cardinality({}) = 0
      BY FS_EmptySet DEF Leading
    <3>2. Toll' \in Nat
      BY <1>1, <1>3, SlipCounts DEF Toll
    <3>3. Told({})' \cap archived' = {}
      BY DEF Told
    <3>5. Cardinality(Told({})' \cap archived') = 0
      BY <3>3, FS_EmptySet
    <3>6. \A t, x \in Nat : 0 <= t + x /\ 0 <= 0
      OBVIOUS
    <3>4. Cardinality({}) <= entry' /\ entry' <= Cardinality(Told({})' \cap archived') + Toll'
      <4>1. Cardinality(Told({})' \cap archived') \in Nat
        BY <3>5
      <4> QED BY <2>2, <3>1, <3>2, <3>6, <4>1, Zenon
    <3> QED BY <3>1, <3>4 DEF StoredSlips
  <2> QED BY <1>3, <2>1, <2>2
<1>13. ListSlips'
  <2> SUFFICES ASSUME ~moved PROVE mark' + Cardinality(Astray') <= Cardinality((Heads(mark) \cap archived)') + Toll'
    BY <1>3 DEF ListSlips
  <2>1. Astray' = {} /\ Cardinality(Astray') = 0
    BY <1>7, <1>8, <1>9, FS_EmptySet DEF Astray
  <2>2. Toll' = Toll /\ Toll \in Nat
    BY <1>1, <1>3, SlipCounts DEF Toll
  <2> DEFINE G == (Heads(mark) \cap archived)'
  <2>3. IsFiniteSet(G) /\ Cardinality(G) \in Nat
    <3>1. archived' \subseteq 1..born /\ \A S \in SUBSET (1..born) : IsFiniteSet(S) /\ Cardinality(S) \in Nat
      BY <1>1, <1>3, SlipCounts
    <3>2. G \in SUBSET (1..born)
      BY <3>1
    <3> QED BY <3>1, <3>2
  <2>4. CASE entry = NoEntry
    <3>1. mark' = 0
      BY <1>3, <2>4
    <3> HIDE DEF G
    <3>2. 0 + 0 <= Cardinality(G) + Toll
      BY <2>2, <2>3
    <3> QED BY <2>1, <2>2, <3>1, <3>2 DEF G
  <2>5. CASE entry # NoEntry
    <3>1. PICK X \in SUBSET DOMAIN table :
            Leading(X) /\ Cardinality(X) <= entry /\ entry <= Cardinality(Told(X) \cap archived) + Toll
      BY <2>5 DEF SlipInv, StoredSlips
    <3>2. mark' = entry /\ entry \in Nat /\ IsFiniteSet(X) /\ Cardinality(X) \in Nat
      BY <1>1, <1>3, <2>5, SlipCounts DEF SlipTypes
    <3>3. Told(X) \subseteq Heads(mark)'
      <4> SUFFICES ASSUME NEW x \in X PROVE table[x] \in Heads(mark)'
        BY DEF Told
      <4>1. PICK i \in 1..n : s[i] = x
        BY <1>2, <3>1
      <4> DEFINE f == [j \in 1..i |-> s[j]]
                 R == {f[j] : j \in 1..i}
      <4>2. i \in Nat /\ IsFiniteSet(1..i) /\ Cardinality(1..i) = i /\ 1..i \subseteq 1..n
        BY <1>2, <4>1, UpTo
      <4>3. \A j \in 1..i : s[j] \in X
        <5> SUFFICES ASSUME NEW j \in 1..i PROVE s[j] \in X
          OBVIOUS
        <5>1. CASE j = i
          BY <4>1, <5>1
        <5>2. CASE j # i
          <6>1. j \in 1..n /\ j < i
            BY <4>2, <5>2
          <6>2. s[j] < x /\ s[j] \in DOMAIN table
            BY <1>2, <4>1, <6>1
          <6> QED BY <3>1, <6>2 DEF Leading
        <5> QED BY <5>1, <5>2
      <4>4. ASSUME NEW j \in 1..i, NEW k \in 1..i, f[j] = f[k] PROVE j = k
        <5>1. s[j] = s[k] /\ j \in 1..n /\ k \in 1..n
          BY <4>2, <4>4
        <5>2. s[j] \in Nat /\ s[k] \in Nat
          BY <1>6, <5>1
        <5>3. ~(j < k) /\ ~(k < j)
          BY <1>2, <5>1, <5>2
        <5> QED BY <4>2, <5>3
      <4>5. Cardinality(R) = i
        <5>1. DOMAIN f = 1..i /\ f = [j \in 1..i |-> f[j]]
          OBVIOUS
        <5> HIDE DEF f
        <5>2. Cardinality(R) = Cardinality(1..i)
          BY <4>2, <4>4, <5>1, ValuesDiffer
        <5> QED BY <4>2, <5>2
      <4>6. R \in SUBSET X
        BY <4>3
      <4> HIDE DEF R
      <4>7. i <= Cardinality(X)
        BY <3>2, <4>5, <4>6, Fewer
      <4>8. i <= entry
        BY <3>1, <3>2, <4>2, <4>7
      <4> QED BY <1>4, <3>2, <4>1, <4>8 DEF Heads
    <3>4. Told(X) \cap archived \in SUBSET G
      BY <1>3, <3>3
    <3> DEFINE g == Cardinality(G)
               x == Cardinality(Told(X) \cap archived)
    <3> HIDE DEF G
    <3>5. x \in Nat /\ x <= g /\ g \in Nat
      BY <2>3, <3>4, Fewer
    <3>6. entry <= x + Toll
      BY <3>1
    <3> HIDE DEF g, x
    <3>7. entry + 0 <= g + Toll
      BY <2>2, <3>2, <3>5, <3>6
    <3> QED BY <2>1, <2>2, <3>2, <3>7 DEF g, G
  <2> QED BY <2>4, <2>5
<1> QED BY <1>10, <1>11, <1>12, <1>13 DEF SlipInv
-----------------------------------------------------------------------------
(* The steps                                                                *)

\* What is paid from grows by what was deleted, or left behind.
LEMMA TollGrows ==
  ASSUME SessionInv, SlipTypes, SessionInv', SlipTypes',
         deleted \subseteq deleted', failed \subseteq failed', cut \subseteq cut'
  PROVE  /\ Toll <= Toll'
         /\ IsFiniteSet({}) /\ Toll' >= Toll + Cardinality({})
         /\ IsFiniteSet(deleted' \ deleted) /\ Toll' >= Toll + Cardinality(deleted' \ deleted)
         /\ IsFiniteSet(failed' \ failed) /\ Toll' >= Toll + Cardinality(failed' \ failed)
<1>1. /\ born' \in Nat /\ deleted' \subseteq 1..born' /\ failed' \subseteq 1..born' /\ cut' \subseteq 1..born'
      /\ IsFiniteSet(1..born')
  BY UpTo DEF SessionInv, ListOK, SlipTypes
<1>2. ASSUME NEW S \in SUBSET (1..born'), NEW R \in SUBSET S
      PROVE  /\ IsFiniteSet(S \ R) /\ Cardinality(S \ R) \in Nat /\ Cardinality(R) \in Nat
             /\ Cardinality(S) = Cardinality(R) + Cardinality(S \ R)
  <2>1. IsFiniteSet(S) /\ IsFiniteSet(R) /\ IsFiniteSet(S \ R)
    BY <1>1, Fewer
  <2>2. R \cap (S \ R) = {} /\ R \cup (S \ R) = S
    OBVIOUS
  <2>3. Cardinality(R \cup (S \ R)) = Cardinality(R) + Cardinality(S \ R)
    BY <2>1, <2>2, DisjointCounts
  <2> QED BY <2>1, <2>2, <2>3, FS_CardinalityType
<1>3. /\ IsFiniteSet(deleted' \ deleted) /\ Cardinality(deleted' \ deleted) \in Nat /\ Cardinality(deleted) \in Nat
      /\ Cardinality(deleted') = Cardinality(deleted) + Cardinality(deleted' \ deleted)
  BY <1>1, <1>2
<1>4. /\ IsFiniteSet(failed' \ failed) /\ Cardinality(failed' \ failed) \in Nat /\ Cardinality(failed) \in Nat
      /\ Cardinality(failed') = Cardinality(failed) + Cardinality(failed' \ failed)
  BY <1>1, <1>2
<1>5. /\ Cardinality(cut' \ cut) \in Nat /\ Cardinality(cut) \in Nat
      /\ Cardinality(cut') = Cardinality(cut) + Cardinality(cut' \ cut)
  BY <1>1, <1>2
<1>6. IsFiniteSet({}) /\ Cardinality({}) = 0
  BY FS_EmptySet
<1> DEFINE a == Cardinality(deleted)
           b == Cardinality(failed)
           c == Cardinality(cut)
           d == Cardinality(deleted' \ deleted)
           e == Cardinality(failed' \ failed)
           f == Cardinality(cut' \ cut)
           z == Cardinality({})
           t == Toll
           u == Toll'
<1>7. /\ {a, b, c, d, e, f} \subseteq Nat /\ z = 0
      /\ t = a + b + c /\ u = (a + d) + (b + e) + (c + f)
  BY <1>3, <1>4, <1>5, <1>6 DEF Toll
<1> HIDE DEF a, b, c, d, e, f, t, u, z
<1>8. t <= u /\ u >= t + z /\ u >= t + d /\ u >= t + e
  BY <1>7
<1> QED BY <1>3, <1>4, <1>6, <1>8 DEF d, e, t, u, z

\* Messages are added at the end.
LEMMA SaysSlip ==
  ASSUME SessionInv, SlipInv, NEW count \in {1, 2}, Says(count)
  PROVE  SlipInv'
<1> DEFINE n == Len(list)
           more == [i \in 1..count |-> [msg |-> born + i, id |-> Unsaved]]
<1>1. SessionInv' /\ SlipTypes
  BY SaysStep DEF SlipInv
<1>2. /\ born' = born + count /\ list' = list \o more /\ stage' = "meta" /\ cached
      /\ UNCHANGED <<table, entry, cached, mark, failed, deleted, cut, archived, moved>>
  BY DEF Says, SaveBegins, desk
<1>3. born \in Nat /\ n \in Nat /\ list \in Seq(MessageType) /\ Range(table) \subseteq 1..born
  BY DEF SessionInv, TableOK, ListOK, Range
<1>4. /\ more \in Seq(MessageType) /\ Len(more) = count
      /\ \A i \in 1..count : more[i].msg = born + i /\ more[i].id = Unsaved /\ ~Saved(more[i])
  <2>1. more \in [1..count -> MessageType]
    BY <1>3 DEF MessageType
  <2>2. \A i \in 1..count : more[i] = [msg |-> born + i, id |-> Unsaved]
    OBVIOUS
  <2> QED BY <2>1, <2>2 DEF Saved
<1> HIDE DEF more
<1>5. /\ Len(list') = n + count
      /\ \A i \in 1..n : list'[i] = list[i]
      /\ \A i \in 1..count : list'[n + i] = more[i]
  BY <1>2, <1>3, <1>4
<1> HIDE DEF n
<1>6. \A i \in 1..(n + count) : i \in 1..n \/ \E k \in 1..count : i = n + k
  <2>1. \A i \in 1..(n + count) : i \notin 1..n => i - n \in 1..count /\ i = n + (i - n)
    BY <1>3
  <2> QED BY <2>1
<1>7. \A i \in 1..n : i \in 1..(n + count)
  BY <1>3
<1>8. \A k \in 1..count : ~Saved(list'[n + k]) /\ list'[n + k].msg \notin 1..born
  <2> SUFFICES ASSUME NEW k \in 1..count PROVE ~Saved(list'[n + k]) /\ list'[n + k].msg \notin 1..born
    OBVIOUS
  <2>1. list'[n + k] = more[k]
    BY <1>5
  <2>2. more[k].msg = born + k /\ ~Saved(more[k])
    BY <1>4
  <2>3. born + k \notin 1..born
    BY <1>3
  <2> QED BY <2>1, <2>2, <2>3
<1>9. SlipTypes'
  <2>1. \A m \in 1..born : m \in 1..born'
    BY <1>2, <1>3
  <2> QED BY <1>2, <2>1 DEF SlipInv, SlipTypes
<1>10. InList \subseteq InList'
  BY <1>5, <1>7 DEF InList, n
<1>11. Unlisted' \subseteq Unlisted
  BY <1>2, <1>10 DEF Unlisted
<1>12. Late' \subseteq Late
  <2> SUFFICES ASSUME NEW i \in 1..(n + count), IsLate(i)' PROVE list'[i].msg \in Late
    BY <1>5 DEF Late
  <2>1. i \in 1..n
    <3> SUFFICES ASSUME NEW k \in 1..count, i = n + k PROVE FALSE
      BY <1>6
    <3>1. ~Saved(list'[i]) /\ list'[i].msg \notin failed
      BY <1>1, <1>8 DEF SlipTypes
    <3> QED BY <1>2, <3>1 DEF IsLate
  <2>2. IsLate(i)
    <3>1. CASE Saved(list[i])
      <4>1. PICK k \in 1..(n + count) : i < k /\ Saved(list'[k]) /\ list'[k].msg \notin deleted /\ list'[k].id < list'[i].id
        BY <1>2, <1>5, <2>1, <3>1 DEF IsLate
      <4>2. k \in 1..n
        BY <1>6, <1>8, <4>1
      <4> QED BY <1>2, <1>5, <2>1, <3>1, <4>1, <4>2 DEF IsLate, n
    <3>2. CASE ~Saved(list[i])
      BY <1>2, <1>5, <2>1, <3>2 DEF IsLate
    <3> QED BY <3>1, <3>2
  <2> QED BY <1>5, <2>1, <2>2 DEF Late, n
<1>13. SlipSets'
  <2>1. ASSUME NEW i \in 1..(n + count), ~Saved(list'[i]), list'[i].msg \in archived PROVE list'[i].msg \in failed
    <3>1. i \in 1..n
      BY <1>1, <1>6, <1>8, <2>1 DEF SlipTypes
    <3> QED BY <1>2, <1>5, <2>1, <3>1 DEF SlipInv, SlipSets, n
  <2> QED BY <1>2, <1>5, <1>11, <1>12, <2>1 DEF SlipInv, SlipSets
<1>14. /\ IsFiniteSet({}) /\ Toll' >= Toll + Cardinality({}) /\ Toll <= Toll'
  BY <1>1, <1>2, <1>9, TollGrows
<1>15. StoredSlips'
  BY <1>1, <1>2, <1>9, <1>14, StoredStays
<1>16. ListSlips'
  <2>1. Heads(mark) \subseteq Heads(mark)'
    BY <1>2, <1>5, <1>7 DEF Heads, n
  <2>2. Astray' \subseteq Astray \cup {}
    <3> SUFFICES ASSUME NEW x \in deleted, x \in InList' PROVE x \in InList
      BY <1>2, <1>11, <1>12 DEF Astray
    <3>1. PICK i \in 1..(n + count) : list'[i].msg = x
      BY <1>5 DEF InList
    <3>2. x \in 1..born
      BY DEF SessionInv, ListOK
    <3>3. i \in 1..n
      BY <1>6, <1>8, <3>1, <3>2
    <3> QED BY <1>5, <3>1, <3>3 DEF InList, n
  <2> QED BY <1>1, <1>2, <1>9, <1>14, <2>1, <2>2, ListStays
<1> QED BY <1>9, <1>13, <1>15, <1>16 DEF SlipInv

\* All of the list is saved, with what was archived if anything was.
LEMMA SavesSlip == SessionInv /\ SlipInv /\ SavesAll => SlipInv'
<1> SUFFICES ASSUME SessionInv, SlipInv, SavesAll PROVE SlipInv'
  OBVIOUS
<1> DEFINE n == Len(list)
<1>1. SessionInv' /\ SlipTypes /\ mark \in Nat /\ n \in Nat /\ list \in Seq(MessageType)
  <2>1. SessionInv'
    BY SavesStep
  <2>2. list \in Seq(MessageType)
    BY DEF SessionInv, ListOK
  <2>3. SlipTypes /\ mark \in Nat
    BY DEF SlipInv, SlipTypes
  <2> QED BY <2>1, <2>2, <2>3
<1>2. /\ stage = "idle" /\ stage' = "meta" /\ cached
      /\ UNCHANGED <<table, list, entry, cached, failed, deleted, cut, born, moved>>
  BY DEF SavesAll, SaveBegins, desk
<1>3. PICK to \in {mark, n} :
        to >= mark /\ mark' = to /\ archived' = archived \cup Names(SubSeq(list, mark + 1, to))
  BY DEF SavesAll
<1>4. to \in Nat /\ to >= mark
  BY <1>1, <1>3
<1>5. Names(SubSeq(list, mark + 1, to)) = {list[i].msg : i \in {j \in 1..n : mark < j /\ j <= to}}
  <2> DEFINE r == SubSeq(list, mark + 1, to)
  <2>1. CASE to = mark
    <3>1. DOMAIN r = {}
      BY <1>1, <2>1
    <3>2. {j \in 1..n : mark < j /\ j <= to} = {}
      BY <1>1, <2>1
    <3> HIDE DEF r
    <3>3. Names(r) = {} /\ {list[i].msg : i \in {j \in 1..n : mark < j /\ j <= to}} = {}
      BY <3>1, <3>2 DEF Names
    <3> QED BY <3>3 DEF r
  <2>2. CASE to = n /\ to # mark
    <3>1. mark < n /\ to = n
      BY <1>1, <1>4, <2>2
    <3>2. Len(r) = n - mark /\ DOMAIN r = 1..(n - mark) /\ \A i \in 1..(n - mark) : r[i] = list[mark + i]
      BY <1>1, <3>1
    <3> HIDE DEF r, n
    <3>3. \A i \in 1..(n - mark) : mark + i \in 1..n /\ mark < mark + i /\ mark + i <= to
      BY <1>1, <3>1
    <3>4. \A j \in 1..n : mark < j => j - mark \in 1..(n - mark) /\ mark + (j - mark) = j
      BY <1>1, <3>1
    <3>5. ASSUME NEW i \in 1..(n - mark) PROVE r[i].msg \in {list[k].msg : k \in {j \in 1..n : mark < j /\ j <= to}}
      BY <3>2, <3>3
    <3>6. ASSUME NEW j \in 1..n, mark < j PROVE \E i \in 1..(n - mark) : r[i].msg = list[j].msg
      BY <3>2, <3>4, <3>6
    <3>7. Names(r) = {r[i].msg : i \in 1..(n - mark)}
      BY <3>2 DEF Names
    <3>8. Names(r) = {list[i].msg : i \in {j \in 1..n : mark < j /\ j <= to}}
      BY <3>5, <3>6, <3>7
    <3> QED BY <3>8 DEF r
  <2> QED BY <1>3, <2>1, <2>2
<1> DEFINE J == {j \in 1..n : mark < j /\ j <= to}
           N == {list[i].msg : i \in J}
<1>6. archived' = archived \cup N
  BY <1>3, <1>5
<1>7. N \subseteq 1..born
  BY DEF SessionInv, ListOK
<1>8. SlipTypes'
  BY <1>2, <1>3, <1>4, <1>6, <1>7 DEF SlipInv, SlipTypes
<1>9. SlipSets'
  <2>1. Unlisted' = Unlisted /\ Late' = Late
    BY <1>2 DEF Unlisted, Late, InList, IsLate
  <2>2. todo = <<>> /\ Len(todo) = 0
    BY <1>2 DEF SessionInv, TodoOK
  <2>3. \A i \in 1..n : Saved(list[i]) \/ list[i].msg \in failed
    <3>1. \A i \in 1..(Len(list) - Len(todo)) : Saved(list[i]) \/ list[i].msg \in failed
      BY DEF SessionInv, TodoOK
    <3>2. Len(list) - Len(todo) = n
      BY <1>1, <2>2
    <3> QED BY <3>1, <3>2
  <2> QED BY <1>2, <2>1, <2>3 DEF SlipInv, SlipSets
<1>10. /\ IsFiniteSet({}) /\ Toll' >= Toll + Cardinality({}) /\ Toll <= Toll'
  BY <1>1, <1>2, <1>8, TollGrows
<1>11. StoredSlips'
  BY <1>1, <1>2, <1>6, <1>8, <1>10, StoredStays
<1>12. ListSlips'
  <2>1. CASE to = mark
    <3>1. Heads(mark) \subseteq Heads(mark)' /\ mark' = mark
      BY <1>2, <1>3, <2>1 DEF Heads
    <3>2. Astray' \subseteq Astray \cup {}
      BY <1>2 DEF Astray, Unlisted, Late, InList, IsLate
    <3> QED BY <1>1, <1>2, <1>6, <1>8, <1>10, <3>1, <3>2, ListStays
  <2>2. CASE to = n
    <3> SUFFICES ASSUME ~moved PROVE mark' + Cardinality(Astray') <= Cardinality((Heads(mark) \cap archived)') + Toll'
      BY <1>2 DEF ListSlips
    <3> DEFINE H == Heads(mark) \cap archived
               G == (Heads(mark) \cap archived)'
    <3>1. Astray' = Astray /\ Toll' = Toll /\ Toll \in Nat
      BY <1>1, <1>2, SlipCounts DEF Astray, Unlisted, Late, InList, IsLate, Toll
    <3>2. mark + Cardinality(Astray) <= Cardinality(H) + Toll
      BY <1>2 DEF SlipInv, ListSlips
    <3>3. IsFiniteSet(H) /\ IsFiniteSet(N) /\ IsFiniteSet(Astray) /\ Cardinality(Astray) \in Nat
      <4>1. H \subseteq 1..born /\ Astray \subseteq 1..born /\ \A S \in SUBSET (1..born) : IsFiniteSet(S) /\ Cardinality(S) \in Nat
        BY <1>1, SlipCounts
      <4> HIDE DEF H, N
      <4> QED BY <1>7, <4>1
    <3>4. Cardinality(N) = n - mark
      <4> DEFINE f == [j \in J |-> list[j].msg]
      <4>1. J = (mark + 1)..n
        BY <1>1, <2>2
      <4>2. IsFiniteSet(J) /\ Cardinality(J) = n - mark
        <5>1. mark + 1 \in Int /\ n \in Int /\ mark <= n
          BY <1>1, <1>4, <2>2
        <5> HIDE DEF n, J
        <5>2. IsFiniteSet((mark + 1)..n) /\ Cardinality((mark + 1)..n) = IF mark + 1 > n THEN 0 ELSE n - (mark + 1) + 1
          BY <5>1, FS_Interval
        <5> QED BY <1>1, <4>1, <5>1, <5>2
      <4>3. ASSUME NEW i \in J, NEW j \in J, f[i] = f[j] PROVE i = j
        BY <4>3 DEF SessionInv, ListOK
      <4>4. DOMAIN f = J /\ f = [j \in J |-> f[j]] /\ N = {f[j] : j \in J}
        OBVIOUS
      <4> HIDE DEF f, J, N
      <4>5. Cardinality({f[j] : j \in J}) = Cardinality(J)
        BY <4>2, <4>3, <4>4, ValuesDiffer
      <4> QED BY <4>2, <4>4, <4>5
    <3>5. H \cap N = {}
      <4> SUFFICES ASSUME NEW i \in 1..n, NEW j \in 1..n, i <= mark, mark < j, list[i].msg = list[j].msg PROVE FALSE
        BY DEF Heads
      <4>1. i = j
        BY DEF SessionInv, ListOK
      <4> QED BY <1>1, <4>1
    <3>6. H \cup N \subseteq G
      <4>1. Heads(mark)' = {list[i].msg : i \in {j \in 1..n : j <= to}}
        BY <1>2, <1>3 DEF Heads
      <4>2. \A j \in 1..n : j <= to
        BY <1>1, <2>2
      <4>3. Heads(mark) \subseteq Heads(mark)' /\ N \subseteq Heads(mark)'
        BY <4>1, <4>2 DEF Heads
      <4> QED BY <1>6, <4>3
    <3>7. IsFiniteSet(G)
      <4>1. G \subseteq 1..born /\ born \in Nat
        BY <1>1, <1>2, <1>8 DEF SlipTypes, SessionInv, ListOK
      <4> HIDE DEF G
      <4> QED BY <4>1, UpTo, Fewer
    <3> DEFINE g == Cardinality(G)
               h == Cardinality(H)
               y == Cardinality(Astray)
               m == Cardinality(N)
    <3> HIDE DEF G, H, N
    <3>8. Cardinality(H \cup N) = Cardinality(H) + Cardinality(N) /\ {Cardinality(H), Cardinality(N)} \subseteq Nat
      BY <3>3, <3>5, DisjointCounts
    <3>9. Cardinality(H \cup N) <= Cardinality(G) /\ Cardinality(G) \in Nat
      BY <3>6, <3>7, Fewer
    <3>10. {g, h, y} \subseteq Nat /\ mark + y <= h + Toll /\ h + m <= g /\ m = n - mark
      BY <3>2, <3>3, <3>4, <3>8, <3>9
    <3> HIDE DEF g, h, y, m, n
    <3>11. to + y <= g + Toll
      BY <1>1, <1>4, <2>2, <3>1, <3>10
    <3> QED BY <1>3, <3>1, <3>11 DEF g, y, G
  <2> QED BY <1>3, <2>1, <2>2
<1> QED BY <1>8, <1>9, <1>11, <1>12 DEF SlipInv
\* The list is cut: what it lost is counted, and nothing of it is archived any more.
LEMMA TrimsSlip == SessionInv /\ SlipInv /\ Trims => SlipInv'
<1> SUFFICES ASSUME SessionInv, SlipInv, Trims PROVE SlipInv'
  OBVIOUS
<1> DEFINE n == Len(list)
<1>1. SessionInv' /\ SlipTypes /\ n \in Nat /\ list \in Seq(MessageType)
  BY SavesStep DEF SlipInv, SlipTypes, SessionInv, ListOK
<1>2. /\ stage = "idle" /\ stage' = "meta" /\ cached /\ mark' = 0
      /\ UNCHANGED <<table, entry, cached, failed, deleted, archived, born, moved>>
  BY DEF Trims, SaveBegins, desk
<1>3. PICK w \in 0..(n - 1) :
        /\ list' = SubSeq(list, n - w + 1, n)
        /\ cut' = cut \cup {list[i].msg : i \in 1..(n - w)}
  BY DEF Trims
<1>4. w \in 0..n /\ w \in Nat /\ n - w \in Nat /\ n - w + 1 \in 1..(n + 1) /\ n - (n - w + 1) + 1 = w
  BY <1>1, <1>3
<1>5. Len(list') = w /\ \A i \in 1..w : list'[i] = list[n - w + i]
  BY <1>1, <1>3, <1>4
<1> HIDE DEF n
<1>6. \A i \in 1..w : n - w + i \in 1..n
  BY <1>1, <1>4
<1>7. \A j \in 1..n : j \in 1..(n - w) \/ (j - (n - w) \in 1..w /\ n - w + (j - (n - w)) = j)
  BY <1>1, <1>4
<1>8. \A i, k \in 1..w : i < k => n - w + i < n - w + k
  BY <1>1, <1>4
<1>9. \A i \in 1..(n - w) : i \in 1..n
  BY <1>1, <1>4
<1>10. SlipTypes'
  <2>1. \A i \in 1..(n - w) : list[i].msg \in 1..born
    BY <1>9 DEF SessionInv, ListOK, n
  <2> QED BY <1>2, <1>3, <2>1 DEF SlipInv, SlipTypes
<1>11. Unlisted' \subseteq cut'
  <2> SUFFICES ASSUME NEW x \in Range(table), x \notin InList' PROVE x \in cut'
    BY <1>2 DEF Unlisted
  <2>1. CASE x \in Unlisted
    BY <1>2, <1>3, <2>1 DEF SlipInv, SlipSets
  <2>2. CASE x \in InList
    <3>1. PICK j \in 1..n : list[j].msg = x
      BY <2>2 DEF InList, n
    <3>2. CASE j \in 1..(n - w)
      BY <1>3, <3>1, <3>2
    <3>3. ASSUME NEW i \in 1..w, n - w + i = j PROVE FALSE
      BY <1>5, <3>1, <3>3 DEF InList
    <3> QED BY <1>7, <3>2, <3>3
  <2> QED BY <2>1, <2>2 DEF Unlisted
<1>12. Late' \subseteq Late
  <2> SUFFICES ASSUME NEW i \in 1..w, IsLate(i)' PROVE list'[i].msg \in Late
    BY <1>5 DEF Late
  <2> DEFINE j == n - w + i
  <2>1. j \in 1..n /\ list'[i] = list[j]
    BY <1>5, <1>6
  <2> HIDE DEF j
  <2>2. IsLate(j)
    <3>1. CASE Saved(list[j])
      <4>1. PICK k \in 1..w : i < k /\ Saved(list'[k]) /\ list'[k].msg \notin deleted /\ list'[k].id < list'[i].id
        BY <1>2, <1>5, <2>1, <3>1 DEF IsLate
      <4>2. n - w + k \in 1..n /\ list'[k] = list[n - w + k] /\ j < n - w + k
        BY <1>5, <1>6, <1>8, <4>1 DEF j
      <4>3. list'[i].msg \notin deleted
        BY <1>2 DEF IsLate
      <4> QED BY <2>1, <3>1, <4>1, <4>2, <4>3 DEF IsLate, n
    <3>2. CASE ~Saved(list[j])
      <4> QED BY <1>2, <2>1, <3>2 DEF IsLate
    <3> QED BY <3>1, <3>2
  <2> QED BY <2>1, <2>2 DEF Late, n
<1>13. SlipSets'
  <2>1. Late' \subseteq failed'
    BY <1>2, <1>12 DEF SlipInv, SlipSets
  <2>2. ASSUME NEW i \in 1..w, ~Saved(list'[i]), list'[i].msg \in archived PROVE list'[i].msg \in failed
    <3>1. n - w + i \in 1..n /\ list'[i] = list[n - w + i]
      BY <1>5, <1>6
    <3>2. \A k \in 1..n : ~Saved(list[k]) /\ list[k].msg \in archived => list[k].msg \in failed
      BY <1>2 DEF SlipInv, SlipSets, n
    <3> QED BY <2>2, <3>1, <3>2
  <2> QED BY <1>2, <1>5, <1>11, <2>1, <2>2 DEF SlipSets
<1>14. Toll <= Toll'
  BY <1>1, <1>2, <1>3, <1>10, TollGrows
<1>15. StoredSlips'
  BY <1>1, <1>2, <1>10, <1>14, StoredStays
<1>16. ListSlips'
  <2> SUFFICES ASSUME ~moved PROVE mark' + Cardinality(Astray') <= Cardinality((Heads(mark) \cap archived)') + Toll'
    BY <1>2 DEF ListSlips
  <2>1. Astray' \subseteq deleted' \cup (failed' \cup cut')
    BY <1>11, <1>13, <1>2 DEF Astray, SlipSets
  <2>2. born' \in Nat /\ deleted' \subseteq 1..born' /\ failed' \subseteq 1..born' /\ cut' \subseteq 1..born' /\ archived' \subseteq 1..born'
    BY <1>1, <1>10 DEF SessionInv, ListOK, SlipTypes
  <2>3. IsFiniteSet(deleted') /\ IsFiniteSet(failed') /\ IsFiniteSet(cut') /\ IsFiniteSet(archived')
    BY <2>2, UpTo, Fewer
  <2>4. /\ Cardinality(failed' \cup cut') <= Cardinality(failed') + Cardinality(cut')
        /\ IsFiniteSet(failed' \cup cut')
        /\ {Cardinality(failed' \cup cut'), Cardinality(failed'), Cardinality(cut')} \subseteq Nat
    BY <2>3, Covered
  <2>5. /\ Cardinality(Astray') <= Cardinality(deleted') + Cardinality(failed' \cup cut')
        /\ {Cardinality(Astray'), Cardinality(deleted')} \subseteq Nat
    BY <2>1, <2>3, <2>4, Covered
  <2> DEFINE G == (Heads(mark) \cap archived)'
  <2>6. Cardinality(G) \in Nat
    <3>1. G \in SUBSET archived'
      OBVIOUS
    <3> HIDE DEF G
    <3> QED BY <2>3, <3>1, Fewer
  <2> DEFINE a == Cardinality(deleted')
             b == Cardinality(failed')
             c == Cardinality(cut')
             d == Cardinality(failed' \cup cut')
             y == Cardinality(Astray')
             g == Cardinality(G)
             t == Toll'
  <2>7. {a, b, c, d, y, g} \subseteq Nat /\ y <= a + d /\ d <= b + c /\ t = a + b + c
    BY <2>4, <2>5, <2>6 DEF Toll
  <2> HIDE DEF a, b, c, d, y, g, t
  <2>8. 0 + y <= g + t
    BY <2>7
  <2> QED BY <1>2, <2>8 DEF y, g, t
<1> QED BY <1>10, <1>13, <1>15, <1>16 DEF SlipInv

\* What is left of the list's side when neither the list nor what it is compared with changes.
LEMMA ListUnchanged ==
  ASSUME SlipInv, UNCHANGED <<table, cached, list, mark, deleted, failed, cut, archived, moved>>
  PROVE  /\ SlipSets' /\ ListSlips' /\ Toll' = Toll
<1>1. /\ Unlisted' = Unlisted /\ Late' = Late /\ Astray' = Astray
      /\ (Heads(mark) \cap archived)' = Heads(mark) \cap archived
  BY DEF Unlisted, Late, InList, IsLate, Astray, Heads
<1>2. Toll' = Toll
  BY DEF Toll
<1>3. SlipSets'
  BY <1>1 DEF SlipInv, SlipSets
<1>4. ListSlips'
  BY <1>1, <1>2 DEF SlipInv, ListSlips
<1> QED BY <1>2, <1>3, <1>4

\* The save writes the mark into the entry, before the rows and after them.
LEMMA EntrySlip == SessionInv /\ SlipInv /\ (SaveEntry \/ SaveCloses) => SlipInv'
<1> SUFFICES ASSUME SessionInv, SlipInv, SaveEntry \/ SaveCloses PROVE SlipInv'
  OBVIOUS
<1>1. /\ UNCHANGED <<table, cached, list, mark, deleted, failed, cut, archived, moved, born>>
      /\ entry' = mark /\ stage \in {"meta", "rows"}
  BY DEF SaveEntry, SaveCloses, memory, past, desk
<1>2. SlipTypes /\ cached
  BY <1>1 DEF SlipInv, SlipTypes
<1>3. SlipTypes'
  BY <1>1, <1>2 DEF SlipTypes
<1>4. SlipSets' /\ ListSlips' /\ Toll' = Toll
  BY <1>1, ListUnchanged
<1>5. StoredSlips'
  <2> SUFFICES ASSUME ~moved
               PROVE  \E X \in SUBSET DOMAIN table :
                         Leading(X)' /\ Cardinality(X) <= mark /\ mark <= Cardinality(Told(X)' \cap archived) + Toll
    BY <1>1, <1>4 DEF StoredSlips
  <2>1. PICK X \in SUBSET DOMAIN table :
            Leading(X) /\ Cardinality(X) <= mark /\ mark <= Cardinality(Told(X) \cap archived) + Toll
    BY <1>2, ListStores
  <2>2. Leading(X)' /\ Told(X)' = Told(X)
    BY <1>1, <2>1 DEF Leading, Told
  <2> QED BY <2>1, <2>2
<1> QED BY <1>3, <1>4, <1>5 DEF SlipInv

\* What a row's statement does.
LEMMA SaveRowIs ==
  ASSUME SessionInv, SaveRow
  PROVE  \/ UNCHANGED <<table, list, nextSeq>>
         \/ \E p \in 1..Len(list) :
              /\ nextSeq' = nextSeq + 1
              /\ ~Saved(list[p]) /\ \A s \in DOMAIN table : s < nextSeq
              /\ DOMAIN table' = DOMAIN table \cup {nextSeq} /\ table'[nextSeq] = list[p].msg
              /\ \A s \in DOMAIN table : table'[s] = table[s]
              /\ Len(list') = Len(list) /\ \A i \in 1..Len(list) : i # p => list'[i] = list[i]
              /\ list'[p].msg = list[p].msg /\ list'[p].id = nextSeq /\ Saved(list'[p])
<1> DEFINE n == Len(list)
           p == Len(list) - Len(todo) + 1
<1>1. stage = "rows" /\ todo # <<>>
  BY DEF SaveRow
<1>2. /\ n \in Nat /\ list \in Seq(MessageType) /\ todo \in Seq(Nat) /\ Len(todo) \in Nat /\ Len(todo) <= n
      /\ Len(todo) # 0
  BY <1>1 DEF SessionInv, ListOK, TodoOK
<1>3. p \in 1..n /\ Head(todo) = todo[1]
  BY <1>1, <1>2
<1>4. Head(todo) = list[p].msg
  <2>1. todo[1] = list[n - Len(todo) + 1].msg
    BY <1>2 DEF SessionInv, TodoOK
  <2> QED BY <1>3, <2>1
<1>5. /\ \A i, j \in 1..n : list[i].msg = list[j].msg => i = j
      /\ \A i \in 1..n : list[i] \in MessageType
  <2>1. \A i, j \in 1..Len(list) : list[i].msg = list[j].msg => i = j
    BY DEF SessionInv, ListOK
  <2>2. \A i \in 1..n : list[i] \in MessageType
    BY <1>2, ElementOfSeq
  <2> QED BY <2>1, <2>2
<1>6. IdOf(Head(todo)) = p
  <2>1. DOMAIN list = 1..n
    BY <1>2
  <2> HIDE DEF n, p
  <2>2. \A i \in DOMAIN list : list[i].msg = Head(todo) <=> i = p
    BY <1>3, <1>4, <1>5, <2>1
  <2> QED BY <1>3, <2>1, <2>2 DEF IdOf
<1>7. CASE Saved(list[p])
  BY <1>6, <1>7 DEF SaveRow
<1>8. CASE ~Saved(list[p])
  <2> DEFINE m == Head(todo)
             x == [list[p] EXCEPT !.id = nextSeq]
             D == DOMAIN table
  <2>1. /\ list' = [list EXCEPT ![p].id = nextSeq]
        /\ table' = [s \in D \cup {nextSeq} |-> IF s = nextSeq THEN m ELSE table[s]]
        /\ nextSeq' = nextSeq + 1
    BY <1>6, <1>8 DEF SaveRow
  <2>2. nextSeq \in Nat /\ (\A s \in D : s < nextSeq) /\ nextSeq \notin D
    BY <1>1 DEF SessionInv, TableOK
  <2>3. list' = [list EXCEPT ![p] = x]
    BY <1>2, <1>3, <2>1
  <2>4. x \in MessageType /\ x.msg = m /\ x.id = nextSeq /\ Saved(x)
    BY <1>3, <1>4, <1>5, <2>2, MessageHasId
  <2> HIDE DEF m, x, D, p, n
  <2>5. /\ DOMAIN table' = D \cup {nextSeq} /\ table'[nextSeq] = m
        /\ \A s \in D : table'[s] = table[s]
    BY <2>1, <2>2
  <2>6. Len(list') = n /\ list'[p] = x /\ \A i \in 1..n : i # p => list'[i] = list[i]
    BY <1>2, <1>3, <2>3, <2>4 DEF n
  <2>7. list[p].msg = m
    BY <1>4 DEF m
  <2> QED BY <1>3, <1>8, <2>1, <2>2, <2>4, <2>5, <2>6, <2>7 DEF D, n
<1> QED BY <1>7, <1>8

\* A row is inserted after all of them, or passed over.
LEMMA RowSlip == SessionInv /\ SlipInv /\ SaveRow => SlipInv'
<1> SUFFICES ASSUME SessionInv, SlipInv, SaveRow PROVE SlipInv'
  OBVIOUS
<1>1. SessionInv' /\ SlipTypes
  BY SaveRowStep DEF SlipInv
<1>2. /\ stage = "rows" /\ cached
      /\ UNCHANGED <<stage, entry, cached, mark, deleted, failed, cut, archived, born, moved>>
  BY DEF SaveRow, past, desk, SlipInv, SlipTypes
<1>3. SlipTypes'
  BY <1>1, <1>2 DEF SlipTypes
<1>4. /\ IsFiniteSet({}) /\ Toll' >= Toll + Cardinality({}) /\ Toll <= Toll'
  BY <1>1, <1>2, <1>3, TollGrows
<1>5. CASE UNCHANGED <<table, list>>
  <2>1. SlipSets' /\ ListSlips'
    BY <1>2, <1>5, ListUnchanged
  <2>2. StoredSlips'
    BY <1>1, <1>2, <1>3, <1>4, <1>5, StoredStays
  <2> QED BY <1>3, <2>1, <2>2 DEF SlipInv
<1>6. ASSUME NEW p \in 1..Len(list),
             ~Saved(list[p]), \A s \in DOMAIN table : s < nextSeq,
             DOMAIN table' = DOMAIN table \cup {nextSeq}, table'[nextSeq] = list[p].msg,
             \A s \in DOMAIN table : table'[s] = table[s],
             Len(list') = Len(list), \A i \in 1..Len(list) : i # p => list'[i] = list[i],
             list'[p].msg = list[p].msg, list'[p].id = nextSeq, Saved(list'[p])
      PROVE  SlipInv'
  <2> DEFINE n == Len(list)
  <2>1. \A i \in 1..n : list'[i].msg = list[i].msg
    BY <1>6
  <2>2. InList' = InList
    BY <1>6, <2>1 DEF InList
  <2>3. Range(table') = Range(table) \cup {list[p].msg} /\ list[p].msg \in InList
    BY <1>6 DEF Range, InList
  <2>4. Unlisted' = Unlisted
    BY <2>2, <2>3 DEF Unlisted
  <2>5. Late' \subseteq Late
    <3> SUFFICES ASSUME NEW i \in 1..n, IsLate(i)' PROVE IsLate(i)
      BY <1>6, <2>1 DEF Late
    <3>0. list[i].msg \notin deleted
      BY <1>2, <2>1 DEF IsLate
    <3>1. CASE i = p
      <4>1. PICK k \in 1..n : i < k /\ Saved(list'[k]) /\ list'[k].id < list'[i].id
        BY <1>6, <3>1 DEF IsLate
      <4>2. k # p /\ list'[k] = list[k]
        BY <1>6, <3>1, <4>1
      <4>3. list[p].msg \in failed
        BY <1>6, <3>1, <4>1, <4>2 DEF SessionInv, RisesOK
      <4> QED BY <1>6, <3>0, <3>1, <4>3 DEF IsLate
    <3>2. CASE i # p /\ ~Saved(list[i])
      BY <1>2, <1>6, <3>2 DEF IsLate
    <3>3. CASE i # p /\ Saved(list[i])
      <4>1. PICK k \in 1..n : i < k /\ Saved(list'[k]) /\ list'[k].msg \notin deleted /\ list'[k].id < list'[i].id
        BY <1>2, <1>6, <3>3 DEF IsLate
      <4>2. list'[i] = list[i]
        BY <1>6, <3>3
      <4>3. k # p
        <5> SUFFICES ASSUME k = p PROVE FALSE
          OBVIOUS
        <5>1. list[i].id \in DOMAIN table
          BY <3>0, <3>3 DEF SessionInv, ListOK
        <5>2. list[i].id < nextSeq /\ nextSeq < list[i].id
          BY <1>6, <4>1, <4>2, <5>1
        <5>3. nextSeq \in Nat /\ list[i].id \in Nat
          <6>1. PICK b \in Nat : DOMAIN table \in SUBSET (0..b)
            BY DEF SessionInv, TableOK
          <6>2. nextSeq \in Nat
            BY <1>2 DEF SessionInv, TableOK
          <6> QED BY <5>1, <6>1, <6>2
        <5> QED BY <5>2, <5>3
      <4>4. list'[k] = list[k]
        BY <1>6, <4>3
      <4> QED BY <3>0, <3>3, <4>1, <4>2, <4>4 DEF IsLate
    <3> QED BY <3>1, <3>2, <3>3
  <2>6. SlipSets'
    <3>1. ASSUME NEW i \in 1..n, ~Saved(list'[i]), list'[i].msg \in archived PROVE list'[i].msg \in failed
      <4>1. i # p /\ list'[i] = list[i]
        BY <1>6, <3>1
      <4> QED BY <1>2, <3>1, <4>1 DEF SlipInv, SlipSets
    <3> QED BY <1>2, <1>6, <2>4, <2>5, <3>1 DEF SlipInv, SlipSets
  <2>7. StoredSlips'
    <3>1. DOMAIN table \subseteq DOMAIN table'
      BY <1>6
    <3>2. \A t \in DOMAIN table' \ DOMAIN table : \A s \in DOMAIN table : s < t
      BY <1>6
    <3> QED BY <1>1, <1>2, <1>3, <1>4, <1>6, <3>1, <3>2, StoredStays
  <2>8. ListSlips'
    <3>1. Heads(mark) \subseteq Heads(mark)'
      BY <1>2, <1>6, <2>1 DEF Heads
    <3>2. Astray' \subseteq Astray \cup {}
      BY <1>2, <2>2, <2>4, <2>5 DEF Astray
    <3> QED BY <1>1, <1>2, <1>3, <1>4, <3>1, <3>2, ListStays
  <2> QED BY <1>3, <2>6, <2>7, <2>8 DEF SlipInv
<1>7. \/ UNCHANGED <<table, list>>
      \/ \E p \in 1..Len(list) :
              /\ ~Saved(list[p]) /\ \A s \in DOMAIN table : s < nextSeq
              /\ DOMAIN table' = DOMAIN table \cup {nextSeq} /\ table'[nextSeq] = list[p].msg
              /\ \A s \in DOMAIN table : table'[s] = table[s]
              /\ Len(list') = Len(list) /\ \A i \in 1..Len(list) : i # p => list'[i] = list[i]
              /\ list'[p].msg = list[p].msg /\ list'[p].id = nextSeq /\ Saved(list'[p])
  BY SaveRowIs
<1> QED BY <1>5, <1>6, <1>7

\* A save that raises leaves the messages without rows behind.
LEMMA RaisesSlip == SessionInv /\ SlipInv /\ SaveRaises => SlipInv'
<1> SUFFICES ASSUME SessionInv, SlipInv, SaveRaises PROVE SlipInv'
  OBVIOUS
<1>1. SessionInv' /\ SlipTypes
  BY SaveEndsStep DEF SlipInv
<1>2. /\ stage # "idle" /\ cached /\ stage' = "idle"
      /\ UNCHANGED <<table, list, entry, cached, mark, deleted, cut, archived, born, moved>>
      /\ failed' = failed \cup {list[i].msg : i \in {j \in DOMAIN list : ~Saved(list[j])}}
  BY DEF SaveRaises, memory, desk, SlipInv, SlipTypes
<1>3. DOMAIN list = 1..Len(list)
  BY DEF SessionInv, ListOK
<1>4. SlipTypes'
  <2>1. failed' \subseteq 1..born
    BY <1>1, <1>2, <1>3 DEF SessionInv, ListOK, SlipTypes
  <2> QED BY <1>1, <1>2, <2>1 DEF SlipTypes
<1>5. /\ IsFiniteSet(failed' \ failed) /\ Toll' >= Toll + Cardinality(failed' \ failed) /\ Toll <= Toll'
  BY <1>1, <1>2, <1>4, TollGrows
<1>6. Late' \subseteq Late \cup (failed' \ failed) /\ Late' \subseteq failed'
  <2> SUFFICES ASSUME NEW i \in 1..Len(list), IsLate(i)' PROVE IsLate(i) \/ list[i].msg \in failed' \ failed
    <3>1. Late \subseteq failed
      BY <1>2 DEF SlipInv, SlipSets
    <3> QED BY <1>2, <3>1 DEF Late
  <2>1. CASE Saved(list[i])
    BY <1>2, <2>1 DEF IsLate
  <2>2. CASE ~Saved(list[i])
    BY <1>2, <2>2 DEF IsLate
  <2> QED BY <2>1, <2>2
<1>7. InList' = InList /\ Unlisted' = Unlisted
  BY <1>2 DEF InList, Unlisted
<1>8. SlipSets'
  BY <1>2, <1>6, <1>7 DEF SlipInv, SlipSets
<1>9. StoredSlips'
  BY <1>1, <1>2, <1>4, <1>5, StoredStays
<1>10. ListSlips'
  <2>1. Heads(mark) \subseteq Heads(mark)'
    BY <1>2 DEF Heads
  <2>2. Astray' \subseteq Astray \cup (failed' \ failed)
    BY <1>2, <1>6, <1>7 DEF Astray
  <2> QED BY <1>1, <1>2, <1>4, <1>5, <2>1, <2>2, ListStays
<1> QED BY <1>4, <1>8, <1>9, <1>10 DEF SlipInv

\* The process died: what is stored is what there is.
LEMMA DiesSlip == SessionInv /\ SlipInv /\ SessionDies => SlipInv'
<1> SUFFICES ASSUME SessionInv, SlipInv, SessionDies PROVE SlipInv'
  OBVIOUS
<1>1. SessionInv' /\ SlipTypes
  BY SessionDiesStep DEF SlipInv
<1>2. /\ ~cached' /\ mark' = 0 /\ stage' = "idle"
      /\ UNCHANGED <<table, entry, deleted, failed, cut, archived, born, moved>>
  BY DEF SessionDies, past
<1>3. SlipTypes'
  BY <1>1, <1>2 DEF SlipTypes
<1>4. Toll <= Toll'
  BY <1>1, <1>2, <1>3, TollGrows
<1>5. StoredSlips'
  BY <1>1, <1>2, <1>3, <1>4, StoredStays
<1> QED BY <1>2, <1>3, <1>5 DEF SlipInv, SlipSets, ListSlips

\* What the dashboard deletes is counted.
LEMMA DeletesSlip == SessionInv /\ SlipInv /\ (DeletesRows \/ DeletesSession) => SlipInv'
<1> SUFFICES ASSUME SessionInv, SlipInv, DeletesRows \/ DeletesSession PROVE SlipInv'
  OBVIOUS
<1> DEFINE D == DOMAIN table
<1>1. SessionInv' /\ SlipTypes
  BY DeletesStep DEF SlipInv
<1>2. /\ UNCHANGED <<stage, list, cached, mark, failed, cut, archived, born, moved>>
      /\ entry' = entry \/ entry' = NoEntry
  BY DEF DeletesRows, DeletesSession, memory, save, past
<1>3. PICK leaving \in SUBSET D :
        /\ DOMAIN table' = D \ leaving /\ \A s \in D \ leaving : table'[s] = table[s]
        /\ deleted' = deleted \cup {table[s] : s \in leaving}
  <2>2. CASE DeletesRows
    <3>1. PICK seqs \in SUBSET D \ {{}} : table' = Without(seqs) /\ deleted' = deleted \cup {table[s] : s \in seqs}
      BY <2>2 DEF DeletesRows
    <3> HIDE DEF D
    <3>2. table' = [s \in D \ seqs |-> table[s]]
      BY <3>1 DEF Without, D
    <3> QED BY <3>1, <3>2
  <2>3. CASE DeletesSession
    <3>1. table' = <<>> /\ deleted' = deleted \cup Range(table)
      BY <2>3 DEF DeletesSession
    <3>2. Range(table) = {table[s] : s \in D}
      BY DEF Range
    <3>3. D \ D = {} /\ DOMAIN table' = {}
      BY <3>1
    <3> HIDE DEF D
    <3> QED BY <3>1, <3>2, <3>3
  <2> QED BY <2>2, <2>3
<1>4. SlipTypes'
  BY <1>1, <1>2 DEF SlipTypes
<1>5. /\ IsFiniteSet(deleted' \ deleted) /\ Toll' >= Toll + Cardinality(deleted' \ deleted) /\ Toll <= Toll'
  BY <1>1, <1>2, <1>3, <1>4, TollGrows
<1>6. InList' = InList /\ Range(table') \subseteq Range(table)
  BY <1>2, <1>3 DEF InList, Range
<1>7. Unlisted' \subseteq Unlisted
  BY <1>6 DEF Unlisted
<1>8. Late' \subseteq Late
  <2> SUFFICES ASSUME NEW i \in 1..Len(list), IsLate(i)' PROVE IsLate(i)
    BY <1>2 DEF Late
  <2> QED BY <1>2, <1>3 DEF IsLate
<1>9. SlipSets'
  BY <1>2, <1>7, <1>8 DEF SlipInv, SlipSets
<1>10. ListSlips'
  <2> SUFFICES ASSUME cached PROVE ListSlips'
    BY <1>2 DEF ListSlips
  <2>1. Heads(mark) \subseteq Heads(mark)'
    BY <1>2 DEF Heads
  <2>2. Astray' \subseteq Astray \cup (deleted' \ deleted)
    BY <1>6, <1>7, <1>8 DEF Astray
  <2> QED BY <1>1, <1>2, <1>4, <1>5, <2>1, <2>2, ListStays
<1>11. StoredSlips'
  <2> SUFFICES ASSUME ~moved, entry # NoEntry, entry' = entry
               PROVE  \E X \in SUBSET DOMAIN table' :
                         Leading(X)' /\ Cardinality(X) <= entry /\ entry <= Cardinality(Told(X)' \cap archived) + Toll'
    BY <1>2 DEF StoredSlips
  <2>1. PICK X \in SUBSET D :
          Leading(X) /\ Cardinality(X) <= entry /\ entry <= Cardinality(Told(X) \cap archived) + Toll
    BY DEF SlipInv, StoredSlips
  <2> DEFINE Y == X \ leaving
  <2>2. IsFiniteSet(X) /\ Cardinality(X) \in Nat /\ entry \in Nat /\ Toll \in Nat /\ IsFiniteSet(archived)
    BY <1>1, <2>1, SlipCounts DEF SlipTypes
  <2>3. Leading(Y)' /\ Y \in SUBSET DOMAIN table'
    BY <1>3, <2>1 DEF Leading
  <2>4. Cardinality(Y) <= entry
    <3>1. Y \in SUBSET X
      OBVIOUS
    <3> HIDE DEF Y
    <3>2. Cardinality(Y) <= Cardinality(X) /\ Cardinality(Y) \in Nat
      BY <2>2, <3>1, Fewer
    <3> QED BY <2>1, <2>2, <3>2
  <2>5. Told(X) \subseteq Told(Y)' \cup (deleted' \ deleted)
    <3> SUFFICES ASSUME NEW x \in X, x \in leaving PROVE table[x] \in deleted' /\ table[x] \notin deleted
      BY <1>3, <2>1 DEF Told
    <3>1. table[x] \in Range(table)
      BY <2>1 DEF Range
    <3> QED BY <1>3, <3>1 DEF SessionInv, TableOK
  <2> HIDE DEF Y
  <2>6. IsFiniteSet(Told(Y)' \cap archived) /\ IsFiniteSet(Told(X) \cap archived)
    BY <2>2, FS_Intersection
  <2>7. /\ Cardinality(Told(X) \cap archived) <= Cardinality(Told(Y)' \cap archived) + Cardinality(deleted' \ deleted)
        /\ {Cardinality(Told(X) \cap archived), Cardinality(Told(Y)' \cap archived), Cardinality(deleted' \ deleted)}
              \subseteq Nat
    <3>1. Told(X) \cap archived \subseteq (Told(Y)' \cap archived) \cup (deleted' \ deleted)
      BY <2>5
    <3> QED BY <1>5, <2>6, <3>1, Covered
  <2> DEFINE x == Cardinality(Told(X) \cap archived)
             y == Cardinality(Told(Y)' \cap archived)
             d == Cardinality(deleted' \ deleted)
             t == Toll'
  <2>8. t \in Nat
    <3>1. /\ Cardinality(deleted') \in Nat /\ Cardinality(failed') \in Nat /\ Cardinality(cut') \in Nat
      BY <1>1, <1>4, UpTo, Fewer DEF SessionInv, ListOK, SlipTypes
    <3> QED BY <3>1 DEF Toll
  <2>9. {x, y, d} \subseteq Nat /\ x <= y + d /\ t >= Toll + d /\ entry <= x + Toll
    BY <1>5, <2>1, <2>7
  <2> HIDE DEF x, y, d, t
  <2>10. entry <= y + t
    BY <2>2, <2>8, <2>9
  <2> QED BY <2>3, <2>4, <2>10 DEF y, t
<1> QED BY <1>4, <1>9, <1>10, <1>11 DEF SlipInv

\* The entry appears at nought, disappears or is set by the dashboard.
LEMMA OthersSlip ==
  ASSUME SessionInv, SlipInv, Presence \/ CountsRows \/ DeletesEntry \/ MovesMark
  PROVE  SlipInv'
<1>1. /\ UNCHANGED <<table, cached, list, mark, deleted, failed, cut, archived, born, stage>>
      /\ \/ moved' = moved /\ entry' \in {entry, 0, NoEntry}
         \/ moved' /\ entry' \in 0..MaxBorn
  BY DEF Presence, CountsRows, DeletesEntry, MovesMark, memory, save, past, desk
<1>2. SlipTypes
  BY DEF SlipInv
<1>3. SlipTypes'
  <2>1. 0..MaxBorn \subseteq Nat
    BY SessionAssumption
  <2> QED BY <1>1, <1>2, <2>1 DEF SlipTypes, NoEntry
<1>4. Toll' = Toll /\ Toll \in Nat
  BY <1>1, <1>2, SlipCounts DEF Toll
<1>5. SlipSets' /\ ListSlips'
  <2>1. /\ Unlisted' = Unlisted /\ Late' = Late /\ Astray' = Astray
        /\ (Heads(mark) \cap archived)' = Heads(mark) \cap archived
    BY <1>1 DEF Unlisted, Late, InList, IsLate, Astray, Heads
  <2>2. SlipSets'
    BY <1>1, <2>1 DEF SlipInv, SlipSets
  <2>3. ListSlips'
    BY <1>1, <1>4, <2>1 DEF SlipInv, ListSlips
  <2> QED BY <2>2, <2>3
<1>6. StoredSlips'
  <2> SUFFICES ASSUME ~moved', entry' # NoEntry, moved' = moved,
                      entry' = entry \/ entry' = 0
               PROVE  \E X \in SUBSET DOMAIN table :
                         Leading(X)' /\ Cardinality(X) <= entry' /\ entry' <= Cardinality(Told(X)' \cap archived) + Toll
    BY <1>1, <1>4 DEF StoredSlips
  <2>1. CASE entry' = entry
    <3>1. PICK X \in SUBSET DOMAIN table :
            Leading(X) /\ Cardinality(X) <= entry /\ entry <= Cardinality(Told(X) \cap archived) + Toll
      BY <2>1 DEF SlipInv, StoredSlips
    <3>2. Leading(X)' /\ Told(X)' = Told(X)
      BY <1>1, <3>1 DEF Leading, Told
    <3> QED BY <2>1, <3>1, <3>2
  <2>2. CASE entry' = 0
    <3>1. Leading({})' /\ {} \in SUBSET DOMAIN table /\ Cardinality({}) = 0
      BY FS_EmptySet DEF Leading
    <3>2. Told({})' \cap archived = {}
      BY DEF Told
    <3>3. Cardinality(Told({})' \cap archived) = 0
      BY <3>2, FS_EmptySet
    <3>4. 0 <= 0 /\ 0 <= 0 + Toll
      BY <1>4
    <3> QED BY <2>2, <3>1, <3>3, <3>4, Zenon
  <2> QED BY <2>1, <2>2
<1> QED BY <1>3, <1>5, <1>6 DEF SlipInv

\* Whatever the process and the dashboard do, little slips below the mark.
LEMMA SlipStep ==
  ASSUME SessionInv, SlipInv, [SessionNext]_sessionVars
  PROVE  SlipInv'
<1>1. CASE UNCHANGED sessionVars
  <2>1. UNCHANGED <<table, entry, cached, list, mark, deleted, failed, cut, archived, moved, born, stage>>
    BY <1>1 DEF sessionVars
  <2>2. SlipSets' /\ ListSlips' /\ Toll' = Toll
    BY <2>1, ListUnchanged
  <2>3. SlipTypes' /\ StoredSlips'
    BY <2>1, <2>2 DEF SlipInv, SlipTypes, StoredSlips, Leading, Told
  <2> QED BY <2>2, <2>3 DEF SlipInv
<1>2. ASSUME NEW count \in {1, 2}, Says(count) PROVE SlipInv'
  BY <1>2, SaysSlip
<1> QED BY <1>1, <1>2, OpensSlip, SavesSlip, TrimsSlip, EntrySlip, RowSlip, RaisesSlip, DiesSlip, DeletesSlip, OthersSlip
        DEF SessionNext

-----------------------------------------------------------------------------
(* SessionStore: Numbers and marks are those of messages                    *)

\* Messages without a row of their own yet.
Numberless == {list[i].msg : i \in {j \in 1..Len(list) : ~Saved(list[j])}}

\* Each number that is given, and each message that waits for one, is paid with a birth.
FitsInv ==
    /\ born <= MaxBorn /\ settled \subseteq 1..born
    /\ \A s \in DOMAIN table : s + 1 + Cardinality(Numberless) <= born
    /\ stage = "rows" => nextSeq + Cardinality(Numberless) <= born
    /\ \A i \in 1..Len(list) : Saved(list[i]) => list[i].id < born
    /\ mark <= MaxBorn /\ (entry # NoEntry => entry <= MaxBorn)

\* Nothing is born.
LEMMA FitsBegins == SessionInit => FitsInv
<1> SUFFICES ASSUME SessionInit PROVE FitsInv
  OBVIOUS
<1>1. list = <<>> /\ Len(list) = 0 /\ DOMAIN table = {} /\ MaxBorn \in Nat
  BY SessionAssumption DEF SessionInit
<1> QED BY <1>1 DEF SessionInit, FitsInv, NoEntry

\* What waits can be counted.
LEMMA WaitingCounts ==
  ASSUME SessionInv
  PROVE  /\ born \in Nat /\ Numberless \subseteq 1..born /\ IsFiniteSet(Numberless)
         /\ Cardinality(Numberless) \in Nat /\ Cardinality(Numberless) <= born
<1>1. born \in Nat /\ \A i \in 1..Len(list) : list[i].msg \in 1..born
  BY DEF SessionInv, ListOK
<1>2. Numberless \in SUBSET (1..born)
  BY <1>1 DEF Numberless
<1> QED BY <1>1, <1>2, UpTo, Fewer

\* The list is not longer than what was born.
LEMMA ListIsShort ==
  ASSUME SessionInv
  PROVE  Len(list) \in Nat /\ Len(list) <= born
<1> DEFINE n == Len(list)
           f == [i \in 1..n |-> list[i].msg]
           R == {f[i] : i \in 1..n}
<1>1. /\ born \in Nat /\ n \in Nat /\ \A i \in 1..n : f[i] \in 1..born
      /\ \A i, j \in 1..n : f[i] = f[j] => i = j
      /\ DOMAIN f = 1..n /\ f = [i \in 1..n |-> f[i]]
  BY DEF SessionInv, ListOK
<1> HIDE DEF f, n
<1>2. Cardinality(R) = n
  <2>1. IsFiniteSet(1..n) /\ Cardinality(1..n) = n
    BY <1>1, UpTo
  <2> QED BY <1>1, <2>1, ValuesDiffer
<1>3. R \in SUBSET (1..born)
  BY <1>1
<1>4. Cardinality(R) <= born
  <2>1. IsFiniteSet(1..born) /\ Cardinality(1..born) = born
    BY <1>1, UpTo
  <2> HIDE DEF R
  <2>2. Cardinality(R) <= Cardinality(1..born)
    BY <1>3, <2>1, Fewer
  <2> QED BY <2>1, <2>2
<1> QED BY <1>1, <1>2, <1>4 DEF n

\* What the invariant is for.
LEMMA SessionFits == SessionInv /\ SlipTypes /\ FitsInv => SessionTypeOK
<1> SUFFICES ASSUME SessionInv, SlipTypes, FitsInv PROVE SessionTypeOK
  OBVIOUS
<1>1. /\ born \in Nat /\ MaxBorn \in Nat /\ born <= MaxBorn
      /\ Cardinality(Numberless) \in Nat /\ Len(list) \in Nat /\ Len(list) <= born
  BY SessionAssumption, WaitingCounts, ListIsShort DEF FitsInv
<1>2. 1..born \subseteq Messages
  BY <1>1 DEF Messages
<1>3. DOMAIN table \subseteq 0..MaxBorn
  <2> SUFFICES ASSUME NEW s \in DOMAIN table PROVE s \in 0..MaxBorn
    OBVIOUS
  <2>1. PICK b \in Nat : DOMAIN table \in SUBSET (0..b)
    BY DEF SessionInv, TableOK
  <2>2. s \in Nat
    <3>1. s \in 0..b
      BY <2>1
    <3> QED BY <2>1, <3>1
  <2>3. s + 1 + Cardinality(Numberless) <= born
    BY DEF FitsInv
  <2> QED BY <1>1, <2>2, <2>3
<1>4. Range(table) \subseteq Messages
  BY <1>2 DEF SessionInv, TableOK, Range
<1>5. entry \in {NoEntry} \cup 0..MaxBorn /\ mark \in 0..MaxBorn
  BY <1>1 DEF SlipTypes, FitsInv
<1>6. list \in Seq([msg : Messages, id : {Unsaved} \cup 0..MaxBorn])
  <2> DEFINE T == [msg : Messages, id : {Unsaved} \cup 0..MaxBorn]
  <2>1. ASSUME NEW i \in 1..Len(list) PROVE list[i] \in T
    <3>1. list[i] \in MessageType /\ list[i].msg \in Messages
      BY <1>2 DEF SessionInv, ListOK
    <3>2. list[i].id = Unsaved \/ (list[i].id \in Nat /\ list[i].id < born)
      BY <3>1 DEF FitsInv, MessageType, Saved
    <3>3. list[i].id \in {Unsaved} \cup 0..MaxBorn
      <4> DEFINE x == list[i].id
      <4>1. x = Unsaved \/ (x \in Nat /\ x < born)
        BY <3>2
      <4> HIDE DEF x
      <4> QED BY <1>1, <4>1 DEF x
    <3> QED BY <3>1, <3>3 DEF MessageType
  <2> HIDE DEF T
  <2>2. list = [i \in 1..Len(list) |-> list[i]] /\ Len(list) \in Nat
    BY DEF SessionInv, ListOK
  <2>3. list \in [1..Len(list) -> T]
    BY <2>1, <2>2
  <2>4. list \in Seq(T)
    BY <2>2, <2>3
  <2> QED BY <2>4 DEF T
<1>7. ToSet(todo) \subseteq Messages
  <2>1. /\ todo \in Seq(Nat) /\ Len(todo) \in Nat /\ Len(todo) <= Len(list)
        /\ \A i \in 1..Len(todo) : todo[i] = list[Len(list) - Len(todo) + i].msg
    BY DEF SessionInv, TodoOK
  <2>2. ASSUME NEW i \in 1..Len(todo) PROVE todo[i] \in Messages
    <3> DEFINE k == Len(list) - Len(todo) + i
    <3>1. k \in 1..Len(list)
      BY <1>1, <2>1
    <3> HIDE DEF k
    <3>2. list[k].msg \in 1..born
      BY <3>1 DEF SessionInv, ListOK
    <3> QED BY <1>2, <2>1, <3>2 DEF k
  <2>3. DOMAIN todo = 1..Len(todo)
    BY <2>1
  <2> QED BY <2>2, <2>3 DEF ToSet
<1>8. /\ ~cached => list = <<>>
      /\ stage \in {"idle", "meta", "rows"}
      /\ settled \cup failed \cup cut \cup deleted \cup archived \subseteq 1..born
  BY DEF SessionInv, ListOK, TodoOK, SlipTypes, FitsInv
<1> QED BY <1>3, <1>4, <1>5, <1>6, <1>7, <1>8 DEF SessionTypeOK

\* No number is given, and no message is added.
LEMMA FitsKept ==
  ASSUME SessionInv, FitsInv, born' = born, DOMAIN table' \subseteq DOMAIN table, Numberless' \subseteq Numberless,
         settled' \subseteq 1..born, \A i \in 1..Len(list') : Saved(list'[i]) => list'[i].id < born,
         mark' <= MaxBorn, entry' # NoEntry => entry' <= MaxBorn,
         stage' = "rows" => stage = "rows" /\ nextSeq' = nextSeq
  PROVE  FitsInv'
<1>1. /\ born \in Nat /\ Cardinality(Numberless) \in Nat /\ Cardinality(Numberless') \in Nat
      /\ Cardinality(Numberless') <= Cardinality(Numberless)
  <2>1. IsFiniteSet(Numberless) /\ born \in Nat
    BY WaitingCounts
  <2>2. Numberless' \in SUBSET Numberless
    OBVIOUS
  <2> HIDE DEF Numberless
  <2> QED BY <2>1, <2>2, Fewer
<1>2. \A s \in DOMAIN table : s \in Nat
  <2>1. PICK b \in Nat : DOMAIN table \in SUBSET (0..b)
    BY DEF SessionInv, TableOK
  <2> QED BY <2>1
<1> DEFINE w == Cardinality(Numberless)
           v == Cardinality(Numberless')
<1>3. \A s \in DOMAIN table : s + 1 + w <= born
  BY DEF FitsInv
<1>4. stage = "rows" => nextSeq \in Nat /\ nextSeq + w <= born
  BY DEF SessionInv, TableOK, FitsInv
<1>5. w \in Nat /\ v \in Nat /\ v <= w
  BY <1>1
<1> HIDE DEF w, v
<1>6. \A s \in DOMAIN table' : s + 1 + v <= born
  BY <1>1, <1>2, <1>3, <1>5
<1>7. stage' = "rows" => nextSeq' + v <= born
  BY <1>1, <1>4, <1>5
<1>8. born <= MaxBorn
  BY DEF FitsInv
<1>9. /\ \A s \in DOMAIN table' : s + 1 + Cardinality(Numberless') <= born
      /\ stage' = "rows" => nextSeq' + Cardinality(Numberless') <= born
  BY <1>6, <1>7 DEF v
<1> QED BY <1>8, <1>9 DEF FitsInv

\* The others: loading, changes of the mark, ends of a save, a death, and the dashboard.
LEMMA OthersFit ==
  ASSUME SessionInv, SlipTypes, FitsInv,
         \/ Opens \/ Presence \/ SavesAll \/ Trims \/ SaveCloses \/ SaveRaises \/ SessionDies
         \/ DeletesRows \/ DeletesSession \/ CountsRows \/ DeletesEntry \/ MovesMark
         \/ UNCHANGED sessionVars
  PROVE  FitsInv'
<1>1. /\ born \in Nat /\ MaxBorn \in Nat /\ born <= MaxBorn /\ Len(list) \in Nat /\ Len(list) <= born
      /\ mark <= MaxBorn /\ (entry # NoEntry => entry <= MaxBorn) /\ 0 <= MaxBorn
  BY SessionAssumption, ListIsShort DEF FitsInv, SessionInv, ListOK
<1>2. /\ \A i \in 1..Len(list) : list[i].msg \in 1..born /\ (Saved(list[i]) => list[i].id < born)
      /\ settled \subseteq 1..born
  BY DEF FitsInv, SessionInv, ListOK
<1>3. born' = born
  BY DEF Opens, Presence, SavesAll, Trims, SaveCloses, SaveRaises, SessionDies, DeletesRows, DeletesSession,
         CountsRows, DeletesEntry, MovesMark, past, sessionVars
<1>4. settled' \subseteq 1..born
  <2>1. settled' = settled \/ settled' = settled \cup {list[i].msg : i \in {j \in DOMAIN list : Saved(list[j])}}
    BY DEF Opens, Presence, SavesAll, Trims, SaveCloses, SaveRaises, SessionDies, DeletesRows, DeletesSession,
           CountsRows, DeletesEntry, MovesMark, past, sessionVars
  <2>2. DOMAIN list = 1..Len(list)
    BY DEF SessionInv, ListOK
  <2>3. {list[i].msg : i \in {j \in DOMAIN list : Saved(list[j])}} \subseteq 1..born
    BY <1>2, <2>2
  <2> QED BY <1>2, <2>1, <2>3
<1>5. DOMAIN table' \subseteq DOMAIN table
  <2>1. CASE DeletesRows
    BY <2>1 DEF DeletesRows, Without
  <2>2. CASE DeletesSession
    BY <2>2 DEF DeletesSession
  <2> QED BY <2>1, <2>2
      DEF Opens, Presence, SavesAll, Trims, SaveCloses, SaveRaises, SessionDies,
          CountsRows, DeletesEntry, MovesMark, sessionVars
<1>6. mark' <= MaxBorn /\ (entry' # NoEntry => entry' <= MaxBorn)
  <2>1. CASE SavesAll
    BY <2>1, <1>1 DEF SavesAll
  <2>2. CASE MovesMark
    <3>1. mark' = mark /\ entry' \in 0..MaxBorn
      BY <2>2 DEF MovesMark, memory
    <3> QED BY <1>1, <3>1
  <2> QED BY <2>1, <2>2, <1>1
      DEF Opens, Presence, Trims, SaveCloses, SaveRaises, SessionDies, DeletesRows, DeletesSession,
          CountsRows, DeletesEntry, memory, sessionVars
<1>7. stage' = "rows" => stage = "rows" /\ nextSeq' = nextSeq
  BY DEF Opens, Presence, SavesAll, Trims, SaveBegins, SaveCloses, SaveRaises, SessionDies, DeletesRows,
         DeletesSession, CountsRows, DeletesEntry, MovesMark, save, sessionVars
<1>8. Numberless' \subseteq Numberless /\ \A i \in 1..Len(list') : Saved(list'[i]) => list'[i].id < born
  <2>1. CASE Opens
    <3>1. PICK n \in Nat : \E s \in [1..n -> DOMAIN table] :
            Stored = [i \in 1..n |-> [msg |-> table[s[i]], id |-> s[i]]]
      BY StoredIs
    <3>2. PICK s \in [1..n -> DOMAIN table] : list' = [i \in 1..n |-> [msg |-> table[s[i]], id |-> s[i]]]
      BY <2>1, <3>1 DEF Opens
    <3>3. Len(list') = n
      BY <3>1, <3>2
    <3>4. ASSUME NEW i \in 1..n PROVE Saved(list'[i]) /\ list'[i].id < born
      <4>1. s[i] \in DOMAIN table /\ list'[i].id = s[i]
        BY <3>2
      <4>2. PICK b \in Nat : DOMAIN table \in SUBSET (0..b)
        BY DEF SessionInv, TableOK
      <4>3. s[i] \in 0..b
        BY <4>1, <4>2
      <4>4. s[i] + 1 + Cardinality(Numberless) <= born /\ Cardinality(Numberless) \in Nat
        BY <4>1, WaitingCounts DEF FitsInv
      <4>5. s[i] \in Nat
        BY <4>2, <4>3
      <4> HIDE DEF Numberless
      <4>6. s[i] < born
        BY <1>1, <4>4, <4>5
      <4> QED BY <4>1, <4>5, <4>6 DEF Saved, Unsaved
    <3>5. Numberless' = {}
      BY <3>3, <3>4 DEF Numberless
    <3> QED BY <3>3, <3>4, <3>5
  <2>2. CASE Trims
    <3> DEFINE n == Len(list)
    <3>1. PICK w \in 0..(n - 1) : list' = SubSeq(list, n - w + 1, n)
      BY <2>2 DEF Trims
    <3>2. list \in Seq(MessageType) /\ n \in Nat
      BY DEF SessionInv, ListOK
    <3>3. w \in Nat /\ n - w + 1 \in 1..(n + 1) /\ n - (n - w + 1) + 1 = w /\ w <= n
      BY <3>1, <3>2
    <3>4. Len(list') = w /\ \A i \in 1..w : list'[i] = list[n - w + i]
      BY <3>1, <3>2, <3>3
    <3>5. \A i \in 1..w : n - w + i \in 1..n
      <4> HIDE DEF n
      <4> QED BY <3>2, <3>3
    <3>6. Numberless' \subseteq Numberless
      BY <3>4, <3>5 DEF Numberless
    <3> QED BY <3>4, <3>5, <3>6, <1>2
  <2>3. CASE SessionDies
    <3>1. list' = <<>> /\ Len(list') = 0
      BY <2>3 DEF SessionDies
    <3>2. Numberless' = {}
      BY <3>1 DEF Numberless
    <3> QED BY <3>1, <3>2
  <2>4. CASE list' = list
    BY <2>4, <1>2 DEF Numberless
  <2> QED BY <2>1, <2>2, <2>3, <2>4
      DEF Presence, SavesAll, SaveCloses, SaveRaises, DeletesRows, DeletesSession, CountsRows,
          DeletesEntry, MovesMark, memory, sessionVars
<1> QED BY <1>3, <1>4, <1>5, <1>6, <1>7, <1>8, FitsKept

\* Each message that is added waits, and pays for its number.
LEMMA SaysFits ==
  ASSUME SessionInv, FitsInv, NEW count \in {1, 2}, Says(count)
  PROVE  FitsInv'
<1> DEFINE more == [i \in 1..count |-> [msg |-> born + i, id |-> Unsaved]]
           w == Cardinality(Numberless)
           v == Cardinality(Numberless')
           n == Len(list)
           New == {born + i : i \in 1..count}
<1>1. /\ born' = born + count /\ born + count <= MaxBorn /\ list' = list \o more /\ stage' = "meta"
      /\ UNCHANGED <<table, mark, entry, settled>>
  BY DEF Says, SaveBegins
<1>2. /\ born \in Nat /\ w \in Nat /\ IsFiniteSet(Numberless) /\ n \in Nat /\ list \in Seq(MessageType)
      /\ count \in Nat
  BY WaitingCounts DEF SessionInv, ListOK
<1>3. v \in Nat /\ v <= w + count
  <2>1. more \in Seq(MessageType) /\ Len(more) = count
    <3>1. more \in [1..count -> MessageType]
      BY <1>2 DEF MessageType
    <3> QED BY <3>1
  <2>2. \A i \in 1..count : more[i].msg = born + i
    OBVIOUS
  <2> HIDE DEF more, n
  <2>3. /\ Len(list') = n + count /\ \A i \in 1..n : list'[i] = list[i]
        /\ \A i \in 1..count : list'[n + i] = more[i]
    BY <1>1, <1>2, <2>1 DEF n
  <2>4. \A i \in 1..(n + count) : i \in 1..n \/ \E k \in 1..count : i = n + k
    <3>1. \A i \in 1..(n + count) : i \notin 1..n => i - n \in 1..count /\ i = n + (i - n)
      BY <1>2
    <3> QED BY <3>1
  <2>5. Numberless' \subseteq Numberless \cup New
    <3> SUFFICES ASSUME NEW i \in 1..(n + count), ~Saved(list'[i])
                 PROVE  list'[i].msg \in Numberless \cup New
      BY <2>3 DEF Numberless
    <3>1. CASE i \in 1..n
      BY <3>1, <2>3 DEF Numberless, n
    <3>2. ASSUME NEW k \in 1..count, i = n + k PROVE list'[i].msg \in New
      BY <3>2, <2>2, <2>3
    <3> QED BY <2>4, <3>1, <3>2
  <2>6. IsFiniteSet(New) /\ Cardinality(New) <= count /\ Cardinality(New) \in Nat
    <3> DEFINE f == [i \in 1..count |-> born + i]
    <3>1. DOMAIN f = 1..count /\ f = [i \in 1..count |-> f[i]] /\ \A i \in 1..count : f[i] = born + i
      OBVIOUS
    <3>2. IsFiniteSet(1..count) /\ Cardinality(1..count) = count
      BY <1>2, UpTo
    <3>3. New = {f[i] : i \in 1..count}
      OBVIOUS
    <3> HIDE DEF f, New
    <3> QED BY <3>1, <3>2, <3>3, ValuesAreFew
  <2> HIDE DEF New
  <2>7. Cardinality(Numberless') <= Cardinality(Numberless) + Cardinality(New) /\ Cardinality(Numberless') \in Nat
    BY <1>2, <2>5, <2>6, Covered
  <2> HIDE DEF Numberless
  <2> DEFINE c == Cardinality(New)
  <2>8. c \in Nat /\ c <= count /\ v <= w + c /\ v \in Nat
    BY <2>6, <2>7
  <2> HIDE DEF c, v, w
  <2> QED BY <1>2, <2>8
<1>4. \A s \in DOMAIN table : s \in Nat /\ s + 1 + w <= born
  <2>1. PICK b \in Nat : DOMAIN table \in SUBSET (0..b)
    BY DEF SessionInv, TableOK
  <2> QED BY <2>1 DEF FitsInv
<1>5. ASSUME NEW i \in 1..Len(list'), Saved(list'[i]) PROVE list'[i].id < born'
  <2>1. Len(more) = count /\ more \in Seq(MessageType) /\ \A k \in 1..count : more[k].id = Unsaved
    <3>1. more \in [1..count -> MessageType]
      BY <1>2 DEF MessageType
    <3> QED BY <3>1
  <2> HIDE DEF more, n
  <2>2. /\ Len(list') = n + count /\ \A k \in 1..n : list'[k] = list[k]
        /\ \A k \in 1..count : list'[n + k] = more[k]
    BY <1>1, <1>2, <2>1 DEF n
  <2>3. i \in 1..n
    <3> SUFFICES ASSUME i \notin 1..n PROVE FALSE
      OBVIOUS
    <3>1. i - n \in 1..count /\ n + (i - n) = i
      BY <1>2, <2>2
    <3>2. list'[i] = more[i - n]
      BY <2>2, <3>1
    <3> QED BY <1>5, <2>1, <3>1, <3>2 DEF Saved
  <2>4. list[i].id < born /\ list[i].id \in Nat /\ list'[i] = list[i]
    <3>1. list'[i] = list[i] /\ i \in 1..Len(list)
      BY <2>2, <2>3 DEF n
    <3>2. list[i] \in MessageType /\ Saved(list[i])
      BY <1>2, <1>5, <3>1
    <3>3. list[i].id < born
      BY <3>1, <3>2 DEF FitsInv
    <3> QED BY <3>1, <3>2, <3>3 DEF MessageType, Saved
  <2> DEFINE x == list[i].id
  <2> HIDE DEF x
  <2>5. x < born + count
    BY <1>2, <2>4 DEF x
  <2> QED BY <1>1, <2>4, <2>5 DEF x
<1>6. settled' \subseteq 1..born'
  BY <1>1, <1>2 DEF FitsInv
<1> HIDE DEF w, v
<1>7. \A s \in DOMAIN table' : s + 1 + v <= born'
  BY <1>1, <1>2, <1>3, <1>4
<1> QED BY <1>1, <1>5, <1>6, <1>7 DEF FitsInv, v

\* The next number is above all that were given.
LEMMA EntryFits ==
  ASSUME SessionInv, SlipTypes, FitsInv, SaveEntry
  PROVE  FitsInv'
<1>1. /\ stage' = "rows" /\ nextSeq' = FreeSeq /\ entry' = mark
      /\ UNCHANGED <<table, list, mark, born, settled>>
  BY DEF SaveEntry, memory, past
<1>2. Numberless' = Numberless
  BY <1>1 DEF Numberless
<1>3. FreeSeq + Cardinality(Numberless) <= born
  <2>1. CASE table = <<>>
    <3>1. FreeSeq = 0 /\ Cardinality(Numberless) \in Nat /\ Cardinality(Numberless) <= born
      BY <2>1, WaitingCounts DEF FreeSeq
    <3> QED BY <3>1
  <2>2. CASE table # <<>>
    <3> DEFINE D == DOMAIN table
    <3>1. D # {}
      <4> SUFFICES ASSUME D = {} PROVE table = <<>>
        BY <2>2
      <4>1. table \in [{} -> 1..born]
        BY DEF SessionInv, TableOK
      <4> QED BY <4>1
    <3>2. PICK b \in Nat : D \in SUBSET (0..b)
      BY DEF SessionInv, TableOK
    <3>3. FreeSeq = Max(D) + 1 /\ \A s \in D : s + 1 + Cardinality(Numberless) <= born
      BY <2>2 DEF FreeSeq, FitsInv
    <3> HIDE DEF D
    <3>4. PICK x \in D : \A y \in D : y <= x
      BY <3>1, <3>2, GreatestBelow
    <3>5. \A y \in D : y \in 0..b
      BY <3>2
    <3>6. \E z \in D : \A y \in D : z >= y
      BY <3>4, <3>5
    <3>7. Max(D) \in D
      BY <3>6 DEF Max
    <3> QED BY <3>3, <3>7
  <2> QED BY <2>1, <2>2
<1> QED BY <1>1, <1>2, <1>3 DEF FitsInv

\* A number is given to a message that waited for it.
LEMMA RowFits ==
  ASSUME SessionInv, FitsInv, SaveRow
  PROVE  FitsInv'
<1>1. stage = "rows" /\ UNCHANGED <<mark, entry, born, settled, stage>>
  BY DEF SaveRow, past
<1>2. CASE UNCHANGED <<table, list, nextSeq>>
  BY <1>1, <1>2 DEF FitsInv, Numberless
<1>3. ASSUME NEW p \in 1..Len(list), ~Saved(list[p]), DOMAIN table' = DOMAIN table \cup {nextSeq},
             Len(list') = Len(list), \A i \in 1..Len(list) : i # p => list'[i] = list[i],
             list'[p].msg = list[p].msg, list'[p].id = nextSeq, Saved(list'[p]), nextSeq' = nextSeq + 1
      PROVE  FitsInv'
  <2> DEFINE w == Cardinality(Numberless)
             v == Cardinality(Numberless')
  <2>1. Numberless' = Numberless \ {list[p].msg} /\ list[p].msg \in Numberless
    <3>1. \A i \in 1..Len(list) : list[i].msg = list[p].msg => i = p
      BY DEF SessionInv, ListOK
    <3>2. Numberless' = {list'[i].msg : i \in {j \in 1..Len(list) : ~Saved(list'[j])}}
      BY <1>3 DEF Numberless
    <3>3. \A i \in 1..Len(list) : ~Saved(list'[i]) <=> i # p /\ ~Saved(list[i])
      BY <1>3
    <3> QED BY <1>3, <3>1, <3>2, <3>3 DEF Numberless
  <2>2. IsFiniteSet(Numberless) /\ w \in Nat /\ born \in Nat
    BY WaitingCounts
  <2>3. v = w - 1
    <3> DEFINE m == list[p].msg
               W == Numberless
    <3>1. IsFiniteSet(W) /\ m \in W /\ Numberless' = W \ {m}
      BY <2>1, <2>2
    <3> HIDE DEF m, W
    <3>2. Cardinality(W \ {m}) = Cardinality(W) - 1
      BY <3>1, FS_RemoveElement
    <3> QED BY <3>1, <3>2 DEF W
  <2>4. nextSeq \in Nat /\ nextSeq + w <= born /\ \A s \in DOMAIN table : s \in Nat /\ s + 1 + w <= born
    <3>1. PICK b \in Nat : DOMAIN table \in SUBSET (0..b)
      BY DEF SessionInv, TableOK
    <3> QED BY <1>1, <3>1 DEF SessionInv, TableOK, FitsInv
  <2>5. w >= 1
    <3>1. w # 0
      BY <2>1, <2>2, FS_EmptySet
    <3> HIDE DEF w
    <3> QED BY <2>2, <3>1
  <2> HIDE DEF w, v
  <2>6. \A s \in DOMAIN table' : s + 1 + v <= born
    BY <1>3, <2>2, <2>3, <2>4
  <2>7. nextSeq' + v <= born /\ nextSeq < born
    BY <1>3, <2>2, <2>3, <2>4, <2>5
  <2>8. \A i \in 1..Len(list') : Saved(list'[i]) => list'[i].id < born
    <3> SUFFICES ASSUME NEW i \in 1..Len(list), Saved(list'[i]) PROVE list'[i].id < born
      BY <1>3
    <3>1. CASE i = p
      BY <1>3, <2>7, <3>1
    <3>2. CASE i # p
      <4>1. list'[i] = list[i]
        BY <1>3, <3>2
      <4> QED BY <4>1 DEF FitsInv
    <3> QED BY <3>1, <3>2
  <2> QED BY <1>1, <2>6, <2>7, <2>8 DEF FitsInv, v
<1> QED BY <1>2, <1>3, SaveRowIs

\* Whatever the process and the dashboard do, the numbers fit.
LEMMA FitsStep ==
  ASSUME SessionInv, SlipTypes, FitsInv, SessionInv', [SessionNext]_sessionVars
  PROVE  FitsInv'
BY OthersFit, SaysFits, EntryFits, RowFits DEF SessionNext
-----------------------------------------------------------------------------
(* MemoryRetrieval: what a block is made of                                 *)

\* A relation compares each two members of a set.
Compares(R, S) ==
    /\ \A x \in S : <<x, x>> \notin R
    /\ \A x, y \in S : x # y => <<x, y>> \in R \/ <<y, x>> \in R
    /\ \A x, y, z \in S : <<x, y>> \in R /\ <<y, z>> \in R => <<x, z>> \in R

\* The members of a set in the order of a relation.
Orders(R, S) == {s \in [1..Cardinality(S) -> S] : \A i, j \in DOMAIN s : i < j => <<s[i], s[j]>> \in R}

\* The members of a finite set can be put in any order that compares each two of them.
LEMMA CanBeOrdered ==
  ASSUME NEW S, IsFiniteSet(S), NEW R, Compares(R, S)
  PROVE  Orders(R, S) # {}
<1> USE DEF Compares, Orders
<1>1. \A T \in SUBSET S : IsFiniteSet(T) /\ Cardinality(T) \in Nat
  BY Fewer
<1>2. \A T \in SUBSET S : T # {} => \E x \in T : \A y \in T : y = x \/ <<y, x>> \in R
  <2> SUFFICES ASSUME NEW T0 \in SUBSET S, T0 # {}, \A x \in T0 : \E y \in T0 : ~(y = x \/ <<y, x>> \in R) PROVE FALSE
    OBVIOUS
  <2> DEFINE HasLast(T) == \E x \in T : \A y \in T : y = x \/ <<y, x>> \in R
             Bad == {n \in Nat : \E T \in SUBSET S : T # {} /\ Cardinality(T) = n /\ ~HasLast(T)}
  <2>1. Bad \in SUBSET Nat /\ Bad # {}
    <3>1. Cardinality(T0) \in Nat
      BY <1>1
    <3>2. ~HasLast(T0)
      OBVIOUS
    <3> HIDE DEF HasLast
    <3> QED BY <3>1, <3>2
  <2>2. PICK n \in Bad : \A m \in Bad : n <= m
    <3> HIDE DEF Bad
    <3> QED BY <2>1, LeastOf
  <2>3. PICK T \in SUBSET S : T # {} /\ Cardinality(T) = n /\ ~HasLast(T)
    BY <2>2
  <2>4. PICK x \in T : TRUE
    BY <2>3
  <2>5. n \in Nat /\ Cardinality(T \ {x}) = n - 1 /\ Cardinality(T \ {x}) \in Nat
    BY <1>1, <2>2, <2>3, FS_RemoveElement
  <2>6. CASE T \ {x} = {}
    <3>1. \A y \in T : y = x
      BY <2>6
    <3> QED BY <2>3, <3>1
  <2>7. CASE T \ {x} # {}
    <3>1. HasLast(T \ {x})
      <4> SUFFICES ASSUME ~HasLast(T \ {x}) PROVE FALSE
        OBVIOUS
      <4>1. T \ {x} \in SUBSET S
        OBVIOUS
      <4> HIDE DEF HasLast
      <4>2. n - 1 \in Bad
        BY <2>5, <2>7, <4>1
      <4> QED BY <2>2, <2>5, <4>2
    <3>2. PICK m \in T \ {x} : \A y \in T \ {x} : y = m \/ <<y, m>> \in R
      BY <3>1
    <3>3. CASE <<x, m>> \in R
      BY <2>3, <3>2, <3>3
    <3>4. CASE <<m, x>> \in R
      <4>1. ASSUME NEW y \in T PROVE y = x \/ <<y, x>> \in R
        BY <3>2, <3>4
      <4> QED BY <2>3, <4>1
    <3> QED BY <3>2, <3>3, <3>4
  <2> QED BY <2>6, <2>7
<1> DEFINE Ordered(T) == \E s \in [1..Cardinality(T) -> T] : \A i, j \in DOMAIN s : i < j => <<s[i], s[j]>> \in R
           Worse == {n \in Nat : \E T \in SUBSET S : Cardinality(T) = n /\ ~Ordered(T)}
<1> SUFFICES ASSUME ~Ordered(S) PROVE FALSE
  OBVIOUS
<1>3. Worse \in SUBSET Nat /\ Worse # {}
  <2>1. Cardinality(S) \in Nat /\ S \in SUBSET S
    BY <1>1
  <2> HIDE DEF Ordered
  <2> QED BY <2>1
<1>4. PICK n \in Worse : \A m \in Worse : n <= m
  <2> HIDE DEF Worse
  <2> QED BY <1>3, LeastOf
<1>5. PICK T \in SUBSET S : Cardinality(T) = n /\ ~Ordered(T) /\ n \in Nat
  <2> HIDE DEF Ordered
  <2> QED BY <1>4
<1>6. T # {}
  <2> SUFFICES ASSUME T = {} PROVE FALSE
    OBVIOUS
  <2>1. Cardinality(T) = 0
    BY FS_EmptySet
  <2> DEFINE s == [i \in 1..0 |-> i]
  <2>2. s \in [1..Cardinality(T) -> T] /\ DOMAIN s = {}
    BY <2>1
  <2> QED BY <1>5, <2>2
<1>7. PICK x \in T : \A y \in T : y = x \/ <<y, x>> \in R
  BY <1>2, <1>6
<1>8. Cardinality(T \ {x}) = n - 1 /\ n - 1 \in Nat
  BY <1>1, <1>5, FS_RemoveElement
<1>9. Ordered(T \ {x})
  <2> SUFFICES ASSUME ~Ordered(T \ {x}) PROVE FALSE
    OBVIOUS
  <2> HIDE DEF Ordered
  <2>1. n - 1 \in Worse
    BY <1>8
  <2> QED BY <1>4, <1>5, <1>8, <2>1
<1>10. PICK s \in [1..(n - 1) -> T \ {x}] : \A i, j \in 1..(n - 1) : i < j => <<s[i], s[j]>> \in R
  BY <1>8, <1>9
<1> DEFINE r == [i \in 1..n |-> IF i = n THEN x ELSE s[i]]
<1>11. \A i \in 1..n : i = n \/ i \in 1..(n - 1)
  BY <1>5
<1>12. r \in [1..n -> T] /\ DOMAIN r = 1..n
  BY <1>10, <1>11
<1>13. ASSUME NEW i \in 1..n, NEW j \in 1..n, i < j PROVE <<r[i], r[j]>> \in R
  <2>1. i \in 1..(n - 1) /\ r[i] = s[i] /\ s[i] \in T \ {x}
    BY <1>5, <1>10, <1>11, <1>13
  <2>2. CASE j = n
    BY <1>7, <2>1, <2>2
  <2>3. CASE j \in 1..(n - 1)
    <3>1. r[j] = s[j]
      BY <1>5, <2>3
    <3> QED BY <1>10, <1>13, <2>1, <2>3, <3>1
  <2> QED BY <1>11, <2>2, <2>3
<1> HIDE DEF r
<1>14. Ordered(T)
  BY <1>5, <1>12, <1>13
<1> QED BY <1>5, <1>14

\* Ids in the order of their scores: all of them, each once.
LEMMA BestIs ==
  ASSUME NEW D \in SUBSET Remembered, NEW scores \in [D -> Marks], NEW S \in SUBSET D
  PROVE  /\ Cardinality(S) \in Nat /\ Best(scores, S) \in Seq(S) /\ Len(Best(scores, S)) = Cardinality(S)
         /\ \A i, j \in 1..Cardinality(S) : Best(scores, S)[i] = Best(scores, S)[j] => i = j
<1> DEFINE R == {p \in S \X S : Ahead(scores, p[1], p[2])}
           n == Cardinality(S)
<1>1. IsFiniteSet(S) /\ n \in Nat
  BY RetrievalAssumption, Fewer
<1>2. \A x \in S : x \in Nat /\ scores[x] \in Int
  BY RetrievalAssumption
<1>3. \A x, y \in S : <<x, y>> \in R <=> Ahead(scores, x, y)
  OBVIOUS
<1> HIDE DEF R
<1>4. \A x \in S : <<x, x>> \notin R
  BY <1>2, <1>3 DEF Ahead
<1>5. \A x, y \in S : x # y => <<x, y>> \in R \/ <<y, x>> \in R
  BY <1>2, <1>3 DEF Ahead
<1>6. \A x, y, z \in S : <<x, y>> \in R /\ <<y, z>> \in R => <<x, z>> \in R
  BY <1>2, <1>3 DEF Ahead
<1>7. \E s \in [1..n -> S] : \A i, j \in DOMAIN s : i < j => <<s[i], s[j]>> \in R
  <2>1. Compares(R, S)
    BY <1>4, <1>5, <1>6 DEF Compares
  <2>2. Orders(R, S) # {}
    BY <1>1, <2>1, CanBeOrdered
  <2> QED BY <2>2 DEF Orders
<1>8. \E s \in [1..n -> S] : \A i, j \in DOMAIN s : i < j => Ahead(scores, s[i], s[j])
  BY <1>3, <1>7
<1> DEFINE b == Best(scores, S)
<1>9. b \in [1..n -> S] /\ \A i, j \in DOMAIN b : i < j => Ahead(scores, b[i], b[j])
  BY <1>8 DEF Best
<1> HIDE DEF n, b
<1>10. ASSUME NEW i \in 1..n, NEW j \in 1..n, b[i] = b[j] PROVE i = j
  <2>1. b[i] \in S /\ DOMAIN b = 1..n
    BY <1>9
  <2>2. ~Ahead(scores, b[i], b[i])
    BY <1>3, <1>4, <2>1
  <2>3. ~(i < j) /\ ~(j < i)
    BY <1>9, <1>10, <2>1, <2>2
  <2> QED BY <1>1, <2>3
<1>11. b \in Seq(S) /\ Len(b) = n
  BY <1>1, <1>9
<1> QED BY <1>1, <1>10, <1>11 DEF n, b

\* A size is a number.
LEMMA SizeIs ==
  ASSUME NEW section \in Seq(Remembered)
  PROVE  Size(section) \in Nat
<1> DEFINE n == Len(section)
           d(k) == Lore[section[k]].size
           IsSum(f, m) == f = [k \in 0..m |-> IF k = 0 THEN 1 ELSE f[k - 1] + d(k)]
<1>1. n \in Nat /\ \A k \in 1..n : d(k) \in Nat
  BY RetrievalAssumption
<1> HIDE DEF d, n
<1>2. \A m \in 0..n : \E f \in [0..m -> Nat] : IsSum(f, m)
  <2> DEFINE Has(m) == \E f \in [0..m -> Nat] : IsSum(f, m)
             Bad == {m \in 0..n : ~Has(m)}
  <2> SUFFICES ASSUME Bad # {} PROVE FALSE
    OBVIOUS
  <2>1. Bad \in SUBSET Nat
    BY <1>1
  <2>2. PICK m \in Bad : \A k \in Bad : m <= k
    <3> HIDE DEF Bad
    <3> QED BY <2>1, LeastOf
  <2>3. m \in 0..n /\ ~Has(m) /\ m \in Nat
    BY <2>1, <2>2
  <2>4. m # 0
    <3> SUFFICES ASSUME m = 0 PROVE FALSE
      OBVIOUS
    <3> DEFINE f == [k \in 0..0 |-> 1]
    <3>1. f \in [0..0 -> Nat] /\ IsSum(f, 0)
      OBVIOUS
    <3> HIDE DEF f, IsSum
    <3> QED BY <2>3, <3>1
  <2>5. m - 1 \in 0..n /\ Has(m - 1)
    <3>1. m - 1 \in 0..n /\ ~(m <= m - 1)
      BY <1>1, <2>3, <2>4
    <3> HIDE DEF Has
    <3> QED BY <2>2, <3>1
  <2>6. PICK f \in [0..(m - 1) -> Nat] : IsSum(f, m - 1)
    BY <2>5
  <2> DEFINE g == [k \in 0..m |-> IF k = m THEN f[m - 1] + d(m) ELSE f[k]]
  <2>7. g \in [0..m -> Nat]
    <3>1. f[m - 1] \in Nat /\ d(m) \in Nat /\ f[m - 1] + d(m) \in Nat
      BY <1>1, <2>3, <2>4, <2>6
    <3>2. \A k \in 0..m : k # m => k \in 0..(m - 1)
      BY <2>3
    <3> QED BY <2>6, <3>1, <3>2
  <2>8. ASSUME NEW k \in 0..m PROVE g[k] = IF k = 0 THEN 1 ELSE g[k - 1] + d(k)
    <3>1. CASE k = m
      <4>1. g[m] = f[m - 1] + d(m) /\ g[m - 1] = f[m - 1]
        BY <2>3, <2>4
      <4> QED BY <2>4, <3>1, <4>1
    <3>2. CASE k # m
      <4>1. k \in 0..(m - 1) /\ g[k] = f[k]
        BY <2>3, <3>2
      <4>2. f[k] = IF k = 0 THEN 1 ELSE f[k - 1] + d(k)
        BY <2>6, <4>1
      <4>3. k # 0 => k - 1 \in 0..m /\ k - 1 # m /\ g[k - 1] = f[k - 1]
        BY <2>3, <4>1
      <4> QED BY <4>1, <4>2, <4>3
    <3> QED BY <3>1, <3>2
  <2>9. g = [k \in 0..m |-> g[k]]
    OBVIOUS
  <2> HIDE DEF g
  <2>10. IsSum(g, m)
    BY <2>8, <2>9
  <2> HIDE DEF IsSum
  <2> QED BY <2>3, <2>7, <2>10
<1>3. n \in 0..n
  BY <1>1
<1> DEFINE up == CHOOSE f : IsSum(f, n)
<1>4. IsSum(up, n)
  <2>1. \E f : IsSum(f, n)
    BY <1>2, <1>3
  <2> HIDE DEF IsSum
  <2> QED BY <2>1
<1>5. Size(section) = up[n]
  BY DEF Size, d, n
<1>6. \A k \in 0..n : up[k] = IF k = 0 THEN 1 ELSE up[k - 1] + d(k)
  <2> HIDE DEF up
  <2> QED BY <1>4
<1> HIDE DEF up
<1>7. \A m \in 0..n : up[m] \in Nat
  <2> DEFINE Bad == {m \in 0..n : up[m] \notin Nat}
  <2> SUFFICES ASSUME Bad # {} PROVE FALSE
    OBVIOUS
  <2>1. Bad \in SUBSET Nat
    BY <1>1
  <2>2. PICK m \in Bad : \A k \in Bad : m <= k
    <3> HIDE DEF Bad
    <3> QED BY <2>1, LeastOf
  <2>3. m \in 0..n /\ m \in Nat /\ up[m] \notin Nat
    BY <2>1, <2>2
  <2>4. m # 0
    BY <1>6, <2>3
  <2>5. m - 1 \in 0..n /\ ~(m <= m - 1)
    BY <1>1, <2>3, <2>4
  <2>6. up[m - 1] \in Nat
    BY <2>2, <2>5
  <2>7. up[m] = up[m - 1] + d(m) /\ d(m) \in Nat
    BY <1>1, <1>6, <2>3, <2>4
  <2> QED BY <2>3, <2>6, <2>7
<1> QED BY <1>3, <1>5, <1>7
-----------------------------------------------------------------------------
(* MemoryRetrieval: every id that is counted has its line                   *)

\* The ids that a section of a kind may tell.
Tellable(scores, kind) ==
    {i \in DOMAIN scores : Lore[i].kind = kind /\ (kind = "forced" \/ scores[i] >= Bar)}

\* The budget, but for the rules that require a tool.
Fits(block) == Total(block) <= SectionBudget \/ (Len(block) = 1 /\ IsForced(block[1]))

\* A result marks the hits that its block tells.
IsTrue(result) ==
    /\ result.block \in Seq(Seq(Remembered)) /\ HitIds(result) \subseteq Remembered
    /\ Injected(result) = Lines(result.block)

\* A result has one hit of an id, with a score.
IsScored(result) ==
    /\ result.hits \subseteq [id : Remembered, score : Int, injected : BOOLEAN]
    /\ \A h, g \in result.hits : h.id = g.id => h = g

ForcedOf(ids) == {i \in ids : Lore[i].kind = "forced"}

\* Of the rules that require a tool as many are told as a section takes.
TellsForced(result) ==
    LET all == ForcedOf(HitIds(result))
    IN  Cardinality(all \cap Injected(result)) = IF Cardinality(all) < MaxForced THEN Cardinality(all)
                                                                             ELSE MaxForced

\* What one search for these kinds may answer.
Searched(result, kinds, scoped) ==
    /\ IsTrue(result) /\ IsScored(result) /\ TellsForced(result) /\ Fits(result.block)
    /\ HitIds(result) \subseteq Eligible(kinds, scoped)

RetrievalTypes ==
    /\ setup \in [mode : {"semantics", "fallback"}, hyde : BOOLEAN, checker : BOOLEAN,
                  engine : BOOLEAN]
    /\ phase \in {"idle", "gate", "history", "hyde", "check", "reinforce", "done", "cancelled"}
    /\ awaited \subseteq {"route", "norms", "raw", "hypothesis"}
    /\ {route, guess} \subseteq BOOLEAN /\ tries \in 0..2
    /\ memo.ids \subseteq Remembered /\ traced \subseteq Remembered /\ reinforced \subseteq Remembered

RetrievalPhases ==
    /\ awaited \cap {"route", "norms"} # {} => phase = "gate"
    /\ awaited \cap {"raw", "hypothesis"} # {} => phase = "history"
    /\ phase = "idle" => memo = Silence /\ traced = {}
    /\ phase \notin {"done", "cancelled"} => reinforced = {}
    /\ phase \in {"idle", "gate"} => tries = 0
    /\ phase \in {"gate", "history", "hyde", "check"} => setup.mode = "semantics"
    /\ phase = "check" => tries = 1 /\ route /\ Payload(norms, history).block = <<>>
    /\ tries = 2 => norms.block = <<>> /\ route

RetrievalResults ==
    /\ Searched(norms, Rules, FALSE) /\ Searched(raw, Tales, TRUE)
    /\ IsTrue(history) /\ HitIds(history) \subseteq Eligible(Tales, TRUE)

RetrievalMemo ==
    /\ setup.mode = "semantics" /\ phase \in {"history", "hyde", "check", "reinforce"} =>
        HitIds(norms) \subseteq traced
    /\ setup.mode = "semantics" /\ phase \in {"check", "reinforce"} =>
        memo = Payload(norms, history) /\ HitIds(history) \subseteq traced
    /\ IdsAreTheLines /\ TalesAreOwn

RetrievalInv == RetrievalTypes /\ RetrievalPhases /\ RetrievalResults /\ RetrievalMemo

\* A section tells ids of its kind, each once, the first of them in their order.
LEMMA SectionIs ==
  ASSUME NEW D \in SUBSET Remembered, NEW scores \in [D -> Marks], NEW kind, NEW most \in Nat
  PROVE  /\ AtMost(OfKind(scores, kind), most) \in Seq(Remembered)
         /\ ToSet(AtMost(OfKind(scores, kind), most)) \subseteq Tellable(scores, kind)
         /\ Cardinality(ToSet(AtMost(OfKind(scores, kind), most))) =
                IF Cardinality(Tellable(scores, kind)) < most THEN Cardinality(Tellable(scores, kind)) ELSE most
<1> DEFINE S == Tellable(scores, kind)
           all == Best(scores, S)
           n == Cardinality(S)
           section == AtMost(all, most)
           m == IF most < n THEN most ELSE n
<1>1. S \in SUBSET D
  BY DEF Tellable
<1>2. OfKind(scores, kind) = all
  BY DEF OfKind, Tellable
<1>3. n \in Nat /\ all \in Seq(S) /\ Len(all) = n
  BY <1>1, BestIs
<1>4. \A i, j \in 1..n : all[i] = all[j] => i = j
  BY <1>1, BestIs
<1> HIDE DEF all, S, n
<1>5. m \in Nat /\ m <= n /\ m = IF n < most THEN n ELSE most
  BY <1>3
<1>6. section = SubSeq(all, 1, m)
  BY <1>3 DEF AtMost
<1> HIDE DEF m, section
<1>7. section \in Seq(S) /\ Len(section) = m /\ \A i \in 1..m : section[i] = all[i]
  BY <1>3, <1>5, <1>6
<1>8. DOMAIN section = 1..m
  BY <1>7
<1>88. section = [i \in 1..m |-> section[i]]
  BY <1>7
<1>9. \A i, j \in 1..m : section[i] = section[j] => i = j
  BY <1>3, <1>4, <1>5, <1>7
<1>10. IsFiniteSet(1..m) /\ Cardinality(1..m) = m
  BY <1>5, UpTo
<1>11. Cardinality({section[i] : i \in 1..m}) = Cardinality(1..m)
  <2> DEFINE I == 1..m
  <2>1. IsFiniteSet(I) /\ DOMAIN section = I /\ section = [i \in I |-> section[i]]
    BY <1>8, <1>88, <1>10
  <2>2. \A i, j \in I : section[i] = section[j] => i = j
    BY <1>9
  <2> HIDE DEF I
  <2>3. Cardinality({section[i] : i \in I}) = Cardinality(I)
    BY <2>1, <2>2, ValuesDiffer
  <2> QED BY <2>3 DEF I
<1>12. ToSet(section) = {section[i] : i \in 1..m}
  BY <1>8 DEF ToSet
<1>13. ToSet(section) \subseteq S
  BY <1>7, <1>8, <1>12
<1>14. section \in Seq(Remembered)
  BY <1>1, <1>7
<1> QED BY <1>2, <1>5, <1>10, <1>11, <1>12, <1>13, <1>14 DEF section, S, n

\* What a block tells, section by section.
LEMMA LinesOf ==
  ASSUME NEW S, NEW block \in Seq(Seq(S))
  PROVE  /\ \A section \in Seq(S) : Lines(Append(block, section)) = Lines(block) \cup ToSet(section)
         /\ \A two \in Seq(Seq(S)) : Lines(block \o two) = Lines(block) \cup Lines(two)
         /\ Lines(block) \subseteq S /\ Lines(<<>>) = {}
<1>1. ASSUME NEW b \in Seq(Seq(S)) PROVE Lines(b) = UNION {ToSet(b[i]) : i \in 1..Len(b)}
  <2>1. DOMAIN b = 1..Len(b)
    OBVIOUS
  <2>2. ToSet(b) = {b[i] : i \in 1..Len(b)}
    BY <2>1, Zenon DEF ToSet
  <2>3. {ToSet(section) : section \in ToSet(b)} = {ToSet(b[i]) : i \in 1..Len(b)}
    BY <2>2
  <2> QED BY <2>3 DEF Lines
<1>2. ASSUME NEW section \in Seq(S) PROVE Lines(Append(block, section)) = Lines(block) \cup ToSet(section)
  <2> DEFINE b == Append(block, section)
             n == Len(block)
  <2>1. /\ b \in Seq(Seq(S)) /\ n \in Nat /\ Len(b) = n + 1
        /\ b[n + 1] = section /\ \A i \in 1..n : b[i] = block[i]
    OBVIOUS
  <2> HIDE DEF b, n
  <2>2. {ToSet(b[i]) : i \in 1..(n + 1)} = {ToSet(block[i]) : i \in 1..n} \cup {ToSet(section)}
    <3>1. \A i \in 1..(n + 1) : i = n + 1 \/ i \in 1..n
      BY <2>1
    <3>2. n + 1 \in 1..(n + 1) /\ \A i \in 1..n : i \in 1..(n + 1)
      BY <2>1
    <3> QED BY <2>1, <3>1, <3>2
  <2>3. Lines(b) = UNION {ToSet(b[i]) : i \in 1..(n + 1)}
    BY <1>1, <2>1
  <2>4. Lines(block) = UNION {ToSet(block[i]) : i \in 1..n}
    BY <1>1 DEF n
  <2>5. Lines(b) = Lines(block) \cup ToSet(section)
    BY <2>2, <2>3, <2>4
  <2> QED BY <2>5 DEF b
<1>3. ASSUME NEW two \in Seq(Seq(S)) PROVE Lines(block \o two) = Lines(block) \cup Lines(two)
  <2> DEFINE b == block \o two
             n == Len(block)
             k == Len(two)
  <2>1. /\ b \in Seq(Seq(S)) /\ n \in Nat /\ k \in Nat /\ Len(b) = n + k
        /\ \A i \in 1..n : b[i] = block[i]
        /\ \A i \in 1..k : b[n + i] = two[i]
    OBVIOUS
  <2> HIDE DEF b, n, k
  <2>2. {ToSet(b[i]) : i \in 1..(n + k)} = {ToSet(block[i]) : i \in 1..n} \cup {ToSet(two[i]) : i \in 1..k}
    <3>1. ASSUME NEW i \in 1..(n + k) PROVE i \in 1..n \/ \E j \in 1..k : b[i] = two[j]
      <4> SUFFICES ASSUME i \notin 1..n PROVE \E j \in 1..k : b[i] = two[j]
        OBVIOUS
      <4>1. i - n \in 1..k /\ n + (i - n) = i
        BY <2>1
      <4>2. b[i] = two[i - n]
        BY <2>1, <4>1
      <4> QED BY <4>1, <4>2
    <3>2. (\A i \in 1..n : i \in 1..(n + k)) /\ \A i \in 1..k : n + i \in 1..(n + k)
      BY <2>1
    <3> QED BY <2>1, <3>1, <3>2
  <2>3. Lines(b) = UNION {ToSet(b[i]) : i \in 1..(n + k)}
    BY <1>1, <2>1
  <2>4. Lines(block) = UNION {ToSet(block[i]) : i \in 1..n} /\ Lines(two) = UNION {ToSet(two[i]) : i \in 1..k}
    BY <1>1 DEF n, k
  <2>5. Lines(b) = Lines(block) \cup Lines(two)
    BY <2>2, <2>3, <2>4
  <2> QED BY <2>5 DEF b
<1>4. Lines(block) \subseteq S
  BY <1>1 DEF ToSet
<1>5. Lines(<<>>) = {}
  BY DEF Lines, ToSet
<1> QED BY <1>2, <1>3, <1>4, <1>5

\* A section more adds its size.
LEMMA TotalOf ==
  ASSUME NEW kept \in Seq(Seq(Remembered)), Len(kept) <= 2, NEW section \in Seq(Remembered)
  PROVE  /\ Total(kept) \in Nat /\ Size(section) \in Nat
         /\ Total(Append(kept, section)) = Total(kept) + Size(section)
<1> DEFINE b == Append(kept, section)
           n == Len(kept)
<1>1. /\ b \in Seq(Seq(Remembered)) /\ n \in 0..2 /\ DOMAIN kept = 1..n /\ DOMAIN b = 1..(n + 1)
      /\ b[n + 1] = section /\ \A i \in 1..n : b[i] = kept[i] /\ kept[i] \in Seq(Remembered)
  <2>1. b \in Seq(Seq(Remembered)) /\ n \in 0..2 /\ DOMAIN kept = 1..n /\ Len(b) = n + 1
    <3>1. n \in Nat /\ n <= 2 /\ DOMAIN kept = 1..n
      OBVIOUS
    <3>2. b \in Seq(Seq(Remembered)) /\ Len(b) = n + 1
      OBVIOUS
    <3> QED BY <3>1, <3>2
  <2>2. b[n + 1] = section /\ \A i \in 1..n : b[i] = kept[i] /\ kept[i] \in Seq(Remembered)
    OBVIOUS
  <2> HIDE DEF b, n
  <2>3. DOMAIN b = 1..(n + 1)
    BY <2>1
  <2> QED BY <2>1, <2>2, <2>3
<1>2. Size(section) \in Nat
  BY SizeIs
<1>3. \A i \in 1..3 : SizeAt(kept, i) \in Nat /\ SizeAt(kept, i) = IF i <= n THEN Size(kept[i]) ELSE 0
  BY <1>1, SizeIs DEF SizeAt
<1>4. \A i \in 1..3 : SizeAt(b, i) = IF i <= n THEN Size(kept[i]) ELSE IF i = n + 1 THEN Size(section) ELSE 0
  BY <1>1 DEF SizeAt
<1> HIDE DEF b, n
<1>5. \A i \in 1..3 : SizeAt(b, i) = IF i = n + 1 THEN Size(section) ELSE SizeAt(kept, i)
  BY <1>1, <1>3, <1>4
<1>6. n = 0 => SizeAt(kept, 1) = 0
  BY <1>3
<1>7. n = 1 => SizeAt(kept, 2) = 0
  BY <1>3
<1>8. n = 2 => SizeAt(kept, 3) = 0
  BY <1>3
<1> DEFINE x1 == SizeAt(kept, 1)
           x2 == SizeAt(kept, 2)
           x3 == SizeAt(kept, 3)
           y == Size(section)
<1>9. x1 \in Nat /\ x2 \in Nat /\ x3 \in Nat /\ y \in Nat
  BY <1>2, <1>3
<1>10. /\ SizeAt(b, 1) = IF n = 0 THEN y ELSE x1
       /\ SizeAt(b, 2) = IF n = 1 THEN y ELSE x2
       /\ SizeAt(b, 3) = IF n = 2 THEN y ELSE x3
  BY <1>1, <1>5
<1>11. Total(kept) = x1 + x2 + x3 /\ Total(b) = SizeAt(b, 1) + SizeAt(b, 2) + SizeAt(b, 3)
  BY DEF Total
<1>12. n \in 0..2 /\ (n = 0 => x1 = 0) /\ (n = 1 => x2 = 0) /\ (n = 2 => x3 = 0)
  BY <1>1, <1>6, <1>7, <1>8
<1> HIDE DEF x1, x2, x3, y
<1>13. Total(kept) \in Nat /\ Total(b) = Total(kept) + y
  <2>1. CASE n = 0
    BY <1>9, <1>10, <1>11, <1>12, <2>1
  <2>2. CASE n = 1
    BY <1>9, <1>10, <1>11, <1>12, <2>2
  <2>3. CASE n = 2
    BY <1>9, <1>10, <1>11, <1>12, <2>3
  <2>4. n = 0 \/ n = 1 \/ n = 2
    BY <1>12
  <2> QED BY <2>1, <2>2, <2>3, <2>4
<1> QED BY <1>2, <1>13 DEF b, y

\* A section is taken whole or left, and the budget is kept.
LEMMA TakingIs ==
  ASSUME NEW kept \in Seq(Seq(Remembered)), Len(kept) <= 2, Fits(kept),
         NEW section \in Seq(Remembered), section = <<>> \/ ~IsForced(section)
  PROVE  /\ Taking(kept, section) \in Seq(Seq(Remembered)) /\ Len(Taking(kept, section)) <= Len(kept) + 1
         /\ Fits(Taking(kept, section))
         /\ Lines(kept) \subseteq Lines(Taking(kept, section))
         /\ Lines(Taking(kept, section)) \subseteq Lines(kept) \cup ToSet(section)
<1>1. CASE Taking(kept, section) = kept
  BY <1>1
<1>2. CASE Taking(kept, section) # kept
  <2>1. Taking(kept, section) = Append(kept, section) /\ ~(Total(kept) + Size(section) > SectionBudget)
    BY <1>2 DEF Taking
  <2>2. Append(kept, section) \in Seq(Seq(Remembered)) /\ Len(Append(kept, section)) = Len(kept) + 1
    OBVIOUS
  <2>3. Total(Append(kept, section)) <= SectionBudget
    BY <2>1, TotalOf, RetrievalAssumption
  <2>4. Lines(Append(kept, section)) = Lines(kept) \cup ToSet(section)
    BY LinesOf
  <2> QED BY <2>1, <2>2, <2>3, <2>4 DEF Fits
<1> QED BY <1>1, <1>2

\* The first section is taken whatever its size: its rules require a tool.
LEMMA FirstIsTaken ==
  ASSUME NEW section \in Seq(Remembered), section = <<>> \/ IsForced(section)
  PROVE  /\ Taking(<<>>, section) \in Seq(Seq(Remembered)) /\ Len(Taking(<<>>, section)) <= 1
         /\ Fits(Taking(<<>>, section)) /\ Lines(Taking(<<>>, section)) = ToSet(section)
<1>1. <<>> \in Seq(Seq(Remembered)) /\ Len(<<>>) = 0
  OBVIOUS
<1>2. Total(<<>>) = 0 /\ 0 <= SectionBudget
  BY RetrievalAssumption DEF Total, SizeAt
<1>3. Lines(<<>>) = {}
  BY DEF Lines, ToSet
<1>4. CASE section = <<>>
  <2>1. Taking(<<>>, section) = <<>> /\ ToSet(section) = {}
    BY <1>4 DEF Taking, ToSet
  <2>2. Fits(<<>>) /\ 0 <= 1
    BY <1>2 DEF Fits
  <2> QED BY <1>1, <1>3, <2>1, <2>2, Zenon
<1>5. CASE section # <<>>
  <2>1. Taking(<<>>, section) = Append(<<>>, section)
    BY <1>5 DEF Taking
  <2> DEFINE b == Append(<<>>, section)
  <2>2. b \in Seq(Seq(Remembered)) /\ Len(b) = 1 /\ b[1] = section
    OBVIOUS
  <2>3. Lines(b) = {} \cup ToSet(section)
    <3> DEFINE no == <<>>
    <3>1. no \in Seq(Seq(Remembered)) /\ Lines(no) = {}
      BY <1>1, <1>3
    <3> HIDE DEF no
    <3>2. Lines(Append(no, section)) = Lines(no) \cup ToSet(section)
      <4>1. \A block \in Seq(Seq(Remembered)) : Lines(Append(block, section)) = Lines(block) \cup ToSet(section)
        BY LinesOf
      <4> QED BY <3>1, <4>1, Zenon
    <3> QED BY <3>1, <3>2 DEF no
  <2> HIDE DEF b
  <2>4. Fits(b)
    <3>1. IsForced(section)
      BY <1>5
    <3>2. IsForced(b[1])
      BY <2>2, <3>1, Zenon
    <3>3. Len(b) = 1
      BY <2>2
    <3> QED BY <3>2, <3>3, Zenon DEF Fits
  <2>5. Len(b) <= 1 /\ Lines(b) = ToSet(section)
    BY <2>2, <2>3
  <2>6. Taking(<<>>, section) = b
    BY <2>1 DEF b
  <2> QED BY <2>2, <2>4, <2>5, <2>6, Zenon
<1> QED BY <1>4, <1>5

\* A block tells what was found, keeps its budget, and tells as many of the rules
\* that require a tool as their section takes.
LEMMA BlockIs ==
  ASSUME NEW D \in SUBSET Remembered, NEW scores \in [D -> Marks]
  PROVE  /\ Block(scores) \in Seq(Seq(Remembered)) /\ Lines(Block(scores)) \subseteq D /\ Fits(Block(scores))
         /\ Cardinality(ForcedOf(D) \cap Lines(Block(scores))) =
                IF Cardinality(ForcedOf(D)) < MaxForced THEN Cardinality(ForcedOf(D)) ELSE MaxForced
<1> DEFINE F == AtMost(OfKind(scores, "forced"), MaxForced)
           N == AtMost(OfKind(scores, "norm"), MaxNorms)
           T == AtMost(OfKind(scores, "tale"), MaxTales)
           one == Taking(<<>>, F)
           two == Taking(one, N)
           three == Taking(two, T)
<1>1. Block(scores) = three
  BY DEF Block
<1>2. /\ F \in Seq(Remembered) /\ ToSet(F) \subseteq Tellable(scores, "forced")
      /\ Cardinality(ToSet(F)) = IF Cardinality(Tellable(scores, "forced")) < MaxForced
                                 THEN Cardinality(Tellable(scores, "forced")) ELSE MaxForced
  <2>1. MaxForced \in Nat
    BY RetrievalAssumption
  <2> QED BY <2>1, SectionIs, Zenon
<1>3. N \in Seq(Remembered) /\ ToSet(N) \subseteq Tellable(scores, "norm")
  BY SectionIs, RetrievalAssumption
<1>4. T \in Seq(Remembered) /\ ToSet(T) \subseteq Tellable(scores, "tale")
  BY SectionIs, RetrievalAssumption
<1>5. ASSUME NEW kind, NEW section \in Seq(Remembered), ToSet(section) \subseteq Tellable(scores, kind)
      PROVE  section = <<>> \/ Lore[section[1]].kind = kind
  <2> SUFFICES ASSUME section # <<>> PROVE Lore[section[1]].kind = kind
    OBVIOUS
  <2>1. 1 \in DOMAIN section
    OBVIOUS
  <2>2. section[1] \in ToSet(section)
    BY <2>1 DEF ToSet
  <2> QED BY <1>5, <2>2 DEF Tellable
<1> HIDE DEF F, N, T
<1>6. /\ F = <<>> \/ IsForced(F)
      /\ N = <<>> \/ ~IsForced(N)
      /\ T = <<>> \/ ~IsForced(T)
  BY <1>2, <1>3, <1>4, <1>5 DEF IsForced
<1>7. /\ one \in Seq(Seq(Remembered)) /\ Len(one) <= 1 /\ Fits(one) /\ Lines(one) = ToSet(F)
  BY <1>2, <1>6, FirstIsTaken
<1> HIDE DEF one
<1>8. /\ two \in Seq(Seq(Remembered)) /\ Len(two) <= Len(one) + 1 /\ Fits(two)
      /\ Lines(one) \subseteq Lines(two) /\ Lines(two) \subseteq Lines(one) \cup ToSet(N)
  <2>1. Len(one) <= 2
    BY <1>7
  <2> QED BY <1>3, <1>6, <1>7, <2>1, TakingIs
<1> HIDE DEF two
<1>9. /\ three \in Seq(Seq(Remembered)) /\ Fits(three)
      /\ Lines(two) \subseteq Lines(three) /\ Lines(three) \subseteq Lines(two) \cup ToSet(T)
  <2>1. Len(two) <= 2
    BY <1>7, <1>8
  <2> QED BY <1>4, <1>6, <1>8, <2>1, TakingIs
<1> HIDE DEF three
<1>10. \A kind : Tellable(scores, kind) = {i \in D : Lore[i].kind = kind /\ (kind = "forced" \/ scores[i] >= Bar)}
  BY DEF Tellable
<1>11. Tellable(scores, "forced") = ForcedOf(D)
  BY <1>10 DEF ForcedOf
<1>12. Lines(three) \subseteq D
  <2>1. \A kind : Tellable(scores, kind) \subseteq D
    BY <1>10
  <2>2. ToSet(F) \subseteq D /\ ToSet(N) \subseteq D /\ ToSet(T) \subseteq D
    BY <1>2, <1>3, <1>4, <2>1
  <2> QED BY <1>7, <1>8, <1>9, <2>2
<1>13. ToSet(N) \cap ForcedOf(D) = {} /\ ToSet(T) \cap ForcedOf(D) = {}
  BY <1>3, <1>4, <1>10 DEF ForcedOf
<1>14. ForcedOf(D) \cap Lines(three) = ToSet(F)
  BY <1>2, <1>7, <1>8, <1>9, <1>11, <1>13
<1>15. Cardinality(ForcedOf(D) \cap Lines(three)) =
           IF Cardinality(ForcedOf(D)) < MaxForced THEN Cardinality(ForcedOf(D)) ELSE MaxForced
  BY <1>2, <1>11, <1>14
<1> QED BY <1>1, <1>9, <1>12, <1>15

\* A search answers truly.
LEMMA SearchIs ==
  ASSUME NEW kinds, NEW scoped, NEW result \in Answers(kinds, scoped)
  PROVE  Searched(result, kinds, scoped)
<1>1. PICK D \in SUBSET Eligible(kinds, scoped) : \E scores \in [D -> Marks] : result = Result(scores)
  BY DEF Answers
<1>2. PICK scores \in [D -> Marks] : result = Result(scores)
  BY <1>1
<1> DEFINE b == Block(scores)
<1>3. D \in SUBSET Remembered /\ DOMAIN scores = D
  BY DEF Eligible
<1>4. /\ b \in Seq(Seq(Remembered)) /\ Lines(b) \subseteq D /\ Fits(b)
      /\ Cardinality(ForcedOf(D) \cap Lines(b)) =
             IF Cardinality(ForcedOf(D)) < MaxForced THEN Cardinality(ForcedOf(D)) ELSE MaxForced
  BY <1>3, BlockIs
<1>5. /\ result.hits = {[id |-> i, score |-> scores[i], injected |-> i \in Lines(b)] : i \in D}
      /\ result.block = b
  BY <1>2, <1>3 DEF Result
<1> HIDE DEF b
<1>6. \A h \in result.hits : h.id \in D /\ h = [id |-> h.id, score |-> scores[h.id], injected |-> h.id \in Lines(b)]
  BY <1>5
<1>7. \A i \in D : [id |-> i, score |-> scores[i], injected |-> i \in Lines(b)] \in result.hits
  BY <1>5
<1>8. HitIds(result) = D
  BY <1>6, <1>7 DEF HitIds
<1>9. Injected(result) = Lines(b)
  <2>1. ASSUME NEW h \in result.hits PROVE h.injected <=> h.id \in Lines(b)
    <3> DEFINE marked == h.id \in Lines(b)
    <3>1. h = [id |-> h.id, score |-> scores[h.id], injected |-> marked]
      BY <1>6
    <3> HIDE DEF marked
    <3>2. h.injected = marked
      BY <3>1
    <3> QED BY <3>2 DEF marked
  <2>2. \A h \in result.hits : h.injected => h.id \in Lines(b)
    BY <2>1
  <2>3. ASSUME NEW i \in Lines(b) PROVE \E h \in result.hits : h.injected /\ h.id = i
    BY <1>4, <1>7
  <2> QED BY <2>2, <2>3 DEF Injected
<1>10. IsTrue(result)
  BY <1>3, <1>4, <1>5, <1>8, <1>9 DEF IsTrue
<1>11. IsScored(result)
  <2>1. result.hits \subseteq [id : Remembered, score : Int, injected : BOOLEAN]
    <3>1. \A i \in D : i \in Remembered /\ scores[i] \in Int /\ (i \in Lines(b)) \in BOOLEAN
      BY <1>3, RetrievalAssumption
    <3> SUFFICES ASSUME NEW h \in result.hits PROVE h \in [id : Remembered, score : Int, injected : BOOLEAN]
      OBVIOUS
    <3>2. PICK i \in D : h = [id |-> i, score |-> scores[i], injected |-> i \in Lines(b)]
      BY <1>5
    <3> DEFINE marked == i \in Lines(b)
    <3>3. marked \in BOOLEAN /\ h = [id |-> i, score |-> scores[i], injected |-> marked]
      BY <3>2
    <3> HIDE DEF marked
    <3> QED BY <3>1, <3>3
  <2>2. \A h, g \in result.hits : h.id = g.id => h = g
    BY <1>6
  <2> QED BY <2>1, <2>2 DEF IsScored
<1>12. TellsForced(result)
  BY <1>4, <1>8, <1>9 DEF TellsForced
<1> QED BY <1>4, <1>5, <1>8, <1>10, <1>11, <1>12 DEF Searched

\* A search that was not made answers truly.
LEMMA NothingIs ==
  ASSUME NEW kinds, NEW scoped
  PROVE  Searched(Nothing, kinds, scoped) /\ Injected(Nothing) = {} /\ HitIds(Nothing) = {}
         /\ Nothing.block = <<>> /\ Lines(<<>>) = {}
<1>1. Nothing.hits = {} /\ Nothing.block = <<>>
  BY DEF Nothing
<1>2. HitIds(Nothing) = {} /\ Injected(Nothing) = {}
  BY <1>1 DEF HitIds, Injected
<1>3. <<>> \in Seq(Seq(Remembered)) /\ Lines(<<>>) = {}
  BY DEF Lines, ToSet
<1>4. Fits(<<>>)
  BY RetrievalAssumption DEF Fits, Total, SizeAt
<1>5. TellsForced(Nothing)
  <2>1. ForcedOf({}) = {} /\ {} \cap {} = {}
    BY DEF ForcedOf
  <2>2. Cardinality({}) = 0
    BY FS_EmptySet
  <2>3. 0 < MaxForced
    BY RetrievalAssumption
  <2> QED BY <1>2, <2>1, <2>2, <2>3 DEF TellsForced
<1>6. IsTrue(Nothing) /\ IsScored(Nothing)
  BY <1>1, <1>2, <1>3 DEF IsTrue, IsScored
<1> QED BY <1>1, <1>2, <1>3, <1>4, <1>5, <1>6 DEF Searched

\* What was found twice is marked once for either.
LEMMA MergedIs ==
  ASSUME NEW one, NEW two, IsTrue(one), IsTrue(two), IsScored(one), IsScored(two)
  PROVE  /\ IsTrue(WithHyde(one, two))
         /\ HitIds(WithHyde(one, two)) = HitIds(one) \cup HitIds(two)
<1> DEFINE all == one.hits \cup two.hits
           ids == HitIds(one) \cup HitIds(two)
           marked == Injected(one) \cup Injected(two)
           of(id) == CHOOSE h \in all : h.id = id /\ \A g \in all : g.id = id => g.score <= h.score
           hit(id) == [of(id) EXCEPT !.injected = id \in marked]
           r == WithHyde(one, two)
<1>1. all \subseteq [id : Remembered, score : Int, injected : BOOLEAN]
  BY DEF IsScored
<1>2. ASSUME NEW id \in ids PROVE of(id) \in all /\ of(id).id = id
  <2>1. \E h \in all : h.id = id /\ \A g \in all : g.id = id => g.score <= h.score
    <3>1. \A h \in all : h.score \in Int
      BY <1>1
    <3>2. \A h, g \in one.hits : h.id = g.id => h = g
      BY DEF IsScored
    <3>3. \A h, g \in two.hits : h.id = g.id => h = g
      BY DEF IsScored
    <3>4. PICK h \in all : h.id = id
      BY <1>2 DEF HitIds
    <3>5. CASE \A g \in all : g.id = id => g.score <= h.score
      BY <3>4, <3>5
    <3>6. CASE \E g \in all : g.id = id /\ ~(g.score <= h.score)
      <4>1. PICK g \in all : g.id = id /\ ~(g.score <= h.score)
        BY <3>6
      <4>2. h.score <= g.score /\ g.score <= g.score
        BY <3>1, <4>1
      <4>3. \A k \in all : k.id = id => k = h \/ k = g
        BY <3>2, <3>3, <3>4, <4>1, <4>2
      <4> QED BY <4>1, <4>2, <4>3
    <3> QED BY <3>5, <3>6
  <2> QED BY <2>1
<1>3. r.hits = {hit(id) : id \in ids}
  BY DEF WithHyde, MergedHits
<1>4. r.block = one.block \o IF Injected(two) \subseteq Injected(one) THEN <<>> ELSE two.block
  BY DEF WithHyde
<1> HIDE DEF of, r
<1>5. ASSUME NEW id \in ids PROVE hit(id).id = id /\ (hit(id).injected <=> id \in marked)
  <2>1. of(id) \in [id : Remembered, score : Int, injected : BOOLEAN] /\ of(id).id = id
    BY <1>1, <1>2
  <2> HIDE DEF ids, marked
  <2> QED BY <2>1
<1> HIDE DEF hit
<1>6. HitIds(r) = ids
  BY <1>3, <1>5 DEF HitIds
<1>7. Injected(one) \subseteq HitIds(one) /\ Injected(two) \subseteq HitIds(two)
  BY DEF Injected, HitIds
<1>8. Injected(r) = marked
  <2>1. Injected(r) \subseteq marked
    BY <1>3, <1>5 DEF Injected
  <2>2. ASSUME NEW i \in marked PROVE i \in Injected(r)
    <3>1. i \in ids /\ hit(i) \in r.hits /\ hit(i).injected /\ hit(i).id = i
      BY <1>3, <1>5, <1>7
    <3> QED BY <3>1 DEF Injected
  <2> QED BY <2>1, <2>2
<1>9. /\ one.block \in Seq(Seq(Remembered)) /\ two.block \in Seq(Seq(Remembered))
      /\ Injected(one) = Lines(one.block) /\ Injected(two) = Lines(two.block)
  BY DEF IsTrue
<1>10. r.block \in Seq(Seq(Remembered)) /\ Lines(r.block) = marked
  <2>1. CASE Injected(two) \subseteq Injected(one)
    <3>1. r.block = one.block
      BY <1>4, <1>9, <2>1
    <3> QED BY <1>9, <2>1, <3>1
  <2>2. CASE ~(Injected(two) \subseteq Injected(one))
    <3>1. r.block = one.block \o two.block
      BY <1>4, <2>2
    <3>2. one.block \o two.block \in Seq(Seq(Remembered))
      BY <1>9
    <3>3. Lines(one.block \o two.block) = Lines(one.block) \cup Lines(two.block)
      BY <1>9, LinesOf
    <3> QED BY <1>9, <3>1, <3>2, <3>3
  <2> QED BY <2>1, <2>2
<1>11. ids \subseteq Remembered
  BY DEF IsTrue
<1> QED BY <1>6, <1>8, <1>10, <1>11 DEF IsTrue, r

\* What the request carries is what its two searches tell.
LEMMA PayloadIs ==
  ASSUME NEW rules, NEW tales, IsTrue(rules), IsTrue(tales)
  PROVE  LET p == Payload(rules, tales)
         IN  /\ p.ids = Lines(p.block) /\ p.ids = Injected(rules) \cup Injected(tales)
             /\ p.ids \subseteq HitIds(rules) \cup HitIds(tales) /\ p.ids \subseteq Remembered
             /\ p.block = <<>> => rules.block = <<>>
<1> DEFINE p == Payload(rules, tales)
<1>1. p.block = rules.block \o tales.block /\ p.ids = Injected(rules) \cup Injected(tales)
  BY DEF Payload
<1>2. /\ rules.block \in Seq(Seq(Remembered)) /\ tales.block \in Seq(Seq(Remembered))
      /\ Injected(rules) = Lines(rules.block) /\ Injected(tales) = Lines(tales.block)
      /\ HitIds(rules) \subseteq Remembered /\ HitIds(tales) \subseteq Remembered
  BY DEF IsTrue
<1>3. Lines(rules.block \o tales.block) = Lines(rules.block) \cup Lines(tales.block)
  BY <1>2, LinesOf
<1>4. Injected(rules) \subseteq HitIds(rules) /\ Injected(tales) \subseteq HitIds(tales)
  BY DEF Injected, HitIds
<1>5. rules.block \o tales.block = <<>> => rules.block = <<>>
  <2> DEFINE one == rules.block
             two == tales.block
  <2>1. one \in Seq(Seq(Remembered)) /\ two \in Seq(Seq(Remembered))
    BY <1>2
  <2> HIDE DEF one, two
  <2>2. one \o two = <<>> => one = <<>>
    BY <2>1
  <2> QED BY <2>2 DEF one, two
<1> HIDE DEF p
<1> QED BY <1>1, <1>2, <1>3, <1>4, <1>5 DEF p

\* Of the events that are told, each is of this chat.
LEMMA OwnTales ==
  ASSUME NEW rules, NEW tales, HitIds(rules) \subseteq Eligible(Rules, FALSE),
         HitIds(tales) \subseteq Eligible(Tales, TRUE), NEW i \in HitIds(rules) \cup HitIds(tales),
         Lore[i].kind = "tale"
  PROVE  Lore[i].chat = OwnChat
<1>1. i \notin Eligible(Rules, FALSE)
  BY DEF Eligible, Rules
<1>2. i \in Eligible(Tales, TRUE)
  BY <1>1
<1> QED BY <1>2 DEF Eligible

LEMMA RetrievalBegins == RetrievalInit => RetrievalInv
<1> SUFFICES ASSUME RetrievalInit PROVE RetrievalInv
  OBVIOUS
<1> USE DEF RetrievalInit
<1>1. Searched(Nothing, Rules, FALSE) /\ Searched(Nothing, Tales, TRUE) /\ HitIds(Nothing) = {}
  BY NothingIs
<1>2. memo.ids = {} /\ memo.block = <<>> /\ setup.mode = "semantics"
  BY DEF Silence
<1>3. RetrievalTypes
  <2>1. setup \in [mode : {"semantics", "fallback"}, hyde : BOOLEAN, checker : BOOLEAN, engine : BOOLEAN]
    OBVIOUS
  <2>2. {route, guess} \subseteq BOOLEAN /\ tries \in 0..2
    <3>1. route \in BOOLEAN /\ guess \in BOOLEAN
      BY Zenon
    <3>2. tries \in 0..2
      OBVIOUS
    <3> QED BY <3>1, <3>2, Zenon
  <2>3. memo.ids \subseteq Remembered /\ traced \subseteq Remembered /\ reinforced \subseteq Remembered
    BY <1>2
  <2> QED BY <2>1, <2>2, <2>3 DEF RetrievalTypes
<1>4. RetrievalPhases
  BY DEF RetrievalPhases
<1>5. RetrievalResults
  BY <1>1 DEF RetrievalResults, Searched
<1>6. RetrievalMemo
  BY <1>2 DEF RetrievalMemo, IdsAreTheLines, Answering, TalesAreOwn
<1> QED BY <1>3, <1>4, <1>5, <1>6 DEF RetrievalInv

\* The invariant says what the runs check.
LEMMA RetrievalInvIsEnough == RetrievalInv => RetrievalIsHonest /\ RetrievalTypeOK
<1> SUFFICES ASSUME RetrievalInv PROVE RetrievalIsHonest /\ RetrievalTypeOK
  OBVIOUS
<1> USE DEF RetrievalInv
<1>1. /\ IsTrue(norms) /\ IsTrue(raw) /\ IsTrue(history) /\ TellsForced(norms)
      /\ Fits(norms.block) /\ Fits(raw.block)
      /\ HitIds(norms) \subseteq Eligible(Rules, FALSE) /\ HitIds(history) \subseteq Eligible(Tales, TRUE)
  BY DEF RetrievalResults, Searched
<1>2. RulesAreTold
  <2> SUFFICES ASSUME phase = "reinforce", setup.mode = "semantics"
               PROVE  /\ Lines(norms.block) \subseteq memo.ids
                      /\ LET all == {i \in HitIds(norms) : Lore[i].kind = "forced"}
                             kept == all \cap memo.ids
                         IN  Cardinality(kept) = IF Cardinality(all) < MaxForced THEN Cardinality(all)
                                                                                  ELSE MaxForced
    BY DEF RulesAreTold
  <2>1. memo = Payload(norms, history)
    BY DEF RetrievalMemo
  <2>2. memo.ids = Injected(norms) \cup Injected(history)
    BY <1>1, <2>1, PayloadIs
  <2> DEFINE all == {i \in HitIds(norms) : Lore[i].kind = "forced"}
  <2>3. Injected(history) \cap all = {}
    <3>1. Injected(history) \subseteq HitIds(history)
      BY DEF Injected, HitIds
    <3> QED BY <1>1, <3>1 DEF Eligible, Tales
  <2>4. all \cap memo.ids = all \cap Injected(norms) /\ all = ForcedOf(HitIds(norms))
    BY <2>2, <2>3 DEF ForcedOf
  <2>5. Lines(norms.block) \subseteq memo.ids
    BY <1>1, <2>2 DEF IsTrue
  <2> HIDE DEF all
  <2>6. Cardinality(all \cap memo.ids) = IF Cardinality(all) < MaxForced THEN Cardinality(all) ELSE MaxForced
    BY <1>1, <2>4 DEF TellsForced
  <2> QED BY <2>5, <2>6 DEF all
<1>3. RetriesAddOnly
  BY DEF RetrievalPhases, RetriesAddOnly
<1>4. BudgetIsKept
  BY <1>1 DEF BudgetIsKept, Fits
<1>5. RetrievalTypeOK
  <2>1. HitIds(norms) \subseteq Remembered /\ HitIds(raw) \subseteq Remembered /\ HitIds(history) \subseteq Remembered
    BY <1>1 DEF IsTrue
  <2> QED BY <2>1 DEF RetrievalTypes, RetrievalTypeOK
<1> QED BY <1>2, <1>3, <1>4, <1>5 DEF RetrievalIsHonest, RetrievalMemo

\* What was found for the history, first or hypothetical, becomes the payload.
LEMMA ComposedKeeps ==
  ASSUME RetrievalInv, NEW result, IsTrue(result), HitIds(result) \subseteq Eligible(Tales, TRUE),
         Composed(result), phase \in {"history", "hyde"}, awaited = {},
         UNCHANGED <<setup, awaited, route, norms, raw, guess, tries, reinforced>>
  PROVE  RetrievalInv'
<1> USE DEF RetrievalInv
<1>1. /\ history' = result /\ memo' = Payload(norms, result) /\ traced' = traced \cup HitIds(result)
      /\ phase' = IF Retry THEN "check" ELSE "reinforce"
      /\ setup' = setup /\ awaited' = awaited /\ route' = route /\ norms' = norms /\ raw' = raw /\ guess' = guess
      /\ tries' = tries /\ reinforced' = reinforced
  BY DEF Composed
<1>2. Retry => route /\ tries = 1 /\ Payload(norms, result).block = <<>>
  BY <1>1 DEF Retry
<1>3. IsTrue(norms) /\ HitIds(norms) \subseteq Eligible(Rules, FALSE) /\ HitIds(result) \subseteq Remembered
  BY DEF RetrievalResults, Searched, IsTrue
<1>4. /\ memo'.ids = Lines(memo'.block) /\ memo'.ids \subseteq HitIds(norms) \cup HitIds(result)
      /\ memo'.ids \subseteq Remembered
  BY <1>1, <1>3, PayloadIs
<1>5. setup.mode = "semantics" /\ HitIds(norms) \subseteq traced /\ reinforced = {}
  BY DEF RetrievalPhases, RetrievalMemo
<1>6. phase' \in {"check", "reinforce"} /\ (phase' = "check" => Retry)
  BY <1>1
<1>7. RetrievalTypes'
  BY <1>1, <1>3, <1>4, <1>6 DEF RetrievalTypes
<1>8. RetrievalPhases'
  BY <1>1, <1>2, <1>5, <1>6 DEF RetrievalPhases
<1>9. RetrievalResults'
  BY <1>1 DEF RetrievalResults
<1>10. TalesAreOwn'
  <2> SUFFICES ASSUME NEW i \in memo'.ids, Lore[i].kind = "tale" PROVE Lore[i].chat = OwnChat
    BY DEF TalesAreOwn
  <2> QED BY <1>3, <1>4, OwnTales
<1>11. IdsAreTheLines'
  BY <1>1, <1>4, <1>5 DEF IdsAreTheLines
<1>12. RetrievalMemo'
  BY <1>1, <1>5, <1>6, <1>10, <1>11 DEF RetrievalMemo
<1> QED BY <1>7, <1>8, <1>9, <1>12

LEMMA CallsRetrieval == RetrievalInv /\ Called => RetrievalInv'
<1> SUFFICES ASSUME RetrievalInv, Called PROVE RetrievalInv'
  OBVIOUS
<1> USE DEF RetrievalInv
<1>1. /\ phase = "idle" /\ setup' \in [mode : {"semantics", "fallback"}, hyde : BOOLEAN, checker : BOOLEAN,
                                       engine : BOOLEAN]
      /\ route' = route /\ norms' = norms /\ raw' = raw /\ history' = history /\ guess' = guess
      /\ tries' = tries /\ reinforced' = reinforced
  BY DEF Called
<1>2. RetrievalResults'
  BY <1>1 DEF RetrievalResults
<1>3. memo = Silence /\ traced = {} /\ reinforced = {} /\ tries = 0
  BY <1>1 DEF RetrievalPhases
<1>4. Silence.ids = {}
  BY DEF Silence
<1>5. CASE setup'.mode = "semantics"
  <2>1. phase' = "gate" /\ awaited' = {"route", "norms"} /\ memo' = memo /\ traced' = traced
    BY <1>5 DEF Called
  <2>2. RetrievalTypes'
    BY <1>1, <2>1 DEF RetrievalTypes
  <2>3. RetrievalPhases'
    BY <1>1, <1>3, <1>5, <2>1 DEF RetrievalPhases
  <2>4. RetrievalMemo'
    BY <1>3, <1>4, <2>1 DEF RetrievalMemo, IdsAreTheLines, Answering, TalesAreOwn
  <2> QED BY <1>2, <2>2, <2>3, <2>4
<1>6. CASE setup'.mode # "semantics"
  <2>1. /\ phase' = "reinforce" /\ awaited' = awaited
        /\ \E result \in IF setup'.engine THEN Answers(Rules \cup Tales, FALSE) ELSE {Nothing} :
               memo' = Payload(result, Nothing) /\ traced' = HitIds(result)
    BY <1>6 DEF Called
  <2>2. PICK result : /\ IsTrue(result)
                      /\ memo' = Payload(result, Nothing) /\ traced' = HitIds(result)
    BY <2>1, SearchIs, NothingIs DEF Searched
  <2>3. IsTrue(Nothing) /\ HitIds(Nothing) = {}
    BY NothingIs DEF Searched
  <2>4. /\ memo'.ids = Lines(memo'.block) /\ memo'.ids \subseteq traced' /\ memo'.ids \subseteq Remembered
        /\ traced' \subseteq Remembered
    BY <2>2, <2>3, PayloadIs DEF IsTrue
  <2>5. RetrievalTypes'
    BY <1>1, <2>1, <2>4 DEF RetrievalTypes
  <2>6. RetrievalPhases'
    BY <1>1, <1>3, <2>1 DEF RetrievalPhases
  <2>7. RetrievalMemo'
    BY <1>1, <1>3, <1>6, <2>1, <2>4 DEF RetrievalMemo, IdsAreTheLines, TalesAreOwn
  <2> QED BY <1>2, <2>5, <2>6, <2>7
<1> QED BY <1>5, <1>6

\* The answers of the gate and of the searches it stands beside.
LEMMA GathersRetrieval ==
  RetrievalInv /\ ((\E said \in GateSays : RouteAnswered(said)) \/ NormsFound \/ GatePassed \/ RawFound \/ Guessed)
      => RetrievalInv'
<1> SUFFICES ASSUME RetrievalInv,
                    (\E said \in GateSays : RouteAnswered(said)) \/ NormsFound \/ GatePassed \/ RawFound \/ Guessed
             PROVE  RetrievalInv'
  OBVIOUS
<1> USE DEF RetrievalInv
<1>1. setup' = setup /\ history' = history /\ memo' = memo /\ reinforced' = reinforced
  BY DEF RouteAnswered, NormsFound, GatePassed, RawFound, Guessed
<1>2. ASSUME NEW said \in GateSays, RouteAnswered(said) PROVE RetrievalInv'
  <2>1. /\ phase = "gate" /\ route' \in BOOLEAN /\ awaited' \subseteq awaited /\ phase' = phase /\ norms' = norms
        /\ raw' = raw /\ guess' = guess /\ tries' = tries /\ traced' = traced
    BY <1>2 DEF RouteAnswered, RetrievalPhases, Needed
  <2>2. RetrievalTypes'
    BY <1>1, <2>1 DEF RetrievalTypes
  <2>3. RetrievalPhases'
    BY <1>1, <2>1 DEF RetrievalPhases
  <2>4. RetrievalResults'
    BY <1>1, <2>1 DEF RetrievalResults
  <2>5. RetrievalMemo'
    BY <1>1, <2>1 DEF RetrievalMemo, IdsAreTheLines, Answering, TalesAreOwn
  <2> QED BY <2>2, <2>3, <2>4, <2>5
<1>3. CASE NormsFound
  <2>1. /\ phase = "gate" /\ route' = route /\ awaited' \subseteq awaited /\ phase' = phase
        /\ raw' = raw /\ guess' = guess /\ tries' = tries /\ traced' = traced
    BY <1>3 DEF NormsFound, RetrievalPhases
  <2>2. Searched(norms', Rules, FALSE)
    BY <1>3, SearchIs, NothingIs DEF NormsFound
  <2>3. RetrievalTypes'
    BY <1>1, <2>1 DEF RetrievalTypes
  <2>4. RetrievalPhases'
    BY <1>1, <2>1 DEF RetrievalPhases
  <2>5. RetrievalResults'
    BY <1>1, <2>1, <2>2 DEF RetrievalResults
  <2>6. RetrievalMemo'
    BY <1>1, <2>1 DEF RetrievalMemo, IdsAreTheLines, Answering, TalesAreOwn
  <2> QED BY <2>3, <2>4, <2>5, <2>6
<1>4. CASE GatePassed
  <2>1. /\ phase = "gate" /\ phase' = "history" /\ awaited' \subseteq {"raw", "hypothesis"} /\ tries' = 1
        /\ traced' = HitIds(norms) /\ route' = route /\ norms' = norms /\ raw' = raw /\ guess' = guess
    BY <1>4 DEF GatePassed, BeginHistory
  <2>2. RetrievalTypes'
    BY <1>1, <2>1 DEF RetrievalTypes, RetrievalResults, Searched, IsTrue
  <2>3. RetrievalPhases'
    BY <1>1, <2>1 DEF RetrievalPhases
  <2>4. RetrievalResults'
    BY <1>1, <2>1 DEF RetrievalResults
  <2>5. RetrievalMemo'
    BY <1>1, <2>1 DEF RetrievalMemo, IdsAreTheLines, Answering, TalesAreOwn
  <2> QED BY <2>2, <2>3, <2>4, <2>5
<1>5. CASE RawFound
  <2>1. /\ phase = "history" /\ route' = route /\ awaited' \subseteq awaited /\ phase' = phase
        /\ norms' = norms /\ guess' = guess /\ tries' = tries /\ traced' = traced
    BY <1>5 DEF RawFound, RetrievalPhases
  <2>2. Searched(raw', Tales, TRUE)
    BY <1>5, SearchIs DEF RawFound
  <2>3. RetrievalTypes'
    BY <1>1, <2>1 DEF RetrievalTypes
  <2>4. RetrievalPhases'
    BY <1>1, <2>1 DEF RetrievalPhases
  <2>5. RetrievalResults'
    BY <1>1, <2>1, <2>2 DEF RetrievalResults
  <2>6. RetrievalMemo'
    BY <1>1, <2>1 DEF RetrievalMemo, IdsAreTheLines, Answering, TalesAreOwn
  <2> QED BY <2>3, <2>4, <2>5, <2>6
<1>6. CASE Guessed
  <2>1. /\ phase = "history" /\ route' = route /\ awaited' \subseteq awaited /\ phase' = phase
        /\ norms' = norms /\ raw' = raw /\ guess' \in BOOLEAN /\ tries' = tries /\ traced' = traced
    BY <1>6 DEF Guessed, RetrievalPhases
  <2>2. RetrievalTypes'
    BY <1>1, <2>1 DEF RetrievalTypes
  <2>3. RetrievalPhases'
    BY <1>1, <2>1 DEF RetrievalPhases
  <2>4. RetrievalResults'
    BY <1>1, <2>1 DEF RetrievalResults
  <2>5. RetrievalMemo'
    BY <1>1, <2>1 DEF RetrievalMemo, IdsAreTheLines, Answering, TalesAreOwn
  <2> QED BY <2>2, <2>3, <2>4, <2>5
<1> QED BY <1>2, <1>3, <1>4, <1>5, <1>6

\* What is composed of the history, and the second search.
LEMMA ComposesRetrieval ==
  RetrievalInv /\ (HistoryFound \/ HydeFound \/ \E refined \in BOOLEAN : Checked(refined)) => RetrievalInv'
<1> SUFFICES ASSUME RetrievalInv, HistoryFound \/ HydeFound \/ \E refined \in BOOLEAN : Checked(refined)
             PROVE  RetrievalInv'
  OBVIOUS
<1> USE DEF RetrievalInv
<1>1. /\ IsTrue(raw) /\ IsScored(raw) /\ HitIds(raw) \subseteq Eligible(Tales, TRUE)
      /\ IsTrue(history) /\ HitIds(history) \subseteq Eligible(Tales, TRUE)
  BY DEF RetrievalResults, Searched
<1>2. CASE HistoryFound
  <2>1. /\ phase = "history" /\ awaited = {}
        /\ setup' = setup /\ awaited' = awaited /\ route' = route /\ norms' = norms /\ raw' = raw
        /\ guess' = guess /\ tries' = tries /\ reinforced' = reinforced
    BY <1>2 DEF HistoryFound
  <2>2. CASE guess
    <3>1. phase' = "hyde" /\ history' = history /\ memo' = memo /\ traced' = traced
      BY <1>2, <2>2 DEF HistoryFound
    <3>2. RetrievalTypes'
      BY <2>1, <3>1 DEF RetrievalTypes
    <3>3. RetrievalPhases'
      BY <2>1, <3>1 DEF RetrievalPhases
    <3>4. RetrievalResults'
      BY <2>1, <3>1 DEF RetrievalResults
    <3>5. RetrievalMemo'
      BY <2>1, <3>1 DEF RetrievalMemo, IdsAreTheLines, Answering, TalesAreOwn
    <3> QED BY <3>2, <3>3, <3>4, <3>5
  <2>3. CASE ~guess
    <3>1. PICK result \in {raw, history} : Composed(result)
      BY <1>2, <2>3 DEF HistoryFound
    <3>2. IsTrue(result) /\ HitIds(result) \subseteq Eligible(Tales, TRUE)
      BY <1>1, <3>1
    <3> QED BY <2>1, <3>1, <3>2, ComposedKeeps
  <2> QED BY <2>2, <2>3
<1>3. CASE HydeFound
  <2>1. /\ phase = "hyde"
        /\ setup' = setup /\ awaited' = awaited /\ route' = route /\ norms' = norms /\ raw' = raw
        /\ guess' = guess /\ tries' = tries /\ reinforced' = reinforced
    BY <1>3 DEF HydeFound
  <2>2. PICK result \in Answers(Tales, TRUE) : Composed(WithHyde(raw, result))
    BY <1>3 DEF HydeFound
  <2>3. IsTrue(result) /\ IsScored(result) /\ HitIds(result) \subseteq Eligible(Tales, TRUE)
    BY SearchIs DEF Searched
  <2> DEFINE both == WithHyde(raw, result)
  <2>4. IsTrue(both) /\ HitIds(both) = HitIds(raw) \cup HitIds(result)
    BY <1>1, <2>3, MergedIs
  <2>5. awaited = {}
    BY <2>1 DEF RetrievalPhases, RetrievalTypes
  <2>6. Composed(both)
    BY <2>2
  <2> HIDE DEF both
  <2>7. HitIds(both) \subseteq Eligible(Tales, TRUE)
    BY <1>1, <2>3, <2>4
  <2> QED BY <2>1, <2>4, <2>5, <2>6, <2>7, ComposedKeeps
<1>4. ASSUME NEW refined \in BOOLEAN, Checked(refined) PROVE RetrievalInv'
  <2>1. /\ phase = "check" /\ setup' = setup /\ route' = route /\ norms' = norms /\ history' = history
        /\ memo' = memo /\ traced' = traced /\ reinforced' = reinforced
    BY <1>4 DEF Checked
  <2>2. /\ setup.mode = "semantics" /\ tries = 1 /\ route /\ norms.block = <<>> /\ reinforced = {}
        /\ IsTrue(norms) /\ memo = Payload(norms, history) /\ HitIds(norms) \subseteq traced
        /\ HitIds(history) \subseteq traced
    <3>1. /\ tries = 1 /\ route /\ Payload(norms, history).block = <<>> /\ setup.mode = "semantics"
          /\ reinforced = {}
      BY <2>1 DEF RetrievalPhases
    <3>2. IsTrue(norms)
      BY DEF RetrievalResults, Searched
    <3>3. norms.block = <<>>
      BY <1>1, <3>1, <3>2, PayloadIs
    <3> QED BY <2>1, <3>1, <3>2, <3>3 DEF RetrievalMemo
  <2>3. CASE refined
    <3>1. /\ phase' = "history" /\ awaited' \subseteq {"raw", "hypothesis"} /\ tries' = 2 /\ raw' = Nothing
          /\ guess' = FALSE
      BY <1>4, <2>3 DEF Checked, BeginHistory
    <3>2. Searched(raw', Tales, TRUE)
      BY <3>1, NothingIs
    <3>3. RetrievalTypes'
      <4>1. {route', guess'} \subseteq BOOLEAN
        <5>1. route' = TRUE /\ guess' = FALSE
          BY <2>1, <2>2, <3>1
        <5>2. route' \in BOOLEAN /\ guess' \in BOOLEAN
          BY <5>1, Zenon
        <5> QED BY <5>2, Zenon
      <4> QED BY <2>1, <3>1, <4>1 DEF RetrievalTypes
    <3>4. RetrievalPhases'
      BY <2>1, <2>2, <3>1 DEF RetrievalPhases
    <3>5. RetrievalResults'
      BY <2>1, <3>2 DEF RetrievalResults
    <3>6. RetrievalMemo'
      BY <2>1, <2>2, <3>1 DEF RetrievalMemo, IdsAreTheLines, Answering, TalesAreOwn
    <3> QED BY <3>3, <3>4, <3>5, <3>6
  <2>4. CASE ~refined
    <3>1. phase' = "reinforce" /\ awaited' = awaited /\ tries' = tries /\ raw' = raw /\ guess' = guess
      BY <1>4, <2>4 DEF Checked
    <3>2. RetrievalTypes'
      BY <2>1, <3>1 DEF RetrievalTypes
    <3>3. RetrievalPhases'
      BY <2>1, <2>2, <3>1 DEF RetrievalPhases
    <3>4. RetrievalResults'
      BY <2>1, <3>1 DEF RetrievalResults
    <3>5. memo.ids = Lines(memo.block) /\ memo.ids \subseteq traced
      BY <1>1, <2>2, PayloadIs
    <3>6. RetrievalMemo'
      BY <2>1, <2>2, <3>1, <3>5 DEF RetrievalMemo, IdsAreTheLines, TalesAreOwn
    <3> QED BY <3>2, <3>3, <3>4, <3>6
  <2> QED BY <2>3, <2>4
<1> QED BY <1>2, <1>3, <1>4

\* The ends: an error, the reinforcement, a cancellation.
LEMMA EndsRetrieval ==
  RetrievalInv /\ (SearchFailed \/ (\E ok \in BOOLEAN : Reinforced(ok)) \/ RetrievalCancelled) => RetrievalInv'
<1> SUFFICES ASSUME RetrievalInv, SearchFailed \/ (\E ok \in BOOLEAN : Reinforced(ok)) \/ RetrievalCancelled
             PROVE  RetrievalInv'
  OBVIOUS
<1> USE DEF RetrievalInv
<1>1. /\ setup' = setup /\ route' = route /\ norms' = norms /\ raw' = raw /\ history' = history
      /\ guess' = guess /\ tries' = tries /\ phase' \in {"done", "cancelled"} /\ awaited' \subseteq awaited
  BY DEF SearchFailed, Reinforced, RetrievalCancelled
<1>2. phase \notin {"idle", "done", "cancelled"} /\ reinforced = {}
  <2>1. phase \notin {"idle", "done", "cancelled"}
    BY DEF SearchFailed, Reinforced, RetrievalCancelled, RetrievalPhases
  <2> QED BY <2>1 DEF RetrievalPhases
<1>3. RetrievalResults'
  BY <1>1 DEF RetrievalResults
<1>4. Silence.ids = {} /\ Silence.block = <<>> /\ Lines(<<>>) = {}
  BY NothingIs DEF Silence
<1>5. ASSUME awaited' = {} PROVE RetrievalPhases'
  BY <1>1, <1>2, <1>5 DEF RetrievalPhases
<1>6. CASE SearchFailed
  <2>1. phase' = "done" /\ awaited' = {} /\ memo' = Silence /\ traced' = {} /\ reinforced' = {}
    BY <1>2, <1>6 DEF SearchFailed
  <2>2. RetrievalTypes'
    BY <1>1, <1>4, <2>1 DEF RetrievalTypes
  <2>3. RetrievalMemo'
    BY <1>4, <2>1 DEF RetrievalMemo, IdsAreTheLines, TalesAreOwn
  <2> QED BY <1>3, <1>5, <2>1, <2>2, <2>3
<1>7. ASSUME NEW ok \in BOOLEAN, Reinforced(ok) PROVE RetrievalInv'
  <2>1. /\ phase = "reinforce" /\ phase' = "done" /\ memo' = memo /\ traced' = traced /\ awaited' = awaited
        /\ reinforced' \subseteq memo.ids
    BY <1>7 DEF Reinforced
  <2>2. awaited' = {}
    BY <2>1 DEF RetrievalPhases, RetrievalTypes
  <2>3. RetrievalTypes'
    BY <1>1, <2>1 DEF RetrievalTypes
  <2>4. RetrievalMemo'
    BY <1>1, <2>1 DEF RetrievalMemo, IdsAreTheLines, Answering, TalesAreOwn
  <2> QED BY <1>3, <1>5, <2>2, <2>3, <2>4
<1>8. CASE RetrievalCancelled
  <2>1. phase' = "cancelled" /\ awaited' = {} /\ memo' = Silence /\ traced' = traced /\ reinforced' = {}
    BY <1>2, <1>8 DEF RetrievalCancelled
  <2>2. RetrievalTypes'
    BY <1>1, <1>4, <2>1 DEF RetrievalTypes
  <2>3. RetrievalMemo'
    BY <1>4, <2>1 DEF RetrievalMemo, IdsAreTheLines, Answering, TalesAreOwn
  <2> QED BY <1>3, <1>5, <2>1, <2>2, <2>3
<1> QED BY <1>6, <1>7, <1>8

LEMMA RetrievalStep ==
  ASSUME RetrievalInv, [RetrievalNext]_retrievalVars
  PROVE  RetrievalInv'
<1>1. CASE UNCHANGED retrievalVars
  <2>1. UNCHANGED <<setup, phase, awaited, route, norms, raw, history, guess, tries, memo, traced, reinforced>>
    BY <1>1 DEF retrievalVars
  <2>2. RetrievalTypes'
    BY <2>1 DEF RetrievalInv, RetrievalTypes
  <2>3. RetrievalPhases'
    BY <2>1 DEF RetrievalInv, RetrievalPhases
  <2>4. RetrievalResults'
    BY <2>1 DEF RetrievalInv, RetrievalResults
  <2>5. RetrievalMemo'
    BY <2>1 DEF RetrievalInv, RetrievalMemo, IdsAreTheLines, Answering, TalesAreOwn
  <2> QED BY <2>2, <2>3, <2>4, <2>5 DEF RetrievalInv
<1>2. CASE RetrievalNext
  BY <1>2, CallsRetrieval, GathersRetrieval, ComposesRetrieval, EndsRetrieval DEF RetrievalNext
<1> QED BY <1>1, <1>2

-----------------------------------------------------------------------------
(* FileText: Texts that are put together                                    *)

\* Pieces are put together from the left.
LEMMA FlattenIs ==
  ASSUME NEW X, NEW s \in Seq(Seq(X)), Len(s) > 0
  PROVE  \E up \in [1..Len(s) -> Seq(X)] :
            /\ up[1] = s[1] /\ \A i \in 1..Len(s) : i # 1 => up[i] = up[i - 1] \o s[i]
            /\ FlattenSeq(s) = up[Len(s)]
<1> DEFINE n == Len(s)
           IsFlat(f, m) == f = [i \in 1..m |-> IF i = 1 THEN s[i] ELSE f[i - 1] \o s[i]]
<1>1. n \in Nat /\ n # 0 /\ \A i \in 1..n : s[i] \in Seq(X)
  OBVIOUS
<1>f. FlattenSeq(s) = (CHOOSE f : IsFlat(f, n))[n]
  BY <1>1 DEF FlattenSeq
<1> HIDE DEF n
<1>2. \A m \in 1..n : \E f \in [1..m -> Seq(X)] : IsFlat(f, m)
  <2> DEFINE Has(m) == \E f \in [1..m -> Seq(X)] : IsFlat(f, m)
             Bad == {m \in 1..n : ~Has(m)}
  <2> SUFFICES ASSUME Bad # {} PROVE FALSE
    OBVIOUS
  <2>1. Bad \in SUBSET Nat
    <3> HIDE DEF Has
    <3> QED BY <1>1
  <2>2. PICK m \in Bad : \A k \in Bad : m <= k
    <3> HIDE DEF Bad
    <3> QED BY <2>1, LeastOf
  <2>3. m \in 1..n /\ ~Has(m) /\ m \in Nat
    BY <2>1, <2>2
  <2>4. m # 1
    <3> SUFFICES ASSUME m = 1 PROVE FALSE
      OBVIOUS
    <3> DEFINE f == [k \in 1..1 |-> s[k]]
    <3>1. f \in [1..1 -> Seq(X)] /\ f[1] = s[1] /\ \A k \in 1..1 : k = 1
      BY <1>1
    <3>2. f = [k \in 1..1 |-> IF k = 1 THEN s[k] ELSE f[k - 1] \o s[k]]
      BY <3>1
    <3> HIDE DEF f
    <3> QED BY <2>3, <3>1, <3>2
  <2>5. m - 1 \in 1..n /\ Has(m - 1)
    <3>1. m - 1 \in 1..n /\ ~(m <= m - 1)
      BY <1>1, <2>3, <2>4
    <3> HIDE DEF Has
    <3> QED BY <2>2, <3>1
  <2>6. PICK f \in [1..(m - 1) -> Seq(X)] : IsFlat(f, m - 1)
    BY <2>5
  <2> DEFINE both == f[m - 1] \o s[m]
             g == [k \in 1..m |-> IF k = m THEN both ELSE f[k]]
  <2>7. g \in [1..m -> Seq(X)]
    <3>1. m - 1 \in 1..(m - 1)
      BY <1>1, <2>3, <2>4
    <3>2. f[m - 1] \in Seq(X) /\ s[m] \in Seq(X)
      BY <1>1, <2>3, <2>6, <3>1
    <3>3. f[m - 1] \o s[m] \in Seq(X)
      BY <3>2
    <3>4. \A k \in 1..m : k # m => k \in 1..(m - 1)
      BY <2>3
    <3> QED BY <2>6, <3>3, <3>4
  <2>8. ASSUME NEW k \in 1..m PROVE g[k] = IF k = 1 THEN s[k] ELSE g[k - 1] \o s[k]
    <3>1. CASE k = m
      <4>1. m - 1 \in 1..m /\ m - 1 # m
        BY <1>1, <2>3, <2>4
      <4>2. g[m] = f[m - 1] \o s[m] /\ g[m - 1] = f[m - 1]
        <5>1. m \in 1..m
          BY <2>3
        <5> HIDE DEF both
        <5>2. g[m] = both /\ g[m - 1] = f[m - 1]
          BY <4>1, <5>1
        <5> QED BY <5>2 DEF both
      <4> QED BY <2>4, <3>1, <4>2
    <3>2. CASE k # m
      <4>1. k \in 1..(m - 1) /\ g[k] = f[k]
        BY <2>3, <3>2
      <4>2. f[k] = IF k = 1 THEN s[k] ELSE f[k - 1] \o s[k]
        BY <2>6, <4>1
      <4>3. k # 1 => k - 1 \in 1..m /\ k - 1 # m /\ g[k - 1] = f[k - 1]
        <5>1. k # 1 => k - 1 \in 1..m /\ k - 1 # m
          BY <2>3, <4>1
        <5> QED BY <5>1
      <4> QED BY <4>1, <4>2, <4>3
    <3> QED BY <3>1, <3>2
  <2>9. g = [k \in 1..m |-> g[k]]
    OBVIOUS
  <2> HIDE DEF g
  <2>10. IsFlat(g, m)
    BY <2>8, <2>9
  <2> HIDE DEF IsFlat
  <2> QED BY <2>3, <2>7, <2>10
<1>3. n \in 1..n
  BY <1>1
<1> DEFINE up == CHOOSE f : IsFlat(f, n)
<1>4. IsFlat(up, n)
  <2>1. \E f : IsFlat(f, n)
    BY <1>2, <1>3
  <2> HIDE DEF IsFlat
  <2> QED BY <2>1
<1>5. FlattenSeq(s) = up[n]
  BY <1>f
<1>6. /\ DOMAIN up = 1..n /\ up = [i \in 1..n |-> up[i]]
      /\ \A k \in 1..n : up[k] = IF k = 1 THEN s[k] ELSE up[k - 1] \o s[k]
  <2> HIDE DEF up
  <2> QED BY <1>4
<1> HIDE DEF up
<1>7. \A m \in 1..n : up[m] \in Seq(X)
  <2> DEFINE Bad == {m \in 1..n : up[m] \notin Seq(X)}
  <2> SUFFICES ASSUME Bad # {} PROVE FALSE
    OBVIOUS
  <2>1. Bad \in SUBSET Nat
    BY <1>1
  <2>2. PICK m \in Bad : \A k \in Bad : m <= k
    <3> HIDE DEF Bad
    <3> QED BY <2>1, LeastOf
  <2>3. m \in 1..n /\ m \in Nat /\ up[m] \notin Seq(X)
    BY <2>1, <2>2
  <2>4. m # 1
    BY <1>1, <1>6, <2>3
  <2>5. m - 1 \in 1..n /\ ~(m <= m - 1)
    BY <1>1, <2>3, <2>4
  <2>6. up[m - 1] \in Seq(X)
    BY <2>2, <2>5
  <2>7. up[m] = up[m - 1] \o s[m] /\ s[m] \in Seq(X)
    BY <1>1, <1>6, <2>3, <2>4
  <2> QED BY <2>3, <2>6, <2>7
<1>8. up \in [1..n -> Seq(X)]
  BY <1>6, <1>7
<1>9. up[1] = s[1] /\ \A i \in 1..n : i # 1 => up[i] = up[i - 1] \o s[i]
  <2>1. 1 \in 1..n
    BY <1>1
  <2> QED BY <1>6, <2>1
<1> QED BY <1>5, <1>8, <1>9 DEF n

\* Texts are put together to texts.
LEMMA FlattenType ==
  ASSUME NEW X, NEW s \in Seq(Seq(X))
  PROVE  FlattenSeq(s) \in Seq(X)
<1>1. CASE Len(s) = 0
  <2>1. s = <<>>
    BY <1>1
  <2> QED BY <1>1, <2>1 DEF FlattenSeq
<1>2. CASE Len(s) # 0
  <2>1. Len(s) \in Nat /\ Len(s) > 0
    BY <1>2
  <2>2. \E up \in [1..Len(s) -> Seq(X)] :
            /\ up[1] = s[1] /\ \A i \in 1..Len(s) : i # 1 => up[i] = up[i - 1] \o s[i]
            /\ FlattenSeq(s) = up[Len(s)]
    BY <2>1, FlattenIs
  <2>3. PICK up \in [1..Len(s) -> Seq(X)] : FlattenSeq(s) = up[Len(s)]
    BY <2>2
  <2> DEFINE n == Len(s)
  <2>4. n \in 1..n
    BY <2>1
  <2> QED BY <2>3, <2>4
<1> QED BY <1>1, <1>2

\* An edit makes a text of a text.
LEMMA EditType ==
  ASSUME NEW text \in Seq(TextChars), NEW old \in Seq(TextChars), NEW new \in Seq(TextChars), NEW all
  PROVE  Edit(text, old, new, all).text \in Seq(TextChars)
<1>1. ASSUME NEW t \in Seq(TextChars) PROVE Crlf(t) \in Seq(TextChars)
  <2> DEFINE p == [i \in DOMAIN t |-> IF t[i] = "n" THEN <<"r", "n">> ELSE <<t[i]>>]
             S == Seq(TextChars)
  <2>1. <<"r", "n">> \in S
    BY TextAssumption
  <2>2. \A i \in DOMAIN t : <<t[i]>> \in S
    OBVIOUS
  <2>3. DOMAIN t = 1..Len(t) /\ Len(t) \in Nat
    OBVIOUS
  <2> HIDE DEF S
  <2>4. p \in [1..Len(t) -> S]
    BY <2>1, <2>2, <2>3
  <2> HIDE DEF p
  <2> DEFINE n == Len(t)
  <2>5. p \in [1..n -> S] /\ n \in Nat
    BY <2>3, <2>4
  <2> HIDE DEF n
  <2>6. p \in Seq(S)
    BY <2>5
  <2> QED BY <2>6, FlattenType DEF S, Crlf, p
<1>2. ASSUME NEW part, NEW places, NEW put \in Seq(TextChars)
      PROVE  Replaced(text, places, part, put) \in Seq(TextChars)
  <2> DEFINE Within(i) == \E q \in places : q <= i /\ i < q + Len(part)
             p == [i \in 1..(Len(text) + 1) |->
                     (IF i \in places THEN put ELSE <<>>)
                     \o (IF i > Len(text) \/ Within(i) THEN <<>> ELSE <<text[i]>>)]
             S == Seq(TextChars)
             n == Len(text)
  <2>1. ASSUME NEW i \in 1..(n + 1) PROVE p[i] \in S
    <3> DEFINE a == IF i \in places THEN put ELSE <<>>
               b == IF i > Len(text) \/ Within(i) THEN <<>> ELSE <<text[i]>>
    <3>1. a \in S
      OBVIOUS
    <3>2. b \in S
      <4>1. CASE i > n \/ Within(i)
        BY <4>1
      <4>2. CASE ~(i > n \/ Within(i))
        <5>1. i \in 1..n /\ text[i] \in TextChars
          BY <4>2
        <5>2. b = <<text[i]>>
          BY <4>2
        <5> HIDE DEF b
        <5> QED BY <5>1, <5>2
      <4> QED BY <4>1, <4>2
    <3> HIDE DEF a, b
    <3>3. a \o b \in S
      BY <3>1, <3>2
    <3> QED BY <3>3 DEF a, b
  <2>2. n \in Nat /\ p = [i \in 1..(n + 1) |-> p[i]]
    <3>1. n \in Nat
      OBVIOUS
    <3>2. p = [i \in 1..(n + 1) |-> p[i]]
      BY Zenon
    <3> QED BY <3>1, <3>2
  <2>3. Replaced(text, places, part, put) = FlattenSeq(p)
    BY DEF Replaced
  <2> HIDE DEF S, p, n
  <2>4. p \in [1..(n + 1) -> S]
    BY <2>1, <2>2
  <2>5. p \in Seq(S)
    BY <2>2, <2>4
  <2> QED BY <2>3, <2>5, FlattenType DEF S
<1>3. Crlf(new) \in Seq(TextChars)
  BY <1>1
<1> QED BY <1>2, <1>3 DEF Edit

-----------------------------------------------------------------------------
(* FileTools: The checkpoints of the file tools                             *)

\* What a checkpoint with its meta restores, and of which file.
CheckpointKept(id) == Loadable(id) /\ Restored(id) = was[id] /\ meta[id].path \in Paths

\* A checkpoint holds one of the contents the file is halves between.
Between(path) == \E id \in DOMAIN meta : meta[id].path = path /\ Restored(id) \in either[path]

OpForm == op = [step |-> op.step, id |-> op.id, path |-> op.path, next |-> op.next, payload |-> op.payload]

\* The mutation under way has the newest id, and its file as it found it.
OpOK ==
    op.step # "none" =>
        /\ OpForm /\ op.step \in {"content", "meta", "file"}
        /\ op.path \in Paths /\ op.id = Len(was) /\ op.id \in DOMAIN was
        /\ op.next.kind = "text" /\ was[op.id] = disk[op.path]
        /\ op.step # "file" => op.id \notin DOMAIN meta
        /\ op.step = "meta" /\ disk[op.path] # Absent =>
            op.id \in DOMAIN contentOf /\ contentOf[op.id] = disk[op.path] /\ op.payload = disk[op.path]
        /\ op.step = "file" => op.id \in DOMAIN meta /\ meta[op.id].path = op.path

CheckpointInv ==
    /\ disk = [p \in Paths |-> disk[p]] /\ either = [p \in Paths |-> either[p]]
    /\ \E S : was \in Seq(S)
    /\ DOMAIN meta \subseteq DOMAIN was /\ given \subseteq DOMAIN meta
    /\ \A id \in DOMAIN meta : CheckpointKept(id)
    /\ OpOK
    /\ \A path \in Paths : disk[path] = Torn => either[path] # {}
    /\ \A id \in DOMAIN meta : was[id] = Torn => either[meta[id].path] # {}
    /\ \A path \in Paths : either[path] # {} => Between(path)

\* What the invariant is for.
LEMMA CheckpointInvIsEnough == CheckpointInv => RestoreBringsBack
BY DEF CheckpointInv, RestoreBringsBack, CheckpointKept, Between

\* No checkpoint yet.
LEMMA FilesBegin == FileInit => CheckpointInv
<1> SUFFICES ASSUME FileInit PROVE CheckpointInv
  OBVIOUS
<1>1. \A p \in Paths : disk[p] # Torn /\ either[p] = {}
  BY DEF FileInit, Absent, Torn
<1>2. OpOK
  BY DEF FileInit, NoOp, OpOK
<1>3. was \in Seq({}) /\ DOMAIN meta = {}
  BY DEF FileInit
<1>4. disk = [p \in Paths |-> disk[p]] /\ either = [p \in Paths |-> either[p]] /\ given = {}
  BY DEF FileInit
<1> QED BY <1>1, <1>2, <1>3, <1>4 DEF CheckpointInv

\* What a checkpoint restores stays as it is while its meta and its content do.
LEMMA KeptStays ==
  ASSUME NEW id \in DOMAIN meta, CheckpointKept(id), id \in DOMAIN meta', meta'[id] = meta[id],
         id \in DOMAIN contentOf => id \in DOMAIN contentOf' /\ contentOf'[id] = contentOf[id],
         was'[id] = was[id]
  PROVE  CheckpointKept(id)' /\ Restored(id)' = Restored(id)
BY DEF CheckpointKept, Loadable, Restored

\* The ids, the file of an id, and what it restores, if only the disk changes.
LEMMA OneFileChanges ==
  ASSUME CheckpointInv, NEW path \in Paths, NEW next,
         disk' = [disk EXCEPT ![path] = next], OpOK', UNCHANGED <<meta, was, contentOf>>,
         given' \subseteq DOMAIN meta,
         \/ either' = either /\ (next = Torn => either[path] # {})
         \/ /\ \E halves : either' = [either EXCEPT ![path] = halves]
            /\ either[path] # {} => Between(path)'
            /\ either'[path] # {} /\ Between(path)'
  PROVE  CheckpointInv'
<1> USE DEF CheckpointInv
<1>1. disk' = [p \in Paths |-> disk'[p]] /\ either' = [p \in Paths |-> either'[p]]
  OBVIOUS
<1>2. \A id \in DOMAIN meta : CheckpointKept(id)' /\ Restored(id)' = Restored(id)
  BY KeptStays
<1>3. \A p \in Paths : p # path => disk'[p] = disk[p] /\ either'[p] = either[p]
  OBVIOUS
<1>4. ASSUME NEW p \in Paths, p # path \/ either' = either PROVE (either'[p] # {} => Between(p)')
  BY <1>2, <1>3, <1>4 DEF Between
<1>5. ASSUME NEW p \in Paths, disk'[p] = Torn PROVE either'[p] # {}
  BY <1>3, <1>5
<1>6. ASSUME NEW id \in DOMAIN meta, was[id] = Torn PROVE either'[meta[id].path] # {}
  BY <1>3, <1>6 DEF CheckpointKept
<1>7. \A p \in Paths : either'[p] # {} => Between(p)'
  BY <1>4
<1> QED BY <1>1, <1>2, <1>5, <1>6, <1>7

\* A call begins: what the file holds is noted.
LEMMA MutateStep ==
  ASSUME CheckpointInv, NEW path \in Paths, NEW t, Mutate(path, Text(t)) PROVE CheckpointInv'
<1>1. PICK S : was \in Seq(S)
  BY DEF CheckpointInv
<1> DEFINE x == disk[path]
           T == S \cup {x}
<1>2. was \in Seq(T) /\ x \in T
  BY <1>1
<1>3. was' = Append(was, x) /\ UNCHANGED <<disk, contentOf, meta, given, either>>
  BY DEF Mutate
<1> HIDE DEF x, T
<1>4. /\ was' \in Seq(T) /\ Len(was') = Len(was) + 1 /\ was'[Len(was) + 1] = x
      /\ \A i \in 1..Len(was) : was'[i] = was[i]
      /\ DOMAIN was = 1..Len(was) /\ DOMAIN was' = 1..(Len(was) + 1) /\ Len(was) \in Nat
  BY <1>2, <1>3, AppendProperties
<1>5. \A id \in DOMAIN meta : CheckpointKept(id)' /\ Restored(id)' = Restored(id) /\ was'[id] = was[id]
  BY <1>3, <1>4, KeptStays DEF CheckpointInv
<1>6. OpOK'
  <2>1. op' = [step |-> IF disk[path] = Absent THEN "meta" ELSE "content",
               id |-> Len(was) + 1, path |-> path, next |-> Text(t), payload |-> Absent]
    BY DEF Mutate
  <2>2. Text(t).kind = "text"
    BY DEF Text
  <2>3. Len(was) + 1 \notin DOMAIN meta
    BY <1>4 DEF CheckpointInv
  <2>4. Len(was) + 1 \in DOMAIN was'
    BY <1>4
  <2> QED BY <2>1, <2>2, <2>3, <2>4, <1>3, <1>4 DEF OpOK, OpForm, x
<1>7. \A p \in Paths : either'[p] # {} => Between(p)'
  BY <1>3, <1>5 DEF CheckpointInv, Between
<1>8. DOMAIN meta' \subseteq DOMAIN was'
  BY <1>3, <1>4 DEF CheckpointInv
<1> QED BY <1>3, <1>4, <1>5, <1>6, <1>7, <1>8 DEF CheckpointInv

\* The content is saved of the file as the call found it.
LEMMA SaveContentStep == ASSUME CheckpointInv, SaveContent PROVE CheckpointInv'
<1> DEFINE x == disk[op.path]
<1>1. /\ op.step = "content" /\ op' = [op EXCEPT !.step = "meta", !.payload = x]
      /\ contentOf' = [i \in DOMAIN contentOf \cup {op.id} |-> IF i = op.id THEN x ELSE contentOf[i]]
      /\ UNCHANGED <<disk, meta, given, was, either>>
  BY DEF SaveContent
<1>2. OpForm /\ OpOK /\ op.id \notin DOMAIN meta
  BY <1>1 DEF CheckpointInv, OpOK
<1>3. op' = [step |-> "meta", id |-> op.id, path |-> op.path, next |-> op.next, payload |-> x]
  BY <1>1, <1>2 DEF OpForm
<1>4. \A id \in DOMAIN meta : CheckpointKept(id)' /\ Restored(id)' = Restored(id)
  BY <1>1, <1>2, KeptStays DEF CheckpointInv
<1>5. OpOK'
  BY <1>1, <1>2, <1>3 DEF OpOK, OpForm
<1>6. \A p \in Paths : either'[p] # {} => Between(p)'
  BY <1>1, <1>4 DEF CheckpointInv, Between
<1> QED BY <1>1, <1>4, <1>5, <1>6 DEF CheckpointInv

\* With its meta the checkpoint can be loaded.
LEMMA SaveMetaStep == ASSUME CheckpointInv, SaveMeta PROVE CheckpointInv'
<1> DEFINE new == [path |-> op.path, existed |-> disk[op.path] # Absent, sum |-> op.payload]
<1>1. /\ op.step = "meta" /\ op' = [op EXCEPT !.step = "file"]
      /\ meta' = [i \in DOMAIN meta \cup {op.id} |-> IF i = op.id THEN new ELSE meta[i]]
      /\ UNCHANGED <<disk, contentOf, given, was, either>>
  BY DEF SaveMeta
<1>2. /\ OpForm /\ op.id \notin DOMAIN meta /\ op.id \in DOMAIN was /\ op.path \in Paths
      /\ op.id = Len(was) /\ op.next.kind = "text" /\ was[op.id] = disk[op.path]
      /\ disk[op.path] # Absent =>
            op.id \in DOMAIN contentOf /\ contentOf[op.id] = disk[op.path] /\ op.payload = disk[op.path]
  BY <1>1 DEF CheckpointInv, OpOK
<1>3. op' = [step |-> "file", id |-> op.id, path |-> op.path, next |-> op.next, payload |-> op.payload]
  BY <1>1, <1>2 DEF OpForm
<1>4. /\ new.path = op.path /\ new.sum = op.payload
      /\ new.existed <=> disk[op.path] # Absent
  OBVIOUS
<1> HIDE DEF new
<1>5. \A id \in DOMAIN meta : CheckpointKept(id)' /\ Restored(id)' = Restored(id) /\ meta'[id] = meta[id] /\ id \in DOMAIN meta'
  BY <1>1, <1>2, KeptStays DEF CheckpointInv
<1>6. op.id \in DOMAIN meta' /\ meta'[op.id] = new /\ DOMAIN meta' = DOMAIN meta \cup {op.id}
  BY <1>1
<1>7. ASSUME NEW id, id = op.id PROVE CheckpointKept(id)'
  <2>1. CASE disk[op.path] = Absent
    BY <2>1, <1>1, <1>2, <1>4, <1>6, <1>7 DEF CheckpointKept, Loadable, Restored
  <2>2. CASE disk[op.path] # Absent
    BY <2>2, <1>1, <1>2, <1>4, <1>6, <1>7 DEF CheckpointKept, Loadable, Restored
  <2> QED BY <2>1, <2>2
<1>8. OpOK'
  BY <1>1, <1>2, <1>3, <1>4, <1>6 DEF OpOK, OpForm
<1>9. \A p \in Paths : either'[p] # {} => Between(p)'
  BY <1>1, <1>5 DEF CheckpointInv, Between
<1>10. ASSUME NEW id \in DOMAIN meta', was'[id] = Torn PROVE either'[meta'[id].path] # {}
  <2>1. CASE id \in DOMAIN meta
    BY <2>1, <1>1, <1>5, <1>10 DEF CheckpointInv
  <2>2. CASE id = op.id
    <3>1. meta'[id].path = op.path /\ disk[op.path] = Torn
      BY <2>2, <1>1, <1>2, <1>4, <1>6, <1>10
    <3> QED BY <3>1, <1>1, <1>2 DEF CheckpointInv
  <2> QED BY <2>1, <2>2, <1>6
<1>11. DOMAIN meta' \subseteq DOMAIN was' /\ given' \subseteq DOMAIN meta'
  BY <1>1, <1>2, <1>6 DEF CheckpointInv
<1>12. \A id \in DOMAIN meta' : CheckpointKept(id)'
  BY <1>5, <1>6, <1>7
<1>13. /\ disk' = [p \in Paths |-> disk'[p]] /\ either' = [p \in Paths |-> either'[p]]
       /\ \E S : was' \in Seq(S)
       /\ \A path \in Paths : disk'[path] = Torn => either'[path] # {}
  BY <1>1 DEF CheckpointInv
<1> QED BY <1>8, <1>9, <1>10, <1>11, <1>12, <1>13 DEF CheckpointInv

\* The file is rewritten whole.
LEMMA PutFileStep == ASSUME CheckpointInv, PutFile PROVE CheckpointInv'
<1>1. /\ op.step = "file" /\ op' = NoOp /\ disk' = [disk EXCEPT ![op.path] = op.next]
      /\ given' = given \cup {op.id} /\ UNCHANGED <<contentOf, meta, was, either>>
  BY DEF PutFile
<1>2. op.path \in Paths /\ op.next.kind = "text" /\ op.id \in DOMAIN meta
  BY <1>1 DEF CheckpointInv, OpOK
<1>3. op.next # Torn
  BY <1>2 DEF Torn
<1>4. OpOK'
  BY <1>1 DEF OpOK, NoOp
<1>5. given' \subseteq DOMAIN meta
  BY <1>1, <1>2 DEF CheckpointInv
<1> QED BY <1>1, <1>2, <1>3, <1>4, <1>5, OneFileChanges

\* A file that is halves is between what it was and what it was to be.
LEMMA TearStep ==
  ASSUME CheckpointInv, NEW path \in Paths, NEW next, Tear(path, next), OpOK', UNCHANGED <<meta, was, contentOf, given>>,
         \E id \in DOMAIN meta : meta[id].path = path /\ Restored(id) \in {disk[path], next}
  PROVE  CheckpointInv'
<1>1. disk' = [disk EXCEPT ![path] = Torn]
  BY DEF Tear
<1>2. either = [p \in Paths |-> either[p]]
  BY DEF CheckpointInv
<1>3. \A id \in DOMAIN meta : Restored(id)' = Restored(id)
  BY KeptStays DEF CheckpointInv
<1>4. either' = [either EXCEPT ![path] = IF disk[path] = Torn THEN either[path] \cup {next} ELSE {disk[path], next}]
  BY <1>2 DEF Tear
<1>5. either'[path] # {} /\ (Between(path))'
  <2>1. CASE disk[path] = Torn
    <3>1. either'[path] = either[path] \cup {next}
      BY <2>1, <1>2, <1>4
    <3>2. Between(path)
      BY <2>1 DEF CheckpointInv
    <3> QED BY <3>1, <3>2, <1>3 DEF Between
  <2>2. CASE disk[path] # Torn
    <3>1. either'[path] = {disk[path], next}
      BY <2>2, <1>2, <1>4
    <3> QED BY <3>1, <1>3 DEF Between
  <2> QED BY <2>1, <2>2
<1>6. given' \subseteq DOMAIN meta
  BY DEF CheckpointInv
<1> QED BY <1>1, <1>4, <1>5, <1>6, OneFileChanges

\* A write that breaks leaves the checkpoint of its call, or no meta of it.
LEMMA BreaksStep == ASSUME CheckpointInv, Breaks PROVE CheckpointInv'
<1>1. op.step # "none" /\ op' = NoOp /\ UNCHANGED <<meta, given, was>>
  BY DEF Breaks
<1>2. OpOK /\ OpOK'
  BY <1>1 DEF OpOK, NoOp, CheckpointInv
<1>3. CASE op.step = "file" /\ Tear(op.path, op.next)
  <2>1. contentOf' = contentOf
    BY <1>3 DEF Breaks
  <2>2. op.path \in Paths /\ op.id \in DOMAIN meta /\ meta[op.id].path = op.path /\ was[op.id] = disk[op.path]
    BY <1>2, <1>3 DEF OpOK
  <2>3. Restored(op.id) = disk[op.path]
    BY <2>2 DEF CheckpointInv, CheckpointKept
  <2> QED BY <2>1, <2>2, <2>3, <1>1, <1>2, <1>3, TearStep
<1>4. CASE UNCHANGED <<disk, either>>
  <2>1. \/ contentOf' = contentOf
        \/ /\ op.step = "content"
           /\ contentOf' = [i \in DOMAIN contentOf \cup {op.id} |-> IF i = op.id THEN Torn ELSE contentOf[i]]
    BY DEF Breaks
  <2>2. op.step = "content" => op.id \notin DOMAIN meta
    BY <1>2 DEF OpOK
  <2>3. \A id \in DOMAIN meta : CheckpointKept(id)' /\ Restored(id)' = Restored(id)
    BY <2>1, <2>2, <1>1, KeptStays DEF CheckpointInv
  <2>4. \A p \in Paths : either'[p] # {} => Between(p)'
    BY <2>3, <1>1, <1>4 DEF CheckpointInv, Between
  <2> QED BY <2>3, <2>4, <1>1, <1>2, <1>4 DEF CheckpointInv
<1> QED BY <1>3, <1>4 DEF Breaks

\* A restore brings the file back, or tears it between now and then.
LEMMA RestoreStep ==
  ASSUME CheckpointInv, NEW id, Restore(id) \/ RestoreBreaks(id) PROVE CheckpointInv'
<1>1. /\ op.step = "none" /\ Loadable(id) /\ UNCHANGED <<contentOf, meta, op, given, was>>
  BY DEF Restore, RestoreBreaks
<1>2. id \in DOMAIN meta /\ CheckpointKept(id) /\ meta[id].path \in Paths /\ Restored(id) = was[id]
  BY <1>1 DEF Loadable, CheckpointKept, CheckpointInv
<1>3. OpOK'
  BY <1>1 DEF OpOK
<1>4. CASE Restore(id)
  <2>1. disk' = [disk EXCEPT ![meta[id].path] = Restored(id)] /\ either' = either
    BY <1>4 DEF Restore
  <2>2. Restored(id) = Torn => either[meta[id].path] # {}
    BY <1>2 DEF CheckpointInv
  <2>3. given' \subseteq DOMAIN meta
    BY <1>1 DEF CheckpointInv
  <2> QED BY <2>1, <2>2, <2>3, <1>1, <1>2, <1>3, OneFileChanges
<1>5. CASE RestoreBreaks(id)
  <2>1. Tear(meta[id].path, Restored(id))
    BY <1>5 DEF RestoreBreaks
  <2> QED BY <2>1, <1>1, <1>2, <1>3, TearStep
<1> QED BY <1>4, <1>5

\* The shell's writes touch no checkpoint.
LEMMA ShellWritesStep ==
  ASSUME CheckpointInv, NEW path \in Paths, ShellWrites(path) PROVE CheckpointInv'
<1>1. PICK t \in FileContents : disk' = [disk EXCEPT ![path] = Text(t)]
  BY DEF ShellWrites
<1>2. op.step = "none" /\ UNCHANGED <<contentOf, meta, op, given, was, either>>
  BY DEF ShellWrites
<1>3. Text(t) # Torn
  <2>1. Text(t).kind = "text" /\ Torn.kind = "torn"
    BY DEF Text, Torn
  <2> QED BY <2>1
<1>4. OpOK' /\ given' \subseteq DOMAIN meta
  BY <1>2 DEF OpOK, CheckpointInv
<1> QED BY <1>1, <1>2, <1>3, <1>4, OneFileChanges

\* Whatever a file tool does keeps the invariant.
LEMMA FilesStep == CheckpointInv /\ [FileNext]_fileVars => CheckpointInv'
<1> SUFFICES ASSUME CheckpointInv, [FileNext]_fileVars PROVE CheckpointInv'
  OBVIOUS
<1>1. CASE UNCHANGED fileVars
  BY <1>1 DEF fileVars, CheckpointInv, OpOK, OpForm, CheckpointKept, Loadable, Restored, Between
<1>2. ASSUME NEW path \in Paths, WriteFile(path) \/ EditFile(path) PROVE CheckpointInv'
  <2>1. \E t : Mutate(path, Text(t))
    BY <1>2 DEF WriteFile, EditFile
  <2> QED BY <2>1, MutateStep
<1>3. ASSUME NEW path \in Paths, ShellWrites(path) PROVE CheckpointInv'
  BY <1>3, ShellWritesStep
<1>4. CASE SaveContent \/ SaveMeta \/ PutFile \/ Breaks
  BY <1>4, SaveContentStep, SaveMetaStep, PutFileStep, BreaksStep
<1>5. ASSUME NEW id \in CheckpointIds, Restore(id) \/ RestoreBreaks(id) PROVE CheckpointInv'
  BY <1>5, RestoreStep
<1> QED BY <1>1, <1>2, <1>3, <1>4, <1>5 DEF FileNext

-----------------------------------------------------------------------------
(* FileTools: What files hold                                               *)

FileStates == [kind : {"absent", "torn"}] \cup [kind : {"text"}, text : Seq(TextChars)]

\* What files hold, held or are to hold, and what is counted.
FileTypes ==
    /\ disk \in [Paths -> FileStates] /\ \A id \in DOMAIN was : was[id] \in FileStates
    /\ DOMAIN contentOf \subseteq CheckpointIds /\ Len(was) <= MaxCheckpoints
    /\ op.step \in {"none", "content", "meta", "file"} /\ (op.step # "none" => op.next \in FileStates)
    /\ DOMAIN either = Paths /\ breaks \in 0..MaxBreaks

\* What the types are for.
LEMMA FilesAreTyped == CheckpointInv /\ FileTypes => FileTypeOK
<1> SUFFICES ASSUME CheckpointInv, FileTypes PROVE FileTypeOK
  OBVIOUS
<1>1. DOMAIN was \subseteq CheckpointIds
  <2>1. PICK S : was \in Seq(S)
    BY DEF CheckpointInv
  <2>2. DOMAIN was = 1..Len(was) /\ Len(was) \in Nat /\ Len(was) <= MaxCheckpoints /\ MaxCheckpoints \in Nat
    BY <2>1, FileToolsAssumption DEF FileTypes
  <2> QED BY <2>2 DEF CheckpointIds
<1> QED BY <1>1 DEF CheckpointInv, FileTypes, FileTypeOK, FileStates

\* There is no file.
LEMMA FileTypesBegin == FileInit => FileTypes
<1> SUFFICES ASSUME FileInit PROVE FileTypes
  OBVIOUS
<1>1. Absent \in FileStates /\ DOMAIN was = {} /\ Len(was) = 0 /\ op.step = "none" /\ DOMAIN contentOf = {}
  BY DEF FileInit, Absent, FileStates, NoOp
<1>2. disk \in [Paths -> FileStates] /\ breaks \in 0..MaxBreaks /\ DOMAIN either = Paths /\ 0 <= MaxCheckpoints
  BY <1>1, FileToolsAssumption DEF FileInit
<1> QED BY <1>1, <1>2 DEF FileTypes

\* A call notes what its file holds, and what it is to hold.
LEMMA MutateTypes ==
  ASSUME CheckpointInv, FileTypes, NEW path \in Paths, NEW t \in Seq(TextChars), Mutate(path, Text(t))
  PROVE  FileTypes'
<1>1. PICK S : was \in Seq(S)
  BY DEF CheckpointInv
<1> DEFINE x == disk[path]
           T == S \cup {x}
<1>2. was \in Seq(T) /\ x \in T /\ x \in FileStates
  BY <1>1 DEF FileTypes
<1>3. /\ was' = Append(was, x) /\ UNCHANGED <<disk, contentOf, either, breaks>>
      /\ Len(was) + 1 \in CheckpointIds /\ op'.step \in {"meta", "content"} /\ op'.next = Text(t)
  BY DEF Mutate
<1> HIDE DEF x, T
<1>4. /\ Len(was') = Len(was) + 1 /\ was'[Len(was) + 1] = x /\ \A i \in 1..Len(was) : was'[i] = was[i]
      /\ DOMAIN was = 1..Len(was) /\ DOMAIN was' = 1..(Len(was) + 1) /\ Len(was) \in Nat
  BY <1>2, <1>3, AppendProperties
<1>5. ASSUME NEW id \in DOMAIN was' PROVE was'[id] \in FileStates
  <2>1. CASE id \in 1..Len(was)
    BY <2>1, <1>4 DEF FileTypes
  <2>2. CASE id = Len(was) + 1
    BY <2>2, <1>2, <1>4
  <2> QED BY <2>1, <2>2, <1>4
<1>6. Len(was') <= MaxCheckpoints
  <2>1. Len(was) + 1 <= MaxCheckpoints
    BY <1>3, <1>4, FileToolsAssumption DEF CheckpointIds
  <2> QED BY <2>1, <1>4
<1>7. Text(t) \in FileStates
  BY DEF Text, FileStates
<1> QED BY <1>3, <1>5, <1>6, <1>7 DEF FileTypes

\* One file gets what a file can hold.
LEMMA DiskTypes ==
  ASSUME FileTypes, NEW path \in Paths, NEW next \in FileStates, disk' = [disk EXCEPT ![path] = next]
  PROVE  disk' \in [Paths -> FileStates]
BY DEF FileTypes

\* Whatever the tools do, files hold texts or halves.
LEMMA FileTypesStep ==
  ASSUME CheckpointInv, FileTypes, [FileNext]_fileVars
  PROVE  FileTypes'
<1>0. Torn \in FileStates /\ \A t \in FileContents : t \in Seq(TextChars) /\ Text(t) \in FileStates
  BY FileToolsAssumption DEF Torn, Text, FileStates
<1>m. MaxCheckpoints \in Nat /\ MaxBreaks \in Nat /\ DOMAIN was \subseteq CheckpointIds
  <2>1. PICK S : was \in Seq(S)
    BY DEF CheckpointInv
  <2>2. DOMAIN was = 1..Len(was) /\ Len(was) \in Nat /\ Len(was) <= MaxCheckpoints /\ MaxCheckpoints \in Nat
    BY <2>1, FileToolsAssumption DEF FileTypes
  <2> QED BY <2>2, FileToolsAssumption DEF CheckpointIds
<1>1. CASE UNCHANGED fileVars
  BY <1>1 DEF fileVars, FileTypes
<1>2. ASSUME NEW path \in Paths, WriteFile(path) PROVE FileTypes'
  BY <1>0, <1>2, MutateTypes DEF WriteFile
<1>3. ASSUME NEW path \in Paths, EditFile(path) PROVE FileTypes'
  <2>1. disk[path] \in FileStates /\ disk[path].kind = "text"
    BY <1>3 DEF EditFile, FileTypes
  <2>2. disk[path].text \in Seq(TextChars)
    BY <2>1 DEF FileStates
  <2>3. PICK r \in Replacements, all \in BOOLEAN : Mutate(path, Text(Edit(disk[path].text, r[1], r[2], all).text))
    BY <1>3 DEF EditFile
  <2>4. r[1] \in Seq(TextChars) /\ r[2] \in Seq(TextChars)
    BY FileToolsAssumption
  <2>5. Edit(disk[path].text, r[1], r[2], all).text \in Seq(TextChars)
    BY <2>2, <2>4, EditType
  <2> QED BY <2>3, <2>5, MutateTypes
<1>4. ASSUME NEW path \in Paths, ShellWrites(path) PROVE FileTypes'
  <2>1. PICK t \in FileContents : disk' = [disk EXCEPT ![path] = Text(t)]
    BY <1>4 DEF ShellWrites
  <2>2. disk' \in [Paths -> FileStates]
    BY <1>0, <2>1, DiskTypes
  <2>3. UNCHANGED <<contentOf, op, was, either, breaks>>
    BY <1>4 DEF ShellWrites
  <2> QED BY <2>2, <2>3 DEF FileTypes
<1>5. CASE SaveContent
  <2>1. /\ op.step = "content" /\ op' = [op EXCEPT !.step = "meta", !.payload = disk[op.path]]
        /\ DOMAIN contentOf' = DOMAIN contentOf \cup {op.id} /\ UNCHANGED <<disk, was, either, breaks>>
    BY <1>5 DEF SaveContent
  <2>2. OpForm /\ op.id \in DOMAIN was /\ op.next \in FileStates
    BY <2>1 DEF CheckpointInv, OpOK, FileTypes
  <2>3. op'.step = "meta" /\ op'.next = op.next
    BY <2>1, <2>2 DEF OpForm
  <2> QED BY <1>m, <2>1, <2>2, <2>3 DEF FileTypes
<1>6. CASE SaveMeta
  <2>1. op.step = "meta" /\ op' = [op EXCEPT !.step = "file"] /\ UNCHANGED <<disk, contentOf, was, either, breaks>>
    BY <1>6 DEF SaveMeta
  <2>2. OpForm /\ op.next \in FileStates
    BY <2>1 DEF CheckpointInv, OpOK, FileTypes
  <2>3. op'.step = "file" /\ op'.next = op.next
    BY <2>1, <2>2 DEF OpForm
  <2> QED BY <2>1, <2>2, <2>3 DEF FileTypes
<1>7. CASE PutFile
  <2>1. /\ op.step = "file" /\ op' = NoOp /\ disk' = [disk EXCEPT ![op.path] = op.next]
        /\ UNCHANGED <<contentOf, was, either, breaks>>
    BY <1>7 DEF PutFile
  <2>2. op.path \in Paths /\ op.next \in FileStates
    BY <2>1 DEF CheckpointInv, OpOK, FileTypes
  <2>3. disk' \in [Paths -> FileStates]
    BY <2>1, <2>2, DiskTypes
  <2> QED BY <2>1, <2>3 DEF FileTypes, NoOp
<1>8. ASSUME NEW path \in Paths, NEW next, Tear(path, next)
      PROVE  disk' \in [Paths -> FileStates] /\ DOMAIN either' = Paths
  BY <1>0, <1>8, DiskTypes DEF Tear, FileTypes
<1>9. CASE Breaks
  <2>1. /\ op.step # "none" /\ op' = NoOp /\ breaks < MaxBreaks /\ breaks' = breaks + 1 /\ was' = was
        /\ \/ Tear(op.path, op.next)
           \/ UNCHANGED <<disk, either>>
        /\ DOMAIN contentOf' \subseteq DOMAIN contentOf \cup {op.id}
    BY <1>9 DEF Breaks
  <2>2. op.path \in Paths /\ op.id \in DOMAIN was
    BY <2>1 DEF CheckpointInv, OpOK
  <2>3. disk' \in [Paths -> FileStates] /\ DOMAIN either' = Paths
    BY <2>1, <2>2, <1>8 DEF FileTypes
  <2>4. breaks' \in 0..MaxBreaks
    BY <2>1, <1>m DEF FileTypes
  <2> QED BY <2>1, <2>2, <2>3, <2>4, <1>m DEF FileTypes, NoOp
<1>10. ASSUME NEW id \in CheckpointIds, Restore(id) \/ RestoreBreaks(id) PROVE FileTypes'
  <2>1. Loadable(id) /\ UNCHANGED <<contentOf, op, was>>
    BY <1>10 DEF Restore, RestoreBreaks
  <2>2. meta[id].path \in Paths /\ Restored(id) = was[id] /\ id \in DOMAIN was
    BY <2>1 DEF Loadable, CheckpointInv, CheckpointKept
  <2>3. Restored(id) \in FileStates
    BY <2>2 DEF FileTypes
  <2>4. CASE Restore(id)
    <3>1. disk' = [disk EXCEPT ![meta[id].path] = Restored(id)] /\ UNCHANGED <<either, breaks>>
      BY <2>4 DEF Restore
    <3>2. disk' \in [Paths -> FileStates]
      BY <2>2, <2>3, <3>1, DiskTypes
    <3> QED BY <2>1, <3>1, <3>2 DEF FileTypes
  <2>5. CASE RestoreBreaks(id)
    <3>1. Tear(meta[id].path, Restored(id)) /\ breaks < MaxBreaks /\ breaks' = breaks + 1
      BY <2>5 DEF RestoreBreaks
    <3>2. disk' \in [Paths -> FileStates] /\ DOMAIN either' = Paths
      BY <2>2, <3>1, <1>8
    <3>3. breaks' \in 0..MaxBreaks
      BY <3>1, <1>m DEF FileTypes
    <3> QED BY <2>1, <3>2, <3>3 DEF FileTypes
  <2> QED BY <1>10, <2>4, <2>5
<1> QED BY <1>1, <1>2, <1>3, <1>4, <1>5, <1>6, <1>7, <1>9, <1>10 DEF FileNext
=============================================================================
