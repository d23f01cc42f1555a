----------------------------- MODULE Turn_proofs -----------------------------
(***************************************************************************)
(* Turns of the main loop and the queues behind them: no message is lost   *)
(* or committed twice, and the memory engine gets the turns in their       *)
(* order.                                                                  *)
(***************************************************************************)
EXTENDS MCTurn, SequenceTheorems, TLAPS

-----------------------------------------------------------------------------
(* Sequences of numbers: in order, but for the members of free, which may  *)
(* come at any place.                                                      *)

Ordered(s, free) == \A i, j \in DOMAIN s : i < j => s[i] < s[j] \/ s[j] \in free
Precedes(s, t, free) == \A i \in DOMAIN s, j \in DOMAIN t : s[i] < t[j] \/ t[j] \in free

(***************************************************************************)
(* What is put after older texts comes after them, and more exceptions     *)
(* leave more in order.                                                    *)
(***************************************************************************)
LEMMA OrderedConcat ==
  ASSUME NEW r \in Seq(Nat), NEW s \in Seq(Nat), NEW t \in Seq(Nat), NEW free
  PROVE  /\ Ordered(s, free) /\ Ordered(t, free) /\ Precedes(s, t, free) => Ordered(s \o t, free)
         /\ Precedes(r, s, free) /\ Precedes(r, t, free) => Precedes(r, s \o t, free)
         /\ Precedes(s, r, free) /\ Precedes(t, r, free) => Precedes(s \o t, r, free)
<1>1. /\ s \o t \in Seq(Nat) /\ DOMAIN (s \o t) = 1 .. Len(s) + Len(t)
      /\ DOMAIN s = 1 .. Len(s) /\ DOMAIN t = 1 .. Len(t) /\ DOMAIN r = 1 .. Len(r)
      /\ Len(s) \in Nat /\ Len(t) \in Nat
      /\ \A i \in DOMAIN s : s[i] \in Nat
      /\ \A i \in DOMAIN t : t[i] \in Nat
  OBVIOUS
<1>2. \A i \in DOMAIN (s \o t) :
         \/ i \in DOMAIN s /\ (s \o t)[i] = s[i]
         \/ i > Len(s) /\ i - Len(s) \in DOMAIN t /\ (s \o t)[i] = t[i - Len(s)]
  OBVIOUS
<1> DEFINE u == s \o t
<1> HIDE DEF u
<1>3. ASSUME Ordered(s, free), Ordered(t, free), Precedes(s, t, free),
             NEW i \in DOMAIN u, NEW j \in DOMAIN u, i < j
      PROVE  u[i] < u[j] \/ u[j] \in free
  <2>1. i \in Nat /\ j \in Nat
    BY <1>1 DEF u
  <2>2. CASE j \in DOMAIN s /\ u[j] = s[j]
    <3>1. i \in DOMAIN s /\ u[i] = s[i]
      BY <1>1, <1>2, <1>3, <2>1, <2>2 DEF u
    <3> QED BY <1>3, <2>2, <3>1 DEF Ordered
  <2>3. CASE j > Len(s) /\ j - Len(s) \in DOMAIN t /\ u[j] = t[j - Len(s)]
    <3>1. CASE i \in DOMAIN s /\ u[i] = s[i]
      BY <1>3, <2>3, <3>1 DEF Precedes
    <3>2. CASE i > Len(s) /\ i - Len(s) \in DOMAIN t /\ u[i] = t[i - Len(s)]
      <4>1. i - Len(s) < j - Len(s)
        BY <1>1, <1>3, <2>1
      <4> QED BY <1>3, <2>3, <3>2, <4>1 DEF Ordered
    <3> QED BY <1>2, <3>1, <3>2 DEF u
  <2> QED BY <1>2, <2>2, <2>3 DEF u
<1>4. Ordered(s, free) /\ Ordered(t, free) /\ Precedes(s, t, free) => Ordered(u, free)
  BY <1>3 DEF Ordered
<1>5. Precedes(r, s, free) /\ Precedes(r, t, free) => Precedes(r, u, free)
  BY <1>2 DEF Precedes, u
<1>6. Precedes(s, r, free) /\ Precedes(t, r, free) => Precedes(u, r, free)
  BY <1>2 DEF Precedes, u
<1> QED BY <1>4, <1>5, <1>6 DEF u

LEMMA OrderedMore ==
  ASSUME NEW s, NEW t, NEW free, NEW more, free \subseteq more
  PROVE  /\ Ordered(s, free) => Ordered(s, more)
         /\ Precedes(s, t, free) => Precedes(s, t, more)
BY DEF Ordered, Precedes

-----------------------------------------------------------------------------
(* The main loop: types.                                                    *)

(***************************************************************************)
(* The text a message brings.                                              *)
(***************************************************************************)
LEMMA OwnType ==
  ASSUME NEW m \in Message
  PROVE  /\ m.chat \in Chats /\ Own(m) \in Seq(Numbers)
         /\ m.kind = "user" => m.no \in Numbers /\ Own(m) = <<m.no>> /\ ToSet(Own(m)) = {m.no}
         /\ m.kind # "user" => Own(m) = <<>> /\ ToSet(Own(m)) = {}
         /\ ToSet(Own(m)) \subseteq Numbers
<1>1. CASE m.kind = "user"
  <2>1. m.chat \in Chats /\ m.no \in Numbers
    BY <1>1 DEF Message
  <2>2. Own(m) = <<m.no>>
    BY <1>1 DEF Own
  <2>3. ToSet(<<m.no>>) = {m.no}
    BY DEF ToSet
  <2> QED BY <1>1, <2>1, <2>2, <2>3
<1>2. CASE m.kind # "user"
  <2>1. m.chat \in Chats
    BY <1>2 DEF Message
  <2>2. Own(m) = <<>>
    BY <1>2 DEF Own
  <2>3. ToSet(<<>>) = {}
    BY DEF ToSet
  <2> QED BY <1>2, <2>1, <2>2, <2>3
<1> QED BY <1>1, <1>2

(***************************************************************************)
(* Between turns the loop has no message, no state and no job.             *)
(***************************************************************************)
LEMMA IdleType ==
  /\ NoTurn \in [pc : {"idle", "created", "prepare", "reason", "done"}, msg : Message,
                 state : State, resumed : BOOLEAN, cancelled : BOOLEAN]
  /\ NoState \in State
  /\ NoJob \in [pc : {"idle", "prepare", "reason"}, chat : Chats]
<1>1. (CHOOSE c \in Chats : TRUE) \in Chats
  BY ChatsAssumption
<1>2. NoState \in State
  BY DEF NoState, State
<1> QED BY <1>1, <1>2 DEF NoTurn, NoJob, Message

(***************************************************************************)
(* Every step of the loop, /stop and a job keeps the types.                *)
(***************************************************************************)
LEMMA LoopStepType == TypeOK /\ [Next]_vars => TypeOK'
<1> SUFFICES ASSUME TypeOK, [Next]_vars PROVE TypeOK'
  OBVIOUS
<1>b. /\ \A c \in Chats, n \in Nat : /\ [arrived EXCEPT ![c] = n] \in [Chats -> Nat]
                                    /\ [completions EXCEPT ![c] = n] \in [Chats -> Nat]
                                    /\ [busy EXCEPT ![c] = n] \in [Chats -> Nat]
      /\ \A c \in Chats : arrived[c] \in Nat /\ completions[c] \in Nat /\ busy[c] \in Nat
  BY DEF TypeOK
<1>a. /\ \A n \in Nat : n + 1 \in Nat /\ n + 1 # 0
      /\ \A n \in Nat : (IF n > 0 THEN n - 1 ELSE 0) \in Nat
  OBVIOUS
<1> USE DEF TypeOK, outcome
<1>m. turn.msg \in Message /\ turn.state \in State /\ Here \in Chats
  BY OwnType DEF Here
<1>s. NoState \in State
  BY IdleType
<1>1. ASSUME NEW c \in Chats, PublishUser(c) PROVE TypeOK'
  <2>1. arrived[c] + 1 \in Numbers /\ arrived' \in [Chats -> Nat]
    BY <1>1, <1>a, <1>b DEF Numbers, PublishUser
  <2>2. [chat |-> c, kind |-> "user", no |-> arrived[c] + 1] \in Message
    BY <2>1 DEF Message
  <2>3. inbox' \in Seq(Message)
    BY <1>1, <2>2, AppendProperties DEF PublishUser
  <2> QED BY <1>1, <2>1, <2>3 DEF PublishUser
<1>2. ASSUME NEW c \in Chats, PublishCompletion(c) PROVE TypeOK'
  <2>1. [chat |-> c, kind |-> "completion", no |-> 0] \in Message
    BY Zenon DEF Message
  <2>2. inbox' \in Seq(Message)
    BY <1>2, <2>1, AppendProperties DEF PublishCompletion
  <2>3. completions' \in [Chats -> Nat]
    BY <1>2, <1>a, <1>b DEF PublishCompletion
  <2> QED BY <1>2, <2>2, <2>3 DEF PublishCompletion
<1>3. CASE Consume
  <2>1. Head(inbox) \in Message /\ Tail(inbox) \in Seq(Message)
    BY <1>3, HeadTailProperties DEF Consume
  <2>2. [on |-> TRUE, texts |-> Own(Head(inbox))] \in State
    BY <2>1, OwnType DEF State
  <2> QED BY <1>3, <2>1, <2>2, IdleType DEF Consume
<1>4. ASSUME NEW expired \in BOOLEAN, Begin(expired) PROVE TypeOK'
  <2>1. interrupts' \in [Chats -> State]
    BY <1>4, <1>s DEF Begin
  <2>2. interrupts'[Here] \in State
    BY <1>m, <2>1
  <2>3. interrupts'[Here].texts \o Own(turn.msg) \in Seq(Numbers)
    BY <1>m, <2>2, OwnType, ConcatProperties DEF State
  <2> DEFINE old == interrupts'[Here]
             both == old.texts \o Own(turn.msg)
             next == IF old.on THEN [on |-> TRUE, texts |-> both] ELSE turn.state
  <2>4. turn' = [turn EXCEPT !.pc = "prepare", !.resumed = old.on, !.state = next]
    BY <1>4 DEF Begin
  <2> HIDE DEF both, old
  <2>5. next \in State
    BY <1>m, <2>3 DEF both, old, State
  <2>6. old.on \in BOOLEAN
    BY <2>2 DEF old, State
  <2> HIDE DEF next
  <2>7. turn' \in [pc : {"idle", "created", "prepare", "reason", "done"}, msg : Message,
                   state : State, resumed : BOOLEAN, cancelled : BOOLEAN]
    BY <2>4, <2>5, <2>6
  <2>8. busy' \in [Chats -> Nat] /\ UNCHANGED <<inbox, arrived, completions, toolCtx, job, outcome>>
    <3> HIDE DEF TypeOK
    <3> QED BY <1>4, <1>a, <1>b, <1>m DEF Begin
  <2> QED BY <2>1, <2>7, <2>8
<1>5. CASE SetContext
  BY <1>5, <1>m DEF SetContext
<1>6. Answer => answered' \in [Chats -> SUBSET Numbers]
  <2>1. ToSet(Own(turn.msg)) \subseteq Numbers
    BY <1>m, OwnType
  <2>2. Answer => answered' = [answered EXCEPT ![Here] = answered[Here] \cup ToSet(Own(turn.msg))]
    BY DEF Answer
  <2>3. answered \in [Chats -> SUBSET Numbers] /\ Here \in Chats
    BY <1>m
  <2> HIDE DEF TypeOK
  <2>4. answered[Here] \cup ToSet(Own(turn.msg)) \in SUBSET Numbers
    BY <2>1, <2>3
  <2> QED BY <2>2, <2>3, <2>4
<1>7. Leave => /\ turn' \in [pc : {"idle", "created", "prepare", "reason", "done"}, msg : Message,
                             state : State, resumed : BOOLEAN, cancelled : BOOLEAN]
               /\ busy' \in [Chats -> Nat]
  <2>1. Leave => busy' \in [Chats -> Nat]
    <3> HIDE DEF TypeOK
    <3> QED BY <1>a, <1>b, <1>m DEF Leave
  <2> QED BY <1>m, <2>1 DEF Leave
<1>c. Texts \in Seq(Numbers) /\ ToSet(Texts) \subseteq Numbers
      /\ (AddMessages => log' \in [Chats -> Seq(Numbers)])
  <2>1. Texts \in Seq(Numbers)
    BY <1>m DEF Texts, State
  <2>2. ToSet(Texts) \subseteq Numbers
    BY <2>1 DEF ToSet
  <2>3. log[Here] \o Texts \in Seq(Numbers)
    BY <1>m, <2>1, ConcatProperties
  <2>4. AddMessages => log' = [log EXCEPT ![Here] = log[Here] \o Texts]
    BY DEF AddMessages
  <2>5. log \in [Chats -> Seq(Numbers)]
    OBVIOUS
  <2> HIDE DEF TypeOK
  <2> QED BY <1>m, <2>1, <2>2, <2>3, <2>4, <2>5
<1>8. CASE Commit
  <2>1. interrupts' \in [Chats -> State]
    BY <1>8, <1>s DEF Commit
  <2> QED BY <1>6, <1>7, <1>8, <1>c, <2>1 DEF Commit
<1>8b. CASE CommitBreaks
  <2>1. broken' \in [Chats -> SUBSET Numbers]
    BY <1>8b, <1>m, <1>c DEF CommitBreaks
  <2> QED BY <1>6, <1>7, <1>8b, <1>c, <2>1 DEF CommitBreaks
<1>9. CASE Fail
  BY <1>6, <1>7, <1>9 DEF Fail
<1>10. CASE TimeOut
  <2>1. timedOut' \in [Chats -> SUBSET Numbers]
    BY <1>m, <1>10, OwnType DEF TimeOut
  <2> QED BY <1>7, <1>10, <2>1 DEF TimeOut
<1>11. CASE Cancelled
  BY <1>7, <1>11, <1>m DEF Cancelled
<1>11b. CASE ToolCancels
  <2>1. cut' \in [Chats -> SUBSET Numbers]
    BY <1>m, <1>11b, OwnType DEF ToolCancels
  <2> QED BY <1>7, <1>11b, <2>1 DEF ToolCancels
<1>12. CASE Cleanup
  BY <1>12, IdleType DEF Cleanup
<1>13. ASSUME NEW c \in Chats, RequestInterrupt(c) PROVE TypeOK'
  <2>1. stopped' \in [Chats -> SUBSET Numbers]
    BY <1>m, <1>13, OwnType DEF RequestInterrupt
  <2>2. interrupts' \in [Chats -> State]
    BY <1>m, <1>13 DEF RequestInterrupt
  <2> QED BY <1>13, <2>1, <2>2 DEF RequestInterrupt
<1>14. CASE Job
  <2>1. ASSUME NEW c \in JobChats, JobStart(c) PROVE TypeOK'
    BY <2>1, ChatsAssumption DEF JobStart
  <2>2. CASE JobSetContext
    BY <2>2 DEF JobSetContext
  <2>3. CASE JobEnds
    BY <2>3, IdleType DEF JobEnds
  <2> QED BY <1>14, <2>1, <2>2, <2>3 DEF Job
<1>15. CASE UNCHANGED vars
  BY <1>15 DEF vars
<1> QED
  BY <1>1, <1>2, <1>3, <1>4, <1>5, <1>8, <1>8b, <1>9, <1>10, <1>11, <1>11b, <1>12,
     <1>13, <1>14, <1>15
  DEF Next, Loop, TurnEnds

-----------------------------------------------------------------------------
(* The main loop: the inductive invariant.                                  *)

Waits(box, c, i) == box[i].kind = "user" /\ box[i].chat = c

(***************************************************************************)
(* The messages of a chat wait in the order they were sent.                *)
(***************************************************************************)
WaitsInOrder(box) ==
    \A i, j \in DOMAIN box : \A c \in Chats :
        i < j /\ Waits(box, c, i) /\ Waits(box, c, j) => box[i].no < box[j].no

WaitsUpto(box, c, sent) == \A i \in DOMAIN box : Waits(box, c, i) => box[i].no <= sent

(***************************************************************************)
(* The texts in s were sent, and before any that waits.                    *)
(***************************************************************************)
SentBefore(s, box, c, sent) ==
    \A k \in DOMAIN s :
        /\ s[k] <= sent
        /\ \A i \in DOMAIN box : Waits(box, c, i) => s[k] < box[i].no

InboxInv ==
    /\ WaitsInOrder(inbox)
    /\ \A c \in Chats : WaitsUpto(inbox, c, arrived[c])

(***************************************************************************)
(* What is committed is older than what an interrupt has kept, but for the *)
(* texts of commits that broke off, and both are older than what waits.    *)
(***************************************************************************)
ChatInv(c) ==
    /\ Ordered(log[c], broken[c]) /\ Ordered(interrupts[c].texts, {})
    /\ Precedes(log[c], interrupts[c].texts, broken[c])
    /\ SentBefore(log[c], inbox, c, arrived[c])
    /\ SentBefore(interrupts[c].texts, inbox, c, arrived[c])
    /\ ~interrupts[c].on => interrupts[c].texts = <<>>

(***************************************************************************)
(* What is committed is older than the texts of the turn; a turn that may  *)
(* commit without having resumed an interrupt has none to resume, and one  *)
(* that resumed it has its texts.                                          *)
(***************************************************************************)
MayEnd == turn.pc \in {"created", "prepare", "reason"}

TurnInv ==
    /\ turn.pc # "idle" => /\ SentBefore(turn.state.texts, inbox, Here, arrived[Here])
                           /\ SentBefore(Own(turn.msg), inbox, Here, arrived[Here])
                           /\ turn.state.on
    /\ MayEnd => /\ Ordered(turn.state.texts, {})
                 /\ Precedes(log[Here], turn.state.texts, broken[Here])
                 /\ Precedes(log[Here], Own(turn.msg), broken[Here])
    /\ turn.pc = "created" => turn.state.texts = Own(turn.msg)
    /\ turn.pc = "created" /\ ~turn.cancelled =>
           Precedes(interrupts[Here].texts, Own(turn.msg), {})
    /\ Running /\ ~turn.cancelled /\ ~turn.resumed => interrupts[Here].texts = <<>>
    /\ Running /\ ~turn.cancelled /\ turn.msg.kind = "user" =>
           ToSet(interrupts[Here].texts) \subseteq ToSet(turn.state.texts)

(***************************************************************************)
(* A turn that is over has been answered, interrupted, timed out or cut    *)
(* off.                                                                    *)
(***************************************************************************)
Settled(c) == answered[c] \cup stopped[c] \cup timedOut[c] \cup cut[c]

EndInv ==
    /\ turn.pc # "idle" /\ turn.cancelled => ToSet(Own(turn.msg)) \subseteq stopped[Here]
    /\ turn.pc = "done" => ToSet(Own(turn.msg)) \subseteq Settled(Here)

OrderInv == InboxInv /\ TurnInv /\ \A c \in Chats : ChatInv(c)

(***************************************************************************)
(* A queue that grows at its end or is taken from at its head.             *)
(***************************************************************************)
LEMMA BoxSteps ==
  ASSUME NEW box \in Seq(Message)
  PROVE  /\ \A m \in Message :
              /\ DOMAIN Append(box, m) = DOMAIN box \cup {Len(box) + 1}
              /\ Append(box, m)[Len(box) + 1] = m
              /\ \A i \in DOMAIN box : Append(box, m)[i] = box[i] /\ i < Len(box) + 1
         /\ box # <<>> =>
              /\ Head(box) = box[1] /\ 1 \in DOMAIN box
              /\ \A i \in DOMAIN Tail(box) : Tail(box)[i] = box[i + 1] /\ i + 1 \in DOMAIN box /\ 1 < i + 1
              /\ \A i \in DOMAIN box : i = 1 \/ (i - 1 \in DOMAIN Tail(box) /\ Tail(box)[i - 1] = box[i])
         /\ DOMAIN box \subseteq Nat /\ DOMAIN Tail(box) \subseteq Nat
<1>1. ASSUME NEW m \in Message
      PROVE  /\ DOMAIN Append(box, m) = DOMAIN box \cup {Len(box) + 1}
             /\ Append(box, m)[Len(box) + 1] = m
             /\ \A i \in DOMAIN box : Append(box, m)[i] = box[i] /\ i < Len(box) + 1
  BY AppendProperties
<1>2. ASSUME box # <<>>
      PROVE  /\ Head(box) = box[1] /\ 1 \in DOMAIN box
             /\ \A i \in DOMAIN Tail(box) : Tail(box)[i] = box[i + 1] /\ i + 1 \in DOMAIN box /\ 1 < i + 1
             /\ \A i \in DOMAIN box : i = 1 \/ (i - 1 \in DOMAIN Tail(box) /\ Tail(box)[i - 1] = box[i])
  BY <1>2, HeadTailProperties
<1>3. DOMAIN box \subseteq Nat
  OBVIOUS
<1>4. DOMAIN Tail(box) \subseteq Nat
  BY <1>3
<1> QED BY <1>1, <1>2, <1>3, <1>4

(***************************************************************************)
(* A new message is younger than all that were sent before.                *)
(***************************************************************************)
LEMMA SentBeforeAppended ==
  ASSUME NEW box \in Seq(Message), NEW m \in Message, NEW c \in Chats, NEW s \in Seq(Numbers),
         NEW sent \in Nat, NEW now2 \in Nat, sent <= now2,
         m.kind = "user" /\ m.chat = c => sent < m.no,
         SentBefore(s, box, c, sent)
  PROVE  SentBefore(s, Append(box, m), c, now2)
<1>1. \A k \in DOMAIN s : s[k] \in Nat
  BY DEF Numbers
<1>2. m.kind = "user" => m.no \in Nat
  BY OwnType DEF Numbers
<1>3. ASSUME NEW k \in DOMAIN s, NEW i \in DOMAIN Append(box, m), Waits(Append(box, m), c, i)
      PROVE  s[k] < Append(box, m)[i].no
  <2>1. CASE i \in DOMAIN box
    BY <1>3, <2>1, BoxSteps DEF SentBefore, Waits
  <2>2. CASE i = Len(box) + 1
    BY <1>1, <1>2, <1>3, <2>2, BoxSteps DEF SentBefore, Waits
  <2> QED BY <2>1, <2>2, BoxSteps
<1> QED BY <1>1, <1>3 DEF SentBefore

(***************************************************************************)
(* Taking a message off the bus leaves fewer that wait.                    *)
(***************************************************************************)
LEMMA SentBeforeTail ==
  ASSUME NEW box \in Seq(Message), box # <<>>, NEW c \in Chats, NEW s, NEW sent,
         SentBefore(s, box, c, sent)
  PROVE  SentBefore(s, Tail(box), c, sent)
BY BoxSteps DEF SentBefore, Waits

(***************************************************************************)
(* Texts that were all sent before are so when put together.               *)
(***************************************************************************)
LEMMA SentBeforeConcat ==
  ASSUME NEW s \in Seq(Numbers), NEW t \in Seq(Numbers), NEW box, NEW c, NEW sent,
         SentBefore(s, box, c, sent), SentBefore(t, box, c, sent)
  PROVE  SentBefore(s \o t, box, c, sent)
<1>1. \A k \in DOMAIN (s \o t) :
         \/ k \in DOMAIN s /\ (s \o t)[k] = s[k]
         \/ k - Len(s) \in DOMAIN t /\ (s \o t)[k] = t[k - Len(s)]
  OBVIOUS
<1> QED BY <1>1 DEF SentBefore

(***************************************************************************)
(* Numbers are naturals: what is known of sequences of those is known of   *)
(* texts.                                                                  *)
(***************************************************************************)
LEMMA TextsAreNumbers == \A s \in Seq(Numbers) : s \in Seq(Nat)
BY DEF Numbers

(***************************************************************************)
(* What the types say of each part.                                        *)
(***************************************************************************)
LEMMA LoopTypes ==
  ASSUME TypeOK
  PROVE  /\ inbox \in Seq(Message) /\ turn.msg \in Message /\ Here \in Chats
         /\ turn.state.texts \in Seq(Numbers) /\ Own(turn.msg) \in Seq(Numbers)
         /\ turn.pc \in {"idle", "created", "prepare", "reason", "done"}
         /\ turn.state.on \in BOOLEAN /\ turn.resumed \in BOOLEAN /\ turn.cancelled \in BOOLEAN
         /\ \A c \in Chats : /\ arrived[c] \in Nat
                             /\ log[c] \in Seq(Numbers)
                             /\ interrupts[c].texts \in Seq(Numbers)
                             /\ interrupts[c].on \in BOOLEAN
                             /\ broken[c] \subseteq Numbers
         /\ arrived \in [Chats -> Nat] /\ log \in [Chats -> Seq(Numbers)]
         /\ interrupts \in [Chats -> State] /\ broken \in [Chats -> SUBSET Numbers]
BY OwnType DEF TypeOK, State, Here

(***************************************************************************)
(* A message of one text is in order, and an empty sequence before and     *)
(* after everything.                                                       *)
(***************************************************************************)
LEMMA ShortIsOrdered ==
  /\ \A m \in Message : \A free : Ordered(Own(m), free)
  /\ \A free : Ordered(<<>>, free) /\ \A s : Precedes(<<>>, s, free) /\ Precedes(s, <<>>, free)
  /\ \A box, c, sent : SentBefore(<<>>, box, c, sent)
<1>1. ASSUME NEW m \in Message, NEW free PROVE Ordered(Own(m), free)
  BY DEF Own, Ordered
<1> QED BY <1>1 DEF Ordered, Precedes, SentBefore

(***************************************************************************)
(* A new message waits behind all others.                                  *)
(***************************************************************************)
LEMMA ArrivalKeepsOrder ==
  ASSUME TypeOK, OrderInv, NEW m \in Message, inbox' = Append(inbox, m),
         arrived' \in [Chats -> Nat],
         \A c \in Chats : arrived[c] <= arrived'[c],
         m.kind = "user" => arrived[m.chat] < m.no /\ m.no <= arrived'[m.chat],
         UNCHANGED <<turn, interrupts, log, broken>>
  PROVE  OrderInv'
<1>t. inbox \in Seq(Message) /\ \A c \in Chats : arrived[c] \in Nat /\ arrived'[c] \in Nat
  BY LoopTypes
<1>m. m.chat \in Chats /\ (m.kind = "user" => m.no \in Nat)
  BY OwnType DEF Numbers
<1>1. ASSUME NEW c \in Chats, NEW s \in Seq(Numbers), SentBefore(s, inbox, c, arrived[c])
      PROVE  SentBefore(s, inbox', c, arrived'[c])
  BY <1>1, <1>t, SentBeforeAppended
<1>2. ASSUME NEW c \in Chats PROVE WaitsUpto(inbox', c, arrived'[c])
  <2>1. WaitsUpto(inbox, c, arrived[c])
    BY DEF OrderInv, InboxInv
  <2>2. ASSUME NEW i \in DOMAIN inbox', Waits(inbox', c, i) PROVE inbox'[i].no <= arrived'[c]
    <3>1. CASE i \in DOMAIN inbox
      <4>1. inbox'[i] = inbox[i] /\ inbox[i] \in Message
        BY <1>t, <3>1, BoxSteps
      <4>2. inbox[i].no \in Nat /\ inbox[i].no <= arrived[c]
        BY <2>1, <2>2, <3>1, <4>1, OwnType DEF WaitsUpto, Waits, Numbers
      <4> QED BY <1>t, <4>1, <4>2
    <3>2. CASE i = Len(inbox) + 1
      BY <1>t, <2>2, <3>2, BoxSteps DEF Waits
    <3> QED BY <1>t, <3>1, <3>2, BoxSteps
  <2> QED BY <2>2 DEF WaitsUpto
<1>3. WaitsInOrder(inbox')
  <2> SUFFICES ASSUME NEW i \in DOMAIN inbox', NEW j \in DOMAIN inbox', NEW c \in Chats,
                      i < j, Waits(inbox', c, i), Waits(inbox', c, j)
               PROVE  inbox'[i].no < inbox'[j].no
    BY DEF WaitsInOrder
  <2>1. i \in DOMAIN inbox
    BY <1>t, BoxSteps
  <2>2. inbox'[i] = inbox[i] /\ inbox[i] \in Message
    BY <1>t, <2>1, BoxSteps
  <2>3. CASE j \in DOMAIN inbox
    BY <1>t, <2>1, <2>2, <2>3, BoxSteps DEF OrderInv, InboxInv, WaitsInOrder, Waits
  <2>4. CASE j = Len(inbox) + 1
    <3>1. inbox'[j] = m
      BY <1>t, <2>4, BoxSteps
    <3>2. inbox[i].no <= arrived[c] /\ inbox[i].no \in Nat
      BY <2>1, <2>2, OwnType DEF OrderInv, InboxInv, WaitsUpto, Waits, Numbers
    <3>3. m.chat = c /\ m.kind = "user" /\ arrived[c] < m.no
      BY <3>1 DEF Waits
    <3> QED BY <1>t, <1>m, <2>2, <3>1, <3>2, <3>3
  <2> QED BY <1>t, <2>3, <2>4, BoxSteps
<1>4. InboxInv'
  BY <1>2, <1>3 DEF InboxInv
<1>5. ASSUME NEW c \in Chats PROVE ChatInv(c)'
  BY <1>1, LoopTypes DEF OrderInv, ChatInv
<1>6. TurnInv'
  BY <1>1, LoopTypes DEF OrderInv, TurnInv, MayEnd, Running, Here
<1> QED BY <1>4, <1>5, <1>6 DEF OrderInv

(***************************************************************************)
(* The message taken off the bus is younger than all texts of its chat and *)
(* older than the messages that still wait.                                *)
(***************************************************************************)
LEMMA ConsumeKeepsOrder ==
  ASSUME TypeOK, OrderInv, Consume
  PROVE  OrderInv'
<1> DEFINE m == Head(inbox)
<1>t. inbox \in Seq(Message) /\ inbox # <<>> /\ inbox' = Tail(inbox)
      /\ UNCHANGED <<arrived, log, interrupts, broken>>
  BY LoopTypes DEF Consume, outcome
<1>m. m = inbox[1] /\ 1 \in DOMAIN inbox /\ m \in Message
  BY <1>t, BoxSteps
<1>u. turn' = [pc |-> "created", msg |-> m, state |-> [on |-> TRUE, texts |-> Own(m)],
               resumed |-> FALSE, cancelled |-> FALSE]
  BY DEF Consume, NoTurn
<1>o. \/ Own(m) = <<m.no>> /\ Waits(inbox, m.chat, 1) /\ m.kind = "user"
      \/ Own(m) = <<>>
  BY <1>m, OwnType DEF Waits
<1>c. m.chat \in Chats
  BY <1>m, OwnType
<1> HIDE DEF m
<1>1. ASSUME NEW c \in Chats, NEW s, SentBefore(s, inbox, c, arrived[c])
      PROVE  SentBefore(s, inbox', c, arrived'[c])
  BY <1>1, <1>t, SentBeforeTail
<1>2. InboxInv'
  <2>1. WaitsInOrder(inbox')
    <3> SUFFICES ASSUME NEW i \in DOMAIN inbox', NEW j \in DOMAIN inbox', NEW c \in Chats,
                        i < j, Waits(inbox', c, i), Waits(inbox', c, j)
                 PROVE  inbox'[i].no < inbox'[j].no
      BY DEF WaitsInOrder
    <3>1. i \in Nat /\ j \in Nat /\ i + 1 < j + 1
      BY <1>t, BoxSteps
    <3>2. /\ inbox'[i] = inbox[i + 1] /\ i + 1 \in DOMAIN inbox
          /\ inbox'[j] = inbox[j + 1] /\ j + 1 \in DOMAIN inbox
      BY <1>t, BoxSteps
    <3>3. Waits(inbox, c, i + 1) /\ Waits(inbox, c, j + 1)
      BY <3>2 DEF Waits
    <3> QED BY <3>1, <3>2, <3>3 DEF OrderInv, InboxInv, WaitsInOrder
  <2>2. ASSUME NEW c \in Chats PROVE WaitsUpto(inbox', c, arrived'[c])
    BY <1>t, BoxSteps DEF OrderInv, InboxInv, WaitsUpto, Waits
  <2> QED BY <2>1, <2>2 DEF InboxInv
<1>3. ASSUME NEW c \in Chats PROVE ChatInv(c)'
  BY <1>1, <1>t DEF OrderInv, ChatInv
<1>4. SentBefore(Own(m), inbox', m.chat, arrived'[m.chat])
  <2>1. CASE Own(m) = <<m.no>> /\ Waits(inbox, m.chat, 1)
    <3>1. m.no <= arrived[m.chat]
      BY <1>c, <1>m, <2>1 DEF OrderInv, InboxInv, WaitsUpto
    <3>2. ASSUME NEW i \in DOMAIN inbox', Waits(inbox', m.chat, i) PROVE m.no < inbox'[i].no
      <4>1. inbox'[i] = inbox[i + 1] /\ i + 1 \in DOMAIN inbox /\ 1 < i + 1
        BY <1>t, BoxSteps
      <4>2. Waits(inbox, m.chat, i + 1)
        BY <3>2, <4>1 DEF Waits
      <4> QED BY <1>c, <1>m, <2>1, <4>1, <4>2 DEF OrderInv, InboxInv, WaitsInOrder
    <3> QED BY <1>t, <2>1, <3>1, <3>2 DEF SentBefore
  <2> QED BY <1>o, <2>1, ShortIsOrdered
<1>5. ASSUME NEW s, SentBefore(s, inbox, m.chat, arrived[m.chat]) PROVE Precedes(s, Own(m), {})
  <2>1. CASE Own(m) = <<m.no>> /\ Waits(inbox, m.chat, 1)
    BY <1>5, <1>m, <2>1 DEF SentBefore, Precedes
  <2> QED BY <1>o, <2>1, ShortIsOrdered
<1>6. Precedes(log[m.chat], Own(m), broken[m.chat])
      /\ Precedes(interrupts[m.chat].texts, Own(m), {})
  BY <1>5, <1>c, OrderedMore DEF OrderInv, ChatInv
<1>7. TurnInv'
  BY <1>t, <1>u, <1>m, <1>4, <1>6, ShortIsOrdered DEF TurnInv, MayEnd, Running, Here
<1> QED BY <1>2, <1>3, <1>7 DEF OrderInv

(***************************************************************************)
(* While the bus does not move, what was sent before what waits still was. *)
(***************************************************************************)
LEMMA QuietInbox ==
  ASSUME OrderInv, UNCHANGED <<inbox, arrived>>
  PROVE  /\ InboxInv'
         /\ \A s, c : SentBefore(s, inbox', c, arrived'[c]) <=> SentBefore(s, inbox, c, arrived[c])
BY DEF OrderInv, InboxInv

(***************************************************************************)
(* A turn begins with the texts of the interrupt before its own.           *)
(***************************************************************************)
LEMMA BeginKeepsOrder ==
  ASSUME TypeOK, OrderInv, NEW expired \in BOOLEAN, Begin(expired)
  PROVE  OrderInv'
<1> DEFINE old == interrupts'[Here]
           both == old.texts \o Own(turn.msg)
<1>t. UNCHANGED <<inbox, arrived, log, broken>> /\ turn.pc = "created" /\ ~turn.cancelled
  BY DEF Begin, outcome
<1>h. Here \in Chats
  BY LoopTypes
<1>q. InboxInv' /\ \A s, c : SentBefore(s, inbox', c, arrived'[c]) <=> SentBefore(s, inbox, c, arrived[c])
  BY <1>t, QuietInbox
<1>1. /\ \A c \in Chats : interrupts'[c] = interrupts[c] \/ interrupts'[c] = NoState
      /\ interrupts'[Here] = interrupts[Here] \/ interrupts'[Here] = NoState
  BY <1>h, LoopTypes DEF Begin
<1>2. ASSUME NEW c \in Chats PROVE ChatInv(c)'
  <2>1. CASE interrupts'[c] = interrupts[c]
    BY <1>t, <1>q, <2>1 DEF OrderInv, ChatInv
  <2>2. CASE interrupts'[c] = NoState
    <3>1. interrupts'[c].texts = <<>>
      BY <2>2 DEF NoState
    <3> QED BY <1>t, <1>q, <3>1, ShortIsOrdered DEF OrderInv, ChatInv
  <2> QED BY <1>1, <2>1, <2>2
<1>3. /\ turn'.pc = "prepare" /\ turn'.msg = turn.msg /\ turn'.cancelled = turn.cancelled
      /\ turn'.resumed = old.on
      /\ old.on => turn'.state = [on |-> TRUE, texts |-> both]
      /\ ~old.on => turn'.state = turn.state
  BY DEF Begin, TypeOK
<1>4. /\ old.texts \in Seq(Nat) /\ Own(turn.msg) \in Seq(Nat) /\ log[Here] \in Seq(Nat)
      /\ old.texts \in Seq(Numbers) /\ Own(turn.msg) \in Seq(Numbers) /\ turn.msg \in Message
  <2>1. old.texts \in Seq(Numbers)
    <3>1. interrupts[Here].texts \in Seq(Numbers)
      BY <1>h, LoopTypes
    <3>2. NoState.texts = <<>>
      BY DEF NoState
    <3>3. old = interrupts[Here] \/ old = NoState
      BY <1>1
    <3>4. <<>> \in Seq(Numbers)
      OBVIOUS
    <3> HIDE DEF old
    <3> QED BY <3>1, <3>2, <3>3, <3>4
  <2>2. Own(turn.msg) \in Seq(Numbers) /\ log[Here] \in Seq(Numbers) /\ turn.msg \in Message
    BY <1>h, LoopTypes
  <2> QED BY <2>1, <2>2, TextsAreNumbers
<1>5. /\ Precedes(old.texts, Own(turn.msg), {}) /\ Ordered(old.texts, {})
      /\ Precedes(log[Here], old.texts, broken[Here])
      /\ SentBefore(old.texts, inbox, Here, arrived[Here])
      /\ ~old.on => old.texts = <<>>
  <2>1. CASE old = interrupts[Here]
    <3> HIDE DEF old
    <3>1. ChatInv(Here) /\ Precedes(interrupts[Here].texts, Own(turn.msg), {})
      BY <1>h, <1>t DEF OrderInv, TurnInv
    <3> QED BY <2>1, <3>1 DEF ChatInv
  <2>2. CASE old = NoState
    <3>1. old.texts = <<>>
      BY <2>2 DEF NoState
    <3> HIDE DEF old
    <3> QED BY <3>1, ShortIsOrdered
  <2> QED BY <1>1, <2>1, <2>2
<1>6. /\ Ordered(Own(turn.msg), {}) /\ Precedes(log[Here], Own(turn.msg), broken[Here])
      /\ SentBefore(Own(turn.msg), inbox, Here, arrived[Here])
      /\ turn.state.texts = Own(turn.msg) /\ turn.state.on
  BY <1>t, <1>4, ShortIsOrdered DEF OrderInv, TurnInv, MayEnd
<1>7. /\ Ordered(both, {}) /\ Precedes(log[Here], both, broken[Here])
      /\ SentBefore(both, inbox, Here, arrived[Here])
      /\ ToSet(old.texts) \subseteq ToSet(both)
  <2>1. Ordered(both, {}) /\ Precedes(log[Here], both, broken[Here])
    BY <1>4, <1>5, <1>6, OrderedConcat
  <2>2. SentBefore(both, inbox, Here, arrived[Here])
    BY <1>4, <1>5, <1>6, SentBeforeConcat
  <2>3. ToSet(old.texts) \subseteq ToSet(both)
    <3> DEFINE s == old.texts
               t == Own(turn.msg)
    <3>1. s \in Seq(Nat) /\ t \in Seq(Nat) /\ both = s \o t
      BY <1>4
    <3> HIDE DEF s, t, old, both
    <3>2. \A i \in DOMAIN s : i \in DOMAIN both /\ both[i] = s[i]
      BY <3>1
    <3>3. ToSet(s) \subseteq ToSet(both)
      BY <3>2 DEF ToSet
    <3> QED BY <3>3 DEF s
  <2> QED BY <2>1, <2>2, <2>3
<1>8. Here' = Here
  BY <1>3 DEF Here
<1> HIDE DEF old, both
<1>9. turn'.state.on /\ (turn'.state.texts = Own(turn.msg) \/ turn'.state.texts = both)
  BY <1>3, <1>6
<1>10. TurnInv'
  <2>1. interrupts'[Here].texts = old.texts
    BY DEF old
  <2>2. Running' /\ ~turn'.resumed => interrupts'[Here].texts = <<>>
    BY <1>3, <1>5, <2>1
  <2>3. ToSet(interrupts'[Here].texts) \subseteq ToSet(turn'.state.texts)
    <3>1. CASE old.on
      BY <1>3, <1>7, <2>1, <3>1
    <3>2. CASE ~old.on
      <4>1. ToSet(old.texts) = {}
        BY <1>5, <3>2 DEF ToSet
      <4> QED BY <2>1, <4>1
    <3> QED BY <3>1, <3>2
  <2>4. turn'.state.on /\ SentBefore(turn'.state.texts, inbox, Here, arrived[Here])
        /\ Ordered(turn'.state.texts, {}) /\ Precedes(log[Here], turn'.state.texts, broken[Here])
    BY <1>6, <1>7, <1>9, <1>4, ShortIsOrdered
  <2>5. Own(turn'.msg) = Own(turn.msg)
    BY <1>3
  <2> QED BY <1>3, <1>6, <1>8, <1>q, <1>t, <2>2, <2>3, <2>4, <2>5 DEF TurnInv, MayEnd, Running
<1> QED BY <1>q, <1>2, <1>10 DEF OrderInv

(***************************************************************************)
(* A commit moves the texts of the turn behind what is committed; one that *)
(* succeeds leaves no interrupt that has any of them, and of one that      *)
(* breaks off they are known.                                              *)
(***************************************************************************)
LEMMA CommitKeepsOrder ==
  ASSUME TypeOK, OrderInv, Commit \/ CommitBreaks
  PROVE  OrderInv'
<1> DEFINE both == log[Here] \o Texts
<1>t. /\ UNCHANGED <<inbox, arrived>> /\ turn.pc = "reason" /\ ~turn.cancelled
      /\ log' = [log EXCEPT ![Here] = both]
      /\ \/ /\ interrupts' = IF turn.resumed THEN [interrupts EXCEPT ![Here] = NoState] ELSE interrupts
            /\ UNCHANGED broken
         \/ /\ broken' = [broken EXCEPT ![Here] = @ \cup ToSet(Texts)]
            /\ UNCHANGED interrupts
  BY DEF Commit, CommitBreaks, AddMessages
<1>u. turn' = [turn EXCEPT !.pc = "done"]
  BY DEF Commit, CommitBreaks, Leave
<1>h. Here \in Chats /\ Here' = Here /\ turn'.pc = "done" /\ turn'.msg = turn.msg
      /\ turn'.state = turn.state
  BY <1>u, LoopTypes DEF Here, TypeOK
<1>q. InboxInv' /\ \A s, c : SentBefore(s, inbox', c, arrived'[c]) <=> SentBefore(s, inbox, c, arrived[c])
  BY <1>t, QuietInbox
<1>1. Texts \in Seq(Numbers) /\ log[Here] \in Seq(Numbers)
      /\ Texts \in Seq(Nat) /\ log[Here] \in Seq(Nat)
  BY <1>h, LoopTypes, TextsAreNumbers DEF Texts
<1>2. Ordered(Texts, broken[Here]) /\ Precedes(log[Here], Texts, broken[Here])
      /\ SentBefore(Texts, inbox, Here, arrived[Here])
  <2>1. Ordered(turn.state.texts, {}) /\ Precedes(log[Here], turn.state.texts, broken[Here])
        /\ SentBefore(turn.state.texts, inbox, Here, arrived[Here])
    BY <1>t DEF OrderInv, TurnInv, MayEnd
  <2> QED BY <2>1, ShortIsOrdered, OrderedMore DEF Texts
<1>3. Ordered(both, broken[Here]) /\ SentBefore(both, inbox, Here, arrived[Here])
  BY <1>h, <1>1, <1>2, OrderedConcat, SentBeforeConcat DEF OrderInv, ChatInv
<1>4. \A c \in Chats : broken[c] \subseteq broken'[c]
  BY <1>t, <1>h, LoopTypes
<1>5. interrupts'[Here].texts = <<>> \/ interrupts' = interrupts
  BY <1>t, <1>h, LoopTypes DEF NoState
<1>6. Precedes(both, interrupts'[Here].texts, broken'[Here])
  <2>1. CASE interrupts'[Here].texts = <<>>
    BY <2>1, ShortIsOrdered
  <2>2. CASE interrupts'[Here].texts # <<>>
    <3>1. interrupts' = interrupts /\ interrupts[Here].texts \in Seq(Nat)
      BY <1>5, <1>h, <2>2, LoopTypes, TextsAreNumbers
    <3>2. turn.resumed /\ broken' = [broken EXCEPT ![Here] = @ \cup ToSet(Texts)]
      <4>1. turn.resumed
        BY <1>t, <2>2, <3>1 DEF OrderInv, TurnInv, Running
      <4> QED BY <1>t, <1>h, <2>2, <4>1, LoopTypes DEF NoState
    <3>3. Precedes(log[Here], interrupts[Here].texts, broken'[Here])
      BY <1>h, <1>4, OrderedMore DEF OrderInv, ChatInv
    <3>4. Precedes(Texts, interrupts[Here].texts, broken'[Here])
      <4>1. CASE turn.msg.kind = "user"
        <5>1. ToSet(interrupts[Here].texts) \subseteq ToSet(Texts)
          BY <1>t, <4>1 DEF OrderInv, TurnInv, Running, Texts
        <5>2. \A j \in DOMAIN interrupts[Here].texts : interrupts[Here].texts[j] \in broken'[Here]
          BY <1>h, <3>2, <5>1, LoopTypes DEF ToSet
        <5> QED BY <5>2 DEF Precedes
      <4>2. CASE turn.msg.kind # "user"
        BY <4>2, ShortIsOrdered DEF Texts
      <4> QED BY <4>1, <4>2
    <3> QED BY <1>1, <3>1, <3>3, <3>4, OrderedConcat
  <2> QED BY <2>1, <2>2
<1> HIDE DEF both
<1>7. ASSUME NEW c \in Chats PROVE ChatInv(c)'
  <2>1. /\ Ordered(interrupts'[c].texts, {}) /\ SentBefore(interrupts'[c].texts, inbox, c, arrived[c])
        /\ ~interrupts'[c].on => interrupts'[c].texts = <<>>
    <3>1. interrupts'[c] = interrupts[c] \/ interrupts'[c].texts = <<>>
      BY <1>t, <1>h, LoopTypes DEF NoState
    <3> QED BY <3>1, ShortIsOrdered DEF OrderInv, ChatInv
  <2>2. CASE c = Here
    <3>1. log'[c] = both
      BY <1>t, <1>h, <2>2, LoopTypes
    <3>2. Ordered(both, broken'[c])
      BY <1>3, <1>4, <2>2, OrderedMore
    <3> QED BY <1>q, <1>3, <1>6, <2>1, <2>2, <3>1, <3>2 DEF ChatInv
  <2>3. CASE c # Here
    <3>1. log'[c] = log[c] /\ interrupts'[c] = interrupts[c] /\ broken'[c] = broken[c]
      BY <1>t, <1>h, <2>3, LoopTypes
    <3> QED BY <1>q, <3>1 DEF OrderInv, ChatInv
  <2> QED BY <2>2, <2>3
<1>8. TurnInv'
  BY <1>t, <1>h, <1>q DEF OrderInv, TurnInv, MayEnd, Running
<1> QED BY <1>q, <1>7, <1>8 DEF OrderInv

(***************************************************************************)
(* /stop keeps the texts of a turn that has not committed them.            *)
(***************************************************************************)
LEMMA InterruptKeepsOrder ==
  ASSUME TypeOK, OrderInv, NEW c \in Chats, RequestInterrupt(c)
  PROVE  OrderInv'
<1>t. /\ UNCHANGED <<inbox, arrived, log, broken>> /\ MayEnd /\ Here = c
      /\ interrupts' = [interrupts EXCEPT ![c] = turn.state]
      /\ turn' = [turn EXCEPT !.cancelled = TRUE]
  BY LoopTypes DEF RequestInterrupt, MayEnd
<1>h. /\ Here' = Here /\ turn'.pc = turn.pc /\ turn'.msg = turn.msg /\ turn'.state = turn.state
      /\ turn'.cancelled
  BY <1>t DEF Here, TypeOK
<1>q. InboxInv' /\ \A s, d : SentBefore(s, inbox', d, arrived'[d]) <=> SentBefore(s, inbox, d, arrived[d])
  BY <1>t, QuietInbox
<1>1. ASSUME NEW d \in Chats PROVE ChatInv(d)'
  <2>1. CASE d = c
    <3>1. interrupts'[d] = turn.state
      BY <1>t, <2>1, LoopTypes
    <3>2. Ordered(turn.state.texts, {}) /\ Precedes(log[c], turn.state.texts, broken[c])
          /\ turn.state.on
          /\ SentBefore(turn.state.texts, inbox, c, arrived[c])
      BY <1>t DEF OrderInv, TurnInv, MayEnd
    <3> QED BY <1>t, <1>q, <2>1, <3>1, <3>2 DEF OrderInv, ChatInv
  <2>2. CASE d # c
    <3>1. interrupts'[d] = interrupts[d]
      BY <1>t, <2>2, LoopTypes
    <3> QED BY <1>t, <1>q, <3>1 DEF OrderInv, ChatInv
  <2> QED BY <2>1, <2>2
<1>2. TurnInv'
  BY <1>t, <1>h, <1>q DEF OrderInv, TurnInv, MayEnd, Running
<1> QED BY <1>q, <1>1, <1>2 DEF OrderInv

(***************************************************************************)
(* The other ways a turn ends leave what is committed and kept alone.      *)
(***************************************************************************)
LEMMA EndKeepsOrder ==
  ASSUME TypeOK, OrderInv, UNCHANGED <<inbox, arrived, log, interrupts, broken>>,
         \/ turn' = turn
         \/ turn.pc # "idle" /\ turn' = [turn EXCEPT !.pc = "done"]
         \/ turn.pc = "prepare" /\ turn' = [turn EXCEPT !.pc = "reason"]
         \/ turn' = NoTurn
  PROVE  OrderInv'
<1>q. InboxInv' /\ \A s, c : SentBefore(s, inbox', c, arrived'[c]) <=> SentBefore(s, inbox, c, arrived[c])
  BY QuietInbox
<1>1. ASSUME NEW c \in Chats PROVE ChatInv(c)'
  BY <1>q DEF OrderInv, ChatInv
<1>2. TurnInv'
  <2>1. CASE turn' = turn
    BY <1>q, <2>1 DEF OrderInv, TurnInv, MayEnd, Running, Here
  <2>2. CASE turn.pc # "idle" /\ turn' = [turn EXCEPT !.pc = "done"]
    <3>1. turn'.pc = "done" /\ turn'.msg = turn.msg /\ turn'.state = turn.state
      BY <2>2 DEF TypeOK
    <3> QED BY <1>q, <2>2, <3>1 DEF OrderInv, TurnInv, MayEnd, Running, Here
  <2>3. CASE turn.pc = "prepare" /\ turn' = [turn EXCEPT !.pc = "reason"]
    <3>1. turn'.pc = "reason" /\ turn'.msg = turn.msg /\ turn'.state = turn.state
          /\ turn'.resumed = turn.resumed /\ turn'.cancelled = turn.cancelled
      BY <2>3 DEF TypeOK
    <3> QED BY <1>q, <2>3, <3>1 DEF OrderInv, TurnInv, MayEnd, Running, Here
  <2>4. CASE turn' = NoTurn
    BY <2>4 DEF TurnInv, MayEnd, Running, NoTurn
  <2> QED BY <2>1, <2>2, <2>3, <2>4
<1> QED BY <1>q, <1>1, <1>2 DEF OrderInv

(***************************************************************************)
(* Every step keeps the order of the texts of a chat: committed, kept by   *)
(* an interrupt or in a turn, waiting.                                     *)
(***************************************************************************)
LEMMA LoopStepOrder == TypeOK /\ OrderInv /\ [Next]_vars => OrderInv'
<1> SUFFICES ASSUME TypeOK, OrderInv, [Next]_vars PROVE OrderInv'
  OBVIOUS
<1> USE DEF outcome
<1>1. ASSUME NEW c \in Chats, PublishUser(c) PROVE OrderInv'
  <2> DEFINE m == [chat |-> c, kind |-> "user", no |-> arrived[c] + 1]
  <2>1. arrived[c] + 1 \in Numbers /\ arrived \in [Chats -> Nat]
    BY LoopTypes DEF Numbers
  <2>2. m \in Message
    BY <2>1 DEF Message
  <2>3. /\ inbox' = Append(inbox, m) /\ arrived' = [arrived EXCEPT ![c] = @ + 1]
        /\ UNCHANGED <<turn, interrupts, log, broken>>
    BY <1>1 DEF PublishUser
  <2>4. arrived' \in [Chats -> Nat] /\ \A d \in Chats : arrived[d] <= arrived'[d]
    BY <2>1, <2>3
  <2>5. arrived[m.chat] < m.no /\ m.no <= arrived'[m.chat]
    BY <2>1, <2>3
  <2> HIDE DEF m
  <2> QED BY <2>2, <2>3, <2>4, <2>5, ArrivalKeepsOrder
<1>2. ASSUME NEW c \in Chats, PublishCompletion(c) PROVE OrderInv'
  <2> DEFINE m == [chat |-> c, kind |-> "completion", no |-> 0]
  <2>1. m \in Message /\ m.kind # "user"
    BY Zenon DEF Message
  <2>2. inbox' = Append(inbox, m) /\ UNCHANGED <<arrived, turn, interrupts, log, broken>>
    BY <1>2 DEF PublishCompletion
  <2>3. arrived' \in [Chats -> Nat] /\ \A d \in Chats : arrived[d] <= arrived'[d]
    BY <2>2, LoopTypes
  <2> HIDE DEF m
  <2> QED BY <2>1, <2>2, <2>3, ArrivalKeepsOrder
<1>3. CASE Consume
  BY <1>3, ConsumeKeepsOrder
<1>4. ASSUME NEW expired \in BOOLEAN, Begin(expired) PROVE OrderInv'
  BY <1>4, BeginKeepsOrder
<1>5. CASE SetContext
  BY <1>5, EndKeepsOrder DEF SetContext
<1>6. CASE Commit \/ CommitBreaks
  BY <1>6, CommitKeepsOrder
<1>7. CASE Fail \/ TimeOut \/ Cancelled \/ ToolCancels
  BY <1>7, EndKeepsOrder DEF Fail, TimeOut, Cancelled, ToolCancels, Leave, Running
<1>8. CASE Cleanup
  BY <1>8, EndKeepsOrder DEF Cleanup
<1>9. ASSUME NEW c \in Chats, RequestInterrupt(c) PROVE OrderInv'
  BY <1>9, InterruptKeepsOrder
<1>10. CASE Job
  BY <1>10, EndKeepsOrder DEF Job, JobStart, JobSetContext, JobEnds
<1>11. CASE UNCHANGED vars
  BY <1>11, EndKeepsOrder DEF vars
<1> QED
  BY <1>1, <1>2, <1>3, <1>4, <1>5, <1>6, <1>7, <1>8, <1>9, <1>10, <1>11 DEF Next, Loop, TurnEnds

-----------------------------------------------------------------------------
(* The main loop: accounting.                                               *)

AccountInv == EndInv /\ EveryMessageAccounted /\ BusyIsTurn

(***************************************************************************)
(* A message that arrives is accounted for by the bus.                     *)
(***************************************************************************)
LEMMA ArrivalIsAccounted ==
  ASSUME TypeOK, AccountInv, NEW c \in Chats, PublishUser(c) \/ PublishCompletion(c)
  PROVE  AccountInv'
<1>t. UNCHANGED <<turn, busy, answered, stopped, timedOut, cut>> /\ inbox \in Seq(Message)
      /\ arrived \in [Chats -> Nat]
  BY LoopTypes DEF PublishUser, PublishCompletion, outcome
<1>1. PICK m \in Message :
         /\ inbox' = Append(inbox, m)
         /\ \/ /\ m = [chat |-> c, kind |-> "user", no |-> arrived[c] + 1]
               /\ arrived' = [arrived EXCEPT ![c] = @ + 1]
            \/ arrived' = arrived
  <2>1. CASE PublishUser(c)
    <3>1. arrived[c] + 1 \in Numbers
      BY <1>t DEF Numbers
    <3>2. [chat |-> c, kind |-> "user", no |-> arrived[c] + 1] \in Message
      BY <3>1 DEF Message
    <3> QED BY <2>1, <3>2 DEF PublishUser
  <2>2. CASE PublishCompletion(c)
    <3>1. [chat |-> c, kind |-> "completion", no |-> 0] \in Message
      BY Zenon DEF Message
    <3> QED BY <2>2, <3>1 DEF PublishCompletion
  <2> QED BY <2>1, <2>2
<1>2. ASSUME NEW d \in Chats, NEW n, InTheBox(d, n) PROVE InTheBox(d, n)'
  BY <1>1, <1>2, <1>t, BoxSteps DEF InTheBox
<1>3. ASSUME NEW d \in Chats, NEW n \in 1 .. arrived'[d]
      PROVE  n \in 1 .. arrived[d] \/ InTheBox(d, n)'
  <2>1. CASE d = c /\ n = arrived[c] + 1 /\ m = [chat |-> c, kind |-> "user", no |-> arrived[c] + 1]
    <3>1. inbox'[Len(inbox) + 1] = m /\ Len(inbox) + 1 \in DOMAIN inbox'
      BY <1>1, <1>t, BoxSteps
    <3> QED BY <2>1, <3>1 DEF InTheBox
  <2>2. CASE ~(d = c /\ n = arrived[c] + 1 /\ m = [chat |-> c, kind |-> "user", no |-> arrived[c] + 1])
    <3>1. CASE arrived' = arrived
      BY <1>3, <3>1
    <3>2. CASE arrived' = [arrived EXCEPT ![c] = @ + 1]
      BY <1>1, <1>3, <1>t, <2>2, <3>2
    <3> QED BY <1>1, <3>1, <3>2
  <2> QED BY <2>1, <2>2
<1>4. EveryMessageAccounted'
  BY <1>2, <1>3, <1>t DEF AccountInv, EveryMessageAccounted, Current, Here
<1>5. EndInv' /\ BusyIsTurn'
  BY <1>t DEF AccountInv, EndInv, BusyIsTurn, Settled, Here, Running
<1> QED BY <1>4, <1>5 DEF AccountInv

(***************************************************************************)
(* The message taken off the bus is the turn's.                            *)
(***************************************************************************)
LEMMA ConsumeIsAccounted ==
  ASSUME TypeOK, AccountInv, Consume
  PROVE  AccountInv'
<1>t. /\ UNCHANGED <<arrived, busy, answered, stopped, timedOut, cut>> /\ inbox \in Seq(Message)
      /\ inbox # <<>> /\ inbox' = Tail(inbox) /\ turn.pc = "idle"
      /\ Head(inbox) = inbox[1] /\ inbox[1] \in Message
  BY LoopTypes, BoxSteps DEF Consume, outcome
<1>u. turn'.pc = "created" /\ turn'.msg = inbox[1] /\ turn'.cancelled = FALSE
  BY <1>t DEF Consume, NoTurn
<1>1. ASSUME NEW c \in Chats, NEW n, InTheBox(c, n) PROVE InTheBox(c, n)' \/ Current(c, n)'
  <2>1. PICK i \in DOMAIN inbox : inbox[i] = [chat |-> c, kind |-> "user", no |-> n]
    BY <1>1 DEF InTheBox
  <2>2. CASE i = 1
    <3>1. inbox[1].chat = c /\ inbox[1].kind = "user" /\ inbox[1].no = n
      BY <2>1, <2>2
    <3>2. n \in ToSet(Own(inbox[1]))
      BY <1>t, <3>1, OwnType
    <3> QED BY <1>u, <3>1, <3>2 DEF Current, Here
  <2>3. CASE i # 1
    <3>1. i - 1 \in DOMAIN inbox' /\ inbox'[i - 1] = inbox[i]
      BY <1>t, <2>3, BoxSteps
    <3> QED BY <2>1, <3>1 DEF InTheBox
  <2> QED BY <2>2, <2>3
<1>2. EveryMessageAccounted'
  BY <1>1, <1>t DEF AccountInv, EveryMessageAccounted, Current
<1>3. EndInv' /\ BusyIsTurn'
  BY <1>t, <1>u DEF AccountInv, EndInv, BusyIsTurn, Running
<1> QED BY <1>2, <1>3 DEF AccountInv

(***************************************************************************)
(* While the bus and the turn's message stay, and outcomes only grow,      *)
(* every message stays accounted for.                                      *)
(***************************************************************************)
LEMMA TurnIsAccounted ==
  ASSUME TypeOK, EveryMessageAccounted, UNCHANGED <<inbox, arrived>>,
         turn.pc # "idle" => turn'.msg = turn.msg /\ turn'.pc # "idle",
         \A c \in Chats : Settled(c) \subseteq Settled(c)'
  PROVE  EveryMessageAccounted'
<1>1. ASSUME NEW c \in Chats, NEW n, Current(c, n) PROVE Current(c, n)'
  BY <1>1 DEF Current, Here
<1>2. ASSUME NEW c \in Chats, NEW n PROVE InTheBox(c, n)' <=> InTheBox(c, n)
  BY DEF InTheBox
<1> QED BY <1>1, <1>2 DEF EveryMessageAccounted, Settled

(***************************************************************************)
(* Leaving the busy section, by the one turn in it.                        *)
(***************************************************************************)
LEMMA LeaveIsBusy ==
  ASSUME TypeOK, BusyIsTurn, Running, Leave
  PROVE  /\ BusyIsTurn'
         /\ turn'.pc = "done" /\ turn'.msg = turn.msg /\ turn'.cancelled = turn.cancelled
<1>1. turn'.pc = "done" /\ turn'.msg = turn.msg /\ turn'.cancelled = turn.cancelled
  BY DEF TypeOK, Leave
<1>2. busy[Here] = 1 /\ Here \in Chats /\ busy \in [Chats -> Nat]
  BY LoopTypes DEF BusyIsTurn, TypeOK
<1>3. busy' = [busy EXCEPT ![Here] = 0]
  BY <1>2 DEF Leave
<1>4. BusyIsTurn'
  BY <1>1, <1>2, <1>3 DEF BusyIsTurn, Running
<1> QED BY <1>1, <1>4

(***************************************************************************)
(* Every step keeps messages accounted for and the busy counter true.      *)
(***************************************************************************)
LEMMA LoopStepAccount == TypeOK /\ AccountInv /\ [Next]_vars => AccountInv'
<1> SUFFICES ASSUME TypeOK, AccountInv, [Next]_vars PROVE AccountInv'
  OBVIOUS
<1>h. Here \in Chats /\ turn.pc \in {"idle", "created", "prepare", "reason", "done"}
  BY LoopTypes
<1>a. EndInv /\ EveryMessageAccounted /\ BusyIsTurn
  BY DEF AccountInv
<1>t. /\ answered \in [Chats -> SUBSET Numbers] /\ stopped \in [Chats -> SUBSET Numbers]
      /\ timedOut \in [Chats -> SUBSET Numbers] /\ cut \in [Chats -> SUBSET Numbers]
      /\ busy \in [Chats -> Nat]
  BY DEF TypeOK
<1> USE DEF outcome
<1>1. ASSUME NEW c \in Chats, PublishUser(c) \/ PublishCompletion(c) PROVE AccountInv'
  BY <1>1, ArrivalIsAccounted
<1>2. CASE Consume
  BY <1>2, ConsumeIsAccounted
<1>3. ASSUME NEW expired \in BOOLEAN, Begin(expired) PROVE AccountInv'
  <2>1. turn.pc = "created" /\ turn'.pc = "prepare" /\ turn'.msg = turn.msg
        /\ turn'.cancelled = turn.cancelled /\ ~turn.cancelled
    BY <1>3 DEF Begin, TypeOK
  <2>2. UNCHANGED <<inbox, arrived, answered, stopped, timedOut, cut>>
    BY <1>3 DEF Begin
  <2>3. BusyIsTurn'
    <3>1. busy' = [busy EXCEPT ![Here] = @ + 1] /\ busy[Here] = 0
      BY <1>3, <1>a, <1>h, <2>1 DEF Begin, BusyIsTurn, Running
    <3> QED BY <1>a, <1>t, <1>h, <2>1, <3>1 DEF BusyIsTurn, Running, Here
  <2>4. EveryMessageAccounted'
    BY <1>a, <2>1, <2>2, TurnIsAccounted DEF Settled
  <2> QED BY <2>1, <2>3, <2>4 DEF AccountInv, EndInv
<1>4. CASE SetContext
  <2>1. turn'.pc = "reason" /\ turn.pc = "prepare" /\ turn'.msg = turn.msg
        /\ turn'.cancelled = turn.cancelled /\ ~turn.cancelled
    BY <1>4 DEF SetContext, TypeOK
  <2>2. UNCHANGED <<inbox, arrived, busy, answered, stopped, timedOut, cut>>
    BY <1>4 DEF SetContext
  <2>3. EveryMessageAccounted'
    BY <1>a, <2>1, <2>2, TurnIsAccounted DEF Settled
  <2> QED BY <1>a, <2>1, <2>2, <2>3 DEF AccountInv, EndInv, BusyIsTurn, Running, Here
<1>5. CASE Commit \/ CommitBreaks \/ Fail
  <2>1. Running /\ ~turn.cancelled /\ Answer /\ Leave
        /\ UNCHANGED <<inbox, arrived, stopped, timedOut, cut>>
    BY <1>5 DEF Commit, CommitBreaks, Fail, Running
  <2>2. BusyIsTurn' /\ turn'.pc = "done" /\ turn'.msg = turn.msg /\ turn'.cancelled = turn.cancelled
    BY <1>a, <2>1, LeaveIsBusy
  <2>3. /\ \A c \in Chats : answered[c] \subseteq answered'[c]
        /\ ToSet(Own(turn.msg)) \subseteq answered'[Here]
    BY <1>t, <1>h, <2>1 DEF Answer
  <2>4. EveryMessageAccounted'
    BY <1>a, <2>1, <2>2, <2>3, TurnIsAccounted DEF Settled
  <2> QED BY <2>1, <2>2, <2>3, <2>4 DEF AccountInv, EndInv, Settled, Here
<1>6. CASE TimeOut
  <2>1. Running /\ ~turn.cancelled /\ Leave /\ UNCHANGED <<inbox, arrived, answered, stopped, cut>>
    BY <1>6 DEF TimeOut
  <2>2. BusyIsTurn' /\ turn'.pc = "done" /\ turn'.msg = turn.msg /\ turn'.cancelled = turn.cancelled
    BY <1>a, <2>1, LeaveIsBusy
  <2>3. /\ \A c \in Chats : timedOut[c] \subseteq timedOut'[c]
        /\ ToSet(Own(turn.msg)) \subseteq timedOut'[Here]
    BY <1>t, <1>h, <1>6 DEF TimeOut
  <2>4. EveryMessageAccounted'
    BY <1>a, <2>1, <2>2, <2>3, TurnIsAccounted DEF Settled
  <2> QED BY <2>1, <2>2, <2>3, <2>4 DEF AccountInv, EndInv, Settled, Here
<1>7. CASE Cancelled
  <2>1. turn.cancelled /\ turn.pc # "idle" /\ UNCHANGED <<inbox, arrived, answered, stopped, timedOut, cut>>
    BY <1>7 DEF Cancelled
  <2>2. BusyIsTurn' /\ turn'.pc = "done" /\ turn'.msg = turn.msg /\ turn'.cancelled = turn.cancelled
    <3>1. CASE Running
      BY <1>a, <1>7, <3>1, LeaveIsBusy DEF Cancelled
    <3>2. CASE ~Running
      <4>1. turn' = [turn EXCEPT !.pc = "done"] /\ UNCHANGED busy
        BY <1>7, <3>2 DEF Cancelled
      <4>2. turn'.pc = "done" /\ turn'.msg = turn.msg /\ turn'.cancelled = turn.cancelled
        BY <4>1 DEF TypeOK
      <4> QED BY <1>a, <3>2, <4>1, <4>2 DEF BusyIsTurn, Running, Here
    <3> QED BY <3>1, <3>2
  <2>3. EveryMessageAccounted'
    BY <1>a, <2>1, <2>2, TurnIsAccounted DEF Settled
  <2> QED BY <1>a, <2>1, <2>2, <2>3 DEF AccountInv, EndInv, Settled, Here
<1>7b. CASE ToolCancels
  <2>1. Running /\ ~turn.cancelled /\ Leave /\ UNCHANGED <<inbox, arrived, answered, stopped, timedOut>>
    BY <1>7b DEF ToolCancels, Running
  <2>2. BusyIsTurn' /\ turn'.pc = "done" /\ turn'.msg = turn.msg /\ turn'.cancelled = turn.cancelled
    BY <1>a, <2>1, LeaveIsBusy
  <2>3. /\ \A c \in Chats : cut[c] \subseteq cut'[c]
        /\ ToSet(Own(turn.msg)) \subseteq cut'[Here]
    BY <1>t, <1>h, <1>7b DEF ToolCancels
  <2>4. EveryMessageAccounted'
    BY <1>a, <2>1, <2>2, <2>3, TurnIsAccounted DEF Settled
  <2> QED BY <2>1, <2>2, <2>3, <2>4 DEF AccountInv, EndInv, Settled, Here
<1>8. CASE Cleanup
  <2>1. turn.pc = "done" /\ turn'.pc = "idle"
        /\ UNCHANGED <<inbox, arrived, busy, answered, stopped, timedOut, cut>>
    BY <1>8 DEF Cleanup, NoTurn
  <2>2. ASSUME NEW c \in Chats, NEW n, Current(c, n) PROVE n \in Settled(c)
    BY <1>a, <2>1, <2>2 DEF EndInv, Current
  <2>3. EveryMessageAccounted'
    BY <1>a, <2>1, <2>2 DEF EveryMessageAccounted, Settled, InTheBox
  <2> QED BY <1>a, <2>1, <2>3 DEF AccountInv, EndInv, BusyIsTurn, Running
<1>9. ASSUME NEW c \in Chats, RequestInterrupt(c) PROVE AccountInv'
  <2>1. turn'.cancelled = TRUE /\ turn'.pc = turn.pc /\ turn'.msg = turn.msg
        /\ turn.pc # "idle" /\ turn.pc # "done" /\ Here = c
    BY <1>9 DEF RequestInterrupt, TypeOK
  <2>2. UNCHANGED <<inbox, arrived, busy, answered, timedOut, cut>>
    BY <1>9 DEF RequestInterrupt
  <2>3. /\ \A d \in Chats : stopped[d] \subseteq stopped'[d]
        /\ ToSet(Own(turn.msg)) \subseteq stopped'[Here]
    BY <1>t, <1>9, <2>1 DEF RequestInterrupt
  <2>4. EveryMessageAccounted'
    BY <1>a, <2>1, <2>2, <2>3, TurnIsAccounted DEF Settled
  <2> QED BY <1>a, <2>1, <2>2, <2>3, <2>4 DEF AccountInv, EndInv, BusyIsTurn, Running, Here
<1>10. CASE Job \/ UNCHANGED vars
  <2>1. UNCHANGED <<inbox, arrived, turn, busy, answered, stopped, timedOut, cut>>
    BY <1>10 DEF Job, JobStart, JobSetContext, JobEnds, vars
  <2>2. EveryMessageAccounted'
    BY <1>a, <2>1, TurnIsAccounted DEF Settled
  <2> QED BY <1>a, <2>1, <2>2 DEF AccountInv, EndInv, BusyIsTurn, Running, Here, Settled
<1> QED
  BY <1>1, <1>2, <1>3, <1>4, <1>5, <1>6, <1>7, <1>7b, <1>8, <1>9, <1>10 DEF Next, Loop, TurnEnds

(***************************************************************************)
(* Before the first message the loop is idle.                              *)
(***************************************************************************)
LEMMA LoopBegins == Init => TypeOK /\ OrderInv /\ AccountInv
<1> SUFFICES ASSUME Init PROVE TypeOK /\ OrderInv /\ AccountInv
  OBVIOUS
<1>1. TypeOK
  <2>1. NoState \in State /\ <<>> \in Seq(Numbers) /\ <<>> \in Seq(Message)
    BY IdleType
  <2>2. /\ arrived \in [Chats -> Nat] /\ completions \in [Chats -> Nat] /\ busy \in [Chats -> Nat]
        /\ log \in [Chats -> Seq(Numbers)] /\ interrupts \in [Chats -> State]
        /\ answered \in [Chats -> SUBSET Numbers]
    BY <2>1 DEF Init
  <2>3. stopped = answered /\ timedOut = answered /\ cut = answered /\ broken = answered
    BY DEF Init
  <2>4. toolCtx \in [chat : Chats \cup {"none"}, ref : Chats \cup {"none", "job"}]
    BY DEF Init
  <2> QED BY <2>1, <2>2, <2>3, <2>4, IdleType DEF Init, TypeOK
<1>2. turn.pc = "idle" /\ inbox = <<>>
  BY DEF Init, NoTurn
<1>3. OrderInv
  <2>1. \A c \in Chats : ChatInv(c)
    BY ShortIsOrdered DEF Init, ChatInv, NoState
  <2>2. InboxInv
    BY <1>2 DEF InboxInv, WaitsInOrder, WaitsUpto
  <2> QED BY <1>2, <2>1, <2>2 DEF OrderInv, TurnInv, MayEnd, Running
<1>4. AccountInv
  BY <1>2 DEF Init, AccountInv, EndInv, EveryMessageAccounted, BusyIsTurn, Running
<1> QED BY <1>1, <1>3, <1>4

(***************************************************************************)
(* Order and accounting are what the properties say.                       *)
(***************************************************************************)
LEMMA LoopIsEnough ==
  TypeOK /\ OrderInv /\ AccountInv => TurnsAreAccounted /\ InterruptIsUncommitted
<1> SUFFICES ASSUME TypeOK, OrderInv, AccountInv PROVE TurnsAreAccounted /\ InterruptIsUncommitted
  OBVIOUS
<1>1. CommitsInOrder
  BY DEF OrderInv, ChatInv, Ordered, CommitsInOrder
<1>2. ASSUME NEW c \in Chats, NEW n \in ToSet(interrupts[c].texts) \cap ToSet(log[c])
      PROVE  n \in broken[c]
  <2>1. PICK i \in DOMAIN log[c], j \in DOMAIN interrupts[c].texts :
           n = log[c][i] /\ n = interrupts[c].texts[j]
    BY DEF ToSet
  <2>2. n \in Nat
    BY <2>1, LoopTypes DEF Numbers
  <2>3. log[c][i] < interrupts[c].texts[j] \/ interrupts[c].texts[j] \in broken[c]
    BY DEF OrderInv, ChatInv, Precedes
  <2> QED BY <2>1, <2>2, <2>3
<1>3. InterruptIsUncommitted
  BY <1>2 DEF InterruptIsUncommitted
<1> QED BY <1>1, <1>3 DEF AccountInv, TurnsAreAccounted

(***************************************************************************)
(* Texts reach the session in their order and once, but for those of a     *)
(* commit that broke off; every message taken off the bus is being worked  *)
(* on, answered, interrupted, timed out or cut off by a tool, and the busy *)
(* counter agrees: for every set of chats and number of messages, however  *)
(* turns fail, hang, are stopped and resumed.                              *)
(***************************************************************************)
THEOREM MessagesAreAccounted == Spec => [](TypeOK /\ TurnsAreAccounted /\ InterruptIsUncommitted)
<1>1. TypeOK /\ OrderInv /\ AccountInv /\ [Next]_vars => (TypeOK /\ OrderInv /\ AccountInv)'
  BY LoopStepType, LoopStepOrder, LoopStepAccount
<1> QED BY <1>1, LoopBegins, LoopIsEnough, PTL DEF Spec

-----------------------------------------------------------------------------
(* The queues behind a turn.                                                *)

(***************************************************************************)
(* Adding at the end, moving the first to what is before, and setting one  *)
(* down do not change what the parts make together.                        *)
(***************************************************************************)
LEMMA PartsTogether ==
  ASSUME NEW S, NEW s \in Seq(S), NEW q \in Seq(S), NEW x \in S
  PROVE  /\ s \o Append(q, x) = Append(s \o q, x)
         /\ s \o <<>> = s
         /\ s \o <<x>> = Append(s, x)
         /\ q # <<>> => (s \o <<Head(q)>>) \o Tail(q) = s \o q
<1>1. s \o Append(q, x) = Append(s \o q, x)
  OBVIOUS
<1>2. s \o <<>> = s
  OBVIOUS
<1>3. s \o <<x>> = Append(s, x)
  OBVIOUS
<1>4. ASSUME q # <<>> PROVE (s \o <<Head(q)>>) \o Tail(q) = s \o q
  BY <1>4
<1> QED BY <1>1, <1>2, <1>3, <1>4

(***************************************************************************)
(* A task that does not run or has nothing in hand.                        *)
(***************************************************************************)
LEMMA RestingType ==
  /\ NoTask \in Ingesting /\ [NoTask EXCEPT !.pc = "ready"] \in Ingesting
  /\ NoTask \in Refreshing /\ [NoTask EXCEPT !.pc = "ready"] \in Refreshing
  /\ NoTask \in Compressing
<1>1. [NoTask EXCEPT !.pc = "ready"] = [pc |-> "ready", upto |-> 0]
  BY DEF NoTask
<1>2. 0 \in 0 .. MaxTurns
  BY TurnsAssumption
<1> QED BY <1>1, <1>2 DEF NoTask, Ingesting, Refreshing, Compressing

(***************************************************************************)
(* Every step of the queues keeps the types.                               *)
(***************************************************************************)
LEMMA PostStepType == PostTypeOK /\ [PostNext]_postVars => PostTypeOK'
<1> SUFFICES ASSUME PostTypeOK, [PostNext]_postVars PROVE PostTypeOK'
  OBVIOUS
<1> USE TurnsAssumption DEF PostTypeOK, NoTask, Turns
<1>q. ASSUME NEW s \in Sessions
      PROVE  /\ turns[s] \in 0 .. MaxTurns
             /\ recentQ[s] \in Seq(Turns) /\ memoryQ[s] \in Seq(Turns) /\ due[s] \in Seq(Turns)
             /\ settled[s] \in Seq(Turns) /\ recent[s] \in Refreshing
             /\ memory[s] \in Ingesting /\ snapshot[s] \in Compressing
  BY <1>q
<1>n. /\ NoTask \in Ingesting /\ [NoTask EXCEPT !.pc = "ready"] \in Ingesting
      /\ NoTask \in Refreshing /\ [NoTask EXCEPT !.pc = "ready"] \in Refreshing
      /\ NoTask \in Compressing
  BY RestingType
<1>1. ASSUME NEW s \in Sessions, NEW skip \in BOOLEAN, NEW consolidate \in BOOLEAN,
             Schedule(s, skip, consolidate)
      PROVE  PostTypeOK'
  <2>1. turns[s] + 1 \in Turns /\ turns' = [turns EXCEPT ![s] = turns[s] + 1]
    BY <1>1, <1>q DEF Schedule
  <2>2. turns' \in [Sessions -> 0 .. MaxTurns]
    BY <2>1
  <2>3. \A q \in Seq(Turns) : Append(q, turns[s] + 1) \in Seq(Turns)
    BY <2>1, AppendProperties
  <2>4. /\ recentQ' \in [Sessions -> Seq(Turns)] /\ memoryQ' \in [Sessions -> Seq(Turns)]
        /\ due' \in [Sessions -> Seq(Turns)]
    BY <1>1, <1>q, <2>3 DEF Schedule
  <2>5. recent' \in [Sessions -> Refreshing]
    <3>1. Started(recent[s]) \in Refreshing
      BY <1>q, <1>n DEF Started
    <3> QED BY <1>1, <3>1 DEF Schedule
  <2>6. memory' \in [Sessions -> Ingesting]
    <3>1. Started(memory[s]) \in Ingesting
      BY <1>q, <1>n DEF Started
    <3> QED BY <1>1, <3>1 DEF Schedule
  <2>7. snapshot' \in [Sessions -> Compressing]
    <3>1. [snapshot[s] EXCEPT !.pc = "running"] \in Compressing
      BY <1>q DEF Compressing
    <3> QED BY <1>1, <3>1 DEF Schedule
  <2> QED BY <1>1, <2>2, <2>4, <2>5, <2>6, <2>7 DEF Schedule
<1>2. ASSUME NEW s \in Sessions, RecentTask(s) PROVE PostTypeOK'
  <2>1. UNCHANGED <<turns, memoryQ, memory, due, settled, snapshot>>
    BY <1>2 DEF RecentTask, RecentTake, RecentRead, RecentWrite, RecentDone, RecentFails
  <2>2. CASE RecentTake(s)
    <3>1. Tail(recentQ[s]) \in Seq(Turns)
      BY <1>q, <2>2, HeadTailProperties DEF RecentTake
    <3>2. [pc |-> "reading", upto |-> turns[s]] \in Refreshing
      BY <1>q DEF Refreshing
    <3>3. recent' \in [Sessions -> Refreshing] /\ recentQ' \in [Sessions -> Seq(Turns)]
      BY <2>2, <3>1, <3>2 DEF RecentTake
    <3> QED BY <2>1, <2>2, <3>3 DEF RecentTake
  <2>3. CASE RecentRead(s)
    <3>1. [recent[s] EXCEPT !.pc = "writing"] \in Refreshing
      BY <1>q DEF Refreshing
    <3>2. recent' \in [Sessions -> Refreshing]
      BY <2>3, <3>1 DEF RecentRead
    <3> QED BY <2>1, <2>3, <3>2 DEF RecentRead
  <2>4. CASE RecentDone(s) \/ RecentFails(s)
    <3>1. Restart(recentQ[s]) \in Refreshing
      BY <1>n DEF Restart
    <3>2. recent' \in [Sessions -> Refreshing]
      BY <2>4, <3>1 DEF RecentDone, RecentFails
    <3> QED BY <2>1, <2>4, <3>2 DEF RecentDone, RecentFails
  <2>5. CASE RecentWrite(s)
    <3>1. [of |-> s, upto |-> recent[s].upto] \in Shown
      BY <1>q DEF Refreshing, Shown
    <3>2. recent' \in [Sessions -> Refreshing]
      BY <1>n, <2>5 DEF RecentWrite
    <3> QED BY <2>1, <2>5, <3>1, <3>2 DEF RecentWrite
  <2> QED BY <1>2, <2>2, <2>3, <2>4, <2>5 DEF RecentTask
<1>3. ASSUME NEW s \in Sessions, IngestTake(s) PROVE PostTypeOK'
  <2>1. Head(memoryQ[s]) \in Turns /\ Tail(memoryQ[s]) \in Seq(Turns)
    BY <1>3, <1>q, HeadTailProperties DEF IngestTake
  <2>2. [pc |-> "ingesting", upto |-> Head(memoryQ[s])] \in Ingesting
    BY <2>1 DEF Ingesting
  <2>3. memory' \in [Sessions -> Ingesting] /\ memoryQ' \in [Sessions -> Seq(Turns)]
    BY <1>3, <2>1, <2>2 DEF IngestTake
  <2> QED BY <1>3, <2>3 DEF IngestTake
<1>4. ASSUME NEW s \in Sessions, IngestReturns(s) PROVE PostTypeOK'
  <2>1. memory[s].upto \in Turns
    BY <1>4, <1>q DEF IngestReturns, Ingesting
  <2>2. Append(settled[s], memory[s].upto) \in Seq(Turns)
    BY <1>q, <2>1, AppendProperties
  <2>3. memory' \in [Sessions -> Ingesting] /\ settled' \in [Sessions -> Seq(Turns)]
    BY <1>4, <1>n, <2>2 DEF IngestReturns
  <2> QED BY <1>4, <2>3 DEF IngestReturns
<1>5. ASSUME NEW s \in Sessions, MemoryDone(s) PROVE PostTypeOK'
  <2>1. memory' \in [Sessions -> Ingesting]
    BY <1>5, <1>n DEF MemoryDone, Restart
  <2> QED BY <1>5, <2>1 DEF MemoryDone
<1>6. ASSUME NEW s \in Sessions, Snapshot(s) PROVE PostTypeOK'
  <2>1. UNCHANGED <<turns, recentQ, recent, memoryQ, memory, due, settled>>
    BY <1>6 DEF Snapshot, SnapshotTake, SnapshotCompress, SnapshotWrite, SnapshotFails
  <2>2. CASE SnapshotTake(s) \/ SnapshotCompress(s) \/ SnapshotFails(s)
    <3>1. [pc |-> "compressing", upto |-> turns[s]] \in Compressing
          /\ [snapshot[s] EXCEPT !.pc = "writing"] \in Compressing
      BY <1>q DEF Compressing
    <3>2. snapshot' \in [Sessions -> Compressing]
      BY <1>n, <2>2, <3>1 DEF SnapshotTake, SnapshotCompress, SnapshotFails
    <3> QED BY <2>1, <2>2, <3>2 DEF SnapshotTake, SnapshotCompress, SnapshotFails
  <2>3. CASE SnapshotWrite(s)
    <3>1. [of |-> s, upto |-> snapshot[s].upto] \in Shown
      BY <1>q DEF Compressing, Shown
    <3>2. snapshot' \in [Sessions -> Compressing]
      BY <1>n, <2>3 DEF SnapshotWrite
    <3> QED BY <2>1, <2>3, <3>1, <3>2 DEF SnapshotWrite
  <2> QED BY <1>6, <2>2, <2>3 DEF Snapshot
<1>7. CASE UNCHANGED postVars
  BY <1>7 DEF postVars
<1> QED
  BY <1>1, <1>2, <1>3, <1>4, <1>5, <1>6, <1>7 DEF PostNext, MemoryTask

(***************************************************************************)
(* Scheduling a turn, taking, setting down and retiring keep what is       *)
(* settled, in hand and queued together what was due.                      *)
(***************************************************************************)
LEMMA PostStepOrder ==
  PostTypeOK /\ IngestedInOrder /\ [PostNext]_postVars => IngestedInOrder'
<1> SUFFICES ASSUME PostTypeOK, IngestedInOrder, [PostNext]_postVars, NEW t \in Sessions
             PROVE  (settled[t] \o InHand(t) \o memoryQ[t] = due[t])'
  BY DEF IngestedInOrder
<1>q. /\ settled[t] \in Seq(Turns) /\ memoryQ[t] \in Seq(Turns) /\ due[t] \in Seq(Turns)
      /\ memory[t] \in Ingesting /\ turns[t] \in 0 .. MaxTurns
      /\ settled \in [Sessions -> Seq(Turns)] /\ memoryQ \in [Sessions -> Seq(Turns)]
      /\ due \in [Sessions -> Seq(Turns)] /\ memory \in [Sessions -> Ingesting]
  BY DEF PostTypeOK
<1>i. settled[t] \o InHand(t) \o memoryQ[t] = due[t]
  BY DEF IngestedInOrder
<1>h. InHand(t) \in Seq(Turns) /\ settled[t] \o InHand(t) \in Seq(Turns)
  <2>1. memory[t].pc = "ingesting" => memory[t].upto \in Turns
    BY <1>q DEF Ingesting
  <2>2. InHand(t) \in Seq(Turns)
    BY <2>1 DEF InHand
  <2> QED BY <1>q, <2>2, ConcatProperties
<1>1. ASSUME NEW s \in Sessions, NEW skip \in BOOLEAN, NEW consolidate \in BOOLEAN,
             Schedule(s, skip, consolidate), s = t, ~skip
      PROVE  (settled[t] \o InHand(t) \o memoryQ[t] = due[t])'
  <2>1. turns[t] + 1 \in Turns
    BY <1>1, <1>q, TurnsAssumption DEF Schedule, Turns
  <2>2. /\ memoryQ'[t] = Append(memoryQ[t], turns[t] + 1)
        /\ due'[t] = Append(due[t], turns[t] + 1) /\ settled'[t] = settled[t]
    BY <1>1, <1>q DEF Schedule
  <2>3. InHand(t)' = InHand(t)
    BY <1>1, <1>q DEF Schedule, Started, InHand, NoTask
  <2>4. (settled[t] \o InHand(t)) \o Append(memoryQ[t], turns[t] + 1)
           = Append((settled[t] \o InHand(t)) \o memoryQ[t], turns[t] + 1)
    <3>1. \A r, q \in Seq(Turns), x \in Turns : r \o Append(q, x) = Append(r \o q, x)
      BY PartsTogether
    <3> DEFINE p == settled[t] \o InHand(t)
    <3>2. p \in Seq(Turns)
      BY <1>h
    <3> HIDE DEF p
    <3>3. p \o Append(memoryQ[t], turns[t] + 1) = Append(p \o memoryQ[t], turns[t] + 1)
      BY <1>q, <2>1, <3>1, <3>2
    <3> QED BY <3>3 DEF p
  <2> QED BY <1>i, <2>2, <2>3, <2>4
<1>2. CASE IngestTake(t)
  <2>1. memoryQ[t] # <<>> /\ InHand(t) = <<>> /\ InHand(t)' = <<Head(memoryQ[t])>>
        /\ memoryQ'[t] = Tail(memoryQ[t]) /\ UNCHANGED <<settled, due>>
    BY <1>2, <1>q DEF IngestTake, InHand
  <2>2. Head(memoryQ[t]) \in Turns
    BY <1>q, <2>1, HeadTailProperties
  <2>3. settled[t] \o <<>> = settled[t]
    BY <1>q, <2>2, PartsTogether
  <2>4. (settled[t] \o <<Head(memoryQ[t])>>) \o Tail(memoryQ[t]) = settled[t] \o memoryQ[t]
    BY <1>q, <2>1, <2>2, PartsTogether
  <2> QED BY <1>i, <2>1, <2>3, <2>4
<1>3. CASE IngestReturns(t)
  <2>1. memory[t].upto \in Turns /\ InHand(t) = <<memory[t].upto>> /\ InHand(t)' = <<>>
        /\ settled'[t] = Append(settled[t], memory[t].upto) /\ UNCHANGED <<memoryQ, due>>
    BY <1>3, <1>q DEF IngestReturns, InHand, NoTask, Ingesting
  <2>2. settled[t] \o <<memory[t].upto>> = Append(settled[t], memory[t].upto)
    BY <1>q, <2>1, PartsTogether
  <2>3. Append(settled[t], memory[t].upto) \in Seq(Turns)
    BY <1>q, <2>1, AppendProperties
  <2>4. Append(settled[t], memory[t].upto) \o <<>> = Append(settled[t], memory[t].upto)
    BY <2>1, <2>3, PartsTogether
  <2> QED BY <1>i, <2>1, <2>2, <2>4
<1>4. ASSUME UNCHANGED <<settled[t], memoryQ[t], due[t], InHand(t)>>
      PROVE  (settled[t] \o InHand(t) \o memoryQ[t] = due[t])'
  BY <1>4, <1>i
<1>5. ASSUME NEW s \in Sessions, NEW skip \in BOOLEAN, NEW consolidate \in BOOLEAN,
             Schedule(s, skip, consolidate), s # t \/ skip
      PROVE  UNCHANGED <<settled[t], memoryQ[t], due[t], InHand(t)>>
  BY <1>5, <1>q DEF Schedule, InHand
<1>6. ASSUME NEW s \in Sessions, IngestTake(s) \/ IngestReturns(s), s # t
      PROVE  UNCHANGED <<settled[t], memoryQ[t], due[t], InHand(t)>>
  BY <1>6, <1>q DEF IngestTake, IngestReturns, InHand
<1>7. ASSUME NEW s \in Sessions, MemoryDone(s)
      PROVE  UNCHANGED <<settled[t], memoryQ[t], due[t], InHand(t)>>
  BY <1>7, <1>q DEF MemoryDone, Restart, NoTask, InHand
<1>8. ASSUME NEW s \in Sessions, RecentTask(s) \/ Snapshot(s) \/ UNCHANGED postVars
      PROVE  UNCHANGED <<settled[t], memoryQ[t], due[t], InHand(t)>>
  BY <1>8 DEF RecentTask, RecentTake, RecentRead, RecentWrite, RecentDone, RecentFails,
              Snapshot, SnapshotTake, SnapshotCompress, SnapshotWrite, SnapshotFails, postVars, InHand
<1> QED
  BY <1>1, <1>2, <1>3, <1>4, <1>5, <1>6, <1>7, <1>8 DEF PostNext, MemoryTask

(***************************************************************************)
(* Before the first turn nothing is due.                                   *)
(***************************************************************************)
LEMMA PostBegins == PostInit => PostTypeOK /\ IngestedInOrder
<1> SUFFICES ASSUME PostInit PROVE PostTypeOK /\ IngestedInOrder
  OBVIOUS
<1>1. /\ NoTask \in Ingesting /\ NoTask \in Refreshing /\ NoTask \in Compressing
      /\ <<>> \in Seq(Turns) /\ [of |-> "nobody", upto |-> 0] \in Shown
  BY RestingType, TurnsAssumption DEF Shown
<1>2. PostTypeOK
  BY <1>1, TurnsAssumption DEF PostInit, PostTypeOK
<1>3. ASSUME NEW s \in Sessions PROVE settled[s] \o InHand(s) \o memoryQ[s] = due[s]
  BY <1>3 DEF PostInit, InHand, NoTask
<1> QED BY <1>2, <1>3 DEF IngestedInOrder

(***************************************************************************)
(* The memory engine is given every turn that was due, once and in the     *)
(* order of the turns, for every number of sessions and turns.             *)
(***************************************************************************)
THEOREM TurnsAreIngested == PostSpec => [](PostTypeOK /\ IngestedInOrder)
BY PostBegins, PostStepType, PostStepOrder, PTL DEF PostSpec

(***************************************************************************)
(* Side by side, as they are checked: a turn adds to the queues and takes  *)
(* nothing from them.                                                      *)
(***************************************************************************)
THEOREM TurnsAreSafe ==
  TurnSpec => [](TurnTypeOK /\ TurnsAreAccounted /\ InterruptIsUncommitted /\ IngestedInOrder)
<1> DEFINE Inv == TypeOK /\ OrderInv /\ AccountInv /\ PostTypeOK /\ IngestedInOrder
           Step == \/ Next /\ PostInit /\ UNCHANGED postVars
                   \/ PostNext /\ Init /\ UNCHANGED vars
<1>1. TurnInit => Inv
  BY LoopBegins, PostBegins DEF TurnInit
<1>2. Inv /\ [Step]_<<vars, postVars>> => Inv'
  BY LoopStepType, LoopStepOrder, LoopStepAccount, PostStepType, PostStepOrder
<1>3. Inv => TurnTypeOK /\ TurnsAreAccounted /\ InterruptIsUncommitted /\ IngestedInOrder
  BY LoopIsEnough DEF TurnTypeOK
<1> QED BY <1>1, <1>2, <1>3, PTL DEF TurnSpec
=============================================================================
