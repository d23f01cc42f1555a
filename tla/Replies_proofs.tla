--------------------------- MODULE Replies_proofs ---------------------------
(***************************************************************************)
(* What reaches a user.  The messages of the proactive loop, for every set *)
(* of alerts and content, every story they tell, every quota and every     *)
(* bound on ticks and crashes: types, then one invariant each for the      *)
(* messages (KeyInv), the events and their acknowledgements (AckInv) and   *)
(* the daily quota (QuotaInv); none needs another one, only the types.     *)
(*                                                                         *)
(* And what the program takes for shown in a Telegram chat is there to be  *)
(* read: TelegramReplies has an inductive invariant that says, of each     *)
(* stream, call and reply, how much of a text it has brought.              *)
(***************************************************************************)
EXTENDS TelegramReplies, ProactiveTick, SequenceTheorems, TLAPS

-----------------------------------------------------------------------------
(* ProactiveTick: Ticks and what they send                                  *)

(*************************************************************************)
(* A delivery key is a set of refs, whatever was cited                   *)
(* (build_delivery_key).                                                 *)
(*************************************************************************)
LEMMA KeyType == ASSUME NEW S \in SUBSET Events PROVE KeyOf(S) \in SUBSET Refs
BY DEF KeyOf, Refs

(*************************************************************************)
(* Between ticks there is a context without evidence and citations.      *)
(*************************************************************************)
LEMMA NoTickType == NoTick \in Ticks /\ NoTick.evidence = {} /\ NoTick.cited = {}
BY DEF NoTick, Ticks

(*************************************************************************)
(* The loop starts with every variable in its type.                      *)
(*************************************************************************)
LEMMA InitType == ProactiveInit => ProactiveTypeOK
<1> SUFFICES ASSUME ProactiveInit PROVE ProactiveTypeOK
  OBVIOUS
<1>1. TickOK
  BY NoTickType DEF ProactiveInit, TickOK, Points
<1>2. ack \in [Events -> {"open", "lapsing", "closed"}]
  BY DEF ProactiveInit
<1>3. ticks \in 0..MaxTicks /\ died \in 0..MaxDeaths /\ {reached, uncounted, quota, contextOnly} \subseteq Nat
  BY ProactiveAssumption DEF ProactiveInit
<1> QED BY <1>1, <1>2, <1>3 DEF ProactiveInit, ProactiveTypeOK

(***************************************************************************)
(* The context of a tick keeps its type.                                   *)
(***************************************************************************)
LEMMA StepTick == TickOK /\ [ProactiveNext]_proactiveVars => TickOK'
<1> SUFFICES ASSUME TickOK, [ProactiveNext]_proactiveVars PROVE TickOK'
  OBVIOUS
<1> USE NoTickType DEF TickOK, Points, Rounds
<1>1. ASSUME NEW alerts \in SUBSET Alerts, NEW contents \in SUBSET Contents, NEW open \in BOOLEAN,
             TickBegins(alerts, contents, open)
      PROVE  TickOK'
  <2>1. ctx' = [NoTick EXCEPT !.alerts = alerts, !.contents = contents, !.open = open] /\ pc' = "loop"
    BY <1>1 DEF TickBegins, Begins
  <2>2. ctx' \in Ticks /\ ctx'.evidence = {} /\ ctx'.cited = {}
    BY <2>1 DEF NoTick, Ticks
  <2> QED BY <2>1, <2>2
<1>2. CASE DriftBegins
  BY <1>2 DEF DriftBegins, Begins, NoTick, Ticks
<1>3. ASSUME NEW S \in SUBSET Events, MarkInteresting(S) PROVE TickOK'
  BY <1>3 DEF MarkInteresting, Ticks, Unheard, Calling
<1>4. ASSUME NEW S \in SUBSET Events, MarkNotInteresting(S) PROVE TickOK'
  BY <1>4 DEF MarkNotInteresting, Ticks, Unheard, Calling
<1>5. ASSUME NEW S \in SUBSET Events, MessagePush(S) PROVE TickOK'
  BY <1>5 DEF MessagePush, Ticks, Unheard, Calling
<1>6. CASE FinishReply
  BY <1>6 DEF FinishReply, Ticks, Unheard, Calling
<1>7. CASE FinishSkip
  BY <1>7 DEF FinishSkip, Ticks, Unheard, Calling
<1>8. CASE Round
  BY <1>8 DEF Round, AskToComplete, AskToFinish, LoopReturns, Ticks
<1>9. CASE SkipResult
  BY <1>9 DEF SkipResult, Guarded, AckDiscarded, Ticks
<1>10. CASE DeliveryRepeats \/ MessageRepeats
  <2>1. ctx' = AckPostGuardFail /\ pc' = "acks"
    BY <1>10 DEF DeliveryRepeats, MessageRepeats, Guarded
  <2>2. ctx.alerts \in SUBSET Events
    BY DEF Ticks, Events
  <2> QED BY <2>1, <2>2 DEF AckPostGuardFail, Ticks
<1>11. CASE ReplyResult
  BY <1>11 DEF ReplyResult
<1>12. CASE Persist
  BY <1>12 DEF Persist
<1>13. CASE PersistRaises
  BY <1>13 DEF PersistRaises, Dropped
<1>14. CASE Sent
  BY <1>14 DEF Sent, Ticks
<1>15. ASSUME NEW landed \in BOOLEAN, Unsent(landed) PROVE TickOK'
  <2>1. CASE pc = "dispatch"
    <3>1. /\ AckDiscarded \in Ticks
          /\ AckDiscarded.evidence \cup AckDiscarded.cited
               \subseteq AckDiscarded.alerts \cup AckDiscarded.contents
      BY DEF AckDiscarded, Ticks
    <3>2. pc' = "acks" /\ ctx' = [AckDiscarded EXCEPT !.landed = landed]
      BY <1>15, <2>1 DEF Unsent
    <3> QED BY <1>15, <3>1, <3>2 DEF Ticks
  <2>2. CASE pc # "dispatch"
    BY <1>15, <2>2 DEF Unsent, Ticks
  <2> QED BY <2>1, <2>2
<1>16. CASE SendFails \/ SendFailsLate
  BY <1>15, <1>16 DEF SendFails, SendFailsLate, Ticks
<1>17. CASE MarkDelivery \/ MarkDeliveryFails
  <2>1. Marked
    BY <1>17 DEF MarkDelivery, MarkDeliveryFails
  <2>2. CASE pc = "mark"
    BY <2>1, <2>2 DEF Marked
  <2>3. CASE pc # "mark"
    <3>1. pc' = "drift" /\ ctx' = [ctx EXCEPT !.pushed = TRUE]
      BY <2>1, <2>3 DEF Marked
    <3> QED BY <3>1 DEF Ticks
  <2> QED BY <2>2, <2>3
<1>18. CASE MarkContextOnlySend
  BY <1>18 DEF MarkContextOnlySend, AckOnSuccess, Ticks
<1>19. CASE (\E lost \in SUBSET Events : Acknowledge(lost)) \/ DriftReturns
  BY <1>19 DEF Acknowledge, DriftReturns
<1>20. CASE TickRaises \/ PresenceRaises \/ ProactiveDies
  BY <1>20 DEF TickRaises, PresenceRaises, ProactiveDies, Dropped
<1>21. CASE DayEnds
  BY <1>21 DEF DayEnds, Ticks
<1>22. CASE \/ CooldownEnds \/ ContextDayEnds \/ DriftIntervalEnds
            \/ \E key \in SUBSET Refs : DedupeWindowEnds(key)
            \/ \E e \in Events : AckLapses(e)
  BY <1>22 DEF CooldownEnds, ContextDayEnds, DriftIntervalEnds, DedupeWindowEnds, AckLapses
<1>23. CASE UNCHANGED proactiveVars
  BY <1>23 DEF proactiveVars
<1> QED
  BY <1>1, <1>2, <1>3, <1>4, <1>5, <1>6, <1>7, <1>8, <1>9, <1>10, <1>11, <1>12,
     <1>13, <1>14, <1>16, <1>17, <1>18, <1>19, <1>20, <1>21, <1>22, <1>23
  DEF ProactiveNext, Call, Guard, Deliver, TimePasses

(*************************************************************************)
(* Every step keeps every variable in its type: the acknowledgements,    *)
(* the counts and what the chat has seen.                                *)
(*************************************************************************)
LEMMA StepType == ProactiveTypeOK /\ [ProactiveNext]_proactiveVars => ProactiveTypeOK'
<1> SUFFICES ASSUME ProactiveTypeOK, [ProactiveNext]_proactiveVars
             PROVE  ProactiveTypeOK'
  OBVIOUS
<1>t. TickOK'
  BY StepTick DEF ProactiveTypeOK
<1>e. ctx.cited \in SUBSET Events /\ ctx.acks \in SUBSET Events
  BY DEF ProactiveTypeOK, TickOK, Ticks
<1>k. Key \in SUBSET Refs
  BY <1>e, KeyType DEF Key
<1> USE <1>t, <1>e, <1>k DEF ProactiveTypeOK, store, chat, today, session, counts
<1>1. ASSUME NEW alerts, NEW contents, NEW open, Begins(alerts, contents, open)
      PROVE  ProactiveTypeOK'
  BY <1>1, ProactiveAssumption DEF Begins
<1>2. CASE Call
  BY <1>2 DEF Call, MarkInteresting, MarkNotInteresting, MessagePush, FinishReply, FinishSkip,
              Unheard
<1>3. CASE Round
  BY <1>3 DEF Round, AskToComplete, AskToFinish, LoopReturns, Record
<1>4. CASE Guard
  BY <1>4 DEF Guard, SkipResult, DeliveryRepeats, MessageRepeats, ReplyResult, Guarded
<1>5. CASE Persist
  BY <1>5 DEF Persist
<1>6. CASE Dropped /\ kept' = kept /\ said' \in SUBSET SUBSET Refs /\ UNCHANGED counts
  BY <1>6 DEF Dropped
<1>7. CASE PersistRaises
  <2>1. said' \in SUBSET SUBSET Refs
    BY <1>7 DEF PersistRaises
  <2>2. CASE pc = "persist"
    BY <1>6, <1>7, <2>1, <2>2 DEF PersistRaises
  <2>3. CASE pc # "persist"
    BY <1>7, <2>1, <2>3 DEF PersistRaises
  <2> QED BY <2>2, <2>3
<1>8. CASE Sent \/ SendFails \/ SendFailsLate
  <2>1. CASE SendFails
    BY <2>1 DEF SendFails
  <2>2. CASE Sent
    BY <2>2 DEF Sent, Reaches
  <2>3. CASE SendFailsLate
    BY <2>3 DEF SendFailsLate, Reaches
  <2> QED BY <1>8, <2>1, <2>2, <2>3
<1>9. CASE MarkDelivery \/ MarkDeliveryFails \/ MarkContextOnlySend
  <2>1. CASE MarkDelivery
    BY <2>1 DEF MarkDelivery
  <2>2. CASE MarkDeliveryFails
    BY <2>2 DEF MarkDeliveryFails
  <2>3. CASE MarkContextOnlySend
    BY <2>3 DEF MarkContextOnlySend
  <2> QED BY <1>9, <2>1, <2>2, <2>3
<1>10. ASSUME NEW lost \in SUBSET Events, Acknowledge(lost) PROVE ProactiveTypeOK'
  <2>1. ack' \in [Events -> {"open", "lapsing", "closed"}]
    BY <1>10 DEF Acknowledge
  <2> QED BY <1>10, <2>1 DEF Acknowledge
<1>11. CASE DriftReturns
  BY <1>11 DEF DriftReturns, Record
<1>12. CASE TickRaises
  BY <1>6, <1>12 DEF TickRaises
<1>13. CASE PresenceRaises
  <2>1. CASE pc = "mark"
    BY <1>6, <1>13, <2>1 DEF PresenceRaises
  <2>2. CASE pc # "mark"
    BY <1>13, <2>2 DEF PresenceRaises
  <2> QED BY <2>1, <2>2
<1>14. CASE ProactiveDies
  <2>1. died' \in 0..MaxDeaths
    BY <1>14, ProactiveAssumption DEF ProactiveDies
  <2> QED BY <1>14, <2>1 DEF ProactiveDies, Dropped
<1>15. CASE CooldownEnds \/ DriftIntervalEnds \/ DayEnds
  <2>1. CASE CooldownEnds
    BY <2>1 DEF CooldownEnds
  <2>2. CASE DriftIntervalEnds
    BY <2>2 DEF DriftIntervalEnds
  <2>3. CASE DayEnds
    BY <2>3 DEF DayEnds
  <2> QED BY <1>15, <2>1, <2>2, <2>3
<1>16. CASE ContextDayEnds
  BY <1>16 DEF ContextDayEnds
<1>17. ASSUME NEW key, DedupeWindowEnds(key) PROVE ProactiveTypeOK'
  BY <1>17 DEF DedupeWindowEnds
<1>18. ASSUME NEW e \in Events, AckLapses(e) PROVE ProactiveTypeOK'
  BY <1>18 DEF AckLapses
<1>19. CASE UNCHANGED proactiveVars
  BY <1>19 DEF proactiveVars
<1> QED
  BY <1>1, <1>2, <1>3, <1>4, <1>5, <1>7, <1>8, <1>9, <1>10, <1>11, <1>12,
     <1>13, <1>14, <1>15, <1>16, <1>17, <1>18, <1>19
  DEF ProactiveNext, TickBegins, DriftBegins, Deliver, TimePasses

-----------------------------------------------------------------------------
(* Messages: a key that arrived is in the table of deliveries, or its      *)
(* arrival left no row, or the step that writes the row comes next.        *)

ArrivedInv ==
    \A key \in arrived :
        \/ key \in rows \cup unmarked
        \/ pc \in {"mark", "driftMark"} /\ key = Key

NewKey == pc \in {"persist", "dispatch"} => Key \notin rows

KeyInv == ArrivedInv /\ NewKey /\ MessageOnce

(*************************************************************************)
(* When the loop starts nothing has arrived.                             *)
(*************************************************************************)
LEMMA KeyInit == ProactiveInit => KeyInv
BY DEF ProactiveInit, KeyInv, ArrivedInv, NewKey, MessageOnce

(*************************************************************************)
(* No step delivers a key that has a row, and none leaves an arrival     *)
(* without its row but those that count it as unmarked.                  *)
(*************************************************************************)
LEMMA KeyStep == TickOK /\ KeyInv /\ [ProactiveNext]_proactiveVars => KeyInv'
<1> SUFFICES ASSUME TickOK, KeyInv, [ProactiveNext]_proactiveVars PROVE KeyInv'
  OBVIOUS
<1> USE DEF KeyInv, ArrivedInv, NewKey, MessageOnce, store, chat
\* Steps that leave deliveries and arrivals alone, at points before the guard
<1>a. ASSUME UNCHANGED <<rows, arrived, unmarked, resent>>,
             pc \notin {"mark", "driftMark"}, pc' \notin {"persist", "dispatch"}
      PROVE  KeyInv'
  BY <1>a
\* The same at any point, as long as the message is the same one
<1>b. ASSUME UNCHANGED <<rows, arrived, unmarked, resent, pc>>, ctx'.cited = ctx.cited
      PROVE  KeyInv'
  BY <1>b DEF Key
<1>d. CASE Dropped
  BY <1>d DEF Dropped
<1>1. ASSUME NEW alerts, NEW contents, NEW open,
             TickBegins(alerts, contents, open) \/ DriftBegins
      PROVE  KeyInv'
  BY <1>1, <1>a DEF TickBegins, DriftBegins, Begins
<1>2. CASE Call
  <2>1. UNCHANGED <<rows, arrived, unmarked, resent, pc>> /\ pc \in Rounds
    BY <1>2 DEF Call, MarkInteresting, MarkNotInteresting, MessagePush, FinishReply, FinishSkip,
                Unheard, Calling
  <2> QED BY <2>1, <1>a DEF Rounds
<1>3. CASE Round
  <2>1. UNCHANGED <<rows, arrived, unmarked, resent>>
    BY <1>3 DEF Round, AskToComplete, AskToFinish, LoopReturns
  <2>2. pc \in Rounds /\ pc' \in Rounds \cup {"guard"}
    BY <1>3 DEF Round, AskToComplete, AskToFinish, LoopReturns, Rounds
  <2> QED BY <2>1, <2>2, <1>a DEF Rounds
<1>4. CASE SkipResult \/ DeliveryRepeats \/ MessageRepeats
  <2>1. UNCHANGED <<rows, arrived, unmarked, resent>> /\ pc = "guard" /\ pc' = "acks"
    BY <1>4 DEF SkipResult, DeliveryRepeats, MessageRepeats, Guarded
  <2> QED BY <2>1, <1>a
<1>5. CASE ReplyResult
  BY <1>5 DEF ReplyResult, Key
<1>6. CASE Persist
  BY <1>6 DEF Persist, Key
<1>7. CASE PersistRaises
  <2>1. CASE pc = "persist"
    BY <1>7, <2>1, <1>d DEF PersistRaises
  <2>2. CASE pc # "persist"
    BY <1>7, <2>2, <1>b DEF PersistRaises
  <2> QED BY <2>1, <2>2
<1>8. CASE Sent
  <2>1. Key' = Key
    BY <1>8 DEF Sent, Key, TickOK, Ticks
  <2>2. pc' \in {"mark", "driftMark"} /\ arrived' = arrived \cup {Key}
    BY <1>8 DEF Sent, Reaches
  <2>3. resent' \subseteq unmarked'
    BY <1>8 DEF Sent, Reaches
  <2> QED BY <1>8, <2>1, <2>2, <2>3 DEF Sent
<1>9. CASE SendFails
  <2>1. pc' \in {"acks", "drift"}
    BY <1>9 DEF SendFails, Unsent
  <2> QED BY <1>9, <2>1, <1>a DEF SendFails
<1>10. CASE SendFailsLate
  <2>1. pc \in {"dispatch", "driftDispatch"} /\ pc' \in {"acks", "drift"}
    BY <1>10 DEF SendFailsLate, Unsent
  <2>2. arrived' = arrived \cup {Key} /\ unmarked' = unmarked \cup {Key} /\ UNCHANGED rows
    BY <1>10 DEF SendFailsLate, Reaches
  <2>3. resent' \subseteq unmarked'
    BY <1>10 DEF SendFailsLate, Reaches
  <2> QED BY <2>1, <2>2, <2>3
<1>11. CASE MarkDelivery
  <2>1. pc' \in {"context", "drift"}
    BY <1>11 DEF MarkDelivery, Marked
  <2> QED BY <1>11, <2>1 DEF MarkDelivery
<1>12. CASE MarkDeliveryFails
  <2>1. pc' \in {"context", "drift"}
    BY <1>12 DEF MarkDeliveryFails, Marked
  <2> QED BY <1>12, <2>1 DEF MarkDeliveryFails
<1>13. CASE MarkContextOnlySend
  BY <1>13, <1>a DEF MarkContextOnlySend
<1>14. ASSUME NEW lost, Acknowledge(lost) PROVE KeyInv'
  BY <1>14, <1>a DEF Acknowledge
<1>15. CASE DriftReturns
  BY <1>15, <1>a DEF DriftReturns
<1>16. CASE TickRaises \/ ProactiveDies
  BY <1>16, <1>d DEF TickRaises, ProactiveDies
<1>17. CASE PresenceRaises
  <2>1. CASE pc = "mark"
    BY <1>17, <2>1, <1>d DEF PresenceRaises
  <2>2. CASE pc # "mark"
    BY <1>17, <2>2 DEF PresenceRaises
  <2> QED BY <2>1, <2>2
<1>18. CASE CooldownEnds \/ ContextDayEnds \/ DriftIntervalEnds
  BY <1>18, <1>b DEF CooldownEnds, ContextDayEnds, DriftIntervalEnds
<1>19. CASE DayEnds
  <2>1. ctx'.cited = ctx.cited
    BY <1>19 DEF DayEnds, TickOK, Ticks
  <2> QED BY <1>19, <2>1, <1>b DEF DayEnds
<1>20. ASSUME NEW key, DedupeWindowEnds(key) PROVE KeyInv'
  BY <1>20 DEF DedupeWindowEnds, Key
<1>21. ASSUME NEW e, AckLapses(e) PROVE KeyInv'
  BY <1>21, <1>b DEF AckLapses
<1>22. CASE UNCHANGED proactiveVars
  BY <1>22, <1>b DEF proactiveVars
<1> QED
  BY <1>1, <1>2, <1>3, <1>4, <1>5, <1>6, <1>7, <1>8, <1>9, <1>10, <1>11, <1>12, <1>13,
     <1>14, <1>15, <1>16, <1>17, <1>18, <1>19, <1>20, <1>21, <1>22
  DEF ProactiveNext, Guard, Deliver, TimePasses

-----------------------------------------------------------------------------
(* Events: whoever is told of an event is not offered it again while its   *)
(* ack stands, and an event of a running tick is one that was offered.     *)

Offered == \A e \in ctx.alerts \cup ctx.contents : ack[e] = "open"
DriftIsEmpty == InDrift => ctx.cited = {}

ToldInv ==
    \A e \in told :
        \/ e \in unacked \/ ack[e] # "open"
        \/ /\ pc \in {"mark", "context", "acks"} /\ e \in ctx.cited
           /\ pc = "acks" => e \in ctx.acks

AckInv == Offered /\ DriftIsEmpty /\ ToldInv /\ EventOnce

(*************************************************************************)
(* When the loop starts no event has been told of.                       *)
(*************************************************************************)
LEMMA AckInit == ProactiveInit => AckInv
BY DEF ProactiveInit, AckInv, Offered, DriftIsEmpty, ToldInv, EventOnce, NoTick, InDrift

(*************************************************************************)
(* No step tells of an event that was told of before, unless its ack was *)
(* lost: the snapshot of a tick holds open events only.                  *)
(*************************************************************************)
LEMMA AckStep == ProactiveTypeOK /\ AckInv /\ [ProactiveNext]_proactiveVars => AckInv'
<1> SUFFICES ASSUME ProactiveTypeOK, AckInv, [ProactiveNext]_proactiveVars PROVE AckInv'
  OBVIOUS
<1> USE DEF AckInv, Offered, DriftIsEmpty, ToldInv, EventOnce, InDrift, chat
<1>t. ctx \in Ticks /\ ctx.cited \subseteq ctx.alerts \cup ctx.contents
  BY DEF ProactiveTypeOK, TickOK
<1>n. NoTick.alerts = {} /\ NoTick.contents = {} /\ NoTick.cited = {}
  BY DEF NoTick
\* Steps that leave acks and what was told alone and end before the effects
<1>a. ASSUME UNCHANGED <<ack, told, unacked, again>>, UNCHANGED <<ctx.alerts, ctx.contents>>,
             pc \notin {"mark", "context", "acks"}, DriftIsEmpty'
      PROVE  AckInv'
  BY <1>a
<1>b. ASSUME UNCHANGED <<ack, told, unacked, again, pc>>,
             UNCHANGED <<ctx.alerts, ctx.contents, ctx.cited, ctx.acks>>
      PROVE  AckInv'
  BY <1>b
<1>d. CASE Dropped
  BY <1>d, <1>n DEF Dropped
<1>1. ASSUME NEW alerts, NEW contents, NEW open, Begins(alerts, contents, open),
             TickBegins(alerts, contents, open) \/ DriftBegins
      PROVE  AckInv'
  <2>1. ctx'.alerts = alerts /\ ctx'.contents = contents /\ ctx'.cited = {}
    BY <1>1 DEF Begins, NoTick
  <2> QED BY <1>1, <2>1 DEF Begins
<1>2. CASE Call
  <2>1. UNCHANGED <<ack, told, unacked, again, pc>> /\ pc \in Rounds
    BY <1>2 DEF Call, MarkInteresting, MarkNotInteresting, MessagePush, FinishReply, FinishSkip,
                Unheard, Calling
  <2>2. UNCHANGED <<ctx.alerts, ctx.contents>>
    BY <1>2, <1>t DEF Call, MarkInteresting, MarkNotInteresting, MessagePush, FinishReply,
                FinishSkip, Ticks
  <2> QED BY <2>1, <2>2, <1>a DEF Rounds
<1>3. CASE Round
  <2>1. UNCHANGED <<ack, told, unacked, again>>
    BY <1>3 DEF Round, AskToComplete, AskToFinish, LoopReturns
  <2>2. UNCHANGED <<ctx.alerts, ctx.contents>>
    BY <1>3, <1>t DEF Round, AskToComplete, AskToFinish, LoopReturns, Ticks
  <2>3. pc \in Rounds /\ pc' \in Rounds \cup {"guard"}
    BY <1>3 DEF Round, AskToComplete, AskToFinish, LoopReturns, Rounds
  <2> QED BY <2>1, <2>2, <2>3, <1>a DEF Rounds
<1>4. CASE SkipResult \/ DeliveryRepeats \/ MessageRepeats
  <2>1. UNCHANGED <<ack, told, unacked, again>> /\ pc = "guard" /\ pc' = "acks"
    BY <1>4 DEF SkipResult, DeliveryRepeats, MessageRepeats, Guarded
  <2>2. ctx' = AckDiscarded \/ ctx' = AckPostGuardFail
    BY <1>4 DEF SkipResult, DeliveryRepeats, MessageRepeats, Guarded
  <2>3. UNCHANGED <<ctx.alerts, ctx.contents>>
    BY <2>2, <1>t DEF AckDiscarded, AckPostGuardFail, Ticks
  <2> QED BY <2>1, <2>3, <1>a
<1>5. CASE ReplyResult \/ Persist
  BY <1>5, <1>a DEF ReplyResult, Persist
<1>6. CASE PersistRaises
  <2>1. CASE pc = "persist"
    BY <1>6, <2>1, <1>d DEF PersistRaises
  <2>2. CASE pc # "persist"
    BY <1>6, <2>2, <1>b DEF PersistRaises
  <2> QED BY <2>1, <2>2
\* What the chat is told of now was told before only if its ack was lost.
<1>r. ASSUME Reaches, pc \in {"dispatch", "driftDispatch"}
      PROVE  again' \subseteq unacked /\ told' = told \cup ctx.cited
  <2>1. told \cap ctx.cited \subseteq unacked
    BY <1>r, <1>t
  <2> QED BY <1>r, <2>1 DEF Reaches
<1>7. CASE Sent
  <2>1. UNCHANGED <<ctx.alerts, ctx.contents, ctx.cited>>
    BY <1>7, <1>t DEF Sent, Ticks
  <2> QED BY <1>7, <1>r, <2>1 DEF Sent
<1>u. ASSUME NEW landed, Unsent(landed), pc \in {"dispatch", "driftDispatch"}
      PROVE  /\ UNCHANGED <<ctx.alerts, ctx.contents, ctx.cited>>
             /\ pc' = IF pc = "dispatch" THEN "acks" ELSE "drift"
  <2>1. CASE pc = "dispatch"
    <3>1. AckDiscarded \in Ticks
      BY <1>t DEF AckDiscarded, Ticks
    <3>2. /\ AckDiscarded.alerts = ctx.alerts /\ AckDiscarded.contents = ctx.contents
          /\ AckDiscarded.cited = ctx.cited
      BY <1>t DEF AckDiscarded, Ticks
    <3>3. pc' = "acks" /\ ctx' = [AckDiscarded EXCEPT !.landed = landed]
      BY <1>u, <2>1 DEF Unsent
    <3> QED BY <2>1, <3>1, <3>2, <3>3 DEF Ticks
  <2>2. CASE pc # "dispatch"
    BY <1>u, <2>2, <1>t DEF Unsent, Ticks
  <2> QED BY <2>1, <2>2
<1>8. CASE SendFails
  BY <1>8, <1>u, <1>a DEF SendFails
<1>9. CASE SendFailsLate
  BY <1>9, <1>u, <1>r DEF SendFailsLate
<1>10. CASE MarkDelivery \/ MarkDeliveryFails
  <2>1. UNCHANGED <<ack, told, unacked, again>> /\ pc \in {"mark", "driftMark"} /\ Marked
    BY <1>10 DEF MarkDelivery, MarkDeliveryFails
  <2>2. UNCHANGED <<ctx.alerts, ctx.contents, ctx.cited>>
    BY <2>1, <1>t DEF Marked, Ticks
  <2>3. pc' = IF pc = "mark" THEN "context" ELSE "drift"
    BY <2>1 DEF Marked
  <2> QED BY <2>1, <2>2, <2>3
<1>11. CASE MarkContextOnlySend
  <2>1. ctx' = AckOnSuccess /\ pc = "context" /\ pc' = "acks" /\ UNCHANGED <<ack, chat>>
    BY <1>11 DEF MarkContextOnlySend
  <2>2. UNCHANGED <<ctx.alerts, ctx.contents, ctx.cited>> /\ ctx.cited \subseteq ctx'.acks
    BY <2>1, <1>t DEF AckOnSuccess, Ticks
  <2> QED BY <2>1, <2>2
<1>12. ASSUME NEW lost \in SUBSET Events, Acknowledge(lost) PROVE AckInv'
  <2>1. told \subseteq Events /\ told' = told /\ again' = again
    BY <1>12 DEF Acknowledge, ProactiveTypeOK
  <2>2. unacked' = unacked \cup (lost \cap told) /\ pc = "acks" /\ pc' = "idle" /\ ctx' = NoTick
    BY <1>12 DEF Acknowledge
  <2>3. \A e \in Events : ack[e] # "open" => ack'[e] # "open"
    BY <1>12 DEF Acknowledge
  <2>4. \A e \in Events : e \in ctx.acks /\ e \notin lost => ack'[e] # "open"
    BY <1>12 DEF Acknowledge
  <2>5. ToldInv'
    BY <2>1, <2>2, <2>3, <2>4
  <2> QED BY <2>1, <2>2, <2>5, <1>n
<1>13. CASE DriftReturns
  BY <1>13, <1>n DEF DriftReturns
<1>14. CASE TickRaises \/ ProactiveDies
  BY <1>14, <1>d DEF TickRaises, ProactiveDies
<1>15. CASE PresenceRaises
  <2>1. CASE pc = "mark"
    BY <1>15, <2>1, <1>d DEF PresenceRaises
  <2>2. CASE pc # "mark"
    BY <1>15, <2>2 DEF PresenceRaises
  <2> QED BY <2>1, <2>2
<1>16. CASE CooldownEnds \/ ContextDayEnds \/ DriftIntervalEnds
  BY <1>16, <1>b DEF CooldownEnds, ContextDayEnds, DriftIntervalEnds
<1>17. CASE DayEnds
  <2>1. UNCHANGED <<ctx.alerts, ctx.contents, ctx.cited, ctx.acks>>
    BY <1>17, <1>t DEF DayEnds, Ticks
  <2> QED BY <1>17, <2>1, <1>b DEF DayEnds
<1>18. ASSUME NEW key, DedupeWindowEnds(key) PROVE AckInv'
  BY <1>18, <1>b DEF DedupeWindowEnds
<1>19. ASSUME NEW e \in Events, AckLapses(e) PROVE AckInv'
  <2>1. \A x \in Events : ack'[x] = IF x = e THEN "open" ELSE ack[x]
    BY <1>19 DEF AckLapses, ProactiveTypeOK
  <2>2. told \subseteq Events /\ ctx.alerts \cup ctx.contents \subseteq Events
    BY <1>t DEF ProactiveTypeOK, Ticks, Events
  <2> QED BY <1>19, <2>1, <2>2 DEF AckLapses
<1>20. CASE UNCHANGED proactiveVars
  BY <1>20, <1>b DEF proactiveVars
<1> QED
  BY <1>1, <1>2, <1>3, <1>4, <1>5, <1>6, <1>7, <1>8, <1>9, <1>10, <1>11, <1>12, <1>13,
     <1>14, <1>15, <1>16, <1>17, <1>18, <1>19, <1>20
  DEF ProactiveNext, Guard, Deliver, TimePasses, TickBegins, DriftBegins

-----------------------------------------------------------------------------
(* The quota: a tick whose message arrived today has been counted today,   *)
(* is a drift that will be, or is one that broke off.  A tick that has not *)
(* been counted yet found room at its start, and nobody used it since.     *)

Number(condition) == IF condition THEN 1 ELSE 0

Paid == pc \in {"guard", "persist", "dispatch"} /\ ctx.action = "reply" /\ ~ctx.old
Owing == InDrift /\ ctx.landed /\ ~ctx.old

QuotaInv ==
    /\ quota <= DailyMax
    /\ (pc \in Rounds \/ InDrift) /\ ~ctx.old => quota < DailyMax
    /\ pc \in Rounds \cup {"guard", "persist", "dispatch"} => ~ctx.landed
    /\ pc \in {"persist", "dispatch"} => ctx.action = "reply"
    /\ reached + Number(Paid) <= quota + uncounted + Number(Owing)

(*************************************************************************)
(* When the loop starts nothing was counted and nothing reached the      *)
(* chat.                                                                 *)
(*************************************************************************)
LEMMA QuotaInit == ProactiveInit => QuotaInv
BY ProactiveAssumption
DEF ProactiveInit, QuotaInv, Number, Paid, Owing, InDrift, Rounds

(*************************************************************************)
(* Every step keeps the balance of the ticks that reached the chat       *)
(* against the actions recorded.                                         *)
(*************************************************************************)
LEMMA QuotaStep == ProactiveTypeOK /\ QuotaInv /\ [ProactiveNext]_proactiveVars => QuotaInv'
<1> SUFFICES ASSUME ProactiveTypeOK, QuotaInv, [ProactiveNext]_proactiveVars PROVE QuotaInv'
  OBVIOUS
<1>t. ctx \in Ticks /\ quota \in Nat /\ reached \in Nat /\ uncounted \in Nat
  BY DEF ProactiveTypeOK, TickOK
<1>m. DailyMax \in Nat
  BY ProactiveAssumption
<1>f. ~NoTick.old /\ ~NoTick.landed
  BY DEF NoTick
<1> USE <1>t, <1>m DEF QuotaInv, Number, Paid, Owing, InDrift, Rounds, today
<1>a. ASSUME UNCHANGED <<quota, reached, uncounted, pc>>,
             UNCHANGED <<ctx.old, ctx.landed>>,
             pc \in {"guard", "persist", "dispatch"} => ctx'.action = ctx.action
      PROVE  QuotaInv'
  BY <1>a
<1>d. CASE Dropped /\ quota' = quota
  BY <1>d DEF Dropped
<1>1. ASSUME NEW alerts, NEW contents, NEW open, Begins(alerts, contents, open),
             pc' \in {"loop", "drift"}
      PROVE  QuotaInv'
  <2>1. ctx'.old = FALSE /\ ctx'.landed = FALSE
    BY <1>1 DEF Begins, NoTick
  <2>2. pc = "idle" /\ UNCHANGED <<quota, reached, uncounted>> /\ quota < DailyMax
    BY <1>1 DEF Begins, GatesOpen, store
  <2> QED BY <1>1, <2>1, <2>2
<1>2. CASE Call
  <2>1. UNCHANGED <<quota, reached, uncounted, pc>> /\ pc \in Rounds
    BY <1>2 DEF Call, MarkInteresting, MarkNotInteresting, MessagePush, FinishReply, FinishSkip,
                Unheard, Calling, store
  <2>2. UNCHANGED <<ctx.old, ctx.landed>>
    BY <1>2 DEF Call, MarkInteresting, MarkNotInteresting, MessagePush, FinishReply,
                FinishSkip, Ticks
  <2> QED BY <2>1, <2>2, <1>a
<1>3. CASE AskToComplete \/ AskToFinish
  <2>1. UNCHANGED <<ctx.old, ctx.landed>>
    BY <1>3 DEF AskToComplete, AskToFinish, Ticks
  <2> QED BY <1>3, <2>1 DEF AskToComplete, AskToFinish, store
<1>4. CASE LoopReturns
  BY <1>4 DEF LoopReturns, Record
<1>5. CASE SkipResult \/ DeliveryRepeats \/ MessageRepeats
  BY <1>5 DEF SkipResult, DeliveryRepeats, MessageRepeats, Guarded, store
<1>6. CASE ReplyResult \/ Persist
  BY <1>6 DEF ReplyResult, Persist, store
<1>7. CASE PersistRaises
  <2>1. CASE pc = "persist"
    BY <1>7, <2>1, <1>d DEF PersistRaises, Dropped, store
  <2>2. CASE pc # "persist"
    BY <1>7, <2>2, <1>a DEF PersistRaises, store
  <2> QED BY <2>1, <2>2
<1>u. ASSUME NEW landed \in BOOLEAN, Unsent(landed), pc \in {"dispatch", "driftDispatch"}
      PROVE  /\ ctx'.old = ctx.old /\ ctx'.landed = landed
             /\ pc' = IF pc = "dispatch" THEN "acks" ELSE "drift"
  <2>1. CASE pc = "dispatch"
    <3>1. AckDiscarded \in Ticks /\ AckDiscarded.old = ctx.old
      BY DEF AckDiscarded, Ticks
    <3>2. pc' = "acks" /\ ctx' = [AckDiscarded EXCEPT !.landed = landed]
      BY <1>u, <2>1 DEF Unsent
    <3> QED BY <2>1, <3>1, <3>2 DEF Ticks
  <2>2. CASE pc # "dispatch"
    BY <1>u, <2>2 DEF Unsent, Ticks
  <2> QED BY <2>1, <2>2
<1>8. CASE Sent
  <2>1. ctx'.old = ctx.old /\ ctx'.landed = TRUE
    BY <1>8 DEF Sent, Ticks
  <2>2. pc' = IF pc = "dispatch" THEN "mark" ELSE "driftMark"
    BY <1>8 DEF Sent
  <2>3. UNCHANGED <<quota, uncounted>> /\ pc \in {"dispatch", "driftDispatch"}
    BY <1>8 DEF Sent, Reaches, store
  <2>4. reached' = IF ctx.landed \/ ctx.old THEN reached ELSE reached + 1
    BY <1>8 DEF Sent, Reaches
  <2> QED BY <2>1, <2>2, <2>3, <2>4
<1>9. CASE SendFails
  <2>1. ctx.landed \in BOOLEAN /\ Unsent(ctx.landed)
    BY <1>9 DEF SendFails, Ticks
  <2>2. UNCHANGED <<quota, reached, uncounted>> /\ pc \in {"dispatch", "driftDispatch"}
    BY <1>9 DEF SendFails, store
  <2> QED BY <1>u, <2>1, <2>2
<1>10. CASE SendFailsLate
  <2>1. ctx'.old = ctx.old /\ ctx'.landed = TRUE
    BY <1>10, <1>u DEF SendFailsLate
  <2>2. pc' = IF pc = "dispatch" THEN "acks" ELSE "drift"
    BY <1>10, <1>u DEF SendFailsLate
  <2>3. UNCHANGED <<quota, uncounted>> /\ pc \in {"dispatch", "driftDispatch"}
    BY <1>10 DEF SendFailsLate, Reaches, store
  <2>4. reached' = IF ctx.landed \/ ctx.old THEN reached ELSE reached + 1
    BY <1>10 DEF SendFailsLate, Reaches
  <2> QED BY <2>1, <2>2, <2>3, <2>4
<1>11. CASE MarkDelivery \/ MarkDeliveryFails
  <2>1. UNCHANGED <<quota, reached, uncounted>> /\ pc \in {"mark", "driftMark"} /\ Marked
    BY <1>11 DEF MarkDelivery, MarkDeliveryFails, store
  <2>2. UNCHANGED <<ctx.old, ctx.landed>>
    BY <2>1 DEF Marked, Ticks
  <2>3. pc' = IF pc = "mark" THEN "context" ELSE "drift"
    BY <2>1 DEF Marked
  <2> QED BY <2>1, <2>2, <2>3
<1>12. CASE MarkContextOnlySend
  BY <1>12 DEF MarkContextOnlySend
<1>13. ASSUME NEW lost, Acknowledge(lost) PROVE QuotaInv'
  BY <1>13 DEF Acknowledge, store
<1>14. CASE DriftReturns
  BY <1>14 DEF DriftReturns, Record
<1>15. CASE TickRaises \/ ProactiveDies
  BY <1>15, <1>d DEF TickRaises, ProactiveDies, Dropped, store
<1>16. CASE PresenceRaises
  <2>1. CASE pc = "mark"
    BY <1>16, <2>1, <1>d DEF PresenceRaises, Dropped, store
  <2>2. CASE pc # "mark"
    BY <1>16, <2>2 DEF PresenceRaises, store
  <2> QED BY <2>1, <2>2
<1>17. CASE CooldownEnds \/ ContextDayEnds \/ DriftIntervalEnds
  BY <1>17, <1>a DEF CooldownEnds, ContextDayEnds, DriftIntervalEnds
<1>18. CASE DayEnds
  <2>1. quota' = 0 /\ reached' = 0 /\ uncounted' = 0 /\ pc' = pc
    BY <1>18 DEF DayEnds
  <2>2. pc # "idle" => ctx'.old /\ ctx'.landed = ctx.landed /\ ctx'.action = ctx.action
    BY <1>18 DEF DayEnds, Ticks
  <2> QED BY <2>1, <2>2
<1>19. ASSUME NEW key, DedupeWindowEnds(key) PROVE QuotaInv'
  BY <1>19, <1>a DEF DedupeWindowEnds
<1>20. ASSUME NEW e, AckLapses(e) PROVE QuotaInv'
  BY <1>20, <1>a DEF AckLapses, store
<1>21. CASE UNCHANGED proactiveVars
  BY <1>21, <1>a DEF proactiveVars, store
<1> QED
  BY <1>1, <1>2, <1>3, <1>4, <1>5, <1>6, <1>7, <1>8, <1>9, <1>10, <1>11, <1>12, <1>13,
     <1>14, <1>15, <1>16, <1>17, <1>18, <1>19, <1>20, <1>21
  DEF ProactiveNext, Guard, Round, Deliver, TimePasses, TickBegins, DriftBegins

-----------------------------------------------------------------------------
TickInv == ProactiveTypeOK /\ KeyInv /\ AckInv /\ QuotaInv

(*************************************************************************)
(* The invariants together hold at every step of every behaviour.        *)
(*************************************************************************)
LEMMA AlwaysTickInv == ProactiveSpec => []TickInv
<1>1. ProactiveInit => TickInv
  BY InitType, KeyInit, AckInit, QuotaInit DEF TickInv
<1>2. TickInv /\ [ProactiveNext]_proactiveVars => TickInv'
  BY StepType, KeyStep, AckStep, QuotaStep DEF TickInv, ProactiveTypeOK
<1> QED BY <1>1, <1>2, PTL DEF ProactiveSpec

(***************************************************************************)
(* For every set of events and every story they tell: a message that       *)
(* passed the guards is not a second arrival of the same sources within    *)
(* the dedupe window, unless the first arrival left no row.                *)
(***************************************************************************)
THEOREM NoMessageTwice == ProactiveSpec => []MessageOnce
<1>1. TickInv => MessageOnce
  BY DEF TickInv, KeyInv
<1> QED BY <1>1, AlwaysTickInv, PTL

(***************************************************************************)
(* The user is told of an event a second time only after its ack was lost, *)
(* or lapsed, whichever guard, failure or crash came in between.           *)
(***************************************************************************)
THEOREM NoEventTwice == ProactiveSpec => []EventOnce
<1>1. TickInv => EventOnce
  BY DEF TickInv, AckInv
<1> QED BY <1>1, AlwaysTickInv, PTL

(***************************************************************************)
(* For every daily quota: no more ticks of a day reach the chat than it    *)
(* allows and drifts broke off after their message.                        *)
(***************************************************************************)
THEOREM QuotaIsKept == ProactiveSpec => []QuotaHolds
<1>1. TickInv => QuotaHolds
  BY ProactiveAssumption
  DEF TickInv, QuotaInv, QuotaHolds, ProactiveTypeOK, Number, Paid, Owing
<1> QED BY <1>1, AlwaysTickInv, PTL

(*************************************************************************)
(* Every variable keeps its type: the counts within their bounds, and no *)
(* tick cites an event that its snapshot did not hold.                   *)
(*************************************************************************)
THEOREM TickTypeCorrect == ProactiveSpec => []ProactiveTypeOK
<1>1. TickInv => ProactiveTypeOK
  BY DEF TickInv
<1> QED BY <1>1, AlwaysTickInv, PTL

-----------------------------------------------------------------------------
\* Texts

Rest(words, n) == SubSeq(words, n + 1, Len(words))

\* The start of a text.
LEMMA FirstIs ==
  ASSUME NEW words \in Seq(Nat), NEW n \in Nat
  PROVE  /\ FirstOf(words, n) \in Seq(Nat)
         /\ Len(FirstOf(words, n)) = Capped(n, Len(words))
         /\ \A i \in 1..Len(FirstOf(words, n)) : FirstOf(words, n)[i] = words[i]
         /\ Capped(n, Len(words)) \in Nat
<1>1. Capped(n, Len(words)) \in 0..Len(words)
  BY DEF Capped
<1> QED
  BY <1>1 DEF FirstOf

\* The rest of a text.
LEMMA RestIs ==
  ASSUME NEW words \in Seq(Nat), NEW n \in Nat
  PROVE  /\ Rest(words, n) \in Seq(Nat)
         /\ Len(Rest(words, n)) = IF n < Len(words) THEN Len(words) - n ELSE 0
         /\ \A i \in 1..Len(Rest(words, n)) : Rest(words, n)[i] = words[n + i]
BY DEF Rest

\* What is left of what is left.
LEMMA RestOfRest ==
  ASSUME NEW words \in Seq(Nat), NEW n \in Nat, NEW m \in Nat
  PROVE  Rest(Rest(words, n), m) = Rest(words, m + n)
<1>1. Rest(words, n) \in Seq(Nat) /\ Len(Rest(words, n)) = IF n < Len(words) THEN Len(words) - n ELSE 0
  BY RestIs
<1>2. m + n \in Nat /\ Len(words) \in Nat
  OBVIOUS
<1>3. /\ Rest(Rest(words, n), m) \in Seq(Nat)
      /\ Len(Rest(Rest(words, n), m)) = IF m < Len(Rest(words, n)) THEN Len(Rest(words, n)) - m ELSE 0
      /\ \A i \in 1..Len(Rest(Rest(words, n), m)) : Rest(Rest(words, n), m)[i] = Rest(words, n)[m + i]
  BY <1>1, RestIs
<1>4. /\ Rest(words, m + n) \in Seq(Nat)
      /\ Len(Rest(words, m + n)) = IF m + n < Len(words) THEN Len(words) - (m + n) ELSE 0
      /\ \A i \in 1..Len(Rest(words, m + n)) : Rest(words, m + n)[i] = words[m + n + i]
  BY <1>2, RestIs
<1> DEFINE w == Len(words)
           r == Len(Rest(words, n))
           x == Len(Rest(Rest(words, n), m))
           y == Len(Rest(words, m + n))
<1>a. /\ w \in Nat
      /\ r = IF n < w THEN w - n ELSE 0
      /\ x = IF m < r THEN r - m ELSE 0
      /\ y = IF m + n < w THEN w - (m + n) ELSE 0
  BY <1>1, <1>2, <1>3, <1>4
<1>b. ASSUME NEW i \in 1..y PROVE i \in Nat /\ m + i \in 1..r
  <2> HIDE DEF w, r, x, y
  <2> QED BY <1>a
<1>5. x = y
  <2> HIDE DEF w, r, x, y
  <2> QED BY <1>a
<1>6. ASSUME NEW i \in 1..Len(Rest(words, m + n)) PROVE Rest(Rest(words, n), m)[i] = Rest(words, m + n)[i]
  <2>1. i \in Nat /\ m + i \in 1..Len(Rest(words, n))
    BY <1>b
  <2>2. \A k \in 1..Len(Rest(words, n)) : Rest(words, n)[k] = words[n + k]
    BY RestIs
  <2>3. Rest(words, n)[m + i] = words[n + (m + i)]
    BY <2>1, <2>2
  <2>4. n + (m + i) = m + n + i
    BY <2>1
  <2> QED BY <1>3, <1>4, <1>5, <2>3, <2>4
<1> QED BY <1>3, <1>4, <1>5, <1>6, SeqEqual

\* How many pieces there are.
LEMMA PieceCount ==
  ASSUME NEW n \in Nat, NEW stride \in Nat \ {0}
  PROVE  /\ (n + stride - 1) \div stride \in Nat
         /\ n = 0 => (n + stride - 1) \div stride = 0
         /\ 0 < n /\ n <= stride => (n + stride - 1) \div stride = 1
         /\ n > stride => (n + stride - 1) \div stride = ((n - stride) + stride - 1) \div stride + 1
<1>1. (n + stride - 1) \div stride \in Nat
  OBVIOUS
<1>2. n = 0 => (n + stride - 1) \div stride = 0
  OBVIOUS
<1>3. 0 < n /\ n <= stride => (n + stride - 1) \div stride = 1
  OBVIOUS
<1>4. n > stride => (n + stride - 1) \div stride = ((n - stride) + stride - 1) \div stride + 1
  OBVIOUS
<1> QED BY <1>1, <1>2, <1>3, <1>4

\* The first piece, and the others.
LEMMA PiecesAre ==
  ASSUME NEW words \in Seq(Nat), NEW stride \in Nat \ {0}
  PROVE  /\ Pieces(words, stride) \in Seq(Seq(Nat))
         /\ words = <<>> => Pieces(words, stride) = <<>>
         /\ words # <<>> => /\ Pieces(words, stride) # <<>>
                           /\ Head(Pieces(words, stride)) = FirstOf(words, stride)
                           /\ Head(Pieces(words, stride)) # <<>>
                           /\ Tail(Pieces(words, stride)) = Pieces(Rest(words, stride), stride)
<1> DEFINE count(t) == (Len(t) + stride - 1) \div stride
           piece(t, i) == FirstOf(SubSeq(t, (i - 1) * stride + 1, Len(t)), stride)
<1>0. ASSUME NEW t \in Seq(Nat)
      PROVE  /\ count(t) \in Nat
             /\ Pieces(t, stride) = [i \in 1..count(t) |-> piece(t, i)]
             /\ \A i \in 1..count(t) : piece(t, i) \in Seq(Nat)
  <2>1. count(t) \in Nat
    BY PieceCount
  <2>2. ASSUME NEW i \in 1..count(t) PROVE piece(t, i) \in Seq(Nat)
    <3> DEFINE place == (i - 1) * stride
    <3>1. place \in Nat
      BY <2>1
    <3>2. SubSeq(t, place + 1, Len(t)) \in Seq(Nat)
      <4> HIDE DEF place
      <4> QED BY <3>1, RestIs DEF Rest
    <3> QED BY <3>2, FirstIs
  <2> QED BY <2>1, <2>2 DEF Pieces
<1>1. Pieces(words, stride) \in Seq(Seq(Nat))
  <2> HIDE DEF count, piece
  <2> QED BY <1>0
<1>2. words = <<>> => Pieces(words, stride) = <<>>
  <2> SUFFICES ASSUME words = <<>> PROVE Pieces(words, stride) = <<>>
    OBVIOUS
  <2>1. count(words) = 0
    BY PieceCount
  <2>2. Len(Pieces(words, stride)) = 0
    <3> HIDE DEF count, piece
    <3>1. Pieces(words, stride) = [i \in 1..count(words) |-> piece(words, i)]
      BY <1>0
    <3>2. DOMAIN Pieces(words, stride) = 1..0
      BY <2>1, <3>1
    <3>3. Len(Pieces(words, stride)) \in Nat /\ DOMAIN Pieces(words, stride) = 1..Len(Pieces(words, stride))
      BY <1>1, LenProperties
    <3> QED BY <3>2, <3>3
  <2> QED BY <1>1, <2>2
<1>3. ASSUME words # <<>>
      PROVE  /\ Pieces(words, stride) # <<>>
             /\ Head(Pieces(words, stride)) = FirstOf(words, stride)
             /\ Head(Pieces(words, stride)) # <<>>
             /\ Tail(Pieces(words, stride)) = Pieces(Rest(words, stride), stride)
  <2>1. Len(words) \in Nat \ {0}
    BY <1>3
  <2>2. count(words) \in Nat \ {0}
    <3>1. CASE Len(words) <= stride
      BY <3>1, <2>1, PieceCount
    <3>2. CASE Len(words) > stride
      <4>1. Len(words) - stride \in Nat
        BY <3>2, <2>1
      <4>2. ((Len(words) - stride) + stride - 1) \div stride \in Nat
        BY <4>1, PieceCount
      <4> QED BY <4>2, <3>2, <2>1, PieceCount
    <3> QED BY <3>1, <3>2, <2>1
  <2>3. piece(words, 1) = FirstOf(words, stride)
    <3>1. (1 - 1) * stride = 0
      OBVIOUS
    <3>2. SubSeq(words, 1, Len(words)) = words
      <4> HIDE DEF count, piece
      <4> QED BY SubSeqFull
    <3>3. (1 - 1) * stride + 1 = 1
      BY <3>1
    <3> QED BY <3>2, <3>3
  <2>4. FirstOf(words, stride) # <<>>
    BY <2>1, FirstIs DEF Capped
  <2>5. Pieces(words, stride) # <<>> /\ Head(Pieces(words, stride)) = piece(words, 1)
    <3> HIDE DEF count, piece
    <3> QED BY <1>0, <2>2
  <2>6. Tail(Pieces(words, stride)) = Pieces(Rest(words, stride), stride)
    <3> DEFINE rest == Rest(words, stride)
    <3>1. /\ rest \in Seq(Nat) /\ Len(rest) = IF stride < Len(words) THEN Len(words) - stride ELSE 0
          /\ \A place \in Nat : SubSeq(rest, place + 1, Len(rest)) = Rest(words, place + stride)
      BY RestIs, RestOfRest DEF Rest
    <3> HIDE DEF rest
    <3>2. count(rest) = count(words) - 1
      <4>0. Len(rest) \in Nat
        BY <3>1
      <4>1. CASE Len(words) <= stride
        <5>1. Len(rest) = 0
          BY <4>1, <3>1, <2>1
        <5>2. count(rest) = 0
          BY <5>1, <4>0, PieceCount
        <5>3. count(words) = 1
          BY <4>1, <2>1, PieceCount
        <5> HIDE DEF count
        <5> QED BY <5>2, <5>3
      <4>2. CASE Len(words) > stride
        <5>1. Len(rest) = Len(words) - stride
          BY <4>2, <3>1, <2>1
        <5>2. count(words) = ((Len(words) - stride) + stride - 1) \div stride + 1
          BY <4>2, <2>1, PieceCount
        <5>3. count(rest) = ((Len(words) - stride) + stride - 1) \div stride
          BY <5>1
        <5>4. count(rest) \in Nat /\ count(words) = count(rest) + 1
          BY <1>0, <3>1, <5>2, <5>3
        <5> HIDE DEF count
        <5> QED BY <5>4
      <4> QED BY <4>1, <4>2, <2>1
    <3>3. ASSUME NEW i \in 1..count(rest) PROVE piece(rest, i) = piece(words, i + 1)
      <4>0. i \in Nat \ {0}
        BY <3>1, <3>3, <1>0
      <4>1. (i + 1 - 1) * stride = (i - 1) * stride + stride /\ (i - 1) * stride \in Nat
        BY <4>0
      <4> DEFINE place == (i - 1) * stride
      <4>2. place \in Nat /\ (i + 1 - 1) * stride = place + stride
        BY <4>1
      <4> HIDE DEF place
      <4>3. SubSeq(rest, place + 1, Len(rest)) = SubSeq(words, place + stride + 1, Len(words))
        <5>1. SubSeq(rest, place + 1, Len(rest)) = Rest(words, place + stride)
          BY <4>2, <3>1
        <5> QED BY <5>1 DEF Rest
      <4>4. SubSeq(rest, (i - 1) * stride + 1, Len(rest)) = SubSeq(words, (i + 1 - 1) * stride + 1, Len(words))
        <5>1. place = (i - 1) * stride /\ place + stride = (i + 1 - 1) * stride
          BY <4>2 DEF place
        <5> HIDE DEF place
        <5> QED BY <4>3, <5>1
      <4>5. piece(words, i + 1) = FirstOf(SubSeq(words, (i + 1 - 1) * stride + 1, Len(words)), stride)
        OBVIOUS
      <4>6. piece(rest, i) = FirstOf(SubSeq(rest, (i - 1) * stride + 1, Len(rest)), stride)
        OBVIOUS
      <4> HIDE DEF piece
      <4> QED BY <4>4, <4>5, <4>6
    <3> HIDE DEF count, piece
    <3>4. /\ Tail(Pieces(words, stride)) = [i \in 1..(count(words) - 1) |-> piece(words, i + 1)]
          /\ Pieces(rest, stride) = [i \in 1..count(rest) |-> piece(rest, i)]
      <4>1. Pieces(rest, stride) = [i \in 1..count(rest) |-> piece(rest, i)]
        BY <1>0, <3>1
      <4>2. Pieces(words, stride) = [i \in 1..count(words) |-> piece(words, i)] /\ count(words) \in Nat \ {0}
        BY <1>0, <2>2
      <4>3. Len(Pieces(words, stride)) = count(words)
        BY <4>2
      <4>4. Tail(Pieces(words, stride)) = [i \in 1..(Len(Pieces(words, stride)) - 1) |-> Pieces(words, stride)[i + 1]]
        BY <1>1, <4>3, <4>2
      <4>5. \A i \in 1..(count(words) - 1) : Pieces(words, stride)[i + 1] = piece(words, i + 1)
        BY <4>2
      <4> QED BY <4>1, <4>3, <4>4, <4>5
    <3>5. Tail(Pieces(words, stride)) = Pieces(rest, stride)
      BY <3>2, <3>3, <3>4
    <3> QED BY <3>5 DEF rest
  <2> QED BY <2>3, <2>4, <2>5, <2>6
<1> QED BY <1>1, <1>2, <1>3

\* Two starts of a text that are equally long are the same.
LEMMA StartsOfOneLength ==
  ASSUME NEW words, NEW a, NEW b, a = FirstOf(words, Len(a)), b = FirstOf(words, Len(b)), Len(a) = Len(b)
  PROVE  a = b
OBVIOUS

\* What is longer than the text starts with all of it.
LEMMA FirstOfMany ==
  ASSUME NEW words \in Seq(Nat), NEW n \in Nat
  PROVE  FirstOf(words, n) = FirstOf(words, Len(FirstOf(words, n)))
<1>1. Len(FirstOf(words, n)) = Capped(n, Len(words)) /\ Len(words) \in Nat
  BY FirstIs
<1>2. Capped(Capped(n, Len(words)), Len(words)) = Capped(n, Len(words))
  BY <1>1 DEF Capped
<1> QED BY <1>1, <1>2 DEF FirstOf

\* The start of a start.
LEMMA FirstOfFirst ==
  ASSUME NEW words \in Seq(Nat), NEW begin \in Seq(Nat), begin = FirstOf(words, Len(begin)), NEW n \in Nat
  PROVE  FirstOf(begin, n) = FirstOf(words, Len(FirstOf(begin, n)))
<1> DEFINE a == FirstOf(begin, n)
           b == FirstOf(words, Len(a))
<1>1. /\ a \in Seq(Nat) /\ Len(a) = Capped(n, Len(begin)) /\ Len(a) \in Nat
      /\ \A i \in 1..Len(a) : a[i] = begin[i]
  BY FirstIs
<1>2. /\ b \in Seq(Nat) /\ Len(b) = Capped(Len(a), Len(words))
      /\ \A i \in 1..Len(b) : b[i] = words[i]
  BY <1>1, FirstIs
<1>3. /\ Len(begin) \in Nat /\ Len(words) \in Nat /\ Len(begin) = Capped(Len(begin), Len(words))
      /\ \A i \in 1..Len(begin) : begin[i] = words[i]
  BY FirstIs
<1> HIDE DEF a, b
<1>4. Len(a) = Len(b) /\ Len(a) <= Len(begin)
  BY <1>1, <1>2, <1>3 DEF Capped
<1>5. \A i \in 1..Len(a) : a[i] = b[i]
  <2> SUFFICES ASSUME NEW i \in 1..Len(a) PROVE a[i] = b[i]
    OBVIOUS
  <2>1. i \in 1..Len(begin) /\ i \in 1..Len(b)
    BY <1>1, <1>3, <1>4
  <2> QED BY <1>1, <1>2, <1>3, <2>1
<1>6. a = b
  BY <1>1, <1>2, <1>4, <1>5, SeqEqual
<1> QED BY <1>6 DEF a, b

\* A start and the piece that comes next are a start.
LEMMA StartGrows ==
  ASSUME NEW words \in Seq(Nat), NEW begin \in Seq(Nat), begin = FirstOf(words, Len(begin)), NEW n \in Nat
  PROVE  LET more == begin \o FirstOf(Rest(words, Len(begin)), n)
         IN  /\ more \in Seq(Nat) /\ Len(begin) <= Len(more)
             /\ more = FirstOf(words, Len(more))
             /\ Rest(Rest(words, Len(begin)), n) = Rest(words, Len(more))
<1> DEFINE k == Len(begin)
           rest == Rest(words, k)
           piece == FirstOf(rest, n)
           more == begin \o piece
<1>1. /\ k \in Nat /\ Len(words) \in Nat /\ k <= Len(words)
      /\ \A i \in 1..k : begin[i] = words[i]
  <2>1. Len(FirstOf(words, k)) = Capped(k, Len(words)) /\ \A i \in 1..Len(FirstOf(words, k)) : FirstOf(words, k)[i] = words[i]
    BY FirstIs
  <2> QED BY <2>1 DEF Capped
<1>2. /\ rest \in Seq(Nat) /\ Len(rest) = Len(words) - k
      /\ \A i \in 1..Len(rest) : rest[i] = words[k + i]
  BY <1>1, RestIs
<1>3. /\ piece \in Seq(Nat) /\ Len(piece) = Capped(n, Len(rest))
      /\ \A i \in 1..Len(piece) : piece[i] = rest[i]
  BY <1>2, FirstIs
<1> HIDE DEF piece, rest
<1>4. /\ more \in Seq(Nat) /\ Len(more) = k + Len(piece) /\ Len(piece) \in Nat /\ Len(piece) <= Len(rest)
      /\ \A i \in 1..k : more[i] = begin[i]
      /\ \A i \in 1..Len(piece) : more[k + i] = piece[i]
  <2>1. Len(piece) \in Nat /\ Len(piece) <= Len(rest)
    BY <1>2, <1>3 DEF Capped
  <2>2. more = begin \o piece /\ begin \in Seq(Nat) /\ piece \in Seq(Nat)
    BY <1>3
  <2>3. more \in Seq(Nat) /\ Len(more) = k + Len(piece)
    BY <2>2
  <2>4. \A i \in 1..k : more[i] = begin[i]
    BY <2>1, <2>2
  <2>5. \A i \in 1..Len(piece) : more[k + i] = piece[i]
    BY <2>1, <2>2
  <2> QED BY <2>1, <2>3, <2>4, <2>5
<1>5. Len(more) \in Nat /\ Len(more) <= Len(words) /\ k <= Len(more)
  BY <1>1, <1>2, <1>4
<1> HIDE DEF more
<1>6. /\ FirstOf(words, Len(more)) \in Seq(Nat) /\ Len(FirstOf(words, Len(more))) = Len(more)
      /\ \A i \in 1..Len(more) : FirstOf(words, Len(more))[i] = words[i]
  BY <1>1, <1>5, FirstIs DEF Capped
<1>7. ASSUME NEW i \in 1..Len(more) PROVE more[i] = words[i]
  <2>1. CASE i <= k
    <3>1. i \in 1..k
      BY <2>1, <1>1
    <3>2. more[i] = begin[i] /\ begin[i] = words[i]
      BY <1>1, <1>4, <3>1
    <3> QED BY <3>2
  <2>2. CASE i > k
    <3>1. i - k \in 1..Len(piece) /\ i = k + (i - k)
      BY <2>2, <1>1, <1>4, <1>5
    <3> DEFINE m == i - k
    <3>2. m \in 1..Len(piece) /\ i = k + m /\ m \in 1..Len(rest)
      BY <3>1, <1>2, <1>4
    <3> HIDE DEF m
    <3>3. more[k + m] = piece[m] /\ piece[m] = rest[m] /\ rest[m] = words[k + m]
      BY <3>2, <1>2, <1>3, <1>4
    <3> QED BY <3>2, <3>3
  <2> QED BY <2>1, <2>2, <1>1, <1>5
<1>8. more = FirstOf(words, Len(more))
  BY <1>4, <1>6, <1>7, SeqEqual
<1>9. Rest(rest, n) = Rest(words, Len(more))
  <2>1. Rest(rest, n) = Rest(words, n + k)
    BY <1>1, RestOfRest DEF rest
  <2>2. CASE n <= Len(rest)
    BY <2>1, <2>2, <1>1, <1>2, <1>3, <1>4 DEF Capped
  <2>3. CASE n > Len(rest)
    <3>1. Len(more) = Len(words) /\ n + k > Len(words)
      BY <2>3, <1>1, <1>2, <1>3, <1>4 DEF Capped
    <3>2. /\ Rest(words, Len(more)) \in Seq(Nat) /\ Rest(words, n + k) \in Seq(Nat)
          /\ Len(Rest(words, Len(more))) = 0 /\ Len(Rest(words, n + k)) = 0
      BY <3>1, <1>1, RestIs
    <3>3. Rest(words, Len(more)) = <<>> /\ Rest(words, n + k) = <<>>
      BY <3>2
    <3> QED BY <2>1, <3>3
  <2> QED BY <2>2, <2>3, <1>1, <1>2
<1> QED BY <1>4, <1>5, <1>8, <1>9 DEF more, piece, rest

-----------------------------------------------------------------------------
\* The invariant

PreviewType == [thinking : Nat \X Nat, reply : Seq(Nat)]
ReplyStreamType == [message : Nat, buffer : Seq(Nat), thought : Nat, last : PreviewType, cooling : BOOLEAN, turn : Turns]
ShownType == [turn : Turns, by : Nat, thinking : Nat \X Nat, reply : Seq(Nat)]
RunningType == [no : Turns, size : Nat \ {0}, thinks : BOOLEAN, stream : Nat, deltas : Seq(Seq(Nat))]
PublishedType == [turn : Turns, size : Nat \ {0}, streamed : BOOLEAN, thinking : BOOLEAN]
Attempts == 1..3
WorkType == [turn : Turns, size : Nat \ {0}, streamed : BOOLEAN, thinking : BOOLEAN, attempt : Attempts,
             notice : BOOLEAN, way : {"final", "push", "rich", "plain", "again", "block"}, stream : Nat,
             left : Seq(Seq(Nat))]
ApiCallType == [stream : Nat \ {0}, preview : PreviewType, edits : BOOLEAN]
OutcomeType == [result : {"no", "whole", "part", "lost", "notice", "gone"}, due : SUBSET Seq(Nat)]

RepliesTypes ==
    /\ chatKind \in {"", "private", "group"} /\ begun \in 0..MaxTurns
    /\ apiFaults \in 0..MaxApiFaults /\ stolen \subseteq Turns
    /\ replyStreams \in Seq(ReplyStreamType) /\ shown \in Seq(ShownType)
    /\ turn \in {NoTurn} \cup RunningType
    /\ activeStream \in 0..Len(replyStreams)
    /\ outbound \in Seq(PublishedType)
    /\ delivery \in {NoDelivery} \cup WorkType
    /\ calls \in [{"turn", "dispatcher"} -> {NoApiCall} \cup ApiCallType]
    /\ outcomes \in [Turns -> OutcomeType]

\* A stream's message is one that it has sent.
MessagesFollow ==
    /\ \A s \in 1..Len(replyStreams) :
        /\ replyStreams[s].message \in 0..Len(shown)
        /\ replyStreams[s].message # 0 =>
            /\ shown[replyStreams[s].message].by = s
            /\ shown[replyStreams[s].message].turn = replyStreams[s].turn
    /\ \A i \in 1..Len(shown) : shown[i].by \in 0..Len(replyStreams)

\* A call is for the stream that its caller is with; an edit needs a message.
CallsFollow ==
    /\ calls["turn"] # NoApiCall => turn # NoTurn /\ calls["turn"].stream = turn.stream
    /\ calls["dispatcher"] # NoApiCall =>
        /\ delivery # NoDelivery /\ delivery.way \in {"final", "push"}
        /\ calls["dispatcher"].stream = delivery.stream
    /\ \A w \in {"turn", "dispatcher"} :
        calls[w] # NoApiCall =>
            /\ calls[w].stream \in 1..Len(replyStreams)
            /\ calls[w].edits => replyStreams[calls[w].stream].message # 0
            /\ stolen = {} /\ ~calls[w].edits => replyStreams[calls[w].stream].message = 0

\* Turns, their replies and the deliveries follow each other, and what is not brought has no outcome.
RepliesInRow ==
    /\ turn # NoTurn => turn.no = begun
    /\ \A i \in 1..Len(outbound) :
        /\ outbound[i].turn <= begun /\ (turn # NoTurn => outbound[i].turn < begun)
        /\ \A j \in 1..Len(outbound) : i < j => outbound[i].turn < outbound[j].turn
    /\ delivery # NoDelivery =>
        /\ delivery.turn <= begun /\ (turn # NoTurn => delivery.turn < begun)
        /\ \A i \in 1..Len(outbound) : delivery.turn < outbound[i].turn
    /\ \A k \in Turns : outcomes[k].result # "no" =>
        /\ k <= begun /\ (turn # NoTurn => k < begun)
        /\ \A i \in 1..Len(outbound) : k < outbound[i].turn
        /\ delivery # NoDelivery => k < delivery.turn \/ (k = delivery.turn /\ delivery.way = "block")

\* Which stream belongs to whom.
StreamsFollow ==
    /\ activeStream # 0 => replyStreams[activeStream].turn = begun /\ chatKind = "private"
    /\ turn # NoTurn =>
        /\ chatKind # "" /\ activeStream \in {0, turn.stream}
        /\ turn.stream # 0 => turn.stream \in 1..Len(replyStreams) /\ replyStreams[turn.stream].turn = turn.no
    /\ delivery # NoDelivery /\ delivery.way \in {"final", "push"} =>
        /\ delivery.stream \in 1..Len(replyStreams) /\ delivery.stream # activeStream
        /\ \/ replyStreams[delivery.stream].turn = delivery.turn
           \/ replyStreams[delivery.stream].turn > delivery.turn /\ delivery.way = "final" /\ delivery.turn \in stolen
    /\ delivery # NoDelivery /\ delivery.streamed /\ activeStream # 0 => delivery.turn < begun

\* What a stream has, shows and is about to show of a text: a start of it.
StartOf(preview, words) ==
    preview.thinking = <<0, 0>> /\ preview.reply = FirstOf(words, Len(preview.reply))

Shown(stream, scroll) ==
    IF stream.message = 0 THEN NothingShown
    ELSE [thinking |-> scroll[stream.message].thinking, reply |-> scroll[stream.message].reply]

On(stream, preview, words) ==
    /\ stream.thought = 0 /\ stream.buffer = FirstOf(words, Len(stream.buffer))
    /\ StartOf(stream.last, words) /\ StartOf(preview, words)
    /\ Len(stream.last.reply) <= Len(preview.reply)
    /\ Len(preview.reply) <= Len(stream.buffer) /\ Len(preview.reply) <= MessageLimit
    /\ stream.message = 0 => stream.last = NothingShown

CallOn(call, stream, words) ==
    call # NoApiCall =>
        StartOf(call.preview, words) /\ Len(call.preview.reply) = Capped(Len(stream.buffer), MessageLimit)

\* Or something that the text alone can never be.
Strays(preview, words) ==
    preview.thinking # <<0, 0>> \/ (preview.reply # <<>> /\ preview.reply[1] # words[1])

Off(stream, words) ==
    /\ stream.thought > 0 \/ (stream.buffer # <<>> /\ stream.buffer[1] # words[1])
    /\ stream.last = NothingShown \/ Strays(stream.last, words)

CallOff(call, words) == call # NoApiCall => Strays(call.preview, words)

Ready(s, words) == On(replyStreams[s], Shown(replyStreams[s], shown), words) \/ Off(replyStreams[s], words)

\* The stream of the turn, while no other reply has taken it
TurnStreams ==
    turn # NoTurn /\ turn.stream # 0 /\ activeStream = turn.stream =>
        LET words == AnswerText(turn.no, turn.size)
            stream == replyStreams[turn.stream]
        IN  \/ /\ stream = NewStream(turn.no) /\ calls["turn"] = NoApiCall /\ turn.deltas # <<>>
               /\ Head(turn.deltas) = <<>> \/ Head(turn.deltas)[1] # words[1]
            \/ /\ On(stream, Shown(stream, shown), words) /\ CallOn(calls["turn"], stream, words)
               /\ turn.deltas = Pieces(Rest(words, Len(stream.buffer)), DeltaSize)
            \/ Off(stream, words) /\ CallOff(calls["turn"], words)

\* The stream of a reply that waits for the dispatcher, or is with it
RepliesReady ==
    /\ \A i \in 1..Len(outbound) :
        outbound[i].streamed /\ activeStream # 0 /\ replyStreams[activeStream].turn = outbound[i].turn =>
            Ready(activeStream, AnswerText(outbound[i].turn, outbound[i].size))
    /\ delivery # NoDelivery /\ delivery.way = "final" /\ calls["dispatcher"] = NoApiCall /\ delivery.turn \notin stolen =>
        Ready(delivery.stream, ReplyText(delivery))

\* What the dispatcher has brought so far
DeliveryGoesOn ==
    /\ delivery # NoDelivery /\ delivery.way = "final" /\ calls["dispatcher"] # NoApiCall =>
        calls["dispatcher"].preview = Plain(FirstOf(ReplyText(delivery), MessageLimit))
    /\ delivery # NoDelivery /\ delivery.way = "push" =>
        LET stream == replyStreams[delivery.stream]
        IN  /\ On(stream, Shown(stream, shown), ReplyText(delivery))
            /\ CallOn(calls["dispatcher"], stream, ReplyText(delivery))
            /\ delivery.left = Pieces(Rest(ReplyText(delivery), Len(stream.buffer)), StreamStep)
    /\ delivery # NoDelivery /\ delivery.way \in {"rich", "plain"} =>
        \A piece \in ToSet(Pieces(ReplyText(delivery), MessageLimit)) :
            \/ piece \in ToSet(delivery.left)
            \/ \E i \in 1..Len(shown) : shown[i].turn = delivery.turn /\ shown[i].by = 0 /\ shown[i].reply = piece

RepliesInv ==
    /\ RepliesTypes /\ MessagesFollow /\ CallsFollow /\ RepliesInRow /\ StreamsFollow
    /\ TurnStreams /\ RepliesReady /\ DeliveryGoesOn /\ AnswersAreSeen /\ StreamsHoldTheirs

-----------------------------------------------------------------------------
\* What the streams and texts are

\* A message holds something.
LEMMA LimitIs == MessageLimit \in Nat \ {0}
BY LayoutAssumption

\* The text of a turn's answer.
LEMMA AnswerIs ==
  ASSUME NEW k \in Nat, NEW size \in Nat \ {0}
  PROVE  /\ AnswerText(k, size) \in Seq(Nat) /\ Len(AnswerText(k, size)) = size
         /\ AnswerText(k, size) # <<>> /\ AnswerText(k, size)[1] = 100 * k + 1
BY DEF AnswerText

\* The text of a reply.
LEMMA ReplyTextIs ==
  ASSUME NEW reply, reply.turn \in Nat, reply.size \in Nat \ {0}
  PROVE  ReplyText(reply) \in Seq(Nat) /\ ReplyText(reply) # <<>>
<1>1. Notice \in Seq(Nat) /\ Notice # <<>>
  BY DEF Notice
<1>2. AnswerText(reply.turn, reply.size) \in Seq(Nat) /\ AnswerText(reply.turn, reply.size) # <<>>
  BY AnswerIs
<1> QED BY <1>1, <1>2 DEF ReplyText

\* The sizes of a preview: with thinking, some of it is there.
LEMMA SizesOfPreview ==
  ASSUME NEW reply \in Nat, NEW thinking \in Nat
  PROVE  /\ StreamPreview(reply, thinking).tail \in Nat /\ StreamPreview(reply, thinking).reply \in Nat
         /\ thinking = 0 => /\ StreamPreview(reply, thinking).tail = 0
                            /\ StreamPreview(reply, thinking).reply = Capped(reply, MessageLimit)
         /\ thinking > 0 => StreamPreview(reply, thinking).tail > 0
<1>1. /\ MessageLimit \in Nat /\ PreviewOverhead \in Nat /\ ThinkingCap \in Nat /\ ThinkingMin \in Nat
      /\ 5 <= PreviewOverhead /\ 2 <= ThinkingMin /\ ThinkingMin <= ThinkingCap
      /\ PreviewOverhead + ThinkingCap < MessageLimit
  BY LayoutAssumption
<1>2. ThinkingBudget(reply) \in Nat /\ 2 <= ThinkingBudget(reply) /\ ThinkingBudget(reply) <= ThinkingCap
  BY <1>1 DEF ThinkingBudget, Capped, Raised
<1>3. ReplyBudget(reply) \in Nat
  BY <1>1, <1>2 DEF ReplyBudget
<1>4. CASE thinking = 0
  BY <1>1, <1>4 DEF StreamPreview, Capped
<1>5. CASE thinking > 0 /\ reply = 0
  BY <1>1, <1>5 DEF StreamPreview, Capped
<1>6. CASE thinking > 0 /\ reply > 0
  BY <1>1, <1>2, <1>3, <1>6 DEF StreamPreview, Capped
<1> QED BY <1>4, <1>5, <1>6

\* What a stream would show.
LEMMA PreviewIs ==
  ASSUME NEW stream \in ReplyStreamType
  PROVE  /\ Preview(stream) \in PreviewType
         /\ stream.thought > 0 => Preview(stream).thinking # <<0, 0>>
         /\ stream.thought = 0 => /\ Preview(stream).thinking = <<0, 0>>
                                  /\ Preview(stream).reply = FirstOf(stream.buffer, Capped(Len(stream.buffer), MessageLimit))
<1>1. stream.buffer \in Seq(Nat) /\ stream.thought \in Nat /\ Len(stream.buffer) \in Nat
  BY DEF ReplyStreamType
<1> DEFINE sizes == StreamPreview(Len(stream.buffer), stream.thought)
<1>2. /\ sizes.tail \in Nat /\ sizes.reply \in Nat
      /\ stream.thought = 0 => sizes.tail = 0 /\ sizes.reply = Capped(Len(stream.buffer), MessageLimit)
      /\ stream.thought > 0 => sizes.tail > 0
  BY <1>1, SizesOfPreview
<1>3. /\ Preview(stream) = [thinking |-> <<Capped(stream.thought, sizes.tail), sizes.tail>>,
                            reply |-> FirstOf(stream.buffer, sizes.reply)]
  BY DEF Preview
<1> HIDE DEF sizes
<1>4. FirstOf(stream.buffer, sizes.reply) \in Seq(Nat)
  BY <1>1, <1>2, FirstIs
<1>5. Capped(stream.thought, sizes.tail) \in Nat
  BY <1>1, <1>2 DEF Capped
<1>6. stream.thought = 0 => Capped(stream.thought, sizes.tail) = 0
  BY <1>1, <1>2 DEF Capped
<1> QED BY <1>2, <1>3, <1>4, <1>5, <1>6 DEF PreviewType

\* A preview of a start of a text, or of something else.
LEMMA PreviewOfStart ==
  ASSUME NEW words \in Seq(Nat), NEW stream \in ReplyStreamType, stream.thought = 0,
         stream.buffer = FirstOf(words, Len(stream.buffer))
  PROVE  /\ StartOf(Preview(stream), words)
         /\ Len(Preview(stream).reply) = Capped(Len(stream.buffer), MessageLimit)
<1>1. stream.buffer \in Seq(Nat) /\ Len(stream.buffer) \in Nat /\ MessageLimit \in Nat
  BY LimitIs DEF ReplyStreamType
<1>2. Capped(Len(stream.buffer), MessageLimit) \in Nat
  BY <1>1 DEF Capped
<1> DEFINE n == Capped(Len(stream.buffer), MessageLimit)
<1>3. n \in Nat /\ n <= Len(stream.buffer)
  BY <1>1 DEF Capped
<1>4. Preview(stream).thinking = <<0, 0>> /\ Preview(stream).reply = FirstOf(stream.buffer, n)
  BY PreviewIs
<1> HIDE DEF n
<1>5. Len(FirstOf(stream.buffer, n)) = n
  BY <1>1, <1>3, FirstIs DEF Capped
<1>6. FirstOf(stream.buffer, n) = FirstOf(words, Len(FirstOf(stream.buffer, n)))
  BY <1>1, <1>3, FirstOfFirst
<1> QED BY <1>4, <1>5, <1>6 DEF StartOf, n

\* A stream with other words, or with thinking, shows what is no start of the text.
LEMMA PreviewOfOther ==
  ASSUME NEW words \in Seq(Nat), NEW stream \in ReplyStreamType,
         stream.thought > 0 \/ (stream.buffer # <<>> /\ stream.buffer[1] # words[1])
  PROVE  Strays(Preview(stream), words)
<1>1. stream.buffer \in Seq(Nat) /\ Len(stream.buffer) \in Nat /\ MessageLimit \in Nat \ {0} /\ stream.thought \in Nat
  BY LimitIs DEF ReplyStreamType
<1>2. CASE stream.thought > 0
  BY <1>2, PreviewIs DEF Strays
<1>3. CASE stream.thought = 0
  <2> DEFINE n == Capped(Len(stream.buffer), MessageLimit)
  <2>1. stream.buffer # <<>> /\ stream.buffer[1] # words[1] /\ Len(stream.buffer) > 0
    BY <1>1, <1>3
  <2>2. n \in Nat \ {0} /\ n <= Len(stream.buffer)
    BY <1>1, <2>1 DEF Capped
  <2>3. Preview(stream).reply = FirstOf(stream.buffer, n)
    BY <1>3, PreviewIs
  <2> HIDE DEF n
  <2>4. Len(FirstOf(stream.buffer, n)) = n /\ FirstOf(stream.buffer, n)[1] = stream.buffer[1]
    <3>1. /\ Len(FirstOf(stream.buffer, n)) = Capped(n, Len(stream.buffer))
          /\ \A i \in 1..Len(FirstOf(stream.buffer, n)) : FirstOf(stream.buffer, n)[i] = stream.buffer[i]
      BY <1>1, <2>2, FirstIs
    <3>2. Capped(n, Len(stream.buffer)) = n
      BY <1>1, <2>2 DEF Capped
    <3>3. 1 \in 1..n
      BY <2>2
    <3> QED BY <3>1, <3>2, <3>3
  <2>5. FirstOf(stream.buffer, n) # <<>>
    BY <2>2, <2>4
  <2> QED BY <2>1, <2>3, <2>4, <2>5 DEF Strays
<1> QED BY <1>1, <1>2, <1>3

-----------------------------------------------------------------------------
\* What a call does

\* One element of a sequence is replaced.
LEMMA OneReplaced ==
  ASSUME NEW T, NEW pieces \in Seq(T), NEW k \in 1..Len(pieces), NEW x \in T
  PROVE  /\ [pieces EXCEPT ![k] = x] \in Seq(T) /\ Len([pieces EXCEPT ![k] = x]) = Len(pieces)
         /\ [pieces EXCEPT ![k] = x][k] = x
         /\ \A i \in 1..Len(pieces) : i # k => [pieces EXCEPT ![k] = x][i] = pieces[i]
OBVIOUS

\* What was shown, and then copies of one message.
EndsWith(all, one, copies) ==
    /\ all \in Seq(ShownType) /\ Len(all) = Len(shown) + copies
    /\ \A i \in 1..Len(shown) : all[i] = shown[i]
    /\ \A i \in (Len(shown) + 1)..(Len(shown) + copies) : all[i] = one

\* Messages that arrive come last.
LEMMA ArrivedIs ==
  ASSUME shown \in Seq(ShownType), NEW k \in Turns, NEW by \in Nat, NEW preview \in PreviewType, NEW copies \in Nat
  PROVE  EndsWith(Arrived(k, by, preview, copies), Message(k, by, preview), copies)
<1> DEFINE more == [i \in 1..copies |-> Message(k, by, preview)]
<1>1. Message(k, by, preview) \in ShownType
  BY DEF Message, ShownType, PreviewType
<1>2. more \in Seq(ShownType) /\ Len(more) = copies /\ \A i \in 1..copies : more[i] = Message(k, by, preview)
  BY <1>1
<1>3. Arrived(k, by, preview, copies) = shown \o more
  BY DEF Arrived
<1> HIDE DEF more
<1>4. ASSUME NEW i \in (Len(shown) + 1)..(Len(shown) + copies)
      PROVE  (shown \o more)[i] = Message(k, by, preview)
  <2> DEFINE j == i - Len(shown)
  <2>1. j \in 1..copies /\ i = Len(shown) + j /\ Len(shown) \in Nat
    OBVIOUS
  <2> HIDE DEF j
  <2>2. (shown \o more)[Len(shown) + j] = more[j]
    BY <1>2, <2>1
  <2> QED BY <1>2, <2>1, <2>2
<1>5. shown \o more \in Seq(ShownType) /\ Len(shown \o more) = Len(shown) + copies
  BY <1>2
<1>6. \A i \in 1..Len(shown) : (shown \o more)[i] = shown[i]
  BY <1>2
<1> QED BY <1>3, <1>4, <1>5, <1>6 DEF EndsWith

\* How a call ends for its stream and the chat.
CallOver(w, ok) ==
    LET s == calls[w].stream
        p == calls[w].preview
    IN  /\ calls[w] \in ApiCallType /\ s \in 1..Len(replyStreams)
        /\ calls' = [calls EXCEPT ![w] = NoApiCall]
        /\ replyStreams' \in Seq(ReplyStreamType) /\ Len(replyStreams') = Len(replyStreams)
        /\ \A r \in 1..Len(replyStreams) : r # s => replyStreams'[r] = replyStreams[r]
        /\ replyStreams'[s].buffer = replyStreams[s].buffer /\ replyStreams'[s].thought = replyStreams[s].thought
        /\ replyStreams'[s].turn = replyStreams[s].turn
        /\ shown' \in Seq(ShownType) /\ Len(shown) <= Len(shown')
        /\ \A i \in 1..Len(shown) :
            shown'[i] = shown[i] \/ (i = replyStreams[s].message /\ calls[w].edits /\ shown'[i] = Message(replyStreams[s].turn, s, p))
        /\ \A i \in (Len(shown) + 1)..Len(shown') : shown'[i] = Message(replyStreams[s].turn, s, p)
        /\ ~ok => replyStreams'[s].last = replyStreams[s].last /\ replyStreams'[s].message = replyStreams[s].message
        /\ ok => /\ replyStreams'[s].last = p /\ replyStreams'[s].message \in 1..Len(shown')
                 /\ shown'[replyStreams'[s].message] = Message(replyStreams[s].turn, s, p)
                 /\ calls[w].edits => replyStreams'[s].message = replyStreams[s].message
                 /\ ~calls[w].edits => replyStreams'[s].message > Len(shown)
        /\ apiFaults' \in apiFaults..MaxApiFaults
        /\ ~ok => apiFaults' > 0
        /\ apiFaults' = 0 => Len(shown') = Len(shown) + (IF calls[w].edits THEN 0 ELSE 1)

\* A call that ends is one that has ended.
LEMMA CallIs ==
  ASSUME RepliesTypes, MessagesFollow, CallsFollow, NEW w \in {"turn", "dispatcher"},
         NEW ok \in BOOLEAN, NEW raises \in BOOLEAN, CallEnds(w, ok, raises)
  PROVE  CallOver(w, ok)
<1> DEFINE s == calls[w].stream
           p == calls[w].preview
<1>1. /\ calls[w] \in ApiCallType /\ calls[w] # NoApiCall /\ s \in 1..Len(replyStreams) /\ p \in PreviewType
      /\ calls[w].edits => replyStreams[s].message # 0
      /\ calls' = [calls EXCEPT ![w] = NoApiCall]
  BY DEF CallEnds, RepliesTypes, CallsFollow, ApiCallType
<1>2. /\ replyStreams \in Seq(ReplyStreamType) /\ shown \in Seq(ShownType) /\ replyStreams[s] \in ReplyStreamType
      /\ Len(shown) \in Nat /\ Len(replyStreams) \in Nat /\ replyStreams[s].turn \in Turns
      /\ apiFaults \in 0..MaxApiFaults /\ MaxApiFaults \in Nat /\ SendAttempts \in Nat \ {0}
  <2>1. replyStreams \in Seq(ReplyStreamType) /\ shown \in Seq(ShownType) /\ apiFaults \in 0..MaxApiFaults
    BY DEF RepliesTypes
  <2>2. replyStreams[s] \in ReplyStreamType
    BY <1>1, <2>1, ElementOfSeq
  <2>3. replyStreams[s].turn \in Turns
    BY <2>2 DEF ReplyStreamType
  <2>4. MaxApiFaults \in Nat /\ SendAttempts \in Nat \ {0}
    BY RepliesAssumption
  <2> HIDE DEF s, p
  <2> QED BY <2>1, <2>2, <2>3, <2>4, LenProperties
<1>3. /\ replyStreams[s].message \in 0..Len(shown)
      /\ replyStreams[s].message # 0 => shown[replyStreams[s].message].turn = replyStreams[s].turn
  BY <1>1 DEF MessagesFollow
<1>m. Message(replyStreams[s].turn, s, p) \in ShownType
  BY <1>1, <1>2 DEF Message, ShownType, PreviewType
<1> DEFINE m == replyStreams[s].message
           utterance == Message(replyStreams[s].turn, s, p)
<1>4. CASE calls[w].edits
  <2>1. PICK result \in EditResults :
           EditEnds(w, result) /\ ok = (result = "ok") /\ apiFaults' = apiFaults + IF ok THEN 0 ELSE 1
    BY <1>4 DEF CallEnds
  <2>2. m \in 1..Len(shown) /\ shown[m].turn = replyStreams[s].turn
    BY <1>1, <1>3, <1>4
  <2>3. shown' = IF result \in {"ok", "late"} THEN [shown EXCEPT ![m] = utterance] ELSE shown
    BY <2>1, <2>2 DEF EditEnds
  <2>4. replyStreams' = CASE result = "ok" -> [replyStreams EXCEPT ![s].last = p]
                        [] result = "refused" -> [replyStreams EXCEPT ![s].cooling = TRUE]
                        [] OTHER -> replyStreams
    BY <2>1 DEF EditEnds
  <2> HIDE DEF s, p, utterance
  <2>5. /\ shown' \in Seq(ShownType) /\ Len(shown') = Len(shown)
        /\ \A i \in 1..Len(shown) : shown'[i] = shown[i] \/ (i = m /\ shown'[i] = utterance)
        /\ ok => shown'[m] = utterance
    <3>1. CASE result \in {"ok", "late"}
      <4>1. shown' = [shown EXCEPT ![m] = utterance]
        BY <2>3, <3>1
      <4> HIDE DEF m
      <4> QED BY <1>2, <1>m, <2>1, <2>2, <4>1, OneReplaced DEF utterance
    <3>2. CASE result \notin {"ok", "late"}
      BY <1>2, <2>1, <2>3, <3>2
    <3> QED BY <3>1, <3>2
  <2>6. /\ replyStreams' \in Seq(ReplyStreamType) /\ Len(replyStreams') = Len(replyStreams)
        /\ \A r \in 1..Len(replyStreams) : r # s => replyStreams'[r] = replyStreams[r]
        /\ replyStreams'[s].buffer = replyStreams[s].buffer /\ replyStreams'[s].thought = replyStreams[s].thought
        /\ replyStreams'[s].turn = replyStreams[s].turn /\ replyStreams'[s].message = m
        /\ replyStreams'[s].last = IF ok THEN p ELSE replyStreams[s].last
    <3> DEFINE q == replyStreams[s]
    <3>1. PICK x \in ReplyStreamType : /\ replyStreams' = [replyStreams EXCEPT ![s] = x]
                                  /\ x.buffer = q.buffer /\ x.thought = q.thought /\ x.turn = q.turn
                                  /\ x.message = q.message /\ x.last = IF ok THEN p ELSE q.last
      <4>1. CASE result = "ok"
        <5>1. [q EXCEPT !.last = p] \in ReplyStreamType /\ replyStreams' = [replyStreams EXCEPT ![s] = [q EXCEPT !.last = p]]
          BY <1>1, <1>2, <2>4, <4>1 DEF ReplyStreamType
        <5> QED BY <5>1, <4>1, <2>1 DEF ReplyStreamType
      <4>2. CASE result = "refused"
        <5>1. [q EXCEPT !.cooling = TRUE] \in ReplyStreamType /\ replyStreams' = [replyStreams EXCEPT ![s] = [q EXCEPT !.cooling = TRUE]]
          BY <1>1, <1>2, <2>4, <4>2 DEF ReplyStreamType
        <5> QED BY <5>1, <4>2, <2>1 DEF ReplyStreamType
      <4>3. CASE result \notin {"ok", "refused"}
        <5>1. q \in ReplyStreamType /\ replyStreams' = [replyStreams EXCEPT ![s] = q]
          BY <1>1, <1>2, <2>4, <4>3
        <5> QED BY <5>1, <4>3, <2>1
      <4> QED BY <4>1, <4>2, <4>3
    <3> QED BY <1>1, <1>2, <3>1, OneReplaced
  <2>7. apiFaults' \in apiFaults..MaxApiFaults /\ (~ok => apiFaults' > 0)
    <3>1. CASE ok
      BY <1>2, <2>1, <3>1
    <3>2. CASE ~ok
      <4>1. apiFaults < MaxApiFaults /\ apiFaults' = apiFaults + 1
        BY <2>1, <3>2 DEF EditResults
      <4> QED BY <1>2, <4>1, <3>2
    <3> QED BY <3>1, <3>2
  <2>8. \A i \in (Len(shown) + 1)..Len(shown') : FALSE
    BY <1>2, <2>5
  <2>9. Len(shown) <= Len(shown') /\ calls' = [calls EXCEPT ![w] = NoApiCall] /\ calls[w] \in ApiCallType
    BY <1>1, <1>2, <2>5
  <2>10. \A i \in 1..Len(shown) :
            shown'[i] = shown[i] \/ (i = replyStreams[s].message /\ calls[w].edits /\ shown'[i] = utterance)
    BY <1>4, <2>5
  <2>11. /\ ~ok => replyStreams'[s].last = replyStreams[s].last /\ replyStreams'[s].message = replyStreams[s].message
         /\ ok => /\ replyStreams'[s].last = p /\ replyStreams'[s].message \in 1..Len(shown')
                  /\ shown'[replyStreams'[s].message] = utterance
                  /\ replyStreams'[s].message = replyStreams[s].message
    BY <2>2, <2>5, <2>6
  <2>12. s \in 1..Len(replyStreams) /\ Len(shown') = Len(shown) + 0
    BY <1>1, <1>2, <2>5
  <2> QED BY <1>4, <2>6, <2>7, <2>8, <2>9, <2>10, <2>11, <2>12, <2>5 DEF CallOver, s, p, utterance
<1>5. CASE ~calls[w].edits
  <2>1. PICK result \in SendResults : SendEnds(w, result) /\ ok = result.ok /\ apiFaults' = apiFaults + result.failed
    BY <1>5 DEF CallEnds
  <2>2. /\ result.copies \in Nat /\ result.failed \in Nat /\ apiFaults + result.failed <= MaxApiFaults
        /\ result.ok \in BOOLEAN
        /\ result.ok => result.copies \in 1..(result.failed + 1)
        /\ ~result.ok => result.failed > 0
    BY <1>2 DEF SendResults
  <2>3. /\ shown' = Arrived(replyStreams[s].turn, s, p, result.copies)
        /\ replyStreams' = IF result.ok THEN [replyStreams EXCEPT ![s].message = Len(shown'), ![s].last = p] ELSE replyStreams
    BY <2>1 DEF SendEnds
  <2>4. /\ shown' \in Seq(ShownType) /\ Len(shown') = Len(shown) + result.copies
        /\ \A i \in 1..Len(shown) : shown'[i] = shown[i]
        /\ \A i \in (Len(shown) + 1)..(Len(shown) + result.copies) : shown'[i] = utterance
    <3>1. s \in Nat /\ replyStreams[s].turn \in Turns /\ p \in PreviewType /\ result.copies \in Nat
      BY <1>1, <1>2, <2>2
    <3> HIDE DEF s, p
    <3>2. EndsWith(Arrived(replyStreams[s].turn, s, p, result.copies), utterance, result.copies)
      BY <1>2, <3>1, ArrivedIs DEF utterance
    <3> HIDE DEF utterance
    <3> QED BY <2>3, <3>2 DEF EndsWith
  <2> HIDE DEF s, p, utterance
  <2>5. /\ replyStreams' \in Seq(ReplyStreamType) /\ Len(replyStreams') = Len(replyStreams)
        /\ \A r \in 1..Len(replyStreams) : r # s => replyStreams'[r] = replyStreams[r]
        /\ replyStreams'[s].buffer = replyStreams[s].buffer /\ replyStreams'[s].thought = replyStreams[s].thought
        /\ replyStreams'[s].turn = replyStreams[s].turn
        /\ replyStreams'[s].message = IF ok THEN Len(shown') ELSE m
        /\ replyStreams'[s].last = IF ok THEN p ELSE replyStreams[s].last
    <3>1. Len(shown') \in Nat
      BY <2>4
    <3> DEFINE q == replyStreams[s]
    <3>2. CASE ok
      <4>1. PICK x \in ReplyStreamType : /\ replyStreams' = [replyStreams EXCEPT ![s] = x]
                                    /\ x.buffer = q.buffer /\ x.thought = q.thought /\ x.turn = q.turn
                                    /\ x.message = Len(shown') /\ x.last = p
        <5> DEFINE x == [q EXCEPT !.message = Len(shown'), !.last = p]
        <5>1. replyStreams' = [replyStreams EXCEPT ![s] = x]
          BY <1>1, <1>2, <2>1, <2>3, <3>2
        <5>2. x \in ReplyStreamType
          BY <1>1, <1>2, <3>1 DEF ReplyStreamType
        <5>3. x.buffer = q.buffer /\ x.thought = q.thought /\ x.turn = q.turn /\ x.message = Len(shown') /\ x.last = p
          BY <1>2 DEF ReplyStreamType
        <5> QED BY <5>1, <5>2, <5>3
      <4> QED BY <1>1, <1>2, <3>2, <4>1, OneReplaced
    <3>3. CASE ~ok
      BY <1>1, <1>2, <2>1, <2>3, <3>3
    <3> QED BY <3>2, <3>3
  <2>6. ok => Len(shown') \in (Len(shown) + 1)..(Len(shown) + result.copies)
    BY <1>2, <2>1, <2>2, <2>4
  <2>7. ok => Len(shown') \in 1..Len(shown') /\ Len(shown') > Len(shown) /\ shown'[Len(shown')] = utterance
    BY <1>2, <2>4, <2>6
  <2>8. apiFaults' \in apiFaults..MaxApiFaults /\ (~ok => apiFaults' > 0) /\ (apiFaults' = 0 => result.copies = 1)
    <3>1. apiFaults \in Nat /\ MaxApiFaults \in Nat /\ apiFaults' = apiFaults + result.failed
      BY <1>2, <2>1
    <3>2. apiFaults' = 0 => result.failed = 0
      BY <2>2, <3>1
    <3>3. result.failed = 0 => result.copies \in 1..1
      BY <2>2
    <3> QED BY <2>1, <2>2, <3>1, <3>2, <3>3
  <2>9. /\ Len(shown) <= Len(shown') /\ (apiFaults' = 0 => Len(shown') = Len(shown) + 1)
        /\ \A i \in (Len(shown) + 1)..Len(shown') : shown'[i] = utterance
    BY <1>2, <2>2, <2>4, <2>8
  <2>10. ok => replyStreams'[s].message \in 1..Len(shown') /\ shown'[replyStreams'[s].message] = utterance
               /\ replyStreams'[s].message > Len(shown)
    BY <2>5, <2>7
  <2> HIDE DEF m
  <2> QED BY <1>1, <1>5, <2>4, <2>5, <2>8, <2>9, <2>10 DEF CallOver, s, p, utterance, m
<1> QED BY <1>4, <1>5

\* Who speaks: the stream s, or none.  Only its own messages change.
Spoken(s) ==
    /\ shown' \in Seq(ShownType) /\ Len(shown) <= Len(shown')
    /\ \A i \in 1..Len(shown) :
        \/ shown'[i] = shown[i]
        \/ /\ s # 0 /\ shown[i].by = s /\ shown'[i].by = s
           /\ shown[i].turn = replyStreams[s].turn /\ shown'[i].turn = shown[i].turn
    /\ \A i \in (Len(shown) + 1)..Len(shown') : shown'[i].by = s

\* A call that has ended spoke for its stream alone.
LEMMA EndedIsSpoken ==
  ASSUME RepliesTypes, MessagesFollow, NEW w \in {"turn", "dispatcher"}, NEW ok \in BOOLEAN, CallOver(w, ok)
  PROVE  Spoken(calls[w].stream)
<1> DEFINE s == calls[w].stream
           m == replyStreams[s].message
           utterance == Message(replyStreams[s].turn, s, calls[w].preview)
<1>1. /\ s \in 1..Len(replyStreams)
      /\ shown' \in Seq(ShownType) /\ Len(shown) <= Len(shown')
      /\ \A i \in 1..Len(shown) : shown'[i] = shown[i] \/ (i = m /\ shown'[i] = utterance)
      /\ \A i \in (Len(shown) + 1)..Len(shown') : shown'[i] = utterance
  BY DEF CallOver
<1>2. utterance.by = s /\ utterance.turn = replyStreams[s].turn
  BY DEF Message
<1>3. s # 0
  BY <1>1
<1> HIDE DEF s, m, utterance
<1>4. m # 0 => shown[m].by = s /\ shown[m].turn = replyStreams[s].turn
  BY <1>1 DEF MessagesFollow, m
<1>5. ASSUME NEW i \in 1..Len(shown)
      PROVE  \/ shown'[i] = shown[i]
             \/ /\ s # 0 /\ shown[i].by = s /\ shown'[i].by = s
                /\ shown[i].turn = replyStreams[s].turn /\ shown'[i].turn = shown[i].turn
  <2>1. i # 0
    OBVIOUS
  <2> QED BY <1>1, <1>2, <1>3, <1>4, <2>1
<1>6. \A i \in (Len(shown) + 1)..Len(shown') : shown'[i].by = s
  BY <1>1, <1>2
<1>7. shown' \in Seq(ShownType) /\ Len(shown) <= Len(shown')
  BY <1>1
<1> QED BY <1>5, <1>6, <1>7 DEF Spoken, s

\* What the others have said stays.
LEMMA OthersStand ==
  ASSUME RepliesTypes, MessagesFollow, NEW s \in Nat, Spoken(s)
  PROVE  /\ \A r \in 1..Len(replyStreams) : r # s => Shown(replyStreams[r], shown') = Shown(replyStreams[r], shown)
         /\ \A k \in Turns : s = 0 \/ replyStreams[s].turn # k => Standing(k) \subseteq Standing(k)'
         /\ \A i \in 1..Len(shown) : shown[i].by = 0 => shown'[i] = shown[i]
<1>0. /\ shown \in Seq(ShownType) /\ shown' \in Seq(ShownType) /\ Len(shown) \in Nat /\ Len(shown') \in Nat
      /\ Len(shown) <= Len(shown') /\ DOMAIN shown = 1..Len(shown) /\ DOMAIN shown' = 1..Len(shown')
  BY LenProperties DEF RepliesTypes, Spoken
<1>1. ASSUME NEW i \in 1..Len(shown)
      PROVE  \/ shown'[i] = shown[i]
             \/ /\ s # 0 /\ shown[i].by = s /\ shown[i].turn = replyStreams[s].turn /\ shown'[i].turn = shown[i].turn
  BY DEF Spoken
<1>2. ASSUME NEW r \in 1..Len(replyStreams), r # s
      PROVE  Shown(replyStreams[r], shown') = Shown(replyStreams[r], shown)
  <2>1. CASE replyStreams[r].message = 0
    BY <2>1 DEF Shown
  <2>2. CASE replyStreams[r].message # 0
    <3>1. replyStreams[r].message \in 1..Len(shown) /\ shown[replyStreams[r].message].by = r
      BY <1>0, <2>2 DEF MessagesFollow
    <3>2. shown'[replyStreams[r].message] = shown[replyStreams[r].message]
      BY <1>1, <1>2, <3>1
    <3> QED BY <3>2 DEF Shown
  <2> QED BY <2>1, <2>2
<1>3. ASSUME NEW k \in Turns, s = 0 \/ replyStreams[s].turn # k, NEW reply \in Standing(k)
      PROVE  reply \in Standing(k)'
  <2>1. PICK i \in 1..Len(shown) : shown[i].turn = k /\ shown[i].reply = reply
    BY <1>0, <1>3 DEF Standing
  <2>2. shown'[i] = shown[i] /\ i \in 1..Len(shown')
    BY <1>0, <1>1, <1>3, <2>1
  <2> QED BY <1>0, <2>1, <2>2 DEF Standing
<1>4. \A i \in 1..Len(shown) : shown[i].by = 0 => shown'[i] = shown[i]
  BY <1>1
<1> QED BY <1>2, <1>3, <1>4

\* A stream whose call has ended.
LEMMA EndedOn ==
  ASSUME RepliesTypes, MessagesFollow, NEW w \in {"turn", "dispatcher"}, NEW ok \in BOOLEAN, CallOver(w, ok),
         NEW words \in Seq(Nat), On(replyStreams[calls[w].stream], Shown(replyStreams[calls[w].stream], shown), words),
         CallOn(calls[w], replyStreams[calls[w].stream], words)
  PROVE  On(replyStreams'[calls[w].stream], Shown(replyStreams'[calls[w].stream], shown'), words)
<1> DEFINE s == calls[w].stream
           p == calls[w].preview
           old == replyStreams[s]
           new == replyStreams'[s]
           utterance == Message(old.turn, s, p)
<1>1. /\ calls[w] \in ApiCallType /\ s \in 1..Len(replyStreams) /\ new.buffer = old.buffer /\ new.thought = old.thought
      /\ \A i \in 1..Len(shown) : shown'[i] = shown[i] \/ shown'[i] = utterance
      /\ ~ok => new.last = old.last /\ new.message = old.message
      /\ ok => new.last = p /\ new.message \in 1..Len(shown') /\ shown'[new.message] = utterance
  BY DEF CallOver
<1>2. calls[w] # NoApiCall
  BY <1>1 DEF ApiCallType, NoApiCall
<1>3. /\ p \in PreviewType /\ old \in ReplyStreamType /\ StartOf(p, words) /\ Len(p.reply) = Capped(Len(old.buffer), MessageLimit)
      /\ Len(old.buffer) \in Nat /\ MessageLimit \in Nat /\ Len(p.reply) \in Nat
  <2>1. replyStreams \in Seq(ReplyStreamType)
    BY DEF RepliesTypes
  <2>2. old \in ReplyStreamType
    BY <1>1, <2>1, ElementOfSeq
  <2>3. old.buffer \in Seq(Nat) /\ p \in PreviewType
    BY <1>1, <2>2 DEF ReplyStreamType, ApiCallType
  <2>4. p.reply \in Seq(Nat)
    BY <2>3 DEF PreviewType
  <2> HIDE DEF p, old, s
  <2>5. StartOf(p, words) /\ Len(p.reply) = Capped(Len(old.buffer), MessageLimit)
    BY <1>2 DEF CallOn, p, old, s
  <2> QED BY <2>2, <2>3, <2>4, <2>5, LimitIs
<1>4. [thinking |-> utterance.thinking, reply |-> utterance.reply] = p
  BY <1>3 DEF Message, PreviewType
<1>5. /\ On(old, Shown(old, shown), words) /\ old.message \in 0..Len(shown)
  BY <1>1 DEF MessagesFollow
<1>6. Shown(new, shown') = p \/ (Shown(new, shown') = Shown(old, shown) /\ ~ok)
  <2> HIDE DEF s, p, old, new, utterance
  <2>1. CASE ok
    <3>1. new.message # 0 /\ shown'[new.message] = utterance
      BY <1>1, <2>1
    <3> QED BY <1>4, <3>1 DEF Shown
  <2>2. CASE ~ok
    <3>1. CASE new.message = 0
      BY <1>1, <2>2, <3>1 DEF Shown
    <3>2. CASE new.message # 0
      <4>1. new.message = old.message /\ new.message \in 1..Len(shown)
        BY <1>1, <1>5, <2>2, <3>2
      <4> QED BY <1>1, <1>4, <2>2, <3>2, <4>1 DEF Shown
    <3> QED BY <3>1, <3>2
  <2> QED BY <2>1, <2>2
<1> HIDE DEF s, p, old, new, utterance
<1>7. /\ Len(p.reply) <= Len(old.buffer) /\ Len(p.reply) <= MessageLimit /\ Len(Shown(old, shown).reply) <= Len(p.reply)
  BY <1>3, <1>5 DEF On, Capped
<1>8. Len(old.last.reply) <= Len(p.reply)
  <2>1. old.last.reply \in Seq(Nat) /\ Shown(old, shown).reply \in Seq(Nat)
    <3>1. old.last.reply \in Seq(Nat)
      BY <1>3 DEF ReplyStreamType, PreviewType
    <3>2. CASE old.message = 0
      BY <3>1, <3>2, EmptySeq DEF Shown, NothingShown, Plain
    <3>3. CASE old.message # 0
      <4>1. shown \in Seq(ShownType) /\ old.message \in 1..Len(shown)
        <5>1. shown \in Seq(ShownType)
          BY DEF RepliesTypes
        <5>2. Len(shown) \in Nat
          BY <5>1, LenProperties
        <5> QED BY <1>5, <3>3, <5>1, <5>2
      <4>2. shown[old.message] \in ShownType
        BY <4>1, ElementOfSeq
      <4> QED BY <3>1, <3>3, <4>2 DEF Shown, ShownType
    <3> QED BY <3>1, <3>2, <3>3
  <2>2. Len(old.last.reply) \in Nat /\ Len(Shown(old, shown).reply) \in Nat
    BY <2>1, LenProperties
  <2> QED BY <1>3, <1>5, <1>7, <2>2 DEF On
<1>9. On(new, Shown(new, shown'), words)
  <2>1. CASE ok
    <3>1. new.last = p /\ Shown(new, shown') = p /\ new.message # 0
      BY <1>1, <1>6, <2>1
    <3> QED BY <1>1, <1>3, <1>5, <1>7, <3>1 DEF On
  <2>2. CASE ~ok
    <3>1. new.last = old.last /\ new.message = old.message
      BY <1>1, <2>2
    <3>2. CASE Shown(new, shown') = p
      BY <1>1, <1>3, <1>5, <1>7, <1>8, <3>1, <3>2 DEF On
    <3>3. CASE Shown(new, shown') = Shown(old, shown)
      BY <1>1, <1>5, <3>1, <3>3 DEF On
    <3> QED BY <1>6, <3>2, <3>3
  <2> QED BY <2>1, <2>2
<1> QED BY <1>9 DEF s, new

\* A stream that was off a text is off it once its call has ended.
LEMMA EndedOff ==
  ASSUME NEW w \in {"turn", "dispatcher"}, NEW ok \in BOOLEAN, CallOver(w, ok), NEW words,
         Off(replyStreams[calls[w].stream], words), CallOff(calls[w], words)
  PROVE  Off(replyStreams'[calls[w].stream], words)
<1>1. /\ replyStreams'[calls[w].stream].buffer = replyStreams[calls[w].stream].buffer
      /\ replyStreams'[calls[w].stream].thought = replyStreams[calls[w].stream].thought
      /\ ~ok => replyStreams'[calls[w].stream].last = replyStreams[calls[w].stream].last
      /\ ok => replyStreams'[calls[w].stream].last = calls[w].preview
      /\ calls[w] \in ApiCallType
  BY DEF CallOver
<1>2. calls[w] # NoApiCall
  BY <1>1 DEF ApiCallType, NoApiCall
<1> QED BY <1>1, <1>2 DEF Off, CallOff

-----------------------------------------------------------------------------
\* What the steps share

\* What the types give every step.
LEMMA RepliesShape ==
  ASSUME RepliesTypes
  PROVE  /\ Len(replyStreams) \in Nat /\ Len(shown) \in Nat /\ Len(outbound) \in Nat
         /\ DOMAIN replyStreams = 1..Len(replyStreams) /\ DOMAIN shown = 1..Len(shown)
         /\ \A s \in 1..Len(replyStreams) : replyStreams[s] \in ReplyStreamType
         /\ \A i \in 1..Len(shown) : shown[i] \in ShownType
         /\ \A i \in 1..Len(outbound) : outbound[i] \in PublishedType
         /\ begun \in Nat /\ MaxTurns \in Nat /\ MaxApiFaults \in Nat /\ Turns \subseteq Nat
         /\ turn # NoTurn => turn \in RunningType
         /\ delivery # NoDelivery => delivery \in WorkType
         /\ \A w \in {"turn", "dispatcher"} : calls[w] # NoApiCall => calls[w] \in ApiCallType
<1>1. replyStreams \in Seq(ReplyStreamType) /\ shown \in Seq(ShownType) /\ outbound \in Seq(PublishedType)
  BY DEF RepliesTypes
<1>2. /\ \A s \in 1..Len(replyStreams) : replyStreams[s] \in ReplyStreamType
      /\ \A i \in 1..Len(shown) : shown[i] \in ShownType
      /\ \A i \in 1..Len(outbound) : outbound[i] \in PublishedType
  BY <1>1, ElementOfSeq
<1>3. /\ Len(replyStreams) \in Nat /\ Len(shown) \in Nat /\ Len(outbound) \in Nat
      /\ DOMAIN replyStreams = 1..Len(replyStreams) /\ DOMAIN shown = 1..Len(shown)
  BY <1>1, LenProperties
<1>4. MaxTurns \in Nat /\ MaxApiFaults \in Nat
  BY RepliesAssumption
<1>5. begun \in Nat /\ Turns \subseteq Nat
  <2>1. begun \in 0..MaxTurns
    BY DEF RepliesTypes
  <2> QED BY <1>4, <2>1 DEF Turns
<1> QED BY <1>2, <1>3, <1>4, <1>5 DEF RepliesTypes

\* The records that stand for nothing are no work, no turn and no call.
LEMMA KindsDiffer ==
  /\ NoDelivery \notin WorkType /\ NoTurn \notin RunningType /\ NoApiCall \notin ApiCallType
  /\ NoTurn = [no |-> 0] /\ NoDelivery = [turn |-> 0] /\ NoApiCall = [stream |-> 0]
<1>1. \A x \in WorkType : x.turn # 0
  BY DEF WorkType, Turns
<1>2. \A x \in RunningType : x.no # 0
  BY DEF RunningType, Turns
<1>3. \A x \in ApiCallType : x.stream # 0
  BY DEF ApiCallType
<1>4. NoDelivery.turn = 0 /\ NoTurn.no = 0 /\ NoApiCall.stream = 0
  BY DEF NoDelivery, NoTurn, NoApiCall
<1> QED BY <1>1, <1>2, <1>3, <1>4 DEF NoDelivery, NoTurn, NoApiCall

\* The pieces of a reply.
LEMMA PiecesOfReply ==
  ASSUME NEW reply, reply.turn \in Nat, reply.size \in Nat \ {0}, NEW stride \in Nat \ {0}
  PROVE  /\ Pieces(ReplyText(reply), stride) \in Seq(Seq(Nat))
         /\ ToSet(Pieces(ReplyText(reply), stride)) \subseteq Seq(Nat)
         /\ FirstOf(ReplyText(reply), stride) \in Seq(Nat)
<1>1. ReplyText(reply) \in Seq(Nat)
  BY ReplyTextIs
<1>2. Pieces(ReplyText(reply), stride) \in Seq(Seq(Nat))
  BY <1>1, PiecesAre
<1>3. ToSet(Pieces(ReplyText(reply), stride)) \subseteq Seq(Nat)
  <2>1. DOMAIN Pieces(ReplyText(reply), stride) = 1..Len(Pieces(ReplyText(reply), stride))
    BY <1>2, LenProperties
  <2>2. \A i \in 1..Len(Pieces(ReplyText(reply), stride)) : Pieces(ReplyText(reply), stride)[i] \in Seq(Nat)
    BY <1>2, ElementOfSeq
  <2> QED BY <2>1, <2>2 DEF ToSet
<1> QED BY <1>1, <1>2, <1>3, FirstIs

Ways == {"final", "push", "rich", "plain", "again", "block"}
EnteringType == [turn : Turns, size : Nat \ {0}, streamed : BOOLEAN, thinking : BOOLEAN, attempt : Attempts,
                 notice : BOOLEAN, way : Ways \cup {""}, stream : Nat, left : Seq(Seq(Nat))]

\* What is worked on was entered.
LEMMA WorkEnters == WorkType \subseteq EnteringType
BY DEF WorkType, EnteringType, Ways

\* The way a reply takes.
LEMMA WorkIs ==
  ASSUME NEW reply \in EnteringType, NEW way \in Ways, NEW s \in Nat, NEW left \in Seq(Seq(Nat))
  PROVE  /\ Work(reply, way, s, left) \in WorkType
         /\ Work(reply, way, s, left).turn = reply.turn /\ Work(reply, way, s, left).streamed = reply.streamed
         /\ Work(reply, way, s, left).way = way /\ Work(reply, way, s, left).stream = s
         /\ Work(reply, way, s, left).left = left
         /\ ReplyText(Work(reply, way, s, left)) = ReplyText(reply)
<1> DEFINE a == [reply EXCEPT !.way = way]
           b == [a EXCEPT !.stream = s]
           c == [b EXCEPT !.left = left]
<1>1. /\ a \in WorkType /\ a.turn = reply.turn /\ a.size = reply.size /\ a.streamed = reply.streamed
      /\ a.thinking = reply.thinking /\ a.attempt = reply.attempt /\ a.notice = reply.notice /\ a.way = way
  BY DEF EnteringType, WorkType, Ways
<1>0. Work(reply, way, s, left) = c
  BY DEF Work
<1> HIDE DEF a
<1>2. /\ b \in WorkType /\ b.turn = a.turn /\ b.size = a.size /\ b.streamed = a.streamed
      /\ b.thinking = a.thinking /\ b.attempt = a.attempt /\ b.notice = a.notice /\ b.way = a.way /\ b.stream = s
  BY <1>1 DEF WorkType
<1> HIDE DEF b
<1>3. /\ c \in WorkType /\ c.turn = b.turn /\ c.size = b.size /\ c.streamed = b.streamed
      /\ c.thinking = b.thinking /\ c.attempt = b.attempt /\ c.notice = b.notice /\ c.way = b.way
      /\ c.stream = b.stream /\ c.left = left
  BY <1>2 DEF WorkType
<1> HIDE DEF c
<1> QED BY <1>0, <1>1, <1>2, <1>3 DEF ReplyText

\* A reply has been brought.
LEMMA BroughtIs ==
  ASSUME RepliesTypes, delivery \in WorkType, NEW result \in {"whole", "part", "lost"}, Brought(result)
  PROVE  /\ outcomes' \in [Turns -> OutcomeType]
         /\ \A k \in Turns : k # delivery.turn => outcomes'[k] = outcomes[k]
         /\ outcomes'[delivery.turn].result \in {"whole", "notice"} => result = "whole"
         /\ outcomes'[delivery.turn].result = "part" => result = "part"
         /\ delivery.way \in {"rich", "plain"} =>
                outcomes'[delivery.turn].due = ToSet(Pieces(ReplyText(delivery), MessageLimit))
         /\ delivery.way \in {"final", "push"} =>
                outcomes'[delivery.turn].due = {FirstOf(ReplyText(delivery), MessageLimit)}
         /\ delivery' \in {NoDelivery} \cup WorkType
         /\ delivery' # NoDelivery => delivery'.turn = delivery.turn /\ delivery'.way = "block"
                                      /\ delivery'.streamed = delivery.streamed
<1>1. delivery.turn \in Turns /\ delivery.turn \in Nat /\ delivery.size \in Nat \ {0}
  BY RepliesShape DEF WorkType
<1>2. /\ ToSet(Pieces(ReplyText(delivery), MessageLimit)) \subseteq Seq(Nat)
      /\ FirstOf(ReplyText(delivery), MessageLimit) \in Seq(Nat)
  BY <1>1, PiecesOfReply, LimitIs
<1> DEFINE due == IF delivery.way \in {"rich", "plain"} THEN ToSet(Pieces(ReplyText(delivery), MessageLimit))
                  ELSE {FirstOf(ReplyText(delivery), MessageLimit)}
           named == IF delivery.notice /\ result = "whole" THEN "notice" ELSE result
<1>3. outcomes' = [outcomes EXCEPT ![delivery.turn] = [result |-> named, due |-> due]]
  BY DEF Brought
<1>4. due \subseteq Seq(Nat)
  BY <1>2
<1>5. named \in {"whole", "part", "lost", "notice"} /\ (named \in {"whole", "notice"} => result = "whole")
      /\ (named = "part" => result = "part")
  OBVIOUS
<1>6. delivery' = IF delivery.thinking THEN Work(delivery, "block", 0, <<>>) ELSE NoDelivery
  BY DEF Brought
<1>7. /\ Work(delivery, "block", 0, <<>>) \in WorkType
      /\ Work(delivery, "block", 0, <<>>).turn = delivery.turn /\ Work(delivery, "block", 0, <<>>).way = "block"
      /\ Work(delivery, "block", 0, <<>>).streamed = delivery.streamed
  <2> DEFINE none == <<>>
             zero == 0
  <2>1. none \in Seq(Seq(Nat)) /\ zero \in Nat /\ "block" \in Ways /\ delivery \in EnteringType
    BY EmptySeq, WorkEnters DEF Ways
  <2> HIDE DEF none, zero
  <2>2. /\ Work(delivery, "block", zero, none) \in WorkType
        /\ Work(delivery, "block", zero, none).turn = delivery.turn
        /\ Work(delivery, "block", zero, none).way = "block"
        /\ Work(delivery, "block", zero, none).streamed = delivery.streamed
    BY <2>1, WorkIs
  <2> QED BY <2>2 DEF none, zero
<1>8. /\ delivery.way \in {"rich", "plain"} => due = ToSet(Pieces(ReplyText(delivery), MessageLimit))
      /\ delivery.way \in {"final", "push"} => due = {FirstOf(ReplyText(delivery), MessageLimit)}
  OBVIOUS
<1> HIDE DEF due, named
<1>9. outcomes \in [Turns -> OutcomeType]
  BY DEF RepliesTypes
<1>10. [result |-> named, due |-> due] \in OutcomeType
  BY <1>4, <1>5 DEF OutcomeType
<1>11. outcomes' \in [Turns -> OutcomeType] /\ outcomes'[delivery.turn] = [result |-> named, due |-> due]
       /\ \A k \in Turns : k # delivery.turn => outcomes'[k] = outcomes[k]
  BY <1>1, <1>3, <1>9, <1>10
<1>12. outcomes'[delivery.turn].result = named /\ outcomes'[delivery.turn].due = due
  BY <1>11
<1> QED BY <1>5, <1>6, <1>7, <1>8, <1>11, <1>12

\* A callback raises: again, or no more.
LEMMA RaisesIs ==
  ASSUME RepliesTypes, delivery \in WorkType, CallbackRaises
  PROVE  /\ outcomes' \in [Turns -> OutcomeType]
         /\ \A k \in Turns : k # delivery.turn => outcomes'[k] = outcomes[k]
         /\ outcomes' = outcomes \/ (outcomes'[delivery.turn].result = "gone" /\ delivery' = NoDelivery)
         /\ delivery' \in {NoDelivery} \cup WorkType
         /\ delivery' # NoDelivery => /\ delivery'.turn = delivery.turn /\ delivery'.way = "again"
                                      /\ delivery'.streamed => delivery.streamed
                                      /\ outcomes' = outcomes
<1>1. CASE delivery.notice
  <2>1. outcomes' = [outcomes EXCEPT ![delivery.turn].result = "gone"] /\ delivery' = NoDelivery
    BY <1>1 DEF CallbackRaises
  <2>2. outcomes \in [Turns -> OutcomeType] /\ delivery.turn \in Turns
    BY DEF RepliesTypes, WorkType
  <2>3. outcomes[delivery.turn] \in OutcomeType
    BY <2>2
  <2>4. /\ [outcomes[delivery.turn] EXCEPT !.result = "gone"] \in OutcomeType
        /\ [outcomes[delivery.turn] EXCEPT !.result = "gone"].result = "gone"
    BY <2>3 DEF OutcomeType
  <2> QED BY <2>1, <2>2, <2>4
<1>2. CASE ~delivery.notice
  <2>0. outcomes' = outcomes
    BY <1>2 DEF CallbackRaises
  <2>a. outcomes \in [Turns -> OutcomeType]
    BY DEF RepliesTypes
  <2>b. {2, 3} \subseteq Attempts
    BY DEF Attempts
  <2>1. outcomes' = outcomes /\ outcomes \in [Turns -> OutcomeType] /\ {2, 3} \subseteq Attempts
    BY <2>0, <2>a, <2>b
  <2> DEFINE a == [delivery EXCEPT !.way = "again"]
  <2>2. a \in WorkType /\ a.way = "again" /\ a.turn = delivery.turn /\ a.streamed = delivery.streamed
    BY DEF WorkType
  <2>3. CASE delivery.attempt = 1
    <3>1. delivery' = [a EXCEPT !.attempt = 2]
      BY <1>2, <2>3 DEF CallbackRaises
    <3> HIDE DEF a
    <3>2. [a EXCEPT !.attempt = 2] \in WorkType
      BY <2>1, <2>2 DEF WorkType
    <3>3. delivery'.turn = delivery.turn /\ delivery'.way = "again" /\ delivery'.streamed = delivery.streamed
      BY <3>1, <2>2 DEF WorkType
    <3> QED BY <2>1, <3>1, <3>2, <3>3
  <2>4. CASE delivery.attempt # 1
    <3> DEFINE b == [a EXCEPT !.attempt = 3]
               c == [b EXCEPT !.notice = TRUE]
               d == [c EXCEPT !.streamed = FALSE]
    <3>1. delivery' = [d EXCEPT !.thinking = FALSE]
      BY <1>2, <2>4 DEF CallbackRaises
    <3> HIDE DEF a
    <3>2. b \in WorkType /\ b.way = "again" /\ b.turn = a.turn
      BY <2>1, <2>2 DEF WorkType
    <3> HIDE DEF b
    <3>3. c \in WorkType /\ c.way = "again" /\ c.turn = b.turn
      BY <3>2 DEF WorkType
    <3> HIDE DEF c
    <3>4. d \in WorkType /\ d.way = "again" /\ d.turn = c.turn /\ ~d.streamed
      BY <3>3 DEF WorkType
    <3> HIDE DEF d
    <3>5. delivery' \in WorkType /\ delivery'.turn = d.turn /\ delivery'.way = "again" /\ ~delivery'.streamed
      BY <3>1, <3>4 DEF WorkType
    <3> QED BY <2>1, <2>2, <3>2, <3>3, <3>4, <3>5
  <2> QED BY <2>3, <2>4
<1> QED BY <1>1, <1>2

\* The streams keep their messages, and those that are new have none.
StreamsKept ==
    /\ replyStreams' \in Seq(ReplyStreamType) /\ Len(replyStreams) <= Len(replyStreams')
    /\ \A r \in 1..Len(replyStreams) :
        /\ replyStreams'[r].message = replyStreams[r].message /\ replyStreams'[r].last = replyStreams[r].last
        /\ replyStreams'[r].turn = replyStreams[r].turn
    /\ \A r \in (Len(replyStreams) + 1)..Len(replyStreams') : replyStreams'[r].message = 0

\* While nothing is said.
LEMMA KeptFollows ==
  ASSUME RepliesTypes, MessagesFollow, StreamsHoldTheirs, StreamsKept, shown' = shown, apiFaults' = apiFaults,
         stolen \subseteq stolen'
  PROVE  MessagesFollow' /\ StreamsHoldTheirs'
<1>1. /\ Len(replyStreams) \in Nat /\ Len(replyStreams') \in Nat /\ Len(shown) \in Nat
      /\ DOMAIN replyStreams = 1..Len(replyStreams) /\ DOMAIN replyStreams' = 1..Len(replyStreams')
      /\ DOMAIN shown = 1..Len(shown) /\ Len(replyStreams) <= Len(replyStreams')
  BY RepliesShape, LenProperties DEF StreamsKept
<1>2. ASSUME NEW r \in 1..Len(replyStreams'), replyStreams'[r].message # 0
      PROVE  /\ r \in 1..Len(replyStreams) /\ replyStreams'[r].message = replyStreams[r].message
             /\ replyStreams'[r].last = replyStreams[r].last /\ replyStreams'[r].turn = replyStreams[r].turn
  <2>1. r \in 1..Len(replyStreams)
    BY <1>1, <1>2 DEF StreamsKept
  <2> QED BY <2>1 DEF StreamsKept
<1>3. MessagesFollow'
  <2>1. ASSUME NEW r \in 1..Len(replyStreams')
        PROVE  /\ replyStreams'[r].message \in 0..Len(shown')
               /\ replyStreams'[r].message # 0 => /\ shown'[replyStreams'[r].message].by = r
                                                  /\ shown'[replyStreams'[r].message].turn = replyStreams'[r].turn
    <3>1. CASE replyStreams'[r].message = 0
      BY <1>1, <3>1
    <3>2. CASE replyStreams'[r].message # 0
      BY <1>1, <1>2, <3>2 DEF MessagesFollow
    <3> QED BY <3>1, <3>2
  <2>2. \A i \in 1..Len(shown') : shown'[i].by \in 0..Len(replyStreams')
    BY <1>1 DEF MessagesFollow
  <2> QED BY <2>1, <2>2 DEF MessagesFollow
<1>4. StreamsHoldTheirs'
  <2> SUFFICES ASSUME apiFaults' = 0, stolen' = {}
               PROVE  /\ \A j \in DOMAIN shown' : shown'[j].by # 0 => replyStreams'[shown'[j].by].message = j
                      /\ \A s \in DOMAIN replyStreams' : replyStreams'[s].message # 0 =>
                            [thinking |-> shown'[replyStreams'[s].message].thinking,
                             reply |-> shown'[replyStreams'[s].message].reply] = replyStreams'[s].last
    BY DEF StreamsHoldTheirs
  <2>1. /\ \A j \in 1..Len(shown) : shown[j].by # 0 => replyStreams[shown[j].by].message = j
        /\ \A s \in 1..Len(replyStreams) : replyStreams[s].message # 0 =>
            [thinking |-> shown[replyStreams[s].message].thinking,
             reply |-> shown[replyStreams[s].message].reply] = replyStreams[s].last
    BY <1>1 DEF StreamsHoldTheirs
  <2>2. ASSUME NEW j \in 1..Len(shown), shown[j].by # 0 PROVE replyStreams'[shown[j].by].message = j
    <3>1. shown[j].by \in 1..Len(replyStreams)
      BY <1>1, <2>2 DEF MessagesFollow
    <3> QED BY <2>1, <2>2, <3>1 DEF StreamsKept
  <2>3. ASSUME NEW s \in 1..Len(replyStreams'), replyStreams'[s].message # 0
        PROVE  [thinking |-> shown'[replyStreams'[s].message].thinking,
                reply |-> shown'[replyStreams'[s].message].reply] = replyStreams'[s].last
    BY <1>2, <2>1, <2>3
  <2> QED BY <1>1, <2>2, <2>3
<1> QED BY <1>3, <1>4

\* Once a call has ended.
LEMMA EndedFollows ==
  ASSUME RepliesTypes, MessagesFollow, StreamsHoldTheirs, CallsFollow,
         NEW w \in {"turn", "dispatcher"}, NEW ok \in BOOLEAN, CallOver(w, ok), stolen' = stolen
  PROVE  MessagesFollow' /\ StreamsHoldTheirs'
<1> DEFINE s == calls[w].stream
           p == calls[w].preview
           m == replyStreams[s].message
           utterance == Message(replyStreams[s].turn, s, p)
<1>1. /\ Len(replyStreams) \in Nat /\ Len(replyStreams') = Len(replyStreams) /\ Len(shown) \in Nat /\ Len(shown') \in Nat
      /\ DOMAIN replyStreams = 1..Len(replyStreams) /\ DOMAIN replyStreams' = 1..Len(replyStreams')
      /\ DOMAIN shown = 1..Len(shown) /\ DOMAIN shown' = 1..Len(shown') /\ Len(shown) <= Len(shown')
  <2>1. replyStreams' \in Seq(ReplyStreamType) /\ shown' \in Seq(ShownType)
        /\ Len(replyStreams') = Len(replyStreams) /\ Len(shown) <= Len(shown')
    BY DEF CallOver
  <2> QED BY <2>1, RepliesShape, LenProperties
<1>2. /\ s \in 1..Len(replyStreams) /\ s # 0 /\ calls[w] \in ApiCallType /\ p \in PreviewType
      /\ \A r \in 1..Len(replyStreams) : r # s => replyStreams'[r] = replyStreams[r]
      /\ replyStreams'[s].turn = replyStreams[s].turn
      /\ ~ok => replyStreams'[s].last = replyStreams[s].last /\ replyStreams'[s].message = m
      /\ ok => /\ replyStreams'[s].last = p /\ replyStreams'[s].message \in 1..Len(shown')
               /\ shown'[replyStreams'[s].message] = utterance
  BY DEF CallOver, ApiCallType
<1>3. /\ utterance.by = s /\ utterance.turn = replyStreams[s].turn /\ [thinking |-> utterance.thinking, reply |-> utterance.reply] = p
  BY <1>2 DEF Message, PreviewType
<1>4. Spoken(s)
  BY EndedIsSpoken
<1>c. (calls[w].edits => m # 0) /\ (stolen = {} /\ ~calls[w].edits => replyStreams[s].message = 0)
  <2>1. calls[w] # NoApiCall
    BY <1>2, KindsDiffer
  <2> QED BY <2>1 DEF CallsFollow
<1> HIDE DEF s, p, m, utterance
<1>5. ASSUME NEW i \in 1..Len(shown)
      PROVE  shown'[i].by = shown[i].by /\ shown'[i].turn = shown[i].turn /\ (shown[i].by # s => shown'[i] = shown[i])
  BY <1>4 DEF Spoken
<1>6. MessagesFollow'
  <2>1. ASSUME NEW r \in 1..Len(replyStreams')
        PROVE  /\ replyStreams'[r].message \in 0..Len(shown')
               /\ replyStreams'[r].message # 0 => /\ shown'[replyStreams'[r].message].by = r
                                                  /\ shown'[replyStreams'[r].message].turn = replyStreams'[r].turn
    <3>1. CASE r = s /\ ok
      BY <1>1, <1>2, <1>3, <3>1
    <3>2. CASE ~(r = s /\ ok)
      <4>1. replyStreams'[r].message = replyStreams[r].message /\ replyStreams'[r].turn = replyStreams[r].turn
        BY <1>1, <1>2, <3>2 DEF m
      <4>2. /\ replyStreams[r].message \in 0..Len(shown)
            /\ replyStreams[r].message # 0 => /\ shown[replyStreams[r].message].by = r
                                              /\ shown[replyStreams[r].message].turn = replyStreams[r].turn
        BY <1>1 DEF MessagesFollow
      <4> QED BY <1>1, <1>5, <4>1, <4>2
    <3> QED BY <3>1, <3>2
  <2>2. ASSUME NEW i \in 1..Len(shown') PROVE shown'[i].by \in 0..Len(replyStreams')
    <3>1. CASE i \in 1..Len(shown)
      BY <1>1, <1>5, <3>1 DEF MessagesFollow
    <3>2. CASE i \notin 1..Len(shown)
      <4>1. i \in (Len(shown) + 1)..Len(shown')
        BY <1>1, <3>2
      <4> QED BY <1>1, <1>2, <1>4, <4>1 DEF Spoken
    <3> QED BY <3>1, <3>2
  <2> QED BY <2>1, <2>2 DEF MessagesFollow
<1>7. StreamsHoldTheirs'
  <2> SUFFICES ASSUME apiFaults' = 0, stolen' = {}
               PROVE  /\ \A j \in DOMAIN shown' : shown'[j].by # 0 => replyStreams'[shown'[j].by].message = j
                      /\ \A r \in DOMAIN replyStreams' : replyStreams'[r].message # 0 =>
                            [thinking |-> shown'[replyStreams'[r].message].thinking,
                             reply |-> shown'[replyStreams'[r].message].reply] = replyStreams'[r].last
    BY DEF StreamsHoldTheirs
  <2>0. /\ apiFaults = 0 /\ stolen = {} /\ ok
        /\ Len(shown') = Len(shown) + (IF calls[w].edits THEN 0 ELSE 1)
        /\ calls[w].edits => replyStreams'[s].message = m /\ m # 0
        /\ ~calls[w].edits => replyStreams'[s].message = Len(shown) + 1
    <3>1. apiFaults \in 0..MaxApiFaults /\ MaxApiFaults \in Nat
      BY RepliesShape DEF RepliesTypes
    <3>2. apiFaults' \in apiFaults..MaxApiFaults /\ (~ok => apiFaults' > 0)
          /\ (apiFaults' = 0 => Len(shown') = Len(shown) + (IF calls[w].edits THEN 0 ELSE 1))
          /\ (ok => /\ calls[w].edits => replyStreams'[s].message = m
                    /\ ~calls[w].edits => replyStreams'[s].message > Len(shown))
      BY DEF CallOver, s, m
    <3>3. apiFaults = 0 /\ ok
      BY <3>1, <3>2
    <3>4. stolen = {}
      OBVIOUS
    <3>5. /\ Len(shown') = Len(shown) + (IF calls[w].edits THEN 0 ELSE 1)
          /\ calls[w].edits => replyStreams'[s].message = m
      BY <3>2, <3>3
    <3>6. ~calls[w].edits => replyStreams'[s].message = Len(shown) + 1
      <4>1. replyStreams'[s].message \in 1..Len(shown')
        BY <1>2, <3>3
      <4> QED BY <1>1, <3>2, <3>3, <3>5, <4>1
    <3> QED BY <1>c, <3>3, <3>4, <3>5, <3>6
  <2>1. /\ \A j \in 1..Len(shown) : shown[j].by # 0 => replyStreams[shown[j].by].message = j
        /\ \A r \in 1..Len(replyStreams) : replyStreams[r].message # 0 =>
            [thinking |-> shown[replyStreams[r].message].thinking,
             reply |-> shown[replyStreams[r].message].reply] = replyStreams[r].last
    BY <1>1, <2>0 DEF StreamsHoldTheirs
  <2>2. ASSUME NEW j \in 1..Len(shown'), shown'[j].by # 0 PROVE replyStreams'[shown'[j].by].message = j
    <3>1. CASE j \in 1..Len(shown) /\ shown[j].by # s
      <4>1. shown'[j].by = shown[j].by /\ shown[j].by \in 1..Len(replyStreams)
        BY <1>1, <1>5, <2>2, <3>1 DEF MessagesFollow
      <4> QED BY <1>2, <2>1, <2>2, <3>1, <4>1
    <3>2. CASE j \in 1..Len(shown) /\ shown[j].by = s
      <4>1. shown'[j].by = s /\ m = j
        BY <1>2, <1>5, <2>1, <3>2 DEF m
      <4>2. CASE calls[w].edits
        BY <2>0, <4>1, <4>2
      <4>3. CASE ~calls[w].edits
        <5>1. replyStreams[s].message = j /\ j # 0
          BY <4>1, <3>2 DEF m
        <5>2. replyStreams[s].message = 0
          BY <1>c, <2>0, <4>3
        <5> QED BY <5>1, <5>2
      <4> QED BY <4>2, <4>3
    <3>3. CASE j \notin 1..Len(shown)
      <4>0. j \in Nat /\ Len(shown) < j /\ j <= Len(shown')
        BY <1>1, <3>3
      <4>a. ~calls[w].edits /\ Len(shown') = Len(shown) + 1
        <5>1. CASE calls[w].edits
          BY <1>1, <2>0, <4>0, <5>1
        <5>2. CASE ~calls[w].edits
          BY <1>1, <2>0, <5>2
        <5> QED BY <5>1, <5>2
      <4>b. j = Len(shown) + 1
        BY <1>1, <4>0, <4>a
      <4>1. j \in (Len(shown) + 1)..Len(shown') /\ j = Len(shown) + 1 /\ ~calls[w].edits
        BY <1>1, <4>a, <4>b
      <4>2. shown'[j].by = s
        BY <1>4, <4>1 DEF Spoken
      <4> QED BY <2>0, <4>1, <4>2
    <3> QED BY <3>1, <3>2, <3>3
  <2>3. ASSUME NEW r \in 1..Len(replyStreams'), replyStreams'[r].message # 0
        PROVE  [thinking |-> shown'[replyStreams'[r].message].thinking,
                reply |-> shown'[replyStreams'[r].message].reply] = replyStreams'[r].last
    <3>1. CASE r = s
      BY <1>2, <1>3, <2>0, <3>1
    <3>2. CASE r # s
      <4>1. replyStreams'[r] = replyStreams[r] /\ replyStreams[r].message \in 1..Len(shown)
            /\ shown[replyStreams[r].message].by = r
        BY <1>1, <1>2, <2>3, <3>2 DEF MessagesFollow
      <4> QED BY <1>1, <1>5, <2>1, <2>3, <3>2, <4>1
    <3> QED BY <3>1, <3>2
  <2> QED BY <1>1, <2>2, <2>3
<1> QED BY <1>6, <1>7

\* Once something has been said outside of the calls, which fails if it is a stream's.
LEMMA SpokenFollows ==
  ASSUME RepliesTypes, MessagesFollow, StreamsHoldTheirs, NEW s \in 0..Len(replyStreams), Spoken(s),
         s # 0 => apiFaults' > 0, apiFaults' \in apiFaults..MaxApiFaults,
         replyStreams' = replyStreams, stolen' = stolen
  PROVE  MessagesFollow' /\ StreamsHoldTheirs'
<1>1. /\ Len(replyStreams) \in Nat /\ Len(shown) \in Nat /\ Len(shown') \in Nat
      /\ DOMAIN replyStreams = 1..Len(replyStreams)
      /\ DOMAIN shown = 1..Len(shown) /\ DOMAIN shown' = 1..Len(shown') /\ Len(shown) <= Len(shown')
  BY RepliesShape, LenProperties DEF Spoken
<1>2. ASSUME NEW i \in 1..Len(shown)
      PROVE  shown'[i].by = shown[i].by /\ shown'[i].turn = shown[i].turn /\ (s = 0 => shown'[i] = shown[i])
  BY DEF Spoken
<1>3. \A i \in (Len(shown) + 1)..Len(shown') : shown'[i].by = s
  BY DEF Spoken
<1>4. MessagesFollow'
  <2>1. ASSUME NEW r \in 1..Len(replyStreams)
        PROVE  /\ replyStreams[r].message \in 0..Len(shown')
               /\ replyStreams[r].message # 0 => /\ shown'[replyStreams[r].message].by = r
                                                 /\ shown'[replyStreams[r].message].turn = replyStreams[r].turn
    <3>1. /\ replyStreams[r].message \in 0..Len(shown)
          /\ replyStreams[r].message # 0 => /\ shown[replyStreams[r].message].by = r
                                            /\ shown[replyStreams[r].message].turn = replyStreams[r].turn
      BY DEF MessagesFollow
    <3> QED BY <1>1, <1>2, <3>1
  <2>2. ASSUME NEW i \in 1..Len(shown') PROVE shown'[i].by \in 0..Len(replyStreams)
    <3>1. CASE i \in 1..Len(shown)
      BY <1>2, <3>1 DEF MessagesFollow
    <3>2. CASE i \notin 1..Len(shown)
      <4>1. i \in (Len(shown) + 1)..Len(shown')
        BY <1>1, <3>2
      <4> QED BY <1>3, <4>1
    <3> QED BY <3>1, <3>2
  <2> QED BY <2>1, <2>2 DEF MessagesFollow
<1>5. StreamsHoldTheirs'
  <2> SUFFICES ASSUME apiFaults' = 0, stolen' = {}
               PROVE  /\ \A j \in DOMAIN shown' : shown'[j].by # 0 => replyStreams'[shown'[j].by].message = j
                      /\ \A r \in DOMAIN replyStreams' : replyStreams'[r].message # 0 =>
                            [thinking |-> shown'[replyStreams'[r].message].thinking,
                             reply |-> shown'[replyStreams'[r].message].reply] = replyStreams'[r].last
    BY DEF StreamsHoldTheirs
  <2>0. apiFaults = 0 /\ s = 0
    <3>1. apiFaults \in 0..MaxApiFaults
      BY DEF RepliesTypes
    <3>2. apiFaults = 0
      BY <3>1, RepliesShape
    <3> QED BY <3>2
  <2>1. /\ \A j \in 1..Len(shown) : shown[j].by # 0 => replyStreams[shown[j].by].message = j
        /\ \A r \in 1..Len(replyStreams) : replyStreams[r].message # 0 =>
            [thinking |-> shown[replyStreams[r].message].thinking,
             reply |-> shown[replyStreams[r].message].reply] = replyStreams[r].last
    BY <1>1, <2>0 DEF StreamsHoldTheirs
  <2>2. ASSUME NEW j \in 1..Len(shown'), shown'[j].by # 0 PROVE replyStreams'[shown'[j].by].message = j
    <3>1. CASE j \in 1..Len(shown)
      BY <1>2, <2>0, <2>1, <2>2, <3>1
    <3>2. CASE j \notin 1..Len(shown)
      <4>1. j \in (Len(shown) + 1)..Len(shown')
        BY <1>1, <3>2
      <4> QED BY <1>3, <2>0, <2>2, <4>1
    <3> QED BY <3>1, <3>2
  <2>3. ASSUME NEW r \in 1..Len(replyStreams), replyStreams[r].message # 0
        PROVE  [thinking |-> shown'[replyStreams[r].message].thinking,
                reply |-> shown'[replyStreams[r].message].reply] = replyStreams[r].last
    <3>1. replyStreams[r].message \in 1..Len(shown)
      BY <1>1, <2>3 DEF MessagesFollow
    <3> QED BY <1>2, <2>0, <2>1, <2>3, <3>1
  <2> QED BY <1>1, <2>2, <2>3
<1> QED BY <1>4, <1>5

\* What has been seen stays to be seen, and what is brought now has to be there.
LEMMA AnswersFollow ==
  ASSUME RepliesTypes, AnswersAreSeen, stolen \subseteq stolen', apiFaults' \in apiFaults..MaxApiFaults, NEW d,
         \A k \in Turns : k # d => outcomes'[k] = outcomes[k],
         \A k \in Turns : k # d /\ outcomes[k].result # "no" => Standing(k) \subseteq Standing(k)',
         d \in Turns \ stolen' =>
            /\ outcomes'[d].result \in {"whole", "notice"} => outcomes'[d].due \subseteq Standing(d)'
            /\ outcomes'[d].result = "part" => apiFaults' > 0
  PROVE  AnswersAreSeen'
<1>1. apiFaults \in Nat /\ apiFaults' \in Nat /\ apiFaults <= apiFaults'
  <2>1. apiFaults \in 0..MaxApiFaults
    BY DEF RepliesTypes
  <2> QED BY <2>1, RepliesShape
<1>2. ASSUME NEW k \in Turns \ stolen'
      PROVE  /\ outcomes'[k].result \in {"whole", "notice"} => outcomes'[k].due \subseteq Standing(k)'
             /\ outcomes'[k].result = "part" => apiFaults' > 0
  <2>1. CASE k = d
    BY <2>1
  <2>2. CASE k # d
    <3>1. outcomes'[k] = outcomes[k] /\ k \in Turns \ stolen
      BY <2>2
    <3>2. /\ outcomes[k].result \in {"whole", "notice"} => outcomes[k].due \subseteq Standing(k)
          /\ outcomes[k].result = "part" => apiFaults > 0
      BY <3>1 DEF AnswersAreSeen
    <3>3. outcomes[k].result # "no" => Standing(k) \subseteq Standing(k)'
      BY <2>2
    <3> QED BY <1>1, <3>1, <3>2, <3>3
  <2> QED BY <2>1, <2>2
<1> QED BY <1>2 DEF AnswersAreSeen

\* Nothing is said and brought.
LEMMA AnswersStay ==
  ASSUME RepliesTypes, AnswersAreSeen, stolen \subseteq stolen', apiFaults' = apiFaults, shown' = shown, outcomes' = outcomes
  PROVE  AnswersAreSeen'
<1>1. \A k \in Turns : Standing(k)' = Standing(k)
  BY DEF Standing
<1>2. apiFaults' \in apiFaults..MaxApiFaults
  <2>1. apiFaults \in 0..MaxApiFaults
    BY DEF RepliesTypes
  <2> QED BY <2>1, RepliesShape
<1>3. 0 \notin Turns
  BY DEF Turns
<1> QED BY <1>1, <1>2, <1>3, AnswersFollow

-----------------------------------------------------------------------------
\* The steps

\* The chat has begun.
LEMMA ChatOpensStep ==
  ASSUME RepliesInv, ChatOpens
  PROVE  RepliesInv'
<1>1. /\ chatKind = "" /\ chatKind' \in {"private", "group"}
      /\ UNCHANGED <<turn, replyStreams, activeStream, outbound, delivery, calls, shown, outcomes, stolen, begun, apiFaults>>
  BY DEF ChatOpens
<1>2. activeStream = 0 /\ turn = NoTurn
  BY <1>1 DEF RepliesInv, StreamsFollow
<1>3. RepliesTypes'
  BY <1>1 DEF RepliesInv, RepliesTypes
<1>4. MessagesFollow' /\ CallsFollow'
  BY <1>1 DEF RepliesInv, MessagesFollow, CallsFollow
<1>5. RepliesInRow'
  BY <1>1 DEF RepliesInv, RepliesInRow
<1>6. StreamsFollow'
  BY <1>1, <1>2 DEF RepliesInv, StreamsFollow
<1>7. TurnStreams'
  BY <1>1, <1>2 DEF TurnStreams
<1>8. RepliesReady'
  BY <1>1 DEF RepliesInv, RepliesReady, Ready
<1>9. DeliveryGoesOn'
  BY <1>1 DEF RepliesInv, DeliveryGoesOn
<1>10. AnswersAreSeen' /\ StreamsHoldTheirs'
  <2>1. AnswersAreSeen'
    BY <1>1, AnswersStay DEF RepliesInv
  <2>2. StreamsHoldTheirs'
    BY <1>1 DEF RepliesInv, StreamsHoldTheirs
  <2> QED BY <2>1, <2>2
<1> QED BY <1>3, <1>4, <1>5, <1>6, <1>7, <1>8, <1>9, <1>10 DEF RepliesInv

\* A stream that has just begun.
LEMMA NewStreamIs ==
  ASSUME NEW k \in Turns
  PROVE  /\ NewStream(k) \in ReplyStreamType /\ NewStream(k).message = 0 /\ NewStream(k).turn = k
         /\ NewStream(k).buffer = <<>> /\ NewStream(k).thought = 0 /\ NewStream(k).last = NothingShown
         /\ NothingShown \in PreviewType /\ NothingShown.thinking = <<0, 0>> /\ NothingShown.reply = <<>>
<1>1. <<>> \in Seq(Nat) /\ <<0, 0>> \in Nat \X Nat
  BY EmptySeq
<1>2. NothingShown \in PreviewType /\ NothingShown.thinking = <<0, 0>> /\ NothingShown.reply = <<>>
  BY <1>1 DEF NothingShown, Plain, PreviewType
<1>3. NewStream(k).last = NothingShown
  BY DEF NewStream
<1>4. NewStream(k) \in ReplyStreamType
  <2> HIDE DEF NothingShown
  <2> QED BY <1>1, <1>2 DEF NewStream, ReplyStreamType
<1> QED BY <1>2, <1>3, <1>4 DEF NewStream

\* A stream that is new is on any words.
LEMMA NewIsOn ==
  ASSUME NEW k \in Turns, NEW words \in Seq(Nat)
  PROVE  /\ On(NewStream(k), Shown(NewStream(k), shown), words) /\ On(NewStream(k), Shown(NewStream(k), shown'), words)
         /\ Rest(words, Len(NewStream(k).buffer)) = words
<1>1. Shown(NewStream(k), shown) = NothingShown /\ Shown(NewStream(k), shown') = NothingShown
  BY NewStreamIs DEF Shown
<1>2. FirstOf(words, 0) = <<>> /\ Len(<<>>) = 0
  <2>1. 0 \in Nat /\ Len(words) \in Nat
    OBVIOUS
  <2>2. FirstOf(words, 0) \in Seq(Nat) /\ Len(FirstOf(words, 0)) = Capped(0, Len(words))
    BY <2>1, FirstIs
  <2>3. Capped(0, Len(words)) = 0
    BY <2>1 DEF Capped
  <2> QED BY <2>2, <2>3
<1>3. On(NewStream(k), NothingShown, words)
  <2>1. StartOf(NothingShown, words)
    BY <1>2, NewStreamIs DEF StartOf
  <2> QED BY <1>2, <2>1, NewStreamIs, LimitIs DEF On
<1>4. Rest(words, 0) = words
  BY SubSeqFull DEF Rest
<1> QED BY <1>1, <1>2, <1>3, <1>4, NewStreamIs

\* What a turn streams: perhaps a thought, perhaps something before its answer.
LEMMA DeltasAre ==
  ASSUME NEW k \in Turns, NEW form \in TurnForms
  PROVE  LET pieces == Pieces(AnswerText(k, form.size), DeltaSize)
             deltas == (IF form.thinks THEN <<<<>>>> ELSE <<>>) \o (IF form.aside THEN <<Aside(k)>> ELSE <<>>) \o pieces
         IN  /\ deltas \in Seq(Seq(Nat))
             /\ \/ deltas # <<>> /\ (Head(deltas) = <<>> \/ Head(deltas)[1] # AnswerText(k, form.size)[1])
                \/ deltas = pieces
<1> DEFINE pieces == Pieces(AnswerText(k, form.size), DeltaSize)
<1>1. /\ k \in Nat /\ form.size \in Nat \ {0} /\ form.thinks \in BOOLEAN /\ form.aside \in BOOLEAN
      /\ DeltaSize \in Nat \ {0}
  BY RepliesAssumption DEF Turns
<1>2. AnswerText(k, form.size) \in Seq(Nat) /\ AnswerText(k, form.size)[1] = 100 * k + 1
  BY <1>1, AnswerIs
<1>3. pieces \in Seq(Seq(Nat))
  BY <1>1, <1>2, PiecesAre
<1>4. Aside(k) \in Seq(Nat) /\ Aside(k)[1] = 100 * k /\ <<>> \in Seq(Nat)
  BY <1>1, EmptySeq DEF Aside
<1>5. 100 * k # 100 * k + 1
  BY <1>1
<1> DEFINE thoughts == IF form.thinks THEN <<<<>>>> ELSE <<>>
           asides == IF form.aside THEN <<Aside(k)>> ELSE <<>>
           deltas == thoughts \o asides \o pieces
<1>6. thoughts \in Seq(Seq(Nat)) /\ asides \in Seq(Seq(Nat))
  BY <1>4
<1> HIDE DEF pieces
<1>7. deltas \in Seq(Seq(Nat))
  BY <1>3, <1>6
<1>8. CASE form.thinks
  <2>1. thoughts = <<<<>>>>
    BY <1>8
  <2>2. deltas # <<>> /\ Head(deltas) = <<>>
    BY <1>3, <1>6, <2>1
  <2> QED BY <1>7, <2>2 DEF pieces
<1>9. CASE ~form.thinks /\ form.aside
  <2>1. thoughts = <<>> /\ asides = <<Aside(k)>>
    BY <1>9
  <2>2. deltas # <<>> /\ Head(deltas) = Aside(k)
    BY <1>3, <1>4, <1>6, <2>1
  <2> QED BY <1>2, <1>4, <1>5, <1>7, <2>2 DEF pieces
<1>10. CASE ~form.thinks /\ ~form.aside
  <2>1. thoughts = <<>> /\ asides = <<>>
    BY <1>10
  <2>2. deltas = pieces
    BY <1>3, <2>1
  <2> QED BY <1>7, <2>2 DEF pieces
<1> QED BY <1>1, <1>8, <1>9, <1>10

\* A stream is added.
LEMMA AddedIs ==
  ASSUME RepliesTypes, NEW k \in Turns, replyStreams' = Append(replyStreams, NewStream(k))
  PROVE  /\ Len(replyStreams') = Len(replyStreams) + 1 /\ replyStreams' \in Seq(ReplyStreamType)
         /\ \A r \in 1..Len(replyStreams) : replyStreams'[r] = replyStreams[r]
         /\ replyStreams'[Len(replyStreams) + 1] = NewStream(k)
         /\ StreamsKept
<1>1. replyStreams \in Seq(ReplyStreamType) /\ NewStream(k) \in ReplyStreamType /\ Len(replyStreams) \in Nat
  BY NewStreamIs, RepliesShape DEF RepliesTypes
<1>2. /\ Len(replyStreams') = Len(replyStreams) + 1 /\ replyStreams' \in Seq(ReplyStreamType)
      /\ \A r \in 1..Len(replyStreams) : replyStreams'[r] = replyStreams[r]
      /\ replyStreams'[Len(replyStreams) + 1] = NewStream(k)
  BY <1>1
<1>3. StreamsKept
  <2>1. \A r \in (Len(replyStreams) + 1)..Len(replyStreams') : r = Len(replyStreams) + 1
    BY <1>1, <1>2
  <2>2. Len(replyStreams) <= Len(replyStreams')
    BY <1>1, <1>2
  <2> QED BY <1>2, <2>1, <2>2, NewStreamIs DEF StreamsKept
<1> QED BY <1>2, <1>3

\* Streams that are left alone.
LEMMA StayIsKept ==
  ASSUME RepliesTypes, replyStreams' = replyStreams
  PROVE  StreamsKept
<1>1. Len(replyStreams) \in Nat /\ replyStreams \in Seq(ReplyStreamType)
  BY RepliesShape DEF RepliesTypes
<1> QED BY <1>1 DEF StreamsKept

\* A turn starts.
LEMMA TurnStartsStep ==
  ASSUME RepliesInv, TurnStarts
  PROVE  RepliesInv'
<1> DEFINE k == begun + 1
           n == Len(replyStreams)
<1>0. RepliesTypes
  BY DEF RepliesInv
<1>1. /\ chatKind # "" /\ turn = NoTurn /\ begun < MaxTurns /\ begun' = k
      /\ UNCHANGED <<chatKind, outbound, delivery, calls, shown, outcomes, stolen, apiFaults>>
      /\ \/ /\ chatKind = "private" /\ replyStreams' = Append(replyStreams, NewStream(k)) /\ activeStream' = n + 1
         \/ chatKind # "private" /\ UNCHANGED <<replyStreams, activeStream>>
  BY DEF TurnStarts
<1>2. PICK form \in TurnForms :
        turn' = [no |-> k, size |-> form.size, thinks |-> form.thinks,
                 stream |-> IF chatKind = "private" THEN n + 1 ELSE 0,
                 deltas |-> (IF form.thinks THEN <<<<>>>> ELSE <<>>)
                            \o (IF form.aside THEN <<Aside(k)>> ELSE <<>>)
                            \o Pieces(AnswerText(k, form.size), DeltaSize)]
  BY DEF TurnStarts
<1>3. k \in Turns /\ k \in Nat /\ n \in Nat /\ begun \in Nat /\ n + 1 \in Nat /\ MaxTurns \in Nat /\ k <= MaxTurns
  <2>1. n \in Nat /\ begun \in Nat /\ MaxTurns \in Nat
    BY <1>0, RepliesShape
  <2>2. begun < MaxTurns
    BY <1>1
  <2> QED BY <2>1, <2>2 DEF Turns
<1>4. form.size \in Nat \ {0} /\ form.thinks \in BOOLEAN
  BY RepliesAssumption
<1>5. /\ turn'.deltas \in Seq(Seq(Nat))
      /\ \/ turn'.deltas # <<>> /\ (Head(turn'.deltas) = <<>> \/ Head(turn'.deltas)[1] # AnswerText(k, form.size)[1])
         \/ turn'.deltas = Pieces(AnswerText(k, form.size), DeltaSize)
  BY <1>2, <1>3, DeltasAre
<1>6. /\ turn' \in RunningType /\ turn' # NoTurn /\ turn'.no = k /\ turn'.size = form.size
      /\ turn'.stream = IF chatKind = "private" THEN n + 1 ELSE 0
  <2>1. /\ turn'.no = k /\ turn'.size = form.size /\ turn'.thinks = form.thinks
        /\ turn'.stream = IF chatKind = "private" THEN n + 1 ELSE 0
        /\ turn' = [no |-> turn'.no, size |-> turn'.size, thinks |-> turn'.thinks, stream |-> turn'.stream,
                    deltas |-> turn'.deltas]
    BY <1>2
  <2>2. turn'.stream \in Nat
    BY <1>3, <2>1
  <2>3. turn' \in RunningType
    BY <1>3, <1>4, <1>5, <2>1, <2>2 DEF RunningType
  <2> QED BY <2>1, <2>3, KindsDiffer
<1>7. /\ calls["turn"] = NoApiCall /\ n \in Nat
      /\ chatKind # "private" => activeStream = 0
      /\ activeStream \in 0..n
  BY <1>1, <1>3 DEF RepliesInv, RepliesTypes, CallsFollow, StreamsFollow
<1>8. /\ replyStreams' \in Seq(ReplyStreamType) /\ n <= Len(replyStreams') /\ StreamsKept
      /\ \A r \in 1..n : replyStreams'[r] = replyStreams[r]
      /\ chatKind = "private" => /\ Len(replyStreams') = n + 1 /\ replyStreams'[n + 1] = NewStream(k)
                                 /\ activeStream' = n + 1
      /\ chatKind # "private" => activeStream' = 0 /\ replyStreams' = replyStreams
  <2>1. CASE chatKind = "private"
    <3>1. replyStreams' = Append(replyStreams, NewStream(k)) /\ activeStream' = n + 1
      BY <1>1, <2>1
    <3> HIDE DEF k
    <3> QED BY <1>0, <1>3, <2>1, <3>1, AddedIs
  <2>2. CASE chatKind # "private"
    <3>1. replyStreams' = replyStreams /\ activeStream' = 0
      BY <1>1, <1>7, <2>2
    <3>2. replyStreams \in Seq(ReplyStreamType)
      BY <1>0 DEF RepliesTypes
    <3> QED BY <1>0, <1>3, <2>2, <3>1, <3>2, StayIsKept
  <2> QED BY <2>1, <2>2
<1> HIDE DEF k, n
<1>9. RepliesTypes'
  <2>1. activeStream' \in 0..Len(replyStreams')
    <3>1. CASE chatKind = "private"
      BY <1>3, <1>8, <3>1
    <3>2. CASE chatKind # "private"
      <4>1. Len(replyStreams') \in Nat
        BY <1>8, LenProperties
      <4> QED BY <1>8, <3>2, <4>1
    <3> QED BY <3>1, <3>2
  <2>2. begun' \in 0..MaxTurns
    <3>1. begun' = k
      BY <1>1
    <3> QED BY <1>3, <3>1
  <2> QED BY <1>0, <1>1, <1>6, <1>8, <2>1, <2>2 DEF RepliesTypes
<1>10. MessagesFollow' /\ StreamsHoldTheirs'
  BY <1>0, <1>1, <1>8, KeptFollows DEF RepliesInv
<1>11. CallsFollow'
  <2>1. calls["dispatcher"] # NoApiCall =>
            /\ delivery # NoDelivery /\ delivery.way \in {"final", "push"} /\ calls["dispatcher"].stream = delivery.stream
            /\ calls["dispatcher"].stream \in 1..n
            /\ calls["dispatcher"].edits => replyStreams[calls["dispatcher"].stream].message # 0
            /\ stolen = {} /\ ~calls["dispatcher"].edits => replyStreams[calls["dispatcher"].stream].message = 0
    BY DEF RepliesInv, CallsFollow, n
  <2>2. \A r \in 1..n : r \in 1..Len(replyStreams') /\ replyStreams'[r] = replyStreams[r]
    <3>1. Len(replyStreams') \in Nat
      BY <1>8, LenProperties
    <3> QED BY <1>3, <1>8, <3>1
  <2> QED BY <1>1, <1>7, <2>1, <2>2 DEF CallsFollow
<1>12. RepliesInRow'
  <2>1. \A i \in 1..Len(outbound) : outbound[i].turn <= begun /\ outbound[i].turn \in Nat
    <3>1. \A i \in 1..Len(outbound) : outbound[i] \in PublishedType
      BY <1>0, RepliesShape
    <3>2. \A i \in 1..Len(outbound) : outbound[i].turn \in Nat
      BY <3>1 DEF PublishedType, Turns
    <3> QED BY <3>2 DEF RepliesInv, RepliesInRow
  <2>2. delivery # NoDelivery => delivery.turn <= begun /\ delivery.turn \in Nat
    <3>1. delivery # NoDelivery => delivery.turn \in Nat
      BY <1>0, RepliesShape DEF WorkType, Turns
    <3> QED BY <3>1 DEF RepliesInv, RepliesInRow
  <2>3. \A j \in Turns : outcomes[j].result # "no" => j <= begun /\ j \in Nat
    BY DEF RepliesInv, RepliesInRow, Turns
  <2>4. \A x \in Nat : x <= begun => x < k /\ x <= k
    BY <1>3 DEF k
  <2> QED BY <1>1, <1>6, <2>1, <2>2, <2>3, <2>4 DEF RepliesInv, RepliesInRow
<1>13. StreamsFollow'
  <2>1. activeStream' # 0 => replyStreams'[activeStream'].turn = begun' /\ chatKind' = "private"
    BY <1>1, <1>3, <1>8, NewStreamIs
  <2>2. /\ chatKind' # "" /\ activeStream' \in {0, turn'.stream}
        /\ turn'.stream # 0 => turn'.stream \in 1..Len(replyStreams') /\ replyStreams'[turn'.stream].turn = turn'.no
    <3>1. CASE chatKind = "private"
      BY <1>1, <1>3, <1>6, <1>8, <3>1, NewStreamIs
    <3>2. CASE chatKind # "private"
      BY <1>1, <1>6, <1>8, <3>2
    <3> QED BY <3>1, <3>2
  <2>3. ASSUME delivery # NoDelivery, delivery.way \in {"final", "push"}
        PROVE  /\ delivery.stream \in 1..Len(replyStreams') /\ delivery.stream # activeStream'
               /\ replyStreams'[delivery.stream].turn = replyStreams[delivery.stream].turn
    <3>1. delivery.stream \in 1..n
      BY <2>3 DEF RepliesInv, StreamsFollow, n
    <3>2. Len(replyStreams') \in Nat
      BY <1>8, LenProperties
    <3> QED BY <1>3, <1>8, <3>1, <3>2
  <2>4. delivery # NoDelivery => delivery.turn < begun'
    <3>1. delivery # NoDelivery => delivery.turn \in Nat
      BY <1>0, RepliesShape DEF WorkType, Turns
    <3>2. delivery # NoDelivery => delivery.turn <= begun
      BY DEF RepliesInv, RepliesInRow
    <3>3. begun' = begun + 1
      BY <1>1 DEF k
    <3> QED BY <1>3, <3>1, <3>2, <3>3
  <2> QED BY <1>1, <1>6, <2>1, <2>2, <2>3, <2>4 DEF RepliesInv, StreamsFollow
<1>14. TurnStreams'
  <2> SUFFICES ASSUME turn'.stream # 0
               PROVE  \/ /\ replyStreams'[turn'.stream] = NewStream(turn'.no) /\ calls'["turn"] = NoApiCall /\ turn'.deltas # <<>>
                         /\ Head(turn'.deltas) = <<>> \/ Head(turn'.deltas)[1] # AnswerText(turn'.no, turn'.size)[1]
                      \/ /\ On(replyStreams'[turn'.stream], Shown(replyStreams'[turn'.stream], shown'), AnswerText(turn'.no, turn'.size))
                         /\ CallOn(calls'["turn"], replyStreams'[turn'.stream], AnswerText(turn'.no, turn'.size))
                         /\ turn'.deltas = Pieces(Rest(AnswerText(turn'.no, turn'.size), Len(replyStreams'[turn'.stream].buffer)), DeltaSize)
    BY DEF TurnStreams
  <2>1. chatKind = "private" /\ turn'.stream = n + 1 /\ replyStreams'[turn'.stream] = NewStream(k)
        /\ turn'.no = k /\ turn'.size = form.size /\ calls'["turn"] = NoApiCall
    BY <1>1, <1>6, <1>7, <1>8
  <2>2. AnswerText(k, form.size) \in Seq(Nat)
    BY <1>3, <1>4, AnswerIs
  <2>3. /\ On(NewStream(k), Shown(NewStream(k), shown'), AnswerText(k, form.size))
        /\ Rest(AnswerText(k, form.size), Len(NewStream(k).buffer)) = AnswerText(k, form.size)
    BY <1>3, <2>2, NewIsOn
  <2>4. CallOn(calls'["turn"], NewStream(k), AnswerText(k, form.size))
    BY <2>1 DEF CallOn
  <2> QED BY <1>5, <2>1, <2>3, <2>4
<1>15. RepliesReady'
  <2>1. ASSUME NEW i \in 1..Len(outbound), activeStream' # 0, replyStreams'[activeStream'].turn = outbound[i].turn
        PROVE  FALSE
    <3>1. outbound[i].turn = k
      BY <1>3, <1>8, <2>1, NewStreamIs
    <3>2. outbound[i].turn <= begun
      BY DEF RepliesInv, RepliesInRow
    <3> QED BY <1>3, <3>1, <3>2 DEF k
  <2>2. ASSUME delivery # NoDelivery, delivery.way = "final", calls["dispatcher"] = NoApiCall, delivery.turn \notin stolen
        PROVE  Ready(delivery.stream, ReplyText(delivery))'
    <3>1. delivery.stream \in 1..n
      BY <2>2 DEF RepliesInv, StreamsFollow, n
    <3>2. Ready(delivery.stream, ReplyText(delivery))
      BY <2>2 DEF RepliesInv, RepliesReady
    <3> QED BY <1>1, <1>8, <3>1, <3>2 DEF Ready, ReplyText
  <2> QED BY <1>1, <2>1, <2>2 DEF RepliesReady
<1>16. DeliveryGoesOn'
  <2>1. delivery # NoDelivery /\ delivery.way = "push" => replyStreams'[delivery.stream] = replyStreams[delivery.stream]
    BY <1>8 DEF RepliesInv, StreamsFollow, n
  <2> QED BY <1>1, <2>1 DEF RepliesInv, DeliveryGoesOn
<1>17. AnswersAreSeen'
  BY <1>0, <1>1, AnswersStay DEF RepliesInv
<1> QED BY <1>9, <1>10, <1>11, <1>12, <1>13, <1>14, <1>15, <1>16, <1>17 DEF RepliesInv

\* While a turn runs, all else is of an earlier one, and its stream is not with the dispatcher.
LEMMA TurnIsLast ==
  ASSUME RepliesInv, turn # NoTurn
  PROVE  /\ turn \in RunningType /\ turn.no = begun /\ begun \in Turns /\ begun \in Nat
         /\ activeStream \in {0, turn.stream}
         /\ turn.stream # 0 => turn.stream \in 1..Len(replyStreams) /\ replyStreams[turn.stream].turn = begun
         /\ \A i \in 1..Len(outbound) : outbound[i].turn < begun /\ outbound[i].turn # begun
         /\ \A k \in Turns : outcomes[k].result # "no" => k # begun
         /\ delivery # NoDelivery => delivery.turn # begun
         /\ delivery # NoDelivery /\ turn.stream # 0 /\ delivery.way \in {"final", "push"} =>
                delivery.stream # turn.stream \/ (delivery.way = "final" /\ delivery.turn \in stolen)
<1>1. turn \in RunningType /\ turn.no = begun /\ begun \in Nat
  <2>1. RepliesTypes
    BY DEF RepliesInv
  <2> QED BY <2>1, RepliesShape DEF RepliesInv, RepliesInRow
<1>2. begun \in Turns
  BY <1>1 DEF RunningType
<1>3. /\ activeStream \in {0, turn.stream}
      /\ turn.stream # 0 => turn.stream \in 1..Len(replyStreams) /\ replyStreams[turn.stream].turn = begun
  BY <1>1 DEF RepliesInv, StreamsFollow
<1>4. \A i \in 1..Len(outbound) : outbound[i].turn < begun
  BY DEF RepliesInv, RepliesInRow
<1>5. \A i \in 1..Len(outbound) : outbound[i].turn \in Nat
  <2>1. \A i \in 1..Len(outbound) : outbound[i] \in PublishedType
    BY RepliesShape DEF RepliesInv
  <2> QED BY <2>1 DEF PublishedType, Turns
<1>6. \A k \in Turns : outcomes[k].result # "no" => k < begun
  BY DEF RepliesInv, RepliesInRow
<1>7. \A k \in Turns : k \in Nat
  BY DEF Turns
<1>8. delivery # NoDelivery => delivery.turn < begun
  BY DEF RepliesInv, RepliesInRow
<1>9. delivery # NoDelivery => delivery.turn \in Nat
  <2>1. delivery # NoDelivery => delivery \in WorkType
    BY RepliesShape DEF RepliesInv
  <2> QED BY <2>1, <1>7 DEF WorkType
<1>10. delivery # NoDelivery => delivery.turn # begun
  BY <1>1, <1>8, <1>9
<1>11. delivery # NoDelivery /\ turn.stream # 0 /\ delivery.way \in {"final", "push"} =>
                delivery.stream # turn.stream \/ (delivery.way = "final" /\ delivery.turn \in stolen)
  BY <1>3, <1>10 DEF RepliesInv, StreamsFollow
<1>12. /\ \A i \in 1..Len(outbound) : outbound[i].turn # begun
       /\ \A k \in Turns : outcomes[k].result # "no" => k # begun
  BY <1>1, <1>4, <1>5, <1>6, <1>7
<1> QED BY <1>1, <1>2, <1>3, <1>4, <1>10, <1>11, <1>12

\* The delivery goes on as it was, when only a stream that is not its own changes.
LEMMA DeliveryStands ==
  ASSUME RepliesInv, NEW s \in Nat, delivery' = delivery, calls'["dispatcher"] = calls["dispatcher"], stolen' = stolen,
         \A r \in 1..Len(replyStreams) : r # s =>
            replyStreams'[r] = replyStreams[r] /\ Shown(replyStreams[r], shown') = Shown(replyStreams[r], shown),
         delivery # NoDelivery /\ delivery.way \in {"final", "push"} =>
            delivery.stream # s \/ (delivery.way = "final" /\ delivery.turn \in stolen),
         \A i \in 1..Len(shown) : shown[i].by = 0 => i \in 1..Len(shown') /\ shown'[i] = shown[i]
  PROVE  /\ DeliveryGoesOn'
         /\ delivery' # NoDelivery /\ delivery'.way = "final" /\ calls'["dispatcher"] = NoApiCall /\ delivery'.turn \notin stolen' =>
                Ready(delivery.stream, ReplyText(delivery))'
<1>1. ASSUME delivery # NoDelivery, delivery.way \in {"final", "push"}, delivery.stream # s
      PROVE  /\ replyStreams'[delivery.stream] = replyStreams[delivery.stream]
             /\ Shown(replyStreams[delivery.stream], shown') = Shown(replyStreams[delivery.stream], shown)
  <2>1. delivery.stream \in 1..Len(replyStreams)
    BY <1>1 DEF RepliesInv, StreamsFollow
  <2> QED BY <1>1, <2>1
<1>2. ReplyText(delivery)' = ReplyText(delivery)
  BY DEF ReplyText
<1>3. ASSUME delivery # NoDelivery, delivery.way = "final", calls["dispatcher"] = NoApiCall, delivery.turn \notin stolen
      PROVE  Ready(delivery.stream, ReplyText(delivery))'
  <2>1. Ready(delivery.stream, ReplyText(delivery)) /\ delivery.stream # s
    BY <1>3 DEF RepliesInv, RepliesReady
  <2> QED BY <1>1, <1>2, <1>3, <2>1 DEF Ready
<1>4. DeliveryGoesOn'
  <2>1. delivery # NoDelivery /\ delivery.way = "final" /\ calls["dispatcher"] # NoApiCall =>
            calls["dispatcher"].preview = Plain(FirstOf(ReplyText(delivery), MessageLimit))
    BY DEF RepliesInv, DeliveryGoesOn
  <2>2. ASSUME delivery # NoDelivery, delivery.way = "push"
        PROVE  /\ On(replyStreams'[delivery.stream], Shown(replyStreams'[delivery.stream], shown'), ReplyText(delivery))
               /\ CallOn(calls["dispatcher"], replyStreams'[delivery.stream], ReplyText(delivery))
               /\ delivery.left = Pieces(Rest(ReplyText(delivery), Len(replyStreams'[delivery.stream].buffer)), StreamStep)
    <3>1. delivery.stream # s
      BY <2>2
    <3>2. /\ On(replyStreams[delivery.stream], Shown(replyStreams[delivery.stream], shown), ReplyText(delivery))
          /\ CallOn(calls["dispatcher"], replyStreams[delivery.stream], ReplyText(delivery))
          /\ delivery.left = Pieces(Rest(ReplyText(delivery), Len(replyStreams[delivery.stream].buffer)), StreamStep)
      BY <2>2 DEF RepliesInv, DeliveryGoesOn
    <3> QED BY <1>1, <2>2, <3>1, <3>2
  <2>3. ASSUME delivery # NoDelivery, delivery.way \in {"rich", "plain"}, NEW piece \in ToSet(Pieces(ReplyText(delivery), MessageLimit))
        PROVE  \/ piece \in ToSet(delivery.left)
               \/ \E i \in 1..Len(shown') : shown'[i].turn = delivery.turn /\ shown'[i].by = 0 /\ shown'[i].reply = piece
    <3>1. \/ piece \in ToSet(delivery.left)
          \/ \E i \in 1..Len(shown) : shown[i].turn = delivery.turn /\ shown[i].by = 0 /\ shown[i].reply = piece
      BY <2>3 DEF RepliesInv, DeliveryGoesOn
    <3> QED BY <3>1
  <2> QED BY <1>2, <2>1, <2>2, <2>3 DEF DeliveryGoesOn
<1> QED BY <1>3, <1>4

\* A turn ends, and its reply may be published.
LEMMA PublishedFollows ==
  ASSUME RepliesInv, turn # NoTurn, turn' = NoTurn, begun' = begun, delivery' = delivery, outcomes' = outcomes,
         NEW size \in Nat \ {0}, NEW streamed \in BOOLEAN, NEW thinking \in BOOLEAN,
         \/ outbound' = outbound
         \/ outbound' = Append(outbound, [turn |-> turn.no, size |-> size, streamed |-> streamed, thinking |-> thinking])
  PROVE  /\ RepliesInRow' /\ outbound' \in Seq(PublishedType)
         /\ \A i \in 1..Len(outbound') :
                \/ i \in 1..Len(outbound) /\ outbound'[i] = outbound[i]
                \/ outbound'[i] = [turn |-> begun, size |-> size, streamed |-> streamed, thinking |-> thinking]
<1> DEFINE new == [turn |-> begun, size |-> size, streamed |-> streamed, thinking |-> thinking]
<1>1. turn.no = begun /\ begun \in Turns /\ begun \in Nat
  BY TurnIsLast
<1>2. outbound \in Seq(PublishedType) /\ Len(outbound) \in Nat
  BY RepliesShape DEF RepliesInv, RepliesTypes
<1>3. new \in PublishedType /\ new.turn = begun
  BY <1>1 DEF PublishedType
<1> HIDE DEF new
<1>4. /\ outbound' \in Seq(PublishedType) /\ Len(outbound') \in Nat
      /\ \A i \in 1..Len(outbound') :
            \/ i \in 1..Len(outbound) /\ outbound'[i] = outbound[i]
            \/ outbound'[i] = new /\ i = Len(outbound) + 1
  <2>1. CASE outbound' = outbound
    BY <1>2, <2>1
  <2>2. CASE outbound' = Append(outbound, new)
    BY <1>2, <1>3, <2>2
  <2> QED BY <1>1, <2>1, <2>2 DEF new
<1>5. RepliesInRow'
  <2>1. \A i \in 1..Len(outbound) : outbound[i].turn < begun /\ outbound[i].turn \in Nat
    <3>1. \A i \in 1..Len(outbound) : outbound[i] \in PublishedType
      BY <1>2, ElementOfSeq
    <3> QED BY <3>1, TurnIsLast DEF PublishedType, Turns
  <2>2. /\ delivery # NoDelivery => delivery.turn < begun /\ delivery.turn <= begun
        /\ \A k \in Turns : outcomes[k].result # "no" => k < begun /\ k <= begun
        /\ delivery # NoDelivery => \A i \in 1..Len(outbound) : delivery.turn < outbound[i].turn
        /\ \A k \in Turns : outcomes[k].result # "no" =>
            /\ \A i \in 1..Len(outbound) : k < outbound[i].turn
            /\ delivery # NoDelivery => k < delivery.turn \/ (k = delivery.turn /\ delivery.way = "block")
        /\ \A i, j \in 1..Len(outbound) : i < j => outbound[i].turn < outbound[j].turn
    BY DEF RepliesInv, RepliesInRow
  <2>3. ASSUME NEW i \in 1..Len(outbound')
        PROVE  /\ outbound'[i].turn <= begun
               /\ \A j \in 1..Len(outbound') : i < j => outbound'[i].turn < outbound'[j].turn
    <3>1. outbound'[i].turn <= begun
      BY <1>1, <1>3, <1>4, <2>1
    <3>2. ASSUME NEW j \in 1..Len(outbound'), i < j PROVE outbound'[i].turn < outbound'[j].turn
      <4>0. i \in Nat /\ j \in Nat
        OBVIOUS
      <4>1. i \in 1..Len(outbound) /\ outbound'[i] = outbound[i]
        BY <1>2, <1>4, <3>2, <4>0
      <4>2. CASE j \in 1..Len(outbound) /\ outbound'[j] = outbound[j]
        BY <2>2, <3>2, <4>1, <4>2
      <4>3. CASE outbound'[j] = new
        BY <1>3, <2>1, <4>1, <4>3
      <4> QED BY <1>4, <4>2, <4>3
    <3> QED BY <3>1, <3>2
  <2>4. \A i \in 1..Len(outbound') : (delivery # NoDelivery => delivery.turn < outbound'[i].turn)
                                    /\ \A k \in Turns : outcomes[k].result # "no" => k < outbound'[i].turn
    BY <1>3, <1>4, <2>2
  <2> QED BY <2>2, <2>3, <2>4 DEF RepliesInRow
<1> QED BY <1>4, <1>5 DEF new

\* The streams belong to those they belonged to.
LEMMA StreamsFollowOn ==
  ASSUME RepliesInv, turn' = NoTurn \/ (turn # NoTurn /\ turn' # NoTurn /\ turn'.stream = turn.stream /\ turn'.no = turn.no),
         Len(replyStreams') = Len(replyStreams),
         \A r \in 1..Len(replyStreams) : replyStreams'[r].turn = replyStreams[r].turn,
         UNCHANGED <<chatKind, activeStream, delivery, begun, stolen>>
  PROVE  StreamsFollow'
<1>1. activeStream # 0 => activeStream \in 1..Len(replyStreams)
  <2>1. activeStream \in 0..Len(replyStreams)
    BY DEF RepliesInv, RepliesTypes
  <2>2. Len(replyStreams) \in Nat
    BY RepliesShape DEF RepliesInv
  <2> QED BY <2>1, <2>2
<1>2. /\ activeStream # 0 => replyStreams[activeStream].turn = begun /\ chatKind = "private"
      /\ delivery # NoDelivery /\ delivery.way \in {"final", "push"} =>
        /\ delivery.stream \in 1..Len(replyStreams) /\ delivery.stream # activeStream
        /\ \/ replyStreams[delivery.stream].turn = delivery.turn
           \/ replyStreams[delivery.stream].turn > delivery.turn /\ delivery.way = "final" /\ delivery.turn \in stolen
      /\ delivery # NoDelivery /\ delivery.streamed /\ activeStream # 0 => delivery.turn < begun
  BY DEF RepliesInv, StreamsFollow
<1>3. turn # NoTurn =>
        /\ chatKind # "" /\ activeStream \in {0, turn.stream}
        /\ turn.stream # 0 => turn.stream \in 1..Len(replyStreams) /\ replyStreams[turn.stream].turn = turn.no
  BY DEF RepliesInv, StreamsFollow
<1>4. turn' # NoTurn =>
        /\ chatKind # "" /\ activeStream \in {0, turn'.stream}
        /\ turn'.stream # 0 => turn'.stream \in 1..Len(replyStreams') /\ replyStreams'[turn'.stream].turn = turn'.no
  BY <1>3
<1>5. /\ activeStream # 0 => replyStreams'[activeStream].turn = begun
      /\ delivery # NoDelivery /\ delivery.way \in {"final", "push"} =>
            replyStreams'[delivery.stream].turn = replyStreams[delivery.stream].turn
  BY <1>1, <1>2
<1> QED BY <1>2, <1>4, <1>5 DEF StreamsFollow

\* The stream that is active, if one is.
LEMMA ActiveIs ==
  ASSUME RepliesInv
  PROVE  /\ activeStream \in 0..Len(replyStreams) /\ Len(replyStreams) \in Nat
         /\ activeStream # 0 => activeStream \in 1..Len(replyStreams)
<1>1. activeStream \in 0..Len(replyStreams)
  BY DEF RepliesInv, RepliesTypes
<1>2. Len(replyStreams) \in Nat
  BY RepliesShape DEF RepliesInv
<1> QED BY <1>1, <1>2

\* A turn ends with an answer, streamed or not.
LEMMA TurnEndsStep ==
  ASSUME RepliesInv, TurnAnswers \/ TurnFallsBack
  PROVE  RepliesInv'
<1> DEFINE answers == turn.stream # 0 /\ turn.deltas = <<>>
<1>0. RepliesTypes
  BY DEF RepliesInv
<1>1. /\ turn # NoTurn /\ calls["turn"] = NoApiCall /\ turn' = NoTurn
      /\ UNCHANGED <<chatKind, replyStreams, activeStream, delivery, calls, shown, outcomes, stolen, begun, apiFaults>>
  BY DEF TurnAnswers, TurnFallsBack
<1>2. turn \in RunningType /\ turn.no = begun /\ turn.size \in Nat \ {0} /\ turn.thinks \in BOOLEAN
  BY <1>1, TurnIsLast DEF RunningType
<1>3. PICK size \in Nat \ {0}, streamed \in BOOLEAN, thinking \in BOOLEAN :
        /\ outbound' = Append(outbound, [turn |-> turn.no, size |-> size, streamed |-> streamed, thinking |-> thinking])
        /\ streamed => answers /\ size = turn.size
  <2>1. CASE TurnAnswers
    <3> DEFINE streamed == turn.stream # 0
               thinking == streamed /\ turn.thinks
    <3>1. outbound' = Append(outbound, [turn |-> turn.no, size |-> turn.size, streamed |-> streamed, thinking |-> thinking])
      BY <2>1 DEF TurnAnswers, Publish
    <3>2. streamed => answers
      BY <2>1 DEF TurnAnswers
    <3>3. streamed \in BOOLEAN /\ thinking \in BOOLEAN
      OBVIOUS
    <3> HIDE DEF streamed, thinking, answers
    <3> QED BY <1>2, <3>1, <3>2, <3>3
  <2>2. CASE TurnFallsBack
    <3>1. outbound' = Append(outbound, [turn |-> turn.no, size |-> 1, streamed |-> FALSE, thinking |-> FALSE])
      BY <2>2 DEF TurnFallsBack, Publish
    <3>2. 1 \in Nat \ {0} /\ FALSE \in BOOLEAN
      OBVIOUS
    <3> HIDE DEF answers
    <3> QED BY <3>1, <3>2
  <2> QED BY <2>1, <2>2
<1>4. /\ RepliesInRow' /\ outbound' \in Seq(PublishedType)
      /\ \A i \in 1..Len(outbound') :
            \/ i \in 1..Len(outbound) /\ outbound'[i] = outbound[i]
            \/ outbound'[i] = [turn |-> begun, size |-> size, streamed |-> streamed, thinking |-> thinking]
  BY <1>1, <1>3, PublishedFollows
<1>5. RepliesTypes'
  BY <1>0, <1>1, <1>4 DEF RepliesTypes
<1>6. MessagesFollow' /\ StreamsHoldTheirs'
  BY <1>0, <1>1, StayIsKept, KeptFollows DEF RepliesInv
<1>7. CallsFollow'
  BY <1>1 DEF RepliesInv, CallsFollow
<1>8. StreamsFollow'
  BY <1>1, StreamsFollowOn
<1>9. TurnStreams'
  BY <1>1 DEF TurnStreams
<1>10. /\ DeliveryGoesOn'
       /\ delivery' # NoDelivery /\ delivery'.way = "final" /\ calls'["dispatcher"] = NoApiCall /\ delivery'.turn \notin stolen' =>
                Ready(delivery.stream, ReplyText(delivery))'
  BY <1>1 DEF RepliesInv, DeliveryGoesOn, RepliesReady, Ready, ReplyText
<1>11. ASSUME NEW i \in 1..Len(outbound'), outbound'[i].streamed, activeStream # 0,
              replyStreams[activeStream].turn = outbound'[i].turn
       PROVE  Ready(activeStream, AnswerText(outbound'[i].turn, outbound'[i].size))
  <2>1. activeStream = turn.stream /\ replyStreams[activeStream].turn = begun
    BY <1>1, <1>11, TurnIsLast
  <2>2. i \notin 1..Len(outbound) \/ outbound'[i] # outbound[i]
    BY <1>1, <1>11, <2>1, TurnIsLast
  <2>3. streamed /\ outbound'[i].turn = begun /\ outbound'[i].size = size
    BY <1>4, <1>11, <2>2
  <2>4. turn.stream # 0 /\ turn.deltas = <<>> /\ size = turn.size
    BY <1>3, <2>3
  <2>5. On(replyStreams[turn.stream], Shown(replyStreams[turn.stream], shown), AnswerText(turn.no, turn.size))
        \/ Off(replyStreams[turn.stream], AnswerText(turn.no, turn.size))
    BY <1>1, <2>1, <2>4 DEF RepliesInv, TurnStreams
  <2> QED BY <1>2, <2>1, <2>3, <2>4, <2>5 DEF Ready
<1>12. RepliesReady'
  BY <1>1, <1>10, <1>11 DEF RepliesReady, Ready
<1>13. AnswersAreSeen'
  BY <1>0, <1>1, AnswersStay DEF RepliesInv
<1> QED BY <1>4, <1>5, <1>6, <1>7, <1>8, <1>9, <1>10, <1>12, <1>13 DEF RepliesInv

\* A turn is stopped, and its call may still arrive.
LEMMA TurnStoppedStep ==
  ASSUME RepliesInv, TurnStopped
  PROVE  RepliesInv'
<1>0. RepliesTypes
  BY DEF RepliesInv
<1>1. /\ turn # NoTurn /\ turn' = NoTurn /\ calls' = [calls EXCEPT !["turn"] = NoApiCall]
      /\ UNCHANGED <<chatKind, replyStreams, activeStream, outbound, delivery, outcomes, stolen, begun>>
  BY DEF TurnStopped
<1>2. calls'["turn"] = NoApiCall /\ calls'["dispatcher"] = calls["dispatcher"]
      /\ calls' \in [{"turn", "dispatcher"} -> {NoApiCall} \cup ApiCallType]
  BY <1>0, <1>1 DEF RepliesTypes
<1>3. /\ replyStreams \in Seq(ReplyStreamType) /\ shown \in Seq(ShownType) /\ Len(shown) \in Nat /\ Len(replyStreams) \in Nat
      /\ apiFaults \in Nat /\ apiFaults \in 0..MaxApiFaults /\ MaxApiFaults \in Nat
  <2>1. apiFaults \in 0..MaxApiFaults /\ replyStreams \in Seq(ReplyStreamType) /\ shown \in Seq(ShownType)
    BY <1>0 DEF RepliesTypes
  <2>2. MaxApiFaults \in Nat /\ Len(shown) \in Nat /\ Len(replyStreams) \in Nat
    BY <1>0, RepliesShape
  <2> QED BY <2>1, <2>2
<1>4. PICK s \in 0..Len(replyStreams) :
        /\ Spoken(s) /\ s # 0 => apiFaults' > 0
        /\ Spoken(s) /\ apiFaults' \in apiFaults..MaxApiFaults
        /\ s # 0 => s = turn.stream
  <2>1. CASE UNCHANGED <<shown, apiFaults>>
    <3>1. Spoken(0) /\ 0 \in 0..Len(replyStreams)
      BY <1>3, <2>1 DEF Spoken
    <3>2. apiFaults' \in apiFaults..MaxApiFaults
      BY <1>3, <2>1
    <3> QED BY <3>1, <3>2
  <2>2. CASE ~UNCHANGED <<shown, apiFaults>>
    <3> DEFINE s == calls["turn"].stream
               late == Message(turn.no, s, calls["turn"].preview)
               m == replyStreams[s].message
    <3>1. /\ calls["turn"] # NoApiCall /\ apiFaults < MaxApiFaults /\ apiFaults' = apiFaults + 1
          /\ shown' = IF calls["turn"].edits THEN [shown EXCEPT ![m] = late] ELSE Append(shown, late)
      BY <2>2 DEF TurnStopped
    <3>2. s = turn.stream /\ s \in 1..Len(replyStreams) /\ s # 0 /\ (calls["turn"].edits => m # 0)
          /\ calls["turn"] \in ApiCallType
      <4>1. s = turn.stream /\ s \in 1..Len(replyStreams) /\ (calls["turn"].edits => m # 0)
        BY <3>1 DEF RepliesInv, CallsFollow
      <4>2. calls["turn"] \in ApiCallType
        BY <1>0, <3>1, RepliesShape
      <4> QED BY <1>3, <4>1, <4>2
    <3>3. late \in ShownType /\ late.by = s /\ late.turn = replyStreams[s].turn /\ replyStreams[s].turn = begun
      <4>1. turn.no = begun /\ begun \in Turns /\ replyStreams[turn.stream].turn = begun
        BY <1>1, <3>2, TurnIsLast
      <4>2. calls["turn"].preview \in PreviewType /\ s \in Nat
        BY <3>2 DEF ApiCallType
      <4> QED BY <3>2, <4>1, <4>2 DEF Message, ShownType, PreviewType
    <3>4. m \in 0..Len(shown) /\ (m # 0 => shown[m].by = s /\ shown[m].turn = replyStreams[s].turn)
      BY <3>2 DEF RepliesInv, MessagesFollow
    <3>5. apiFaults' \in apiFaults..MaxApiFaults /\ apiFaults' > 0
      BY <1>3, <3>1
    <3> HIDE DEF s, late, m
    <3>6. Spoken(s)
      <4>1. CASE calls["turn"].edits
        <5>1. shown' = [shown EXCEPT ![m] = late] /\ m \in 1..Len(shown)
          BY <1>3, <3>1, <3>2, <3>4, <4>1
        <5>2. /\ shown' \in Seq(ShownType) /\ Len(shown') = Len(shown) /\ shown'[m] = late
              /\ \A i \in 1..Len(shown) : i # m => shown'[i] = shown[i]
          BY <1>3, <3>3, <5>1, OneReplaced
        <5> QED BY <1>3, <3>2, <3>3, <3>4, <5>1, <5>2 DEF Spoken
      <4>2. CASE ~calls["turn"].edits
        <5>1. shown' = Append(shown, late)
          BY <3>1, <4>2
        <5>2. /\ shown' \in Seq(ShownType) /\ Len(shown') = Len(shown) + 1 /\ shown'[Len(shown) + 1] = late
              /\ \A i \in 1..Len(shown) : shown'[i] = shown[i]
          BY <1>3, <3>3, <5>1
        <5>3. \A i \in (Len(shown) + 1)..Len(shown') : i = Len(shown) + 1
          BY <1>3, <5>2
        <5> QED BY <1>3, <3>3, <5>2, <5>3 DEF Spoken
      <4> QED BY <4>1, <4>2
    <3> QED BY <1>3, <3>2, <3>5, <3>6
  <2> QED BY <2>1, <2>2
<1>5. /\ \A r \in 1..Len(replyStreams) : r # s => Shown(replyStreams[r], shown') = Shown(replyStreams[r], shown)
      /\ \A k \in Turns : s = 0 \/ replyStreams[s].turn # k => Standing(k) \subseteq Standing(k)'
      /\ \A i \in 1..Len(shown) : shown[i].by = 0 => shown'[i] = shown[i]
  <2>1. s \in Nat
    BY <1>3
  <2> QED BY <1>0, <1>4, <2>1, OthersStand DEF RepliesInv
<1>6. RepliesInRow'
  <2>1. 1 \in Nat \ {0} /\ FALSE \in BOOLEAN
    OBVIOUS
  <2> QED BY <1>1, <2>1, PublishedFollows
<1>7. RepliesTypes'
  <2>1. apiFaults' \in 0..MaxApiFaults
    BY <1>3, <1>4
  <2>2. shown' \in Seq(ShownType)
    BY <1>4 DEF Spoken
  <2> QED BY <1>0, <1>1, <1>2, <2>1, <2>2 DEF RepliesTypes
<1>8. MessagesFollow' /\ StreamsHoldTheirs'
  BY <1>0, <1>1, <1>4, SpokenFollows DEF RepliesInv
<1>9. CallsFollow'
  BY <1>1, <1>2 DEF RepliesInv, CallsFollow
<1>10. StreamsFollow'
  BY <1>1, StreamsFollowOn
<1>11. TurnStreams'
  BY <1>1 DEF TurnStreams
<1>12. Len(shown') \in Nat /\ Len(shown) <= Len(shown')
  BY <1>4, LenProperties DEF Spoken
<1>13. /\ DeliveryGoesOn'
       /\ delivery' # NoDelivery /\ delivery'.way = "final" /\ calls'["dispatcher"] = NoApiCall /\ delivery'.turn \notin stolen' =>
                Ready(delivery.stream, ReplyText(delivery))'
  <2>1. delivery # NoDelivery /\ delivery.way \in {"final", "push"} =>
            delivery.stream # s \/ (delivery.way = "final" /\ delivery.turn \in stolen)
    <3>0. delivery # NoDelivery /\ delivery.way \in {"final", "push"} => delivery.stream \in 1..Len(replyStreams)
      BY DEF RepliesInv, StreamsFollow
    <3>1. delivery # NoDelivery /\ delivery.way \in {"final", "push"} => delivery.stream # 0
      BY <1>3, <3>0
    <3> QED BY <1>1, <1>4, <3>1, TurnIsLast
  <2>2. \A i \in 1..Len(shown) : shown[i].by = 0 => i \in 1..Len(shown') /\ shown'[i] = shown[i]
    BY <1>3, <1>5, <1>12
  <2>3. s \in Nat
    BY <1>3
  <2> QED BY <1>1, <1>2, <1>5, <2>1, <2>2, <2>3, DeliveryStands
<1>14. RepliesReady'
  <2>1. ASSUME NEW i \in 1..Len(outbound), activeStream # 0, replyStreams[activeStream].turn = outbound[i].turn PROVE FALSE
    BY <1>1, <2>1, TurnIsLast
  <2> QED BY <1>1, <1>13, <2>1 DEF RepliesReady
<1>15. AnswersAreSeen'
  <2>1. \A k \in Turns : outcomes[k].result # "no" => Standing(k) \subseteq Standing(k)'
    BY <1>1, <1>4, <1>5, TurnIsLast
  <2>2. 0 \notin Turns
    BY DEF Turns
  <2> QED BY <1>0, <1>1, <1>4, <2>1, <2>2, AnswersFollow DEF RepliesInv
<1> QED BY <1>6, <1>7, <1>8, <1>9, <1>10, <1>11, <1>13, <1>14, <1>15 DEF RepliesInv

\* A stream that has grown, and what it may call for.
LEMMA GrownIs ==
  ASSUME RepliesTypes, NEW s \in 1..Len(replyStreams), NEW grown \in ReplyStreamType,
         grown.message = replyStreams[s].message, grown.last = replyStreams[s].last, grown.turn = replyStreams[s].turn,
         replyStreams' = [replyStreams EXCEPT ![s] = grown]
  PROVE  /\ StreamsKept /\ replyStreams' \in Seq(ReplyStreamType) /\ Len(replyStreams') = Len(replyStreams)
         /\ replyStreams'[s] = grown
         /\ \A r \in 1..Len(replyStreams) : r # s => replyStreams'[r] = replyStreams[r]
         /\ \A r \in 1..Len(replyStreams) : replyStreams'[r].turn = replyStreams[r].turn /\ replyStreams'[r].message = replyStreams[r].message
<1>1. replyStreams \in Seq(ReplyStreamType) /\ Len(replyStreams) \in Nat
  BY RepliesShape DEF RepliesTypes
<1>2. /\ replyStreams' \in Seq(ReplyStreamType) /\ Len(replyStreams') = Len(replyStreams) /\ replyStreams'[s] = grown
      /\ \A r \in 1..Len(replyStreams) : r # s => replyStreams'[r] = replyStreams[r]
  BY <1>1, OneReplaced
<1>3. \A r \in 1..Len(replyStreams) :
        /\ replyStreams'[r].message = replyStreams[r].message /\ replyStreams'[r].last = replyStreams[r].last
        /\ replyStreams'[r].turn = replyStreams[r].turn
  BY <1>2
<1>4. \A r \in (Len(replyStreams) + 1)..Len(replyStreams') : FALSE
  BY <1>1, <1>2
<1> QED BY <1>1, <1>2, <1>3, <1>4 DEF StreamsKept

\* A caller is idle, and may begin to display a preview.
LEMMA DisplaysIs ==
  ASSUME RepliesTypes, NEW w \in {"turn", "dispatcher"}, NEW s \in 1..Len(replyStreams), NEW preview \in PreviewType,
         calls[w] = NoApiCall, calls' = calls \/ Displays(w, s, preview)
  PROVE  /\ calls' \in [{"turn", "dispatcher"} -> {NoApiCall} \cup ApiCallType]
         /\ \A v \in {"turn", "dispatcher"} : v # w => calls'[v] = calls[v]
         /\ \/ calls'[w] = NoApiCall /\ calls' = calls
            \/ /\ calls'[w] # NoApiCall /\ calls'[w].stream = s /\ calls'[w].preview = preview
               /\ calls'[w].edits = (replyStreams[s].message # 0)
         /\ Displays(w, s, preview) => (calls' = calls <=> preview = replyStreams[s].last)
<1> DEFINE new == [stream |-> s, preview |-> preview, edits |-> replyStreams[s].message # 0]
<1>1. calls \in [{"turn", "dispatcher"} -> {NoApiCall} \cup ApiCallType]
  BY DEF RepliesTypes
<1>2. s \in Nat \ {0}
  BY RepliesShape
<1>3. new \in ApiCallType /\ new.stream = s /\ new.preview = preview /\ new.edits = (replyStreams[s].message # 0)
  BY <1>2 DEF ApiCallType
<1>4. calls' = calls \/ calls' = [calls EXCEPT ![w] = new]
  BY DEF Displays
<1>5. new # NoApiCall
  BY <1>3, KindsDiffer
<1>6. Displays(w, s, preview) => calls' = IF preview = replyStreams[s].last THEN calls ELSE [calls EXCEPT ![w] = new]
  BY DEF Displays
<1> HIDE DEF new
<1>7. [calls EXCEPT ![w] = new][w] = new
  BY <1>1
<1>8. CASE calls' = calls
  BY <1>1, <1>5, <1>6, <1>7, <1>8
<1>9. CASE calls' = [calls EXCEPT ![w] = new]
  <2>1. calls' # calls
    BY <1>5, <1>7, <1>9
  <2>2. calls' \in [{"turn", "dispatcher"} -> {NoApiCall} \cup ApiCallType] /\ calls'[w] = new
        /\ \A v \in {"turn", "dispatcher"} : v # w => calls'[v] = calls[v]
    BY <1>1, <1>3, <1>9
  <2>3. Displays(w, s, preview) => (calls' = calls <=> preview = replyStreams[s].last)
    BY <1>6, <2>1
  <2> QED BY <1>3, <1>5, <2>2, <2>3
<1> QED BY <1>4, <1>8, <1>9

\* A stream has grown by a delta.
GrownBy(grown, stream, delta) ==
    /\ grown.message = stream.message /\ grown.last = stream.last
    /\ grown.buffer = stream.buffer \o delta
    /\ grown.thought = IF delta = <<>> THEN stream.thought + DeltaSize ELSE stream.thought

\* A delta is pushed: the stream stays on the answer's words, or off them.
LEMMA PushedDelta ==
  ASSUME RepliesInv, turn # NoTurn, turn.stream # 0, activeStream = turn.stream, calls["turn"] = NoApiCall,
         turn.deltas # <<>>, NEW grown \in ReplyStreamType,
         GrownBy(grown, replyStreams[turn.stream], Head(turn.deltas)),
         NEW words, words = AnswerText(turn.no, turn.size)
  PROVE  \/ /\ On(grown, Shown(grown, shown), words)
            /\ StartOf(Preview(grown), words) /\ Len(Preview(grown).reply) = Capped(Len(grown.buffer), MessageLimit)
            /\ Tail(turn.deltas) = Pieces(Rest(words, Len(grown.buffer)), DeltaSize)
         \/ Off(grown, words) /\ Strays(Preview(grown), words)
<1> DEFINE old == replyStreams[turn.stream]
           delta == Head(turn.deltas)
<1>0. RepliesTypes
  BY DEF RepliesInv
<1>1. /\ turn \in RunningType /\ turn.stream \in 1..Len(replyStreams) /\ turn.no \in Turns /\ turn.no \in Nat
      /\ turn.size \in Nat \ {0} /\ turn.deltas \in Seq(Seq(Nat))
  <2>1. turn \in RunningType /\ turn.stream \in 1..Len(replyStreams)
    BY TurnIsLast
  <2> QED BY <2>1 DEF RunningType, Turns
<1>2. old \in ReplyStreamType /\ old.buffer \in Seq(Nat) /\ old.thought \in Nat /\ delta \in Seq(Nat) /\ DeltaSize \in Nat \ {0}
  <2>1. old \in ReplyStreamType
    BY <1>0, <1>1, RepliesShape
  <2>2. delta \in Seq(Nat)
    BY <1>1
  <2> QED BY <2>1, <2>2, RepliesAssumption DEF ReplyStreamType
<1>3. words \in Seq(Nat) /\ words # <<>>
  BY <1>1, AnswerIs
<1>4. \/ /\ old = NewStream(turn.no) /\ (delta = <<>> \/ delta[1] # words[1])
      \/ /\ On(old, Shown(old, shown), words) /\ turn.deltas = Pieces(Rest(words, Len(old.buffer)), DeltaSize)
      \/ Off(old, words)
  BY DEF RepliesInv, TurnStreams
<1>5. grown.buffer \in Seq(Nat) /\ grown.thought \in Nat
  BY DEF ReplyStreamType
<1>6. Shown(grown, shown) = Shown(old, shown)
  BY DEF Shown, GrownBy
<1> HIDE DEF old
<1>7. grown.last = old.last /\ grown.message = old.message /\ grown.buffer = old.buffer \o delta
      /\ grown.thought = IF delta = <<>> THEN old.thought + DeltaSize ELSE old.thought
  BY DEF old, GrownBy
<1> HIDE DEF delta
<1>8. CASE old = NewStream(turn.no) /\ (delta = <<>> \/ delta[1] # words[1])
  <2>1. old.buffer = <<>> /\ old.thought = 0 /\ old.last = NothingShown
    BY <1>1, <1>8, NewStreamIs
  <2>2. grown.buffer = delta
    BY <1>2, <1>7, <2>1
  <2>3. grown.thought > 0 \/ (grown.buffer # <<>> /\ grown.buffer[1] # words[1])
    BY <1>2, <1>7, <1>8, <2>1, <2>2
  <2>4. Off(grown, words)
    BY <1>7, <2>1, <2>3 DEF Off
  <2> QED BY <1>3, <2>3, <2>4, PreviewOfOther
<1>9. CASE On(old, Shown(old, shown), words) /\ turn.deltas = Pieces(Rest(words, Len(old.buffer)), DeltaSize)
  <2> DEFINE rest == Rest(words, Len(old.buffer))
  <2>1. old.buffer = FirstOf(words, Len(old.buffer)) /\ old.thought = 0 /\ Len(old.buffer) \in Nat
    BY <1>2, <1>9 DEF On
  <2>2. rest \in Seq(Nat)
    BY <1>3, <2>1, RestIs
  <2>3. turn.deltas = Pieces(rest, DeltaSize)
    BY <1>9
  <2> HIDE DEF rest
  <2>4. rest # <<>>
    BY <1>2, <2>2, <2>3, PiecesAre
  <2>5. delta = FirstOf(rest, DeltaSize) /\ delta # <<>> /\ Tail(turn.deltas) = Pieces(Rest(rest, DeltaSize), DeltaSize)
    BY <1>2, <2>2, <2>3, <2>4, PiecesAre DEF delta
  <2>6. /\ grown.buffer = FirstOf(words, Len(grown.buffer)) /\ Len(old.buffer) <= Len(grown.buffer)
        /\ Rest(rest, DeltaSize) = Rest(words, Len(grown.buffer))
    <3> DEFINE begin == old.buffer
               more == begin \o FirstOf(Rest(words, Len(begin)), DeltaSize)
    <3>1. DeltaSize \in Nat /\ begin \in Seq(Nat) /\ begin = FirstOf(words, Len(begin))
      BY <1>2, <2>1
    <3>2. grown.buffer = more /\ rest = Rest(words, Len(begin))
      BY <1>7, <2>5 DEF rest
    <3> HIDE DEF begin
    <3>3. more = FirstOf(words, Len(more)) /\ Len(begin) <= Len(more)
          /\ Rest(Rest(words, Len(begin)), DeltaSize) = Rest(words, Len(more))
      BY <1>3, <3>1, StartGrows
    <3> HIDE DEF more
    <3> QED BY <3>2, <3>3 DEF begin
  <2>7. grown.thought = 0
    BY <1>7, <2>1, <2>5
  <2>8. On(grown, Shown(grown, shown), words)
    <3>1. Len(grown.buffer) \in Nat /\ Len(old.buffer) \in Nat
      BY <1>5, <2>1
    <3>2. /\ StartOf(old.last, words) /\ StartOf(Shown(old, shown), words)
          /\ Len(old.last.reply) <= Len(Shown(old, shown).reply) /\ Len(Shown(old, shown).reply) <= Len(old.buffer)
          /\ Len(Shown(old, shown).reply) <= MessageLimit
          /\ old.message = 0 => old.last = NothingShown
      BY <1>9 DEF On
    <3>3. Shown(old, shown).reply \in Seq(Nat)
      <4>1. CASE old.message = 0
        BY <4>1, EmptySeq DEF Shown, NothingShown, Plain
      <4>2. CASE old.message # 0
        <5>1. old.message \in 0..Len(shown)
          BY <1>1 DEF RepliesInv, MessagesFollow, old
        <5>2. old.message \in 1..Len(shown)
          BY <1>0, <4>2, <5>1, RepliesShape
        <5>3. shown[old.message] \in ShownType
          BY <1>0, <5>2, RepliesShape
        <5> QED BY <4>2, <5>3 DEF Shown, ShownType
      <4> QED BY <4>1, <4>2
    <3>4. Len(Shown(old, shown).reply) \in Nat
      BY <3>3, LenProperties
    <3>5. Len(Shown(old, shown).reply) <= Len(grown.buffer)
      BY <2>6, <3>1, <3>2, <3>4
    <3> QED BY <1>6, <1>7, <2>6, <2>7, <3>2, <3>5 DEF On
  <2>9. StartOf(Preview(grown), words) /\ Len(Preview(grown).reply) = Capped(Len(grown.buffer), MessageLimit)
    BY <1>3, <2>6, <2>7, PreviewOfStart
  <2> QED BY <2>5, <2>6, <2>8, <2>9
<1>10. CASE Off(old, words)
  <2>1. grown.thought > 0 \/ (grown.buffer # <<>> /\ grown.buffer[1] # words[1])
    <3>1. CASE old.thought > 0
      BY <1>2, <1>7, <3>1
    <3>2. CASE old.buffer # <<>> /\ old.buffer[1] # words[1]
      <4>1. Len(old.buffer) >= 1
        BY <1>2, <3>2
      <4>2. grown.buffer # <<>> /\ grown.buffer[1] = old.buffer[1]
        BY <1>2, <1>7, <4>1
      <4> QED BY <3>2, <4>2
    <3> QED BY <1>10, <3>1, <3>2 DEF Off
  <2>2. Off(grown, words)
    BY <1>7, <1>10, <2>1 DEF Off
  <2> QED BY <1>3, <2>1, <2>2, PreviewOfOther
<1> QED BY <1>4, <1>8, <1>9, <1>10

\* A delta is pushed.
LEMMA PushesStep ==
  ASSUME RepliesInv, Pushes
  PROVE  RepliesInv'
<1> DEFINE s == turn.stream
           delta == Head(turn.deltas)
           old == replyStreams[s]
           wide == [old EXCEPT !.buffer = @ \o delta]
           grown == [wide EXCEPT !.thought = IF delta = <<>> THEN @ + DeltaSize ELSE @]
           words == AnswerText(turn.no, turn.size)
<1>0. RepliesTypes
  BY DEF RepliesInv
<1>1. /\ turn # NoTurn /\ s # 0 /\ calls["turn"] = NoApiCall /\ turn.deltas # <<>>
      /\ turn' = [turn EXCEPT !.deltas = Tail(@)]
      /\ replyStreams' = [replyStreams EXCEPT ![s] = grown]
      /\ UNCHANGED calls \/ Displays("turn", s, Preview(grown))
      /\ UNCHANGED <<chatKind, activeStream, outbound, delivery, shown, outcomes, stolen, begun, apiFaults>>
  <2>1. grown = [replyStreams[s] EXCEPT !.buffer = @ \o Head(turn.deltas),
                                        !.thought = IF Head(turn.deltas) = <<>> THEN @ + DeltaSize ELSE @]
    OBVIOUS
  <2> HIDE DEF grown
  <2> QED BY <2>1 DEF Pushes
<1>2. /\ turn \in RunningType /\ s \in 1..Len(replyStreams) /\ old.turn = begun /\ turn.no = begun /\ begun \in Turns
      /\ turn.deltas \in Seq(Seq(Nat)) /\ delta \in Seq(Nat) /\ turn.size \in Nat \ {0} /\ s \in Nat
  <2>1. turn \in RunningType /\ s \in 1..Len(replyStreams) /\ old.turn = begun /\ turn.no = begun /\ begun \in Turns
    BY <1>1, TurnIsLast
  <2>2. turn.deltas \in Seq(Seq(Nat)) /\ turn.size \in Nat \ {0} /\ s \in Nat
    BY <2>1 DEF RunningType
  <2>3. delta \in Seq(Nat)
    BY <1>1, <2>2
  <2> QED BY <2>1, <2>2, <2>3
<1>3. old \in ReplyStreamType
  BY <1>0, <1>2, RepliesShape
<1> HIDE DEF old, delta
<1>4. /\ wide \in ReplyStreamType /\ wide.buffer = old.buffer \o delta /\ wide.message = old.message /\ wide.last = old.last
      /\ wide.turn = old.turn /\ wide.thought = old.thought
  <2>1. old.buffer \o delta \in Seq(Nat)
    BY <1>2, <1>3 DEF ReplyStreamType
  <2> DEFINE longer == old.buffer \o delta
  <2>2. wide = [old EXCEPT !.buffer = longer] /\ longer \in Seq(Nat)
    BY <1>3, <2>1
  <2> HIDE DEF longer, wide
  <2>3. /\ wide \in ReplyStreamType /\ wide.buffer = longer /\ wide.message = old.message /\ wide.last = old.last
        /\ wide.turn = old.turn /\ wide.thought = old.thought
    BY <1>3, <2>2 DEF ReplyStreamType
  <2> QED BY <2>3 DEF longer
<1> HIDE DEF wide
<1>5. /\ grown \in ReplyStreamType /\ GrownBy(grown, old, delta) /\ grown.turn = old.turn
      /\ grown.message = old.message /\ grown.last = old.last
  <2> DEFINE thought == IF delta = <<>> THEN wide.thought + DeltaSize ELSE wide.thought
  <2>1. wide.thought \in Nat /\ thought \in Nat
    BY <1>4, RepliesAssumption DEF ReplyStreamType
  <2>2. grown = [wide EXCEPT !.thought = thought]
    BY <1>4
  <2> HIDE DEF thought, grown
  <2>3. /\ grown \in ReplyStreamType /\ grown.thought = thought /\ grown.buffer = wide.buffer /\ grown.message = wide.message
        /\ grown.last = wide.last /\ grown.turn = wide.turn
    BY <1>4, <2>1, <2>2 DEF ReplyStreamType
  <2> QED BY <1>4, <2>3 DEF thought, GrownBy
<1> HIDE DEF grown
<1>6. /\ StreamsKept /\ replyStreams' \in Seq(ReplyStreamType) /\ Len(replyStreams') = Len(replyStreams)
      /\ replyStreams'[s] = grown
      /\ \A r \in 1..Len(replyStreams) : r # s => replyStreams'[r] = replyStreams[r]
      /\ \A r \in 1..Len(replyStreams) : replyStreams'[r].turn = replyStreams[r].turn /\ replyStreams'[r].message = replyStreams[r].message
  BY <1>0, <1>1, <1>2, <1>5, GrownIs DEF old
<1>7. Preview(grown) \in PreviewType
  BY <1>5, PreviewIs
<1>8. /\ calls' \in [{"turn", "dispatcher"} -> {NoApiCall} \cup ApiCallType]
      /\ calls'["dispatcher"] = calls["dispatcher"]
      /\ \/ calls'["turn"] = NoApiCall
         \/ /\ calls'["turn"] # NoApiCall /\ calls'["turn"].stream = s /\ calls'["turn"].preview = Preview(grown)
            /\ calls'["turn"].edits = (old.message # 0)
  <2>1. "turn" \in {"turn", "dispatcher"} /\ "dispatcher" # "turn" /\ "dispatcher" \in {"turn", "dispatcher"}
    OBVIOUS
  <2> HIDE DEF s
  <2> QED BY <1>0, <1>1, <1>2, <1>7, <2>1, DisplaysIs DEF old
<1>9. /\ turn' \in RunningType /\ turn' # NoTurn /\ turn'.stream = s /\ turn'.no = turn.no /\ turn'.size = turn.size
      /\ turn'.deltas = Tail(turn.deltas)
  <2>1. Tail(turn.deltas) \in Seq(Seq(Nat))
    BY <1>1, <1>2
  <2>2. turn' \in RunningType /\ turn'.stream = s /\ turn'.no = turn.no /\ turn'.size = turn.size
        /\ turn'.deltas = Tail(turn.deltas)
    BY <1>1, <1>2, <2>1 DEF RunningType
  <2> QED BY <2>2, KindsDiffer
<1>10. RepliesTypes'
  BY <1>0, <1>1, <1>6, <1>8, <1>9 DEF RepliesTypes
<1>11. MessagesFollow' /\ StreamsHoldTheirs'
  BY <1>0, <1>1, <1>6, KeptFollows DEF RepliesInv
<1>12. CallsFollow'
  <2>1. calls["dispatcher"] # NoApiCall =>
            /\ delivery # NoDelivery /\ delivery.way \in {"final", "push"} /\ calls["dispatcher"].stream = delivery.stream
            /\ calls["dispatcher"].stream \in 1..Len(replyStreams)
            /\ calls["dispatcher"].edits => replyStreams[calls["dispatcher"].stream].message # 0
            /\ stolen = {} /\ ~calls["dispatcher"].edits => replyStreams[calls["dispatcher"].stream].message = 0
    BY DEF RepliesInv, CallsFollow
  <2>2. calls'["turn"] # NoApiCall =>
            /\ calls'["turn"].stream = s /\ s \in 1..Len(replyStreams)
            /\ calls'["turn"].edits => replyStreams[s].message # 0
            /\ ~calls'["turn"].edits => replyStreams[s].message = 0
    BY <1>2, <1>8 DEF old
  <2> HIDE DEF s
  <2> QED BY <1>1, <1>6, <1>8, <1>9, <2>1, <2>2 DEF CallsFollow
<1>13. RepliesInRow'
  BY <1>1, <1>9 DEF RepliesInv, RepliesInRow
<1>14. StreamsFollow'
  BY <1>1, <1>6, <1>9, StreamsFollowOn
<1>15. TurnStreams'
  <2> SUFFICES ASSUME activeStream = s
               PROVE  \/ /\ On(replyStreams'[s], Shown(replyStreams'[s], shown'), words)
                         /\ CallOn(calls'["turn"], replyStreams'[s], words)
                         /\ turn'.deltas = Pieces(Rest(words, Len(replyStreams'[s].buffer)), DeltaSize)
                      \/ Off(replyStreams'[s], words) /\ CallOff(calls'["turn"], words)
    BY <1>1, <1>9 DEF TurnStreams
  <2>1. \/ /\ On(grown, Shown(grown, shown), words)
           /\ StartOf(Preview(grown), words) /\ Len(Preview(grown).reply) = Capped(Len(grown.buffer), MessageLimit)
           /\ Tail(turn.deltas) = Pieces(Rest(words, Len(grown.buffer)), DeltaSize)
        \/ Off(grown, words) /\ Strays(Preview(grown), words)
    BY <1>1, <1>5, PushedDelta DEF old, delta
  <2> HIDE DEF words, s
  <2>2. StartOf(Preview(grown), words) /\ Len(Preview(grown).reply) = Capped(Len(grown.buffer), MessageLimit)
            => CallOn(calls'["turn"], grown, words)
    BY <1>8 DEF CallOn
  <2>3. Strays(Preview(grown), words) => CallOff(calls'["turn"], words)
    BY <1>8 DEF CallOff
  <2> QED BY <1>1, <1>6, <1>9, <2>1, <2>2, <2>3
<1>16. /\ DeliveryGoesOn'
       /\ delivery' # NoDelivery /\ delivery'.way = "final" /\ calls'["dispatcher"] = NoApiCall /\ delivery'.turn \notin stolen' =>
                Ready(delivery.stream, ReplyText(delivery))'
  <2>1. delivery # NoDelivery /\ delivery.way \in {"final", "push"} =>
            delivery.stream # s \/ (delivery.way = "final" /\ delivery.turn \in stolen)
    BY <1>1, TurnIsLast
  <2>2. \A i \in 1..Len(shown) : shown[i].by = 0 => i \in 1..Len(shown') /\ shown'[i] = shown[i]
    BY <1>1
  <2>3. \A r \in 1..Len(replyStreams) : Shown(replyStreams[r], shown') = Shown(replyStreams[r], shown)
    BY <1>1
  <2> HIDE DEF s
  <2> QED BY <1>1, <1>2, <1>6, <1>8, <2>1, <2>2, <2>3, DeliveryStands
<1>17. RepliesReady'
  <2>1. ASSUME NEW i \in 1..Len(outbound), activeStream # 0, replyStreams'[activeStream].turn = outbound[i].turn PROVE FALSE
    <3>1. replyStreams[activeStream].turn = outbound[i].turn /\ activeStream = s
      BY <1>1, <1>2, <1>6, <2>1, TurnIsLast
    <3> QED BY <1>1, <2>1, <3>1, TurnIsLast
  <2> QED BY <1>1, <1>16, <2>1 DEF RepliesReady
<1>18. AnswersAreSeen'
  BY <1>0, <1>1, AnswersStay DEF RepliesInv
<1> QED BY <1>10, <1>11, <1>12, <1>13, <1>14, <1>15, <1>16, <1>17, <1>18 DEF RepliesInv

\* What both callers find when a call of the turn's has ended.
LEMMA OtherCallStands ==
  ASSUME RepliesInv, NEW w \in {"turn", "dispatcher"}, NEW v \in {"turn", "dispatcher"}, v # w, NEW ok \in BOOLEAN, CallOver(w, ok),
         calls[v] # NoApiCall, stolen = {} => calls[v].stream # calls[w].stream
  PROVE  /\ calls[v].stream \in 1..Len(replyStreams')
         /\ calls[v].edits => replyStreams'[calls[v].stream].message # 0
         /\ stolen = {} /\ ~calls[v].edits => replyStreams'[calls[v].stream].message = 0
<1>1. /\ calls[v].stream \in 1..Len(replyStreams)
      /\ calls[v].edits => replyStreams[calls[v].stream].message # 0
      /\ stolen = {} /\ ~calls[v].edits => replyStreams[calls[v].stream].message = 0
  BY DEF RepliesInv, CallsFollow
<1>2. /\ Len(replyStreams') = Len(replyStreams)
      /\ \A r \in 1..Len(replyStreams) : r # calls[w].stream => replyStreams'[r] = replyStreams[r]
      /\ ~ok => replyStreams'[calls[w].stream].message = replyStreams[calls[w].stream].message
      /\ ok => replyStreams'[calls[w].stream].message # 0
  <2>1. ok => replyStreams'[calls[w].stream].message \in 1..Len(shown')
    BY DEF CallOver
  <2>2. Len(shown') \in Nat
    BY LenProperties DEF CallOver
  <2>3. ok => replyStreams'[calls[w].stream].message # 0
    BY <2>1, <2>2
  <2> QED BY <2>3 DEF CallOver
<1> QED BY <1>1, <1>2

\* What a call that has ended leaves.
LEMMA EndedLeaves ==
  ASSUME RepliesInv, NEW w \in {"turn", "dispatcher"}, NEW ok \in BOOLEAN, CallOver(w, ok)
  PROVE  /\ calls' \in [{"turn", "dispatcher"} -> {NoApiCall} \cup ApiCallType] /\ calls'[w] = NoApiCall
         /\ \A v \in {"turn", "dispatcher"} : v # w => calls'[v] = calls[v]
         /\ replyStreams' \in Seq(ReplyStreamType) /\ Len(replyStreams') = Len(replyStreams) /\ Len(replyStreams) \in Nat
         /\ \A r \in 1..Len(replyStreams) : replyStreams'[r].turn = replyStreams[r].turn
         /\ \A r \in 1..Len(replyStreams) : r # calls[w].stream =>
                replyStreams'[r] = replyStreams[r] /\ Shown(replyStreams[r], shown') = Shown(replyStreams[r], shown)
         /\ shown' \in Seq(ShownType) /\ Len(shown) \in Nat /\ Len(shown') \in Nat /\ Len(shown) <= Len(shown')
         /\ \A i \in 1..Len(shown) : shown[i].by = 0 => i \in 1..Len(shown') /\ shown'[i] = shown[i]
         /\ \A k \in Turns : replyStreams[calls[w].stream].turn # k => Standing(k) \subseteq Standing(k)'
         /\ apiFaults' \in 0..MaxApiFaults /\ apiFaults' \in apiFaults..MaxApiFaults /\ (~ok => apiFaults' > 0)
         /\ calls[w].stream \in 1..Len(replyStreams) /\ calls[w].stream # 0
         /\ calls[w] # NoApiCall
<1> DEFINE s == calls[w].stream
<1>0. RepliesTypes /\ MessagesFollow
  BY DEF RepliesInv
<1>1. calls \in [{"turn", "dispatcher"} -> {NoApiCall} \cup ApiCallType] /\ apiFaults \in 0..MaxApiFaults
  BY <1>0 DEF RepliesTypes
<1>2. /\ calls[w] \in ApiCallType /\ s \in 1..Len(replyStreams)
      /\ calls' = [calls EXCEPT ![w] = NoApiCall]
      /\ replyStreams' \in Seq(ReplyStreamType) /\ Len(replyStreams') = Len(replyStreams)
      /\ \A r \in 1..Len(replyStreams) : r # s => replyStreams'[r] = replyStreams[r]
      /\ replyStreams'[s].turn = replyStreams[s].turn
      /\ shown' \in Seq(ShownType) /\ Len(shown) <= Len(shown')
      /\ apiFaults' \in apiFaults..MaxApiFaults /\ (~ok => apiFaults' > 0)
  BY DEF CallOver
<1>3. Len(replyStreams) \in Nat /\ Len(shown) \in Nat /\ Len(shown') \in Nat /\ MaxApiFaults \in Nat
  BY <1>0, <1>2, RepliesShape, LenProperties
<1>4. /\ calls' \in [{"turn", "dispatcher"} -> {NoApiCall} \cup ApiCallType] /\ calls'[w] = NoApiCall
      /\ \A v \in {"turn", "dispatcher"} : v # w => calls'[v] = calls[v]
  BY <1>1, <1>2
<1>5. Spoken(s)
  BY <1>0, EndedIsSpoken
<1>6. s \in Nat /\ s # 0
  BY <1>2, <1>3
<1>7. calls[w] # NoApiCall
  BY <1>2, KindsDiffer
<1> HIDE DEF s
<1>8. /\ \A r \in 1..Len(replyStreams) : r # s => Shown(replyStreams[r], shown') = Shown(replyStreams[r], shown)
      /\ \A k \in Turns : s = 0 \/ replyStreams[s].turn # k => Standing(k) \subseteq Standing(k)'
      /\ \A i \in 1..Len(shown) : shown[i].by = 0 => shown'[i] = shown[i]
  BY <1>0, <1>5, <1>6, OthersStand
<1>9. apiFaults' \in 0..MaxApiFaults
  BY <1>1, <1>2, <1>3
<1>10. \A i \in 1..Len(shown) : i \in 1..Len(shown')
  BY <1>2, <1>3
<1>11. \A r \in 1..Len(replyStreams) : replyStreams'[r].turn = replyStreams[r].turn
  BY <1>2
<1> QED BY <1>2, <1>3, <1>4, <1>6, <1>7, <1>8, <1>9, <1>10, <1>11 DEF s

\* A call of the turn's comes back.
LEMMA PushedStep ==
  ASSUME RepliesInv, Pushed
  PROVE  RepliesInv'
<1> DEFINE s == turn.stream
           words == AnswerText(turn.no, turn.size)
<1>0. RepliesTypes /\ MessagesFollow /\ CallsFollow /\ StreamsHoldTheirs /\ AnswersAreSeen
  BY DEF RepliesInv
<1>1. PICK ok \in BOOLEAN, raises \in BOOLEAN :
        /\ CallEnds("turn", ok, raises)
        /\ IF raises THEN Publish(FALSE, 1) /\ turn' = NoTurn ELSE UNCHANGED <<outbound, turn>>
        /\ UNCHANGED <<chatKind, activeStream, delivery, outcomes, stolen, begun>>
  BY DEF Pushed
<1>2. "turn" \in {"turn", "dispatcher"} /\ "dispatcher" \in {"turn", "dispatcher"} /\ "dispatcher" # "turn"
  OBVIOUS
<1>3. CallOver("turn", ok)
  BY <1>0, <1>1, <1>2, CallIs
<1>4. /\ calls' \in [{"turn", "dispatcher"} -> {NoApiCall} \cup ApiCallType] /\ calls'["turn"] = NoApiCall
      /\ calls'["dispatcher"] = calls["dispatcher"]
      /\ replyStreams' \in Seq(ReplyStreamType) /\ Len(replyStreams') = Len(replyStreams) /\ Len(replyStreams) \in Nat
      /\ \A r \in 1..Len(replyStreams) : replyStreams'[r].turn = replyStreams[r].turn
      /\ \A r \in 1..Len(replyStreams) : r # calls["turn"].stream =>
                replyStreams'[r] = replyStreams[r] /\ Shown(replyStreams[r], shown') = Shown(replyStreams[r], shown)
      /\ shown' \in Seq(ShownType)
      /\ \A i \in 1..Len(shown) : shown[i].by = 0 => i \in 1..Len(shown') /\ shown'[i] = shown[i]
      /\ \A k \in Turns : replyStreams[calls["turn"].stream].turn # k => Standing(k) \subseteq Standing(k)'
      /\ apiFaults' \in 0..MaxApiFaults /\ apiFaults' \in apiFaults..MaxApiFaults
      /\ calls["turn"].stream \in 1..Len(replyStreams) /\ calls["turn"].stream # 0
      /\ calls["turn"] # NoApiCall
  BY <1>2, <1>3, EndedLeaves
<1>5. turn # NoTurn /\ calls["turn"].stream = s /\ s # 0 /\ s \in 1..Len(replyStreams) /\ s \in Nat
  BY <1>0, <1>4 DEF CallsFollow
<1>6. turn \in RunningType /\ turn.no = begun /\ replyStreams[s].turn = begun /\ turn.size \in Nat \ {0} /\ begun \in Nat
  BY <1>5, TurnIsLast DEF RunningType
<1>7. /\ turn' = NoTurn \/ turn' = turn
      /\ \/ outbound' = outbound
         \/ outbound' = Append(outbound, [turn |-> turn.no, size |-> 1, streamed |-> FALSE, thinking |-> FALSE]) /\ turn' = NoTurn
  BY <1>1 DEF Publish
<1>8. /\ RepliesInRow' /\ outbound' \in Seq(PublishedType)
      /\ \A i \in 1..Len(outbound') :
            \/ i \in 1..Len(outbound) /\ outbound'[i] = outbound[i]
            \/ ~outbound'[i].streamed
  <2>1. CASE turn' = NoTurn
    <3> DEFINE size == 1
               streamed == FALSE
    <3>1. size \in Nat \ {0} /\ streamed \in BOOLEAN
      OBVIOUS
    <3>2. outbound' = outbound \/
          outbound' = Append(outbound, [turn |-> turn.no, size |-> size, streamed |-> streamed, thinking |-> streamed])
      BY <1>7
    <3> HIDE DEF size, streamed
    <3>3. /\ RepliesInRow' /\ outbound' \in Seq(PublishedType)
          /\ \A i \in 1..Len(outbound') :
                \/ i \in 1..Len(outbound) /\ outbound'[i] = outbound[i]
                \/ outbound'[i] = [turn |-> begun, size |-> size, streamed |-> streamed, thinking |-> streamed]
      BY <1>1, <1>5, <2>1, <3>1, <3>2, PublishedFollows
    <3> QED BY <3>3 DEF streamed
  <2>2. CASE turn' # NoTurn
    <3>1. outbound' = outbound /\ turn' = turn
      BY <1>7, <2>2
    <3>2. outbound' \in Seq(PublishedType)
      BY <1>0, <3>1 DEF RepliesTypes
    <3>3. RepliesInRow'
      BY <1>1, <3>1 DEF RepliesInv, RepliesInRow
    <3> QED BY <3>1, <3>2, <3>3
  <2> QED BY <2>1, <2>2
<1>9. RepliesTypes'
  <2>1. turn' \in {NoTurn} \cup RunningType
    BY <1>6, <1>7
  <2> QED BY <1>0, <1>1, <1>4, <1>8, <2>1 DEF RepliesTypes
<1>10. MessagesFollow' /\ StreamsHoldTheirs'
  BY <1>0, <1>1, <1>2, <1>3, EndedFollows
<1>11. delivery # NoDelivery /\ delivery.way \in {"final", "push"} =>
            delivery.stream # s \/ (delivery.way = "final" /\ delivery.turn \in stolen)
  BY <1>5, TurnIsLast
<1>12. CallsFollow'
  <2> SUFFICES ASSUME calls["dispatcher"] # NoApiCall
               PROVE  /\ delivery # NoDelivery /\ delivery.way \in {"final", "push"} /\ calls["dispatcher"].stream = delivery.stream
                      /\ calls["dispatcher"].stream \in 1..Len(replyStreams')
                      /\ calls["dispatcher"].edits => replyStreams'[calls["dispatcher"].stream].message # 0
                      /\ stolen = {} /\ ~calls["dispatcher"].edits => replyStreams'[calls["dispatcher"].stream].message = 0
    BY <1>1, <1>4 DEF CallsFollow
  <2>1. delivery # NoDelivery /\ delivery.way \in {"final", "push"} /\ calls["dispatcher"].stream = delivery.stream
    BY <1>0 DEF CallsFollow
  <2>2. stolen = {} => calls["dispatcher"].stream # calls["turn"].stream
    BY <1>5, <1>11, <2>1
  <2> HIDE DEF s
  <2> QED BY <1>2, <1>3, <2>1, <2>2, OtherCallStands
<1>13. StreamsFollow'
  BY <1>1, <1>4, <1>5, <1>7, StreamsFollowOn
<1>14. TurnStreams'
  <2> SUFFICES ASSUME turn' = turn, activeStream = s
               PROVE  \/ /\ On(replyStreams'[s], Shown(replyStreams'[s], shown'), words)
                         /\ CallOn(calls'["turn"], replyStreams'[s], words)
                         /\ turn.deltas = Pieces(Rest(words, Len(replyStreams'[s].buffer)), DeltaSize)
                      \/ Off(replyStreams'[s], words) /\ CallOff(calls'["turn"], words)
    BY <1>1, <1>7 DEF TurnStreams
  <2>0. words \in Seq(Nat)
    BY <1>6, AnswerIs
  <2>1. \/ /\ On(replyStreams[s], Shown(replyStreams[s], shown), words) /\ CallOn(calls["turn"], replyStreams[s], words)
           /\ turn.deltas = Pieces(Rest(words, Len(replyStreams[s].buffer)), DeltaSize)
        \/ Off(replyStreams[s], words) /\ CallOff(calls["turn"], words)
    BY <1>4, <1>5 DEF RepliesInv, TurnStreams
  <2>2. CallOn(calls'["turn"], replyStreams'[s], words) /\ CallOff(calls'["turn"], words)
    BY <1>4 DEF CallOn, CallOff
  <2>3. replyStreams'[s].buffer = replyStreams[s].buffer
    BY <1>3, <1>5 DEF CallOver
  <2> HIDE DEF s, words
  <2>4. On(replyStreams[s], Shown(replyStreams[s], shown), words) /\ CallOn(calls["turn"], replyStreams[s], words)
            => On(replyStreams'[s], Shown(replyStreams'[s], shown'), words)
    BY <1>0, <1>2, <1>3, <1>5, <2>0, EndedOn
  <2>5. Off(replyStreams[s], words) /\ CallOff(calls["turn"], words) => Off(replyStreams'[s], words)
    BY <1>2, <1>3, <1>5, EndedOff
  <2> QED BY <2>1, <2>2, <2>3, <2>4, <2>5
<1>15. /\ DeliveryGoesOn'
       /\ delivery' # NoDelivery /\ delivery'.way = "final" /\ calls'["dispatcher"] = NoApiCall /\ delivery'.turn \notin stolen' =>
                Ready(delivery.stream, ReplyText(delivery))'
  <2> HIDE DEF s
  <2> QED BY <1>1, <1>4, <1>5, <1>11, DeliveryStands
<1>16. RepliesReady'
  <2>1. ASSUME NEW i \in 1..Len(outbound'), activeStream # 0, replyStreams'[activeStream].turn = outbound'[i].turn,
               outbound'[i].streamed
        PROVE  FALSE
    <3>1. i \in 1..Len(outbound) /\ outbound'[i] = outbound[i]
      BY <1>8, <2>1
    <3>2. activeStream = s
      BY <1>5, <2>1, TurnIsLast
    <3>3. outbound[i].turn = begun
      BY <1>4, <1>5, <1>6, <2>1, <3>1, <3>2
    <3> QED BY <1>5, <3>1, <3>3, TurnIsLast
  <2> QED BY <1>1, <1>15, <2>1 DEF RepliesReady
<1>17. AnswersAreSeen'
  <2>1. \A k \in Turns : outcomes[k].result # "no" => Standing(k) \subseteq Standing(k)'
    BY <1>4, <1>5, <1>6, TurnIsLast
  <2>2. 0 \notin Turns
    BY DEF Turns
  <2> QED BY <1>0, <1>1, <1>4, <2>1, <2>2, AnswersFollow
<1> QED BY <1>8, <1>9, <1>10, <1>12, <1>13, <1>14, <1>15, <1>16, <1>17 DEF RepliesInv

\* Where a reply that the dispatcher takes up stands among the others.
RowOf(reply) ==
    /\ outbound' \in Seq(PublishedType)
    /\ \A i \in 1..Len(outbound') : \E j \in 1..Len(outbound) : outbound'[i] = outbound[j]
    /\ \A i, j \in 1..Len(outbound') : i < j => outbound'[i].turn < outbound'[j].turn
    /\ reply.turn <= begun /\ (turn # NoTurn => reply.turn < begun)
    /\ \A i \in 1..Len(outbound') : reply.turn < outbound'[i].turn
    /\ \A k \in Turns : outcomes[k].result # "no" => k < reply.turn

\* What taking it up does.
EntersFinal(reply) ==
    /\ reply.streamed /\ activeStream # 0 /\ activeStream' = 0 /\ replyStreams' = replyStreams
    /\ delivery'.way = "final" /\ delivery'.stream = activeStream
    /\ stolen' = IF replyStreams[activeStream].turn # reply.turn THEN stolen \cup {reply.turn} ELSE stolen
EntersPush(reply) ==
    /\ ~reply.streamed /\ activeStream' = activeStream /\ stolen' = stolen
    /\ replyStreams' = Append(replyStreams, NewStream(reply.turn))
    /\ delivery'.way = "push" /\ delivery'.stream = Len(replyStreams) + 1
    /\ delivery'.left = Pieces(ReplyText(reply), StreamStep)
EntersRich(reply) ==
    /\ ~(reply.streamed /\ activeStream # 0) /\ activeStream' = activeStream /\ stolen' = stolen
    /\ replyStreams' = replyStreams
    /\ delivery'.way = "rich" /\ delivery'.left = Pieces(ReplyText(reply), MessageLimit)

\* A reply that may be taken up.
LEMMA EnteringIs ==
  ASSUME NEW reply \in EnteringType
  PROVE  /\ reply.turn \in Turns /\ reply.turn \in Nat /\ reply.size \in Nat \ {0} /\ reply.streamed \in BOOLEAN
         /\ ReplyText(reply) \in Seq(Nat) /\ ReplyText(reply) # <<>>
         /\ Pieces(ReplyText(reply), StreamStep) \in Seq(Seq(Nat)) /\ Pieces(ReplyText(reply), MessageLimit) \in Seq(Seq(Nat))
         /\ StreamStep \in Nat \ {0}
<1>1. reply.turn \in Turns /\ reply.turn \in Nat /\ reply.size \in Nat \ {0} /\ reply.streamed \in BOOLEAN
  <2>1. reply.turn \in Turns /\ reply.size \in Nat \ {0} /\ reply.streamed \in BOOLEAN
    BY DEF EnteringType
  <2>2. \A k \in Turns : k \in Nat
    BY DEF Turns
  <2> QED BY <2>1, <2>2
<1>2. StreamStep \in Nat \ {0}
  BY RepliesAssumption
<1> QED BY <1>1, <1>2, ReplyTextIs, PiecesOfReply, LimitIs

\* Where taking it up leads.
LEMMA EnteredIs ==
  ASSUME RepliesInv, NEW reply \in EnteringType, Entered(reply)
  PROVE  /\ delivery' \in WorkType /\ delivery'.turn = reply.turn /\ delivery'.streamed = reply.streamed
         /\ ReplyText(delivery') = ReplyText(reply)
         /\ EntersFinal(reply) \/ EntersPush(reply) \/ EntersRich(reply)
<1>1. /\ reply.turn \in Turns /\ reply.streamed \in BOOLEAN
      /\ Pieces(ReplyText(reply), StreamStep) \in Seq(Seq(Nat)) /\ Pieces(ReplyText(reply), MessageLimit) \in Seq(Seq(Nat))
  BY EnteringIs
<1>2. activeStream \in Nat /\ Len(replyStreams) \in Nat /\ Len(replyStreams) + 1 \in Nat
  BY ActiveIs
<1> DEFINE none == <<>>
           zero == 0
<1>3. none \in Seq(Seq(Nat)) /\ zero \in Nat /\ {"final", "push", "rich"} \subseteq Ways
  BY EmptySeq DEF Ways
<1>4. CASE reply.streamed /\ activeStream # 0
  <2>1. /\ delivery' = Work(reply, "final", activeStream, none) /\ activeStream' = 0 /\ replyStreams' = replyStreams
        /\ stolen' = IF replyStreams[activeStream].turn # reply.turn THEN stolen \cup {reply.turn} ELSE stolen
    BY <1>4 DEF Entered
  <2> HIDE DEF none
  <2>2. /\ delivery' \in WorkType /\ delivery'.turn = reply.turn /\ delivery'.streamed = reply.streamed
        /\ ReplyText(delivery') = ReplyText(reply) /\ delivery'.way = "final" /\ delivery'.stream = activeStream
    BY <1>2, <1>3, <2>1, WorkIs
  <2> QED BY <1>4, <2>1, <2>2 DEF EntersFinal
<1>5. CASE ~(reply.streamed /\ activeStream # 0) /\ chatKind = "private" /\ ~reply.streamed
  <2> DEFINE pieces == Pieces(ReplyText(reply), StreamStep)
             new == Len(replyStreams) + 1
  <2>1. /\ delivery' = Work(reply, "push", new, pieces) /\ activeStream' = activeStream /\ stolen' = stolen
        /\ replyStreams' = Append(replyStreams, NewStream(reply.turn))
    BY <1>5 DEF Entered
  <2>2. new \in Nat /\ pieces \in Seq(Seq(Nat))
    BY <1>1, <1>2
  <2> HIDE DEF pieces, new
  <2>3. /\ delivery' \in WorkType /\ delivery'.turn = reply.turn /\ delivery'.streamed = reply.streamed
        /\ ReplyText(delivery') = ReplyText(reply) /\ delivery'.way = "push" /\ delivery'.stream = new
        /\ delivery'.left = pieces
    BY <1>3, <2>1, <2>2, WorkIs
  <2> QED BY <1>5, <2>1, <2>3 DEF EntersPush, pieces, new
<1>6. CASE ~(reply.streamed /\ activeStream # 0) /\ ~(chatKind = "private" /\ ~reply.streamed)
  <2> DEFINE pieces == Pieces(ReplyText(reply), MessageLimit)
  <2>1. /\ delivery' = Work(reply, "rich", zero, pieces) /\ activeStream' = activeStream /\ stolen' = stolen
        /\ replyStreams' = replyStreams
    BY <1>6 DEF Entered
  <2>2. pieces \in Seq(Seq(Nat))
    BY <1>1
  <2> HIDE DEF pieces, zero
  <2>3. /\ delivery' \in WorkType /\ delivery'.turn = reply.turn /\ delivery'.streamed = reply.streamed
        /\ ReplyText(delivery') = ReplyText(reply) /\ delivery'.way = "rich" /\ delivery'.left = pieces
    BY <1>3, <2>1, <2>2, WorkIs
  <2> QED BY <1>6, <2>1, <2>3 DEF EntersRich, pieces
<1> QED BY <1>4, <1>5, <1>6

\* A reply is taken up: into the active stream, a stream of its own, or in chunks.
LEMMA EnteredStep ==
  ASSUME RepliesInv, NEW reply \in EnteringType, Entered(reply), RowOf(reply), calls["dispatcher"] = NoApiCall,
         reply.streamed /\ activeStream # 0 /\ replyStreams[activeStream].turn = reply.turn =>
            Ready(activeStream, ReplyText(reply)),
         UNCHANGED <<chatKind, turn, calls, shown, outcomes, begun, apiFaults>>
  PROVE  RepliesInv'
<1> DEFINE n == Len(replyStreams)
<1>0. RepliesTypes
  BY DEF RepliesInv
<1>1. /\ delivery' \in WorkType /\ delivery'.turn = reply.turn /\ delivery'.streamed = reply.streamed
      /\ ReplyText(delivery') = ReplyText(reply)
      /\ EntersFinal(reply) \/ EntersPush(reply) \/ EntersRich(reply)
  BY EnteredIs
<1>2. delivery' # NoDelivery
  BY <1>1, KindsDiffer
<1>3. /\ activeStream \in 0..n /\ n \in Nat /\ (activeStream # 0 => activeStream \in 1..n)
      /\ reply.turn \in Turns /\ reply.turn \in Nat /\ begun \in Nat /\ replyStreams \in Seq(ReplyStreamType)
      /\ ReplyText(reply) \in Seq(Nat)
  BY <1>0, ActiveIs, EnteringIs, RepliesShape DEF RepliesTypes
<1>4. activeStream # 0 => replyStreams[activeStream].turn = begun
  BY DEF RepliesInv, StreamsFollow
<1>5. /\ StreamsKept /\ replyStreams' \in Seq(ReplyStreamType) /\ Len(replyStreams') \in Nat /\ n <= Len(replyStreams')
      /\ \A r \in 1..n : replyStreams'[r] = replyStreams[r] /\ r \in 1..Len(replyStreams')
      /\ EntersPush(reply) => replyStreams'[n + 1] = NewStream(reply.turn) /\ n + 1 \in 1..Len(replyStreams')
  <2>1. CASE replyStreams' = replyStreams
    <3>1. EntersPush(reply) => FALSE
      <4>1. EntersPush(reply) => replyStreams' = Append(replyStreams, NewStream(reply.turn))
        BY DEF EntersPush
      <4>2. Len(Append(replyStreams, NewStream(reply.turn))) = n + 1
        BY <1>3
      <4> QED BY <1>3, <2>1, <4>1, <4>2
    <3> QED BY <1>0, <1>3, <2>1, <3>1, StayIsKept
  <2>2. CASE replyStreams' = Append(replyStreams, NewStream(reply.turn))
    <3>1. /\ Len(replyStreams') = n + 1 /\ replyStreams' \in Seq(ReplyStreamType)
          /\ \A r \in 1..n : replyStreams'[r] = replyStreams[r]
          /\ replyStreams'[n + 1] = NewStream(reply.turn) /\ StreamsKept
      BY <1>0, <1>3, <2>2, AddedIs
    <3> HIDE DEF n
    <3> QED BY <1>3, <3>1
  <2> QED BY <1>1, <2>1, <2>2 DEF EntersFinal, EntersPush, EntersRich
<1>6. activeStream' \in {0, activeStream} /\ stolen \subseteq stolen' /\ stolen' \subseteq Turns
  <2>1. stolen \subseteq Turns
    BY <1>0 DEF RepliesTypes
  <2> QED BY <1>1, <1>3, <2>1 DEF EntersFinal, EntersPush, EntersRich
<1> HIDE DEF n
<1>7. RepliesTypes'
  <2>1. activeStream' \in 0..Len(replyStreams')
    BY <1>3, <1>5, <1>6
  <2>2. outbound' \in Seq(PublishedType)
    BY DEF RowOf
  <2> QED BY <1>0, <1>1, <1>5, <1>6, <2>1, <2>2 DEF RepliesTypes
<1>8. MessagesFollow' /\ StreamsHoldTheirs'
  BY <1>0, <1>5, <1>6, KeptFollows DEF RepliesInv
<1>9. CallsFollow'
  <2>1. calls["turn"] # NoApiCall =>
            /\ turn # NoTurn /\ calls["turn"].stream = turn.stream /\ calls["turn"].stream \in 1..n
            /\ calls["turn"].edits => replyStreams[calls["turn"].stream].message # 0
            /\ stolen = {} /\ ~calls["turn"].edits => replyStreams[calls["turn"].stream].message = 0
    BY DEF RepliesInv, CallsFollow, n
  <2> QED BY <1>5, <1>6, <2>1 DEF CallsFollow
<1>10. RepliesInRow'
  <2>1. \A i \in 1..Len(outbound) : outbound[i].turn <= begun /\ (turn # NoTurn => outbound[i].turn < begun)
    BY DEF RepliesInv, RepliesInRow
  <2>2. \A i \in 1..Len(outbound') : outbound'[i].turn <= begun /\ (turn # NoTurn => outbound'[i].turn < begun)
    BY <2>1 DEF RowOf
  <2>3. \A k \in Turns : outcomes[k].result # "no" => k <= begun /\ (turn # NoTurn => k < begun)
                            /\ \A i \in 1..Len(outbound') : k < outbound'[i].turn
    <3>1. \A k \in Turns : outcomes[k].result # "no" => k <= begun /\ (turn # NoTurn => k < begun)
      BY DEF RepliesInv, RepliesInRow
    <3>2. \A k \in Turns : outcomes[k].result # "no" => \A i \in 1..Len(outbound') : k < outbound'[i].turn
      BY DEF RepliesInv, RepliesInRow, RowOf
    <3> QED BY <3>1, <3>2
  <2> QED BY <1>1, <2>2, <2>3 DEF RepliesInv, RepliesInRow, RowOf
<1>11. StreamsFollow'
  <2>1. activeStream' # 0 => replyStreams'[activeStream'].turn = begun /\ chatKind = "private"
    BY <1>3, <1>5, <1>6 DEF RepliesInv, StreamsFollow
  <2>2. turn # NoTurn =>
        /\ chatKind # "" /\ activeStream' \in {0, turn.stream}
        /\ turn.stream # 0 => turn.stream \in 1..Len(replyStreams') /\ replyStreams'[turn.stream].turn = turn.no
    BY <1>5, <1>6 DEF RepliesInv, StreamsFollow, n
  <2>3. delivery'.way \in {"final", "push"} =>
        /\ delivery'.stream \in 1..Len(replyStreams') /\ delivery'.stream # activeStream'
        /\ \/ replyStreams'[delivery'.stream].turn = delivery'.turn
           \/ replyStreams'[delivery'.stream].turn > delivery'.turn /\ delivery'.way = "final" /\ delivery'.turn \in stolen'
    <3>1. CASE EntersFinal(reply)
      <4>1. delivery'.stream = activeStream /\ activeStream # 0 /\ activeStream' = 0 /\ replyStreams' = replyStreams
            /\ stolen' = (IF replyStreams[activeStream].turn # reply.turn THEN stolen \cup {reply.turn} ELSE stolen)
            /\ delivery'.way = "final"
        BY <3>1 DEF EntersFinal
      <4>2. reply.turn <= begun
        BY DEF RowOf
      <4>3. replyStreams[activeStream].turn # reply.turn => replyStreams[activeStream].turn > reply.turn /\ reply.turn \in stolen'
        BY <1>3, <1>4, <4>1, <4>2
      <4> QED BY <1>1, <1>3, <4>1, <4>3 DEF n
    <3>2. CASE EntersPush(reply)
      <4>1. delivery'.stream = n + 1 /\ activeStream' = activeStream
        BY <3>2 DEF EntersPush, n
      <4>2. n + 1 # activeStream
        BY <1>3
      <4> QED BY <1>1, <1>3, <1>5, <3>2, <4>1, <4>2, NewStreamIs
    <3>3. CASE EntersRich(reply)
      BY <3>3 DEF EntersRich
    <3> QED BY <1>1, <3>1, <3>2, <3>3
  <2>4. delivery'.streamed /\ activeStream' # 0 => delivery'.turn < begun
    BY <1>1, <1>6 DEF EntersFinal, EntersPush, EntersRich
  <2> QED BY <1>2, <2>1, <2>2, <2>3, <2>4 DEF StreamsFollow
<1>12. TurnStreams'
  <2> SUFFICES ASSUME turn # NoTurn, turn.stream # 0, activeStream' = turn.stream
               PROVE  activeStream = turn.stream /\ replyStreams'[turn.stream] = replyStreams[turn.stream]
    BY DEF RepliesInv, TurnStreams
  <2>1. activeStream = turn.stream
    BY <1>6
  <2> QED BY <1>3, <1>5, <2>1
<1>13. RepliesReady'
  <2>1. ASSUME NEW i \in 1..Len(outbound'), outbound'[i].streamed, activeStream' # 0,
               replyStreams'[activeStream'].turn = outbound'[i].turn
        PROVE  LET stream == replyStreams'[activeStream']
                   words == AnswerText(outbound'[i].turn, outbound'[i].size)
               IN  On(stream, Shown(stream, shown), words) \/ Off(stream, words)
    <3>1. PICK j \in 1..Len(outbound) : outbound'[i] = outbound[j]
      BY DEF RowOf
    <3>2. activeStream' = activeStream /\ activeStream # 0 /\ replyStreams'[activeStream] = replyStreams[activeStream]
      BY <1>3, <1>5, <1>6, <2>1
    <3> DEFINE words == AnswerText(outbound[j].turn, outbound[j].size)
    <3>3. Ready(activeStream, words)
      BY <2>1, <3>1, <3>2 DEF RepliesInv, RepliesReady
    <3>4. words = AnswerText(outbound'[i].turn, outbound'[i].size)
      BY <3>1
    <3> HIDE DEF words
    <3>5. On(replyStreams[activeStream], Shown(replyStreams[activeStream], shown), words) \/ Off(replyStreams[activeStream], words)
      BY <3>3 DEF Ready
    <3> QED BY <3>2, <3>4, <3>5
  <2>2. ASSUME delivery'.way = "final", delivery'.turn \notin stolen'
        PROVE  LET stream == replyStreams'[delivery'.stream]
                   words == ReplyText(delivery')
               IN  On(stream, Shown(stream, shown), words) \/ Off(stream, words)
    <3>1. EntersFinal(reply)
      BY <1>1, <2>2 DEF EntersPush, EntersRich
    <3>2. /\ delivery'.stream = activeStream /\ activeStream # 0 /\ reply.streamed /\ replyStreams' = replyStreams
          /\ replyStreams[activeStream].turn = reply.turn
      BY <1>1, <2>2, <3>1 DEF EntersFinal
    <3> DEFINE words == ReplyText(reply)
    <3>3. Ready(activeStream, words)
      BY <3>2
    <3>4. words = ReplyText(delivery')
      BY <1>1
    <3> HIDE DEF words
    <3>5. On(replyStreams[activeStream], Shown(replyStreams[activeStream], shown), words) \/ Off(replyStreams[activeStream], words)
      BY <3>3 DEF Ready
    <3> QED BY <3>2, <3>4, <3>5
  <2> QED BY <2>1, <2>2 DEF RepliesReady, Ready
<1>14. DeliveryGoesOn'
  <2>1. ASSUME delivery'.way = "push"
        PROVE  /\ On(replyStreams'[delivery'.stream], Shown(replyStreams'[delivery'.stream], shown'), ReplyText(delivery'))
               /\ CallOn(calls'["dispatcher"], replyStreams'[delivery'.stream], ReplyText(delivery'))
               /\ delivery'.left = Pieces(Rest(ReplyText(delivery'), Len(replyStreams'[delivery'.stream].buffer)), StreamStep)
    <3>1. EntersPush(reply)
      BY <1>1, <2>1 DEF EntersFinal, EntersRich
    <3>2. replyStreams'[delivery'.stream] = NewStream(reply.turn) /\ delivery'.left = Pieces(ReplyText(reply), StreamStep)
      BY <1>5, <3>1 DEF EntersPush, n
    <3>3. /\ On(NewStream(reply.turn), Shown(NewStream(reply.turn), shown'), ReplyText(reply))
          /\ Rest(ReplyText(reply), Len(NewStream(reply.turn).buffer)) = ReplyText(reply)
      BY <1>3, NewIsOn
    <3>4. CallOn(calls'["dispatcher"], NewStream(reply.turn), ReplyText(reply))
      BY DEF CallOn
    <3> QED BY <1>1, <3>2, <3>3, <3>4
  <2>2. ASSUME delivery'.way \in {"rich", "plain"}
        PROVE  delivery'.left = Pieces(ReplyText(delivery'), MessageLimit)
    BY <1>1, <2>2 DEF EntersFinal, EntersPush, EntersRich
  <2>3. calls'["dispatcher"] = NoApiCall
    OBVIOUS
  <2> QED BY <2>1, <2>2, <2>3 DEF DeliveryGoesOn
<1>15. AnswersAreSeen'
  BY <1>0, <1>6, AnswersStay DEF RepliesInv
<1> QED BY <1>7, <1>8, <1>9, <1>10, <1>11, <1>12, <1>13, <1>14, <1>15 DEF RepliesInv

\* The dispatcher takes the next reply.
LEMMA DispatchesStep ==
  ASSUME RepliesInv, Dispatches
  PROVE  RepliesInv'
<1> DEFINE head == Head(outbound)
           reply == [turn |-> head.turn, size |-> head.size, streamed |-> head.streamed,
                     thinking |-> head.thinking, attempt |-> 1, notice |-> FALSE, way |-> "", stream |-> 0, left |-> <<>>]
<1>1. /\ delivery = NoDelivery /\ outbound # <<>> /\ outbound' = Tail(outbound) /\ Entered(reply)
      /\ UNCHANGED <<chatKind, turn, calls, shown, outcomes, begun, apiFaults>>
  BY DEF Dispatches
<1> HIDE DEF reply
<1>2. /\ outbound \in Seq(PublishedType) /\ Len(outbound) \in Nat /\ Len(outbound) > 0 /\ head = outbound[1]
      /\ 1 \in 1..Len(outbound)
  <2>1. outbound \in Seq(PublishedType)
    BY DEF RepliesInv, RepliesTypes
  <2>2. outbound # <<>>
    BY <1>1
  <2> QED BY <2>1, <2>2
<1>3. /\ outbound' \in Seq(PublishedType) /\ Len(outbound') = Len(outbound) - 1
      /\ \A i \in 1..Len(outbound') : i + 1 \in 1..Len(outbound) /\ outbound'[i] = outbound[i + 1]
  <2>1. outbound # <<>> /\ outbound' = Tail(outbound)
    BY <1>1
  <2>2. \A i \in 1..(Len(outbound) - 1) : i + 1 \in 1..Len(outbound)
    BY <1>2
  <2> HIDE DEF head
  <2>3. Tail(outbound) \in Seq(PublishedType) /\ Len(Tail(outbound)) = Len(outbound) - 1
        /\ \A i \in 1..(Len(outbound) - 1) : Tail(outbound)[i] = outbound[i + 1]
    BY <1>2, <2>1
  <2> QED BY <2>1, <2>2, <2>3
<1> HIDE DEF head
<1>4. head \in PublishedType
  BY <1>2, ElementOfSeq
<1>5. reply \in EnteringType
  <2>1. <<>> \in Seq(Seq(Nat))
    BY EmptySeq
  <2>2. 1 \in Attempts
    BY DEF Attempts
  <2> QED BY <1>4, <2>1, <2>2 DEF PublishedType, EnteringType, reply
<1>6. reply.turn = head.turn /\ reply.streamed = head.streamed /\ ReplyText(reply) = AnswerText(head.turn, head.size)
  BY DEF ReplyText, reply
<1>7. calls["dispatcher"] = NoApiCall
  BY <1>1 DEF RepliesInv, CallsFollow
<1>8. RowOf(reply)
  <2>1. \A i \in 1..Len(outbound) :
            /\ outbound[i].turn <= begun /\ (turn # NoTurn => outbound[i].turn < begun)
            /\ \A j \in 1..Len(outbound) : i < j => outbound[i].turn < outbound[j].turn
    BY DEF RepliesInv, RepliesInRow
  <2>2. \A k \in Turns : outcomes[k].result # "no" => \A i \in 1..Len(outbound) : k < outbound[i].turn
    BY DEF RepliesInv, RepliesInRow
  <2>3. \A i \in 1..Len(outbound') : \E j \in 1..Len(outbound) : outbound'[i] = outbound[j]
    BY <1>3
  <2>4. ASSUME NEW i \in 1..Len(outbound'), NEW j \in 1..Len(outbound'), i < j PROVE outbound'[i].turn < outbound'[j].turn
    <3>1. i + 1 \in 1..Len(outbound) /\ j + 1 \in 1..Len(outbound) /\ i + 1 < j + 1
          /\ outbound'[i] = outbound[i + 1] /\ outbound'[j] = outbound[j + 1]
      BY <1>2, <1>3, <2>4
    <3> QED BY <2>1, <3>1
  <2>5. ASSUME NEW i \in 1..Len(outbound') PROVE reply.turn < outbound'[i].turn
    <3>1. i + 1 \in 1..Len(outbound) /\ 1 < i + 1 /\ outbound'[i] = outbound[i + 1]
      BY <1>2, <1>3
    <3> QED BY <1>2, <1>6, <2>1, <3>1
  <2>6. reply.turn <= begun /\ (turn # NoTurn => reply.turn < begun)
    BY <1>2, <1>6, <2>1
  <2>7. \A k \in Turns : outcomes[k].result # "no" => k < reply.turn
    BY <1>2, <1>6, <2>2
  <2> QED BY <1>3, <2>3, <2>4, <2>5, <2>6, <2>7 DEF RowOf
<1>9. reply.streamed /\ activeStream # 0 /\ replyStreams[activeStream].turn = reply.turn =>
            Ready(activeStream, ReplyText(reply))
  BY <1>2, <1>6 DEF RepliesInv, RepliesReady
<1> QED BY <1>1, <1>5, <1>7, <1>8, <1>9, EnteredStep

\* A reply is tried once more.
LEMMA AgainStep ==
  ASSUME RepliesInv, Again
  PROVE  RepliesInv'
<1>1. /\ delivery # NoDelivery /\ delivery.way = "again" /\ Entered(delivery)
      /\ UNCHANGED <<chatKind, turn, outbound, calls, shown, outcomes, begun, apiFaults>>
  BY DEF Again
<1>2. delivery \in WorkType /\ outbound \in Seq(PublishedType) /\ activeStream \in Nat /\ begun \in Nat /\ delivery.turn \in Nat
  <2>1. delivery \in WorkType /\ outbound \in Seq(PublishedType) /\ RepliesTypes
    BY <1>1 DEF RepliesInv, RepliesTypes
  <2>2. delivery.turn \in Turns /\ begun \in Nat /\ Turns \subseteq Nat
    BY <2>1, RepliesShape DEF WorkType
  <2>3. activeStream \in Nat
    <3>1. activeStream \in 0..Len(replyStreams) /\ Len(replyStreams) \in Nat
      BY ActiveIs
    <3> QED BY <3>1
  <2>4. delivery.turn \in Nat
    BY <2>2
  <2> QED BY <2>1, <2>2, <2>3, <2>4
<1>3. delivery \in EnteringType
  BY <1>2, WorkEnters
<1>4. calls["dispatcher"] = NoApiCall
  BY <1>1 DEF RepliesInv, CallsFollow
<1>5. RowOf(delivery)
  <2>1. /\ \A i, j \in 1..Len(outbound) : i < j => outbound[i].turn < outbound[j].turn
        /\ delivery.turn <= begun /\ (turn # NoTurn => delivery.turn < begun)
        /\ \A i \in 1..Len(outbound) : delivery.turn < outbound[i].turn
        /\ \A k \in Turns : outcomes[k].result # "no" => k < delivery.turn
    BY <1>1 DEF RepliesInv, RepliesInRow
  <2> QED BY <1>1, <1>2, <2>1 DEF RowOf
<1>6. delivery.streamed /\ activeStream # 0 => replyStreams[activeStream].turn # delivery.turn
  <2>1. delivery.streamed /\ activeStream # 0 => delivery.turn < begun /\ replyStreams[activeStream].turn = begun
    BY <1>1 DEF RepliesInv, StreamsFollow
  <2> QED BY <1>2, <2>1
<1> QED BY <1>1, <1>3, <1>4, <1>5, <1>6, EnteredStep

\* The dispatcher is with the stream s, or none, and not with the one that is active.
WithStream(s) ==
    /\ UNCHANGED <<chatKind, turn, activeStream, outbound, stolen, begun>>
    /\ calls'["turn"] = calls["turn"]
    /\ Len(replyStreams') = Len(replyStreams)
    /\ \A r \in 1..Len(replyStreams) : replyStreams'[r].turn = replyStreams[r].turn
    /\ \A r \in 1..Len(replyStreams) : r # s =>
        replyStreams'[r] = replyStreams[r] /\ Shown(replyStreams[r], shown') = Shown(replyStreams[r], shown)
    /\ s = 0 \/ s # activeStream

\* The delivery goes on, or ends.
DeliveryFollows ==
    /\ delivery' # NoDelivery =>
        /\ delivery.way # "block" /\ delivery'.turn = delivery.turn /\ (delivery'.streamed => delivery.streamed)
        /\ delivery'.way \in {"final", "push"} =>
            delivery.way \in {delivery'.way, "push"} /\ delivery'.stream = delivery.stream
    /\ \A k \in Turns : k # delivery.turn => outcomes'[k] = outcomes[k]
    /\ delivery' = NoDelivery \/ delivery'.way = "block" \/ outcomes' = outcomes

\* A step of the dispatcher's, with its stream alone, leaves the turn and the queue as they were.
LEMMA DispatcherKeeps ==
  ASSUME RepliesInv, delivery # NoDelivery, NEW s \in Nat, WithStream(s), DeliveryFollows
  PROVE  /\ RepliesInRow' /\ StreamsFollow' /\ TurnStreams'
         /\ \A i \in 1..Len(outbound') :
              outbound'[i].streamed /\ activeStream' # 0 /\ replyStreams'[activeStream'].turn = outbound'[i].turn =>
                LET stream == replyStreams'[activeStream']
                    words == AnswerText(outbound'[i].turn, outbound'[i].size)
                IN  On(stream, Shown(stream, shown'), words) \/ Off(stream, words)
<1>1. /\ activeStream # 0 => activeStream \in 1..Len(replyStreams) /\ activeStream # s
      /\ Len(replyStreams') = Len(replyStreams)
      /\ \A r \in 1..Len(replyStreams) : replyStreams'[r].turn = replyStreams[r].turn
      /\ \A r \in 1..Len(replyStreams) : r # s =>
            replyStreams'[r] = replyStreams[r] /\ Shown(replyStreams[r], shown') = Shown(replyStreams[r], shown)
  BY ActiveIs DEF WithStream
<1>2. UNCHANGED <<chatKind, turn, activeStream, outbound, stolen, begun>> /\ calls'["turn"] = calls["turn"]
  BY DEF WithStream
<1>3. RepliesInRow'
  <2>1. /\ turn # NoTurn => turn.no = begun
        /\ \A i \in 1..Len(outbound) :
            /\ outbound[i].turn <= begun /\ (turn # NoTurn => outbound[i].turn < begun)
            /\ \A j \in 1..Len(outbound) : i < j => outbound[i].turn < outbound[j].turn
    BY DEF RepliesInv, RepliesInRow
  <2>2. /\ delivery.turn <= begun /\ (turn # NoTurn => delivery.turn < begun)
        /\ \A i \in 1..Len(outbound) : delivery.turn < outbound[i].turn
    BY DEF RepliesInv, RepliesInRow
  <2>3. \A k \in Turns : outcomes[k].result # "no" =>
            /\ k <= begun /\ (turn # NoTurn => k < begun)
            /\ \A i \in 1..Len(outbound) : k < outbound[i].turn
            /\ k < delivery.turn \/ (k = delivery.turn /\ delivery.way = "block")
    BY DEF RepliesInv, RepliesInRow
  <2>4. ASSUME NEW k \in Turns, outcomes'[k].result # "no"
        PROVE  /\ k <= begun /\ (turn # NoTurn => k < begun)
               /\ \A i \in 1..Len(outbound) : k < outbound[i].turn
               /\ delivery' # NoDelivery => k < delivery'.turn \/ (k = delivery'.turn /\ delivery'.way = "block")
    <3>1. CASE k = delivery.turn
      <4>1. outcomes' = outcomes => delivery.way = "block"
        <5>1. RepliesTypes /\ delivery.turn \in Nat
          <6>1. RepliesTypes
            BY DEF RepliesInv
          <6>2. Turns \subseteq Nat
            BY <6>1, RepliesShape
          <6> QED BY <3>1, <6>1, <6>2
        <5> QED BY <2>3, <2>4, <3>1, <5>1
      <4>2. delivery' # NoDelivery => delivery'.way = "block" /\ delivery'.turn = delivery.turn
        BY <4>1 DEF DeliveryFollows
      <4> QED BY <2>2, <3>1, <4>2
    <3>2. CASE k # delivery.turn
      <4>1. outcomes'[k] = outcomes[k]
        BY <3>2 DEF DeliveryFollows
      <4>2. delivery' # NoDelivery => delivery'.turn = delivery.turn
        BY DEF DeliveryFollows
      <4> QED BY <2>3, <2>4, <3>2, <4>1, <4>2
    <3> QED BY <3>1, <3>2
  <2>5. delivery' # NoDelivery =>
        /\ delivery'.turn <= begun /\ (turn # NoTurn => delivery'.turn < begun)
        /\ \A i \in 1..Len(outbound) : delivery'.turn < outbound[i].turn
    BY <2>2 DEF DeliveryFollows
  <2> QED BY <1>2, <2>1, <2>4, <2>5 DEF RepliesInRow
<1>4. StreamsFollow'
  <2>1. activeStream # 0 => replyStreams'[activeStream].turn = begun /\ chatKind = "private"
    BY <1>1 DEF RepliesInv, StreamsFollow
  <2>2. turn # NoTurn =>
        /\ chatKind # "" /\ activeStream \in {0, turn.stream}
        /\ turn.stream # 0 => turn.stream \in 1..Len(replyStreams') /\ replyStreams'[turn.stream].turn = turn.no
    BY <1>1 DEF RepliesInv, StreamsFollow
  <2>3. ASSUME delivery' # NoDelivery, delivery'.way \in {"final", "push"}
        PROVE  /\ delivery'.stream \in 1..Len(replyStreams') /\ delivery'.stream # activeStream
               /\ \/ replyStreams'[delivery'.stream].turn = delivery'.turn
                  \/ /\ replyStreams'[delivery'.stream].turn > delivery'.turn /\ delivery'.way = "final"
                     /\ delivery'.turn \in stolen
    <3>1. /\ delivery'.turn = delivery.turn /\ delivery'.stream = delivery.stream
          /\ delivery.way \in {delivery'.way, "push"}
      BY <2>3 DEF DeliveryFollows
    <3>2. delivery.way \in {"final", "push"}
      BY <2>3, <3>1
    <3>3. /\ delivery.stream \in 1..Len(replyStreams) /\ delivery.stream # activeStream
          /\ \/ replyStreams[delivery.stream].turn = delivery.turn
             \/ replyStreams[delivery.stream].turn > delivery.turn /\ delivery.way = "final" /\ delivery.turn \in stolen
      BY <3>2 DEF RepliesInv, StreamsFollow
    <3>4. delivery.way = "final" => delivery'.way = "final"
      BY <3>1
    <3> QED BY <1>1, <3>1, <3>3, <3>4
  <2>4. delivery' # NoDelivery /\ delivery'.streamed /\ activeStream # 0 => delivery'.turn < begun
    BY DEF DeliveryFollows, RepliesInv, StreamsFollow
  <2> QED BY <1>2, <2>1, <2>2, <2>3, <2>4 DEF StreamsFollow
<1>5. TurnStreams'
  <2> SUFFICES ASSUME turn # NoTurn, turn.stream # 0, activeStream = turn.stream
               PROVE  /\ replyStreams'[turn.stream] = replyStreams[turn.stream]
                      /\ Shown(replyStreams[turn.stream], shown') = Shown(replyStreams[turn.stream], shown)
    BY <1>2 DEF RepliesInv, TurnStreams
  <2> QED BY <1>1
<1>6. ASSUME NEW i \in 1..Len(outbound'), outbound'[i].streamed, activeStream' # 0,
             replyStreams'[activeStream'].turn = outbound'[i].turn
      PROVE  LET stream == replyStreams'[activeStream']
                 words == AnswerText(outbound'[i].turn, outbound'[i].size)
             IN  On(stream, Shown(stream, shown'), words) \/ Off(stream, words)
  <2>1. /\ i \in 1..Len(outbound) /\ outbound' = outbound /\ activeStream' = activeStream
        /\ replyStreams'[activeStream] = replyStreams[activeStream]
        /\ Shown(replyStreams[activeStream], shown') = Shown(replyStreams[activeStream], shown)
    BY <1>1, <1>2, <1>6
  <2>2. Ready(activeStream, AnswerText(outbound[i].turn, outbound[i].size))
    BY <1>6, <2>1 DEF RepliesInv, RepliesReady
  <2> QED BY <2>1, <2>2 DEF Ready
<1> QED BY <1>3, <1>4, <1>5, <1>6

\* If the last text of a stream is what it takes for shown, it is there to be read.
LEMMA WholeIsSeen ==
  ASSUME RepliesTypes, MessagesFollow, NEW s \in 1..Len(replyStreams), NEW words \in Seq(Nat), words # <<>>, Ready(s, words),
         replyStreams[s].last = Plain(FirstOf(words, MessageLimit))
  PROVE  FirstOf(words, MessageLimit) \in Standing(replyStreams[s].turn)
<1> DEFINE stream == replyStreams[s]
           visible == Shown(stream, shown)
           begin == FirstOf(words, MessageLimit)
<1>1. /\ stream \in ReplyStreamType /\ shown \in Seq(ShownType) /\ Len(shown) \in Nat /\ DOMAIN shown = 1..Len(shown)
      /\ stream.message \in 0..Len(shown)
      /\ stream.message # 0 => shown[stream.message].turn = stream.turn
  BY RepliesShape DEF RepliesTypes, MessagesFollow
<1>2. /\ begin \in Seq(Nat) /\ Len(begin) = Capped(MessageLimit, Len(words)) /\ begin = FirstOf(words, Len(begin))
      /\ Len(begin) \in Nat \ {0} /\ begin[1] = words[1] /\ begin # <<>>
  <2>1. MessageLimit \in Nat \ {0} /\ Len(words) \in Nat \ {0}
    BY LimitIs
  <2>2. /\ begin \in Seq(Nat) /\ Len(begin) = Capped(MessageLimit, Len(words))
        /\ \A i \in 1..Len(begin) : begin[i] = words[i]
    BY <2>1, FirstIs
  <2>3. Len(begin) \in Nat \ {0} /\ 1 \in 1..Len(begin)
    BY <2>1, <2>2 DEF Capped
  <2>4. begin = FirstOf(words, Len(begin))
    BY <2>1, FirstOfMany
  <2> HIDE DEF begin
  <2> QED BY <2>2, <2>3, <2>4
<1>3. stream.last.reply = begin /\ stream.last.thinking = <<0, 0>> /\ stream.last # NothingShown
  <2>1. stream.last = Plain(begin)
    OBVIOUS
  <2> HIDE DEF begin, stream
  <2>2. stream.last.reply = begin /\ stream.last.thinking = <<0, 0>>
    BY <2>1 DEF Plain
  <2>3. NothingShown.reply = <<>>
    BY DEF NothingShown, Plain
  <2> QED BY <1>2, <2>2, <2>3
<1>4. ~Off(stream, words)
  <2> HIDE DEF begin, stream
  <2> QED BY <1>2, <1>3 DEF Off, Strays
<1>5. On(stream, visible, words)
  BY <1>4 DEF Ready
<1> HIDE DEF begin
<1>6. stream.message # 0
  BY <1>3, <1>5 DEF On
<1>7. visible.reply = shown[stream.message].reply /\ shown[stream.message] \in ShownType /\ stream.message \in 1..Len(shown)
  <2>1. stream.message \in 1..Len(shown)
    BY <1>1, <1>6
  <2>2. shown[stream.message] \in ShownType
    BY <1>1, <2>1, ElementOfSeq
  <2> QED BY <1>6, <2>1, <2>2 DEF Shown
<1> HIDE DEF stream, visible
<1>8. visible.reply = begin
  <2>1. /\ visible.reply \in Seq(Nat) /\ Len(visible.reply) \in Nat
    BY <1>7 DEF ShownType
  <2>2. visible.reply = FirstOf(words, Len(visible.reply)) /\ Len(begin) <= Len(visible.reply) /\ Len(visible.reply) <= MessageLimit
    BY <1>3, <1>5 DEF On, StartOf
  <2>3. Len(visible.reply) <= Len(words)
    <3>1. Len(FirstOf(words, Len(visible.reply))) = Capped(Len(visible.reply), Len(words))
      BY <2>1, FirstIs
    <3> QED BY <2>1, <2>2, <3>1 DEF Capped
  <2>4. Len(begin) = Len(visible.reply)
    BY <1>2, <2>1, <2>2, <2>3, LimitIs DEF Capped
  <2> QED BY <1>2, <2>2, <2>4, StartsOfOneLength
<1> QED BY <1>1, <1>6, <1>7, <1>8 DEF Standing, begin, stream

\* Only the buffer of a stream is another.
LEMMA BufferIs ==
  ASSUME NEW old \in ReplyStreamType, NEW buffer \in Seq(Nat)
  PROVE  LET grown == [old EXCEPT !.buffer = buffer]
         IN  /\ grown \in ReplyStreamType /\ grown.buffer = buffer /\ grown.message = old.message /\ grown.last = old.last
             /\ grown.turn = old.turn /\ grown.thought = old.thought
BY DEF ReplyStreamType

\* The last text of a stream.
LEMMA FinalizesStep ==
  ASSUME RepliesInv, Finalizes
  PROVE  RepliesInv'
<1> DEFINE s == delivery.stream
           words == ReplyText(delivery)
           preview == Plain(FirstOf(words, MessageLimit))
           old == replyStreams[s]
           grown == [old EXCEPT !.buffer = words]
<1>0. RepliesTypes /\ MessagesFollow /\ CallsFollow /\ StreamsHoldTheirs /\ AnswersAreSeen
  BY DEF RepliesInv
<1>1. /\ delivery # NoDelivery /\ calls["dispatcher"] = NoApiCall /\ delivery.way \in {"final", "push"}
      /\ replyStreams' = [replyStreams EXCEPT ![s] = grown]
      /\ Displays("dispatcher", s, preview)
      /\ IF calls' = calls THEN Brought("whole")
         ELSE delivery' = [delivery EXCEPT !.way = "final"] /\ UNCHANGED outcomes
      /\ UNCHANGED <<chatKind, turn, activeStream, outbound, shown, stolen, begun, apiFaults>>
  <2>1. replyStreams' = [replyStreams EXCEPT ![s].buffer = words]
    BY DEF Finalizes
  <2>2. replyStreams' = [replyStreams EXCEPT ![s] = grown]
    BY <2>1
  <2> HIDE DEF grown
  <2> QED BY <2>2 DEF Finalizes
<1>2. /\ delivery \in WorkType /\ delivery.turn \in Turns /\ delivery.turn \in Nat
      /\ words \in Seq(Nat) /\ words # <<>> /\ FirstOf(words, MessageLimit) \in Seq(Nat)
  <2>1. delivery \in WorkType
    BY <1>0, <1>1 DEF RepliesTypes
  <2>2. delivery.turn \in Turns /\ delivery.size \in Nat \ {0} /\ Turns \subseteq Nat
    BY <1>0, <2>1, RepliesShape DEF WorkType
  <2>3. delivery.turn \in Nat
    BY <2>2
  <2>4. words \in Seq(Nat) /\ words # <<>>
    BY <2>2, <2>3, ReplyTextIs
  <2>5. MessageLimit \in Nat
    BY LimitIs
  <2> HIDE DEF words
  <2>6. FirstOf(words, MessageLimit) \in Seq(Nat)
    BY <2>4, <2>5, FirstIs
  <2> QED BY <2>1, <2>2, <2>3, <2>4, <2>6
<1>3. preview \in PreviewType
  <2>1. <<0, 0>> \in Nat \X Nat
    OBVIOUS
  <2> DEFINE begin == FirstOf(words, MessageLimit)
  <2>2. begin \in Seq(Nat)
    BY <1>2
  <2> HIDE DEF begin
  <2>3. Plain(begin) \in PreviewType
    BY <2>1, <2>2 DEF Plain, PreviewType
  <2> QED BY <2>3 DEF begin
<1>4. /\ s \in 1..Len(replyStreams) /\ s # activeStream /\ s \in Nat /\ Len(replyStreams) \in Nat
      /\ old.turn = delivery.turn \/ (delivery.way = "final" /\ delivery.turn \in stolen)
  <2>1. /\ s \in 1..Len(replyStreams) /\ s # activeStream
        /\ old.turn = delivery.turn \/ (delivery.way = "final" /\ delivery.turn \in stolen)
    BY <1>1 DEF RepliesInv, StreamsFollow
  <2> QED BY <1>0, <2>1, RepliesShape
<1>5. old \in ReplyStreamType
  BY <1>0, <1>4, RepliesShape
<1>6. /\ grown \in ReplyStreamType /\ grown.buffer = words /\ grown.message = old.message /\ grown.last = old.last
      /\ grown.turn = old.turn
  <2> HIDE DEF words, old
  <2> QED BY <1>2, <1>5, BufferIs
<1> HIDE DEF grown
<1>7. /\ StreamsKept /\ replyStreams' \in Seq(ReplyStreamType) /\ Len(replyStreams') = Len(replyStreams)
      /\ replyStreams'[s] = grown
      /\ \A r \in 1..Len(replyStreams) : r # s => replyStreams'[r] = replyStreams[r]
      /\ \A r \in 1..Len(replyStreams) : replyStreams'[r].turn = replyStreams[r].turn /\ replyStreams'[r].message = replyStreams[r].message
  BY <1>0, <1>1, <1>4, <1>6, GrownIs DEF old
<1>8. /\ calls' \in [{"turn", "dispatcher"} -> {NoApiCall} \cup ApiCallType]
      /\ calls'["turn"] = calls["turn"]
      /\ \/ calls'["dispatcher"] = NoApiCall /\ calls' = calls
         \/ /\ calls'["dispatcher"] # NoApiCall /\ calls'["dispatcher"].stream = s /\ calls'["dispatcher"].preview = preview
            /\ calls'["dispatcher"].edits = (old.message # 0)
      /\ calls' = calls <=> preview = old.last
  <2>1. "turn" \in {"turn", "dispatcher"} /\ "dispatcher" # "turn" /\ "dispatcher" \in {"turn", "dispatcher"}
    OBVIOUS
  <2> HIDE DEF s, preview
  <2>2. /\ calls' \in [{"turn", "dispatcher"} -> {NoApiCall} \cup ApiCallType]
        /\ \A v \in {"turn", "dispatcher"} : v # "dispatcher" => calls'[v] = calls[v]
        /\ \/ calls'["dispatcher"] = NoApiCall /\ calls' = calls
           \/ /\ calls'["dispatcher"] # NoApiCall /\ calls'["dispatcher"].stream = s /\ calls'["dispatcher"].preview = preview
              /\ calls'["dispatcher"].edits = (replyStreams[s].message # 0)
        /\ Displays("dispatcher", s, preview) => (calls' = calls <=> preview = replyStreams[s].last)
    BY <1>0, <1>1, <1>3, <1>4, <2>1, DisplaysIs
  <2> QED BY <1>1, <2>1, <2>2 DEF old
<1>9. ASSUME calls' = calls
      PROVE  /\ outcomes' \in [Turns -> OutcomeType]
             /\ \A k \in Turns : k # delivery.turn => outcomes'[k] = outcomes[k]
             /\ outcomes'[delivery.turn].result # "part"
             /\ outcomes'[delivery.turn].due = {FirstOf(words, MessageLimit)}
             /\ delivery' \in {NoDelivery} \cup WorkType
             /\ delivery' # NoDelivery => delivery'.turn = delivery.turn /\ delivery'.way = "block"
                                          /\ delivery'.streamed = delivery.streamed
  <2>1. Brought("whole")
    BY <1>1, <1>9
  <2> DEFINE whole == "whole"
  <2>2. whole \in {"whole", "part", "lost"} /\ whole # "part"
    OBVIOUS
  <2>3. Brought(whole)
    BY <2>1
  <2> HIDE DEF whole, words
  <2> QED BY <1>0, <1>1, <1>2, <2>2, <2>3, BroughtIs DEF words
<1>10. ASSUME calls' # calls
       PROVE  /\ outcomes' = outcomes /\ delivery' \in WorkType /\ delivery'.turn = delivery.turn /\ delivery'.way = "final"
              /\ delivery'.stream = s /\ delivery'.streamed = delivery.streamed /\ ReplyText(delivery') = words
              /\ calls'["dispatcher"] # NoApiCall
  <2>1. delivery' = [delivery EXCEPT !.way = "final"] /\ outcomes' = outcomes
    BY <1>1, <1>10
  <2>2. /\ delivery' \in WorkType /\ delivery'.turn = delivery.turn /\ delivery'.way = "final"
        /\ delivery'.stream = delivery.stream /\ delivery'.streamed = delivery.streamed
        /\ delivery'.notice = delivery.notice /\ delivery'.size = delivery.size
    BY <1>2, <2>1 DEF WorkType
  <2> QED BY <1>8, <1>10, <2>1, <2>2 DEF ReplyText
<1>11. /\ delivery' \in {NoDelivery} \cup WorkType /\ outcomes' \in [Turns -> OutcomeType]
       /\ DeliveryFollows
       /\ delivery' # NoDelivery => delivery'.way = "block" \/ (delivery'.way = "final" /\ calls' # calls)
  <2>1. CASE calls' = calls
    BY <1>1, <1>9, <2>1 DEF DeliveryFollows
  <2>2. CASE calls' # calls
    <3>1. outcomes' \in [Turns -> OutcomeType]
      BY <1>0, <1>10, <2>2 DEF RepliesTypes
    <3> QED BY <1>1, <1>10, <2>2, <3>1 DEF DeliveryFollows
  <2> QED BY <2>1, <2>2
<1>12. RepliesTypes'
  BY <1>0, <1>1, <1>7, <1>8, <1>11 DEF RepliesTypes
<1>13. MessagesFollow' /\ StreamsHoldTheirs'
  BY <1>0, <1>1, <1>7, KeptFollows
<1>14. CallsFollow'
  <2>1. calls["turn"] # NoApiCall =>
            /\ turn # NoTurn /\ calls["turn"].stream = turn.stream /\ calls["turn"].stream \in 1..Len(replyStreams)
            /\ calls["turn"].edits => replyStreams[calls["turn"].stream].message # 0
            /\ stolen = {} /\ ~calls["turn"].edits => replyStreams[calls["turn"].stream].message = 0
    BY <1>0 DEF CallsFollow
  <2>2. calls'["dispatcher"] # NoApiCall =>
            /\ delivery' # NoDelivery /\ delivery'.way = "final" /\ delivery'.stream = s
            /\ calls'["dispatcher"].stream = s
            /\ calls'["dispatcher"].edits => replyStreams[s].message # 0
            /\ ~calls'["dispatcher"].edits => replyStreams[s].message = 0
    <3>1. calls'["dispatcher"] # NoApiCall => calls' # calls
      BY <1>1
    <3> QED BY <1>8, <1>10, <3>1, KindsDiffer DEF old
  <2> HIDE DEF s
  <2> QED BY <1>1, <1>4, <1>7, <1>8, <2>1, <2>2 DEF CallsFollow
<1>15. /\ RepliesInRow' /\ StreamsFollow' /\ TurnStreams'
       /\ \A i \in 1..Len(outbound') :
              outbound'[i].streamed /\ activeStream' # 0 /\ replyStreams'[activeStream'].turn = outbound'[i].turn =>
                LET stream == replyStreams'[activeStream']
                    these == AnswerText(outbound'[i].turn, outbound'[i].size)
                IN  On(stream, Shown(stream, shown'), these) \/ Off(stream, these)
  <2>1. \A r \in 1..Len(replyStreams) : Shown(replyStreams[r], shown') = Shown(replyStreams[r], shown)
    BY <1>1
  <2> HIDE DEF s
  <2>2. WithStream(s)
    BY <1>1, <1>4, <1>7, <1>8, <2>1 DEF WithStream
  <2> QED BY <1>1, <1>4, <1>11, <2>2, DispatcherKeeps
<1>16. RepliesReady'
  <2>1. delivery' # NoDelivery /\ delivery'.way = "final" => calls'["dispatcher"] # NoApiCall
    BY <1>8, <1>11
  <2> QED BY <1>15, <2>1 DEF RepliesReady, Ready
<1>17. DeliveryGoesOn'
  <2>1. delivery' # NoDelivery /\ delivery'.way = "final" =>
            calls'["dispatcher"].preview = Plain(FirstOf(ReplyText(delivery'), MessageLimit))
    BY <1>8, <1>10, <1>11
  <2>2. delivery' # NoDelivery => delivery'.way \in {"final", "block"}
    BY <1>11
  <2> QED BY <2>1, <2>2 DEF DeliveryGoesOn
<1>18. AnswersAreSeen'
  <2>1. CASE calls' # calls
    BY <1>0, <1>1, <1>10, <2>1, AnswersStay
  <2>2. CASE calls' = calls
    <3>1. \A k \in Turns : Standing(k)' = Standing(k)
      BY <1>1 DEF Standing
    <3>2. delivery.turn \notin stolen => FirstOf(words, MessageLimit) \in Standing(delivery.turn)
      <4> SUFFICES ASSUME delivery.turn \notin stolen PROVE FirstOf(words, MessageLimit) \in Standing(delivery.turn)
        OBVIOUS
      <4>1. old.turn = delivery.turn
        BY <1>4
      <4>2. Ready(s, words)
        <5>1. CASE delivery.way = "final"
          BY <1>1, <5>1 DEF RepliesInv, RepliesReady
        <5>2. CASE delivery.way = "push"
          BY <1>1, <5>2 DEF RepliesInv, DeliveryGoesOn, Ready
        <5> QED BY <1>1, <5>1, <5>2
      <4>3. old.last = Plain(FirstOf(words, MessageLimit))
        BY <1>8, <2>2
      <4> HIDE DEF s, words
      <4>4. FirstOf(words, MessageLimit) \in Standing(replyStreams[s].turn)
        BY <1>0, <1>2, <1>4, <4>2, <4>3, WholeIsSeen DEF old
      <4> QED BY <4>1, <4>4 DEF old
    <3>3. apiFaults' \in apiFaults..MaxApiFaults
      <4>1. apiFaults \in 0..MaxApiFaults /\ MaxApiFaults \in Nat /\ apiFaults' = apiFaults
        BY <1>0, <1>1, RepliesShape DEF RepliesTypes
      <4> QED BY <4>1
    <3>a. PICK d \in Turns : d = delivery.turn
      BY <1>2
    <3>4. /\ d \notin stolen => FirstOf(words, MessageLimit) \in Standing(d)'
          /\ outcomes'[d].result # "part" /\ outcomes'[d].due = {FirstOf(words, MessageLimit)}
          /\ \A k \in Turns : k # d => outcomes'[k] = outcomes[k]
      BY <1>9, <2>2, <3>1, <3>2, <3>a
    <3> HIDE DEF words
    <3>5. d \in Turns \ stolen' =>
            /\ outcomes'[d].result \in {"whole", "notice"} => outcomes'[d].due \subseteq Standing(d)'
            /\ outcomes'[d].result = "part" => apiFaults' > 0
      BY <1>1, <3>4
    <3> QED BY <1>0, <1>1, <3>1, <3>3, <3>4, <3>5, AnswersFollow
  <2> QED BY <2>1, <2>2
<1> QED BY <1>12, <1>13, <1>14, <1>15, <1>16, <1>17, <1>18 DEF RepliesInv

\* The chunks of a text that its stream still has to get
PartWay(stream, words, left) ==
    /\ On(stream, Shown(stream, shown), words)
    /\ left = Pieces(Rest(words, Len(stream.buffer)), StreamStep)

ChunkAdded(grown, stream, chunk) ==
    /\ grown.message = stream.message /\ grown.last = stream.last /\ grown.thought = stream.thought
    /\ grown.turn = stream.turn /\ grown.buffer = stream.buffer \o chunk

\* A stream that is on a text stays so with the next chunk of it.
LEMMA OnGrows ==
  ASSUME RepliesTypes, MessagesFollow, NEW s \in 1..Len(replyStreams), NEW words \in Seq(Nat), NEW left,
         PartWay(replyStreams[s], words, left), left # <<>>, NEW grown \in ReplyStreamType,
         ChunkAdded(grown, replyStreams[s], Head(left))
  PROVE  /\ On(grown, Shown(grown, shown), words)
         /\ StartOf(Preview(grown), words) /\ Len(Preview(grown).reply) = Capped(Len(grown.buffer), MessageLimit)
         /\ Tail(left) = Pieces(Rest(words, Len(grown.buffer)), StreamStep)
<1> DEFINE old == replyStreams[s]
           rest == Rest(words, Len(old.buffer))
<1>1. old \in ReplyStreamType /\ old.buffer \in Seq(Nat) /\ Len(old.buffer) \in Nat /\ StreamStep \in Nat \ {0}
      /\ old.message \in 0..Len(shown)
  <2>1. old \in ReplyStreamType
    BY RepliesShape
  <2>2. old.message \in 0..Len(shown)
    BY DEF MessagesFollow
  <2>3. old.buffer \in Seq(Nat)
    BY <2>1 DEF ReplyStreamType
  <2>4. StreamStep \in Nat \ {0}
    BY RepliesAssumption
  <2> QED BY <2>1, <2>2, <2>3, <2>4
<1>2. grown.buffer \in Seq(Nat) /\ Len(grown.buffer) \in Nat
  BY DEF ReplyStreamType
<1>3. Shown(grown, shown) = Shown(old, shown)
  BY DEF Shown, ChunkAdded
<1> HIDE DEF old
<1>4. /\ On(old, Shown(old, shown), words) /\ left = Pieces(rest, StreamStep)
  BY DEF PartWay, old
<1>5. /\ grown.message = old.message /\ grown.last = old.last /\ grown.thought = old.thought
      /\ grown.buffer = old.buffer \o Head(left)
  BY DEF ChunkAdded, old
<1>6. old.buffer = FirstOf(words, Len(old.buffer)) /\ old.thought = 0
  BY <1>4 DEF On
<1>7. rest \in Seq(Nat)
  BY <1>1, RestIs
<1> HIDE DEF rest
<1>8. rest # <<>>
  BY <1>1, <1>4, <1>7, PiecesAre
<1>9. Head(left) = FirstOf(rest, StreamStep) /\ Tail(left) = Pieces(Rest(rest, StreamStep), StreamStep)
  BY <1>1, <1>4, <1>7, <1>8, PiecesAre
<1>10. /\ grown.buffer = FirstOf(words, Len(grown.buffer)) /\ Len(old.buffer) <= Len(grown.buffer)
       /\ Rest(rest, StreamStep) = Rest(words, Len(grown.buffer))
  <2> DEFINE begin == old.buffer
             more == begin \o FirstOf(Rest(words, Len(begin)), StreamStep)
  <2>1. StreamStep \in Nat /\ begin \in Seq(Nat) /\ begin = FirstOf(words, Len(begin))
    BY <1>1, <1>6
  <2>2. grown.buffer = more /\ rest = Rest(words, Len(begin))
    BY <1>5, <1>9 DEF rest
  <2> HIDE DEF begin
  <2>3. more = FirstOf(words, Len(more)) /\ Len(begin) <= Len(more)
        /\ Rest(Rest(words, Len(begin)), StreamStep) = Rest(words, Len(more))
    BY <2>1, StartGrows
  <2> HIDE DEF more
  <2> QED BY <2>2, <2>3 DEF begin
<1>11. On(grown, Shown(grown, shown), words)
  <2>1. /\ StartOf(old.last, words) /\ StartOf(Shown(old, shown), words)
        /\ Len(old.last.reply) <= Len(Shown(old, shown).reply) /\ Len(Shown(old, shown).reply) <= Len(old.buffer)
        /\ Len(Shown(old, shown).reply) <= MessageLimit
        /\ old.message = 0 => old.last = NothingShown
    BY <1>4 DEF On
  <2>2. Shown(old, shown).reply \in Seq(Nat)
    <3>1. CASE old.message = 0
      BY <3>1, EmptySeq DEF Shown, NothingShown, Plain
    <3>2. CASE old.message # 0
      <4>1. old.message \in 1..Len(shown)
        BY <1>1, <3>2, RepliesShape
      <4>2. shown[old.message] \in ShownType
        BY <4>1, RepliesShape
      <4> QED BY <3>2, <4>2 DEF Shown, ShownType
    <3> QED BY <3>1, <3>2
  <2>3. Len(Shown(old, shown).reply) \in Nat
    BY <2>2, LenProperties
  <2>4. Len(Shown(old, shown).reply) <= Len(grown.buffer)
    BY <1>1, <1>2, <1>10, <2>1, <2>3
  <2> QED BY <1>3, <1>5, <1>6, <1>10, <2>1, <2>4 DEF On
<1>12. StartOf(Preview(grown), words) /\ Len(Preview(grown).reply) = Capped(Len(grown.buffer), MessageLimit)
  BY <1>5, <1>6, <1>10, PreviewOfStart
<1> QED BY <1>9, <1>10, <1>11, <1>12

\* The next chunk is pushed.
LEMMA PushesChunkStep ==
  ASSUME RepliesInv, PushesChunk
  PROVE  RepliesInv'
<1> DEFINE s == delivery.stream
           words == ReplyText(delivery)
           chunk == Head(delivery.left)
           old == replyStreams[s]
           longer == old.buffer \o chunk
           grown == [old EXCEPT !.buffer = longer]
<1>0. RepliesTypes /\ MessagesFollow /\ CallsFollow /\ StreamsHoldTheirs /\ AnswersAreSeen
  BY DEF RepliesInv
<1>1. /\ delivery # NoDelivery /\ calls["dispatcher"] = NoApiCall /\ delivery.way = "push" /\ delivery.left # <<>>
      /\ replyStreams' = [replyStreams EXCEPT ![s] = grown]
      /\ Displays("dispatcher", s, Preview(grown))
      /\ delivery' = [delivery EXCEPT !.left = Tail(@)]
      /\ UNCHANGED <<chatKind, turn, activeStream, outbound, shown, outcomes, stolen, begun, apiFaults>>
  <2>1. grown = [replyStreams[s] EXCEPT !.buffer = @ \o Head(delivery.left)]
    OBVIOUS
  <2> HIDE DEF grown
  <2> QED BY <2>1 DEF PushesChunk
<1>2. /\ delivery \in WorkType /\ delivery.turn \in Turns /\ words \in Seq(Nat)
      /\ delivery.left \in Seq(Seq(Nat)) /\ chunk \in Seq(Nat)
  <2>1. delivery \in WorkType
    BY <1>0, <1>1 DEF RepliesTypes
  <2>2. delivery.turn \in Turns /\ delivery.size \in Nat \ {0} /\ Turns \subseteq Nat /\ delivery.left \in Seq(Seq(Nat))
    BY <1>0, <2>1, RepliesShape DEF WorkType
  <2>3. delivery.turn \in Nat
    BY <2>2
  <2>4. words \in Seq(Nat)
    BY <2>2, <2>3, ReplyTextIs
  <2>5. chunk \in Seq(Nat)
    <3>1. delivery.left # <<>>
      BY <1>1
    <3> QED BY <2>2, <3>1
  <2> QED BY <2>1, <2>2, <2>4, <2>5
<1>4. /\ s \in 1..Len(replyStreams) /\ s # activeStream /\ s \in Nat /\ Len(replyStreams) \in Nat
      /\ old.turn = delivery.turn
  <2>1. /\ s \in 1..Len(replyStreams) /\ s # activeStream /\ old.turn = delivery.turn
    BY <1>1 DEF RepliesInv, StreamsFollow
  <2> QED BY <1>0, <2>1, RepliesShape
<1>5. old \in ReplyStreamType /\ longer \in Seq(Nat)
  <2>1. old \in ReplyStreamType
    BY <1>0, <1>4, RepliesShape
  <2>2. old.buffer \in Seq(Nat)
    BY <2>1 DEF ReplyStreamType
  <2> HIDE DEF old, chunk
  <2> QED BY <1>2, <2>1, <2>2
<1> HIDE DEF longer
<1>6. /\ grown \in ReplyStreamType /\ grown.buffer = longer /\ grown.message = old.message /\ grown.last = old.last
      /\ grown.turn = old.turn /\ grown.thought = old.thought
  <2> HIDE DEF old
  <2> QED BY <1>5, BufferIs
<1> HIDE DEF grown
<1>7. /\ StreamsKept /\ replyStreams' \in Seq(ReplyStreamType) /\ Len(replyStreams') = Len(replyStreams)
      /\ replyStreams'[s] = grown
      /\ \A r \in 1..Len(replyStreams) : r # s => replyStreams'[r] = replyStreams[r]
      /\ \A r \in 1..Len(replyStreams) : replyStreams'[r].turn = replyStreams[r].turn /\ replyStreams'[r].message = replyStreams[r].message
  BY <1>0, <1>1, <1>4, <1>6, GrownIs DEF old
<1>p. Preview(grown) \in PreviewType
  BY <1>6, PreviewIs
<1>8. /\ calls' \in [{"turn", "dispatcher"} -> {NoApiCall} \cup ApiCallType]
      /\ calls'["turn"] = calls["turn"]
      /\ \/ calls'["dispatcher"] = NoApiCall
         \/ /\ calls'["dispatcher"] # NoApiCall /\ calls'["dispatcher"].stream = s
            /\ calls'["dispatcher"].preview = Preview(grown)
            /\ calls'["dispatcher"].edits = (old.message # 0)
  <2>1. "turn" \in {"turn", "dispatcher"} /\ "dispatcher" # "turn" /\ "dispatcher" \in {"turn", "dispatcher"}
    OBVIOUS
  <2> HIDE DEF s
  <2> QED BY <1>0, <1>1, <1>4, <1>p, <2>1, DisplaysIs DEF old
<1>10. /\ delivery' \in WorkType /\ delivery'.turn = delivery.turn /\ delivery'.way = "push"
       /\ delivery'.stream = s /\ delivery'.streamed = delivery.streamed /\ ReplyText(delivery') = words
       /\ delivery'.left = Tail(delivery.left) /\ delivery' # NoDelivery
  <2>1. Tail(delivery.left) \in Seq(Seq(Nat))
    <3>1. delivery.left # <<>>
      BY <1>1
    <3> QED BY <1>2, <3>1
  <2>2. delivery' = [delivery EXCEPT !.left = Tail(@)] /\ delivery.way = "push"
    BY <1>1
  <2>3. /\ delivery' \in WorkType /\ delivery'.turn = delivery.turn /\ delivery'.way = delivery.way
        /\ delivery'.stream = delivery.stream /\ delivery'.streamed = delivery.streamed
        /\ delivery'.notice = delivery.notice /\ delivery'.size = delivery.size
        /\ delivery'.left = Tail(delivery.left)
    BY <1>2, <2>1, <2>2 DEF WorkType
  <2> QED BY <2>2, <2>3, KindsDiffer DEF ReplyText
<1>11. DeliveryFollows
  BY <1>1, <1>10 DEF DeliveryFollows
<1>12. RepliesTypes'
  BY <1>0, <1>1, <1>7, <1>8, <1>10 DEF RepliesTypes
<1>13. MessagesFollow' /\ StreamsHoldTheirs'
  BY <1>0, <1>1, <1>7, KeptFollows
<1>14. CallsFollow'
  <2>1. calls["turn"] # NoApiCall =>
            /\ turn # NoTurn /\ calls["turn"].stream = turn.stream /\ calls["turn"].stream \in 1..Len(replyStreams)
            /\ calls["turn"].edits => replyStreams[calls["turn"].stream].message # 0
            /\ stolen = {} /\ ~calls["turn"].edits => replyStreams[calls["turn"].stream].message = 0
    BY <1>0 DEF CallsFollow
  <2>2. calls'["dispatcher"] # NoApiCall =>
            /\ calls'["dispatcher"].stream = s
            /\ calls'["dispatcher"].edits => replyStreams[s].message # 0
            /\ ~calls'["dispatcher"].edits => replyStreams[s].message = 0
    BY <1>8 DEF old
  <2>3. delivery' # NoDelivery /\ delivery'.way = "push" /\ delivery'.stream = s
    BY <1>10
  <2> HIDE DEF s
  <2> QED BY <1>1, <1>4, <1>7, <1>8, <2>1, <2>2, <2>3 DEF CallsFollow
<1>15. /\ RepliesInRow' /\ StreamsFollow' /\ TurnStreams'
       /\ \A i \in 1..Len(outbound') :
              outbound'[i].streamed /\ activeStream' # 0 /\ replyStreams'[activeStream'].turn = outbound'[i].turn =>
                LET stream == replyStreams'[activeStream']
                    these == AnswerText(outbound'[i].turn, outbound'[i].size)
                IN  On(stream, Shown(stream, shown'), these) \/ Off(stream, these)
  <2>1. \A r \in 1..Len(replyStreams) : Shown(replyStreams[r], shown') = Shown(replyStreams[r], shown)
    BY <1>1
  <2> HIDE DEF s
  <2>2. WithStream(s)
    BY <1>1, <1>4, <1>7, <1>8, <2>1 DEF WithStream
  <2> QED BY <1>1, <1>4, <1>11, <2>2, DispatcherKeeps
<1>16. RepliesReady'
  BY <1>10, <1>15 DEF RepliesReady, Ready
<1>17. DeliveryGoesOn'
  <2>1. PartWay(old, words, delivery.left)
    BY <1>1 DEF RepliesInv, DeliveryGoesOn, PartWay
  <2>2. ChunkAdded(grown, old, chunk)
    BY <1>6 DEF ChunkAdded, longer
  <2>3. /\ On(grown, Shown(grown, shown), words)
        /\ StartOf(Preview(grown), words) /\ Len(Preview(grown).reply) = Capped(Len(grown.buffer), MessageLimit)
        /\ Tail(delivery.left) = Pieces(Rest(words, Len(grown.buffer)), StreamStep)
    <3> DEFINE left == delivery.left
    <3>1. left # <<>> /\ PartWay(old, words, left) /\ ChunkAdded(grown, old, Head(left))
      BY <1>1, <2>1, <2>2
    <3> HIDE DEF words, s, left
    <3>2. /\ On(grown, Shown(grown, shown), words)
          /\ StartOf(Preview(grown), words) /\ Len(Preview(grown).reply) = Capped(Len(grown.buffer), MessageLimit)
          /\ Tail(left) = Pieces(Rest(words, Len(grown.buffer)), StreamStep)
      BY <1>0, <1>2, <1>4, <1>6, <3>1, OnGrows DEF old
    <3> QED BY <3>2 DEF left
  <2> HIDE DEF words, s
  <2>4. CallOn(calls'["dispatcher"], grown, words)
    BY <1>8, <2>3 DEF CallOn
  <2>5. /\ replyStreams'[delivery'.stream] = grown /\ ReplyText(delivery') = words
        /\ delivery'.left = Tail(delivery.left) /\ delivery'.way = "push" /\ shown' = shown
    BY <1>1, <1>7, <1>10
  <2> QED BY <2>3, <2>4, <2>5 DEF DeliveryGoesOn
<1>18. AnswersAreSeen'
  BY <1>0, <1>1, AnswersStay
<1> QED BY <1>12, <1>13, <1>14, <1>15, <1>16, <1>17, <1>18 DEF RepliesInv

\* What becomes of a delivery once a call of the dispatcher's has ended.
CallLeads(ok) ==
    /\ outcomes' \in [Turns -> OutcomeType] /\ delivery' \in {NoDelivery} \cup WorkType
    /\ DeliveryFollows
    /\ delivery' # NoDelivery => delivery'.way \in {"again", "block"} \/ (delivery.way = "push" /\ delivery' = delivery)
    /\ outcomes'[delivery.turn].result \in {"whole", "notice"} =>
        ok /\ delivery.way = "final" /\ outcomes'[delivery.turn].due = {FirstOf(ReplyText(delivery), MessageLimit)}
    /\ outcomes'[delivery.turn].result = "part" => ~ok

\* How the delivery goes on from a call that has ended.
LEMMA CalledLeads ==
  ASSUME RepliesInv, delivery \in WorkType, delivery.way \in {"final", "push"}, NEW ok \in BOOLEAN, NEW raises \in BOOLEAN,
         CASE raises /\ delivery.streamed -> CallbackRaises
           [] raises /\ ~delivery.streamed -> Brought("lost")
           [] ~raises /\ delivery.way = "push" -> UNCHANGED <<delivery, outcomes>>
           [] OTHER -> Brought(IF ok THEN "whole" ELSE "part")
  PROVE  CallLeads(ok)
<1>0. RepliesTypes /\ delivery # NoDelivery /\ delivery.turn \in Turns /\ delivery.streamed \in BOOLEAN
  BY KindsDiffer DEF RepliesInv, WorkType
<1>1. outcomes[delivery.turn].result = "no"
  <2>1. \A k \in Turns : outcomes[k].result # "no" => k < delivery.turn \/ (k = delivery.turn /\ delivery.way = "block")
    BY <1>0 DEF RepliesInv, RepliesInRow
  <2>2. delivery.turn \in Nat
    BY <1>0, RepliesShape
  <2> QED BY <1>0, <2>1, <2>2
<1>2. ASSUME NEW result \in {"whole", "part", "lost"}, Brought(result),
             result = "whole" => ok /\ delivery.way = "final", result = "part" => ~ok
      PROVE  CallLeads(ok)
  <2>1. /\ outcomes' \in [Turns -> OutcomeType]
        /\ \A k \in Turns : k # delivery.turn => outcomes'[k] = outcomes[k]
        /\ outcomes'[delivery.turn].result \in {"whole", "notice"} => result = "whole"
        /\ outcomes'[delivery.turn].result = "part" => result = "part"
        /\ outcomes'[delivery.turn].due = {FirstOf(ReplyText(delivery), MessageLimit)}
        /\ delivery' \in {NoDelivery} \cup WorkType
        /\ delivery' # NoDelivery => delivery'.turn = delivery.turn /\ delivery'.way = "block"
                                     /\ delivery'.streamed = delivery.streamed
    BY <1>0, <1>2, BroughtIs
  <2>2. DeliveryFollows
    BY <2>1 DEF DeliveryFollows
  <2> QED BY <1>2, <2>1, <2>2 DEF CallLeads
<1>3. CASE raises /\ delivery.streamed
  <2>1. CallbackRaises
    BY <1>3
  <2>2. /\ outcomes' \in [Turns -> OutcomeType]
        /\ \A k \in Turns : k # delivery.turn => outcomes'[k] = outcomes[k]
        /\ outcomes' = outcomes \/ (outcomes'[delivery.turn].result = "gone" /\ delivery' = NoDelivery)
        /\ delivery' \in {NoDelivery} \cup WorkType
        /\ delivery' # NoDelivery => /\ delivery'.turn = delivery.turn /\ delivery'.way = "again"
                                     /\ delivery'.streamed => delivery.streamed
                                     /\ outcomes' = outcomes
    BY <1>0, <2>1, RaisesIs
  <2>3. DeliveryFollows
    BY <2>2 DEF DeliveryFollows
  <2>4. outcomes'[delivery.turn].result \in {"no", "gone"}
    BY <1>1, <2>2
  <2> QED BY <2>2, <2>3, <2>4 DEF CallLeads
<1>4. CASE raises /\ ~delivery.streamed
  <2> DEFINE lost == "lost"
  <2>1. Brought(lost) /\ lost \in {"whole", "part", "lost"} /\ lost # "whole" /\ lost # "part"
    BY <1>4
  <2> HIDE DEF lost
  <2> QED BY <1>2, <2>1
<1>5. CASE ~raises /\ delivery.way = "push"
  <2>1. delivery' = delivery /\ outcomes' = outcomes
    BY <1>5
  <2>2. DeliveryFollows
    BY <1>5, <2>1 DEF DeliveryFollows
  <2> QED BY <1>0, <1>1, <1>5, <2>1, <2>2 DEF CallLeads, RepliesTypes
<1>6. CASE ~raises /\ delivery.way # "push"
  <2> DEFINE result == IF ok THEN "whole" ELSE "part"
  <2>1. Brought(result) /\ result \in {"whole", "part", "lost"} /\ (result = "whole" => ok) /\ (result = "part" => ~ok)
    BY <1>6
  <2>2. delivery.way = "final"
    BY <1>6
  <2> HIDE DEF result
  <2> QED BY <1>2, <2>1, <2>2
<1> QED BY <1>0, <1>3, <1>4, <1>5, <1>6

\* A call of the dispatcher's comes back.
LEMMA DispatcherCalledStep ==
  ASSUME RepliesInv, DispatcherCalled
  PROVE  RepliesInv'
<1> DEFINE s == delivery.stream
           words == ReplyText(delivery)
<1>0. RepliesTypes /\ MessagesFollow /\ CallsFollow /\ StreamsHoldTheirs /\ AnswersAreSeen
  BY DEF RepliesInv
<1>1. PICK ok \in BOOLEAN, raises \in BOOLEAN :
        /\ CallEnds("dispatcher", ok, raises)
        /\ CASE raises /\ delivery.streamed -> CallbackRaises
             [] raises /\ ~delivery.streamed -> Brought("lost")
             [] ~raises /\ delivery.way = "push" -> UNCHANGED <<delivery, outcomes>>
             [] OTHER -> Brought(IF ok THEN "whole" ELSE "part")
        /\ UNCHANGED <<chatKind, turn, activeStream, outbound, stolen, begun>>
  BY DEF DispatcherCalled
<1>u. UNCHANGED <<chatKind, turn, activeStream, outbound, stolen, begun>>
  BY <1>1
<1>2. "turn" \in {"turn", "dispatcher"} /\ "dispatcher" \in {"turn", "dispatcher"} /\ "dispatcher" # "turn"
  OBVIOUS
<1>3. CallOver("dispatcher", ok)
  <2>1. CallEnds("dispatcher", ok, raises)
    BY <1>1
  <2> QED BY <1>0, <1>2, <2>1, CallIs
<1>4. /\ calls' \in [{"turn", "dispatcher"} -> {NoApiCall} \cup ApiCallType] /\ calls'["dispatcher"] = NoApiCall
      /\ calls'["turn"] = calls["turn"]
      /\ replyStreams' \in Seq(ReplyStreamType) /\ Len(replyStreams') = Len(replyStreams) /\ Len(replyStreams) \in Nat
      /\ \A r \in 1..Len(replyStreams) : replyStreams'[r].turn = replyStreams[r].turn
      /\ \A r \in 1..Len(replyStreams) : r # calls["dispatcher"].stream =>
                replyStreams'[r] = replyStreams[r] /\ Shown(replyStreams[r], shown') = Shown(replyStreams[r], shown)
      /\ shown' \in Seq(ShownType) /\ Len(shown') \in Nat
      /\ \A k \in Turns : replyStreams[calls["dispatcher"].stream].turn # k => Standing(k) \subseteq Standing(k)'
      /\ apiFaults' \in 0..MaxApiFaults /\ apiFaults' \in apiFaults..MaxApiFaults /\ (~ok => apiFaults' > 0)
      /\ calls["dispatcher"] # NoApiCall
  BY <1>2, <1>3, EndedLeaves
<1>5. /\ delivery # NoDelivery /\ delivery.way \in {"final", "push"} /\ calls["dispatcher"].stream = s
      /\ s \in 1..Len(replyStreams)
  BY <1>0, <1>4 DEF CallsFollow
<1>6. delivery \in WorkType /\ delivery.turn \in Turns /\ delivery.turn \in Nat /\ words \in Seq(Nat) /\ s \in Nat
  <2>1. delivery \in WorkType
    BY <1>0, <1>5 DEF RepliesTypes
  <2>2. delivery.turn \in Turns /\ delivery.size \in Nat \ {0} /\ Turns \subseteq Nat /\ s \in Nat
    BY <1>0, <2>1, RepliesShape DEF WorkType
  <2>3. delivery.turn \in Nat
    BY <2>2
  <2>4. words \in Seq(Nat)
    BY <2>2, <2>3, ReplyTextIs
  <2> QED BY <2>1, <2>2, <2>3, <2>4
<1>7. /\ s # activeStream
      /\ \/ replyStreams[s].turn = delivery.turn
         \/ replyStreams[s].turn > delivery.turn /\ delivery.turn \in stolen
  BY <1>5 DEF RepliesInv, StreamsFollow
<1>8. CallLeads(ok)
  BY <1>1, <1>5, <1>6, CalledLeads
<1>9. RepliesTypes'
  BY <1>0, <1>u, <1>4, <1>8 DEF RepliesTypes, CallLeads
<1>10. MessagesFollow' /\ StreamsHoldTheirs'
  BY <1>0, <1>u, <1>2, <1>3, EndedFollows
<1>11. CallsFollow'
  <2> SUFFICES ASSUME calls["turn"] # NoApiCall
               PROVE  /\ turn # NoTurn /\ calls["turn"].stream = turn.stream
                      /\ calls["turn"].stream \in 1..Len(replyStreams')
                      /\ calls["turn"].edits => replyStreams'[calls["turn"].stream].message # 0
                      /\ stolen = {} /\ ~calls["turn"].edits => replyStreams'[calls["turn"].stream].message = 0
    BY <1>u, <1>4 DEF CallsFollow
  <2>1. turn # NoTurn /\ calls["turn"].stream = turn.stream /\ calls["turn"].stream \in 1..Len(replyStreams)
    BY <1>0 DEF CallsFollow
  <2>2. turn.stream # 0
    BY <1>4, <2>1
  <2>3. stolen = {} => calls["turn"].stream # calls["dispatcher"].stream
    BY <1>5, <2>1, <2>2, TurnIsLast
  <2> QED BY <1>2, <1>3, <2>1, <2>3, OtherCallStands
<1>12. /\ RepliesInRow' /\ StreamsFollow' /\ TurnStreams'
       /\ \A i \in 1..Len(outbound') :
              outbound'[i].streamed /\ activeStream' # 0 /\ replyStreams'[activeStream'].turn = outbound'[i].turn =>
                LET stream == replyStreams'[activeStream']
                    these == AnswerText(outbound'[i].turn, outbound'[i].size)
                IN  On(stream, Shown(stream, shown'), these) \/ Off(stream, these)
  <2> HIDE DEF s
  <2>1. WithStream(s)
    BY <1>u, <1>4, <1>5, <1>7 DEF WithStream
  <2>2. DeliveryFollows
    BY <1>8 DEF CallLeads
  <2> QED BY <1>5, <1>6, <2>1, <2>2, DispatcherKeeps
<1>13. delivery' # NoDelivery => delivery'.way \in {"again", "block"} \/ (delivery.way = "push" /\ delivery' = delivery)
  BY <1>8 DEF CallLeads
<1>14. RepliesReady'
  <2>1. delivery' # NoDelivery => delivery'.way # "final"
    BY <1>13
  <2> QED BY <1>12, <2>1 DEF RepliesReady, Ready
<1>15. DeliveryGoesOn'
  <2>1. ASSUME delivery.way = "push"
        PROVE  /\ On(replyStreams'[s], Shown(replyStreams'[s], shown'), words)
               /\ delivery.left = Pieces(Rest(words, Len(replyStreams'[s].buffer)), StreamStep)
    <3>1. /\ On(replyStreams[s], Shown(replyStreams[s], shown), words)
          /\ CallOn(calls["dispatcher"], replyStreams[s], words)
          /\ delivery.left = Pieces(Rest(words, Len(replyStreams[s].buffer)), StreamStep)
      BY <1>5, <2>1 DEF RepliesInv, DeliveryGoesOn
    <3>2. replyStreams'[s].buffer = replyStreams[s].buffer
      BY <1>3, <1>5 DEF CallOver
    <3> HIDE DEF s, words
    <3>3. On(replyStreams'[s], Shown(replyStreams'[s], shown'), words)
      BY <1>0, <1>2, <1>3, <1>5, <1>6, <3>1, EndedOn
    <3> QED BY <3>1, <3>2, <3>3
  <2>2. CallOn(calls'["dispatcher"], replyStreams'[s], words)
    BY <1>4 DEF CallOn
  <2>3. ASSUME delivery' # NoDelivery, delivery'.way \in {"final", "push", "rich", "plain"}
        PROVE  delivery' = delivery /\ delivery.way = "push"
    BY <1>13, <2>3
  <2>4. delivery' # NoDelivery /\ delivery'.way = "push" =>
            /\ On(replyStreams'[delivery'.stream], Shown(replyStreams'[delivery'.stream], shown'), ReplyText(delivery'))
            /\ CallOn(calls'["dispatcher"], replyStreams'[delivery'.stream], ReplyText(delivery'))
            /\ delivery'.left = Pieces(Rest(ReplyText(delivery'), Len(replyStreams'[delivery'.stream].buffer)), StreamStep)
    BY <2>1, <2>2, <2>3
  <2>5. delivery' # NoDelivery => delivery'.way \notin {"final", "rich", "plain"}
    BY <2>3
  <2> QED BY <2>4, <2>5 DEF DeliveryGoesOn
<1>16. AnswersAreSeen'
  <2>1. PICK d \in Turns : d = delivery.turn
    BY <1>6
  <2>2. \A k \in Turns : k # d => outcomes'[k] = outcomes[k]
    BY <1>8, <2>1 DEF CallLeads, DeliveryFollows
  <2>3. ASSUME NEW k \in Turns, k # d, outcomes[k].result # "no" PROVE Standing(k) \subseteq Standing(k)'
    <3>1. k < d
      BY <1>5, <2>1, <2>3 DEF RepliesInv, RepliesInRow
    <3>2. k \in Nat /\ d \in Nat
      BY <1>0, <1>6, <2>1, RepliesShape
    <3>3. replyStreams[s].turn # k
      BY <1>7, <2>1, <3>1, <3>2
    <3> QED BY <1>4, <1>5, <3>3
  <2>4. ASSUME ok, delivery.way = "final", d \notin stolen
        PROVE  FirstOf(words, MessageLimit) \in Standing(d)'
    <3> DEFINE m == replyStreams'[s].message
               begin == FirstOf(words, MessageLimit)
    <3>1. calls["dispatcher"].preview = Plain(begin)
      BY <1>4, <1>5, <2>4 DEF RepliesInv, DeliveryGoesOn
    <3>2. m \in 1..Len(shown') /\ shown'[m] = Message(replyStreams[s].turn, s, calls["dispatcher"].preview)
      BY <1>3, <1>5, <2>4 DEF CallOver
    <3>3. replyStreams[s].turn = d
      BY <1>7, <2>1, <2>4
    <3> HIDE DEF m, begin
    <3>4. shown'[m].turn = d /\ shown'[m].reply = begin
      BY <3>1, <3>2, <3>3 DEF Message, Plain
    <3>5. DOMAIN shown' = 1..Len(shown')
      BY <1>4, LenProperties
    <3>6. begin \in Standing(d)'
      BY <3>2, <3>4, <3>5 DEF Standing
    <3> QED BY <3>6 DEF begin
  <2>5. d \in Turns \ stolen' =>
            /\ outcomes'[d].result \in {"whole", "notice"} => outcomes'[d].due \subseteq Standing(d)'
            /\ outcomes'[d].result = "part" => apiFaults' > 0
    <3>1. /\ outcomes'[d].result \in {"whole", "notice"} =>
                ok /\ delivery.way = "final" /\ outcomes'[d].due = {FirstOf(words, MessageLimit)}
          /\ outcomes'[d].result = "part" => ~ok
      BY <1>8, <2>1 DEF CallLeads
    <3> HIDE DEF words
    <3> QED BY <1>u, <1>4, <2>4, <3>1
  <2> QED BY <1>0, <1>u, <1>4, <2>2, <2>3, <2>5, AnswersFollow
<1> QED BY <1>9, <1>10, <1>11, <1>12, <1>14, <1>15, <1>16 DEF RepliesInv

\* A message that no stream has sent.
SaidAlone(preview, result) ==
    /\ shown' = Arrived(delivery.turn, 0, preview, result.copies)
    /\ apiFaults' = apiFaults + result.failed
    /\ UNCHANGED <<chatKind, turn, replyStreams, activeStream, outbound, calls, stolen, begun>>

\* A message of the chat that belongs to no stream.
LEMMA SaidAloneIs ==
  ASSUME RepliesInv, delivery \in WorkType, delivery.way \notin {"final", "push"},
         NEW preview \in PreviewType, NEW result \in SendResults, SaidAlone(preview, result)
  PROVE  /\ MessagesFollow' /\ StreamsHoldTheirs' /\ CallsFollow' /\ WithStream(0)
         /\ shown' \in Seq(ShownType) /\ Len(shown) \in Nat /\ Len(shown') \in Nat
         /\ \A k \in Turns : Standing(k) \subseteq Standing(k)'
         /\ \A i \in 1..Len(shown) : i \in 1..Len(shown') /\ (shown[i].by = 0 => shown'[i] = shown[i])
         /\ apiFaults' \in 0..MaxApiFaults /\ apiFaults' \in apiFaults..MaxApiFaults
         /\ result.ok \in BOOLEAN
         /\ result.ok => /\ Len(shown) + 1 \in 1..Len(shown')
                         /\ shown'[Len(shown) + 1] = Message(delivery.turn, 0, preview)
<1>0. RepliesTypes /\ MessagesFollow /\ CallsFollow /\ StreamsHoldTheirs
  BY DEF RepliesInv
<1>1. delivery.turn \in Turns /\ delivery # NoDelivery
  BY KindsDiffer DEF WorkType
<1>2. /\ apiFaults \in 0..MaxApiFaults /\ MaxApiFaults \in Nat /\ SendAttempts \in Nat \ {0}
      /\ shown \in Seq(ShownType) /\ Len(shown) \in Nat
  BY <1>0, RepliesAssumption, RepliesShape DEF RepliesTypes
<1>3. /\ result.copies \in Nat /\ result.failed \in Nat /\ result.ok \in BOOLEAN /\ apiFaults + result.failed <= MaxApiFaults
      /\ result.ok => result.copies \in 1..(result.failed + 1)
  BY <1>2 DEF SendResults
<1>4. /\ shown' = Arrived(delivery.turn, 0, preview, result.copies)
      /\ apiFaults' = apiFaults + result.failed
      /\ UNCHANGED <<chatKind, turn, replyStreams, activeStream, outbound, calls, stolen, begun>>
  BY DEF SaidAlone
<1>5. /\ shown' \in Seq(ShownType)
      /\ Len(shown') = Len(shown) + result.copies
      /\ \A i \in 1..Len(shown) : shown'[i] = shown[i]
      /\ \A i \in (Len(shown) + 1)..(Len(shown) + result.copies) : shown'[i] = Message(delivery.turn, 0, preview)
  <2> DEFINE none == 0
             k == delivery.turn
             copies == result.copies
  <2>1. shown' = Arrived(k, none, preview, copies) /\ none \in Nat /\ k \in Turns /\ copies \in Nat
    BY <1>1, <1>3, <1>4
  <2> HIDE DEF none, k, copies
  <2>2. EndsWith(Arrived(k, none, preview, copies), Message(k, none, preview), copies)
    BY <1>2, <2>1, ArrivedIs
  <2>3. EndsWith(shown', Message(k, none, preview), copies)
    BY <2>1, <2>2
  <2> QED BY <2>3 DEF EndsWith, none, k, copies
<1>6. Len(shown') \in Nat /\ Len(shown) <= Len(shown')
  BY <1>2, <1>3, <1>5
<1>7. Spoken(0)
  <2>1. Message(delivery.turn, 0, preview).by = 0
    BY DEF Message
  <2> QED BY <1>5, <1>6, <2>1 DEF Spoken
<1>8. /\ \A r \in 1..Len(replyStreams) : Shown(replyStreams[r], shown') = Shown(replyStreams[r], shown)
      /\ \A k \in Turns : Standing(k) \subseteq Standing(k)'
      /\ \A i \in 1..Len(shown) : shown[i].by = 0 => shown'[i] = shown[i]
  <2> DEFINE none == 0
  <2>1. none \in Nat /\ none = 0 /\ Spoken(none)
    BY <1>7
  <2>2. \A r \in 1..Len(replyStreams) : r # none
    <3>1. Len(replyStreams) \in Nat
      BY <1>0, RepliesShape
    <3> QED BY <3>1
  <2> HIDE DEF none
  <2> QED BY <1>0, <2>1, <2>2, OthersStand
<1>9. apiFaults' \in 0..MaxApiFaults /\ apiFaults' \in apiFaults..MaxApiFaults
  BY <1>2, <1>3, <1>4
<1>10. MessagesFollow' /\ StreamsHoldTheirs'
  <2> DEFINE none == 0
  <2>1. none \in 0..Len(replyStreams) /\ none = 0 /\ Spoken(none)
    <3>1. Len(replyStreams) \in Nat
      BY <1>0, RepliesShape
    <3> QED BY <1>7, <3>1
  <2> HIDE DEF none
  <2> QED BY <1>0, <1>4, <1>9, <2>1, SpokenFollows
<1>11. CallsFollow'
  <2>1. calls["dispatcher"] = NoApiCall
    BY <1>0 DEF CallsFollow
  <2> QED BY <1>0, <1>4, <2>1 DEF CallsFollow
<1>12. WithStream(0)
  BY <1>4, <1>8 DEF WithStream
<1>13. result.ok => /\ Len(shown) + 1 \in 1..Len(shown')
                    /\ shown'[Len(shown) + 1] = Message(delivery.turn, 0, preview)
  <2>1. result.ok => Len(shown) + 1 \in (Len(shown) + 1)..(Len(shown) + result.copies)
    BY <1>2, <1>3
  <2>2. result.ok => Len(shown) + 1 \in 1..Len(shown')
    BY <1>2, <1>3, <1>5
  <2>3. result.ok => shown'[Len(shown) + 1] = Message(delivery.turn, 0, preview)
    BY <1>5, <2>1, Zenon
  <2> QED BY <2>2, <2>3
<1>14. \A i \in 1..Len(shown) : i \in 1..Len(shown')
  BY <1>2, <1>6
<1> QED BY <1>2, <1>3, <1>5, <1>6, <1>8, <1>9, <1>10, <1>11, <1>12, <1>13, <1>14

\* The thinking that follows a reply.
LEMMA SendsBlockStep ==
  ASSUME RepliesInv, SendsBlock
  PROVE  RepliesInv'
<1>0. RepliesTypes /\ AnswersAreSeen
  BY DEF RepliesInv
<1>1. PICK result \in SendResults :
        /\ shown' = Arrived(delivery.turn, 0, Plain(ThinkingNote), result.copies)
        /\ apiFaults' = apiFaults + result.failed
  BY DEF SendsBlock
<1>2. /\ delivery # NoDelivery /\ delivery.way = "block" /\ delivery' = NoDelivery
      /\ UNCHANGED <<chatKind, turn, replyStreams, activeStream, outbound, calls, outcomes, stolen, begun>>
  BY DEF SendsBlock
<1>3. delivery \in WorkType /\ delivery.way \notin {"final", "push"}
  BY <1>0, <1>2 DEF RepliesTypes
<1>4. Plain(ThinkingNote) \in PreviewType
  BY DEF Plain, ThinkingNote, PreviewType
<1>5. SaidAlone(Plain(ThinkingNote), result)
  BY <1>1, <1>2 DEF SaidAlone
<1>6. /\ MessagesFollow' /\ StreamsHoldTheirs' /\ CallsFollow' /\ WithStream(0)
      /\ shown' \in Seq(ShownType)
      /\ \A k \in Turns : Standing(k) \subseteq Standing(k)'
      /\ apiFaults' \in 0..MaxApiFaults /\ apiFaults' \in apiFaults..MaxApiFaults
  BY <1>3, <1>4, <1>5, SaidAloneIs
<1>7. RepliesTypes'
  BY <1>0, <1>2, <1>6 DEF RepliesTypes
<1>8. /\ RepliesInRow' /\ StreamsFollow' /\ TurnStreams'
      /\ \A i \in 1..Len(outbound') :
              outbound'[i].streamed /\ activeStream' # 0 /\ replyStreams'[activeStream'].turn = outbound'[i].turn =>
                LET stream == replyStreams'[activeStream']
                    words == AnswerText(outbound'[i].turn, outbound'[i].size)
                IN  On(stream, Shown(stream, shown'), words) \/ Off(stream, words)
  <2>1. DeliveryFollows
    BY <1>2 DEF DeliveryFollows
  <2> DEFINE none == 0
  <2>2. none \in Nat /\ WithStream(none)
    BY <1>6
  <2> HIDE DEF none
  <2> QED BY <1>2, <2>1, <2>2, DispatcherKeeps
<1>9. RepliesReady' /\ DeliveryGoesOn'
  BY <1>2, <1>8 DEF RepliesReady, Ready, DeliveryGoesOn
<1>10. AnswersAreSeen'
  <2>1. 0 \notin Turns
    BY DEF Turns
  <2> QED BY <1>0, <1>2, <1>6, <2>1, AnswersFollow
<1> QED BY <1>6, <1>7, <1>8, <1>9, <1>10 DEF RepliesInv

\* The first of some, and the others.
LEMMA FirstAndRest ==
  ASSUME NEW left \in Seq(Seq(Nat)), left # <<>>
  PROVE  /\ Head(left) \in Seq(Nat) /\ Tail(left) \in Seq(Seq(Nat)) /\ Len(left) \in Nat \ {0}
         /\ \A x \in ToSet(left) : x = Head(left) \/ x \in ToSet(Tail(left))
         /\ Len(left) = 1 => ToSet(Tail(left)) = {}
<1>1. /\ Len(left) \in Nat \ {0} /\ Head(left) = left[1] /\ Head(left) \in Seq(Nat) /\ Tail(left) \in Seq(Seq(Nat))
      /\ Len(Tail(left)) = Len(left) - 1 /\ \A i \in 1..(Len(left) - 1) : Tail(left)[i] = left[i + 1]
  OBVIOUS
<1>2. DOMAIN left = 1..Len(left) /\ DOMAIN Tail(left) = 1..(Len(left) - 1)
  BY <1>1, LenProperties
<1>3. ASSUME NEW x \in ToSet(left), x # Head(left) PROVE x \in ToSet(Tail(left))
  <2>1. PICK i \in 1..Len(left) : x = left[i]
    BY <1>2 DEF ToSet
  <2>2. i # 1
    BY <1>1, <1>3, <2>1
  <2>3. i - 1 \in 1..(Len(left) - 1) /\ (i - 1) + 1 = i
    BY <1>1, <2>1, <2>2
  <2>4. Tail(left)[i - 1] = x
    BY <1>1, <2>1, <2>3
  <2> QED BY <1>2, <2>3, <2>4 DEF ToSet
<1>4. Len(left) = 1 => ToSet(Tail(left)) = {}
  <2>1. Len(left) = 1 => DOMAIN Tail(left) = {}
    BY <1>2
  <2> QED BY <2>1 DEF ToSet
<1> QED BY <1>1, <1>3, <1>4

\* There is one left, or there are more.
LEMMA OneOrMore ==
  ASSUME NEW left \in Seq(Seq(Nat)), left # <<>>
  PROVE  (Len(left) = 1 \/ Len(left) > 1) /\ (Len(left) > 1 => Len(left) # 1)
<1>1. PICK n \in Nat \ {0} : n = Len(left)
  BY FirstAndRest
<1>2. (n = 1 \/ n > 1) /\ (n > 1 => n # 1)
  OBVIOUS
<1> QED BY <1>1, <1>2

\* The next of the chunks is sent.
LEMMA SendsChunkStep ==
  ASSUME RepliesInv, SendsChunk
  PROVE  RepliesInv'
<1> DEFINE left == delivery.left
           words == ReplyText(delivery)
           chunk == Head(left)
           whole == Pieces(words, MessageLimit)
<1>0. RepliesTypes /\ AnswersAreSeen
  BY DEF RepliesInv
<1>1. PICK result \in SendResults :
        /\ shown' = Arrived(delivery.turn, 0, Plain(chunk), result.copies)
        /\ apiFaults' = apiFaults + result.failed
        /\ CASE result.ok /\ Len(left) > 1 ->
                    delivery' = [delivery EXCEPT !.left = Tail(@)] /\ UNCHANGED outcomes
             [] result.ok /\ Len(left) = 1 -> Brought("whole")
             [] ~result.ok /\ delivery.way = "rich" ->
                    delivery' = Work(delivery, "plain", 0, whole) /\ UNCHANGED outcomes
             [] OTHER -> CallbackRaises
  BY DEF SendsChunk
<1>2. /\ delivery # NoDelivery /\ delivery.way \in {"rich", "plain"} /\ left # <<>>
      /\ UNCHANGED <<chatKind, turn, replyStreams, activeStream, outbound, calls, stolen, begun>>
  BY DEF SendsChunk
<1>3. /\ delivery \in WorkType /\ delivery.turn \in Turns /\ delivery.turn \in Nat /\ left \in Seq(Seq(Nat))
      /\ whole \in Seq(Seq(Nat))
  <2>1. delivery \in WorkType
    BY <1>0, <1>2 DEF RepliesTypes
  <2>2. delivery.turn \in Turns /\ delivery.size \in Nat \ {0} /\ Turns \subseteq Nat /\ left \in Seq(Seq(Nat))
    BY <1>0, <2>1, RepliesShape DEF WorkType
  <2>3. delivery.turn \in Nat
    BY <2>2
  <2>4. MessageLimit \in Nat \ {0}
    BY LimitIs
  <2>5. whole \in Seq(Seq(Nat))
    BY <2>2, <2>3, <2>4, PiecesOfReply
  <2> QED BY <2>1, <2>2, <2>3, <2>5
<1> HIDE DEF left, whole
<1>4. /\ chunk \in Seq(Nat) /\ Tail(left) \in Seq(Seq(Nat)) /\ Len(left) \in Nat \ {0}
      /\ \A x \in ToSet(left) : x = chunk \/ x \in ToSet(Tail(left))
      /\ Len(left) = 1 => ToSet(Tail(left)) = {}
  BY <1>2, <1>3, FirstAndRest
<1>l. (Len(left) = 1 \/ Len(left) > 1) /\ (Len(left) > 1 => Len(left) # 1)
  <2>1. left # <<>> /\ left \in Seq(Seq(Nat))
    BY <1>2, <1>3
  <2> QED BY <2>1, OneOrMore
<1> HIDE DEF chunk
<1>5. Plain(chunk) \in PreviewType
  <2>1. <<0, 0>> \in Nat \X Nat
    OBVIOUS
  <2> QED BY <1>4, <2>1 DEF Plain, PreviewType
<1>6. SaidAlone(Plain(chunk), result) /\ delivery.way \notin {"final", "push"}
  BY <1>1, <1>2 DEF SaidAlone
<1>7. /\ MessagesFollow' /\ StreamsHoldTheirs' /\ CallsFollow' /\ WithStream(0)
      /\ shown' \in Seq(ShownType) /\ Len(shown) \in Nat /\ Len(shown') \in Nat
      /\ \A k \in Turns : Standing(k) \subseteq Standing(k)'
      /\ \A i \in 1..Len(shown) : i \in 1..Len(shown') /\ (shown[i].by = 0 => shown'[i] = shown[i])
      /\ apiFaults' \in 0..MaxApiFaults /\ apiFaults' \in apiFaults..MaxApiFaults
      /\ result.ok \in BOOLEAN
      /\ result.ok => /\ Len(shown) + 1 \in 1..Len(shown')
                      /\ shown'[Len(shown) + 1] = Message(delivery.turn, 0, Plain(chunk))
  BY <1>3, <1>5, <1>6, SaidAloneIs
<1>8. PICK d \in Turns : d = delivery.turn
  BY <1>3
<1> DEFINE Seen(piece) == \E i \in 1..Len(shown') : shown'[i].turn = d /\ shown'[i].by = 0 /\ shown'[i].reply = piece
<1>9. \A piece \in ToSet(whole) : piece \in ToSet(left) \/ Seen(piece)
  <2>1. ASSUME NEW piece \in ToSet(whole), piece \notin ToSet(left) PROVE Seen(piece)
    <3>1. \A some \in ToSet(Pieces(ReplyText(delivery), MessageLimit)) :
            \/ some \in ToSet(delivery.left)
            \/ \E i \in 1..Len(shown) : shown[i].turn = delivery.turn /\ shown[i].by = 0 /\ shown[i].reply = some
      BY <1>2 DEF RepliesInv, DeliveryGoesOn
    <3>2. PICK i \in 1..Len(shown) : shown[i].turn = delivery.turn /\ shown[i].by = 0 /\ shown[i].reply = piece
      BY <2>1, <3>1 DEF left, whole
    <3>3. i \in 1..Len(shown') /\ shown'[i] = shown[i]
      BY <1>7, <3>2
    <3> QED BY <1>8, <3>2, <3>3
  <2> QED BY <2>1
<1>10. result.ok => Seen(chunk)
  <2> SUFFICES ASSUME result.ok PROVE Seen(chunk)
    OBVIOUS
  <2> DEFINE m == Len(shown) + 1
  <2>1. m \in 1..Len(shown') /\ shown'[m] = Message(delivery.turn, 0, Plain(chunk))
    BY <1>7
  <2> HIDE DEF m
  <2>2. shown'[m].turn = d /\ shown'[m].by = 0 /\ shown'[m].reply = chunk
    BY <1>8, <2>1 DEF Message, Plain
  <2> QED BY <2>1, <2>2
<1>11. DOMAIN shown' = 1..Len(shown')
  BY <1>7, LenProperties
<1>12. ASSUME NEW piece, Seen(piece) PROVE piece \in Standing(d)'
  BY <1>11, <1>12 DEF Standing
<1>13. outcomes[d].result = "no"
  <2>1. \A k \in Turns : outcomes[k].result # "no" => k < delivery.turn \/ (k = delivery.turn /\ delivery.way = "block")
    BY <1>2 DEF RepliesInv, RepliesInRow
  <2>2. d \in Nat /\ d = delivery.turn /\ delivery.way # "block"
    BY <1>2, <1>3, <1>8
  <2>3. outcomes[d].result # "no" => d < d
    BY <2>1, <2>2
  <2> QED BY <2>2, <2>3
<1> HIDE DEF Seen
\* What the step leads to
<1> DEFINE LeadsOn ==
             /\ outcomes' \in [Turns -> OutcomeType] /\ delivery' \in {NoDelivery} \cup WorkType /\ DeliveryFollows
             /\ delivery' # NoDelivery => delivery'.way \notin {"final", "push"}
             /\ delivery' # NoDelivery /\ delivery'.way \in {"rich", "plain"} =>
                    /\ ReplyText(delivery') = words
                    /\ \A piece \in ToSet(whole) : piece \in ToSet(delivery'.left) \/ Seen(piece)
             /\ outcomes'[d].result \in {"whole", "notice"} => outcomes'[d].due \subseteq Standing(d)'
             /\ outcomes'[d].result # "part"
<1>14. ASSUME result.ok, Len(left) > 1 PROVE LeadsOn
  <2>1. delivery' = [delivery EXCEPT !.left = Tail(@)] /\ outcomes' = outcomes
    <3>1. Len(left) # 1
      BY <1>l, <1>14
    <3> QED BY <1>1, <1>14, <3>1
  <2>2. /\ delivery' \in WorkType /\ delivery'.turn = delivery.turn /\ delivery'.way = delivery.way
        /\ delivery'.streamed = delivery.streamed /\ delivery'.notice = delivery.notice /\ delivery'.size = delivery.size
        /\ delivery'.left = Tail(left)
    BY <1>3, <1>4, <2>1 DEF WorkType, left
  <2>3. DeliveryFollows
    BY <1>2, <2>1, <2>2 DEF DeliveryFollows
  <2>4. \A piece \in ToSet(whole) : piece \in ToSet(Tail(left)) \/ Seen(piece)
    BY <1>4, <1>9, <1>10, <1>14
  <2>5. outcomes' \in [Turns -> OutcomeType]
    BY <1>0, <2>1 DEF RepliesTypes
  <2>6. ReplyText(delivery') = words
    BY <2>2 DEF ReplyText
  <2> QED BY <1>2, <1>13, <2>1, <2>2, <2>3, <2>4, <2>5, <2>6
<1>15. ASSUME result.ok, Len(left) = 1 PROVE LeadsOn
  <2> DEFINE how == "whole"
  <2>1. Brought(how) /\ how \in {"whole", "part", "lost"} /\ how # "part"
    BY <1>1, <1>4, <1>15
  <2> HIDE DEF how
  <2>2. /\ outcomes' \in [Turns -> OutcomeType]
        /\ \A k \in Turns : k # delivery.turn => outcomes'[k] = outcomes[k]
        /\ outcomes'[delivery.turn].result # "part"
        /\ outcomes'[delivery.turn].due = ToSet(whole)
        /\ delivery' \in {NoDelivery} \cup WorkType
        /\ delivery' # NoDelivery => delivery'.turn = delivery.turn /\ delivery'.way = "block"
                                     /\ delivery'.streamed = delivery.streamed
    BY <1>0, <1>2, <1>3, <2>1, BroughtIs DEF whole
  <2>3. DeliveryFollows
    BY <1>2, <2>2 DEF DeliveryFollows
  <2>4. ToSet(whole) \subseteq Standing(d)'
    <3>1. ASSUME NEW piece \in ToSet(whole) PROVE piece \in Standing(d)'
      <4>1. Seen(piece)
        BY <1>4, <1>9, <1>10, <1>15
      <4> QED BY <1>12, <4>1
    <3> QED BY <3>1
  <2> QED BY <1>8, <2>2, <2>3, <2>4
<1>16. ASSUME ~result.ok, delivery.way = "rich" PROVE LeadsOn
  <2> DEFINE plain == "plain"
             none == 0
  <2>1. delivery' = Work(delivery, plain, none, whole) /\ outcomes' = outcomes
    BY <1>1, <1>16
  <2>2. plain \in Ways /\ none \in Nat /\ delivery \in EnteringType /\ plain = "plain"
    BY <1>3, WorkEnters DEF Ways
  <2> HIDE DEF plain, none, words
  <2>3. /\ delivery' \in WorkType /\ delivery'.turn = delivery.turn /\ delivery'.streamed = delivery.streamed
        /\ delivery'.way = plain /\ delivery'.left = whole /\ ReplyText(delivery') = ReplyText(delivery)
    BY <1>3, <2>1, <2>2, WorkIs
  <2>4. DeliveryFollows
    BY <1>2, <2>1, <2>2, <2>3 DEF DeliveryFollows
  <2>5. outcomes' \in [Turns -> OutcomeType]
    BY <1>0, <2>1 DEF RepliesTypes
  <2> QED BY <1>13, <2>1, <2>2, <2>3, <2>4, <2>5 DEF words
<1>17. ASSUME ~result.ok, delivery.way # "rich" PROVE LeadsOn
  <2>1. CallbackRaises
    BY <1>1, <1>17
  <2>2. /\ outcomes' \in [Turns -> OutcomeType]
        /\ \A k \in Turns : k # delivery.turn => outcomes'[k] = outcomes[k]
        /\ outcomes' = outcomes \/ (outcomes'[delivery.turn].result = "gone" /\ delivery' = NoDelivery)
        /\ delivery' \in {NoDelivery} \cup WorkType
        /\ delivery' # NoDelivery => /\ delivery'.turn = delivery.turn /\ delivery'.way = "again"
                                     /\ delivery'.streamed => delivery.streamed
                                     /\ outcomes' = outcomes
    BY <1>0, <1>3, <2>1, RaisesIs
  <2>3. DeliveryFollows
    BY <1>2, <2>2 DEF DeliveryFollows
  <2>4. outcomes'[d].result \in {"no", "gone"}
    BY <1>8, <1>13, <2>2
  <2> QED BY <2>2, <2>3, <2>4
<1>18. LeadsOn
  <2>2. result.ok \in BOOLEAN
    BY <1>7
  <2> HIDE DEF LeadsOn
  <2> QED BY <1>14, <1>15, <1>16, <1>17, <1>l, <2>2
<1>19. RepliesTypes'
  BY <1>0, <1>2, <1>7, <1>18 DEF RepliesTypes
<1>20. /\ RepliesInRow' /\ StreamsFollow' /\ TurnStreams'
       /\ \A i \in 1..Len(outbound') :
              outbound'[i].streamed /\ activeStream' # 0 /\ replyStreams'[activeStream'].turn = outbound'[i].turn =>
                LET stream == replyStreams'[activeStream']
                    these == AnswerText(outbound'[i].turn, outbound'[i].size)
                IN  On(stream, Shown(stream, shown'), these) \/ Off(stream, these)
  <2> DEFINE none == 0
  <2>1. none \in Nat /\ WithStream(none)
    BY <1>7
  <2> HIDE DEF none
  <2> QED BY <1>2, <1>18, <2>1, DispatcherKeeps
<1>21. RepliesReady'
  BY <1>18, <1>20 DEF RepliesReady, Ready
<1>22. DeliveryGoesOn'
  <2>1. ASSUME delivery' # NoDelivery, delivery'.way \in {"rich", "plain"}
        PROVE  \A piece \in ToSet(Pieces(ReplyText(delivery'), MessageLimit)) :
                \/ piece \in ToSet(delivery'.left)
                \/ \E i \in 1..Len(shown') :
                    shown'[i].turn = delivery'.turn /\ shown'[i].by = 0 /\ shown'[i].reply = piece
    <3>1. Pieces(ReplyText(delivery'), MessageLimit) = whole
      BY <1>18, <2>1 DEF whole
    <3>2. delivery'.turn = d
      BY <1>8, <1>18, <2>1 DEF DeliveryFollows
    <3>3. \A piece \in ToSet(whole) : piece \in ToSet(delivery'.left) \/ Seen(piece)
      BY <1>18, <2>1
    <3> QED BY <3>1, <3>2, <3>3 DEF Seen
  <2>2. delivery' # NoDelivery => delivery'.way \notin {"final", "push"}
    BY <1>18
  <2> QED BY <2>1, <2>2 DEF DeliveryGoesOn
<1>23. AnswersAreSeen'
  <2>1. \A k \in Turns : k # d => outcomes'[k] = outcomes[k]
    BY <1>8, <1>18 DEF DeliveryFollows
  <2>2. d \in Turns \ stolen' =>
            /\ outcomes'[d].result \in {"whole", "notice"} => outcomes'[d].due \subseteq Standing(d)'
            /\ outcomes'[d].result = "part" => apiFaults' > 0
    BY <1>18
  <2> QED BY <1>0, <1>2, <1>7, <2>1, <2>2, AnswersFollow
<1> QED BY <1>7, <1>19, <1>20, <1>21, <1>22, <1>23 DEF RepliesInv

-----------------------------------------------------------------------------
\* The invariant holds at the start and from step to step.

\* No reply yet.
LEMMA ReplyBegins ==
  ASSUME ReplyInit
  PROVE  RepliesInv
<1>1. /\ chatKind = "" /\ turn = NoTurn /\ replyStreams = <<>> /\ activeStream = 0 /\ outbound = <<>>
      /\ delivery = NoDelivery /\ calls = [who \in {"turn", "dispatcher"} |-> NoApiCall]
      /\ shown = <<>> /\ outcomes = [k \in Turns |-> [result |-> "no", due |-> {}]] /\ stolen = {} /\ begun = 0 /\ apiFaults = 0
  BY DEF ReplyInit
<1>2. Len(replyStreams) = 0 /\ Len(shown) = 0 /\ Len(outbound) = 0
  BY <1>1
<1>3. \A w \in {"turn", "dispatcher"} : calls[w] = NoApiCall
  BY <1>1
<1>4. \A k \in Turns : outcomes[k].result = "no"
  BY <1>1
<1>5. RepliesTypes
  <2>1. MaxTurns \in Nat /\ MaxApiFaults \in Nat
    BY RepliesAssumption
  <2>2. begun \in 0..MaxTurns /\ apiFaults \in 0..MaxApiFaults /\ activeStream \in 0..Len(replyStreams)
    <3>1. begun = 0 /\ apiFaults = 0 /\ activeStream = 0
      BY <1>1
    <3> QED BY <1>2, <2>1, <3>1
  <2>3. replyStreams \in Seq(ReplyStreamType) /\ shown \in Seq(ShownType) /\ outbound \in Seq(PublishedType)
    BY <1>1, EmptySeq
  <2>4. outcomes \in [Turns -> OutcomeType]
    <3>1. [result |-> "no", due |-> {}] \in OutcomeType
      BY DEF OutcomeType
    <3> QED BY <1>1, <3>1
  <2>5. calls \in [{"turn", "dispatcher"} -> {NoApiCall} \cup ApiCallType]
    BY <1>1
  <2>6. chatKind = "" /\ turn = NoTurn /\ delivery = NoDelivery /\ stolen = {}
    BY <1>1
  <2> QED BY <2>2, <2>3, <2>4, <2>5, <2>6 DEF RepliesTypes
<1>6. MessagesFollow
  BY <1>2 DEF MessagesFollow
<1>7. CallsFollow
  BY <1>3 DEF CallsFollow
<1>8. RepliesInRow
  <2>1. turn = NoTurn /\ delivery = NoDelivery /\ Len(outbound) = 0
    BY <1>1, <1>2
  <2>2. \A i \in 1..Len(outbound) : FALSE
    BY <2>1
  <2> QED BY <1>4, <2>1, <2>2 DEF RepliesInRow
<1>9. StreamsFollow /\ TurnStreams
  BY <1>1 DEF StreamsFollow, TurnStreams
<1>10. RepliesReady /\ DeliveryGoesOn
  BY <1>1, <1>2 DEF RepliesReady, DeliveryGoesOn
<1>11. AnswersAreSeen
  BY <1>4 DEF AnswersAreSeen
<1>12. StreamsHoldTheirs
  <2>1. DOMAIN shown = {} /\ DOMAIN replyStreams = {}
    <3>1. shown = <<>> /\ replyStreams = <<>>
      BY <1>1
    <3> QED BY <3>1
  <2> QED BY <2>1 DEF StreamsHoldTheirs
<1> QED BY <1>5, <1>6, <1>7, <1>8, <1>9, <1>10, <1>11, <1>12 DEF RepliesInv

\* Nothing moves.
LEMMA RepliesRest ==
  ASSUME RepliesInv, UNCHANGED replyVars
  PROVE  RepliesInv'
<1>1. UNCHANGED <<chatKind, turn, replyStreams, activeStream, outbound, delivery, calls, shown, outcomes, stolen, begun, apiFaults>>
  BY DEF replyVars
<1>2. RepliesTypes' /\ MessagesFollow' /\ CallsFollow'
  BY <1>1 DEF RepliesInv, RepliesTypes, MessagesFollow, CallsFollow
<1>3. RepliesInRow' /\ StreamsFollow'
  BY <1>1 DEF RepliesInv, RepliesInRow, StreamsFollow
<1>4. TurnStreams'
  BY <1>1 DEF RepliesInv, TurnStreams
<1>5. RepliesReady' /\ DeliveryGoesOn'
  BY <1>1 DEF RepliesInv, RepliesReady, Ready, DeliveryGoesOn
<1>6. AnswersAreSeen'
  BY <1>1, AnswersStay DEF RepliesInv
<1>7. StreamsHoldTheirs'
  BY <1>1 DEF RepliesInv, StreamsHoldTheirs
<1> QED BY <1>2, <1>3, <1>4, <1>5, <1>6, <1>7 DEF RepliesInv

\* Whatever happens in the chat keeps the invariant.
LEMMA ReplyStep ==
  ASSUME RepliesInv, [ReplyNext]_replyVars
  PROVE  RepliesInv'
<1>1. CASE ReplyNext
  <2>1. CASE ChatOpens
    BY <2>1, ChatOpensStep
  <2>2. CASE TurnStarts
    BY <2>2, TurnStartsStep
  <2>3. CASE Pushes
    BY <2>3, PushesStep
  <2>4. CASE Pushed
    BY <2>4, PushedStep
  <2>5. CASE TurnAnswers \/ TurnFallsBack
    BY <2>5, TurnEndsStep
  <2>6. CASE TurnStopped
    BY <2>6, TurnStoppedStep
  <2>7. CASE Dispatches
    BY <2>7, DispatchesStep
  <2>8. CASE Again
    BY <2>8, AgainStep
  <2>9. CASE Finalizes
    BY <2>9, FinalizesStep
  <2>10. CASE PushesChunk
    BY <2>10, PushesChunkStep
  <2>11. CASE DispatcherCalled
    BY <2>11, DispatcherCalledStep
  <2>12. CASE SendsChunk
    BY <2>12, SendsChunkStep
  <2>13. CASE SendsBlock
    BY <2>13, SendsBlockStep
  <2> QED
    BY <1>1, <2>1, <2>2, <2>3, <2>4, <2>5, <2>6, <2>7, <2>8, <2>9, <2>10, <2>11, <2>12, <2>13 DEF ReplyNext
<1>2. CASE UNCHANGED replyVars
  BY <1>2, RepliesRest
<1> QED BY <1>1, <1>2

\* What the invariant is for.
LEMMA RepliesInvIsEnough ==
  RepliesInv => RepliesAreShown
BY DEF RepliesInv, RepliesAreShown

\* The types are those of the module, and more.
LEMMA RepliesAreTyped == RepliesInv => ReplyTypeOK
<1> SUFFICES ASSUME RepliesInv PROVE ReplyTypeOK
  OBVIOUS
<1>1. chatKind \in {"", "private", "group"} /\ activeStream \in 0..Len(replyStreams)
  BY DEF RepliesInv, RepliesTypes
<1>2. \A s \in DOMAIN replyStreams : replyStreams[s].message \in 0..Len(shown)
  <2>1. replyStreams \in Seq(ReplyStreamType)
    BY DEF RepliesInv, RepliesTypes
  <2>2. DOMAIN replyStreams = 1..Len(replyStreams)
    BY <2>1
  <2> QED BY <2>2 DEF RepliesInv, MessagesFollow
<1>3. \A k \in Turns : outcomes[k].result \in {"no", "whole", "part", "lost", "notice", "gone"}
  <2>1. outcomes \in [Turns -> OutcomeType]
    BY DEF RepliesInv, RepliesTypes
  <2> QED BY <2>1 DEF OutcomeType
<1>4. apiFaults <= MaxApiFaults
  <2>1. apiFaults \in 0..MaxApiFaults
    BY DEF RepliesInv, RepliesTypes
  <2> QED BY <2>1, RepliesAssumption
<1> QED BY <1>1, <1>2, <1>3, <1>4 DEF ReplyTypeOK
=============================================================================
