---------------------------- MODULE ProactiveTick ----------------------------
(***************************************************************************)
(* One target chat of the proactive loop: ticks that pass the gates fetch  *)
(* alerts and content, let the model classify, draft and finish, guard the *)
(* result against resent, write it into the session, send it, and mark    *)
(* and acknowledge what was sent; a tick with nothing to say may drift     *)
(* (proactive_v2/loop.py, agent_tick.py, tools.py, state.py, anyaction.py, *)
(* gateway.py, mcp_sources.py, drift_runner.py, drift_tools.py and         *)
(* agent/turns/).                                                          *)
(*                                                                         *)
(* Time passes by the Ends actions, each of which ends one window of the   *)
(* code.  The event servers are what the code sees of them: they offer     *)
(* what is not acknowledged.  What a message says is what it is about: its *)
(* delivery key.                                                           *)
(***************************************************************************)
EXTENDS Integers, FiniteSets

CONSTANTS
    Alerts, Contents,   \* the events of the servers
    Story,              \* an event's ref: its url, its title, or its own id
    DailyMax,           \* anyaction_daily_max_actions
    ContextMax,         \* context_only_daily_max
    MaxTicks,           \* bound on ticks
    MaxDeaths           \* bound on crashes

ASSUME ProactiveAssumption ==
    /\ DailyMax \in Nat /\ ContextMax \in Nat /\ MaxTicks \in Nat /\ MaxDeaths \in Nat
    /\ Alerts \cap Contents = {}

VARIABLES
    ack,            \* how the server of an event holds it
    rows,           \* deliveries within delivery_dedupe_hours, by key
    fresh,          \* one of them is within the delivery cooldown
    quota,          \* actions recorded in today's window
    contextOnly,    \* context_only_timestamps of the last 24 hours
    drifted,        \* drift_last_at is within drift_min_interval_hours
    said, kept,     \* proactive messages of the session: cached, stored
    pc, ctx,        \* the tick that runs and its AgentTickContext
    arrived,        \* keys that reached the chat within the dedupe window
    unmarked,       \* those among all keys whose arrival left no row
    resent,        \* keys that a guarded message brought a second time
    told,           \* events the user was told of, until their ack lapses
    unacked,        \* events told of whose ack never reached the server
    again,          \* events told of a second time
    everTold,       \* events told of at any time
    silenced,       \* events cited by a message the deduper turned down
    reached,        \* ticks of today that reached the chat
    uncounted,      \* those of them that recorded no action
    ticks, died     \* counts

store == <<rows, fresh, quota, contextOnly, drifted>>
chat == <<arrived, unmarked, resent, told, unacked, again, everTold, silenced>>
today == <<reached, uncounted>>
session == <<said, kept>>
counts == <<ticks, died>>
proactiveVars == <<ack, store, session, pc, ctx, chat, today, counts>>

Events == Alerts \cup Contents
\* A message without evidence is known by its text: one text stands for all.
Musing == "text"
Refs == {Story[e] : e \in Events} \cup {Musing}
\* build_delivery_key: the refs of what is cited, or the text
KeyOf(cited) == IF cited = {} THEN {Musing} ELSE {Story[e] : e \in cited}

NoTick == [alerts |-> {}, contents |-> {}, open |-> FALSE, discarded |-> {},
           interesting |-> {}, drafted |-> FALSE, evidence |-> {}, action |-> "none",
           cited |-> {}, acks |-> {}, closes |-> {}, landed |-> FALSE, pushed |-> FALSE,
           old |-> FALSE]

\* complete and reflect are the two further rounds of _run_loop.
Rounds == {"loop", "complete", "reflect"}
Points == Rounds \cup {"idle", "guard", "persist", "dispatch", "mark", "context", "acks",
                       "drift", "driftDispatch", "driftMark"}

Ticks ==
    [alerts : SUBSET Alerts, contents : SUBSET Contents, open : BOOLEAN,
     discarded : SUBSET Events, interesting : SUBSET Events, drafted : BOOLEAN,
     evidence : SUBSET Events, action : {"none", "reply", "skip"}, cited : SUBSET Events,
     acks : SUBSET Events, closes : SUBSET Events,
     landed : BOOLEAN, pushed : BOOLEAN, old : BOOLEAN]

TickOK ==
    /\ pc \in Points /\ ctx \in Ticks
    /\ ctx.evidence \cup ctx.cited \subseteq ctx.alerts \cup ctx.contents
    /\ pc = "idle" => ctx = NoTick

ProactiveTypeOK ==
    /\ TickOK
    /\ ack \in [Events -> {"open", "lapsing", "closed"}]
    /\ rows \subseteq SUBSET Refs /\ fresh \in BOOLEAN /\ drifted \in BOOLEAN
    /\ quota \in Nat /\ contextOnly \in Nat
    /\ said \subseteq SUBSET Refs /\ kept \subseteq SUBSET Refs
    /\ arrived \cup unmarked \cup resent \subseteq SUBSET Refs
    /\ told \cup unacked \cup again \cup everTold \cup silenced \subseteq Events
    /\ reached \in Nat /\ uncounted \in Nat
    /\ ticks \in 0..MaxTicks /\ died \in 0..MaxDeaths

ProactiveInit ==
    /\ ack = [e \in Events |-> "open"] /\ rows = {} /\ fresh = FALSE /\ quota = 0
    /\ contextOnly = 0 /\ drifted = FALSE /\ said = {} /\ kept = {}
    /\ pc = "idle" /\ ctx = NoTick
    /\ arrived = {} /\ unmarked = {} /\ resent = {} /\ told = {} /\ unacked = {}
    /\ again = {} /\ everTold = {} /\ silenced = {}
    /\ reached = 0 /\ uncounted = 0 /\ ticks = 0 /\ died = 0

-----------------------------------------------------------------------------
(* Gates and the snapshot                                                  *)

\* delivery cooldown, AnyAction quota; the other gates only say no more often
GatesOpen == ~fresh /\ quota < DailyMax

Begins(alerts, contents, open) ==
    /\ pc = "idle" /\ ticks < MaxTicks /\ GatesOpen
    /\ open => contextOnly < ContextMax
    /\ \A e \in alerts \cup contents : ack[e] = "open"
    /\ ticks' = ticks + 1
    /\ ctx' = [NoTick EXCEPT !.alerts = alerts, !.contents = contents, !.open = open]
    /\ UNCHANGED <<ack, store, session, chat, today, died>>

\* A source that fails offers nothing this time.
TickBegins(alerts, contents, open) ==
    /\ Begins(alerts, contents, open)
    /\ alerts \cup contents # {} \/ open
    /\ pc' = "loop"

DriftBegins ==
    /\ Begins({}, {}, FALSE)
    /\ ~drifted
    /\ pc' = "drift"

-----------------------------------------------------------------------------
(* The model's tool calls.  Read-only tools change nothing.                *)

Calling == pc \in Rounds /\ ctx.action = "none"
Unheard == <<ack, store, session, pc, chat, today, counts>>

\* With no content in the snapshot any id is taken.
Known(S) == ctx.contents = {} \/ S \subseteq ctx.contents

MarkInteresting(S) ==
    /\ Calling /\ Known(S)
    /\ ctx' = [ctx EXCEPT !.interesting = @ \cup (S \ ctx.discarded)]
    /\ UNCHANGED Unheard

MarkNotInteresting(S) ==
    /\ Calling /\ Known(S)
    /\ ctx' = [ctx EXCEPT !.discarded = @ \cup S, !.interesting = @ \ S]
    /\ UNCHANGED Unheard

\* Mutant: evidence is not checked against the snapshot.
MessagePush_unchecked(S) ==
    /\ Calling /\ ~ctx.drafted
    /\ ctx' = [ctx EXCEPT !.drafted = TRUE, !.evidence = S]
    /\ UNCHANGED Unheard

MessagePush(S) ==
    /\ Calling /\ ~ctx.drafted
    /\ S \subseteq ctx.alerts \cup ctx.contents
    /\ ctx' = [ctx EXCEPT !.drafted = TRUE, !.evidence = S]
    /\ UNCHANGED Unheard

FinishReply ==
    /\ Calling /\ ctx.drafted
    /\ ctx' = [ctx EXCEPT !.cited = ctx.evidence, !.drafted = FALSE, !.evidence = {},
                          !.interesting = @ \cup ctx.evidence,
                          !.discarded = @ \ ctx.evidence, !.action = "reply"]
    /\ UNCHANGED Unheard

FinishSkip ==
    /\ Calling /\ ~ctx.drafted
    /\ ctx' = [ctx EXCEPT !.action = "skip", !.cited = {}]
    /\ UNCHANGED Unheard

-----------------------------------------------------------------------------
(* A round ends by finish_turn, by a step without a tool call, a refused   *)
(* call, or the step limit.                                                *)

Unclassified == ctx.contents \ (ctx.interesting \cup ctx.discarded)

\* A skip that left content unread is taken back once.
AskToComplete ==
    /\ pc = "loop" /\ ctx.action = "skip" /\ Unclassified # {}
    /\ ctx' = [ctx EXCEPT !.action = "none"] /\ pc' = "complete"
    /\ UNCHANGED <<ack, store, session, chat, today, counts>>

AskToFinish ==
    /\ pc \in {"loop", "complete"} /\ ctx.action = "none" /\ ctx.interesting # {}
    /\ pc' = "reflect"
    /\ UNCHANGED <<ack, store, session, ctx, chat, today, counts>>

\* A tick that began before the reset counts in the window that is gone.
Record == IF ctx.old THEN quota ELSE quota + 1

\* Mutant: a reply does not count as an action.
LoopReturns_unrecorded ==
    /\ pc \in Rounds
    /\ ~(pc = "loop" /\ ctx.action = "skip" /\ Unclassified # {})
    /\ pc' = "guard"
    /\ UNCHANGED <<ack, store, session, ctx, chat, today, counts>>

\* record_action comes before the guards and the delivery.
LoopReturns ==
    /\ pc \in Rounds
    /\ ~(pc = "loop" /\ ctx.action = "skip" /\ Unclassified # {})
    /\ pc' = "guard"
    /\ quota' = IF ctx.action = "reply" THEN Record ELSE quota
    /\ UNCHANGED <<ack, rows, fresh, contextOnly, drifted, session, ctx, chat, today, counts>>

-----------------------------------------------------------------------------
(* Guards: _build_turn_result                                              *)

Key == KeyOf(ctx.cited)

\* What each ending acknowledges, and which of it over the alerts' channel
AckDiscarded == [ctx EXCEPT !.acks = ctx.discarded]
AckPostGuardFail ==
    [ctx EXCEPT !.acks = ctx.cited \cup ctx.alerts \cup ctx.interesting \cup ctx.discarded,
                !.closes = ctx.alerts]
\* Mutant: a send acknowledges what was only looked at.
AckOnSuccess_uncited ==
    [ctx EXCEPT !.acks = (ctx.interesting \ (ctx.alerts \cup ctx.cited)) \cup ctx.discarded]

AckOnSuccess ==
    [ctx EXCEPT !.acks = ctx.cited \cup (ctx.interesting \ ctx.alerts) \cup ctx.discarded,
                !.closes = ctx.cited \cap ctx.alerts]

Guarded(acking, hushed) ==
    /\ pc = "guard" /\ pc' = "acks"
    /\ ctx' = acking
    /\ silenced' = silenced \cup hushed
    /\ UNCHANGED <<ack, store, session, arrived, unmarked, resent, told, unacked, again,
                   everTold, today, counts>>

SkipResult == ctx.action # "reply" /\ Guarded(AckDiscarded, {})

DeliveryRepeats == ctx.action = "reply" /\ Key \in rows /\ Guarded(AckPostGuardFail, {})

\* The deduper compares with the session's proactive messages.
MessageRepeats ==
    /\ ctx.action = "reply" /\ Key \notin rows /\ Key \in said
    /\ Guarded(AckPostGuardFail, ctx.cited)

\* Mutant: the delivery guard does not stop a reply.
ReplyResult_unguarded ==
    /\ pc = "guard" /\ ctx.action = "reply"
    /\ pc' = "persist"
    /\ UNCHANGED <<ack, store, session, ctx, chat, today, counts>>

ReplyResult ==
    /\ pc = "guard" /\ ctx.action = "reply" /\ Key \notin rows
    /\ pc' = "persist"
    /\ UNCHANGED <<ack, store, session, ctx, chat, today, counts>>

-----------------------------------------------------------------------------
(* Delivery: TurnOrchestrator.handle_proactive_turn                        *)

\* The message is in the session before it is sent.
Persist ==
    /\ pc \in {"persist", "drift"} /\ ~ctx.pushed
    /\ said' = said \cup {Key} /\ kept' = kept \cup {Key}
    /\ pc' = IF pc = "persist" THEN "dispatch" ELSE "driftDispatch"
    /\ UNCHANGED <<ack, store, ctx, chat, today, counts>>

Reaches ==
    /\ arrived' = arrived \cup {Key}
    /\ told' = told \cup ctx.cited /\ everTold' = everTold \cup ctx.cited
    /\ again' = again \cup (told \cap ctx.cited)
    /\ resent' = IF pc = "dispatch" /\ Key \in arrived THEN resent \cup {Key} ELSE resent
    /\ reached' = IF ctx.landed \/ ctx.old THEN reached ELSE reached + 1
    /\ UNCHANGED <<silenced, uncounted>>

Sent ==
    /\ pc \in {"dispatch", "driftDispatch"}
    /\ Reaches
    /\ pc' = IF pc = "dispatch" THEN "mark" ELSE "driftMark"
    /\ ctx' = [ctx EXCEPT !.landed = TRUE]
    /\ UNCHANGED <<ack, store, session, unmarked, unacked, counts>>

\* dispatch returned False: the failure effects, or on with the drift
Unsent(landed) ==
    IF pc = "dispatch" THEN pc' = "acks" /\ ctx' = [AckDiscarded EXCEPT !.landed = landed]
    ELSE pc' = "drift" /\ ctx' = [ctx EXCEPT !.landed = landed]

SendFails ==
    /\ pc \in {"dispatch", "driftDispatch"}
    /\ Unsent(ctx.landed)
    /\ UNCHANGED <<ack, store, session, chat, today, counts>>

\* The channel raised although the text had arrived.
SendFailsLate ==
    /\ pc \in {"dispatch", "driftDispatch"}
    /\ Reaches
    /\ Unsent(TRUE)
    /\ unmarked' = unmarked \cup {Key} /\ unacked' = unacked \cup ctx.cited
    /\ UNCHANGED <<ack, store, session, counts>>

-----------------------------------------------------------------------------
(* Success effects, in order; an effect that raises is skipped.            *)

Marked ==
    IF pc = "mark" THEN pc' = "context" /\ UNCHANGED ctx
    ELSE pc' = "drift" /\ ctx' = [ctx EXCEPT !.pushed = TRUE]

MarkDelivery ==
    /\ pc \in {"mark", "driftMark"}
    /\ rows' = rows \cup {Key} /\ fresh' = TRUE
    /\ Marked
    /\ UNCHANGED <<ack, quota, contextOnly, drifted, session, chat, today, counts>>

MarkDeliveryFails ==
    /\ pc \in {"mark", "driftMark"}
    /\ unmarked' = unmarked \cup {Key}
    /\ Marked
    /\ UNCHANGED <<ack, store, session, arrived, resent, told, unacked, again, everTold,
                   silenced, today, counts>>

MarkContextOnlySend ==
    /\ pc = "context"
    /\ contextOnly' = IF ctx.open /\ ctx.cited = {} THEN contextOnly + 1 ELSE contextOnly
    /\ ctx' = AckOnSuccess
    /\ pc' = "acks"
    /\ UNCHANGED <<ack, rows, fresh, quota, drifted, session, chat, today, counts>>

\* Each call may fail: mcp_sources logs and returns.
Acknowledge(lost) ==
    /\ pc = "acks" /\ lost \subseteq ctx.acks
    /\ ack' = [e \in Events |->
                 IF e \notin ctx.acks \ lost THEN ack[e]
                 ELSE IF e \in ctx.closes THEN "closed" ELSE "lapsing"]
    /\ unacked' = unacked \cup (lost \cap told)
    /\ pc' = "idle" /\ ctx' = NoTick
    /\ UNCHANGED <<store, session, arrived, unmarked, resent, told, again, everTold, silenced,
                   today, counts>>

-----------------------------------------------------------------------------
(* Drift                                                                   *)

\* mark_drift_run, then record_action: whether or not a message was sent
DriftReturns ==
    /\ pc = "drift"
    /\ drifted' = TRUE /\ quota' = Record
    /\ pc' = "idle" /\ ctx' = NoTick
    /\ UNCHANGED <<ack, rows, fresh, contextOnly, session, chat, today, counts>>

-----------------------------------------------------------------------------
(* Failures                                                                *)

InDrift == pc \in {"drift", "driftDispatch", "driftMark"}

\* What the end of a tick leaves undone
Dropped ==
    /\ unmarked' = IF pc \in {"mark", "driftMark"} THEN unmarked \cup {Key} ELSE unmarked
    /\ unacked' = IF pc \in {"mark", "context", "acks"} THEN unacked \cup (ctx.cited \cap told)
                  ELSE unacked
    /\ uncounted' = IF InDrift /\ ctx.landed /\ ~ctx.old THEN uncounted + 1 ELSE uncounted
    /\ pc' = "idle" /\ ctx' = NoTick
    /\ UNCHANGED <<ack, store, arrived, resent, told, again, everTold, silenced, reached>>

\* The provider raises in a round or in a drift; run() goes on.
TickRaises ==
    /\ pc \in Rounds \cup {"drift"}
    /\ Dropped
    /\ UNCHANGED <<session, counts>>

\* record_proactive_sent raises after a send: no effect runs.  A drift takes
\* it for a failed tool call and may push once more.
PresenceRaises ==
    /\ pc \in {"mark", "driftMark"}
    /\ IF pc = "mark" THEN Dropped
       ELSE /\ unmarked' = unmarked \cup {Key} /\ pc' = "drift"
            /\ UNCHANGED <<ack, store, ctx, arrived, resent, told, unacked, again, everTold,
                           silenced, today>>
    /\ UNCHANGED <<session, counts>>

\* append_messages raises: the message stays in the cached session.
PersistRaises ==
    /\ pc \in {"persist", "drift"} /\ ~ctx.pushed
    /\ said' = said \cup {Key}
    /\ IF pc = "persist" THEN Dropped
       ELSE UNCHANGED <<ack, store, pc, ctx, chat, today>>
    /\ UNCHANGED <<kept, counts>>

ProactiveDies ==
    /\ pc # "idle" \/ said # kept
    /\ died < MaxDeaths
    /\ died' = died + 1
    /\ Dropped
    /\ said' = kept
    /\ UNCHANGED <<kept, ticks>>

-----------------------------------------------------------------------------
(* Time                                                                    *)

\* The cooldown, the drift interval, the count of context-only sends and the
\* acks are read when a tick begins only: they may as well end between ticks.
CooldownEnds ==
    /\ pc = "idle" /\ fresh /\ fresh' = FALSE
    /\ UNCHANGED <<ack, rows, quota, contextOnly, drifted, session, pc, ctx, chat, today, counts>>

\* Nothing is sent while a row is fresh, so rows leave the window in their
\* order whichever leaves first.
DedupeWindowEnds(key) ==
    /\ ~fresh /\ key \in rows \cup arrived
    /\ rows' = rows \ {key} /\ arrived' = arrived \ {key}
    /\ UNCHANGED <<ack, fresh, quota, contextOnly, drifted, session, pc, ctx, unmarked, resent,
                   told, unacked, again, everTold, silenced, today, counts>>

DayEnds ==
    /\ quota + reached > 0 \/ (pc # "idle" /\ ~ctx.old)
    /\ quota' = 0 /\ reached' = 0 /\ uncounted' = 0
    /\ ctx' = IF pc = "idle" THEN ctx ELSE [ctx EXCEPT !.old = TRUE]
    /\ UNCHANGED <<ack, rows, fresh, contextOnly, drifted, session, pc, chat, counts>>

ContextDayEnds ==
    /\ pc = "idle" /\ contextOnly > 0 /\ contextOnly' = contextOnly - 1
    /\ UNCHANGED <<ack, rows, fresh, quota, drifted, session, pc, ctx, chat, today, counts>>

DriftIntervalEnds ==
    /\ pc = "idle" /\ drifted /\ drifted' = FALSE
    /\ UNCHANGED <<ack, rows, fresh, quota, contextOnly, session, pc, ctx, chat, today, counts>>

AckLapses(e) ==
    /\ pc = "idle" /\ ack[e] = "lapsing"
    /\ ack' = [ack EXCEPT ![e] = "open"]
    /\ told' = told \ {e}
    /\ UNCHANGED <<store, session, pc, ctx, arrived, unmarked, resent, unacked, again, everTold,
                   silenced, today, counts>>

-----------------------------------------------------------------------------
Call ==
    \/ \E S \in SUBSET Events : MarkInteresting(S) \/ MarkNotInteresting(S) \/ MessagePush(S)
    \/ FinishReply \/ FinishSkip

Round == AskToComplete \/ AskToFinish \/ LoopReturns

Guard == SkipResult \/ DeliveryRepeats \/ MessageRepeats \/ ReplyResult

Deliver ==
    \/ Persist \/ Sent \/ SendFails \/ SendFailsLate
    \/ MarkDelivery \/ MarkDeliveryFails \/ MarkContextOnlySend
    \/ \E lost \in SUBSET Events : Acknowledge(lost)

TimePasses ==
    \/ CooldownEnds \/ DayEnds \/ ContextDayEnds \/ DriftIntervalEnds
    \/ \E key \in SUBSET Refs : DedupeWindowEnds(key)
    \/ \E e \in Events : AckLapses(e)

ProactiveNext ==
    \/ \E alerts \in SUBSET Alerts, contents \in SUBSET Contents, open \in BOOLEAN :
          TickBegins(alerts, contents, open)
    \/ DriftBegins \/ DriftReturns
    \/ Call \/ Round \/ Guard \/ Deliver
    \/ TickRaises \/ PersistRaises \/ PresenceRaises \/ ProactiveDies
    \/ TimePasses

ProactiveSpec == ProactiveInit /\ [][ProactiveNext]_proactiveVars

-----------------------------------------------------------------------------
(* The same message reaches the chat at most once within the dedupe        *)
(* window, whatever acks were lost, unless an arrival left no row: a       *)
(* crash, a failed mark, or a send that raised after its text arrived.     *)
MessageOnce == resent \subseteq unmarked

(* The user is told of an event again only when an ack of it was lost or   *)
(* never made, or lapsed.                                                  *)
EventOnce == again \subseteq unacked

(* No more ticks of a day reach the chat than the quota allows, but for    *)
(* drifts that broke off after their message.                              *)
QuotaHolds == reached <= DailyMax + uncounted

(* What the deduper calls a repeat of a sent message was sent              *)
(* (judge.py).                                                             *)
SilencedWasTold == silenced \subseteq everTold
=============================================================================
