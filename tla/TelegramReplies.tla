--------------------------- MODULE TelegramReplies ---------------------------
(***************************************************************************)
(* How the answers of one Telegram chat are shown (telegram_channel.py,    *)
(* telegram_utils.py, bus/queue.py).  The turn, in the main loop, streams  *)
(* what the model says into a message that it edits; its reply goes over   *)
(* the bus to the dispatcher, which finds the chat's active stream and     *)
(* puts the final text there, or sends it anew.  Both call the Bot API,    *)
(* which may refuse a call or carry it out without saying so.              *)
(*                                                                         *)
(* A text is a sequence of characters, numbers that tell whose they are.   *)
(***************************************************************************)
EXTENDS TelegramText

CONSTANTS
    TurnForms,              \* size of the answer, thinks, aside (said before a tool call)
    DeltaSize,              \* characters in a delta
    GrowthMin,              \* _STREAM_PUSH_MIN_CHARS
    StreamStep,             \* _STREAM_CHUNK_STEP
    SendAttempts,           \* max_attempts of _send_with_retry
    MaxTurns, MaxApiFaults  \* bounds: turns; calls that go wrong

\* An empty answer is not sent (_on_response).
ASSUME RepliesAssumption ==
    /\ {SendAttempts, DeltaSize, StreamStep} \subseteq Nat \ {0}
    /\ {GrowthMin, MaxTurns, MaxApiFaults} \subseteq Nat
    /\ TurnForms \subseteq [size : Nat \ {0}, thinks : BOOLEAN, aside : BOOLEAN]

VARIABLES
    chatKind,               \* "private" or "group", when the chat has begun
    turn,                   \* the turn that runs: size, deltas to come, stream
    replyStreams,           \* TelegramStreamMessages: message, buffer, thought, last, turn
    activeStream,           \* _active_streams of the chat: a stream, or 0
    outbound,               \* replies on the bus: turn, size, streamed, thinking
    delivery,               \* the reply that the dispatcher is with
    calls,                  \* "turn" and "dispatcher": the Bot API call each waits for
    shown,                  \* the chat's messages: turn, reply, thinking
    outcomes,               \* each reply: what became of it, as far as the code knows, and what was due
    stolen,                 \* replies that went to a later turn's stream
    begun, apiFaults

replyVars == <<chatKind, turn, replyStreams, activeStream, outbound, delivery, calls, shown, outcomes, stolen,
               begun, apiFaults>>

Turns == 1..MaxTurns
NoTurn == [no |-> 0]
NoDelivery == [turn |-> 0]
NoApiCall == [stream |-> 0]
Plain(text) == [thinking |-> <<0, 0>>, reply |-> text]
NothingShown == Plain(<<>>)

\* The answer of turn k, and what it said before it called a tool
AnswerText(k, size) == [i \in 1..size |-> 100 * k + i]
Aside(k) == <<100 * k>>
Notice == <<0>>
ThinkingNote == <<1>>

FirstOf(text, n) == SubSeq(text, 1, Capped(n, Len(text)))
Pieces(text, step) ==
    [i \in 1..((Len(text) + step - 1) \div step) |-> FirstOf(SubSeq(text, (i - 1) * step + 1, Len(text)), step)]

ReplyInit ==
    /\ chatKind = "" /\ turn = NoTurn /\ replyStreams = <<>> /\ activeStream = 0 /\ outbound = <<>>
    /\ delivery = NoDelivery /\ calls = [who \in {"turn", "dispatcher"} |-> NoApiCall]
    /\ shown = <<>> /\ outcomes = [k \in Turns |-> [result |-> "no", due |-> {}]] /\ stolen = {} /\ begun = 0 /\ apiFaults = 0

-----------------------------------------------------------------------------
(* The Bot API                                                              *)

\* A message of turn k, which a stream (or none) has sent
Message(k, by, preview) == [turn |-> k, by |-> by, thinking |-> preview.thinking, reply |-> preview.reply]

\* _send_with_retry: a call that times out may have been carried out; RetryAfter,
\* timeouts and network errors are tried again, others end it.
SendResults ==
    {r \in [copies : 0..SendAttempts, failed : 0..SendAttempts, ok : BOOLEAN] :
        /\ apiFaults + r.failed <= MaxApiFaults
        /\ IF r.ok THEN r.copies \in 1..(r.failed + 1) /\ r.failed < SendAttempts
           ELSE r.failed > 0 /\ r.copies <= IF r.failed = SendAttempts THEN r.failed ELSE r.failed - 1}

\* _try_edit_preview_message: an edit is tried once, and its errors swallowed but
\* those that are no network error.  A text of too many wide characters is one way
\* to be "lost", and to fail in SendResults.
EditResults ==
    IF apiFaults < MaxApiFaults THEN {"ok", "late", "lost", "refused", "raises"} ELSE {"ok"}

Arrived(k, by, preview, copies) == shown \o [i \in 1..copies |-> Message(k, by, preview)]

-----------------------------------------------------------------------------
(* TelegramStreamMessage                                                    *)

NewStream(k) == [message |-> 0, buffer |-> <<>>, thought |-> 0, last |-> NothingShown,
                 cooling |-> FALSE, turn |-> k]

Preview(stream) ==
    LET sizes == StreamPreview(Len(stream.buffer), stream.thought)
    IN  [thinking |-> <<Capped(stream.thought, sizes.tail), sizes.tail>>, reply |-> FirstOf(stream.buffer, sizes.reply)]

PlainSize(preview) ==
    preview.thinking[2] + Len(preview.reply)
        + (CASE preview.thinking[2] = 0 -> 0 [] preview.reply = <<>> -> 2 [] OTHER -> 4)

\* push_delta sends nothing while the edits cool down, or too soon for so little.
Throttled(stream) ==
    \/ stream.cooling
    \/ stream.last # NothingShown /\ PlainSize(Preview(stream)) - PlainSize(stream.last) < GrowthMin

\* _send_or_edit
Displays(who, s, preview) ==
    calls' = IF preview = replyStreams[s].last THEN calls
             ELSE [calls EXCEPT ![who] = [stream |-> s, preview |-> preview, edits |-> replyStreams[s].message # 0]]

\* Mutant: what was to be shown counts as shown, whether the edit worked or not.
EditEnds_trusting(who, result) ==
    LET call == calls[who]
        s == call.stream
    IN  /\ shown' = IF result \in {"ok", "late"}
                    THEN [shown EXCEPT ![replyStreams[s].message] = Message(@.turn, s, call.preview)] ELSE shown
        /\ replyStreams' = [replyStreams EXCEPT ![s].last = call.preview]

\* An edit has come back: only what is known to be shown counts as the last.
EditEnds(who, result) ==
    LET call == calls[who]
        s == call.stream
    IN  /\ shown' = IF result \in {"ok", "late"}
                    THEN [shown EXCEPT ![replyStreams[s].message] = Message(@.turn, s, call.preview)] ELSE shown
        /\ replyStreams' = CASE result = "ok" -> [replyStreams EXCEPT ![s].last = call.preview]
                        [] result = "refused" -> [replyStreams EXCEPT ![s].cooling = TRUE]
                        [] OTHER -> replyStreams

\* Mutant: the message's number is not kept.
SendEnds_unkept(who, result) ==
    LET call == calls[who]
        s == call.stream
    IN  /\ shown' = Arrived(replyStreams[s].turn, s, call.preview, result.copies)
        /\ replyStreams' = IF result.ok
                           THEN [replyStreams EXCEPT ![s].last = call.preview] ELSE replyStreams

\* The first message has come back: further previews are edits of its last copy.
SendEnds(who, result) ==
    LET call == calls[who]
        s == call.stream
    IN  /\ shown' = Arrived(replyStreams[s].turn, s, call.preview, result.copies)
        /\ replyStreams' = IF result.ok
                      THEN [replyStreams EXCEPT ![s].message = Len(shown'), ![s].last = call.preview] ELSE replyStreams

\* Either: ok, and whether the caller gets an error.
CallEnds(who, ok, raises) ==
    /\ calls[who] # NoApiCall
    /\ calls' = [calls EXCEPT ![who] = NoApiCall]
    /\ IF calls[who].edits
       THEN \E result \in EditResults :
                /\ EditEnds(who, result)
                /\ ok = (result = "ok") /\ raises = (result = "raises")
                /\ apiFaults' = apiFaults + IF ok THEN 0 ELSE 1
       ELSE \E result \in SendResults :
                /\ SendEnds(who, result)
                /\ ok = result.ok /\ raises = ~result.ok
                /\ apiFaults' = apiFaults + result.failed

-----------------------------------------------------------------------------
(* The turn                                                                 *)

ChatOpens ==
    /\ chatKind = "" /\ chatKind' \in {"private", "group"}
    /\ UNCHANGED <<turn, replyStreams, activeStream, outbound, delivery, calls, shown,
                   outcomes, stolen, begun, apiFaults>>

\* run_turn, create_stream_sender: a private chat gets a stream, which takes the
\* place of one that is still active.
TurnStarts ==
    /\ chatKind # "" /\ turn = NoTurn /\ begun < MaxTurns
    /\ begun' = begun + 1
    /\ \E form \in TurnForms :
        turn' = [no |-> begun + 1, size |-> form.size, thinks |-> form.thinks,
                 stream |-> IF chatKind = "private" THEN Len(replyStreams) + 1 ELSE 0,
                 deltas |-> (IF form.thinks THEN <<<<>>>> ELSE <<>>)
                            \o (IF form.aside THEN <<Aside(begun + 1)>> ELSE <<>>)
                            \o Pieces(AnswerText(begun + 1, form.size), DeltaSize)]
    /\ IF chatKind = "private"
       THEN replyStreams' = Append(replyStreams, NewStream(begun + 1)) /\ activeStream' = Len(replyStreams) + 1
       ELSE UNCHANGED <<replyStreams, activeStream>>
    /\ UNCHANGED <<chatKind, outbound, delivery, calls, shown, outcomes, stolen, apiFaults>>

\* _chat_streaming, push_delta: a delta, <<>> if it is thinking.
Pushes ==
    /\ turn # NoTurn /\ turn.stream # 0 /\ calls["turn"] = NoApiCall /\ turn.deltas # <<>>
    /\ turn' = [turn EXCEPT !.deltas = Tail(@)]
    /\ LET s == turn.stream
           grown == [replyStreams[s] EXCEPT !.buffer = @ \o Head(turn.deltas),
                                       !.thought = IF Head(turn.deltas) = <<>>
                                                   THEN @ + DeltaSize ELSE @]
       IN  /\ replyStreams' = [replyStreams EXCEPT ![s] = grown]
           /\ \/ Throttled(grown) /\ UNCHANGED calls
              \/ Displays("turn", s, Preview(grown))
    /\ UNCHANGED <<chatKind, activeStream, outbound, delivery, shown, outcomes, stolen, begun, apiFaults>>

Publish(streamed, size) ==
    outbound' = Append(outbound, [turn |-> turn.no, size |-> size, streamed |-> streamed,
                                  thinking |-> streamed /\ turn.thinks])

\* A call of push_delta's comes back; its error ends the turn, and the reply says so.
Pushed ==
    \E ok, raises \in BOOLEAN :
        /\ CallEnds("turn", ok, raises)
        /\ IF raises THEN Publish(FALSE, 1) /\ turn' = NoTurn ELSE UNCHANGED <<outbound, turn>>
        /\ UNCHANGED <<chatKind, activeStream, delivery, outcomes, stolen, begun>>

\* The model has answered.
TurnAnswers ==
    /\ turn # NoTurn /\ calls["turn"] = NoApiCall
    /\ turn.stream # 0 => turn.deltas = <<>>
    /\ Publish(turn.stream # 0, turn.size)
    /\ turn' = NoTurn
    /\ UNCHANGED <<chatKind, replyStreams, activeStream, delivery, calls, shown, outcomes,
                   stolen, begun, apiFaults>>

\* It sums up or fails after some deltas: the reply is another text, not streamed.
TurnFallsBack ==
    /\ turn # NoTurn /\ calls["turn"] = NoApiCall
    /\ Publish(FALSE, 1)
    /\ turn' = NoTurn
    /\ UNCHANGED <<chatKind, replyStreams, activeStream, delivery, calls, shown, outcomes,
                   stolen, begun, apiFaults>>

\* /stop, or the time is up: nothing is published, and the stream stays active.  A
\* call on its way may still arrive.
TurnStopped ==
    /\ turn # NoTurn
    /\ turn' = NoTurn
    /\ calls' = [calls EXCEPT !["turn"] = NoApiCall]
    /\ \/ UNCHANGED <<shown, apiFaults>>
       \/ /\ calls["turn"] # NoApiCall /\ apiFaults < MaxApiFaults
          /\ apiFaults' = apiFaults + 1
          /\ LET s == calls["turn"].stream
                 late == Message(turn.no, s, calls["turn"].preview)
             IN  shown' = IF calls["turn"].edits THEN [shown EXCEPT ![replyStreams[s].message] = late]
                          ELSE Append(shown, late)
    /\ UNCHANGED <<chatKind, replyStreams, activeStream, outbound, delivery, outcomes, stolen, begun>>

-----------------------------------------------------------------------------
(* The dispatcher                                                           *)

ReplyText(reply) == IF reply.notice THEN Notice ELSE AnswerText(reply.turn, reply.size)

\* How a reply is brought: into a stream, or in chunks
Work(reply, way, stream, left) == [reply EXCEPT !.way = way, !.stream = stream, !.left = left]

\* _on_response: a streamed reply to the active stream, another to one of its own
\* (send_stream_markdown), and what has no stream in chunks (send_markdown).
Entered(reply) ==
    IF reply.streamed /\ activeStream # 0
    THEN /\ delivery' = Work(reply, "final", activeStream, <<>>)
         /\ activeStream' = 0
         /\ stolen' = IF replyStreams[activeStream].turn # reply.turn
                      THEN stolen \cup {reply.turn} ELSE stolen
         /\ UNCHANGED replyStreams
    ELSE /\ IF chatKind = "private" /\ ~reply.streamed
            THEN /\ delivery' = Work(reply, "push", Len(replyStreams) + 1, Pieces(ReplyText(reply), StreamStep))
                 /\ replyStreams' = Append(replyStreams, NewStream(reply.turn))
            ELSE /\ delivery' = Work(reply, "rich", 0, Pieces(ReplyText(reply), MessageLimit))
                 /\ UNCHANGED replyStreams
         /\ UNCHANGED <<activeStream, stolen>>

\* dispatch_outbound takes the next.
Dispatches ==
    /\ delivery = NoDelivery /\ outbound # <<>>
    /\ outbound' = Tail(outbound)
    /\ Entered([turn |-> Head(outbound).turn, size |-> Head(outbound).size, streamed |-> Head(outbound).streamed,
                thinking |-> Head(outbound).thinking, attempt |-> 1, notice |-> FALSE,
                way |-> "", stream |-> 0, left |-> <<>>])
    /\ UNCHANGED <<chatKind, turn, calls, shown, outcomes, begun, apiFaults>>

\* The reply has been brought, as far as the code knows; thinking follows it.
Brought(result) ==
    /\ outcomes' = [outcomes EXCEPT ![delivery.turn] =
                    [result |-> IF delivery.notice /\ result = "whole" THEN "notice" ELSE result,
                     due |-> IF delivery.way \in {"rich", "plain"} THEN ToSet(Pieces(ReplyText(delivery), MessageLimit))
                             ELSE {FirstOf(ReplyText(delivery), MessageLimit)}]]
    /\ delivery' = IF delivery.thinking THEN Work(delivery, "block", 0, <<>>) ELSE NoDelivery

\* The callback has raised: once more after a pause, then a notice, then no more.
CallbackRaises ==
    IF delivery.notice
    THEN outcomes' = [outcomes EXCEPT ![delivery.turn].result = "gone"] /\ delivery' = NoDelivery
    ELSE /\ delivery' = IF delivery.attempt = 1 THEN [delivery EXCEPT !.way = "again", !.attempt = 2]
                        ELSE [delivery EXCEPT !.way = "again", !.attempt = 3, !.notice = TRUE,
                                              !.streamed = FALSE, !.thinking = FALSE]
         /\ UNCHANGED outcomes

Again ==
    /\ delivery # NoDelivery /\ delivery.way = "again"
    /\ Entered(delivery)
    /\ UNCHANGED <<chatKind, turn, outbound, calls, shown, outcomes, begun, apiFaults>>

\* Mutant: the last text is held back like the others.
Finalizes_throttled ==
    /\ delivery # NoDelivery /\ calls["dispatcher"] = NoApiCall
    /\ delivery.way = "final" \/ (delivery.way = "push" /\ delivery.left = <<>>)
    /\ LET s == delivery.stream
       IN  /\ replyStreams' = [replyStreams EXCEPT ![s].buffer = ReplyText(delivery)]
           /\ IF Throttled([replyStreams[s] EXCEPT !.buffer = ReplyText(delivery)])
              THEN Brought("whole") /\ UNCHANGED calls
              ELSE /\ Displays("dispatcher", s, Plain(FirstOf(ReplyText(delivery), MessageLimit)))
                   /\ delivery' = [delivery EXCEPT !.way = "final"] /\ UNCHANGED outcomes
    /\ UNCHANGED <<chatKind, turn, activeStream, outbound, shown, stolen, begun, apiFaults>>

\* finalize: the reply alone, what fits of it; nothing is called if it is shown already.
Finalizes ==
    /\ delivery # NoDelivery /\ calls["dispatcher"] = NoApiCall
    /\ delivery.way = "final" \/ (delivery.way = "push" /\ delivery.left = <<>>)
    /\ LET s == delivery.stream
           preview == Plain(FirstOf(ReplyText(delivery), MessageLimit))
       IN  /\ replyStreams' = [replyStreams EXCEPT ![s].buffer = ReplyText(delivery)]
           /\ Displays("dispatcher", s, preview)
           /\ IF calls' = calls THEN Brought("whole")
              ELSE delivery' = [delivery EXCEPT !.way = "final"] /\ UNCHANGED outcomes
    /\ UNCHANGED <<chatKind, turn, activeStream, outbound, shown, stolen, begun, apiFaults>>

\* send_stream_markdown pushes the next chunk, whatever the throttle says.
PushesChunk ==
    /\ delivery # NoDelivery /\ calls["dispatcher"] = NoApiCall
    /\ delivery.way = "push" /\ delivery.left # <<>>
    /\ LET s == delivery.stream
           grown == [replyStreams[s] EXCEPT !.buffer = @ \o Head(delivery.left)]
       IN  /\ replyStreams' = [replyStreams EXCEPT ![s] = grown]
           /\ Displays("dispatcher", s, Preview(grown))
    /\ delivery' = [delivery EXCEPT !.left = Tail(@)]
    /\ UNCHANGED <<chatKind, turn, activeStream, outbound, shown, outcomes, stolen, begun, apiFaults>>

\* A call of the dispatcher's comes back.  An edit that fails goes unnoticed;
\* send_stream_markdown swallows every error, finalize lets it out to the bus.
DispatcherCalled ==
    \E ok, raises \in BOOLEAN :
        /\ CallEnds("dispatcher", ok, raises)
        /\ CASE raises /\ delivery.streamed -> CallbackRaises
             [] raises /\ ~delivery.streamed -> Brought("lost")
             [] ~raises /\ delivery.way = "push" -> UNCHANGED <<delivery, outcomes>>
             [] OTHER -> Brought(IF ok THEN "whole" ELSE "part")
        /\ UNCHANGED <<chatKind, turn, activeStream, outbound, stolen, begun>>

\* send_markdown: chunk after chunk; an error on the way starts over with plain text,
\* and one with that is the callback's.
SendsChunk ==
    /\ delivery # NoDelivery /\ delivery.way \in {"rich", "plain"} /\ delivery.left # <<>>
    /\ \E result \in SendResults :
        /\ shown' = Arrived(delivery.turn, 0, Plain(Head(delivery.left)), result.copies)
        /\ apiFaults' = apiFaults + result.failed
        /\ CASE result.ok /\ Len(delivery.left) > 1 ->
                    delivery' = [delivery EXCEPT !.left = Tail(@)] /\ UNCHANGED outcomes
             [] result.ok /\ Len(delivery.left) = 1 -> Brought("whole")
             [] ~result.ok /\ delivery.way = "rich" ->
                    /\ delivery' = Work(delivery, "plain", 0, Pieces(ReplyText(delivery), MessageLimit))
                    /\ UNCHANGED outcomes
             [] OTHER -> CallbackRaises
    /\ UNCHANGED <<chatKind, turn, replyStreams, activeStream, outbound, calls, stolen, begun>>

\* send_thinking_block: a failure is logged.
SendsBlock ==
    /\ delivery # NoDelivery /\ delivery.way = "block"
    /\ \E result \in SendResults :
        /\ shown' = Arrived(delivery.turn, 0, Plain(ThinkingNote), result.copies)
        /\ apiFaults' = apiFaults + result.failed
    /\ delivery' = NoDelivery
    /\ UNCHANGED <<chatKind, turn, replyStreams, activeStream, outbound, calls, outcomes, stolen, begun>>

ReplyNext ==
    \/ ChatOpens \/ TurnStarts \/ Pushes \/ Pushed \/ TurnAnswers \/ TurnFallsBack \/ TurnStopped
    \/ Dispatches \/ Again \/ Finalizes \/ PushesChunk \/ DispatcherCalled \/ SendsChunk \/ SendsBlock

ReplySpec == ReplyInit /\ [][ReplyNext]_replyVars

-----------------------------------------------------------------------------
ReplyTypeOK ==
    /\ chatKind \in {"", "private", "group"}
    /\ activeStream \in 0..Len(replyStreams)
    /\ \A s \in DOMAIN replyStreams : replyStreams[s].message \in 0..Len(shown)
    /\ \A k \in Turns : outcomes[k].result \in {"no", "whole", "part", "lost", "notice", "gone"}
    /\ apiFaults <= MaxApiFaults

\* What the messages of turn k say
Standing(k) == {shown[i].reply : i \in {j \in DOMAIN shown : shown[j].turn = k}}

(***************************************************************************)
(* A reply that the code takes for brought is there to be read, whatever   *)
(* its edits met on the way: all of it in chunks, or what fits of it in    *)
(* the message of its stream.  The exception is a reply that was late, and *)
(* went to the stream of the turn after it.                                *)
(***************************************************************************)
AnswersAreSeen ==
    \A k \in Turns \ stolen :
        /\ outcomes[k].result \in {"whole", "notice"} => outcomes[k].due \subseteq Standing(k)
        /\ outcomes[k].result = "part" => apiFaults > 0

(***************************************************************************)
(* As long as no call went wrong and no stream was taken over: a stream    *)
(* has one message, it is the one that its edits go to, and what it takes  *)
(* for shown is what is shown.                                             *)
(***************************************************************************)
StreamsHoldTheirs ==
    apiFaults = 0 /\ stolen = {} =>
        /\ \A j \in DOMAIN shown : shown[j].by # 0 => replyStreams[shown[j].by].message = j
        /\ \A s \in DOMAIN replyStreams : replyStreams[s].message # 0 =>
            LET message == shown[replyStreams[s].message]
            IN  [thinking |-> message.thinking, reply |-> message.reply] = replyStreams[s].last

RepliesAreShown == AnswersAreSeen /\ StreamsHoldTheirs
=============================================================================
