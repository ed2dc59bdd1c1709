------------------------------ MODULE ReplyStreams ------------------------------
(***************************************************************************)
(* One reply of a model: the requests a provider issues for it, with its   *)
(* retries without thinking and its fallbacks (providers/*.py), the chunks *)
(* it makes of what the service sends, and what the agent loop keeps of    *)
(* them (agent.py, _run_loop).  A step is one event of the service.        *)
(***************************************************************************)
EXTENDS Naturals, SequencesExt, FiniteSets

CONSTANTS
  Families,    \* "sdk", "gateway", "openai", "gemini"
  MaxEvents,   \* bound: events of the service, over all replies
  MaxReplies,  \* bound: replies of one provider object
  MaxUsage,    \* bound: the tokens a service reports
  Bodies       \* bound: answers that are not streamed, as items and a stop reason

Claude == {"sdk", "gateway"}
Stops == {"end_turn", "tool_use", "max_tokens", "pause_turn", "refusal", "context_exceeded", "content_filter"}
StopsOf(f) ==
  CASE f \in Claude -> Stops \ {"content_filter"}
    [] f = "openai" -> {"end_turn", "tool_use", "max_tokens", "content_filter"}
    [] OTHER -> {"end_turn", "max_tokens", "refusal"}

\* What a service says: thoughts, their signature, text, the begin of a call, more of a call.
Item(say, call, with) == [say |-> say, call |-> call, with |-> with]
Calls == {1, 2}

ASSUME ReplyAssumption ==
  /\ Families \subseteq {"sdk", "gateway", "openai", "gemini"} /\ {MaxEvents, MaxReplies, MaxUsage} \subseteq Nat
  /\ \A b \in Bodies : b.stop \in StopsOf("gateway") \cup {"unknown"}

VARIABLES
  family, mode,   \* the provider, and whether the reply is streamed
  enabled,        \* _thinking_enabled
  requests,       \* what was asked for this reply
  replyFrames,         \* nested _gateway_stream generators: their thinking argument, and whether in their try
  phase,          \* "idle", "asked", "streaming", "done"
  acc,            \* what the agent loop has of the reply
  said,           \* what the service said in this reply
  replyOutcome, streamEvents, replies,
  rejected        \* a service has rejected the thinking field

replyVars == <<family, mode, enabled, requests, replyFrames, phase, acc, said, replyOutcome, streamEvents,
               replies, rejected>>

NoReply == [open |-> FALSE, thought |-> <<>>, blocks |-> <<>>, text |-> <<>>, calls |-> <<>>,
            stop |-> "unknown", counted |-> 0, largest |-> 0, keys |-> {}]
NothingSaid == [thought |-> <<>>, blocks |-> <<>>, text |-> <<>>, calls |-> <<>>, stop |-> "none", usage |-> 0, in |-> {}]

ReplyInit ==
  /\ family \in Families /\ mode \in {"stream", "complete"} /\ enabled = TRUE
  /\ requests = <<>> /\ replyFrames = <<>> /\ phase = "idle" /\ acc = NoReply /\ said = NothingSaid
  /\ replyOutcome = "none" /\ streamEvents = 0 /\ replies = 0 /\ rejected = FALSE

-----------------------------------------------------------------------------
(***************************************************************************)
(* Requests.                                                               *)
(***************************************************************************)
\* _request_kwargs, _gateway_payload: a request that asks for thoughts leaves the temperature out.
Request(stream, thinking) ==
  [stream |-> stream, thinking |-> thinking, temperature |-> IF family \in Claude THEN ~thinking ELSE TRUE]
Asks(thinking) == family # "openai" /\ thinking

AskProvider(stream, thinking) ==
  requests' = Append(requests, Request(stream, Asks(thinking /\ enabled)))

BeginReply ==
  /\ phase \in {"idle", "done"} /\ replies < MaxReplies
  /\ replies' = replies + 1 /\ phase' = "asked" /\ acc' = NoReply /\ said' = NothingSaid /\ replyOutcome' = "none"
  /\ requests' = <<Request(mode = "stream", Asks(enabled))>>
  /\ replyFrames' = IF family = "gateway" /\ mode = "stream" THEN <<[thinking |-> TRUE, try |-> TRUE]>> ELSE <<>>
  /\ UNCHANGED <<family, mode, enabled, streamEvents, rejected>>

ReplyAsked == Last(requests)

\* classify_api_error, and the end of the step for it.
Raise(error) ==
  /\ phase' = "done" /\ replyOutcome' = IF error = "overflow" THEN "context_exceeded" ELSE "api_error"
  /\ UNCHANGED <<enabled, requests, replyFrames>>

\* _disable_thinking holds for the life of the provider.
AskAgain(stream) ==
  /\ enabled' = FALSE /\ requests' = Append(requests, Request(stream, FALSE)) /\ phase' = "asked"
  /\ UNCHANGED replyOutcome

\* An HTTP status error leaves nested generators until one that may fall back: the endpoint is missing.
Unwind(error) ==
  LET inTry == {i \in DOMAIN replyFrames : replyFrames[i].try}
      i == CHOOSE j \in inTry : \A k \in inTry : k <= j
  IN IF error \in {"missing", "unsupported"} /\ inTry # {}
     THEN /\ replyFrames' = Append(SubSeq(replyFrames, 1, i - 1), [replyFrames[i] EXCEPT !.try = FALSE])
          /\ AskProvider(FALSE, replyFrames[i].thinking) /\ UNCHANGED <<enabled, phase, replyOutcome>>
     ELSE Raise(error)

\* What an error does before anything of the reply was passed on.
EarlyError(error) ==
  IF error = "rejected" /\ ReplyAsked.thinking
  THEN /\ AskAgain(ReplyAsked.stream)
       /\ replyFrames' = IF family = "gateway" /\ ReplyAsked.stream
                    THEN Append(replyFrames, [thinking |-> FALSE, try |-> TRUE]) ELSE replyFrames
  ELSE IF family # "gateway" THEN Raise(error)
  ELSE IF error = "missing" /\ ReplyAsked.stream
       THEN AskProvider(FALSE, Last(replyFrames).thinking) /\ UNCHANGED <<enabled, replyFrames, phase,
                                                                          replyOutcome>>
       ELSE Unwind(error)

StreamErrors == {"rejected", "overflow", "missing", "unsupported", "refused"}

\* The service refuses the request, or the connection breaks before it answers.
Fails(error) ==
  /\ phase = "asked" /\ EarlyError(error)
  /\ rejected' = (rejected \/ (error = "rejected" /\ ReplyAsked.thinking))
  /\ UNCHANGED <<family, mode, acc, said, streamEvents, replies>>

Answers ==
  /\ phase = "asked" /\ ReplyAsked.stream /\ phase' = "streaming"
  /\ UNCHANGED <<family, mode, enabled, requests, replyFrames, acc, said, replyOutcome, streamEvents,
                 replies, rejected>>

-----------------------------------------------------------------------------
(***************************************************************************)
(* Chunks: what a provider makes of what the service says.                 *)
(***************************************************************************)
Piece == <<Len(requests), streamEvents>>
Chunk(kind, with) == [kind |-> kind, index |-> 0, id |-> FALSE, name |-> FALSE, args |-> <<>>, with |-> with]
CallChunk(i, id, name, args) ==
  [kind |-> "call", index |-> i, id |-> id, name |-> name, args |-> args, with |-> "none"]

\* Claude: the id is repeated with every fragment; OpenAI: only some chunk has it;
\* Gemini: a part without a name continues the call it shares most keys with, or the last one.
ContinuationTarget(item, begun, keys) == IF item.with = "keys" /\ item.call \in keys THEN item.call ELSE begun

ItemChunks(item, begun, keys) ==
  CASE item.say = "think" -> <<Chunk("thinking", Piece)>>
    [] item.say = "sign" -> <<Chunk("signature", Piece)>>
    [] item.say = "text" -> <<Chunk("text", Piece)>>
    [] item.say = "begin" ->
         <<CallChunk(item.call, item.with # "late", item.with # "late",
                     IF family = "gemini" /\ item.with = "keys" THEN <<Piece>> ELSE <<>>)>>
    [] item.say = "more" /\ family = "gemini" ->
         IF begun = 0 THEN <<>>
         ELSE <<CallChunk(ContinuationTarget(item, begun, keys), FALSE, FALSE, <<Piece>>)>>
    [] OTHER ->
         <<CallChunk(item.call, family \in Claude \/ item.with = "late", item.with = "late", <<Piece>>)>>

\* Every chunk of OpenAI with a call repeats the stop reason; Gemini gives one at the end, where
\* calls mask all others.
StopChunk(stop) == IF stop = "none" THEN <<>> ELSE <<Chunk("stop", stop)>>
UsageChunk(n) == IF n = 0 THEN <<>> ELSE <<Chunk("usage", n)>>
Normalized(stop, calls) ==
  IF calls # {} THEN "tool_use" ELSE IF stop \in {"max_tokens", "refusal"} THEN stop ELSE "end_turn"

\* _completion_to_chunks; the stop reason rides along.
BodyStop(body) == StopChunk(body.stop)
CompletionToChunks(body) ==
  LET signed == {i \in DOMAIN body.items : body.items[i].say # "think"
                                           \/ (i < Len(body.items) /\ body.items[i + 1].say = "sign")}
      Of(i) == IF i \notin signed THEN <<>>
               ELSE IF body.items[i].say = "begin" THEN <<CallChunk(body.items[i].call, TRUE, TRUE, <<Piece>>)>>
               ELSE ItemChunks(body.items[i], 0, {})
  IN FlattenSeq([i \in DOMAIN body.items |-> Of(i)]) \o BodyStop(body) \o UsageChunk(body.usage)

-----------------------------------------------------------------------------
(***************************************************************************)
(* The agent loop takes a chunk.                                           *)
(***************************************************************************)
CloseThought(a) == [a EXCEPT !.open = FALSE, !.thought = <<>>]
\* A signature closes a block and keeps it; any content closes one that is only shown.
Signed(a) ==
  IF ~a.open THEN a
  ELSE CloseThought([a EXCEPT !.blocks = IF a.thought # <<>> THEN Append(@, a.thought) ELSE @])

NoCall == [id |-> FALSE, name |-> FALSE, args |-> <<>>]
\* _accumulate_tool_delta, _merge_tool_args
WithCall(a, c) ==
  LET old == IF c.index \in DOMAIN a.calls THEN a.calls[c.index] ELSE NoCall
      new == [id |-> old.id \/ c.id, name |-> old.name \/ c.name, args |-> old.args \o c.args]
  IN [a EXCEPT !.calls = [i \in DOMAIN @ \cup {c.index} |-> IF i = c.index THEN new ELSE @[i]],
               !.keys = IF c.args # <<>> THEN @ \cup {c.index} ELSE @]

\* _consume_usage: snapshots are totals of the call, only growth is counted.
Count(a, n) == [a EXCEPT !.counted = @ + (IF n > a.largest THEN n - a.largest ELSE 0),
                         !.largest = IF n > @ THEN n ELSE @]
Consume(a, c) ==
  CASE c.kind = "thinking" ->
         [a EXCEPT !.open = TRUE, !.thought = IF a.open THEN Append(@, c.with) ELSE <<c.with>>]
    [] c.kind = "signature" -> Signed(a)
    [] c.kind = "text" -> [CloseThought(a) EXCEPT !.text = Append(@, c.with)]
    [] c.kind = "call" -> WithCall(CloseThought(a), c)
    [] c.kind = "stop" -> [a EXCEPT !.stop = c.with]
    [] c.kind = "usage" -> Count(a, c.with)
ConsumeAll(a, chunks) == FoldLeft(Consume, a, chunks)

\* Calls whose id or name never came are dropped.
KeptCalls(a) == {i \in DOMAIN a.calls : a.calls[i].id /\ a.calls[i].name}

\* The stop reason state machine; pause_turn and injected input are in AgentLoop.
StepOutcome(a) ==
  IF a.stop \in {"refusal", "context_exceeded", "content_filter"} THEN a.stop
  ELSE IF KeptCalls(a) # {} THEN "tools"
  ELSE IF a.stop \in {"max_tokens", "pause_turn"} THEN a.stop ELSE "end"

-----------------------------------------------------------------------------
(***************************************************************************)
(* The service streams.                                                    *)
(***************************************************************************)
Begun == Cardinality(DOMAIN said.calls)
Says(i) == Item(i, 0, "none")
FirstOf(k) == IF family = "openai" THEN {Item("begin", k, "none"), Item("begin", k, "late")}
              ELSE IF family = "gemini" THEN {Item("begin", k, "keys"), Item("begin", k, "none")}
              ELSE {Item("begin", k, "none")}
\* More of a call; a fragment of Gemini has keys of its call, or it continues the last one.
MoreOf(k) ==
  IF family = "gemini"
  THEN {Item("more", k, w) : w \in (IF k \in acc.keys THEN {"keys"} ELSE {}) \cup (IF k = Begun THEN {"none"} ELSE {})}
  ELSE {Item("more", k, IF acc.calls[k].id THEN "none" ELSE "late")}
Begins == IF Begun + 1 \in Calls THEN {<<i>> : i \in FirstOf(Begun + 1)} ELSE {}
Mores == {<<i>> : i \in UNION {MoreOf(k) : k \in DOMAIN said.calls}}
\* A service closes a block of thoughts before it goes on; gateways of other models do not sign.
Thinks == IF ReplyAsked.thinking \/ family = "openai"
          THEN {<<Says("think")>>} \cup (IF family \in Claude /\ said.thought # <<>> THEN {<<Says("sign")>>} ELSE {})
          ELSE {}
Contents == IF family = "sdk" /\ said.thought # <<>> THEN {} ELSE {<<Says("text")>>} \cup Begins \cup Mores
Several ==
  IF family = "openai" THEN {<<Says("think"), Says("text")>>,
                             <<Says("text"), Item("begin", 1, "none"), Item("begin", 2, "none")>>}
  ELSE IF family = "gemini" THEN {<<Item("begin", 1, "keys"), Item("begin", 2, "keys")>>} ELSE {}
Messages == Thinks \cup Contents \cup (IF Begun = 0 THEN Several ELSE {}) \cup {<<>>}

\* What was said, for the properties.
Hear(s, item) ==
  LET heard == [s EXCEPT !.in = @ \cup {Len(requests)}]
      Call(args) == [i \in DOMAIN s.calls \cup {item.call} |->
                       IF i = item.call THEN args ELSE s.calls[i]]
  IN CASE item.say = "think" -> [heard EXCEPT !.thought = Append(@, Piece)]
       [] item.say = "sign" -> [heard EXCEPT !.blocks = Append(@, s.thought), !.thought = <<>>]
       [] item.say = "text" -> [heard EXCEPT !.text = Append(@, Piece), !.thought = <<>>]
       [] item.say = "begin" ->
            [heard EXCEPT !.calls = Call(IF item.with = "keys" THEN <<Piece>> ELSE <<>>), !.thought = <<>>]
       [] OTHER -> [heard EXCEPT !.calls = Call(Append(s.calls[item.call], Piece)), !.thought = <<>>]

\* An event of the stream: items, a stop reason, the tokens so far.
Streams(items, stop, usage) ==
  LET chunks == FlattenSeq([i \in DOMAIN items |->
                  ItemChunks(items[i], Begun, acc.keys)
                    \o (IF items[i].say = "begin" /\ family = "openai" THEN StopChunk(stop) ELSE <<>>)])
  IN /\ phase = "streaming" /\ streamEvents < MaxEvents /\ said.stop = "none"
     /\ acc' = ConsumeAll(acc, chunks \o (IF family = "gemini" THEN <<>> ELSE StopChunk(stop) \o UsageChunk(usage)))
     /\ said' = [FoldLeft(Hear, said, items) EXCEPT !.stop = stop, !.usage = usage]
     /\ streamEvents' = streamEvents + 1
     /\ UNCHANGED <<family, mode, enabled, requests, replyFrames, phase, replyOutcome, replies, rejected>>

Reports(items) ==
  \E stop \in StopsOf(family) \cup {"none"}, usage \in said.usage .. MaxUsage :
    /\ items = <<>> => stop # "none" \/ usage # said.usage
    /\ family \in Claude => (items # <<>> => stop = "none" /\ usage = said.usage)
    /\ Streams(items, stop, usage)

\* The stream ends; Gemini's provider adds what it held back.
StreamEnds ==
  /\ phase = "streaming" /\ phase' = "done"
  /\ LET last == IF family = "gemini"
                 THEN ConsumeAll(acc, <<Chunk("stop", Normalized(said.stop, DOMAIN acc.calls))>> \o UsageChunk(said.usage))
                 ELSE acc
     IN acc' = last /\ replyOutcome' = StepOutcome(last)
  /\ UNCHANGED <<family, mode, enabled, requests, replyFrames, said, streamEvents, replies, rejected>>

\* It breaks, or reports an error: only the SDK may still ask again, when it passed nothing on.
StreamBreaks(error) ==
  /\ phase = "streaming"
  /\ IF family = "sdk" /\ said.in = {} /\ said.stop = "none" /\ said.usage = 0 /\ error = "rejected" /\ ReplyAsked.thinking
     THEN AskAgain(TRUE) /\ UNCHANGED replyFrames /\ rejected' = TRUE
     ELSE Raise(error) /\ UNCHANGED rejected
  /\ UNCHANGED <<family, mode, acc, said, streamEvents, replies>>

\* An answer in one piece: asked for, or from a gateway that does not stream.
AnswersWhole(body) ==
  /\ phase = "asked" /\ (ReplyAsked.stream => family = "gateway")
  /\ LET whole == ConsumeAll(acc, CompletionToChunks(body))
     IN acc' = whole /\ replyOutcome' = IF mode = "complete" THEN "result" ELSE StepOutcome(whole)
  /\ said' = [FoldLeft(Hear, said, body.items) EXCEPT !.stop = body.stop, !.usage = body.usage]
  /\ phase' = "done"
  /\ UNCHANGED <<family, mode, enabled, requests, replyFrames, streamEvents, replies, rejected>>

ReplyNext ==
  \/ BeginReply \/ Answers \/ StreamEnds
  \/ \E e \in StreamErrors : Fails(e)
  \/ \E e \in {"rejected", "overflow", "refused"} : StreamBreaks(e)
  \/ \E b \in Bodies : AnswersWhole(b)
  \/ \E items \in (IF phase = "streaming" THEN Messages ELSE {}) : Reports(items)

-----------------------------------------------------------------------------
(***************************************************************************)
(* Properties.                                                             *)
(***************************************************************************)
ReplyTypeOK ==
  /\ family \in Families /\ mode \in {"stream", "complete"} /\ enabled \in BOOLEAN /\ rejected \in BOOLEAN
  /\ phase \in {"idle", "asked", "streaming", "done"} /\ streamEvents \in 0 .. MaxEvents /\ replies \in 0 .. MaxReplies
  /\ replyOutcome \in {"none", "result", "tools", "end", "api_error"} \cup Stops
  /\ acc.counted \in Nat /\ DOMAIN acc.calls \subseteq Calls /\ acc.stop \in Stops \cup {"unknown"}

\* However often a request is repeated, a user sees the pieces of one answer, each once, in order.
NothingTwice == Cardinality(said.in) <= 1 /\ acc.text = said.text

\* A gateway that misses everything is asked five times, others at most twice; nobody asks for
\* thoughts again who was refused them, and the temperature is left out exactly with them.
RequestsAreFew ==
  /\ Len(requests) <= (IF family = "gateway" THEN 5 ELSE 2)
  /\ family \in Claude => \A i \in DOMAIN requests : requests[i].thinking # requests[i].temperature
  /\ rejected /\ requests # <<>> => ~ReplyAsked.thinking \/ phase = "done"

\* A call that is carried out has every fragment the service sent for it, and no other.
CallsAreWhole ==
  replyOutcome = "tools" => \A i \in KeptCalls(acc) : i \in DOMAIN said.calls /\ acc.calls[i].args = said.calls[i]

\* A cut reply does not pass for a normal end.
CutIsTold ==
  /\ replyOutcome = "end" => said.stop \in {"none", "end_turn", "tool_use", "unknown"}
  /\ replyOutcome = "tools" /\ family # "gemini" => said.stop \notin {"refusal", "context_exceeded", "content_filter"}

\* Only whole blocks the service has signed go back to it.
BlocksAreSigned == family = "sdk" => IsPrefix(acc.blocks, said.blocks) /\ (phase = "done" => acc.blocks = said.blocks)

\* Tokens are counted once, whatever the number of chunks that report them.
TokensCountedOnce == acc.counted <= said.usage /\ (replyOutcome \in {"tools", "end"} => acc.counted = said.usage)
=============================================================================
