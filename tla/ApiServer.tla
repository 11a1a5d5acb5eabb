------------------------------ MODULE ApiServer -------------------------------
(***************************************************************************)
(* One call of the HTTP server (inferneo/server/api_server.py): the checks *)
(* of its input (protocol.py, sampling_params.py), then the handler that   *)
(* turns the engine's outputs into a response or a stream.                 *)
(*                                                                         *)
(* The engine is modelled by what AsyncEngine's StreamIsExact says of it:  *)
(* outputs that grow by one token, the last one with a reason, or an error.*)
(* The client may vanish at any time.                                      *)
(***************************************************************************)
EXTENDS Detokenizer

CONSTANTS
    MaxTokens,          \* bound on the output
    DisconnectEvery,    \* _DISCONNECT_CHECK_EVERY
    Fields,             \* the request bodies sent
    PromptLens,         \* lengths of the encoded prompts
    MaxModelLen,
    StopLists           \* the stop strings of a request, in order

ASSUME ServerAssumption ==
    /\ MaxTokens \in Nat \ {0} /\ DisconnectEvery \in Nat \ {0}
    /\ PromptLens \subseteq Nat /\ MaxModelLen \in Nat
    /\ Fields \subseteq [maxTokens : Int, temperature : Int, topP : Int, topK : Int, minP : Int,
                       penalty : Int, repetition : Int, logprobs : Int]
    /\ StopLists \subseteq Seq(Seq(Char))

VARIABLES
    reply,      \* "none", an HTTP status, "open" while the handler runs, or how it ended
    call,       \* the kind of handler and its stop strings
    toks,       \* token_ids of the last output taken
    reason,     \* its finish_reason
    tick,       \* outputs taken
    detok,      \* the handler's detokenizer
    sent,       \* the chunks of the stream, or the response
    gone        \* outputs taken since the client vanished, -1 while it is there

serverVars == <<reply, call, toks, reason, tick, detok, sent, gone>>

NoMaxTokens == -1    \* None

-----------------------------------------------------------------------------
(* The input. *)

\* _SamplingFields
SchemaAccepts(f) ==
    /\ f.maxTokens = NoMaxTokens \/ f.maxTokens >= 1
    /\ f.temperature >= 0
    /\ f.topP > 0 /\ f.topP <= 100
    /\ f.topK >= -1 /\ f.topK # 0
    /\ f.minP >= 0 /\ f.minP <= 100
    /\ f.penalty >= -200 /\ f.penalty <= 200
    /\ f.repetition > 0
    /\ f.logprobs >= 0

\* Mutant: a missing max_tokens is passed on.
ToParamsAsGiven(f) == f

\* to_sampling_params
ToParams(f) == [f EXCEPT !.maxTokens = IF @ \in {NoMaxTokens, 0} THEN 128 ELSE @]

\* SamplingParams.__post_init__, for the fields a request sets.
ParamsAccept(p) ==
    /\ p.maxTokens >= 1
    /\ p.temperature >= 0
    /\ 0 < p.topP /\ p.topP <= 100
    /\ ~(p.topK = 0 \/ p.topK < -1)
    /\ 0 <= p.minP /\ p.minP <= 100
    /\ -200 <= p.penalty /\ p.penalty <= 200
    /\ p.repetition > 0
    /\ p.logprobs >= 0

ServerInit ==
    /\ reply = "none"
    /\ call = [kind |-> "none", stops |-> << >>]
    /\ toks = << >>
    /\ reason = "none"
    /\ tick = 0
    /\ detok = NewDetokenizer
    /\ sent = << >>
    /\ gone = -1

\* completions, chat_completions: the schema answers 422, _check_length 400, and
\* an error SamplingParams raises in the handler would be a 500.
Post ==
    /\ reply = "none"
    /\ \E f \in Fields, n \in PromptLens, kind \in {"collect", "completion", "chat"},
          stops \in StopLists :
          /\ reply' = IF ~SchemaAccepts(f) THEN "422"
                      ELSE IF ~ParamsAccept(ToParams(f)) THEN "raised"
                      ELSE IF n >= MaxModelLen THEN "400"
                      ELSE "open"
          /\ call' = [kind |-> kind, stops |-> stops]
          /\ sent' = IF reply' = "open" /\ kind = "chat" THEN <<[type |-> "role"]>> ELSE << >>
    /\ UNCHANGED <<toks, reason, tick, detok, gone>>

-----------------------------------------------------------------------------
(* The handler. *)

\* Mutant: the connection is looked at once.
DroppedOnce == tick + 1 = DisconnectEvery /\ gone >= 0

\* _dropped
Dropped == (tick + 1) % DisconnectEvery = 0 /\ gone >= 0

Streams == call.kind # "collect"

\* The response of _collect.
Response(d, output, why) ==
    [type |-> "response", text |-> Cut(d.text, call.stops),
     reason |-> IF IsCut(d.text, call.stops) THEN "stop" ELSE why, count |-> Len(output)]

\* _stream_completion, _stream_chat: the chunks for one output; [DONE] follows the
\* last one.
Chunks(output, why) ==
    (IF Delta(detok, output) = << >> THEN << >>
     ELSE <<[type |-> "delta", text |-> Delta(detok, output)]>>)
    \o (IF why = "none" THEN << >>
        ELSE <<[type |-> "final", reason |-> why], [type |-> "done"]>>)

\* The next output of engine.generate().
Output ==
    /\ reply = "open" /\ reason = "none" /\ ~Dropped
    /\ \E t \in Token, why \in {"none", "stop", "length"} :
          /\ why = "none" => Len(toks) + 1 < MaxTokens
          /\ toks' = Append(toks, t)
          /\ reason' = why
          /\ detok' = Fed(detok, toks')
          /\ sent' = IF Streams THEN sent \o Chunks(toks', why)
                     ELSE IF why = "none" THEN sent
                     ELSE <<Response(detok', toks', why)>>
          /\ reply' = IF why = "none" THEN "open" ELSE "answered"
    /\ tick' = tick + 1
    /\ gone' = IF gone >= 0 THEN gone + 1 ELSE gone
    /\ UNCHANGED call

\* Every DisconnectEvery outputs the client is looked for, and the output that
\* just came is dropped with it.
NoticeDrop ==
    /\ reply = "open" /\ reason = "none" /\ Dropped
    /\ tick' = tick + 1
    /\ reply' = "dropped"
    /\ UNCHANGED <<call, toks, reason, detok, sent, gone>>

\* generate() raises what the engine thread failed with.
EngineError ==
    /\ reply = "open"
    /\ reply' = IF Streams THEN "broken" ELSE "500"
    /\ UNCHANGED <<call, toks, reason, tick, detok, sent, gone>>

ClientVanishes ==
    /\ reply = "open"
    /\ gone = -1
    /\ gone' = 0
    /\ UNCHANGED <<reply, call, toks, reason, tick, detok, sent>>

\* The framework closes the generator of a stream that has no reader; generate()
\* aborts in its finally.
CloseStream ==
    /\ reply = "open" /\ Streams /\ gone >= 0
    /\ reply' = "closed"
    /\ UNCHANGED <<call, toks, reason, tick, detok, sent, gone>>

ServerNext == Post \/ Output \/ NoticeDrop \/ EngineError \/ ClientVanishes \/ CloseStream

ServerSpec == ServerInit /\ [][ServerNext]_serverVars

-----------------------------------------------------------------------------

Stable(text) == ~EndsBroken(text)
DeltaText == FlattenSeq([i \in DOMAIN sent |-> IF sent[i].type = "delta" THEN sent[i].text ELSE << >>])
Types == [i \in DOMAIN sent |-> sent[i].type]

\* What a stream has sent is a prefix of the text of its tokens, all of it unless
\* the tokens end in the middle of a character, whatever mix of fragments, words
\* and special tokens came; a complete stream is the role (of a chat), deltas,
\* one reason and [DONE], in this order.  A response is the text LLM.generate
\* gives for the same tokens and stop strings, no stop string is left in it (but
\* the empty one, which leaves nothing), and the cut is at the first one when
\* there is a single one.
AnswerIsExact ==
    /\ Streams /\ reply \in {"open", "answered"} =>
          /\ IsPrefix(DeltaText, Decode(toks))
          /\ Stable(Decode(toks)) => DeltaText = Decode(toks)
          /\ \A i \in DOMAIN sent : sent[i].type = "role" <=> i = 1 /\ call.kind = "chat"
          /\ \A i \in DOMAIN sent : sent[i].type \in {"final", "done"} =>
                reply = "answered" /\ i > Len(sent) - 2
          /\ reply = "answered" => Len(sent) >= 2 /\ SubSeq(Types, Len(sent) - 1, Len(sent)) = <<"final", "done">>
    /\ ~Streams /\ reply = "answered" =>
          LET r == sent[1]
          IN  /\ Stable(Decode(toks)) => r.text = Cut(Decode(toks), call.stops)
              /\ \A i \in DOMAIN call.stops : call.stops[i] # << >> => Found(r.text, call.stops[i]) = {}
              /\ r.text # detok.text => r.reason = "stop"
              /\ Len(call.stops) = 1 /\ Found(detok.text, call.stops[1]) # {} =>
                    Len(r.text) = Min(Found(detok.text, call.stops[1]))
              /\ r.count = Len(toks)

\* A vanished client is noticed before DisconnectEvery more outputs, wherever the
\* count stands when it goes ("sampling it every N tokens is enough",
\* api_server.py:39-43); the handler then leaves generate(), and AsyncEngine says
\* what becomes of the request.
DropIsNoticed == gone < DisconnectEvery

\* What the schema accepts SamplingParams accepts too, after the conversion
\* between them: "a bad value" is the client's 422 and never raises in the
\* handler (protocol.py:18-21).
NoServerError == reply # "raised"
=============================================================================
