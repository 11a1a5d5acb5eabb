------------------------------- MODULE MCParts --------------------------------
(* The parts around the engine for TLC: the kernels' addresses, the sampler,   *)
(* the server's calls, the offline front and the statistics.  They share no    *)
(* state, and a behaviour exercises one of them.                               *)
EXTENDS PagedDecode, Sampler, ApiServer, OfflineLLM, StatsCollector

(* Decode steps. *)

\* Sequences of up to MaxLen tokens; the first block of the longer ones is
\* shared, the last one is the row's own.
DecodeRow(i, s, q, sample) ==
    [table |-> IF s > BlockSize THEN <<0, i>> ELSE <<i>>, q |-> q, s |-> s, sample |-> sample]

\* Pure decode batches of every size, and every chunk beside a decode, a chunk and
\* a whole prompt.
DecodeBatches ==
    UNION {{[i \in 1 .. n |-> DecodeRow(i, len[i], 1, TRUE)] : len \in [1 .. n -> 1 .. 3]}
              : n \in 1 .. MaxNumSeqs}
QueryShapes == {c \in (1 .. 4) \X (1 .. 4) \X BOOLEAN : c[2] <= c[1]}
MixedBatches ==
    {<<DecodeRow(1, c[1], c[2], c[3]), DecodeRow(2, d[1], d[2], d[3])>> :
        c \in QueryShapes, d \in {<<3, 1, TRUE>>, <<4, 2, FALSE>>, <<3, 3, TRUE>>}}
MCBatches == DecodeBatches \cup MixedBatches

(* Rows of a sampling batch. *)

MCLogits == {<<0, 0, 0>>, <<2, 2, 0>>, <<-2, 2, 2>>, <<-2, 0, 4>>}

SamplerRowOf(logits, temp, topK, topP, minP, penalty, seeded, logprobs) ==
    [logits |-> logits, temp |-> temp, topK |-> topK, topP |-> topP, minP |-> minP,
     repetition |-> 1 + penalty, frequency |-> penalty, presence |-> penalty,
     seeded |-> seeded, logprobs |-> logprobs, promptLen |-> 1, tokenIds |-> <<2, 1, 1>>]

\* A row of every kind, beside one that turns a switch of the batch on or none.
Neighbours ==
    {SamplerRowOf(<<2, 2, 0>>, 0, -1, 100, 0, 0, FALSE, NoLogprobs),
     SamplerRowOf(<<2, 2, 0>>, 0, -1, 100, 0, 0, FALSE, 3),
     SamplerRowOf(<<4, 2, 0>>, 1, 1, 100, 0, 0, TRUE, NoLogprobs),
     SamplerRowOf(<<4, 2, 0>>, 1, -1, 50, 0, 1, FALSE, NoLogprobs),
     SamplerRowOf(<<0, 0, 0>>, 1, -1, 100, 50, 0, FALSE, NoLogprobs)}
MCRows ==
    {<<SamplerRowOf(l, temp, k, p, m, pen, FALSE, NoLogprobs), other>> :
        l \in MCLogits, temp \in 0 .. 2, k \in {-1, 1, 2}, p \in {50, 80, 100}, m \in {0, 50},
        pen \in {0, 1}, other \in Neighbours}
    \cup {<<SamplerRowOf(l, temp, -1, 100, 0, pen, own[1], own[2]), other>> :
            l \in MCLogits, temp \in 0 .. 1, pen \in {0, 1},
            own \in {<<TRUE, NoLogprobs>>, <<FALSE, 1>>, <<TRUE, 1>>}, other \in Neighbours}

\* Powers of two.
MCLogitRange == -14 .. 8
MCExp == [x \in MCLogitRange |-> 2 ^ (x + 14)]

(* Calls of the server, the samples of the engine. *)

MCPiece ==
    [word |-> <<"space", "c">>, bare |-> <<"c">>, lead |-> <<"lead">>, cont |-> <<"cont">>,
     special |-> << >>]

MCStopLists == {<< >>, <<<< >>>>, <<<<"c", "c">>>>, <<<<"c">>, <<"space", "c">>>>, <<<<"joined">>>>}

Usual == [maxTokens |-> 5, temperature |-> 1, topP |-> 100, topK |-> -1, minP |-> 0,
          penalty |-> 0, repetition |-> 1, logprobs |-> 0]

\* Bodies with one field at, next to or past a bound.
MCFields ==
    {[Usual EXCEPT !.maxTokens = v] : v \in {NoMaxTokens, 0, 1}}
    \cup {[Usual EXCEPT !.temperature = v] : v \in {-1, 0}}
    \cup {[Usual EXCEPT !.topP = v] : v \in {0, 1, 101}}
    \cup {[Usual EXCEPT !.topK = v] : v \in {-2, 0, 1}}
    \cup {[Usual EXCEPT !.minP = v] : v \in {-1, 100, 101}}
    \cup {[Usual EXCEPT !.penalty = v] : v \in {-201, -200, 200, 201}}
    \cup {[Usual EXCEPT !.repetition = v] : v \in {0, 2}}
    \cup {[Usual EXCEPT !.logprobs = v] : v \in {-1, 3}}

MCStepSamples ==
    {[gen |-> 0, proc |-> 3, preempt |-> 0, latency |-> << >>],
     [gen |-> 1, proc |-> 1, preempt |-> 1, latency |-> <<2>>],
     [gen |-> 2, proc |-> 4, preempt |-> 0, latency |-> <<3, 1>>]}

(* One part at a time. *)

DecodeIdle == batch = << >>
SamplerIdle == rows = << >>
ServerIdle == reply = "none"
LLMIdle == calls = 0
StatsIdle == clock = 0 /\ recordAt = -1 /\ snapAt = -1 /\ history = << >> /\ snap.at = -1

MCInit == DecodeInit /\ SamplerInit /\ ServerInit /\ LLMInit /\ StatsInit

MCNext ==
    \/ /\ SamplerIdle /\ ServerIdle /\ LLMIdle /\ StatsIdle
       /\ DecodeNext
       /\ UNCHANGED <<samplerVars, serverVars, llmVars, statsVars>>
    \/ /\ DecodeIdle /\ ServerIdle /\ LLMIdle /\ StatsIdle
       /\ Sample
       /\ UNCHANGED <<decodeVars, serverVars, llmVars, statsVars>>
    \/ /\ DecodeIdle /\ SamplerIdle /\ LLMIdle /\ StatsIdle
       /\ ServerNext
       /\ UNCHANGED <<decodeVars, samplerVars, llmVars, statsVars>>
    \/ /\ DecodeIdle /\ SamplerIdle /\ ServerIdle /\ StatsIdle
       /\ LLMNext
       /\ UNCHANGED <<decodeVars, samplerVars, serverVars, statsVars>>
    \/ /\ DecodeIdle /\ SamplerIdle /\ ServerIdle /\ LLMIdle
       /\ StatsNext
       /\ UNCHANGED <<decodeVars, samplerVars, serverVars, llmVars>>

MCSpec == MCInit /\ [][MCNext]_<<decodeVars, samplerVars, serverVars, llmVars, statsVars>>
=============================================================================
