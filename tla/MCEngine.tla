------------------------------- MODULE MCEngine -------------------------------
(* Engine for TLC. *)
EXTENDS Engine

CONSTANTS a, b, img

MCHash == UNION {[1 .. i * BlockSize -> Token] : i \in 1 .. MaxModelLen \div BlockSize}

\* Prompts that share their first block; b ends a request.
PromptsShared == {<<a, a, a>>, <<a, a>>}

\* A text and an image prompt: the placeholders fill a block, text follows.  With
\* two tokens, b ends a request and the model goes on by drawing the placeholder,
\* which it may like any token.
PromptsMixed == {<<b, b>>, <<img, img, b>>}
PromptsImage == {<<img, img, b>>}
ParamsStop == {[minTokens |-> 0, maxTokens |-> 4, stops |-> {b}]}

\* Every request submitted and finished: the engine thread parks.
Quiescent ==
    /\ submissions = MaxSubmissions
    /\ phase = "idle" /\ Settled
    /\ waiting = {} /\ running = << >>
    /\ UNCHANGED engineVars

MCNext == EngineModelNext \/ Quiescent

MCSpec == EngineInit /\ [][MCNext]_engineVars
=============================================================================
