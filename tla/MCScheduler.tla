----------------------------- MODULE MCScheduler ------------------------------
(* Scheduler for TLC. *)
EXTENDS Scheduler

CONSTANTS a, b

MCHash == UNION {[1 .. i * BlockSize -> Token] : i \in 1 .. MaxModelLen \div BlockSize}

\* Prompts that share a block, and one that is longer than a step's budget.
PromptsShared == {<<a, a, a>>, <<a, a>>}
PromptsShort == {<<a>>}
PromptsLong == {<<a, a, a, a, a>>}

\* b ends the request, at once or not before the second token of output.
ParamsStop == {[minTokens |-> 0, maxTokens |-> 4, stops |-> {b}]}
ParamsMin == {[minTokens |-> 2, maxTokens |-> 3, stops |-> {b}]}

\* Every request submitted and finished, so the engine thread parks; or the
\* engine thread has died.
Quiescent ==
    /\ submissions = MaxSubmissions
    /\ \/ phase = "idle" /\ Settled /\ waiting = {} /\ running = << >>
       \/ phase = "crashed"
    /\ UNCHANGED vars

MCNext == Next \/ Quiescent

MCSpec == Init /\ [][MCNext]_vars

MCFairSpec == MCSpec /\ WF_vars(EngineNext)

\* Where symmetry may not be used: the names of requests mean nothing, so they
\* are submitted for the first time in a fixed order.
Ids == SetToSeq(Request)
FirstUseInOrder ==
    \A i, j \in 1 .. Len(Ids) :
       i < j /\ status[Ids[i]] = "NONE" => status'[Ids[j]] = "NONE"

MCOrderedNext == EngineNext \/ (ClientNext /\ FirstUseInOrder) \/ Quiescent

MCOrderedSpec == Init /\ [][MCOrderedNext]_vars /\ WF_vars(EngineNext)

Symmetry == Permutations(Request)
=============================================================================
