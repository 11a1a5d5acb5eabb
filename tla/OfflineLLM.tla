------------------------------ MODULE OfflineLLM ------------------------------
(***************************************************************************)
(* LLM.generate (inferneo/engine/llm.py): a batch of prompts is added to   *)
(* the engine one by one, the engine is stepped until it is empty, and the *)
(* finished outputs are sorted back into the order of the prompts.  The    *)
(* engine outlives the call, also one that raises.                         *)
(***************************************************************************)
EXTENDS Integers, Sequences, SequencesExt, FiniteSets

CONSTANTS
    MaxPrompts,     \* bound on the prompts of a call
    MaxCalls        \* bound on the calls

ASSUME LLMAssumption == MaxPrompts \in Nat \ {0} /\ MaxCalls \in Nat

VARIABLES
    llmPc,      \* "idle", "adding", "stepping", "returned", "raised"
    raises,     \* what a call that raised raised for, see Raise
    calls,      \* calls so far
    prompts,    \* per prompt of the call, whether the engine accepts it
    order,      \* the ids of the call, in the order of its prompts
    live,       \* unfinished requests of the engine
    lastId,     \* ids are fresh (uuid4)
    finished,   \* the ids of the finished outputs, in the order they came
    results,    \* what the call returns
    inherited   \* what was in the engine when the call began (ghost)

llmVars == <<llmPc, raises, calls, prompts, order, live, lastId, finished, results, inherited>>

LLMInit ==
    /\ llmPc = "idle" /\ raises = "nothing"
    /\ calls = 0
    /\ prompts = << >> /\ order = << >> /\ finished = << >> /\ results = << >>
    /\ live = {} /\ inherited = {}
    /\ lastId = 0

Raise(reason) == llmPc' = "raised" /\ raises' = reason

\* The prompts of a call and their parameters; a list of parameters of another
\* length than the prompts raises before anything is added.
Generate ==
    /\ llmPc \in {"idle", "returned", "raised"}
    /\ calls < MaxCalls
    /\ calls' = calls + 1
    /\ prompts' \in UNION {[1 .. n -> BOOLEAN] : n \in 0 .. MaxPrompts}
    /\ order' = << >> /\ finished' = << >> /\ results' = << >>
    /\ inherited' = live
    /\ \/ llmPc' = "adding" /\ raises' = "nothing"
       \/ Raise("parameters")
    /\ UNCHANGED <<live, lastId>>

\* add_request, for the next prompt: an empty or over-long one raises, out of
\* generate().
AddPrompt ==
    /\ llmPc = "adding"
    /\ Len(order) < Len(prompts)
    /\ IF prompts[Len(order) + 1]
       THEN /\ lastId' = lastId + 1
            /\ order' = Append(order, lastId')
            /\ live' = live \cup {lastId'}
            /\ UNCHANGED <<llmPc, raises>>
       ELSE Raise("prompt") /\ UNCHANGED <<lastId, order, live>>
    /\ UNCHANGED <<calls, prompts, finished, results, inherited>>

AllAdded ==
    /\ llmPc = "adding"
    /\ Len(order) = Len(prompts)
    /\ llmPc' = "stepping"
    /\ UNCHANGED <<raises, calls, prompts, order, live, lastId, finished, results, inherited>>

\* A step finishes any of the engine's requests, in any order.
StepEngine ==
    /\ llmPc = "stepping"
    /\ live # {}
    /\ \E id \in live : live' = live \ {id} /\ finished' = Append(finished, id)
    /\ UNCHANGED <<llmPc, raises, calls, prompts, order, lastId, results, inherited>>

\* A step raises, the scheduler's RuntimeError (scheduler.py:145) or an exception
\* of the runner: out of generate(), and its requests stay in the engine.
StepRaises ==
    /\ llmPc = "stepping"
    /\ live # {}
    /\ Raise("step")
    /\ UNCHANGED <<calls, prompts, order, live, lastId, finished, results, inherited>>

\* Mutant: the outputs are returned as they came.
AsTheyCame == finished

\* sorted(..., key=order)
Position(id) == CHOOSE i \in DOMAIN order : order[i] = id
InPromptOrder ==
    LET places == DOMAIN finished
        p == CHOOSE q \in Bijection(places, places) :
                \A i, j \in places : i < j => Position(finished[q[i]]) < Position(finished[q[j]])
    IN  [i \in places |-> finished[p[i]]]

\* An output that is not in `order` is a KeyError.
AllOfThisCall == \A i \in DOMAIN finished : finished[i] \in Range(order)

ReturnResults ==
    /\ llmPc = "stepping"
    /\ live = {}
    /\ IF AllOfThisCall THEN results' = InPromptOrder /\ llmPc' = "returned" /\ raises' = raises
       ELSE results' = results /\ Raise("key")
    /\ UNCHANGED <<calls, prompts, order, live, lastId, finished, inherited>>

LLMNext == Generate \/ AddPrompt \/ AllAdded \/ StepEngine \/ StepRaises \/ ReturnResults

LLMSpec == LLMInit /\ [][LLMNext]_llmVars

-----------------------------------------------------------------------------

\* A call that returns has one output per prompt, in the order of the prompts,
\* none of another call, and leaves an empty engine, in whatever order the requests
\* finished.  A call that raises in between leaves the next one what it has added
\* and what it inherited; a call that inherits never returns, and it is rid of
\* what it inherited when, and only when, it comes as far as the KeyError.
BatchReturnsItsResults ==
    /\ llmPc = "returned" =>
          results = order /\ Len(order) = Len(prompts) /\ inherited = {} /\ live = {}
    /\ llmPc = "raised" =>
          /\ raises = "parameters" => live = inherited
          /\ raises = "prompt" => live = inherited \cup Range(order)
          /\ raises = "step" => live # {} /\ live \subseteq inherited \cup Range(order)
          /\ raises = "key" => live = {} /\ inherited # {}
=============================================================================
