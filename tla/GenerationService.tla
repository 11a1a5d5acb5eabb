-------------------------- MODULE GenerationService ---------------------------
(***************************************************************************)
(* What the engine promises the caller of add_request(), abort_request()   *)
(* and step() (inferneo/engine/engine.py): the service that LLM and        *)
(* AsyncEngine rely on.  It knows nothing of queues, blocks, chunks,       *)
(* preemption or the prefix cache.  A request's output only grows, token   *)
(* by token, until the first token that ends it; then it is finished, for  *)
(* that reason, and its output stands.                                     *)
(***************************************************************************)
EXTENDS Integers, Sequences, SequencesExt

CONSTANTS Request, Token, Params, MaxModelLen

VARIABLES
    state,      \* "NONE", "LIVE", or why the request is over
    ask,        \* what the request was submitted with
    output      \* the tokens generated for it

serviceVars == <<state, ask, output>>

Ask == [promptLen : 1 .. MaxModelLen - 1, params : Params]

ServiceInit ==
    /\ state = [r \in Request |-> "NONE"]
    /\ ask = [r \in Request |-> << >>]
    /\ output = [r \in Request |-> << >>]

Stopped(r) ==
    /\ output[r] # << >>
    /\ Last(output[r]) \in ask[r].params.stops
    /\ Len(output[r]) >= ask[r].params.minTokens

Full(r) ==
    \/ Len(output[r]) >= ask[r].params.maxTokens
    \/ ask[r].promptLen + Len(output[r]) >= MaxModelLen

Submit(r) ==
    /\ state[r] # "LIVE"
    /\ state' = [state EXCEPT ![r] = "LIVE"]
    /\ \E a \in Ask : ask' = [ask EXCEPT ![r] = a]
    /\ output' = [output EXCEPT ![r] = << >>]

Generate(r) ==
    /\ state[r] = "LIVE"
    /\ ~Stopped(r) /\ ~Full(r)
    /\ \E t \in Token : output' = [output EXCEPT ![r] = Append(@, t)]
    /\ UNCHANGED <<state, ask>>

Finish(r) ==
    /\ state[r] = "LIVE"
    /\ Stopped(r) \/ Full(r)
    /\ state' = [state EXCEPT ![r] = IF Stopped(r) THEN "FINISHED_STOPPED" ELSE "FINISHED_LENGTH"]
    /\ UNCHANGED <<ask, output>>

Abort(r) ==
    /\ state[r] = "LIVE"
    /\ state' = [state EXCEPT ![r] = "FINISHED_ABORTED"]
    /\ UNCHANGED <<ask, output>>

ServiceNext == \E r \in Request : Submit(r) \/ Generate(r) \/ Finish(r) \/ Abort(r)

ServiceSpec == ServiceInit /\ [][ServiceNext]_serviceVars
=============================================================================
