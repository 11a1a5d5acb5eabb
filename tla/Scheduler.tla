------------------------------ MODULE Scheduler ------------------------------
(***************************************************************************)
(* The token-budget scheduler (inferneo/engine/scheduler.py) over the      *)
(* block manager and the pool, with the request lifecycle of               *)
(* inferneo/engine/request.py.                                             *)
(*                                                                         *)
(* One engine step is schedule() -> execute -> update_from_output().  All  *)
(* of it runs on one thread, so requests are added and aborted between     *)
(* steps; abort() is also allowed between schedule() and the update, which *)
(* the code handles.  Each loop iteration of schedule() is a step here and *)
(* the phase says which loop runs.  The manager's calls interleave their   *)
(* own steps: the scheduler goes on when the manager is Settled.           *)
(*                                                                         *)
(* `waiting` is a set: schedule() sorts the list before reading it, and    *)
(* arrival times (a counter here) are distinct, so its order is never      *)
(* observed.                                                               *)
(***************************************************************************)
EXTENDS KVCacheManager

CONSTANTS
    MaxNumBatchedTokens,    \* SchedulerConfig.max_num_batched_tokens
    MaxNumSeqs,             \* SchedulerConfig.max_num_seqs
    LongPrefillThreshold,   \* long_prefill_token_threshold, 0 when unset
    Priorities,             \* the priorities requests come with
    Params,                 \* the sampling parameters requests come with
    MaxSubmissions          \* bound on add_request calls, so that runs are finite

ASSUME SchedulerAssumption ==
    /\ MaxNumBatchedTokens \in Nat /\ MaxNumBatchedTokens >= BlockSize
    /\ MaxNumSeqs \in Nat \ {0}
    /\ LongPrefillThreshold \in Nat
    /\ Priorities \subseteq Int
    /\ MaxSubmissions \in Nat

\* min_tokens, max_tokens, and the token ids that stop the request: its
\* stop_token_ids, with the eos token unless ignore_eos.
ASSUME ParamsAssumption ==
    Params \subseteq [minTokens : Nat, maxTokens : Nat \ {0}, stops : SUBSET Token]

VARIABLES
    status,         \* EngineRequest.status, "NONE" for an id never submitted
    info,           \* what never changes in a request: prompt length, params, priority, arrival
    computed,       \* EngineRequest.num_computed_tokens
    waiting,        \* Scheduler.waiting
    running,        \* Scheduler.running
    newlyFinished,  \* Scheduler._newly_finished
    submissions,    \* number of add_request calls so far: the arrival clock
    phase,          \* where the engine step is
    budget,         \* schedule(): tokens left
    idx,            \* schedule(), update_from_output(): position of the loop
    preempted,      \* schedule(): requests preempted in this call
    blockPreempted, \* schedule(): one of them for lack of blocks
    scheduled,      \* SchedulerOutput.scheduled
    finishedIds     \* SchedulerOutput.finished_ids

requestVars == <<status, info, computed, waiting, running, newlyFinished, submissions>>
stepVars == <<phase, budget, idx, preempted, blockPreempted, scheduled, finishedIds>>
vars == <<poolVars, kvVars, requestVars, stepVars>>

FinishedStatus == {"FINISHED_STOPPED", "FINISHED_LENGTH", "FINISHED_ABORTED"}
QueuedStatus == {"WAITING", "PREEMPTED"}
Status == {"NONE", "RUNNING"} \cup QueuedStatus \cup FinishedStatus
Phase == {"idle", "priority", "running", "waiting", "admit", "scheduled", "update",
          "check", "crashed"}

ScheduledRequest ==
    [id : Request, start : Nat, num : Nat, blocks : Seq(Block),
     doSample : BOOLEAN, isNew : BOOLEAN]

Info == [promptLen : Nat, params : Params, priority : Priorities, arrival : Nat]

TypeOK ==
    /\ KVTypeOK
    /\ status \in [Request -> Status]
    /\ \A r \in Request : status[r] # "NONE" => info[r] \in Info
    /\ computed \in [Request -> Nat]
    /\ waiting \subseteq Request
    /\ running \in Seq(Request)
    /\ newlyFinished \subseteq Request
    /\ submissions \in Nat
    /\ phase \in Phase
    /\ budget \in Nat
    /\ idx \in Nat \ {0}
    /\ preempted \subseteq Request
    /\ blockPreempted \in BOOLEAN
    /\ scheduled \in Seq(ScheduledRequest)
    /\ finishedIds \subseteq Request

Init ==
    /\ KVInit
    /\ status = [r \in Request |-> "NONE"]
    /\ info = [r \in Request |-> << >>]
    /\ computed = [r \in Request |-> 0]
    /\ waiting = {}
    /\ running = << >>
    /\ newlyFinished = {}
    /\ submissions = 0
    /\ phase = "idle"
    /\ budget = MaxNumBatchedTokens
    /\ idx = 1
    /\ preempted = {}
    /\ blockPreempted = FALSE
    /\ scheduled = << >>
    /\ finishedIds = {}

-----------------------------------------------------------------------------
(* Requests. *)

NumTokens(r) == Len(tokens[r])
NumOutputTokens(r) == Len(tokens[r]) - info[r].promptLen
IsLive(r) == status[r] \in QueuedStatus \cup {"RUNNING"}      \* r is in Scheduler.requests

\* Higher priority first, then earlier arrival.
Outranks(r, s) ==
    \/ info[r].priority > info[s].priority
    \/ info[r].priority = info[s].priority /\ info[r].arrival < info[s].arrival

TopWaiting(r) == r \in waiting /\ \A s \in waiting \ {r} : Outranks(r, s)
LowestRunning(r) == r \in Range(running) /\ \A s \in Range(running) \ {r} : Outranks(s, r)

LeaveRunning(r) == \E i \in 1 .. Len(running) : running[i] = r /\ running' = RemoveAt(running, i)

\* Mutant: max_model_len does not end a request.
StopStatusUnlimited(r) ==
    LET p == info[r].params
    IN  CASE NumOutputTokens(r) >= p.minTokens /\ Last(tokens[r]) \in p.stops -> "FINISHED_STOPPED"
          [] OTHER -> IF NumOutputTokens(r) >= p.maxTokens THEN "FINISHED_LENGTH" ELSE "RUNNING"

\* Mutant: the lengths are looked at before the stop tokens.
StopStatusLengthFirst(r) ==
    LET p == info[r].params
    IN  CASE NumOutputTokens(r) >= p.maxTokens \/ NumTokens(r) >= MaxModelLen -> "FINISHED_LENGTH"
          [] OTHER -> IF NumOutputTokens(r) >= p.minTokens /\ Last(tokens[r]) \in p.stops
                      THEN "FINISHED_STOPPED" ELSE "RUNNING"

\* check_stop: the status the newest token ends the request with, if it does.
StopStatus(r) ==
    LET p == info[r].params
    IN  CASE NumOutputTokens(r) >= p.minTokens /\ Last(tokens[r]) \in p.stops -> "FINISHED_STOPPED"
          [] OTHER -> IF NumOutputTokens(r) >= p.maxTokens \/ NumTokens(r) >= MaxModelLen
                      THEN "FINISHED_LENGTH"
                      ELSE "RUNNING"

\* Mutant: the runner is never told.
FinishSilently(r, st) ==
    /\ status' = [status EXCEPT ![r] = st]
    /\ newlyFinished' = newlyFinished

\* _finish, for a request already out of its queue.
Finish(r, st) ==
    /\ status' = [status EXCEPT ![r] = st]
    /\ newlyFinished' = newlyFinished \cup {r}

\* add_request: an id is taken while its request is unfinished.
AddRequest(r, prompt, p, prio) ==
    /\ phase = "idle"
    /\ ~IsLive(r)
    /\ submissions < MaxSubmissions
    /\ SetPrompt(r, prompt)
    /\ status' = [status EXCEPT ![r] = "WAITING"]
    /\ info' = [info EXCEPT ![r] = [promptLen |-> Len(prompt), params |-> p,
                                    priority |-> prio, arrival |-> submissions]]
    /\ computed' = [computed EXCEPT ![r] = 0]
    /\ waiting' = waiting \cup {r}
    /\ submissions' = submissions + 1
    /\ UNCHANGED <<running, newlyFinished, stepVars>>

\* Mutant: only a request that never ran is taken out of `waiting`.
AbortKeepsPreempted(r) ==
    /\ phase \in {"idle", "scheduled"}
    /\ IsLive(r)
    /\ Settled
    /\ IF status[r] = "RUNNING"
       THEN LeaveRunning(r) /\ FreeRequest(r) /\ waiting' = waiting
       ELSE /\ UNCHANGED <<running, poolVars, kvVars>>
            /\ waiting' = IF status[r] = "WAITING" THEN waiting \ {r} ELSE waiting
    /\ Finish(r, "FINISHED_ABORTED")
    /\ UNCHANGED <<info, computed, submissions, stepVars>>

\* abort
Abort(r) ==
    /\ phase \in {"idle", "scheduled"}
    /\ IsLive(r)
    /\ Settled
    /\ IF status[r] = "RUNNING"
       THEN LeaveRunning(r) /\ FreeRequest(r) /\ waiting' = waiting
       ELSE UNCHANGED <<running, poolVars, kvVars>> /\ waiting' = waiting \ {r}
    /\ Finish(r, "FINISHED_ABORTED")
    /\ UNCHANGED <<info, computed, submissions, stepVars>>

-----------------------------------------------------------------------------
(* schedule() *)

\* The engine steps only while has_unfinished().
StartSchedule ==
    /\ phase = "idle"
    /\ Settled
    /\ waiting # {} \/ running # << >>
    /\ phase' = "priority"
    /\ finishedIds' = newlyFinished
    /\ newlyFinished' = {}
    /\ UNCHANGED <<poolVars, kvVars, status, info, computed, waiting, running, submissions,
                   budget, idx, preempted, blockPreempted, scheduled>>

\* Mutant: the victim keeps its blocks.
PreemptKeepsBlocks(victim) ==
    /\ status' = [status EXCEPT ![victim] = "PREEMPTED"]
    /\ computed' = [computed EXCEPT ![victim] = 0]
    /\ waiting' = waiting \cup {victim}
    /\ preempted' = preempted \cup {victim}
    /\ UNCHANGED <<poolVars, kvVars>>
    /\ UNCHANGED <<info, newlyFinished, submissions, budget, idx, scheduled, finishedIds>>

\* Mutant: the victim is not queued again.
PreemptForgets(victim) ==
    /\ FreeRequest(victim)
    /\ status' = [status EXCEPT ![victim] = "PREEMPTED"]
    /\ computed' = [computed EXCEPT ![victim] = 0]
    /\ preempted' = preempted \cup {victim}
    /\ UNCHANGED <<waiting, info, newlyFinished, submissions, budget, idx, scheduled, finishedIds>>

\* _preempt(victim), which has left `running`: its blocks go, it queues again
\* and starts over.
Preempt(victim) ==
    /\ FreeRequest(victim)
    /\ status' = [status EXCEPT ![victim] = "PREEMPTED"]
    /\ computed' = [computed EXCEPT ![victim] = 0]
    /\ waiting' = waiting \cup {victim}
    /\ preempted' = preempted \cup {victim}
    /\ UNCHANGED <<info, newlyFinished, submissions, budget, idx, scheduled, finishedIds>>

\* Mutant: the inequality is not strict.
OutrankedOrEqual(victim) ==
    /\ Len(running) >= MaxNumSeqs
    /\ LowestRunning(victim)
    /\ \E top \in waiting : TopWaiting(top) /\ info[top].priority >= info[victim].priority

\* _preempt_for_priority: every slot is taken and a waiting request has a
\* strictly higher priority than the lowest running one.
OutrankedRunning(victim) ==
    /\ Len(running) >= MaxNumSeqs
    /\ LowestRunning(victim)
    /\ \E top \in waiting : TopWaiting(top) /\ info[top].priority > info[victim].priority

PreemptForPriority ==
    /\ phase = "priority"
    /\ \E victim \in Request :
          OutrankedRunning(victim) /\ LeaveRunning(victim) /\ Preempt(victim)
    /\ UNCHANGED <<phase, blockPreempted>>

\* Mutant: admission comes before the running requests.
PriorityThenAdmission ==
    /\ phase = "priority"
    /\ Settled
    /\ ~ \E victim \in Request : OutrankedRunning(victim)
    /\ phase' = "waiting"
    /\ UNCHANGED <<poolVars, kvVars, requestVars, budget, idx, preempted, blockPreempted,
                   scheduled, finishedIds>>

PriorityDone ==
    /\ phase = "priority"
    /\ Settled
    /\ ~ \E victim \in Request : OutrankedRunning(victim)
    /\ phase' = "running"
    /\ UNCHANGED <<poolVars, kvVars, requestVars, budget, idx, preempted, blockPreempted,
                   scheduled, finishedIds>>

\* _make_scheduled for num tokens of r from position start, after allocate_slots.
Schedule(r, start, num, isNew) ==
    /\ scheduled' = Append(scheduled,
          [id |-> r, start |-> start, num |-> num, blocks |-> table'[r],
           doSample |-> start + num = NumTokens(r), isNew |-> isNew])
    /\ budget' = budget - num

Min2(m, n) == IF m < n THEN m ELSE n

\* Phase 1: the running request at idx and the tokens it gets.
RunningTurn == phase = "running" /\ idx <= Len(running) /\ budget > 0

\* Mutant: the budget is not capped by what the request has left.
NumNewUncapped(r) == budget

NumNewRunning(r) == Min2(NumTokens(r) - computed[r], budget)

ScheduleRunning ==
    /\ RunningTurn
    /\ LET r == running[idx]
       IN  /\ AllocateSlots(r, computed[r] + NumNewRunning(r))
           /\ Schedule(r, computed[r], NumNewRunning(r), FALSE)
    /\ idx' = idx + 1
    /\ UNCHANGED <<requestVars, phase, preempted, blockPreempted, finishedIds>>

\* Out of blocks: the most recently admitted running request goes; when that is
\* the request itself, nobody is behind it and the step's output is complete.
PreemptForBlocks ==
    /\ RunningTurn
    /\ LET r == running[idx]
           victim == Last(running)
       IN  /\ NumFresh(r, computed[r] + NumNewRunning(r)) > Len(free)
           /\ running' = Front(running)
           /\ Preempt(victim)
           /\ phase' = IF victim = r THEN "scheduled" ELSE "running"
    /\ blockPreempted' = TRUE

RunningDone ==
    /\ phase = "running"
    /\ Settled
    /\ idx > Len(running) \/ budget = 0
    /\ phase' = IF blockPreempted THEN "scheduled" ELSE "waiting"
    /\ UNCHANGED <<poolVars, kvVars, requestVars, budget, idx, preempted, blockPreempted,
                   scheduled, finishedIds>>

\* Mutant: an admission looks at the budget only.
WaitingTurnWithoutSlots == waiting # {} /\ budget > 0

\* Phase 2: the top-ranked waiting request, while a slot and budget remain.
WaitingTurn == waiting # {} /\ budget > 0 /\ Len(running) < MaxNumSeqs

LookupPrefix ==
    /\ phase = "waiting"
    /\ WaitingTurn
    /\ \E r \in waiting : TopWaiting(r) /\ LookupHit(r)
    /\ UNCHANGED <<requestVars, stepVars>>

LookupDone ==
    /\ phase = "waiting"
    /\ WaitingTurn
    /\ Settled
    /\ \E r \in waiting :
          /\ TopWaiting(r)
          /\ ~HitAvailable(r)
          /\ IF CoversAllTokens(r) THEN DropLastHit(r) ELSE UNCHANGED <<poolVars, kvVars>>
    /\ phase' = "admit"
    /\ UNCHANGED <<requestVars, budget, idx, preempted, blockPreempted, scheduled, finishedIds>>

NumCached(r) == Len(hits[r]) * BlockSize

\* Mutant: an admission ignores the budget left.
NumNewIgnoringBudget(r) ==
    LET n == NumTokens(r) - NumCached(r)
    IN  IF LongPrefillThreshold > 0 THEN Min2(n, LongPrefillThreshold) ELSE n

NumNewWaiting(r) ==
    LET n == NumTokens(r) - NumCached(r)
    IN  Min2(IF LongPrefillThreshold > 0 THEN Min2(n, LongPrefillThreshold) ELSE n, budget)

Admit ==
    /\ phase = "admit"
    /\ \E r \in waiting :
          /\ TopWaiting(r)
          /\ AllocateSlots(r, computed[r] + NumCached(r) + NumNewWaiting(r))
          /\ waiting' = waiting \ {r}
          /\ status' = [status EXCEPT ![r] = "RUNNING"]
          /\ computed' = [computed EXCEPT ![r] = NumCached(r)]
          /\ running' = Append(running, r)
          /\ Schedule(r, NumCached(r), NumNewWaiting(r), TRUE)
    /\ phase' = "waiting"
    /\ UNCHANGED <<info, newlyFinished, submissions, idx, preempted, blockPreempted, finishedIds>>

\* The top request does not fit: it waits, and nobody overtakes it.  With
\* nothing running it never will fit, and schedule() raises RuntimeError.
AdmitFails ==
    /\ phase = "admit"
    /\ \E r \in waiting :
          TopWaiting(r) /\ SlotsExhausted(r, computed[r] + NumCached(r) + NumNewWaiting(r))
    /\ phase' = IF running = << >> /\ scheduled = << >> THEN "crashed" ELSE "scheduled"
    /\ UNCHANGED <<requestVars, budget, idx, preempted, blockPreempted, scheduled, finishedIds>>

WaitingDone ==
    /\ phase = "waiting"
    /\ Settled
    /\ ~WaitingTurn
    /\ phase' = "scheduled"
    /\ UNCHANGED <<poolVars, kvVars, requestVars, budget, idx, preempted, blockPreempted,
                   scheduled, finishedIds>>

-----------------------------------------------------------------------------
(* update_from_output() *)

\* The runner has executed the step (Engine.tla says what it does): the update
\* loop starts.
StartUpdate ==
    /\ phase = "scheduled"
    /\ Settled
    /\ phase' = "update"
    /\ idx' = 1
    /\ UNCHANGED <<poolVars, kvVars, requestVars, budget, preempted, blockPreempted, scheduled,
                   finishedIds>>

UpdateTurn == phase = "update" /\ Settled /\ idx <= Len(scheduled)

\* Aborted between schedule and update: skipped.
SkipAborted ==
    /\ UpdateTurn
    /\ ~IsLive(scheduled[idx].id)
    /\ idx' = idx + 1
    /\ UNCHANGED <<poolVars, kvVars, requestVars, phase, budget, preempted, blockPreempted,
                   scheduled, finishedIds>>

Advance(s) == computed' = [computed EXCEPT ![s.id] = @ + s.num]

\* A prefill chunk that does not reach the end: nothing is sampled.
UpdateChunk ==
    /\ UpdateTurn
    /\ LET s == scheduled[idx]
       IN  IsLive(s.id) /\ ~s.doSample /\ Advance(s)
    /\ idx' = idx + 1
    /\ UNCHANGED <<poolVars, kvVars, status, info, waiting, running, newlyFinished, submissions,
                   phase, budget, preempted, blockPreempted, scheduled, finishedIds>>

\* A token was sampled, whichever the model chose.
UpdateSampled ==
    /\ UpdateTurn
    /\ LET s == scheduled[idx]
       IN  /\ IsLive(s.id) /\ s.doSample /\ Advance(s)
           /\ \E t \in Token : AppendToken(s.id, t)
    /\ phase' = "check"
    /\ UNCHANGED <<status, info, waiting, running, newlyFinished, submissions,
                   idx, budget, preempted, blockPreempted, scheduled, finishedIds>>

\* check_stop on the new token, and the end of the request if it says so.
CheckStop ==
    /\ phase = "check"
    /\ LET r == scheduled[idx].id
       IN  IF StopStatus(r) = "RUNNING"
           THEN UNCHANGED <<poolVars, kvVars, status, running, newlyFinished>>
           ELSE LeaveRunning(r) /\ FreeRequest(r) /\ Finish(r, StopStatus(r))
    /\ phase' = "update"
    /\ idx' = idx + 1
    /\ UNCHANGED <<info, computed, waiting, submissions, budget, preempted, blockPreempted,
                   scheduled, finishedIds>>

\* The step is over; its output is dropped.
EndStep ==
    /\ phase = "update"
    /\ Settled
    /\ idx > Len(scheduled)
    /\ phase' = "idle"
    /\ budget' = MaxNumBatchedTokens
    /\ idx' = 1
    /\ preempted' = {}
    /\ blockPreempted' = FALSE
    /\ scheduled' = << >>
    /\ finishedIds' = {}
    /\ UNCHANGED <<poolVars, kvVars, requestVars>>

-----------------------------------------------------------------------------

\* A step of the manager inside one of its calls.
ManagerStep ==
    /\ ReleaseBlock \/ \E r \in Request : RegisterBlock(r)
    /\ UNCHANGED <<requestVars, stepVars>>

ScheduleNext ==
    \/ StartSchedule
    \/ PreemptForPriority \/ PriorityDone
    \/ ScheduleRunning \/ PreemptForBlocks \/ RunningDone
    \/ LookupPrefix \/ LookupDone \/ Admit \/ AdmitFails \/ WaitingDone

UpdateNext ==
    \/ SkipAborted \/ UpdateChunk \/ UpdateSampled \/ CheckStop
    \/ EndStep

\* The engine thread.
EngineNext == ScheduleNext \/ StartUpdate \/ UpdateNext \/ ManagerStep

ClientNext ==
    \E r \in Request :
       \/ \E prompt \in Prompts, p \in Params, prio \in Priorities : AddRequest(r, prompt, p, prio)
       \/ Abort(r)

Next == EngineNext \/ ClientNext

Spec == Init /\ [][Next]_vars

\* The engine thread keeps stepping while there is work.
FairSpec == Spec /\ WF_vars(EngineNext)

-----------------------------------------------------------------------------
(* What the scheduler promises. *)

\* Every unfinished request is in exactly one queue, the one its status names,
\* and once: no path of preemption, abort or finish loses or duplicates it.
QueuesMatchStatus ==
    /\ IsInjective(running)
    /\ \A r \in Request :
          /\ status[r] = "RUNNING" <=> r \in Range(running)
          /\ status[r] \in QueuedStatus <=> r \in waiting

\* Only running requests hold blocks, apart from the lookup in progress for the
\* request about to be admitted.  With RefCountsMatchHolders: when nothing runs
\* the whole pool is free again, whatever was preempted, aborted or refused.
OnlyRunningHoldBlocks ==
    /\ \A r \in Request : table[r] # << >> => status[r] = "RUNNING"
    /\ \A r \in Request : hits[r] # << >> => phase \in {"waiting", "admit"} /\ TopWaiting(r)
    /\ running = << >> /\ Settled /\ phase \notin {"waiting", "admit"} => Len(free) = NumBlocks

\* What the runner relies on until the step is executed: an entry starts where
\* the request's computed tokens end, stays within its tokens, and its table
\* has a slot for every one of them (torch_runner.py:318-321).  A request that the
\* same call preempts is not among them: a block-pressure victim was not served
\* before (scheduler.py:105-106), and no victim is admitted again.
ScheduledIsExecutable ==
    phase \notin {"update", "check"} =>
       \A i \in 1 .. Len(scheduled) :
          LET s == scheduled[i]
          IN  /\ s.id \notin preempted
              /\ status[s.id] = "RUNNING" =>
                 /\ s.start = computed[s.id]
                 /\ s.start + s.num <= NumTokens(s.id)
                 /\ s.blocks = table[s.id]
                 /\ s.start + s.num <= Len(s.blocks) * BlockSize
                 /\ s.doSample <=> s.start + s.num = NumTokens(s.id)

\* One step serves a request once, never more than the token budget and never
\* more than max_num_seqs requests.  spent[i] is what the first i entries take.
StepWithinLimits ==
    /\ \A i, j \in 1 .. Len(scheduled) : scheduled[i].id = scheduled[j].id => i = j
    /\ \E spent \in [1 .. Len(scheduled) -> 0 .. MaxNumBatchedTokens] :
          \A i \in 1 .. Len(scheduled) :
             spent[i] = (IF i = 1 THEN 0 ELSE spent[i - 1]) + scheduled[i].num
    /\ Len(running) <= MaxNumSeqs

\* The requests that the current call has taken from `waiting`.
Admitted == {scheduled[i].id : i \in {j \in 1 .. Len(scheduled) : scheduled[j].isNew}}

\* Preempting for priority is worth it: the slot freed in phase 0 goes in the same
\* call to a request of strictly higher priority than its victim, and to no other
\* (scheduler.py:122-123).  Only the running requests, when they use up the
\* budget, or a pool short of blocks can leave it empty.
PriorityEvictionPaysOff ==
    preempted # {} =>
       /\ \A r \in Admitted, v \in preempted : info[r].priority > info[v].priority
       /\ phase = "waiting" /\ ~WaitingTurn /\ budget > 0 => Admitted # {}

\* "A decode never starves behind new prompts" (scheduler.py:10): a step that
\* admits a request has given every request that was running its tokens.
RunningServedFirst ==
    phase = "scheduled" /\ (\E i \in 1 .. Len(scheduled) : scheduled[i].isNew) =>
       Range(running) \subseteq {scheduled[i].id : i \in 1 .. Len(scheduled)}

\* The engine as its callers see it: preemption, recomputation and chunks are
\* steps of the scheduler that change nothing of what a request has put out.
Service == INSTANCE GenerationService WITH
    state <- [r \in Request |-> IF IsLive(r) THEN "LIVE" ELSE status[r]],
    ask <- [r \in Request |-> IF status[r] = "NONE" THEN << >>
               ELSE [promptLen |-> info[r].promptLen, params |-> info[r].params]],
    output <- [r \in Request |-> IF status[r] = "NONE" THEN << >>
                  ELSE SubSeq(tokens[r], info[r].promptLen + 1, Len(tokens[r]))]

\* The scheduler implements the service: an output only grows, by one token at a
\* time and to the first token that ends it, through preemption and resumption
\* ("recomputed from scratch on resume", torch_runner.py:295), and a finished
\* request has the reason its last token gives.
ImplementsService == Service!ServiceSpec

\* schedule() never raises, whatever the cache and the queues hold.  With a pool
\* that holds one request of full length the RuntimeError of scheduler.py:145 is
\* out of reach; and the asserts of lines 101 and 141 hold: a running request
\* always has a token to compute, and so does one being admitted, even when the
\* cache covers all of its tokens.
NeverCrashes ==
    /\ phase # "crashed"
    /\ RunningTurn => NumNewRunning(running[idx]) > 0
    /\ phase = "admit" => \A r \in waiting : TopWaiting(r) => NumNewWaiting(r) > 0

\* Every request gets to an end: neither preemption under block pressure nor
\* preemption by priority makes the scheduler serve some requests forever at
\* the expense of one, nor recompute without progress.
RequestsFinish ==
    \A r \in Request : IsLive(r) ~> status[r] \in FinishedStatus

\* "Cap on prompt tokens a single request may consume in one step" (config.py:39).
PrefillChunkCapped ==
    LongPrefillThreshold > 0 =>
       \A i \in 1 .. Len(scheduled) :
          LET s == scheduled[i]
          IN  Min2(s.start + s.num, info[s.id].promptLen) - s.start <= LongPrefillThreshold
=============================================================================
