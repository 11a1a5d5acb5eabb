--------------------------- MODULE SchedulerProofs ----------------------------
(***************************************************************************)
(* Theorems about Scheduler for every pool, budget, number of slots, set   *)
(* of requests and set of parameters.                                      *)
(*                                                                         *)
(* The invariant has a part for each thing that one phase of a step leaves *)
(* for a later one to rely on: what is true of a request in every phase    *)
(* (RequestsInv), of a lookup in progress (HitsInv, AdmitInv), of the      *)
(* entries built so far (EntriesInv, EntriesExecutable, BudgetInv), of the *)
(* loop over the running requests (LoopInv, ServedInv), and of the slot    *)
(* that phase 0 frees (VictimsInv, EvictionInv).  At the end GenerationInv,*)
(* which the refinement of GenerationService needs.                        *)
(***************************************************************************)
EXTENDS Scheduler, KVCacheManagerProofs

\* info is a table over all ids, which TypeOK does not say.
SchedulerTypes == TypeOK /\ info \in [Request -> Info \cup {<< >>}]

\* The token just appended has yet to be checked.
BeingChecked(r) == phase = "check" /\ scheduled[idx].id = r

\* A queued request starts from nothing, a running one has something to
\* compute, and a live one has room for a token.
RequestsInv ==
    \A r \in Request :
       /\ table[r] # << >> => status[r] = "RUNNING"
       /\ status[r] \in QueuedStatus => computed[r] = 0
       /\ status[r] = "RUNNING" => computed[r] < Len(tokens[r])
       /\ IsLive(r) => tokens[r] # << >>
       /\ IsLive(r) /\ ~BeingChecked(r) => Len(tokens[r]) < MaxModelLen

\* References taken by a lookup are the top request's, while it has its turn.
HitsInv ==
    \A r \in Request :
       hits[r] # << >> => /\ phase \in {"waiting", "admit"}
                          /\ TopWaiting(r)
                          /\ budget > 0
                          /\ Len(running) < MaxNumSeqs

\* The lookup has left the top request a token to compute.
AdmitInv ==
    phase = "admit" =>
       /\ budget > 0
       /\ Len(running) < MaxNumSeqs
       /\ \A r \in waiting : TopWaiting(r) => NumCached(r) < NumTokens(r)

Slots == Len(running) <= MaxNumSeqs

\* Each entry is for a request of its own, which does not wait.
EntriesInv ==
    /\ \A i, j \in 1 .. Len(scheduled) : scheduled[i].id = scheduled[j].id => i = j
    /\ \A i \in 1 .. Len(scheduled) : scheduled[i].id \notin waiting

\* The update has not come to entry i.
Unprocessed(i) ==
    /\ phase = "update" => i >= idx
    /\ phase = "check" => i > idx

Executable(s) ==
    /\ s.start = computed[s.id]
    /\ s.start + s.num <= NumTokens(s.id)
    /\ s.blocks = table[s.id]
    /\ s.start + s.num <= Len(s.blocks) * BlockSize
    /\ s.doSample <=> s.start + s.num = NumTokens(s.id)

EntriesExecutable ==
    \A i \in 1 .. Len(scheduled) :
       Unprocessed(i) /\ status[scheduled[i].id] = "RUNNING" => Executable(scheduled[i])

\* What the entries take is what the budget has lost.
BudgetInv ==
    \E spent \in [0 .. Len(scheduled) -> 0 .. MaxNumBatchedTokens] :
       /\ spent[0] = 0
       /\ \A i \in 1 .. Len(scheduled) : spent[i] = spent[i - 1] + scheduled[i].num
       /\ spent[Len(scheduled)] + budget = MaxNumBatchedTokens

NoneNew == \A i \in 1 .. Len(scheduled) : ~scheduled[i].isNew

\* Where the loops are.
LoopInv ==
    /\ phase \in {"idle", "priority"} => scheduled = << >> /\ idx = 1 /\ ~blockPreempted
    /\ phase = "idle" => preempted = {}
    /\ phase = "running" =>
          /\ idx = Len(scheduled) + 1
          /\ idx <= Len(running) + 1
          /\ \A i \in 1 .. Len(scheduled) : scheduled[i].id = running[i]
          /\ NoneNew
    /\ phase = "check" => idx <= Len(scheduled) /\ status[scheduled[idx].id] = "RUNNING"
    /\ blockPreempted => NoneNew /\ phase \notin {"waiting", "admit"}

\* Admission, and budget left for it, come after every running request's turn.
ServedInv ==
    (\/ phase \in {"waiting", "admit"} /\ budget > 0
     \/ phase \in {"waiting", "admit", "scheduled"} /\ ~NoneNew)
    => Range(running) \subseteq {scheduled[i].id : i \in 1 .. Len(scheduled)}

Scheduling == {"priority", "running", "waiting", "admit"}

\* A victim waits until the call is over, and is served nothing in it.
VictimsInv ==
    /\ phase \in Scheduling => preempted \subseteq waiting
    /\ phase \notin {"update", "check"} =>
          \A i \in 1 .. Len(scheduled) : scheduled[i].id \notin preempted

\* One slot is free after an eviction for priority, until the request that it
\* was made for takes it.
EvictionInv ==
    /\ \A r \in Admitted, v \in preempted : info[r].priority > info[v].priority
    /\ phase \in Scheduling /\ preempted # {} /\ ~blockPreempted =>
          \/ Admitted # {} /\ Len(running) = MaxNumSeqs
          \/ /\ Admitted = {}
             /\ Len(running) = MaxNumSeqs - 1
             /\ \E t \in waiting :
                   TopWaiting(t) /\ \A v \in preempted : info[t].priority > info[v].priority

SchedInv ==
    /\ SchedulerTypes
    /\ KVInv
    /\ QueuesMatchStatus
    /\ RequestsInv
    /\ HitsInv
    /\ AdmitInv
    /\ Slots
    /\ EntriesInv
    /\ EntriesExecutable
    /\ BudgetInv
    /\ LoopInv
    /\ ServedInv
    /\ VictimsInv
    /\ EvictionInv

-----------------------------------------------------------------------------
(* What the parts of the invariant say together. *)

\* The types of the state, unfolded.
LEMMA SchedulerTypesLemma ==
  ASSUME SchedulerTypes
  PROVE  /\ status \in [Request -> Status] /\ computed \in [Request -> Nat]
         /\ waiting \subseteq Request /\ running \in Seq(Request) /\ Len(running) \in Nat
         /\ phase \in Phase /\ budget \in Nat /\ idx \in Nat \ {0}
         /\ preempted \subseteq Request /\ blockPreempted \in BOOLEAN
         /\ scheduled \in Seq(ScheduledRequest) /\ Len(scheduled) \in Nat
         /\ tokens \in [Request -> Seq(Token)] /\ table \in [Request -> Seq(Block)]
         /\ hits \in [Request -> Seq(Block)]
         /\ \A r \in Request : Len(tokens[r]) \in Nat /\ Len(table[r]) \in Nat /\ Len(hits[r]) \in Nat
         /\ \A r \in Request : status[r] # "NONE" => info[r] \in Info
         /\ info \in [Request -> Info \cup {<< >>}]
BY DEF SchedulerTypes, TypeOK, KVTypeOK

\* Priorities and arrivals are numbers.
LEMMA InfoType ==
  ASSUME NEW i \in Info
  PROVE  /\ i.promptLen \in Nat /\ i.params \in Params
         /\ i.priority \in Int /\ i.arrival \in Int
<1>1. i.promptLen \in Nat /\ i.params \in Params /\ i.priority \in Priorities /\ i.arrival \in Nat
  BY DEF Info
<1>2. i.priority \in Int
  BY <1>1, SchedulerAssumption
<1> QED BY <1>1, <1>2

\* An entry of the output, unfolded.
LEMMA EntryType ==
  ASSUME SchedulerTypes, NEW i \in 1 .. Len(scheduled)
  PROVE  /\ scheduled[i] \in ScheduledRequest
         /\ scheduled[i].id \in Request /\ scheduled[i].start \in Nat /\ scheduled[i].num \in Nat
         /\ scheduled[i].blocks \in Seq(Block)
         /\ scheduled[i].doSample \in BOOLEAN /\ scheduled[i].isNew \in BOOLEAN
<1>1. scheduled[i] \in ScheduledRequest
  BY SchedulerTypesLemma
<1> QED BY <1>1 DEF ScheduledRequest

\* A request is queued, running or over; the two queues are disjoint.
LEMMA QueueLemma ==
  ASSUME SchedulerTypes, QueuesMatchStatus
  PROVE  /\ \A r \in waiting : r \in Request /\ status[r] \in QueuedStatus /\ info[r] \in Info
         /\ \A r \in Range(running) : r \in Request /\ status[r] = "RUNNING"
         /\ \A i \in 1 .. Len(running) :
               /\ running[i] \in Request /\ running[i] \in Range(running)
               /\ status[running[i]] = "RUNNING" /\ running[i] \notin waiting
         /\ \A i, j \in 1 .. Len(running) : running[i] = running[j] => i = j
         /\ waiting \cap Range(running) = {}
<1>1. /\ running \in Seq(Request) /\ waiting \subseteq Request
      /\ \A r \in Request : status[r] # "NONE" => info[r] \in Info
  BY SchedulerTypesLemma
<1>2. \A r \in waiting : r \in Request /\ status[r] \in QueuedStatus /\ info[r] \in Info
  BY <1>1 DEF QueuesMatchStatus, QueuedStatus
<1>3. \A i \in 1 .. Len(running) : running[i] \in Request /\ running[i] \in Range(running)
  BY <1>1, RangeOfSequence
<1>4. \A r \in Range(running) : r \in Request /\ status[r] = "RUNNING"
  <2>1. \A r \in Range(running) : r \in Request
    BY <1>1, RangeOfSequence
  <2> QED BY <2>1 DEF QueuesMatchStatus
<1>5. \A i, j \in 1 .. Len(running) : running[i] = running[j] => i = j
  BY <1>1, InjectiveSequence DEF QueuesMatchStatus
<1>6. \A r \in Range(running) : r \notin waiting
  BY <1>2, <1>4 DEF QueuedStatus
<1> QED BY <1>2, <1>3, <1>4, <1>5, <1>6

\* The top of the waiting requests is unique.
LEMMA TopUnique ==
  ASSUME SchedulerTypes, QueuesMatchStatus, NEW r, NEW s, TopWaiting(r), TopWaiting(s)
  PROVE  r = s
<1>1. r \in waiting /\ s \in waiting /\ info[r] \in Info /\ info[s] \in Info
  BY QueueLemma DEF TopWaiting
<1>2. /\ info[r].priority \in Int /\ info[s].priority \in Int
      /\ info[r].arrival \in Int /\ info[s].arrival \in Int
  BY <1>1, InfoType
<1>3. ASSUME r # s PROVE FALSE
  <2>1. Outranks(r, s) /\ Outranks(s, r)
    BY <1>1, <1>3 DEF TopWaiting
  <2> QED BY <1>2, <2>1 DEF Outranks
<1> QED BY <1>3

\* In its turn a running request gets at least one token (the assert of
\* scheduler.py:101) and never more than it has, or the budget.
LEMMA RunningTurnLemma ==
  ASSUME SchedInv, RunningTurn
  PROVE  LET r == running[idx]
             n == NumNewRunning(r)
         IN  /\ r \in Request /\ r \in Range(running) /\ status[r] = "RUNNING"
             /\ idx \in 1 .. Len(running)
             /\ n \in Nat \ {0} /\ n <= budget
             /\ computed[r] \in Nat /\ computed[r] + n \in 1 .. Len(tokens[r])
<1> DEFINE r == running[idx]
<1>1. idx \in 1 .. Len(running) /\ budget > 0 /\ budget \in Nat
  BY SchedulerTypesLemma DEF SchedInv, RunningTurn
<1>2. r \in Request /\ r \in Range(running) /\ status[r] = "RUNNING"
  BY <1>1, QueueLemma DEF SchedInv
<1> HIDE DEF r
<1>3. computed[r] \in Nat /\ Len(tokens[r]) \in Nat /\ computed[r] < Len(tokens[r])
  BY <1>2, SchedulerTypesLemma DEF SchedInv, RequestsInv
<1>4. /\ NumNewRunning(r) \in Nat \ {0} /\ NumNewRunning(r) <= budget
      /\ computed[r] + NumNewRunning(r) \in 1 .. Len(tokens[r])
  BY <1>1, <1>3 DEF NumNewRunning, NumTokens, Min2
<1> QED BY <1>1, <1>2, <1>3, <1>4 DEF r

\* A request being admitted gets at least one token (the assert of
\* scheduler.py:141).
LEMMA AdmitTurnLemma ==
  ASSUME SchedInv, phase = "admit", NEW r, TopWaiting(r)
  PROVE  LET n == NumNewWaiting(r)
         IN  /\ r \in Request /\ r \in waiting /\ status[r] \in QueuedStatus
             /\ n \in Nat \ {0} /\ n <= budget
             /\ computed[r] = 0 /\ NumCached(r) \in Nat
             /\ NumCached(r) + n \in 1 .. Len(tokens[r])
             /\ computed[r] + NumCached(r) + n = NumCached(r) + n
<1>1. r \in Request /\ r \in waiting /\ status[r] \in QueuedStatus
  BY QueueLemma DEF SchedInv, TopWaiting
<1>2. budget \in Nat /\ budget > 0 /\ NumCached(r) < NumTokens(r)
  BY <1>1, SchedulerTypesLemma DEF SchedInv, AdmitInv
<1>3. Len(tokens[r]) \in Nat /\ Len(hits[r]) \in Nat
  BY <1>1, SchedulerTypesLemma DEF SchedInv
<1>4. NumCached(r) \in Nat
  BY <1>3, BlocksMonotone, BlockSizeAssumption DEF NumCached
<1>5. computed[r] = 0
  BY <1>1 DEF SchedInv, RequestsInv
<1>6. /\ NumNewWaiting(r) \in Nat \ {0} /\ NumNewWaiting(r) <= budget
      /\ NumCached(r) + NumNewWaiting(r) \in 1 .. Len(tokens[r])
  <2> DEFINE m == NumTokens(r) - NumCached(r)
             c == IF LongPrefillThreshold > 0 THEN Min2(m, LongPrefillThreshold) ELSE m
  <2>1. m \in Nat \ {0} /\ NumCached(r) + m = Len(tokens[r])
    BY <1>2, <1>3, <1>4 DEF NumTokens
  <2>2. NumNewWaiting(r) = Min2(c, budget)
    BY DEF NumNewWaiting
  <2> HIDE DEF m
  <2>3. c \in 1 .. m
    BY <2>1, SchedulerAssumption DEF Min2
  <2> HIDE DEF c
  <2>4. NumNewWaiting(r) \in 1 .. m /\ NumNewWaiting(r) <= budget
    BY <1>2, <2>2, <2>3, <2>1 DEF Min2
  <2> QED BY <1>3, <1>4, <2>1, <2>4
<1>7. computed[r] + NumCached(r) + NumNewWaiting(r) = NumCached(r) + NumNewWaiting(r)
  BY <1>4, <1>5, <1>6
<1> QED BY <1>1, <1>4, <1>5, <1>6, <1>7

\* A request that leaves `running` is the only one that does.
LEMMA LeaveRunningLemma ==
  ASSUME SchedulerTypes, QueuesMatchStatus, NEW r, LeaveRunning(r)
  PROVE  /\ r \in Request /\ r \in Range(running) /\ status[r] = "RUNNING"
         /\ running' \in Seq(Request) /\ Len(running') = Len(running) - 1
         /\ Len(running) > 0
         /\ Range(running') = Range(running) \ {r} /\ IsInjective(running')
<1>1. PICK i \in 1 .. Len(running) : running[i] = r /\ running' = RemoveAt(running, i)
  BY DEF LeaveRunning
<1>2. running \in Seq(Request) /\ IsInjective(running) /\ Len(running) \in Nat
  BY SchedulerTypesLemma DEF QueuesMatchStatus
<1>3. r \in Request /\ r \in Range(running) /\ status[r] = "RUNNING"
  BY <1>1, QueueLemma
<1> QED BY <1>1, <1>2, <1>3, RemoveAtLemma

-----------------------------------------------------------------------------
(* The scheduler calls the manager as the manager's specification allows. *)

\* Requests in the queues stay within max_model_len, and every allocation is
\* for some of the request's own tokens.
LEMMA ManagerCalls == SchedInv /\ [Next]_vars => [KVNext]_<<poolVars, kvVars>>
<1> SUFFICES ASSUME SchedInv, [Next]_vars PROVE [KVNext]_<<poolVars, kvVars>>
  OBVIOUS
<1> USE DEF SchedInv
<1>1. ASSUME NEW r \in Request, NEW prompt \in Prompts, NEW p \in Params, NEW prio \in Priorities,
             AddRequest(r, prompt, p, prio)
      PROVE  KVNext
  BY <1>1 DEF AddRequest, KVNext
<1>2. ASSUME NEW r \in Request, Abort(r) PROVE KVNext \/ UNCHANGED <<poolVars, kvVars>>
  BY <1>2 DEF Abort, KVNext
<1>3. ASSUME PreemptForPriority PROVE KVNext
  BY <1>3 DEF PreemptForPriority, Preempt, KVNext
<1>4. ASSUME ScheduleRunning PROVE KVNext
  BY <1>4, RunningTurnLemma DEF ScheduleRunning, KVNext
<1>5. ASSUME PreemptForBlocks PROVE KVNext
  <2>1. running # << >> /\ running \in Seq(Request)
    BY <1>5, RunningTurnLemma, SchedulerTypesLemma DEF PreemptForBlocks
  <2>2. Last(running) \in Request
    BY <2>1, FrontLemma
  <2> QED BY <1>5, <2>2 DEF PreemptForBlocks, Preempt, KVNext
<1>6. ASSUME LookupPrefix PROVE KVNext
  BY <1>6, QueueLemma DEF LookupPrefix, KVNext
<1>7. ASSUME LookupDone PROVE KVNext \/ UNCHANGED <<poolVars, kvVars>>
  BY <1>7, QueueLemma DEF LookupDone, KVNext
<1>8. ASSUME Admit PROVE KVNext
  <2>1. PICK r \in waiting :
           TopWaiting(r) /\ AllocateSlots(r, computed[r] + NumCached(r) + NumNewWaiting(r))
    BY <1>8 DEF Admit
  <2>2. r \in Request /\ computed[r] + NumCached(r) + NumNewWaiting(r) \in 1 .. Len(tokens[r])
    BY <1>8, <2>1, AdmitTurnLemma DEF Admit
  <2> QED BY <2>1, <2>2 DEF KVNext
<1>9. ASSUME AdmitFails PROVE KVNext
  <2>1. PICK r \in waiting :
           TopWaiting(r) /\ SlotsExhausted(r, computed[r] + NumCached(r) + NumNewWaiting(r))
    BY <1>9 DEF AdmitFails
  <2>2. r \in Request /\ computed[r] + NumCached(r) + NumNewWaiting(r) \in 1 .. Len(tokens[r])
    BY <1>9, <2>1, AdmitTurnLemma DEF AdmitFails
  <2> QED BY <2>1, <2>2 DEF KVNext
<1>10. ASSUME UpdateSampled PROVE KVNext
  <2> DEFINE r == scheduled[idx].id
  <2>1. PICK t \in Token : AppendToken(r, t)
    BY <1>10 DEF UpdateSampled
  <2>2. IsLive(r) /\ phase = "update" /\ idx \in 1 .. Len(scheduled)
    BY <1>10, SchedulerTypesLemma DEF UpdateSampled, UpdateTurn
  <2>3. r \in Request
    BY <2>2, EntryType
  <2> HIDE DEF r
  <2>4. Len(tokens[r]) < MaxModelLen
    BY <2>2, <2>3 DEF RequestsInv, BeingChecked
  <2> QED BY <2>1, <2>3, <2>4 DEF KVNext
<1>11. ASSUME CheckStop PROVE KVNext \/ UNCHANGED <<poolVars, kvVars>>
  <2>1. idx \in 1 .. Len(scheduled)
    BY <1>11, SchedulerTypesLemma DEF CheckStop, LoopInv
  <2>2. scheduled[idx].id \in Request
    BY <2>1, EntryType
  <2> QED BY <1>11, <2>2 DEF CheckStop, KVNext
<1>12. ASSUME ManagerStep PROVE KVNext
  BY <1>12 DEF ManagerStep, KVNext
<1>13. ASSUME \/ StartSchedule \/ PriorityDone \/ RunningDone \/ WaitingDone
              \/ StartUpdate \/ SkipAborted \/ UpdateChunk \/ EndStep
       PROVE  UNCHANGED <<poolVars, kvVars>>
  BY <1>13 DEF StartSchedule, PriorityDone, RunningDone, WaitingDone, StartUpdate, SkipAborted,
               UpdateChunk, EndStep
<1>14. ASSUME UNCHANGED vars PROVE UNCHANGED <<poolVars, kvVars>>
  BY <1>14 DEF vars
<1> HIDE DEF SchedInv
<1> QED
  BY <1>1, <1>2, <1>3, <1>4, <1>5, <1>6, <1>7, <1>8, <1>9, <1>10, <1>11, <1>12, <1>13, <1>14
  DEF Next, EngineNext, ScheduleNext, UpdateNext, ClientNext

-----------------------------------------------------------------------------
(* Steps of the scheduler that touch no request. *)

\* What such a step leaves alone.
LEMMA RequestsFrame ==
  ASSUME SchedInv,
         UNCHANGED <<poolVars, kvVars, status, info, computed, waiting, running>>
  PROVE  /\ KVInv' /\ QueuesMatchStatus' /\ Slots'
         /\ \A r \in Request : TopWaiting(r)' <=> TopWaiting(r)
         /\ \A r \in Request : NumCached(r)' = NumCached(r) /\ NumTokens(r)' = NumTokens(r)
         /\ \A r \in Request : IsLive(r)' <=> IsLive(r)
         /\ (\A r \in Request : BeingChecked(r) => BeingChecked(r)') => RequestsInv'
<1>1. KVInv'
  BY KVNextInv DEF SchedInv
<1>2. QueuesMatchStatus' /\ Slots'
  BY DEF SchedInv, QueuesMatchStatus, Slots
<1>3. \A r \in Request : TopWaiting(r)' <=> TopWaiting(r)
  BY DEF TopWaiting, Outranks
<1>4. \A r \in Request : NumCached(r)' = NumCached(r) /\ NumTokens(r)' = NumTokens(r)
  BY DEF NumCached, NumTokens, kvVars
<1>5. \A r \in Request : IsLive(r)' <=> IsLive(r)
  BY DEF IsLive
<1>6. ASSUME \A r \in Request : BeingChecked(r) => BeingChecked(r)' PROVE RequestsInv'
  BY <1>5, <1>6 DEF SchedInv, RequestsInv, kvVars
<1> QED BY <1>1, <1>2, <1>3, <1>4, <1>5, <1>6

\* The output so far is left alone too.
LEMMA EntriesFrame ==
  ASSUME SchedInv, UNCHANGED <<poolVars, kvVars, status, info, computed, waiting, running>>,
         UNCHANGED <<budget, preempted, blockPreempted, scheduled>>
  PROVE  /\ EntriesInv' /\ BudgetInv'
         /\ Admitted' = Admitted
         /\ (\A i \in 1 .. Len(scheduled) : Unprocessed(i)' => Unprocessed(i)) => EntriesExecutable'
         /\ (NoneNew' <=> NoneNew)
<1>1. EntriesInv' /\ BudgetInv' /\ Admitted' = Admitted /\ (NoneNew' <=> NoneNew)
  BY DEF SchedInv, EntriesInv, BudgetInv, Admitted, NoneNew
<1>2. ASSUME \A i \in 1 .. Len(scheduled) : Unprocessed(i)' => Unprocessed(i)
      PROVE  EntriesExecutable'
  <2> SUFFICES ASSUME NEW i \in 1 .. Len(scheduled), Unprocessed(i)',
                      status[scheduled[i].id] = "RUNNING"
               PROVE  Executable(scheduled[i])'
    BY DEF EntriesExecutable
  <2>1. Executable(scheduled[i])
    BY <1>2 DEF SchedInv, EntriesExecutable
  <2> QED BY <2>1 DEF Executable, NumTokens, kvVars
<1> QED BY <1>1, <1>2

\* The call begins: the runner is told who finished since the last one.
LEMMA StartScheduleInv ==
  ASSUME SchedInv, StartSchedule
  PROVE  SchedInv'
<1>1. /\ phase = "idle" /\ phase' = "priority" /\ finishedIds' = newlyFinished /\ newlyFinished' = {}
      /\ UNCHANGED <<poolVars, kvVars, status, info, computed, waiting, running>>
      /\ UNCHANGED <<submissions, budget, idx, preempted, blockPreempted, scheduled>>
  BY DEF StartSchedule
<1>2. KVInv' /\ QueuesMatchStatus' /\ Slots' /\ RequestsInv'
  BY <1>1, RequestsFrame DEF BeingChecked
<1>3. EntriesInv' /\ BudgetInv' /\ EntriesExecutable'
  BY <1>1, EntriesFrame DEF Unprocessed
<1>4. SchedulerTypes'
  BY <1>1, <1>2 DEF SchedInv, SchedulerTypes, TypeOK, KVInv, Phase
<1>5. HitsInv' /\ AdmitInv'
  BY <1>1 DEF SchedInv, HitsInv, AdmitInv, kvVars
<1>6. LoopInv' /\ ServedInv' /\ VictimsInv' /\ EvictionInv'
  BY <1>1 DEF SchedInv, LoopInv, ServedInv, VictimsInv, EvictionInv, Admitted
<1> QED BY <1>2, <1>3, <1>4, <1>5, <1>6 DEF SchedInv

\* No slot, or none worth freeing: on to the running requests.
LEMMA PriorityDoneInv ==
  ASSUME SchedInv, PriorityDone
  PROVE  SchedInv'
<1>1. /\ phase = "priority" /\ phase' = "running"
      /\ UNCHANGED <<poolVars, kvVars, status, info, computed, waiting, running>>
      /\ UNCHANGED <<newlyFinished, submissions, budget, idx, preempted, blockPreempted, scheduled,
                     finishedIds>>
  BY DEF PriorityDone, requestVars
<1>2. KVInv' /\ QueuesMatchStatus' /\ Slots' /\ RequestsInv'
  BY <1>1, RequestsFrame DEF BeingChecked
<1>3. EntriesInv' /\ BudgetInv' /\ EntriesExecutable' /\ Admitted' = Admitted
  BY <1>1, EntriesFrame DEF Unprocessed
<1>4. SchedulerTypes'
  BY <1>1, <1>2 DEF SchedInv, SchedulerTypes, TypeOK, KVInv, Phase
<1>5. HitsInv' /\ AdmitInv'
  BY <1>1 DEF SchedInv, HitsInv, AdmitInv, kvVars
<1>6. LoopInv'
  BY <1>1, SchedulerTypesLemma DEF SchedInv, LoopInv, NoneNew
<1>7. ServedInv' /\ VictimsInv'
  BY <1>1 DEF SchedInv, ServedInv, VictimsInv, Scheduling
<1>8. EvictionInv'
  BY <1>1, <1>3 DEF SchedInv, EvictionInv, Scheduling, TopWaiting, Outranks
<1> QED BY <1>2, <1>3, <1>4, <1>5, <1>6, <1>7, <1>8 DEF SchedInv

\* Every running request had its turn, or the budget is spent; a call that ran
\* out of blocks admits nobody.
LEMMA RunningDoneInv ==
  ASSUME SchedInv, RunningDone
  PROVE  SchedInv'
<1>1. /\ phase = "running" /\ (idx > Len(running) \/ budget = 0)
      /\ phase' = IF blockPreempted THEN "scheduled" ELSE "waiting"
      /\ UNCHANGED <<poolVars, kvVars, status, info, computed, waiting, running>>
      /\ UNCHANGED <<newlyFinished, submissions, budget, idx, preempted, blockPreempted, scheduled,
                     finishedIds>>
  BY DEF RunningDone, requestVars
<1>2. KVInv' /\ QueuesMatchStatus' /\ Slots' /\ RequestsInv'
  BY <1>1, RequestsFrame DEF BeingChecked, RunningDone
<1>3. EntriesInv' /\ BudgetInv' /\ EntriesExecutable' /\ Admitted' = Admitted
  BY <1>1, EntriesFrame DEF Unprocessed, RunningDone
<1>4. SchedulerTypes'
  BY <1>1, <1>2 DEF SchedInv, SchedulerTypes, TypeOK, KVInv, Phase
<1>5. HitsInv' /\ AdmitInv'
  BY <1>1 DEF SchedInv, HitsInv, AdmitInv, kvVars
<1>6. LoopInv' /\ VictimsInv'
  BY <1>1 DEF SchedInv, LoopInv, NoneNew, VictimsInv, Scheduling
<1>7. ServedInv'
  <2> SUFFICES ASSUME phase' = "waiting", budget > 0, NEW r \in Range(running)
               PROVE  \E i \in 1 .. Len(scheduled) : scheduled[i].id = r
    BY <1>1 DEF SchedInv, ServedInv, LoopInv, NoneNew
  <2>1. PICK i \in 1 .. Len(running) : running[i] = r
    BY SchedulerTypesLemma, RangeOfSequence DEF SchedInv
  <2>2. i \in 1 .. Len(scheduled) /\ scheduled[i].id = running[i]
    BY <1>1, SchedulerTypesLemma, SMTT(40) DEF SchedInv, LoopInv
  <2> QED BY <2>1, <2>2
<1>8. EvictionInv'
  BY <1>1, <1>3 DEF SchedInv, EvictionInv, Scheduling, TopWaiting, Outranks
<1> QED BY <1>2, <1>3, <1>4, <1>5, <1>6, <1>7, <1>8 DEF SchedInv

\* Nobody else can be admitted: the output is complete.
LEMMA WaitingDoneInv ==
  ASSUME SchedInv, WaitingDone
  PROVE  SchedInv'
<1>1. /\ phase = "waiting" /\ phase' = "scheduled" /\ ~WaitingTurn
      /\ UNCHANGED <<poolVars, kvVars, status, info, computed, waiting, running>>
      /\ UNCHANGED <<newlyFinished, submissions, budget, idx, preempted, blockPreempted, scheduled,
                     finishedIds>>
  BY DEF WaitingDone, requestVars
<1>2. KVInv' /\ QueuesMatchStatus' /\ Slots' /\ RequestsInv'
  BY <1>1, RequestsFrame DEF BeingChecked
<1>3. EntriesInv' /\ BudgetInv' /\ EntriesExecutable' /\ Admitted' = Admitted
  BY <1>1, EntriesFrame DEF Unprocessed
<1>4. SchedulerTypes'
  BY <1>1, <1>2 DEF SchedInv, SchedulerTypes, TypeOK, KVInv, Phase
<1>5. HitsInv' /\ AdmitInv'
  <2>1. \A r \in Request : hits[r] = << >>
    BY <1>1 DEF SchedInv, HitsInv, TopWaiting, WaitingTurn
  <2> QED BY <1>1, <2>1 DEF HitsInv, AdmitInv, kvVars
<1>6. LoopInv' /\ VictimsInv' /\ ServedInv'
  BY <1>1 DEF SchedInv, LoopInv, NoneNew, VictimsInv, ServedInv, Scheduling
<1>7. EvictionInv'
  BY <1>1, <1>3 DEF SchedInv, EvictionInv, Scheduling
<1> QED BY <1>2, <1>3, <1>4, <1>5, <1>6, <1>7 DEF SchedInv

\* The update starts at the first entry.
LEMMA StartUpdateInv ==
  ASSUME SchedInv, StartUpdate
  PROVE  SchedInv'
<1>1. /\ phase = "scheduled" /\ phase' = "update" /\ idx' = 1
      /\ UNCHANGED <<poolVars, kvVars, status, info, computed, waiting, running>>
      /\ UNCHANGED <<newlyFinished, submissions, budget, preempted, blockPreempted, scheduled,
                     finishedIds>>
  BY DEF StartUpdate, requestVars
<1>2. KVInv' /\ QueuesMatchStatus' /\ Slots' /\ RequestsInv'
  BY <1>1, RequestsFrame DEF BeingChecked
<1>3. EntriesInv' /\ BudgetInv' /\ EntriesExecutable' /\ Admitted' = Admitted
  BY <1>1, EntriesFrame DEF Unprocessed
<1>4. SchedulerTypes'
  BY <1>1, <1>2 DEF SchedInv, SchedulerTypes, TypeOK, KVInv, Phase
<1>5. HitsInv' /\ AdmitInv'
  BY <1>1 DEF SchedInv, HitsInv, AdmitInv, kvVars
<1>6. LoopInv' /\ VictimsInv' /\ ServedInv'
  BY <1>1 DEF SchedInv, LoopInv, NoneNew, VictimsInv, ServedInv, Scheduling
<1>7. EvictionInv'
  BY <1>1, <1>3 DEF SchedInv, EvictionInv, Scheduling
<1> QED BY <1>2, <1>3, <1>4, <1>5, <1>6, <1>7 DEF SchedInv

\* The entry of a request aborted in the meantime is passed over.
LEMMA SkipAbortedInv ==
  ASSUME SchedInv, SkipAborted
  PROVE  SchedInv'
<1>1. /\ phase = "update" /\ phase' = phase /\ idx' = idx + 1
      /\ UNCHANGED <<poolVars, kvVars, status, info, computed, waiting, running>>
      /\ UNCHANGED <<newlyFinished, submissions, budget, preempted, blockPreempted, scheduled,
                     finishedIds>>
  BY DEF SkipAborted, UpdateTurn, requestVars
<1>2. KVInv' /\ QueuesMatchStatus' /\ Slots' /\ RequestsInv'
  BY <1>1, RequestsFrame DEF BeingChecked
<1>3. EntriesInv' /\ BudgetInv' /\ EntriesExecutable' /\ Admitted' = Admitted
  BY <1>1, EntriesFrame, SchedulerTypesLemma DEF SchedInv, Unprocessed
<1>4. SchedulerTypes'
  BY <1>1, <1>2 DEF SchedInv, SchedulerTypes, TypeOK, KVInv, Phase
<1>5. HitsInv' /\ AdmitInv'
  BY <1>1 DEF SchedInv, HitsInv, AdmitInv, kvVars
<1>6. LoopInv' /\ VictimsInv' /\ ServedInv'
  BY <1>1 DEF SchedInv, LoopInv, NoneNew, VictimsInv, ServedInv, Scheduling
<1>7. EvictionInv'
  BY <1>1, <1>3 DEF SchedInv, EvictionInv, Scheduling
<1> QED BY <1>2, <1>3, <1>4, <1>5, <1>6, <1>7 DEF SchedInv

\* The output is dropped, and the next call starts with the whole budget.
LEMMA EndStepInv ==
  ASSUME SchedInv, EndStep
  PROVE  SchedInv'
<1>1. /\ phase = "update" /\ phase' = "idle" /\ idx' = 1 /\ budget' = MaxNumBatchedTokens
      /\ preempted' = {} /\ blockPreempted' = FALSE /\ scheduled' = << >> /\ finishedIds' = {}
      /\ UNCHANGED <<poolVars, kvVars, status, info, computed, waiting, running>>
      /\ UNCHANGED <<newlyFinished, submissions>>
  BY DEF EndStep, requestVars
<1>2. KVInv' /\ QueuesMatchStatus' /\ Slots' /\ RequestsInv'
  BY <1>1, RequestsFrame DEF BeingChecked
<1>3. EntriesInv' /\ EntriesExecutable' /\ Admitted' = {} /\ NoneNew'
  BY <1>1 DEF EntriesInv, EntriesExecutable, Admitted, NoneNew
<1>4. BudgetInv'
  <2> DEFINE spent == [i \in 0 .. 0 |-> 0]
  <2>1. Len(scheduled') = 0
    BY <1>1
  <2>2. /\ spent \in [0 .. Len(scheduled') -> 0 .. MaxNumBatchedTokens] /\ spent[0] = 0
        /\ \A i \in 1 .. Len(scheduled') : spent[i] = spent[i - 1] + scheduled'[i].num
        /\ spent[Len(scheduled')] + budget' = MaxNumBatchedTokens
    BY <1>1, <2>1, SchedulerAssumption
  <2> HIDE DEF spent
  <2> QED BY <2>2 DEF BudgetInv
<1>5. SchedulerTypes'
  <2>1. budget' \in Nat /\ idx' \in Nat \ {0}
    BY <1>1, SchedulerAssumption
  <2>2. << >> \in Seq(ScheduledRequest)
    OBVIOUS
  <2>3. phase' \in Phase
    BY <1>1 DEF Phase
  <2> QED BY <1>1, <1>2, <2>1, <2>2, <2>3 DEF SchedInv, SchedulerTypes, TypeOK, KVInv
<1>6. HitsInv' /\ AdmitInv'
  BY <1>1 DEF SchedInv, HitsInv, AdmitInv, kvVars
<1>7. LoopInv' /\ VictimsInv' /\ ServedInv' /\ EvictionInv'
  BY <1>1, <1>3 DEF LoopInv, VictimsInv, ServedInv, Scheduling, EvictionInv
<1> QED BY <1>2, <1>3, <1>4, <1>5, <1>6, <1>7 DEF SchedInv

\* A step that changes nothing but the pool and the manager's bookkeeping.
LEMMA UnchangedInv ==
  ASSUME SchedInv, KVInv', UNCHANGED <<tokens, table, hits>>,
         UNCHANGED <<status, info, computed, waiting, running, newlyFinished, submissions>>,
         UNCHANGED <<phase, budget, idx, preempted, blockPreempted, scheduled, finishedIds>>
  PROVE  SchedInv'
<1>1. /\ UNCHANGED <<tokens, table, hits>>
      /\ UNCHANGED <<status, info, computed, waiting, running, newlyFinished, submissions>>
      /\ UNCHANGED <<phase, budget, idx, preempted, blockPreempted, scheduled, finishedIds>>
  OBVIOUS
<1>2. SchedulerTypes'
  BY <1>1 DEF SchedInv, SchedulerTypes, TypeOK, KVInv
<1>3. QueuesMatchStatus' /\ Slots' /\ RequestsInv'
  BY <1>1 DEF SchedInv, QueuesMatchStatus, Slots, RequestsInv, IsLive, BeingChecked
<1>4. HitsInv' /\ AdmitInv'
  BY <1>1 DEF SchedInv, HitsInv, AdmitInv, TopWaiting, Outranks, NumCached, NumTokens
<1>5. EntriesInv' /\ EntriesExecutable' /\ BudgetInv'
  BY <1>1 DEF SchedInv, EntriesInv, EntriesExecutable, BudgetInv, Executable, NumTokens, Unprocessed
<1>6. LoopInv' /\ ServedInv' /\ VictimsInv'
  BY <1>1 DEF SchedInv, LoopInv, NoneNew, ServedInv, VictimsInv
<1>7. EvictionInv'
  <2>1. Admitted' = Admitted /\ \A r \in Request : TopWaiting(r)' <=> TopWaiting(r)
    BY <1>1 DEF Admitted, TopWaiting, Outranks
  <2> QED BY <1>1, <2>1, SchedulerTypesLemma DEF SchedInv, EvictionInv
<1> QED BY <1>2, <1>3, <1>4, <1>5, <1>6, <1>7 DEF SchedInv

\* A step inside a call of the manager: no table, token or reference of a
\* lookup changes.
LEMMA ManagerStepInv ==
  ASSUME SchedInv, KVInv', ManagerStep
  PROVE  SchedInv'
<1>1. /\ UNCHANGED <<tokens, table, hits>>
      /\ UNCHANGED <<status, info, computed, waiting, running, newlyFinished, submissions>>
      /\ UNCHANGED <<phase, budget, idx, preempted, blockPreempted, scheduled, finishedIds>>
  BY DEF ManagerStep, ReleaseBlock, RegisterBlock, requestVars, stepVars
<1> QED BY <1>1, UnchangedInv

-----------------------------------------------------------------------------
(* Requests come and go. *)

\* A prompt is a sequence of tokens that leaves room for one more.
LEMMA PromptLemma ==
  ASSUME NEW prompt \in Prompts
  PROVE  prompt \in Seq(Token) /\ Len(prompt) \in 1 .. MaxModelLen - 1
<1>1. PICK n \in 1 .. MaxModelLen - 1 : prompt \in [1 .. n -> Token]
  BY PromptsAssumption
<1>2. n \in Nat
  BY <1>1, MaxModelLenAssumption
<1> QED BY <1>1, <1>2

\* A new request takes its place among the waiting ones.
LEMMA AddRequestInv ==
  ASSUME SchedInv, KVInv', NEW r \in Request, NEW prompt \in Prompts, NEW p \in Params,
         NEW prio \in Priorities, AddRequest(r, prompt, p, prio)
  PROVE  SchedInv'
<1> DEFINE i == [promptLen |-> Len(prompt), params |-> p, priority |-> prio, arrival |-> submissions]
<1>1. /\ phase = "idle" /\ ~IsLive(r) /\ table[r] = << >>
      /\ tokens' = [tokens EXCEPT ![r] = prompt]
      /\ status' = [status EXCEPT ![r] = "WAITING"]
      /\ info' = [info EXCEPT ![r] = i]
      /\ computed' = [computed EXCEPT ![r] = 0]
      /\ waiting' = waiting \cup {r}
      /\ submissions' = submissions + 1
      /\ UNCHANGED <<table, hits, running, newlyFinished>>
      /\ UNCHANGED <<phase, budget, idx, preempted, blockPreempted, scheduled, finishedIds>>
  BY DEF AddRequest, SetPrompt, stepVars
<1>2. prompt \in Seq(Token) /\ Len(prompt) \in 1 .. MaxModelLen - 1 /\ MaxModelLen \in Nat
  BY PromptLemma, MaxModelLenAssumption
<1>3. i \in Info
  BY <1>2 DEF SchedInv, SchedulerTypes, TypeOK, Info
<1> HIDE DEF i
<1>4. /\ status' \in [Request -> Status] /\ status'[r] = "WAITING"
      /\ tokens'[r] = prompt /\ info'[r] = i /\ computed'[r] = 0
      /\ \A s \in Request \ {r} : /\ status'[s] = status[s] /\ tokens'[s] = tokens[s]
                                  /\ info'[s] = info[s] /\ computed'[s] = computed[s]
  BY <1>1, SchedulerTypesLemma DEF SchedInv, Status, QueuedStatus
<1>5. SchedulerTypes'
  <2>1. /\ info' \in [Request -> Info \cup {<< >>}] /\ computed' \in [Request -> Nat]
        /\ \A s \in Request : status'[s] # "NONE" => info'[s] \in Info
    BY <1>1, <1>3, <1>4, SchedulerTypesLemma DEF SchedInv
  <2>2. submissions' \in Nat /\ waiting' \subseteq Request
    BY <1>1 DEF SchedInv, SchedulerTypes, TypeOK
  <2> QED BY <1>1, <1>4, <2>1, <2>2 DEF SchedInv, SchedulerTypes, TypeOK, KVInv
<1>6. QueuesMatchStatus'
  BY <1>1, <1>4 DEF SchedInv, QueuesMatchStatus, IsLive, QueuedStatus
<1>7. RequestsInv'
  <2> SUFFICES ASSUME NEW s \in Request
               PROVE  /\ table[s] # << >> => status'[s] = "RUNNING"
                      /\ status'[s] \in QueuedStatus => computed'[s] = 0
                      /\ status'[s] = "RUNNING" => computed'[s] < Len(tokens'[s])
                      /\ IsLive(s)' => tokens'[s] # << >> /\ Len(tokens'[s]) < MaxModelLen
    BY <1>1 DEF RequestsInv
  <2>1. CASE s = r
    BY <1>1, <1>2, <1>4, <2>1
  <2>2. CASE s # r
    BY <1>1, <1>4, <2>2 DEF SchedInv, RequestsInv, IsLive, BeingChecked
  <2> QED BY <2>1, <2>2
<1>8. HitsInv' /\ AdmitInv' /\ Slots'
  BY <1>1 DEF SchedInv, HitsInv, AdmitInv, Slots
<1>9. scheduled' = << >> /\ preempted' = {}
  BY <1>1 DEF SchedInv, LoopInv
<1>10. EntriesInv' /\ EntriesExecutable' /\ Admitted' = {} /\ NoneNew'
  BY <1>9 DEF EntriesInv, EntriesExecutable, Admitted, NoneNew
<1>11. BudgetInv'
  BY <1>1 DEF SchedInv, BudgetInv
<1>12. LoopInv' /\ ServedInv' /\ VictimsInv' /\ EvictionInv'
  BY <1>1, <1>9, <1>10 DEF SchedInv, LoopInv, ServedInv, VictimsInv, EvictionInv, Scheduling
<1> QED BY <1>5, <1>6, <1>7, <1>8, <1>10, <1>11, <1>12 DEF SchedInv

\* The table of a request that is freed is empty, the others are untouched.
LEMMA FreeRequestLemma ==
  ASSUME SchedulerTypes, NEW r \in Request, FreeRequest(r)
  PROVE  /\ table'[r] = << >> /\ hits[r] = << >>
         /\ \A s \in Request \ {r} : table'[s] = table[s]
         /\ UNCHANGED <<tokens, hits>>
BY SchedulerTypesLemma DEF FreeRequest

\* An abort takes a request out of its queue, with its blocks.
LEMMA AbortInv ==
  ASSUME SchedInv, KVInv', NEW r \in Request, Abort(r)
  PROVE  SchedInv'
<1>1. /\ phase \in {"idle", "scheduled"} /\ IsLive(r)
      /\ status' = [status EXCEPT ![r] = "FINISHED_ABORTED"]
      /\ newlyFinished' = newlyFinished \cup {r}
      /\ UNCHANGED <<info, computed, submissions>>
      /\ UNCHANGED <<phase, budget, idx, preempted, blockPreempted, scheduled, finishedIds>>
  BY DEF Abort, Finish, stepVars
<1>2. /\ status' \in [Request -> Status] /\ status'[r] = "FINISHED_ABORTED"
      /\ \A s \in Request \ {r} : status'[s] = status[s]
  BY <1>1, SchedulerTypesLemma DEF SchedInv, Status, FinishedStatus
<1>3. /\ table'[r] = << >> /\ \A s \in Request \ {r} : table'[s] = table[s]
      /\ UNCHANGED <<tokens, hits>>
      /\ running' \in Seq(Request) /\ Len(running') <= Len(running)
      /\ Range(running') = Range(running) \ {r} /\ IsInjective(running')
      /\ waiting' = waiting \ {r}
  <2>1. CASE status[r] = "RUNNING"
    <3>1. LeaveRunning(r) /\ FreeRequest(r) /\ waiting' = waiting
      BY <2>1 DEF Abort
    <3>2. r \notin waiting
      BY <2>1, QueueLemma DEF SchedInv, QueuedStatus
    <3>3. /\ running' \in Seq(Request) /\ Len(running') = Len(running) - 1
          /\ Range(running') = Range(running) \ {r} /\ IsInjective(running')
      BY <3>1, LeaveRunningLemma DEF SchedInv
    <3>4. Len(running) \in Nat
      BY SchedulerTypesLemma DEF SchedInv
    <3> QED BY <3>1, <3>2, <3>3, <3>4, FreeRequestLemma DEF SchedInv
  <2>2. CASE status[r] # "RUNNING"
    <3>1. UNCHANGED <<running, poolVars, kvVars>> /\ waiting' = waiting \ {r}
      BY <2>2 DEF Abort
    <3>2. r \notin Range(running) /\ table[r] = << >>
      BY <2>2 DEF SchedInv, RequestsInv, QueuesMatchStatus
    <3>3. running \in Seq(Request) /\ Len(running) \in Nat /\ IsInjective(running)
      BY SchedulerTypesLemma DEF SchedInv, QueuesMatchStatus
    <3> QED BY <3>1, <3>2, <3>3 DEF kvVars
  <2> QED BY <2>1, <2>2
<1>4. SchedulerTypes'
  <2>1. waiting' \subseteq Request /\ newlyFinished' \subseteq Request
    BY <1>1, <1>3 DEF SchedInv, SchedulerTypes, TypeOK
  <2>2. \A s \in Request : status'[s] # "NONE" => info'[s] \in Info
    BY <1>1, <1>2, SchedulerTypesLemma DEF SchedInv, IsLive, QueuedStatus
  <2> QED BY <1>1, <1>2, <1>3, <2>1, <2>2 DEF SchedInv, SchedulerTypes, TypeOK, KVInv
<1>5. QueuesMatchStatus' /\ Slots'
  <2>1. QueuesMatchStatus'
    BY <1>2, <1>3 DEF SchedInv, QueuesMatchStatus, QueuedStatus
  <2>2. Slots'
    BY <1>3, SchedulerTypesLemma, SchedulerAssumption DEF SchedInv, Slots
  <2> QED BY <2>1, <2>2
<1>6. RequestsInv'
  BY <1>1, <1>2, <1>3 DEF SchedInv, RequestsInv, IsLive, BeingChecked, QueuedStatus
<1>7. HitsInv' /\ AdmitInv'
  BY <1>1, <1>3 DEF SchedInv, HitsInv, AdmitInv
<1>8. EntriesInv' /\ BudgetInv'
  BY <1>1, <1>3 DEF SchedInv, EntriesInv, BudgetInv
<1>9. EntriesExecutable'
  <2> SUFFICES ASSUME NEW i \in 1 .. Len(scheduled), Unprocessed(i)',
                      status'[scheduled[i].id] = "RUNNING"
               PROVE  Executable(scheduled[i])'
    BY <1>1 DEF EntriesExecutable
  <2> DEFINE s == scheduled[i].id
  <2>1. s \in Request /\ s # r
    BY <1>2, EntryType DEF SchedInv
  <2>2. Unprocessed(i) /\ status[s] = "RUNNING"
    BY <1>1, <1>2, <2>1 DEF Unprocessed
  <2>3. Executable(scheduled[i])
    BY <2>2 DEF SchedInv, EntriesExecutable
  <2> QED BY <1>1, <1>3, <2>1, <2>3 DEF Executable, NumTokens
<1>10. LoopInv' /\ ServedInv' /\ VictimsInv'
  BY <1>1, <1>3 DEF SchedInv, LoopInv, NoneNew, ServedInv, VictimsInv, Scheduling
<1>11. EvictionInv'
  BY <1>1 DEF SchedInv, EvictionInv, Admitted, Scheduling
<1> QED BY <1>4, <1>5, <1>6, <1>7, <1>8, <1>9, <1>10, <1>11 DEF SchedInv

-----------------------------------------------------------------------------
(* Preemption. *)

\* A victim that no entry is for goes back to `waiting` with nothing.
LEMMA PreemptLemma ==
  ASSUME SchedInv, KVInv', NEW r \in Request, Preempt(r),
         phase \in {"priority", "running"}, phase' \in {"priority", "running", "scheduled"},
         blockPreempted' \in BOOLEAN,
         r \in Range(running),
         running' \in Seq(Request), Len(running') = Len(running) - 1,
         Range(running') = Range(running) \ {r}, IsInjective(running'),
         \A i \in 1 .. Len(scheduled) : scheduled[i].id # r
  PROVE  /\ SchedulerTypes' /\ QueuesMatchStatus' /\ RequestsInv' /\ HitsInv' /\ AdmitInv' /\ Slots'
         /\ EntriesInv' /\ EntriesExecutable' /\ BudgetInv' /\ VictimsInv'
<1>1. /\ FreeRequest(r)
      /\ status' = [status EXCEPT ![r] = "PREEMPTED"]
      /\ computed' = [computed EXCEPT ![r] = 0]
      /\ waiting' = waiting \cup {r}
      /\ preempted' = preempted \cup {r}
      /\ UNCHANGED <<info, newlyFinished, submissions, budget, idx, scheduled, finishedIds>>
  BY DEF Preempt
<1>2. /\ table'[r] = << >> /\ \A s \in Request \ {r} : table'[s] = table[s]
      /\ UNCHANGED <<tokens, hits>>
  BY <1>1, FreeRequestLemma DEF SchedInv
<1>3. /\ status' \in [Request -> Status] /\ status'[r] = "PREEMPTED"
      /\ computed' \in [Request -> Nat] /\ computed'[r] = 0
      /\ \A s \in Request \ {r} : status'[s] = status[s] /\ computed'[s] = computed[s]
  BY <1>1, SchedulerTypesLemma DEF SchedInv, Status, QueuedStatus
<1>4. status[r] = "RUNNING"
  BY QueueLemma DEF SchedInv
<1>5. SchedulerTypes'
  <2>1. waiting' \subseteq Request /\ preempted' \subseteq Request
    BY <1>1, SchedulerTypesLemma DEF SchedInv
  <2>2. \A s \in Request : status'[s] # "NONE" => info'[s] \in Info
    BY <1>1, <1>3, <1>4, SchedulerTypesLemma DEF SchedInv
  <2>3. phase' \in Phase
    BY DEF Phase
  <2> QED BY <1>1, <1>3, <2>1, <2>2, <2>3 DEF SchedInv, SchedulerTypes, TypeOK, KVInv
<1>6. QueuesMatchStatus'
  BY <1>1, <1>3 DEF SchedInv, QueuesMatchStatus, QueuedStatus
<1>7. RequestsInv'
  <2> SUFFICES ASSUME NEW s \in Request
               PROVE  /\ table'[s] # << >> => status'[s] = "RUNNING"
                      /\ status'[s] \in QueuedStatus => computed'[s] = 0
                      /\ status'[s] = "RUNNING" => computed'[s] < Len(tokens[s])
                      /\ IsLive(s)' => tokens[s] # << >> /\ Len(tokens[s]) < MaxModelLen
    BY <1>2 DEF RequestsInv
  <2>1. /\ table[s] # << >> => status[s] = "RUNNING"
        /\ status[s] \in QueuedStatus => computed[s] = 0
        /\ status[s] = "RUNNING" => computed[s] < Len(tokens[s])
        /\ IsLive(s) => tokens[s] # << >> /\ Len(tokens[s]) < MaxModelLen
    BY DEF SchedInv, RequestsInv, BeingChecked
  <2>2. IsLive(s)' => IsLive(s)
    BY <1>3, <1>4 DEF IsLive
  <2> QED BY <1>2, <1>3, <2>1, <2>2
<1>8. HitsInv' /\ AdmitInv'
  BY <1>2 DEF SchedInv, HitsInv, AdmitInv
<1>9. Slots'
  BY SchedulerTypesLemma, SchedulerAssumption DEF SchedInv, Slots
<1>10. EntriesInv' /\ BudgetInv'
  BY <1>1 DEF SchedInv, EntriesInv, BudgetInv
<1>11. EntriesExecutable'
  <2> SUFFICES ASSUME NEW i \in 1 .. Len(scheduled), status'[scheduled[i].id] = "RUNNING"
               PROVE  Executable(scheduled[i])'
    BY <1>1 DEF EntriesExecutable
  <2> DEFINE s == scheduled[i].id
  <2>1. s \in Request /\ s # r /\ status[s] = "RUNNING"
    BY <1>3, EntryType DEF SchedInv
  <2>2. Executable(scheduled[i])
    BY <2>1 DEF SchedInv, EntriesExecutable, Unprocessed
  <2> QED BY <1>1, <1>2, <1>3, <2>1, <2>2 DEF Executable, NumTokens
<1>12. VictimsInv'
  BY <1>1 DEF SchedInv, VictimsInv, Scheduling
<1> QED BY <1>5, <1>6, <1>7, <1>8, <1>9, <1>10, <1>11, <1>12

\* Phase 0 takes one victim at most: with a slot free it stops, and the request
\* it was made for outranks the victim.
LEMMA PreemptForPriorityInv ==
  ASSUME SchedInv, KVInv', PreemptForPriority
  PROVE  SchedInv'
<1>1. PICK v \in Request : OutrankedRunning(v) /\ LeaveRunning(v) /\ Preempt(v)
  BY DEF PreemptForPriority
<1>2. /\ phase = "priority" /\ scheduled = << >> /\ idx = 1 /\ ~blockPreempted
      /\ UNCHANGED <<phase, blockPreempted, info, budget, idx, scheduled>>
      /\ waiting' = waiting \cup {v} /\ preempted' = preempted \cup {v}
  BY <1>1 DEF PreemptForPriority, Preempt, SchedInv, LoopInv
<1>3. /\ v \in Range(running) /\ running' \in Seq(Request) /\ Len(running') = Len(running) - 1
      /\ Range(running') = Range(running) \ {v} /\ IsInjective(running')
  BY <1>1, LeaveRunningLemma DEF SchedInv
<1>4. /\ SchedulerTypes' /\ QueuesMatchStatus' /\ RequestsInv' /\ HitsInv' /\ AdmitInv' /\ Slots'
      /\ EntriesInv' /\ EntriesExecutable' /\ BudgetInv' /\ VictimsInv'
  BY <1>1, <1>2, <1>3, PreemptLemma DEF SchedInv, SchedulerTypes, TypeOK
<1>5. Admitted = {} /\ Admitted' = {} /\ NoneNew'
  BY <1>2 DEF Admitted, NoneNew
<1>6. LoopInv' /\ ServedInv'
  BY <1>2, <1>5 DEF LoopInv, ServedInv
<1>7. Len(running) = MaxNumSeqs
  BY <1>1, SchedulerTypesLemma, SchedulerAssumption DEF SchedInv, Slots, OutrankedRunning
<1>8. preempted = {}
  BY <1>2, <1>5, <1>7, SchedulerAssumption DEF SchedInv, EvictionInv, Scheduling
<1>9. PICK top \in waiting : TopWaiting(top) /\ info[top].priority > info[v].priority
  BY <1>1 DEF OutrankedRunning
<1>10. TopWaiting(top)'
  BY <1>2, <1>9 DEF TopWaiting, Outranks
<1>11. EvictionInv'
  <2>1. \A u \in preempted' : info'[top].priority > info'[u].priority
    BY <1>2, <1>8, <1>9
  <2>2. Len(running') = MaxNumSeqs - 1 /\ top \in waiting'
    BY <1>2, <1>3, <1>7
  <2> QED BY <1>5, <1>10, <2>1, <2>2 DEF EvictionInv
<1> QED BY <1>4, <1>6, <1>11 DEF SchedInv

\* The last running request is not one that this call has served.
LEMMA PreemptForBlocksInv ==
  ASSUME SchedInv, KVInv', PreemptForBlocks
  PROVE  SchedInv'
<1> DEFINE v == Last(running)
<1>1. /\ phase = "running" /\ phase' \in {"scheduled", "running"} /\ blockPreempted' = TRUE
      /\ running' = Front(running) /\ Preempt(v)
      /\ UNCHANGED <<info, budget, idx, scheduled>>
  BY DEF PreemptForBlocks, RunningTurn, Preempt
<1>2. idx \in 1 .. Len(running) /\ Len(running) \in Nat
  BY RunningTurnLemma, SchedulerTypesLemma DEF PreemptForBlocks, SchedInv
<1>3. running \in Seq(Request) /\ IsInjective(running) /\ running # << >>
  BY <1>2, SchedulerTypesLemma DEF SchedInv, QueuesMatchStatus
<1>4. /\ v \in Request /\ v \in Range(running) /\ v \notin Range(running')
      /\ running' \in Seq(Request) /\ Len(running') = Len(running) - 1
      /\ \A i \in 1 .. Len(running) - 1 : running'[i] = running[i]
      /\ Range(running') = Range(running) \ {v} /\ IsInjective(running')
  BY <1>1, <1>3, FrontLemma
<1> HIDE DEF v
<1>5. /\ idx = Len(scheduled) + 1 /\ NoneNew
      /\ \A i \in 1 .. Len(scheduled) : scheduled[i].id = running[i]
  BY <1>1 DEF SchedInv, LoopInv
<1>6. \A i \in 1 .. Len(scheduled) : i \in 1 .. Len(running) - 1 /\ scheduled[i].id = running'[i]
  <2>1. Len(scheduled) \in Nat /\ Len(scheduled) <= Len(running) - 1
    BY <1>2, <1>5, SchedulerTypesLemma DEF SchedInv
  <2>2. \A i \in 1 .. Len(scheduled) : i \in 1 .. Len(running) - 1
    BY <1>2, <2>1
  <2> QED BY <1>4, <1>5, <2>2
<1>7. \A i \in 1 .. Len(scheduled) : scheduled[i].id # v
  BY <1>4, <1>6, RangeOfSequence
<1>8. /\ SchedulerTypes' /\ QueuesMatchStatus' /\ RequestsInv' /\ HitsInv' /\ AdmitInv' /\ Slots'
      /\ EntriesInv' /\ EntriesExecutable' /\ BudgetInv' /\ VictimsInv'
  BY <1>1, <1>4, <1>7, PreemptLemma
<1>9. NoneNew' /\ Admitted' = {}
  BY <1>1, <1>5 DEF NoneNew, Admitted
<1>10. LoopInv'
  BY <1>1, <1>2, <1>4, <1>5, <1>6, <1>9 DEF LoopInv
<1>11. ServedInv' /\ EvictionInv'
  BY <1>1, <1>9 DEF ServedInv, EvictionInv
<1> QED BY <1>8, <1>10, <1>11 DEF SchedInv

-----------------------------------------------------------------------------
(* An entry is added to the output. *)

\* The blocks that an allocation leaves in the table hold the tokens asked for.
LEMMA SlotsCover ==
  ASSUME KVInv, SchedulerTypes, NEW r \in Request, NEW total \in 1 .. Len(tokens[r]),
         AllocateSlots(r, total)
  PROVE  /\ table'[r] \in Seq(Block) /\ total <= Len(table'[r]) * BlockSize
         /\ hits'[r] = << >> /\ tokens' = tokens
         /\ \A s \in Request \ {r} : table'[s] = table[s] /\ hits'[s] = hits[s]
<1>1. /\ hits' = [hits EXCEPT ![r] = << >>] /\ tokens' = tokens
      /\ \E t : table' = [table EXCEPT ![r] = t]
  BY DEF AllocateSlots
<1>2. /\ hits'[r] = << >>
      /\ \A s \in Request \ {r} : table'[s] = table[s] /\ hits'[s] = hits[s]
  BY <1>1, SchedulerTypesLemma
<1>3. table'[r] \in Seq(Block) /\ CeilDiv(total) <= Len(table'[r])
  BY SlotsLemma
<1>4. total \in Nat /\ Len(table'[r]) \in Nat
  BY <1>3, SchedulerTypesLemma
<1> DEFINE c == CeilDiv(total)
           n == total + BlockSize - 1
<1>5. c \in Nat /\ total <= c * BlockSize
  <2>1. n \in Nat /\ c = n \div BlockSize
    BY <1>4, BlockSizeAssumption DEF CeilDiv
  <2> HIDE DEF c
  <2>2. c \in Nat /\ n < c * BlockSize + BlockSize /\ c * BlockSize \in Nat
    <3>1. c \in Nat /\ n < c * BlockSize + BlockSize
      BY <2>1, BlockCounts, BlockSizeAssumption
    <3> QED BY <3>1, BlocksMonotone, BlockSizeAssumption
  <2> QED BY <1>4, <2>2, BlockSizeAssumption
<1> HIDE DEF c
<1>6. /\ c * BlockSize <= Len(table'[r]) * BlockSize
      /\ c * BlockSize \in Nat /\ Len(table'[r]) * BlockSize \in Nat
  BY <1>3, <1>4, <1>5, BlocksMonotone, BlockSizeAssumption DEF c
<1> QED BY <1>1, <1>2, <1>3, <1>4, <1>5, <1>6

\* The output with an entry more.
LEMMA EntryAdded ==
  ASSUME SchedulerTypes, NEW e \in ScheduledRequest, scheduled' = Append(scheduled, e)
  PROVE  /\ scheduled' \in Seq(ScheduledRequest) /\ Len(scheduled') = Len(scheduled) + 1
         /\ scheduled'[Len(scheduled) + 1] = e
         /\ \A i \in 1 .. Len(scheduled) : scheduled'[i] = scheduled[i]
         /\ \A i \in 1 .. Len(scheduled') : i \in 1 .. Len(scheduled) \/ i = Len(scheduled) + 1
         /\ {scheduled'[i].id : i \in 1 .. Len(scheduled')} =
               {scheduled[i].id : i \in 1 .. Len(scheduled)} \cup {e.id}
         /\ Admitted' = IF e.isNew THEN Admitted \cup {e.id} ELSE Admitted
<1>1. /\ scheduled \in Seq(ScheduledRequest) /\ Len(scheduled) \in Nat
  BY SchedulerTypesLemma
<1>2. /\ scheduled' \in Seq(ScheduledRequest) /\ Len(scheduled') = Len(scheduled) + 1
      /\ scheduled'[Len(scheduled) + 1] = e
      /\ \A i \in 1 .. Len(scheduled) : scheduled'[i] = scheduled[i]
  BY <1>1
<1>3. \A i \in 1 .. Len(scheduled') : i \in 1 .. Len(scheduled) \/ i = Len(scheduled) + 1
  BY <1>1, <1>2
<1>4. {scheduled'[i].id : i \in 1 .. Len(scheduled')} =
         {scheduled[i].id : i \in 1 .. Len(scheduled)} \cup {e.id}
  <2>1. Len(scheduled) + 1 \in 1 .. Len(scheduled') /\ 1 .. Len(scheduled) \subseteq 1 .. Len(scheduled')
    BY <1>1, <1>2
  <2> QED BY <1>2, <1>3, <2>1
<1>5. \A x : x \in Admitted' <=> x \in Admitted \/ (e.isNew /\ x = e.id)
  <2>1. Len(scheduled) + 1 \in 1 .. Len(scheduled') /\ 1 .. Len(scheduled) \subseteq 1 .. Len(scheduled')
    BY <1>1, <1>2
  <2> QED BY <1>2, <1>3, <2>1 DEF Admitted
<1>6. Admitted' = IF e.isNew THEN Admitted \cup {e.id} ELSE Admitted
  BY <1>5
<1> QED BY <1>2, <1>3, <1>4, <1>6

\* What an entry takes, the budget loses.
LEMMA BudgetLemma ==
  ASSUME SchedulerTypes, BudgetInv, NEW e \in ScheduledRequest, e.num <= budget,
         scheduled' = Append(scheduled, e), budget' = budget - e.num
  PROVE  BudgetInv' /\ budget' \in Nat
<1>1. PICK spent \in [0 .. Len(scheduled) -> 0 .. MaxNumBatchedTokens] :
         /\ spent[0] = 0
         /\ \A i \in 1 .. Len(scheduled) : spent[i] = spent[i - 1] + scheduled[i].num
         /\ spent[Len(scheduled)] + budget = MaxNumBatchedTokens
  BY DEF BudgetInv
<1>2. e.num \in Nat /\ budget \in Nat /\ Len(scheduled) \in Nat /\ spent[Len(scheduled)] \in Nat
  <2>1. e.num \in Nat
    BY DEF ScheduledRequest
  <2>2. budget \in Nat /\ Len(scheduled) \in Nat
    BY SchedulerTypesLemma
  <2>3. Len(scheduled) \in 0 .. Len(scheduled)
    BY <2>2
  <2> QED BY <1>1, <2>1, <2>2, <2>3
<1> DEFINE n == Len(scheduled)
           more == [i \in 0 .. n + 1 |-> IF i = n + 1 THEN spent[n] + e.num ELSE spent[i]]
<1>3. /\ Len(scheduled') = n + 1 /\ scheduled'[n + 1] = e
      /\ \A i \in 1 .. n : scheduled'[i] = scheduled[i]
  BY EntryAdded
<1>4. n \in Nat /\ more[n + 1] = spent[n] + e.num /\ \A i \in 0 .. n : more[i] = spent[i]
  BY <1>2
<1>5. more \in [0 .. n + 1 -> 0 .. MaxNumBatchedTokens]
  <2>1. spent[n] + e.num \in 0 .. MaxNumBatchedTokens
    BY <1>1, <1>2, SchedulerAssumption
  <2> QED BY <1>1, <1>2, <2>1
<1> HIDE DEF more
<1>6. \A i \in 1 .. n + 1 : more[i] = more[i - 1] + scheduled'[i].num
  <2> SUFFICES ASSUME NEW i \in 1 .. n + 1 PROVE more[i] = more[i - 1] + scheduled'[i].num
    OBVIOUS
  <2>1. CASE i = n + 1
    BY <1>3, <1>4, <2>1
  <2>2. CASE i # n + 1
    <3>1. i \in 1 .. n /\ i \in 0 .. n /\ i - 1 \in 0 .. n
      BY <1>4, <2>2
    <3> QED BY <1>1, <1>3, <1>4, <3>1
  <2> QED BY <2>1, <2>2
<1>7. more[0] = 0 /\ more[n + 1] + budget' = MaxNumBatchedTokens /\ budget' \in Nat
  BY <1>1, <1>2, <1>4
<1> HIDE DEF n
<1> QED BY <1>3, <1>5, <1>6, <1>7 DEF BudgetInv

\* An entry for a request that has none yet, and that now runs: it takes up
\* where the computed tokens end, and its blocks have room for its tokens.
LEMMA ScheduleLemma ==
  ASSUME SchedInv, NEW r \in Request, NEW total \in 1 .. Len(tokens[r]), AllocateSlots(r, total),
         NEW start \in Nat, NEW num \in Nat \ {0}, num <= budget, start + num = total,
         NEW isNew \in BOOLEAN, Schedule(r, start, num, isNew),
         phase \in {"running", "admit"}, phase' \in {"running", "waiting"},
         computed'[r] = start, status'[r] = "RUNNING",
         \A s \in Request \ {r} : computed'[s] = computed[s] /\ status'[s] = status[s],
         waiting' \subseteq waiting, r \notin waiting',
         \A i \in 1 .. Len(scheduled) : scheduled[i].id # r
  PROVE  /\ scheduled' \in Seq(ScheduledRequest) /\ budget' \in Nat
         /\ EntriesInv' /\ EntriesExecutable' /\ BudgetInv'
         /\ Len(scheduled') = Len(scheduled) + 1
         /\ scheduled'[Len(scheduled) + 1].id = r
         /\ scheduled'[Len(scheduled) + 1].isNew = isNew
         /\ \A i \in 1 .. Len(scheduled) : scheduled'[i] = scheduled[i]
         /\ \A i \in 1 .. Len(scheduled') : i \in 1 .. Len(scheduled) \/ i = Len(scheduled) + 1
         /\ {scheduled'[i].id : i \in 1 .. Len(scheduled')} =
               {scheduled[i].id : i \in 1 .. Len(scheduled)} \cup {r}
         /\ Admitted' = IF isNew THEN Admitted \cup {r} ELSE Admitted
<1> DEFINE e == [id |-> r, start |-> start, num |-> num, blocks |-> table'[r],
                 doSample |-> start + num = NumTokens(r), isNew |-> isNew]
<1>1. SchedulerTypes /\ KVInv
  BY DEF SchedInv
<1>2. /\ table'[r] \in Seq(Block) /\ total <= Len(table'[r]) * BlockSize
      /\ hits'[r] = << >> /\ tokens' = tokens
      /\ \A s \in Request \ {r} : table'[s] = table[s] /\ hits'[s] = hits[s]
  BY <1>1, SlotsCover
<1>3. scheduled' = Append(scheduled, e) /\ budget' = budget - num
  BY DEF Schedule
<1>4. e \in ScheduledRequest
  BY <1>2 DEF ScheduledRequest
<1>5. /\ e.id = r /\ e.start = start /\ e.num = num /\ e.blocks = table'[r]
      /\ e.doSample = (start + num = NumTokens(r)) /\ e.isNew = isNew
  OBVIOUS
<1> HIDE DEF e
<1>6. /\ scheduled' \in Seq(ScheduledRequest) /\ Len(scheduled') = Len(scheduled) + 1
      /\ scheduled'[Len(scheduled) + 1] = e
      /\ \A i \in 1 .. Len(scheduled) : scheduled'[i] = scheduled[i]
      /\ \A i \in 1 .. Len(scheduled') : i \in 1 .. Len(scheduled) \/ i = Len(scheduled) + 1
      /\ {scheduled'[i].id : i \in 1 .. Len(scheduled')} =
            {scheduled[i].id : i \in 1 .. Len(scheduled)} \cup {r}
      /\ Admitted' = IF isNew THEN Admitted \cup {r} ELSE Admitted
  BY <1>1, <1>3, <1>4, <1>5, EntryAdded
<1>7. BudgetInv' /\ budget' \in Nat
  BY <1>1, <1>3, <1>4, <1>5, BudgetLemma DEF SchedInv
<1>8. EntriesInv'
  <2>1. \A i, j \in 1 .. Len(scheduled) : scheduled[i].id = scheduled[j].id => i = j
    BY DEF SchedInv, EntriesInv
  <2>2. \A i, j \in 1 .. Len(scheduled') : scheduled'[i].id = scheduled'[j].id => i = j
    <3> SUFFICES ASSUME NEW i \in 1 .. Len(scheduled'), NEW j \in 1 .. Len(scheduled'),
                        scheduled'[i].id = scheduled'[j].id
                 PROVE  i = j
      OBVIOUS
    <3>1. CASE i \in 1 .. Len(scheduled) /\ j \in 1 .. Len(scheduled)
      <4>1. scheduled[i].id = scheduled[j].id
        BY <1>6, <3>1
      <4> QED BY <2>1, <3>1, <4>1
    <3>2. CASE i = Len(scheduled) + 1 /\ j = Len(scheduled) + 1
      BY <3>2
    <3>3. CASE i \in 1 .. Len(scheduled) /\ j = Len(scheduled) + 1
      BY <1>5, <1>6, <3>3
    <3>4. CASE i = Len(scheduled) + 1 /\ j \in 1 .. Len(scheduled)
      BY <1>5, <1>6, <3>4
    <3> QED BY <1>6, <3>1, <3>2, <3>3, <3>4
  <2>3. \A i \in 1 .. Len(scheduled') : scheduled'[i].id \notin waiting'
    BY <1>5, <1>6 DEF SchedInv, EntriesInv
  <2> QED BY <2>2, <2>3 DEF EntriesInv
<1>9. EntriesExecutable'
  <2> SUFFICES ASSUME NEW i \in 1 .. Len(scheduled'), status'[scheduled'[i].id] = "RUNNING"
               PROVE  Executable(scheduled[i])'
    BY DEF EntriesExecutable
  <2>1. CASE i \in 1 .. Len(scheduled)
    <3> DEFINE s == scheduled[i].id
    <3>1. scheduled'[i] = scheduled[i] /\ s \in Request /\ s # r
      BY <1>1, <1>6, <2>1, EntryType
    <3>2. Executable(scheduled[i])
      BY <2>1, <3>1 DEF SchedInv, EntriesExecutable, Unprocessed
    <3> QED BY <1>2, <3>1, <3>2 DEF Executable, NumTokens
  <2>2. CASE i = Len(scheduled) + 1
    <3>1. total <= Len(tokens[r]) /\ scheduled'[i] = e
      BY <1>6, <2>2, SchedulerTypesLemma DEF SchedInv
    <3> QED BY <1>2, <1>5, <3>1 DEF Executable, NumTokens
  <2> QED BY <1>6, <2>1, <2>2
<1> QED BY <1>5, <1>6, <1>7, <1>8, <1>9

\* The running request at idx gets its tokens.
LEMMA ScheduleRunningInv ==
  ASSUME SchedInv, KVInv', ScheduleRunning
  PROVE  SchedInv'
<1> DEFINE r == running[idx]
           n == NumNewRunning(r)
<1>1. /\ phase = "running" /\ idx' = idx + 1
      /\ AllocateSlots(r, computed[r] + n) /\ Schedule(r, computed[r], n, FALSE)
      /\ UNCHANGED <<status, info, computed, waiting, running, newlyFinished, submissions>>
      /\ UNCHANGED <<phase, preempted, blockPreempted, finishedIds>>
  BY DEF ScheduleRunning, RunningTurn, requestVars
<1>2. /\ r \in Request /\ r \in Range(running) /\ status[r] = "RUNNING" /\ r \notin waiting
      /\ idx \in 1 .. Len(running)
      /\ n \in Nat \ {0} /\ n <= budget
      /\ computed[r] \in Nat /\ computed[r] + n \in 1 .. Len(tokens[r])
  BY RunningTurnLemma, QueueLemma DEF ScheduleRunning, SchedInv
<1>3. /\ idx = Len(scheduled) + 1 /\ NoneNew /\ Len(scheduled) \in Nat
      /\ \A i \in 1 .. Len(scheduled) : scheduled[i].id = running[i]
  BY <1>1, SchedulerTypesLemma DEF SchedInv, LoopInv
<1>4. \A i \in 1 .. Len(scheduled) : scheduled[i].id # r
  <2>1. \A i, j \in 1 .. Len(running) : running[i] = running[j] => i = j
    BY QueueLemma DEF SchedInv
  <2>2. \A i \in 1 .. Len(scheduled) : i \in 1 .. Len(running) /\ i # idx
    BY <1>2, <1>3
  <2> QED BY <1>2, <1>3, <2>1, <2>2
<1>5. \A s \in Request : /\ s # r => table'[s] = table[s]
                         /\ hits'[s] # << >> => hits'[s] = hits[s]
                         /\ tokens' = tokens
  BY <1>1, <1>2, SlotsCover DEF SchedInv
<1> HIDE DEF n, r
<1>6. /\ scheduled' \in Seq(ScheduledRequest) /\ budget' \in Nat
      /\ EntriesInv' /\ EntriesExecutable' /\ BudgetInv'
      /\ Len(scheduled') = Len(scheduled) + 1
      /\ scheduled'[Len(scheduled) + 1].id = r /\ scheduled'[Len(scheduled) + 1].isNew = FALSE
      /\ \A i \in 1 .. Len(scheduled) : scheduled'[i] = scheduled[i]
      /\ \A i \in 1 .. Len(scheduled') : i \in 1 .. Len(scheduled) \/ i = Len(scheduled) + 1
      /\ Admitted' = Admitted
  BY <1>1, <1>2, <1>4, ScheduleLemma
<1>7. SchedulerTypes'
  <2>1. idx' \in Nat \ {0}
    BY <1>1, SchedulerTypesLemma DEF SchedInv
  <2> QED BY <1>1, <1>6, <2>1 DEF SchedInv, SchedulerTypes, TypeOK, KVInv
<1>8. QueuesMatchStatus' /\ Slots'
  BY <1>1 DEF SchedInv, QueuesMatchStatus, Slots
<1>9. RequestsInv'
  BY <1>1, <1>2, <1>5 DEF SchedInv, RequestsInv, IsLive, BeingChecked
<1>10. HitsInv' /\ AdmitInv'
  BY <1>1, <1>5 DEF SchedInv, HitsInv, AdmitInv
<1>11. LoopInv' /\ ServedInv'
  <2>1. NoneNew'
    BY <1>3, <1>6 DEF NoneNew
  <2>2. idx' = Len(scheduled') + 1 /\ idx' <= Len(running') + 1
    BY <1>1, <1>2, <1>3, <1>6, SchedulerTypesLemma DEF SchedInv
  <2>3. \A i \in 1 .. Len(scheduled') : scheduled'[i].id = running[i]
    BY <1>3, <1>6 DEF r
  <2> QED BY <1>1, <2>1, <2>2, <2>3 DEF SchedInv, LoopInv, ServedInv
<1>12. VictimsInv'
  <2>1. r \notin preempted
    BY <1>1, <1>2 DEF SchedInv, VictimsInv, Scheduling
  <2> QED BY <1>1, <1>6, <2>1 DEF SchedInv, VictimsInv
<1>13. EvictionInv'
  BY <1>1, <1>6 DEF SchedInv, EvictionInv, TopWaiting, Outranks
<1> QED BY <1>6, <1>7, <1>8, <1>9, <1>10, <1>11, <1>12, <1>13 DEF SchedInv

-----------------------------------------------------------------------------
(* Admission. *)

\* What the lookup found is a part of the request's own tokens.
LEMMA HitsWithinTokens ==
  ASSUME SchedulerTypes, KVInv, NEW r \in Request
  PROVE  /\ Len(hits[r]) \in Nat /\ Len(hits[r]) * BlockSize \in Nat
         /\ hits[r] = << >> => Len(hits[r]) * BlockSize = 0
         /\ hits[r] # << >> => Len(hits[r]) * BlockSize <= Len(tokens[r])
<1>1. hits[r] \in Seq(Block) /\ Len(hits[r]) \in Nat /\ Len(hits[r]) * BlockSize \in Nat
  BY SchedulerTypesLemma, BlocksMonotone, BlockSizeAssumption
<1>2. ASSUME hits[r] = << >> PROVE Len(hits[r]) * BlockSize = 0
  <2>1. Len(hits[r]) = 0
    BY <1>2
  <2> QED BY <2>1, BlockSizeAssumption
<1>3. ASSUME hits[r] # << >> PROVE Len(hits[r]) * BlockSize <= Len(tokens[r])
  <2>1. Len(hits[r]) \in 1 .. Len(hits[r])
    BY <1>1, <1>3
  <2> QED BY <2>1 DEF KVInv, LabelIsOwnPrefix
<1> QED BY <1>1, <1>2, <1>3

\* One block more for the top request.
LEMMA LookupPrefixInv ==
  ASSUME SchedInv, KVInv', LookupPrefix
  PROVE  SchedInv'
<1>1. PICK r \in waiting : TopWaiting(r) /\ LookupHit(r)
  BY DEF LookupPrefix
<1>2. /\ phase = "waiting" /\ WaitingTurn
      /\ UNCHANGED <<status, info, computed, waiting, running, newlyFinished, submissions>>
      /\ UNCHANGED <<phase, budget, idx, preempted, blockPreempted, scheduled, finishedIds>>
  BY DEF LookupPrefix, requestVars, stepVars
<1>3. UNCHANGED <<tokens, table>> /\ \A s \in Request \ {r} : hits'[s] = hits[s]
  BY <1>1, SchedulerTypesLemma DEF LookupHit, SchedInv
<1>4. SchedulerTypes'
  BY <1>2 DEF SchedInv, SchedulerTypes, TypeOK, KVInv
<1>5. QueuesMatchStatus' /\ Slots' /\ RequestsInv'
  BY <1>2, <1>3 DEF SchedInv, QueuesMatchStatus, Slots, RequestsInv, IsLive, BeingChecked
<1>6. Admitted' = Admitted /\ \A s \in Request : TopWaiting(s)' <=> TopWaiting(s)
  BY <1>2 DEF Admitted, TopWaiting, Outranks
<1>7. HitsInv' /\ AdmitInv'
  BY <1>1, <1>2, <1>3, <1>6 DEF SchedInv, HitsInv, AdmitInv, WaitingTurn
<1>8. EntriesInv' /\ EntriesExecutable' /\ BudgetInv'
  BY <1>2, <1>3, SMTT(40) DEF SchedInv, EntriesInv, EntriesExecutable, BudgetInv, Executable, NumTokens,
                    Unprocessed
<1>9. LoopInv' /\ ServedInv' /\ VictimsInv'
  BY <1>2 DEF SchedInv, LoopInv, NoneNew, ServedInv, VictimsInv
<1>10. EvictionInv'
  BY <1>2, <1>6, SchedulerTypesLemma DEF SchedInv, EvictionInv
<1> QED BY <1>4, <1>5, <1>7, <1>8, <1>9, <1>10 DEF SchedInv

\* The lookup is over; it leaves the top request a token to compute.
LEMMA LookupDoneInv ==
  ASSUME SchedInv, KVInv', LookupDone
  PROVE  SchedInv'
<1>1. PICK r \in waiting : 
         /\ TopWaiting(r)
         /\ IF CoversAllTokens(r) THEN DropLastHit(r) ELSE UNCHANGED <<poolVars, kvVars>>
  BY DEF LookupDone
<1>2. /\ phase = "waiting" /\ phase' = "admit" /\ WaitingTurn
      /\ UNCHANGED <<status, info, computed, waiting, running, newlyFinished, submissions>>
      /\ UNCHANGED <<budget, idx, preempted, blockPreempted, scheduled, finishedIds>>
  BY DEF LookupDone, requestVars
<1>3. r \in Request /\ IsLive(r)
  BY QueueLemma DEF SchedInv, IsLive
<1>4. UNCHANGED <<tokens, table>> /\ \A s \in Request \ {r} : hits'[s] = hits[s]
  BY <1>1, <1>3, SchedulerTypesLemma DEF DropLastHit, SchedInv, kvVars
<1>5. Len(hits'[r]) * BlockSize < Len(tokens[r])
  <2>1. /\ Len(hits[r]) \in Nat /\ Len(tokens[r]) \in Nat /\ tokens[r] # << >>
        /\ hits[r] \in Seq(Block) /\ hits \in [Request -> Seq(Block)] /\ tokens[r] \in Seq(Token)
    BY <1>2, <1>3, SchedulerTypesLemma DEF SchedInv, RequestsInv
  <2>2. CASE CoversAllTokens(r)
    <3> DEFINE n == Len(hits[r])
    <3>1. hits[r] # << >> /\ n * BlockSize = Len(tokens[r]) /\ hits' = [hits EXCEPT ![r] = Front(@)]
      BY <1>1, <2>2 DEF CoversAllTokens, DropLastHit
    <3>2. Len(hits'[r]) = n - 1 /\ n \in Nat /\ n - 1 \in Nat /\ n - 1 < n
      <4>1. n \in Nat \ {0}
        BY <2>1, <3>1
      <4>2. Len(Front(hits[r])) = n - 1
        BY <2>1, <3>1, FrontLemma
      <4> QED BY <1>3, <2>1, <3>1, <4>1, <4>2
    <3> HIDE DEF n
    <3>3. (n - 1) * BlockSize < n * BlockSize
      BY <3>2, BlocksMonotone, BlockSizeAssumption
    <3> QED BY <3>1, <3>2, <3>3
  <2>3. CASE ~CoversAllTokens(r)
    <3>1. hits' = hits
      BY <1>1, <2>3 DEF kvVars
    <3>2. /\ hits[r] = << >> => Len(hits[r]) * BlockSize = 0
          /\ hits[r] # << >> => Len(hits[r]) * BlockSize <= Len(tokens[r])
          /\ Len(hits[r]) * BlockSize \in Nat
      BY <1>3, HitsWithinTokens DEF SchedInv
    <3>3. Len(tokens[r]) > 0
      BY <2>1
    <3> DEFINE m == Len(hits[r]) * BlockSize
    <3>4. hits[r] # << >> => m # Len(tokens[r])
      BY <2>3 DEF CoversAllTokens
    <3>5. m \in Nat /\ (hits[r] = << >> => m = 0) /\ (hits[r] # << >> => m <= Len(tokens[r]))
      BY <3>2
    <3> HIDE DEF m
    <3>6. m < Len(tokens[r])
      BY <2>1, <3>3, <3>4, <3>5
    <3> QED BY <3>1, <3>6 DEF m
  <2> QED BY <2>2, <2>3
<1>6. SchedulerTypes'
  BY <1>2 DEF SchedInv, SchedulerTypes, TypeOK, KVInv, Phase
<1>7. QueuesMatchStatus' /\ Slots' /\ RequestsInv'
  BY <1>2, <1>4 DEF SchedInv, QueuesMatchStatus, Slots, RequestsInv, IsLive, BeingChecked
<1>8. Admitted' = Admitted /\ \A s \in Request : TopWaiting(s)' <=> TopWaiting(s)
  BY <1>2 DEF Admitted, TopWaiting, Outranks
<1>9. HitsInv'
  BY <1>1, <1>2, <1>4, <1>8 DEF SchedInv, HitsInv, WaitingTurn
<1>10. AdmitInv'
  <2> SUFFICES ASSUME NEW s \in waiting, TopWaiting(s)
               PROVE  Len(hits'[s]) * BlockSize < Len(tokens'[s])
    BY <1>2, <1>8, SchedulerTypesLemma DEF SchedInv, AdmitInv, WaitingTurn, NumCached, NumTokens
  <2>1. s = r
    BY <1>1, TopUnique DEF SchedInv
  <2> QED BY <1>4, <1>5, <2>1
<1>11. EntriesInv' /\ EntriesExecutable' /\ BudgetInv'
  BY <1>2, <1>4 DEF SchedInv, EntriesInv, EntriesExecutable, BudgetInv, Executable, NumTokens,
                    Unprocessed
<1>12. LoopInv' /\ ServedInv' /\ VictimsInv'
  BY <1>2 DEF SchedInv, LoopInv, NoneNew, ServedInv, VictimsInv, Scheduling
<1>13. EvictionInv'
  BY <1>2, <1>8, SchedulerTypesLemma DEF SchedInv, EvictionInv, Scheduling
<1> QED BY <1>6, <1>7, <1>9, <1>10, <1>11, <1>12, <1>13 DEF SchedInv

\* The top request is admitted.  It is no victim of this call: if there is one,
\* it was evicted for the request that is now on top.
LEMMA AdmitStepInv ==
  ASSUME SchedInv, KVInv', Admit
  PROVE  SchedInv'
<1>1. PICK r \in waiting :
         /\ TopWaiting(r)
         /\ AllocateSlots(r, computed[r] + NumCached(r) + NumNewWaiting(r))
         /\ waiting' = waiting \ {r}
         /\ status' = [status EXCEPT ![r] = "RUNNING"]
         /\ computed' = [computed EXCEPT ![r] = NumCached(r)]
         /\ running' = Append(running, r)
         /\ Schedule(r, NumCached(r), NumNewWaiting(r), TRUE)
  BY DEF Admit
<1> DEFINE n == NumNewWaiting(r)
           c == NumCached(r)
<1>2. /\ phase = "admit" /\ phase' = "waiting"
      /\ UNCHANGED <<info, newlyFinished, submissions, idx, preempted, blockPreempted, finishedIds>>
  BY DEF Admit
<1>3. /\ r \in Request /\ status[r] \in QueuedStatus
      /\ n \in Nat \ {0} /\ n <= budget /\ c \in Nat
      /\ c + n \in 1 .. Len(tokens[r]) /\ computed[r] + c + n = c + n
  BY <1>1, <1>2, AdmitTurnLemma
<1>4. AllocateSlots(r, c + n)
  BY <1>1, <1>3
<1>5. /\ budget > 0 /\ Len(running) < MaxNumSeqs /\ c < Len(tokens[r]) /\ ~blockPreempted
  BY <1>1, <1>2 DEF SchedInv, AdmitInv, LoopInv, NumTokens
<1> HIDE DEF n, c
<1>6. /\ status' \in [Request -> Status] /\ status'[r] = "RUNNING"
      /\ computed' \in [Request -> Nat] /\ computed'[r] = c
      /\ \A s \in Request \ {r} : status'[s] = status[s] /\ computed'[s] = computed[s]
  BY <1>1, <1>3, SchedulerTypesLemma DEF SchedInv, Status, c
<1>7. r \notin waiting' /\ waiting' \subseteq waiting /\ r \notin Range(running)
  BY <1>1, QueueLemma DEF SchedInv
<1>8. \A i \in 1 .. Len(scheduled) : scheduled[i].id # r
  BY <1>1 DEF SchedInv, EntriesInv
<1>9. /\ scheduled' \in Seq(ScheduledRequest) /\ budget' \in Nat
      /\ EntriesInv' /\ EntriesExecutable' /\ BudgetInv'
      /\ Len(scheduled') = Len(scheduled) + 1
      /\ scheduled'[Len(scheduled) + 1].id = r
      /\ \A i \in 1 .. Len(scheduled) : scheduled'[i] = scheduled[i]
      /\ \A i \in 1 .. Len(scheduled') : i \in 1 .. Len(scheduled) \/ i = Len(scheduled) + 1
      /\ {scheduled'[i].id : i \in 1 .. Len(scheduled')} =
            {scheduled[i].id : i \in 1 .. Len(scheduled)} \cup {r}
      /\ Admitted' = Admitted \cup {r}
  <2>1. Schedule(r, c, n, TRUE)
    BY <1>1 DEF n, c
  <2> QED BY <1>2, <1>3, <1>4, <1>6, <1>7, <1>8, <2>1, ScheduleLemma
<1>10. /\ running' \in Seq(Request) /\ Len(running') = Len(running) + 1 /\ IsInjective(running')
       /\ Range(running') = Range(running) \cup {r}
  <2>1. running \in Seq(Request) /\ IsInjective(running)
    BY SchedulerTypesLemma DEF SchedInv, QueuesMatchStatus
  <2> QED BY <1>1, <1>3, <1>7, <2>1, AppendLemma
<1>11. /\ tokens' = tokens /\ \A s \in Request \ {r} : table'[s] = table[s]
       /\ \A s \in Request : hits'[s] = << >>
  <2>1. /\ tokens' = tokens /\ \A s \in Request \ {r} : table'[s] = table[s] /\ hits'[s] = hits[s]
        /\ hits'[r] = << >>
    BY <1>3, <1>4, SlotsCover DEF SchedInv
  <2>2. \A s \in Request \ {r} : hits[s] = << >>
    BY <1>1, TopUnique DEF SchedInv, HitsInv
  <2> QED BY <2>1, <2>2
<1>12. SchedulerTypes'
  <2>1. \A s \in Request : status'[s] # "NONE" => info'[s] \in Info
    BY <1>2, <1>3, <1>6, SchedulerTypesLemma DEF SchedInv, QueuedStatus
  <2>2. waiting' \subseteq Request /\ phase' \in Phase
    BY <1>2, <1>7, SchedulerTypesLemma DEF SchedInv, Phase
  <2> QED BY <1>2, <1>6, <1>9, <1>10, <2>1, <2>2 DEF SchedInv, SchedulerTypes, TypeOK, KVInv
<1>13. QueuesMatchStatus'
  BY <1>1, <1>3, <1>6, <1>10 DEF SchedInv, QueuesMatchStatus, QueuedStatus
<1>14. RequestsInv'
  <2> SUFFICES ASSUME NEW s \in Request
               PROVE  /\ table'[s] # << >> => status'[s] = "RUNNING"
                      /\ status'[s] \in QueuedStatus => computed'[s] = 0
                      /\ status'[s] = "RUNNING" => computed'[s] < Len(tokens[s])
                      /\ IsLive(s)' => tokens[s] # << >> /\ Len(tokens[s]) < MaxModelLen
    BY <1>11 DEF RequestsInv
  <2>1. /\ table[s] # << >> => status[s] = "RUNNING"
        /\ status[s] \in QueuedStatus => computed[s] = 0
        /\ status[s] = "RUNNING" => computed[s] < Len(tokens[s])
        /\ IsLive(s) => tokens[s] # << >> /\ Len(tokens[s]) < MaxModelLen
    BY <1>2 DEF SchedInv, RequestsInv, BeingChecked
  <2>2. IsLive(s)' => IsLive(s)
    BY <1>3, <1>6 DEF IsLive
  <2>3. "RUNNING" \notin QueuedStatus
    BY DEF QueuedStatus
  <2> QED BY <1>5, <1>6, <1>11, <2>1, <2>2, <2>3
<1>15. HitsInv' /\ AdmitInv'
  BY <1>2, <1>11 DEF HitsInv, AdmitInv
<1>16. Slots'
  BY <1>5, <1>10, SchedulerTypesLemma, SchedulerAssumption DEF SchedInv, Slots
<1>17. LoopInv'
  BY <1>2, <1>5 DEF LoopInv
<1>18. ServedInv'
  <2>1. Range(running) \subseteq {scheduled[i].id : i \in 1 .. Len(scheduled)}
    BY <1>2, <1>5 DEF SchedInv, ServedInv
  <2> QED BY <1>9, <1>10, <2>1 DEF ServedInv
<1>19. ASSUME preempted # {}
       PROVE  /\ Admitted = {} /\ Len(running) = MaxNumSeqs - 1
              /\ \A v \in preempted : info[r].priority > info[v].priority
  <2>1. /\ Admitted = {} /\ Len(running) = MaxNumSeqs - 1
        /\ \E t \in waiting : TopWaiting(t) /\ \A v \in preempted : info[t].priority > info[v].priority
    BY <1>2, <1>5, <1>19, SchedulerAssumption DEF SchedInv, EvictionInv, Scheduling
  <2> QED BY <1>1, <2>1, TopUnique DEF SchedInv
<1>20. r \notin preempted
  <2>1. info[r].priority \in Int
    BY <1>1, QueueLemma, InfoType DEF SchedInv
  <2> QED BY <1>19, <2>1
<1>21. VictimsInv'
  BY <1>1, <1>2, <1>9, <1>20 DEF SchedInv, VictimsInv, Scheduling
<1>22. EvictionInv'
  <2>1. \A q \in Admitted', v \in preempted' : info'[q].priority > info'[v].priority
    BY <1>2, <1>9, <1>19
  <2>2. preempted' # {} => Len(running') = MaxNumSeqs
    BY <1>2, <1>10, <1>19, SchedulerAssumption
  <2> QED BY <1>9, <2>1, <2>2 DEF EvictionInv
<1> QED BY <1>9, <1>12, <1>13, <1>14, <1>15, <1>16, <1>17, <1>18, <1>21, <1>22 DEF SchedInv

\* The top request does not fit: its references go.
LEMMA AdmitFailsInv ==
  ASSUME SchedInv, KVInv', AdmitFails
  PROVE  SchedInv'
<1>1. PICK r \in waiting :
         TopWaiting(r) /\ SlotsExhausted(r, computed[r] + NumCached(r) + NumNewWaiting(r))
  BY DEF AdmitFails
<1>2. /\ phase = "admit" /\ phase' \in {"crashed", "scheduled"}
      /\ UNCHANGED <<status, info, computed, waiting, running, newlyFinished, submissions>>
      /\ UNCHANGED <<budget, idx, preempted, blockPreempted, scheduled, finishedIds>>
  BY DEF AdmitFails, requestVars
<1>3. UNCHANGED <<tokens, table>> /\ \A s \in Request : hits'[s] = << >>
  <2>1. UNCHANGED <<tokens, table>> /\ hits' = [hits EXCEPT ![r] = << >>]
    BY <1>1 DEF SlotsExhausted
  <2>2. \A s \in Request \ {r} : hits[s] = << >>
    BY <1>1, TopUnique DEF SchedInv, HitsInv
  <2> QED BY <2>1, <2>2, SchedulerTypesLemma DEF SchedInv
<1>4. SchedulerTypes'
  BY <1>2 DEF SchedInv, SchedulerTypes, TypeOK, KVInv, Phase
<1>5. QueuesMatchStatus' /\ Slots' /\ RequestsInv'
  BY <1>2, <1>3 DEF SchedInv, QueuesMatchStatus, Slots, RequestsInv, IsLive, BeingChecked
<1>6. HitsInv' /\ AdmitInv'
  BY <1>2, <1>3 DEF HitsInv, AdmitInv
<1>7. EntriesInv' /\ EntriesExecutable' /\ BudgetInv'
  BY <1>2, <1>3 DEF SchedInv, EntriesInv, EntriesExecutable, BudgetInv, Executable, NumTokens,
                    Unprocessed
<1>8. LoopInv' /\ ServedInv' /\ VictimsInv'
  BY <1>2 DEF SchedInv, LoopInv, NoneNew, ServedInv, VictimsInv, Scheduling
<1>9. EvictionInv'
  <2>1. Admitted' = Admitted
    BY <1>2 DEF Admitted
  <2> QED BY <1>2, <2>1 DEF SchedInv, EvictionInv, Scheduling
<1> QED BY <1>4, <1>5, <1>6, <1>7, <1>8, <1>9 DEF SchedInv

-----------------------------------------------------------------------------
(* update_from_output() *)

\* The entry that the update has come to is still what schedule() built it as,
\* unless its request was aborted; no other entry is for its request.
LEMMA UpdateTurnLemma ==
  ASSUME SchedInv, UpdateTurn, IsLive(scheduled[idx].id)
  PROVE  LET s == scheduled[idx]
         IN  /\ phase = "update" /\ idx \in 1 .. Len(scheduled)
             /\ s.id \in Request /\ s.num \in Nat /\ s.doSample \in BOOLEAN
             /\ status[s.id] = "RUNNING"
             /\ Executable(s) /\ Len(tokens[s.id]) < MaxModelLen
             /\ \A i \in 1 .. Len(scheduled) : i # idx => scheduled[i].id # s.id
<1> DEFINE s == scheduled[idx]
<1>1. phase = "update" /\ idx \in 1 .. Len(scheduled)
  BY SchedulerTypesLemma DEF SchedInv, UpdateTurn
<1>2. s.id \in Request /\ s.num \in Nat /\ s.doSample \in BOOLEAN
  BY <1>1, EntryType DEF SchedInv
<1>3. s.id \notin waiting /\ \A i \in 1 .. Len(scheduled) : i # idx => scheduled[i].id # s.id
  BY <1>1 DEF SchedInv, EntriesInv
<1> HIDE DEF s
<1>4. status[s.id] = "RUNNING"
  <2>1. IsLive(s.id)
    BY DEF s
  <2> QED BY <1>2, <1>3, <2>1 DEF SchedInv, QueuesMatchStatus, IsLive
<1>5. Executable(s)
  <2>1. Unprocessed(idx)
    BY <1>1 DEF Unprocessed
  <2> QED BY <1>1, <1>4, <2>1 DEF SchedInv, EntriesExecutable, s
<1>6. Len(tokens[s.id]) < MaxModelLen
  <2>1. IsLive(s.id) /\ ~BeingChecked(s.id)
    BY <1>1 DEF s, BeingChecked
  <2> QED BY <1>2, <2>1 DEF SchedInv, RequestsInv
<1> QED BY <1>1, <1>2, <1>3, <1>4, <1>5, <1>6 DEF s

\* A chunk that ends before the last token leaves one to compute.
LEMMA UpdateChunkInv ==
  ASSUME SchedInv, KVInv', UpdateChunk
  PROVE  SchedInv'
<1> DEFINE r == scheduled[idx].id
           n == scheduled[idx].num
<1>1. /\ phase = "update" /\ idx' = idx + 1 /\ ~scheduled[idx].doSample
      /\ computed' = [computed EXCEPT ![r] = @ + n]
      /\ UNCHANGED <<poolVars, kvVars, status, info, waiting, running, newlyFinished, submissions>>
      /\ UNCHANGED <<phase, budget, preempted, blockPreempted, scheduled, finishedIds>>
  BY DEF UpdateChunk, UpdateTurn, Advance
<1>2. /\ idx \in 1 .. Len(scheduled) /\ r \in Request /\ n \in Nat /\ status[r] = "RUNNING"
      /\ Executable(scheduled[idx])
      /\ \A i \in 1 .. Len(scheduled) : i # idx => scheduled[i].id # r
  BY UpdateTurnLemma DEF UpdateChunk
<1>3. /\ computed \in [Request -> Nat] /\ Len(tokens[r]) \in Nat
      /\ computed[r] + n <= Len(tokens[r]) /\ computed[r] + n # Len(tokens[r])
  BY <1>1, <1>2, SchedulerTypesLemma DEF SchedInv, Executable, NumTokens
<1> HIDE DEF r, n
<1>4. /\ computed' \in [Request -> Nat] /\ computed'[r] < Len(tokens[r])
      /\ \A s \in Request \ {r} : computed'[s] = computed[s]
  BY <1>1, <1>2, <1>3
<1>5. SchedulerTypes'
  <2>1. idx' \in Nat \ {0}
    BY <1>1, SchedulerTypesLemma DEF SchedInv
  <2> QED BY <1>1, <1>4, <2>1 DEF SchedInv, SchedulerTypes, TypeOK, KVInv
<1>6. QueuesMatchStatus' /\ Slots'
  BY <1>1 DEF SchedInv, QueuesMatchStatus, Slots
<1>7. RequestsInv'
  <2>1. UNCHANGED <<tokens, table>>
    BY <1>1 DEF kvVars
  <2>2. "RUNNING" \notin QueuedStatus
    BY DEF QueuedStatus
  <2> QED BY <1>1, <1>2, <1>4, <2>1, <2>2 DEF SchedInv, RequestsInv, IsLive, BeingChecked
<1>8. HitsInv' /\ AdmitInv'
  BY <1>1 DEF SchedInv, HitsInv, AdmitInv, kvVars
<1>9. EntriesInv' /\ BudgetInv'
  BY <1>1 DEF SchedInv, EntriesInv, BudgetInv
<1>10. EntriesExecutable'
  <2> SUFFICES ASSUME NEW i \in 1 .. Len(scheduled), Unprocessed(i)',
                      status[scheduled[i].id] = "RUNNING"
               PROVE  Executable(scheduled[i])'
    BY <1>1 DEF EntriesExecutable
  <2>1. i # idx /\ Unprocessed(i)
    BY <1>1, <1>2 DEF Unprocessed
  <2>2. Executable(scheduled[i]) /\ scheduled[i].id \in Request \ {r}
    BY <1>2, <2>1, EntryType DEF SchedInv, EntriesExecutable
  <2> QED BY <1>1, <1>4, <2>2 DEF Executable, NumTokens, kvVars
<1>11. LoopInv' /\ ServedInv' /\ VictimsInv'
  BY <1>1 DEF SchedInv, LoopInv, NoneNew, ServedInv, VictimsInv, Scheduling
<1>12. EvictionInv'
  BY <1>1 DEF SchedInv, EvictionInv, Admitted, Scheduling
<1> QED BY <1>1, <1>5, <1>6, <1>7, <1>8, <1>9, <1>10, <1>11, <1>12 DEF SchedInv

\* Every token is computed, and the sampled one is what is left to compute.
LEMMA UpdateSampledInv ==
  ASSUME SchedInv, KVInv', UpdateSampled
  PROVE  SchedInv'
<1> DEFINE r == scheduled[idx].id
           n == scheduled[idx].num
<1>1. /\ phase = "update" /\ phase' = "check" /\ scheduled[idx].doSample
      /\ computed' = [computed EXCEPT ![r] = @ + n]
      /\ UNCHANGED <<status, info, waiting, running, newlyFinished, submissions>>
      /\ UNCHANGED <<idx, budget, preempted, blockPreempted, scheduled, finishedIds>>
  BY DEF UpdateSampled, UpdateTurn, Advance
<1>2. /\ idx \in 1 .. Len(scheduled) /\ r \in Request /\ n \in Nat /\ status[r] = "RUNNING"
      /\ Executable(scheduled[idx]) /\ Len(tokens[r]) < MaxModelLen
      /\ \A i \in 1 .. Len(scheduled) : i # idx => scheduled[i].id # r
  BY UpdateTurnLemma DEF UpdateSampled
<1>3. /\ computed \in [Request -> Nat] /\ tokens \in [Request -> Seq(Token)]
      /\ computed[r] + n = Len(tokens[r])
  BY <1>1, <1>2, SchedulerTypesLemma DEF SchedInv, Executable, NumTokens
<1>4. PICK t \in Token : AppendToken(r, t)
  BY DEF UpdateSampled
<1> HIDE DEF r, n
<1>5. /\ UNCHANGED <<table, hits>>
      /\ tokens'[r] = Append(tokens[r], t) /\ Len(tokens'[r]) = Len(tokens[r]) + 1
      /\ \A s \in Request \ {r} : tokens'[s] = tokens[s]
  BY <1>2, <1>3, <1>4 DEF AppendToken
<1>6. /\ computed' \in [Request -> Nat] /\ computed'[r] = Len(tokens[r])
      /\ \A s \in Request \ {r} : computed'[s] = computed[s]
  BY <1>1, <1>2, <1>3
<1>7. SchedulerTypes'
  BY <1>1, <1>6 DEF SchedInv, SchedulerTypes, TypeOK, KVInv, Phase
<1>8. QueuesMatchStatus' /\ Slots'
  BY <1>1 DEF SchedInv, QueuesMatchStatus, Slots
<1>9. RequestsInv'
  <2> SUFFICES ASSUME NEW s \in Request
               PROVE  /\ table[s] # << >> => status[s] = "RUNNING"
                      /\ status[s] \in QueuedStatus => computed'[s] = 0
                      /\ status[s] = "RUNNING" => computed'[s] < Len(tokens'[s])
                      /\ IsLive(s) => tokens'[s] # << >>
                      /\ IsLive(s) /\ s # r => Len(tokens'[s]) < MaxModelLen
    BY <1>1, <1>5 DEF RequestsInv, IsLive, BeingChecked, r
  <2>1. CASE s = r
    <3>1. tokens[r] \in Seq(Token) /\ Len(tokens[r]) \in Nat
      BY <1>2, <1>3
    <3>2. tokens'[r] # << >>
      BY <1>4, <1>5, <3>1
    <3>3. computed'[r] < Len(tokens'[r])
      BY <1>5, <1>6, <3>1
    <3> QED BY <1>2, <2>1, <3>2, <3>3 DEF QueuedStatus
  <2>2. CASE s # r
    BY <1>1, <1>5, <1>6, <2>2 DEF SchedInv, RequestsInv, IsLive, BeingChecked
  <2>3. table[s] # << >> => status[s] = "RUNNING"
    BY DEF SchedInv, RequestsInv
  <2> QED BY <2>1, <2>2, <2>3
<1>10. HitsInv' /\ AdmitInv'
  BY <1>1, <1>5 DEF SchedInv, HitsInv, AdmitInv
<1>11. EntriesInv' /\ BudgetInv'
  BY <1>1 DEF SchedInv, EntriesInv, BudgetInv
<1>12. EntriesExecutable'
  <2> SUFFICES ASSUME NEW i \in 1 .. Len(scheduled), Unprocessed(i)',
                      status[scheduled[i].id] = "RUNNING"
               PROVE  Executable(scheduled[i])'
    BY <1>1 DEF EntriesExecutable
  <2>1. i # idx /\ Unprocessed(i)
    BY <1>1, <1>2 DEF Unprocessed
  <2>2. Executable(scheduled[i]) /\ scheduled[i].id \in Request \ {r}
    BY <1>2, <2>1, EntryType DEF SchedInv, EntriesExecutable
  <2> QED BY <1>1, <1>5, <1>6, <2>2 DEF Executable, NumTokens
<1>13. LoopInv' /\ ServedInv' /\ VictimsInv'
  <2>1. status'[scheduled[idx].id] = "RUNNING" /\ idx <= Len(scheduled)
    BY <1>1, <1>2 DEF r
  <2> QED BY <1>1, <2>1 DEF SchedInv, LoopInv, NoneNew, ServedInv, VictimsInv, Scheduling
<1>14. EvictionInv'
  BY <1>1 DEF SchedInv, EvictionInv, Admitted, Scheduling
<1> QED BY <1>7, <1>8, <1>9, <1>10, <1>11, <1>12, <1>13, <1>14 DEF SchedInv

\* A request that max_model_len ends does not go on.
LEMMA StopsAtLimit ==
  ASSUME NEW r, StopStatus(r) = "RUNNING"
  PROVE  ~(NumTokens(r) >= MaxModelLen)
BY DEF StopStatus

\* StopStatus is one of three.
LEMMA StopStatusValue ==
  ASSUME NEW r, StopStatus(r) # "RUNNING"
  PROVE  StopStatus(r) \in {"FINISHED_STOPPED", "FINISHED_LENGTH"}
BY DEF StopStatus

\* A request that goes on has room for a token; one that ends leaves its queue,
\* its blocks and its entries behind.
LEMMA CheckStopInv ==
  ASSUME SchedInv, KVInv', CheckStop
  PROVE  SchedInv'
<1> DEFINE r == scheduled[idx].id
<1>1. /\ phase = "check" /\ phase' = "update" /\ idx' = idx + 1
      /\ UNCHANGED <<info, computed, waiting, submissions>>
      /\ UNCHANGED <<budget, preempted, blockPreempted, scheduled, finishedIds>>
  BY DEF CheckStop
<1>2. /\ idx \in 1 .. Len(scheduled) /\ r \in Request /\ status[r] = "RUNNING"
      /\ \A i \in 1 .. Len(scheduled) : i # idx => scheduled[i].id # r
  <2>1. idx \in 1 .. Len(scheduled) /\ status[r] = "RUNNING"
    BY <1>1, SchedulerTypesLemma DEF SchedInv, LoopInv
  <2> QED BY <2>1, EntryType DEF SchedInv, EntriesInv
<1>3. /\ UNCHANGED <<tokens, hits>> /\ \A s \in Request \ {r} : table'[s] = table[s]
      /\ running' \in Seq(Request) /\ IsInjective(running') /\ Len(running') <= Len(running)
      /\ Range(running') \subseteq Range(running)
      /\ newlyFinished' \subseteq Request
      /\ status' \in [Request -> Status] /\ \A s \in Request \ {r} : status'[s] = status[s]
      /\ \/ /\ status'[r] = "RUNNING" /\ Len(tokens[r]) < MaxModelLen
            /\ Range(running') = Range(running)
         \/ /\ status'[r] \in FinishedStatus /\ table'[r] = << >>
            /\ Range(running') = Range(running) \ {r}
  <2>1. CASE StopStatus(r) = "RUNNING"
    <3>1. UNCHANGED <<poolVars, kvVars, status, running, newlyFinished>>
      BY <2>1 DEF CheckStop
    <3>2. Len(tokens[r]) < MaxModelLen
      <4>1. Len(tokens[r]) \in Nat /\ MaxModelLen \in Nat
        BY <1>2, SchedulerTypesLemma, MaxModelLenAssumption DEF SchedInv
      <4> QED BY <2>1, <4>1, StopsAtLimit DEF NumTokens
    <3>3. /\ running \in Seq(Request) /\ IsInjective(running) /\ Len(running) \in Nat
          /\ newlyFinished \subseteq Request /\ status \in [Request -> Status]
      BY SchedulerTypesLemma DEF SchedInv, QueuesMatchStatus, SchedulerTypes, TypeOK
    <3> QED BY <1>2, <3>1, <3>2, <3>3 DEF kvVars
  <2>2. CASE StopStatus(r) # "RUNNING"
    <3>1. LeaveRunning(r) /\ FreeRequest(r) /\ Finish(r, StopStatus(r))
      BY <2>2 DEF CheckStop
    <3>2. /\ running' \in Seq(Request) /\ Len(running') = Len(running) - 1
          /\ Range(running') = Range(running) \ {r} /\ IsInjective(running')
      BY <3>1, LeaveRunningLemma DEF SchedInv
    <3>3. Len(running) \in Nat
      BY SchedulerTypesLemma DEF SchedInv
    <3>4. /\ table'[r] = << >> /\ \A s \in Request \ {r} : table'[s] = table[s]
          /\ UNCHANGED <<tokens, hits>>
      BY <1>2, <3>1, FreeRequestLemma DEF SchedInv
    <3> DEFINE st == StopStatus(r)
    <3>5. /\ st \in FinishedStatus
          /\ status' = [status EXCEPT ![r] = st] /\ newlyFinished' = newlyFinished \cup {r}
      BY <2>2, <3>1, StopStatusValue DEF FinishedStatus, Finish
    <3> HIDE DEF st, r
    <3>6. /\ newlyFinished \subseteq Request /\ status \in [Request -> Status]
          /\ FinishedStatus \subseteq Status
      BY SchedulerTypesLemma DEF SchedInv, SchedulerTypes, TypeOK, Status
    <3> QED BY <1>2, <3>2, <3>3, <3>4, <3>5, <3>6
  <2> QED BY <2>1, <2>2
<1> HIDE DEF r
<1>4. SchedulerTypes'
  <2>1. idx' \in Nat \ {0} /\ phase' \in Phase
    BY <1>1, SchedulerTypesLemma DEF SchedInv, Phase
  <2>2. \A s \in Request : status'[s] # "NONE" => info'[s] \in Info
    BY <1>1, <1>2, <1>3, SchedulerTypesLemma DEF SchedInv
  <2> QED BY <1>1, <1>3, <2>1, <2>2 DEF SchedInv, SchedulerTypes, TypeOK, KVInv
<1>5. QueuesMatchStatus' /\ Slots'
  <2>1. QueuesMatchStatus'
    <3>1. "RUNNING" \notin FinishedStatus /\ QueuedStatus \cap FinishedStatus = {}
          /\ "RUNNING" \notin QueuedStatus
      BY DEF FinishedStatus, QueuedStatus
    <3> QED BY <1>1, <1>2, <1>3, <3>1 DEF SchedInv, QueuesMatchStatus
  <2>2. Slots'
    <3>1. Len(running) \in Nat /\ Len(running') \in Nat
      BY <1>3, SchedulerTypesLemma DEF SchedInv
    <3> QED BY <1>3, <3>1, SchedulerAssumption DEF SchedInv, Slots
  <2> QED BY <2>1, <2>2
<1>6. RequestsInv'
  <2> SUFFICES ASSUME NEW s \in Request
               PROVE  /\ table'[s] # << >> => status'[s] = "RUNNING"
                      /\ status'[s] \in QueuedStatus => computed[s] = 0
                      /\ status'[s] = "RUNNING" => computed[s] < Len(tokens[s])
                      /\ IsLive(s)' => tokens[s] # << >> /\ Len(tokens[s]) < MaxModelLen
    BY <1>1, <1>3 DEF RequestsInv
  <2>1. CASE s = r
    <3>1. computed[r] < Len(tokens[r]) /\ tokens[r] # << >>
      BY <1>2 DEF SchedInv, RequestsInv, IsLive
    <3>2. "RUNNING" \notin QueuedStatus /\ FinishedStatus \cap (QueuedStatus \cup {"RUNNING"}) = {}
      BY DEF QueuedStatus, FinishedStatus
    <3> QED BY <1>2, <1>3, <2>1, <3>1, <3>2 DEF IsLive
  <2>2. CASE s # r
    <3>1. ~BeingChecked(s)
      BY <2>2 DEF BeingChecked, r
    <3> QED BY <1>3, <2>2, <3>1 DEF SchedInv, RequestsInv, IsLive
  <2> QED BY <2>1, <2>2
<1>7. HitsInv' /\ AdmitInv'
  BY <1>1, <1>3 DEF SchedInv, HitsInv, AdmitInv
<1>8. EntriesInv' /\ BudgetInv'
  BY <1>1 DEF SchedInv, EntriesInv, BudgetInv
<1>9. EntriesExecutable'
  <2> SUFFICES ASSUME NEW i \in 1 .. Len(scheduled), Unprocessed(i)',
                      status'[scheduled[i].id] = "RUNNING"
               PROVE  Executable(scheduled[i])'
    BY <1>1 DEF EntriesExecutable
  <2>1. i # idx /\ Unprocessed(i)
    BY <1>1, <1>2 DEF Unprocessed
  <2>2. scheduled[i].id \in Request \ {r}
    BY <1>2, <2>1, EntryType DEF SchedInv
  <2>3. Executable(scheduled[i])
    BY <1>3, <2>1, <2>2 DEF SchedInv, EntriesExecutable
  <2> QED BY <1>1, <1>3, <2>2, <2>3 DEF Executable, NumTokens
<1>10. LoopInv' /\ ServedInv' /\ VictimsInv'
  BY <1>1 DEF SchedInv, LoopInv, NoneNew, ServedInv, VictimsInv, Scheduling
<1>11. EvictionInv'
  BY <1>1 DEF SchedInv, EvictionInv, Admitted, Scheduling
<1> QED BY <1>4, <1>5, <1>6, <1>7, <1>8, <1>9, <1>10, <1>11 DEF SchedInv

-----------------------------------------------------------------------------
(* The invariant. *)

\* Before the first request nothing is queued, scheduled or held.
LEMMA InitInv == Init => SchedInv
<1> SUFFICES ASSUME Init PROVE SchedInv
  OBVIOUS
<1>1. /\ status = [r \in Request |-> "NONE"] /\ info = [r \in Request |-> << >>]
      /\ computed = [r \in Request |-> 0] /\ waiting = {} /\ running = << >>
      /\ newlyFinished = {} /\ submissions = 0 /\ phase = "idle" /\ budget = MaxNumBatchedTokens
      /\ idx = 1 /\ preempted = {} /\ blockPreempted = FALSE /\ scheduled = << >> /\ finishedIds = {}
      /\ table = [r \in Request |-> << >>] /\ hits = [r \in Request |-> << >>]
  BY DEF Init, KVInit
<1>2. KVInv
  BY KVInitInv DEF Init
<1>3. \A r \in Request : status[r] = "NONE" /\ table[r] = << >> /\ hits[r] = << >>
  BY <1>1
<1>4. SchedulerTypes
  <2>1. status \in [Request -> Status] /\ computed \in [Request -> Nat]
    BY <1>1 DEF Status
  <2>2. << >> \in Seq(Request) /\ << >> \in Seq(ScheduledRequest)
    OBVIOUS
  <2>3. budget \in Nat /\ phase \in Phase /\ idx \in Nat \ {0} /\ submissions \in Nat
    BY <1>1, SchedulerAssumption DEF Phase
  <2>4. info \in [Request -> Info \cup {<< >>}]
    BY <1>1
  <2> QED BY <1>1, <1>2, <1>3, <2>1, <2>2, <2>3, <2>4 DEF SchedulerTypes, TypeOK, KVInv
<1>5. QueuesMatchStatus
  <2>1. IsInjective(<< >>)
    BY DEF IsInjective
  <2>2. Range(running) = {}
    BY <1>1, EmptyRange
  <2> QED BY <1>1, <1>3, <2>1, <2>2 DEF QueuesMatchStatus, QueuedStatus
<1>6. RequestsInv
  BY <1>3 DEF RequestsInv, IsLive, QueuedStatus
<1>7. HitsInv /\ AdmitInv
  BY <1>1, <1>3 DEF HitsInv, AdmitInv
<1>8. Slots
  BY <1>1, SchedulerAssumption DEF Slots
<1>9. EntriesInv /\ EntriesExecutable /\ Admitted = {} /\ NoneNew
  BY <1>1 DEF EntriesInv, EntriesExecutable, Admitted, NoneNew
<1>10. BudgetInv
  <2> DEFINE spent == [i \in 0 .. 0 |-> 0]
  <2>1. Len(scheduled) = 0
    BY <1>1
  <2>2. /\ spent \in [0 .. Len(scheduled) -> 0 .. MaxNumBatchedTokens] /\ spent[0] = 0
        /\ \A i \in 1 .. Len(scheduled) : spent[i] = spent[i - 1] + scheduled[i].num
        /\ spent[Len(scheduled)] + budget = MaxNumBatchedTokens
    BY <1>1, <2>1, SchedulerAssumption
  <2> HIDE DEF spent
  <2> QED BY <2>2 DEF BudgetInv
<1>11. LoopInv /\ ServedInv /\ VictimsInv /\ EvictionInv
  BY <1>1, <1>9 DEF LoopInv, ServedInv, VictimsInv, Scheduling, EvictionInv
<1> QED BY <1>2, <1>4, <1>5, <1>6, <1>7, <1>8, <1>9, <1>10, <1>11 DEF SchedInv

\* Every step of the scheduler, and of its clients, keeps it.
LEMMA SchedNextInv == SchedInv /\ [Next]_vars => SchedInv'
<1> SUFFICES ASSUME SchedInv, [Next]_vars PROVE SchedInv'
  OBVIOUS
<1>1. KVInv'
  BY ManagerCalls, KVNextInv DEF SchedInv
<1>2. CASE ClientNext
  BY <1>1, <1>2, AddRequestInv, AbortInv DEF ClientNext
<1>3. CASE ScheduleNext
  BY <1>1, <1>3, StartScheduleInv, PreemptForPriorityInv, PriorityDoneInv, ScheduleRunningInv,
     PreemptForBlocksInv, RunningDoneInv, LookupPrefixInv, LookupDoneInv, AdmitStepInv,
     AdmitFailsInv, WaitingDoneInv DEF ScheduleNext
<1>4. CASE UpdateNext
  BY <1>1, <1>4, SkipAbortedInv, UpdateChunkInv, UpdateSampledInv, CheckStopInv, EndStepInv
  DEF UpdateNext
<1>5. CASE StartUpdate \/ ManagerStep
  BY <1>1, <1>5, StartUpdateInv, ManagerStepInv
<1>6. CASE UNCHANGED vars
  <2>1. /\ UNCHANGED <<tokens, table, hits>>
        /\ UNCHANGED <<status, info, computed, waiting, running, newlyFinished, submissions>>
        /\ UNCHANGED <<phase, budget, idx, preempted, blockPreempted, scheduled, finishedIds>>
    BY <1>6 DEF vars, kvVars, requestVars, stepVars
  <2> QED BY <1>1, <2>1, UnchangedInv
<1> QED BY <1>2, <1>3, <1>4, <1>5, <1>6 DEF Next, EngineNext

\* The invariant holds in every state the scheduler can reach.
LEMMA SchedulerInv == Spec => []SchedInv
<1> QED BY InitInv, SchedNextInv, PTL DEF Spec

-----------------------------------------------------------------------------
(* What a run of full length needs of the pool. *)

\* The pool holds a request that has all the tokens it can be allocated for.
PoolHoldsOne == NumBlocks * BlockSize >= MaxModelLen - 1

\* With nothing left to hand back, the blocks that are not held are free.
LEMMA BlocksAddUp ==
  ASSUME KVInv, toFree = << >>, NEW h \in Seq(Block), IsInjective(h),
         \A b \in Block : b \in Range(h) <=> \E r \in Request : b \in Held(r)
  PROVE  Len(free) + Len(h) = NumBlocks
<1>1. free \in Seq(Block) /\ IsInjective(free) /\ \A b \in Block : refCount[b] = 0 <=> b \in Range(free)
  BY DEF KVInv, PoolInv, PoolTypeOK, FreeIffUnreferenced
<1>2. ASSUME NEW b \in Block PROVE b \in Range(free) <=> b \notin Range(h)
  <2>1. b \notin Range(toFree)
    BY EmptyRange
  <2>2. refCount[b] = Cardinality(Holders(b))
    <3>1. Cardinality(Holders(b)) \in Nat
      BY HoldersLemma
    <3> QED BY <2>1, <3>1 DEF KVInv, RefCountsMatchHolders
  <2>3. Holders(b) = {r \in Request : b \in Held(r)} /\ IsFiniteSet(Holders(b))
    BY HoldersLemma
  <2>4. Cardinality(Holders(b)) = 0 <=> Holders(b) = {}
    BY <2>3, FS_EmptySet
  <2>5. Holders(b) = {} <=> b \notin Range(h)
    BY <2>3
  <2> QED BY <1>1, <2>2, <2>4, <2>5
<1>3. Range(free) \subseteq Block /\ Range(h) \subseteq Block
  BY <1>1, RangeOfSequence
<1>4. Range(free) \cap Range(h) = {} /\ Range(free) \cup Range(h) = Block
  BY <1>2, <1>3
<1>5. /\ IsFiniteSet(Range(free)) /\ Cardinality(Range(free)) = Len(free) /\ Len(free) \in Nat
      /\ IsFiniteSet(Range(h)) /\ Cardinality(Range(h)) = Len(h) /\ Len(h) \in Nat
  BY <1>1, InjectiveLength
<1>6. Cardinality(Block) = NumBlocks
  <2>1. NumBlocks \in Nat \ {0} /\ 0 \in Int /\ NumBlocks - 1 \in Int
    BY NumBlocksAssumption
  <2>2. Cardinality(0 .. NumBlocks - 1) = NumBlocks
    BY <2>1, FS_Interval
  <2> QED BY <2>2 DEF Block
<1>7. Cardinality(Range(free) \cup Range(h)) = Len(free) + Len(h)
  <2>1. Cardinality(Range(free) \cap Range(h)) = 0
    <3>1. Cardinality({}) = 0
      BY FS_EmptySet
    <3> QED BY <1>4, <3>1
  <2> DEFINE A == Range(free)
             B == Range(h)
  <2>2. IsFiniteSet(A) /\ IsFiniteSet(B)
    BY <1>5
  <2> HIDE DEF A, B
  <2>3. Cardinality(A \cup B) = Cardinality(A) + Cardinality(B) - Cardinality(A \cap B)
    BY <2>2, FS_Union
  <2> QED BY <1>5, <2>1, <2>3 DEF A, B
<1> QED BY <1>4, <1>6, <1>7

\* A pool for one request of full length has the blocks for any request.
LEMMA PoolSuffices ==
  ASSUME PoolHoldsOne, NEW total \in 1 .. MaxModelLen - 1
  PROVE  CeilDiv(total) \in Nat /\ CeilDiv(total) <= NumBlocks
<1> DEFINE c == CeilDiv(total)
           n == total + BlockSize - 1
<1>1. n \in Nat /\ NumBlocks \in Nat /\ NumBlocks * BlockSize \in Nat
  BY BlockSizeAssumption, NumBlocksAssumption, MaxModelLenAssumption, BlocksMonotone
<1>2. n < (NumBlocks + 1) * BlockSize
  <2>1. (NumBlocks + 1) * BlockSize = NumBlocks * BlockSize + BlockSize
    BY <1>1, BlockSizeAssumption
  <2> QED BY <1>1, <2>1, BlockSizeAssumption, MaxModelLenAssumption DEF PoolHoldsOne
<1>3. c = n \div BlockSize
  BY DEF CeilDiv
<1> HIDE DEF c, n
<1>4. c \in Nat /\ c * BlockSize <= n
  BY <1>1, <1>3, BlockCounts, BlockSizeAssumption
<1>5. ~(NumBlocks + 1 <= c)
  <2>1. NumBlocks + 1 <= c => (NumBlocks + 1) * BlockSize <= c * BlockSize
    BY <1>1, <1>4, BlocksMonotone, BlockSizeAssumption
  <2>2. (NumBlocks + 1) * BlockSize \in Nat /\ c * BlockSize \in Nat
    BY <1>1, <1>4, BlocksMonotone, BlockSizeAssumption
  <2> QED BY <1>1, <1>2, <1>4, <2>1, <2>2
<1> QED BY <1>1, <1>4, <1>5 DEF c

\* With nothing running, such a pool always fits the top request: its own
\* references and the free blocks are the whole pool.
LEMMA TopFits ==
  ASSUME SchedInv, PoolHoldsOne, phase = "admit", running = << >>,
         NEW r, TopWaiting(r)
  PROVE  ~SlotsExhausted(r, computed[r] + NumCached(r) + NumNewWaiting(r))
<1> DEFINE total == NumCached(r) + NumNewWaiting(r)
<1>1. /\ r \in Request /\ r \in waiting /\ status[r] \in QueuedStatus
      /\ total \in 1 .. Len(tokens[r]) /\ computed[r] + NumCached(r) + NumNewWaiting(r) = total
  BY AdmitTurnLemma
<1> HIDE DEF total
<1>2. Len(tokens[r]) < MaxModelLen /\ Len(tokens[r]) \in Nat /\ MaxModelLen \in Nat
  BY <1>1, SchedulerTypesLemma, MaxModelLenAssumption
  DEF SchedInv, RequestsInv, IsLive, BeingChecked
<1>3. CeilDiv(total) \in Nat /\ CeilDiv(total) <= NumBlocks
  <2>1. total \in 1 .. MaxModelLen - 1
    BY <1>1, <1>2
  <2> QED BY <2>1, PoolSuffices
<1>4. \A s \in Request : table[s] = << >>
  BY EmptyRange DEF SchedInv, RequestsInv, QueuesMatchStatus
<1>5. \A s \in Request \ {r} : hits[s] = << >>
  BY TopUnique DEF SchedInv, HitsInv
<1>6. ASSUME toFree = << >> PROVE Len(free) + Len(hits[r]) = NumBlocks
  <2>1. hits[r] \in Seq(Block) /\ IsInjective(hits[r])
    BY <1>1, KVTypes DEF SchedInv
  <2>2. \A b : b \in Range(hits[r]) <=> \E s \in Request : b \in Held(s)
    BY <1>1, <1>4, <1>5, EmptyRange DEF Held
  <2> QED BY <1>6, <2>1, <2>2, BlocksAddUp DEF SchedInv
<1>7. /\ Len(hits[r]) \in Nat /\ Len(table[r]) = 0 /\ Len(free) \in Nat /\ NumBlocks \in Nat
  <2>1. Len(hits[r]) \in Nat /\ Len(table[r]) = 0
    BY <1>1, <1>4, SchedulerTypesLemma DEF SchedInv
  <2>2. Len(free) \in Nat
    BY DEF SchedInv, KVInv, PoolInv, PoolTypeOK
  <2> QED BY <2>1, <2>2, NumBlocksAssumption
<1>8. ASSUME SlotsExhausted(r, total) PROVE FALSE
  <2>1. toFree = << >> /\ NumFresh(r, total) > Len(free)
    BY <1>8 DEF SlotsExhausted, Settled
  <2>2. Len(free) + Len(hits[r]) = NumBlocks
    BY <1>6, <2>1
  <2> QED BY <1>3, <1>7, <2>1, <2>2 DEF NumFresh
<1> QED BY <1>1, <1>8

-----------------------------------------------------------------------------
(* The theorems. *)

\* Every variable keeps its type.
THEOREM SchedulerTypeCorrect == Spec => []TypeOK
<1>1. SchedInv => TypeOK
  BY DEF SchedInv, SchedulerTypes
<1> QED BY <1>1, SchedulerInv, PTL

\* Whatever is preempted, aborted or finished, every unfinished request is in
\* one queue, the one its status names, and once.
THEOREM QueuesCorrect == Spec => []QueuesMatchStatus
<1>1. SchedInv => QueuesMatchStatus
  BY DEF SchedInv
<1> QED BY <1>1, SchedulerInv, PTL

\* What the parts say of blocks.
LEMMA InvHold == SchedInv => OnlyRunningHoldBlocks
<1> SUFFICES ASSUME SchedInv PROVE OnlyRunningHoldBlocks
  OBVIOUS
<1>1. \A r \in Request : table[r] # << >> => status[r] = "RUNNING"
  BY DEF SchedInv, RequestsInv
<1>2. \A r \in Request : hits[r] # << >> => phase \in {"waiting", "admit"} /\ TopWaiting(r)
  BY DEF SchedInv, HitsInv
<1>3. ASSUME running = << >>, Settled, phase \notin {"waiting", "admit"}
      PROVE  Len(free) = NumBlocks
  <2>1. \A r \in Request : table[r] = << >> /\ hits[r] = << >>
    BY <1>1, <1>2, <1>3, EmptyRange DEF SchedInv, QueuesMatchStatus
  <2>2. \A b : b \in Range(<< >>) <=> \E r \in Request : b \in Held(r)
    BY <2>1, EmptyRange DEF Held
  <2>3. << >> \in Seq(Block) /\ IsInjective(<< >>) /\ Len(<< >>) = 0
    BY DEF IsInjective
  <2>4. Len(free) + Len(<< >>) = NumBlocks
    BY <1>3, <2>2, <2>3, BlocksAddUp DEF SchedInv, Settled
  <2>5. Len(free) \in Nat
    BY DEF SchedInv, KVInv, PoolInv, PoolTypeOK
  <2> QED BY <2>3, <2>4, <2>5
<1> QED BY <1>1, <1>2, <1>3 DEF OnlyRunningHoldBlocks

\* Only running requests hold blocks, and with none running the whole pool is
\* free again: preemption, abort and a refused admission leak nothing.
THEOREM HoldersCorrect == Spec => []OnlyRunningHoldBlocks
BY InvHold, SchedulerInv, PTL

\* What the runner relies on is true of every entry until the step is executed.
THEOREM EntriesCorrect == Spec => []ScheduledIsExecutable
<1>1. SchedInv => ScheduledIsExecutable
  BY DEF SchedInv, EntriesExecutable, Unprocessed, Executable, VictimsInv, ScheduledIsExecutable
<1> QED BY <1>1, SchedulerInv, PTL

\* What the parts say of the limits of a step.
LEMMA InvLimits == SchedInv => StepWithinLimits
<1> SUFFICES ASSUME SchedInv PROVE StepWithinLimits
  OBVIOUS
<1>1. PICK spent \in [0 .. Len(scheduled) -> 0 .. MaxNumBatchedTokens] :
         /\ spent[0] = 0
         /\ \A i \in 1 .. Len(scheduled) : spent[i] = spent[i - 1] + scheduled[i].num
  BY DEF SchedInv, BudgetInv
<1> DEFINE part == [i \in 1 .. Len(scheduled) |-> spent[i]]
<1>2. Len(scheduled) \in Nat
  BY SchedulerTypesLemma DEF SchedInv
<1>3. part \in [1 .. Len(scheduled) -> 0 .. MaxNumBatchedTokens]
  BY <1>2
<1>4. \A i \in 1 .. Len(scheduled) :
         part[i] = (IF i = 1 THEN 0 ELSE part[i - 1]) + scheduled[i].num
  <2> SUFFICES ASSUME NEW i \in 1 .. Len(scheduled)
               PROVE  part[i] = (IF i = 1 THEN 0 ELSE part[i - 1]) + scheduled[i].num
    OBVIOUS
  <2>1. part[i] = spent[i] /\ spent[i] = spent[i - 1] + scheduled[i].num
    BY <1>1
  <2>2. i # 1 => i - 1 \in 1 .. Len(scheduled) /\ part[i - 1] = spent[i - 1]
    BY <1>2
  <2>3. i = 1 => spent[i - 1] = 0
    BY <1>1
  <2> HIDE DEF part
  <2> QED BY <2>1, <2>2, <2>3
<1> HIDE DEF part
<1> QED BY <1>3, <1>4 DEF SchedInv, EntriesInv, Slots, StepWithinLimits

\* One step serves a request once, and stays within the token budget and the
\* number of slots.
THEOREM LimitsCorrect == Spec => []StepWithinLimits
BY InvLimits, SchedulerInv, PTL

\* A step that admits a request has served every one that was running.
THEOREM RunningFirst == Spec => []RunningServedFirst
<1>1. SchedInv => RunningServedFirst
  BY DEF SchedInv, ServedInv, NoneNew, RunningServedFirst
<1> QED BY <1>1, SchedulerInv, PTL

\* What the parts say of evictions for priority.
LEMMA InvEviction == SchedInv => PriorityEvictionPaysOff
<1> SUFFICES ASSUME SchedInv, preempted # {} PROVE
       /\ \A r \in Admitted, v \in preempted : info[r].priority > info[v].priority
       /\ phase = "waiting" /\ ~WaitingTurn /\ budget > 0 => Admitted # {}
  BY DEF PriorityEvictionPaysOff
<1>1. \A r \in Admitted, v \in preempted : info[r].priority > info[v].priority
  BY DEF SchedInv, EvictionInv
<1>2. ASSUME phase = "waiting", ~WaitingTurn, budget > 0 PROVE Admitted # {}
  <2>1. ~blockPreempted
    BY <1>2 DEF SchedInv, LoopInv
  <2>2. waiting # {}
    BY <1>2 DEF SchedInv, VictimsInv, Scheduling
  <2>3. Len(running) # MaxNumSeqs - 1
    BY <1>2, <2>2, SchedulerAssumption DEF WaitingTurn
  <2> QED BY <1>2, <2>1, <2>3 DEF SchedInv, EvictionInv, Scheduling
<1> QED BY <1>1, <1>2

\* A slot freed for a waiting request goes to one of strictly higher priority
\* than every victim of the call, and goes to it in that call.
THEOREM EvictionPays == Spec => []PriorityEvictionPaysOff
BY InvEviction, SchedulerInv, PTL

\* No step of a scheduler with such a pool raises.
LEMMA CrashFree ==
  ASSUME PoolHoldsOne, SchedInv, phase # "crashed", [Next]_vars
  PROVE  phase' # "crashed"
<1>1. ASSUME AdmitFails PROVE phase' # "crashed"
  <2>1. PICK r \in waiting :
           TopWaiting(r) /\ SlotsExhausted(r, computed[r] + NumCached(r) + NumNewWaiting(r))
    BY <1>1 DEF AdmitFails
  <2>2. running # << >>
    BY <1>1, <2>1, TopFits DEF AdmitFails
  <2> QED BY <1>1, <2>2 DEF AdmitFails
<1>2. ASSUME ClientNext PROVE phase' # "crashed"
  BY <1>2 DEF ClientNext, AddRequest, Abort, stepVars
<1>3. ASSUME \/ StartSchedule \/ PreemptForPriority \/ PriorityDone \/ ScheduleRunning
             \/ PreemptForBlocks \/ RunningDone \/ LookupPrefix \/ LookupDone \/ Admit \/ WaitingDone
      PROVE  phase' # "crashed"
  BY <1>3 DEF StartSchedule, PreemptForPriority, PriorityDone, ScheduleRunning, PreemptForBlocks,
     RunningTurn, RunningDone, LookupPrefix, LookupDone, Admit, WaitingDone, stepVars
<1>4. ASSUME StartUpdate \/ UpdateNext \/ ManagerStep \/ UNCHANGED vars PROVE phase' # "crashed"
  BY <1>4 DEF StartUpdate, UpdateNext, UpdateTurn, SkipAborted, UpdateChunk, UpdateSampled,
     CheckStop, EndStep, ManagerStep, stepVars, vars
<1> QED BY <1>1, <1>2, <1>3, <1>4 DEF Next, EngineNext, ScheduleNext

\* With a pool that holds one request of full length, schedule() never raises,
\* and neither of its asserts fails.
THEOREM NoCrash == Spec => [](PoolHoldsOne => NeverCrashes)
<1> DEFINE I == PoolHoldsOne => phase # "crashed"
<1>1. Init => I
  BY DEF Init
<1>2. SchedInv /\ I => (PoolHoldsOne => NeverCrashes)
  <2> SUFFICES ASSUME SchedInv, phase # "crashed" PROVE NeverCrashes
    OBVIOUS
  <2>1. RunningTurn => NumNewRunning(running[idx]) > 0
    BY RunningTurnLemma
  <2>2. phase = "admit" => \A r \in waiting : TopWaiting(r) => NumNewWaiting(r) > 0
    BY AdmitTurnLemma
  <2> QED BY <2>1, <2>2 DEF NeverCrashes
<1>3. SchedInv /\ I /\ [Next]_vars => I'
  <2>1. PoolHoldsOne' <=> PoolHoldsOne
    BY DEF PoolHoldsOne
  <2> QED BY <2>1, CrashFree
<1> HIDE DEF I
<1> QED BY <1>1, <1>2, <1>3, SchedulerInv, PTL DEF Spec

\* The scheduler uses the manager as the manager's own specification allows, so
\* every theorem about KVSpec holds of it.
THEOREM SchedulerImplementsManager == Spec => KVSpec
<1>1. Init => KVInit
  BY DEF Init
<1> QED BY <1>1, ManagerCalls, SchedulerInv, PTL DEF Spec, KVSpec

-----------------------------------------------------------------------------
(* The scheduler implements the generation service: every step is one step *)
(* of the service, on one request, or changes nothing that the service     *)
(* knows of.  That a token is only ever appended to an output that nothing *)
(* has ended yet needs an invariant of its own: whatever happens to a      *)
(* request between two tokens, the last one it got did not end it          *)
(* (GenerationInv).                                                        *)

GenerationInv ==
    \A r \in Request :
       /\ status[r] # "NONE" => /\ info[r].promptLen \in 1 .. Len(tokens[r])
                                /\ info[r].promptLen < MaxModelLen
       /\ IsLive(r) /\ ~BeingChecked(r) => NumOutputTokens(r) = 0 \/ StopStatus(r) = "RUNNING"
       /\ BeingChecked(r) => NumOutputTokens(r) > 0

\* The values that Scheduler.tla maps the service's variables to.
State == [r \in Request |-> IF IsLive(r) THEN "LIVE" ELSE status[r]]

Asked == [r \in Request |-> IF status[r] = "NONE" THEN << >>
            ELSE [promptLen |-> info[r].promptLen, params |-> info[r].params]]

Output == [r \in Request |-> IF status[r] = "NONE" THEN << >>
             ELSE SubSeq(tokens[r], info[r].promptLen + 1, Len(tokens[r]))]

-----------------------------------------------------------------------------
(* Steps that the service does not see. *)

\* Nothing of what a request has put out, and nothing of where it stands but
\* the queue that it is in, has changed.
Internal ==
    /\ UNCHANGED <<tokens, info>>
    /\ \A r \in Request :
          /\ status'[r] = status[r] \/ (IsLive(r) /\ IsLive(r)')
          /\ BeingChecked(r)' <=> BeingChecked(r)

\* Preemption, admission, chunks, lookups and releases are internal.
LEMMA InternalSteps ==
  ASSUME SchedInv,
         \/ ScheduleNext \/ StartUpdate \/ SkipAborted \/ UpdateChunk \/ EndStep \/ ManagerStep
         \/ UNCHANGED vars
  PROVE  Internal
<1>1. ASSUME NEW v \in Request, Preempt(v), status[v] = "RUNNING",
             phase # "check", phase' # "check"
      PROVE  Internal
  <2>1. UNCHANGED <<tokens, info>> /\ status' = [status EXCEPT ![v] = "PREEMPTED"]
    BY <1>1 DEF Preempt, FreeRequest
  <2>2. status'[v] = "PREEMPTED" /\ \A r \in Request \ {v} : status'[r] = status[r]
    BY <2>1, SchedulerTypesLemma DEF SchedInv
  <2>3. IsLive(v) /\ IsLive(v)'
    BY <1>1, <2>2 DEF IsLive, QueuedStatus
  <2> QED BY <1>1, <2>1, <2>2, <2>3 DEF Internal, BeingChecked
<1>2. ASSUME PreemptForPriority PROVE Internal
  <2>1. PICK v \in Request : LeaveRunning(v) /\ Preempt(v)
    BY <1>2 DEF PreemptForPriority
  <2>2. status[v] = "RUNNING"
    BY <2>1, LeaveRunningLemma DEF SchedInv
  <2>3. phase = "priority" /\ phase' = "priority"
    BY <1>2 DEF PreemptForPriority
  <2> QED BY <1>1, <2>1, <2>2, <2>3
<1>3. ASSUME PreemptForBlocks PROVE Internal
  <2> DEFINE v == Last(running)
  <2>1. Preempt(v) /\ phase = "running" /\ phase' \in {"scheduled", "running"}
    BY <1>3 DEF PreemptForBlocks, RunningTurn
  <2>2. running \in Seq(Request) /\ running # << >>
    BY <1>3, RunningTurnLemma, SchedulerTypesLemma DEF PreemptForBlocks, SchedInv
  <2>3. v \in Request /\ v \in Range(running)
    <3>1. v \in Request /\ Range(running) = Range(Front(running)) \cup {v}
      BY <2>2, FrontLemma
    <3> QED BY <3>1
  <2>4. status[v] = "RUNNING"
    BY <2>3, QueueLemma DEF SchedInv
  <2> HIDE DEF v
  <2> QED BY <1>1, <2>1, <2>3, <2>4
<1>4. ASSUME Admit PROVE Internal
  <2>1. PICK r \in waiting :
           /\ TopWaiting(r)
           /\ AllocateSlots(r, computed[r] + NumCached(r) + NumNewWaiting(r))
           /\ status' = [status EXCEPT ![r] = "RUNNING"]
    BY <1>4 DEF Admit
  <2>2. UNCHANGED <<tokens, info>> /\ phase = "admit" /\ phase' = "waiting"
    BY <1>4, <2>1 DEF Admit, AllocateSlots
  <2>3. r \in Request /\ IsLive(r)
    BY QueueLemma DEF SchedInv, IsLive
  <2>4. status'[r] = "RUNNING" /\ \A s \in Request \ {r} : status'[s] = status[s]
    BY <2>1, <2>3, SchedulerTypesLemma DEF SchedInv
  <2>5. IsLive(r)'
    BY <2>4 DEF IsLive
  <2> QED BY <2>2, <2>3, <2>4, <2>5 DEF Internal, BeingChecked
<1>5. ASSUME \/ StartSchedule \/ PriorityDone \/ ScheduleRunning \/ RunningDone \/ LookupPrefix
             \/ LookupDone \/ AdmitFails \/ WaitingDone
      PROVE  Internal
  <2>1. UNCHANGED <<info, status>> /\ phase # "check" /\ phase' # "check"
    BY <1>5 DEF StartSchedule, PriorityDone, ScheduleRunning, RunningTurn, RunningDone, LookupPrefix,
       LookupDone, AdmitFails, WaitingDone, requestVars, stepVars
  <2>2. UNCHANGED tokens
    BY <1>5 DEF StartSchedule, PriorityDone, ScheduleRunning, RunningDone, LookupPrefix,
       LookupDone, AdmitFails, WaitingDone, kvVars, AllocateSlots, LookupHit, DropLastHit,
       SlotsExhausted
  <2> QED BY <2>1, <2>2 DEF Internal, BeingChecked
<1>6. ASSUME StartUpdate \/ SkipAborted \/ UpdateChunk \/ EndStep PROVE Internal
  <2>1. UNCHANGED <<info, status, tokens>> /\ phase # "check" /\ phase' # "check"
    BY <1>6 DEF StartUpdate, SkipAborted, UpdateChunk, EndStep, UpdateTurn, requestVars, kvVars
  <2> QED BY <2>1 DEF Internal, BeingChecked
<1>7. ASSUME ManagerStep \/ UNCHANGED vars PROVE Internal
  <2>1. UNCHANGED <<info, status, tokens, phase, scheduled, idx>>
    BY <1>7 DEF ManagerStep, ReleaseBlock, RegisterBlock, requestVars, stepVars, vars, kvVars
  <2> QED BY <2>1 DEF Internal, BeingChecked
<1> QED BY <1>2, <1>3, <1>4, <1>5, <1>6, <1>7 DEF ScheduleNext

\* A live request was submitted.
LEMMA LiveIsSubmitted ==
  ASSUME NEW r, IsLive(r)
  PROVE  status[r] # "NONE" /\ status[r] \notin FinishedStatus
BY DEF IsLive, QueuedStatus, FinishedStatus

\* Nor does the service see such a step.
LEMMA InternalStutters ==
  ASSUME Internal
  PROVE  UNCHANGED <<State, Asked, Output>>
<1>1. UNCHANGED <<tokens, info>>
  BY DEF Internal
<1>2. ASSUME NEW r \in Request
      PROVE  /\ status'[r] = "NONE" <=> status[r] = "NONE"
             /\ IsLive(r)' <=> IsLive(r)
             /\ ~IsLive(r) => status'[r] = status[r]
  <2>1. CASE status'[r] = status[r]
    BY <2>1 DEF IsLive
  <2>2. CASE IsLive(r) /\ IsLive(r)'
    BY <2>2 DEF IsLive, QueuedStatus
  <2> QED BY <2>1, <2>2 DEF Internal
<1>3. State' = State
  BY <1>2 DEF State
<1>4. Asked' = Asked
  BY <1>1, <1>2 DEF Asked
<1>5. Output' = Output
  BY <1>1, <1>2 DEF Output
<1> QED BY <1>3, <1>4, <1>5

-----------------------------------------------------------------------------
(* No token ended a request that goes on. *)

\* What the parameters of a request are.
LEMMA ParamsType ==
  ASSUME NEW i \in Info
  PROVE  /\ i.promptLen \in Nat /\ i.params \in Params
         /\ i.params.minTokens \in Nat /\ i.params.maxTokens \in Nat \ {0}
<1>1. i.promptLen \in Nat /\ i.params \in Params
  BY InfoType
<1>2. i.params \in [minTokens : Nat, maxTokens : Nat \ {0}, stops : SUBSET Token]
  BY <1>1, ParamsAssumption
<1> QED BY <1>1, <1>2

\* A step that the service does not see keeps the invariant.
LEMMA InternalKeeps ==
  ASSUME GenerationInv, Internal
  PROVE  GenerationInv'
<1> SUFFICES ASSUME NEW r \in Request
             PROVE  /\ status'[r] # "NONE" => /\ info'[r].promptLen \in 1 .. Len(tokens'[r])
                                              /\ info'[r].promptLen < MaxModelLen
                    /\ IsLive(r)' /\ ~BeingChecked(r)'
                          => NumOutputTokens(r)' = 0 \/ StopStatus(r)' = "RUNNING"
                    /\ BeingChecked(r)' => NumOutputTokens(r)' > 0
  BY DEF GenerationInv
<1>1. UNCHANGED <<tokens, info>> /\ (BeingChecked(r)' <=> BeingChecked(r))
  BY DEF Internal
<1>2. (IsLive(r)' <=> IsLive(r)) /\ (status'[r] # "NONE" => status[r] # "NONE")
  <2>1. CASE status'[r] = status[r]
    BY <2>1 DEF IsLive
  <2>2. CASE IsLive(r) /\ IsLive(r)'
    BY <2>2, LiveIsSubmitted
  <2> QED BY <2>1, <2>2 DEF Internal
<1>3. NumOutputTokens(r)' = NumOutputTokens(r)
  BY <1>1 DEF NumOutputTokens
<1>4. StopStatus(r)' = StopStatus(r)
  BY <1>1 DEF StopStatus, NumOutputTokens, NumTokens
<1> QED BY <1>1, <1>2, <1>3, <1>4 DEF GenerationInv

\* A step on one request that is not checked afterwards: what it must leave of
\* that request, when nothing of the others changes.
LEMMA StepOnOne ==
  ASSUME GenerationInv, NEW r \in Request,
         \A s \in Request \ {r} : /\ tokens'[s] = tokens[s] /\ info'[s] = info[s]
                                  /\ status'[s] = status[s]
                                  /\ ~BeingChecked(s) /\ ~BeingChecked(s)',
         status'[r] # "NONE" => /\ info'[r].promptLen \in 1 .. Len(tokens'[r])
                                /\ info'[r].promptLen < MaxModelLen,
         IsLive(r)' /\ ~BeingChecked(r)' => NumOutputTokens(r)' = 0 \/ StopStatus(r)' = "RUNNING",
         BeingChecked(r)' => NumOutputTokens(r)' > 0
  PROVE  GenerationInv'
<1> SUFFICES ASSUME NEW s \in Request
             PROVE  /\ status'[s] # "NONE" => /\ info'[s].promptLen \in 1 .. Len(tokens'[s])
                                              /\ info'[s].promptLen < MaxModelLen
                    /\ IsLive(s)' /\ ~BeingChecked(s)'
                          => NumOutputTokens(s)' = 0 \/ StopStatus(s)' = "RUNNING"
                    /\ BeingChecked(s)' => NumOutputTokens(s)' > 0
  BY DEF GenerationInv
<1>1. CASE s = r
  BY <1>1
<1>2. CASE s # r
  <2>1. tokens'[s] = tokens[s] /\ info'[s] = info[s] /\ status'[s] = status[s]
    BY <1>2
  <2>2. NumOutputTokens(s)' = NumOutputTokens(s) /\ (IsLive(s)' <=> IsLive(s))
    BY <2>1 DEF NumOutputTokens, IsLive
  <2>3. StopStatus(s)' = StopStatus(s)
    BY <2>1 DEF StopStatus, NumOutputTokens, NumTokens
  <2> QED BY <1>2, <2>1, <2>2, <2>3 DEF GenerationInv
<1> QED BY <1>1, <1>2

\* What an add_request, an abort, a sampled token and a check do to the request
\* they are about; nothing of what the service knows of the others changes.
SubmitStep(r) ==
    /\ ~IsLive(r) /\ ~BeingChecked(r)'
    /\ status'[r] = "WAITING"
    /\ tokens'[r] \in Prompts
    /\ info'[r] \in Info /\ info'[r].promptLen = Len(tokens'[r])

AbortStep(r) ==
    /\ IsLive(r) /\ ~BeingChecked(r)'
    /\ status'[r] = "FINISHED_ABORTED"
    /\ tokens'[r] = tokens[r] /\ info'[r] = info[r]

SampleStep(r) ==
    /\ IsLive(r) /\ ~BeingChecked(r) /\ BeingChecked(r)'
    /\ Len(tokens[r]) < MaxModelLen
    /\ status'[r] = status[r]
    /\ \E t \in Token : tokens'[r] = Append(tokens[r], t)
    /\ info'[r] = info[r]

CheckStep(r) ==
    /\ IsLive(r) /\ BeingChecked(r) /\ ~BeingChecked(r)'
    /\ IF StopStatus(r) = "RUNNING" THEN status'[r] = status[r] ELSE status'[r] = StopStatus(r)
    /\ tokens'[r] = tokens[r] /\ info'[r] = info[r]

Others(r) ==
    \A s \in Request \ {r} : /\ tokens'[s] = tokens[s] /\ info'[s] = info[s]
                             /\ status'[s] = status[s]
                             /\ ~BeingChecked(s) /\ ~BeingChecked(s)'

\* Every step is internal, or one of these for one request.
LEMMA StepsByRequest ==
  ASSUME SchedInv, [Next]_vars
  PROVE  \/ Internal
         \/ \E r \in Request :
               /\ SubmitStep(r) \/ AbortStep(r) \/ SampleStep(r) \/ CheckStep(r)
               /\ Others(r)
<1>1. ASSUME NEW r \in Request, NEW prompt \in Prompts, NEW p \in Params, NEW prio \in Priorities,
             AddRequest(r, prompt, p, prio)
      PROVE  SubmitStep(r) /\ Others(r)
  <2> DEFINE i == [promptLen |-> Len(prompt), params |-> p, priority |-> prio, arrival |-> submissions]
  <2>1. /\ phase = "idle" /\ phase' = "idle" /\ ~IsLive(r)
        /\ tokens' = [tokens EXCEPT ![r] = prompt] /\ status' = [status EXCEPT ![r] = "WAITING"]
        /\ info' = [info EXCEPT ![r] = i]
    BY <1>1 DEF AddRequest, SetPrompt, stepVars
  <2>2. Len(prompt) \in Nat
    BY PromptLemma
  <2>3. i \in Info /\ i.promptLen = Len(prompt)
    BY <2>2 DEF SchedInv, SchedulerTypes, TypeOK, Info
  <2> HIDE DEF i
  <2>4. /\ tokens'[r] = prompt /\ status'[r] = "WAITING" /\ info'[r] = i
        /\ \A s \in Request \ {r} : /\ tokens'[s] = tokens[s] /\ info'[s] = info[s]
                                    /\ status'[s] = status[s]
    BY <2>1, SchedulerTypesLemma DEF SchedInv
  <2> QED BY <2>1, <2>3, <2>4 DEF SubmitStep, Others, BeingChecked
<1>2. ASSUME NEW r \in Request, Abort(r) PROVE AbortStep(r) /\ Others(r)
  <2>1. /\ phase \in {"idle", "scheduled"} /\ phase' = phase /\ IsLive(r)
        /\ UNCHANGED <<tokens, info>> /\ status' = [status EXCEPT ![r] = "FINISHED_ABORTED"]
    BY <1>2 DEF Abort, Finish, stepVars, FreeRequest, kvVars
  <2>2. status'[r] = "FINISHED_ABORTED" /\ \A s \in Request \ {r} : status'[s] = status[s]
    BY <2>1, SchedulerTypesLemma DEF SchedInv
  <2> QED BY <2>1, <2>2 DEF AbortStep, Others, BeingChecked
<1>3. ASSUME UpdateSampled
      PROVE  \E r \in Request : SampleStep(r) /\ Others(r)
  <2> DEFINE r == scheduled[idx].id
  <2>1. /\ phase = "update" /\ phase' = "check" /\ IsLive(r)
        /\ UNCHANGED <<status, info, idx, scheduled>>
    BY <1>3 DEF UpdateSampled, UpdateTurn
  <2>2. r \in Request /\ Len(tokens[r]) < MaxModelLen
    BY <1>3, UpdateTurnLemma DEF UpdateSampled
  <2>3. PICK t \in Token : AppendToken(r, t)
    BY <1>3 DEF UpdateSampled
  <2>4. BeingChecked(r)' /\ \A s : ~BeingChecked(s) /\ (s # r => ~BeingChecked(s)')
    BY <2>1 DEF BeingChecked
  <2> HIDE DEF r
  <2>5. /\ tokens'[r] = Append(tokens[r], t)
        /\ \A s \in Request \ {r} : tokens'[s] = tokens[s]
    BY <2>2, <2>3, SchedulerTypesLemma DEF AppendToken, SchedInv
  <2>6. SampleStep(r) /\ Others(r)
    BY <2>1, <2>2, <2>4, <2>5 DEF SampleStep, Others
  <2> QED BY <2>2, <2>6
<1>4. ASSUME CheckStop
      PROVE  \E r \in Request : CheckStep(r) /\ Others(r)
  <2> DEFINE r == scheduled[idx].id
  <2>1. /\ phase = "check" /\ phase' = "update" /\ UNCHANGED <<tokens, info>>
        /\ IF StopStatus(r) = "RUNNING" THEN status' = status
           ELSE status' = [status EXCEPT ![r] = StopStatus(r)]
    BY <1>4 DEF CheckStop, FreeRequest, Finish, kvVars
  <2>2. idx \in 1 .. Len(scheduled) /\ status[r] = "RUNNING"
    BY <2>1, SchedulerTypesLemma DEF SchedInv, LoopInv
  <2>3. r \in Request
    BY <2>2, EntryType DEF SchedInv
  <2>4. BeingChecked(r) /\ \A s : ~BeingChecked(s)' /\ (s # r => ~BeingChecked(s))
    BY <2>1 DEF BeingChecked
  <2>5. IsLive(r)
    BY <2>2 DEF IsLive
  <2> HIDE DEF r
  <2>6. /\ IF StopStatus(r) = "RUNNING" THEN status'[r] = status[r] ELSE status'[r] = StopStatus(r)
        /\ \A s \in Request \ {r} : status'[s] = status[s]
    BY <2>1, <2>3, SchedulerTypesLemma DEF SchedInv
  <2>7. CheckStep(r) /\ Others(r)
    BY <2>1, <2>4, <2>5, <2>6 DEF CheckStep, Others
  <2> QED BY <2>3, <2>7
<1>5. ASSUME \/ ScheduleNext \/ StartUpdate \/ SkipAborted \/ UpdateChunk \/ EndStep \/ ManagerStep
             \/ UNCHANGED vars
      PROVE  Internal
  BY <1>5, InternalSteps
<1> QED BY <1>1, <1>2, <1>3, <1>4, <1>5 DEF Next, EngineNext, ClientNext, UpdateNext

\* The invariant is inductive, given that of the scheduler.
LEMMA GenerationNext ==
  ASSUME SchedInv, GenerationInv, [Next]_vars
  PROVE  GenerationInv'
<1>1. ASSUME Internal PROVE GenerationInv'
  BY <1>1, InternalKeeps
<1>2. ASSUME NEW r \in Request, SubmitStep(r), Others(r) PROVE GenerationInv'
  <2>1. Len(tokens'[r]) \in 1 .. MaxModelLen - 1 /\ MaxModelLen \in Nat
    BY <1>2, PromptLemma, MaxModelLenAssumption DEF SubmitStep
  <2>2. info'[r].promptLen \in 1 .. Len(tokens'[r]) /\ info'[r].promptLen < MaxModelLen
    BY <1>2, <2>1 DEF SubmitStep
  <2>3. NumOutputTokens(r)' = 0
    BY <1>2, <2>1 DEF SubmitStep, NumOutputTokens
  <2> QED BY <1>2, <2>2, <2>3, StepOnOne DEF SubmitStep, Others
<1>3. ASSUME NEW r \in Request, AbortStep(r), Others(r) PROVE GenerationInv'
  <2>1. status[r] # "NONE"
    BY <1>3, LiveIsSubmitted DEF AbortStep
  <2>2. info'[r].promptLen \in 1 .. Len(tokens'[r]) /\ info'[r].promptLen < MaxModelLen
    BY <1>3, <2>1 DEF AbortStep, GenerationInv
  <2>3. ~IsLive(r)'
    BY <1>3 DEF AbortStep, IsLive, QueuedStatus
  <2> QED BY <1>3, <2>2, <2>3, StepOnOne DEF AbortStep, Others
<1>4. ASSUME NEW r \in Request, SampleStep(r), Others(r) PROVE GenerationInv'
  <2>1. PICK t \in Token : tokens'[r] = Append(tokens[r], t)
    BY <1>4 DEF SampleStep
  <2>2. status[r] # "NONE"
    BY <1>4, LiveIsSubmitted DEF SampleStep
  <2>3. tokens[r] \in Seq(Token) /\ Len(tokens[r]) \in Nat
    BY SchedulerTypesLemma DEF SchedInv
  <2>4. Len(tokens'[r]) = Len(tokens[r]) + 1
    BY <2>1, <2>3
  <2>5. /\ info[r].promptLen \in 1 .. Len(tokens[r]) /\ info[r].promptLen < MaxModelLen
        /\ info'[r] = info[r]
    BY <1>4, <2>2 DEF SampleStep, GenerationInv
  <2>6. info'[r].promptLen \in 1 .. Len(tokens'[r]) /\ NumOutputTokens(r)' > 0
    BY <2>3, <2>4, <2>5 DEF NumOutputTokens
  <2>7. BeingChecked(r)'
    BY <1>4 DEF SampleStep
  <2> QED BY <1>4, <2>5, <2>6, <2>7, StepOnOne DEF Others
<1>5. ASSUME NEW r \in Request, CheckStep(r), Others(r) PROVE GenerationInv'
  <2>1. status[r] # "NONE"
    BY <1>5, LiveIsSubmitted DEF CheckStep
  <2>2. info'[r].promptLen \in 1 .. Len(tokens'[r]) /\ info'[r].promptLen < MaxModelLen
    BY <1>5, <2>1 DEF CheckStep, GenerationInv
  <2>3. ~BeingChecked(r)'
    BY <1>5 DEF CheckStep
  <2>4. IsLive(r)' => StopStatus(r)' = "RUNNING"
    <3>1. StopStatus(r)' = StopStatus(r)
      BY <1>5 DEF CheckStep, StopStatus, NumOutputTokens, NumTokens
    <3>2. StopStatus(r) # "RUNNING" => ~IsLive(r)'
      <4>1. StopStatus(r) # "RUNNING" => status'[r] \in {"FINISHED_STOPPED", "FINISHED_LENGTH"}
        BY <1>5, StopStatusValue DEF CheckStep
      <4> QED BY <4>1 DEF IsLive, QueuedStatus
    <3> QED BY <3>1, <3>2
  <2> QED BY <1>5, <2>2, <2>3, <2>4, StepOnOne DEF Others
<1> QED BY <1>1, <1>2, <1>3, <1>4, <1>5, StepsByRequest

-----------------------------------------------------------------------------
(* Each of these steps is the service's step of the same request. *)

\* What a request has put out, and how its newest token ends it.
LEMMA OutputLemma ==
  ASSUME SchedInv, GenerationInv, NEW r \in Request, status[r] # "NONE"
  PROVE  /\ Output[r] = SubSeq(tokens[r], info[r].promptLen + 1, Len(tokens[r]))
         /\ Output[r] \in Seq(Token)
         /\ NumOutputTokens(r) \in Nat /\ Len(Output[r]) = NumOutputTokens(r)
         /\ info[r].promptLen \in Nat /\ info[r].promptLen + Len(Output[r]) = Len(tokens[r])
         /\ NumOutputTokens(r) > 0 => Last(Output[r]) = Last(tokens[r])
<1> DEFINE n == info[r].promptLen
<1>1. /\ tokens[r] \in Seq(Token) /\ Len(tokens[r]) \in Nat
      /\ n \in 1 .. Len(tokens[r]) /\ n \in Nat
  BY SchedulerTypesLemma DEF SchedInv, GenerationInv
<1>2. Output[r] = SubSeq(tokens[r], n + 1, Len(tokens[r]))
  BY DEF Output
<1>3. NumOutputTokens(r) = Len(tokens[r]) - n
  BY DEF NumOutputTokens
<1> HIDE DEF n
<1>4. /\ Output[r] \in Seq(Token) /\ Len(Output[r]) = Len(tokens[r]) - n
      /\ \A i \in 1 .. Len(tokens[r]) - n : Output[r][i] = tokens[r][i + n]
  BY <1>1, <1>2
<1>5. NumOutputTokens(r) \in Nat /\ n + Len(Output[r]) = Len(tokens[r])
  BY <1>1, <1>3, <1>4
<1>6. ASSUME NumOutputTokens(r) > 0 PROVE Last(Output[r]) = Last(tokens[r])
  <2> DEFINE m == Len(tokens[r]) - n
  <2>1. m \in 1 .. m /\ m + n = Len(tokens[r]) /\ Len(Output[r]) = m
    BY <1>1, <1>3, <1>4, <1>6
  <2>2. Output[r][m] = tokens[r][m + n]
    BY <1>4, <2>1
  <2> QED BY <2>1, <2>2 DEF Last
<1> QED BY <1>1, <1>2, <1>3, <1>4, <1>5, <1>6 DEF n

\* Whether the service has stopped or filled a request is what check_stop says.
LEMMA EndLemma ==
  ASSUME SchedInv, GenerationInv, NEW r \in Request, status[r] # "NONE"
  PROVE  LET stopped == /\ Output[r] # << >>
                        /\ Last(Output[r]) \in info[r].params.stops
                        /\ Len(Output[r]) >= info[r].params.minTokens
             full == \/ Len(Output[r]) >= info[r].params.maxTokens
                     \/ info[r].promptLen + Len(Output[r]) >= MaxModelLen
         IN  /\ NumOutputTokens(r) > 0 =>
                   /\ StopStatus(r) = "RUNNING" <=> ~stopped /\ ~full
                   /\ StopStatus(r) = "FINISHED_STOPPED" <=> stopped
                   /\ StopStatus(r) = "FINISHED_LENGTH" <=> ~stopped /\ full
             /\ NumOutputTokens(r) = 0 /\ Len(tokens[r]) < MaxModelLen => ~stopped /\ ~full
<1>1. /\ Output[r] \in Seq(Token) /\ NumOutputTokens(r) \in Nat /\ Len(Output[r]) = NumOutputTokens(r)
      /\ info[r].promptLen + Len(Output[r]) = Len(tokens[r])
      /\ NumOutputTokens(r) > 0 => Last(Output[r]) = Last(tokens[r])
  BY OutputLemma
<1>2. Output[r] = << >> <=> NumOutputTokens(r) = 0
  BY <1>1
<1>3. info[r].params.maxTokens \in Nat \ {0} /\ Len(tokens[r]) \in Nat /\ MaxModelLen \in Nat
  BY SchedulerTypesLemma, ParamsType, MaxModelLenAssumption DEF SchedInv
<1> QED BY <1>1, <1>2, <1>3 DEF StopStatus, NumTokens

\* The maps after a step that is on one request only.
LEMMA OneStep ==
  ASSUME NEW r \in Request, Others(r)
  PROVE  /\ State' = [State EXCEPT ![r] = State'[r]]
         /\ Asked' = [Asked EXCEPT ![r] = Asked'[r]]
         /\ Output' = [Output EXCEPT ![r] = Output'[r]]
<1>1. ASSUME NEW s \in Request \ {r}
      PROVE  State'[s] = State[s] /\ Asked'[s] = Asked[s] /\ Output'[s] = Output[s]
  <2>1. tokens'[s] = tokens[s] /\ info'[s] = info[s] /\ status'[s] = status[s]
    BY DEF Others
  <2>2. IsLive(s)' <=> IsLive(s)
    BY <2>1 DEF IsLive
  <2> QED BY <2>1, <2>2 DEF State, Asked, Output
<1>2. State' = [State EXCEPT ![r] = State'[r]]
  BY <1>1 DEF State
<1>3. Asked' = [Asked EXCEPT ![r] = Asked'[r]]
  BY <1>1 DEF Asked
<1>4. Output' = [Output EXCEPT ![r] = Output'[r]]
  BY <1>1 DEF Output
<1> QED BY <1>2, <1>3, <1>4

\* add_request is Submit.
LEMMA SubmitIsSubmit ==
  ASSUME SchedInv, SchedInv', NEW r \in Request, SubmitStep(r), Others(r)
  PROVE  Service!Submit(r)
<1>1. State[r] # "LIVE"
  <2>1. status[r] \in Status /\ ~IsLive(r)
    BY SchedulerTypesLemma DEF SchedInv, SubmitStep
  <2> QED BY <2>1 DEF State, Status, QueuedStatus, FinishedStatus
<1>2. State'[r] = "LIVE"
  BY DEF State, SubmitStep, IsLive, QueuedStatus
<1>3. tokens'[r] \in Seq(Token) /\ Len(tokens'[r]) \in 1 .. MaxModelLen - 1 /\ Len(tokens'[r]) \in Nat
  BY PromptLemma, MaxModelLenAssumption DEF SubmitStep
<1>4. Output'[r] = << >>
  <2>1. Output'[r] = SubSeq(tokens'[r], Len(tokens'[r]) + 1, Len(tokens'[r]))
    BY DEF Output, SubmitStep
  <2> QED BY <1>3, <2>1
<1>5. Asked'[r] \in Service!Ask
  <2>1. Asked'[r] = [promptLen |-> Len(tokens'[r]), params |-> info'[r].params]
    BY DEF Asked, SubmitStep
  <2>2. info'[r].params \in Params
    BY InfoType DEF SubmitStep
  <2> QED BY <1>3, <2>1, <2>2 DEF Service!Ask
<1>6. /\ State' = [State EXCEPT ![r] = "LIVE"]
      /\ \E a \in Service!Ask : Asked' = [Asked EXCEPT ![r] = a]
      /\ Output' = [Output EXCEPT ![r] = << >>]
  BY <1>2, <1>4, <1>5, OneStep
<1> QED BY <1>1, <1>6 DEF Service!Submit, State, Asked, Output

\* A map is as before when it is so for the request of the step.
LEMMA MapsSame ==
  ASSUME NEW r \in Request, Others(r)
  PROVE  /\ State'[r] = State[r] => State' = State
         /\ Asked'[r] = Asked[r] => Asked' = Asked
         /\ Output'[r] = Output[r] => Output' = Output
<1>1. /\ [State EXCEPT ![r] = State[r]] = State
      /\ [Asked EXCEPT ![r] = Asked[r]] = Asked
      /\ [Output EXCEPT ![r] = Output[r]] = Output
  BY DEF State, Asked, Output
<1> QED BY <1>1, OneStep

\* abort is Abort.
LEMMA AbortIsAbort ==
  ASSUME NEW r \in Request, AbortStep(r), Others(r)
  PROVE  Service!Abort(r)
<1>1. status[r] # "NONE" /\ status'[r] = "FINISHED_ABORTED" /\ status'[r] # "NONE"
  BY LiveIsSubmitted DEF AbortStep
<1>2. State[r] = "LIVE"
  BY DEF State, AbortStep
<1>3. State'[r] = "FINISHED_ABORTED"
  BY <1>1 DEF State, IsLive, QueuedStatus
<1>4. Asked'[r] = Asked[r] /\ Output'[r] = Output[r]
  BY <1>1 DEF Asked, Output, AbortStep
<1>5. State' = [State EXCEPT ![r] = "FINISHED_ABORTED"] /\ Asked' = Asked /\ Output' = Output
  BY <1>3, <1>4, OneStep, MapsSame
<1> QED BY <1>2, <1>5 DEF Service!Abort, State, Asked, Output

\* A sampled token is Generate: nothing had ended the output before it.
LEMMA SampleIsGenerate ==
  ASSUME SchedInv, GenerationInv, NEW r \in Request, SampleStep(r), Others(r)
  PROVE  Service!Generate(r)
<1>1. status[r] # "NONE" /\ status'[r] = status[r] /\ IsLive(r) /\ info'[r] = info[r]
  BY LiveIsSubmitted DEF SampleStep
<1>2. State[r] = "LIVE" /\ State'[r] = State[r]
  BY <1>1 DEF State, IsLive
<1>3. Asked'[r] = Asked[r] /\ Asked[r] = [promptLen |-> info[r].promptLen, params |-> info[r].params]
  BY <1>1 DEF Asked
<1>4. PICK t \in Token : tokens'[r] = Append(tokens[r], t)
  BY DEF SampleStep
<1>5. Output'[r] = Append(Output[r], t)
  <2> DEFINE n == info[r].promptLen
  <2>1. tokens[r] \in Seq(Token) /\ n \in 0 .. Len(tokens[r])
    BY <1>1, SchedulerTypesLemma DEF SchedInv, GenerationInv
  <2>2. Output[r] = SubSeq(tokens[r], n + 1, Len(tokens[r]))
    BY <1>1 DEF Output
  <2>3. Output'[r] = SubSeq(tokens'[r], n + 1, Len(tokens'[r]))
    BY <1>1 DEF Output
  <2> HIDE DEF n
  <2> QED BY <1>4, <2>1, <2>2, <2>3, SubSeqOfAppend
<1>6. /\ ~(/\ Output[r] # << >>
           /\ Last(Output[r]) \in Asked[r].params.stops
           /\ Len(Output[r]) >= Asked[r].params.minTokens)
      /\ ~(\/ Len(Output[r]) >= Asked[r].params.maxTokens
           \/ Asked[r].promptLen + Len(Output[r]) >= MaxModelLen)
  <2>1. NumOutputTokens(r) \in Nat /\ Len(tokens[r]) < MaxModelLen
    BY <1>1, OutputLemma DEF SampleStep
  <2>2. NumOutputTokens(r) = 0 \/ StopStatus(r) = "RUNNING"
    BY DEF GenerationInv, SampleStep
  <2> QED BY <1>1, <1>3, <2>1, <2>2, EndLemma
<1>7. State' = State /\ Asked' = Asked /\ Output' = [Output EXCEPT ![r] = Append(@, t)]
  <2>1. Output' = [Output EXCEPT ![r] = Output'[r]]
    BY OneStep
  <2> QED BY <1>2, <1>3, <1>5, <2>1, MapsSame
<1>8. ~Service!Stopped(r)
  BY <1>6 DEF Service!Stopped, Service!Last, Last, Asked, Output
<1>9. ~Service!Full(r)
  BY <1>6 DEF Service!Full, Asked, Output
<1> QED BY <1>2, <1>7, <1>8, <1>9 DEF Service!Generate, State, Asked, Output

\* check_stop is Finish when it ends the request, and no step otherwise.
LEMMA CheckIsFinish ==
  ASSUME SchedInv, GenerationInv, NEW r \in Request, CheckStep(r), Others(r)
  PROVE  Service!Finish(r) \/ UNCHANGED <<State, Asked, Output>>
<1>1. status[r] # "NONE" /\ IsLive(r) /\ tokens'[r] = tokens[r] /\ info'[r] = info[r]
  BY LiveIsSubmitted DEF CheckStep
<1>2. status'[r] # "NONE"
  BY <1>1, StopStatusValue DEF CheckStep
<1>3. /\ Asked'[r] = Asked[r] /\ Output'[r] = Output[r]
      /\ Asked[r] = [promptLen |-> info[r].promptLen, params |-> info[r].params]
  BY <1>1, <1>2 DEF Asked, Output
<1>4. Asked' = Asked /\ Output' = Output
  BY <1>3, MapsSame
<1>5. CASE StopStatus(r) = "RUNNING"
  <2>1. State'[r] = State[r]
    BY <1>5 DEF State, CheckStep, IsLive
  <2> QED BY <1>4, <2>1, MapsSame
<1>6. CASE StopStatus(r) # "RUNNING"
  <2> DEFINE stopped == /\ Output[r] # << >>
                        /\ Last(Output[r]) \in Asked[r].params.stops
                        /\ Len(Output[r]) >= Asked[r].params.minTokens
             full == \/ Len(Output[r]) >= Asked[r].params.maxTokens
                     \/ Asked[r].promptLen + Len(Output[r]) >= MaxModelLen
  <2>1. NumOutputTokens(r) > 0
    BY DEF GenerationInv, CheckStep
  <2>2. /\ StopStatus(r) = "RUNNING" <=> ~stopped /\ ~full
        /\ StopStatus(r) = "FINISHED_STOPPED" <=> stopped
        /\ StopStatus(r) = "FINISHED_LENGTH" <=> ~stopped /\ full
    BY <1>1, <1>3, <2>1, EndLemma
  <2>3. Service!Stopped(r) <=> stopped
    BY DEF Service!Stopped, Service!Last, Last, Asked, Output
  <2>4. Service!Full(r) <=> full
    BY DEF Service!Full, Asked, Output
  <2> HIDE DEF stopped, full
  <2>5. status'[r] = StopStatus(r) /\ StopStatus(r) \in {"FINISHED_STOPPED", "FINISHED_LENGTH"}
    BY <1>6, StopStatusValue DEF CheckStep
  <2>6. State[r] = "LIVE" /\ State'[r] = StopStatus(r)
    BY <1>1, <2>5 DEF State, IsLive, QueuedStatus
  <2>7. /\ Service!Stopped(r) \/ Service!Full(r)
        /\ StopStatus(r) = IF Service!Stopped(r) THEN "FINISHED_STOPPED" ELSE "FINISHED_LENGTH"
    BY <1>6, <2>2, <2>3, <2>4, <2>5
  <2>8. State' = [State EXCEPT ![r] = IF Service!Stopped(r) THEN "FINISHED_STOPPED"
                                      ELSE "FINISHED_LENGTH"]
    BY <2>6, <2>7, OneStep
  <2>9. Service!Finish(r)
    BY <1>4, <2>6, <2>7, <2>8 DEF Service!Finish, State, Asked, Output
  <2> QED BY <2>9
<1> QED BY <1>5, <1>6

-----------------------------------------------------------------------------
(* The theorem. *)

\* A step of the scheduler is a step of the service.
LEMMA ServiceStep ==
  ASSUME SchedInv, SchedInv', GenerationInv, [Next]_vars
  PROVE  [Service!ServiceNext]_(Service!serviceVars)
<1>1. ASSUME UNCHANGED <<State, Asked, Output>> PROVE UNCHANGED Service!serviceVars
  BY <1>1 DEF Service!serviceVars, State, Asked, Output
<1>2. CASE Internal
  BY <1>1, <1>2, InternalStutters
<1>3. ASSUME NEW r \in Request, SubmitStep(r) \/ AbortStep(r) \/ SampleStep(r), Others(r)
      PROVE  Service!ServiceNext
  BY <1>3, SubmitIsSubmit, AbortIsAbort, SampleIsGenerate DEF Service!ServiceNext
<1>4. ASSUME NEW r \in Request, CheckStep(r), Others(r)
      PROVE  [Service!ServiceNext]_(Service!serviceVars)
  BY <1>1, <1>4, CheckIsFinish DEF Service!ServiceNext
<1> QED BY <1>2, <1>3, <1>4, StepsByRequest

\* Nothing is asked before the first request.
LEMMA ServiceStart == Init => GenerationInv /\ Service!ServiceInit
<1> SUFFICES ASSUME Init PROVE GenerationInv /\ Service!ServiceInit
  OBVIOUS
<1>1. \A r \in Request : status[r] = "NONE" /\ ~IsLive(r) /\ ~BeingChecked(r)
  BY DEF Init, IsLive, QueuedStatus, BeingChecked
<1>2. GenerationInv
  BY <1>1 DEF GenerationInv
<1>3. Service!ServiceInit
  BY <1>1 DEF Service!ServiceInit
<1> QED BY <1>2, <1>3

\* No token ended a request that goes on, in every reachable state.
LEMMA GenerationCorrect == Spec => []GenerationInv
<1>1. SchedInv /\ GenerationInv /\ [Next]_vars => GenerationInv'
  BY GenerationNext
<1> QED BY <1>1, ServiceStart, SchedulerInv, PTL DEF Spec

\* The scheduler implements the service: whatever it preempts, splits into
\* chunks, recomputes or finds in the cache, an output grows by one token at a
\* time to the first that ends it, and the reason a finished request has is the
\* one its last token gives.
THEOREM SchedulerImplementsService == Spec => ImplementsService
<1>1. Init => Service!ServiceInit
  BY ServiceStart
<1>2. SchedInv /\ SchedInv' /\ GenerationInv /\ [Next]_vars
         => [Service!ServiceNext]_(Service!serviceVars)
  BY ServiceStep
<1> QED BY <1>1, <1>2, SchedulerInv, GenerationCorrect, PTL
        DEF Spec, ImplementsService, Service!ServiceSpec
=============================================================================
