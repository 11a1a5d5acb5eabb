---------------------------- MODULE EngineProofs ----------------------------
(***************************************************************************)
(* Theorems about Engine for every pool, block size, budget, number of     *)
(* slots, set of requests and set of parameters.                           *)
(*                                                                         *)
(* The invariant has four parts.  LayoutInv is about where the entries of  *)
(* a step write: never where another entry does, and never in a block that *)
(* is already hashed.  RunnerInv is about the runner's copy of a request,  *)
(* RowsInv about its image rows.  MemoryInv is about what the slots hold,  *)
(* or will after the step.                                                 *)
(***************************************************************************)
EXTENDS Engine, SchedulerProofs

(* Where a step writes. *)

\* An entry stays what schedule() built it as, even if its request is aborted.
EntriesShape ==
    \A i \in 1 .. Len(scheduled) :
       LET s == scheduled[i]
       IN  /\ IsInjective(s.blocks)
           /\ s.start + s.num <= Len(s.blocks) * BlockSize
           /\ s.start + s.num <= Len(tokens[s.id])
           /\ phase \notin {"update", "check"} /\ s.doSample => s.start + s.num = Len(tokens[s.id])

EntriesDisjoint ==
    \A i, j \in 1 .. Len(scheduled) : i # j =>
       \A b \in Block, o \in 0 .. BlockSize - 1 :
          ~(Writes(scheduled[i], b, o) /\ Writes(scheduled[j], b, o))

EntriesRunning ==
    phase \in Scheduling => \A i \in 1 .. Len(scheduled) : status[scheduled[i].id] = "RUNNING"

TablesCover ==
    \A r \in Request : status[r] = "RUNNING" => computed[r] <= Len(table[r]) * BlockSize

\* The first n tokens of r are computed, or will be once the step is executed.
Covered(r, n) ==
    \/ n <= computed[r]
    \/ \E i \in 1 .. Len(scheduled) :
          Unprocessed(i) /\ scheduled[i].id = r /\ n <= scheduled[i].start + scheduled[i].num

\* What is hashed, or about to be, has been computed.
HashedIsComputed ==
    \A r \in Request : status[r] = "RUNNING" => Covered(r, (hashed[r] + unhashed[r]) * BlockSize)

LayoutInv ==
    EntriesShape /\ EntriesDisjoint /\ EntriesRunning /\ TablesCover /\ HashedIsComputed

-----------------------------------------------------------------------------
(* The runner's copies. *)

Updating == {"update", "check"}

HasEntry(r) == \E i \in 1 .. Len(scheduled) : Unprocessed(i) /\ scheduled[i].id = r

SyncInv ==
    /\ \A r \in Request :
          status[r] = "RUNNING" /\ ~HasEntry(r) => resident[r] = SubSeq(tokens[r], 1, computed[r])
    /\ \A i \in 1 .. Len(scheduled) :
          LET s == scheduled[i]
          IN  /\ phase \notin Updating /\ ~s.isNew => resident[s.id] = SubSeq(tokens[s.id], 1, s.start)
              /\ phase \in Updating /\ Unprocessed(i) /\ status[s.id] = "RUNNING" =>
                    resident[s.id] = SubSeq(tokens[s.id], 1, s.start + s.num)

\* Who the runner is told to drop: nobody that goes on.
NoticesInv ==
    /\ phase \in Scheduling => newlyFinished = {}
    /\ phase = "idle" => finishedIds = {}
    /\ \A r \in Request : status[r] = "RUNNING" =>
          /\ r \notin newlyFinished
          /\ r \notin preempted
          /\ r \in finishedIds => \E i \in 1 .. Len(scheduled) : scheduled[i].id = r /\ scheduled[i].isNew
    /\ \A i \in 1 .. Len(scheduled) :
          ~IsLive(scheduled[i].id) => scheduled[i].id \in newlyFinished

\* What the runner still has of a request that is over is in a notice to come.
LeakInv ==
    \A r \in Request :
       ~IsLive(r) /\ (resident[r] # NoState \/ embeds[r] # NoEmbeds) =>
          r \in newlyFinished \cup (IF phase \in Updating THEN {} ELSE finishedIds)

RunnerInv == SyncInv /\ NoticesInv /\ LeakInv

-----------------------------------------------------------------------------
(* The engine drives the scheduler as the scheduler's specification says. *)

\* Every engine step is a step of the scheduler.
LEMMA EngineSteps == [EngineModelNext]_engineVars => [Next]_vars
<1> SUFFICES ASSUME [EngineModelNext]_engineVars PROVE [Next]_vars
  OBVIOUS
<1>1. ASSUME NEW r \in Request, Submit(r) PROVE Next
  BY <1>1 DEF Submit, Next, ClientNext
<1>2. ASSUME NEW r \in Request, Abort(r) PROVE Next
  BY <1>2 DEF Next, ClientNext
<1>3. ASSUME EngineStep PROVE Next
  BY <1>3 DEF EngineStep, ExecuteStep, Next, EngineNext
<1>4. CASE UNCHANGED engineVars
  BY <1>4 DEF engineVars
<1> QED BY <1>1, <1>2, <1>3, <1>4 DEF EngineModelNext

\* The runner is told what to do and decides nothing: whatever holds of the
\* scheduler by itself holds of it in the engine (engine.py, step).
THEOREM EngineImplementsScheduler == EngineSpec => Spec
<1>1. EngineInit => Init
  BY DEF EngineInit
<1> QED BY <1>1, EngineSteps, PTL DEF EngineSpec, Spec

-----------------------------------------------------------------------------
(* Slots and blocks. *)

\* Quotient and remainder.
LEMMA Division ==
  ASSUME NEW n \in Nat, NEW d \in Nat \ {0}
  PROVE  n \div d \in Nat /\ n % d \in 0 .. d - 1 /\ n = (n \div d) * d + (n % d)
OBVIOUS

\* The slot of a position is in the block of its index.
LEMMA SlotLemma ==
  ASSUME NEW pos \in Nat
  PROVE  /\ pos \div BlockSize \in Nat /\ pos % BlockSize \in 0 .. BlockSize - 1
         /\ pos = (pos \div BlockSize) * BlockSize + (pos % BlockSize)
         /\ \A n \in Nat : pos < n * BlockSize => pos \div BlockSize + 1 \in 1 .. n
         /\ \A n \in Nat : n * BlockSize <= pos => n < pos \div BlockSize + 1
<1> DEFINE q == pos \div BlockSize
           m == pos % BlockSize
<1>1. q \in Nat /\ m \in 0 .. BlockSize - 1 /\ pos = q * BlockSize + m
  BY Division, BlockSizeAssumption
<1> HIDE DEF q, m
<1>2. q * BlockSize \in Nat
  BY <1>1, BlocksMonotone, BlockSizeAssumption
<1>3. ASSUME NEW n \in Nat, pos < n * BlockSize PROVE q + 1 \in 1 .. n
  <2>1. n <= q => n * BlockSize <= q * BlockSize
    BY <1>1, BlocksMonotone, BlockSizeAssumption
  <2>2. n * BlockSize \in Nat
    BY BlocksMonotone, BlockSizeAssumption
  <2>3. q * BlockSize < n * BlockSize
    BY <1>1, <1>2, <1>3, <2>2, BlockSizeAssumption
  <2> QED BY <1>1, <1>2, <2>1, <2>2, <2>3
<1>4. ASSUME NEW n \in Nat, n * BlockSize <= pos PROVE n < q + 1
  <2>1. /\ q + 1 <= n => (q + 1) * BlockSize <= n * BlockSize
        /\ (q + 1) * BlockSize = q * BlockSize + BlockSize
        /\ n * BlockSize \in Nat
    BY <1>1, BlocksMonotone, BlockSizeAssumption
  <2> QED BY <1>1, <1>2, <1>4, <2>1, BlockSizeAssumption
<1>5. \A n \in Nat : pos < n * BlockSize => q + 1 \in 1 .. n
  BY <1>3
<1>6. \A n \in Nat : n * BlockSize <= pos => n < q + 1
  BY <1>4
<1> QED BY <1>1, <1>5, <1>6, Zenon DEF q, m

\* A step that adds an entry for r: schedule() serves a running request or
\* admits one.
NewEntry(r, start, num, isNew) ==
    /\ phase \in {"running", "admit"} /\ phase' \in {"running", "waiting"}
    /\ start \in Nat /\ num \in Nat \ {0} /\ isNew \in BOOLEAN
    /\ start + num \in 1 .. Len(tokens[r])
    /\ AllocateSlots(r, start + num)
    /\ Schedule(r, start, num, isNew)
    /\ computed'[r] = start /\ status'[r] = "RUNNING"
    /\ \A s \in Request \ {r} : computed'[s] = computed[s] /\ status'[s] = status[s]
    /\ \A i \in 1 .. Len(scheduled) : scheduled[i].id # r
    /\ ~isNew => /\ phase = "running" /\ status[r] = "RUNNING" /\ computed[r] = start
    /\ isNew => /\ phase = "admit" /\ status[r] \in QueuedStatus
                /\ start = Len(hits[r]) * BlockSize
    /\ UNCHANGED <<newlyFinished, preempted, finishedIds>>

\* Those are the two steps that add one.
LEMMA NewEntryLemma ==
  ASSUME SchedInv, ScheduleRunning \/ Admit
  PROVE  \E r \in Request : \E start, num, isNew : NewEntry(r, start, num, isNew)
<1>1. CASE ScheduleRunning
  <2> DEFINE r == running[idx]
             n == NumNewRunning(r)
  <2>1. /\ phase = "running" /\ phase' = phase /\ RunningTurn
        /\ AllocateSlots(r, computed[r] + n) /\ Schedule(r, computed[r], n, FALSE)
        /\ UNCHANGED <<status, computed, newlyFinished, preempted, finishedIds>>
    BY <1>1 DEF ScheduleRunning, RunningTurn, requestVars
  <2>2. /\ r \in Request /\ r \in Range(running) /\ status[r] = "RUNNING"
        /\ idx \in 1 .. Len(running)
        /\ n \in Nat \ {0} /\ n <= budget
        /\ computed[r] \in Nat /\ computed[r] + n \in 1 .. Len(tokens[r])
    BY <2>1, RunningTurnLemma
  <2>3. \A i \in 1 .. Len(scheduled) : scheduled[i].id # r
    <3>1. \A i, j \in 1 .. Len(running) : running[i] = running[j] => i = j
      BY QueueLemma DEF SchedInv
    <3>2. /\ idx = Len(scheduled) + 1 /\ Len(scheduled) \in Nat
          /\ \A i \in 1 .. Len(scheduled) : scheduled[i].id = running[i]
      BY <2>1, SchedulerTypesLemma DEF SchedInv, LoopInv
    <3>3. \A i \in 1 .. Len(scheduled) : i \in 1 .. Len(running) /\ i # idx
      BY <2>2, <3>2
    <3> QED BY <2>2, <3>1, <3>2, <3>3
  <2> HIDE DEF n, r
  <2>4. NewEntry(r, computed[r], n, FALSE)
    BY <2>1, <2>2, <2>3 DEF NewEntry
  <2> QED BY <2>2, <2>4
<1>2. CASE Admit
  <2>1. PICK r \in waiting :
           /\ TopWaiting(r)
           /\ AllocateSlots(r, computed[r] + NumCached(r) + NumNewWaiting(r))
           /\ status' = [status EXCEPT ![r] = "RUNNING"]
           /\ computed' = [computed EXCEPT ![r] = NumCached(r)]
           /\ Schedule(r, NumCached(r), NumNewWaiting(r), TRUE)
    BY <1>2 DEF Admit
  <2> DEFINE n == NumNewWaiting(r)
             c == NumCached(r)
  <2>2. /\ phase = "admit" /\ phase' = "waiting"
        /\ UNCHANGED <<newlyFinished, preempted, finishedIds>>
    BY <1>2 DEF Admit
  <2>3. /\ r \in Request /\ status[r] \in QueuedStatus
        /\ n \in Nat \ {0} /\ c \in Nat
        /\ c + n \in 1 .. Len(tokens[r]) /\ computed[r] + c + n = c + n
    BY <2>1, <2>2, AdmitTurnLemma
  <2>4. AllocateSlots(r, c + n) /\ Schedule(r, c, n, TRUE) /\ c = Len(hits[r]) * BlockSize
    BY <2>1, <2>3 DEF NumCached
  <2>5. \A i \in 1 .. Len(scheduled) : scheduled[i].id # r
    BY <2>1 DEF SchedInv, EntriesInv
  <2>6. /\ status'[r] = "RUNNING" /\ computed'[r] = c
        /\ \A s \in Request \ {r} : computed'[s] = computed[s] /\ status'[s] = status[s]
    BY <2>1, <2>3, SchedulerTypesLemma DEF SchedInv
  <2> HIDE DEF n, c
  <2>7. NewEntry(r, c, n, TRUE)
    BY <2>2, <2>3, <2>4, <2>5, <2>6 DEF NewEntry
  <2> QED BY <2>3, <2>7
<1> QED BY <1>1, <1>2

-----------------------------------------------------------------------------
(* Where a step writes, step by step. *)

\* What an entry writes lies in its table.
LEMMA WrittenSlot ==
  ASSUME NEW s \in ScheduledRequest, s.start + s.num <= Len(s.blocks) * BlockSize,
         NEW b, NEW o, Writes(s, b, o)
  PROVE  \E pos \in s.start .. s.start + s.num - 1 :
            /\ pos \in Nat /\ pos % BlockSize = o
            /\ pos \div BlockSize + 1 \in 1 .. Len(s.blocks)
            /\ b = s.blocks[pos \div BlockSize + 1] /\ b \in Range(s.blocks)
<1>1. /\ s.start \in Nat /\ s.num \in Nat /\ s.blocks \in Seq(Block) /\ Len(s.blocks) \in Nat
  BY DEF ScheduledRequest
<1>2. PICK pos \in s.start .. s.start + s.num - 1 :
         BlockAt(s.blocks, pos) = b /\ pos % BlockSize = o
  BY DEF Writes
<1>3. pos \in Nat /\ pos < s.start + s.num
  BY <1>1, <1>2
<1>4. Len(s.blocks) * BlockSize \in Nat
  BY <1>1, BlocksMonotone, BlockSizeAssumption
<1>5. pos < Len(s.blocks) * BlockSize
  BY <1>1, <1>3, <1>4
<1>6. pos \div BlockSize + 1 \in 1 .. Len(s.blocks)
  BY <1>1, <1>3, <1>5, SlotLemma
<1>7. b = s.blocks[pos \div BlockSize + 1]
  BY <1>2 DEF BlockAt
<1>8. b \in Range(s.blocks)
  BY <1>1, <1>6, <1>7, RangeOfSequence
<1> QED BY <1>2, <1>3, <1>6, <1>7, <1>8

\* A step that leaves the entries alone, and what they rely on.
LEMMA LayoutFrame ==
  ASSUME LayoutInv, UNCHANGED scheduled,
         scheduled = << >> \/ tokens' = tokens,
         phase' \notin Updating => scheduled = << >> \/ phase \notin Updating,
         phase' \in Scheduling => \A i \in 1 .. Len(scheduled) : status'[scheduled[i].id] = "RUNNING",
         \A i \in 1 .. Len(scheduled) :
            Unprocessed(i) /\ status'[scheduled[i].id] = "RUNNING" => Unprocessed(i)',
         \A r \in Request : status'[r] = "RUNNING" =>
            /\ status[r] = "RUNNING" /\ computed'[r] = computed[r] /\ table'[r] = table[r]
            /\ hashed'[r] + unhashed'[r] = hashed[r] + unhashed[r]
  PROVE  LayoutInv'
<1>1. EntriesShape'
  <2>1. CASE scheduled # << >>
    BY <2>1 DEF LayoutInv, EntriesShape, Updating
  <2>2. CASE scheduled = << >>
    BY <2>2 DEF EntriesShape
  <2> QED BY <2>1, <2>2
<1>2. EntriesDisjoint'
  BY DEF LayoutInv, EntriesDisjoint, Writes
<1>3. EntriesRunning'
  BY DEF EntriesRunning
<1>4. TablesCover'
  BY DEF LayoutInv, TablesCover
<1>5. HashedIsComputed'
  <2> SUFFICES ASSUME NEW r \in Request, status'[r] = "RUNNING"
               PROVE  Covered(r, (hashed[r] + unhashed[r]) * BlockSize)'
    BY DEF HashedIsComputed, Covered
  <2>1. Covered(r, (hashed[r] + unhashed[r]) * BlockSize)
    BY DEF LayoutInv, HashedIsComputed
  <2>2. computed'[r] = computed[r] /\ hashed'[r] + unhashed'[r] = hashed[r] + unhashed[r]
    OBVIOUS
  <2> QED BY <2>1, <2>2 DEF Covered
<1> QED BY <1>1, <1>2, <1>3, <1>4, <1>5 DEF LayoutInv

\* The table of a request that gets an entry, around its first uncomputed position.
LEMMA NewEntryTable ==
  ASSUME SchedInv, KVInv', HashedIsComputed, NEW r \in Request, NEW start, NEW num, NEW isNew,
         NewEntry(r, start, num, isNew)
  PROVE  LET e == scheduled'[Len(scheduled) + 1]
         IN  /\ e = [id |-> r, start |-> start, num |-> num, blocks |-> table'[r],
                     doSample |-> start + num = NumTokens(r), isNew |-> isNew]
             /\ e \in ScheduledRequest
             /\ Len(scheduled) \in Nat /\ Len(scheduled') = Len(scheduled) + 1
             /\ \A i \in 1 .. Len(scheduled) : scheduled'[i] = scheduled[i]
             /\ \A i \in 1 .. Len(scheduled') : i \in 1 .. Len(scheduled) \/ i = Len(scheduled) + 1
             /\ start + num <= Len(table'[r]) * BlockSize /\ IsInjective(table'[r])
             /\ hashed'[r] * BlockSize <= start
             /\ (hashed'[r] + unhashed'[r]) * BlockSize <= start + num
             /\ tokens' = tokens
             /\ \A s \in Request \ {r} : table'[s] = table[s] /\ hits'[s] = hits[s]
                                         /\ hashed'[s] = hashed[s] /\ unhashed'[s] = unhashed[s]
<1> DEFINE total == start + num
           k == HashedAfter(r)
           u == NewlyFull(k, total)
           e == [id |-> r, start |-> start, num |-> num, blocks |-> table'[r],
                 doSample |-> start + num = NumTokens(r), isNew |-> isNew]
<1>1. SchedulerTypes /\ KVInv
  BY DEF SchedInv
<1>2. /\ start \in Nat /\ num \in Nat \ {0} /\ isNew \in BOOLEAN /\ total \in 1 .. Len(tokens[r])
      /\ AllocateSlots(r, total) /\ scheduled' = Append(scheduled, e)
  BY DEF NewEntry, Schedule
<1>3. /\ table'[r] \in Seq(Block) /\ total <= Len(table'[r]) * BlockSize /\ tokens' = tokens
      /\ \A s \in Request \ {r} : table'[s] = table[s] /\ hits'[s] = hits[s]
  BY <1>1, <1>2, SlotsCover
<1>4. e \in ScheduledRequest
  BY <1>2, <1>3 DEF ScheduledRequest
<1>5. /\ hashed \in [Request -> Nat] /\ unhashed \in [Request -> Nat]
      /\ hashed' = [hashed EXCEPT ![r] = k] /\ unhashed' = [unhashed EXCEPT ![r] = u]
  BY <1>1, <1>2 DEF AllocateSlots, KVInv, KVTypeOK
<1>6. /\ hashed'[r] = k /\ unhashed'[r] = u
      /\ \A s \in Request \ {r} : hashed'[s] = hashed[s] /\ unhashed'[s] = unhashed[s]
  BY <1>5
<1>7. k \in Nat /\ k * BlockSize <= start
  <2>1. CASE ~isNew
    <3>1. status[r] = "RUNNING" /\ computed[r] = start /\ phase = "running"
      BY <2>1 DEF NewEntry
    <3>2. Covered(r, (hashed[r] + unhashed[r]) * BlockSize)
      BY <3>1 DEF HashedIsComputed
    <3>3. (hashed[r] + unhashed[r]) * BlockSize <= computed[r]
      BY <3>2 DEF Covered, NewEntry
    <3>4. hits[r] = << >>
      BY <3>1 DEF SchedInv, HitsInv
    <3>5. k = hashed[r] /\ hashed[r] \in Nat /\ unhashed[r] \in Nat
      BY <1>5, <3>4 DEF HashedAfter
    <3> HIDE DEF k
    <3>6. unhashed[r] = 0
      BY <1>2 DEF AllocateSlots, Settled
    <3> QED BY <3>1, <3>3, <3>5, <3>6
  <2>2. CASE isNew
    <3>1. start = Len(hits[r]) * BlockSize /\ status[r] \in QueuedStatus
      BY <2>2 DEF NewEntry
    <3>2. CASE hits[r] # << >>
      <4>1. k = Len(hits[r]) /\ Len(hits[r]) \in Nat
        BY <1>1, <3>2, SchedulerTypesLemma DEF HashedAfter
      <4> QED BY <3>1, <4>1, <1>2
    <3>3. CASE hits[r] = << >>
      <4>1. table[r] = << >>
        BY <3>1 DEF SchedInv, RequestsInv, QueuedStatus
      <4>2. hashed[r] + unhashed[r] <= 0 /\ hashed[r] \in Nat /\ unhashed[r] \in Nat
        BY <1>1, <1>5, <4>1 DEF KVInv, ChainWithinTable
      <4>3. k = 0
        BY <3>3, <4>2 DEF HashedAfter
      <4> QED BY <1>2, <4>3, BlockSizeAssumption
    <3> QED BY <3>2, <3>3
  <2> QED BY <1>2, <2>1, <2>2
<1>8. u \in Nat /\ (k + u) * BlockSize <= total
  <2> DEFINE q == total \div BlockSize
  <2>1. q \in Nat /\ q * BlockSize <= total
    <3>1. total \in Nat
      BY <1>2
    <3> HIDE DEF total
    <3> QED BY <3>1, BlockCounts, BlockSizeAssumption
  <2>2. u = IF EnableCaching /\ q > k THEN q - k ELSE 0
    BY DEF NewlyFull
  <2> HIDE DEF q, u, k
  <2>3. CASE EnableCaching /\ q > k
    <3>1. k + u = q /\ u \in Nat
      BY <1>7, <2>1, <2>2, <2>3
    <3> QED BY <2>1, <3>1
  <2>4. CASE ~(EnableCaching /\ q > k)
    <3>1. k + u = k /\ u \in Nat
      BY <1>7, <2>1, <2>2, <2>4
    <3>2. k * BlockSize <= total
      <4>1. k * BlockSize \in Nat
        BY <1>7, BlocksMonotone, BlockSizeAssumption
      <4> QED BY <1>2, <1>7, <4>1
    <3> QED BY <3>1, <3>2
  <2> QED BY <2>3, <2>4
<1>9. IsInjective(table'[r])
  BY DEF KVInv, NoRepeatedBlock
<1> HIDE DEF e, k, u
<1>10. /\ Len(scheduled) \in Nat /\ Len(scheduled') = Len(scheduled) + 1
       /\ scheduled'[Len(scheduled) + 1] = e
       /\ \A i \in 1 .. Len(scheduled) : scheduled'[i] = scheduled[i]
       /\ \A i \in 1 .. Len(scheduled') : i \in 1 .. Len(scheduled) \/ i = Len(scheduled) + 1
  BY <1>1, <1>2, <1>4, EntryAdded, SchedulerTypesLemma
<1>11. e = [id |-> r, start |-> start, num |-> num, blocks |-> table'[r],
            doSample |-> start + num = NumTokens(r), isNew |-> isNew]
  BY DEF e
<1> QED BY <1>2, <1>3, <1>4, <1>6, <1>7, <1>8, <1>9, <1>10, <1>11

\* A new entry writes blocks that only its request has, beyond those hashed.
LEMMA NewEntryPrivate ==
  ASSUME SchedInv, SchedInv', LayoutInv, NEW r \in Request, NEW start, NEW num, NEW isNew,
         NewEntry(r, start, num, isNew), NEW b, NEW o,
         Writes(scheduled'[Len(scheduled) + 1], b, o)
  PROVE  Holders(b)' = {r} /\ blockHash'[b] = NoHash
<1> DEFINE e == scheduled'[Len(scheduled) + 1]
<1>1. KVInv' /\ HashedIsComputed
  BY DEF SchedInv, LayoutInv
<1>2. /\ e \in ScheduledRequest /\ e.start = start /\ e.num = num /\ e.blocks = table'[r]
      /\ start + num <= Len(table'[r]) * BlockSize
      /\ hashed'[r] * BlockSize <= start
  <2>1. /\ e = [id |-> r, start |-> start, num |-> num, blocks |-> table'[r],
                doSample |-> start + num = NumTokens(r), isNew |-> isNew]
        /\ e \in ScheduledRequest
        /\ start + num <= Len(table'[r]) * BlockSize
        /\ hashed'[r] * BlockSize <= start
    BY <1>1, NewEntryTable
  <2> HIDE DEF e
  <2> QED BY <2>1
<1>3. start \in Nat /\ hashed'[r] \in Nat /\ table'[r] \in Seq(Block) /\ Len(table'[r]) \in Nat
  <2>1. start \in Nat
    BY DEF NewEntry
  <2>2. hashed'[r] \in Nat /\ table'[r] \in Seq(Block)
    BY <1>1 DEF KVInv, KVTypeOK
  <2> QED BY <2>1, <2>2
<1>4. Writes(e, b, o)
  OBVIOUS
<1> HIDE DEF e
<1>5. PICK pos \in start .. start + num - 1 :
         /\ pos \in Nat /\ pos \div BlockSize + 1 \in 1 .. Len(table'[r])
         /\ b = table'[r][pos \div BlockSize + 1]
  <2>1. e.start + e.num <= Len(e.blocks) * BlockSize
    BY <1>2
  <2>2. PICK pos \in e.start .. e.start + e.num - 1 :
           /\ pos \in Nat /\ pos \div BlockSize + 1 \in 1 .. Len(e.blocks)
           /\ b = e.blocks[pos \div BlockSize + 1]
    <3>1. e \in ScheduledRequest
      BY <1>2
    <3> QED BY <1>4, <2>1, <3>1, WrittenSlot, Zenon
  <2>3. pos \in start .. start + num - 1
    BY <1>2, <2>2
  <2>4. e.blocks = table'[r]
    BY <1>2
  <2> QED BY <2>2, <2>3, <2>4, Zenon
<1>6. hashed'[r] < pos \div BlockSize + 1
  <2>1. hashed'[r] * BlockSize <= pos
    <3>1. hashed'[r] * BlockSize \in Nat
      BY <1>3, BlocksMonotone, BlockSizeAssumption
    <3> QED BY <1>2, <1>3, <1>5, <3>1
  <2> QED BY <1>3, <1>5, <2>1, SlotLemma
<1>7. pos \div BlockSize + 1 \in hashed'[r] + 1 .. Len(table'[r])
  BY <1>3, <1>5, <1>6
<1>8. UnhashedBlocksArePrivate'
  BY <1>1, InvPrivate, PTL
<1> QED BY <1>5, <1>7, <1>8 DEF UnhashedBlocksArePrivate

\* So it writes where no other entry does.
LEMMA NewEntryLayout ==
  ASSUME SchedInv, SchedInv', LayoutInv, NEW r \in Request, NEW start, NEW num, NEW isNew,
         NewEntry(r, start, num, isNew)
  PROVE  LayoutInv'
<1> DEFINE n == Len(scheduled) + 1
           e == scheduled'[n]
<1>1. /\ phase \in {"running", "admit"} /\ phase' \in {"running", "waiting"}
      /\ phase \in Scheduling /\ phase \notin Updating /\ phase' \notin Updating
      /\ start \in Nat /\ num \in Nat \ {0}
      /\ start + num \in 1 .. Len(tokens[r])
      /\ computed'[r] = start /\ status'[r] = "RUNNING"
      /\ \A s \in Request \ {r} : computed'[s] = computed[s] /\ status'[s] = status[s]
      /\ \A i \in 1 .. Len(scheduled) : scheduled[i].id # r
  BY DEF NewEntry, Scheduling, Updating
<1>2. KVInv' /\ HashedIsComputed /\ SchedulerTypes /\ SchedulerTypes'
  BY DEF SchedInv, LayoutInv
<1>3. /\ e = [id |-> r, start |-> start, num |-> num, blocks |-> table'[r],
              doSample |-> start + num = NumTokens(r), isNew |-> isNew]
      /\ e \in ScheduledRequest
      /\ Len(scheduled) \in Nat /\ Len(scheduled') = n
      /\ \A i \in 1 .. Len(scheduled) : scheduled'[i] = scheduled[i]
      /\ \A i \in 1 .. Len(scheduled') : i \in 1 .. Len(scheduled) \/ i = n
      /\ start + num <= Len(table'[r]) * BlockSize /\ IsInjective(table'[r])
      /\ hashed'[r] * BlockSize <= start
      /\ (hashed'[r] + unhashed'[r]) * BlockSize <= start + num
      /\ tokens' = tokens
      /\ \A s \in Request \ {r} : table'[s] = table[s] /\ hashed'[s] = hashed[s]
                                  /\ unhashed'[s] = unhashed[s]
  BY <1>2, NewEntryTable
<1>4. e.id = r /\ e.start = start /\ e.num = num /\ e.blocks = table'[r]
  BY <1>3
<1>5. /\ computed[r] \in Nat /\ n \in 1 .. Len(scheduled') /\ Len(tokens[r]) \in Nat
      /\ hashed'[r] \in Nat /\ unhashed'[r] \in Nat /\ table'[r] \in Seq(Block)
      /\ Len(table'[r]) \in Nat
  <2>1. computed \in [Request -> Nat] /\ Len(tokens[r]) \in Nat
    BY <1>2, SchedulerTypesLemma
  <2>2. hashed'[r] \in Nat /\ unhashed'[r] \in Nat /\ table'[r] \in Seq(Block)
    BY <1>2 DEF KVInv, KVTypeOK
  <2>3. Len(table'[r]) \in Nat
    BY <2>2
  <2> QED BY <1>3, <2>1, <2>2, <2>3
<1> HIDE DEF e, n
<1>6. \A i \in 1 .. Len(scheduled) :
         /\ scheduled[i] \in ScheduledRequest /\ scheduled[i].id \in Request \ {r}
         /\ status[scheduled[i].id] = "RUNNING" /\ scheduled[i].blocks = table[scheduled[i].id]
         /\ scheduled[i].start + scheduled[i].num <= Len(scheduled[i].blocks) * BlockSize
  <2> SUFFICES ASSUME NEW i \in 1 .. Len(scheduled)
               PROVE  /\ scheduled[i] \in ScheduledRequest /\ scheduled[i].id \in Request \ {r}
                      /\ status[scheduled[i].id] = "RUNNING"
                      /\ scheduled[i].blocks = table[scheduled[i].id]
                      /\ scheduled[i].start + scheduled[i].num <= Len(scheduled[i].blocks) * BlockSize
    OBVIOUS
  <2>1. scheduled[i] \in ScheduledRequest /\ scheduled[i].id \in Request \ {r}
    BY <1>1, <1>2, EntryType
  <2>2. status[scheduled[i].id] = "RUNNING"
    BY <1>1 DEF LayoutInv, EntriesRunning
  <2>3. Unprocessed(i)
    BY <1>1 DEF Unprocessed, Updating
  <2>4. Executable(scheduled[i])
    BY <2>2, <2>3 DEF SchedInv, EntriesExecutable
  <2> QED BY <2>1, <2>2, <2>4 DEF Executable
<1>7. EntriesShape'
  <2> SUFFICES ASSUME NEW i \in 1 .. Len(scheduled')
               PROVE  /\ IsInjective(scheduled'[i].blocks)
                      /\ scheduled'[i].start + scheduled'[i].num
                            <= Len(scheduled'[i].blocks) * BlockSize
                      /\ scheduled'[i].start + scheduled'[i].num <= Len(tokens[scheduled'[i].id])
                      /\ scheduled'[i].doSample =>
                            scheduled'[i].start + scheduled'[i].num = Len(tokens[scheduled'[i].id])
    BY <1>3 DEF EntriesShape
  <2>1. CASE i \in 1 .. Len(scheduled)
    BY <1>1, <1>3, <2>1 DEF LayoutInv, EntriesShape, Updating
  <2>2. CASE i = n
    <3>1. scheduled'[i] = e
      BY <2>2 DEF e
    <3>2. e.doSample => start + num = Len(tokens[r])
      BY <1>3 DEF NumTokens
    <3> QED BY <1>1, <1>3, <1>4, <1>5, <3>1, <3>2
  <2> QED BY <1>3, <2>1, <2>2
<1>8. \A i \in 1 .. Len(scheduled) : \A b \in Block, o \in 0 .. BlockSize - 1 :
         ~(Writes(scheduled[i], b, o) /\ Writes(e, b, o))
  <2> SUFFICES ASSUME NEW i \in 1 .. Len(scheduled), NEW b \in Block, NEW o \in 0 .. BlockSize - 1,
                      Writes(scheduled[i], b, o), Writes(e, b, o)
               PROVE  FALSE
    OBVIOUS
  <2> DEFINE s == scheduled[i]
  <2>1. b \in Range(s.blocks)
    BY <1>6, WrittenSlot
  <2>2. s.id \in Request \ {r} /\ s.blocks = table'[s.id]
    BY <1>3, <1>6
  <2>3. s.id \in Holders(b)'
    <3> HIDE DEF s
    <3>1. b \in Range(table'[s.id])
      BY <2>1, <2>2
    <3> QED BY <2>2, <3>1 DEF Holders
  <2>4. Holders(b)' = {r}
    BY NewEntryPrivate DEF e, n
  <2> QED BY <2>2, <2>3, <2>4
<1>9. EntriesDisjoint'
  <2> SUFFICES ASSUME NEW i \in 1 .. Len(scheduled'), NEW j \in 1 .. Len(scheduled'), i # j,
                      NEW b \in Block, NEW o \in 0 .. BlockSize - 1
               PROVE  ~(Writes(scheduled'[i], b, o) /\ Writes(scheduled'[j], b, o))
    BY DEF EntriesDisjoint, Writes
  <2>1. scheduled'[n] = e
    BY DEF e
  <2>2. CASE i \in 1 .. Len(scheduled) /\ j \in 1 .. Len(scheduled)
    BY <1>3, <2>2 DEF LayoutInv, EntriesDisjoint
  <2>3. CASE i \in 1 .. Len(scheduled) /\ j = n
    BY <1>3, <1>8, <2>1, <2>3
  <2>4. CASE i = n /\ j \in 1 .. Len(scheduled)
    BY <1>3, <1>8, <2>1, <2>4
  <2> QED BY <1>3, <2>2, <2>3, <2>4
<1>10. EntriesRunning'
  <2> SUFFICES ASSUME NEW i \in 1 .. Len(scheduled') PROVE status'[scheduled'[i].id] = "RUNNING"
    BY DEF EntriesRunning
  <2>1. CASE i \in 1 .. Len(scheduled)
    BY <1>1, <1>3, <1>6, <2>1
  <2>2. CASE i = n
    BY <1>1, <1>4, <2>2 DEF e
  <2> QED BY <1>3, <2>1, <2>2
<1>11. TablesCover'
  <2> SUFFICES ASSUME NEW s \in Request, status'[s] = "RUNNING"
               PROVE  computed'[s] <= Len(table'[s]) * BlockSize
    BY DEF TablesCover
  <2>1. CASE s # r
    BY <1>1, <1>3, <2>1 DEF LayoutInv, TablesCover
  <2>2. CASE s = r
    <3>1. Len(table'[r]) * BlockSize \in Nat
      BY <1>5, BlocksMonotone, BlockSizeAssumption
    <3> QED BY <1>1, <1>3, <2>2, <3>1
  <2> QED BY <2>1, <2>2
<1>12. HashedIsComputed'
  <2> SUFFICES ASSUME NEW s \in Request, status'[s] = "RUNNING"
               PROVE  \/ (hashed'[s] + unhashed'[s]) * BlockSize <= computed'[s]
                      \/ \E i \in 1 .. Len(scheduled') :
                            /\ scheduled'[i].id = s
                            /\ (hashed'[s] + unhashed'[s]) * BlockSize
                                  <= scheduled'[i].start + scheduled'[i].num
    BY <1>1 DEF HashedIsComputed, Covered, Unprocessed, Updating
  <2>1. CASE s # r
    <3>1. Covered(s, (hashed[s] + unhashed[s]) * BlockSize)
      BY <1>1, <2>1 DEF LayoutInv, HashedIsComputed
    <3>2. 1 .. Len(scheduled) \subseteq 1 .. Len(scheduled')
      BY <1>3 DEF n
    <3> QED BY <1>1, <1>3, <2>1, <3>1, <3>2 DEF Covered
  <2>2. CASE s = r
    BY <1>3, <1>4, <1>5, <2>2 DEF e
  <2> QED BY <2>1, <2>2
<1> QED BY <1>7, <1>9, <1>10, <1>11, <1>12 DEF LayoutInv

\* An update moves what an entry covers to what its request has computed.
LEMMA AdvanceLayout ==
  ASSUME SchedInv, SchedInv', LayoutInv, UpdateChunk \/ UpdateSampled
  PROVE  LayoutInv'
<1> DEFINE s == scheduled[idx]
           r == scheduled[idx].id
<1>1. /\ phase = "update" /\ phase' \in Updating /\ UpdateTurn /\ IsLive(r)
      /\ computed' = [computed EXCEPT ![r] = @ + s.num]
      /\ UNCHANGED <<status, table, hashed, unhashed, scheduled>>
      /\ phase' = "update" => idx' = idx + 1
      /\ phase' = "check" => idx' = idx
      /\ phase' \in {"update", "check"}
      /\ tokens' = tokens \/ \E t \in Token : tokens' = [tokens EXCEPT ![r] = Append(@, t)]
  <2>1. CASE UpdateChunk
    BY <2>1, SMTT(40) DEF UpdateChunk, UpdateTurn, Advance, kvVars, Updating
  <2>2. CASE UpdateSampled
    BY <2>2 DEF UpdateSampled, UpdateTurn, Advance, AppendToken, Updating
  <2> QED BY <2>1, <2>2
<1>2. /\ idx \in 1 .. Len(scheduled) /\ r \in Request /\ s.num \in Nat /\ status[r] = "RUNNING"
      /\ Executable(s)
      /\ \A i \in 1 .. Len(scheduled) : i # idx => scheduled[i].id # r
  BY <1>1, UpdateTurnLemma
<1>3. s.start = computed[r] /\ s.blocks = table[r] /\ s.start + s.num <= Len(s.blocks) * BlockSize
  BY <1>2 DEF Executable
<1>4. /\ computed \in [Request -> Nat] /\ idx \in Nat /\ tokens \in [Request -> Seq(Token)]
      /\ \A q \in Request : Len(tokens[q]) \in Nat
  BY SchedulerTypesLemma DEF SchedInv
<1>5. \A i \in 1 .. Len(scheduled) : Unprocessed(i) /\ i # idx => Unprocessed(i)'
  BY <1>1, <1>4 DEF Unprocessed
<1> HIDE DEF s, r
<1>6. /\ computed'[r] = s.start + s.num
      /\ \A q \in Request \ {r} : computed'[q] = computed[q]
  BY <1>1, <1>2, <1>3, <1>4
<1>7. EntriesShape' /\ EntriesDisjoint' /\ EntriesRunning'
  <2>1. EntriesShape'
    <3>1. ASSUME NEW q \in Request PROVE Len(tokens[q]) <= Len(tokens'[q])
      <4>1. CASE tokens' = tokens
        BY <1>4, <4>1
      <4>2. ASSUME NEW t \in Token, tokens' = [tokens EXCEPT ![r] = Append(@, t)]
            PROVE  Len(tokens[q]) <= Len(tokens'[q])
        <5>1. tokens'[q] = tokens[q] \/ tokens'[q] = Append(tokens[q], t)
          BY <1>2, <1>4, <4>2
        <5>2. tokens[q] \in Seq(Token) /\ Len(tokens[q]) \in Nat
          BY <1>4
        <5> QED BY <5>1, <5>2
      <4> QED BY <1>1, <4>1, <4>2
    <3>2. ASSUME NEW i \in 1 .. Len(scheduled)
          PROVE  scheduled[i].start + scheduled[i].num <= Len(tokens'[scheduled[i].id])
      <4> DEFINE m == Len(tokens[scheduled[i].id])
                 n == Len(tokens'[scheduled[i].id])
                 k == scheduled[i].start + scheduled[i].num
      <4>1. scheduled[i].id \in Request /\ k \in Nat
        BY EntryType DEF SchedInv
      <4>2. k <= m
        BY DEF LayoutInv, EntriesShape
      <4>3. m <= n /\ m \in Nat /\ n \in Nat
        <5>1. m <= n /\ m \in Nat
          BY <1>4, <3>1, <4>1
        <5>2. n \in Nat
          BY <4>1, SchedulerTypesLemma DEF SchedInv
        <5> QED BY <5>1, <5>2
      <4> HIDE DEF m, n, k
      <4>4. k <= n
        BY <4>1, <4>2, <4>3
      <4> QED BY <4>4 DEF n, k
    <3> QED BY <1>1, <3>2 DEF LayoutInv, EntriesShape, Updating
  <2>2. EntriesDisjoint'
    BY <1>1, SMTT(40) DEF LayoutInv, EntriesDisjoint, Writes
  <2>3. EntriesRunning'
    BY <1>1 DEF EntriesRunning, Scheduling
  <2> QED BY <2>1, <2>2, <2>3
<1>8. TablesCover'
  <2> SUFFICES ASSUME NEW q \in Request, status[q] = "RUNNING"
               PROVE  computed'[q] <= Len(table[q]) * BlockSize
    BY <1>1 DEF TablesCover
  <2>1. CASE q # r
    BY <1>6, <2>1 DEF LayoutInv, TablesCover
  <2>2. CASE q = r
    BY <1>3, <1>6, <2>2
  <2> QED BY <2>1, <2>2
<1>9. HashedIsComputed'
  <2> SUFFICES ASSUME NEW q \in Request, status[q] = "RUNNING"
               PROVE  Covered(q, (hashed[q] + unhashed[q]) * BlockSize)'
    BY <1>1 DEF HashedIsComputed, Covered
  <2> DEFINE n == (hashed[q] + unhashed[q]) * BlockSize
  <2>1. Covered(q, n)
    BY DEF LayoutInv, HashedIsComputed
  <2>2. n' = n
    BY <1>1
  <2>3. n \in Nat
    <3>1. hashed[q] + unhashed[q] \in Nat
      BY DEF SchedInv, KVInv, KVTypeOK
    <3> QED BY <3>1, BlocksMonotone, BlockSizeAssumption
  <2> HIDE DEF n
  <2>4. Covered(q, n)'
    <3>1. CASE q # r
      <4>1. \A i \in 1 .. Len(scheduled) : scheduled[i].id = q => i # idx
        BY <3>1 DEF r
      <4> QED BY <1>1, <1>5, <1>6, <2>1, <2>2, <3>1, <4>1 DEF Covered
    <3>2. CASE q = r
      <4>1. n <= computed[r] \/ n <= s.start + s.num
        BY <1>2, <2>1, <3>2 DEF Covered, s
      <4>2. n <= computed'[r]
        <5>1. s.start \in Nat
          BY <1>2, <1>3, <1>4
        <5> QED BY <1>2, <1>3, <1>6, <2>3, <4>1, <5>1
      <4> QED BY <2>2, <3>2, <4>2 DEF Covered
    <3> QED BY <3>1, <3>2
  <2> QED BY <2>4 DEF n
<1> QED BY <1>7, <1>8, <1>9 DEF LayoutInv

\* When the step is over every entry has been processed or aborted.
LEMMA EndLayout ==
  ASSUME SchedInv, LayoutInv, EndStep
  PROVE  LayoutInv'
<1>1. /\ phase = "update" /\ idx > Len(scheduled) /\ scheduled' = << >> /\ phase' = "idle"
      /\ UNCHANGED <<status, computed, table, hashed, unhashed>>
  BY DEF EndStep, kvVars, requestVars
<1>2. Len(scheduled) \in Nat /\ idx \in Nat
  BY SchedulerTypesLemma DEF SchedInv
<1>3. EntriesShape' /\ EntriesDisjoint' /\ EntriesRunning'
  BY <1>1 DEF EntriesShape, EntriesDisjoint, EntriesRunning
<1>4. TablesCover'
  BY <1>1 DEF LayoutInv, TablesCover
<1>5. HashedIsComputed'
  <2> SUFFICES ASSUME NEW q \in Request, status[q] = "RUNNING"
               PROVE  (hashed[q] + unhashed[q]) * BlockSize <= computed[q]
    BY <1>1 DEF HashedIsComputed, Covered
  <2>1. Covered(q, (hashed[q] + unhashed[q]) * BlockSize)
    BY DEF LayoutInv, HashedIsComputed
  <2>2. \A i \in 1 .. Len(scheduled) : ~Unprocessed(i)
    BY <1>1, <1>2 DEF Unprocessed
  <2> QED BY <2>1, <2>2 DEF Covered
<1> QED BY <1>3, <1>4, <1>5 DEF LayoutInv

\* Every other step leaves the entries alone, and what they rely on.
LEMMA LayoutNext == SchedInv /\ SchedInv' /\ LayoutInv /\ [Next]_vars => LayoutInv'
<1> SUFFICES ASSUME SchedInv, SchedInv', LayoutInv, [Next]_vars PROVE LayoutInv'
  OBVIOUS
<1> DEFINE Same == /\ UNCHANGED scheduled
                   /\ \A r \in Request : status'[r] = "RUNNING" =>
                         /\ status[r] = "RUNNING" /\ computed'[r] = computed[r]
                         /\ table'[r] = table[r]
                         /\ hashed'[r] + unhashed'[r] = hashed[r] + unhashed[r]
<1>0. /\ SchedulerTypes /\ SchedulerTypes' /\ KVInv /\ KVInv'
      /\ status \in [Request -> Status] /\ computed \in [Request -> Nat]
      /\ table \in [Request -> Seq(Block)]
      /\ hashed \in [Request -> Nat] /\ unhashed \in [Request -> Nat]
      /\ \A i \in 1 .. Len(scheduled) : scheduled[i].id \in Request
  BY SchedulerTypesLemma, EntryType DEF SchedInv, KVInv, KVTypeOK
<1>1. ASSUME UNCHANGED <<status, computed, table, hashed, unhashed, scheduled>> PROVE Same
  BY <1>1
<1>2. ASSUME Same, phase' = phase, idx' = idx, tokens' = tokens,
             phase \in Scheduling =>
                \A i \in 1 .. Len(scheduled) : status'[scheduled[i].id] = "RUNNING"
      PROVE  LayoutInv'
  BY <1>2, LayoutFrame DEF Unprocessed
<1>3. ASSUME Same, phase \notin Updating, phase' \notin Updating, tokens' = tokens \/ scheduled = << >>,
             phase' \in Scheduling =>
                \A i \in 1 .. Len(scheduled) : status'[scheduled[i].id] = "RUNNING"
      PROVE  LayoutInv'
  BY <1>3, LayoutFrame DEF Unprocessed, Updating
<1>4. phase \in Scheduling => \A i \in 1 .. Len(scheduled) : status[scheduled[i].id] = "RUNNING"
  BY DEF LayoutInv, EntriesRunning
<1>5. CASE StartSchedule
  <2>1. scheduled = << >>
    BY <1>5 DEF StartSchedule, SchedInv, LoopInv
  <2> QED BY <1>1, <1>3, <1>5, <2>1 DEF StartSchedule, kvVars, Updating
<1>6. ASSUME NEW v \in Request, Preempt(v), phase \in {"priority", "running"},
             phase' \in {"priority", "running", "scheduled"}
      PROVE  LayoutInv'
  <2>1. /\ UNCHANGED <<scheduled, unhashed, tokens>> /\ v \in preempted'
        /\ \A r \in Request \ {v} : /\ status'[r] = status[r] /\ computed'[r] = computed[r]
                                    /\ table'[r] = table[r] /\ hashed'[r] = hashed[r]
        /\ status'[v] = "PREEMPTED"
    BY <1>0, <1>6 DEF Preempt, FreeRequest
  <2>2. Same
    BY <2>1
  <2>3. \A i \in 1 .. Len(scheduled) : scheduled[i].id # v
    <3>1. VictimsInv' /\ phase' \notin Updating
      BY <1>6 DEF SchedInv, Updating
    <3> QED BY <2>1, <3>1 DEF VictimsInv, Updating
  <2>4. \A i \in 1 .. Len(scheduled) : status'[scheduled[i].id] = "RUNNING"
    BY <1>0, <1>4, <1>6, <2>1, <2>3 DEF Scheduling
  <2> QED BY <1>3, <1>6, <2>1, <2>2, <2>4 DEF Updating
<1>7. CASE PreemptForPriority
  BY <1>6, <1>7 DEF PreemptForPriority
<1>8. CASE PreemptForBlocks
  <2>1. Last(running) \in Request
    <3>1. running # << >> /\ running \in Seq(Request)
      BY <1>8, RunningTurnLemma, SchedulerTypesLemma DEF PreemptForBlocks, SchedInv
    <3> QED BY <3>1, FrontLemma
  <2> QED BY <1>6, <1>8, <2>1 DEF PreemptForBlocks, RunningTurn
<1>9. CASE PriorityDone \/ RunningDone \/ WaitingDone
  BY <1>1, <1>3, <1>4, <1>9
  DEF PriorityDone, RunningDone, WaitingDone, kvVars, requestVars, Updating, Scheduling
<1>10. CASE ScheduleRunning \/ Admit
  BY <1>10, NewEntryLemma, NewEntryLayout
<1>11. CASE LookupPrefix
  BY <1>1, <1>2, <1>4, <1>11 DEF LookupPrefix, LookupHit, requestVars, stepVars
<1>12. CASE LookupDone
  <2>1. /\ phase = "waiting" /\ phase' = "admit"
        /\ UNCHANGED <<tokens, table, hashed, unhashed, status, computed, scheduled>>
    BY <1>12 DEF LookupDone, DropLastHit, requestVars, kvVars
  <2> QED BY <1>1, <1>3, <1>4, <2>1 DEF Updating, Scheduling
<1>13. CASE AdmitFails
  <2>1. /\ phase = "admit" /\ phase' \in {"crashed", "scheduled"}
        /\ UNCHANGED <<tokens, table, hashed, unhashed, status, computed, scheduled>>
    BY <1>13 DEF AdmitFails, SlotsExhausted, requestVars
  <2> QED BY <1>1, <1>3, <2>1 DEF Updating, Scheduling
<1>14. CASE StartUpdate
  <2>1. /\ phase' = "update" /\ idx' = 1
        /\ UNCHANGED <<tokens, table, hashed, unhashed, status, computed, scheduled>>
    BY <1>14 DEF StartUpdate, kvVars, requestVars
  <2>2. \A i \in 1 .. Len(scheduled) : Unprocessed(i)'
    BY <2>1 DEF Unprocessed
  <2> QED BY <1>1, <2>1, <2>2, LayoutFrame DEF Updating, Scheduling
<1>15. CASE SkipAborted
  <2>1. /\ phase = "update" /\ phase' = "update" /\ idx' = idx + 1 /\ ~IsLive(scheduled[idx].id)
        /\ UNCHANGED <<tokens, table, hashed, unhashed, status, computed, scheduled>>
    BY <1>15 DEF SkipAborted, UpdateTurn, kvVars, requestVars
  <2>2. \A i \in 1 .. Len(scheduled) :
           Unprocessed(i) /\ status[scheduled[i].id] = "RUNNING" => Unprocessed(i)'
    <3>1. idx \in Nat
      BY SchedulerTypesLemma DEF SchedInv
    <3> QED BY <2>1, <3>1 DEF Unprocessed, IsLive
  <2> QED BY <1>1, <2>1, <2>2, LayoutFrame DEF Updating, Scheduling
<1>16. CASE UpdateChunk \/ UpdateSampled
  BY <1>16, AdvanceLayout
<1>17. CASE CheckStop
  <2> DEFINE r == scheduled[idx].id
  <2>1. /\ phase = "check" /\ phase' = "update" /\ idx' = idx + 1
        /\ UNCHANGED <<computed, scheduled, tokens>>
        /\ \/ UNCHANGED <<table, hashed, unhashed, status>>
           \/ FreeRequest(r) /\ Finish(r, StopStatus(r)) /\ StopStatus(r) # "RUNNING"
    BY <1>17 DEF CheckStop, FreeRequest, kvVars
  <2>2. r \in Request
    <3>1. idx \in 1 .. Len(scheduled)
      BY <2>1, SchedulerTypesLemma DEF SchedInv, LoopInv
    <3> QED BY <1>0, <3>1
  <2> HIDE DEF r
  <2>3. Same
    <3>1. CASE UNCHANGED <<table, hashed, unhashed, status>>
      BY <1>1, <2>1, <3>1
    <3>2. CASE FreeRequest(r) /\ Finish(r, StopStatus(r)) /\ StopStatus(r) # "RUNNING"
      BY <1>0, <2>1, <2>2, <3>2 DEF FreeRequest, Finish
    <3> QED BY <2>1, <3>1, <3>2
  <2>4. \A i \in 1 .. Len(scheduled) : Unprocessed(i) => Unprocessed(i)'
    <3>1. idx \in Nat
      BY SchedulerTypesLemma DEF SchedInv
    <3> QED BY <2>1, <3>1 DEF Unprocessed
  <2> QED BY <2>1, <2>3, <2>4, LayoutFrame DEF Updating, Scheduling
<1>18. CASE EndStep
  BY <1>18, EndLayout
<1>19. CASE ManagerStep
  <2>1. UNCHANGED <<status, computed, table, scheduled, tokens, phase, idx>>
    BY <1>19 DEF ManagerStep, ReleaseBlock, RegisterBlock, requestVars, stepVars
  <2>2. \A r \in Request : hashed'[r] + unhashed'[r] = hashed[r] + unhashed[r]
    <3>1. CASE ReleaseBlock
      BY <3>1 DEF ReleaseBlock
    <3>2. CASE \E r \in Request : RegisterBlock(r)
      <4>1. PICK r \in Request : /\ hashed' = [hashed EXCEPT ![r] = @ + 1]
                               /\ unhashed' = [unhashed EXCEPT ![r] = @ - 1]
        BY <3>2 DEF RegisterBlock
      <4>2. hashed'[r] = hashed[r] + 1 /\ unhashed'[r] = unhashed[r] - 1
        BY <1>0, <4>1
      <4>3. \A s \in Request \ {r} : hashed'[s] = hashed[s] /\ unhashed'[s] = unhashed[s]
        BY <1>0, <4>1
      <4>4. hashed[r] \in Nat /\ unhashed[r] \in Nat
        BY <1>0
      <4> QED BY <4>2, <4>3, <4>4
    <3> QED BY <1>19, <3>1, <3>2 DEF ManagerStep
  <2> HIDE DEF Same
  <2>3. Same
    BY <2>1, <2>2 DEF Same
  <2> QED BY <1>2, <1>4, <2>1, <2>3
<1>20. ASSUME NEW r \in Request, NEW prompt \in Prompts, NEW p \in Params, NEW prio \in Priorities,
              AddRequest(r, prompt, p, prio)
       PROVE  LayoutInv'
  <2>1. /\ phase = "idle" /\ phase' = "idle" /\ scheduled = << >>
        /\ UNCHANGED <<table, hashed, unhashed, scheduled>>
        /\ status' = [status EXCEPT ![r] = "WAITING"] /\ computed' = [computed EXCEPT ![r] = 0]
    BY <1>20 DEF AddRequest, SetPrompt, SchedInv, LoopInv, stepVars
  <2>2. Same
    BY <1>0, <2>1
  <2> QED BY <1>3, <2>1, <2>2 DEF Updating, Scheduling
<1>21. ASSUME NEW r \in Request, Abort(r) PROVE LayoutInv'
  <2>1. /\ phase \in {"idle", "scheduled"}
        /\ UNCHANGED <<phase, idx, computed, scheduled, tokens>>
        /\ FreeRequest(r) \/ UNCHANGED <<table, hashed, unhashed>>
        /\ status' = [status EXCEPT ![r] = "FINISHED_ABORTED"]
    BY <1>21 DEF Abort, Finish, FreeRequest, kvVars, stepVars
  <2>2. Same
    BY <1>0, <2>1 DEF FreeRequest
  <2> QED BY <1>2, <2>1, <2>2 DEF Scheduling
<1>22. CASE UNCHANGED vars
  BY <1>1, <1>2, <1>4, <1>22 DEF vars, kvVars, requestVars, stepVars
<1> QED BY <1>5, <1>7, <1>8, <1>9, <1>10, <1>11, <1>12, <1>13, <1>14, <1>15, <1>16, <1>17, <1>18,
           <1>19, <1>20, <1>21, <1>22
        DEF Next, EngineNext, ClientNext, ScheduleNext, UpdateNext

\* Initially nothing is scheduled and nothing runs.
LEMMA LayoutInit == Init => LayoutInv
<1> SUFFICES ASSUME Init PROVE LayoutInv
  OBVIOUS
<1>1. scheduled = << >> /\ \A r \in Request : status[r] # "RUNNING"
  BY DEF Init
<1> QED BY <1>1 DEF LayoutInv, EntriesShape, EntriesDisjoint, EntriesRunning, TablesCover,
                    HashedIsComputed

\* The layout of every step.
LEMMA LayoutCorrect == Spec => []LayoutInv
<1> QED BY SchedulerInv, LayoutInit, LayoutNext, PTL DEF Spec

\* No two entries of a step write the same slot, whatever is shared, recomputed or
\* aborted: the forward pass may write the entries in any order.
THEOREM WritesDisjoint == EngineSpec => []WritesAreDisjoint
<1>1. SchedulerTypes /\ LayoutInv => WritesAreDisjoint
  <2> SUFFICES ASSUME SchedulerTypes, LayoutInv, NEW s \in Entries, NEW t \in Entries, s # t,
                      NEW b \in Block, NEW o \in 0 .. BlockSize - 1
               PROVE  ~(Writes(s, b, o) /\ Writes(t, b, o))
    BY DEF WritesAreDisjoint
  <2>1. \E i, j \in 1 .. Len(scheduled) : s = scheduled[i] /\ t = scheduled[j]
    <3>1. scheduled \in Seq(ScheduledRequest)
      BY SchedulerTypesLemma
    <3> QED BY <3>1, RangeOfSequence DEF Entries
  <2> QED BY <2>1 DEF LayoutInv, EntriesDisjoint
<1>2. SchedInv => SchedulerTypes
  BY DEF SchedInv
<1> QED BY <1>1, <1>2, EngineImplementsScheduler, SchedulerInv, LayoutCorrect, PTL

-----------------------------------------------------------------------------
(* Types. *)

\* A function on 1 .. n is a sequence.
LEMMA RowsAreSequence ==
  ASSUME NEW S, NEW n \in Nat, NEW f \in [1 .. n -> S]
  PROVE  f \in Seq(S) /\ Len(f) = n
OBVIOUS

\* The row a request has, and the row it is fed, at one of its tokens.
LEMMA RowTypes ==
  ASSUME EngineTypeOK, NEW s \in ScheduledRequest, NEW i \in 1 .. Len(tokens[s.id]),
         NEW graph \in BOOLEAN
  PROVE  OwnRow(s.id, i) \in Row /\ Fed(s, i, graph) \in Row
<1> DEFINE r == s.id
<1>1. r \in Request
  BY DEF ScheduledRequest
<1>2. tokens[r] \in Seq(Token) /\ embeds[r] \in Seq(Row) /\ image[r] \in Image \cup {NoImage}
  BY <1>1 DEF EngineTypeOK, TypeOK, KVTypeOK
<1>3. tokens[r][i] \in Token
  BY <1>2
<1> HIDE DEF r
<1>4. OwnRow(r, i) \in Row
  BY <1>2, <1>3 DEF OwnRow, Row
<1>5. FedEagerly(s, i) \in Row
  <2>1. EmbedsKept(r) \in Seq(Row)
    BY <1>2 DEF EmbedsKept, NoEmbeds
  <2>2. i \in Nat \ {0}
    BY <1>2 DEF r
  <2>3. i <= Len(EmbedsKept(r)) => EmbedsKept(r)[i] \in Row
    BY <2>1, <2>2
  <2> QED BY <1>3, <2>3 DEF FedEagerly, Row, r
<1>6. Fed(s, i, graph) \in Row
  BY <1>3, <1>5 DEF Fed, Row, r
<1> QED BY <1>4, <1>6 DEF r

\* The entries lie within the tokens of their requests until they are executed.
LEMMA EntryWithinTokens ==
  ASSUME SchedInv, LayoutInv, phase \notin Updating, NEW s \in Entries
  PROVE  /\ s \in ScheduledRequest /\ s.id \in Request /\ s.start \in Nat /\ s.num \in Nat
         /\ s.start + s.num <= Len(tokens[s.id])
         /\ s.doSample => s.start + s.num = Len(tokens[s.id])
         /\ tokens[s.id] \in Seq(Token) /\ Len(tokens[s.id]) \in Nat
<1>1. /\ scheduled \in Seq(ScheduledRequest) /\ tokens \in [Request -> Seq(Token)]
      /\ \A r \in Request : Len(tokens[r]) \in Nat
  BY SchedulerTypesLemma DEF SchedInv
<1>2. PICK i \in 1 .. Len(scheduled) : s = scheduled[i]
  BY <1>1, RangeOfSequence DEF Entries
<1>3. /\ s \in ScheduledRequest /\ s.id \in Request /\ s.start \in Nat /\ s.num \in Nat
  BY <1>2, EntryType DEF SchedInv
<1>4. /\ s.start + s.num <= Len(tokens[s.id])
      /\ s.doSample => s.start + s.num = Len(tokens[s.id])
  BY <1>2 DEF LayoutInv, EntriesShape, Updating
<1> QED BY <1>1, <1>3, <1>4

\* What the forward pass computes is a sequence of rows.
LEMMA WrittenType ==
  ASSUME SchedInv, LayoutInv, EngineTypeOK, phase \notin Updating, NEW s \in Entries,
         NEW b, NEW o, Writes(s, b, o), NEW graph \in BOOLEAN
  PROVE  WrittenPrefix(s, b, o, graph) \in Seq(Row)
<1> DEFINE pos == CHOOSE p \in s.start .. s.start + s.num - 1 :
                     BlockAt(s.blocks, p) = b /\ p % BlockSize = o
<1>1. /\ s \in ScheduledRequest /\ s.start \in Nat /\ s.num \in Nat
      /\ s.start + s.num <= Len(tokens[s.id]) /\ Len(tokens[s.id]) \in Nat
  BY EntryWithinTokens
<1>2. pos \in s.start .. s.start + s.num - 1
  BY DEF Writes
<1>3. WrittenPrefix(s, b, o, graph) =
         [i \in 1 .. pos + 1 |-> IF i <= s.start THEN OwnRow(s.id, i) ELSE Fed(s, i, graph)]
  BY DEF WrittenPrefix
<1> HIDE DEF pos
<1>4. pos + 1 \in Nat /\ \A i \in 1 .. pos + 1 : i \in 1 .. Len(tokens[s.id])
  BY <1>1, <1>2
<1>5. \A i \in 1 .. pos + 1 : (IF i <= s.start THEN OwnRow(s.id, i) ELSE Fed(s, i, graph)) \in Row
  BY <1>1, <1>4, RowTypes
<1>6. WrittenPrefix(s, b, o, graph) \in [1 .. pos + 1 -> Row]
  BY <1>3, <1>5
<1> QED BY <1>4, <1>6, RowsAreSequence

\* Executing a step keeps the types.
LEMMA ExecuteTypes ==
  ASSUME SchedInv, SchedInv', LayoutInv, EngineTypeOK, phase \notin Updating, Execute
  PROVE  EngineTypeOK'
<1>1. /\ image \in [Request -> Image \cup {NoImage}] /\ embeds \in [Request -> Seq(Row)]
      /\ resident \in [Request -> Seq(Token)] /\ draws \in [Request -> Nat]
      /\ kv \in [Block -> [0 .. BlockSize - 1 -> Seq(Row)]]
  BY DEF EngineTypeOK
<1>2. TypeOK'
  BY DEF SchedInv, SchedulerTypes
<1>3. image' \in [Request -> Image \cup {NoImage}]
  BY <1>1 DEF Execute
<1>4. embeds' \in [Request -> Seq(Row)]
  <2>1. \A r \in Request : EmbedsKept(r) \in Seq(Row)
    BY <1>1 DEF EmbedsKept, NoEmbeds
  <2> QED BY <2>1 DEF Execute
<1>5. \A r \in Request : InStep(r) => EntryOf(r) \in Entries /\ EntryOf(r).id = r
  BY DEF InStep, EntryOf
<1>6. resident' \in [Request -> Seq(Token)]
  <2>1. ASSUME NEW r \in Request, InStep(r)
        PROVE  KnownTokens(EntryOf(r)) \o
                  SubSeq(tokens[r], EntryOf(r).start + 1, EntryOf(r).start + EntryOf(r).num)
                  \in Seq(Token)
    <3> DEFINE s == EntryOf(r)
    <3>1. s \in Entries /\ s.id = r
      BY <1>5, <2>1
    <3> HIDE DEF s
    <3>2. /\ s.start \in Nat /\ s.num \in Nat /\ s.start + s.num <= Len(tokens[r])
          /\ tokens[r] \in Seq(Token) /\ Len(tokens[r]) \in Nat
      BY <3>1, EntryWithinTokens
    <3>3. SubSeq(tokens[r], s.start + 1, s.start + s.num) \in Seq(Token)
      BY <3>2
    <3>4. KnownTokens(s) \in Seq(Token)
      BY <1>1, <2>1, <3>1, <3>2 DEF KnownTokens
    <3>5. KnownTokens(s) \o SubSeq(tokens[r], s.start + 1, s.start + s.num) \in Seq(Token)
      BY <3>3, <3>4, ConcatLemma
    <3> QED BY <3>5 DEF s
  <2>2. \A r \in Request : (IF r \in Dropped THEN NoState ELSE resident[r]) \in Seq(Token)
    BY <1>1 DEF NoState
  <2> QED BY <2>1, <2>2 DEF Execute
<1>7. draws' \in [Request -> Nat]
  <2>1. \A r \in Request : InStep(r) =>
           DrawsBefore(EntryOf(r)) + (IF EntryOf(r).doSample THEN 1 ELSE 0) \in Nat
    BY <1>1, <1>5 DEF DrawsBefore
  <2>2. \A r \in Request : (IF r \in Dropped THEN 0 ELSE draws[r]) \in Nat
    BY <1>1
  <2> QED BY <2>1, <2>2 DEF Execute
<1>8. kv' \in [Block -> [0 .. BlockSize - 1 -> Seq(Row)]]
  <2>1. PICK graph \in BOOLEAN :
           kv' = [b \in Block |-> [o \in 0 .. BlockSize - 1 |->
              IF \E s \in Entries : Writes(s, b, o)
              THEN WrittenPrefix(CHOOSE s \in Entries : Writes(s, b, o), b, o, graph)
              ELSE kv[b][o]]]
    <3>1. PureDecode \in BOOLEAN
      BY DEF PureDecode
    <3> QED BY <3>1 DEF Execute
  <2>2. \A b \in Block, o \in 0 .. BlockSize - 1 :
           (IF \E s \in Entries : Writes(s, b, o)
            THEN WrittenPrefix(CHOOSE s \in Entries : Writes(s, b, o), b, o, graph)
            ELSE kv[b][o]) \in Seq(Row)
    <3> SUFFICES ASSUME NEW b \in Block, NEW o \in 0 .. BlockSize - 1
                 PROVE  (IF \E s \in Entries : Writes(s, b, o)
                         THEN WrittenPrefix(CHOOSE s \in Entries : Writes(s, b, o), b, o, graph)
                         ELSE kv[b][o]) \in Seq(Row)
      OBVIOUS
    <3>1. CASE \E s \in Entries : Writes(s, b, o)
      <4> DEFINE t == CHOOSE s \in Entries : Writes(s, b, o)
      <4>1. t \in Entries /\ Writes(t, b, o)
        BY <3>1
      <4> HIDE DEF t
      <4>2. WrittenPrefix(t, b, o, graph) \in Seq(Row)
        BY <4>1, WrittenType
      <4> QED BY <3>1, <4>2 DEF t
    <3>2. CASE ~ \E s \in Entries : Writes(s, b, o)
      BY <1>1, <3>2
    <3> QED BY <3>1, <3>2
  <2> QED BY <2>1, <2>2
<1> QED BY <1>2, <1>3, <1>4, <1>6, <1>7, <1>8 DEF EngineTypeOK

\* Every other step keeps the runner's variables, or sets those of a request that
\* comes in.
LEMMA EngineTypesNext ==
  SchedInv /\ SchedInv' /\ LayoutInv /\ EngineTypeOK /\ [EngineModelNext]_engineVars => EngineTypeOK'
<1> SUFFICES ASSUME SchedInv, SchedInv', LayoutInv, EngineTypeOK, [EngineModelNext]_engineVars
             PROVE  EngineTypeOK'
  OBVIOUS
<1>1. TypeOK'
  BY DEF SchedInv, SchedulerTypes
<1>2. ASSUME UNCHANGED runnerVars PROVE EngineTypeOK'
  BY <1>1, <1>2 DEF runnerVars, EngineTypeOK
<1>3. ASSUME ExecuteStep PROVE EngineTypeOK'
  <2>1. phase \notin Updating
    BY <1>3 DEF ExecuteStep, StartUpdate, Updating
  <2> QED BY <1>2, <1>3, <2>1, ExecuteTypes DEF ExecuteStep
<1>4. ASSUME NEW r \in Request, Submit(r) PROVE EngineTypeOK'
  <2>1. UNCHANGED <<resident, draws, kv>>
    BY <1>4 DEF Submit
  <2>2. \/ \E im \in Image, prompt \in Prompts :
              /\ image' = [image EXCEPT ![r] = im]
              /\ embeds' = [embeds EXCEPT ![r] = Splice(prompt, im)]
        \/ image' = [image EXCEPT ![r] = NoImage] /\ UNCHANGED embeds
    BY <1>4 DEF Submit
  <2>3. ASSUME NEW im \in Image, NEW prompt \in Prompts PROVE Splice(prompt, im) \in Seq(Row)
    <3>1. prompt \in Seq(Token)
      BY PromptLemma
    <3>2. Splice(prompt, im) \in [1 .. Len(prompt) -> Row]
      BY <3>1 DEF Splice, Row
    <3>3. Len(prompt) \in Nat
      BY <3>1
    <3> QED BY <3>2, <3>3, RowsAreSequence
  <2>4. image' \in [Request -> Image \cup {NoImage}] /\ embeds' \in [Request -> Seq(Row)]
    <3>1. image \in [Request -> Image \cup {NoImage}] /\ embeds \in [Request -> Seq(Row)]
      BY DEF EngineTypeOK
    <3> QED BY <2>2, <2>3, <3>1
  <2> QED BY <1>1, <2>1, <2>4 DEF EngineTypeOK
<1>5. UNCHANGED engineVars => UNCHANGED runnerVars
  BY DEF engineVars
<1> QED BY <1>2, <1>3, <1>4, <1>5 DEF EngineModelNext, EngineStep

\* Initially no block holds anything.
LEMMA EngineTypesInit == EngineInit => EngineTypeOK
<1> SUFFICES ASSUME EngineInit PROVE EngineTypeOK
  OBVIOUS
<1>1. TypeOK
  BY InitInv DEF EngineInit, SchedInv, SchedulerTypes
<1>2. << >> \in Seq(Token) /\ << >> \in Seq(Row)
  OBVIOUS
<1> QED BY <1>1, <1>2 DEF EngineInit, EngineTypeOK, NoEmbeds, NoState

\* Every variable of the engine keeps its type; above all a chunk never reaches
\* past the tokens of its request.
THEOREM EngineTypeCorrect == EngineSpec => []EngineTypeOK
<1> QED BY EngineImplementsScheduler, SchedulerInv, LayoutCorrect, EngineTypesInit,
           EngineTypesNext, PTL
        DEF EngineSpec

-----------------------------------------------------------------------------
(* The runner's copies, step by step. *)

\* A step that adds no entry and executes nothing: requests may leave `running`,
\* and those that are over are in a notice.
LEMMA RunnerFrame ==
  ASSUME RunnerInv, UNCHANGED <<resident, scheduled, finishedIds>>,
         \A r \in Request : ~IsLive(r)' => /\ embeds'[r] = embeds[r]
                                           /\ IsLive(r) => r \in newlyFinished',
         newlyFinished \subseteq newlyFinished',
         phase' \in Scheduling => phase \in Scheduling /\ newlyFinished' = newlyFinished,
         phase' = "idle" => phase = "idle",
         phase' \in Updating <=> phase \in Updating,
         scheduled = << >> \/ tokens' = tokens,
         \A r \in Request : status'[r] = "RUNNING" =>
            /\ status[r] = "RUNNING" /\ computed'[r] = computed[r] /\ tokens'[r] = tokens[r]
            /\ r \in newlyFinished' => r \in newlyFinished
            /\ r \in preempted' => r \in preempted,
         \A i \in 1 .. Len(scheduled) :
            /\ scheduled[i].id \in Request
            /\ status'[scheduled[i].id] = "RUNNING" => (Unprocessed(i)' <=> Unprocessed(i))
  PROVE  RunnerInv'
<1>1. SyncInv'
  <2>1. ASSUME NEW r \in Request, status'[r] = "RUNNING", ~HasEntry(r)'
        PROVE  resident'[r] = SubSeq(tokens'[r], 1, computed'[r])
    <3>1. ~HasEntry(r)
      BY <2>1 DEF HasEntry
    <3> QED BY <2>1, <3>1 DEF RunnerInv, SyncInv
  <2>2. ASSUME NEW i \in 1 .. Len(scheduled), phase' \notin Updating, ~scheduled[i].isNew
        PROVE  resident'[scheduled[i].id] = SubSeq(tokens'[scheduled[i].id], 1, scheduled[i].start)
    <3>1. tokens' = tokens
      BY <2>2
    <3> QED BY <2>2, <3>1 DEF RunnerInv, SyncInv
  <2>3. ASSUME NEW i \in 1 .. Len(scheduled), phase' \in Updating, Unprocessed(i)',
               status'[scheduled[i].id] = "RUNNING"
        PROVE  resident'[scheduled[i].id] =
                  SubSeq(tokens'[scheduled[i].id], 1, scheduled[i].start + scheduled[i].num)
    BY <2>3 DEF RunnerInv, SyncInv
  <2> QED BY <2>1, <2>2, <2>3 DEF SyncInv
<1>2. NoticesInv'
  <2>1. /\ phase' \in Scheduling => newlyFinished' = {}
        /\ phase' = "idle" => finishedIds' = {}
    BY DEF RunnerInv, NoticesInv
  <2>2. ASSUME NEW r \in Request, status'[r] = "RUNNING"
        PROVE  /\ r \notin newlyFinished' /\ r \notin preempted'
               /\ r \in finishedIds' =>
                     \E i \in 1 .. Len(scheduled') : scheduled'[i].id = r /\ scheduled'[i].isNew
    BY <2>2 DEF RunnerInv, NoticesInv
  <2>3. ASSUME NEW i \in 1 .. Len(scheduled), ~IsLive(scheduled[i].id)'
        PROVE  scheduled[i].id \in newlyFinished'
    BY <2>3 DEF RunnerInv, NoticesInv
  <2> QED BY <2>1, <2>2, <2>3 DEF NoticesInv, IsLive
<1>3. LeakInv'
  BY DEF RunnerInv, LeakInv
<1> QED BY <1>1, <1>2, <1>3 DEF RunnerInv

\* schedule() takes over the notices of what ended since the last step.
LEMMA StartRunner ==
  ASSUME SchedInv, RunnerInv, StartSchedule, UNCHANGED runnerVars
  PROVE  RunnerInv'
<1>1. /\ phase = "idle" /\ phase' = "priority" /\ scheduled = << >>
      /\ finishedIds' = newlyFinished /\ newlyFinished' = {} /\ finishedIds = {}
      /\ UNCHANGED <<tokens, status, computed, scheduled, preempted, resident, embeds>>
  BY DEF StartSchedule, kvVars, runnerVars, SchedInv, LoopInv, RunnerInv, NoticesInv
<1>2. SyncInv'
  BY <1>1 DEF RunnerInv, SyncInv, HasEntry
<1>3. NoticesInv'
  BY <1>1 DEF RunnerInv, NoticesInv
<1>4. LeakInv'
  BY <1>1 DEF RunnerInv, LeakInv, IsLive, Updating
<1> QED BY <1>2, <1>3, <1>4 DEF RunnerInv

\* A request with an entry is one the runner goes on with, or starts.
LEMMA NewEntryRunner ==
  ASSUME SchedInv, SchedInv', HashedIsComputed, RunnerInv, UNCHANGED runnerVars,
         NEW r \in Request, NEW start, NEW num, NEW isNew, NewEntry(r, start, num, isNew)
  PROVE  RunnerInv'
<1> DEFINE n == Len(scheduled) + 1
           e == scheduled'[n]
<1>1. /\ phase \in Scheduling /\ phase \notin Updating /\ phase' \notin Updating
      /\ phase' \in Scheduling /\ phase # "idle" /\ phase' # "idle"
      /\ status'[r] = "RUNNING"
      /\ \A s \in Request \ {r} : computed'[s] = computed[s] /\ status'[s] = status[s]
      /\ \A i \in 1 .. Len(scheduled) : scheduled[i].id # r
      /\ ~isNew => status[r] = "RUNNING" /\ computed[r] = start
      /\ isNew => status[r] \in QueuedStatus
      /\ isNew \in BOOLEAN
      /\ UNCHANGED <<newlyFinished, preempted, finishedIds, resident, embeds>>
  BY DEF NewEntry, Scheduling, Updating, runnerVars
<1>2. /\ e = [id |-> r, start |-> start, num |-> num, blocks |-> table'[r],
              doSample |-> start + num = NumTokens(r), isNew |-> isNew]
      /\ Len(scheduled) \in Nat /\ Len(scheduled') = n
      /\ \A i \in 1 .. Len(scheduled) : scheduled'[i] = scheduled[i]
      /\ \A i \in 1 .. Len(scheduled') : i \in 1 .. Len(scheduled) \/ i = n
      /\ tokens' = tokens
  BY NewEntryTable DEF SchedInv
<1>3. e.id = r /\ e.start = start /\ e.isNew = isNew /\ scheduled'[n] = e
  BY <1>2
<1>4. n \in 1 .. Len(scheduled') /\ 1 .. Len(scheduled) \subseteq 1 .. Len(scheduled')
  BY <1>2
<1>5. \A i \in 1 .. Len(scheduled) : scheduled[i].id \in Request \ {r}
  BY <1>1, EntryType DEF SchedInv
<1> HIDE DEF n, e
<1>6. SyncInv'
  <2>1. ASSUME NEW s \in Request, status'[s] = "RUNNING", ~HasEntry(s)'
        PROVE  resident'[s] = SubSeq(tokens'[s], 1, computed'[s])
    <3>1. s # r
      BY <1>1, <1>3, <1>4, <2>1 DEF HasEntry, Unprocessed, Updating
    <3>2. ~HasEntry(s)
      BY <1>1, <1>2, <1>4, <2>1 DEF HasEntry, Unprocessed, Updating
    <3> QED BY <1>1, <1>2, <2>1, <3>1, <3>2 DEF RunnerInv, SyncInv
  <2>2. ASSUME NEW i \in 1 .. Len(scheduled'), ~scheduled'[i].isNew
        PROVE  resident'[scheduled'[i].id] = SubSeq(tokens'[scheduled'[i].id], 1, scheduled'[i].start)
    <3>1. CASE i \in 1 .. Len(scheduled)
      BY <1>1, <1>2, <2>2, <3>1 DEF RunnerInv, SyncInv
    <3>2. CASE i = n
      <4>1. status[r] = "RUNNING" /\ computed[r] = start
        BY <1>1, <1>3, <2>2, <3>2
      <4>2. ~HasEntry(r)
        BY <1>1 DEF HasEntry
      <4> QED BY <1>1, <1>2, <1>3, <3>2, <4>1, <4>2 DEF RunnerInv, SyncInv
    <3> QED BY <1>2, <3>1, <3>2
  <2> QED BY <1>1, <2>1, <2>2 DEF SyncInv
<1>7. NoticesInv'
  <2>1. newlyFinished' = {}
    BY <1>1 DEF RunnerInv, NoticesInv
  <2>2. r \notin preempted'
    <3>1. VictimsInv'
      BY DEF SchedInv
    <3> QED BY <1>1, <1>3, <1>4, <3>1 DEF VictimsInv, Updating
  <2>3. ASSUME NEW s \in Request, status'[s] = "RUNNING"
        PROVE  /\ s \notin newlyFinished' /\ s \notin preempted'
               /\ s \in finishedIds' =>
                     \E i \in 1 .. Len(scheduled') : scheduled'[i].id = s /\ scheduled'[i].isNew
    <3>1. CASE status[s] = "RUNNING"
      <4>1. s \notin preempted /\ (s \in finishedIds =>
               \E i \in 1 .. Len(scheduled) : scheduled[i].id = s /\ scheduled[i].isNew)
        BY <3>1 DEF RunnerInv, NoticesInv
      <4> QED BY <1>1, <1>2, <1>4, <2>1, <4>1
    <3>2. CASE status[s] # "RUNNING"
      <4>1. s = r /\ isNew
        BY <1>1, <2>3, <3>2
      <4> QED BY <1>3, <1>4, <2>1, <2>2, <4>1
    <3> QED BY <3>1, <3>2
  <2>4. ASSUME NEW i \in 1 .. Len(scheduled'), ~IsLive(scheduled[i].id)'
        PROVE  scheduled'[i].id \in newlyFinished'
    <3>1. i # n
      BY <1>1, <1>3, <2>4 DEF IsLive
    <3>2. i \in 1 .. Len(scheduled) /\ scheduled'[i] = scheduled[i]
      BY <1>2, <3>1
    <3>3. ~IsLive(scheduled[i].id)
      BY <1>1, <1>5, <2>4, <3>2 DEF IsLive
    <3> QED BY <1>1, <3>2, <3>3 DEF RunnerInv, NoticesInv
  <2> QED BY <1>1, <2>1, <2>3, <2>4 DEF NoticesInv, IsLive
<1>8. LeakInv'
  <2>1. \A s \in Request : ~IsLive(s)' => ~IsLive(s)
    BY <1>1 DEF IsLive
  <2> QED BY <1>1, <2>1 DEF RunnerInv, LeakInv
<1> QED BY <1>6, <1>7, <1>8 DEF RunnerInv

\* A prefix, and the chunk after it.
LEMMA PrefixAndChunk ==
  ASSUME NEW S, NEW s \in Seq(S), NEW m \in Nat, NEW n \in Nat, m + n <= Len(s)
  PROVE  SubSeq(s, 1, m) \o SubSeq(s, m + 1, m + n) = SubSeq(s, 1, m + n)
<1> DEFINE a == SubSeq(s, 1, m)
           b == SubSeq(s, m + 1, m + n)
           c == SubSeq(s, 1, m + n)
<1>1. Len(s) \in Nat
  OBVIOUS
<1>2. a \in Seq(S) /\ Len(a) = m /\ \A i \in 1 .. m : a[i] = s[i]
  BY <1>1
<1>3. b \in Seq(S) /\ Len(b) = n /\ \A i \in 1 .. n : b[i] = s[m + i]
  BY <1>1
<1>4. c \in Seq(S) /\ Len(c) = m + n /\ \A i \in 1 .. m + n : c[i] = s[i]
  BY <1>1
<1> HIDE DEF a, b, c
<1>5. /\ a \o b \in Seq(S) /\ Len(a \o b) = m + n
      /\ \A i \in 1 .. m : (a \o b)[i] = a[i]
      /\ \A i \in 1 .. n : (a \o b)[m + i] = b[i]
  <2>1. /\ a \o b \in Seq(S) /\ Len(a \o b) = Len(a) + Len(b)
        /\ \A i \in 1 .. Len(a) : (a \o b)[i] = a[i]
        /\ \A i \in 1 .. Len(b) : (a \o b)[Len(a) + i] = b[i]
    <3>1. a \in Seq(S) /\ b \in Seq(S)
      BY <1>2, <1>3
    <3> QED BY <3>1, ConcatLemma
  <2> QED BY <1>2, <1>3, <2>1
<1>6. \A i \in 1 .. m + n : (a \o b)[i] = c[i]
  <2> SUFFICES ASSUME NEW i \in 1 .. m + n PROVE (a \o b)[i] = c[i]
    OBVIOUS
  <2>1. CASE i <= m
    BY <1>2, <1>4, <1>5, <2>1
  <2>2. CASE i > m
    <3>1. PICK k \in 1 .. n : i = m + k
      <4>1. i - m \in 1 .. n /\ i = m + (i - m)
        BY <2>2
      <4> QED BY <4>1
    <3>2. (a \o b)[m + k] = b[k] /\ b[k] = s[m + k]
      BY <1>3, <1>5, <3>1
    <3>3. c[i] = s[i]
      BY <1>4
    <3> QED BY <3>1, <3>2, <3>3
  <2>3. i <= m \/ i > m
    OBVIOUS
  <2> QED BY <2>1, <2>2, <2>3
<1>7. a \o b = c
  BY <1>4, <1>5, <1>6, SMTT(40)
<1> QED BY <1>7 DEF a, b, c

\* The entries by request.
LEMMA EntryOfLemma ==
  ASSUME SchedInv, NEW i \in 1 .. Len(scheduled)
  PROVE  /\ InStep(scheduled[i].id) /\ EntryOf(scheduled[i].id) = scheduled[i]
         /\ scheduled[i] \in Entries
<1>1. scheduled \in Seq(ScheduledRequest)
  BY SchedulerTypesLemma DEF SchedInv
<1>2. \A s : s \in Entries <=> \E j \in 1 .. Len(scheduled) : scheduled[j] = s
  BY <1>1, RangeOfSequence DEF Entries
<1>3. \A s \in Entries : s.id = scheduled[i].id => s = scheduled[i]
  BY <1>2 DEF SchedInv, EntriesInv
<1>4. scheduled[i] \in Entries
  BY <1>2
<1> QED BY <1>3, <1>4 DEF InStep, EntryOf

\* Who is in the step.
LEMMA InStepLemma ==
  ASSUME SchedInv, NEW r, InStep(r)
  PROVE  \E i \in 1 .. Len(scheduled) : scheduled[i].id = r
<1>1. scheduled \in Seq(ScheduledRequest)
  BY SchedulerTypesLemma DEF SchedInv
<1> QED BY <1>1, RangeOfSequence DEF InStep, Entries

\* The runner executes the step: it drops whom it is told to drop and extends
\* every other copy by its chunk.
LEMMA ExecuteRunner ==
  ASSUME SchedInv, LayoutInv, RunnerInv, ExecuteStep
  PROVE  RunnerInv'
<1>1. /\ phase = "scheduled" /\ phase' = "update" /\ idx' = 1
      /\ UNCHANGED <<tokens, status, computed, newlyFinished, preempted, scheduled, finishedIds>>
  BY DEF ExecuteStep, StartUpdate, kvVars, requestVars
<1>2. /\ \A i \in 1 .. Len(scheduled) : Unprocessed(i) /\ Unprocessed(i)'
      /\ phase \notin Updating /\ phase' \in Updating
      /\ phase \notin Scheduling /\ phase' \notin Scheduling /\ phase' # "idle"
  BY <1>1 DEF Unprocessed, Updating, Scheduling
<1>3. \A i \in 1 .. Len(scheduled) :
         /\ scheduled[i].id \in Request /\ scheduled[i].start \in Nat /\ scheduled[i].num \in Nat
         /\ tokens[scheduled[i].id] \in Seq(Token)
         /\ scheduled[i].start + scheduled[i].num <= Len(tokens[scheduled[i].id])
  <2>1. tokens \in [Request -> Seq(Token)]
    BY SchedulerTypesLemma DEF SchedInv
  <2> QED BY <1>2, <2>1, EntryType DEF SchedInv, LayoutInv, EntriesShape, Updating
<1>4. ASSUME NEW i \in 1 .. Len(scheduled)
      PROVE  LET s == scheduled[i]
             IN  resident'[s.id] = SubSeq(tokens[s.id], 1, s.start + s.num)
  <2> DEFINE s == scheduled[i]
             r == scheduled[i].id
  <2>1. scheduled # << >> /\ Execute
    BY <1>4 DEF ExecuteStep
  <2>2. InStep(r) /\ EntryOf(r) = s /\ r \in Request
    BY <1>3, EntryOfLemma, SMTT(40)
  <2>3. resident'[r] = KnownTokens(s) \o SubSeq(tokens[r], s.start + 1, s.start + s.num)
    BY <2>1, <2>2 DEF Execute
  <2>4. KnownTokens(s) = SubSeq(tokens[r], 1, s.start)
    BY <1>2 DEF KnownTokens, RunnerInv, SyncInv
  <2>5. SubSeq(tokens[r], 1, s.start) \o SubSeq(tokens[r], s.start + 1, s.start + s.num)
           = SubSeq(tokens[r], 1, s.start + s.num)
    BY <1>3, PrefixAndChunk
  <2> QED BY <2>3, <2>4, <2>5
<1>5. \A r \in Request :
         /\ ~InStep(r) /\ r \notin Dropped => resident'[r] = resident[r]
         /\ ~InStep(r) => resident'[r] \in {NoState, resident[r]}
         /\ ~InStep(r) /\ r \in finishedIds => resident'[r] = NoState
         /\ embeds'[r] = EmbedsKept(r)
  <2>1. CASE scheduled = << >> /\ finishedIds = {}
    <3>1. UNCHANGED <<resident, embeds>>
      BY <2>1 DEF ExecuteStep, runnerVars
    <3> QED BY <2>1, <3>1 DEF EmbedsKept, EmbedsDropped
  <2>2. CASE ~(scheduled = << >> /\ finishedIds = {})
    <3>1. Execute
      BY <2>2 DEF ExecuteStep
    <3>2. \A r \in Request :
             /\ embeds'[r] = EmbedsKept(r)
             /\ ~InStep(r) => resident'[r] = IF r \in Dropped THEN NoState ELSE resident[r]
      BY <3>1 DEF Execute
    <3>3. \A r \in finishedIds : r \in Dropped
      BY DEF Dropped
    <3> QED BY <3>2, <3>3
  <2> QED BY <2>1, <2>2
<1>6. \A r \in Request : status[r] = "RUNNING" => (InStep(r) <=> HasEntry(r)) /\ (HasEntry(r)' <=> HasEntry(r))
  <2>1. \A r : InStep(r) => HasEntry(r)
    BY <1>2, InStepLemma DEF HasEntry
  <2>2. \A r : HasEntry(r) => InStep(r)
    BY EntryOfLemma DEF HasEntry
  <2>3. \A r : HasEntry(r)' <=> HasEntry(r)
    BY <1>1, <1>2 DEF HasEntry
  <2> QED BY <2>1, <2>2, <2>3
<1>7. SyncInv'
  <2>1. ASSUME NEW r \in Request, status[r] = "RUNNING", ~HasEntry(r)'
        PROVE  resident'[r] = SubSeq(tokens[r], 1, computed[r])
    <3>1. ~HasEntry(r) /\ ~InStep(r)
      BY <1>6, <2>1
    <3>2. r \notin Dropped
      <4>1. \A i \in 1 .. Len(scheduled) : scheduled[i].id # r
        BY <1>2, <3>1 DEF HasEntry
      <4> QED BY <2>1, <4>1 DEF Dropped, RunnerInv, NoticesInv
    <3> QED BY <1>5, <2>1, <3>1, <3>2 DEF RunnerInv, SyncInv
  <2> QED BY <1>1, <1>2, <1>4, <2>1 DEF SyncInv
<1>8. NoticesInv'
  BY <1>1, <1>2 DEF RunnerInv, NoticesInv, IsLive
<1>9. LeakInv'
  <2> SUFFICES ASSUME NEW r \in Request, ~IsLive(r), resident'[r] # NoState \/ embeds'[r] # NoEmbeds
               PROVE  r \in newlyFinished
    BY <1>1, <1>2 DEF LeakInv, IsLive
  <2>1. CASE InStep(r)
    BY <1>2, <2>1, InStepLemma DEF RunnerInv, NoticesInv
  <2>2. CASE ~InStep(r)
    <3>1. r \notin finishedIds
      BY <1>5, <2>2 DEF EmbedsKept, EmbedsDropped
    <3>2. resident[r] # NoState \/ embeds[r] # NoEmbeds
      BY <1>5, <2>2 DEF EmbedsKept
    <3> QED BY <3>1, <3>2 DEF RunnerInv, LeakInv
  <2> QED BY <2>1, <2>2
<1> QED BY <1>7, <1>8, <1>9 DEF RunnerInv

\* The update counts as computed what the runner has.
LEMMA AdvanceRunner ==
  ASSUME SchedInv, LayoutInv, RunnerInv, UpdateChunk \/ UpdateSampled, UNCHANGED runnerVars
  PROVE  RunnerInv'
<1> DEFINE s == scheduled[idx]
           r == scheduled[idx].id
<1>1. /\ phase = "update" /\ phase' \in Updating /\ UpdateTurn /\ IsLive(r)
      /\ computed' = [computed EXCEPT ![r] = @ + s.num]
      /\ UNCHANGED <<status, scheduled, newlyFinished, preempted, finishedIds, resident, embeds>>
      /\ phase' = "update" => idx' = idx + 1
      /\ phase' = "check" => idx' = idx
      /\ tokens' = tokens \/ \E t \in Token : tokens' = [tokens EXCEPT ![r] = Append(@, t)]
  <2>1. CASE UpdateChunk
    BY <2>1, SMTT(40) DEF UpdateChunk, UpdateTurn, Advance, kvVars, runnerVars, Updating
  <2>2. CASE UpdateSampled
    BY <2>2 DEF UpdateSampled, UpdateTurn, Advance, AppendToken, runnerVars, Updating
  <2> QED BY <2>1, <2>2
<1>2. /\ idx \in 1 .. Len(scheduled) /\ r \in Request /\ s.num \in Nat /\ status[r] = "RUNNING"
      /\ Executable(s)
      /\ \A i \in 1 .. Len(scheduled) : i # idx => scheduled[i].id # r
  BY <1>1, UpdateTurnLemma
<1>3. s.start = computed[r] /\ s.start + s.num <= Len(tokens[r])
  BY <1>2 DEF Executable, NumTokens
<1>4. /\ computed \in [Request -> Nat] /\ idx \in Nat /\ tokens \in [Request -> Seq(Token)]
      /\ Len(tokens[r]) \in Nat
  BY <1>2, SchedulerTypesLemma DEF SchedInv
<1>5. \A i \in 1 .. Len(scheduled) : i # idx => (Unprocessed(i) <=> Unprocessed(i)')
  BY <1>1, <1>4 DEF Unprocessed, Updating
<1>6. Unprocessed(idx)
  BY <1>1, <1>4 DEF Unprocessed
<1>7. \A i \in 1 .. Len(scheduled) : scheduled[i].id \in Request
  BY EntryType DEF SchedInv
<1> HIDE DEF s, r
<1>8. /\ computed'[r] = s.start + s.num
      /\ \A q \in Request \ {r} : computed'[q] = computed[q] /\ tokens'[q] = tokens[q]
  <2>1. computed'[r] = s.start + s.num
    BY <1>1, <1>2, <1>3, <1>4
  <2>2. \A q \in Request \ {r} : computed'[q] = computed[q]
    BY <1>1, <1>2, <1>4
  <2>3. \A q \in Request \ {r} : tokens'[q] = tokens[q]
    BY <1>1, <1>2, <1>4
  <2> QED BY <2>1, <2>2, <2>3
<1>9. \A m \in 0 .. Len(tokens[r]) : SubSeq(tokens'[r], 1, m) = SubSeq(tokens[r], 1, m)
  <2>1. CASE tokens' = tokens
    BY <2>1
  <2>2. ASSUME NEW t \in Token, tokens' = [tokens EXCEPT ![r] = Append(@, t)]
        PROVE  \A m \in 0 .. Len(tokens[r]) : SubSeq(tokens'[r], 1, m) = SubSeq(tokens[r], 1, m)
    <3>1. tokens[r] \in Seq(Token) /\ tokens'[r] = Append(tokens[r], t)
      BY <1>2, <1>4, <2>2
    <3> QED BY <3>1, PrefixOfAppend
  <2> QED BY <1>1, <2>1, <2>2
<1>10. SyncInv'
  <2>1. ASSUME NEW q \in Request, status[q] = "RUNNING", ~HasEntry(q)'
        PROVE  resident[q] = SubSeq(tokens'[q], 1, computed'[q])
    <3>1. CASE q = r
      <4>1. resident[r] = SubSeq(tokens[r], 1, s.start + s.num)
        BY <1>1, <1>2, <1>6 DEF RunnerInv, SyncInv, Updating, s, r
      <4>2. s.start + s.num \in 0 .. Len(tokens[r])
        <5>1. s.start \in Nat
          BY <1>2, <1>3, <1>4
        <5> QED BY <1>2, <1>3, <1>4, <5>1
      <4> QED BY <1>8, <1>9, <3>1, <4>1, <4>2
    <3>2. CASE q # r
      <4>1. \A i \in 1 .. Len(scheduled) : scheduled[i].id = q => i # idx
        BY <3>2 DEF r
      <4>2. ~HasEntry(q)
        BY <1>1, <1>5, <2>1, <4>1 DEF HasEntry
      <4>3. computed'[q] = computed[q] /\ tokens'[q] = tokens[q]
        BY <1>8, <3>2
      <4> QED BY <2>1, <4>2, <4>3 DEF RunnerInv, SyncInv
    <3> QED BY <3>1, <3>2
  <2>2. ASSUME NEW i \in 1 .. Len(scheduled), Unprocessed(i)', status[scheduled[i].id] = "RUNNING"
        PROVE  resident[scheduled[i].id] =
                  SubSeq(tokens'[scheduled[i].id], 1, scheduled[i].start + scheduled[i].num)
    <3>1. CASE i # idx
      <4>1. Unprocessed(i) /\ scheduled[i].id \in Request \ {r}
        BY <1>2, <1>5, <1>7, <2>2, <3>1
      <4>2. resident[scheduled[i].id] =
               SubSeq(tokens[scheduled[i].id], 1, scheduled[i].start + scheduled[i].num)
        BY <1>1, <2>2, <4>1 DEF RunnerInv, SyncInv, Updating
      <4> QED BY <1>8, <4>1, <4>2
    <3>2. CASE i = idx
      <4>1. FALSE
        BY <1>1, <1>4, <2>2, <3>2 DEF Unprocessed, Updating
      <4> QED BY <4>1
    <3> QED BY <3>1, <3>2
  <2> QED BY <1>1, <2>1, <2>2 DEF SyncInv
<1>11. NoticesInv'
  BY <1>1 DEF RunnerInv, NoticesInv, IsLive, Updating, Scheduling
<1>12. LeakInv'
  BY <1>1 DEF RunnerInv, LeakInv, IsLive, Updating
<1> QED BY <1>10, <1>11, <1>12 DEF RunnerInv

\* The notices of the step have been served.
LEMMA EndRunner ==
  ASSUME SchedInv, RunnerInv, EndStep, UNCHANGED runnerVars
  PROVE  RunnerInv'
<1>1. /\ phase = "update" /\ idx > Len(scheduled) /\ scheduled' = << >> /\ phase' = "idle"
      /\ preempted' = {} /\ finishedIds' = {}
      /\ UNCHANGED <<status, computed, tokens, newlyFinished, resident, embeds>>
  BY DEF EndStep, kvVars, requestVars, runnerVars
<1>2. \A r \in Request : ~HasEntry(r)
  <2>1. Len(scheduled) \in Nat /\ idx \in Nat
    BY SchedulerTypesLemma DEF SchedInv
  <2>2. \A i \in 1 .. Len(scheduled) : ~Unprocessed(i)
    BY <1>1, <2>1 DEF Unprocessed
  <2> QED BY <2>2 DEF HasEntry
<1>3. SyncInv'
  BY <1>1, <1>2 DEF RunnerInv, SyncInv
<1>4. NoticesInv'
  BY <1>1 DEF RunnerInv, NoticesInv, Scheduling
<1>5. LeakInv'
  BY <1>1 DEF RunnerInv, LeakInv, IsLive, Updating
<1> QED BY <1>3, <1>4, <1>5 DEF RunnerInv

\* A preempted request is queued; one that ends is in a notice.
LEMMA RunnerNext ==
  SchedInv /\ SchedInv' /\ LayoutInv /\ EngineTypeOK /\ RunnerInv /\ [EngineModelNext]_engineVars
     => RunnerInv'
<1> SUFFICES ASSUME SchedInv, SchedInv', LayoutInv, EngineTypeOK, RunnerInv,
                    [EngineModelNext]_engineVars
             PROVE  RunnerInv'
  OBVIOUS
<1> DEFINE Quiet == /\ UNCHANGED <<resident, scheduled, finishedIds>>
                    /\ phase' \in Scheduling => phase \in Scheduling /\ newlyFinished' = newlyFinished
                    /\ phase' = "idle" => phase = "idle"
                    /\ phase' \in Updating <=> phase \in Updating
<1>0. /\ status \in [Request -> Status] /\ computed \in [Request -> Nat]
      /\ idx \in Nat /\ HashedIsComputed
      /\ \A i \in 1 .. Len(scheduled) : scheduled[i].id \in Request
  BY SchedulerTypesLemma, EntryType DEF SchedInv, LayoutInv
<1>1. ASSUME Quiet, UNCHANGED <<embeds, tokens, status, computed, newlyFinished, preempted>>,
             \A i \in 1 .. Len(scheduled) :
                status[scheduled[i].id] = "RUNNING" => (Unprocessed(i)' <=> Unprocessed(i))
      PROVE  RunnerInv'
  <2>1. \A r \in Request : IsLive(r)' <=> IsLive(r)
    BY <1>1 DEF IsLive
  <2> QED BY <1>0, <1>1, <2>1, RunnerFrame
<1>2. ASSUME UNCHANGED <<phase, idx>>
      PROVE  \A i \in 1 .. Len(scheduled) : Unprocessed(i)' <=> Unprocessed(i)
  BY <1>2 DEF Unprocessed
<1>3. ASSUME phase \notin Updating, phase' \notin Updating
      PROVE  \A i \in 1 .. Len(scheduled) : Unprocessed(i)' <=> Unprocessed(i)
  BY <1>3 DEF Unprocessed, Updating
<1>4. ASSUME StartSchedule, UNCHANGED runnerVars PROVE RunnerInv'
  BY <1>4, StartRunner
<1>5. ASSUME NEW v \in Request, Preempt(v), UNCHANGED runnerVars, phase \in {"priority", "running"},
             phase' \in {"priority", "running", "scheduled"}
      PROVE  RunnerInv'
  <2>1. /\ UNCHANGED <<scheduled, tokens, newlyFinished, finishedIds, resident, embeds>>
        /\ \A r \in Request \ {v} : status'[r] = status[r] /\ computed'[r] = computed[r]
        /\ status'[v] = "PREEMPTED" /\ preempted' = preempted \cup {v}
    BY <1>0, <1>5 DEF Preempt, FreeRequest, runnerVars
  <2>2. Quiet
    BY <1>5, <2>1 DEF Scheduling, Updating
  <2>3. \A r \in Request : IsLive(r) => IsLive(r)'
    BY <2>1 DEF IsLive, QueuedStatus
  <2>4. \A i \in 1 .. Len(scheduled) : Unprocessed(i)' <=> Unprocessed(i)
    BY <1>3, <1>5 DEF Updating
  <2> QED BY <1>0, <2>1, <2>2, <2>3, <2>4, RunnerFrame
<1>6. ASSUME PreemptForPriority, UNCHANGED runnerVars PROVE RunnerInv'
  BY <1>5, <1>6 DEF PreemptForPriority
<1>7. ASSUME PreemptForBlocks, UNCHANGED runnerVars PROVE RunnerInv'
  <2>1. Last(running) \in Request
    <3>1. running # << >> /\ running \in Seq(Request)
      BY <1>7, RunningTurnLemma, SchedulerTypesLemma DEF PreemptForBlocks, SchedInv
    <3> QED BY <3>1, FrontLemma
  <2> QED BY <1>5, <1>7, <2>1 DEF PreemptForBlocks, RunningTurn
<1>8. ASSUME PriorityDone \/ RunningDone \/ LookupPrefix \/ LookupDone \/ AdmitFails \/ WaitingDone,
             UNCHANGED runnerVars
      PROVE  RunnerInv'
  <2>1. /\ phase \in Scheduling /\ phase \notin Updating
        /\ phase' \notin Updating /\ phase' # "idle"
        /\ UNCHANGED <<status, computed, newlyFinished, preempted, scheduled, finishedIds>>
        /\ UNCHANGED <<resident, embeds>>
    BY <1>8 DEF PriorityDone, RunningDone, LookupPrefix, LookupDone, AdmitFails, WaitingDone,
                requestVars, stepVars, runnerVars, Scheduling, Updating
  <2>2. tokens' = tokens
    BY <1>8 DEF PriorityDone, RunningDone, LookupPrefix, LookupHit, LookupDone, DropLastHit,
                AdmitFails, SlotsExhausted, WaitingDone, kvVars
  <2> QED BY <1>1, <1>3, <2>1, <2>2
<1>9. ASSUME ScheduleRunning \/ Admit, UNCHANGED runnerVars PROVE RunnerInv'
  BY <1>0, <1>9, NewEntryLemma, NewEntryRunner
<1>10. ASSUME ExecuteStep PROVE RunnerInv'
  BY <1>10, ExecuteRunner
<1>11. ASSUME SkipAborted, UNCHANGED runnerVars PROVE RunnerInv'
  <2>1. /\ phase = "update" /\ phase' = "update" /\ idx' = idx + 1 /\ ~IsLive(scheduled[idx].id)
        /\ UNCHANGED <<tokens, status, computed, newlyFinished, preempted, scheduled, finishedIds>>
        /\ UNCHANGED <<resident, embeds>>
    BY <1>11 DEF SkipAborted, UpdateTurn, kvVars, requestVars, runnerVars
  <2>2. \A i \in 1 .. Len(scheduled) :
           status[scheduled[i].id] = "RUNNING" => (Unprocessed(i)' <=> Unprocessed(i))
    BY <1>0, <2>1 DEF Unprocessed, IsLive
  <2> QED BY <1>1, <2>1, <2>2 DEF Scheduling, Updating
<1>12. ASSUME UpdateChunk \/ UpdateSampled, UNCHANGED runnerVars PROVE RunnerInv'
  BY <1>12, AdvanceRunner
<1>13. ASSUME NEW r \in Request, NEW st, st \notin QueuedStatus \cup {"RUNNING"}, Finish(r, st),
              UNCHANGED <<tokens, computed, preempted, scheduled, finishedIds, resident, embeds>>,
              phase \notin Scheduling, phase' \notin Scheduling, phase' = "idle" => phase = "idle",
              phase' \in Updating <=> phase \in Updating,
              \A i \in 1 .. Len(scheduled) : Unprocessed(i)' <=> Unprocessed(i)
       PROVE  RunnerInv'
  <2>1. /\ status'[r] = st /\ newlyFinished' = newlyFinished \cup {r}
        /\ \A s \in Request \ {r} : status'[s] = status[s]
    BY <1>0, <1>13 DEF Finish
  <2>2. Quiet
    BY <1>13
  <2>3. \A s \in Request : IsLive(s) /\ ~IsLive(s)' => s \in newlyFinished'
    BY <2>1 DEF IsLive
  <2> QED BY <1>0, <1>13, <2>1, <2>2, <2>3, RunnerFrame
<1>14. ASSUME CheckStop, UNCHANGED runnerVars PROVE RunnerInv'
  <2> DEFINE r == scheduled[idx].id
  <2>1. /\ phase = "check" /\ phase' = "update" /\ idx' = idx + 1
        /\ UNCHANGED <<computed, preempted, scheduled, finishedIds, resident, embeds>>
        /\ \/ UNCHANGED <<tokens, status, newlyFinished>>
           \/ UNCHANGED tokens /\ Finish(r, StopStatus(r)) /\ StopStatus(r) # "RUNNING"
    BY <1>14 DEF CheckStop, FreeRequest, kvVars, runnerVars
  <2>2. r \in Request
    <3>1. idx \in 1 .. Len(scheduled)
      BY <2>1, SchedulerTypesLemma DEF SchedInv, LoopInv
    <3> QED BY <1>0, <3>1
  <2>3. \A i \in 1 .. Len(scheduled) : Unprocessed(i)' <=> Unprocessed(i)
    BY <1>0, <2>1 DEF Unprocessed
  <2> HIDE DEF r
  <2>4. CASE UNCHANGED <<tokens, status, newlyFinished>>
    BY <1>1, <2>1, <2>3, <2>4 DEF Scheduling, Updating
  <2>5. CASE UNCHANGED tokens /\ Finish(r, StopStatus(r)) /\ StopStatus(r) # "RUNNING"
    <3>1. StopStatus(r) \notin QueuedStatus \cup {"RUNNING"}
      BY <2>5, StopStatusValue DEF QueuedStatus
    <3> QED BY <1>13, <2>1, <2>2, <2>3, <2>5, <3>1 DEF Scheduling, Updating
  <2> QED BY <2>1, <2>4, <2>5
<1>15. ASSUME EndStep, UNCHANGED runnerVars PROVE RunnerInv'
  BY <1>15, EndRunner
<1>16. ASSUME ManagerStep, UNCHANGED runnerVars PROVE RunnerInv'
  <2>1. /\ UNCHANGED <<tokens, status, computed, newlyFinished, preempted, scheduled, finishedIds>>
        /\ UNCHANGED <<phase, idx, resident, embeds>>
    BY <1>16 DEF ManagerStep, ReleaseBlock, RegisterBlock, requestVars, stepVars, runnerVars
  <2> QED BY <1>1, <1>2, <2>1
<1>17. ASSUME NEW r \in Request, Submit(r) PROVE RunnerInv'
  <2>1. PICK prompt \in Prompts, p \in Params, prio \in Priorities : AddRequest(r, prompt, p, prio)
    BY <1>17 DEF Submit
  <2>2. /\ phase = "idle" /\ phase' = "idle" /\ scheduled = << >>
        /\ UNCHANGED <<newlyFinished, preempted, scheduled, finishedIds, resident>>
        /\ status' = [status EXCEPT ![r] = "WAITING"] /\ computed' = [computed EXCEPT ![r] = 0]
        /\ tokens' = [tokens EXCEPT ![r] = prompt]
    BY <1>17, <2>1 DEF Submit, AddRequest, SetPrompt, SchedInv, LoopInv, stepVars
  <2>3. \A s \in Request \ {r} : /\ status'[s] = status[s] /\ computed'[s] = computed[s]
                                 /\ tokens'[s] = tokens[s] /\ embeds'[s] = embeds[s]
    <3>1. tokens \in [Request -> Seq(Token)]
      BY SchedulerTypesLemma DEF SchedInv
    <3>2. embeds' = embeds \/ \E x : embeds' = [embeds EXCEPT ![r] = x]
      BY <1>17 DEF Submit
    <3>3. \A s \in Request \ {r} : /\ status'[s] = status[s] /\ computed'[s] = computed[s]
                                   /\ tokens'[s] = tokens[s]
      BY <1>0, <2>2, <3>1
    <3>4. \A s \in Request \ {r} : embeds'[s] = embeds[s]
      BY <3>2 DEF EngineTypeOK
    <3> QED BY <3>3, <3>4
  <2>4. status'[r] = "WAITING"
    BY <1>0, <2>2
  <2>5. \A s \in Request : (IsLive(s) => IsLive(s)') /\ (~IsLive(s)' => s # r)
    BY <2>3, <2>4 DEF IsLive, QueuedStatus
  <2>6. Quiet /\ \A i \in 1 .. Len(scheduled) : Unprocessed(i)' <=> Unprocessed(i)
    BY <2>2 DEF Scheduling, Updating, Unprocessed
  <2> QED BY <1>0, <2>2, <2>3, <2>4, <2>5, <2>6, RunnerFrame
<1>18. ASSUME NEW r \in Request, Abort(r), UNCHANGED runnerVars PROVE RunnerInv'
  <2>1. /\ phase \in {"idle", "scheduled"} /\ Finish(r, "FINISHED_ABORTED")
        /\ UNCHANGED <<phase, idx, computed, preempted, scheduled, finishedIds, tokens>>
        /\ UNCHANGED <<resident, embeds>>
    BY <1>18 DEF Abort, FreeRequest, kvVars, stepVars, runnerVars
  <2> QED BY <1>2, <1>13, <2>1 DEF Scheduling, Updating, QueuedStatus
<1>19. CASE UNCHANGED engineVars
  <2>1. /\ UNCHANGED <<tokens, status, computed, newlyFinished, preempted, scheduled, finishedIds>>
        /\ UNCHANGED <<phase, idx, resident, embeds>>
    BY <1>19 DEF engineVars, vars, kvVars, requestVars, stepVars, runnerVars
  <2> QED BY <1>1, <1>2, <2>1
<1> QED BY <1>4, <1>6, <1>7, <1>8, <1>9, <1>10, <1>11, <1>12, <1>14, <1>15, <1>16, <1>17, <1>18, <1>19
        DEF EngineModelNext, EngineStep, ScheduleNext, UpdateNext

\* Initially the runner has nothing.
LEMMA RunnerInit == EngineInit => RunnerInv
<1> SUFFICES ASSUME EngineInit PROVE RunnerInv
  OBVIOUS
<1>1. /\ scheduled = << >> /\ phase = "idle" /\ newlyFinished = {} /\ finishedIds = {}
      /\ \A r \in Request : status[r] = "NONE" /\ resident[r] = NoState /\ embeds[r] = NoEmbeds
  BY DEF EngineInit, Init
<1> QED BY <1>1 DEF RunnerInv, SyncInv, NoticesInv, LeakInv, Scheduling

\* The runner's copies.
LEMMA RunnerCorrect == EngineSpec => []RunnerInv
<1> QED BY EngineImplementsScheduler, SchedulerInv, LayoutCorrect, EngineTypeCorrect, RunnerInit,
           RunnerNext, PTL
        DEF EngineSpec

\* The assert "runner out of sync" of execute() never fails: a request that goes on
\* is in the runner with exactly the tokens that count as computed, through
\* preemption, abort and reuse of the id.
THEOREM RunnerInSyncCorrect == EngineSpec => []RunnerInSync
<1>1. SchedInv /\ RunnerInv => RunnerInSync
  <2> SUFFICES ASSUME SchedInv, RunnerInv, phase = "scheduled", NEW s \in Entries, ~s.isNew
               PROVE  resident[s.id] = SubSeq(tokens[s.id], 1, s.start)
    BY DEF RunnerInSync
  <2>1. \E i \in 1 .. Len(scheduled) : s = scheduled[i]
    <3>1. scheduled \in Seq(ScheduledRequest)
      BY SchedulerTypesLemma DEF SchedInv
    <3> QED BY <3>1, RangeOfSequence DEF Entries
  <2> QED BY <2>1 DEF RunnerInv, SyncInv, Updating
<1> QED BY <1>1, EngineImplementsScheduler, SchedulerInv, RunnerCorrect, PTL

\* What the runner holds for a request that is over goes with the next notice:
\* no path of finish, abort or preemption leaves state behind.
THEOREM NoLeak == EngineSpec => []NoResidentLeak
<1>1. RunnerInv => NoResidentLeak
  BY DEF RunnerInv, LeakInv, NoResidentLeak
<1> QED BY <1>1, RunnerCorrect, PTL

-----------------------------------------------------------------------------
(* The rows of a prompt. *)

Prompt(r) == SubSeq(tokens[r], 1, info[r].promptLen)

\* A request has the rows it was submitted with until its end has been noticed,
\* whether it runs, waits or was preempted; one of text has none, but that
\* those of an earlier request of its id may wait for the notice to drop them.
RowsInv ==
    \A r \in Request :
       /\ status[r] = "NONE" => embeds[r] = NoEmbeds /\ r \notin newlyFinished /\ r \notin finishedIds
       /\ status[r] # "NONE" => /\ Prompt(r) \in Prompts
                                /\ image[r] # NoImage <=> ImageToken \in Range(Prompt(r))
       /\ status[r] # "NONE" /\ image[r] # NoImage =>
             /\ IsLive(r) => r \notin newlyFinished
             /\ IsLive(r) \/ r \in newlyFinished =>
                   r \notin finishedIds /\ embeds[r] = Splice(Prompt(r), image[r])
       /\ image[r] = NoImage =>
             \/ embeds[r] = NoEmbeds
             \/ phase = "idle" /\ r \in newlyFinished
             \/ phase # "idle" /\ phase \notin Updating /\ r \in finishedIds

\* A step that leaves alone the rows and the notices given to the runner.
LEMMA RowsFrame ==
  ASSUME RowsInv, UNCHANGED <<image, embeds, finishedIds>>,
         phase' = "idle" <=> phase = "idle", phase' \in Updating <=> phase \in Updating,
         newlyFinished \subseteq newlyFinished',
         \A r \in Request :
            /\ status'[r] = "NONE" <=> status[r] = "NONE"
            /\ status[r] # "NONE" => Prompt(r)' = Prompt(r)
            /\ IsLive(r)' => IsLive(r) /\ (r \in newlyFinished' => r \in newlyFinished)
            /\ r \in newlyFinished' => r \in newlyFinished \/ IsLive(r)
  PROVE  RowsInv'
<1> SUFFICES ASSUME NEW r \in Request
             PROVE  /\ status'[r] = "NONE" => embeds'[r] = NoEmbeds /\ r \notin newlyFinished' /\ r \notin finishedIds'
                    /\ status'[r] # "NONE" => /\ Prompt(r)' \in Prompts
                                              /\ image'[r] # NoImage <=> ImageToken \in Range(Prompt(r)')
                    /\ status'[r] # "NONE" /\ image'[r] # NoImage =>
                          /\ IsLive(r)' => r \notin newlyFinished'
                          /\ IsLive(r)' \/ r \in newlyFinished' =>
                                r \notin finishedIds' /\ embeds'[r] = Splice(Prompt(r)', image'[r])
                    /\ image'[r] = NoImage =>
                          \/ embeds'[r] = NoEmbeds
                          \/ phase' = "idle" /\ r \in newlyFinished'
                          \/ phase' # "idle" /\ phase' \notin Updating /\ r \in finishedIds'
  BY Zenon DEF RowsInv, Splice
<1>1. status[r] = "NONE" => embeds[r] = NoEmbeds /\ r \notin newlyFinished /\ r \notin finishedIds
  BY DEF RowsInv
<1>2. status[r] # "NONE" => /\ Prompt(r) \in Prompts
                            /\ image[r] # NoImage <=> ImageToken \in Range(Prompt(r))
  BY DEF RowsInv
<1>3. status[r] # "NONE" /\ image[r] # NoImage =>
         /\ IsLive(r) => r \notin newlyFinished
         /\ IsLive(r) \/ r \in newlyFinished =>
               r \notin finishedIds /\ embeds[r] = Splice(Prompt(r), image[r])
  BY DEF RowsInv
<1>4. image[r] = NoImage => \/ embeds[r] = NoEmbeds
                            \/ phase = "idle" /\ r \in newlyFinished
                            \/ phase # "idle" /\ phase \notin Updating /\ r \in finishedIds
  BY DEF RowsInv
<1>5. status[r] = "NONE" => ~IsLive(r)
  BY DEF IsLive, QueuedStatus
<1> QED BY <1>1, <1>2, <1>3, <1>4, <1>5

\* The prompt of a request stays when tokens are added to it.
LEMMA PromptStays ==
  ASSUME SchedInv, GenerationInv, NEW r \in Request, status[r] # "NONE",
         info' = info, tokens'[r] = tokens[r] \/ \E t \in Token : tokens'[r] = Append(tokens[r], t)
  PROVE  Prompt(r)' = Prompt(r)
<1> DEFINE n == info[r].promptLen
<1>1. n \in 1 .. Len(tokens[r]) /\ tokens[r] \in Seq(Token) /\ Len(tokens[r]) \in Nat
  <2>1. tokens[r] \in Seq(Token)
    BY SchedulerTypesLemma DEF SchedInv
  <2> QED BY <2>1 DEF GenerationInv
<1>2. info'[r].promptLen = n
  OBVIOUS
<1> HIDE DEF n
<1>3. CASE tokens'[r] = tokens[r]
  BY <1>2, <1>3 DEF Prompt, n
<1>4. ASSUME NEW t \in Token, tokens'[r] = Append(tokens[r], t) PROVE Prompt(r)' = Prompt(r)
  <2> DEFINE s == tokens[r]
             u == Append(s, t)
             x == SubSeq(s, 1, n)
             y == SubSeq(u, 1, n)
  <2>1. s \in Seq(Token) /\ n \in 0 .. Len(s)
    BY <1>1
  <2> HIDE DEF s
  <2>2. u \in Seq(Token) /\ Len(u) = Len(s) + 1 /\ \A i \in 1 .. Len(s) : u[i] = s[i]
    BY <2>1
  <2>3. n \in 0 .. Len(u) /\ Len(s) \in Nat /\ n <= Len(s)
    BY <2>1, <2>2
  <2> HIDE DEF u
  <2>4. x \in Seq(Token) /\ Len(x) = n /\ \A i \in 1 .. n : x[i] = s[i]
    BY <2>1, TakeLemma
  <2>5. y \in Seq(Token) /\ Len(y) = n /\ \A i \in 1 .. n : y[i] = u[i]
    BY <2>2, <2>3, TakeLemma
  <2>6. \A i \in 1 .. n : y[i] = x[i]
    BY <2>2, <2>3, <2>4, <2>5
  <2> HIDE DEF x, y
  <2>7. x = y
    BY <2>4, <2>5, <2>6
  <2> QED BY <1>2, <1>4, <2>7 DEF Prompt, n, x, y, u, s
<1> QED BY <1>3, <1>4

\* The rows of an image are set before its request is queued, under a fresh id.
LEMMA SubmitRows ==
  ASSUME SchedInv, EngineTypeOK, RunnerInv, RowsInv, NEW r \in Request, Submit(r)
  PROVE  RowsInv'
<1>1. PICK prompt \in Prompts, p \in Params, prio \in Priorities :
         /\ AddRequest(r, prompt, p, prio)
         /\ IF ImageToken \in Range(prompt)
            THEN /\ status[r] = "NONE"
                 /\ \E im \in Image : /\ image' = [image EXCEPT ![r] = im]
                                      /\ embeds' = [embeds EXCEPT ![r] = Splice(prompt, im)]
            ELSE image' = [image EXCEPT ![r] = NoImage] /\ UNCHANGED embeds
  BY DEF Submit
<1>2. /\ phase = "idle" /\ phase' = "idle" /\ ~IsLive(r)
      /\ UNCHANGED <<newlyFinished, finishedIds>>
      /\ status'[r] = "WAITING" /\ tokens'[r] = prompt /\ info'[r].promptLen = Len(prompt)
      /\ \A s \in Request \ {r} : status'[s] = status[s] /\ tokens'[s] = tokens[s] /\ info'[s] = info[s]
      /\ finishedIds = {}
  <2>1. /\ status \in [Request -> Status] /\ tokens \in [Request -> Seq(Token)]
        /\ info \in [Request -> Info \cup {<< >>}]
    BY SchedulerTypesLemma DEF SchedInv, SchedulerTypes
  <2>2. /\ phase = "idle" /\ phase' = "idle" /\ ~IsLive(r)
        /\ UNCHANGED <<newlyFinished, finishedIds>>
        /\ status' = [status EXCEPT ![r] = "WAITING"]
        /\ tokens' = [tokens EXCEPT ![r] = prompt]
        /\ info' = [info EXCEPT ![r] = [promptLen |-> Len(prompt), params |-> p,
                                        priority |-> prio, arrival |-> submissions]]
    BY <1>1 DEF AddRequest, SetPrompt, stepVars
  <2>3. finishedIds = {}
    BY <2>2 DEF RunnerInv, NoticesInv
  <2> QED BY <2>1, <2>2, <2>3
<1>3. image \in [Request -> Image \cup {NoImage}] /\ embeds \in [Request -> Seq(Row)]
  BY DEF EngineTypeOK
<1>4. Prompt(r)' = prompt
  <2>1. prompt \in Seq(Token) /\ Len(prompt) \in Nat
    BY PromptLemma
  <2>2. SubSeq(prompt, 1, Len(prompt)) = prompt
    BY <2>1
  <2> QED BY <1>2, <2>2 DEF Prompt
<1>5. ASSUME NEW s \in Request \ {r}
      PROVE  /\ image'[s] = image[s] /\ embeds'[s] = embeds[s]
             /\ Prompt(s)' = Prompt(s) /\ (IsLive(s)' <=> IsLive(s))
  BY <1>1, <1>2, <1>3 DEF Prompt, IsLive
<1>6. \/ /\ ImageToken \in Range(prompt) /\ status[r] = "NONE"
         /\ \E im \in Image : image'[r] = im /\ embeds'[r] = Splice(prompt, im)
      \/ /\ ImageToken \notin Range(prompt)
         /\ image'[r] = NoImage /\ embeds'[r] = embeds[r]
  BY <1>1, <1>3
<1>7. embeds[r] # NoEmbeds => r \in newlyFinished
  BY <1>2 DEF RunnerInv, LeakInv
<1>8. status[r] = "NONE" => r \notin newlyFinished
  BY DEF RowsInv
<1>9. ASSUME NEW s \in Request \ {r}
      PROVE  /\ status'[s] = "NONE" => embeds'[s] = NoEmbeds /\ s \notin newlyFinished' /\ s \notin finishedIds'
             /\ status'[s] # "NONE" => /\ Prompt(s)' \in Prompts
                                       /\ image'[s] # NoImage <=> ImageToken \in Range(Prompt(s)')
             /\ status'[s] # "NONE" /\ image'[s] # NoImage =>
                   /\ IsLive(s)' => s \notin newlyFinished'
                   /\ IsLive(s)' \/ s \in newlyFinished' =>
                         s \notin finishedIds' /\ embeds'[s] = Splice(Prompt(s)', image'[s])
             /\ image'[s] = NoImage =>
                   \/ embeds'[s] = NoEmbeds
                   \/ phase' = "idle" /\ s \in newlyFinished'
                   \/ phase' # "idle" /\ phase' \notin Updating /\ s \in finishedIds'
  BY <1>2, <1>5 DEF RowsInv
<1>10. /\ status'[r] # "NONE" /\ Prompt(r)' \in Prompts
       /\ image'[r] # NoImage <=> ImageToken \in Range(Prompt(r)')
       /\ image'[r] # NoImage =>
             /\ IsLive(r)' => r \notin newlyFinished'
             /\ IsLive(r)' \/ r \in newlyFinished' =>
                   r \notin finishedIds' /\ embeds'[r] = Splice(Prompt(r)', image'[r])
       /\ image'[r] = NoImage =>
             \/ embeds'[r] = NoEmbeds
             \/ phase' = "idle" /\ r \in newlyFinished'
  <2>1. CASE ImageToken \in Range(prompt)
    <3>1. PICK im \in Image : image'[r] = im /\ embeds'[r] = Splice(prompt, im)
      BY <1>6, <2>1
    <3>2. im # NoImage
      BY ImageAssumption
    <3> QED BY <1>2, <1>4, <1>6, <1>8, <2>1, <3>1, <3>2
  <2>2. CASE ImageToken \notin Range(prompt)
    BY <1>2, <1>4, <1>6, <1>7, <2>2
  <2> QED BY <2>1, <2>2
<1> QED BY <1>9, <1>10, Zenon DEF RowsInv, Splice

\* The notices go to the runner, which drops what they name when it executes; then
\* they are over.
LEMMA NoticedRows ==
  ASSUME SchedInv, RunnerInv, RowsInv,
         \/ StartSchedule /\ UNCHANGED runnerVars
         \/ ExecuteStep
         \/ EndStep /\ UNCHANGED runnerVars
  PROVE  RowsInv'
<1>1. /\ UNCHANGED <<tokens, info, status, image>>
      /\ \A r \in Request : Prompt(r)' = Prompt(r) /\ (IsLive(r)' <=> IsLive(r))
  <2>1. UNCHANGED <<tokens, info, status>>
    BY DEF StartSchedule, ExecuteStep, StartUpdate, EndStep, kvVars, requestVars
  <2>2. image' = image
    BY DEF ExecuteStep, Execute, runnerVars
  <2> QED BY <2>1, <2>2 DEF Prompt, IsLive
<1>2. CASE StartSchedule /\ UNCHANGED runnerVars
  <2>1. /\ phase = "idle" /\ phase' = "priority" /\ finishedIds' = newlyFinished
        /\ newlyFinished' = {} /\ embeds' = embeds
    BY <1>2 DEF StartSchedule, runnerVars
  <2> QED BY <1>1, <2>1 DEF RowsInv, Updating
<1>3. CASE ExecuteStep
  <2>1. phase = "scheduled" /\ phase' = "update" /\ UNCHANGED <<newlyFinished, finishedIds>>
    BY <1>3 DEF ExecuteStep, StartUpdate, requestVars
  <2>2. \A r \in Request : embeds'[r] = EmbedsKept(r)
    <3>1. CASE scheduled = << >> /\ finishedIds = {}
      BY <1>3, <3>1 DEF ExecuteStep, runnerVars, EmbedsKept, EmbedsDropped
    <3>2. CASE ~(scheduled = << >> /\ finishedIds = {})
      BY <1>3, <3>2 DEF ExecuteStep, Execute
    <3> QED BY <3>1, <3>2
  <2> QED BY <1>1, <2>1, <2>2 DEF RowsInv, Updating, EmbedsKept, EmbedsDropped
<1>4. CASE EndStep /\ UNCHANGED runnerVars
  <2>1. /\ phase = "update" /\ phase' = "idle" /\ finishedIds' = {}
        /\ UNCHANGED <<newlyFinished, embeds>>
    BY <1>4 DEF EndStep, requestVars, runnerVars
  <2> QED BY <1>1, <2>1 DEF RowsInv, Updating
<1> QED BY <1>2, <1>3, <1>4

\* Every step keeps the rows.
LEMMA RowsNext ==
  SchedInv /\ SchedInv' /\ GenerationInv /\ EngineTypeOK /\ RunnerInv /\ RowsInv
     /\ [EngineModelNext]_engineVars
  => RowsInv'
<1> SUFFICES ASSUME SchedInv, SchedInv', GenerationInv, EngineTypeOK, RunnerInv, RowsInv,
                    [EngineModelNext]_engineVars
             PROVE  RowsInv'
  OBVIOUS
<1>0. /\ status \in [Request -> Status] /\ tokens \in [Request -> Seq(Token)]
      /\ idx \in Nat /\ \A i \in 1 .. Len(scheduled) : scheduled[i].id \in Request
  BY SchedulerTypesLemma, EntryType DEF SchedInv
<1> DEFINE Quiet == /\ UNCHANGED <<image, embeds, info, finishedIds>>
                    /\ phase' = "idle" <=> phase = "idle"
                    /\ phase' \in Updating <=> phase \in Updating
\* A request that is admitted or preempted.
<1>1. ASSUME Quiet, UNCHANGED <<tokens, newlyFinished>>,
             \A r \in Request : status'[r] = status[r] \/ (IsLive(r) /\ IsLive(r)')
      PROVE  RowsInv'
  <2>1. \A r \in Request : /\ IsLive(r)' <=> IsLive(r)
                           /\ status'[r] = "NONE" <=> status[r] = "NONE"
                           /\ Prompt(r)' = Prompt(r)
    BY <1>1 DEF IsLive, QueuedStatus, Prompt
  <2> QED BY <1>1, <2>1, RowsFrame
\* A request that ends.
<1>2. ASSUME NEW r \in Request, IsLive(r), NEW st, st \notin QueuedStatus \cup {"RUNNING", "NONE"},
             Finish(r, st), Quiet, UNCHANGED tokens
      PROVE  RowsInv'
  <2>1. /\ status'[r] = st /\ newlyFinished' = newlyFinished \cup {r}
        /\ \A s \in Request \ {r} : status'[s] = status[s]
    BY <1>0, <1>2 DEF Finish
  <2>2. \A s \in Request : /\ IsLive(s)' => IsLive(s) /\ s # r
                           /\ status'[s] = "NONE" <=> status[s] = "NONE"
                           /\ Prompt(s)' = Prompt(s)
    BY <1>2, <2>1 DEF IsLive, QueuedStatus, Prompt
  <2> QED BY <1>2, <2>1, <2>2, RowsFrame
<1>3. ASSUME NEW v \in Request, v \in Range(running), Preempt(v), UNCHANGED runnerVars,
             phase \in {"priority", "running"}, phase' \in {"priority", "running", "scheduled"}
      PROVE  RowsInv'
  <2>1. /\ UNCHANGED <<tokens, info, newlyFinished, finishedIds, image, embeds>>
        /\ \A r \in Request \ {v} : status'[r] = status[r]
        /\ status'[v] = "PREEMPTED"
    BY <1>0, <1>3 DEF Preempt, FreeRequest, runnerVars
  <2>2. IsLive(v)
    BY <1>3 DEF SchedInv, QueuesMatchStatus, IsLive
  <2> QED BY <1>1, <1>3, <2>1, <2>2 DEF Updating, IsLive, QueuedStatus
<1>4. ASSUME PreemptForPriority, UNCHANGED runnerVars PROVE RowsInv'
  BY <1>3, <1>4 DEF PreemptForPriority, OutrankedRunning, LowestRunning
<1>5. ASSUME PreemptForBlocks, UNCHANGED runnerVars PROVE RowsInv'
  <2>1. Last(running) \in Request /\ Last(running) \in Range(running)
    <3>1. running # << >> /\ running \in Seq(Request)
      BY <1>5, RunningTurnLemma, SchedulerTypesLemma DEF PreemptForBlocks, SchedInv
    <3>2. Len(running) \in 1 .. Len(running) /\ Last(running) = running[Len(running)]
      BY <3>1 DEF Last
    <3> QED BY <3>1, <3>2, FrontLemma, RangeOfSequence
  <2> QED BY <1>3, <1>5, <2>1 DEF PreemptForBlocks, RunningTurn
<1>6. ASSUME \/ PriorityDone \/ RunningDone \/ LookupPrefix \/ LookupDone \/ AdmitFails
             \/ WaitingDone \/ ScheduleRunning,
             UNCHANGED runnerVars
      PROVE  RowsInv'
  <2>1. /\ phase \notin Updating /\ phase' \notin Updating /\ phase # "idle" /\ phase' # "idle"
        /\ UNCHANGED <<status, info, newlyFinished, finishedIds, image, embeds>>
    BY <1>6 DEF PriorityDone, RunningDone, LookupPrefix, LookupDone, AdmitFails, WaitingDone,
                ScheduleRunning, RunningTurn, requestVars, stepVars, runnerVars, Updating
  <2>2. tokens' = tokens
    BY <1>6 DEF PriorityDone, RunningDone, LookupPrefix, LookupHit, LookupDone, DropLastHit,
                AdmitFails, SlotsExhausted, WaitingDone, ScheduleRunning, AllocateSlots, kvVars
  <2> QED BY <1>1, <2>1, <2>2
<1>7. ASSUME Admit, UNCHANGED runnerVars PROVE RowsInv'
  <2>1. PICK r \in waiting : status' = [status EXCEPT ![r] = "RUNNING"]
    BY <1>7 DEF Admit
  <2>2. r \in Request /\ IsLive(r) /\ IsLive(r)'
    <3>1. waiting \subseteq Request
      BY SchedulerTypesLemma DEF SchedInv
    <3>2. status[r] \in QueuedStatus
      BY <2>1, <3>1 DEF SchedInv, QueuesMatchStatus
    <3> QED BY <1>0, <2>1, <3>1, <3>2 DEF IsLive
  <2>3. /\ UNCHANGED <<tokens, info, newlyFinished, finishedIds, image, embeds>>
        /\ phase = "admit" /\ phase' = "waiting"
    BY <1>7 DEF Admit, AllocateSlots, runnerVars
  <2>4. \A s \in Request : status'[s] = status[s] \/ (IsLive(s) /\ IsLive(s)')
    BY <1>0, <2>1, <2>2
  <2> QED BY <1>1, <2>3, <2>4 DEF Updating
<1>8. ASSUME UpdateChunk \/ UpdateSampled \/ SkipAborted, UNCHANGED runnerVars PROVE RowsInv'
  <2>1. /\ phase \in Updating /\ phase' \in Updating /\ phase # "idle" /\ phase' # "idle"
        /\ UNCHANGED <<status, info, newlyFinished, finishedIds, image, embeds>>
    BY <1>8 DEF UpdateChunk, UpdateSampled, SkipAborted, UpdateTurn, requestVars, runnerVars, Updating
  <2>2. ASSUME NEW r \in Request
        PROVE  tokens'[r] = tokens[r] \/ \E t \in Token : tokens'[r] = Append(tokens[r], t)
    <3>1. \/ tokens' = tokens
          \/ \E s \in Request, t \in Token : tokens' = [tokens EXCEPT ![s] = Append(@, t)]
      <4>1. CASE UpdateSampled
        <5>1. UpdateTurn /\ \E t \in Token : AppendToken(scheduled[idx].id, t)
          BY <4>1 DEF UpdateSampled
        <5>2. idx \in 1 .. Len(scheduled)
          BY <5>1, SchedulerTypesLemma DEF UpdateTurn, SchedInv, LoopInv
        <5> QED BY <1>0, <5>1, <5>2 DEF AppendToken
      <4>2. CASE UpdateChunk \/ SkipAborted
        BY <4>2 DEF UpdateChunk, SkipAborted, kvVars
      <4> QED BY <1>8, <4>1, <4>2
    <3> QED BY <1>0, <3>1
  <2>3. \A r \in Request : status[r] # "NONE" => Prompt(r)' = Prompt(r)
    BY <2>1, <2>2, PromptStays
  <2>4. \A r \in Request : IsLive(r)' <=> IsLive(r)
    BY <2>1 DEF IsLive
  <2> QED BY <2>1, <2>3, <2>4, RowsFrame
<1>9. ASSUME CheckStop, UNCHANGED runnerVars PROVE RowsInv'
  <2> DEFINE r == scheduled[idx].id
  <2>1. /\ phase = "check" /\ phase' = "update"
        /\ UNCHANGED <<info, finishedIds, image, embeds, tokens>>
        /\ \/ UNCHANGED <<status, newlyFinished>>
           \/ LeaveRunning(r) /\ Finish(r, StopStatus(r)) /\ StopStatus(r) # "RUNNING"
    BY <1>9 DEF CheckStop, FreeRequest, kvVars, runnerVars
  <2>2. r \in Request
    <3>1. idx \in 1 .. Len(scheduled)
      BY <2>1, SchedulerTypesLemma DEF SchedInv, LoopInv
    <3> QED BY <1>0, <3>1
  <2> HIDE DEF r
  <2>3. CASE UNCHANGED <<status, newlyFinished>>
    BY <1>1, <2>1, <2>3 DEF Updating
  <2>4. CASE LeaveRunning(r) /\ Finish(r, StopStatus(r)) /\ StopStatus(r) # "RUNNING"
    <3>1. StopStatus(r) \notin QueuedStatus \cup {"RUNNING", "NONE"}
      BY <2>4, StopStatusValue DEF QueuedStatus
    <3>2. r \in Range(running)
      <4>1. running \in Seq(Request)
        BY SchedulerTypesLemma DEF SchedInv
      <4> QED BY <2>4, <4>1, RangeOfSequence DEF LeaveRunning
    <3>3. IsLive(r)
      BY <2>2, <3>2 DEF SchedInv, QueuesMatchStatus, IsLive
    <3> QED BY <1>2, <2>1, <2>2, <2>4, <3>1, <3>3 DEF Updating
  <2> QED BY <2>1, <2>3, <2>4
<1>10. ASSUME ManagerStep, UNCHANGED runnerVars PROVE RowsInv'
  <2>1. UNCHANGED <<tokens, status, info, newlyFinished, finishedIds, phase, image, embeds>>
    BY <1>10 DEF ManagerStep, ReleaseBlock, RegisterBlock, requestVars, stepVars, runnerVars
  <2> QED BY <1>1, <2>1
<1>11. ASSUME NEW r \in Request, Abort(r), UNCHANGED runnerVars PROVE RowsInv'
  <2>1. /\ IsLive(r) /\ Finish(r, "FINISHED_ABORTED")
        /\ UNCHANGED <<phase, info, finishedIds, tokens, image, embeds>>
    BY <1>11 DEF Abort, FreeRequest, kvVars, stepVars, runnerVars
  <2>2. "FINISHED_ABORTED" \notin QueuedStatus \cup {"RUNNING", "NONE"}
    BY DEF QueuedStatus
  <2> QED BY <1>2, <2>1, <2>2
<1>12. CASE UNCHANGED engineVars
  <2>1. UNCHANGED <<tokens, status, info, newlyFinished, finishedIds, phase, image, embeds>>
    BY <1>12 DEF engineVars, vars, kvVars, requestVars, stepVars, runnerVars
  <2> QED BY <1>1, <2>1
<1> QED BY <1>4, <1>5, <1>6, <1>7, <1>8, <1>9, <1>10, <1>11, <1>12, SubmitRows, NoticedRows
        DEF EngineModelNext, EngineStep, ScheduleNext, UpdateNext

\* Initially there are none.
LEMMA RowsInit == EngineInit => RowsInv
<1> SUFFICES ASSUME EngineInit PROVE RowsInv
  OBVIOUS
<1>1. /\ newlyFinished = {} /\ finishedIds = {}
      /\ \A r \in Request : status[r] = "NONE" /\ image[r] = NoImage /\ embeds[r] = NoEmbeds
  BY DEF EngineInit, Init
<1> QED BY <1>1 DEF RowsInv

\* The rows of every request.
LEMMA RowsCorrect == EngineSpec => []RowsInv
<1>1. EngineInit => RowsInv
  BY RowsInit
<1>2. SchedInv /\ SchedInv' /\ GenerationInv /\ EngineTypeOK /\ RunnerInv /\ RowsInv
         /\ [EngineModelNext]_engineVars
      => RowsInv'
  BY RowsNext
<1> QED BY <1>1, <1>2, EngineImplementsScheduler, SchedulerInv, GenerationCorrect, EngineTypeCorrect,
           RunnerCorrect, PTL DEF EngineSpec

-----------------------------------------------------------------------------
(* What the forward pass reads.  A prefix in the memory is found again by  *)
(* its tokens, and an image has the same placeholders as any other: the    *)
(* tokens must tell the rows.  MemoryInv says what the blocks hold once    *)
(* the step in preparation is executed, so that it can be carried through  *)
(* the steps of schedule() and of the manager that lie between the choice  *)
(* of a block and its writing: a block may be labelled, and found by that  *)
(* label, before its content is there (block_manager.py,                   *)
(* _cache_full_blocks).                                                    *)

\* No prompt has a placeholder.
TextOnly == \A prompt \in Prompts : ImageToken \notin Range(prompt)

\* There is one image, or none is shown; a prompt ends in text; and what is generated
\* after a prompt is not taken for a placeholder of a longer one.
TokensTellRows ==
    /\ TextOnly \/ \E im \in Image : Image = {im}
    /\ \A p \in Prompts : p[Len(p)] # ImageToken
    /\ \A p, q \in Prompts : \A i \in Len(p) + 1 .. Len(q) :
          SubSeq(q, 1, Len(p)) = p => q[i] # ImageToken

\* The i-th token of a sequence is the placeholder of a prompt that begins as it does.
Placeholder(seq, i) ==
    /\ seq[i] = ImageToken
    /\ \E p \in Prompts : i <= Len(p) /\ SubSeq(p, 1, i) = SubSeq(seq, 1, i)

TheImage == CHOOSE im \in Image : TRUE

\* The rows that a sequence of tokens tells.
RowsOf(seq) == [i \in DOMAIN seq |-> IF Placeholder(seq, i) THEN TheImage ELSE seq[i]]

\* The tokens of r up to a position, which counts from 0.
Prefix(r, pos) == SubSeq(tokens[r], 1, pos + 1)

WritesAt(s, pos, b, o) ==
    /\ pos \in s.start .. s.start + s.num - 1
    /\ BlockAt(s.blocks, pos) = b
    /\ pos % BlockSize = o

\* Slot o of block b holds the rows of v, or will once the step in preparation is
\* executed.
WillHold(b, o, v) ==
    /\ phase \notin Updating =>
          \A i \in 1 .. Len(scheduled), pos \in Nat :
             WritesAt(scheduled[i], pos, b, o) => v = Prefix(scheduled[i].id, pos)
    /\ phase \in Updating \/ (\A i \in 1 .. Len(scheduled) : ~Writes(scheduled[i], b, o))
          => kv[b][o] = RowsOf(v)

\* A cached block holds what its label names.
LabelsInMemory ==
    \A h \in Hash : cached[h] # NoBlock =>
       \A o \in 0 .. BlockSize - 1 :
          WillHold(cached[h], o, SubSeq(h, 1, Len(h) - BlockSize + o + 1))

\* A running request's table holds what it has computed.
RunningInMemory ==
    \A r \in Request : status[r] = "RUNNING" =>
       \A pos \in 0 .. computed[r] - 1 :
          WillHold(BlockAt(table[r], pos), pos % BlockSize, Prefix(r, pos))

\* And what it has scheduled.
EntriesInMemory ==
    \A i \in 1 .. Len(scheduled) : Unprocessed(i) =>
       \A pos \in 0 .. scheduled[i].start + scheduled[i].num - 1 :
          WillHold(BlockAt(scheduled[i].blocks, pos), pos % BlockSize, Prefix(scheduled[i].id, pos))

MemoryInv == LabelsInMemory /\ RunningInMemory /\ EntriesInMemory

-----------------------------------------------------------------------------
(* Slots and prefixes. *)

\* The slot of the o-th position after n full blocks.
LEMMA SlotOfBlock ==
  ASSUME NEW n \in Nat, NEW o \in 0 .. BlockSize - 1
  PROVE  LET pos == n * BlockSize + o
         IN  /\ pos \in Nat /\ pos < (n + 1) * BlockSize
             /\ pos \div BlockSize = n /\ pos % BlockSize = o
<1> DEFINE pos == n * BlockSize + o
           q == pos \div BlockSize
           m == pos % BlockSize
<1>1. n * BlockSize \in Nat /\ (n + 1) * BlockSize = n * BlockSize + BlockSize
  BY BlocksMonotone, BlockSizeAssumption
<1>2. pos \in Nat /\ pos < (n + 1) * BlockSize
  BY <1>1, BlockSizeAssumption
<1> HIDE DEF pos
<1>3. /\ \A k \in Nat : pos < k * BlockSize => q + 1 \in 1 .. k
      /\ \A k \in Nat : k * BlockSize <= pos => k < q + 1
      /\ q \in Nat /\ m \in 0 .. BlockSize - 1 /\ pos = q * BlockSize + m
  BY <1>2, SlotLemma
<1> HIDE DEF q, m
<1>4. n * BlockSize <= pos
  BY <1>1, BlockSizeAssumption DEF pos
<1>5. q = n
  <2>1. q + 1 \in 1 .. n + 1 /\ n < q + 1
    <3>1. n + 1 \in Nat
      OBVIOUS
    <3> QED BY <1>2, <1>3, <1>4, <3>1
  <2> QED BY <1>3, <2>1
<1>6. m = o
  <2>1. n * BlockSize + m = n * BlockSize + o
    BY <1>3, <1>5 DEF pos
  <2> QED BY <1>1, <1>3, <2>1, BlockSizeAssumption
<1> QED BY <1>2, <1>5, <1>6 DEF pos, q, m

\* A table without repetition has one position for a slot.
LEMMA SameSlot ==
  ASSUME NEW t \in Seq(Block), IsInjective(t), NEW p \in Nat, NEW q \in Nat,
         p < Len(t) * BlockSize, q < Len(t) * BlockSize,
         BlockAt(t, p) = BlockAt(t, q), p % BlockSize = q % BlockSize
  PROVE  p = q
<1>1. /\ p \div BlockSize + 1 \in 1 .. Len(t) /\ q \div BlockSize + 1 \in 1 .. Len(t)
      /\ p \div BlockSize \in Nat /\ q \div BlockSize \in Nat
      /\ p = (p \div BlockSize) * BlockSize + (p % BlockSize)
      /\ q = (q \div BlockSize) * BlockSize + (q % BlockSize)
  <2>1. Len(t) \in Nat
    OBVIOUS
  <2> QED BY <2>1, SlotLemma
<1>2. p \div BlockSize + 1 = q \div BlockSize + 1
  BY <1>1, InjectiveSequence DEF BlockAt
<1>3. p \div BlockSize = q \div BlockSize
  BY <1>1, <1>2
<1> QED BY <1>1, <1>3, Zenon

\* A position within a table is in one of its blocks.
LEMMA BlockInTable ==
  ASSUME NEW t \in Seq(Block), NEW pos \in Nat, pos < Len(t) * BlockSize
  PROVE  /\ BlockAt(t, pos) \in Range(t) /\ BlockAt(t, pos) \in Block
         /\ pos % BlockSize \in 0 .. BlockSize - 1
<1>1. Len(t) \in Nat
  OBVIOUS
<1>2. pos \div BlockSize + 1 \in 1 .. Len(t) /\ pos % BlockSize \in 0 .. BlockSize - 1
  BY <1>1, SlotLemma
<1> QED BY <1>2, RangeOfSequence DEF BlockAt

\* A prefix of a prefix.
LEMMA PrefixOfPrefix ==
  ASSUME NEW S, NEW s \in Seq(S), NEW m \in 0 .. Len(s), NEW n \in 0 .. m
  PROVE  SubSeq(SubSeq(s, 1, m), 1, n) = SubSeq(s, 1, n)
<1> DEFINE t == SubSeq(s, 1, m)
<1>1. Len(s) \in Nat /\ t \in Seq(S) /\ Len(t) = m /\ \A i \in 1 .. m : t[i] = s[i]
  BY TakeLemma
<1> HIDE DEF t
<1>2. n \in 0 .. Len(s) /\ n \in 0 .. Len(t)
  BY <1>1
<1>3. /\ SubSeq(s, 1, n) \in Seq(S) /\ Len(SubSeq(s, 1, n)) = n
      /\ \A i \in 1 .. n : SubSeq(s, 1, n)[i] = s[i]
  BY <1>2, TakeLemma
<1>4. /\ SubSeq(t, 1, n) \in Seq(S) /\ Len(SubSeq(t, 1, n)) = n
      /\ \A i \in 1 .. n : SubSeq(t, 1, n)[i] = t[i]
  BY <1>1, <1>2, TakeLemma
<1>5. \A i \in 1 .. n : SubSeq(t, 1, n)[i] = SubSeq(s, 1, n)[i]
  BY <1>1, <1>3, <1>4
<1> QED BY <1>3, <1>4, <1>5 DEF t

\* What a label says of a slot is the prefix of its holder up to there.
LEMMA LabelledPrefix ==
  ASSUME KVInv, NEW r \in Request, NEW n \in Nat, (n + 1) * BlockSize <= Len(tokens[r]),
         NEW o \in 0 .. BlockSize - 1
  PROVE  LET h == BlockPrefix(r, n + 1)
         IN  /\ h \in Hash
             /\ SubSeq(h, 1, Len(h) - BlockSize + o + 1) = Prefix(r, n * BlockSize + o)
<1> DEFINE h == BlockPrefix(r, n + 1)
           m == (n + 1) * BlockSize
           pos == n * BlockSize + o
<1>1. tokens[r] \in Seq(Token) /\ Len(tokens[r]) \in Nat /\ KVTypeOK
  <2>1. tokens[r] \in Seq(Token)
    BY KVTypes
  <2> QED BY <2>1 DEF KVInv
<1>2. /\ n * BlockSize \in Nat /\ m = n * BlockSize + BlockSize
      /\ n + 1 \in Nat \ {0} /\ m <= Len(tokens[r])
  BY BlocksMonotone, BlockSizeAssumption
<1> HIDE DEF m
<1>3. h \in Hash /\ Len(h) = m /\ h = SubSeq(tokens[r], 1, m)
  BY <1>1, <1>2, PrefixHashLemma DEF BlockPrefix, m
<1> HIDE DEF h
<1>4. m - BlockSize + o + 1 = pos + 1 /\ m \in 0 .. Len(tokens[r]) /\ pos + 1 \in 0 .. m
  BY <1>1, <1>2, BlockSizeAssumption
<1> HIDE DEF pos
<1>5. SubSeq(h, 1, Len(h) - BlockSize + o + 1) = SubSeq(h, 1, pos + 1)
  BY <1>3, <1>4
<1>6. SubSeq(SubSeq(tokens[r], 1, m), 1, pos + 1) = SubSeq(tokens[r], 1, pos + 1)
  BY <1>1, <1>4, PrefixOfPrefix
<1>7. SubSeq(h, 1, Len(h) - BlockSize + o + 1) = Prefix(r, pos)
  BY <1>3, <1>5, <1>6 DEF Prefix
<1> QED BY <1>3, <1>7 DEF h, pos
-----------------------------------------------------------------------------
(* What the blocks hold, step by step. *)

\* A step that leaves alone the memory and the entries to be executed.
LEMMA WillHoldFrame ==
  ASSUME UNCHANGED <<kv, scheduled>>, phase' \in Updating <=> phase \in Updating,
         phase \in Updating \/ \A i \in 1 .. Len(scheduled) :
                                  tokens'[scheduled[i].id] = tokens[scheduled[i].id]
  PROVE  \A b, o, v : WillHold(b, o, v) => WillHold(b, o, v)'
BY DEF WillHold, WritesAt, Writes, Prefix

\* And what the invariant says of it.
LEMMA MemoryFrame ==
  ASSUME MemoryInv, UNCHANGED <<kv, scheduled>>,
         phase' \in Updating <=> phase \in Updating,
         \A i \in 1 .. Len(scheduled) : Unprocessed(i)' => Unprocessed(i),
         \A i \in 1 .. Len(scheduled) : tokens'[scheduled[i].id] = tokens[scheduled[i].id],
         \A h \in Hash : cached'[h] # NoBlock => cached'[h] = cached[h],
         \A r \in Request : status'[r] = "RUNNING" =>
            /\ status[r] = "RUNNING" /\ computed'[r] = computed[r]
            /\ table'[r] = table[r] /\ tokens'[r] = tokens[r]
  PROVE  MemoryInv'
<1>1. \A b, o, v : WillHold(b, o, v) => WillHold(b, o, v)'
  BY WillHoldFrame
<1>2. LabelsInMemory'
  <2> SUFFICES ASSUME NEW h \in Hash, cached'[h] # NoBlock, NEW o \in 0 .. BlockSize - 1
               PROVE  WillHold(cached[h], o, SubSeq(h, 1, Len(h) - BlockSize + o + 1))'
    BY DEF LabelsInMemory
  <2>1. WillHold(cached[h], o, SubSeq(h, 1, Len(h) - BlockSize + o + 1))
    BY DEF MemoryInv, LabelsInMemory
  <2> QED BY <1>1, <2>1
<1>3. RunningInMemory'
  <2> SUFFICES ASSUME NEW r \in Request, status'[r] = "RUNNING", NEW pos \in 0 .. computed'[r] - 1
               PROVE  WillHold(BlockAt(table[r], pos), pos % BlockSize, Prefix(r, pos))'
    BY DEF RunningInMemory
  <2>1. WillHold(BlockAt(table[r], pos), pos % BlockSize, Prefix(r, pos))
    BY DEF MemoryInv, RunningInMemory
  <2> QED BY <1>1, <2>1 DEF BlockAt, Prefix
<1>4. EntriesInMemory'
  BY <1>1 DEF MemoryInv, EntriesInMemory, BlockAt, Prefix
<1> QED BY <1>2, <1>3, <1>4 DEF MemoryInv
\* What a request has before its new entry is in memory: it computed it, or
\* found it by its label.
LEMMA NewEntryPrefix ==
  ASSUME SchedInv, LayoutInv, MemoryInv, NEW r \in Request, NEW start, NEW num, NEW isNew,
         NewEntry(r, start, num, isNew), NEW pos \in 0 .. start - 1
  PROVE  /\ WillHold(BlockAt(table'[r], pos), pos % BlockSize, Prefix(r, pos))
         /\ pos \in Nat
<1> DEFINE base == IF hits[r] = << >> THEN table[r] ELSE hits[r]
           k == pos \div BlockSize
           o == pos % BlockSize
<1>1. /\ KVInv /\ start \in Nat /\ pos \in Nat /\ pos < start
      /\ table[r] \in Seq(Block) /\ hits[r] \in Seq(Block)
      /\ Len(table[r]) \in Nat /\ Len(hits[r]) \in Nat
  <2>1. KVInv /\ start \in Nat /\ pos \in Nat /\ pos < start
    BY DEF SchedInv, NewEntry
  <2>2. table[r] \in Seq(Block) /\ hits[r] \in Seq(Block)
    BY <2>1, KVTypes
  <2> QED BY <2>1, <2>2
<1>2. \A i \in 1 .. Len(base) : table'[r][i] = base[i]
  <2> DEFINE total == start + num
  <2>1. total \in 1 .. Len(tokens[r]) /\ AllocateSlots(r, total)
    BY DEF NewEntry
  <2> HIDE DEF total
  <2>2. \A i \in 1 .. Len(IF hits[r] = << >> THEN table[r] ELSE hits[r]) :
           table'[r][i] = (IF hits[r] = << >> THEN table[r] ELSE hits[r])[i]
    BY <1>1, <2>1, SlotsLemma
  <2> QED BY <2>2
<1>3. ~isNew => /\ status[r] = "RUNNING" /\ computed[r] = start /\ base = table[r]
                /\ start <= Len(table[r]) * BlockSize
  <2> SUFFICES ASSUME ~isNew
               PROVE  /\ status[r] = "RUNNING" /\ computed[r] = start /\ base = table[r]
                      /\ start <= Len(table[r]) * BlockSize
    OBVIOUS
  <2>1. status[r] = "RUNNING" /\ computed[r] = start /\ phase = "running"
    BY DEF NewEntry
  <2>2. hits[r] = << >>
    BY <2>1 DEF SchedInv, HitsInv
  <2> QED BY <2>1, <2>2 DEF LayoutInv, TablesCover
<1>4. isNew => start = Len(hits[r]) * BlockSize /\ base = hits[r]
  <2> SUFFICES ASSUME isNew PROVE start = Len(hits[r]) * BlockSize /\ base = hits[r]
    OBVIOUS
  <2>1. start = Len(hits[r]) * BlockSize /\ status[r] \in QueuedStatus
    BY DEF NewEntry
  <2>2. table[r] = << >>
    BY <2>1 DEF SchedInv, RequestsInv, QueuedStatus
  <2> QED BY <2>1, <2>2
<1>5. isNew \in BOOLEAN
  BY DEF NewEntry
<1>6. base \in Seq(Block) /\ Len(base) \in Nat
  BY <1>1
<1> HIDE DEF base
<1>7. pos < Len(base) * BlockSize
  <2>1. start <= Len(base) * BlockSize /\ Len(base) * BlockSize \in Nat
    <3>1. Len(base) * BlockSize \in Nat
      BY <1>6, BlocksMonotone, BlockSizeAssumption
    <3>2. start <= Len(base) * BlockSize
      <4>1. CASE isNew
        BY <1>1, <1>4, <4>1
      <4>2. CASE ~isNew
        BY <1>3, <4>2
      <4> QED BY <1>5, <4>1, <4>2
    <3> QED BY <3>1, <3>2
  <2> QED BY <1>1, <2>1
<1>8. k + 1 \in 1 .. Len(base) /\ k \in Nat /\ o \in 0 .. BlockSize - 1 /\ pos = k * BlockSize + o
  BY <1>1, <1>6, <1>7, SlotLemma
<1>9. BlockAt(table'[r], pos) = BlockAt(base, pos) /\ BlockAt(base, pos) = base[k + 1]
  BY <1>2, <1>8 DEF BlockAt
<1> HIDE DEF k
<1>10. CASE ~isNew
  <2>1. WillHold(BlockAt(table[r], pos), o, Prefix(r, pos))
    BY <1>1, <1>3, <1>10 DEF MemoryInv, RunningInMemory
  <2> QED BY <1>1, <1>3, <1>9, <1>10, <2>1
<1>11. CASE isNew
  <2> DEFINE h == BlockPrefix(r, k + 1)
  <2>1. /\ (k + 1) * BlockSize <= Len(tokens[r]) /\ blockHash[base[k + 1]] = h
    BY <1>1, <1>4, <1>8, <1>11 DEF KVInv, LabelIsOwnPrefix
  <2>2. h \in Hash /\ SubSeq(h, 1, Len(h) - BlockSize + o + 1) = Prefix(r, pos)
    BY <1>1, <1>8, <2>1, LabelledPrefix
  <2> HIDE DEF h, o
  <2>3. base[k + 1] \in Block
    BY <1>6, <1>8
  <2>4. cached[h] = base[k + 1] /\ cached[h] # NoBlock
    <3>1. cached[h] = base[k + 1]
      BY <1>1, <2>1, <2>2, <2>3 DEF KVInv, PoolInv, IndexMatchesLabels
    <3> QED BY <2>3, <3>1 DEF Block, NoBlock
  <2>5. WillHold(cached[h], o, SubSeq(h, 1, Len(h) - BlockSize + o + 1))
    BY <1>8, <2>2, <2>4 DEF MemoryInv, LabelsInMemory
  <2>6. WillHold(BlockAt(table'[r], pos), o, Prefix(r, pos))
    BY <1>9, <2>2, <2>4, <2>5
  <2> QED BY <1>1, <2>6 DEF o
<1> QED BY <1>5, <1>10, <1>11

\* The new entry's slots will hold its own prefix, the others what they did.
LEMMA NewEntryWillHold ==
  ASSUME SchedInv, SchedInv', LayoutInv, LayoutInv', NEW r \in Request, NEW start, NEW num,
         NEW isNew, NewEntry(r, start, num, isNew), UNCHANGED kv
  PROVE  /\ \A b, o, v : WillHold(b, o, v) /\ ~Writes(scheduled'[Len(scheduled) + 1], b, o)
                            => WillHold(b, o, v)'
         /\ \A pos \in start .. start + num - 1 :
               WillHold(BlockAt(table[r], pos), pos % BlockSize, Prefix(r, pos))'
<1> DEFINE n == Len(scheduled) + 1
           e == scheduled'[n]
<1>1. /\ phase \notin Updating /\ phase' \notin Updating
      /\ start \in Nat /\ num \in Nat \ {0}
  BY DEF NewEntry, Updating
<1>2. KVInv' /\ HashedIsComputed /\ SchedulerTypes /\ SchedulerTypes'
  BY DEF SchedInv, LayoutInv
<1>3. /\ e = [id |-> r, start |-> start, num |-> num, blocks |-> table'[r],
              doSample |-> start + num = NumTokens(r), isNew |-> isNew]
      /\ Len(scheduled) \in Nat /\ Len(scheduled') = n
      /\ \A i \in 1 .. Len(scheduled) : scheduled'[i] = scheduled[i]
      /\ \A i \in 1 .. Len(scheduled') : i \in 1 .. Len(scheduled) \/ i = n
      /\ start + num <= Len(table'[r]) * BlockSize /\ IsInjective(table'[r])
      /\ tokens' = tokens
  BY <1>2, NewEntryTable
<1>4. e.id = r /\ e.start = start /\ e.num = num /\ e.blocks = table'[r]
  BY <1>3
<1>5. n \in 1 .. Len(scheduled') /\ table'[r] \in Seq(Block) /\ Len(table'[r]) \in Nat
  <2>1. table'[r] \in Seq(Block)
    BY <1>2 DEF KVInv, KVTypeOK
  <2> QED BY <1>3, <2>1
<1>6. scheduled'[n] = e
  OBVIOUS
<1>7. \A i \in 1 .. Len(scheduled) : i \in 1 .. Len(scheduled') /\ i # n
  BY <1>3
<1> HIDE DEF e, n
<1>8. ASSUME NEW b, NEW o, NEW v, WillHold(b, o, v), ~Writes(e, b, o) PROVE WillHold(b, o, v)'
  <2>1. ASSUME NEW i \in 1 .. Len(scheduled'), NEW pos \in Nat, WritesAt(scheduled'[i], pos, b, o)
        PROVE  v = SubSeq(tokens'[scheduled'[i].id], 1, pos + 1)
    <3>1. CASE i = n
      BY <1>6, <1>8, <2>1, <3>1 DEF WritesAt, Writes
    <3>2. CASE i \in 1 .. Len(scheduled)
      BY <1>1, <1>3, <1>8, <2>1, <3>2 DEF WillHold, Prefix
    <3> QED BY <1>3, <3>1, <3>2
  <2>2. ASSUME \A i \in 1 .. Len(scheduled') : ~Writes(scheduled'[i], b, o) PROVE kv'[b][o] = RowsOf(v)
    BY <1>3, <1>7, <1>8, <2>2 DEF WillHold
  <2> QED BY <1>1, <2>1, <2>2 DEF WillHold, WritesAt, Writes, Prefix
<1>9. ASSUME NEW pos \in start .. start + num - 1, NEW b, NEW o,
             b = BlockAt(table'[r], pos), o = pos % BlockSize
      PROVE  WillHold(b, o, Prefix(r, pos))'
  <2>1. pos \in Nat /\ pos < Len(table'[r]) * BlockSize
    <3>1. Len(table'[r]) * BlockSize \in Nat
      BY <1>5, BlocksMonotone, BlockSizeAssumption
    <3> QED BY <1>1, <1>3, <3>1
  <2>2. b \in Block /\ o \in 0 .. BlockSize - 1
    BY <1>5, <1>9, <2>1, BlockInTable
  <2>3. Writes(e, b, o)
    BY <1>4, <1>9 DEF Writes
  <2>4. ASSUME NEW i \in 1 .. Len(scheduled'), NEW p \in Nat, WritesAt(scheduled'[i], p, b, o)
        PROVE  Prefix(r, pos)' = SubSeq(tokens'[scheduled'[i].id], 1, p + 1)
    <3>1. Writes(scheduled'[i], b, o)
      BY <2>4 DEF WritesAt, Writes
    <3>2. i = n
      BY <1>5, <1>6, <2>2, <2>3, <3>1 DEF LayoutInv, EntriesDisjoint, Writes
    <3>3. p \in start .. start + num - 1 /\ BlockAt(table'[r], p) = b /\ p % BlockSize = o
      BY <1>4, <1>6, <2>4, <3>2 DEF WritesAt
    <3>4. p < Len(table'[r]) * BlockSize
      <4>1. Len(table'[r]) * BlockSize \in Nat
        BY <1>5, BlocksMonotone, BlockSizeAssumption
      <4> QED BY <1>1, <1>3, <3>3, <4>1
    <3>5. p = pos
      BY <1>3, <1>5, <1>9, <2>1, <3>3, <3>4, SameSlot
    <3> QED BY <1>4, <1>6, <3>2, <3>5 DEF Prefix
  <2>5. \E i \in 1 .. Len(scheduled') : Writes(scheduled'[i], b, o)
    BY <1>5, <1>6, <2>3
  <2> QED BY <1>1, <2>4, <2>5 DEF WillHold, WritesAt, Writes, Prefix
<1>10. \A b, o, v : WillHold(b, o, v) /\ ~Writes(e, b, o) => WillHold(b, o, v)'
  BY <1>8
<1>11. \A pos \in start .. start + num - 1 :
          WillHold(BlockAt(table[r], pos), pos % BlockSize, Prefix(r, pos))'
  BY <1>9 DEF BlockAt
<1> QED BY <1>10, <1>11 DEF e, n
\* So an entry keeps what is promised of the memory.
LEMMA NewEntryMemory ==
  ASSUME SchedInv, SchedInv', LayoutInv, LayoutInv', MemoryInv, NEW r \in Request, NEW start,
         NEW num, NEW isNew, NewEntry(r, start, num, isNew), UNCHANGED runnerVars
  PROVE  MemoryInv'
<1> DEFINE n == Len(scheduled) + 1
           e == scheduled'[n]
<1>1. /\ phase \in Scheduling /\ phase \notin Updating /\ phase' \notin Updating
      /\ start \in Nat /\ num \in Nat \ {0}
      /\ start + num \in 1 .. Len(tokens[r])
      /\ AllocateSlots(r, start + num)
      /\ computed'[r] = start
      /\ \A s \in Request \ {r} : computed'[s] = computed[s] /\ status'[s] = status[s]
      /\ \A i \in 1 .. Len(scheduled) : scheduled[i].id # r
  BY DEF NewEntry, Scheduling, Updating
<1>2. /\ KVInv /\ KVInv' /\ HashedIsComputed /\ SchedulerTypes
      /\ kv' = kv
  BY DEF SchedInv, LayoutInv, runnerVars
<1>3. /\ e = [id |-> r, start |-> start, num |-> num, blocks |-> table'[r],
              doSample |-> start + num = NumTokens(r), isNew |-> isNew]
      /\ Len(scheduled) \in Nat
      /\ \A i \in 1 .. Len(scheduled) : scheduled'[i] = scheduled[i]
      /\ \A i \in 1 .. Len(scheduled') : i \in 1 .. Len(scheduled) \/ i = n
      /\ start + num <= Len(table'[r]) * BlockSize /\ IsInjective(table'[r])
      /\ tokens' = tokens
      /\ \A s \in Request \ {r} : table'[s] = table[s]
  BY <1>2, NewEntryTable
<1>4. e.id = r /\ e.start = start /\ e.num = num /\ e.blocks = table'[r]
  BY <1>3
<1>5. table'[r] \in Seq(Block) /\ Len(table'[r]) \in Nat
  <2>1. table'[r] \in Seq(Block)
    BY <1>2 DEF KVInv, KVTypeOK
  <2> QED BY <2>1
<1>6. scheduled'[n] = e
  OBVIOUS
<1>7. \A b, o : Writes(e, b, o) => Holders(b)' = {r} /\ blockHash'[b] = NoHash
  BY NewEntryPrivate
<1>8. /\ \A b, o, v : WillHold(b, o, v) /\ ~Writes(e, b, o) => WillHold(b, o, v)'
      /\ \A pos \in start .. start + num - 1 :
            WillHold(BlockAt(table[r], pos), pos % BlockSize, Prefix(r, pos))'
  BY <1>2, NewEntryWillHold
<1> HIDE DEF e, n
\* A block that another request holds is not written.
<1>9. ASSUME NEW s \in Request \ {r}, NEW pos \in Nat, pos < Len(table[s]) * BlockSize,
             WillHold(BlockAt(table[s], pos), pos % BlockSize, Prefix(s, pos))
      PROVE  WillHold(BlockAt(table[s], pos), pos % BlockSize, Prefix(s, pos))'
  <2>1. table[s] \in Seq(Block) /\ table'[s] = table[s]
    BY <1>2, <1>3, KVTypes
  <2>2. BlockAt(table[s], pos) \in Range(table[s])
    BY <1>9, <2>1, BlockInTable
  <2>3. \A b \in Range(table[s]) : s \in Holders(b)'
    BY <2>1 DEF Holders
  <2>4. ~Writes(e, BlockAt(table[s], pos), pos % BlockSize)
    BY <1>7, <2>2, <2>3
  <2>5. Prefix(s, pos)' = Prefix(s, pos)
    BY <1>3 DEF Prefix
  <2> QED BY <1>8, <1>9, <2>1, <2>4, <2>5 DEF BlockAt
\* What r had is not written again.
<1>10. ASSUME NEW pos \in 0 .. start + num - 1
       PROVE  WillHold(BlockAt(table[r], pos), pos % BlockSize, Prefix(r, pos))'
  <2>1. CASE pos >= start
    BY <1>1, <1>8, <2>1
  <2>2. CASE pos < start
    <3>1. pos \in 0 .. start - 1 /\ pos \in Nat
      BY <1>1, <2>2
    <3>2. WillHold(BlockAt(table'[r], pos), pos % BlockSize, Prefix(r, pos))
      BY <3>1, NewEntryPrefix
    <3>3. ASSUME Writes(e, BlockAt(table'[r], pos), pos % BlockSize) PROVE FALSE
      <4>1. PICK p \in start .. start + num - 1 :
               BlockAt(table'[r], p) = BlockAt(table'[r], pos) /\ p % BlockSize = pos % BlockSize
        BY <1>4, <3>3 DEF Writes
      <4>2. p \in Nat /\ p < Len(table'[r]) * BlockSize /\ pos < Len(table'[r]) * BlockSize
        <5>1. Len(table'[r]) * BlockSize \in Nat
          BY <1>5, BlocksMonotone, BlockSizeAssumption
        <5> QED BY <1>1, <1>3, <2>2, <3>1, <5>1
      <4>3. p = pos
        BY <1>3, <1>5, <3>1, <4>1, <4>2, SameSlot
      <4> QED BY <1>1, <2>2, <4>3
    <3>4. Prefix(r, pos)' = Prefix(r, pos)
      BY <1>3 DEF Prefix
    <3> QED BY <1>8, <3>2, <3>3, <3>4 DEF BlockAt
  <2> QED BY <1>1, <2>1, <2>2
<1>11. LabelsInMemory'
  <2> SUFFICES ASSUME NEW h \in Hash, cached'[h] # NoBlock, NEW o \in 0 .. BlockSize - 1
               PROVE  WillHold(cached[h], o, SubSeq(h, 1, Len(h) - BlockSize + o + 1))'
    BY DEF LabelsInMemory
  <2>1. cached'[h] = cached[h] /\ cached'[h] \in Block
    <3>1. cached'[h] \in Block
      BY <1>2 DEF KVInv, PoolInv, PoolTypeOK
    <3>2. cached'[h] = cached[h] \/ cached'[h] = NoBlock
      BY <1>1 DEF AllocateSlots, Allocate, poolVars
    <3> QED BY <3>1, <3>2
  <2>2. blockHash'[cached'[h]] = h /\ h # NoHash
    BY <1>2, <2>1, NoHashAssumption DEF KVInv, PoolInv, IndexMatchesLabels
  <2>3. ~Writes(e, cached[h], o)
    BY <1>7, <2>1, <2>2
  <2>4. WillHold(cached[h], o, SubSeq(h, 1, Len(h) - BlockSize + o + 1))
    BY <2>1 DEF MemoryInv, LabelsInMemory
  <2> QED BY <1>8, <2>1, <2>3, <2>4
<1>12. RunningInMemory'
  <2> SUFFICES ASSUME NEW s \in Request, status'[s] = "RUNNING", NEW pos \in 0 .. computed'[s] - 1
               PROVE  WillHold(BlockAt(table[s], pos), pos % BlockSize, Prefix(s, pos))'
    BY DEF RunningInMemory
  <2>1. CASE s = r
    BY <1>1, <1>10, <2>1
  <2>2. CASE s # r
    <3>1. status[s] = "RUNNING" /\ computed'[s] = computed[s] /\ computed[s] \in Nat
      BY <1>1, <1>2, <2>2, SchedulerTypesLemma
    <3>2. WillHold(BlockAt(table[s], pos), pos % BlockSize, Prefix(s, pos))
      BY <3>1 DEF MemoryInv, RunningInMemory
    <3>3. pos \in Nat /\ pos < Len(table[s]) * BlockSize
      <4>1. computed[s] <= Len(table[s]) * BlockSize
        BY <3>1 DEF LayoutInv, TablesCover
      <4>2. Len(table[s]) * BlockSize \in Nat
        <5>1. Len(table[s]) \in Nat
          BY <1>2, SchedulerTypesLemma
        <5> QED BY <5>1, BlocksMonotone, BlockSizeAssumption
      <4> QED BY <3>1, <4>1, <4>2
    <3> QED BY <1>9, <2>2, <3>2, <3>3
  <2> QED BY <2>1, <2>2
<1>13. EntriesInMemory'
  <2> SUFFICES ASSUME NEW i \in 1 .. Len(scheduled'),
                      NEW pos \in 0 .. scheduled'[i].start + scheduled'[i].num - 1
               PROVE  WillHold(BlockAt(scheduled[i].blocks, pos), pos % BlockSize,
                               Prefix(scheduled[i].id, pos))'
    BY DEF EntriesInMemory
  <2>1. CASE i = n
    BY <1>4, <1>6, <1>10, <2>1 DEF BlockAt, Prefix
  <2>2. CASE i \in 1 .. Len(scheduled)
    <3>1. /\ scheduled[i].id \in Request \ {r} /\ scheduled'[i] = scheduled[i]
          /\ scheduled[i].start \in Nat /\ scheduled[i].num \in Nat
      BY <1>1, <1>2, <1>3, <2>2, EntryType
    <3>2. PICK s \in Request \ {r} : s = scheduled[i].id
      BY <3>1
    <3>3. Unprocessed(i) /\ status[s] = "RUNNING"
      BY <1>1, <2>2, <3>2 DEF LayoutInv, EntriesRunning, Unprocessed, Updating
    <3>4. /\ scheduled[i].blocks = table[s]
          /\ scheduled[i].start + scheduled[i].num <= Len(table[s]) * BlockSize
      BY <2>2, <3>2, <3>3 DEF SchedInv, EntriesExecutable, Executable
    <3>5. WillHold(BlockAt(scheduled[i].blocks, pos), pos % BlockSize, Prefix(s, pos))
      BY <2>2, <3>2, <3>1, <3>3 DEF MemoryInv, EntriesInMemory
    <3>6. pos \in Nat /\ pos < Len(table[s]) * BlockSize
      <4>1. Len(table[s]) * BlockSize \in Nat
        <5>1. Len(table[s]) \in Nat
          BY <1>2, <3>1, SchedulerTypesLemma
        <5> QED BY <5>1, BlocksMonotone, BlockSizeAssumption
      <4> QED BY <3>1, <3>4, <4>1, SMTT(40)
    <3>7. WillHold(BlockAt(table[s], pos), pos % BlockSize, Prefix(s, pos))'
      <4>1. WillHold(BlockAt(table[s], pos), pos % BlockSize, Prefix(s, pos))
        BY <3>4, <3>5
      <4> QED BY <1>9, <3>6, <4>1
    <3>8. table'[s] = scheduled'[i].blocks /\ scheduled'[i].id = s
      BY <1>3, <3>2, <3>1, <3>4
    <3> QED BY <3>7, <3>8 DEF BlockAt, Prefix
  <2> QED BY <1>3, <2>1, <2>2
<1> QED BY <1>11, <1>12, <1>13 DEF MemoryInv

-----------------------------------------------------------------------------
(* The rows that its tokens tell are a request's own. *)

\* Text tells its rows.
LEMMA TextTellsRows == TextOnly => TokensTellRows
<1> SUFFICES ASSUME TextOnly PROVE TokensTellRows
  OBVIOUS
<1>1. ASSUME NEW p \in Prompts, NEW i \in 1 .. Len(p) PROVE p[i] # ImageToken
  <2>1. p \in Seq(Token)
    BY PromptLemma
  <2>2. p[i] \in Range(p)
    BY <2>1, RangeOfSequence
  <2> QED BY <2>2 DEF TextOnly
<1>2. \A p \in Prompts : Len(p) \in Nat \ {0}
  BY PromptLemma, MaxModelLenAssumption
<1>3. \A p \in Prompts : p[Len(p)] # ImageToken
  BY <1>1, <1>2
<1>4. ASSUME NEW p \in Prompts, NEW q \in Prompts, NEW i \in Len(p) + 1 .. Len(q)
      PROVE  q[i] # ImageToken
  <2>1. i \in 1 .. Len(q)
    BY <1>2
  <2> QED BY <1>1, <2>1
<1> QED BY <1>3, <1>4 DEF TokensTellRows

\* In tokens that begin with a prompt the placeholders are those of that prompt.
LEMMA OwnPlaceholders ==
  ASSUME TokensTellRows, NEW t \in Seq(Token), NEW m \in 1 .. Len(t), SubSeq(t, 1, m) \in Prompts,
         NEW n \in 0 .. Len(t), NEW i \in 1 .. n
  PROVE  Placeholder(SubSeq(t, 1, n), i) <=> t[i] = ImageToken /\ i <= m
<1> DEFINE P == SubSeq(t, 1, m)
           v == SubSeq(t, 1, n)
<1>1. /\ Len(t) \in Nat /\ m \in 0 .. Len(t) /\ m \in Nat /\ n \in Nat /\ i \in Nat
      /\ i \in 0 .. Len(t) /\ i \in 0 .. n
  OBVIOUS
<1>2. P \in Seq(Token) /\ Len(P) = m /\ \A j \in 1 .. m : P[j] = t[j]
  BY <1>1, TakeLemma
<1>3. v \in Seq(Token) /\ Len(v) = n /\ v[i] = t[i]
  BY TakeLemma
<1>4. SubSeq(v, 1, i) = SubSeq(t, 1, i)
  BY <1>1, PrefixOfPrefix
<1>5. P \in Prompts
  OBVIOUS
<1> HIDE DEF P, v
<1>6. ASSUME t[i] = ImageToken, i <= m PROVE Placeholder(v, i)
  <2>1. i \in 0 .. m
    BY <1>1, <1>6
  <2>2. SubSeq(P, 1, i) = SubSeq(t, 1, i)
    BY <1>1, <2>1, PrefixOfPrefix DEF P
  <2> QED BY <1>2, <1>3, <1>4, <1>5, <1>6, <2>2 DEF Placeholder
<1>7. ASSUME Placeholder(v, i) PROVE t[i] = ImageToken /\ i <= m
  <2>1. t[i] = ImageToken
    BY <1>3, <1>7 DEF Placeholder
  <2>2. PICK p \in Prompts : i <= Len(p) /\ SubSeq(p, 1, i) = SubSeq(t, 1, i)
    BY <1>4, <1>7 DEF Placeholder
  <2>3. p \in Seq(Token) /\ Len(p) \in Nat
    BY PromptLemma
  <2>4. i \in 0 .. Len(p)
    BY <1>1, <2>2, <2>3
  <2>5. p[i] = t[i]
    <3>1. SubSeq(p, 1, i)[i] = p[i]
      BY <1>1, <2>3, <2>4, TakeLemma
    <3>2. SubSeq(t, 1, i)[i] = t[i]
      BY <1>1, TakeLemma
    <3> QED BY <2>2, <3>1, <3>2
  <2>6. ASSUME i > m PROVE FALSE
    <3>1. m \in 0 .. i
      BY <1>1, <2>6
    <3>2. SubSeq(SubSeq(p, 1, i), 1, m) = SubSeq(p, 1, m)
      BY <2>3, <2>4, <3>1, PrefixOfPrefix
    <3>3. SubSeq(SubSeq(t, 1, i), 1, m) = SubSeq(t, 1, m)
      BY <1>1, <3>1, PrefixOfPrefix
    <3>4. SubSeq(p, 1, Len(P)) = P
      BY <1>2, <2>2, <3>2, <3>3 DEF P
    <3>5. i \in Len(P) + 1 .. Len(p)
      BY <1>1, <1>2, <2>2, <2>3, <2>6
    <3> QED BY <1>5, <2>1, <2>5, <3>4, <3>5 DEF TokensTellRows
  <2> QED BY <1>1, <2>1, <2>6
<1> QED BY <1>6, <1>7 DEF v

\* What is known of a request that was submitted, and of its prompt.
LEMMA PromptKnown ==
  ASSUME SchedInv, GenerationInv, RowsInv, NEW r \in Request, status[r] # "NONE"
  PROVE  /\ tokens[r] \in Seq(Token) /\ Len(tokens[r]) \in Nat \ {0}
         /\ info[r].promptLen \in 1 .. Len(tokens[r])
         /\ Prompt(r) \in Prompts /\ Prompt(r) \in Seq(Token)
         /\ Len(Prompt(r)) = info[r].promptLen
         /\ \A i \in 1 .. info[r].promptLen : Prompt(r)[i] = tokens[r][i]
<1> DEFINE m == info[r].promptLen
<1>1. tokens[r] \in Seq(Token) /\ Len(tokens[r]) \in Nat
  BY SchedulerTypesLemma DEF SchedInv
<1>2. m \in 1 .. Len(tokens[r])
  BY DEF GenerationInv
<1>3. Prompt(r) = SubSeq(tokens[r], 1, m)
  BY DEF Prompt
<1> HIDE DEF m
<1>4. m \in 0 .. Len(tokens[r]) /\ Len(tokens[r]) # 0
  BY <1>1, <1>2
<1>5. Prompt(r) \in Seq(Token) /\ Len(Prompt(r)) = m /\ \A i \in 1 .. m : Prompt(r)[i] = tokens[r][i]
  BY <1>1, <1>3, <1>4, TakeLemma
<1>6. Prompt(r) \in Prompts
  BY DEF RowsInv
<1> QED BY <1>1, <1>2, <1>4, <1>5, <1>6 DEF m

\* A request's own row at one of its tokens: its image at a placeholder of its
\* prompt, which is the only image there is.
LEMMA OwnRowLemma ==
  ASSUME TokensTellRows, SchedInv, GenerationInv, EngineTypeOK, RowsInv, NEW r \in Request,
         status[r] # "NONE", NEW i \in 1 .. Len(tokens[r])
  PROVE  OwnRow(r, i) = IF tokens[r][i] = ImageToken /\ i <= info[r].promptLen
                        THEN TheImage ELSE tokens[r][i]
<1>1. CASE tokens[r][i] = ImageToken /\ i <= info[r].promptLen
  <2>1. ImageToken \in Range(Prompt(r)) /\ Prompt(r) \in Prompts
    <3>1. i \in 1 .. Len(Prompt(r))
      BY <1>1, PromptKnown
    <3> QED BY <1>1, <3>1, PromptKnown, RangeOfSequence
  <2>2. image[r] # NoImage
    BY <2>1 DEF RowsInv
  <2>3. image[r] \in Image
    BY <2>2 DEF EngineTypeOK
  <2>4. PICK im \in Image : Image = {im}
    BY <2>1 DEF TokensTellRows, TextOnly
  <2>5. TheImage \in Image
    BY <2>4 DEF TheImage
  <2>6. TheImage = image[r]
    BY <2>3, <2>4, <2>5
  <2> QED BY <1>1, <2>2, <2>6 DEF OwnRow
<1>2. CASE ~(tokens[r][i] = ImageToken /\ i <= info[r].promptLen)
  BY <1>2 DEF OwnRow
<1> QED BY <1>1, <1>2

\* The rows that the tokens up to a position tell.
LEMMA RowsOfRequest ==
  ASSUME TokensTellRows, SchedInv, GenerationInv, EngineTypeOK, RowsInv, NEW r \in Request,
         status[r] # "NONE", NEW n \in 0 .. Len(tokens[r])
  PROVE  RowsOf(SubSeq(tokens[r], 1, n)) = OwnRows(r, n)
<1> DEFINE t == tokens[r]
           m == info[r].promptLen
           v == SubSeq(t, 1, n)
<1>1. t \in Seq(Token) /\ Len(t) \in Nat /\ m \in 1 .. Len(t) /\ SubSeq(t, 1, m) \in Prompts
  BY PromptKnown DEF Prompt
<1>2. n \in 0 .. Len(t) /\ v \in Seq(Token) /\ Len(v) = n /\ \A i \in 1 .. n : v[i] = t[i]
  <2>1. n \in 0 .. Len(t)
    OBVIOUS
  <2> HIDE DEF t
  <2> QED BY <1>1, <2>1, TakeLemma
<1>3. \A i \in 1 .. n : OwnRow(r, i) = IF t[i] = ImageToken /\ i <= m THEN TheImage ELSE t[i]
  <2>1. \A i \in 1 .. n : i \in 1 .. Len(tokens[r])
    BY <1>1
  <2> QED BY <2>1, OwnRowLemma
<1> HIDE DEF t, m
<1>4. \A i \in 1 .. n : Placeholder(v, i) <=> t[i] = ImageToken /\ i <= m
  BY <1>1, <1>2, OwnPlaceholders
<1> HIDE DEF v
<1>5. DOMAIN v = 1 .. n
  BY <1>2
<1>6. \A i \in 1 .. n : (IF Placeholder(v, i) THEN TheImage ELSE v[i]) = OwnRow(r, i)
  BY <1>2, <1>3, <1>4
<1>7. RowsOf(v) = [i \in 1 .. n |-> OwnRow(r, i)]
  BY <1>5, <1>6, Zenon DEF RowsOf
<1> QED BY <1>7 DEF OwnRows, v, t

\* The token fed last is text.
LEMMA LastRow ==
  ASSUME TokensTellRows, SchedInv, GenerationInv, RowsInv, NEW r \in Request, status[r] # "NONE"
  PROVE  OwnRow(r, Len(tokens[r])) = tokens[r][Len(tokens[r])]
<1> DEFINE n == Len(tokens[r])
<1>1. ASSUME n <= info[r].promptLen PROVE tokens[r][n] # ImageToken
  <2>1. n = info[r].promptLen /\ n \in 1 .. info[r].promptLen
    BY <1>1, PromptKnown
  <2>2. Prompt(r)[n] = tokens[r][n] /\ Prompt(r)[n] = Prompt(r)[Len(Prompt(r))]
    BY <2>1, PromptKnown
  <2>3. Prompt(r) \in Prompts
    BY PromptKnown
  <2> QED BY <2>2, <2>3 DEF TokensTellRows
<1> QED BY <1>1 DEF OwnRow

\* Whoever has an entry was submitted, and has its rows until it is executed.
LEMMA EntrySubmitted ==
  ASSUME SchedInv, RunnerInv, RowsInv, NEW s \in Entries
  PROVE  /\ s.id \in Request /\ status[s.id] # "NONE"
         /\ IsLive(s.id) \/ s.id \in newlyFinished
<1>1. PICK i \in 1 .. Len(scheduled) : s = scheduled[i]
  <2>1. scheduled \in Seq(ScheduledRequest)
    BY SchedulerTypesLemma DEF SchedInv
  <2> QED BY <2>1, RangeOfSequence DEF Entries
<1>2. s.id \in Request
  BY <1>1, EntryType DEF SchedInv
<1>3. IsLive(s.id) \/ s.id \in newlyFinished
  BY <1>1 DEF RunnerInv, NoticesInv
<1> QED BY <1>2, <1>3 DEF RowsInv, IsLive, QueuedStatus

\* Fed eagerly, a chunk sees its request's own rows.
LEMMA EagerRow ==
  ASSUME SchedInv, GenerationInv, EngineTypeOK, RunnerInv, RowsInv, phase = "scheduled",
         NEW s \in Entries, NEW i \in 1 .. Len(tokens[s.id])
  PROVE  FedEagerly(s, i) = OwnRow(s.id, i)
<1>1. PICK r \in Request : r = s.id
  BY EntrySubmitted
<1>2. status[r] # "NONE" /\ (IsLive(r) \/ r \in newlyFinished)
  BY <1>1, EntrySubmitted
<1>3. CASE image[r] = NoImage
  <2>1. embeds[r] = NoEmbeds \/ r \in finishedIds
    BY <1>3 DEF RowsInv
  <2>2. EmbedsKept(r) = << >>
    BY <2>1 DEF EmbedsKept, EmbedsDropped, NoEmbeds
  <2>3. ~(i <= Len(EmbedsKept(r)))
    <3>1. i \in Nat \ {0}
      BY <1>1, <1>2, PromptKnown
    <3> QED BY <2>2, <3>1
  <2> QED BY <1>1, <1>3, <2>3 DEF FedEagerly, OwnRow
<1>4. CASE image[r] # NoImage
  <2> DEFINE P == Prompt(r)
             m == info[r].promptLen
             rows == Splice(P, image[r])
  <2>1. /\ P \in Seq(Token) /\ Len(P) = m /\ m \in Nat
        /\ \A j \in 1 .. m : P[j] = tokens[r][j]
    BY <1>2, PromptKnown
  <2>2. EmbedsKept(r) = rows
    BY <1>2, <1>4 DEF RowsInv, EmbedsKept, EmbedsDropped
  <2>3. image[r] \in Image
    BY <1>4 DEF EngineTypeOK
  <2> HIDE DEF P, m
  <2>4. DOMAIN P = 1 .. m /\ \A j \in 1 .. m : P[j] \in Token
    BY <2>1
  <2>5. rows = [j \in 1 .. m |-> IF P[j] = ImageToken THEN image[r] ELSE P[j]]
    BY <2>4 DEF Splice
  <2> HIDE DEF rows
  <2>6. Len(rows) = m
    <3>1. rows \in [1 .. m -> Row]
      BY <2>3, <2>4, <2>5 DEF Row
    <3> QED BY <2>1, <3>1, RowsAreSequence
  <2>7. i \in Nat \ {0}
    BY <1>1, <1>2, PromptKnown
  <2>8. CASE i <= m
    <3>1. i \in 1 .. m
      BY <2>1, <2>7, <2>8
    <3>2. FedEagerly(s, i) = rows[i]
      BY <1>1, <2>2, <2>6, <2>8 DEF FedEagerly
    <3> QED BY <1>1, <1>4, <2>1, <2>5, <2>8, <3>1, <3>2 DEF OwnRow, m
  <2>9. CASE ~(i <= m)
    BY <1>1, <2>2, <2>6, <2>9 DEF FedEagerly, OwnRow, m
  <2> QED BY <2>8, <2>9
<1> QED BY <1>3, <1>4

\* What an entry writes is its own prefix, in a graph replay, which is fed the last
\* token alone, or not.
LEMMA WrittenIsPrefix ==
  ASSUME TokensTellRows, SchedInv, LayoutInv, GenerationInv, EngineTypeOK, RunnerInv, RowsInv,
         phase = "scheduled", NEW s \in Entries, NEW b, NEW o, Writes(s, b, o),
         NEW graph \in BOOLEAN, graph => PureDecode
  PROVE  \E pos \in Nat : /\ WritesAt(s, pos, b, o)
                          /\ WrittenPrefix(s, b, o, graph) = RowsOf(Prefix(s.id, pos))
<1> DEFINE pos == CHOOSE p \in s.start .. s.start + s.num - 1 :
                     BlockAt(s.blocks, p) = b /\ p % BlockSize = o
<1>1. /\ s.id \in Request /\ s.start \in Nat /\ s.num \in Nat
      /\ s.start + s.num <= Len(tokens[s.id]) /\ Len(tokens[s.id]) \in Nat
      /\ s.doSample => s.start + s.num = Len(tokens[s.id])
  BY EntryWithinTokens DEF Updating
<1>2. /\ pos \in s.start .. s.start + s.num - 1
      /\ BlockAt(s.blocks, pos) = b /\ pos % BlockSize = o
  BY DEF Writes
<1>3. WrittenPrefix(s, b, o, graph) =
         [i \in 1 .. pos + 1 |-> IF i <= s.start THEN OwnRow(s.id, i) ELSE Fed(s, i, graph)]
  BY DEF WrittenPrefix
<1> HIDE DEF pos
<1>4. pos \in Nat /\ pos + 1 \in 0 .. Len(tokens[s.id])
  BY <1>1, <1>2
<1>5. \A i \in 1 .. pos + 1 : i \in 1 .. Len(tokens[s.id]) /\ i \in Nat
  BY <1>1, <1>4
<1>6. status[s.id] # "NONE"
  BY EntrySubmitted
<1>7. \A i \in 1 .. pos + 1 : ~(i <= s.start) => Fed(s, i, graph) = OwnRow(s.id, i)
  <2>1. CASE ~graph
    <3>1. \A i : Fed(s, i, graph) = FedEagerly(s, i)
      BY <2>1 DEF Fed
    <3> QED BY <1>5, <3>1, EagerRow
  <2>2. CASE graph
    <3>1. s.doSample /\ s.num = 1
      BY <2>2 DEF PureDecode
    <3>2. \A i \in 1 .. pos + 1 : ~(i <= s.start) => i = Len(tokens[s.id])
      BY <1>1, <1>2, <1>5, <3>1
    <3>3. \A i : Fed(s, i, graph) = tokens[s.id][i]
      BY <2>2 DEF Fed
    <3>4. OwnRow(s.id, Len(tokens[s.id])) = tokens[s.id][Len(tokens[s.id])]
      BY <1>1, <1>6, LastRow
    <3> QED BY <3>2, <3>3, <3>4
  <2> QED BY <2>1, <2>2
<1>8. WrittenPrefix(s, b, o, graph) = OwnRows(s.id, pos + 1)
  BY <1>3, <1>7 DEF OwnRows
<1>9. RowsOf(Prefix(s.id, pos)) = OwnRows(s.id, pos + 1)
  BY <1>1, <1>4, <1>6, RowsOfRequest DEF Prefix
<1> QED BY <1>2, <1>4, <1>8, <1>9 DEF WritesAt

\* Executed, the step leaves in the memory what was promised.
LEMMA ExecuteWrites ==
  ASSUME TokensTellRows, SchedInv, LayoutInv, GenerationInv, EngineTypeOK, RunnerInv, RowsInv,
         phase = "scheduled", Execute,
         NEW b \in Block, NEW o \in 0 .. BlockSize - 1, NEW v, WillHold(b, o, v)
  PROVE  kv'[b][o] = RowsOf(v)
<1>1. PICK graph \in BOOLEAN :
         /\ graph => PureDecode
         /\ kv' = [c \in Block |-> [p \in 0 .. BlockSize - 1 |->
                  IF \E s \in Entries : Writes(s, c, p)
                  THEN LET s == CHOOSE s \in Entries : Writes(s, c, p)
                       IN  WrittenPrefix(s, c, p, graph)
                  ELSE kv[c][p]]]
  <2>1. \A graph \in {FALSE} \cup {PureDecode} : graph \in BOOLEAN /\ (graph => PureDecode)
    BY DEF PureDecode
  <2> QED BY <2>1 DEF Execute
<1>2. \A s : s \in Entries <=> \E i \in 1 .. Len(scheduled) : s = scheduled[i]
  <2>1. scheduled \in Seq(ScheduledRequest)
    BY SchedulerTypesLemma DEF SchedInv
  <2> QED BY <2>1, RangeOfSequence DEF Entries
<1>3. CASE \E s \in Entries : Writes(s, b, o)
  <2> DEFINE s == CHOOSE s \in Entries : Writes(s, b, o)
  <2>1. s \in Entries /\ Writes(s, b, o)
    BY <1>3
  <2>2. kv'[b][o] = WrittenPrefix(s, b, o, graph)
    BY <1>1, <1>3
  <2> HIDE DEF s
  <2>3. PICK pos \in Nat : /\ WritesAt(s, pos, b, o)
                           /\ WrittenPrefix(s, b, o, graph) = RowsOf(Prefix(s.id, pos))
    BY <1>1, <2>1, WrittenIsPrefix
  <2>4. v = Prefix(s.id, pos)
    BY <1>2, <2>1, <2>3 DEF WillHold, Updating
  <2> QED BY <2>2, <2>3, <2>4
<1>4. CASE ~ \E s \in Entries : Writes(s, b, o)
  <2>1. kv'[b][o] = kv[b][o]
    BY <1>1, <1>4
  <2>2. \A i \in 1 .. Len(scheduled) : ~Writes(scheduled[i], b, o)
    BY <1>2, <1>4
  <2> QED BY <2>1, <2>2 DEF WillHold
<1> QED BY <1>3, <1>4

\* So the promise is kept.
LEMMA ExecuteMemory ==
  ASSUME TokensTellRows, SchedInv, LayoutInv, GenerationInv, EngineTypeOK, RunnerInv, RowsInv,
         MemoryInv, ExecuteStep
  PROVE  MemoryInv'
<1>1. /\ phase = "scheduled" /\ phase' = "update"
      /\ phase \notin Updating /\ phase' \in Updating
      /\ UNCHANGED <<tokens, table, cached, status, computed, scheduled>>
  BY DEF ExecuteStep, StartUpdate, Updating, poolVars, kvVars, requestVars
<1>2. (scheduled = << >> /\ UNCHANGED runnerVars) \/ Execute
  BY DEF ExecuteStep
<1>4. ASSUME NEW b \in Block, NEW o \in 0 .. BlockSize - 1, NEW v, WillHold(b, o, v)
      PROVE  WillHold(b, o, v)'
  <2>1. kv'[b][o] = RowsOf(v)
    <3>1. CASE scheduled = << >> /\ UNCHANGED runnerVars
      BY <1>4, <3>1 DEF WillHold, runnerVars
    <3>2. CASE Execute
      BY <1>1, <1>4, <3>2, ExecuteWrites
    <3> QED BY <1>2, <3>1, <3>2
  <2> QED BY <1>1, <2>1 DEF WillHold
<1>5. ASSUME NEW t \in Seq(Block), NEW n \in Nat, n <= Len(t) * BlockSize, NEW pos \in 0 .. n - 1
      PROVE  BlockAt(t, pos) \in Block /\ pos % BlockSize \in 0 .. BlockSize - 1
  <2>1. Len(t) * BlockSize \in Nat
    <3>1. Len(t) \in Nat
      OBVIOUS
    <3> QED BY <3>1, BlocksMonotone, BlockSizeAssumption
  <2>2. pos \in Nat /\ pos < Len(t) * BlockSize
    BY <1>5, <2>1
  <2> QED BY <2>2, BlockInTable
<1>6. LabelsInMemory'
  <2> SUFFICES ASSUME NEW h \in Hash, cached[h] # NoBlock, NEW o \in 0 .. BlockSize - 1
               PROVE  WillHold(cached[h], o, SubSeq(h, 1, Len(h) - BlockSize + o + 1))'
    BY <1>1 DEF LabelsInMemory
  <2>1. WillHold(cached[h], o, SubSeq(h, 1, Len(h) - BlockSize + o + 1)) /\ cached[h] \in Block
    BY DEF MemoryInv, LabelsInMemory, SchedInv, KVInv, PoolInv, PoolTypeOK
  <2> QED BY <1>1, <1>4, <2>1
<1>7. RunningInMemory'
  <2> SUFFICES ASSUME NEW r \in Request, status[r] = "RUNNING", NEW pos \in 0 .. computed[r] - 1
               PROVE  WillHold(BlockAt(table[r], pos), pos % BlockSize, Prefix(r, pos))'
    BY <1>1 DEF RunningInMemory
  <2>1. WillHold(BlockAt(table[r], pos), pos % BlockSize, Prefix(r, pos))
    BY DEF MemoryInv, RunningInMemory
  <2>2. table[r] \in Seq(Block) /\ computed[r] \in Nat
    BY SchedulerTypesLemma DEF SchedInv
  <2>3. computed[r] <= Len(table[r]) * BlockSize
    BY DEF LayoutInv, TablesCover
  <2>4. BlockAt(table[r], pos) \in Block /\ pos % BlockSize \in 0 .. BlockSize - 1
    BY <1>5, <2>2, <2>3
  <2> QED BY <1>1, <1>4, <2>1, <2>4 DEF BlockAt, Prefix
<1>8. EntriesInMemory'
  <2> SUFFICES ASSUME NEW i \in 1 .. Len(scheduled),
                      NEW pos \in 0 .. scheduled[i].start + scheduled[i].num - 1
               PROVE  WillHold(BlockAt(scheduled[i].blocks, pos), pos % BlockSize,
                               Prefix(scheduled[i].id, pos))'
    BY <1>1 DEF EntriesInMemory
  <2>1. Unprocessed(i)
    BY <1>1 DEF Unprocessed
  <2>2. WillHold(BlockAt(scheduled[i].blocks, pos), pos % BlockSize, Prefix(scheduled[i].id, pos))
    BY <2>1 DEF MemoryInv, EntriesInMemory
  <2>3. /\ scheduled[i].blocks \in Seq(Block)
        /\ scheduled[i].start \in Nat /\ scheduled[i].num \in Nat
    BY EntryType DEF SchedInv
  <2>4. scheduled[i].start + scheduled[i].num <= Len(scheduled[i].blocks) * BlockSize
    BY DEF LayoutInv, EntriesShape
  <2>5. BlockAt(scheduled[i].blocks, pos) \in Block /\ pos % BlockSize \in 0 .. BlockSize - 1
    <3>1. scheduled[i].start + scheduled[i].num \in Nat
      BY <2>3, SMTT(40)
    <3> QED BY <1>5, <2>3, <2>4, <3>1, SMTT(40)
  <2> QED BY <1>1, <1>4, <2>2, <2>5 DEF BlockAt, Prefix
<1> QED BY <1>6, <1>7, <1>8 DEF MemoryInv

\* What an update counts as computed is what the step has written.
LEMMA AdvanceMemory ==
  ASSUME SchedInv, MemoryInv, UpdateChunk \/ UpdateSampled, UNCHANGED runnerVars
  PROVE  MemoryInv'
<1> DEFINE s == scheduled[idx]
<1>1. /\ phase \in Updating /\ phase' \in Updating /\ phase = "update" /\ UpdateTurn /\ IsLive(s.id)
      /\ computed' = [computed EXCEPT ![s.id] = @ + s.num]
      /\ UNCHANGED <<status, table, cached, scheduled>>
      /\ phase' = "update" => idx' = idx + 1
      /\ phase' = "check" => idx' = idx
      /\ phase' \in {"update", "check"}
      /\ tokens' = tokens \/ \E t \in Token : tokens' = [tokens EXCEPT ![s.id] = Append(@, t)]
      /\ UNCHANGED kv
  <2>1. CASE UpdateChunk
    BY <2>1, SMTT(40) DEF UpdateChunk, UpdateTurn, Advance, poolVars, kvVars, Updating, runnerVars
  <2>2. CASE UpdateSampled
    BY <2>2 DEF UpdateSampled, UpdateTurn, Advance, AppendToken, Updating, poolVars, runnerVars
  <2> QED BY <2>1, <2>2
<1>2. /\ idx \in 1 .. Len(scheduled) /\ s.id \in Request /\ s.num \in Nat /\ status[s.id] = "RUNNING"
      /\ Executable(s)
      /\ \A i \in 1 .. Len(scheduled) : i # idx => scheduled[i].id # s.id
  BY <1>1, UpdateTurnLemma
<1>3. PICK r \in Request : r = s.id
  BY <1>2
<1>4. /\ s.start = computed[r] /\ s.blocks = table[r] /\ s.start + s.num <= Len(tokens[r])
  BY <1>2, <1>3 DEF Executable, NumTokens
<1>5. /\ computed \in [Request -> Nat] /\ tokens \in [Request -> Seq(Token)] /\ idx \in Nat
      /\ \A q \in Request : Len(tokens[q]) \in Nat
  BY SchedulerTypesLemma DEF SchedInv
<1>6. \A i \in 1 .. Len(scheduled) : Unprocessed(i)' => Unprocessed(i) /\ i # idx
  BY <1>1, <1>5 DEF Unprocessed
<1>7. Unprocessed(idx)
  BY <1>1, <1>5 DEF Unprocessed
<1>8. /\ computed'[r] = s.start + s.num
      /\ \A q \in Request \ {r} : computed'[q] = computed[q] /\ tokens'[q] = tokens[q]
  BY <1>1, <1>2, <1>3, <1>4, <1>5
<1>9. ASSUME NEW pos \in 0 .. s.start + s.num - 1 PROVE Prefix(r, pos)' = Prefix(r, pos)
  <2>1. pos + 1 \in 0 .. Len(tokens[r])
    <3>1. s.start \in Nat
      BY <1>4, <1>5
    <3> QED BY <1>2, <1>4, <1>5, <3>1
  <2>2. ASSUME NEW t \in Token, tokens' = [tokens EXCEPT ![r] = Append(@, t)]
        PROVE  SubSeq(tokens'[r], 1, pos + 1) = SubSeq(tokens[r], 1, pos + 1)
    <3>1. tokens'[r] = Append(tokens[r], t) /\ tokens[r] \in Seq(Token)
      BY <1>5, <2>2
    <3> QED BY <2>1, <3>1, PrefixOfAppend
  <2> QED BY <1>1, <1>3, <2>2 DEF Prefix
<1>10. \A b, o, v : WillHold(b, o, v) => WillHold(b, o, v)'
  BY <1>1, WillHoldFrame
<1> HIDE DEF s
<1>11. LabelsInMemory'
  BY <1>1, <1>10 DEF MemoryInv, LabelsInMemory
<1>12. RunningInMemory'
  <2> SUFFICES ASSUME NEW q \in Request, status[q] = "RUNNING", NEW pos \in 0 .. computed'[q] - 1
               PROVE  WillHold(BlockAt(table[q], pos), pos % BlockSize, Prefix(q, pos))'
    BY <1>1 DEF RunningInMemory
  <2>1. CASE q # r
    <3>1. computed'[q] = computed[q] /\ tokens'[q] = tokens[q]
      BY <1>8, <2>1
    <3>2. WillHold(BlockAt(table[q], pos), pos % BlockSize, Prefix(q, pos))
      BY <3>1 DEF MemoryInv, RunningInMemory
    <3> QED BY <1>1, <1>10, <3>1, <3>2 DEF BlockAt, Prefix
  <2>2. CASE q = r
    <3>1. pos \in 0 .. s.start + s.num - 1
      <4>1. computed'[q] = s.start + s.num /\ s.start \in Nat /\ s.num \in Nat
        BY <1>2, <1>4, <1>5, <1>8, <2>2 DEF s
      <4> QED BY <4>1
    <3>2. WillHold(BlockAt(table[r], pos), pos % BlockSize, Prefix(r, pos))
      BY <1>2, <1>3, <1>4, <1>7, <3>1 DEF MemoryInv, EntriesInMemory, s
    <3>3. Prefix(r, pos)' = Prefix(r, pos)
      BY <1>9, <3>1
    <3> QED BY <1>1, <1>10, <2>2, <3>2, <3>3 DEF BlockAt
  <2> QED BY <2>1, <2>2
<1>13. EntriesInMemory'
  <2> SUFFICES ASSUME NEW i \in 1 .. Len(scheduled), Unprocessed(i)',
                      NEW pos \in 0 .. scheduled[i].start + scheduled[i].num - 1
               PROVE  WillHold(BlockAt(scheduled[i].blocks, pos), pos % BlockSize,
                               Prefix(scheduled[i].id, pos))'
    BY <1>1 DEF EntriesInMemory
  <2>1. WillHold(BlockAt(scheduled[i].blocks, pos), pos % BlockSize, Prefix(scheduled[i].id, pos))
    BY <1>6 DEF MemoryInv, EntriesInMemory
  <2>2. tokens'[scheduled[i].id] = tokens[scheduled[i].id]
    <3>1. scheduled[i].id \in Request \ {r}
      BY <1>2, <1>3, <1>6, EntryType DEF SchedInv
    <3> QED BY <1>8, <3>1
  <2> QED BY <1>1, <1>10, <2>1, <2>2 DEF BlockAt, Prefix
<1> QED BY <1>11, <1>12, <1>13 DEF MemoryInv

\* A block is labelled with what it holds, or will hold by the end of the step.
LEMMA RegisterMemory ==
  ASSUME SchedInv, SchedInv', LayoutInv, MemoryInv, NEW r \in Request, RegisterBlock(r),
         UNCHANGED <<requestVars, stepVars, runnerVars>>
  PROVE  MemoryInv'
<1> DEFINE n == hashed[r]
           b == table[r][n + 1]
           h == PrefixHash(r, n + 1)
<1>1. /\ unhashed[r] > 0 /\ CacheBlock(b, h)
      /\ UNCHANGED <<tokens, table, status, computed, scheduled, phase, idx, kv>>
  BY DEF RegisterBlock, requestVars, stepVars, runnerVars
<1>2. /\ KVInv /\ n \in Nat /\ unhashed[r] \in Nat /\ table[r] \in Seq(Block)
      /\ Len(table[r]) \in Nat
  <2>1. KVInv
    BY DEF SchedInv
  <2>2. n \in Nat /\ unhashed[r] \in Nat /\ table[r] \in Seq(Block)
    BY <2>1, KVTypes
  <2> QED BY <2>1, <2>2
<1>3. /\ n + 1 \in 1 .. Len(table[r]) /\ (n + 1) * BlockSize <= Len(tokens[r])
      /\ h \in Hash /\ h = BlockPrefix(r, n + 1)
  BY <1>1, <1>2, NextToRegister
<1> HIDE DEF h, n
<1>4. status[r] = "RUNNING"
  <2>1. table[r] # << >>
    BY <1>2, <1>3
  <2> QED BY <2>1 DEF SchedInv, RequestsInv
<1>5. ASSUME NEW o \in 0 .. BlockSize - 1
      PROVE  WillHold(b, o, SubSeq(h, 1, Len(h) - BlockSize + o + 1))
  <2> DEFINE pos == n * BlockSize + o
  <2>1. /\ pos \in Nat /\ pos < (n + 1) * BlockSize
        /\ pos \div BlockSize = n /\ pos % BlockSize = o
    BY <1>2, SlotOfBlock
  <2>2. SubSeq(h, 1, Len(h) - BlockSize + o + 1) = Prefix(r, pos)
    BY <1>2, <1>3, LabelledPrefix
  <2> HIDE DEF pos
  <2>3. BlockAt(table[r], pos) = b
    BY <2>1 DEF BlockAt
  <2>4. Covered(r, (hashed[r] + unhashed[r]) * BlockSize)
    BY <1>4 DEF LayoutInv, HashedIsComputed
  <2>5. pos < (hashed[r] + unhashed[r]) * BlockSize /\ (hashed[r] + unhashed[r]) * BlockSize \in Nat
    <3>1. n + 1 \in Nat /\ hashed[r] + unhashed[r] \in Nat /\ n + 1 <= hashed[r] + unhashed[r]
      BY <1>1, <1>2 DEF n
    <3>2. /\ (n + 1) * BlockSize <= (hashed[r] + unhashed[r]) * BlockSize
          /\ (n + 1) * BlockSize \in Nat /\ (hashed[r] + unhashed[r]) * BlockSize \in Nat
      BY <3>1, BlocksMonotone, BlockSizeAssumption
    <3> QED BY <2>1, <3>2
  <2>6. WillHold(BlockAt(table[r], pos), pos % BlockSize, Prefix(r, pos))
    <3>1. computed[r] \in Nat
      BY SchedulerTypesLemma DEF SchedInv
    <3>2. CASE (hashed[r] + unhashed[r]) * BlockSize <= computed[r]
      <4>1. pos \in 0 .. computed[r] - 1
        BY <2>1, <2>5, <3>1, <3>2
      <4> QED BY <1>4, <4>1 DEF MemoryInv, RunningInMemory
    <3>3. ASSUME NEW i \in 1 .. Len(scheduled), Unprocessed(i), scheduled[i].id = r,
                 (hashed[r] + unhashed[r]) * BlockSize <= scheduled[i].start + scheduled[i].num
          PROVE  WillHold(BlockAt(table[r], pos), pos % BlockSize, Prefix(r, pos))
      <4>1. scheduled[i].blocks = table[r]
        BY <1>4, <3>3 DEF SchedInv, EntriesExecutable, Executable
      <4>2. scheduled[i].start \in Nat /\ scheduled[i].num \in Nat
        BY EntryType DEF SchedInv
      <4>3. pos \in 0 .. scheduled[i].start + scheduled[i].num - 1
        BY <2>1, <2>5, <3>3, <4>2, SMTT(40)
      <4>4. WillHold(BlockAt(scheduled[i].blocks, pos), pos % BlockSize, Prefix(scheduled[i].id, pos))
        BY <3>3, <4>3 DEF MemoryInv, EntriesInMemory
      <4> QED BY <3>3, <4>1, <4>4
    <3> QED BY <2>4, <3>2, <3>3 DEF Covered
  <2> QED BY <2>1, <2>2, <2>3, <2>6
<1>6. \A c, o, v : WillHold(c, o, v) => WillHold(c, o, v)'
  BY <1>1, WillHoldFrame
<1>7. \A i \in 1 .. Len(scheduled) : Unprocessed(i)' <=> Unprocessed(i)
  BY <1>1 DEF Unprocessed
<1>8. LabelsInMemory'
  <2> SUFFICES ASSUME NEW g \in Hash, cached'[g] # NoBlock, NEW o \in 0 .. BlockSize - 1
               PROVE  WillHold(cached[g], o, SubSeq(g, 1, Len(g) - BlockSize + o + 1))'
    BY DEF LabelsInMemory
  <2>1. cached'[g] = cached[g] \/ (g = h /\ cached'[g] = b)
    <3>1. cached \in [Hash -> Block \cup {NoBlock}]
      BY <1>2 DEF KVInv, PoolInv, PoolTypeOK
    <3> QED BY <1>1, <1>3, <3>1 DEF CacheBlock
  <2> HIDE DEF b
  <2>2. WillHold(cached'[g], o, SubSeq(g, 1, Len(g) - BlockSize + o + 1))
    BY <1>5, <2>1 DEF MemoryInv, LabelsInMemory
  <2> QED BY <1>6, <2>2
<1>9. RunningInMemory'
  BY <1>1, <1>6 DEF MemoryInv, RunningInMemory, BlockAt, Prefix
<1>10. EntriesInMemory'
  BY <1>1, <1>6, <1>7 DEF MemoryInv, EntriesInMemory, BlockAt, Prefix
<1> QED BY <1>8, <1>9, <1>10 DEF MemoryInv

\* The step over, what was promised is there.
LEMMA EndMemory ==
  ASSUME SchedInv, MemoryInv, EndStep, UNCHANGED runnerVars
  PROVE  MemoryInv'
<1>1. /\ phase = "update" /\ scheduled' = << >>
      /\ UNCHANGED <<tokens, table, cached, status, computed, kv>>
  BY DEF EndStep, poolVars, kvVars, requestVars, runnerVars
<1>2. \A b, o, v : WillHold(b, o, v) => WillHold(b, o, v)'
  BY <1>1 DEF WillHold, Updating
<1>3. LabelsInMemory'
  BY <1>1, <1>2 DEF MemoryInv, LabelsInMemory
<1>4. RunningInMemory'
  BY <1>1, <1>2 DEF MemoryInv, RunningInMemory, BlockAt, Prefix
<1>5. EntriesInMemory'
  BY <1>1 DEF EntriesInMemory
<1> QED BY <1>3, <1>4, <1>5 DEF MemoryInv

\* Every other step leaves alone the memory, what is scheduled and, but for a
\* label that is dropped, what is promised.
LEMMA MemoryNext ==
  TokensTellRows /\ SchedInv /\ SchedInv' /\ LayoutInv /\ LayoutInv' /\ GenerationInv
     /\ EngineTypeOK /\ RunnerInv /\ RowsInv /\ MemoryInv /\ [EngineModelNext]_engineVars
  => MemoryInv'
<1> SUFFICES ASSUME TokensTellRows, SchedInv, SchedInv', LayoutInv, LayoutInv', GenerationInv,
                    EngineTypeOK, RunnerInv, RowsInv, MemoryInv, [EngineModelNext]_engineVars
             PROVE  MemoryInv'
  OBVIOUS
<1>0. /\ status \in [Request -> Status] /\ computed \in [Request -> Nat]
      /\ table \in [Request -> Seq(Block)] /\ tokens \in [Request -> Seq(Token)]
      /\ idx \in Nat /\ \A i \in 1 .. Len(scheduled) : scheduled[i].id \in Request
  BY SchedulerTypesLemma, EntryType DEF SchedInv
<1> DEFINE Quiet == /\ UNCHANGED <<kv, scheduled, cached>>
                    /\ \A i \in 1 .. Len(scheduled) : Unprocessed(i)' => Unprocessed(i)
                    /\ phase' \in Updating <=> phase \in Updating
<1>1. ASSUME Quiet, UNCHANGED tokens,
             \A r \in Request : status'[r] = "RUNNING" =>
                status[r] = "RUNNING" /\ computed'[r] = computed[r] /\ table'[r] = table[r]
      PROVE  MemoryInv'
  BY <1>1, MemoryFrame
<1>2. ASSUME UNCHANGED <<phase, idx>>
      PROVE  \A i \in 1 .. Len(scheduled) : Unprocessed(i)' => Unprocessed(i)
  BY <1>2 DEF Unprocessed
<1>3. ASSUME phase \notin Updating
      PROVE  \A i \in 1 .. Len(scheduled) : Unprocessed(i)
  BY <1>3 DEF Unprocessed, Updating
<1>4. ASSUME NEW v \in Request, Preempt(v), UNCHANGED runnerVars, phase \in {"priority", "running"},
             phase' \in {"priority", "running", "scheduled"}
      PROVE  MemoryInv'
  <2>1. /\ UNCHANGED <<kv, scheduled, cached, tokens>>
        /\ \A r \in Request \ {v} : status'[r] = status[r] /\ computed'[r] = computed[r]
                                    /\ table'[r] = table[r]
        /\ status'[v] = "PREEMPTED"
    BY <1>0, <1>4 DEF Preempt, FreeRequest, runnerVars, poolVars
  <2>2. phase \notin Updating /\ phase' \notin Updating
    BY <1>4 DEF Updating
  <2> QED BY <1>1, <1>3, <2>1, <2>2
<1>5. ASSUME PreemptForPriority, UNCHANGED runnerVars PROVE MemoryInv'
  BY <1>4, <1>5 DEF PreemptForPriority
<1>6. ASSUME PreemptForBlocks, UNCHANGED runnerVars PROVE MemoryInv'
  <2>1. Last(running) \in Request
    <3>1. running # << >> /\ running \in Seq(Request)
      BY <1>6, RunningTurnLemma, SchedulerTypesLemma DEF PreemptForBlocks, SchedInv
    <3> QED BY <3>1, FrontLemma
  <2> QED BY <1>4, <1>6, <2>1 DEF PreemptForBlocks, RunningTurn
<1>7. ASSUME \/ StartSchedule \/ PriorityDone \/ RunningDone \/ LookupPrefix \/ LookupDone
             \/ AdmitFails \/ WaitingDone,
             UNCHANGED runnerVars
      PROVE  MemoryInv'
  <2>1. /\ phase \notin Updating /\ phase' \notin Updating
        /\ UNCHANGED <<status, computed, scheduled, kv>>
    BY <1>7 DEF StartSchedule, PriorityDone, RunningDone, LookupPrefix, LookupDone, AdmitFails,
                WaitingDone, requestVars, stepVars, runnerVars, Updating
  <2>2. UNCHANGED <<tokens, table, cached>>
    BY <1>7 DEF StartSchedule, PriorityDone, RunningDone, LookupPrefix, LookupHit, GetCachedBlock,
                LookupDone, DropLastHit, Free, AdmitFails, SlotsExhausted, WaitingDone, kvVars,
                poolVars
  <2> QED BY <1>1, <1>3, <2>1, <2>2
<1>8. ASSUME ScheduleRunning \/ Admit, UNCHANGED runnerVars PROVE MemoryInv'
  BY <1>8, NewEntryLemma, NewEntryMemory
<1>9. ASSUME ExecuteStep PROVE MemoryInv'
  BY <1>9, ExecuteMemory
<1>10. ASSUME SkipAborted, UNCHANGED runnerVars PROVE MemoryInv'
  <2>1. /\ phase = "update" /\ phase' = "update" /\ idx' = idx + 1
        /\ UNCHANGED <<tokens, table, cached, status, computed, scheduled, kv>>
    BY <1>10 DEF SkipAborted, UpdateTurn, poolVars, kvVars, requestVars, runnerVars
  <2>2. \A i \in 1 .. Len(scheduled) : Unprocessed(i)' => Unprocessed(i)
    BY <1>0, <2>1 DEF Unprocessed
  <2> QED BY <1>1, <2>1, <2>2
<1>11. ASSUME UpdateChunk \/ UpdateSampled, UNCHANGED runnerVars PROVE MemoryInv'
  BY <1>11, AdvanceMemory
<1>12. ASSUME NEW r \in Request, NEW st, st # "RUNNING", Finish(r, st), Quiet,
              UNCHANGED <<tokens, computed>>, FreeRequest(r) \/ UNCHANGED table
       PROVE  MemoryInv'
  <2>1. /\ status'[r] = st
        /\ \A s \in Request \ {r} : status'[s] = status[s] /\ table'[s] = table[s]
    BY <1>0, <1>12 DEF Finish, FreeRequest
  <2> QED BY <1>1, <1>12, <2>1
<1>13. ASSUME CheckStop, UNCHANGED runnerVars PROVE MemoryInv'
  <2> DEFINE r == scheduled[idx].id
  <2>1. /\ phase = "check" /\ phase' = "update" /\ idx' = idx + 1
        /\ UNCHANGED <<computed, scheduled, kv, tokens, cached>>
        /\ \/ UNCHANGED <<table, status>>
           \/ FreeRequest(r) /\ Finish(r, StopStatus(r)) /\ StopStatus(r) # "RUNNING"
    BY <1>13 DEF CheckStop, FreeRequest, poolVars, kvVars, runnerVars
  <2>2. r \in Request
    <3>1. idx \in 1 .. Len(scheduled)
      BY <2>1, SchedulerTypesLemma DEF SchedInv, LoopInv
    <3> QED BY <1>0, <3>1
  <2>3. \A i \in 1 .. Len(scheduled) : Unprocessed(i)' => Unprocessed(i)
    BY <1>0, <2>1 DEF Unprocessed
  <2>4. Quiet
    BY <2>1, <2>3 DEF Updating
  <2> HIDE DEF r, Quiet
  <2>5. CASE UNCHANGED <<table, status>>
    BY <1>1, <2>1, <2>4, <2>5
  <2>6. CASE FreeRequest(r) /\ Finish(r, StopStatus(r)) /\ StopStatus(r) # "RUNNING"
    BY <1>12, <2>1, <2>2, <2>4, <2>6
  <2> QED BY <2>1, <2>5, <2>6
<1>14. ASSUME EndStep, UNCHANGED runnerVars PROVE MemoryInv'
  BY <1>14, EndMemory
<1>15. ASSUME ManagerStep, UNCHANGED runnerVars PROVE MemoryInv'
  <2>1. UNCHANGED <<requestVars, stepVars>>
    BY <1>15 DEF ManagerStep
  <2>2. CASE ReleaseBlock
    <3>1. /\ UNCHANGED <<tokens, table, cached, status, computed, scheduled, phase, idx>>
          /\ UNCHANGED kv
      BY <1>15, <2>1, <2>2 DEF ReleaseBlock, Free, requestVars, stepVars, runnerVars
    <3> QED BY <1>1, <1>2, <3>1
  <2>3. CASE \E r \in Request : RegisterBlock(r)
    BY <1>15, <2>1, <2>3, RegisterMemory
  <2> QED BY <1>15, <2>2, <2>3 DEF ManagerStep
<1>16. ASSUME NEW r \in Request, Submit(r) PROVE MemoryInv'
  <2>1. PICK prompt \in Prompts, p \in Params, prio \in Priorities :
           AddRequest(r, prompt, p, prio)
    BY <1>16 DEF Submit
  <2>2. /\ phase = "idle" /\ phase' = "idle" /\ scheduled = << >>
        /\ UNCHANGED <<table, cached, scheduled, idx, kv>>
        /\ status' = [status EXCEPT ![r] = "WAITING"] /\ computed' = [computed EXCEPT ![r] = 0]
        /\ tokens' = [tokens EXCEPT ![r] = prompt]
    BY <1>16, <2>1 DEF Submit, AddRequest, SetPrompt, SchedInv, LoopInv, stepVars, poolVars
  <2>3. /\ status'[r] = "WAITING"
        /\ \A s \in Request \ {r} : /\ status'[s] = status[s] /\ computed'[s] = computed[s]
                                    /\ tokens'[s] = tokens[s]
    BY <1>0, <2>2
  <2> QED BY <2>2, <2>3, MemoryFrame DEF Updating
<1>17. ASSUME NEW r \in Request, Abort(r), UNCHANGED runnerVars PROVE MemoryInv'
  <2>1. /\ Finish(r, "FINISHED_ABORTED")
        /\ UNCHANGED <<phase, idx, computed, scheduled, tokens, cached, kv>>
        /\ FreeRequest(r) \/ UNCHANGED table
    BY <1>17 DEF Abort, FreeRequest, poolVars, kvVars, stepVars, runnerVars
  <2>2. Quiet
    BY <1>2, <2>1
  <2> HIDE DEF Quiet
  <2> QED BY <1>12, <2>1, <2>2
<1>18. CASE UNCHANGED engineVars
  <2>1. /\ UNCHANGED <<tokens, table, cached, status, computed, scheduled, phase, idx>>
        /\ UNCHANGED kv
    BY <1>18 DEF engineVars, vars, poolVars, kvVars, requestVars, stepVars, runnerVars
  <2> QED BY <1>1, <1>2, <2>1
<1> QED BY <1>5, <1>6, <1>7, <1>8, <1>9, <1>10, <1>11, <1>13, <1>14, <1>15, <1>16, <1>17, <1>18
        DEF EngineModelNext, EngineStep, ScheduleNext, UpdateNext

\* Initially nothing is promised.
LEMMA MemoryInit == EngineInit => MemoryInv
<1> SUFFICES ASSUME EngineInit PROVE MemoryInv
  OBVIOUS
<1>1. /\ scheduled = << >> /\ cached = [h \in Hash |-> NoBlock]
      /\ \A r \in Request : status[r] = "NONE"
  BY DEF EngineInit, Init, KVInit, PoolInit
<1> QED BY <1>1 DEF MemoryInv, LabelsInMemory, RunningInMemory, EntriesInMemory

\* The memory of every step.
LEMMA MemoryCorrect == EngineSpec => [](TokensTellRows => MemoryInv)
<1>1. (TokensTellRows => MemoryInv) /\ SchedInv /\ SchedInv' /\ LayoutInv /\ LayoutInv'
      /\ GenerationInv /\ EngineTypeOK /\ RunnerInv /\ RowsInv
      /\ [EngineModelNext]_engineVars
         => (TokensTellRows => MemoryInv)'
  BY MemoryNext
<1>2. EngineInit => (TokensTellRows => MemoryInv)
  BY MemoryInit
<1> QED BY <1>1, <1>2, EngineImplementsScheduler, SchedulerInv, LayoutCorrect, GenerationCorrect,
           EngineTypeCorrect, RunnerCorrect, RowsCorrect, PTL
        DEF EngineSpec

\* A placeholder stands for an image.
LEMMA SomeImage ==
  ASSUME TokensTellRows, NEW v \in Seq(Token), NEW i \in DOMAIN v, Placeholder(v, i)
  PROVE  TheImage \in Image
<1>1. PICK p \in Prompts : i <= Len(p) /\ SubSeq(p, 1, i) = SubSeq(v, 1, i)
  BY DEF Placeholder
<1>2. p \in Seq(Token) /\ Len(p) \in Nat
  BY PromptLemma
<1>3. i \in 1 .. i /\ i \in 0 .. Len(v) /\ i \in 0 .. Len(p) /\ i \in 1 .. Len(p)
  BY <1>1, <1>2
<1>4. SubSeq(p, 1, i)[i] = p[i] /\ SubSeq(v, 1, i)[i] = v[i]
  BY <1>2, <1>3, TakeLemma
<1>5. ImageToken \in Range(p)
  BY <1>1, <1>2, <1>3, <1>4, RangeOfSequence DEF Placeholder
<1>6. \E im \in Image : Image = {im}
  BY <1>5 DEF TokensTellRows, TextOnly
<1> QED BY <1>6 DEF TheImage

-----------------------------------------------------------------------------
(* The theorems. *)

\* The forward pass reads only valid keys and values: whatever is shared, preempted,
\* resumed, cut in chunks, replayed from a graph or aborted, after a step every position
\* of every request in it holds that request's own rows up to there, text and image
\* ("equal hashes mean equal full prefixes", hashing.py:4-5), as long as tokens tell
\* the rows.
THEOREM ForwardReadsOwnPrefix == EngineSpec => [](TokensTellRows => ReadsOwnPrefix)
<1>1. TokensTellRows /\ SchedInv /\ LayoutInv /\ GenerationInv /\ EngineTypeOK /\ RunnerInv
         /\ RowsInv /\ MemoryInv
      => ReadsOwnPrefix
  <2> SUFFICES ASSUME TokensTellRows, SchedInv, LayoutInv, GenerationInv, EngineTypeOK, RunnerInv,
                      RowsInv, MemoryInv, phase = "update", idx = 1, NEW s \in Entries,
                      NEW pos \in 0 .. s.start + s.num - 1
               PROVE  kv[BlockAt(s.blocks, pos)][pos % BlockSize] = OwnRows(s.id, pos + 1)
    BY DEF ReadsOwnPrefix
  <2>1. scheduled \in Seq(ScheduledRequest) /\ \A r \in Request : Len(tokens[r]) \in Nat
    BY SchedulerTypesLemma DEF SchedInv
  <2>2. PICK i \in 1 .. Len(scheduled) : s = scheduled[i]
    BY <2>1, RangeOfSequence DEF Entries
  <2>3. s.id \in Request /\ s.start \in Nat /\ s.num \in Nat
    BY <2>2, EntryType DEF SchedInv
  <2>4. WillHold(BlockAt(s.blocks, pos), pos % BlockSize, Prefix(s.id, pos))
    BY <2>2 DEF MemoryInv, EntriesInMemory, Unprocessed
  <2>5. kv[BlockAt(s.blocks, pos)][pos % BlockSize] = RowsOf(Prefix(s.id, pos))
    BY <2>4 DEF WillHold, Updating
  <2>6. status[s.id] # "NONE"
    BY EntrySubmitted
  <2>7. pos + 1 \in 0 .. Len(tokens[s.id])
    <3>1. s.start + s.num <= Len(tokens[s.id])
      BY <2>2 DEF LayoutInv, EntriesShape
    <3> QED BY <2>1, <2>3, <3>1, SMTT(40)
  <2>8. RowsOf(Prefix(s.id, pos)) = OwnRows(s.id, pos + 1)
    BY <2>3, <2>6, <2>7, RowsOfRequest DEF Prefix
  <2> QED BY <2>5, <2>8
<1> QED BY <1>1, EngineImplementsScheduler, SchedulerInv, LayoutCorrect, GenerationCorrect,
           EngineTypeCorrect, RunnerCorrect, RowsCorrect, MemoryCorrect, PTL

\* Between steps a block found by its label holds, in every slot, the content the label
\* names, an image row standing where the label has a placeholder: what an admission
\* skips computing is there (block_manager.py).
THEOREM CacheIsValid == EngineSpec => [](TokensTellRows => CachedContentIsValid)
<1>1. TokensTellRows /\ SchedInv /\ MemoryInv => CachedContentIsValid
  <2> SUFFICES ASSUME TokensTellRows, SchedInv, MemoryInv, phase = "idle", NEW h \in Hash,
                      cached[h] # NoBlock, NEW o \in 0 .. BlockSize - 1
               PROVE  [i \in DOMAIN kv[cached[h]][o] |->
                          IF kv[cached[h]][o][i] \in Image THEN ImageToken
                          ELSE kv[cached[h]][o][i]]
                        = SubSeq(h, 1, Len(h) - BlockSize + o + 1)
    BY DEF CachedContentIsValid
  <2> DEFINE v == SubSeq(h, 1, Len(h) - BlockSize + o + 1)
             rows == RowsOf(v)
  <2>1. scheduled = << >>
    BY DEF SchedInv, LoopInv
  <2>2. WillHold(cached[h], o, v)
    BY DEF MemoryInv, LabelsInMemory
  <2>3. kv[cached[h]][o] = rows
    BY <2>1, <2>2 DEF WillHold
  <2>4. v \in Seq(Token)
    <3>1. PICK k \in 1 .. MaxModelLen \div BlockSize : h \in [1 .. k * BlockSize -> Token]
      BY HashAssumption
    <3>2. k \in Nat \ {0} /\ k * BlockSize \in Nat /\ BlockSize <= k * BlockSize
      <4>1. k \in Nat \ {0} /\ 1 * BlockSize = BlockSize
        BY BlockSizeAssumption
      <4> QED BY <4>1, BlocksMonotone, BlockSizeAssumption
    <3>3. h \in Seq(Token) /\ Len(h) = k * BlockSize
      BY <3>1, <3>2, RowsAreSequence
    <3>4. Len(h) - BlockSize + o + 1 \in 0 .. Len(h)
      BY <3>2, <3>3, BlockSizeAssumption
    <3> QED BY <3>3, <3>4, TakeLemma
  <2> HIDE DEF v
  <2>5. v = [i \in DOMAIN v |-> v[i]] /\ \A i \in DOMAIN v : v[i] \notin Image
    BY <2>4, ImageAssumption
  <2>6. DOMAIN rows = DOMAIN v
    BY DEF RowsOf
  <2>7. ASSUME NEW i \in DOMAIN v
        PROVE  (IF rows[i] \in Image THEN ImageToken ELSE rows[i]) = v[i]
    <3>1. rows[i] = IF Placeholder(v, i) THEN TheImage ELSE v[i]
      BY DEF RowsOf
    <3>2. CASE Placeholder(v, i)
      <4>1. TheImage \in Image /\ v[i] = ImageToken
        BY <2>4, <3>2, SomeImage DEF Placeholder
      <4> QED BY <3>1, <3>2, <4>1
    <3>3. CASE ~Placeholder(v, i)
      BY <2>5, <3>1, <3>3
    <3> QED BY <3>2, <3>3
  <2> HIDE DEF rows
  <2>8. [i \in DOMAIN rows |-> IF rows[i] \in Image THEN ImageToken ELSE rows[i]]
           = [i \in DOMAIN v |-> v[i]]
    BY <2>6, <2>7
  <2> QED BY <2>3, <2>5, <2>8, Zenon DEF v
<1> QED BY <1>1, EngineImplementsScheduler, SchedulerInv, MemoryCorrect, PTL
=============================================================================
