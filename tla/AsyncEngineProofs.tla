-------------------------- MODULE AsyncEngineProofs ---------------------------
(***************************************************************************)
(* Theorems about AsyncEngine for every set of calls, ids and event loops, *)
(* and requests of any length.                                             *)
(*                                                                         *)
(* RequestsInv is about the way of a request through the engine: it is     *)
(* submitted once, and is over for good when it leaves.  StreamInv is      *)
(* about the way of its outputs back to the call, and needs what the       *)
(* server grants: an id of its own for each call, and one event loop.      *)
(***************************************************************************)
EXTENDS AsyncEngine, SequenceLemmas, SequenceTheorems, FiniteSetTheorems, TLAPS

\* The request of the call has not been submitted.
Fresh(c) == pc[c] \in {"idle", "checked", "bound", "registered"}

\* What the engine has of a call: nothing before it takes the request from the
\* inbox, and never twice.
RequestsInv ==
    /\ IsInjective(inbox)
    /\ \A c \in Client :
          /\ Fresh(c) => c \notin Range(inbox)
          /\ Fresh(c) \/ c \in Range(inbox) => live[IdOf[c]] # c /\ produced[c] = 0
          /\ live[IdOf[c]] = c => produced[c] < MaxOutputs
    /\ \A id \in Id : live[id] # None => IdOf[live[id]] = id
    /\ thread = "aborts" => inbox = << >>
    /\ thread # "dispatch" => outs = << >>
    /\ \A i \in 1 .. Len(outs) : outs[i].kind # "error"

\* What is scheduled on an event loop.
Call == [client : Client, item : Item]

AsyncInv == TypeOK /\ RequestsInv /\ NoOrphanedWork

OwnIds == \A c, d \in Client : IdOf[c] = IdOf[d] => c = d

SameLoop == \A l \in Loop, c \in Client : LoopOf[c] = l

\* The outputs for c on a way are those from lo + 1 to hi.
Exact(c, way, lo, hi) ==
    /\ \A i \in OutputsFor(c, way) : way[i].item.owner = c
    /\ {way[i].item.n : i \in OutputsFor(c, way)} = lo + 1 .. hi
    /\ \A i, j \in OutputsFor(c, way) : i < j =>
          way[i].item.n < way[j].item.n /\ way[i].item.kind # "final"

NotFinal(c, way) == \A i \in OutputsFor(c, way) : way[i].item.kind # "final"

\* The way is open from the engine thread to every call that waits.
RoutesInv ==
    /\ \A id \in Id : queues[id] # None => IdOf[queues[id]] = id
    /\ \A c \in Client :
          /\ pc[c] \in {"registered", "waiting", "leaving"} => queues[IdOf[c]] = c
          /\ pc[c] \notin {"idle", "checked", "closed"} => loop # None


\* The call has not begun to leave.
Open(c) == Fresh(c) \/ pc[c] = "waiting"

StreamOf(c) ==
    /\ Fresh(c) => received[c] = 0
    /\ Open(c) => /\ received[c] <= produced[c]
                  /\ Exact(c, OnItsWay(c), received[c], produced[c])
    /\ Open(c) /\ live[IdOf[c]] = c => NotFinal(c, OnItsWay(c))

WaysInv == \A c \in Client : StreamOf(c)

StreamInv == RoutesInv /\ WaysInv

-----------------------------------------------------------------------------
(* Sets as sequences. *)

\* A finite set can be listed, each element once.
LEMMA SetToSeqLemma ==
  ASSUME NEW S, IsFiniteSet(S)
  PROVE  /\ SetToSeq(S) \in Seq(S)
         /\ Len(SetToSeq(S)) = Cardinality(S)
         /\ Cardinality(S) \in Nat
         /\ IsInjective(SetToSeq(S))
         /\ \A x \in S : \E i \in 1 .. Cardinality(S) : SetToSeq(S)[i] = x
<1> DEFINE n == Cardinality(S)
<1> DEFINE f == SetToSeq(S)
<1>1. n \in Nat /\ ExistsBijection(1 .. n, S)
  <2>1. PICK m \in Nat : ExistsBijection(1 .. m, S)
    BY FS_NatBijection
  <2> QED BY <2>1, FS_CountingElements
<1>2. \E g \in [1 .. n -> S] : IsInjective(g)
  <2>1. PICK g : g \in Bijection(1 .. n, S)
    BY <1>1 DEF ExistsBijection
  <2> QED BY <2>1 DEF Bijection, Injection, IsInjective
<1>3. f \in [1 .. n -> S] /\ IsInjective(f)
  BY <1>2 DEF SetToSeq
<1>4. f \in Injection(1 .. n, S)
  BY <1>3 DEF Injection, IsInjective
<1>5. IsFiniteSet(1 .. n) /\ Cardinality(1 .. n) = n
  BY <1>1, FS_Interval
<1>6. f \in Surjection(1 .. n, S)
  BY <1>4, <1>5, FS_Injection
<1>7. \A x \in S : \E i \in 1 .. n : f[i] = x
  BY <1>6 DEF Surjection
<1>8. f \in Seq(S) /\ Len(f) = n
  BY <1>1, <1>3
<1> QED BY <1>1, <1>3, <1>7, <1>8

-----------------------------------------------------------------------------
(* The types. *)

LEMMA OutputIsItem ==
  ASSUME NEW c \in Client
  PROVE  /\ Output(c, 0, "error") \in Item
         /\ Output(None, 0, "error") \in Item
         /\ \A n \in 1 .. MaxOutputs : /\ Output(c, n, "output") \in Item
                                       /\ Output(c, n, "final") \in Item
BY DEF Output, Item

LEMMA TypeInit == Init => TypeOK
<1> SUFFICES ASSUME Init PROVE TypeOK
  OBVIOUS
<1> USE DEF Init
<1>1. /\ << >> \in Seq(Item) /\ << >> \in Seq(Client)
      /\ << >> \in Seq(Call)
  OBVIOUS
<1>2. 0 \in 0 .. MaxOutputs
  BY AsyncAssumption DEF AsyncAssumption
<1>3. /\ mailbox \in [Client -> Seq(Item)]
      /\ callbacks \in [Loop -> Seq(Call)]
      /\ inbox \in Seq(Client) /\ aborts \in Seq(Client) /\ outs \in Seq(Item)
  BY <1>1
<1>4. received \in [Client -> 0 .. MaxOutputs] /\ produced \in [Client -> 0 .. MaxOutputs]
  BY <1>2
<1>5. /\ pc \in [Client -> {"idle", "checked", "bound", "registered", "waiting",
                           "leaving", "popped", "closed"}]
      /\ queues \in [Id -> Client \cup {None}] /\ live \in [Id -> Client \cup {None}]
      /\ loop \in Loop \cup {None} /\ running \in BOOLEAN /\ error \in BOOLEAN
      /\ thread \in {"none", "top", "inbox", "aborts", "step", "dispatch", "failing", "dead"}
  OBVIOUS
<1> QED BY <1>3, <1>4, <1>5 DEF TypeOK, Call

LEMMA TypeStutter == TypeOK /\ UNCHANGED vars => TypeOK'
BY DEF TypeOK, vars, clientVars, sharedVars, engineVars

\* Steps of the calls.
LEMMA TypeClient ==
  ASSUME TypeOK, NEW c \in Client, ClientNext(c)
  PROVE  TypeOK'
<1>0. IdOf[c] \in Id /\ LoopOf[c] \in Loop
  BY AsyncAssumption DEF AsyncAssumption
<1> USE DEF TypeOK, clientVars, sharedVars, engineVars, Goto
<1>1. CASE CheckError(c)
  BY <1>1 DEF CheckError
<1>2. CASE BindLoop(c)
  BY <1>0, <1>2 DEF BindLoop, EnsureThread
<1>3. CASE RegisterQueue(c)
  BY <1>0, <1>3 DEF RegisterQueue
<1>4. CASE Enqueue(c)
  <2>1. inbox \in Seq(Client) /\ inbox' = Append(inbox, c)
    BY <1>4 DEF Enqueue
  <2>2. inbox' \in Seq(Client)
    BY <2>1, AppendLemma
  <2> QED BY <1>4, <2>2 DEF Enqueue
<1>5. CASE Receive(c)
  <2>1. /\ mailbox[c] \in Seq(Item) /\ mailbox[c] # << >>
        /\ Head(mailbox[c]) \in Item /\ Tail(mailbox[c]) \in Seq(Item)
    BY <1>5 DEF Receive
  <2>2. Head(mailbox[c]).kind # "error" => Head(mailbox[c]).n \in 0 .. MaxOutputs
    BY <2>1, AsyncAssumption DEF Item, AsyncAssumption
  <2>3. received' \in [Client -> 0 .. MaxOutputs] /\ mailbox' \in [Client -> Seq(Item)]
    BY <1>5, <2>1, <2>2 DEF Receive
  <2>4. pc' \in [Client -> {"idle", "checked", "bound", "registered", "waiting",
                            "leaving", "popped", "closed"}]
    BY <1>5 DEF Receive
  <2> QED BY <1>5, <2>3, <2>4 DEF Receive
<1>6. CASE PopQueue(c)
  BY <1>0, <1>6 DEF PopQueue
<1>7. CASE AppendAbort(c)
  <2>1. aborts \in Seq(Client) /\ aborts' = Append(aborts, c)
    BY <1>7 DEF AppendAbort
  <2>2. aborts' \in Seq(Client)
    BY <2>1, AppendLemma
  <2> QED BY <1>7, <2>2 DEF AppendAbort
<1>8. CASE HangUp(c)
  BY <1>8 DEF HangUp
<1>9. CASE AbortAndHangUp(c)
  <2>1. aborts \in Seq(Client) /\ aborts' = Append(aborts, c)
    BY <1>9 DEF AbortAndHangUp
  <2>2. aborts' \in Seq(Client)
    BY <2>1, AppendLemma
  <2> QED BY <1>9, <2>2 DEF AbortAndHangUp
<1> QED BY <1>1, <1>2, <1>3, <1>4, <1>5, <1>6, <1>7, <1>8, <1>9 DEF ClientNext, Progress

\* Steps of the event loops, and of the server that starts and stops the thread.
LEMMA TypeLoop ==
  ASSUME TypeOK, NEW l \in Loop, RunCallback(l) \/ Start(l) \/ Shutdown
  PROVE  TypeOK'
<1> USE DEF TypeOK, clientVars, sharedVars, engineVars
<1>1. CASE RunCallback(l)
  <2>1. /\ callbacks[l] \in Seq(Call) /\ callbacks[l] # << >>
    BY <1>1 DEF RunCallback, Call
  <2>2. /\ Head(callbacks[l]) \in Call
        /\ Tail(callbacks[l]) \in Seq(Call)
    BY <2>1
  <2>0. callbacks \in [Loop -> Seq(Call)]
    BY DEF Call
  <2>3. callbacks' \in [Loop -> Seq(Call)]
    BY <1>1, <2>0, <2>2 DEF RunCallback
  <2>4. /\ Head(callbacks[l]).client \in Client /\ Head(callbacks[l]).item \in Item
    BY <2>2 DEF Call
  <2>5. mailbox' = [mailbox EXCEPT ![Head(callbacks[l]).client] =
                      Append(@, Head(callbacks[l]).item)]
    BY <1>1 DEF RunCallback
  <2>6. \A m \in Seq(Item) : Append(m, Head(callbacks[l]).item) \in Seq(Item)
    BY <2>4
  <2>7. mailbox' \in [Client -> Seq(Item)]
    BY <2>4, <2>5, <2>6
  <2> QED BY <1>1, <2>3, <2>7 DEF RunCallback, Call
<1>2. CASE Start(l)
  BY <1>2 DEF Start, EnsureThread
<1>3. CASE Shutdown
  BY <1>3 DEF Shutdown
<1> QED BY <1>1, <1>2, <1>3

LEMMA DispatchType ==
  ASSUME TypeOK, NEW id \in Id, NEW item \in Item, DispatchTo(id, item)
  PROVE  callbacks' \in [Loop -> Seq(Call)]
<1>1. CASE queues[id] # None /\ loop # None
  <2>1. queues[id] \in Client /\ loop \in Loop /\ callbacks \in [Loop -> Seq(Call)]
    BY <1>1 DEF TypeOK, Call
  <2>2. [client |-> queues[id], item |-> item] \in Call
    BY <2>1 DEF Call
  <2>3. callbacks[loop] \in Seq(Call)
    BY <2>1
  <2>4. Append(callbacks[loop], [client |-> queues[id], item |-> item])
          \in Seq(Call)
    BY <2>2, <2>3
  <2>5. callbacks' = [callbacks EXCEPT ![loop] =
                        Append(@, [client |-> queues[id], item |-> item])]
    BY <1>1 DEF DispatchTo
  <2> QED BY <2>1, <2>4, <2>5
<1>2. CASE ~(queues[id] # None /\ loop # None)
  BY <1>2 DEF DispatchTo, TypeOK, Call
<1> QED BY <1>1, <1>2

\* What a step of the engine gives is an item for each request it served.
LEMMA StepOuts ==
  ASSUME TypeOK, RequestsInv, NEW served \in SUBSET Id, NEW ended \in SUBSET served,
         StepServing(served, ended)
  PROVE  /\ \A id \in served : /\ live[id] \in Client /\ IdOf[live[id]] = id
                               /\ produced[live[id]] + 1 \in 1 .. MaxOutputs
         /\ Len(outs') = Cardinality(served)
         /\ outs' \in Seq(Item)
         /\ SetToSeq(served) \in Seq(served)
         /\ \A i \in 1 .. Len(outs') :
               LET id == SetToSeq(served)[i]
               IN  /\ id \in served
                   /\ outs'[i] = Output(live[id], produced[live[id]] + 1,
                                        IF id \in ended THEN "final" ELSE "output")
         /\ \A i, j \in 1 .. Len(outs') : SetToSeq(served)[i] = SetToSeq(served)[j] => i = j
         /\ \A id \in served : \E i \in 1 .. Len(outs') : SetToSeq(served)[i] = id
<1> DEFINE f == SetToSeq(served)
<1> DEFINE n == Cardinality(served)
<1> DEFINE item(i) == Output(live[f[i]], produced[live[f[i]]] + 1,
                             IF f[i] \in ended THEN "final" ELSE "output")
<1>1. IsFiniteSet(served)
  BY AsyncAssumption, FS_Subset DEF AsyncAssumption
<1>2. /\ f \in Seq(served) /\ Len(f) = n /\ n \in Nat /\ IsInjective(f)
      /\ \A id \in served : \E i \in 1 .. n : f[i] = id
  BY <1>1, SetToSeqLemma
<1>3. \A id \in served : /\ live[id] \in Client /\ IdOf[live[id]] = id
                         /\ produced[live[id]] + 1 \in 1 .. MaxOutputs
  <2> TAKE id \in served
  <2>1. live[id] \in Client /\ live[id] # None
    BY DEF StepServing, TypeOK
  <2>2. IdOf[live[id]] = id
    BY <2>1 DEF RequestsInv
  <2>3. produced[live[id]] < MaxOutputs /\ produced[live[id]] \in 0 .. MaxOutputs
    BY <2>1, <2>2 DEF RequestsInv, TypeOK
  <2> QED BY <2>1, <2>2, <2>3, AsyncAssumption DEF AsyncAssumption
<1>4. outs' = [i \in 1 .. n |-> item(i)]
  BY DEF StepServing
<1>5. \A i \in 1 .. n : f[i] \in served
  BY <1>2
<1>6. \A i \in 1 .. n : item(i) \in Item
  BY <1>3, <1>5, OutputIsItem
<1> HIDE DEF item, f, n
<1>7. outs' \in Seq(Item) /\ Len(outs') = n
  BY <1>2, <1>4, <1>6
<1>8. \A i \in 1 .. n : outs'[i] = item(i)
  BY <1>4
<1>9. \A i, j \in 1 .. n : f[i] = f[j] => i = j
  BY <1>2, InjectiveSequence
<1> QED BY <1>2, <1>3, <1>5, <1>7, <1>8, <1>9 DEF item, f, n

\* What the exception is sent as: an error for every registered queue.
LEMMA FailOuts ==
  ASSUME TypeOK, FailAll
  PROVE  \E errors \in Seq(Call) :
            /\ callbacks' = [callbacks EXCEPT ![loop] = @ \o errors]
            /\ \A i \in 1 .. Len(errors) : errors[i].item.kind = "error"
<1> DEFINE S == {id \in Id : queues[id] # None}
<1> DEFINE ids == SetToSeq(S)
<1> DEFINE call(i) == [client |-> queues[ids[i]], item |-> Output(None, 0, "error")]
<1>1. IsFiniteSet(S)
  BY AsyncAssumption, FS_Subset DEF AsyncAssumption
<1>2. ids \in Seq(S) /\ Len(ids) \in Nat
  BY <1>1, SetToSeqLemma
<1>3. \A i \in 1 .. Len(ids) : ids[i] \in S
  BY <1>2
<1>4. \A id \in S : queues[id] \in Client
  BY DEF TypeOK
<1>5. Output(None, 0, "error") \in Item
  BY DEF Output, Item
<1>6. \A i \in 1 .. Len(ids) : call(i) \in Call
  BY <1>3, <1>4, <1>5 DEF Call
<1>7. callbacks' = [callbacks EXCEPT ![loop] = @ \o [i \in 1 .. Len(ids) |-> call(i)]]
  BY DEF FailAll
<1>8. \A i \in 1 .. Len(ids) : call(i).item.kind = "error"
  BY DEF Output
<1> HIDE DEF call, ids, S
<1>9. [i \in 1 .. Len(ids) |-> call(i)] \in Seq(Call)
  BY <1>2, <1>6
<1>10. /\ Len([i \in 1 .. Len(ids) |-> call(i)]) = Len(ids)
       /\ \A i \in 1 .. Len(ids) : [j \in 1 .. Len(ids) |-> call(j)][i] = call(i)
  BY <1>2
<1> QED BY <1>7, <1>8, <1>9, <1>10

\* Steps of the engine thread.
LEMMA TypeThread ==
  ASSUME TypeOK, RequestsInv, ThreadNext
  PROVE  TypeOK'
<1> USE DEF clientVars, sharedVars, engineVars
<1>1. CASE StartDrain
  BY <1>1 DEF StartDrain, TypeOK
<1>2. CASE TakeInbox
  <2>1. inbox \in Seq(Client) /\ inbox # << >> /\ inbox' = Tail(inbox)
    BY <1>2 DEF TakeInbox, TypeOK
  <2>2. Head(inbox) \in Client /\ inbox' \in Seq(Client)
    BY <2>1
  <2>3. IdOf[Head(inbox)] \in Id
    BY <2>2, AsyncAssumption DEF AsyncAssumption
  <2>4. live' \in [Id -> Client \cup {None}]
    BY <1>2, <2>2, <2>3 DEF TakeInbox, TypeOK
  <2>5. callbacks' \in [Loop -> Seq(Call)]
    <3>1. CASE callbacks' = callbacks
      BY <3>1 DEF TypeOK, Call
    <3>2. CASE DispatchTo(IdOf[Head(inbox)], Output(Head(inbox), 0, "error"))
      BY <2>2, <2>3, <3>2, OutputIsItem, DispatchType
    <3> QED BY <1>2, <3>1, <3>2 DEF TakeInbox
  <2> QED BY <1>2, <2>2, <2>4, <2>5 DEF TakeInbox, TypeOK, Call
<1>3. CASE InboxDone
  BY <1>3 DEF InboxDone, TypeOK
<1>4. CASE TakeAbort
  <2>1. aborts \in Seq(Client) /\ aborts # << >> /\ aborts' = Tail(aborts)
    BY <1>4 DEF TakeAbort, TypeOK
  <2>2. aborts' \in Seq(Client)
    BY <2>1
  <2>3. live' \in [Id -> Client \cup {None}]
    BY <1>4 DEF TakeAbort, TypeOK
  <2> QED BY <1>4, <2>2, <2>3 DEF TakeAbort, TypeOK
<1>5. CASE AbortsDone
  BY <1>5 DEF AbortsDone, TypeOK
<1>6. CASE Step
  <2>0. PICK served \in SUBSET Id : \E ended \in SUBSET served : StepServing(served, ended)
    BY <1>6 DEF Step
  <2>1. PICK ended \in SUBSET served : StepServing(served, ended)
    BY <2>0
  <2>2. outs' \in Seq(Item)
    BY <2>1, StepOuts
  <2>3. \A id \in served : /\ live[id] \in Client
                           /\ produced[live[id]] + 1 \in 1 .. MaxOutputs
    BY <2>1, StepOuts
  <2>4. produced' \in [Client -> 0 .. MaxOutputs]
    <3>1. produced' = [c \in Client |->
             IF \E id \in served : live[id] = c THEN produced[c] + 1 ELSE produced[c]]
      BY <2>1 DEF StepServing
    <3>2. \A c \in Client :
             (IF \E id \in served : live[id] = c THEN produced[c] + 1 ELSE produced[c])
               \in 0 .. MaxOutputs
      BY <2>3 DEF TypeOK
    <3> QED BY <3>1, <3>2
  <2>5. live' \in [Id -> Client \cup {None}]
    BY <2>1 DEF StepServing, TypeOK
  <2> QED BY <2>1, <2>2, <2>4, <2>5 DEF StepServing, TypeOK
<1>7. CASE StepRaises
  BY <1>7 DEF StepRaises, TypeOK
<1>8. CASE DispatchOne
  <2>1. outs \in Seq(Item) /\ outs # << >> /\ outs' = Tail(outs)
    BY <1>8 DEF DispatchOne, TypeOK
  <2>2. Head(outs) \in Item /\ outs' \in Seq(Item) /\ Head(outs) = outs[1] /\ Len(outs) > 0
    BY <2>1
  <2>4. Head(outs).owner \in Client
    BY <2>2 DEF RequestsInv, Item
  <2>5. IdOf[Head(outs).owner] \in Id
    BY <2>4, AsyncAssumption DEF AsyncAssumption
  <2>3. callbacks' \in [Loop -> Seq(Call)]
    BY <1>8, <2>2, <2>5, DispatchType DEF DispatchOne
  <2> QED BY <1>8, <2>2, <2>3 DEF DispatchOne, TypeOK, Call
<1>9. CASE DispatchDone
  BY <1>9 DEF DispatchDone, TypeOK
<1>10. CASE FailAll
  <2>0. callbacks \in [Loop -> Seq(Call)]
    BY DEF TypeOK, Call
  <2>1. PICK errors \in Seq(Call) :
           callbacks' = [callbacks EXCEPT ![loop] = @ \o errors]
    BY <1>10, FailOuts
  <2>2. \A l \in Loop : callbacks[l] \o errors \in Seq(Call)
    BY <2>0
  <2>3. callbacks' \in [Loop -> Seq(Call)]
    BY <2>0, <2>1, <2>2
  <2> QED BY <1>10, <2>3 DEF FailAll, TypeOK, Call
<1> QED BY <1>1, <1>2, <1>3, <1>4, <1>5, <1>6, <1>7, <1>8, <1>9, <1>10 DEF ThreadNext

-----------------------------------------------------------------------------
(* The way of a request. *)

LEMMA RequestsInit == Init => RequestsInv /\ NoOrphanedWork
<1> SUFFICES ASSUME Init PROVE RequestsInv /\ NoOrphanedWork
  OBVIOUS
<1>1. /\ inbox = << >> /\ outs = << >> /\ thread = "none"
      /\ \A c \in Client : pc[c] = "idle" /\ produced[c] = 0
      /\ \A id \in Id : live[id] = None
  BY DEF Init
<1>2. IsInjective(inbox) /\ Range(inbox) = {}
  BY <1>1 DEF IsInjective, Range
<1>3. \A c \in Client : live[IdOf[c]] # c
  BY <1>1, AsyncAssumption DEF AsyncAssumption
<1>4. \A c \in Client : produced[c] < MaxOutputs
  BY <1>1, AsyncAssumption DEF AsyncAssumption
<1> QED BY <1>1, <1>2, <1>3, <1>4 DEF RequestsInv, NoOrphanedWork

\* A step of a call leaves the engine alone; its request, once, goes into the
\* inbox, and its abort comes before the call is over.
LEMMA RequestsClient ==
  ASSUME AsyncInv, NEW c \in Client, ClientNext(c)
  PROVE  RequestsInv' /\ NoOrphanedWork'
<1>0. /\ TypeOK /\ inbox \in Seq(Client) /\ aborts \in Seq(Client)
      /\ pc \in [Client -> {"idle", "checked", "bound", "registered", "waiting",
                            "leaving", "popped", "closed"}]
  BY DEF AsyncInv, TypeOK
<1>1. /\ UNCHANGED <<live, produced, outs>>
      /\ thread' = thread \/ (thread' = "top" /\ thread = "none")
  <2>1. UNCHANGED engineVars
    BY DEF ClientNext, Progress, CheckError, BindLoop, RegisterQueue, Enqueue, Receive, PopQueue,
         AppendAbort, HangUp, AbortAndHangUp
  <2>2. CASE BindLoop(c)
    BY <2>1, <2>2 DEF BindLoop, EnsureThread, engineVars
  <2>3. CASE ~BindLoop(c)
    <3>1. UNCHANGED thread
      BY <2>3 DEF ClientNext, Progress, CheckError, RegisterQueue, Enqueue, Receive, PopQueue,
         AppendAbort, HangUp, AbortAndHangUp
    <3> QED BY <2>1, <3>1 DEF engineVars
  <2> QED BY <2>2, <2>3
<1>2. CASE Enqueue(c)
  <2>1. /\ pc[c] = "registered" /\ thread' = thread /\ thread # "aborts"
        /\ inbox' = Append(inbox, c) /\ aborts' = aborts
        /\ pc' = [pc EXCEPT ![c] = "waiting"]
    BY <1>2 DEF Enqueue, LockFree, Goto
  <2>2. Fresh(c) /\ c \notin Range(inbox)
    BY <2>1 DEF AsyncInv, RequestsInv, Fresh
  <2>3. IsInjective(inbox') /\ Range(inbox') = Range(inbox) \cup {c}
    BY <1>0, <2>1, <2>2, AppendLemma DEF AsyncInv, RequestsInv
  <2>4. \A d \in Client : pc'[d] = IF d = c THEN "waiting" ELSE pc[d]
    BY <1>0, <2>1
  <2>5. ~Fresh(c)' /\ \A d \in Client : d # c => (Fresh(d)' <=> Fresh(d))
    BY <2>4 DEF Fresh
  <2>6. RequestsInv'
    BY <1>1, <2>1, <2>2, <2>3, <2>5 DEF AsyncInv, RequestsInv
  <2>7. NoOrphanedWork'
    BY <1>1, <2>1, <2>3, <2>4 DEF AsyncInv, NoOrphanedWork
  <2> QED BY <2>6, <2>7
<1>3. CASE ~Enqueue(c)
  <2>1. inbox' = inbox
    BY <1>3 DEF ClientNext, Progress, CheckError, BindLoop, RegisterQueue, Receive, PopQueue,
         AppendAbort, HangUp, AbortAndHangUp, sharedVars
  <2>2. \A d \in Client : Fresh(d)' => Fresh(d)
    BY <1>0, <1>3 DEF ClientNext, Progress, CheckError, BindLoop, RegisterQueue, Receive,
         PopQueue, AppendAbort, HangUp, AbortAndHangUp, Goto, Fresh
  <2>3. RequestsInv'
    BY <1>1, <2>1, <2>2 DEF AsyncInv, RequestsInv
  <2>4. CASE AppendAbort(c)
    <3>1. aborts' = Append(aborts, c) /\ \A d \in Client : d # c => pc'[d] = pc[d]
      BY <1>0, <2>4 DEF AppendAbort, Goto
    <3>2. Range(aborts') = Range(aborts) \cup {c}
      BY <1>0, <3>1, AppendLemma
    <3> QED BY <1>1, <2>1, <2>3, <3>1, <3>2 DEF AsyncInv, NoOrphanedWork
  <2>5. CASE AbortAndHangUp(c)
    <3>1. aborts' = Append(aborts, c) /\ \A d \in Client : pc'[d] = "closed" => pc[d] = "closed"
      BY <1>0, <2>5 DEF AbortAndHangUp, Goto
    <3>2. Range(aborts') = Range(aborts) \cup {c}
      BY <1>0, <3>1, AppendLemma
    <3> QED BY <1>1, <2>1, <2>3, <3>1, <3>2 DEF AsyncInv, NoOrphanedWork
  <2>6. CASE ~AppendAbort(c) /\ ~AbortAndHangUp(c)
    <3>1. aborts' = aborts
      BY <1>3, <2>6 DEF ClientNext, Progress, CheckError, BindLoop, RegisterQueue, Receive,
         PopQueue, HangUp, sharedVars
    <3>2. \A d \in Client : pc'[d] = "closed" => pc[d] = "closed" \/ Fresh(d)
      BY <1>0, <1>3, <2>6 DEF ClientNext, Progress, CheckError, BindLoop, RegisterQueue, Receive,
         PopQueue, HangUp, Goto, Fresh
    <3> QED BY <1>1, <2>1, <2>3, <3>1, <3>2 DEF AsyncInv, NoOrphanedWork, RequestsInv
  <2> QED BY <2>4, <2>5, <2>6
<1> QED BY <1>2, <1>3

\* The event loops and the server leave requests alone.
LEMMA RequestsLoop ==
  ASSUME AsyncInv, NEW l \in Loop, RunCallback(l) \/ Start(l) \/ Shutdown \/ UNCHANGED vars
  PROVE  RequestsInv' /\ NoOrphanedWork'
<1>1. UNCHANGED <<pc, inbox, aborts, live, produced, outs>>
  BY DEF RunCallback, Start, Shutdown, vars, clientVars, sharedVars, engineVars
<1>2. \/ thread' = thread
      \/ thread' = "top" /\ thread = "none"
  BY DEF RunCallback, Start, Shutdown, vars, EnsureThread
<1>3. \A c \in Client : Fresh(c)' <=> Fresh(c)
  BY <1>1 DEF Fresh
<1>4. RequestsInv'
  BY <1>1, <1>2, <1>3 DEF AsyncInv, RequestsInv
<1>5. NoOrphanedWork'
  BY <1>1 DEF AsyncInv, NoOrphanedWork
<1> QED BY <1>4, <1>5

\* A request leaves the inbox for the engine, or is refused.
LEMMA RequestsTakeInbox ==
  ASSUME AsyncInv, TakeInbox
  PROVE  RequestsInv' /\ NoOrphanedWork'
<1> DEFINE c == Head(inbox)
<1>1. /\ inbox \in Seq(Client) /\ inbox # << >> /\ inbox' = Tail(inbox)
      /\ thread' = thread /\ thread = "inbox"
      /\ live \in [Id -> Client \cup {None}]
  BY DEF AsyncInv, TypeOK, TakeInbox
<1>2. IsInjective(inbox)
  BY DEF AsyncInv, RequestsInv
<1>3. /\ c \in Client /\ IsInjective(inbox') /\ c \in Range(inbox)
      /\ Range(inbox') = Range(inbox) \ {c}
  BY <1>1, <1>2, TailLemma
<1>4. UNCHANGED <<pc, aborts, produced, outs>>
  BY DEF TakeInbox, clientVars
<1>5. IdOf[c] \in Id /\ IdOf \in [Client -> Id]
  BY <1>3, AsyncAssumption DEF AsyncAssumption
<1>6. live' = live \/ live' = [live EXCEPT ![IdOf[c]] = c]
  BY DEF TakeInbox
<1>7. \A id \in Id : live'[id] = live[id] \/ (id = IdOf[c] /\ live'[id] = c)
  BY <1>1, <1>6
<1>8. \A d \in Client : Fresh(d)' <=> Fresh(d)
  BY <1>4 DEF Fresh
<1>9. ~Fresh(c) /\ produced[c] = 0
  BY <1>3 DEF AsyncInv, RequestsInv
<1>10. c # None
  BY <1>3, AsyncAssumption DEF AsyncAssumption
<1>11. \A d \in Client : live'[IdOf[d]] = live[IdOf[d]] \/ (live'[IdOf[d]] = c /\ IdOf[d] = IdOf[c])
  BY <1>5, <1>7
<1> HIDE DEF c
<1>12. ASSUME NEW d \in Client
       PROVE  /\ Fresh(d)' => d \notin Range(inbox')
              /\ Fresh(d)' \/ d \in Range(inbox') => live'[IdOf[d]] # d /\ produced'[d] = 0
              /\ live'[IdOf[d]] = d => produced'[d] < MaxOutputs
  <2>1. /\ Fresh(d) => d \notin Range(inbox)
        /\ Fresh(d) \/ d \in Range(inbox) => live[IdOf[d]] # d /\ produced[d] = 0
        /\ live[IdOf[d]] = d => produced[d] < MaxOutputs
    BY DEF AsyncInv, RequestsInv
  <2>2. 0 < MaxOutputs
    BY AsyncAssumption DEF AsyncAssumption
  <2> QED BY <1>3, <1>4, <1>8, <1>9, <1>11, <2>1, <2>2
<1>13. \A id \in Id : live'[id] # None => IdOf[live'[id]] = id
  BY <1>7 DEF AsyncInv, RequestsInv
<1>14. /\ thread' = "aborts" => inbox' = << >>
       /\ thread' # "dispatch" => outs' = << >>
       /\ \A i \in 1 .. Len(outs') : outs'[i].kind # "error"
  BY <1>1, <1>4 DEF AsyncInv, RequestsInv
<1>15. RequestsInv'
  BY <1>3, <1>12, <1>13, <1>14 DEF RequestsInv
<1>16. NoOrphanedWork'
  <2> SUFFICES ASSUME NEW d \in Client, pc'[d] = "closed",
                      d \in Range(inbox') \/ live'[IdOf[d]] = d
               PROVE  d \in Range(aborts')
    BY DEF NoOrphanedWork
  <2>1. d \in Range(inbox) \/ live[IdOf[d]] = d
    BY <1>3, <1>11
  <2> QED BY <1>4, <2>1 DEF AsyncInv, NoOrphanedWork
<1> QED BY <1>15, <1>16

\* The lock keeps the inbox empty while the aborts are drained: no request is
\* submitted after its abort.
LEMMA RequestsTakeAbort ==
  ASSUME AsyncInv, TakeAbort
  PROVE  RequestsInv' /\ NoOrphanedWork'
<1> DEFINE c == Head(aborts)
<1>1. /\ aborts \in Seq(Client) /\ aborts # << >> /\ aborts' = Tail(aborts)
      /\ thread' = thread /\ thread = "aborts"
      /\ live \in [Id -> Client \cup {None}]
      /\ UNCHANGED <<pc, inbox, produced, outs>>
      /\ live' = [live EXCEPT ![IdOf[c]] = None]
  BY DEF AsyncInv, TypeOK, TakeAbort, clientVars
<1>2. c \in Client
  BY <1>1
<1>3. inbox = << >> /\ Range(inbox) = {}
  BY <1>1 DEF AsyncInv, RequestsInv, Range
<1>4. IdOf[c] \in Id /\ IdOf \in [Client -> Id] /\ None \notin Client
  BY <1>2, AsyncAssumption DEF AsyncAssumption
<1>5. \A id \in Id : live'[id] = IF id = IdOf[c] THEN None ELSE live[id]
  BY <1>1
<1>6. \A d \in Client : live'[IdOf[d]] = d => live[IdOf[d]] = d /\ d # c
  BY <1>4, <1>5
<1>7. \A d \in Client : Fresh(d)' <=> Fresh(d)
  BY <1>1 DEF Fresh
<1>8. \A d \in Range(aborts) : d # c => d \in Range(aborts')
  <2> SUFFICES ASSUME NEW d \in Range(aborts), d # c PROVE d \in Range(aborts')
    OBVIOUS
  <2>1. PICK i \in 1 .. Len(aborts) : aborts[i] = d
    BY <1>1, RangeOfSequence
  <2>2. i # 1
    BY <1>1, <2>1
  <2>3. i - 1 \in 1 .. Len(aborts') /\ aborts'[i - 1] = d /\ aborts' \in Seq(Client)
    BY <1>1, <2>1, <2>2
  <2> QED BY <2>3, RangeOfSequence
<1> HIDE DEF c
<1>9. RequestsInv'
  <2>1. \A d \in Client :
          /\ Fresh(d)' => d \notin Range(inbox')
          /\ Fresh(d)' \/ d \in Range(inbox') => live'[IdOf[d]] # d /\ produced'[d] = 0
          /\ live'[IdOf[d]] = d => produced'[d] < MaxOutputs
    BY <1>1, <1>3, <1>6, <1>7 DEF AsyncInv, RequestsInv
  <2>2. \A id \in Id : live'[id] # None => IdOf[live'[id]] = id
    BY <1>5 DEF AsyncInv, RequestsInv
  <2> QED BY <1>1, <2>1, <2>2 DEF AsyncInv, RequestsInv
<1>10. NoOrphanedWork'
  <2> SUFFICES ASSUME NEW d \in Client, pc'[d] = "closed",
                      d \in Range(inbox') \/ live'[IdOf[d]] = d
               PROVE  d \in Range(aborts')
    BY DEF NoOrphanedWork
  <2>1. live[IdOf[d]] = d /\ d # c
    BY <1>1, <1>3, <1>6
  <2>2. d \in Range(aborts)
    BY <1>1, <2>1 DEF AsyncInv, NoOrphanedWork
  <2> QED BY <1>8, <2>1, <2>2
<1> QED BY <1>9, <1>10

\* A request that ends in a step is gone from the engine; the others have room for
\* another token.
LEMMA RequestsStep ==
  ASSUME AsyncInv, NEW served \in SUBSET Id, NEW ended \in SUBSET served,
         StepServing(served, ended)
  PROVE  RequestsInv' /\ NoOrphanedWork'
<1>1. /\ TypeOK /\ RequestsInv /\ thread' = "dispatch"
      /\ UNCHANGED <<pc, inbox, aborts>>
      /\ produced' = [c \in Client |->
            IF \E id \in served : live[id] = c THEN produced[c] + 1 ELSE produced[c]]
      /\ live' = [id \in Id |-> IF id \in ended THEN None ELSE live[id]]
      /\ \A id \in served : produced[live[id]] + 1 = MaxOutputs => id \in ended
  BY DEF AsyncInv, StepServing, clientVars, sharedVars
<1>2. \A id \in Id : live'[id] = IF id \in ended THEN None ELSE live[id]
  BY <1>1
<1>3. /\ None \notin Client /\ IdOf \in [Client -> Id]
      /\ produced \in [Client -> 0 .. MaxOutputs] /\ MaxOutputs \in Nat
  BY <1>1, AsyncAssumption DEF AsyncAssumption, TypeOK
<1>4. \A id \in served : IdOf[live[id]] = id /\ live[id] \in Client
                         /\ produced[live[id]] + 1 \in 1 .. MaxOutputs
  BY <1>1, StepOuts
<1>5. \A d \in Client : live'[IdOf[d]] = d => live[IdOf[d]] = d /\ IdOf[d] \notin ended
  BY <1>2, <1>3
<1>6. \A d \in Client : Fresh(d)' <=> Fresh(d)
  BY <1>1 DEF Fresh
<1>7. ASSUME NEW d \in Client
      PROVE  /\ Fresh(d)' => d \notin Range(inbox')
             /\ Fresh(d)' \/ d \in Range(inbox') => live'[IdOf[d]] # d /\ produced'[d] = 0
             /\ live'[IdOf[d]] = d => produced'[d] < MaxOutputs
  <2>1. /\ Fresh(d) => d \notin Range(inbox)
        /\ Fresh(d) \/ d \in Range(inbox) => live[IdOf[d]] # d /\ produced[d] = 0
        /\ live[IdOf[d]] = d => produced[d] < MaxOutputs
    BY <1>1 DEF RequestsInv
  <2>2. (\E id \in served : live[id] = d) => live[IdOf[d]] = d /\ IdOf[d] \in served
    BY <1>4
  <2>3. produced'[d] = IF \E id \in served : live[id] = d THEN produced[d] + 1 ELSE produced[d]
    BY <1>1
  <2>4. Fresh(d)' \/ d \in Range(inbox') => live'[IdOf[d]] # d /\ produced'[d] = 0
    BY <1>1, <1>5, <1>6, <2>1, <2>2, <2>3
  <2>5. ASSUME live'[IdOf[d]] = d PROVE produced'[d] < MaxOutputs
    <3>1. live[IdOf[d]] = d /\ IdOf[d] \notin ended /\ produced[d] < MaxOutputs
      BY <1>5, <2>1, <2>5
    <3>2. CASE \E id \in served : live[id] = d
      <4>1. IdOf[d] \in served
        BY <2>2, <3>2
      <4>2. produced[d] + 1 # MaxOutputs
        BY <1>1, <3>1, <4>1
      <4> QED BY <1>3, <2>3, <3>1, <3>2, <4>2
    <3>3. CASE ~ \E id \in served : live[id] = d
      BY <2>3, <3>1, <3>3
    <3> QED BY <3>2, <3>3
  <2> QED BY <1>1, <1>6, <2>1, <2>4, <2>5
<1>8. \A id \in Id : live'[id] # None => IdOf[live'[id]] = id
  BY <1>1, <1>2 DEF RequestsInv
<1>9. \A i \in 1 .. Len(outs') : outs'[i].kind # "error"
  <2> TAKE i \in 1 .. Len(outs')
  <2> DEFINE id == SetToSeq(served)[i]
  <2>1. outs'[i] = Output(live[id], produced[live[id]] + 1,
                          IF id \in ended THEN "final" ELSE "output")
    BY <1>1, StepOuts
  <2> QED BY <2>1 DEF Output
<1>10. RequestsInv'
  BY <1>1, <1>7, <1>8, <1>9 DEF RequestsInv
<1>11. NoOrphanedWork'
  BY <1>1, <1>5 DEF AsyncInv, NoOrphanedWork
<1> QED BY <1>10, <1>11

LEMMA RequestsThread ==
  ASSUME AsyncInv, ThreadNext
  PROVE  RequestsInv' /\ NoOrphanedWork'
<1>1. CASE TakeInbox
  BY <1>1, RequestsTakeInbox
<1>2. CASE TakeAbort
  BY <1>2, RequestsTakeAbort
<1>3. CASE Step
  <2>1. PICK served \in SUBSET Id : \E ended \in SUBSET served : StepServing(served, ended)
    BY <1>3 DEF Step
  <2> QED BY <2>1, RequestsStep
<1>4. CASE DispatchOne
  <2>1. /\ outs \in Seq(Item) /\ outs # << >> /\ outs' = Tail(outs) /\ thread' = thread
        /\ thread = "dispatch" /\ UNCHANGED <<pc, inbox, aborts, live, produced>>
    BY <1>4 DEF AsyncInv, TypeOK, DispatchOne, clientVars, sharedVars
  <2>2. \A c \in Client : Fresh(c)' <=> Fresh(c)
    BY <2>1 DEF Fresh
  <2>3. \A i \in 1 .. Len(outs') : outs'[i] = outs[i + 1] /\ i + 1 \in 1 .. Len(outs)
    BY <2>1
  <2>4. \A i \in 1 .. Len(outs') : outs'[i].kind # "error"
    BY <2>3 DEF AsyncInv, RequestsInv
  <2>5. RequestsInv'
    BY <2>1, <2>2, <2>4 DEF AsyncInv, RequestsInv
  <2>6. NoOrphanedWork'
    BY <2>1 DEF AsyncInv, NoOrphanedWork
  <2> QED BY <2>5, <2>6
<1>5. CASE StartDrain \/ InboxDone \/ AbortsDone \/ StepRaises \/ DispatchDone \/ FailAll
  <2>1. UNCHANGED <<pc, inbox, aborts, live, produced, outs>>
    BY <1>5 DEF StartDrain, InboxDone, AbortsDone, StepRaises, DispatchDone, FailAll,
                clientVars, sharedVars, engineVars
  <2>2. \A c \in Client : Fresh(c)' <=> Fresh(c)
    BY <2>1 DEF Fresh
  <2>3. thread' = "aborts" => inbox = << >>
    BY <1>5 DEF StartDrain, InboxDone, AbortsDone, StepRaises, DispatchDone, FailAll
  <2>4. outs = << >>
    BY <1>5 DEF StartDrain, InboxDone, AbortsDone, StepRaises, DispatchDone, FailAll, AsyncInv,
                RequestsInv
  <2>5. RequestsInv'
    BY <2>1, <2>2, <2>3, <2>4 DEF AsyncInv, RequestsInv
  <2>6. NoOrphanedWork'
    BY <2>1 DEF AsyncInv, NoOrphanedWork
  <2> QED BY <2>5, <2>6
<1> QED BY <1>1, <1>2, <1>3, <1>4, <1>5 DEF ThreadNext

LEMMA AsyncInit == Init => AsyncInv
BY TypeInit, RequestsInit DEF AsyncInv

LEMMA AsyncNext == AsyncInv /\ [Next]_vars => AsyncInv'
<1> SUFFICES ASSUME AsyncInv, [Next]_vars PROVE AsyncInv'
  OBVIOUS
<1>1. TypeOK /\ RequestsInv
  BY DEF AsyncInv
<1>2. CASE \E c \in Client : ClientNext(c)
  BY <1>1, <1>2, TypeClient, RequestsClient DEF AsyncInv
<1>3. CASE ThreadNext
  BY <1>1, <1>3, TypeThread, RequestsThread DEF AsyncInv
<1>4. CASE LoopNext \/ \E l \in Loop : Start(l)
  <2>1. PICK l \in Loop : RunCallback(l) \/ Start(l)
    BY <1>4 DEF LoopNext
  <2> QED BY <1>1, <2>1, TypeLoop, RequestsLoop DEF AsyncInv
<1>5. CASE Shutdown \/ UNCHANGED vars
  <2>1. UNCHANGED <<pc, inbox, aborts, live, produced, outs, thread>>
    BY <1>5 DEF Shutdown, vars, clientVars, sharedVars, engineVars
  <2>2. \A c \in Client : Fresh(c)' <=> Fresh(c)
    BY <2>1 DEF Fresh
  <2>3. RequestsInv' /\ NoOrphanedWork'
    BY <2>1, <2>2 DEF AsyncInv, RequestsInv, NoOrphanedWork
  <2>4. TypeOK'
    BY <1>1, <1>5 DEF Shutdown, vars, clientVars, sharedVars, engineVars, TypeOK
  <2> QED BY <2>3, <2>4 DEF AsyncInv
<1> QED BY <1>2, <1>3, <1>4, <1>5 DEF Next

LEMMA AsyncCorrect == Spec => []AsyncInv
BY AsyncInit, AsyncNext, PTL DEF Spec

-----------------------------------------------------------------------------
(* Ways: what happens to a stream when its way changes. *)

\* What is added for others, and errors, change no stream.
LEMMA ExtendWay ==
  ASSUME NEW c \in Client, NEW lo \in Nat, NEW hi \in Nat,
         NEW way \in Seq(Call), NEW more \in Seq(Call),
         \A i \in 1 .. Len(more) : more[i].client = c => more[i].item.kind = "error"
  PROVE  /\ Exact(c, way, lo, hi) => Exact(c, way \o more, lo, hi)
         /\ NotFinal(c, way) => NotFinal(c, way \o more)
<1> DEFINE longer == way \o more
<1>1. /\ Len(longer) = Len(way) + Len(more) /\ Len(way) \in Nat /\ Len(more) \in Nat
      /\ \A i \in 1 .. Len(way) : longer[i] = way[i]
      /\ \A i \in 1 .. Len(longer) : i \notin 1 .. Len(way) =>
            i - Len(way) \in 1 .. Len(more) /\ longer[i] = more[i - Len(way)]
  OBVIOUS
<1> HIDE DEF longer
<1>2. OutputsFor(c, longer) = OutputsFor(c, way)
  BY <1>1 DEF OutputsFor
<1>3. \A i \in OutputsFor(c, way) : longer[i] = way[i]
  BY <1>1 DEF OutputsFor
<1>4. {longer[i].item.n : i \in OutputsFor(c, longer)} = {way[i].item.n : i \in OutputsFor(c, way)}
  BY <1>2, <1>3
<1>5. Exact(c, way, lo, hi) => Exact(c, longer, lo, hi)
  BY <1>2, <1>3, <1>4 DEF Exact
<1>6. NotFinal(c, way) => NotFinal(c, longer)
  BY <1>2, <1>3 DEF NotFinal
<1> QED BY <1>5, <1>6 DEF longer

\* The next output of the request follows the others, of which none was the last.
LEMMA ProduceOnWay ==
  ASSUME NEW c \in Client, NEW lo \in Nat, NEW hi \in Nat, lo <= hi,
         NEW way \in Seq(Call), NEW more \in Seq(Call), NEW k \in 1 .. Len(more),
         more[k].client = c, more[k].item.kind # "error",
         more[k].item.owner = c, more[k].item.n = hi + 1,
         \A i \in 1 .. Len(more) : more[i].client = c => i = k,
         Exact(c, way, lo, hi), NotFinal(c, way)
  PROVE  /\ Exact(c, way \o more, lo, hi + 1)
         /\ more[k].item.kind # "final" => NotFinal(c, way \o more)
<1> DEFINE longer == way \o more
<1> DEFINE m == Len(way) + k
<1>1. /\ Len(longer) = Len(way) + Len(more) /\ Len(way) \in Nat /\ Len(more) \in Nat
      /\ \A i \in 1 .. Len(way) : longer[i] = way[i]
      /\ \A i \in 1 .. Len(longer) : i \notin 1 .. Len(way) =>
            i - Len(way) \in 1 .. Len(more) /\ longer[i] = more[i - Len(way)]
  OBVIOUS
<1>2. m \in 1 .. Len(longer) /\ m \notin 1 .. Len(way) /\ longer[m] = more[k]
  BY <1>1
<1>3. \A i \in 1 .. Len(longer) : i \notin 1 .. Len(way) /\ longer[i].client = c => i = m
  BY <1>1
<1> HIDE DEF longer, m
<1>4. OutputsFor(c, longer) = OutputsFor(c, way) \cup {m}
  BY <1>1, <1>2, <1>3 DEF OutputsFor
<1>5. \A i \in OutputsFor(c, way) : longer[i] = way[i] /\ i < m
  BY <1>1 DEF OutputsFor, m
<1>6. {longer[i].item.n : i \in OutputsFor(c, longer)} = lo + 1 .. hi + 1
  <2>1. {longer[i].item.n : i \in OutputsFor(c, longer)}
          = {way[i].item.n : i \in OutputsFor(c, way)} \cup {hi + 1}
    BY <1>2, <1>4, <1>5
  <2>2. {way[i].item.n : i \in OutputsFor(c, way)} = lo + 1 .. hi
    BY DEF Exact
  <2>3. (lo + 1 .. hi) \cup {hi + 1} = lo + 1 .. hi + 1
    OBVIOUS
  <2> QED BY <2>1, <2>2, <2>3
<1>7. \A i \in OutputsFor(c, way) : way[i].item.n \in lo + 1 .. hi
  BY DEF Exact
<1>8. \A i, j \in OutputsFor(c, longer) : i < j =>
         longer[i].item.n < longer[j].item.n /\ longer[i].item.kind # "final"
  <2> SUFFICES ASSUME NEW i \in OutputsFor(c, longer), NEW j \in OutputsFor(c, longer), i < j
               PROVE  longer[i].item.n < longer[j].item.n /\ longer[i].item.kind # "final"
    OBVIOUS
  <2>1. m \in Nat /\ i \in Nat /\ j \in Nat
    BY <1>1, <1>2 DEF OutputsFor
  <2>2. i \in OutputsFor(c, way)
    BY <1>4, <1>5, <2>1
  <2>3. longer[i] = way[i] /\ way[i].item.n \in lo + 1 .. hi /\ way[i].item.kind # "final"
    BY <1>5, <1>7, <2>2 DEF NotFinal
  <2>4. CASE j = m
    BY <1>2, <2>3, <2>4
  <2>5. CASE j \in OutputsFor(c, way)
    BY <1>5, <2>2, <2>3, <2>5 DEF Exact
  <2> QED BY <1>4, <2>4, <2>5
<1>9. \A i \in OutputsFor(c, longer) : longer[i].item.owner = c
  BY <1>2, <1>4, <1>5 DEF Exact
<1>10. Exact(c, longer, lo, hi + 1)
  BY <1>6, <1>8, <1>9 DEF Exact
<1>11. more[k].item.kind # "final" => NotFinal(c, longer)
  BY <1>2, <1>4, <1>5 DEF NotFinal
<1> QED BY <1>10, <1>11 DEF longer

\* Nothing happens to the stream of c when what leaves its way is not an output for c.
LEMMA RemoveFromWay ==
  ASSUME NEW c \in Client, NEW lo \in Nat, NEW hi \in Nat,
         NEW way \in Seq(Call), NEW shorter \in Seq(Call), NEW k \in 1 .. Len(way),
         k \notin OutputsFor(c, way), Len(shorter) + 1 = Len(way),
         \A i \in 1 .. Len(shorter) : shorter[i] = way[IF i < k THEN i ELSE i + 1]
  PROVE  /\ Exact(c, way, lo, hi) => Exact(c, shorter, lo, hi)
         /\ NotFinal(c, way) => NotFinal(c, shorter)
<1> DEFINE at(i) == IF i < k THEN i ELSE i + 1
<1>1. /\ Len(way) \in Nat /\ Len(shorter) \in Nat
      /\ \A i \in 1 .. Len(shorter) : at(i) \in 1 .. Len(way) /\ shorter[i] = way[at(i)]
      /\ \A i, j \in 1 .. Len(shorter) : i < j => at(i) < at(j)
      /\ \A m \in 1 .. Len(way) : m # k => \E i \in 1 .. Len(shorter) : at(i) = m
  <2>1. \A m \in 1 .. Len(way) : m < k => m \in 1 .. Len(shorter) /\ at(m) = m
    OBVIOUS
  <2>2. \A m \in 1 .. Len(way) : m > k => m - 1 \in 1 .. Len(shorter) /\ at(m - 1) = m
    OBVIOUS
  <2>3. Len(way) \in Nat /\ Len(shorter) \in Nat /\ k \in Nat
    OBVIOUS
  <2>4. \A i \in 1 .. Len(shorter) : at(i) \in 1 .. Len(way) /\ shorter[i] = way[at(i)]
    BY <2>3
  <2>5. \A i, j \in 1 .. Len(shorter) : i < j => at(i) < at(j)
    BY <2>3
  <2> HIDE DEF at
  <2>6. \A m \in 1 .. Len(way) : m # k => \E i \in 1 .. Len(shorter) : at(i) = m
    BY <2>1, <2>2, <2>3
  <2> QED BY <2>3, <2>4, <2>5, <2>6
<1> HIDE DEF at
<1>2. \A i \in OutputsFor(c, shorter) : at(i) \in OutputsFor(c, way) /\ shorter[i] = way[at(i)]
  BY <1>1 DEF OutputsFor
<1>3. \A m \in OutputsFor(c, way) : \E i \in OutputsFor(c, shorter) : at(i) = m
  <2> TAKE m \in OutputsFor(c, way)
  <2>1. m \in 1 .. Len(way) /\ m # k
    BY DEF OutputsFor
  <2>2. PICK i \in 1 .. Len(shorter) : at(i) = m
    BY <1>1, <2>1
  <2>3. i \in OutputsFor(c, shorter)
    BY <1>1, <2>2 DEF OutputsFor
  <2> QED BY <2>2, <2>3
<1>4. \A i, j \in OutputsFor(c, shorter) : i < j => at(i) < at(j)
  BY <1>1 DEF OutputsFor
<1>5. {shorter[i].item.n : i \in OutputsFor(c, shorter)} = {way[i].item.n : i \in OutputsFor(c, way)}
  BY <1>2, <1>3
<1>6. Exact(c, way, lo, hi) => Exact(c, shorter, lo, hi)
  BY <1>2, <1>4, <1>5 DEF Exact
<1>7. NotFinal(c, way) => NotFinal(c, shorter)
  BY <1>2 DEF NotFinal
<1> QED BY <1>6, <1>7

\* What the call takes from its queue is the next output, and the way goes on
\* from there.
LEMMA TakeFromWay ==
  ASSUME NEW c \in Client, NEW lo \in Nat, NEW hi \in Nat,
         NEW way \in Seq(Call), way # << >>, 1 \in OutputsFor(c, way),
         Exact(c, way, lo, hi)
  PROVE  /\ Head(way).item.n = lo + 1 /\ lo + 1 <= hi
         /\ Exact(c, Tail(way), lo + 1, hi)
         /\ NotFinal(c, way) => NotFinal(c, Tail(way))
<1> DEFINE rest == Tail(way)
<1>1. /\ Len(way) \in Nat \ {0} /\ Len(rest) = Len(way) - 1 /\ Head(way) = way[1]
      /\ \A i \in 1 .. Len(rest) : rest[i] = way[i + 1]
  OBVIOUS
<1> HIDE DEF rest
<1>2. \A i : i \in OutputsFor(c, rest) <=> i \in Nat \ {0} /\ i + 1 \in OutputsFor(c, way)
  BY <1>1 DEF OutputsFor
<1>3. \A i \in OutputsFor(c, rest) : rest[i] = way[i + 1] /\ i \in Nat \ {0}
  BY <1>1 DEF OutputsFor
<1>4. \A i \in OutputsFor(c, way) : way[i].item.n \in lo + 1 .. hi /\ i \in Nat \ {0}
  BY <1>1 DEF Exact, OutputsFor
<1>5. \A m \in lo + 1 .. hi : \E i \in OutputsFor(c, way) : way[i].item.n = m
  BY DEF Exact
<1>6. \A i \in OutputsFor(c, way) : i # 1 => way[1].item.n < way[i].item.n
  BY <1>4 DEF Exact
<1>7. way[1].item.n = lo + 1
  <2>1. way[1].item.n \in lo + 1 .. hi
    BY <1>4
  <2>2. PICK i \in OutputsFor(c, way) : way[i].item.n = lo + 1
    BY <1>5, <2>1
  <2> QED BY <1>6, <2>1, <2>2
<1>8. {rest[i].item.n : i \in OutputsFor(c, rest)} = lo + 2 .. hi
  <2>1. ASSUME NEW i \in OutputsFor(c, rest) PROVE rest[i].item.n \in lo + 2 .. hi
    <3>1. i + 1 \in OutputsFor(c, way) /\ rest[i] = way[i + 1] /\ i + 1 # 1
      BY <1>2, <1>3
    <3> QED BY <1>4, <1>6, <1>7, <3>1
  <2>2. ASSUME NEW m \in lo + 2 .. hi PROVE \E i \in OutputsFor(c, rest) : rest[i].item.n = m
    <3>1. PICK i \in OutputsFor(c, way) : way[i].item.n = m
      BY <1>5, <2>2
    <3>2. i # 1 /\ i \in Nat \ {0}
      BY <1>4, <1>7, <3>1, <2>2
    <3>3. i - 1 \in Nat \ {0} /\ (i - 1) + 1 = i
      BY <3>2
    <3>4. i - 1 \in OutputsFor(c, rest)
      BY <1>2, <3>3
    <3> QED BY <1>3, <3>1, <3>3, <3>4
  <2> QED BY <2>1, <2>2
<1>9. \A i, j \in OutputsFor(c, rest) : i < j =>
         rest[i].item.n < rest[j].item.n /\ rest[i].item.kind # "final"
  BY <1>2, <1>3 DEF Exact
<1>10. \A i \in OutputsFor(c, rest) : rest[i].item.owner = c
  BY <1>2, <1>3 DEF Exact
<1>11. Exact(c, rest, lo + 1, hi)
  BY <1>8, <1>9, <1>10 DEF Exact
<1>12. NotFinal(c, way) => NotFinal(c, rest)
  BY <1>2, <1>3 DEF NotFinal
<1>13. lo + 1 <= hi
  BY <1>4, <1>7
<1> QED BY <1>1, <1>7, <1>11, <1>12, <1>13 DEF rest

-----------------------------------------------------------------------------
(* The parts of a way. *)

\* An element that moves from the head of one sequence to the end of another.
LEMMA MoveHead ==
  ASSUME NEW S, NEW s \in Seq(S), NEW t \in Seq(S), t # << >>
  PROVE  Append(s, Head(t)) \o Tail(t) = s \o t
<1> DEFINE a == Append(s, Head(t))
<1> DEFINE r == Tail(t)
<1>1. /\ Head(t) \in S /\ Head(t) = t[1] /\ Len(t) \in Nat \ {0} /\ Len(s) \in Nat
      /\ r \in Seq(S) /\ Len(r) = Len(t) - 1 /\ \A i \in 1 .. Len(r) : r[i] = t[i + 1]
  BY HeadTailProperties
<1>2. /\ a \in Seq(S) /\ Len(a) = Len(s) + 1 /\ a[Len(s) + 1] = t[1]
      /\ \A i \in 1 .. Len(s) : a[i] = s[i]
  BY <1>1
<1> HIDE DEF a, r
<1>3. /\ a \o r \in Seq(S) /\ Len(a \o r) = Len(a) + Len(r)
      /\ \A i \in 1 .. Len(a) + Len(r) : (a \o r)[i] = IF i <= Len(a) THEN a[i] ELSE r[i - Len(a)]
  BY <1>1, <1>2, ConcatProperties
<1>4. /\ s \o t \in Seq(S) /\ Len(s \o t) = Len(s) + Len(t)
      /\ \A i \in 1 .. Len(s) + Len(t) : (s \o t)[i] = IF i <= Len(s) THEN s[i] ELSE t[i - Len(s)]
  BY ConcatProperties
<1>5. Len(a \o r) = Len(s \o t)
  BY <1>1, <1>2, <1>3, <1>4
<1>6. \A i \in 1 .. Len(s \o t) : (a \o r)[i] = (s \o t)[i]
  <2> TAKE i \in 1 .. Len(s \o t)
  <2>1. /\ (a \o r)[i] = IF i <= Len(a) THEN a[i] ELSE r[i - Len(a)]
        /\ (s \o t)[i] = IF i <= Len(s) THEN s[i] ELSE t[i - Len(s)]
    BY <1>3, <1>4, <1>5
  <2>2. CASE i <= Len(s)
    BY <1>1, <1>2, <2>1, <2>2
  <2>3. CASE i = Len(s) + 1
    <3>1. (Len(s) + 1) - Len(s) = 1 /\ ~(Len(s) + 1 <= Len(s))
      BY <1>1
    <3> QED BY <1>2, <2>1, <2>3, <3>1
  <2>4. CASE i > Len(s) + 1
    <3>1. i - Len(a) \in 1 .. Len(r) /\ (i - Len(a)) + 1 = i - Len(s)
      BY <1>1, <1>2, <1>4, <2>4
    <3> QED BY <1>1, <1>2, <2>1, <2>4, <3>1
  <2>5. i \in Nat /\ Len(s) \in Nat
    BY <1>1, <1>4
  <2>6. i <= Len(s) \/ i = Len(s) + 1 \/ i > Len(s) + 1
    BY <2>5
  <2> QED BY <2>2, <2>3, <2>4, <2>6
<1>7. a \o r = s \o t
  BY <1>3, <1>4, <1>5, <1>6, SeqEqual
<1> QED BY <1>7 DEF a, r

LEMMA TailOfConcat ==
  ASSUME NEW S, NEW s \in Seq(S), NEW t \in Seq(S), s # << >>
  PROVE  /\ s \o t # << >>
         /\ Head(s \o t) = Head(s)
         /\ Tail(s \o t) = Tail(s) \o t
<1> DEFINE u == s \o t
<1> DEFINE r == Tail(s)
<1>1. /\ Head(s) = s[1] /\ Len(s) \in Nat \ {0} /\ Len(t) \in Nat
      /\ r \in Seq(S) /\ Len(r) = Len(s) - 1 /\ \A i \in 1 .. Len(r) : r[i] = s[i + 1]
  BY HeadTailProperties
<1>2. /\ u \in Seq(S) /\ Len(u) = Len(s) + Len(t)
      /\ \A i \in 1 .. Len(s) + Len(t) : u[i] = IF i <= Len(s) THEN s[i] ELSE t[i - Len(s)]
  BY ConcatProperties
<1> HIDE DEF u, r
<1>3. u # << >> /\ Head(u) = u[1] /\ u[1] = s[1]
  BY <1>1, <1>2
<1>4. /\ Tail(u) \in Seq(S) /\ Len(Tail(u)) = Len(u) - 1
      /\ \A i \in 1 .. Len(Tail(u)) : Tail(u)[i] = u[i + 1]
  BY <1>2, <1>3, HeadTailProperties
<1>5. /\ r \o t \in Seq(S) /\ Len(r \o t) = Len(r) + Len(t)
      /\ \A i \in 1 .. Len(r) + Len(t) : (r \o t)[i] = IF i <= Len(r) THEN r[i] ELSE t[i - Len(r)]
  BY <1>1, ConcatProperties
<1>6. Len(Tail(u)) = Len(r \o t)
  BY <1>1, <1>2, <1>4, <1>5
<1>7. \A i \in 1 .. Len(Tail(u)) : Tail(u)[i] = (r \o t)[i]
  <2> TAKE i \in 1 .. Len(Tail(u))
  <2>1. /\ Tail(u)[i] = IF i + 1 <= Len(s) THEN s[i + 1] ELSE t[(i + 1) - Len(s)]
        /\ (r \o t)[i] = IF i <= Len(r) THEN r[i] ELSE t[i - Len(r)]
    BY <1>1, <1>2, <1>4, <1>5, <1>6
  <2>2. CASE i <= Len(r)
    BY <1>1, <2>1, <2>2
  <2>3. CASE ~(i <= Len(r))
    <3>1. (i + 1) - Len(s) = i - Len(r) /\ ~(i + 1 <= Len(s))
      BY <1>1, <2>3
    <3> QED BY <2>1, <2>3, <3>1
  <2> QED BY <2>2, <2>3
<1>8. Tail(u) = r \o t
  BY <1>4, <1>5, <1>6, <1>7, SeqEqual
<1> QED BY <1>1, <1>3, <1>8 DEF u, r

LEMMA AppendToConcat ==
  ASSUME NEW S, NEW s \in Seq(S), NEW t \in Seq(S), NEW e \in S
  PROVE  s \o Append(t, e) = Append(s \o t, e)
<1>1. \A u \in Seq(S) : Append(u, e) = u \o << e >>
  OBVIOUS
<1>2. << e >> \in Seq(S) /\ s \o t \in Seq(S)
  BY ConcatProperties
<1>3. s \o (t \o << e >>) = (s \o t) \o << e >>
  BY <1>2, ConcatAssociative
<1> QED BY <1>1, <1>2, <1>3

\* Nothing happens to a stream when what leaves its way is not an output of it.
LEMMA DropFromWay ==
  ASSUME NEW c \in Client, NEW lo \in Nat, NEW hi \in Nat,
         NEW s \in Seq(Call), NEW t \in Seq(Call), t # << >>,
         Len(s) + 1 \notin OutputsFor(c, s \o t)
  PROVE  /\ Exact(c, s \o t, lo, hi) => Exact(c, s \o Tail(t), lo, hi)
         /\ NotFinal(c, s \o t) => NotFinal(c, s \o Tail(t))
<1> DEFINE way == s \o t
<1> DEFINE r == Tail(t)
<1> DEFINE shorter == s \o r
<1>1. /\ Len(t) \in Nat \ {0} /\ Len(s) \in Nat
      /\ r \in Seq(Call) /\ Len(r) = Len(t) - 1 /\ \A i \in 1 .. Len(r) : r[i] = t[i + 1]
  BY HeadTailProperties
<1> HIDE DEF r
<1>2. /\ way \in Seq(Call) /\ Len(way) = Len(s) + Len(t)
      /\ \A i \in 1 .. Len(s) + Len(t) : way[i] = IF i <= Len(s) THEN s[i] ELSE t[i - Len(s)]
  BY ConcatProperties
<1>3. /\ shorter \in Seq(Call) /\ Len(shorter) = Len(s) + Len(r)
      /\ \A i \in 1 .. Len(s) + Len(r) : shorter[i] = IF i <= Len(s) THEN s[i] ELSE r[i - Len(s)]
  BY <1>1, ConcatProperties
<1>4. Len(s) + 1 \notin OutputsFor(c, way)
  OBVIOUS
<1> HIDE DEF way, shorter
<1> DEFINE k == Len(s) + 1
<1>5. k \in 1 .. Len(way) /\ Len(shorter) + 1 = Len(way)
  BY <1>1, <1>2, <1>3
<1>6. \A i \in 1 .. Len(shorter) : shorter[i] = way[IF i < k THEN i ELSE i + 1]
  <2> TAKE i \in 1 .. Len(shorter)
  <2>1. CASE i <= Len(s)
    BY <1>1, <1>2, <1>3, <2>1
  <2>2. CASE ~(i <= Len(s))
    <3>1. /\ i - Len(s) \in 1 .. Len(r) /\ (i - Len(s)) + 1 = (i + 1) - Len(s)
          /\ ~(i < k) /\ ~(i + 1 <= Len(s)) /\ i + 1 \in 1 .. Len(s) + Len(t)
      BY <1>1, <1>3, <2>2
    <3>2. shorter[i] = r[i - Len(s)]
      BY <1>3, <2>2
    <3>3. way[i + 1] = t[(i + 1) - Len(s)]
      BY <1>2, <3>1
    <3> HIDE DEF k
    <3> QED BY <1>1, <3>1, <3>2, <3>3
  <2> QED BY <2>1, <2>2
<1> HIDE DEF k
<1>7. k \notin OutputsFor(c, way)
  BY <1>4 DEF k
<1> QED BY <1>2, <1>3, <1>5, <1>6, <1>7, RemoveFromWay DEF way, shorter, r

\* A way is made of a queue, the callbacks of a loop and the items of a step.
FromQueue(c, queue) == [i \in 1 .. Len(queue) |-> [client |-> c, item |-> queue[i]]]

FromStep(items) == [i \in 1 .. Len(items) |-> [client |-> items[i].owner, item |-> items[i]]]

LEMMA QueueParts ==
  ASSUME NEW c \in Client, NEW queue \in Seq(Item)
  PROVE  /\ FromQueue(c, queue) \in Seq(Call) /\ Len(FromQueue(c, queue)) = Len(queue)
         /\ \A i \in 1 .. Len(queue) : FromQueue(c, queue)[i] = [client |-> c, item |-> queue[i]]
<1>1. \A i \in 1 .. Len(queue) : [client |-> c, item |-> queue[i]] \in Call
  BY DEF Call
<1>2. Len(queue) \in Nat
  OBVIOUS
<1> QED BY <1>1, <1>2 DEF FromQueue

LEMMA PutInQueue ==
  ASSUME NEW c \in Client, NEW queue \in Seq(Item), NEW item \in Item
  PROVE  FromQueue(c, Append(queue, item))
            = Append(FromQueue(c, queue), [client |-> c, item |-> item])
<1> DEFINE q == Append(queue, item)
<1> DEFINE e == [client |-> c, item |-> item]
<1>1. /\ q \in Seq(Item) /\ Len(q) = Len(queue) + 1 /\ Len(queue) \in Nat
      /\ q[Len(queue) + 1] = item /\ \A i \in 1 .. Len(queue) : q[i] = queue[i]
  OBVIOUS
<1>2. e \in Call
  BY DEF Call
<1> HIDE DEF q
<1> DEFINE a == FromQueue(c, queue)
<1> DEFINE b == FromQueue(c, q)
<1>3. /\ a \in Seq(Call) /\ Len(a) = Len(queue)
      /\ \A i \in 1 .. Len(queue) : a[i] = [client |-> c, item |-> queue[i]]
  BY QueueParts
<1>4. /\ b \in Seq(Call) /\ Len(b) = Len(queue) + 1
      /\ \A i \in 1 .. Len(queue) + 1 : b[i] = [client |-> c, item |-> q[i]]
  BY <1>1, QueueParts
<1> HIDE DEF a, b
<1>5. \A i \in 1 .. Len(queue) : b[i] = a[i]
  BY <1>1, <1>3, <1>4
<1>6. b[Len(queue) + 1] = e
  BY <1>1, <1>4
<1> HIDE DEF e
<1>7. /\ Append(a, e) \in Seq(Call) /\ Len(Append(a, e)) = Len(queue) + 1
      /\ \A i \in 1 .. Len(queue) : Append(a, e)[i] = a[i]
      /\ Append(a, e)[Len(queue) + 1] = e
  BY <1>1, <1>2, <1>3
<1>8. \A i \in 1 .. Len(b) : b[i] = Append(a, e)[i]
  BY <1>1, <1>4, <1>5, <1>6, <1>7
<1>9. b = Append(a, e)
  BY <1>4, <1>7, <1>8, SeqEqual
<1> QED BY <1>9 DEF a, b, q, e

LEMMA TakeFromQueue ==
  ASSUME NEW c \in Client, NEW queue \in Seq(Item), queue # << >>
  PROVE  /\ FromQueue(c, queue) # << >>
         /\ Head(FromQueue(c, queue)) = [client |-> c, item |-> Head(queue)]
         /\ FromQueue(c, Tail(queue)) = Tail(FromQueue(c, queue))
<1> DEFINE q == Tail(queue)
<1> DEFINE a == FromQueue(c, queue)
<1> DEFINE b == FromQueue(c, q)
<1>1. /\ q \in Seq(Item) /\ Len(q) = Len(queue) - 1 /\ Len(queue) \in Nat \ {0}
      /\ Head(queue) = queue[1] /\ \A i \in 1 .. Len(q) : q[i] = queue[i + 1]
  BY HeadTailProperties
<1> HIDE DEF q
<1>2. /\ a \in Seq(Call) /\ Len(a) = Len(queue)
      /\ \A i \in 1 .. Len(queue) : a[i] = [client |-> c, item |-> queue[i]]
  BY QueueParts
<1>3. /\ b \in Seq(Call) /\ Len(b) = Len(q)
      /\ \A i \in 1 .. Len(q) : b[i] = [client |-> c, item |-> q[i]]
  BY <1>1, QueueParts
<1> HIDE DEF a, b
<1>4. a # << >> /\ Head(a) = [client |-> c, item |-> Head(queue)]
  <2>1. 1 \in 1 .. Len(queue) /\ Len(a) \in Nat \ {0}
    BY <1>1, <1>2
  <2>2. a # << >> /\ Head(a) = a[1]
    BY <1>2, <2>1
  <2> QED BY <1>1, <1>2, <2>1, <2>2
<1>5. /\ Tail(a) \in Seq(Call) /\ Len(Tail(a)) = Len(q)
      /\ \A i \in 1 .. Len(q) : Tail(a)[i] = a[i + 1]
  BY <1>1, <1>2, <1>4, HeadTailProperties
<1>6. \A i \in 1 .. Len(b) : b[i] = Tail(a)[i]
  <2> TAKE i \in 1 .. Len(b)
  <2>1. i \in 1 .. Len(q) /\ i + 1 \in 1 .. Len(queue)
    BY <1>1, <1>3
  <2>2. b[i] = [client |-> c, item |-> q[i]] /\ Tail(a)[i] = a[i + 1] /\ q[i] = queue[i + 1]
    BY <1>1, <1>3, <1>5, <2>1
  <2> QED BY <1>2, <2>1, <2>2
<1>7. b = Tail(a)
  BY <1>3, <1>5, <1>6, SeqEqual
<1> QED BY <1>4, <1>7 DEF a, b, q

LEMMA StepParts ==
  ASSUME NEW items \in Seq(Item), \A i \in 1 .. Len(items) : items[i].owner \in Client
  PROVE  /\ FromStep(items) \in Seq(Call) /\ Len(FromStep(items)) = Len(items)
         /\ \A i \in 1 .. Len(items) :
               FromStep(items)[i] = [client |-> items[i].owner, item |-> items[i]]
<1>1. \A i \in 1 .. Len(items) : [client |-> items[i].owner, item |-> items[i]] \in Call
  BY DEF Call
<1>2. Len(items) \in Nat
  OBVIOUS
<1> QED BY <1>1, <1>2 DEF FromStep

LEMMA TakeFromStep ==
  ASSUME NEW items \in Seq(Item), \A i \in 1 .. Len(items) : items[i].owner \in Client,
         items # << >>
  PROVE  /\ FromStep(items) # << >>
         /\ Head(FromStep(items)) = [client |-> Head(items).owner, item |-> Head(items)]
         /\ FromStep(Tail(items)) = Tail(FromStep(items))
<1> DEFINE q == Tail(items)
<1> DEFINE a == FromStep(items)
<1> DEFINE b == FromStep(q)
<1>1. /\ q \in Seq(Item) /\ Len(q) = Len(items) - 1 /\ Len(items) \in Nat \ {0}
      /\ Head(items) = items[1] /\ \A i \in 1 .. Len(q) : q[i] = items[i + 1]
  BY HeadTailProperties
<1> HIDE DEF q
<1>2. /\ a \in Seq(Call) /\ Len(a) = Len(items)
      /\ \A i \in 1 .. Len(items) : a[i] = [client |-> items[i].owner, item |-> items[i]]
  BY StepParts
<1>3. \A i \in 1 .. Len(q) : q[i].owner \in Client
  BY <1>1
<1>4. /\ b \in Seq(Call) /\ Len(b) = Len(q)
      /\ \A i \in 1 .. Len(q) : b[i] = [client |-> q[i].owner, item |-> q[i]]
  BY <1>1, <1>3, StepParts
<1> HIDE DEF a, b
<1>5. a # << >> /\ Head(a) = [client |-> Head(items).owner, item |-> Head(items)]
  <2>1. 1 \in 1 .. Len(items) /\ Len(a) \in Nat \ {0}
    BY <1>1, <1>2
  <2>2. a # << >> /\ Head(a) = a[1]
    BY <1>2, <2>1
  <2> QED BY <1>1, <1>2, <2>1, <2>2
<1>6. /\ Tail(a) \in Seq(Call) /\ Len(Tail(a)) = Len(q)
      /\ \A i \in 1 .. Len(q) : Tail(a)[i] = a[i + 1]
  BY <1>1, <1>2, <1>5, HeadTailProperties
<1>7. \A i \in 1 .. Len(b) : b[i] = Tail(a)[i]
  <2> TAKE i \in 1 .. Len(b)
  <2>1. i \in 1 .. Len(q) /\ i + 1 \in 1 .. Len(items)
    BY <1>1, <1>4
  <2>2. b[i] = [client |-> q[i].owner, item |-> q[i]] /\ Tail(a)[i] = a[i + 1] /\ q[i] = items[i + 1]
    BY <1>1, <1>4, <1>6, <2>1
  <2> QED BY <1>2, <2>1, <2>2
<1>8. b = Tail(a)
  BY <1>4, <1>6, <1>7, SeqEqual
<1> QED BY <1>5, <1>8 DEF a, b, q

\* The way of a call, and what it consists of.
LEMMA WayTypes ==
  ASSUME AsyncInv, NEW c \in Client
  PROVE  /\ mailbox[c] \in Seq(Item) /\ callbacks[LoopOf[c]] \in Seq(Call) /\ outs \in Seq(Item)
         /\ \A i \in 1 .. Len(outs) : outs[i].owner \in Client
         /\ received[c] \in Nat /\ produced[c] \in Nat
         /\ FromQueue(c, mailbox[c]) \in Seq(Call) /\ FromStep(outs) \in Seq(Call)
         /\ OnItsWay(c) = (FromQueue(c, mailbox[c]) \o callbacks[LoopOf[c]]) \o FromStep(outs)
         /\ OnItsWay(c) \in Seq(Call)
<1>1. /\ mailbox[c] \in Seq(Item) /\ outs \in Seq(Item)
      /\ received[c] \in Nat /\ produced[c] \in Nat
  BY DEF AsyncInv, TypeOK
<1>2. LoopOf[c] \in Loop /\ callbacks \in [Loop -> Seq(Call)]
  BY AsyncAssumption DEF AsyncAssumption, AsyncInv, TypeOK, Call
<1>3. \A i \in 1 .. Len(outs) : outs[i].owner \in Client
  <2> TAKE i \in 1 .. Len(outs)
  <2>1. outs[i] \in Item
    BY <1>1
  <2>2. outs[i].kind # "error"
    BY DEF AsyncInv, RequestsInv
  <2> QED BY <2>1, <2>2 DEF Item
<1>4. OnItsWay(c) = (FromQueue(c, mailbox[c]) \o callbacks[LoopOf[c]]) \o FromStep(outs)
  BY DEF OnItsWay, FromQueue, FromStep
<1>5. callbacks[LoopOf[c]] \in Seq(Call)
  BY <1>2
<1>6. FromQueue(c, mailbox[c]) \in Seq(Call) /\ FromStep(outs) \in Seq(Call)
  BY <1>1, <1>3, QueueParts, StepParts
<1>7. OnItsWay(c) \in Seq(Call)
  BY <1>4, <1>5, <1>6, ConcatProperties
<1> QED BY <1>1, <1>3, <1>4, <1>5, <1>6, <1>7

LEMMA NextWay ==
  ASSUME NEW c \in Client
  PROVE  OnItsWay(c)' = (FromQueue(c, mailbox'[c]) \o callbacks'[LoopOf[c]]) \o FromStep(outs')
BY DEF OnItsWay, FromQueue, FromStep

\* A step that leaves a call, its request and its way alone leaves its stream alone.
LEMMA StreamFrame ==
  ASSUME AsyncInv, NEW c \in Client, StreamOf(c),
         received'[c] = received[c], produced'[c] = produced[c],
         Fresh(c)' => Fresh(c), Open(c)' => Open(c),
         live'[IdOf[c]] = c => live[IdOf[c]] = c,
         OnItsWay(c)' = OnItsWay(c)
  PROVE  StreamOf(c)'
BY DEF StreamOf, Exact, NotFinal, OutputsFor

\* Before the first token there is nothing on the way.
LEMMA NothingYet ==
  ASSUME AsyncInv, NEW c \in Client, StreamOf(c), Open(c), produced[c] = 0
  PROVE  OutputsFor(c, OnItsWay(c)) = {} /\ NotFinal(c, OnItsWay(c))
<1>1. received[c] \in Nat /\ received[c] <= 0
  BY WayTypes DEF StreamOf
<1>2. {OnItsWay(c)[i].item.n : i \in OutputsFor(c, OnItsWay(c))} = received[c] + 1 .. 0
  BY DEF StreamOf, Exact
<1>3. OutputsFor(c, OnItsWay(c)) = {}
  <2> SUFFICES ASSUME NEW i \in OutputsFor(c, OnItsWay(c)) PROVE FALSE
    OBVIOUS
  <2>1. OnItsWay(c)[i].item.n \in received[c] + 1 .. 0
    BY <1>2
  <2> QED BY <1>1, <2>1
<1> QED BY <1>3 DEF NotFinal

\* A step of a call: another one's stream does not notice.
LEMMA StreamClient ==
  ASSUME AsyncInv, WaysInv, NEW d \in Client, ClientNext(d), NEW c \in Client
  PROVE  StreamOf(c)'
<1>1. UNCHANGED <<callbacks, live, produced, outs>>
  <2>1. UNCHANGED engineVars
    BY DEF ClientNext, Progress, CheckError, BindLoop, RegisterQueue, Enqueue, Receive, PopQueue,
         AppendAbort, HangUp, AbortAndHangUp
  <2>2. UNCHANGED callbacks
    BY DEF ClientNext, Progress, CheckError, BindLoop, RegisterQueue, Enqueue, Receive, PopQueue,
         AppendAbort, HangUp, AbortAndHangUp
  <2> QED BY <2>1, <2>2 DEF engineVars
<1>2. /\ pc \in [Client -> {"idle", "checked", "bound", "registered", "waiting",
                            "leaving", "popped", "closed"}]
      /\ received \in [Client -> 0 .. MaxOutputs] /\ mailbox \in [Client -> Seq(Item)]
  BY DEF AsyncInv, TypeOK
<1>3. StreamOf(c)
  BY DEF WaysInv
<1>4. CASE Receive(d) /\ c = d
  <2> DEFINE item == Head(mailbox[c])
  <2> DEFINE way == OnItsWay(c)
  <2>1. /\ pc[c] = "waiting" /\ mailbox[c] # << >>
        /\ received' = IF item.kind = "error" THEN received ELSE [received EXCEPT ![c] = item.n]
        /\ pc' = [pc EXCEPT ![c] = IF item.kind = "output" THEN "waiting" ELSE "leaving"]
        /\ mailbox' = [mailbox EXCEPT ![c] = Tail(@)]
    BY <1>4 DEF Receive, Goto
  <2>2. pc'[c] = IF item.kind = "output" THEN "waiting" ELSE "leaving"
    BY <1>2, <2>1
  <2>3. ~Fresh(c)'
    BY <2>2 DEF Fresh
  <2>4. CASE item.kind # "output"
    <3>1. ~Open(c)'
      BY <2>2, <2>4 DEF Fresh, Open
    <3> QED BY <2>3, <3>1 DEF StreamOf
  <2>5. CASE item.kind = "output"
    <3> DEFINE q == FromQueue(c, mailbox[c])
    <3>1. /\ mailbox[c] \in Seq(Item) /\ callbacks[LoopOf[c]] \in Seq(Call)
          /\ q \in Seq(Call) /\ FromStep(outs) \in Seq(Call)
          /\ way = (q \o callbacks[LoopOf[c]]) \o FromStep(outs)
          /\ way \in Seq(Call) /\ received[c] \in Nat /\ produced[c] \in Nat
      BY WayTypes
    <3>2. /\ q # << >> /\ Head(q) = [client |-> c, item |-> item]
          /\ FromQueue(c, mailbox'[c]) = Tail(q)
      BY <1>2, <2>1, <3>1, TakeFromQueue
    <3> HIDE DEF q, way
    <3> DEFINE qc == q \o callbacks[LoopOf[c]]
    <3>3. /\ qc \in Seq(Call) /\ qc # << >> /\ Head(qc) = Head(q)
          /\ Tail(qc) = Tail(q) \o callbacks[LoopOf[c]]
      BY <3>1, <3>2, TailOfConcat, ConcatProperties
    <3>14. way = qc \o FromStep(outs)
      BY <3>1
    <3> HIDE DEF qc
    <3>4. /\ way # << >> /\ Head(way) = Head(q) /\ Tail(way) = Tail(qc) \o FromStep(outs)
      BY <3>1, <3>3, <3>14, TailOfConcat
    <3>5. OnItsWay(c)' = Tail(way)
      BY <1>1, <3>2, <3>3, <3>4, NextWay
    <3>6. 1 \in OutputsFor(c, way)
      <4>1. 1 \in 1 .. Len(way) /\ way[1] = Head(way)
        BY <3>1, <3>4
      <4>2. way[1].client = c /\ way[1].item = item
        BY <3>2, <3>4, <4>1
      <4> QED BY <2>5, <4>1, <4>2 DEF OutputsFor
    <3>7. Open(c) /\ Exact(c, way, received[c], produced[c])
      BY <1>3, <2>1 DEF Open, StreamOf, way
    <3>8. /\ Head(way).item.n = received[c] + 1 /\ received[c] + 1 <= produced[c]
          /\ Exact(c, Tail(way), received[c] + 1, produced[c])
          /\ NotFinal(c, way) => NotFinal(c, Tail(way))
      <4>1. way \in Seq(Call) /\ received[c] \in Nat /\ produced[c] \in Nat
        BY <3>1
      <4>2. way # << >>
        BY <3>4
      <4>3. Exact(c, way, received[c], produced[c])
        BY <3>7
      <4> QED BY <3>6, <4>1, <4>2, <4>3, TakeFromWay
    <3>9. item.n = received[c] + 1
      BY <3>2, <3>4, <3>8
    <3>10. received'[c] = received[c] + 1
      BY <1>2, <2>1, <2>5, <3>9
    <3>11. produced'[c] = produced[c] /\ live' = live
      BY <1>1
    <3>12. Open(c)' => /\ received'[c] <= produced'[c]
                       /\ Exact(c, OnItsWay(c)', received'[c], produced'[c])
      BY <3>5, <3>8, <3>10, <3>11
    <3>13. Open(c)' /\ live'[IdOf[c]] = c => NotFinal(c, OnItsWay(c)')
      BY <1>3, <3>5, <3>7, <3>8, <3>11 DEF StreamOf, way
    <3> QED BY <2>3, <3>12, <3>13 DEF StreamOf, Exact, NotFinal, OutputsFor
  <2> QED BY <2>4, <2>5
<1>5. CASE ~(Receive(d) /\ c = d)
  <2>1. received'[c] = received[c] /\ mailbox'[c] = mailbox[c]
    <3>1. CASE Receive(d)
      BY <1>2, <1>5, <3>1 DEF Receive
    <3>2. CASE ~Receive(d)
      BY <3>2 DEF ClientNext, Progress, CheckError, BindLoop, RegisterQueue, Enqueue, PopQueue,
         AppendAbort, HangUp, AbortAndHangUp, clientVars
    <3> QED BY <3>1, <3>2
  <2>2. /\ Fresh(c)' => Fresh(c)
        /\ Open(c)' => Open(c)
    BY <1>2 DEF ClientNext, Progress, CheckError, BindLoop, RegisterQueue, Enqueue, Receive,
         PopQueue, AppendAbort, HangUp, AbortAndHangUp, Goto, Fresh, Open
  <2>3. OnItsWay(c)' = OnItsWay(c)
    BY <1>1, <2>1, WayTypes, NextWay
  <2> QED BY <1>1, <1>3, <2>1, <2>2, <2>3, StreamFrame
<1> QED BY <1>4, <1>5

\* The first place of the second part of a way.
LEMMA PlaceOfHead ==
  ASSUME NEW c \in Client, NEW s \in Seq(Call), NEW t \in Seq(Call), t # << >>,
         Head(t).client # c
  PROVE  Len(s) + 1 \notin OutputsFor(c, s \o t)
<1>1. Len(t) \in Nat \ {0} /\ Len(s) \in Nat /\ Head(t) = t[1]
  BY HeadTailProperties
<1>2. \A i \in 1 .. Len(s) + Len(t) : (s \o t)[i] = IF i <= Len(s) THEN s[i] ELSE t[i - Len(s)]
  BY ConcatProperties
<1>3. Len(s) + 1 \in 1 .. Len(s) + Len(t) /\ ~(Len(s) + 1 <= Len(s)) /\ (Len(s) + 1) - Len(s) = 1
  BY <1>1
<1>4. (s \o t)[Len(s) + 1] = t[1]
  BY <1>2, <1>3
<1> QED BY <1>1, <1>4 DEF OutputsFor

\* A callback brings its item from the loop to the queue of its call; others see
\* one thing less that is not theirs.
LEMMA StreamCallback ==
  ASSUME AsyncInv, WaysInv, SameLoop, NEW l \in Loop, RunCallback(l), NEW c \in Client
  PROVE  StreamOf(c)'
<1> DEFINE calls == callbacks[l]
<1> DEFINE e == Head(calls)
<1> DEFINE q == FromQueue(c, mailbox[c])
<1> DEFINE z == FromStep(outs)
<1>1. LoopOf[c] = l /\ StreamOf(c)
  BY DEF SameLoop, WaysInv
<1>2. /\ UNCHANGED <<pc, received, live, produced, outs>>
      /\ calls # << >>
      /\ mailbox' = [mailbox EXCEPT ![e.client] = Append(@, e.item)]
      /\ callbacks' = [callbacks EXCEPT ![l] = Tail(calls)]
  BY DEF RunCallback, clientVars, engineVars
<1>3. /\ mailbox \in [Client -> Seq(Item)] /\ callbacks \in [Loop -> Seq(Call)]
  BY DEF AsyncInv, TypeOK, Call
<1>4. callbacks'[LoopOf[c]] = Tail(calls)
  BY <1>1, <1>2, <1>3
<1>5. /\ mailbox[c] \in Seq(Item) /\ calls \in Seq(Call)
      /\ q \in Seq(Call) /\ z \in Seq(Call)
      /\ OnItsWay(c) = (q \o calls) \o z
      /\ received[c] \in Nat /\ produced[c] \in Nat
  BY <1>1, WayTypes
<1>6. e \in Call /\ Tail(calls) \in Seq(Call)
  BY <1>2, <1>5, HeadTailProperties
<1>7. e.client \in Client /\ e.item \in Item /\ e = [client |-> e.client, item |-> e.item]
  BY <1>6 DEF Call
<1>8. OnItsWay(c)' = (FromQueue(c, mailbox'[c]) \o Tail(calls)) \o z
  BY <1>2, <1>4, NextWay
<1>9. (Fresh(c)' <=> Fresh(c)) /\ (Open(c)' <=> Open(c))
  BY <1>2 DEF Fresh, Open
<1> HIDE DEF calls, q, z
<1>10. CASE e.client = c
  <2>1. mailbox'[c] = Append(mailbox[c], e.item)
    BY <1>2, <1>3, <1>10
  <2>2. FromQueue(c, mailbox'[c]) = Append(q, e)
    BY <1>5, <1>7, <1>10, <2>1, PutInQueue DEF q
  <2>3. Append(q, e) \o Tail(calls) = q \o calls
    BY <1>2, <1>5, MoveHead
  <2>4. OnItsWay(c)' = OnItsWay(c)
    BY <1>5, <1>8, <2>2, <2>3
  <2> QED BY <1>1, <1>2, <1>9, <2>4, StreamFrame
<1>11. CASE e.client # c
  <2>1. mailbox'[c] = mailbox[c]
    BY <1>2, <1>3, <1>11
  <2> DEFINE t == calls \o z
  <2>2. t \in Seq(Call) /\ t # << >> /\ Head(t) = e /\ Tail(t) = Tail(calls) \o z
    BY <1>2, <1>5, TailOfConcat, ConcatProperties
  <2>3. OnItsWay(c) = q \o t
    <3>1. q \in Seq(Call) /\ calls \in Seq(Call) /\ z \in Seq(Call)
      BY <1>5
    <3>2. (q \o calls) \o z = q \o (calls \o z)
      BY <3>1, ConcatAssociative
    <3> QED BY <1>5, <3>2
  <2>4. OnItsWay(c)' = q \o Tail(t)
    <3>1. (q \o Tail(calls)) \o z = q \o (Tail(calls) \o z)
      BY <1>5, <1>6, ConcatAssociative
    <3> QED BY <1>8, <2>1, <2>2, <3>1 DEF q
  <2> HIDE DEF t
  <2>5. Len(q) + 1 \notin OutputsFor(c, q \o t)
    BY <1>5, <1>11, <2>2, PlaceOfHead
  <2>6. \A lo, hi \in Nat : /\ Exact(c, q \o t, lo, hi) => Exact(c, q \o Tail(t), lo, hi)
                            /\ NotFinal(c, q \o t) => NotFinal(c, q \o Tail(t))
    BY <1>5, <2>2, <2>5, DropFromWay
  <2>7. Open(c)' => /\ received'[c] <= produced'[c]
                    /\ Exact(c, OnItsWay(c)', received'[c], produced'[c])
    BY <1>1, <1>2, <1>5, <1>9, <2>3, <2>4, <2>6 DEF StreamOf
  <2>8. Open(c)' /\ live'[IdOf[c]] = c => NotFinal(c, OnItsWay(c)')
    BY <1>1, <1>2, <1>5, <1>9, <2>3, <2>4, <2>6 DEF StreamOf
  <2>9. Fresh(c)' => received'[c] = 0
    BY <1>1, <1>2, <1>9 DEF StreamOf
  <2> QED BY <2>7, <2>8, <2>9 DEF StreamOf, Exact, NotFinal, OutputsFor
<1> QED BY <1>10, <1>11

\* A step of the thread that adds calls to the way of c and is not about its stream.
LEMMA StreamExtended ==
  ASSUME AsyncInv, NEW c \in Client, StreamOf(c), NEW more \in Seq(Call),
         OnItsWay(c)' = OnItsWay(c) \o more,
         \A i \in 1 .. Len(more) : more[i].client = c => more[i].item.kind = "error",
         pc'[c] = pc[c], received'[c] = received[c], produced'[c] = produced[c],
         live'[IdOf[c]] = c => live[IdOf[c]] = c \/ produced[c] = 0
  PROVE  StreamOf(c)'
<1>1. OnItsWay(c) \in Seq(Call) /\ received[c] \in Nat /\ produced[c] \in Nat
  BY WayTypes
<1>2. (Fresh(c)' <=> Fresh(c)) /\ (Open(c)' <=> Open(c))
  BY DEF Fresh, Open
<1>3. /\ Exact(c, OnItsWay(c), received[c], produced[c])
            => Exact(c, OnItsWay(c) \o more, received[c], produced[c])
      /\ NotFinal(c, OnItsWay(c)) => NotFinal(c, OnItsWay(c) \o more)
  BY <1>1, ExtendWay
<1>4. Open(c) /\ produced[c] = 0 => NotFinal(c, OnItsWay(c))
  BY NothingYet
<1>5. Open(c)' => /\ received'[c] <= produced'[c]
                  /\ Exact(c, OnItsWay(c)', received'[c], produced'[c])
  BY <1>2, <1>3 DEF StreamOf
<1>6. Open(c)' /\ live'[IdOf[c]] = c => NotFinal(c, OnItsWay(c)')
  BY <1>2, <1>3, <1>4 DEF StreamOf
<1>7. Fresh(c)' => received'[c] = 0
  BY <1>2 DEF StreamOf
<1> QED BY <1>5, <1>6, <1>7 DEF StreamOf, Exact, NotFinal, OutputsFor

\* What is scheduled on the loop while no output is waiting comes last.
LEMMA ScheduledLast ==
  ASSUME AsyncInv, SameLoop, NEW c \in Client, outs = << >>, outs' = << >>,
         mailbox' = mailbox, NEW more \in Seq(Call), NEW l \in Loop,
         callbacks' = [callbacks EXCEPT ![l] = @ \o more]
  PROVE  OnItsWay(c)' = OnItsWay(c) \o more
<1> DEFINE q == FromQueue(c, mailbox[c])
<1> DEFINE calls == callbacks[l]
<1>1. LoopOf[c] = l /\ callbacks \in [Loop -> Seq(Call)]
  BY DEF SameLoop, AsyncInv, TypeOK, Call
<1>2. q \in Seq(Call) /\ calls \in Seq(Call) /\ OnItsWay(c) = (q \o calls) \o FromStep(outs)
  BY <1>1, WayTypes
<1>3. FromStep(<< >>) = << >>
  BY DEF FromStep
<1>4. callbacks'[LoopOf[c]] = calls \o more
  BY <1>1
<1>5. OnItsWay(c)' = (q \o (calls \o more)) \o << >>
  BY <1>3, <1>4, NextWay
<1> HIDE DEF q, calls
<1>6. q \o calls \in Seq(Call) /\ calls \o more \in Seq(Call)
  BY <1>2, ConcatProperties
<1>7. OnItsWay(c) = q \o calls
  BY <1>2, <1>3, <1>6, ConcatEmptySeq
<1>8. q \o (calls \o more) \in Seq(Call)
  BY <1>2, <1>6, ConcatProperties
<1>9. OnItsWay(c)' = q \o (calls \o more)
  BY <1>5, <1>8, ConcatEmptySeq
<1>10. q \in Seq(Call) /\ calls \in Seq(Call)
  BY <1>2
<1>11. (q \o calls) \o more = q \o (calls \o more)
  BY <1>10, ConcatAssociative
<1> QED BY <1>7, <1>9, <1>11

\* A request taken or refused: an error is no output, and who is admitted has
\* nothing on the way yet.
LEMMA StreamTakeInbox ==
  ASSUME AsyncInv, WaysInv, SameLoop, TakeInbox, NEW c \in Client
  PROVE  StreamOf(c)'
<1> DEFINE d == Head(inbox)
<1>1. /\ inbox \in Seq(Client) /\ inbox # << >> /\ thread = "inbox"
      /\ UNCHANGED <<pc, received, mailbox, produced, outs>>
      /\ live \in [Id -> Client \cup {None}]
  BY DEF TakeInbox, AsyncInv, TypeOK, clientVars
<1>2. d \in Client /\ d \in Range(inbox)
  BY <1>1, TailLemma, HeadTailProperties, RangeOfSequence
<1>3. produced[d] = 0 /\ outs = << >>
  BY <1>1, <1>2 DEF AsyncInv, RequestsInv
<1>4. IdOf[d] \in Id /\ IdOf[c] \in Id
  BY <1>2, AsyncAssumption DEF AsyncAssumption
<1>5. live'[IdOf[c]] = c => live[IdOf[c]] = c \/ produced[c] = 0
  BY <1>1, <1>3, <1>4 DEF TakeInbox
<1>6. StreamOf(c)
  BY DEF WaysInv
<1>7. CASE callbacks' = callbacks
  <2> DEFINE none == << >>
  <2>1. OnItsWay(c)' = OnItsWay(c) \o none
    <3>1. OnItsWay(c)' = OnItsWay(c)
      BY <1>1, <1>7, WayTypes, NextWay
    <3> QED BY <3>1, WayTypes, ConcatEmptySeq
  <2>2. none \in Seq(Call) /\ Len(none) = 0
    OBVIOUS
  <2> HIDE DEF d, none
  <2>3. pc'[c] = pc[c] /\ received'[c] = received[c] /\ produced'[c] = produced[c]
    BY <1>1
  <2>4. \A i \in 1 .. Len(none) : none[i].client = c => none[i].item.kind = "error"
    BY <2>2
  <2> QED BY <1>5, <1>6, <2>1, <2>2, <2>3, <2>4, StreamExtended
<1>8. CASE callbacks' # callbacks
  <2> DEFINE id == IdOf[d]
  <2> DEFINE e == [client |-> queues[id], item |-> Output(d, 0, "error")]
  <2>1. /\ queues[id] # None /\ loop # None
        /\ callbacks' = [callbacks EXCEPT ![loop] = Append(@, e)]
    BY <1>8 DEF TakeInbox, DispatchTo
  <2>2. queues[id] \in Client /\ loop \in Loop /\ callbacks \in [Loop -> Seq(Call)]
    BY <1>4, <2>1 DEF AsyncInv, TypeOK, Call
  <2>3. e \in Call /\ e.item.kind = "error"
    BY <1>2, <2>2, OutputIsItem DEF Call, Output
  <2> HIDE DEF d, id, e
  <2>4. \A s \in Seq(Call) : Append(s, e) = s \o << e >>
    BY <2>3
  <2>5. callbacks' = [callbacks EXCEPT ![loop] = @ \o << e >>]
    BY <2>1, <2>2, <2>4
  <2>6. << e >> \in Seq(Call) /\ Len(<< e >>) = 1 /\ << e >>[1] = e
    BY <2>3
  <2>7. OnItsWay(c)' = OnItsWay(c) \o << e >>
    BY <1>1, <1>3, <2>2, <2>5, <2>6, ScheduledLast
  <2>8. \A i \in 1 .. Len(<< e >>) : << e >>[i].item.kind = "error"
    BY <2>3, <2>6
  <2> QED BY <1>1, <1>5, <1>6, <2>6, <2>7, <2>8, StreamExtended
<1> QED BY <1>7, <1>8

\* The exception goes to everybody and is an output for nobody.
LEMMA StreamFail ==
  ASSUME AsyncInv, WaysInv, SameLoop, FailAll, NEW c \in Client
  PROVE  StreamOf(c)'
<1>1. /\ thread = "failing" /\ UNCHANGED <<pc, received, mailbox, live, produced, outs>>
      /\ StreamOf(c)
  BY DEF FailAll, WaysInv, clientVars, engineVars
<1>2. outs = << >> /\ outs' = << >>
  BY <1>1 DEF AsyncInv, RequestsInv
<1>3. PICK errors \in Seq(Call) :
         /\ callbacks' = [callbacks EXCEPT ![loop] = @ \o errors]
         /\ \A i \in 1 .. Len(errors) : errors[i].item.kind = "error"
  BY FailOuts DEF AsyncInv
<1>4. CASE loop \in Loop
  <2>1. OnItsWay(c)' = OnItsWay(c) \o errors
    BY <1>1, <1>2, <1>3, <1>4, ScheduledLast
  <2> QED BY <1>1, <1>3, <2>1, StreamExtended
<1>5. CASE loop \notin Loop
  <2>1. callbacks \in [Loop -> Seq(Call)]
    BY DEF AsyncInv, TypeOK, Call
  <2>2. callbacks' = callbacks
    BY <1>3, <1>5, <2>1
  <2>3. OnItsWay(c)' = OnItsWay(c)
    BY <1>1, <2>2, WayTypes, NextWay
  <2>4. (Fresh(c)' <=> Fresh(c)) /\ (Open(c)' <=> Open(c))
    BY <1>1 DEF Fresh, Open
  <2> QED BY <1>1, <2>3, <2>4, StreamFrame
<1> QED BY <1>4, <1>5

\* One output is dispatched.  The route of a call that waits is open, so what is
\* dropped is for nobody who does.
LEMMA StreamDispatch ==
  ASSUME AsyncInv, RoutesInv, WaysInv, OwnIds, SameLoop, DispatchOne, NEW c \in Client
  PROVE  StreamOf(c)'
<1> DEFINE item == Head(outs)
<1> DEFINE d == item.owner
<1> DEFINE q == FromQueue(c, mailbox[c])
<1> DEFINE calls == callbacks[LoopOf[c]]
<1> DEFINE z == FromStep(outs)
<1>1. /\ UNCHANGED <<pc, received, mailbox, live, produced>>
      /\ outs # << >> /\ outs' = Tail(outs)
      /\ DispatchTo(IdOf[d], item)
      /\ StreamOf(c)
  BY DEF DispatchOne, WaysInv, clientVars
<1>2. /\ outs \in Seq(Item) /\ \A i \in 1 .. Len(outs) : outs[i].owner \in Client
      /\ q \in Seq(Call) /\ calls \in Seq(Call) /\ z \in Seq(Call)
      /\ OnItsWay(c) = (q \o calls) \o z
      /\ received[c] \in Nat /\ produced[c] \in Nat
  BY WayTypes
<1>3. Len(outs) \in Nat \ {0} /\ item = outs[1] /\ item \in Item
  BY <1>1, <1>2, HeadTailProperties
<1>4. d \in Client
  BY <1>2, <1>3
<1>5. z # << >> /\ Head(z) = [client |-> d, item |-> item] /\ FromStep(outs') = Tail(z)
  BY <1>1, <1>2, TakeFromStep
<1>6. OnItsWay(c)' = (q \o callbacks'[LoopOf[c]]) \o Tail(z)
  BY <1>1, <1>5, NextWay
<1>7. (Fresh(c)' <=> Fresh(c)) /\ (Open(c)' <=> Open(c))
  BY <1>1 DEF Fresh, Open
<1>8. IdOf[d] \in Id /\ callbacks \in [Loop -> Seq(Call)] /\ queues \in [Id -> Client \cup {None}]
      /\ loop \in Loop \cup {None}
  BY <1>4, AsyncAssumption DEF AsyncAssumption, AsyncInv, TypeOK, Call
<1> HIDE DEF item, d, q, calls, z
<1>9. CASE queues[IdOf[d]] # None /\ loop # None
  <2>1. queues[IdOf[d]] = d /\ loop \in Loop
    BY <1>4, <1>8, <1>9 DEF RoutesInv, OwnIds
  <2>2. callbacks' = [callbacks EXCEPT ![loop] = Append(@, [client |-> d, item |-> item])]
    BY <1>1, <1>9, <2>1 DEF DispatchTo
  <2>3. callbacks'[LoopOf[c]] = Append(calls, Head(z))
    BY <1>5, <1>8, <2>1, <2>2 DEF SameLoop, calls
  <2>4. Head(z) \in Call /\ q \o calls \in Seq(Call)
    BY <1>2, <1>5, HeadTailProperties, ConcatProperties
  <2>5. q \o Append(calls, Head(z)) = Append(q \o calls, Head(z))
    BY <1>2, <2>4, AppendToConcat
  <2>6. Append(q \o calls, Head(z)) \o Tail(z) = (q \o calls) \o z
    BY <1>2, <1>5, <2>4, MoveHead
  <2>7. OnItsWay(c)' = OnItsWay(c)
    BY <1>2, <1>6, <2>3, <2>5, <2>6
  <2> QED BY <1>1, <1>7, <2>7, StreamFrame
<1>10. CASE ~(queues[IdOf[d]] # None /\ loop # None)
  <2>1. callbacks' = callbacks
    BY <1>1, <1>10 DEF DispatchTo
  <2> DEFINE s == q \o calls
  <2>2. s \in Seq(Call) /\ OnItsWay(c) = s \o z /\ OnItsWay(c)' = s \o Tail(z)
    BY <1>2, <1>6, <2>1, ConcatProperties DEF calls
  <2> HIDE DEF s
  <2>3. ASSUME Open(c) PROVE Len(s) + 1 \notin OutputsFor(c, s \o z)
    <3>1. CASE d = c
      <4>1. pc[c] # "waiting"
        BY <1>10, <3>1, AsyncAssumption DEF AsyncAssumption, RoutesInv
      <4>2. Fresh(c)
        BY <2>3, <4>1 DEF Open
      <4>3. produced[c] = 0
        BY <4>2 DEF AsyncInv, RequestsInv
      <4> QED BY <1>1, <2>2, <2>3, <4>3, NothingYet
    <3>2. CASE d # c
      BY <1>2, <1>5, <2>2, <3>2, PlaceOfHead
    <3> QED BY <3>1, <3>2
  <2>4. Open(c) => \A lo, hi \in Nat :
                      /\ Exact(c, s \o z, lo, hi) => Exact(c, s \o Tail(z), lo, hi)
                      /\ NotFinal(c, s \o z) => NotFinal(c, s \o Tail(z))
    BY <1>2, <1>5, <2>2, <2>3, DropFromWay
  <2>5. Open(c)' => /\ received'[c] <= produced'[c]
                    /\ Exact(c, OnItsWay(c)', received'[c], produced'[c])
    BY <1>1, <1>2, <1>7, <2>2, <2>4 DEF StreamOf
  <2>6. Open(c)' /\ live'[IdOf[c]] = c => NotFinal(c, OnItsWay(c)')
    BY <1>1, <1>2, <1>7, <2>2, <2>4 DEF StreamOf
  <2>7. Fresh(c)' => received'[c] = 0
    BY <1>1, <1>7 DEF StreamOf
  <2> QED BY <2>5, <2>6, <2>7 DEF StreamOf, Exact, NotFinal, OutputsFor
<1> QED BY <1>9, <1>10

\* The engine serves a request at most once in a step: its next output comes at the
\* end of its way, and after a final one nothing comes.
LEMMA StreamStep ==
  ASSUME AsyncInv, WaysInv, NEW served \in SUBSET Id, NEW ended \in SUBSET served,
         StepServing(served, ended), NEW c \in Client
  PROVE  StreamOf(c)'
<1> DEFINE more == FromStep(outs')
<1> DEFINE way == OnItsWay(c)
<1> DEFINE idAt(i) == SetToSeq(served)[i]
<1>1. /\ UNCHANGED <<pc, received, mailbox, callbacks>>
      /\ outs = << >> /\ StreamOf(c)
      /\ live' = [id \in Id |-> IF id \in ended THEN None ELSE live[id]]
      /\ produced' = [a \in Client |->
            IF \E id \in served : live[id] = a THEN produced[a] + 1 ELSE produced[a]]
  BY DEF StepServing, WaysInv, AsyncInv, RequestsInv, clientVars
<1>2. /\ \A id \in served : live[id] \in Client /\ IdOf[live[id]] = id
      /\ outs' \in Seq(Item)
      /\ \A i \in 1 .. Len(outs') :
            /\ idAt(i) \in served
            /\ outs'[i] = Output(live[idAt(i)], produced[live[idAt(i)]] + 1,
                                 IF idAt(i) \in ended THEN "final" ELSE "output")
      /\ \A i, j \in 1 .. Len(outs') : idAt(i) = idAt(j) => i = j
      /\ \A id \in served : \E i \in 1 .. Len(outs') : idAt(i) = id
  BY StepOuts DEF AsyncInv
<1> HIDE DEF idAt
<1>3. \A i \in 1 .. Len(outs') :
         /\ outs'[i].owner = live[idAt(i)]
         /\ outs'[i].n = produced[live[idAt(i)]] + 1
         /\ outs'[i].kind = IF idAt(i) \in ended THEN "final" ELSE "output"
  <2> TAKE i \in 1 .. Len(outs')
  <2>1. outs'[i] = Output(live[idAt(i)], produced[live[idAt(i)]] + 1,
                          IF idAt(i) \in ended THEN "final" ELSE "output")
    BY <1>2
  <2> QED BY <2>1 DEF Output
<1>4. \A i \in 1 .. Len(outs') : outs'[i].owner \in Client
  BY <1>2, <1>3
<1>5. /\ more \in Seq(Call) /\ Len(more) = Len(outs')
      /\ \A i \in 1 .. Len(outs') : more[i] = [client |-> outs'[i].owner, item |-> outs'[i]]
  BY <1>2, <1>4, StepParts
<1> DEFINE q == FromQueue(c, mailbox[c])
<1>6. /\ q \in Seq(Call) /\ callbacks[LoopOf[c]] \in Seq(Call)
      /\ way = (q \o callbacks[LoopOf[c]]) \o FromStep(outs)
      /\ way \in Seq(Call) /\ received[c] \in Nat /\ produced[c] \in Nat
  BY WayTypes
<1>7. FromStep(outs) = << >>
  BY <1>1 DEF FromStep
<1>8. way = q \o callbacks[LoopOf[c]]
  <2>1. q \o callbacks[LoopOf[c]] \in Seq(Call)
    BY <1>6, ConcatProperties
  <2> QED BY <1>6, <1>7, <2>1, ConcatEmptySeq
<1>9. OnItsWay(c)' = way \o more
  BY <1>1, <1>8, NextWay
<1> HIDE DEF more, way, q
<1>10. \A i \in 1 .. Len(more) : more[i].client = c => live[IdOf[c]] = c /\ idAt(i) = IdOf[c]
  <2> SUFFICES ASSUME NEW i \in 1 .. Len(more), more[i].client = c
               PROVE  live[IdOf[c]] = c /\ idAt(i) = IdOf[c]
    OBVIOUS
  <2>1. i \in 1 .. Len(outs') /\ outs'[i].owner = c
    <3>1. i \in 1 .. Len(outs')
      BY <1>5
    <3>2. more[i] = [client |-> outs'[i].owner, item |-> outs'[i]]
      BY <1>5, <3>1
    <3> QED BY <3>1, <3>2
  <2>2. live[idAt(i)] = c /\ idAt(i) \in served
    BY <1>2, <1>3, <2>1
  <2> QED BY <1>2, <2>2
<1>11. produced'[c] = IF \E id \in served : live[id] = c THEN produced[c] + 1 ELSE produced[c]
  BY <1>1
<1>12. (Fresh(c)' <=> Fresh(c)) /\ (Open(c)' <=> Open(c))
  BY <1>1 DEF Fresh, Open
<1>13. IdOf[c] \in Id /\ None \notin Client
  BY AsyncAssumption DEF AsyncAssumption
<1>14. live'[IdOf[c]] = IF IdOf[c] \in ended THEN None ELSE live[IdOf[c]]
  BY <1>1, <1>13
<1>15. CASE ~ \E id \in served : live[id] = c
  <2>1. \A i \in 1 .. Len(more) : more[i].client # c
    <3> SUFFICES ASSUME NEW i \in 1 .. Len(more), more[i].client = c PROVE FALSE
      OBVIOUS
    <3>1. i \in 1 .. Len(outs') /\ live[IdOf[c]] = c /\ idAt(i) = IdOf[c]
      BY <1>5, <1>10
    <3>2. idAt(i) \in served
      BY <1>2, <3>1
    <3> QED BY <1>15, <3>1, <3>2
  <2>2. produced'[c] = produced[c] /\ pc'[c] = pc[c] /\ received'[c] = received[c]
    BY <1>1, <1>11, <1>15
  <2>3. live'[IdOf[c]] = c => live[IdOf[c]] = c
    BY <1>13, <1>14
  <2> QED BY <1>1, <1>5, <1>9, <2>1, <2>2, <2>3, StreamExtended DEF way
<1>16. CASE \E id \in served : live[id] = c
  <2>1. live[IdOf[c]] = c /\ IdOf[c] \in served
    BY <1>2, <1>16
  <2>2. PICK k \in 1 .. Len(outs') : idAt(k) = IdOf[c]
    BY <1>2, <2>1
  <2>3. /\ k \in 1 .. Len(more) /\ more[k].client = c /\ more[k].item.owner = c
        /\ more[k].item.n = produced[c] + 1
        /\ more[k].item.kind = IF IdOf[c] \in ended THEN "final" ELSE "output"
    <3>1. more[k] = [client |-> outs'[k].owner, item |-> outs'[k]]
      BY <1>5
    <3>2. /\ outs'[k].owner = c /\ outs'[k].n = produced[c] + 1
          /\ outs'[k].kind = IF IdOf[c] \in ended THEN "final" ELSE "output"
      BY <1>3, <2>1, <2>2
    <3> QED BY <1>5, <3>1, <3>2
  <2>4. \A i \in 1 .. Len(more) : more[i].client = c => i = k
    BY <1>2, <1>5, <1>10, <2>2
  <2>5. ~Fresh(c)
    BY <2>1 DEF AsyncInv, RequestsInv
  <2>6. ASSUME Open(c)
        PROVE  /\ received[c] <= produced[c]
               /\ Exact(c, way \o more, received[c], produced[c] + 1)
               /\ more[k].item.kind # "final" => NotFinal(c, way \o more)
    <3>1. /\ received[c] <= produced[c] /\ Exact(c, way, received[c], produced[c])
          /\ NotFinal(c, way)
      BY <1>1, <2>1, <2>6 DEF StreamOf, way
    <3>2. more[k].item.kind # "error"
      BY <2>3
    <3> QED BY <1>5, <1>6, <2>3, <2>4, <3>1, <3>2, ProduceOnWay
  <2>7. produced'[c] = produced[c] + 1
    BY <1>11, <1>16
  <2>8. Open(c)' => /\ received'[c] <= produced'[c]
                    /\ Exact(c, OnItsWay(c)', received'[c], produced'[c])
    BY <1>1, <1>6, <1>9, <1>12, <2>6, <2>7
  <2>9. Open(c)' /\ live'[IdOf[c]] = c => NotFinal(c, OnItsWay(c)')
    BY <1>9, <1>12, <1>13, <1>14, <2>3, <2>6
  <2> QED BY <1>12, <2>5, <2>8, <2>9 DEF StreamOf, Exact, NotFinal, OutputsFor
<1> QED BY <1>15, <1>16

\* What any step does to any stream.
LEMMA WaysNext ==
  ASSUME AsyncInv, RoutesInv, WaysInv, OwnIds, SameLoop, [Next]_vars
  PROVE  WaysInv'
<1> SUFFICES ASSUME NEW c \in Client PROVE StreamOf(c)'
  BY DEF WaysInv
<1>1. StreamOf(c)
  BY DEF WaysInv
<1>2. CASE \E d \in Client : ClientNext(d)
  BY <1>2, StreamClient
<1>3. CASE LoopNext
  BY <1>3, StreamCallback DEF LoopNext
<1>4. CASE TakeInbox
  BY <1>4, StreamTakeInbox
<1>5. CASE Step
  <2>1. PICK served \in SUBSET Id : \E ended \in SUBSET served : StepServing(served, ended)
    BY <1>5 DEF Step
  <2> QED BY <2>1, StreamStep
<1>6. CASE DispatchOne
  BY <1>6, StreamDispatch
<1>7. CASE FailAll
  BY <1>7, StreamFail
<1>8. CASE \/ \E l \in Loop : Start(l)
           \/ Shutdown \/ UNCHANGED vars
           \/ StartDrain \/ InboxDone \/ TakeAbort \/ AbortsDone \/ StepRaises \/ DispatchDone
  <2>1. UNCHANGED <<pc, received, mailbox, callbacks, produced, outs>>
    BY <1>8 DEF Start, Shutdown, vars, StartDrain, InboxDone, TakeAbort, AbortsDone, StepRaises,
                DispatchDone, clientVars, engineVars
  <2>2. live'[IdOf[c]] = c => live[IdOf[c]] = c
    <3>1. CASE TakeAbort
      <4>1. /\ live \in [Id -> Client \cup {None}] /\ IdOf[c] \in Id /\ None \notin Client
            /\ live' = [live EXCEPT ![IdOf[Head(aborts)]] = None]
        BY <3>1, AsyncAssumption DEF AsyncAssumption, AsyncInv, TypeOK, TakeAbort
      <4> QED BY <4>1
    <3>2. CASE ~TakeAbort
      <4>1. live' = live
        BY <1>8, <3>2 DEF Start, Shutdown, vars, StartDrain, InboxDone, AbortsDone, StepRaises,
                DispatchDone, engineVars
      <4> QED BY <4>1
    <3> QED BY <3>1, <3>2
  <2>3. (Fresh(c)' <=> Fresh(c)) /\ (Open(c)' <=> Open(c))
    BY <2>1 DEF Fresh, Open
  <2>4. OnItsWay(c)' = OnItsWay(c)
    BY <2>1, WayTypes, NextWay
  <2> QED BY <1>1, <2>1, <2>2, <2>3, <2>4, StreamFrame
<1> QED BY <1>2, <1>3, <1>4, <1>5, <1>6, <1>7, <1>8 DEF Next, ThreadNext

-----------------------------------------------------------------------------
(* Routes. *)

LEMMA RoutesNext ==
  ASSUME TypeOK, RoutesInv, OwnIds, [Next]_vars
  PROVE  RoutesInv'
<1>0. /\ IdOf \in [Client -> Id] /\ LoopOf \in [Client -> Loop] /\ None \notin Client /\ None \notin Loop
      /\ queues \in [Id -> Client \cup {None}]
      /\ pc \in [Client -> {"idle", "checked", "bound", "registered", "waiting",
                            "leaving", "popped", "closed"}]
  BY AsyncAssumption DEF AsyncAssumption, TypeOK
<1>1. ASSUME NEW d \in Client, ClientNext(d) PROVE RoutesInv'
  <2>1. CASE RegisterQueue(d)
    <3>1. /\ loop' = loop
          /\ \A id \in Id : queues'[id] = IF id = IdOf[d] THEN d ELSE queues[id]
          /\ \A c \in Client : pc'[c] = IF c = d THEN "registered" ELSE pc[c]
          /\ pc[d] = "bound"
      BY <1>0, <2>1 DEF RegisterQueue, Goto
    <3>2. \A id \in Id : queues'[id] # None => IdOf[queues'[id]] = id
      BY <1>0, <3>1 DEF RoutesInv
    <3>3. ASSUME NEW c \in Client
          PROVE  /\ pc'[c] \in {"registered", "waiting", "leaving"} => queues'[IdOf[c]] = c
                 /\ pc'[c] \notin {"idle", "checked", "closed"} => loop' # None
      BY <1>0, <3>1 DEF RoutesInv, OwnIds
    <3> QED BY <3>2, <3>3 DEF RoutesInv
  <2>2. CASE PopQueue(d)
    <3>1. /\ loop' = loop
          /\ \A id \in Id : queues'[id] = IF id = IdOf[d] THEN None ELSE queues[id]
          /\ \A c \in Client : pc'[c] = IF c = d THEN "popped" ELSE pc[c]
          /\ pc[d] = "leaving"
      BY <1>0, <2>2 DEF PopQueue, Goto
    <3>2. \A id \in Id : queues'[id] # None => IdOf[queues'[id]] = id
      BY <1>0, <3>1 DEF RoutesInv
    <3>3. ASSUME NEW c \in Client
          PROVE  /\ pc'[c] \in {"registered", "waiting", "leaving"} => queues'[IdOf[c]] = c
                 /\ pc'[c] \notin {"idle", "checked", "closed"} => loop' # None
      BY <1>0, <3>1 DEF RoutesInv, OwnIds
    <3> QED BY <3>2, <3>3 DEF RoutesInv
  <2>3. CASE BindLoop(d)
    <3>1. /\ loop' = LoopOf[d] /\ LoopOf[d] # None /\ queues' = queues
          /\ \A c \in Client : pc'[c] = IF c = d THEN "bound" ELSE pc[c]
      BY <1>0, <2>3 DEF BindLoop, Goto
    <3> QED BY <3>1 DEF RoutesInv
  <2>4. CASE ~RegisterQueue(d) /\ ~PopQueue(d) /\ ~BindLoop(d)
    <3>1. queues' = queues /\ loop' = loop
      BY <1>1, <2>4 DEF ClientNext, Progress, CheckError, Enqueue, Receive, AppendAbort, HangUp,
                        AbortAndHangUp, sharedVars
    <3>2. \A c \in Client :
             /\ pc'[c] \in {"registered", "waiting", "leaving"} =>
                   pc[c] \in {"registered", "waiting", "leaving"}
             /\ pc'[c] \notin {"idle", "checked", "closed"} =>
                   pc[c] \notin {"idle", "checked", "closed"}
      BY <1>0, <1>1, <2>4 DEF ClientNext, Progress, CheckError, Enqueue, Receive, AppendAbort,
                        HangUp, AbortAndHangUp, Goto
    <3> QED BY <3>1, <3>2 DEF RoutesInv
  <2> QED BY <2>1, <2>2, <2>3, <2>4
<1>2. ASSUME NEW l \in Loop, Start(l) PROVE RoutesInv'
  <2>1. loop' = l /\ l # None /\ UNCHANGED <<pc, queues>>
    BY <1>0, <1>2 DEF Start, clientVars
  <2> QED BY <2>1 DEF RoutesInv
<1>3. CASE ThreadNext \/ LoopNext \/ Shutdown \/ UNCHANGED vars
  <2>1. UNCHANGED <<pc, queues, loop>>
    BY <1>3 DEF ThreadNext, StartDrain, TakeInbox, InboxDone, TakeAbort, AbortsDone, Step,
                StepServing, StepRaises, DispatchOne, DispatchDone, FailAll, LoopNext,
                RunCallback, Shutdown, vars, clientVars, sharedVars
  <2> QED BY <2>1 DEF RoutesInv
<1> QED BY <1>1, <1>2, <1>3 DEF Next

LEMMA StreamInit == Init => StreamInv
<1> SUFFICES ASSUME Init PROVE StreamInv
  OBVIOUS
<1>1. AsyncInv
  BY AsyncInit
<1>2. RoutesInv
  BY AsyncAssumption DEF AsyncAssumption, Init, RoutesInv
<1>3. ASSUME NEW c \in Client PROVE StreamOf(c)
  <2>1. /\ mailbox[c] = << >> /\ callbacks[LoopOf[c]] = << >> /\ outs = << >>
        /\ received[c] = 0 /\ produced[c] = 0
    BY AsyncAssumption DEF AsyncAssumption, Init
  <2>2. Len(OnItsWay(c)) = 0
    BY <2>1 DEF OnItsWay
  <2>3. OutputsFor(c, OnItsWay(c)) = {}
    BY <2>2 DEF OutputsFor
  <2> QED BY <2>1, <2>3 DEF StreamOf, Exact, NotFinal
<1> QED BY <1>2, <1>3 DEF StreamInv, WaysInv

LEMMA StreamNext ==
  AsyncInv /\ (OwnIds /\ SameLoop => StreamInv) /\ [Next]_vars
    => (OwnIds /\ SameLoop => StreamInv)'
BY WaysNext, RoutesNext DEF StreamInv, AsyncInv, OwnIds, SameLoop

-----------------------------------------------------------------------------
(* The theorems. *)

\* Every variable keeps its type; above all no request is served beyond its last
\* token.
THEOREM AsyncTypeCorrect == Spec => []TypeOK
BY AsyncCorrect, PTL DEF AsyncInv

\* Whoever hangs up, and whenever: as long as the engine works for a call that is
\* over, or is about to, the abort that stops it is on its way and comes after the
\* request (async_engine.py, the finally clause of generate and the drain of _run).
THEOREM NoOrphansCorrect == Spec => []NoOrphanedWork
BY AsyncCorrect, PTL DEF AsyncInv

\* When each call has an id of its own and there is one event loop, as with the
\* server, the stream of a call that waits is exact: no token is lost, repeated,
\* out of order or another request's, through hang-ups, refusals, a crash and a
\* shutdown.
THEOREM StreamsExact == Spec => [](OwnIds /\ SameLoop => StreamIsExact)
<1>1. AsyncInv /\ (OwnIds /\ SameLoop => StreamInv) => (OwnIds /\ SameLoop => StreamIsExact)
  BY DEF StreamInv, WaysInv, StreamOf, Open, StreamIsExact, Exact
<1>2. Init => (OwnIds /\ SameLoop => StreamInv)
  BY StreamInit
<1> QED BY <1>1, <1>2, AsyncCorrect, StreamNext, PTL DEF Spec
=============================================================================
