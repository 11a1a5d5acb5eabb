----------------------------- MODULE AsyncEngine -----------------------------
(***************************************************************************)
(* The asynchronous front of the engine (inferneo/engine/async_engine.py). *)
(*                                                                         *)
(* generate() runs as a coroutine on an asyncio event loop: between two    *)
(* awaits no other coroutine or callback of the same loop runs, but the    *)
(* engine thread does, and so do other event loops.  Every step of a call  *)
(* that touches what the engine thread also touches is an action, and a    *)
(* client of a loop is `between awaits` from the check of the error to     *)
(* its first queue.get().                                                  *)
(*                                                                         *)
(* The engine behind the thread is what Scheduler.tla promises of it: a    *)
(* step gives some of the unfinished requests one more token each, ends    *)
(* some of them, or raises.                                                *)
(***************************************************************************)
EXTENDS Integers, Sequences, SequencesExt, FiniteSets

CONSTANTS
    Client,         \* the calls of generate()
    Id,             \* request ids
    IdOf,           \* the id each call is made with
    Loop,           \* event loops
    LoopOf,         \* the loop each call runs on
    Bad,            \* the calls whose prompt InferneoEngine.add_request refuses
    MaxOutputs,     \* bound on the tokens of a request
    CanCrash,       \* whether the engine's step may raise
    None            \* neither a client nor a loop

ASSUME AsyncAssumption ==
    /\ IsFiniteSet(Id)
    /\ IdOf \in [Client -> Id]
    /\ LoopOf \in [Client -> Loop]
    /\ Bad \subseteq Client
    /\ MaxOutputs \in Nat \ {0}
    /\ CanCrash \in BOOLEAN
    /\ None \notin Client \cup Loop

VARIABLES
    pc,             \* where each call is
    received,       \* outputs the call's consumer has seen
    mailbox,        \* the call's asyncio.Queue
    callbacks,      \* per loop: what call_soon_threadsafe has scheduled there
    loop,           \* AsyncEngine._loop
    queues,         \* AsyncEngine._queues: id -> the call whose queue is registered
    inbox,          \* AsyncEngine._inbox
    aborts,         \* AsyncEngine._aborts; an entry is named by the call it came from
    running,        \* AsyncEngine._running
    error,          \* AsyncEngine._error is set
    thread,         \* where the engine thread is, "none" before it is started
    live,           \* the engine's unfinished requests: id -> the call that made it
    produced,       \* tokens sampled so far for each call's request
    outs            \* results of the current step, not yet dispatched

clientVars == <<pc, received>>
sharedVars == <<loop, queues, inbox, aborts>>
engineVars == <<live, produced, outs>>
vars == <<clientVars, mailbox, callbacks, sharedVars, running, error, thread, engineVars>>

Output(c, n, kind) == [owner |-> c, n |-> n, kind |-> kind]
Item == [owner : Client, n : 1 .. MaxOutputs, kind : {"output", "final"}]
        \cup [owner : Client \cup {None}, n : {0}, kind : {"error"}]

TypeOK ==
    /\ pc \in [Client -> {"idle", "checked", "bound", "registered", "waiting",
                          "leaving", "popped", "closed"}]
    /\ received \in [Client -> 0 .. MaxOutputs]
    /\ mailbox \in [Client -> Seq(Item)]
    /\ callbacks \in [Loop -> Seq([client : Client, item : Item])]
    /\ loop \in Loop \cup {None}
    /\ queues \in [Id -> Client \cup {None}]
    /\ inbox \in Seq(Client)
    /\ aborts \in Seq(Client)
    /\ running \in BOOLEAN
    /\ error \in BOOLEAN
    /\ thread \in {"none", "top", "inbox", "aborts", "step", "dispatch", "failing", "dead"}
    /\ live \in [Id -> Client \cup {None}]
    /\ produced \in [Client -> 0 .. MaxOutputs]
    /\ outs \in Seq(Item)

Init ==
    /\ pc = [c \in Client |-> "idle"]
    /\ received = [c \in Client |-> 0]
    /\ mailbox = [c \in Client |-> << >>]
    /\ callbacks = [l \in Loop |-> << >>]
    /\ loop = None
    /\ queues = [id \in Id |-> None]
    /\ inbox = << >>
    /\ aborts = << >>
    /\ running = FALSE
    /\ error = FALSE
    /\ thread = "none"
    /\ live = [id \in Id |-> None]
    /\ produced = [c \in Client |-> 0]
    /\ outs = << >>

-----------------------------------------------------------------------------
(* Calls of generate(), on their event loops. *)

\* No call of this loop is between two awaits.
LoopFree(l) ==
    \A c \in Client : LoopOf[c] = l => pc[c] \notin {"checked", "bound", "registered", "popped"}

\* The engine thread holds the lock while it drains the inbox and the aborts.
LockFree == thread \notin {"inbox", "aborts"}

Goto(c, p) == pc' = [pc EXCEPT ![c] = p]

\* _ensure_thread
EnsureThread ==
    IF thread = "none" THEN thread' = "top" /\ running' = TRUE ELSE UNCHANGED <<thread, running>>

\* start(), which the server calls on its event loop.
Start(l) ==
    /\ LoopFree(l)
    /\ loop' = l
    /\ EnsureThread
    /\ UNCHANGED <<clientVars, mailbox, callbacks, queues, inbox, aborts, error, engineVars>>

\* shutdown(): the thread leaves its loop at the next test.
Shutdown ==
    /\ running' = FALSE
    /\ UNCHANGED <<clientVars, mailbox, callbacks, sharedVars, error, thread, engineVars>>

\* The call begins: it fails fast when the engine thread is known to be dead.
CheckError(c) ==
    /\ pc[c] = "idle"
    /\ LoopFree(LoopOf[c])
    /\ Goto(c, IF error THEN "closed" ELSE "checked")
    /\ UNCHANGED <<received, mailbox, callbacks, sharedVars, running, error, thread, engineVars>>

BindLoop(c) ==
    /\ pc[c] = "checked"
    /\ loop' = LoopOf[c]
    /\ EnsureThread
    /\ Goto(c, "bound")
    /\ UNCHANGED <<received, mailbox, callbacks, queues, inbox, aborts, error, engineVars>>

\* A new queue is registered, whatever the id was registered for before.
RegisterQueue(c) ==
    /\ pc[c] = "bound"
    /\ queues' = [queues EXCEPT ![IdOf[c]] = c]
    /\ Goto(c, "registered")
    /\ UNCHANGED <<received, mailbox, callbacks, loop, inbox, aborts, running, error, thread,
                   engineVars>>

Enqueue(c) ==
    /\ pc[c] = "registered"
    /\ LockFree
    /\ inbox' = Append(inbox, c)
    /\ Goto(c, "waiting")
    /\ UNCHANGED <<received, mailbox, callbacks, loop, queues, aborts, running, error, thread,
                   engineVars>>

\* queue.get(): an output is yielded, and the call is over after the final one
\* or an exception.
Receive(c) ==
    /\ pc[c] = "waiting"
    /\ LoopFree(LoopOf[c])
    /\ mailbox[c] # << >>
    /\ LET item == Head(mailbox[c])
       IN  /\ received' = IF item.kind = "error" THEN received ELSE [received EXCEPT ![c] = item.n]
           /\ Goto(c, IF item.kind = "output" THEN "waiting" ELSE "leaving")
    /\ mailbox' = [mailbox EXCEPT ![c] = Tail(@)]
    /\ UNCHANGED <<callbacks, sharedVars, running, error, thread, engineVars>>

\* The client hangs up: the generator is closed or its task cancelled.
HangUp(c) ==
    /\ pc[c] = "waiting"
    /\ LoopFree(LoopOf[c])
    /\ Goto(c, "leaving")
    /\ UNCHANGED <<received, mailbox, callbacks, sharedVars, running, error, thread, engineVars>>

\* abort(), as the server uses it: for a client found gone, before the
\* generator is dropped.
AbortAndHangUp(c) ==
    /\ pc[c] = "waiting"
    /\ LoopFree(LoopOf[c])
    /\ LockFree
    /\ aborts' = Append(aborts, c)
    /\ Goto(c, "leaving")
    /\ UNCHANGED <<received, mailbox, callbacks, loop, queues, inbox, running, error, thread,
                   engineVars>>

\* The finally clause: the id's queue is dropped, then the id's request aborted.
PopQueue(c) ==
    /\ pc[c] = "leaving"
    /\ LoopFree(LoopOf[c])
    /\ queues' = [queues EXCEPT ![IdOf[c]] = None]
    /\ Goto(c, "popped")
    /\ UNCHANGED <<received, mailbox, callbacks, loop, inbox, aborts, running, error, thread,
                   engineVars>>

AppendAbort(c) ==
    /\ pc[c] = "popped"
    /\ LockFree
    /\ aborts' = Append(aborts, c)
    /\ Goto(c, "closed")
    /\ UNCHANGED <<received, mailbox, callbacks, loop, queues, inbox, running, error, thread,
                   engineVars>>

\* Mutant: the callback scheduled last runs first.
RunNewestCallback(l) ==
    /\ LoopFree(l)
    /\ callbacks[l] # << >>
    /\ LET call == Last(callbacks[l])
       IN  mailbox' = [mailbox EXCEPT ![call.client] = Append(@, call.item)]
    /\ callbacks' = [callbacks EXCEPT ![l] = Front(@)]
    /\ UNCHANGED <<clientVars, sharedVars, running, error, thread, engineVars>>

\* The loop runs the next callback: put_nowait on the queue it was made for.
RunCallback(l) ==
    /\ LoopFree(l)
    /\ callbacks[l] # << >>
    /\ LET call == Head(callbacks[l])
       IN  mailbox' = [mailbox EXCEPT ![call.client] = Append(@, call.item)]
    /\ callbacks' = [callbacks EXCEPT ![l] = Tail(@)]
    /\ UNCHANGED <<clientVars, sharedVars, running, error, thread, engineVars>>

-----------------------------------------------------------------------------
(* The engine thread: _run. *)

\* Mutant: nobody asks whether the queue is still registered.
DispatchUnchecked(id, item) ==
    callbacks' = [callbacks EXCEPT ![loop] = Append(@, [client |-> queues[id], item |-> item])]

\* _dispatch_to(id, item): to whichever queue the id is registered for, through
\* whichever loop was bound last; dropped when there is none.
DispatchTo(id, item) ==
    callbacks' = IF queues[id] # None /\ loop # None
                 THEN [callbacks EXCEPT ![loop] = Append(@, [client |-> queues[id], item |-> item])]
                 ELSE callbacks

\* The loop test, and the lock.
StartDrain ==
    /\ thread = "top"
    /\ thread' = IF running THEN "inbox" ELSE "dead"
    /\ UNCHANGED <<clientVars, mailbox, callbacks, sharedVars, running, error, engineVars>>

\* Mutant: a refused request is dropped without a word.
TakeInboxSilently ==
    /\ thread = "inbox"
    /\ inbox # << >>
    /\ LET c == Head(inbox)
           id == IdOf[c]
       IN  live' = IF c \in Bad \/ live[id] # None THEN live ELSE [live EXCEPT ![id] = c]
    /\ inbox' = Tail(inbox)
    /\ UNCHANGED <<clientVars, mailbox, callbacks, loop, queues, aborts, running, error, thread,
                   produced, outs>>

\* One entry of the inbox: a request the engine refuses fails by itself.
TakeInbox ==
    /\ thread = "inbox"
    /\ inbox # << >>
    /\ LET c == Head(inbox)
           id == IdOf[c]
       IN  IF c \in Bad \/ live[id] # None
           THEN DispatchTo(id, Output(c, 0, "error")) /\ live' = live
           ELSE live' = [live EXCEPT ![id] = c] /\ callbacks' = callbacks
    /\ inbox' = Tail(inbox)
    /\ UNCHANGED <<clientVars, mailbox, loop, queues, aborts, running, error, thread, produced, outs>>

\* Mutant: the aborts are drained before the inbox is empty.
InboxDoneEarly ==
    /\ thread = "inbox"
    /\ thread' = "aborts"
    /\ UNCHANGED <<clientVars, mailbox, callbacks, sharedVars, running, error, engineVars>>

InboxDone ==
    /\ thread = "inbox"
    /\ inbox = << >>
    /\ thread' = "aborts"
    /\ UNCHANGED <<clientVars, mailbox, callbacks, sharedVars, running, error, engineVars>>

TakeAbort ==
    /\ thread = "aborts"
    /\ aborts # << >>
    /\ live' = [live EXCEPT ![IdOf[Head(aborts)]] = None]
    /\ aborts' = Tail(aborts)
    /\ UNCHANGED <<clientVars, mailbox, callbacks, loop, queues, inbox, running, error, thread,
                   produced, outs>>

\* The lock is released; without work the thread sleeps and starts over.
AbortsDone ==
    /\ thread = "aborts"
    /\ aborts = << >>
    /\ thread' = IF \E id \in Id : live[id] # None THEN "step" ELSE "top"
    /\ UNCHANGED <<clientVars, mailbox, callbacks, sharedVars, running, error, engineVars>>

\* engine.step(): the requests in `served` sampled a token each, and those in
\* `ended` are over.
StepServing(served, ended) ==
    /\ thread = "step"
    /\ \A id \in served : live[id] # None
    /\ ended \subseteq served
    /\ \A id \in served : produced[live[id]] + 1 = MaxOutputs => id \in ended
    /\ produced' = [c \in Client |->
          IF \E id \in served : live[id] = c THEN produced[c] + 1 ELSE produced[c]]
    /\ outs' = [i \in 1 .. Cardinality(served) |->
          LET id == SetToSeq(served)[i]
              c == live[id]
          IN  Output(c, produced[c] + 1, IF id \in ended THEN "final" ELSE "output")]
    /\ live' = [id \in Id |-> IF id \in ended THEN None ELSE live[id]]
    /\ thread' = "dispatch"
    /\ UNCHANGED <<clientVars, mailbox, callbacks, sharedVars, running, error>>

Step == \E served \in SUBSET Id : \E ended \in SUBSET served : StepServing(served, ended)

\* engine.step() raises, and _fail_all begins.
StepRaises ==
    /\ CanCrash
    /\ thread = "step"
    /\ running' = FALSE
    /\ error' = TRUE
    /\ thread' = "failing"
    /\ UNCHANGED <<clientVars, mailbox, callbacks, sharedVars, engineVars>>

DispatchOne ==
    /\ thread = "dispatch"
    /\ outs # << >>
    /\ DispatchTo(IdOf[Head(outs).owner], Head(outs))
    /\ outs' = Tail(outs)
    /\ UNCHANGED <<clientVars, mailbox, sharedVars, running, error, thread, live, produced>>

DispatchDone ==
    /\ thread = "dispatch"
    /\ outs = << >>
    /\ thread' = "top"
    /\ UNCHANGED <<clientVars, mailbox, callbacks, sharedVars, running, error, engineVars>>

\* Mutant: only the requests that the engine has admitted are told.
FailLive ==
    /\ thread = "failing"
    /\ LET ids == SetToSeq({id \in Id : queues[id] # None /\ live[id] = queues[id]})
       IN  callbacks' = [callbacks EXCEPT ![loop] =
              @ \o [i \in 1 .. Len(ids) |->
                      [client |-> queues[ids[i]], item |-> Output(None, 0, "error")]]]
    /\ thread' = "dead"
    /\ UNCHANGED <<clientVars, mailbox, sharedVars, running, error, engineVars>>

\* The rest of _fail_all: the exception goes to every queue registered by now.
FailAll ==
    /\ thread = "failing"
    /\ LET ids == SetToSeq({id \in Id : queues[id] # None})
       IN  callbacks' = [callbacks EXCEPT ![loop] =
              @ \o [i \in 1 .. Len(ids) |->
                      [client |-> queues[ids[i]], item |-> Output(None, 0, "error")]]]
    /\ thread' = "dead"
    /\ UNCHANGED <<clientVars, mailbox, sharedVars, running, error, engineVars>>

-----------------------------------------------------------------------------

\* The call goes on by itself.
Progress(c) ==
    \/ BindLoop(c) \/ RegisterQueue(c) \/ Enqueue(c)
    \/ Receive(c)
    \/ PopQueue(c) \/ AppendAbort(c)

ClientNext(c) == CheckError(c) \/ Progress(c) \/ HangUp(c) \/ AbortAndHangUp(c)

ThreadNext ==
    \/ StartDrain \/ TakeInbox \/ InboxDone \/ TakeAbort \/ AbortsDone
    \/ Step \/ StepRaises \/ DispatchOne \/ DispatchDone
    \/ FailAll

LoopNext == \E l \in Loop : RunCallback(l)

Next ==
    \/ \E c \in Client : ClientNext(c)
    \/ ThreadNext
    \/ LoopNext
    \/ \E l \in Loop : Start(l)
    \/ Shutdown

Spec == Init /\ [][Next]_vars

\* The engine thread and the event loops keep running.  A call goes on when its
\* loop and the lock are free again and again: both are released every time
\* round.  The scheduler serves every unfinished request (RequestsFinish of
\* Scheduler.tla).
Fairness ==
    /\ WF_vars(ThreadNext)
    /\ WF_vars(LoopNext)
    /\ \A c \in Client : SF_vars(Progress(c))
    /\ \A id \in Id : SF_vars(\E served \in SUBSET Id : \E ended \in SUBSET served :
                                 id \in served /\ StepServing(served, ended))

FairSpec == Spec /\ Fairness

-----------------------------------------------------------------------------
(* What the front promises. *)

\* What is on its way to the consumer of a call, in the order it will arrive:
\* from the call's queue, over its event loop, from the step being dispatched.
OnItsWay(c) ==
    [i \in 1 .. Len(mailbox[c]) |-> [client |-> c, item |-> mailbox[c][i]]]
    \o callbacks[LoopOf[c]]
    \o [i \in 1 .. Len(outs) |-> [client |-> outs[i].owner, item |-> outs[i]]]

\* The places of the outputs for call c.
OutputsFor(c, way) == {i \in 1 .. Len(way) : way[i].client = c /\ way[i].item.kind # "error"}

\* The stream of a call that still waits is exact: every token its request has
\* produced was received or is on its way, once, in order, nothing of another
\* request in between, and nothing follows the final one.
StreamIsExact ==
    \A c \in Client : pc[c] = "waiting" =>
       LET way == OnItsWay(c)
           outputs == OutputsFor(c, way)
       IN  /\ \A i \in outputs : way[i].item.owner = c
           /\ {way[i].item.n : i \in outputs} = received[c] + 1 .. produced[c]
           /\ \A i, j \in outputs : i < j =>
                 way[i].item.n < way[j].item.n /\ way[i].item.kind # "final"

\* Work for a client that has gone is stopped: as long as its request is in the
\* engine, or about to be, so is an abort that comes after it.
NoOrphanedWork ==
    \A c \in Client :
       pc[c] = "closed" /\ (c \in Range(inbox) \/ live[IdOf[c]] = c) => c \in Range(aborts)

\* Every call that waits comes to its end while the engine thread runs: by its
\* final output, by the exception of a refused request, or because its client
\* leaves.
WaitersAnswered ==
    \A c \in Client : pc[c] = "waiting" ~> pc[c] = "closed" \/ ~running

\* "A crash in the engine thread must wake every waiter with the error and fail
\* fast on any later request, rather than hang" (async_engine.py:99-100).
CrashHangsNobody ==
    \A c \in Client : pc[c] = "waiting" /\ error ~> pc[c] = "closed"

\* Every call whose queue is registered when the engine thread goes down is
\* woken (async_engine.py:99-100).
CrashWakesRegistered ==
    \A c \in Client :
       thread = "failing" /\ queues[IdOf[c]] = c ~> pc[c] = "closed"
=============================================================================
