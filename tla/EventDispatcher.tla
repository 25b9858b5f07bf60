--------------------------- MODULE EventDispatcher ---------------------------
(***************************************************************************)
(* struct EventDispatcher of addon.cc: how the callbacks of one peer       *)
(* connection travel from libdatachannel's threads to the JavaScript       *)
(* thread.  Data-channel messages are collected in pendingEvents and taken *)
(* by a drain, at most one of which should be outstanding; every other     *)
(* event gets a queue item of its own.  Each step is one critical section  *)
(* of lifecycleMutex, or the unlocked call into JavaScript between two.    *)
(*                                                                         *)
(* The thread-safe function (Node-API, external) is its queue of items,    *)
(* run one at a time and in order on the JavaScript thread.                *)
(***************************************************************************)
EXTENDS Naturals, Sequences

CONSTANTS
    MaxMessages,        \* bound: messages emitted by native threads
    MaxDirect           \* bound: other events emitted by native threads

ASSUME DispatcherAssumption == /\ MaxMessages \in Nat
                               /\ MaxDirect \in Nat

VARIABLES
    active,             \* cleared by Close
    pendingEvents,      \* messages waiting for a drain
    dispatchScheduled,  \* a drain is thought to be queued or running
    tsfnQueue,          \* items queued on the thread-safe function
    tsfnClosing,        \* the environment is being torn down
    phase,              \* what the JavaScript thread does in Drain
    batch,              \* the events Drain swapped out of pendingEvents
    delivered,          \* history: messages handed to JavaScript
    accepted,           \* history: number of messages taken by Emit
    directs,            \* history: number of direct events emitted
    thrown              \* history: the JavaScript event callback has thrown

nativeVars == <<active, tsfnClosing, thrown>>
vars == <<active, pendingEvents, dispatchScheduled, tsfnQueue, tsfnClosing,
          phase, batch, delivered, accepted, directs, thrown>>

\* The n-th message Emit accepts is the number n.
Messages == 1 .. MaxMessages

Items == [kind : {"drain", "direct"}, n : Nat, behind : Nat]

DrainItem == [kind |-> "drain", n |-> 0, behind |-> 0]

\* The n-th direct event remembers how many messages were accepted for delivery ahead
\* of it: all of them, or those of the running batch when JavaScript is inside
\* a drain's callback (what arrives then waits for the next drain).
DirectItem == [kind |-> "direct", n |-> directs + 1,
               behind |-> IF phase = "idle" THEN accepted
                          ELSE Len(delivered) + Len(batch)]

IsDrain(item) == item.kind = "drain"

TypeOK ==
    /\ active \in BOOLEAN
    /\ pendingEvents \in Seq(Messages)
    /\ dispatchScheduled \in BOOLEAN
    /\ tsfnQueue \in Seq(Items)
    /\ tsfnClosing \in BOOLEAN
    /\ phase \in {"idle", "calling", "called", "batched"}
    /\ batch \in Seq(Messages)
    /\ delivered \in Seq(Messages)
    /\ accepted \in 0 .. MaxMessages
    /\ directs \in 0 .. MaxDirect
    /\ thrown \in BOOLEAN

Init ==
    /\ active = TRUE
    /\ pendingEvents = <<>>
    /\ dispatchScheduled = FALSE
    /\ tsfnQueue = <<>>
    /\ tsfnClosing = FALSE
    /\ phase = "idle"
    /\ batch = <<>>
    /\ delivered = <<>>
    /\ accepted = 0
    /\ directs = 0
    /\ thrown = FALSE

-----------------------------------------------------------------------------
\* Native threads

\* NonBlockingCall of a drain: refused once the environment is torn down, and
\* then the waiting messages are given up.
QueueDispatchLocked(events) ==
    \/ /\ ~tsfnClosing
       /\ tsfnQueue' = Append(tsfnQueue, DrainItem)
       /\ dispatchScheduled' = TRUE
       /\ pendingEvents' = events
    \/ /\ tsfnClosing
       /\ dispatchScheduled' = FALSE
       /\ pendingEvents' = <<>>
       /\ UNCHANGED tsfnQueue

\* Fault: the dispatchScheduled test is missing.
EmitUnguarded ==
    /\ active
    /\ accepted < MaxMessages
    /\ accepted' = accepted + 1
    /\ QueueDispatchLocked(Append(pendingEvents, accepted + 1))
    /\ UNCHANGED <<nativeVars, phase, batch, delivered, directs>>

\* Fault: the event's number is off by one.
EmitMisnumbered ==
    /\ active
    /\ accepted < MaxMessages
    /\ accepted' = accepted + 1
    /\ pendingEvents' = Append(pendingEvents, accepted)
    /\ dispatchScheduled' = TRUE
    /\ tsfnQueue' = IF dispatchScheduled \/ tsfnClosing THEN tsfnQueue
                    ELSE Append(tsfnQueue, DrainItem)
    /\ UNCHANGED <<nativeVars, phase, batch, delivered, directs>>

Emit ==
    /\ active
    /\ accepted < MaxMessages
    /\ accepted' = accepted + 1
    /\ LET events == Append(pendingEvents, accepted + 1)
       IN  \/ /\ ~dispatchScheduled
              /\ QueueDispatchLocked(events)
           \/ /\ dispatchScheduled
              /\ pendingEvents' = events
              /\ UNCHANGED <<dispatchScheduled, tsfnQueue>>
    /\ UNCHANGED <<nativeVars, phase, batch, delivered, directs>>

EmitDirect ==
    /\ active
    /\ directs < MaxDirect
    /\ directs' = directs + 1
    /\ tsfnQueue' = IF tsfnClosing THEN tsfnQueue
                    ELSE Append(tsfnQueue, DirectItem)
    /\ UNCHANGED <<nativeVars, pendingEvents, dispatchScheduled, phase, batch,
                   delivered, accepted>>

\* Called by PeerBinding::PrepareShutdown on whichever thread closes the peer.
\* The release lets what is already queued run.
Close ==
    /\ active
    /\ active' = FALSE
    /\ pendingEvents' = <<>>
    /\ dispatchScheduled' = FALSE
    /\ UNCHANGED <<tsfnQueue, tsfnClosing, phase, batch, delivered, accepted,
                   directs, thrown>>

-----------------------------------------------------------------------------
\* The JavaScript thread

\* DispatchDirect looks at no state of the dispatcher.
DispatchDirect ==
    /\ phase = "idle"
    /\ tsfnQueue # <<>>
    /\ ~IsDrain(Head(tsfnQueue))
    /\ tsfnQueue' = Tail(tsfnQueue)
    /\ UNCHANGED <<nativeVars, pendingEvents, dispatchScheduled, phase, batch,
                   delivered, accepted, directs>>

\* Fault: pendingEvents is copied, not swapped out.
DrainCopies ==
    /\ phase = "idle"
    /\ tsfnQueue # <<>>
    /\ IsDrain(Head(tsfnQueue))
    /\ tsfnQueue' = Tail(tsfnQueue)
    /\ pendingEvents # <<>>
    /\ batch' = pendingEvents
    /\ phase' = "calling"
    /\ UNCHANGED <<nativeVars, pendingEvents, dispatchScheduled, delivered,
                   accepted, directs>>

\* Fault: a drain takes one message and leaves the rest to the next drain.
DrainTakesOne ==
    /\ phase = "idle"
    /\ tsfnQueue # <<>>
    /\ IsDrain(Head(tsfnQueue))
    /\ tsfnQueue' = Tail(tsfnQueue)
    /\ pendingEvents # <<>>
    /\ batch' = <<Head(pendingEvents)>>
    /\ pendingEvents' = Tail(pendingEvents)
    /\ phase' = "calling"
    /\ UNCHANGED <<nativeVars, dispatchScheduled, delivered, accepted, directs>>

DrainSwap ==
    /\ phase = "idle"
    /\ tsfnQueue # <<>>
    /\ IsDrain(Head(tsfnQueue))
    /\ tsfnQueue' = Tail(tsfnQueue)
    /\ \/ /\ pendingEvents = <<>>
          /\ dispatchScheduled' = FALSE
          /\ UNCHANGED <<pendingEvents, phase, batch>>
       \/ /\ pendingEvents # <<>>
          /\ batch' = pendingEvents
          /\ pendingEvents' = <<>>
          /\ phase' = "calling"
          /\ UNCHANGED dispatchScheduled
    /\ UNCHANGED <<nativeVars, delivered, accepted, directs>>

\* callback.Call, without the mutex: JavaScript sees the whole batch, as an array
\* only if it has more than one message.
DrainCall ==
    /\ phase = "calling"
    /\ delivered' = delivered \o batch
    /\ batch' = <<>>
    /\ phase' = IF Len(batch) > 1 THEN "batched" ELSE "called"
    /\ UNCHANGED <<nativeVars, pendingEvents, dispatchScheduled, tsfnQueue,
                   accepted, directs>>

\* Fault: the emptiness test is made before the callback, on a stale value.
DrainFinishStale ==
    /\ phase \in {"called", "batched"}
    /\ phase' = "idle"
    /\ dispatchScheduled' = FALSE
    /\ UNCHANGED <<nativeVars, pendingEvents, tsfnQueue, batch, delivered,
                   accepted, directs>>

\* Fault: the requeue is left to Emit, which sees the flag set.
DrainFinishNoRequeue ==
    /\ phase \in {"called", "batched"}
    /\ phase' = "idle"
    /\ dispatchScheduled' = (active /\ pendingEvents # <<>>)
    /\ UNCHANGED <<nativeVars, pendingEvents, tsfnQueue, batch, delivered,
                   accepted, directs>>

\* The second critical section of Drain, after the callback returned.
DrainFinish ==
    /\ phase \in {"called", "batched"}
    /\ phase' = "idle"
    /\ \/ /\ ~active \/ pendingEvents = <<>>
          /\ dispatchScheduled' = FALSE
          /\ UNCHANGED <<pendingEvents, tsfnQueue>>
       \/ /\ active /\ pendingEvents # <<>>
          /\ QueueDispatchLocked(pendingEvents)
    /\ UNCHANGED <<nativeVars, batch, delivered, accepted, directs>>

\* The addon is built with C++ exceptions: when the callback leaves a JavaScript
\* exception pending, callback.Call throws and Drain unwinds past its second
\* critical section.  Only for an array does a message handler run inside the
\* callback; a single message is queued, and its handler called from a task.
DrainThrow ==
    /\ phase = "batched"
    /\ phase' = "idle"
    /\ thrown' = TRUE
    /\ UNCHANGED <<active, tsfnClosing, pendingEvents, dispatchScheduled,
                   tsfnQueue, batch, delivered, accepted, directs>>

\* Environment teardown discards the queue and refuses later calls, while
\* native threads still run.
EnvTeardown ==
    /\ ~tsfnClosing
    /\ phase = "idle"
    /\ tsfnClosing' = TRUE
    /\ tsfnQueue' = <<>>
    /\ UNCHANGED <<active, pendingEvents, dispatchScheduled, phase, batch,
                   delivered, accepted, directs, thrown>>

JavaScript == DispatchDirect \/ DrainSwap \/ DrainCall \/ DrainFinish
                \/ DrainThrow

Next == Emit \/ EmitDirect \/ Close \/ EnvTeardown \/ JavaScript

\* Node's event loop keeps running queued items; native threads owe nothing.
Spec == Init /\ [][Next]_vars /\ WF_vars(JavaScript)

-----------------------------------------------------------------------------
HasDrain(q) == \E i \in DOMAIN q : IsDrain(q[i])

SingleDrain(q) ==
    \A i, j \in DOMAIN q : IsDrain(q[i]) /\ IsDrain(q[j]) => i = j

\* The drain is where it must be: queued, or running with its end to come.
Outstanding == phase # "idle" \/ HasDrain(tsfnQueue)

(***************************************************************************)
(* Until a callback throws, a message waiting in pendingEvents always has  *)
(* a drain coming for it.  dispatchScheduled alone decides whether Emit    *)
(* queues one, so a flag left set with no drain outstanding would strand   *)
(* every later message.                                                    *)
(***************************************************************************)
NoLostWakeup ==
    active /\ ~tsfnClosing /\ ~thrown /\ pendingEvents # <<>> => Outstanding

(***************************************************************************)
(* lib/index.js:112-115: a throwing message handler does not stall         *)
(* delivery; a drain is still coming for the messages that wait.           *)
(***************************************************************************)
ThrowStallsNothing ==
    active /\ ~tsfnClosing /\ thrown /\ pendingEvents # <<>> => Outstanding

(***************************************************************************)
(* While the peer is open there is at most one drain, queued or running:   *)
(* Emit on many threads never queues a second one behind a running batch.  *)
(***************************************************************************)
OneDrain ==
    active =>
        /\ SingleDrain(tsfnQueue)
        /\ phase # "idle" => ~HasDrain(tsfnQueue)

(***************************************************************************)
(* Messages reach JavaScript in the order Emit accepted them, each once,   *)
(* and those not delivered yet are still in the batch or in pendingEvents. *)
(***************************************************************************)
Undelivered == batch \o pendingEvents

NothingLost ==
    /\ \A i \in DOMAIN delivered : delivered[i] = i
    /\ active /\ ~tsfnClosing =>
          /\ Len(delivered) + Len(Undelivered) = accepted
          /\ \A i \in DOMAIN Undelivered :
                Undelivered[i] = Len(delivered) + i

(***************************************************************************)
(* Until a callback throws, a direct event (a channel's close, say) reaches JavaScript only after   *)
(* the messages accepted before it, except those accepted while a drain's  *)
(* callback was running: those it may overtake.                            *)
(***************************************************************************)
DirectOvertakesNothingQueued ==
    active /\ ~tsfnClosing /\ ~thrown /\ phase = "idle" /\ tsfnQueue # <<>> =>
        Len(delivered) >= Head(tsfnQueue).behind

-----------------------------------------------------------------------------
\* The dispatcher implements an ordered, lossless path while it is open and no
\* callback has thrown.
Path == INSTANCE OrderedDelivery WITH
            Message  <- Messages,
            sent     <- [i \in 1 .. accepted |-> i],
            received <- delivered,
            open     <- active /\ ~tsfnClosing /\ ~thrown
=============================================================================
