----------------------------- MODULE AsyncSender -----------------------------
(***************************************************************************)
(* class AsyncSender of addon.cc and the two send calls of a native data   *)
(* channel.  A binary message is queued for the process's one send thread  *)
(* and sendBinary returns at once; a string is sent on the calling thread. *)
(* Each step is one critical section of mutex_, or what a thread does      *)
(* between two of them.                                                    *)
(***************************************************************************)
EXTENDS Naturals, Sequences, FiniteSets, Functions

CONSTANTS
    Channels,       \* open data channels
    Threads,        \* JavaScript threads: the main one and workers
    ThreadOf,       \* the thread whose peer connection owns a channel
    MaxQueue,       \* kMaxQueue
    MaxSends,       \* bound: messages sent on one channel
    MaxFailures     \* bound: sends of the send thread that throw

ASSUME SenderAssumption == /\ ThreadOf \in [Channels -> Threads]
                           /\ MaxQueue \in Nat \ {0}
                           /\ MaxSends \in Nat
                           /\ MaxFailures \in Nat

VARIABLES
    queue,          \* queue_
    batch,          \* Run's local batch
    next,           \* the index in batch Run is about to send
    worker,         \* "awake" (about to take mutex_), "parked" or "sending"
    caller,         \* per thread: "idle", or "notify" between push and notify
    isOpen,         \* rtc::DataChannel::isOpen
    wire,           \* per channel: what reached the SCTP association, in order
    sends,          \* history: number of send calls made on a channel
    accepted,       \* history: the items pushed on queue_, in order
    handled,        \* history: the items Run has dealt with, in order
    failed          \* history: the items whose own send threw

history == <<sends, accepted, handled, failed>>
vars == <<queue, batch, next, worker, caller, isOpen, wire, history>>

\* The n-th message of a channel is the number n.
Numbers == 1 .. MaxSends
Items == [channel : Channels, n : Numbers]
OnWire == [n : Numbers, binary : BOOLEAN]

TypeOK ==
    /\ queue \in Seq(Items)
    /\ batch \in Seq(Items)
    /\ next \in Nat \ {0}
    /\ worker \in {"awake", "parked", "sending"}
    /\ caller \in [Threads -> {"idle", "notify"}]
    /\ isOpen \in [Channels -> BOOLEAN]
    /\ wire \in [Channels -> Seq(OnWire)]
    /\ sends \in [Channels -> 0 .. MaxSends]
    /\ accepted \in Seq(Items)
    /\ handled \in Seq(Items)
    /\ failed \in SUBSET Items

Init ==
    /\ queue = <<>>
    /\ batch = <<>>
    /\ next = 1
    /\ worker = "awake"
    /\ caller = [t \in Threads |-> "idle"]
    /\ isOpen = [c \in Channels |-> TRUE]
    /\ wire = [c \in Channels |-> <<>>]
    /\ sends = [c \in Channels |-> 0]
    /\ accepted = <<>>
    /\ handled = <<>>
    /\ failed = {}

-----------------------------------------------------------------------------
\* The JavaScript threads

CanSend(c) == /\ caller[ThreadOf[c]] = "idle"
              /\ sends[c] < MaxSends

Counted(c) == sends' = [sends EXCEPT ![c] = @ + 1]

\* Enqueue pushes; the notification comes after mutex_ is released.
SendBinary(c) ==
    /\ CanSend(c)
    /\ Len(queue) < MaxQueue
    /\ Counted(c)
    /\ LET item == [channel |-> c, n |-> sends[c] + 1]
       IN  /\ queue' = Append(queue, item)
           /\ accepted' = Append(accepted, item)
    /\ caller' = [caller EXCEPT ![ThreadOf[c]] = "notify"]
    /\ UNCHANGED <<batch, next, worker, isOpen, wire, handled, failed>>

\* At the cap the new message is dropped; JavaScript is told it was sent.
DropBinary(c) ==
    /\ CanSend(c)
    /\ Len(queue) >= MaxQueue
    /\ Counted(c)
    /\ UNCHANGED <<queue, batch, next, worker, caller, isOpen, wire, accepted,
                   handled, failed>>

\* Fault: the notification is lost when the queue is already empty again.
NotifyNobody(t) ==
    /\ caller[t] = "notify"
    /\ caller' = [caller EXCEPT ![t] = "idle"]
    /\ UNCHANGED <<queue, batch, next, worker, isOpen, wire, history>>

NotifyOne(t) ==
    /\ caller[t] = "notify"
    /\ caller' = [caller EXCEPT ![t] = "idle"]
    /\ worker' = IF worker = "parked" THEN "awake" ELSE worker
    /\ UNCHANGED <<queue, batch, next, isOpen, wire, history>>

\* rtc::DataChannel::send on the calling thread; when it throws, on a closed channel
\* or otherwise, that goes to JavaScript and nothing changes.
SendString(c) ==
    /\ CanSend(c)
    /\ isOpen[c]
    /\ Counted(c)
    /\ wire' = [wire EXCEPT ![c] = Append(@, [n |-> sends[c] + 1,
                                              binary |-> FALSE])]
    /\ UNCHANGED <<queue, batch, next, worker, caller, isOpen, accepted,
                   handled, failed>>

CloseChannel(c) ==
    /\ isOpen[c]
    /\ isOpen' = [isOpen EXCEPT ![c] = FALSE]
    /\ UNCHANGED <<queue, batch, next, worker, caller, wire, history>>

-----------------------------------------------------------------------------
\* Run, the send thread

\* condition_.wait: the predicate is tested holding mutex_.
Park ==
    /\ worker = "awake"
    /\ queue = <<>>
    /\ worker' = "parked"
    /\ UNCHANGED <<queue, batch, next, caller, isOpen, wire, history>>

\* A condition variable may also wake for no reason.
SpuriousWake ==
    /\ worker = "parked"
    /\ worker' = "awake"
    /\ UNCHANGED <<queue, batch, next, caller, isOpen, wire, history>>

\* Fault: the batch starts at the wrong index.
SwapFromZero ==
    /\ worker = "awake"
    /\ queue # <<>>
    /\ batch' = queue
    /\ queue' = batch
    /\ next' = 0
    /\ worker' = "sending"
    /\ UNCHANGED <<caller, isOpen, wire, history>>

Swap ==
    /\ worker = "awake"
    /\ queue # <<>>
    /\ batch' = queue
    /\ queue' = batch
    /\ next' = 1
    /\ worker' = "sending"
    /\ UNCHANGED <<caller, isOpen, wire, history>>

Reaches(item) ==
    /\ isOpen[item.channel]
    /\ wire' = [wire EXCEPT ![item.channel] =
                    Append(@, [n |-> item.n, binary |-> TRUE])]
    /\ UNCHANGED failed

Throws(item) ==
    /\ isOpen[item.channel]
    /\ Cardinality(failed) < MaxFailures
    /\ failed' = failed \cup {item}
    /\ UNCHANGED wire

PassedOver(item) == ~isOpen[item.channel] /\ UNCHANGED <<wire, failed>>

\* Fault: the handler is around the loop, and an exception ends the batch.
SendItemUnguarded ==
    /\ worker = "sending"
    /\ next <= Len(batch)
    /\ LET item == batch[next]
       IN  \/ /\ Reaches(item) \/ PassedOver(item)
             /\ handled' = Append(handled, item)
             /\ next' = next + 1
          \/ /\ Throws(item)
             /\ handled' = handled \o SubSeq(batch, next, Len(batch))
             /\ next' = Len(batch) + 1
    /\ UNCHANGED <<queue, batch, worker, caller, isOpen, sends, accepted>>

\* An item of a channel that closed is passed over; an exception of its send is
\* swallowed, and the message lost.
SendItem ==
    /\ worker = "sending"
    /\ next <= Len(batch)
    /\ LET item == batch[next]
       IN  /\ Reaches(item) \/ Throws(item) \/ PassedOver(item)
           /\ handled' = Append(handled, item)
    /\ next' = next + 1
    /\ UNCHANGED <<queue, batch, worker, caller, isOpen, sends, accepted>>

\* Fault: the batch is not cleared, so the next swap puts it back in queue_.
ClearNothing ==
    /\ worker = "sending"
    /\ next > Len(batch)
    /\ worker' = "awake"
    /\ UNCHANGED <<queue, batch, next, caller, isOpen, wire, history>>

Clear ==
    /\ worker = "sending"
    /\ next > Len(batch)
    /\ batch' = <<>>
    /\ worker' = "awake"
    /\ UNCHANGED <<queue, next, caller, isOpen, wire, history>>

Run == Park \/ Swap \/ SendItem \/ Clear

Next ==
    \/ \E c \in Channels : \/ SendBinary(c) \/ DropBinary(c)
                           \/ SendString(c) \/ CloseChannel(c)
    \/ \E t \in Threads : NotifyOne(t)
    \/ Run
    \/ SpuriousWake

\* The operating system runs the send thread and finishes a started Enqueue.
Spec == /\ Init /\ [][Next]_vars
        /\ WF_vars(Run)
        /\ \A t \in Threads : WF_vars(NotifyOne(t))

-----------------------------------------------------------------------------
(***************************************************************************)
(* The send thread sleeps on a non-empty queue only while the thread that  *)
(* filled it is between its push and its notify_one: no item waits for a   *)
(* message that may never be sent.                                         *)
(***************************************************************************)
NoLostWakeup ==
    worker = "parked" /\ queue # <<>> =>
        \E t \in Threads : caller[t] = "notify"

(***************************************************************************)
(* addon.cc:145-151: whatever closes or throws in its batch, a message that *)
(* Run dealt with is on the wire if its channel is still open, unless its   *)
(* own send threw: no channel pays for another's failure.                  *)
(***************************************************************************)
OpenChannelsLoseNothing ==
    \A item \in Range(handled) \ failed :
        isOpen[item.channel] =>
            [n |-> item.n, binary |-> TRUE] \in Range(wire[item.channel])

\* README.md:30-31 "(FIFO, so per-channel ordering is preserved": what is sent
\* on a channel reaches the wire in the order of the send calls.
ChannelInOrder ==
    \A c \in Channels : \A i, j \in DOMAIN wire[c] :
        i < j => wire[c][i].n < wire[c][j].n

-----------------------------------------------------------------------------
\* Queue, batch and send thread are an ordered path that loses nothing.
Path == INSTANCE OrderedDelivery WITH
            Message <- Items, sent <- accepted, received <- handled,
            open <- TRUE
=============================================================================
