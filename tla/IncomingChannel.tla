--------------------------- MODULE IncomingChannel ---------------------------
(***************************************************************************)
(* What an application sees of one data channel its remote peer opened:    *)
(* the JavaScript half of lib/index.js (announcement, event and message    *)
(* queues, message gates, close handling) fed by the EventDispatcher of    *)
(* its peer connection.                                                    *)
(*                                                                         *)
(* libdatachannel reports the channel (direct event 1), its opening (2),   *)
(* then messages, then its closing (3).  The dispatcher may let a message  *)
(* overtake a direct event or be overtaken by one.  Messages of other      *)
(* channels of the peer share the dispatcher and are not followed further. *)
(*                                                                         *)
(* The JavaScript thread runs one task at a time.  js holds its state; the *)
(* operators below are the methods of RTCDataChannel and RTCPeerConnection,*)
(* from a state of js to the next, and an action runs one task.            *)
(***************************************************************************)
EXTENDS Naturals, Sequences, Functions

CONSTANTS
    MaxMessages,        \* bound: messages the peer connection receives
    MaxOperations,      \* bound: signaling operations that start meanwhile
    MaxIceEvents,       \* bound: ICE events deferred behind one of them
    HandlerMayThrow,    \* may the application's message handler throw
    ConnectionMayEnd,   \* may the connection fail, or be closed elsewhere than
                        \* in the handlers of the channel
    GraceSuffices       \* does what a remote close overtook reach the channel
                        \* within the grace period

ASSUME IncomingAssumption == /\ MaxMessages \in Nat
                             /\ MaxOperations \in Nat
                             /\ MaxIceEvents \in Nat
                             /\ HandlerMayThrow \in BOOLEAN
                             /\ ConnectionMayEnd \in BOOLEAN
                             /\ GraceSuffices \in BOOLEAN

\* Direct events of the dispatcher: the channel's, in libdatachannel's order.
DirectEvents == <<"datachannel", "open", "close">>
MaxDirect == Len(DirectEvents)

VARIABLES active, pendingEvents, dispatchScheduled, tsfnQueue, tsfnClosing,
          phase, batch, delivered, accepted, directs, thrown

dispatcherVars == <<active, pendingEvents, dispatchScheduled, tsfnQueue,
                    tsfnClosing, phase, batch, delivered, accepted, directs,
                    thrown>>

D == INSTANCE EventDispatcher

VARIABLES
    ours,               \* the accepted messages that are this channel's
    js                  \* the JavaScript state

vars == <<dispatcherVars, ours, js>>

Event(type, n) == [type |-> type, n |-> n]
Message(n) == Event("message", n)
Messages(ns) == [i \in 1 .. Len(ns) |-> Message(ns[i])]

InitJs ==
    [known                      |-> FALSE,  \* in RTCPeerConnection._channels
     pendingNativeEvents        |-> <<>>,   \* events of a channel not known
     readyState                 |-> "connecting",
     announcementPending        |-> FALSE,
     openEventPending           |-> FALSE,
     openEventDispatched        |-> FALSE,
     openDeferredForIce         |-> FALSE,
     queuedNativeEvents         |-> <<>>,
     nativeEventDrainActive     |-> FALSE,
     queuedMessageEvents        |-> <<>>,
     messageEventFlushScheduled |-> FALSE,
     messageEventGateActive     |-> FALSE,
     messageConsumerGateActive  |-> FALSE,
     nativeCloseEventQueued     |-> FALSE,
     graceOver                  |-> FALSE,  \* REMOTE_CLOSE_MESSAGE_GRACE_MS
     pendingDataChannelEvent    |-> FALSE,
     dataChannelFlushScheduled  |-> FALSE,
     timers                     |-> <<>>,   \* setTimeout(_, 0), oldest first
     immediates                 |-> <<>>,   \* setImmediate, oldest first
     messageConsumer            |-> "none", \* or "onmessage" or "listener"
     dataChannelConsumer        |-> FALSE,
     operationsPending          |-> 0,
     operations                 |-> 0,      \* history: operations started
     idleCallbacks              |-> 0,
     deferredIceEvents          |-> 0,
     iceEventFlushScheduled     |-> FALSE,
     closed                     |-> FALSE,  \* RTCPeerConnection.close was called
     threw                      |-> FALSE,  \* out of the event callback
     log                        |-> <<>>]   \* history: events dispatched

Init == D!Init /\ ours = {} /\ js = InitJs

-----------------------------------------------------------------------------
\* Small steps of the methods

Dispatch(s, event) == [s EXCEPT !.log = Append(@, event)]
Later(s, task) == [s EXCEPT !.timers = Append(@, task)]
Soon(s, task) == [s EXCEPT !.immediates = Append(@, task)]

ScheduleMessageFlush(s) ==
    IF s.messageEventFlushScheduled THEN s
    ELSE Soon([s EXCEPT !.messageEventFlushScheduled = TRUE], "flushMessages")

QueueMessages(s, ns) ==
    ScheduleMessageFlush([s EXCEPT !.queuedMessageEvents = @ \o ns])

QueueNativeClose(s) ==
    IF s.nativeCloseEventQueued THEN s
    ELSE Later([s EXCEPT !.nativeCloseEventQueued = TRUE, !.graceOver = FALSE],
               "pollClose")

ScheduleIceFlush(s) ==
    IF s.iceEventFlushScheduled \/ s.deferredIceEvents = 0 THEN s
    ELSE Soon([s EXCEPT !.iceEventFlushScheduled = TRUE], "flushIceEvents")

DispatchOpen(s) ==
    IF s.openEventDispatched \/ s.readyState # "open" THEN s
    ELSE IF s.deferredIceEvents > 0 \/ s.iceEventFlushScheduled
    THEN ScheduleIceFlush([s EXCEPT !.openDeferredForIce = TRUE])
    ELSE Dispatch([s EXCEPT !.openEventDispatched = TRUE], Event("open", 0))

HandleClose(s) ==
    IF s.readyState = "closed" THEN s
    ELSE Dispatch([s EXCEPT !.readyState = "closed", !.known = FALSE],
                  Event("close", 0))

ReleaseConsumerGate(s) ==
    IF ~s.messageConsumerGateActive THEN s
    ELSE ScheduleMessageFlush([s EXCEPT !.messageConsumerGateActive = FALSE])

AddMessageConsumer(s, consumer) ==
    IF consumer = "none" THEN s
    ELSE ReleaseConsumerGate([s EXCEPT !.messageConsumer = consumer])

GateUntilConsumer(s) ==
    IF s.messageConsumer # "none" THEN s
    ELSE [s EXCEPT !.messageConsumerGateActive = TRUE]

GateAfterAnnouncement(s) ==
    IF s.messageEventGateActive THEN s
    ELSE Later([s EXCEPT !.messageEventGateActive = TRUE], "gate1")

\* RTCDataChannel.close with nothing buffered and no paired channel.
LocalClose(s) ==
    IF s.readyState \in {"closing", "closed"} THEN s
    ELSE Soon([s EXCEPT !.readyState = "closing"], "closeNative")

ScheduleDataChannelFlush(s) ==
    IF s.dataChannelFlushScheduled \/ ~s.pendingDataChannelEvent THEN s
    ELSE Later([s EXCEPT !.dataChannelFlushScheduled = TRUE], "flushDataChannel")

-----------------------------------------------------------------------------
\* Native events reaching the channel

\* RTCDataChannel._handleNativeEvent past its first test.
HandleNow(s, event) ==
    CASE event.type = "open" ->
            IF s.openEventPending THEN [s EXCEPT !.readyState = "open"]
            ELSE IF s.readyState \in {"connecting", "open"}
            THEN DispatchOpen([s EXCEPT !.readyState = "open"])
            ELSE s
      [] event.type = "message" -> QueueMessages(s, <<event.n>>)
      [] event.type = "close" -> QueueNativeClose(s)

\* Fault: only the drain holds events back, not the pending announcement.
HandleNativeUnannounced(s, event) ==
    IF s.nativeEventDrainActive
    THEN [s EXCEPT !.queuedNativeEvents = Append(@, event)]
    ELSE HandleNow(s, event)

HandleNative(s, event) ==
    IF ~(s.announcementPending \/ s.nativeEventDrainActive)
    THEN HandleNow(s, event)
    ELSE IF event.type = "open"
    THEN [s EXCEPT !.readyState = "open", !.openEventPending = TRUE]
    ELSE [s EXCEPT !.queuedNativeEvents = Append(@, event)]

\* The "datachannel" event: the channel is created open (channelReadyState) and
\* its early events wait with it for the announcement.
Announce(s) ==
    ScheduleDataChannelFlush(
        [s EXCEPT !.known = TRUE,
                  !.readyState = "open",
                  !.openEventPending = TRUE,
                  !.announcementPending = TRUE,
                  !.pendingDataChannelEvent = TRUE,
                  !.queuedNativeEvents = s.pendingNativeEvents,
                  !.pendingNativeEvents = <<>>])

\* RTCPeerConnection._handleNativeEvent
PeerEvent(s, event) ==
    IF s.closed THEN s
    ELSE IF event.type = "datachannel" THEN Announce(s)
    ELSE IF s.known THEN HandleNative(s, event)
    ELSE [s EXCEPT !.pendingNativeEvents = Append(@, event)]

\* One event of a batch after the other.
PeerEvents(s, events) ==
    LET after[i \in 0 .. Len(events)] ==
            IF i = 0 THEN s ELSE PeerEvent(after[i - 1], events[i])
    IN  after[Len(events)]

DrainQueuedEvent(s) ==
    IF s.queuedNativeEvents = <<>> THEN [s EXCEPT !.nativeEventDrainActive = FALSE]
    ELSE LET event == Head(s.queuedNativeEvents)
             rest  == Tail(s.queuedNativeEvents)
             t     == HandleNow([s EXCEPT !.queuedNativeEvents = rest], event)
         IN  IF rest # <<>> THEN Soon(t, "drainNativeEvents")
             ELSE [t EXCEPT !.nativeEventDrainActive = FALSE]

\* RTCPeerConnection.close, as the channel sees it.
ClosePeer(s) ==
    LET t == [s EXCEPT !.closed = TRUE, !.deferredIceEvents = 0]
    IN  IF t.known THEN HandleClose(t) ELSE t

-----------------------------------------------------------------------------
\* Messages: what a task may do is a set of results, because the application's
\* handler may react to a message.

DispatchMessages(s, ns) ==
    [s EXCEPT !.log = @ \o Messages(ns)]

\* Fault: what a handler left of its batch is not queued.
HandOverDropsRest(s, ns) ==
    LET first(k) == DispatchMessages(s, SubSeq(ns, 1, k))
    IN  {first(Len(ns))}
        \cup {[first(k) EXCEPT !.messageConsumer = "listener"] :
                  k \in 1 .. Len(ns) - 1}

\* A function in onmessage, and no listener: messages are handed over in a loop
\* that the handler leaves early by closing the peer or adding a listener.
HandOver(s, ns) ==
    LET first(k) == DispatchMessages(s, SubSeq(ns, 1, k))
    IN  {first(Len(ns))}
        \cup {ClosePeer(first(k)) : k \in 1 .. Len(ns)}
        \cup {QueueMessages([first(k) EXCEPT !.messageConsumer = "listener"],
                            SubSeq(ns, k + 1, Len(ns))) : k \in 1 .. Len(ns) - 1}

MessagesHeld(s) ==
    \/ s.operationsPending > 0
    \/ s.messageEventGateActive
    \/ s.messageConsumerGateActive /\ s.messageConsumer = "none"

\* Fault: no callback is left with the pending operation.
FlushMessagesForgotten(s) ==
    IF s.readyState = "closed" THEN {[s EXCEPT !.queuedMessageEvents = <<>>]}
    ELSE IF MessagesHeld(s) THEN {s}
    ELSE {DispatchMessages([s EXCEPT !.queuedMessageEvents = <<>>],
                           s.queuedMessageEvents)}

\* _flushQueuedMessageEvents; a throwing handler is contained here.
FlushMessages(s) ==
    IF s.readyState = "closed" THEN {[s EXCEPT !.queuedMessageEvents = <<>>]}
    ELSE IF s.operationsPending > 0 THEN {[s EXCEPT !.idleCallbacks = @ + 1]}
    ELSE IF MessagesHeld(s) THEN {s}
    ELSE LET t    == [s EXCEPT !.messageConsumerGateActive = FALSE,
                               !.queuedMessageEvents = <<>>]
             ns   == s.queuedMessageEvents
         IN  IF ns = <<>> THEN {t}
             ELSE IF s.messageConsumer = "onmessage" THEN HandOver(t, ns)
             ELSE LET u == DispatchMessages(t, <<Head(ns)>>)
                  IN  {IF Tail(ns) = <<>> THEN u ELSE QueueMessages(u, Tail(ns))}

\* _handleNativeEventBatch and _dispatchNativeMessageBatch: the handler is
\* called without callListener, so its exception leaves the event callback.
MessageBatch(s, ns) ==
    IF ~s.known
    THEN {[s EXCEPT !.pendingNativeEvents = @ \o Messages(ns)]}
    ELSE IF s.announcementPending \/ s.nativeEventDrainActive
    THEN {[s EXCEPT !.queuedNativeEvents = @ \o Messages(ns)]}
    ELSE IF s.queuedMessageEvents # <<>> \/ MessagesHeld(s)
    THEN {QueueMessages(s, ns)}
    ELSE LET t == [s EXCEPT !.messageConsumerGateActive = FALSE]
             Thrown(k) == [DispatchMessages(t, SubSeq(ns, 1, k))
                              EXCEPT !.threw = TRUE]
         IN  IF t.messageConsumer # "onmessage" THEN {QueueMessages(t, ns)}
             ELSE HandOver(t, ns)
                  \cup (IF HandlerMayThrow THEN {Thrown(k) : k \in 1 .. Len(ns)}
                        ELSE {})

-----------------------------------------------------------------------------
\* Timers and immediates

\* _scheduleDataChannelFlush's timer: the datachannel event, to which the
\* application may react by adding a message handler or by closing, and then
\* the release of what waited for it.
AfterAnnouncement(s) ==
    LET announced == [s EXCEPT !.announcementPending = FALSE]
        opened == IF ~announced.openEventPending THEN announced
                  ELSE Later([announced EXCEPT !.openEventPending = FALSE],
                             "announceOpen")
        gated == GateUntilConsumer(GateAfterAnnouncement(opened))
    IN  IF gated.queuedNativeEvents = <<>> THEN gated
        ELSE Soon([gated EXCEPT !.nativeEventDrainActive = TRUE],
                  "drainNativeEvents")

FlushDataChannel(s) ==
    LET t == [s EXCEPT !.dataChannelFlushScheduled = FALSE]
        sent == Dispatch(GateUntilConsumer([t EXCEPT !.pendingDataChannelEvent = FALSE]),
                         Event("datachannel", 0))
    IN  IF t.closed \/ ~t.dataChannelConsumer THEN {t}
        ELSE {AfterAnnouncement(r) :
                r \in {AddMessageConsumer(sent, c) : c \in {"none", "onmessage", "listener"}}
                        \cup {LocalClose(sent), ClosePeer(sent)}}

\* Fault: only the grace period is waited for, not the queued messages.
PollCloseAfterGrace(s) ==
    IF s.readyState = "closed" THEN s
    ELSE IF ~s.graceOver THEN Later(s, "pollClose")
    ELSE Dispatch([s EXCEPT !.nativeCloseEventQueued = FALSE,
                            !.readyState = "closing"], Event("closing", 0))

\* Fault: the poll is not repeated.
PollCloseOnce(s) ==
    IF s.readyState = "closed" \/ s.queuedMessageEvents # <<>> \/ ~s.graceOver
    THEN s ELSE HandleClose(s)

\* _deferRemoteCloseUntilMessagesFlushed, then _handleNativeCloseEvent.
PollClose(s) ==
    IF s.readyState = "closed" THEN s
    ELSE IF \/ ~s.graceOver
            \/ s.messageEventGateActive
            \/ s.messageEventFlushScheduled
            \/ s.queuedMessageEvents # <<>>
    THEN Later(s, "pollClose")
    ELSE LET t == [s EXCEPT !.nativeCloseEventQueued = FALSE]
         IN  IF t.readyState # "open" THEN HandleClose(t)
             ELSE Later(Dispatch([t EXCEPT !.readyState = "closing"],
                                 Event("closing", 0)),
                        "finishClose")

\* The end of _finishRemoteClose and of close: only a closing channel closes.
CloseIfClosing(s) == IF s.readyState = "closing" THEN HandleClose(s) ELSE s

TimerResults(s, task) ==
    CASE task = "flushDataChannel" -> FlushDataChannel(s)
      [] task = "announceOpen" -> {IF s.readyState = "open" THEN DispatchOpen(s) ELSE s}
      [] task = "gate1" -> {Later(s, "gate2")}
      [] task = "gate2" ->
            {ScheduleMessageFlush([s EXCEPT !.messageEventGateActive = FALSE])}
      [] task = "pollClose" -> {PollClose(s)}
      [] task \in {"finishClose", "closeLocal"} -> {CloseIfClosing(s)}

\* One deferred event a turn, and after the last of them the waiting open.
FlushIceEvents(s) ==
    LET idle == [s EXCEPT !.iceEventFlushScheduled = FALSE]
        left == IF s.closed THEN 0 ELSE s.deferredIceEvents - 1
        t    == [idle EXCEPT !.deferredIceEvents = left]
    IN  IF ~s.closed /\ (s.operationsPending > 0 \/ left > 0)
        THEN ScheduleIceFlush(IF s.operationsPending > 0 THEN idle ELSE t)
        ELSE IF t.openDeferredForIce THEN Soon(t, "retryOpen") ELSE t

ImmediateResults(s, task) ==
    CASE task = "flushMessages" ->
            FlushMessages([s EXCEPT !.messageEventFlushScheduled = FALSE])
      [] task = "rescheduleFlush" -> {ScheduleMessageFlush(s)}
      [] task = "drainNativeEvents" -> {DrainQueuedEvent(s)}
      [] task = "closeNative" -> {Later(s, "closeLocal")}
      [] task = "flushIceEvents" -> {FlushIceEvents(s)}
      [] task = "retryOpen" ->
            {DispatchOpen([s EXCEPT !.openDeferredForIce = FALSE])}

-----------------------------------------------------------------------------
\* Native threads

\* libdatachannel triggers open after reporting the channel, delivers messages
\* only to an open channel, and none after reporting it closed.
NativeDirect == D!EmitDirect /\ UNCHANGED <<ours, js>>

NativeMessage ==
    /\ directs = 2
    /\ D!Emit
    /\ ours' = ours \cup {accepted'}
    /\ UNCHANGED js

OtherMessage == D!Emit /\ UNCHANGED <<ours, js>>

-----------------------------------------------------------------------------
\* The JavaScript thread: items of the thread-safe function

DirectEvent ==
    /\ D!DispatchDirect
    /\ js' = PeerEvent(js, Event(DirectEvents[Head(tsfnQueue).n], 0))
    /\ UNCHANGED ours

DrainSwap == D!DrainSwap /\ UNCHANGED <<ours, js>>

\* Fault: a batch goes to the channel of its first message.
DrainCallUnrouted ==
    /\ D!DrainCall
    /\ js' \in IF Head(batch) \in ours THEN MessageBatch(js, batch) ELSE {js}
    /\ UNCHANGED ours

\* The messages of a batch that are the channel's.
Mine(ns) ==
    LET taken[i \in 0 .. Len(ns)] ==
            IF i = 0 THEN <<>>
            ELSE IF ns[i] \in ours THEN Append(taken[i - 1], ns[i])
            ELSE taken[i - 1]
    IN  taken[Len(ns)]

\* A batch of the channel's messages only has a path of its own.
DrainCall ==
    /\ D!DrainCall
    /\ LET mine == Mine(batch)
       IN  IF Len(batch) > 1 /\ mine = batch
           THEN js' \in MessageBatch(js, mine)
           ELSE js' = PeerEvents(js, Messages(mine))
    /\ UNCHANGED ours

DrainFinish == ~js.threw /\ D!DrainFinish /\ UNCHANGED <<ours, js>>

DrainThrow ==
    /\ js.threw
    /\ D!DrainThrow
    /\ js' = [js EXCEPT !.threw = FALSE]
    /\ UNCHANGED ours

\* PeerBinding::PrepareShutdown closes the dispatcher when the peer is closed.
DispatcherClose == js.closed /\ D!Close /\ UNCHANGED <<ours, js>>

\* Other tasks run between the items.
Task == phase = "idle" /\ UNCHANGED <<dispatcherVars, ours>>

RunTimer ==
    /\ Task
    /\ js.timers # <<>>
    /\ js' \in TimerResults([js EXCEPT !.timers = Tail(@)], Head(js.timers))

RunImmediate ==
    /\ Task
    /\ js.immediates # <<>>
    /\ js' \in ImmediateResults([js EXCEPT !.immediates = Tail(@)],
                                Head(js.immediates))

\* MESSAGE_CONSUMER_GATE_TIMEOUT_MS after the gate went up.
ConsumerGateTimeout ==
    /\ Task
    /\ js.messageConsumerGateActive
    /\ js' = ReleaseConsumerGate(js)

GraceEnds ==
    /\ Task
    /\ js.nativeCloseEventQueued /\ ~js.graceOver
    /\ GraceSuffices => ~D!HasDrain(tsfnQueue) /\ ~js.nativeEventDrainActive
    /\ js' = [js EXCEPT !.graceOver = TRUE]

\* An asynchronous signaling operation ends; its last one wakes the waiters.
FinishOperation ==
    /\ Task
    /\ js.operationsPending > 0
    /\ LET t == ScheduleIceFlush([js EXCEPT !.operationsPending = 0])
       IN  js' = [t EXCEPT
                     !.idleCallbacks = 0,
                     !.immediates = @ \o [i \in 1 .. js.idleCallbacks |->
                                             "rescheduleFlush"]]

-----------------------------------------------------------------------------
\* The JavaScript thread: the application, and events of the peer connection

StartOperation ==
    /\ Task
    /\ ~js.closed
    /\ js.operationsPending = 0
    /\ js.operations < MaxOperations
    /\ js' = [js EXCEPT !.operationsPending = 1, !.operations = @ + 1]

\* _shouldDeferIceEvent: a candidate or gathering event during an operation.
IceEvent ==
    /\ Task
    /\ ~js.closed
    /\ js.operationsPending > 0
    /\ js.deferredIceEvents < MaxIceEvents
    /\ js' = [js EXCEPT !.deferredIceEvents = @ + 1]

ListenDataChannel ==
    /\ Task
    /\ ~js.dataChannelConsumer
    /\ js' = ScheduleDataChannelFlush([js EXCEPT !.dataChannelConsumer = TRUE])

Announced == \E i \in DOMAIN js.log : js.log[i].type = "datachannel"

ListenMessage ==
    /\ Task
    /\ Announced
    /\ js.messageConsumer = "none"
    /\ \E c \in {"onmessage", "listener"} : js' = AddMessageConsumer(js, c)

CloseChannel ==
    /\ Task
    /\ Announced
    /\ js.readyState = "open"
    /\ js' = LocalClose(js)

CloseConnection ==
    /\ ConnectionMayEnd
    /\ Task
    /\ ~js.closed
    /\ js' = ClosePeer(js)

\* _closeChannelsOnPeerFailure and _handlePeerConnectionFailure
ConnectionFails ==
    /\ ConnectionMayEnd
    /\ Task
    /\ js.known
    /\ js' = HandleClose(js)

Application == \/ StartOperation \/ IceEvent \/ ListenDataChannel
               \/ ListenMessage \/ CloseChannel \/ CloseConnection
               \/ ConnectionFails

TsfnItem == DirectEvent \/ DrainSwap \/ DrainCall \/ DrainFinish \/ DrainThrow

Next == \/ NativeDirect \/ NativeMessage \/ OtherMessage \/ DispatcherClose
        \/ TsfnItem \/ RunTimer \/ RunImmediate
        \/ ConsumerGateTimeout \/ GraceEnds \/ FinishOperation
        \/ Application

\* Node's event loop serves each of its sources, timeouts expire and signaling
\* operations complete; the application and the network owe nothing.
Spec == /\ Init /\ [][Next]_vars
        /\ WF_vars(TsfnItem) /\ WF_vars(RunTimer) /\ WF_vars(RunImmediate)
        /\ WF_vars(ConsumerGateTimeout) /\ WF_vars(GraceEnds)
        /\ WF_vars(FinishOperation)

-----------------------------------------------------------------------------
Events == [type : {"datachannel", "open", "message", "closing", "close"}, n : Nat]

TimerTasks == {"flushDataChannel", "announceOpen", "gate1", "gate2", "pollClose",
               "finishClose", "closeLocal"}

ImmediateTasks == {"flushMessages", "rescheduleFlush", "drainNativeEvents",
                   "closeNative", "flushIceEvents", "retryOpen"}

\* The JavaScript states of a channel whose messages are the numbers in own.
JsStates(own) ==
    [known : BOOLEAN, pendingNativeEvents : Seq(Events),
     readyState : {"connecting", "open", "closing", "closed"},
     announcementPending : BOOLEAN, openEventPending : BOOLEAN,
     openEventDispatched : BOOLEAN, openDeferredForIce : BOOLEAN,
     queuedNativeEvents : Seq(Events), nativeEventDrainActive : BOOLEAN,
     queuedMessageEvents : Seq(own), messageEventFlushScheduled : BOOLEAN,
     messageEventGateActive : BOOLEAN, messageConsumerGateActive : BOOLEAN,
     nativeCloseEventQueued : BOOLEAN, graceOver : BOOLEAN,
     pendingDataChannelEvent : BOOLEAN, dataChannelFlushScheduled : BOOLEAN,
     timers : Seq(TimerTasks), immediates : Seq(ImmediateTasks),
     messageConsumer : {"none", "onmessage", "listener"},
     dataChannelConsumer : BOOLEAN, operationsPending : {0, 1},
     operations : 0 .. MaxOperations, idleCallbacks : Nat,
     deferredIceEvents : 0 .. MaxIceEvents, iceEventFlushScheduled : BOOLEAN,
     closed : BOOLEAN, threw : BOOLEAN, log : Seq(Events)]

\* Every variable has the type the code gives it, and only the channel's own
\* messages are queued for it.
TypeOK ==
    /\ D!TypeOK
    /\ ours \subseteq 1 .. accepted
    /\ js \in JsStates(ours)

Positions(type) == {i \in DOMAIN js.log : js.log[i].type = type}

\* Until the application is told of a channel, it hears nothing else of it.
AnnouncedFirst ==
    \A i \in Positions("open") \cup Positions("message") \cup Positions("closing") :
        \E j \in Positions("datachannel") : j < i

\* No message is dispatched before open, whatever open was deferred for.
OpenBeforeMessages ==
    \A i \in Positions("message") : \A j \in Positions("open") : j < i

\* A channel that dispatched close dispatches nothing more of its own.
ClosedIsFinal ==
    \A i \in Positions("close") : \A j \in DOMAIN js.log :
        j > i => js.log[j].type = "datachannel"

(***************************************************************************)
(* docs/divergences.md:158-161: open and message events are held until     *)
(* after the datachannel event, although each has gates, timers and a      *)
(* queue of its own; and the application sees no message before open and   *)
(* nothing after close.                                                    *)
(***************************************************************************)
EventsInOrder == AnnouncedFirst /\ OpenBeforeMessages /\ ClosedIsFinal

(***************************************************************************)
(* A remote close is announced by closing only after every message the     *)
(* remote peer sent before it was dispatched, though the close may overtake *)
(* messages in the dispatcher and messages wait in three queues of the     *)
(* channel; unless a handler throws out of a batch, which drops the rest.  *)
(***************************************************************************)
RemoteCloseLosesNothing ==
    ~js.threw /\ ~thrown =>
        \A i \in Positions("closing") : \A n \in ours :
            \E j \in Positions("message") : j < i /\ js.log[j].n = n

Held == {e.n : e \in Range(js.pendingNativeEvents) \cup Range(js.queuedNativeEvents)}
            \cup Range(js.queuedMessageEvents)

Dispatched == {js.log[i].n : i \in Positions("message")}

(***************************************************************************)
(* Messages are dispatched in the order they were received and at most     *)
(* once, whichever queues and gates each went through; and every message   *)
(* JavaScript received for an open channel is dispatched or waits in a     *)
(* queue that leads to the application, as long as no handler threw out of *)
(* the event callback.                                                     *)
(***************************************************************************)
MessagesInOrder ==
    /\ \A i, j \in Positions("message") : i < j => js.log[i].n < js.log[j].n
    /\ js.readyState # "closed" /\ ~js.closed /\ ~js.threw /\ ~thrown =>
           ours \cap Range(delivered) \subseteq Held \cup Dispatched

(***************************************************************************)
(* The close of the remote peer reaches the application once it knows of   *)
(* the channel: no gate or postponed flush holds it up for good.           *)
(***************************************************************************)
CloseReceived == Len(tsfnQueue) = 0 /\ directs = Len(DirectEvents)

RemoteCloseCompletes == CloseReceived /\ Announced ~> js.readyState = "closed"

(***************************************************************************)
(* Whichever timer, gate, operation or deferred event holds it up, a       *)
(* received message is dispatched in the end, and so is open, unless the   *)
(* channel closes.                                                         *)
(***************************************************************************)
ChannelSettles ==
    /\ \A n \in 1 .. MaxMessages :
           n \in ours /\ Announced ~> n \in Dispatched \/ js.readyState = "closed"
    /\ Announced ~> Positions("open") # {} \/ js.readyState \in {"closing", "closed"}
=============================================================================
