------------------------ MODULE IncomingChannelProofs ------------------------
(***************************************************************************)
(* What an application sees of a channel its remote peer opened: for any   *)
(* number of messages, operations and deferred events, whatever the        *)
(* application does and whenever the connection ends.  The state is well   *)
(* typed; the channel is announced first and closed last; where no ICE     *)
(* event is ever deferred, open comes before the messages; messages come   *)
(* in order, with none lost on its way; and closing comes after every      *)
(* message the remote peer sent, where no handler throws and the grace     *)
(* period is enough.                                                       *)
(***************************************************************************)
EXTENDS IncomingChannel, SequenceTheorems, TLAPS

\* The dispatcher, with what is proved of its steps.
DP == INSTANCE EventDispatcherProofs

LEMMA DispatcherAssumed == MaxMessages \in Nat /\ MaxDirect \in Nat
  BY IncomingAssumption DEF IncomingAssumption, MaxDirect, DirectEvents

-----------------------------------------------------------------------------
\* Lemmas about sequences and loops

\* The functions of the two loops are defined: each value from the one before.
LEMMA EventsDefined ==
    ASSUME NEW s, NEW events, Len(events) \in Nat
    PROVE  \E f : /\ f = [i \in 0 .. Len(events) |->
                            IF i = 0 THEN s ELSE PeerEvent(f[i - 1], events[i])]
                  /\ PeerEvents(s, events) = f[Len(events)]
  <1> DEFINE Upto(n, f) ==
               f = [i \in 0 .. n |-> IF i = 0 THEN s ELSE PeerEvent(f[i - 1], events[i])]
             Missing == {n \in Nat : ~ \E f : Upto(n, f)}
  <1>1. Missing = {}
    <2> SUFFICES ASSUME Missing # {} PROVE FALSE
      OBVIOUS
    <2>1. PICK n \in Missing : \A m \in Missing : n <= m
      BY DispatcherAssumed, DP!Least
    <2>2. n # 0
      <3> DEFINE g == [i \in 0 .. 0 |-> s]
      <3>1. g = [i \in 0 .. 0 |-> IF i = 0 THEN s ELSE PeerEvent(g[i - 1], events[i])]
        OBVIOUS
      <3> HIDE DEF g
      <3> QED
        BY <2>1, <3>1
    <2>3. n - 1 \in Nat /\ ~(n <= n - 1)
      BY <2>1, <2>2
    <2>4. n - 1 \notin Missing
      BY <2>1, <2>3
    <2>5. PICK f : Upto(n - 1, f)
      BY <2>3, <2>4
    <2> DEFINE g == [i \in 0 .. n |->
                       IF i < n THEN f[i] ELSE PeerEvent(f[n - 1], events[n])]
    <2>6. ASSUME NEW i \in 0 .. n
          PROVE  g[i] = IF i = 0 THEN s ELSE PeerEvent(g[i - 1], events[i])
      <3>1. CASE i = 0
        BY <2>1, <2>2, <2>3, <2>5, <3>1
      <3>2. CASE i \in 1 .. (n - 1)
        <4>1. i - 1 \in 0 .. n /\ i - 1 < n /\ i < n /\ i \in 0 .. (n - 1) /\ i # 0
          BY <2>1, <3>2
        <4>2. g[i] = f[i] /\ g[i - 1] = f[i - 1]
          BY <4>1
        <4>3. f[i] = PeerEvent(f[i - 1], events[i])
          BY <2>5, <4>1
        <4> QED
          BY <4>1, <4>2, <4>3
      <3>3. CASE i = n
        <4>1. n - 1 \in 0 .. n /\ n - 1 < n /\ ~(n < n)
          BY <2>1, <2>2
        <4>2. g[n - 1] = f[n - 1] /\ g[n] = PeerEvent(f[n - 1], events[n])
          BY <4>1
        <4> QED
          BY <2>2, <3>3, <4>2
      <3> QED
        BY <2>1, <3>1, <3>2, <3>3
    <2>7. Upto(n, g)
      <3>1. g = [i \in 0 .. n |-> g[i]]
        OBVIOUS
      <3> HIDE DEF g
      <3> QED
        BY <2>6, <3>1
    <2> QED
      BY <2>1, <2>7
  <1>2. \E f : Upto(Len(events), f)
    BY <1>1
  <1> DEFINE f == CHOOSE g : Upto(Len(events), g)
  <1>3. Upto(Len(events), f)
    BY <1>2
  <1>4. PeerEvents(s, events) = f[Len(events)]
    BY Zenon DEF PeerEvents
  <1> QED
    BY <1>3, <1>4

\* The channel's messages of a batch: these and no others, in their order.
LEMMA MineIs ==
    ASSUME NEW ns \in Seq(Nat), \A i, j \in DOMAIN ns : i < j => ns[i] < ns[j]
    PROVE  /\ Mine(ns) \in Seq(ours)
           /\ \A k \in DOMAIN Mine(ns) : \E i \in DOMAIN ns : Mine(ns)[k] = ns[i]
           /\ \A i \in DOMAIN ns :
                 ns[i] \in ours => \E k \in DOMAIN Mine(ns) : Mine(ns)[k] = ns[i]
           /\ \A k, l \in DOMAIN Mine(ns) : k < l => Mine(ns)[k] < Mine(ns)[l]
  <1> DEFINE f == CHOOSE g : DP!Filters(g, ns, ours)
             m == f[Len(ns)]
  <1>1. Len(ns) \in Nat
    OBVIOUS
  <1>2. \E g : DP!Filters(g, ns, ours)
    BY <1>1, DispatcherAssumed, DP!FilterDefined
  <1>3. DP!Filters(f, ns, ours)
    BY <1>2, Zenon
  <1>4. Mine(ns) = m
    BY Zenon DEF Mine, DP!Filters
  <1> HIDE DEF f
  <1>5. /\ m \in Seq(ours)
        /\ \A k \in DOMAIN m : \E i \in DOMAIN ns : m[k] = ns[i]
        /\ \A i \in DOMAIN ns : ns[i] \in ours => \E k \in DOMAIN m : m[k] = ns[i]
        /\ \A k, l \in DOMAIN m : k < l => m[k] < m[l]
    BY <1>3, DispatcherAssumed, DP!Filtered
  <1> QED
    BY <1>4, <1>5, Zenon

-----------------------------------------------------------------------------
\* Types

ReadyStates == {"connecting", "open", "closing", "closed"}
Consumers == {"none", "onmessage", "listener"}
Pendings == {0, 1}
OperationCounts == 0 .. MaxOperations
IceCounts == 0 .. MaxIceEvents
TimerQueues == Seq(TimerTasks)
ImmediateQueues == Seq(ImmediateTasks)
Logs == Seq(Events)
MessageQueues(own) == Seq(own)

\* What waits for the channel: of the direct events not the one announcing it, and
\* only its own messages.
Incoming(own) ==
    {e \in Events : /\ e.type \in {"open", "message", "close"}
                    /\ e.type = "message" => e.n \in own}

EventQueues(own) == Seq(Incoming(own))

States(own) ==
    [known : BOOLEAN, pendingNativeEvents : EventQueues(own),
     readyState : ReadyStates,
     announcementPending : BOOLEAN, openEventPending : BOOLEAN,
     openEventDispatched : BOOLEAN, openDeferredForIce : BOOLEAN,
     queuedNativeEvents : EventQueues(own), nativeEventDrainActive : BOOLEAN,
     queuedMessageEvents : MessageQueues(own), messageEventFlushScheduled : BOOLEAN,
     messageEventGateActive : BOOLEAN, messageConsumerGateActive : BOOLEAN,
     nativeCloseEventQueued : BOOLEAN, graceOver : BOOLEAN,
     pendingDataChannelEvent : BOOLEAN, dataChannelFlushScheduled : BOOLEAN,
     timers : TimerQueues, immediates : ImmediateQueues,
     messageConsumer : Consumers,
     dataChannelConsumer : BOOLEAN, operationsPending : Pendings,
     operations : OperationCounts, idleCallbacks : Nat,
     deferredIceEvents : IceCounts, iceEventFlushScheduled : BOOLEAN,
     closed : BOOLEAN, threw : BOOLEAN, log : Logs]

LEMMA Flags ==
    ASSUME NEW own, NEW s \in States(own), NEW b \in BOOLEAN
    PROVE  /\ [s EXCEPT !.known = b] \in States(own)
           /\ [s EXCEPT !.announcementPending = b] \in States(own)
           /\ [s EXCEPT !.openEventPending = b] \in States(own)
           /\ [s EXCEPT !.openEventDispatched = b] \in States(own)
           /\ [s EXCEPT !.openDeferredForIce = b] \in States(own)
           /\ [s EXCEPT !.nativeEventDrainActive = b] \in States(own)
           /\ [s EXCEPT !.messageEventFlushScheduled = b] \in States(own)
           /\ [s EXCEPT !.messageEventGateActive = b] \in States(own)
           /\ [s EXCEPT !.messageConsumerGateActive = b] \in States(own)
           /\ [s EXCEPT !.nativeCloseEventQueued = b] \in States(own)
           /\ [s EXCEPT !.graceOver = b] \in States(own)
           /\ [s EXCEPT !.pendingDataChannelEvent = b] \in States(own)
           /\ [s EXCEPT !.dataChannelFlushScheduled = b] \in States(own)
           /\ [s EXCEPT !.dataChannelConsumer = b] \in States(own)
           /\ [s EXCEPT !.iceEventFlushScheduled = b] \in States(own)
           /\ [s EXCEPT !.closed = b] \in States(own)
           /\ [s EXCEPT !.threw = b] \in States(own)
  BY SMTT(60) DEF States

LEMMA Values ==
    ASSUME NEW own, NEW s \in States(own)
    PROVE  /\ \A x \in ReadyStates : [s EXCEPT !.readyState = x] \in States(own)
           /\ \A x \in EventQueues(own) :
                 /\ [s EXCEPT !.pendingNativeEvents = x] \in States(own)
                 /\ [s EXCEPT !.queuedNativeEvents = x] \in States(own)
           /\ \A x \in MessageQueues(own) :
                 [s EXCEPT !.queuedMessageEvents = x] \in States(own)
           /\ \A x \in TimerQueues : [s EXCEPT !.timers = x] \in States(own)
           /\ \A x \in ImmediateQueues : [s EXCEPT !.immediates = x] \in States(own)
           /\ \A x \in Consumers : [s EXCEPT !.messageConsumer = x] \in States(own)
           /\ \A x \in Pendings : [s EXCEPT !.operationsPending = x] \in States(own)
           /\ \A x \in OperationCounts : [s EXCEPT !.operations = x] \in States(own)
           /\ \A x \in Nat : [s EXCEPT !.idleCallbacks = x] \in States(own)
           /\ \A x \in IceCounts : [s EXCEPT !.deferredIceEvents = x] \in States(own)
           /\ \A x \in Logs : [s EXCEPT !.log = x] \in States(own)
  <1>1. /\ \A x \in ReadyStates : [s EXCEPT !.readyState = x] \in States(own)
        /\ \A x \in MessageQueues(own) :
              [s EXCEPT !.queuedMessageEvents = x] \in States(own)
        /\ \A x \in Logs : [s EXCEPT !.log = x] \in States(own)
    BY SMTT(60) DEF States
  <1>2. /\ \A x \in EventQueues(own) : [s EXCEPT !.pendingNativeEvents = x] \in States(own)
        /\ \A x \in EventQueues(own) : [s EXCEPT !.queuedNativeEvents = x] \in States(own)
        /\ \A x \in TimerQueues : [s EXCEPT !.timers = x] \in States(own)
        /\ \A x \in ImmediateQueues : [s EXCEPT !.immediates = x] \in States(own)
    BY SMTT(60) DEF States
  <1>3. /\ \A x \in Consumers : [s EXCEPT !.messageConsumer = x] \in States(own)
        /\ \A x \in Pendings : [s EXCEPT !.operationsPending = x] \in States(own)
        /\ \A x \in OperationCounts : [s EXCEPT !.operations = x] \in States(own)
    BY SMTT(60) DEF States
  <1>4. /\ \A x \in Nat : [s EXCEPT !.idleCallbacks = x] \in States(own)
        /\ \A x \in IceCounts : [s EXCEPT !.deferredIceEvents = x] \in States(own)
    BY SMTT(60) DEF States
  <1> QED
    BY <1>1, <1>2, <1>3, <1>4, Zenon

LEMMA Components ==
    ASSUME NEW own, NEW s \in States(own)
    PROVE  /\ s.readyState \in ReadyStates
           /\ s.pendingNativeEvents \in EventQueues(own)
           /\ s.queuedNativeEvents \in EventQueues(own)
           /\ s.queuedMessageEvents \in MessageQueues(own)
           /\ s.timers \in TimerQueues /\ s.immediates \in ImmediateQueues
           /\ s.messageConsumer \in Consumers
           /\ s.operationsPending \in Pendings /\ s.operations \in OperationCounts
           /\ s.idleCallbacks \in Nat /\ s.deferredIceEvents \in IceCounts
           /\ s.log \in Logs
  BY DEF States

LEMMA Names ==
    /\ {"connecting", "open", "closing", "closed"} \subseteq ReadyStates
    /\ {"none", "onmessage", "listener"} \subseteq Consumers
    /\ {"flushDataChannel", "announceOpen", "gate1", "gate2", "pollClose",
        "finishClose", "closeLocal"} \subseteq TimerTasks
    /\ {"flushMessages", "rescheduleFlush", "drainNativeEvents", "closeNative",
        "flushIceEvents", "retryOpen"} \subseteq ImmediateTasks
    /\ 0 \in IceCounts /\ 0 \in OperationCounts /\ 0 \in Pendings /\ 1 \in Pendings
    /\ <<>> \in TimerQueues /\ <<>> \in ImmediateQueues /\ <<>> \in Logs
    /\ \A own : <<>> \in EventQueues(own) /\ <<>> \in MessageQueues(own)
  <1>1. 0 \in IceCounts /\ 0 \in OperationCounts /\ 0 \in Pendings /\ 1 \in Pendings
    BY IncomingAssumption DEF IncomingAssumption, IceCounts, OperationCounts, Pendings
  <1>2. /\ <<>> \in TimerQueues /\ <<>> \in ImmediateQueues /\ <<>> \in Logs
        /\ \A own : <<>> \in EventQueues(own) /\ <<>> \in MessageQueues(own)
    BY DEF TimerQueues, ImmediateQueues, Logs, EventQueues, MessageQueues
  <1> QED
    BY <1>1, <1>2 DEF ReadyStates, Consumers, TimerTasks, ImmediateTasks

LEMMA Queues ==
    /\ \A q \in TimerQueues, x \in TimerTasks : Append(q, x) \in TimerQueues
    /\ \A q \in ImmediateQueues, x \in ImmediateTasks : Append(q, x) \in ImmediateQueues
    /\ \A q \in Logs, x \in Events : Append(q, x) \in Logs
    /\ \A own : \A q \in EventQueues(own), x \in Incoming(own) :
          Append(q, x) \in EventQueues(own)
    /\ \A q \in TimerQueues : q # <<>> => Tail(q) \in TimerQueues /\ Head(q) \in TimerTasks
    /\ \A q \in ImmediateQueues : q # <<>> =>
          Tail(q) \in ImmediateQueues /\ Head(q) \in ImmediateTasks
    /\ \A own : \A q \in EventQueues(own) : q # <<>> =>
          Tail(q) \in EventQueues(own) /\ Head(q) \in Incoming(own)
    /\ \A own : \A q \in MessageQueues(own) : q # <<>> =>
          Tail(q) \in MessageQueues(own) /\ Head(q) \in own
    /\ \A own : \A q, r \in MessageQueues(own) : q \o r \in MessageQueues(own)
    /\ \A own : \A q, r \in EventQueues(own) : q \o r \in EventQueues(own)
    /\ \A q, r \in Logs : q \o r \in Logs
  BY AppendProperties, HeadTailProperties, ConcatProperties
     DEF TimerQueues, ImmediateQueues, Logs, EventQueues, MessageQueues

LEMMA MessagesTyped ==
    ASSUME NEW own \in SUBSET Nat, NEW ns \in MessageQueues(own)
    PROVE  Messages(ns) \in EventQueues(own) /\ Messages(ns) \in Logs
           /\ Len(Messages(ns)) = Len(ns) /\ Len(ns) \in Nat
  <1>1. /\ ns \in Seq(own) /\ Len(ns) \in Nat
        /\ \A i \in 1 .. Len(ns) : ns[i] \in own
    BY DEF MessageQueues
  <1>2. \A n \in own : Message(n) \in Incoming(own) /\ Message(n) \in Events
    BY DEF Message, Event, Incoming, Events
  <1>3. \A i \in 1 .. Len(ns) :
           Message(ns[i]) \in Incoming(own) /\ Message(ns[i]) \in Events
    BY <1>1, <1>2
  <1>4. Messages(ns) \in Seq(Incoming(own)) /\ Messages(ns) \in Seq(Events)
    BY <1>1, <1>3 DEF Messages
  <1>5. Len(Messages(ns)) = Len(ns)
    BY <1>1 DEF Messages
  <1> QED
    BY <1>1, <1>4, <1>5 DEF EventQueues, Logs

LEMMA EventsAre ==
    /\ \A own \in SUBSET Nat : \A n \in own :
          Message(n) \in Incoming(own) /\ Message(n) \in Events
    /\ \A x \in {"datachannel", "open", "closing", "close"} : Event(x, 0) \in Events
    /\ \A own, x : x \in {"open", "close"} => Event(x, 0) \in Incoming(own)
  BY DEF Message, Event, Incoming, Events

\* Small steps of the methods.
LEMMA StepsTyped ==
    ASSUME NEW own \in SUBSET Nat, NEW s \in States(own)
    PROVE  /\ \A e \in Events : Dispatch(s, e) \in States(own)
           /\ \A x \in TimerTasks : Later(s, x) \in States(own)
           /\ \A x \in ImmediateTasks : Soon(s, x) \in States(own)
           /\ \A ns \in MessageQueues(own) : DispatchMessages(s, ns) \in States(own)
  <1>1. \A e \in Events : Dispatch(s, e) \in States(own)
    BY Values, Components, Queues DEF Dispatch
  <1>2. \A x \in TimerTasks : Later(s, x) \in States(own)
    BY Values, Components, Queues DEF Later
  <1>3. \A x \in ImmediateTasks : Soon(s, x) \in States(own)
    BY Values, Components, Queues DEF Soon
  <1>4. \A ns \in MessageQueues(own) : DispatchMessages(s, ns) \in States(own)
    <2> SUFFICES ASSUME NEW ns \in MessageQueues(own)
                 PROVE  DispatchMessages(s, ns) \in States(own)
      OBVIOUS
    <2>1. s.log \o Messages(ns) \in Logs
      BY Components, MessagesTyped, Queues
    <2> QED
      BY <2>1, Values DEF DispatchMessages
  <1> QED
    BY <1>1, <1>2, <1>3, <1>4

LEMMA FlushTyped ==
    ASSUME NEW own \in SUBSET Nat, NEW s \in States(own)
    PROVE  ScheduleMessageFlush(s) \in States(own)
  <1>1. [s EXCEPT !.messageEventFlushScheduled = TRUE] \in States(own)
    BY Flags
  <1>2. "flushMessages" \in ImmediateTasks
    BY Names
  <1> QED
    BY <1>1, <1>2, StepsTyped, Zenon DEF ScheduleMessageFlush

LEMMA QueueMessagesTyped ==
    ASSUME NEW own \in SUBSET Nat, NEW s \in States(own), NEW ns \in MessageQueues(own)
    PROVE  QueueMessages(s, ns) \in States(own)
  <1> DEFINE r == [s EXCEPT !.queuedMessageEvents = @ \o ns]
  <1>1. s.queuedMessageEvents \o ns \in MessageQueues(own)
    BY Components, Queues
  <1>2. r \in States(own)
    BY <1>1, Values
  <1> HIDE DEF r
  <1> QED
    BY <1>2, FlushTyped, Zenon DEF QueueMessages, r

LEMMA CloseTyped ==
    ASSUME NEW own \in SUBSET Nat, NEW s \in States(own)
    PROVE  /\ QueueNativeClose(s) \in States(own)
           /\ HandleClose(s) \in States(own)
           /\ LocalClose(s) \in States(own)
           /\ CloseIfClosing(s) \in States(own)
           /\ ClosePeer(s) \in States(own)
  <1>1. QueueNativeClose(s) \in States(own)
    <2> DEFINE r1 == [s EXCEPT !.nativeCloseEventQueued = TRUE]
               r == [r1 EXCEPT !.graceOver = FALSE]
    <2>1. r1 \in States(own)
      BY Flags
    <2> HIDE DEF r1
    <2>2. r \in States(own)
      BY <2>1, Flags
    <2> HIDE DEF r
    <2>3. Later(r, "pollClose") \in States(own)
      BY <2>2, StepsTyped, Names
    <2> QED
      BY <2>3, Zenon DEF QueueNativeClose, r, r1
  <1>2. ASSUME NEW p \in States(own) PROVE HandleClose(p) \in States(own)
    <2> DEFINE r1 == [p EXCEPT !.readyState = "closed"]
               r == [r1 EXCEPT !.known = FALSE]
    <2>1. r1 \in States(own)
      BY Values, Names
    <2> HIDE DEF r1
    <2>2. r \in States(own)
      BY <2>1, Flags
    <2> HIDE DEF r
    <2>3. Dispatch(r, Event("close", 0)) \in States(own)
      BY <2>2, StepsTyped, EventsAre
    <2> QED
      BY <2>3, Zenon DEF HandleClose, r, r1
  <1>3. LocalClose(s) \in States(own)
    <2> DEFINE r == [s EXCEPT !.readyState = "closing"]
    <2>1. r \in States(own)
      BY Values, Names
    <2> HIDE DEF r
    <2>2. Soon(r, "closeNative") \in States(own)
      BY <2>1, StepsTyped, Names
    <2> QED
      BY <2>2, Zenon DEF LocalClose, r
  <1>4. ClosePeer(s) \in States(own)
    <2> DEFINE r1 == [s EXCEPT !.closed = TRUE]
               r == [r1 EXCEPT !.deferredIceEvents = 0]
    <2>1. r1 \in States(own)
      BY Flags
    <2> HIDE DEF r1
    <2>2. r \in States(own)
      BY <2>1, Values, Names
    <2>3. ClosePeer(s) = IF r.known THEN HandleClose(r) ELSE r
      BY Zenon DEF ClosePeer, r1
    <2> HIDE DEF r
    <2> QED
      BY <1>2, <2>2, <2>3, Zenon
  <1> QED
    BY <1>1, <1>2, <1>3, <1>4, Zenon DEF CloseIfClosing

LEMMA OpenTyped ==
    ASSUME NEW own \in SUBSET Nat, NEW s \in States(own)
    PROVE  ScheduleIceFlush(s) \in States(own) /\ DispatchOpen(s) \in States(own)
  <1>1. ASSUME NEW p \in States(own) PROVE ScheduleIceFlush(p) \in States(own)
    <2> DEFINE r == [p EXCEPT !.iceEventFlushScheduled = TRUE]
    <2>1. r \in States(own)
      BY Flags
    <2> HIDE DEF r
    <2>2. Soon(r, "flushIceEvents") \in States(own)
      BY <2>1, StepsTyped, Names
    <2> QED
      BY <2>2, Zenon DEF ScheduleIceFlush, r
  <1>2. /\ [s EXCEPT !.openDeferredForIce = TRUE] \in States(own)
        /\ [s EXCEPT !.openEventDispatched = TRUE] \in States(own)
    BY Flags
  <1>3. Event("open", 0) \in Events
    BY EventsAre
  <1> QED
    BY <1>1, <1>2, <1>3, StepsTyped, Zenon DEF DispatchOpen

LEMMA GatesTyped ==
    ASSUME NEW own \in SUBSET Nat, NEW s \in States(own)
    PROVE  /\ ReleaseConsumerGate(s) \in States(own)
           /\ \A c \in Consumers : AddMessageConsumer(s, c) \in States(own)
           /\ GateUntilConsumer(s) \in States(own)
           /\ GateAfterAnnouncement(s) \in States(own)
           /\ ScheduleDataChannelFlush(s) \in States(own)
  <1>1. ASSUME NEW p \in States(own) PROVE ReleaseConsumerGate(p) \in States(own)
    <2>1. [p EXCEPT !.messageConsumerGateActive = FALSE] \in States(own)
      BY Flags
    <2> QED
      BY <2>1, FlushTyped, Zenon DEF ReleaseConsumerGate
  <1>2. \A c \in Consumers : AddMessageConsumer(s, c) \in States(own)
    <2>1. \A c \in Consumers : [s EXCEPT !.messageConsumer = c] \in States(own)
      BY Values
    <2> QED
      BY <1>1, <2>1, Zenon DEF AddMessageConsumer
  <1>3. GateUntilConsumer(s) \in States(own)
    BY Flags DEF GateUntilConsumer
  <1>4. GateAfterAnnouncement(s) \in States(own)
    <2>1. [s EXCEPT !.messageEventGateActive = TRUE] \in States(own)
      BY Flags
    <2>2. "gate1" \in TimerTasks
      BY Names
    <2> QED
      BY <2>1, <2>2, StepsTyped, Zenon DEF GateAfterAnnouncement
  <1>5. ScheduleDataChannelFlush(s) \in States(own)
    <2>1. [s EXCEPT !.dataChannelFlushScheduled = TRUE] \in States(own)
      BY Flags
    <2>2. "flushDataChannel" \in TimerTasks
      BY Names
    <2> QED
      BY <2>1, <2>2, StepsTyped, Zenon DEF ScheduleDataChannelFlush
  <1> QED
    BY <1>1, <1>2, <1>3, <1>4, <1>5

LEMMA HandleTyped ==
    ASSUME NEW own \in SUBSET Nat, NEW s \in States(own), NEW event \in Incoming(own)
    PROVE  HandleNow(s, event) \in States(own) /\ HandleNative(s, event) \in States(own)
  <1>1. event.type \in {"open", "message", "close"}
    BY DEF Incoming
  <1>2. [s EXCEPT !.readyState = "open"] \in States(own)
    BY Values, Names
  <1>3. HandleNow(s, event) \in States(own)
    <2>1. CASE event.type = "open"
      <3> DEFINE r == [s EXCEPT !.readyState = "open"]
      <3>1. DispatchOpen(r) \in States(own)
        BY <1>2, OpenTyped, Zenon
      <3>2. HandleNow(s, event) =
              IF s.openEventPending THEN r
              ELSE IF s.readyState \in {"connecting", "open"} THEN DispatchOpen(r) ELSE s
        BY <2>1 DEF HandleNow
      <3> HIDE DEF r
      <3> QED
        BY <1>2, <3>1, <3>2, Zenon DEF r
    <2>2. CASE event.type = "message"
      <3>1. <<event.n>> \in MessageQueues(own)
        <4>1. event.n \in own
          BY <2>2 DEF Incoming
        <4> QED
          BY <4>1 DEF MessageQueues
      <3>2. HandleNow(s, event) = QueueMessages(s, <<event.n>>)
        BY <2>2 DEF HandleNow
      <3> QED
        BY <3>1, <3>2, QueueMessagesTyped
    <2>3. CASE event.type = "close"
      <3>1. HandleNow(s, event) = QueueNativeClose(s)
        BY <2>3 DEF HandleNow
      <3> QED
        BY <3>1, CloseTyped
    <2> QED
      BY <1>1, <2>1, <2>2, <2>3
  <1>4. HandleNative(s, event) \in States(own)
    <2> DEFINE r1 == [s EXCEPT !.readyState = "open"]
               r2 == [r1 EXCEPT !.openEventPending = TRUE]
               r3 == [s EXCEPT !.queuedNativeEvents = Append(@, event)]
    <2>1. r2 \in States(own)
      <3> HIDE DEF r1
      <3> QED
        BY <1>2, Flags DEF r1
    <2>2. r3 \in States(own)
      <3>1. Append(s.queuedNativeEvents, event) \in EventQueues(own)
        BY Components, Queues
      <3> QED
        BY <3>1, Values
    <2> QED
      BY <1>3, <2>1, <2>2, Zenon DEF HandleNative
  <1> QED
    BY <1>3, <1>4

-----------------------------------------------------------------------------
\* The messages of a batch, taken one at a time: none of them decides anything about
\* the way of the next.
AfterMessages(s, ns) ==
    IF s.closed \/ ns = <<>> THEN s
    ELSE IF ~s.known
    THEN [s EXCEPT !.pendingNativeEvents = @ \o Messages(ns)]
    ELSE IF s.announcementPending \/ s.nativeEventDrainActive
    THEN [s EXCEPT !.queuedNativeEvents = @ \o Messages(ns)]
    ELSE QueueMessages(s, ns)

LEMMA OneMore ==
    ASSUME NEW S, NEW q \in Seq(S), NEW r \in Seq(S), NEW x \in S
    PROVE  /\ q \o Append(r, x) = Append(q \o r, x)
           /\ Append(q, x) = q \o <<x>> /\ Append(r, x) # <<>>
           /\ <<>> \o q = q /\ q \o <<>> = q /\ Append(<<>>, x) = <<x>>
  <1>1. <<x>> \in Seq(S) /\ <<>> \in Seq(S)
    OBVIOUS
  <1>2. q \o r \in Seq(S)
    BY ConcatProperties
  <1>3. Append(q, x) = q \o <<x>> /\ Append(r, x) = r \o <<x>>
    BY AppendIsConcat
  <1>4. Append(q \o r, x) = (q \o r) \o <<x>>
    BY <1>2, AppendIsConcat
  <1>5. (q \o r) \o <<x>> = q \o (r \o <<x>>)
    BY <1>1, ConcatAssociative
  <1>6. q \o Append(r, x) = Append(q \o r, x)
    BY <1>3, <1>4, <1>5, Zenon
  <1>7. Append(r, x) # <<>>
    BY AppendProperties
  <1>8. <<>> \o q = q /\ q \o <<>> = q
    BY ConcatEmptySeq
  <1>9. Append(<<>>, x) = <<x>>
    OBVIOUS
  <1> QED
    BY <1>3, <1>6, <1>7, <1>8, <1>9

LEMMA MessagesAppend ==
    ASSUME NEW own \in SUBSET Nat, NEW p \in MessageQueues(own), NEW x \in own
    PROVE  /\ Messages(Append(p, x)) = Append(Messages(p), Message(x))
           /\ Append(p, x) \in MessageQueues(own)
           /\ Messages(<<>>) = <<>>
  <1>1. p \in Seq(own) /\ Len(p) \in Nat
    BY DEF MessageQueues
  <1>2. /\ Append(p, x) \in Seq(own) /\ Len(Append(p, x)) = Len(p) + 1
        /\ Append(p, x)[Len(p) + 1] = x
        /\ \A i \in 1 .. Len(p) : Append(p, x)[i] = p[i]
    BY <1>1, AppendProperties
  <1> DEFINE q == Append(p, x)
             M(n) == Message(n)
  <1>3. Messages(q) = [i \in 1 .. Len(p) + 1 |-> M(q[i])]
    BY <1>2 DEF Messages
  <1>4. Messages(p) = [i \in 1 .. Len(p) |-> M(p[i])]
    BY DEF Messages
  <1> HIDE DEF q, M
  <1>5. [i \in 1 .. Len(p) + 1 |-> M(q[i])] = Append([i \in 1 .. Len(p) |-> M(p[i])], M(x))
    BY <1>1, <1>2 DEF q
  <1>6. Messages(<<>>) = <<>>
    BY DEF Messages
  <1> QED
    BY <1>2, <1>3, <1>4, <1>5, <1>6 DEF M, q, MessageQueues

LEMMA MoreMessages ==
    ASSUME NEW own \in SUBSET Nat, NEW q \in EventQueues(own),
           NEW p \in MessageQueues(own), NEW x \in own
    PROVE  q \o Messages(Append(p, x)) = Append(q \o Messages(p), Message(x))
  <1> DEFINE S == Incoming(own)
             r == Messages(p)
             e == Message(x)
  <1>1. q \in Seq(S) /\ r \in Seq(S) /\ e \in S
    BY MessagesTyped, EventsAre DEF EventQueues
  <1>2. Messages(Append(p, x)) = Append(r, e)
    BY MessagesAppend
  <1> HIDE DEF S, r, e
  <1>3. q \o Append(r, e) = Append(q \o r, e)
    BY <1>1, OneMore
  <1> QED
    BY <1>2, <1>3 DEF r, e

LEMMA OneMessage ==
    ASSUME NEW own \in SUBSET Nat, NEW s \in States(own),
           NEW p \in MessageQueues(own), NEW x \in own
    PROVE  PeerEvent(AfterMessages(s, p), Message(x)) = AfterMessages(s, Append(p, x))
  <1> DEFINE r == AfterMessages(s, p)
             e == Message(x)
             next == Append(p, x)
  <1>1. /\ Messages(next) = Append(Messages(p), e) /\ next \in MessageQueues(own)
        /\ next # <<>> /\ next = p \o <<x>> /\ Messages(<<>>) = <<>>
    BY MessagesAppend, OneMore DEF MessageQueues
  <1>2. /\ e.type = "message" /\ e.n = x /\ e \in Incoming(own)
    BY EventsAre DEF Message, Event
  <1>3. /\ Messages(p) \in Seq(Incoming(own)) /\ p \in Seq(own) /\ <<x>> \in Seq(own)
        /\ s.pendingNativeEvents \in Seq(Incoming(own))
        /\ s.queuedNativeEvents \in Seq(Incoming(own))
        /\ s.queuedMessageEvents \in Seq(own)
    BY MessagesTyped, Components DEF EventQueues, MessageQueues
  <1> HIDE DEF e, next
  <1>4. CASE s.closed
    BY <1>4, Zenon DEF AfterMessages, PeerEvent
  <1>5. CASE ~s.closed /\ ~s.known
    <2> DEFINE q == s.pendingNativeEvents
    <2>1. AfterMessages(s, next) = [s EXCEPT !.pendingNativeEvents = Append(q \o Messages(p), e)]
      <3>1. q \o Messages(next) = Append(q \o Messages(p), e)
        BY Components, MoreMessages DEF next, e
      <3> QED
        BY <1>1, <1>5, <3>1, Zenon DEF AfterMessages
    <2>2. r = [s EXCEPT !.pendingNativeEvents = q \o Messages(p)]
      <3>1. CASE p = <<>>
        <4>1. q \o Messages(p) = q
          BY <1>1, <1>3, <3>1
        <4>2. s = [s EXCEPT !.pendingNativeEvents = q]
          BY DEF States
        <4> QED
          BY <3>1, <4>1, <4>2, Zenon DEF AfterMessages
      <3> QED
        BY <1>5, <3>1, Zenon DEF AfterMessages
    <2>3. /\ r.closed = s.closed /\ r.known = s.known
          /\ [r EXCEPT !.pendingNativeEvents = Append(@, e)]
               = [s EXCEPT !.pendingNativeEvents = Append(q \o Messages(p), e)]
      <3> DEFINE a == q \o Messages(p)
                 b == Append(q \o Messages(p), e)
      <3>1. r = [s EXCEPT !.pendingNativeEvents = a] /\ b = Append(a, e)
        BY <2>2
      <3> HIDE DEF r, a, b
      <3>2. /\ r.closed = s.closed /\ r.known = s.known
            /\ [r EXCEPT !.pendingNativeEvents = Append(@, e)]
                 = [s EXCEPT !.pendingNativeEvents = b]
        BY <3>1 DEF States
      <3> QED
        BY <3>2 DEF b
    <2> HIDE DEF r
    <2>4. PeerEvent(r, e) = [r EXCEPT !.pendingNativeEvents = Append(@, e)]
      <3>1. e.type # "datachannel"
        BY <1>2
      <3> QED
        BY <1>5, <2>3, <3>1, Zenon DEF PeerEvent
    <2> QED
      BY <2>1, <2>3, <2>4 DEF r, e, next
  <1>6. CASE ~s.closed /\ s.known /\ (s.announcementPending \/ s.nativeEventDrainActive)
    <2> DEFINE q == s.queuedNativeEvents
    <2>1. AfterMessages(s, next) = [s EXCEPT !.queuedNativeEvents = Append(q \o Messages(p), e)]
      <3>1. q \o Messages(next) = Append(q \o Messages(p), e)
        BY Components, MoreMessages DEF next, e
      <3> QED
        BY <1>1, <1>6, <3>1, Zenon DEF AfterMessages
    <2>2. r = [s EXCEPT !.queuedNativeEvents = q \o Messages(p)]
      <3>1. CASE p = <<>>
        <4>1. q \o Messages(p) = q
          BY <1>1, <1>3, <3>1
        <4>2. s = [s EXCEPT !.queuedNativeEvents = q]
          BY DEF States
        <4> QED
          BY <3>1, <4>1, <4>2, Zenon DEF AfterMessages
      <3> QED
        BY <1>6, <3>1, Zenon DEF AfterMessages
    <2>3. /\ r.closed = s.closed /\ r.known = s.known
          /\ r.announcementPending = s.announcementPending
          /\ r.nativeEventDrainActive = s.nativeEventDrainActive
          /\ [r EXCEPT !.queuedNativeEvents = Append(@, e)]
               = [s EXCEPT !.queuedNativeEvents = Append(q \o Messages(p), e)]
      <3> DEFINE a == q \o Messages(p)
                 b == Append(q \o Messages(p), e)
      <3>1. r = [s EXCEPT !.queuedNativeEvents = a] /\ b = Append(a, e)
        BY <2>2
      <3> HIDE DEF r, a, b
      <3>2. /\ r.closed = s.closed /\ r.known = s.known
            /\ r.announcementPending = s.announcementPending
            /\ r.nativeEventDrainActive = s.nativeEventDrainActive
            /\ [r EXCEPT !.queuedNativeEvents = Append(@, e)]
                 = [s EXCEPT !.queuedNativeEvents = b]
        BY <3>1 DEF States
      <3> QED
        BY <3>2 DEF b
    <2> HIDE DEF r
    <2>4. PeerEvent(r, e) = [r EXCEPT !.queuedNativeEvents = Append(@, e)]
      <3>1. e.type # "datachannel" /\ e.type # "open"
        BY <1>2
      <3> QED
        BY <1>6, <2>3, <3>1, Zenon DEF PeerEvent, HandleNative
    <2> QED
      BY <2>1, <2>3, <2>4 DEF r, e, next
  <1>7. CASE ~s.closed /\ s.known /\ ~s.announcementPending /\ ~s.nativeEventDrainActive
    <2> DEFINE q == s.queuedMessageEvents
               full == q \o p
               fuller == q \o next
    <2>1. AfterMessages(s, next) = QueueMessages(s, next)
      BY <1>1, <1>7, Zenon DEF AfterMessages
    <2>2. fuller = full \o <<x>> /\ q \o <<x>> = Append(q, x)
      <3>1. q \in Seq(own)
        BY <1>3
      <3> HIDE DEF q
      <3>2. (q \o p) \o <<x>> = q \o (p \o <<x>>)
        <4>1. <<x>> \in Seq(own) /\ p \in Seq(own)
          BY <1>3
        <4> QED
          BY <3>1, <4>1, ConcatAssociative
      <3>3. q \o <<x>> = Append(q, x)
        BY <3>1, AppendIsConcat
      <3> QED
        BY <1>1, <3>2, <3>3
    <2>3. QueueMessages(s, next) = ScheduleMessageFlush([s EXCEPT !.queuedMessageEvents = fuller])
      BY Zenon DEF QueueMessages
    <2>4. /\ r.closed = s.closed /\ r.known = s.known
          /\ r.announcementPending = s.announcementPending
          /\ r.nativeEventDrainActive = s.nativeEventDrainActive
          /\ QueueMessages(r, <<x>>) = QueueMessages(s, next)
      <3>1. CASE p = <<>>
        <4>1. r = s
          BY <3>1, Zenon DEF AfterMessages
        <4>2. next = <<x>>
          BY <3>1, OneMore DEF next
        <4> QED
          BY <4>1, <4>2, Zenon
      <3>2. CASE p # <<>>
        <4>1. r = ScheduleMessageFlush([s EXCEPT !.queuedMessageEvents = full])
          BY <1>7, <3>2, Zenon DEF AfterMessages, QueueMessages
        <4>2. /\ r.closed = s.closed /\ r.known = s.known
              /\ r.announcementPending = s.announcementPending
              /\ r.nativeEventDrainActive = s.nativeEventDrainActive
              /\ r.messageEventFlushScheduled
              /\ r.queuedMessageEvents = full
              /\ [r EXCEPT !.queuedMessageEvents = fuller]
                   = ScheduleMessageFlush([s EXCEPT !.queuedMessageEvents = fuller])
          <5> HIDE DEF r, full, fuller
          <5> QED
            BY <4>1 DEF ScheduleMessageFlush, Soon, States
        <4>3. QueueMessages(r, <<x>>)
                = ScheduleMessageFlush([r EXCEPT !.queuedMessageEvents = fuller])
          <5> HIDE DEF r, full, fuller
          <5> QED
            BY <2>2, <4>2, Zenon DEF QueueMessages
        <4>4. QueueMessages(r, <<x>>) = [r EXCEPT !.queuedMessageEvents = fuller]
          <5>1. [r EXCEPT !.queuedMessageEvents = fuller].messageEventFlushScheduled
            <6> HIDE DEF r, full, fuller
            <6> QED
              BY <4>1, <4>2 DEF ScheduleMessageFlush, Soon, States
          <5> HIDE DEF r, full, fuller
          <5> QED
            BY <4>3, <5>1, Zenon DEF ScheduleMessageFlush
        <4> HIDE DEF r, full, fuller
        <4> QED
          BY <2>3, <4>2, <4>4, Zenon
      <3> QED
        BY <3>1, <3>2
    <2> HIDE DEF r
    <2>5. PeerEvent(r, e) = QueueMessages(r, <<x>>)
      <3>1. e.type = "message" /\ e.type # "datachannel" /\ e.type # "open"
        BY <1>2
      <3>2. PeerEvent(r, e) = HandleNow(r, e)
        BY <1>7, <2>4, <3>1, Zenon DEF PeerEvent, HandleNative
      <3>3. HandleNow(r, e) = QueueMessages(r, <<e.n>>)
        BY <3>1 DEF HandleNow
      <3> QED
        BY <1>2, <3>2, <3>3
    <2> QED
      BY <2>1, <2>4, <2>5 DEF r, e, next
  <1> QED
    BY <1>4, <1>5, <1>6, <1>7

LEMMA MessagesInTurn ==
    ASSUME NEW own \in SUBSET Nat, NEW s \in States(own), NEW ns \in MessageQueues(own)
    PROVE  PeerEvents(s, Messages(ns)) = AfterMessages(s, ns)
  <1> DEFINE ms == Messages(ns)
             First(i) == SubSeq(ns, 1, i)
  <1>1. /\ Len(ms) = Len(ns) /\ Len(ns) \in Nat /\ ns \in Seq(own)
        /\ \A i \in 1 .. Len(ns) : ms[i] = Message(ns[i]) /\ ns[i] \in own
    BY MessagesTyped DEF MessageQueues, Messages
  <1>2. PICK f : /\ f = [i \in 0 .. Len(ms) |->
                           IF i = 0 THEN s ELSE PeerEvent(f[i - 1], ms[i])]
                 /\ PeerEvents(s, ms) = f[Len(ms)]
    BY <1>1, EventsDefined
  <1>3. /\ First(0) = <<>> /\ First(Len(ns)) = ns
        /\ \A i \in 1 .. Len(ns) : /\ First(i - 1) \in Seq(own)
                                   /\ First(i) = Append(First(i - 1), ns[i])
    BY <1>1
  <1> HIDE DEF First, ms
  <1> DEFINE Wrong == {i \in 0 .. Len(ns) : f[i] # AfterMessages(s, First(i))}
  <1>4. Wrong = {}
    <2> SUFFICES ASSUME Wrong # {} PROVE FALSE
      OBVIOUS
    <2>1. PICK n \in Wrong : \A m \in Wrong : n <= m
      <3>1. Wrong \in SUBSET Nat
        BY <1>1
      <3> HIDE DEF Wrong
      <3> QED
        BY <3>1, DispatcherAssumed, DP!Least
    <2>2. n # 0
      <3>1. f[0] = s
        BY <1>1, <1>2
      <3>2. AfterMessages(s, First(0)) = s
        BY <1>3, Zenon DEF AfterMessages
      <3> QED
        BY <2>1, <3>1, <3>2
    <2>3. n \in 1 .. Len(ns) /\ n - 1 \in 0 .. Len(ns) /\ ~(n <= n - 1) /\ n \in 0 .. Len(ms)
      BY <1>1, <2>1, <2>2
    <2>4. f[n - 1] = AfterMessages(s, First(n - 1))
      BY <2>1, <2>3
    <2>5. f[n] = PeerEvent(f[n - 1], Message(ns[n]))
      <3>1. f[n] = PeerEvent(f[n - 1], ms[n])
        BY <1>2, <2>2, <2>3, Zenon
      <3> QED
        BY <1>1, <2>3, <3>1
    <2>6. ns[n] \in own /\ First(n - 1) \in MessageQueues(own)
      BY <1>1, <1>3, <2>3 DEF MessageQueues
    <2>7. f[n] = AfterMessages(s, First(n))
      BY <1>3, <2>3, <2>4, <2>5, <2>6, OneMessage
    <2> QED
      BY <2>1, <2>7
  <1>5. f[Len(ns)] = AfterMessages(s, First(Len(ns)))
    <2>1. Len(ns) \in 0 .. Len(ns)
      BY <1>1
    <2> QED
      BY <1>4, <2>1
  <1> QED
    BY <1>1, <1>2, <1>3, <1>5 DEF ms

-----------------------------------------------------------------------------
\* Deferred ICE events.  A flush that is scheduled waits once in immediates, and while
\* the connection is open it has an event to flush: the count never runs below 0.
\* Where no event is ever deferred, neither is open.

NothingDeferred == 0 \in {MaxOperations, MaxIceEvents}

In(x, q) == \E i \in DOMAIN q : q[i] = x

Undeferred(s) ==
    /\ s.deferredIceEvents = 0 /\ ~s.iceEventFlushScheduled /\ ~s.openDeferredForIce
    /\ ~In("flushIceEvents", s.immediates) /\ ~In("retryOpen", s.immediates)
    /\ MaxOperations = 0 => s.operationsPending = 0

IceFlush(s) ==
    /\ \A i, j \in DOMAIN s.immediates :
          s.immediates[i] = "flushIceEvents" /\ s.immediates[j] = "flushIceEvents" => i = j
    /\ \A i \in DOMAIN s.immediates :
          s.immediates[i] = "flushIceEvents" => s.iceEventFlushScheduled
    /\ s.iceEventFlushScheduled /\ ~s.closed => s.deferredIceEvents > 0
    /\ NothingDeferred => Undeferred(s)

IceTasks == {"flushIceEvents", "retryOpen"}

Sound(own) == {s \in States(own) : IceFlush(s)}

\* Other tasks may have joined the queue.
Extended(p, q) ==
    /\ Len(p) <= Len(q)
    /\ \A i \in 1 .. Len(p) : q[i] = p[i]
    /\ \A i \in 1 .. Len(q) : i > Len(p) => q[i] \notin IceTasks

IceKept(s, r) ==
    /\ r.iceEventFlushScheduled = s.iceEventFlushScheduled
    /\ r.closed = s.closed
    /\ r.deferredIceEvents = s.deferredIceEvents
    /\ r.openDeferredForIce = s.openDeferredForIce
    /\ r.operationsPending = s.operationsPending
    /\ Extended(s.immediates, r.immediates)

LEMMA Extending ==
    ASSUME NEW p \in ImmediateQueues
    PROVE  /\ Extended(p, p)
           /\ \A x \in ImmediateTasks \ IceTasks : Extended(p, Append(p, x))
           /\ \A q, r \in ImmediateQueues :
                 Extended(p, q) /\ Extended(q, r) => Extended(p, r)
  <1>1. p \in Seq(ImmediateTasks) /\ Len(p) \in Nat
    BY DEF ImmediateQueues
  <1>2. Extended(p, p)
    BY <1>1 DEF Extended
  <1>3. ASSUME NEW x \in ImmediateTasks \ IceTasks PROVE Extended(p, Append(p, x))
    <2>1. /\ Len(Append(p, x)) = Len(p) + 1 /\ Append(p, x)[Len(p) + 1] = x
          /\ \A i \in 1 .. Len(p) : Append(p, x)[i] = p[i]
      BY <1>1, AppendProperties
    <2>2. \A i \in 1 .. Len(p) + 1 : i > Len(p) => i = Len(p) + 1
      BY <1>1
    <2> QED
      BY <1>1, <2>1, <2>2 DEF Extended
  <1>4. ASSUME NEW q \in ImmediateQueues, NEW r \in ImmediateQueues,
               Extended(p, q), Extended(q, r)
        PROVE  Extended(p, r)
    <2>1. Len(q) \in Nat /\ Len(r) \in Nat
      BY DEF ImmediateQueues
    <2>2. /\ Len(p) <= Len(q) /\ \A i \in 1 .. Len(p) : q[i] = p[i]
          /\ \A i \in 1 .. Len(q) : i > Len(p) => q[i] \notin IceTasks
          /\ Len(q) <= Len(r) /\ \A i \in 1 .. Len(q) : r[i] = q[i]
          /\ \A i \in 1 .. Len(r) : i > Len(q) => r[i] \notin IceTasks
      BY <1>4 DEF Extended
    <2>3. \A i \in 1 .. Len(p) : i \in 1 .. Len(q)
      BY <1>1, <2>1, <2>2
    <2>4. \A i \in 1 .. Len(r) : i \in 1 .. Len(q) \/ i > Len(q)
      BY <2>1
    <2>5. Len(p) <= Len(r)
      BY <1>1, <2>1, <2>2
    <2>6. \A i \in 1 .. Len(p) : r[i] = p[i]
      BY <2>2, <2>3
    <2>7. \A i \in 1 .. Len(r) : i > Len(p) => r[i] \notin IceTasks
      BY <2>2, <2>4
    <2> QED
      BY <2>5, <2>6, <2>7, Zenon DEF Extended
  <1> QED
    BY <1>2, <1>3, <1>4

LEMMA IceKeptSound ==
    ASSUME NEW own, NEW s \in Sound(own), NEW r \in States(own), IceKept(s, r)
    PROVE  r \in Sound(own)
  <1>1. /\ s.immediates \in Seq(ImmediateTasks) /\ r.immediates \in Seq(ImmediateTasks)
        /\ IceFlush(s)
    BY Components DEF ImmediateQueues, Sound
  <1> DEFINE p == s.immediates
             q == r.immediates
  <1>2. /\ DOMAIN p = 1 .. Len(p) /\ DOMAIN q = 1 .. Len(q)
        /\ Len(p) \in Nat /\ Len(q) \in Nat
    BY <1>1
  <1>3. \A i \in DOMAIN q : q[i] \in IceTasks => i \in DOMAIN p /\ p[i] = q[i]
    <2>1. /\ Len(p) <= Len(q) /\ \A i \in 1 .. Len(p) : q[i] = p[i]
          /\ \A i \in 1 .. Len(q) : i > Len(p) => q[i] \notin IceTasks
      BY DEF IceKept, Extended
    <2>2. \A i \in 1 .. Len(q) : i \in 1 .. Len(p) \/ i > Len(p)
      BY <1>2
    <2> HIDE DEF p, q
    <2> QED
      BY <1>2, <2>1, <2>2, Zenon
  <1> HIDE DEF p, q
  <1>4. "flushIceEvents" \in IceTasks /\ "retryOpen" \in IceTasks
    BY DEF IceTasks
  <1>5. \A x \in IceTasks : In(x, q) => In(x, p)
    BY <1>3, Zenon DEF In
  <1>6. Undeferred(s) => Undeferred(r)
    BY <1>4, <1>5, Zenon DEF Undeferred, IceKept, p, q
  <1>7. IceFlush(r)
    BY <1>1, <1>3, <1>4, <1>6, Zenon DEF IceFlush, IceKept, p, q
  <1> QED
    BY <1>7 DEF Sound

LEMMA IceKeptTwice ==
    ASSUME NEW own, NEW s \in States(own), NEW p \in States(own), NEW r \in States(own),
           IceKept(s, p), IceKept(p, r)
    PROVE  IceKept(s, r)
  <1>1. /\ s.immediates \in ImmediateQueues /\ p.immediates \in ImmediateQueues
        /\ r.immediates \in ImmediateQueues
    BY Components
  <1>2. Extended(s.immediates, r.immediates)
    BY <1>1, Extending DEF IceKept
  <1> QED
    BY <1>2, Zenon DEF IceKept

\* Steps that change nothing about ICE events.
LEMMA IceSteps ==
    ASSUME NEW own, NEW s \in States(own)
    PROVE  /\ IceKept(s, s)
           /\ \A e : IceKept(s, Dispatch(s, e))
           /\ \A x : IceKept(s, Later(s, x))
           /\ \A x \in ImmediateTasks \ IceTasks : IceKept(s, Soon(s, x))
           /\ \A ns : IceKept(s, DispatchMessages(s, ns))
  <1>1. /\ Extended(s.immediates, s.immediates)
        /\ \A x \in ImmediateTasks \ IceTasks :
              Extended(s.immediates, Append(s.immediates, x))
    BY Components, Extending
  <1>2. IceKept(s, s)
    BY <1>1 DEF IceKept
  <1>3. ASSUME NEW x PROVE IceKept(s, [s EXCEPT !.log = x]) /\ IceKept(s, [s EXCEPT !.timers = x])
    BY <1>1 DEF IceKept, States
  <1>4. \A e : IceKept(s, Dispatch(s, e))
    BY <1>3 DEF Dispatch
  <1>5. \A x : IceKept(s, Later(s, x))
    BY <1>3 DEF Later
  <1>6. \A ns : IceKept(s, DispatchMessages(s, ns))
    BY <1>3 DEF DispatchMessages
  <1>7. ASSUME NEW x \in ImmediateTasks \ IceTasks PROVE IceKept(s, Soon(s, x))
    <2> DEFINE q == Append(s.immediates, x)
    <2>1. Extended(s.immediates, q)
      BY <1>1
    <2>2. Soon(s, x) = [s EXCEPT !.immediates = q]
      BY DEF Soon
    <2> HIDE DEF q
    <2> QED
      BY <2>1, <2>2 DEF IceKept, States
  <1> QED
    BY <1>2, <1>4, <1>5, <1>6, <1>7

LEMMA IceFields ==
    ASSUME NEW own, NEW s \in States(own), NEW x
    PROVE  /\ IceKept(s, [s EXCEPT !.known = x])
           /\ IceKept(s, [s EXCEPT !.pendingNativeEvents = x])
           /\ IceKept(s, [s EXCEPT !.readyState = x])
           /\ IceKept(s, [s EXCEPT !.announcementPending = x])
           /\ IceKept(s, [s EXCEPT !.openEventPending = x])
           /\ IceKept(s, [s EXCEPT !.openEventDispatched = x])
           /\ IceKept(s, [s EXCEPT !.queuedNativeEvents = x])
           /\ IceKept(s, [s EXCEPT !.nativeEventDrainActive = x])
           /\ IceKept(s, [s EXCEPT !.queuedMessageEvents = x])
           /\ IceKept(s, [s EXCEPT !.messageEventFlushScheduled = x])
           /\ IceKept(s, [s EXCEPT !.messageEventGateActive = x])
           /\ IceKept(s, [s EXCEPT !.messageConsumerGateActive = x])
           /\ IceKept(s, [s EXCEPT !.nativeCloseEventQueued = x])
           /\ IceKept(s, [s EXCEPT !.graceOver = x])
           /\ IceKept(s, [s EXCEPT !.pendingDataChannelEvent = x])
           /\ IceKept(s, [s EXCEPT !.dataChannelFlushScheduled = x])
           /\ IceKept(s, [s EXCEPT !.timers = x])
           /\ IceKept(s, [s EXCEPT !.messageConsumer = x])
           /\ IceKept(s, [s EXCEPT !.dataChannelConsumer = x])
           /\ IceKept(s, [s EXCEPT !.operations = x])
           /\ IceKept(s, [s EXCEPT !.idleCallbacks = x])
           /\ IceKept(s, [s EXCEPT !.threw = x])
           /\ IceKept(s, [s EXCEPT !.log = x])
  <1>1. Extended(s.immediates, s.immediates)
    BY Components, Extending
  <1> QED
    BY <1>1, SMTT(60) DEF IceKept, States

LEMMA IceMethods ==
    ASSUME NEW own \in SUBSET Nat, NEW s \in States(own)
    PROVE  /\ IceKept(s, ScheduleMessageFlush(s))
           /\ \A ns \in MessageQueues(own) : IceKept(s, QueueMessages(s, ns))
           /\ IceKept(s, QueueNativeClose(s))
           /\ IceKept(s, HandleClose(s))
           /\ IceKept(s, LocalClose(s))
           /\ IceKept(s, CloseIfClosing(s))
           /\ IceKept(s, ReleaseConsumerGate(s))
           /\ \A c \in Consumers : IceKept(s, AddMessageConsumer(s, c))
           /\ IceKept(s, GateUntilConsumer(s))
           /\ IceKept(s, GateAfterAnnouncement(s))
           /\ IceKept(s, ScheduleDataChannelFlush(s))
  <1>1. ASSUME NEW p \in States(own) PROVE IceKept(p, ScheduleMessageFlush(p))
    <2> DEFINE r == [p EXCEPT !.messageEventFlushScheduled = TRUE]
    <2>1. r \in States(own) /\ IceKept(p, r)
      BY Flags, IceFields
    <2> HIDE DEF r
    <2>2. "flushMessages" \in ImmediateTasks \ IceTasks
      BY Names DEF IceTasks
    <2>3. Soon(r, "flushMessages") \in States(own) /\ IceKept(r, Soon(r, "flushMessages"))
      BY <2>1, <2>2, StepsTyped, IceSteps
    <2>4. IceKept(p, Soon(r, "flushMessages"))
      BY <2>1, <2>3, IceKeptTwice
    <2>5. IceKept(p, p)
      BY IceSteps
    <2> QED
      BY <2>4, <2>5, Zenon DEF ScheduleMessageFlush, r
  <1>2. ASSUME NEW ns \in MessageQueues(own) PROVE IceKept(s, QueueMessages(s, ns))
    <2> DEFINE r == [s EXCEPT !.queuedMessageEvents = @ \o ns]
    <2>1. r \in States(own) /\ IceKept(s, r)
      BY Components, Queues, Values, IceFields
    <2> HIDE DEF r
    <2>2. IceKept(s, ScheduleMessageFlush(r))
      BY <1>1, <2>1, FlushTyped, IceKeptTwice
    <2> QED
      BY <2>2, Zenon DEF QueueMessages, r
  <1>3. IceKept(s, QueueNativeClose(s))
    <2> DEFINE r1 == [s EXCEPT !.nativeCloseEventQueued = TRUE]
               r == [r1 EXCEPT !.graceOver = FALSE]
    <2>1. r1 \in States(own) /\ IceKept(s, r1)
      BY Flags, IceFields
    <2> HIDE DEF r1
    <2>2. r \in States(own) /\ IceKept(r1, r)
      BY <2>1, Flags, IceFields
    <2> HIDE DEF r
    <2>3. Later(r, "pollClose") \in States(own) /\ IceKept(r, Later(r, "pollClose"))
      BY <2>2, StepsTyped, Names, IceSteps
    <2>4. IceKept(s, Later(r, "pollClose"))
      BY <2>1, <2>2, <2>3, IceKeptTwice
    <2>5. IceKept(s, s)
      BY IceSteps
    <2> QED
      BY <2>4, <2>5, Zenon DEF QueueNativeClose, r, r1
  <1>4. IceKept(s, HandleClose(s))
    <2> DEFINE r1 == [s EXCEPT !.readyState = "closed"]
               r == [r1 EXCEPT !.known = FALSE]
               e == Event("close", 0)
    <2>1. r1 \in States(own) /\ IceKept(s, r1)
      BY Values, Names, IceFields
    <2> HIDE DEF r1
    <2>2. r \in States(own) /\ IceKept(r1, r)
      BY <2>1, Flags, IceFields
    <2> HIDE DEF r
    <2>3. Dispatch(r, e) \in States(own) /\ IceKept(r, Dispatch(r, e))
      BY <2>2, StepsTyped, EventsAre, IceSteps
    <2> HIDE DEF e
    <2>4. IceKept(s, Dispatch(r, e))
      BY <2>1, <2>2, <2>3, IceKeptTwice
    <2>5. IceKept(s, s)
      BY IceSteps
    <2> QED
      BY <2>4, <2>5, Zenon DEF HandleClose, r, r1, e
  <1>5. IceKept(s, LocalClose(s))
    <2> DEFINE r == [s EXCEPT !.readyState = "closing"]
    <2>1. r \in States(own) /\ IceKept(s, r)
      BY Values, Names, IceFields
    <2> HIDE DEF r
    <2>2. "closeNative" \in ImmediateTasks \ IceTasks
      BY Names DEF IceTasks
    <2>3. Soon(r, "closeNative") \in States(own) /\ IceKept(r, Soon(r, "closeNative"))
      BY <2>1, <2>2, StepsTyped, IceSteps
    <2>4. IceKept(s, Soon(r, "closeNative"))
      BY <2>1, <2>3, IceKeptTwice
    <2>5. IceKept(s, s)
      BY IceSteps
    <2> QED
      BY <2>4, <2>5, Zenon DEF LocalClose, r
  <1>6. IceKept(s, CloseIfClosing(s))
    BY <1>4, IceSteps, Zenon DEF CloseIfClosing
  <1>7. ASSUME NEW p \in States(own) PROVE IceKept(p, ReleaseConsumerGate(p))
    <2> DEFINE r == [p EXCEPT !.messageConsumerGateActive = FALSE]
    <2>1. r \in States(own) /\ IceKept(p, r)
      BY Flags, IceFields
    <2> HIDE DEF r
    <2>2. IceKept(p, ScheduleMessageFlush(r))
      BY <1>1, <2>1, FlushTyped, IceKeptTwice
    <2>3. IceKept(p, p)
      BY IceSteps
    <2> QED
      BY <2>2, <2>3, Zenon DEF ReleaseConsumerGate, r
  <1>8. ASSUME NEW c \in Consumers PROVE IceKept(s, AddMessageConsumer(s, c))
    <2> DEFINE r == [s EXCEPT !.messageConsumer = c]
    <2>1. r \in States(own) /\ IceKept(s, r)
      BY Values, IceFields
    <2> HIDE DEF r
    <2>2. IceKept(s, ReleaseConsumerGate(r))
      BY <1>7, <2>1, GatesTyped, IceKeptTwice
    <2>3. IceKept(s, s)
      BY IceSteps
    <2> QED
      BY <2>2, <2>3, Zenon DEF AddMessageConsumer, r
  <1>9. IceKept(s, GateUntilConsumer(s))
    BY IceFields, IceSteps, Zenon DEF GateUntilConsumer
  <1>10. IceKept(s, GateAfterAnnouncement(s))
    <2> DEFINE r == [s EXCEPT !.messageEventGateActive = TRUE]
    <2>1. r \in States(own) /\ IceKept(s, r)
      BY Flags, IceFields
    <2> HIDE DEF r
    <2>2. Later(r, "gate1") \in States(own) /\ IceKept(r, Later(r, "gate1"))
      BY <2>1, StepsTyped, Names, IceSteps
    <2>3. IceKept(s, Later(r, "gate1")) /\ IceKept(s, s)
      BY <2>1, <2>2, IceKeptTwice, IceSteps
    <2> QED
      BY <2>3, Zenon DEF GateAfterAnnouncement, r
  <1>11. IceKept(s, ScheduleDataChannelFlush(s))
    <2> DEFINE r == [s EXCEPT !.dataChannelFlushScheduled = TRUE]
    <2>1. r \in States(own) /\ IceKept(s, r)
      BY Flags, IceFields
    <2> HIDE DEF r
    <2>2. /\ Later(r, "flushDataChannel") \in States(own)
          /\ IceKept(r, Later(r, "flushDataChannel"))
      BY <2>1, StepsTyped, Names, IceSteps
    <2>3. IceKept(s, Later(r, "flushDataChannel")) /\ IceKept(s, s)
      BY <2>1, <2>2, IceKeptTwice, IceSteps
    <2> QED
      BY <2>3, Zenon DEF ScheduleDataChannelFlush, r
  <1> QED
    BY <1>1, <1>2, <1>3, <1>4, <1>5, <1>6, <1>7, <1>8, <1>9, <1>10, <1>11

\* A flush of ICE events is scheduled for the events there are.
LEMMA IceScheduled ==
    ASSUME NEW own \in SUBSET Nat, NEW s \in Sound(own)
    PROVE  ScheduleIceFlush(s) \in Sound(own)
  <1> DEFINE r == [s EXCEPT !.iceEventFlushScheduled = TRUE]
             q == Append(s.immediates, "flushIceEvents")
             t == Soon(r, "flushIceEvents")
  <1>1. s \in States(own) /\ IceFlush(s)
    BY DEF Sound
  <1>2. ScheduleIceFlush(s) \in States(own)
    BY <1>1, OpenTyped
  <1>3. CASE s.iceEventFlushScheduled \/ s.deferredIceEvents = 0
    BY <1>3, Zenon DEF ScheduleIceFlush
  <1>4. CASE ~s.iceEventFlushScheduled /\ s.deferredIceEvents # 0
    <2>1. ScheduleIceFlush(s) = t
      BY <1>4, Zenon DEF ScheduleIceFlush
    <2>2. t = [r EXCEPT !.immediates = q]
      BY <1>1 DEF Soon, States
    <2>3. /\ t.iceEventFlushScheduled /\ t.immediates = q
          /\ t.deferredIceEvents = s.deferredIceEvents
      <3> HIDE DEF q
      <3> QED
        BY <1>1, <2>2 DEF States
    <2>4. s.deferredIceEvents > 0
      BY <1>1, <1>4, Components, IncomingAssumption DEF IceCounts, IncomingAssumption
    <2>5. /\ s.immediates \in Seq(ImmediateTasks) /\ Len(s.immediates) \in Nat
          /\ DOMAIN s.immediates = 1 .. Len(s.immediates)
      BY <1>1, Components DEF ImmediateQueues
    <2>6. \A i \in DOMAIN s.immediates : s.immediates[i] # "flushIceEvents"
      BY <1>1, <1>4 DEF IceFlush
    <2>7. \A i \in DOMAIN q : q[i] = "flushIceEvents" => i = Len(s.immediates) + 1
      <3>1. "flushIceEvents" \in ImmediateTasks
        BY Names
      <3>2. /\ q \in Seq(ImmediateTasks) /\ Len(q) = Len(s.immediates) + 1
            /\ \A i \in 1 .. Len(s.immediates) : q[i] = s.immediates[i]
        BY <2>5, <3>1, AppendProperties
      <3> HIDE DEF q
      <3>3. DOMAIN q = 1 .. Len(q)
        BY <3>2
      <3> QED
        BY <2>5, <2>6, <3>2, <3>3
    <2>8. ~NothingDeferred
      BY <1>1, <1>4, Zenon DEF IceFlush, Undeferred
    <2> HIDE DEF q, t
    <2>9. IceFlush(t)
      BY <2>3, <2>4, <2>7, <2>8 DEF IceFlush
    <2> QED
      BY <1>2, <2>1, <2>9 DEF Sound
  <1> QED
    BY <1>3, <1>4

LEMMA SoundMethods ==
    ASSUME NEW own \in SUBSET Nat, NEW s \in Sound(own)
    PROVE  /\ DispatchOpen(s) \in Sound(own)
           /\ ClosePeer(s) \in Sound(own)
           /\ \A e \in Incoming(own) : HandleNow(s, e) \in Sound(own)
           /\ \A e \in Incoming(own) : HandleNative(s, e) \in Sound(own)
  <1>1. s \in States(own) /\ IceFlush(s)
    BY DEF Sound
  <1>2. ASSUME NEW p \in Sound(own) PROVE DispatchOpen(p) \in Sound(own)
    <2> DEFINE r1 == [p EXCEPT !.openDeferredForIce = TRUE]
               r2 == [p EXCEPT !.openEventDispatched = TRUE]
               e == Event("open", 0)
    <2>1. p \in States(own)
      BY DEF Sound
    <2>2. r2 \in Sound(own)
      BY <2>1, Flags, IceFields, IceKeptSound
    <2>3. DispatchOpen(p) \in States(own) /\ e \in Events
      BY <2>1, OpenTyped, EventsAre
    <2>4. ASSUME p.deferredIceEvents > 0 \/ p.iceEventFlushScheduled
          PROVE  ScheduleIceFlush(r1) \in Sound(own)
      <3>1. r1 \in States(own)
        BY <2>1, Flags
      <3>2. /\ r1.immediates = p.immediates /\ r1.closed = p.closed
            /\ r1.iceEventFlushScheduled = p.iceEventFlushScheduled
            /\ r1.deferredIceEvents = p.deferredIceEvents
        BY <2>1 DEF States
      <3>3. IceFlush(p)
        BY DEF Sound
      <3>4. ~NothingDeferred
        <4>1. NothingDeferred => p.deferredIceEvents = 0 /\ ~p.iceEventFlushScheduled
          BY <3>3, Zenon DEF IceFlush, Undeferred
        <4> QED
          BY <2>4, <4>1
      <3> HIDE DEF r1
      <3>5. IceFlush(r1)
        BY <3>2, <3>3, <3>4, Zenon DEF IceFlush
      <3>6. r1 \in Sound(own)
        BY <3>1, <3>5 DEF Sound
      <3> QED
        BY <3>6, IceScheduled
    <2> HIDE DEF r1, r2, e
    <2>5. Dispatch(r2, e) \in Sound(own)
      <3>1. r2 \in States(own)
        BY <2>2 DEF Sound
      <3>2. Dispatch(r2, e) \in States(own) /\ IceKept(r2, Dispatch(r2, e))
        BY <2>3, <3>1, StepsTyped, IceSteps
      <3> QED
        BY <2>2, <3>2, IceKeptSound
    <2> QED
      BY <2>4, <2>5, Zenon DEF DispatchOpen, r1, r2, e
  <1>3. ClosePeer(s) \in Sound(own)
    <2> DEFINE r1 == [s EXCEPT !.closed = TRUE]
               r == [r1 EXCEPT !.deferredIceEvents = 0]
    <2>1. ClosePeer(s) \in States(own) /\ r1 \in States(own)
      BY <1>1, CloseTyped, Flags
    <2>2. r \in States(own)
      <3> HIDE DEF r1
      <3> QED
        BY <2>1, Values, Names
    <2>3. ClosePeer(s) = IF r.known THEN HandleClose(r) ELSE r
      BY Zenon DEF ClosePeer, r1
    <2>4. IceFlush(r)
      <3>1. /\ r.closed /\ r.immediates = s.immediates /\ r.deferredIceEvents = 0
            /\ r.iceEventFlushScheduled = s.iceEventFlushScheduled
            /\ r.openDeferredForIce = s.openDeferredForIce
            /\ r.operationsPending = s.operationsPending
        BY <1>1 DEF States
      <3> HIDE DEF r
      <3> QED
        BY <1>1, <3>1, Zenon DEF IceFlush, Undeferred
    <2> HIDE DEF r
    <2>5. r \in Sound(own)
      BY <2>2, <2>4 DEF Sound
    <2>6. HandleClose(r) \in Sound(own)
      BY <2>2, <2>5, IceMethods, CloseTyped, IceKeptSound
    <2> QED
      BY <2>3, <2>5, <2>6
  <1>4. ASSUME NEW e \in Incoming(own) PROVE HandleNow(s, e) \in Sound(own)
    <2> DEFINE r == [s EXCEPT !.readyState = "open"]
    <2>1. e.type \in {"open", "message", "close"}
      BY DEF Incoming
    <2>2. HandleNow(s, e) \in States(own) /\ r \in States(own)
      BY <1>1, HandleTyped, Values, Names
    <2>3. CASE e.type = "open"
      <3>1. r \in Sound(own)
        BY <1>1, <2>2, IceFields, IceKeptSound
      <3>2. HandleNow(s, e) =
              IF s.openEventPending THEN r
              ELSE IF s.readyState \in {"connecting", "open"} THEN DispatchOpen(r) ELSE s
        BY <2>3 DEF HandleNow
      <3> HIDE DEF r
      <3>3. DispatchOpen(r) \in Sound(own)
        BY <1>2, <3>1
      <3> QED
        BY <3>1, <3>2, <3>3, Zenon
    <2>4. CASE e.type = "message"
      <3>1. <<e.n>> \in MessageQueues(own)
        <4>1. e.n \in own
          BY <2>4 DEF Incoming
        <4> QED
          BY <4>1 DEF MessageQueues
      <3>2. HandleNow(s, e) = QueueMessages(s, <<e.n>>)
        BY <2>4 DEF HandleNow
      <3> QED
        BY <1>1, <2>2, <3>1, <3>2, IceMethods, IceKeptSound
    <2>5. CASE e.type = "close"
      <3>1. HandleNow(s, e) = QueueNativeClose(s)
        BY <2>5 DEF HandleNow
      <3> QED
        BY <1>1, <2>2, <3>1, IceMethods, IceKeptSound
    <2> QED
      BY <2>1, <2>3, <2>4, <2>5
  <1>5. ASSUME NEW e \in Incoming(own) PROVE HandleNative(s, e) \in Sound(own)
    <2> DEFINE r1 == [s EXCEPT !.readyState = "open"]
               r2 == [r1 EXCEPT !.openEventPending = TRUE]
               q == Append(s.queuedNativeEvents, e)
               r3 == [s EXCEPT !.queuedNativeEvents = q]
    <2>1. r1 \in Sound(own)
      BY <1>1, Values, Names, IceFields, IceKeptSound
    <2>2. r2 \in Sound(own)
      <3>1. r1 \in States(own)
        BY <2>1 DEF Sound
      <3> HIDE DEF r1
      <3> QED
        BY <2>1, <3>1, Flags, IceFields, IceKeptSound
    <2>3. r3 \in Sound(own)
      <3>1. q \in EventQueues(own)
        BY <1>1, Components, Queues
      <3> QED
        BY <1>1, <3>1, Values, IceFields, IceKeptSound
    <2> QED
      BY <1>4, <2>2, <2>3, Zenon DEF HandleNative
  <1> QED
    BY <1>2, <1>3, <1>4, <1>5

\* Short cuts to Sound(own) for states that differ in one component, and for steps
\* that keep what there is to say of ICE events.
LEMMA SoundFields ==
    ASSUME NEW own, NEW s \in Sound(own)
    PROVE  /\ s \in States(own)
           /\ \A b \in BOOLEAN :
                 /\ [s EXCEPT !.known = b] \in Sound(own)
                 /\ [s EXCEPT !.announcementPending = b] \in Sound(own)
                 /\ [s EXCEPT !.openEventPending = b] \in Sound(own)
                 /\ [s EXCEPT !.nativeEventDrainActive = b] \in Sound(own)
                 /\ [s EXCEPT !.messageEventFlushScheduled = b] \in Sound(own)
                 /\ [s EXCEPT !.messageEventGateActive = b] \in Sound(own)
                 /\ [s EXCEPT !.messageConsumerGateActive = b] \in Sound(own)
                 /\ [s EXCEPT !.nativeCloseEventQueued = b] \in Sound(own)
                 /\ [s EXCEPT !.graceOver = b] \in Sound(own)
                 /\ [s EXCEPT !.pendingDataChannelEvent = b] \in Sound(own)
                 /\ [s EXCEPT !.dataChannelFlushScheduled = b] \in Sound(own)
                 /\ [s EXCEPT !.dataChannelConsumer = b] \in Sound(own)
                 /\ [s EXCEPT !.threw = b] \in Sound(own)
           /\ \A x \in ReadyStates : [s EXCEPT !.readyState = x] \in Sound(own)
           /\ \A x \in EventQueues(own) :
                 /\ [s EXCEPT !.pendingNativeEvents = x] \in Sound(own)
                 /\ [s EXCEPT !.queuedNativeEvents = x] \in Sound(own)
           /\ \A x \in MessageQueues(own) :
                 [s EXCEPT !.queuedMessageEvents = x] \in Sound(own)
           /\ \A x \in TimerQueues : [s EXCEPT !.timers = x] \in Sound(own)
           /\ \A x \in Consumers : [s EXCEPT !.messageConsumer = x] \in Sound(own)
           /\ [s EXCEPT !.openDeferredForIce = FALSE] \in Sound(own)
           /\ [s EXCEPT !.operationsPending = 0] \in Sound(own)
           /\ \A x \in OperationCounts : [s EXCEPT !.operations = x] \in Sound(own)
           /\ \A x \in Nat : [s EXCEPT !.idleCallbacks = x] \in Sound(own)
           /\ \A x \in Logs : [s EXCEPT !.log = x] \in Sound(own)
  <1>1. s \in States(own) /\ IceFlush(s)
    BY DEF Sound
  <1> DEFINE r1 == [s EXCEPT !.openDeferredForIce = FALSE]
             r2 == [s EXCEPT !.operationsPending = 0]
  <1>2. r1 \in Sound(own) /\ r2 \in Sound(own)
    <2>1. r1 \in States(own) /\ r2 \in States(own)
      BY <1>1, Flags, Values, Names
    <2>2. /\ r1.immediates = s.immediates /\ r2.immediates = s.immediates
          /\ r1.iceEventFlushScheduled = s.iceEventFlushScheduled
          /\ r2.iceEventFlushScheduled = s.iceEventFlushScheduled
          /\ r1.closed = s.closed /\ r2.closed = s.closed
          /\ r1.deferredIceEvents = s.deferredIceEvents
          /\ r2.deferredIceEvents = s.deferredIceEvents
      BY <1>1 DEF States
    <2>3. /\ ~r1.openDeferredForIce /\ r2.openDeferredForIce = s.openDeferredForIce
          /\ r1.operationsPending = s.operationsPending /\ r2.operationsPending = 0
      BY <1>1 DEF States
    <2> HIDE DEF r1, r2
    <2>4. IceFlush(r1) /\ IceFlush(r2)
      BY <1>1, <2>2, <2>3, Zenon DEF IceFlush, Undeferred
    <2> QED
      BY <2>1, <2>4 DEF Sound
  <1>3. /\ [s EXCEPT !.openDeferredForIce = FALSE] \in Sound(own)
        /\ [s EXCEPT !.operationsPending = 0] \in Sound(own)
    BY <1>2
  <1> QED
    BY <1>1, <1>3, Flags, Values, IceFields, IceKeptSound, ZenonT(60)

LEMMA SoundSteps ==
    ASSUME NEW own \in SUBSET Nat, NEW s \in Sound(own)
    PROVE  /\ \A e \in Events : Dispatch(s, e) \in Sound(own)
           /\ \A x \in TimerTasks : Later(s, x) \in Sound(own)
           /\ \A x \in ImmediateTasks \ IceTasks : Soon(s, x) \in Sound(own)
           /\ \A ns \in MessageQueues(own) : DispatchMessages(s, ns) \in Sound(own)
           /\ ScheduleMessageFlush(s) \in Sound(own)
           /\ \A ns \in MessageQueues(own) : QueueMessages(s, ns) \in Sound(own)
           /\ QueueNativeClose(s) \in Sound(own)
           /\ HandleClose(s) \in Sound(own)
           /\ LocalClose(s) \in Sound(own)
           /\ CloseIfClosing(s) \in Sound(own)
           /\ ReleaseConsumerGate(s) \in Sound(own)
           /\ \A c \in Consumers : AddMessageConsumer(s, c) \in Sound(own)
           /\ GateUntilConsumer(s) \in Sound(own)
           /\ GateAfterAnnouncement(s) \in Sound(own)
           /\ ScheduleDataChannelFlush(s) \in Sound(own)
  <1>1. s \in States(own)
    BY DEF Sound
  <1>2. /\ \A e \in Events : Dispatch(s, e) \in Sound(own)
        /\ \A x \in TimerTasks : Later(s, x) \in Sound(own)
        /\ \A x \in ImmediateTasks \ IceTasks : Soon(s, x) \in Sound(own)
        /\ \A ns \in MessageQueues(own) : DispatchMessages(s, ns) \in Sound(own)
    BY <1>1, StepsTyped, IceSteps, IceKeptSound
  <1>3. /\ ScheduleMessageFlush(s) \in Sound(own)
        /\ \A ns \in MessageQueues(own) : QueueMessages(s, ns) \in Sound(own)
    BY <1>1, FlushTyped, QueueMessagesTyped, IceMethods, IceKeptSound
  <1>4. /\ QueueNativeClose(s) \in Sound(own)
        /\ HandleClose(s) \in Sound(own)
        /\ LocalClose(s) \in Sound(own)
        /\ CloseIfClosing(s) \in Sound(own)
    BY <1>1, CloseTyped, IceMethods, IceKeptSound
  <1>5. /\ ReleaseConsumerGate(s) \in Sound(own)
        /\ \A c \in Consumers : AddMessageConsumer(s, c) \in Sound(own)
        /\ GateUntilConsumer(s) \in Sound(own)
        /\ GateAfterAnnouncement(s) \in Sound(own)
        /\ ScheduleDataChannelFlush(s) \in Sound(own)
    BY <1>1, GatesTyped, IceMethods, IceKeptSound
  <1> QED
    BY <1>2, <1>3, <1>4, <1>5

LEMMA SoundPeerEvent ==
    ASSUME NEW own \in SUBSET Nat, NEW s \in Sound(own),
           NEW e \in Incoming(own) \cup {Event("datachannel", 0)}
    PROVE  PeerEvent(s, e) \in Sound(own)
  <1>1. Announce(s) \in Sound(own)
    <2> DEFINE early == s.pendingNativeEvents
               r1 == [s EXCEPT !.known = TRUE]
               r2 == [r1 EXCEPT !.readyState = "open"]
               r3 == [r2 EXCEPT !.openEventPending = TRUE]
               r4 == [r3 EXCEPT !.announcementPending = TRUE]
               r5 == [r4 EXCEPT !.pendingDataChannelEvent = TRUE]
               r6 == [r5 EXCEPT !.queuedNativeEvents = early]
               r7 == [r6 EXCEPT !.pendingNativeEvents = <<>>]
    <2>1. early \in EventQueues(own) /\ <<>> \in EventQueues(own)
      BY SoundFields, Components, Names
    <2>2. r1 \in Sound(own)
      BY SoundFields
    <2> HIDE DEF r1, early
    <2>3. r2 \in Sound(own)
      BY <2>2, SoundFields, Names
    <2> HIDE DEF r2
    <2>4. r3 \in Sound(own)
      BY <2>3, SoundFields
    <2> HIDE DEF r3
    <2>5. r4 \in Sound(own)
      BY <2>4, SoundFields
    <2> HIDE DEF r4
    <2>6. r5 \in Sound(own)
      BY <2>5, SoundFields
    <2> HIDE DEF r5
    <2>7. r6 \in Sound(own)
      BY <2>1, <2>6, SoundFields
    <2> HIDE DEF r6
    <2>8. r7 \in Sound(own)
      BY <2>1, <2>7, SoundFields
    <2> HIDE DEF r7
    <2>9. ScheduleDataChannelFlush(r7) \in Sound(own)
      BY <2>8, SoundSteps
    <2> QED
      BY <2>9, Zenon DEF Announce, r1, r2, r3, r4, r5, r6, r7, early
  <1>2. CASE e \in Incoming(own)
    <2>1. HandleNative(s, e) \in Sound(own)
      BY <1>2, SoundMethods
    <2>2. [s EXCEPT !.pendingNativeEvents = Append(@, e)] \in Sound(own)
      <3>1. Append(s.pendingNativeEvents, e) \in EventQueues(own)
        BY <1>2, SoundFields, Components, Queues
      <3> QED
        BY <3>1, SoundFields
    <2> QED
      BY <1>1, <2>1, <2>2, Zenon DEF PeerEvent
  <1>3. CASE e = Event("datachannel", 0)
    <2>1. e.type = "datachannel"
      BY <1>3 DEF Event
    <2> QED
      BY <1>1, <2>1, Zenon DEF PeerEvent
  <1> QED
    BY <1>2, <1>3

LEMMA SoundAfterMessages ==
    ASSUME NEW own \in SUBSET Nat, NEW s \in Sound(own), NEW ns \in MessageQueues(own)
    PROVE  AfterMessages(s, ns) \in Sound(own)
  <1>1. /\ s.pendingNativeEvents \o Messages(ns) \in EventQueues(own)
        /\ s.queuedNativeEvents \o Messages(ns) \in EventQueues(own)
    BY SoundFields, Components, Queues, MessagesTyped
  <1>2. /\ [s EXCEPT !.pendingNativeEvents = @ \o Messages(ns)] \in Sound(own)
        /\ [s EXCEPT !.queuedNativeEvents = @ \o Messages(ns)] \in Sound(own)
    BY <1>1, SoundFields
  <1>3. QueueMessages(s, ns) \in Sound(own)
    BY SoundSteps
  <1> QED
    BY <1>2, <1>3, Zenon DEF AfterMessages

LEMMA Parts ==
    ASSUME NEW own, NEW ns \in MessageQueues(own), NEW k \in 1 .. Len(ns)
    PROVE  /\ SubSeq(ns, 1, k) \in MessageQueues(own)
           /\ SubSeq(ns, k + 1, Len(ns)) \in MessageQueues(own)
  BY DEF MessageQueues

LEMMA WholePart ==
    ASSUME NEW own, NEW ns \in MessageQueues(own)
    PROVE  SubSeq(ns, 1, Len(ns)) = ns
  BY DEF MessageQueues

LEMMA SoundHandOver ==
    ASSUME NEW own \in SUBSET Nat, NEW s \in Sound(own), NEW ns \in MessageQueues(own)
    PROVE  /\ \A r \in HandOver(s, ns) : r \in Sound(own)
           /\ \A r \in MessageBatch(s, ns) : r \in Sound(own)
           /\ \A r \in FlushMessages(s) : r \in Sound(own)
  <1>1. ASSUME NEW p \in Sound(own), NEW ms \in MessageQueues(own), NEW r \in HandOver(p, ms)
        PROVE  r \in Sound(own)
    <2> DEFINE first(k) == DispatchMessages(p, SubSeq(ms, 1, k))
               listens(k) == [first(k) EXCEPT !.messageConsumer = "listener"]
    <2>1. first(Len(ms)) \in Sound(own)
      BY WholePart, SoundSteps
    <2>2. ASSUME NEW k \in 1 .. Len(ms) PROVE first(k) \in Sound(own)
      BY Parts, SoundSteps
    <2>3. ASSUME NEW k \in 1 .. Len(ms) PROVE ClosePeer(first(k)) \in Sound(own)
      <3> HIDE DEF first
      <3> QED
        BY <2>2, SoundMethods
    <2>4. ASSUME NEW k \in 1 .. Len(ms) - 1
          PROVE  QueueMessages(listens(k), SubSeq(ms, k + 1, Len(ms))) \in Sound(own)
      <3>1. k \in 1 .. Len(ms)
        BY DEF MessageQueues
      <3>2. first(k) \in Sound(own) /\ SubSeq(ms, k + 1, Len(ms)) \in MessageQueues(own)
        BY <2>2, <3>1, Parts
      <3> HIDE DEF first
      <3>3. listens(k) \in Sound(own)
        BY <3>2, SoundFields, Names
      <3> HIDE DEF listens
      <3> QED
        BY <3>2, <3>3, SoundSteps
    <2> QED
      BY <1>1, <2>1, <2>3, <2>4, Zenon DEF HandOver
  <1> DEFINE t == [s EXCEPT !.messageConsumerGateActive = FALSE]
  <1>2. t \in Sound(own)
    BY SoundFields
  <1>3. ASSUME NEW r \in MessageBatch(s, ns) PROVE r \in Sound(own)
    <2> HIDE DEF t
    <2> DEFINE first(k) == DispatchMessages(t, SubSeq(ns, 1, k))
               cut(k) == [first(k) EXCEPT !.threw = TRUE]
    <2>1. ASSUME NEW k \in 1 .. Len(ns) PROVE cut(k) \in Sound(own)
      <3>1. first(k) \in Sound(own)
        BY <1>2, Parts, SoundSteps
      <3> HIDE DEF first
      <3> QED
        BY <3>1, SoundFields
    <2>2. /\ QueueMessages(s, ns) \in Sound(own) /\ QueueMessages(t, ns) \in Sound(own)
          /\ \A p \in HandOver(t, ns) : p \in Sound(own)
      BY <1>1, <1>2, SoundSteps
    <2>3. /\ s.pendingNativeEvents \o Messages(ns) \in EventQueues(own)
          /\ s.queuedNativeEvents \o Messages(ns) \in EventQueues(own)
      BY SoundFields, Components, Queues, MessagesTyped
    <2>4. /\ [s EXCEPT !.pendingNativeEvents = @ \o Messages(ns)] \in Sound(own)
          /\ [s EXCEPT !.queuedNativeEvents = @ \o Messages(ns)] \in Sound(own)
      BY <2>3, SoundFields
    <2>5. \/ r = [s EXCEPT !.pendingNativeEvents = @ \o Messages(ns)]
          \/ r = [s EXCEPT !.queuedNativeEvents = @ \o Messages(ns)]
          \/ r = QueueMessages(s, ns) \/ r = QueueMessages(t, ns)
          \/ r \in HandOver(t, ns) \/ \E k \in 1 .. Len(ns) : r = cut(k)
      BY <1>3, Zenon DEF MessageBatch, t
    <2> QED
      BY <2>1, <2>2, <2>4, <2>5, Zenon
  <1>4. ASSUME NEW r \in FlushMessages(s) PROVE r \in Sound(own)
    <2> DEFINE empty == [s EXCEPT !.queuedMessageEvents = <<>>]
               idle == [s EXCEPT !.idleCallbacks = @ + 1]
               u == [t EXCEPT !.queuedMessageEvents = <<>>]
               ms == s.queuedMessageEvents
               v == DispatchMessages(u, <<Head(ms)>>)
    <2>1. empty \in Sound(own)
      BY SoundFields, Names
    <2>2. idle \in Sound(own)
      <3>1. s \in States(own)
        BY SoundFields
      <3>2. s.idleCallbacks + 1 \in Nat
        BY <3>1, Components
      <3> QED
        BY <3>2, SoundFields
    <2>3. u \in Sound(own)
      <3> HIDE DEF t
      <3> QED
        BY <1>2, SoundFields, Names
    <2>4. ms \in MessageQueues(own)
      BY SoundFields, Components
    <2> HIDE DEF u, ms
    <2>5. ASSUME ms # <<>> PROVE v \in Sound(own) /\ QueueMessages(v, Tail(ms)) \in Sound(own)
      <3>1. Head(ms) \in own /\ Tail(ms) \in MessageQueues(own)
        BY <2>4, <2>5, Queues
      <3>2. <<Head(ms)>> \in MessageQueues(own)
        BY <3>1 DEF MessageQueues
      <3>3. v \in Sound(own)
        BY <2>3, <3>2, SoundSteps
      <3> HIDE DEF v
      <3> QED
        BY <3>1, <3>3, SoundSteps
    <2>6. \A p \in HandOver(u, ms) : p \in Sound(own)
      BY <1>1, <2>3, <2>4
    <2>7. \/ r = empty \/ r = idle \/ r = s \/ r = u \/ r \in HandOver(u, ms)
          \/ ms # <<>> /\ (r = v \/ r = QueueMessages(v, Tail(ms)))
      BY <1>4, Zenon DEF FlushMessages, u, ms, t
    <2> QED
      BY <2>1, <2>2, <2>3, <2>5, <2>6, <2>7, Zenon
  <1> QED
    BY <1>1, <1>3, <1>4

LEMMA SoundAnnouncement ==
    ASSUME NEW own \in SUBSET Nat, NEW s \in Sound(own)
    PROVE  /\ AfterAnnouncement(s) \in Sound(own)
           /\ \A r \in FlushDataChannel(s) : r \in Sound(own)
  <1>1. ASSUME NEW p \in Sound(own) PROVE AfterAnnouncement(p) \in Sound(own)
    <2> DEFINE announced == [p EXCEPT !.announcementPending = FALSE]
               unpending == [announced EXCEPT !.openEventPending = FALSE]
               opened == IF ~announced.openEventPending THEN announced
                         ELSE Later(unpending, "announceOpen")
               gated == GateUntilConsumer(GateAfterAnnouncement(opened))
               draining == [gated EXCEPT !.nativeEventDrainActive = TRUE]
    <2>1. announced \in Sound(own)
      BY SoundFields
    <2> HIDE DEF announced
    <2>2. unpending \in Sound(own)
      BY <2>1, SoundFields
    <2> HIDE DEF unpending
    <2>3. Later(unpending, "announceOpen") \in Sound(own)
      BY <2>2, SoundSteps, Names
    <2>4. opened \in Sound(own)
      BY <2>1, <2>3
    <2> HIDE DEF opened
    <2>5. GateAfterAnnouncement(opened) \in Sound(own)
      BY <2>4, SoundSteps
    <2>6. gated \in Sound(own)
      BY <2>5, SoundSteps
    <2> HIDE DEF gated
    <2>7. draining \in Sound(own)
      BY <2>6, SoundFields
    <2> HIDE DEF draining
    <2>8. Soon(draining, "drainNativeEvents") \in Sound(own)
      <3>1. "drainNativeEvents" \in ImmediateTasks \ IceTasks
        BY Names DEF IceTasks
      <3> QED
        BY <2>7, <3>1, SoundSteps
    <2> QED
      BY <2>6, <2>8, Zenon
         DEF AfterAnnouncement, announced, unpending, opened, gated, draining
  <1>2. ASSUME NEW r \in FlushDataChannel(s) PROVE r \in Sound(own)
    <2> DEFINE t == [s EXCEPT !.dataChannelFlushScheduled = FALSE]
               u == [t EXCEPT !.pendingDataChannelEvent = FALSE]
               e == Event("datachannel", 0)
               sent == Dispatch(GateUntilConsumer(u), e)
    <2>1. t \in Sound(own)
      BY SoundFields
    <2> HIDE DEF t
    <2>2. u \in Sound(own)
      BY <2>1, SoundFields
    <2> HIDE DEF u
    <2>3. GateUntilConsumer(u) \in Sound(own) /\ e \in Events
      BY <2>2, SoundSteps, EventsAre
    <2>4. sent \in Sound(own)
      BY <2>3, SoundSteps
    <2> HIDE DEF e, sent
    <2>5. /\ \A c \in Consumers : AddMessageConsumer(sent, c) \in Sound(own)
          /\ LocalClose(sent) \in Sound(own) /\ ClosePeer(sent) \in Sound(own)
      BY <2>4, SoundSteps, SoundMethods
    <2>6. \/ r = t
          \/ \E c \in Consumers : r = AfterAnnouncement(AddMessageConsumer(sent, c))
          \/ r = AfterAnnouncement(LocalClose(sent))
          \/ r = AfterAnnouncement(ClosePeer(sent))
      BY <1>2, Zenon DEF FlushDataChannel, Consumers, t, u, e, sent
    <2> QED
      BY <1>1, <2>1, <2>5, <2>6, Zenon
  <1> QED
    BY <1>1, <1>2

LEMMA SoundTimers ==
    ASSUME NEW own \in SUBSET Nat, NEW s \in Sound(own), NEW task \in TimerTasks
    PROVE  \A r \in TimerResults(s, task) : r \in Sound(own)
  <1>1. DispatchOpen(s) \in Sound(own) /\ CloseIfClosing(s) \in Sound(own)
    BY SoundMethods, SoundSteps
  <1>2. Later(s, "gate2") \in Sound(own) /\ Later(s, "pollClose") \in Sound(own)
    BY SoundSteps, Names
  <1>3. ScheduleMessageFlush([s EXCEPT !.messageEventGateActive = FALSE]) \in Sound(own)
    BY SoundFields, SoundSteps
  <1>4. PollClose(s) \in Sound(own)
    <2> DEFINE t == [s EXCEPT !.nativeCloseEventQueued = FALSE]
               u == [t EXCEPT !.readyState = "closing"]
               e == Event("closing", 0)
    <2>1. t \in Sound(own)
      BY SoundFields
    <2> HIDE DEF t
    <2>2. u \in Sound(own) /\ e \in Events
      BY <2>1, SoundFields, Names, EventsAre
    <2> HIDE DEF u, e
    <2>3. HandleClose(t) \in Sound(own) /\ Dispatch(u, e) \in Sound(own)
      BY <2>1, <2>2, SoundSteps
    <2>4. Later(Dispatch(u, e), "finishClose") \in Sound(own)
      BY <2>3, SoundSteps, Names
    <2> QED
      BY <1>2, <2>3, <2>4, Zenon DEF PollClose, t, u, e
  <1>5. CASE task = "flushDataChannel"
    <2>1. TimerResults(s, task) = FlushDataChannel(s)
      BY <1>5 DEF TimerResults
    <2> QED
      BY <2>1, SoundAnnouncement
  <1>6. CASE task = "announceOpen"
    <2>1. TimerResults(s, task) = {IF s.readyState = "open" THEN DispatchOpen(s) ELSE s}
      BY <1>6 DEF TimerResults
    <2> QED
      BY <1>1, <2>1
  <1>7. CASE task = "gate1"
    <2>1. TimerResults(s, task) = {Later(s, "gate2")}
      BY <1>7 DEF TimerResults
    <2> QED
      BY <1>2, <2>1
  <1>8. CASE task = "gate2"
    <2>1. TimerResults(s, task) =
            {ScheduleMessageFlush([s EXCEPT !.messageEventGateActive = FALSE])}
      BY <1>8 DEF TimerResults
    <2> QED
      BY <1>3, <2>1
  <1>9. CASE task = "pollClose"
    <2>1. TimerResults(s, task) = {PollClose(s)}
      BY <1>9 DEF TimerResults
    <2> QED
      BY <1>4, <2>1
  <1>10. CASE task \in {"finishClose", "closeLocal"}
    <2>1. TimerResults(s, task) = {CloseIfClosing(s)}
      BY <1>10 DEF TimerResults
    <2> QED
      BY <1>1, <2>1
  <1> QED
    BY <1>5, <1>6, <1>7, <1>8, <1>9, <1>10 DEF TimerTasks

\* Taking the head of a queue of tasks.
LEMMA RestExtended ==
    ASSUME NEW q \in ImmediateQueues, q # <<>>
    PROVE  /\ Tail(q) \in ImmediateQueues /\ Head(q) \in ImmediateTasks
           /\ Len(q) \in Nat /\ Len(q) > 0 /\ DOMAIN q = 1 .. Len(q)
           /\ DOMAIN Tail(q) = 1 .. Len(q) - 1 /\ Head(q) = q[1]
           /\ \A i \in DOMAIN Tail(q) : i + 1 \in DOMAIN q /\ Tail(q)[i] = q[i + 1]
  <1>1. q \in Seq(ImmediateTasks) /\ Len(q) \in Nat
    BY DEF ImmediateQueues
  <1>2. /\ Tail(q) \in Seq(ImmediateTasks) /\ Len(Tail(q)) = Len(q) - 1 /\ Len(q) > 0
        /\ \A i \in 1 .. Len(q) - 1 : Tail(q)[i] = q[i + 1]
        /\ Head(q) = q[1] /\ Head(q) \in ImmediateTasks
    BY <1>1
  <1>3. DOMAIN q = 1 .. Len(q) /\ DOMAIN Tail(q) = 1 .. Len(q) - 1
    BY <1>1, <1>2
  <1> QED
    BY <1>1, <1>2, <1>3 DEF ImmediateQueues

LEMMA SoundRest ==
    ASSUME NEW own \in SUBSET Nat, NEW s \in Sound(own), s.immediates # <<>>
    PROVE  [s EXCEPT !.immediates = Tail(@)] \in Sound(own)
  <1> DEFINE q == s.immediates
             rest == Tail(q)
             task == Head(q)
             t == [s EXCEPT !.immediates = rest]
  <1>1. s \in States(own) /\ IceFlush(s)
    BY DEF Sound
  <1>2. q \in ImmediateQueues /\ q # <<>>
    BY <1>1, Components
  <1>3. rest \in ImmediateQueues /\ task \in ImmediateTasks
    BY <1>2, Queues
  <1>4. t \in States(own)
    BY <1>1, <1>3, Values
  <1>5. /\ t.immediates = rest /\ t.iceEventFlushScheduled = s.iceEventFlushScheduled
        /\ t.closed = s.closed /\ t.deferredIceEvents = s.deferredIceEvents
        /\ t.operationsPending = s.operationsPending
        /\ t.openDeferredForIce = s.openDeferredForIce
    <2> HIDE DEF rest
    <2> QED
      BY <1>1 DEF States
  <1>6. /\ \A i \in DOMAIN rest : i + 1 \in DOMAIN q /\ rest[i] = q[i + 1] /\ i # 0
        /\ 1 \in DOMAIN q /\ task = q[1]
        /\ \A i, j \in DOMAIN rest : i + 1 = j + 1 => i = j
        /\ \A i \in DOMAIN rest : i + 1 # 1
    BY <1>2, RestExtended
  <1> HIDE DEF rest, task, q
  <1>7. t \in Sound(own)
    <2>1. \A x : In(x, t.immediates) => In(x, s.immediates)
      <3>1. \A x : In(x, rest) => In(x, q)
        BY <1>6 DEF In
      <3> QED
        BY <1>5, <3>1, Zenon DEF q
    <2>2. Undeferred(s) => Undeferred(t)
      BY <1>5, <2>1, Zenon DEF Undeferred
    <2>3. IceFlush(t)
      BY <1>1, <1>5, <1>6, <2>2 DEF IceFlush, q
    <2> HIDE DEF t
    <2> QED
      BY <1>4, <2>3 DEF Sound
  <1> QED
    BY <1>7 DEF t, rest, q

LEMMA SoundImmediates ==
    ASSUME NEW own \in SUBSET Nat, NEW s \in Sound(own), s.immediates # <<>>
    PROVE  \A r \in ImmediateResults([s EXCEPT !.immediates = Tail(@)],
                                     Head(s.immediates)) : r \in Sound(own)
  <1> DEFINE q == s.immediates
             rest == Tail(q)
             task == Head(q)
             t == [s EXCEPT !.immediates = rest]
  <1>1. s \in States(own) /\ IceFlush(s)
    BY DEF Sound
  <1>2. q \in ImmediateQueues /\ q # <<>>
    BY <1>1, Components
  <1>3. rest \in ImmediateQueues /\ task \in ImmediateTasks
    BY <1>2, Queues
  <1>4. t \in States(own)
    BY <1>1, <1>3, Values
  <1>5. /\ t.immediates = rest /\ t.iceEventFlushScheduled = s.iceEventFlushScheduled
        /\ t.closed = s.closed /\ t.deferredIceEvents = s.deferredIceEvents
        /\ t.operationsPending = s.operationsPending
        /\ t.openDeferredForIce = s.openDeferredForIce
    <2> HIDE DEF rest
    <2> QED
      BY <1>1 DEF States
  <1>6. /\ \A i \in DOMAIN rest : i + 1 \in DOMAIN q /\ rest[i] = q[i + 1] /\ i # 0
        /\ 1 \in DOMAIN q /\ task = q[1]
        /\ \A i, j \in DOMAIN rest : i + 1 = j + 1 => i = j
        /\ \A i \in DOMAIN rest : i + 1 # 1
    BY <1>2, RestExtended
  <1> HIDE DEF rest, task, q
  <1>7. t \in Sound(own)
    BY SoundRest DEF t, rest, q
  <1>8. SUFFICES ASSUME NEW r \in ImmediateResults(t, task) PROVE r \in Sound(own)
    BY DEF t, rest, task, q
  <1>9. CASE task = "flushIceEvents"
    <2>1. /\ s.iceEventFlushScheduled
          /\ \A i \in DOMAIN rest : rest[i] # "flushIceEvents"
          /\ ~s.closed => s.deferredIceEvents > 0
          /\ ~NothingDeferred
      BY <1>1, <1>6, <1>9 DEF IceFlush, Undeferred, q
    <2> DEFINE idle == [t EXCEPT !.iceEventFlushScheduled = FALSE]
               left == IF t.closed THEN 0 ELSE t.deferredIceEvents - 1
               u == [idle EXCEPT !.deferredIceEvents = left]
    <2> HIDE DEF t
    <2>2. left \in IceCounts
      <3>1. t.deferredIceEvents \in IceCounts /\ 0 \in IceCounts
        BY <1>4, Components, Names
      <3> QED
        BY <1>5, <2>1, <3>1, IncomingAssumption DEF IceCounts, IncomingAssumption
    <2> HIDE DEF left
    <2>3. idle \in States(own) /\ ~idle.iceEventFlushScheduled /\ idle.immediates = rest
      <3>1. idle \in States(own)
        BY <1>4, Flags
      <3>2. ~idle.iceEventFlushScheduled /\ idle.immediates = t.immediates
        BY <1>4 DEF States
      <3> QED
        BY <1>5, <3>1, <3>2
    <2> HIDE DEF idle
    <2>4. u \in States(own) /\ ~u.iceEventFlushScheduled /\ u.immediates = rest
      BY <2>2, <2>3, Values DEF States
    <2> HIDE DEF u
    <2>5. idle \in Sound(own) /\ u \in Sound(own)
      BY <2>1, <2>3, <2>4 DEF Sound, IceFlush
    <2>6. ScheduleIceFlush(idle) \in Sound(own) /\ ScheduleIceFlush(u) \in Sound(own)
      BY <2>5, IceScheduled
    <2>7. Soon(u, "retryOpen") \in Sound(own)
      <3> DEFINE p == Append(rest, "retryOpen")
                 v == Soon(u, "retryOpen")
      <3>1. "retryOpen" \in ImmediateTasks
        BY Names
      <3>2. v \in States(own)
        BY <2>4, <3>1, StepsTyped
      <3>3. v = [u EXCEPT !.immediates = p]
        BY <2>4 DEF Soon
      <3>4. \A i \in DOMAIN p : p[i] # "flushIceEvents"
        <4>1. rest \in Seq(ImmediateTasks) /\ Len(rest) \in Nat
              /\ DOMAIN rest = 1 .. Len(rest)
          BY <1>3 DEF ImmediateQueues
        <4>2. /\ p \in Seq(ImmediateTasks) /\ Len(p) = Len(rest) + 1
              /\ p[Len(rest) + 1] = "retryOpen"
              /\ \A i \in 1 .. Len(rest) : p[i] = rest[i]
          BY <3>1, <4>1, AppendProperties
        <4> HIDE DEF p
        <4>3. DOMAIN p = 1 .. Len(rest) + 1
          BY <4>2
        <4>4. \A i \in DOMAIN p : i \in DOMAIN rest \/ i = Len(rest) + 1
          BY <4>1, <4>3
        <4>5. "retryOpen" # "flushIceEvents"
          OBVIOUS
        <4> QED
          BY <2>1, <4>1, <4>2, <4>4, <4>5, Zenon
      <3> HIDE DEF p
      <3>5. /\ v.immediates = p /\ ~v.iceEventFlushScheduled
        BY <2>4, <3>3 DEF States
      <3> HIDE DEF v
      <3>6. IceFlush(v)
        BY <2>1, <3>4, <3>5, Zenon DEF IceFlush
      <3> QED
        BY <3>2, <3>6 DEF Sound, v
    <2>8. r = FlushIceEvents(t)
      BY <1>8, <1>9 DEF ImmediateResults
    <2>9. FlushIceEvents(t) \in {ScheduleIceFlush(idle), ScheduleIceFlush(u),
                                 Soon(u, "retryOpen"), u}
      BY Zenon DEF FlushIceEvents, idle, left, u
    <2> QED
      BY <2>5, <2>6, <2>7, <2>8, <2>9
  <1> HIDE DEF t
  <1>10. CASE task = "flushMessages"
    <2> DEFINE u == [t EXCEPT !.messageEventFlushScheduled = FALSE]
    <2>1. u \in Sound(own)
      BY <1>7, SoundFields
    <2>2. r \in FlushMessages(u)
      BY <1>8, <1>10 DEF ImmediateResults
    <2> HIDE DEF u
    <2>3. <<>> \in MessageQueues(own)
      BY Names
    <2> QED
      BY <2>1, <2>2, <2>3, SoundHandOver
  <1>11. CASE task = "rescheduleFlush"
    <2>1. r = ScheduleMessageFlush(t)
      BY <1>8, <1>11 DEF ImmediateResults
    <2> QED
      BY <1>7, <2>1, SoundSteps
  <1>12. CASE task = "drainNativeEvents"
    <2>1. r = DrainQueuedEvent(t)
      BY <1>8, <1>12 DEF ImmediateResults
    <2> DEFINE events == t.queuedNativeEvents
               e == Head(events)
               more == Tail(events)
               u == [t EXCEPT !.queuedNativeEvents = more]
               v == HandleNow(u, e)
    <2>2. events \in EventQueues(own)
      BY <1>7, SoundFields, Components
    <2> HIDE DEF events
    <2>3. CASE events = <<>>
      <3>1. DrainQueuedEvent(t) = [t EXCEPT !.nativeEventDrainActive = FALSE]
        BY <2>3, Zenon DEF DrainQueuedEvent, events
      <3> QED
        BY <1>7, <2>1, <3>1, SoundFields
    <2>4. CASE events # <<>>
      <3>1. e \in Incoming(own) /\ more \in EventQueues(own)
        BY <2>2, <2>4, Queues
      <3> HIDE DEF e, more
      <3>2. u \in Sound(own)
        BY <1>7, <3>1, SoundFields
      <3> HIDE DEF u
      <3>3. v \in Sound(own)
        BY <3>1, <3>2, SoundMethods
      <3> HIDE DEF v
      <3>4. /\ Soon(v, "drainNativeEvents") \in Sound(own)
            /\ [v EXCEPT !.nativeEventDrainActive = FALSE] \in Sound(own)
        <4>1. "drainNativeEvents" \in ImmediateTasks \ IceTasks
          BY Names DEF IceTasks
        <4> QED
          BY <3>3, <4>1, SoundSteps, SoundFields
      <3>5. DrainQueuedEvent(t) = IF more # <<>> THEN Soon(v, "drainNativeEvents")
                                  ELSE [v EXCEPT !.nativeEventDrainActive = FALSE]
        BY <2>4, Zenon DEF DrainQueuedEvent, events, e, more, u, v
      <3> QED
        BY <2>1, <3>4, <3>5
    <2> QED
      BY <2>3, <2>4
  <1>13. CASE task = "closeNative"
    <2>1. r = Later(t, "closeLocal")
      BY <1>8, <1>13 DEF ImmediateResults
    <2> QED
      BY <1>7, <2>1, SoundSteps, Names
  <1>14. CASE task = "retryOpen"
    <2> DEFINE u == [t EXCEPT !.openDeferredForIce = FALSE]
    <2>1. r = DispatchOpen(u)
      BY <1>8, <1>14 DEF ImmediateResults
    <2>2. u \in Sound(own)
      BY <1>7, SoundFields
    <2> HIDE DEF u
    <2> QED
      BY <2>1, <2>2, SoundMethods
  <1> QED
    BY <1>3, <1>9, <1>10, <1>11, <1>12, <1>13, <1>14 DEF ImmediateTasks

-----------------------------------------------------------------------------
\* The dispatcher: what the channel does to it is a step of its own or none at all, so
\* what EventDispatcherProofs proves of a step holds here.

\* D and DP are two names of the same formulas.
LEMMA SameTypes == D!TypeOK <=> DP!TypeOK
  BY Zenon DEF D!TypeOK, DP!TypeOK, D!Messages, DP!Messages, D!Items, DP!Items

LEMMA SameActions ==
    /\ D!Init => DP!Init
    /\ D!Emit => DP!Emit
    /\ D!EmitDirect => DP!EmitDirect
    /\ D!Close => DP!Close
    /\ D!DispatchDirect => DP!DispatchDirect
    /\ D!DrainSwap => DP!DrainSwap
    /\ D!DrainCall => DP!DrainCall
    /\ D!DrainFinish => DP!DrainFinish
    /\ D!DrainThrow => DP!DrainThrow
  <1>1. D!Init => DP!Init
    BY Zenon DEF D!Init, DP!Init
  <1>2. D!Emit => DP!Emit
    BY Zenon DEF D!Emit, DP!Emit, D!QueueDispatchLocked, DP!QueueDispatchLocked,
                 D!DrainItem, DP!DrainItem, D!nativeVars, DP!nativeVars
  <1>3. D!EmitDirect => DP!EmitDirect
    BY Zenon DEF D!EmitDirect, DP!EmitDirect, D!DirectItem, DP!DirectItem,
                 D!nativeVars, DP!nativeVars
  <1>4. D!Close => DP!Close
    BY Zenon DEF D!Close, DP!Close
  <1>5. D!DispatchDirect => DP!DispatchDirect
    BY Zenon DEF D!DispatchDirect, DP!DispatchDirect, D!IsDrain, DP!IsDrain,
                 D!nativeVars, DP!nativeVars
  <1>6. D!DrainSwap => DP!DrainSwap
    BY Zenon DEF D!DrainSwap, DP!DrainSwap, D!IsDrain, DP!IsDrain,
                 D!nativeVars, DP!nativeVars
  <1>7. D!DrainCall => DP!DrainCall
    BY Zenon DEF D!DrainCall, DP!DrainCall, D!nativeVars, DP!nativeVars
  <1>8. D!DrainFinish => DP!DrainFinish
    BY Zenon DEF D!DrainFinish, DP!DrainFinish, D!QueueDispatchLocked,
                 DP!QueueDispatchLocked, D!DrainItem, DP!DrainItem,
                 D!nativeVars, DP!nativeVars
  <1>9. D!DrainThrow => DP!DrainThrow
    BY Zenon DEF D!DrainThrow, DP!DrainThrow
  <1> QED
    BY <1>1, <1>2, <1>3, <1>4, <1>5, <1>6, <1>7, <1>8, <1>9

\* The steps that leave the dispatcher alone.
Tasks == \/ RunTimer \/ RunImmediate \/ ConsumerGateTimeout \/ GraceEnds
         \/ FinishOperation \/ Application

LEMMA TasksApart == Tasks => phase = "idle" /\ UNCHANGED <<dispatcherVars, ours>>
  BY Zenon DEF Tasks, RunTimer, RunImmediate, ConsumerGateTimeout, GraceEnds,
     FinishOperation, Application, StartOperation, IceEvent, ListenDataChannel,
     ListenMessage, CloseChannel, CloseConnection, ConnectionFails, Task

LEMMA DispatcherStep == [Next]_vars => [DP!Next]_(DP!vars)
  <1>1. Tasks \/ UNCHANGED vars => UNCHANGED DP!vars
    BY TasksApart, Zenon DEF vars, dispatcherVars, DP!vars
  <1>2. NativeDirect \/ NativeMessage \/ OtherMessage \/ DispatcherClose => DP!Next
    BY SameActions, Zenon
       DEF NativeDirect, NativeMessage, OtherMessage, DispatcherClose, DP!Next
  <1>3. TsfnItem => DP!Next
    BY SameActions, Zenon
       DEF TsfnItem, DirectEvent, DrainSwap, DrainCall, DrainFinish, DrainThrow,
           DP!Next, DP!JavaScript
  <1> QED
    BY <1>1, <1>2, <1>3, Zenon DEF Next, Tasks

LEMMA DispatcherOrdered ==
    /\ Init => DP!Ordered
    /\ DP!Ordered /\ [Next]_vars => DP!Ordered'
  <1>1. Init => DP!Init
    BY SameActions DEF Init
  <1>2. DP!Init => DP!Ordered
    BY DP!OrderedInit, DispatcherAssumed
  <1>3. DP!Ordered /\ [DP!Next]_(DP!vars) => DP!Ordered'
    BY DP!OrderedStep, DispatcherAssumed
  <1> QED
    BY <1>1, <1>2, <1>3, DispatcherStep

-----------------------------------------------------------------------------
Typed == ours \subseteq 1 .. accepted /\ js \in Sound(ours)

LEMMA SeqSubset ==
    ASSUME NEW S, NEW T, S \subseteq T, NEW q \in Seq(S)
    PROVE  q \in Seq(T)
  OBVIOUS

LEMMA OrderedTypes ==
    ASSUME DP!Ordered
    PROVE  /\ D!TypeOK /\ accepted \in Nat
           /\ batch \in Seq(Nat) /\ Len(batch) \in Nat
           /\ delivered \in Seq(Nat) /\ Len(delivered) \in Nat
           /\ \A i \in 1 .. Len(batch) : batch[i] = Len(delivered) + i
           /\ \A i \in 1 .. Len(delivered) : delivered[i] = i
  <1>1. DP!TypeOK
    BY DEF DP!Ordered
  <1>2. /\ D!TypeOK /\ accepted \in Nat
        /\ batch \in Seq(Nat) /\ Len(batch) \in Nat
        /\ delivered \in Seq(Nat) /\ Len(delivered) \in Nat
    <2>1. /\ batch \in Seq(DP!Messages) /\ delivered \in Seq(DP!Messages)
          /\ accepted \in 0 .. MaxMessages
      BY <1>1, Zenon DEF DP!TypeOK
    <2>2. DP!Messages \subseteq Nat
      BY DEF DP!Messages
    <2>3. batch \in Seq(Nat) /\ delivered \in Seq(Nat)
      BY <2>1, <2>2, SeqSubset
    <2> QED
      BY <1>1, <2>1, <2>3, SameTypes
  <1>3. /\ \A i \in 1 .. Len(batch) : batch[i] = Len(delivered) + i
        /\ \A i \in 1 .. Len(delivered) : delivered[i] = i
    BY DEF DP!Ordered, DP!OrderInv, DP!InBatch, DP!Delivered
  <1> QED
    BY <1>2, <1>3

LEMMA OursTyped ==
    ASSUME DP!Ordered, Typed
    PROVE  ours \in SUBSET Nat /\ js \in Sound(ours) /\ js \in States(ours)
  <1>1. ours \in SUBSET Nat /\ js \in Sound(ours)
    BY OrderedTypes DEF Typed
  <1> QED
    BY <1>1, SoundFields

\* More messages of the channel: what held of its state still does.
LEMMA MoreOfOurs ==
    ASSUME NEW own, NEW all, own \subseteq all, NEW s \in Sound(own)
    PROVE  s \in Sound(all)
  <1>1. Incoming(own) \subseteq Incoming(all)
    BY DEF Incoming
  <1>2. /\ EventQueues(own) \subseteq EventQueues(all)
        /\ MessageQueues(own) \subseteq MessageQueues(all)
    BY <1>1 DEF EventQueues, MessageQueues
  <1>3. s \in States(own) /\ IceFlush(s)
    BY DEF Sound
  <1>4. s \in States(all)
    BY <1>2, <1>3 DEF States
  <1> QED
    BY <1>3, <1>4 DEF Sound

LEMMA MineTyped ==
    ASSUME DP!Ordered
    PROVE  Mine(batch) \in MessageQueues(ours)
  <1>1. \A i, j \in DOMAIN batch : i < j => batch[i] < batch[j]
    <2>1. DOMAIN batch = 1 .. Len(batch) /\ Len(batch) \in Nat /\ Len(delivered) \in Nat
      BY OrderedTypes
    <2>2. \A i \in 1 .. Len(batch) : batch[i] = Len(delivered) + i
      BY OrderedTypes
    <2> QED
      BY <2>1, <2>2
  <1> QED
    BY <1>1, OrderedTypes, MineIs DEF MessageQueues

\* The direct events, by the number of the item that brings them.
LEMMA Direct ==
    ASSUME DP!Ordered, DirectEvent
    PROVE  LET n    == Head(tsfnQueue).n
               type == DirectEvents[n]
           IN  /\ n \in Nat /\ DP!Coming(n) /\ \A m \in Nat : m <= n => ~DP!Coming(m)'
               /\ \/ n = 1 /\ type = "datachannel"
                  \/ n = 2 /\ type = "open"
                  \/ n = 3 /\ type = "close"
  <1>1. DP!DispatchDirect
    BY SameActions DEF DirectEvent
  <1>2. DP!TypeOK /\ DP!Numbered(tsfnQueue, directs)
    BY DEF DP!Ordered
  <1>3. /\ Head(tsfnQueue).n \in 1 .. directs /\ directs \in 0 .. MaxDirect
        /\ DP!Coming(Head(tsfnQueue).n)
        /\ \A n \in Nat : n <= Head(tsfnQueue).n => ~DP!Coming(n)'
    BY <1>1, <1>2, DispatcherAssumed, DP!Arriving
  <1>4. MaxDirect = 3
    BY DEF MaxDirect, DirectEvents
  <1>5. Head(tsfnQueue).n \in {1, 2, 3}
    BY <1>3, <1>4
  <1>6. /\ DirectEvents[1] = "datachannel" /\ DirectEvents[2] = "open"
        /\ DirectEvents[3] = "close"
    BY DEF DirectEvents
  <1> QED
    BY <1>3, <1>5, <1>6

\* What comes from the dispatcher.
LEMMA TypedItems ==
    ASSUME DP!Ordered, Typed, TsfnItem
    PROVE  js' \in Sound(ours)
  <1>1. ours \in SUBSET Nat /\ js \in Sound(ours)
    BY OrderedTypes DEF Typed
  <1>2. CASE DirectEvent
    <2> DEFINE type == DirectEvents[Head(tsfnQueue).n]
    <2>1. js' = PeerEvent(js, Event(type, 0))
      BY <1>2 DEF DirectEvent
    <2>2. type \in {"datachannel", "open", "close"}
      BY <1>2, Direct
    <2> HIDE DEF type
    <2>3. Event(type, 0) \in Incoming(ours) \cup {Event("datachannel", 0)}
      BY <2>2, EventsAre
    <2> QED
      BY <1>1, <2>1, <2>3, SoundPeerEvent
  <1>3. CASE DrainSwap \/ DrainFinish
    BY <1>1, <1>3, Zenon DEF DrainSwap, DrainFinish
  <1>4. CASE DrainCall
    <2> DEFINE mine == Mine(batch)
    <2>1. mine \in MessageQueues(ours)
      BY MineTyped
    <2>2. js' \in MessageBatch(js, mine) \/ js' = PeerEvents(js, Messages(mine))
      BY <1>4, Zenon DEF DrainCall
    <2> HIDE DEF mine
    <2>3. AfterMessages(js, mine) \in Sound(ours)
      BY <1>1, <2>1, SoundAfterMessages
    <2>4. PeerEvents(js, Messages(mine)) = AfterMessages(js, mine)
      BY <1>1, <2>1, MessagesInTurn, SoundFields
    <2> QED
      BY <1>1, <2>1, <2>2, <2>3, <2>4, SoundHandOver
  <1>5. CASE DrainThrow
    BY <1>1, <1>5, SoundFields DEF DrainThrow
  <1> QED
    BY <1>2, <1>3, <1>4, <1>5 DEF TsfnItem

\* A timer or an immediate that runs, and what else happens between the items.
LEMMA TypedTasks ==
    ASSUME DP!Ordered, Typed, Tasks
    PROVE  js' \in Sound(ours)
  <1>1. ours \in SUBSET Nat /\ js \in Sound(ours) /\ js \in States(ours)
    BY OursTyped
  <1>2. CASE RunTimer
    <2> DEFINE q == js.timers
               t == [js EXCEPT !.timers = Tail(@)]
    <2>1. q \in TimerQueues /\ q # <<>>
      BY <1>1, <1>2, Components DEF RunTimer
    <2>2. Tail(q) \in TimerQueues /\ Head(q) \in TimerTasks
      BY <2>1, Queues
    <2>3. t \in Sound(ours)
      BY <1>1, <2>2, SoundFields
    <2>4. js' \in TimerResults(t, Head(q))
      BY <1>2 DEF RunTimer
    <2> HIDE DEF t, q
    <2> QED
      BY <1>1, <2>2, <2>3, <2>4, SoundTimers
  <1>3. CASE RunImmediate
    <2>1. js.immediates # <<>>
      BY <1>3 DEF RunImmediate
    <2>2. js' \in ImmediateResults([js EXCEPT !.immediates = Tail(@)], Head(js.immediates))
      BY <1>3 DEF RunImmediate
    <2> QED
      BY <1>1, <2>1, <2>2, SoundImmediates
  <1>4. CASE ConsumerGateTimeout
    BY <1>1, <1>4, SoundSteps DEF ConsumerGateTimeout
  <1>5. CASE GraceEnds
    BY <1>1, <1>5, SoundFields DEF GraceEnds
  <1>6. CASE FinishOperation
    <2> DEFINE p == [js EXCEPT !.operationsPending = 0]
               t == ScheduleIceFlush(p)
               u == [t EXCEPT !.idleCallbacks = 0]
               woken == [i \in 1 .. js.idleCallbacks |-> "rescheduleFlush"]
               q == u.immediates \o woken
               v == [u EXCEPT !.immediates = q]
    <2>1. p \in Sound(ours)
      BY <1>1, SoundFields, Names
    <2> HIDE DEF p
    <2>2. t \in Sound(ours)
      BY <1>1, <2>1, IceScheduled
    <2> HIDE DEF t
    <2>3. u \in Sound(ours)
      <3>1. 0 \in Nat
        OBVIOUS
      <3> QED
        BY <2>2, <3>1, SoundFields
    <2>4. js' = v
      <3>1. t.immediates = u.immediates
        BY <2>2, SoundFields DEF States
      <3>2. js' = [t EXCEPT !.idleCallbacks = 0, !.immediates = @ \o woken]
        BY <1>6 DEF FinishOperation, p, t
      <3> HIDE DEF woken
      <3> QED
        BY <3>1, <3>2
    <2> HIDE DEF u
    <2>5. /\ u.immediates \in ImmediateQueues /\ js.idleCallbacks \in Nat
          /\ u \in States(ours)
      BY <1>1, <2>3, SoundFields, Components
    <2>6. q \in ImmediateQueues /\ Extended(u.immediates, q)
      <3> DEFINE k == js.idleCallbacks
                 p0 == u.immediates
      <3>1. p0 \in Seq(ImmediateTasks) /\ Len(p0) \in Nat
        BY <2>5 DEF ImmediateQueues
      <3>2. "rescheduleFlush" \in ImmediateTasks
        BY Names
      <3> HIDE DEF p0, k
      <3> DEFINE w0 == [i \in 1 .. k |-> "rescheduleFlush"]
      <3>3. w0 \in Seq(ImmediateTasks) /\ Len(w0) = k
        BY <2>5, <3>2 DEF k
      <3>4. /\ p0 \o w0 \in Seq(ImmediateTasks)
            /\ Len(p0 \o w0) = Len(p0) + k
            /\ \A i \in 1 .. Len(p0) + k :
                  (p0 \o w0)[i] = IF i <= Len(p0) THEN p0[i] ELSE w0[i - Len(p0)]
        <4> HIDE DEF w0
        <4> QED
          BY <3>1, <3>3, ConcatProperties
      <3>5. Extended(p0, p0 \o [i \in 1 .. k |-> "rescheduleFlush"])
        <4>1. "rescheduleFlush" \notin IceTasks
          BY DEF IceTasks
        <4> QED
          BY <2>5, <3>1, <3>4, <4>1 DEF Extended, k
      <3> QED
        BY <3>4, <3>5 DEF ImmediateQueues, p0, k
    <2> HIDE DEF q
    <2>7. v \in States(ours)
      BY <2>5, <2>6, Values
    <2>8. IceKept(u, v)
      BY <2>5, <2>6 DEF IceKept, States
    <2> QED
      BY <2>3, <2>4, <2>7, <2>8, IceKeptSound
  <1>7. CASE StartOperation
    <2> DEFINE p == [js EXCEPT !.operationsPending = 1]
               n == p.operations + 1
    <2>1. p \in Sound(ours) /\ p.operations = js.operations
      <3>1. p \in States(ours)
        BY <1>1, Values, Names
      <3>2. /\ p.operations = js.operations /\ p.immediates = js.immediates
            /\ p.iceEventFlushScheduled = js.iceEventFlushScheduled
            /\ p.closed = js.closed /\ p.deferredIceEvents = js.deferredIceEvents
            /\ p.openDeferredForIce = js.openDeferredForIce
        BY <1>1 DEF States
      <3>3. MaxOperations # 0
        <4>1. js.operations \in OperationCounts /\ js.operations < MaxOperations
          BY <1>1, <1>7, Components DEF StartOperation
        <4> QED
          BY <4>1, IncomingAssumption DEF OperationCounts, IncomingAssumption
      <3>4. IceFlush(js)
        BY <1>1 DEF Sound
      <3> HIDE DEF p
      <3>5. IceFlush(p)
        BY <3>2, <3>3, <3>4, Zenon DEF IceFlush, Undeferred
      <3> QED
        BY <3>1, <3>2, <3>5 DEF Sound
    <2>2. js' = [p EXCEPT !.operations = n]
      BY <1>1, <1>7 DEF StartOperation, States
    <2>3. n \in OperationCounts
      <3>1. js.operations \in OperationCounts /\ js.operations < MaxOperations
        BY <1>1, <1>7, Components DEF StartOperation
      <3> QED
        BY <2>1, <3>1, IncomingAssumption DEF OperationCounts, IncomingAssumption
    <2> HIDE DEF p, n
    <2> QED
      BY <2>1, <2>2, <2>3, SoundFields
  <1>8. CASE IceEvent
    <2> DEFINE n == js.deferredIceEvents + 1
               v == [js EXCEPT !.deferredIceEvents = n]
    <2>1. n \in IceCounts /\ n > 0
      <3>1. js.deferredIceEvents \in IceCounts /\ js.deferredIceEvents < MaxIceEvents
        BY <1>1, <1>8, Components DEF IceEvent
      <3> QED
        BY <3>1, IncomingAssumption DEF IceCounts, IncomingAssumption
    <2>2. js' = v
      BY <1>8 DEF IceEvent
    <2> HIDE DEF n
    <2>3. v \in States(ours)
      BY <1>1, <2>1, Values
    <2>4. /\ v.immediates = js.immediates /\ v.deferredIceEvents = n
          /\ v.iceEventFlushScheduled = js.iceEventFlushScheduled
      BY <1>1 DEF States
    <2>5. ~NothingDeferred
      <3>1. MaxIceEvents # 0
        BY <2>1, IncomingAssumption DEF IceCounts, IncomingAssumption
      <3>2. js.operationsPending # 0
        BY <1>1, <1>8, Components DEF IceEvent, Pendings
      <3>3. NothingDeferred => (MaxOperations = 0 => js.operationsPending = 0)
        BY <1>1 DEF Sound, IceFlush, Undeferred
      <3> QED
        BY <3>1, <3>2, <3>3 DEF NothingDeferred
    <2>6. IceFlush(v)
      BY <1>1, <2>1, <2>4, <2>5 DEF IceFlush, Sound
    <2> QED
      BY <2>2, <2>3, <2>6 DEF Sound
  <1>9. CASE ListenDataChannel
    <2> DEFINE p == [js EXCEPT !.dataChannelConsumer = TRUE]
    <2>1. p \in Sound(ours)
      BY <1>1, SoundFields
    <2>2. js' = ScheduleDataChannelFlush(p)
      BY <1>9 DEF ListenDataChannel
    <2> HIDE DEF p
    <2> QED
      BY <1>1, <2>1, <2>2, SoundSteps
  <1>10. CASE ListenMessage
    <2>1. PICK c \in {"onmessage", "listener"} : js' = AddMessageConsumer(js, c)
      BY <1>10 DEF ListenMessage
    <2>2. c \in Consumers
      BY DEF Consumers
    <2> QED
      BY <1>1, <2>1, <2>2, SoundSteps
  <1>11. CASE CloseChannel
    BY <1>1, <1>11, SoundSteps DEF CloseChannel
  <1>12. CASE CloseConnection
    BY <1>1, <1>12, SoundMethods DEF CloseConnection
  <1>13. CASE ConnectionFails
    BY <1>1, <1>13, SoundSteps DEF ConnectionFails
  <1> QED
    BY <1>2, <1>3, <1>4, <1>5, <1>6, <1>7, <1>8, <1>9, <1>10, <1>11, <1>12, <1>13
       DEF Tasks, Application

LEMMA TypedInit == Init => Typed
  <1> SUFFICES ASSUME Init PROVE Typed
    OBVIOUS
  <1>1. ours = {} /\ js = InitJs /\ accepted = 0
    BY DEF Init, D!Init
  <1>2. InitJs \in States({})
    BY Names DEF InitJs, States
  <1>3. IceFlush(InitJs)
    BY DEF IceFlush, Undeferred, In, InitJs
  <1> QED
    BY <1>1, <1>2, <1>3 DEF Typed, Sound

LEMMA TypedStep ==
    ASSUME DP!Ordered, DP!Ordered', Typed, [Next]_vars
    PROVE  Typed'
  <1>1. /\ ours \subseteq 1 .. accepted /\ js \in Sound(ours)
        /\ accepted \in Nat /\ accepted' \in Nat
    BY OrderedTypes DEF Typed, DP!Ordered, DP!TypeOK, DP!Messages
  <1>2. CASE TsfnItem
    <2>1. UNCHANGED <<ours, accepted>>
      BY <1>2, Zenon DEF TsfnItem, DirectEvent, DrainSwap, DrainCall, DrainFinish,
         DrainThrow, D!DispatchDirect, D!DrainSwap, D!DrainCall, D!DrainFinish,
         D!DrainThrow
    <2>2. js' \in Sound(ours)
      BY <1>2, TypedItems
    <2> QED
      BY <1>1, <2>1, <2>2 DEF Typed
  <1>3. CASE Tasks
    <2>1. UNCHANGED <<ours, accepted>>
      BY <1>3, TasksApart, Zenon DEF dispatcherVars
    <2>2. js' \in Sound(ours)
      BY <1>3, TypedTasks
    <2> QED
      BY <1>1, <2>1, <2>2 DEF Typed
  <1>4. CASE NativeMessage
    <2>1. accepted' = accepted + 1 /\ ours' = ours \cup {accepted'} /\ js' = js
      BY <1>4, Zenon DEF NativeMessage, D!Emit
    <2>2. ours' \subseteq 1 .. accepted'
      BY <1>1, <2>1
    <2>3. js \in Sound(ours')
      BY <1>1, <2>1, MoreOfOurs
    <2> QED
      BY <2>1, <2>2, <2>3 DEF Typed
  <1>5. CASE NativeDirect \/ OtherMessage \/ DispatcherClose \/ UNCHANGED vars
    <2>1. UNCHANGED <<ours, js>> /\ accepted' \in {accepted, accepted + 1}
      BY <1>5, Zenon DEF NativeDirect, OtherMessage, DispatcherClose, D!EmitDirect, D!Emit,
         D!Close, vars, dispatcherVars
    <2>2. ours \subseteq 1 .. accepted'
      BY <1>1, <2>1
    <2> QED
      BY <1>1, <2>1, <2>2 DEF Typed
  <1> QED
    BY <1>2, <1>3, <1>4, <1>5 DEF Next, Tasks

\* The types of the specification are these, less precise.
LEMMA TypesImplied == DP!Ordered /\ Typed => TypeOK
  <1> SUFFICES ASSUME DP!Ordered, Typed PROVE TypeOK
    OBVIOUS
  <1>1. js \in States(ours) /\ D!TypeOK /\ ours \subseteq 1 .. accepted
    BY OrderedTypes, SoundFields DEF Typed
  <1>2. EventQueues(ours) \subseteq Seq(Events)
    BY DEF EventQueues, Incoming
  <1>3. js \in JsStates(ours)
    BY <1>1, <1>2
       DEF States, JsStates, ReadyStates, MessageQueues, TimerQueues, ImmediateQueues,
           Consumers, Pendings, OperationCounts, IceCounts, Logs
  <1> QED
    BY <1>1, <1>3 DEF TypeOK

\* Every variable keeps its type, for any number of messages, operations and deferred
\* events; and only the channel's own messages are ever queued for it.
THEOREM TypeCorrect == Spec => []TypeOK
  <1>1. Init => DP!Ordered /\ Typed
    BY DispatcherOrdered, TypedInit
  <1>2. (DP!Ordered /\ Typed) /\ [Next]_vars => (DP!Ordered /\ Typed)'
    BY DispatcherOrdered, TypedStep
  <1>3. DP!Ordered /\ Typed => TypeOK
    BY TypesImplied
  <1> QED
    BY <1>1, <1>2, <1>3, PTL DEF Spec

-----------------------------------------------------------------------------
\* The order of the events in the log, said of any log.

Has(log, type) == \E i \in DOMAIN log : log[i].type = type

LogAnnounced(log) ==
    \A i \in DOMAIN log :
        log[i].type \in {"open", "message", "closing"} =>
            \E j \in DOMAIN log : j < i /\ log[j].type = "datachannel"

LogOpenFirst(log) ==
    \A i, j \in DOMAIN log :
        log[i].type = "message" /\ log[j].type = "open" => j < i

LogFinal(log) ==
    \A i, j \in DOMAIN log :
        log[i].type = "close" /\ i < j => log[j].type = "datachannel"

LEMMA InAppend ==
    ASSUME NEW S, NEW q \in Seq(S), NEW x \in S, NEW y
    PROVE  In(y, Append(q, x)) <=> In(y, q) \/ y = x
  <1> DEFINE r == Append(q, x)
             k == Len(q)
  <1>1. /\ DOMAIN q = 1 .. k /\ DOMAIN r = 1 .. k + 1 /\ k \in Nat /\ r[k + 1] = x
        /\ \A i \in 1 .. k : r[i] = q[i]
    BY AppendProperties
  <1> HIDE DEF r, k
  <1>2. /\ \A i \in 1 .. k + 1 : i \in 1 .. k \/ i = k + 1
        /\ \A i \in 1 .. k : i \in 1 .. k + 1
        /\ k + 1 \in 1 .. k + 1
    BY <1>1
  <1>3. In(y, r) <=> In(y, q) \/ y = x
    BY <1>1, <1>2, Zenon DEF In
  <1> QED
    BY <1>3 DEF r

LEMMA InTail ==
    ASSUME NEW S, NEW q \in Seq(S), q # <<>>, NEW y, In(y, Tail(q))
    PROVE  In(y, q)
  <1> DEFINE r == Tail(q)
             k == Len(q)
  <1>1. /\ DOMAIN q = 1 .. k /\ DOMAIN r = 1 .. k - 1 /\ k \in Nat
        /\ \A i \in 1 .. k - 1 : r[i] = q[i + 1]
    OBVIOUS
  <1> HIDE DEF r, k
  <1>2. PICK i \in DOMAIN r : r[i] = y
    BY DEF In, r
  <1>3. i + 1 \in DOMAIN q /\ q[i + 1] = y
    BY <1>1, <1>2
  <1> QED
    BY <1>3 DEF In

\* A log that grows.
LEMMA LogExtended ==
    ASSUME NEW log \in Logs, NEW more \in Logs
    PROVE  /\ \A x : Has(log \o more, x) <=> Has(log, x) \/ Has(more, x)
           /\ Has(log, "datachannel") /\ LogAnnounced(log) => LogAnnounced(log \o more)
           /\ LogFinal(log) /\ LogFinal(more) /\ ~Has(log, "close") =>
                 LogFinal(log \o more)
           /\ LogFinal(log) /\ (\A i \in DOMAIN more : more[i].type = "datachannel") =>
                 LogFinal(log \o more)
           /\ LogOpenFirst(log) /\ LogOpenFirst(more)
              /\ ~(Has(log, "message") /\ Has(more, "open")) => LogOpenFirst(log \o more)
  <1> DEFINE q == log \o more
             k == Len(log)
             n == Len(more)
  <1>1. /\ k \in Nat /\ n \in Nat /\ DOMAIN log = 1 .. k /\ DOMAIN more = 1 .. n
        /\ DOMAIN q = 1 .. k + n
        /\ \A i \in 1 .. k : q[i] = log[i]
        /\ \A i \in 1 .. k + n : i > k => q[i] = more[i - k]
    <2>1. log \in Seq(Events) /\ more \in Seq(Events)
      BY DEF Logs
    <2> QED
      BY <2>1, ConcatProperties
  <1> HIDE DEF q, k, n
  <1>2. /\ \A i \in DOMAIN log : i \in DOMAIN q /\ q[i] = log[i] /\ i <= k /\ i \in Int
        /\ \A i \in DOMAIN more : k + i \in DOMAIN q /\ q[k + i] = more[i] /\ ~(k + i <= k)
        /\ \A i \in DOMAIN q : \/ i \in DOMAIN log /\ i <= k
                               \/ i - k \in DOMAIN more /\ q[i] = more[i - k] /\ ~(i <= k)
        /\ \A i, j \in DOMAIN q : i < j /\ j <= k => i <= k
        /\ \A i, j \in DOMAIN q : i <= k /\ ~(j <= k) => i < j
        /\ \A i, j \in DOMAIN q : i < j <=> i - k < j - k
    <2>1. \A i \in 1 .. n : (k + i) - k = i
      BY <1>1
    <2> QED
      BY <1>1, <2>1
  <1>3. \A x : Has(q, x) <=> Has(log, x) \/ Has(more, x)
    BY <1>2 DEF Has
  <1>4. ASSUME Has(log, "datachannel"), LogAnnounced(log) PROVE LogAnnounced(q)
    <2>1. PICK d \in DOMAIN log : log[d].type = "datachannel"
      BY <1>4 DEF Has
    <2>2. SUFFICES ASSUME NEW i \in DOMAIN q, q[i].type \in {"open", "message", "closing"}
                   PROVE  \E j \in DOMAIN q : j < i /\ q[j].type = "datachannel"
      BY DEF LogAnnounced
    <2>3. CASE i \in DOMAIN log
      <3>1. PICK j \in DOMAIN log : j < i /\ log[j].type = "datachannel"
        BY <1>2, <1>4, <2>2, <2>3 DEF LogAnnounced
      <3> QED
        BY <1>2, <3>1
    <2>4. CASE i \notin DOMAIN log
      <3>1. d \in DOMAIN q /\ d < i /\ q[d].type = "datachannel"
        BY <1>2, <2>1, <2>4
      <3> QED
        BY <3>1
    <2> QED
      BY <2>3, <2>4
  <1>5. ASSUME LogFinal(log), LogFinal(more), ~Has(log, "close") PROVE LogFinal(q)
    <2> SUFFICES ASSUME NEW i \in DOMAIN q, NEW j \in DOMAIN q,
                        q[i].type = "close", i < j
                 PROVE  q[j].type = "datachannel"
      BY DEF LogFinal
    <2>1. i \notin DOMAIN log
      BY <1>2, <1>5 DEF Has
    <2>2. ~(i <= k) /\ ~(j <= k)
      BY <1>2, <2>1
    <2> QED
      BY <1>2, <1>5, <2>2 DEF LogFinal
  <1>6. ASSUME LogFinal(log), \A i \in DOMAIN more : more[i].type = "datachannel"
        PROVE  LogFinal(q)
    <2> SUFFICES ASSUME NEW i \in DOMAIN q, NEW j \in DOMAIN q,
                        q[i].type = "close", i < j
                 PROVE  q[j].type = "datachannel"
      BY DEF LogFinal
    <2>1. CASE j <= k
      <3>1. i \in DOMAIN log /\ j \in DOMAIN log
        BY <1>2, <2>1
      <3> QED
        BY <1>2, <1>6, <3>1 DEF LogFinal
    <2>2. CASE ~(j <= k)
      BY <1>2, <1>6, <2>2
    <2> QED
      BY <2>1, <2>2
  <1>7. ASSUME LogOpenFirst(log), LogOpenFirst(more),
               ~(Has(log, "message") /\ Has(more, "open"))
        PROVE  LogOpenFirst(q)
    <2> SUFFICES ASSUME NEW i \in DOMAIN q, NEW j \in DOMAIN q,
                        q[i].type = "message", q[j].type = "open"
                 PROVE  j < i
      BY DEF LogOpenFirst
    <2>1. CASE i <= k
      <3>1. i \in DOMAIN log /\ log[i].type = "message"
        BY <1>2, <2>1
      <3>2. j \in DOMAIN log /\ log[j].type = "open"
        BY <1>2, <1>7, <3>1 DEF Has
      <3> QED
        BY <1>7, <3>1, <3>2 DEF LogOpenFirst
    <2>2. CASE ~(i <= k)
      BY <1>2, <1>7, <2>2 DEF LogOpenFirst
    <2> QED
      BY <2>1, <2>2
  <1> QED
    BY <1>3, <1>4, <1>5, <1>6, <1>7 DEF q

LEMMA LogAppended ==
    ASSUME NEW log \in Logs, NEW e \in Events
    PROVE  /\ \A x : Has(Append(log, e), x) <=> Has(log, x) \/ e.type = x
           /\ Has(log, "datachannel") /\ LogAnnounced(log) => LogAnnounced(Append(log, e))
           /\ LogFinal(log) /\ (~Has(log, "close") \/ e.type = "datachannel") =>
                 LogFinal(Append(log, e))
           /\ LogOpenFirst(log) /\ (e.type = "open" => ~Has(log, "message")) =>
                 LogOpenFirst(Append(log, e))
  <1> DEFINE more == <<e>>
  <1>1. more \in Logs /\ Append(log, e) = log \o more
    BY AppendIsConcat DEF Logs
  <1>2. DOMAIN more = {1} /\ more[1] = e /\ ~(1 < 1)
    OBVIOUS
  <1> HIDE DEF more
  <1>3. /\ \A x : Has(more, x) <=> e.type = x
        /\ LogFinal(more) /\ (e.type = "datachannel" =>
                                 \A i \in DOMAIN more : more[i].type = "datachannel")
    BY <1>2, Zenon DEF Has, LogFinal
  <1>4. LogOpenFirst(more)
    <2>1. "open" # "message"
      OBVIOUS
    <2> QED
      BY <1>2, <2>1, Zenon DEF LogOpenFirst
  <1>5. /\ \A x : Has(log \o more, x) <=> Has(log, x) \/ Has(more, x)
        /\ Has(log, "datachannel") /\ LogAnnounced(log) => LogAnnounced(log \o more)
        /\ LogFinal(log) /\ LogFinal(more) /\ ~Has(log, "close") => LogFinal(log \o more)
        /\ LogFinal(log) /\ (\A i \in DOMAIN more : more[i].type = "datachannel") =>
              LogFinal(log \o more)
        /\ LogOpenFirst(log) /\ LogOpenFirst(more)
           /\ ~(Has(log, "message") /\ Has(more, "open")) => LogOpenFirst(log \o more)
    BY <1>1, LogExtended
  <1>6. Has(more, "open") => e.type = "open"
    BY <1>3
  <1> QED
    BY <1>1, <1>3, <1>4, <1>5, <1>6, Zenon

LEMMA LogOfMessages ==
    ASSUME NEW own \in SUBSET Nat, NEW ns \in MessageQueues(own), NEW log \in Logs
    PROVE  LET q == log \o Messages(ns)
           IN  /\ \A x : x # "message" => (Has(q, x) <=> Has(log, x))
               /\ Has(log, "datachannel") /\ LogAnnounced(log) => LogAnnounced(q)
               /\ LogFinal(log) /\ ~Has(log, "close") => LogFinal(q)
               /\ LogOpenFirst(log) => LogOpenFirst(q)
  <1> DEFINE more == Messages(ns)
  <1>1. more \in Logs
    BY MessagesTyped
  <1>2. \A i \in DOMAIN more : more[i].type = "message"
    BY DEF Messages, Message, Event
  <1> HIDE DEF more
  <1>3. \A x : x # "message" => ~Has(more, x)
    BY <1>2, Zenon DEF Has
  <1>4. "open" # "message" /\ "close" # "message"
    OBVIOUS
  <1>5. LogFinal(more) /\ LogOpenFirst(more)
    BY <1>2, <1>4, Zenon DEF LogFinal, LogOpenFirst
  <1>6. /\ \A x : x # "message" => (Has(log \o more, x) <=> Has(log, x))
        /\ Has(log, "datachannel") /\ LogAnnounced(log) => LogAnnounced(log \o more)
        /\ LogFinal(log) /\ ~Has(log, "close") => LogFinal(log \o more)
        /\ LogOpenFirst(log) => LogOpenFirst(log \o more)
    BY <1>1, <1>3, <1>4, <1>5, LogExtended, Zenon
  <1> QED
    BY <1>6 DEF more

\* While the open of the announcement waits in a timer, so does the message gate, and
\* the gate opens later.
Gated(q, gate) ==
    \A i \in DOMAIN q :
        q[i] = "announceOpen" =>
            /\ gate
            /\ \A j \in DOMAIN q : q[j] # "gate2" /\ (q[j] = "gate1" => i < j)

LEMMA GatedQueue ==
    ASSUME NEW q \in TimerQueues, NEW gate, Gated(q, gate)
    PROVE  /\ \A x \in TimerTasks :
                 x \notin {"announceOpen", "gate2"} => Gated(Append(q, x), gate)
           /\ ~gate => ~In("announceOpen", q)
           /\ q # <<>> => Gated(Tail(q), gate)
           /\ q # <<>> /\ Head(q) \in {"gate1", "gate2"} =>
                 ~In("announceOpen", Tail(q))
  <1> DEFINE k == Len(q)
  <1>1. q \in Seq(TimerTasks) /\ k \in Nat /\ DOMAIN q = 1 .. k
    BY DEF TimerQueues
  <1>2. ASSUME NEW x \in TimerTasks, x \notin {"announceOpen", "gate2"}
        PROVE  Gated(Append(q, x), gate)
    <2> DEFINE r == Append(q, x)
    <2>1. /\ DOMAIN r = 1 .. k + 1 /\ r[k + 1] = x /\ \A i \in 1 .. k : r[i] = q[i]
      BY <1>1, AppendProperties
    <2> HIDE DEF r, k
    <2>2. /\ \A i \in DOMAIN r : (i \in DOMAIN q /\ r[i] = q[i]) \/ (i = k + 1 /\ r[i] = x)
          /\ \A i \in DOMAIN q : i < k + 1
      <3>1. /\ \A i \in 1 .. k + 1 : i \in 1 .. k \/ i = k + 1
            /\ \A i \in 1 .. k : i < k + 1
        BY <1>1
      <3>2. \A i \in DOMAIN r : i \in DOMAIN q \/ i = k + 1
        BY <1>1, <2>1, <3>1 DEF k
      <3>3. \A i \in DOMAIN q : r[i] = q[i] /\ i < k + 1
        BY <1>1, <2>1, <3>1 DEF k
      <3> QED
        BY <2>1, <3>2, <3>3
    <2>3. SUFFICES ASSUME NEW i \in DOMAIN r, r[i] = "announceOpen"
                   PROVE  gate /\ \A j \in DOMAIN r : r[j] # "gate2" /\ (r[j] = "gate1" => i < j)
      BY Zenon DEF Gated, r
    <2>4. i \in DOMAIN q /\ q[i] = "announceOpen"
      BY <1>2, <2>2, <2>3
    <2>5. gate /\ \A j \in DOMAIN q : q[j] # "gate2" /\ (q[j] = "gate1" => i < j)
      BY <2>4, Zenon DEF Gated
    <2>6. \A j \in DOMAIN r : r[j] # "gate2" /\ (r[j] = "gate1" => i < j)
      BY <1>2, <2>2, <2>4, <2>5
    <2> QED
      BY <2>5, <2>6
  <1>3. ~gate => ~In("announceOpen", q)
    BY Zenon DEF Gated, In
  <1>4. ASSUME q # <<>>
        PROVE  /\ Gated(Tail(q), gate)
               /\ Head(q) \in {"gate1", "gate2"} => ~In("announceOpen", Tail(q))
    <2> DEFINE r == Tail(q)
    <2>1. /\ DOMAIN r = 1 .. k - 1 /\ \A i \in 1 .. k - 1 : r[i] = q[i + 1]
          /\ Head(q) = q[1] /\ 1 \in DOMAIN q
      BY <1>1, <1>4
    <2> HIDE DEF r, k
    <2>2. /\ \A i \in DOMAIN r : i + 1 \in DOMAIN q /\ r[i] = q[i + 1] /\ ~(i + 1 < 1)
          /\ \A i, j \in DOMAIN r : i + 1 < j + 1 => i < j
      BY <1>1, <2>1
    <2>3. ASSUME NEW i \in DOMAIN r, r[i] = "announceOpen"
          PROVE  /\ gate /\ \A j \in DOMAIN r : r[j] # "gate2" /\ (r[j] = "gate1" => i < j)
                 /\ Head(q) \notin {"gate1", "gate2"}
      <3>1. q[i + 1] = "announceOpen" /\ i + 1 \in DOMAIN q
        BY <2>2, <2>3
      <3>2. gate /\ \A j \in DOMAIN q : q[j] # "gate2" /\ (q[j] = "gate1" => i + 1 < j)
        BY <3>1, Zenon DEF Gated
      <3>3. \A j \in DOMAIN r : r[j] # "gate2" /\ (r[j] = "gate1" => i < j)
        BY <2>2, <3>2
      <3>4. q[1] \notin {"gate1", "gate2"}
        BY <2>1, <2>2, <3>2
      <3> QED
        BY <2>1, <3>2, <3>3, <3>4
    <2>4. Gated(r, gate)
      BY <2>3, Zenon DEF Gated
    <2>5. Head(q) \in {"gate1", "gate2"} => ~In("announceOpen", r)
      BY <2>3, Zenon DEF In
    <2> QED
      BY <2>4, <2>5 DEF r
  <1> QED
    BY <1>2, <1>3, <1>4

LEMMA Ungated ==
    ASSUME NEW q, ~In("announceOpen", q), NEW gate
    PROVE  Gated(q, gate)
  BY Zenon DEF In, Gated

-----------------------------------------------------------------------------
\* The order of the events, said of the JavaScript state.

NoOpen(q) == \A i \in DOMAIN q : q[i].type # "open"

Only(type, q) == \A i \in DOMAIN q : q[i].type = type

Closing(s) ==
    /\ s.readyState = "closed" => ~s.known
    /\ Has(s.log, "close") => s.readyState = "closed"
    /\ NoOpen(s.queuedNativeEvents)

Loud == {"retryOpen", "drainNativeEvents", "closeNative"}

\* Before the application is told of the channel: what could dispatch an event of it
\* waits for the datachannel event, and nothing else is scheduled.
Unannounced(s) ==
    /\ Closing(s)
    /\ LogFinal(s.log)
    /\ Only("close", s.log)
    /\ s.queuedMessageEvents = <<>>
    /\ ~s.messageEventGateActive
    /\ ~s.nativeEventDrainActive
    /\ ~s.openDeferredForIce
    /\ \A x \in Loud : ~In(x, s.immediates)
    /\ s.known => s.announcementPending
    /\ s.pendingDataChannelEvent => s.openEventPending /\ s.readyState # "connecting"
    /\ s.dataChannelFlushScheduled => s.pendingDataChannelEvent
    /\ s.timers = IF s.dataChannelFlushScheduled THEN <<"flushDataChannel">> ELSE <<>>

\* Before JavaScript itself knows of it.
Fresh(s) ==
    /\ ~s.known /\ s.readyState = "connecting" /\ s.log = <<>>
    /\ ~s.pendingDataChannelEvent
    /\ Only("message", s.pendingNativeEvents)

\* After it was told; opening says that the native open is still to come.
InOrder(s, opening) ==
    /\ Closing(s)
    /\ LogAnnounced(s.log)
    /\ LogFinal(s.log)
    /\ Has(s.log, "datachannel")
    /\ s.readyState # "connecting"
    /\ ~s.pendingDataChannelEvent
    /\ ~s.dataChannelFlushScheduled
    /\ ~In("flushDataChannel", s.timers)
    /\ Gated(s.timers, s.messageEventGateActive)
    /\ Has(s.log, "message") => ~In("announceOpen", s.timers)
    /\ NothingDeferred => LogOpenFirst(s.log)
    /\ NothingDeferred /\ opening =>
          \/ s.openEventDispatched
          \/ In("announceOpen", s.timers)
          \/ s.readyState \in {"closing", "closed"}

\* States that agree on all of this, once and until the application was told.
Alike(s, r) ==
    /\ r.known = s.known
    /\ r.readyState = s.readyState
    /\ r.openEventDispatched = s.openEventDispatched
    /\ r.queuedNativeEvents = s.queuedNativeEvents
    /\ r.messageEventGateActive = s.messageEventGateActive
    /\ r.pendingDataChannelEvent = s.pendingDataChannelEvent
    /\ r.dataChannelFlushScheduled = s.dataChannelFlushScheduled
    /\ r.timers = s.timers
    /\ r.log = s.log

Quiet(s, r) ==
    /\ Alike(s, r)
    /\ r.pendingNativeEvents = s.pendingNativeEvents
    /\ r.announcementPending = s.announcementPending
    /\ r.openEventPending = s.openEventPending
    /\ r.openDeferredForIce = s.openDeferredForIce
    /\ r.nativeEventDrainActive = s.nativeEventDrainActive
    /\ r.queuedMessageEvents = s.queuedMessageEvents
    /\ \A x \in Loud : In(x, r.immediates) => In(x, s.immediates)

LEMMA AlikeInOrder ==
    ASSUME NEW s, NEW r, NEW opening, Alike(s, r), InOrder(s, opening)
    PROVE  InOrder(r, opening)
  BY Zenon DEF Alike, InOrder, Closing

LEMMA QuietInOrder ==
    ASSUME NEW s, NEW r, Quiet(s, r)
    PROVE  /\ \A opening : InOrder(s, opening) => InOrder(r, opening)
           /\ Unannounced(s) => Unannounced(r)
           /\ Fresh(s) => Fresh(r)
  <1>1. \A opening : InOrder(s, opening) => InOrder(r, opening)
    BY AlikeInOrder, Zenon DEF Quiet
  <1>2. Unannounced(s) => Unannounced(r)
    BY Zenon DEF Quiet, Alike, Unannounced, Closing
  <1>3. Fresh(s) => Fresh(r)
    BY Zenon DEF Quiet, Alike, Fresh
  <1> QED
    BY <1>1, <1>2, <1>3

LEMMA QuietTwice ==
    /\ \A s, p, r : Alike(s, p) /\ Alike(p, r) => Alike(s, r)
    /\ \A s, p, r : Quiet(s, p) /\ Quiet(p, r) => Quiet(s, r)
    /\ \A s : Alike(s, s) /\ Quiet(s, s)
  <1>1. \A s, p, r : Alike(s, p) /\ Alike(p, r) => Alike(s, r)
    BY DEF Alike
  <1>2. ASSUME NEW s, NEW p, NEW r, Quiet(s, p), Quiet(p, r) PROVE Quiet(s, r)
    <2>1. Alike(s, p) /\ Alike(p, r)
      BY <1>2, Zenon DEF Quiet
    <2>2. Alike(s, r)
      BY <1>1, <2>1, Zenon
    <2>3. /\ r.pendingNativeEvents = s.pendingNativeEvents
          /\ r.announcementPending = s.announcementPending
          /\ r.openEventPending = s.openEventPending
          /\ r.openDeferredForIce = s.openDeferredForIce
          /\ r.nativeEventDrainActive = s.nativeEventDrainActive
          /\ r.queuedMessageEvents = s.queuedMessageEvents
      BY <1>2 DEF Quiet
    <2>4. \A x \in Loud : In(x, r.immediates) => In(x, s.immediates)
      BY <1>2, Zenon DEF Quiet
    <2> QED
      BY <2>2, <2>3, <2>4, Zenon DEF Quiet
  <1>3. \A s : Alike(s, s) /\ Quiet(s, s)
    BY Zenon DEF Alike, Quiet
  <1> QED
    BY <1>1, <1>2, <1>3

LEMMA QuietFields ==
    ASSUME NEW own, NEW s \in States(own), NEW x
    PROVE  /\ Quiet(s, [s EXCEPT !.messageEventFlushScheduled = x])
           /\ Quiet(s, [s EXCEPT !.messageConsumerGateActive = x])
           /\ Quiet(s, [s EXCEPT !.nativeCloseEventQueued = x])
           /\ Quiet(s, [s EXCEPT !.graceOver = x])
           /\ Quiet(s, [s EXCEPT !.messageConsumer = x])
           /\ Quiet(s, [s EXCEPT !.dataChannelConsumer = x])
           /\ Quiet(s, [s EXCEPT !.operationsPending = x])
           /\ Quiet(s, [s EXCEPT !.operations = x])
           /\ Quiet(s, [s EXCEPT !.idleCallbacks = x])
           /\ Quiet(s, [s EXCEPT !.deferredIceEvents = x])
           /\ Quiet(s, [s EXCEPT !.iceEventFlushScheduled = x])
           /\ Quiet(s, [s EXCEPT !.closed = x])
           /\ Quiet(s, [s EXCEPT !.threw = x])
           /\ Alike(s, [s EXCEPT !.pendingNativeEvents = x])
           /\ Alike(s, [s EXCEPT !.announcementPending = x])
           /\ Alike(s, [s EXCEPT !.openEventPending = x])
           /\ Alike(s, [s EXCEPT !.openDeferredForIce = x])
           /\ Alike(s, [s EXCEPT !.nativeEventDrainActive = x])
           /\ Alike(s, [s EXCEPT !.queuedMessageEvents = x])
           /\ Alike(s, [s EXCEPT !.immediates = x])
  BY SMTT(60) DEF Quiet, Alike, States

LEMMA QuietTasks ==
    ASSUME NEW own \in SUBSET Nat, NEW s \in States(own)
    PROVE  /\ \A x : Alike(s, Soon(s, x))
           /\ \A x \in ImmediateTasks \ Loud : Quiet(s, Soon(s, x))
  <1>1. ASSUME NEW x PROVE Alike(s, Soon(s, x))
    BY QuietFields DEF Soon
  <1>2. ASSUME NEW x \in ImmediateTasks \ Loud PROVE Quiet(s, Soon(s, x))
    <2> DEFINE q == Append(s.immediates, x)
    <2>1. s.immediates \in Seq(ImmediateTasks)
      BY Components DEF ImmediateQueues
    <2>2. \A y \in Loud : In(y, q) => In(y, s.immediates)
      BY <2>1, InAppend
    <2>3. Soon(s, x) = [s EXCEPT !.immediates = q]
      BY DEF Soon
    <2> HIDE DEF q
    <2>4. /\ Soon(s, x).immediates = q
          /\ Soon(s, x).pendingNativeEvents = s.pendingNativeEvents
          /\ Soon(s, x).announcementPending = s.announcementPending
          /\ Soon(s, x).openEventPending = s.openEventPending
          /\ Soon(s, x).openDeferredForIce = s.openDeferredForIce
          /\ Soon(s, x).nativeEventDrainActive = s.nativeEventDrainActive
          /\ Soon(s, x).queuedMessageEvents = s.queuedMessageEvents
      BY <2>3 DEF States
    <2> QED
      BY <1>1, <2>2, <2>4, Zenon DEF Quiet
  <1> QED
    BY <1>1, <1>2

LEMMA QuietMethods ==
    ASSUME NEW own \in SUBSET Nat, NEW s \in States(own)
    PROVE  /\ Quiet(s, ScheduleMessageFlush(s))
           /\ \A ns \in MessageQueues(own) : Alike(s, QueueMessages(s, ns))
           /\ Quiet(s, ReleaseConsumerGate(s))
           /\ \A c \in Consumers : Quiet(s, AddMessageConsumer(s, c))
           /\ Quiet(s, GateUntilConsumer(s))
           /\ Quiet(s, ScheduleIceFlush(s))
  <1>1. ASSUME NEW p \in States(own) PROVE Quiet(p, ScheduleMessageFlush(p))
    <2> DEFINE r == [p EXCEPT !.messageEventFlushScheduled = TRUE]
    <2>1. r \in States(own) /\ Quiet(p, r)
      BY Flags, QuietFields
    <2> HIDE DEF r
    <2>2. "flushMessages" \in ImmediateTasks \ Loud
      BY Names DEF Loud
    <2>3. Quiet(r, Soon(r, "flushMessages"))
      BY <2>1, <2>2, QuietTasks
    <2> QED
      BY <2>1, <2>3, QuietTwice, Zenon DEF ScheduleMessageFlush, r
  <1>2. ASSUME NEW ns \in MessageQueues(own) PROVE Alike(s, QueueMessages(s, ns))
    <2> DEFINE r == [s EXCEPT !.queuedMessageEvents = @ \o ns]
    <2>1. r \in States(own) /\ Alike(s, r)
      BY Components, Queues, Values, QuietFields
    <2> HIDE DEF r
    <2>2. Alike(r, ScheduleMessageFlush(r))
      BY <1>1, <2>1 DEF Quiet
    <2> QED
      BY <2>1, <2>2, QuietTwice, Zenon DEF QueueMessages, r
  <1>3. ASSUME NEW p \in States(own) PROVE Quiet(p, ReleaseConsumerGate(p))
    <2> DEFINE r == [p EXCEPT !.messageConsumerGateActive = FALSE]
    <2>1. r \in States(own) /\ Quiet(p, r)
      BY Flags, QuietFields
    <2> HIDE DEF r
    <2>2. Quiet(r, ScheduleMessageFlush(r))
      BY <1>1, <2>1
    <2> QED
      BY <2>1, <2>2, QuietTwice, Zenon DEF ReleaseConsumerGate, r
  <1>4. ASSUME NEW c \in Consumers PROVE Quiet(s, AddMessageConsumer(s, c))
    <2> DEFINE r == [s EXCEPT !.messageConsumer = c]
    <2>1. r \in States(own) /\ Quiet(s, r)
      BY Values, QuietFields
    <2> HIDE DEF r
    <2>2. Quiet(r, ReleaseConsumerGate(r))
      BY <1>3, <2>1
    <2> QED
      BY <2>1, <2>2, QuietTwice, Zenon DEF AddMessageConsumer, r
  <1>5. Quiet(s, GateUntilConsumer(s))
    BY QuietFields, QuietTwice, Zenon DEF GateUntilConsumer
  <1>6. Quiet(s, ScheduleIceFlush(s))
    <2> DEFINE r == [s EXCEPT !.iceEventFlushScheduled = TRUE]
    <2>1. r \in States(own) /\ Quiet(s, r)
      BY Flags, QuietFields
    <2> HIDE DEF r
    <2>2. "flushIceEvents" \in ImmediateTasks \ Loud
      BY Names DEF Loud
    <2>3. Quiet(r, Soon(r, "flushIceEvents"))
      BY <2>1, <2>2, QuietTasks
    <2> QED
      BY <2>1, <2>3, QuietTwice, Zenon DEF ScheduleIceFlush, r
  <1> QED
    BY <1>1, <1>2, <1>3, <1>4, <1>5, <1>6

-----------------------------------------------------------------------------
\* The application was told of the channel: one step of a method at a time.

LEMMA InOrderFields ==
    ASSUME NEW own, NEW s \in States(own), NEW opening, InOrder(s, opening)
    PROVE  /\ InOrder([s EXCEPT !.openEventDispatched = TRUE], opening)
           /\ s.readyState # "closed" =>
                 InOrder([s EXCEPT !.readyState = "closing"], opening)
           /\ s.known => InOrder([s EXCEPT !.readyState = "open"], FALSE)
           /\ \A q : NoOpen(q) => InOrder([s EXCEPT !.queuedNativeEvents = q], opening)
           /\ ~In("announceOpen", s.timers) =>
                 InOrder([s EXCEPT !.messageEventGateActive = FALSE], opening)
  <1>1. InOrder([s EXCEPT !.openEventDispatched = TRUE], opening)
    BY DEF InOrder, Closing, States
  <1>2. s.readyState # "closed" => InOrder([s EXCEPT !.readyState = "closing"], opening)
    BY DEF InOrder, Closing, States
  <1>3. s.known => InOrder([s EXCEPT !.readyState = "open"], FALSE)
    BY DEF InOrder, Closing, States
  <1>4. \A q : NoOpen(q) => InOrder([s EXCEPT !.queuedNativeEvents = q], opening)
    BY DEF InOrder, Closing, States
  <1>5. ~In("announceOpen", s.timers) =>
           InOrder([s EXCEPT !.messageEventGateActive = FALSE], opening)
    BY Ungated DEF InOrder, Closing, States
  <1> QED
    BY <1>1, <1>2, <1>3, <1>4, <1>5

LEMMA InOrderLater ==
    ASSUME NEW own, NEW s \in States(own), NEW opening, InOrder(s, opening),
           NEW x \in TimerTasks, x \notin {"flushDataChannel", "announceOpen"},
           x = "gate2" => ~In("announceOpen", s.timers)
    PROVE  InOrder(Later(s, x), opening)
  <1> DEFINE q == Append(s.timers, x)
  <1>1. s.timers \in Seq(TimerTasks)
    BY Components DEF TimerQueues
  <1>2. /\ ~In("flushDataChannel", q)
        /\ In("announceOpen", q) <=> In("announceOpen", s.timers)
    BY <1>1, InAppend DEF InOrder
  <1>3. Gated(q, s.messageEventGateActive)
    <2>1. Gated(s.timers, s.messageEventGateActive)
      BY DEF InOrder
    <2>2. CASE x = "gate2"
      BY <1>2, <2>2, Ungated
    <2>3. CASE x # "gate2"
      BY <2>1, <2>3, Components, GatedQueue
    <2> QED
      BY <2>2, <2>3
  <1>4. Later(s, x) = [s EXCEPT !.timers = q]
    BY DEF Later
  <1> HIDE DEF q
  <1> QED
    BY <1>2, <1>3, <1>4 DEF InOrder, Closing, States

LEMMA InOrderDispatch ==
    ASSUME NEW own, NEW s \in States(own), NEW opening, InOrder(s, opening),
           NEW e \in Events, e.type \in {"open", "closing"}, s.readyState # "closed",
           e.type = "open" /\ NothingDeferred => ~Has(s.log, "message")
    PROVE  InOrder(Dispatch(s, e), opening)
  <1> DEFINE q == Append(s.log, e)
  <1>1. s.log \in Logs
    BY Components
  <1>2. /\ ~Has(s.log, "close") /\ LogFinal(s.log) /\ LogAnnounced(s.log)
        /\ Has(s.log, "datachannel") /\ (NothingDeferred => LogOpenFirst(s.log))
    BY DEF InOrder, Closing
  <1>3. /\ Has(q, "datachannel") /\ ~Has(q, "close")
        /\ Has(q, "message") <=> Has(s.log, "message")
        /\ LogFinal(q) /\ LogAnnounced(q) /\ (NothingDeferred => LogOpenFirst(q))
    BY <1>1, <1>2, LogAppended
  <1>4. Dispatch(s, e) = [s EXCEPT !.log = q]
    BY DEF Dispatch
  <1> HIDE DEF q
  <1> QED
    BY <1>3, <1>4 DEF InOrder, Closing, States

LEMMA InOrderHandleClose ==
    ASSUME NEW own, NEW s \in States(own), NEW opening, InOrder(s, opening)
    PROVE  InOrder(HandleClose(s), opening)
  <1> DEFINE e == Event("close", 0)
             q == Append(s.log, e)
             p == [s EXCEPT !.readyState = "closed", !.known = FALSE]
             r == Dispatch(p, e)
  <1>1. CASE s.readyState = "closed"
    BY <1>1, Zenon DEF HandleClose
  <1>2. CASE s.readyState # "closed"
    <2>1. s.log \in Logs /\ e \in Events /\ e.type = "close"
      BY Components, EventsAre DEF Event
    <2>2. /\ ~Has(s.log, "close") /\ LogFinal(s.log) /\ LogAnnounced(s.log)
          /\ Has(s.log, "datachannel") /\ (NothingDeferred => LogOpenFirst(s.log))
      BY <1>2 DEF InOrder, Closing
    <2> HIDE DEF e
    <2>3. /\ Has(q, "datachannel")
          /\ Has(q, "message") <=> Has(s.log, "message")
          /\ LogFinal(q) /\ LogAnnounced(q) /\ (NothingDeferred => LogOpenFirst(q))
      BY <2>1, <2>2, LogAppended
    <2>4. r = [p EXCEPT !.log = q]
      BY DEF Dispatch, States
    <2>5. HandleClose(s) = r
      BY <1>2, Zenon DEF HandleClose, e
    <2> HIDE DEF q, r
    <2>6. /\ r.log = q /\ r.readyState = "closed" /\ ~r.known
          /\ r.queuedNativeEvents = s.queuedNativeEvents
          /\ r.messageEventGateActive = s.messageEventGateActive
          /\ r.pendingDataChannelEvent = s.pendingDataChannelEvent
          /\ r.dataChannelFlushScheduled = s.dataChannelFlushScheduled
          /\ r.timers = s.timers
      BY <2>4 DEF States
    <2> QED
      BY <2>3, <2>5, <2>6 DEF InOrder, Closing
  <1> QED
    BY <1>1, <1>2

LEMMA InOrderDispatchMessages ==
    ASSUME NEW own \in SUBSET Nat, NEW s \in States(own), NEW opening, InOrder(s, opening),
           NEW ns \in MessageQueues(own), s.readyState # "closed",
           ~s.messageEventGateActive
    PROVE  InOrder(DispatchMessages(s, ns), opening)
  <1> DEFINE q == s.log \o Messages(ns)
  <1>1. s.log \in Logs
    BY Components
  <1>2. /\ ~Has(s.log, "close") /\ LogFinal(s.log) /\ LogAnnounced(s.log)
        /\ Has(s.log, "datachannel") /\ (NothingDeferred => LogOpenFirst(s.log))
    BY DEF InOrder, Closing
  <1>3. "datachannel" # "message" /\ "close" # "message"
    OBVIOUS
  <1>4. /\ Has(q, "datachannel") /\ ~Has(q, "close")
        /\ LogFinal(q) /\ LogAnnounced(q) /\ (NothingDeferred => LogOpenFirst(q))
    BY <1>1, <1>2, <1>3, LogOfMessages
  <1>5. ~In("announceOpen", s.timers)
    BY Components, GatedQueue DEF InOrder
  <1>6. DispatchMessages(s, ns) = [s EXCEPT !.log = q]
    BY DEF DispatchMessages
  <1> HIDE DEF q
  <1> QED
    BY <1>4, <1>5, <1>6 DEF InOrder, Closing, States

LEMMA InOrderCloses ==
    ASSUME NEW own \in SUBSET Nat, NEW s \in States(own), NEW opening, InOrder(s, opening)
    PROVE  /\ InOrder(LocalClose(s), opening)
           /\ InOrder(ClosePeer(s), opening)
           /\ InOrder(CloseIfClosing(s), opening)
           /\ InOrder(QueueNativeClose(s), opening)
           /\ InOrder(PollClose(s), opening)
  <1>1. InOrder(LocalClose(s), opening)
    <2> DEFINE r == [s EXCEPT !.readyState = "closing"]
    <2>1. s.readyState # "closed" => InOrder(r, opening)
      BY InOrderFields
    <2>2. r \in States(own)
      BY Values, Names
    <2> HIDE DEF r
    <2>3. Alike(r, Soon(r, "closeNative"))
      BY <2>2, QuietTasks
    <2>4. s.readyState # "closed" => InOrder(Soon(r, "closeNative"), opening)
      BY <2>1, <2>3, AlikeInOrder
    <2> QED
      BY <2>4 DEF LocalClose, r
  <1>2. InOrder(ClosePeer(s), opening)
    <2> DEFINE r1 == [s EXCEPT !.closed = TRUE]
               r == [r1 EXCEPT !.deferredIceEvents = 0]
    <2>1. r1 \in States(own) /\ Quiet(s, r1)
      BY Flags, QuietFields
    <2> HIDE DEF r1
    <2>2. r \in States(own) /\ Quiet(r1, r)
      BY <2>1, Values, Names, QuietFields
    <2> HIDE DEF r
    <2>3. InOrder(r, opening)
      BY <2>1, <2>2, QuietInOrder
    <2>4. InOrder(HandleClose(r), opening)
      BY <2>2, <2>3, InOrderHandleClose
    <2> QED
      BY <2>3, <2>4, Zenon DEF ClosePeer, r, r1
  <1>3. InOrder(CloseIfClosing(s), opening)
    BY InOrderHandleClose DEF CloseIfClosing
  <1>4. InOrder(QueueNativeClose(s), opening)
    <2> DEFINE r1 == [s EXCEPT !.nativeCloseEventQueued = TRUE]
               r == [r1 EXCEPT !.graceOver = FALSE]
    <2>1. r1 \in States(own) /\ Quiet(s, r1)
      BY Flags, QuietFields
    <2> HIDE DEF r1
    <2>2. r \in States(own) /\ Quiet(r1, r)
      BY <2>1, Flags, QuietFields
    <2> HIDE DEF r
    <2>3. InOrder(r, opening)
      BY <2>1, <2>2, QuietInOrder
    <2>4. InOrder(Later(r, "pollClose"), opening)
      BY <2>2, <2>3, Names, InOrderLater
    <2> QED
      BY <2>4, Zenon DEF QueueNativeClose, r, r1
  <1>5. InOrder(PollClose(s), opening)
    <2> DEFINE t == [s EXCEPT !.nativeCloseEventQueued = FALSE]
               u == [t EXCEPT !.readyState = "closing"]
               e == Event("closing", 0)
    <2>1. t \in States(own) /\ Quiet(s, t)
      BY Flags, QuietFields
    <2> HIDE DEF t
    <2>2. InOrder(t, opening)
      BY <2>1, QuietInOrder
    <2>3. InOrder(HandleClose(t), opening)
      BY <2>1, <2>2, InOrderHandleClose
    <2>4. InOrder(Later(s, "pollClose"), opening)
      BY Names, InOrderLater
    <2>5. ASSUME t.readyState = "open"
          PROVE  InOrder(Later(Dispatch(u, e), "finishClose"), opening)
      <3>1. u \in States(own) /\ InOrder(u, opening) /\ u.readyState = "closing"
        <4>1. u \in States(own)
          BY <2>1, Values, Names
        <4>2. InOrder(u, opening)
          BY <2>1, <2>2, <2>5, InOrderFields
        <4>3. u.readyState = "closing"
          BY <2>1 DEF States
        <4> QED
          BY <4>1, <4>2, <4>3
      <3>2. e \in Events /\ e.type = "closing"
        BY EventsAre DEF Event
      <3> HIDE DEF u, e
      <3>3. InOrder(Dispatch(u, e), opening) /\ Dispatch(u, e) \in States(own)
        BY <3>1, <3>2, InOrderDispatch, StepsTyped
      <3> QED
        BY <3>3, Names, InOrderLater
    <2> QED
      BY <2>3, <2>4, <2>5, Zenon DEF PollClose, t, u, e
  <1> QED
    BY <1>1, <1>2, <1>3, <1>4, <1>5

LEMMA InOrderOpen ==
    ASSUME NEW own \in SUBSET Nat, NEW s \in Sound(own), NEW opening, InOrder(s, opening),
           NothingDeferred /\ ~s.openEventDispatched => ~Has(s.log, "message")
    PROVE  /\ InOrder(DispatchOpen(s), opening)
           /\ NothingDeferred /\ s.readyState = "open" =>
                 DispatchOpen(s).openEventDispatched
  <1> DEFINE r1 == [s EXCEPT !.openDeferredForIce = TRUE]
             r2 == [s EXCEPT !.openEventDispatched = TRUE]
             e == Event("open", 0)
             deferred == s.deferredIceEvents > 0 \/ s.iceEventFlushScheduled
  <1>1. s \in States(own) /\ IceFlush(s)
    BY DEF Sound
  <1>2. NothingDeferred => ~deferred
    <2>1. NothingDeferred => s.deferredIceEvents = 0 /\ ~s.iceEventFlushScheduled
      BY <1>1, Zenon DEF IceFlush, Undeferred
    <2> QED
      BY <2>1
  <1>3. InOrder(ScheduleIceFlush(r1), opening)
    <2>1. r1 \in States(own) /\ Alike(s, r1)
      BY <1>1, Flags, QuietFields
    <2> HIDE DEF r1
    <2>2. InOrder(r1, opening)
      BY <2>1, AlikeInOrder
    <2> QED
      BY <2>1, <2>2, QuietMethods, QuietInOrder
  <1>4. ASSUME ~s.openEventDispatched, s.readyState = "open"
        PROVE  InOrder(Dispatch(r2, e), opening) /\ Dispatch(r2, e).openEventDispatched
    <2>1. r2 \in States(own) /\ InOrder(r2, opening)
      BY <1>1, Flags, InOrderFields
    <2>2. r2.readyState = "open" /\ r2.log = s.log /\ r2.openEventDispatched
      BY <1>1, <1>4 DEF States
    <2>3. e \in Events /\ e.type = "open"
      BY EventsAre DEF Event
    <2> HIDE DEF r2, e
    <2>4. InOrder(Dispatch(r2, e), opening)
      BY <1>4, <2>1, <2>2, <2>3, InOrderDispatch
    <2>5. Dispatch(r2, e).openEventDispatched
      BY <2>1, <2>2 DEF Dispatch, States
    <2> QED
      BY <2>4, <2>5
  <1>5. DispatchOpen(s) = IF s.openEventDispatched \/ s.readyState # "open" THEN s
                          ELSE IF deferred THEN ScheduleIceFlush(r1)
                          ELSE Dispatch(r2, e)
    BY Zenon DEF DispatchOpen
  <1> HIDE DEF r1, r2, e, deferred
  <1> QED
    BY <1>2, <1>3, <1>4, <1>5, Zenon

LEMMA Weaker ==
    ASSUME NEW s, NEW opening, InOrder(s, opening)
    PROVE  InOrder(s, FALSE)
  BY Zenon DEF InOrder

LEMMA NoOpenQueues ==
    ASSUME NEW own \in SUBSET Nat, NEW q \in EventQueues(own), NoOpen(q)
    PROVE  /\ \A e \in Incoming(own) : e.type # "open" => NoOpen(Append(q, e))
           /\ \A ns \in MessageQueues(own) : NoOpen(q \o Messages(ns))
           /\ q # <<>> => NoOpen(Tail(q)) /\ Head(q).type # "open"
  <1>1. q \in Seq(Incoming(own)) /\ Len(q) \in Nat /\ DOMAIN q = 1 .. Len(q)
    BY DEF EventQueues
  <1>2. ASSUME NEW e \in Incoming(own), e.type # "open" PROVE NoOpen(Append(q, e))
    <2> DEFINE r == Append(q, e)
    <2>1. /\ DOMAIN r = 1 .. Len(q) + 1 /\ r[Len(q) + 1] = e
          /\ \A i \in 1 .. Len(q) : r[i] = q[i]
      BY <1>1, AppendProperties
    <2> HIDE DEF r
    <2>2. \A i \in DOMAIN r : i \in DOMAIN q \/ i = Len(q) + 1
      BY <1>1, <2>1
    <2>3. NoOpen(r)
      BY <1>1, <1>2, <2>1, <2>2 DEF NoOpen
    <2> QED
      BY <2>3 DEF r
  <1>3. ASSUME NEW ns \in MessageQueues(own) PROVE NoOpen(q \o Messages(ns))
    <2> DEFINE more == Messages(ns)
               r == q \o more
    <2>1. more \in Seq(Incoming(own))
      BY MessagesTyped DEF EventQueues
    <2>2. \A i \in DOMAIN more : more[i].type # "open"
      BY DEF Messages, Message, Event
    <2> HIDE DEF more
    <2>3. /\ DOMAIN r = 1 .. Len(q) + Len(more) /\ DOMAIN more = 1 .. Len(more)
          /\ Len(more) \in Nat
          /\ \A i \in 1 .. Len(q) : r[i] = q[i]
          /\ \A i \in 1 .. Len(q) + Len(more) : i > Len(q) => r[i] = more[i - Len(q)]
      BY <1>1, <2>1, ConcatProperties
    <2> HIDE DEF r
    <2>4. \A i \in DOMAIN r : i \in DOMAIN q \/ (i > Len(q) /\ i - Len(q) \in DOMAIN more)
      BY <1>1, <2>3
    <2>5. NoOpen(r)
      BY <1>1, <2>2, <2>3, <2>4 DEF NoOpen
    <2> QED
      BY <2>5 DEF r, more
  <1>4. ASSUME q # <<>> PROVE NoOpen(Tail(q)) /\ Head(q).type # "open"
    <2> DEFINE r == Tail(q)
    <2>1. /\ DOMAIN r = 1 .. Len(q) - 1 /\ Head(q) = q[1] /\ 1 \in DOMAIN q
          /\ \A i \in 1 .. Len(q) - 1 : r[i] = q[i + 1]
      BY <1>1, <1>4
    <2> HIDE DEF r
    <2>2. \A i \in DOMAIN r : i + 1 \in DOMAIN q /\ r[i] = q[i + 1]
      BY <1>1, <2>1
    <2>3. NoOpen(r)
      BY <2>2 DEF NoOpen
    <2>4. Head(q).type # "open"
      BY <2>1, Zenon DEF NoOpen
    <2> QED
      BY <2>3, <2>4 DEF r
  <1> QED
    BY <1>2, <1>3, <1>4

LEMMA InOrderHandle ==
    ASSUME NEW own \in SUBSET Nat, NEW s \in Sound(own), NEW opening, InOrder(s, opening),
           NEW e \in Incoming(own), e.type = "open" => s.known /\ opening
    PROVE  /\ e.type # "open" => InOrder(HandleNow(s, e), opening)
           /\ e.type = "open" => InOrder(HandleNow(s, e), FALSE)
           /\ e.type # "open" => InOrder(HandleNative(s, e), opening)
           /\ e.type = "open" => InOrder(HandleNative(s, e), FALSE)
  <1>1. s \in States(own) /\ e.type \in {"open", "message", "close"}
    BY DEF Sound, Incoming
  <1> DEFINE r1 == [s EXCEPT !.readyState = "open"]
             r2 == [r1 EXCEPT !.openEventPending = TRUE]
             q == Append(s.queuedNativeEvents, e)
             r3 == [s EXCEPT !.queuedNativeEvents = q]
  <1>2. CASE e.type = "open"
    <2>1. InOrder(r1, FALSE)
      BY <1>1, <1>2, InOrderFields
    <2>2. r1 \in Sound(own)
      <3>1. "open" \in ReadyStates
        BY Names
      <3> QED
        BY <3>1, SoundFields
    <2>3. r1.log = s.log /\ r1.openEventDispatched = s.openEventDispatched
      BY <1>1 DEF States
    <2>4. r1 \in States(own)
      BY <2>2 DEF Sound
    <2> HIDE DEF r1
    <2>5. InOrder(r2, FALSE)
      BY <2>1, <2>4, QuietFields, AlikeInOrder
    <2>6. InOrder(s, FALSE)
      BY Weaker
    <2>7. s.readyState \in {"connecting", "open"} => InOrder(DispatchOpen(r1), FALSE)
      <3> SUFFICES ASSUME s.readyState \in {"connecting", "open"}
                   PROVE  InOrder(DispatchOpen(r1), FALSE)
        OBVIOUS
      <3>1. s.readyState \notin {"closing", "closed"}
        OBVIOUS
      <3>2. NothingDeferred /\ ~s.openEventDispatched => ~Has(s.log, "message")
        BY <1>2, <3>1, Zenon DEF InOrder
      <3> QED
        BY <2>1, <2>2, <2>3, <3>2, InOrderOpen
    <2>8. HandleNow(s, e) = IF s.openEventPending THEN r1
                            ELSE IF s.readyState \in {"connecting", "open"}
                            THEN DispatchOpen(r1) ELSE s
      BY <1>2 DEF HandleNow, r1
    <2>9. InOrder(HandleNow(s, e), FALSE)
      BY <2>1, <2>6, <2>7, <2>8, Zenon
    <2>10. HandleNative(s, e) = IF ~(s.announcementPending \/ s.nativeEventDrainActive)
                                THEN HandleNow(s, e) ELSE r2
      BY <1>2, Zenon DEF HandleNative, r1
    <2> HIDE DEF r2
    <2> QED
      BY <1>2, <2>5, <2>9, <2>10, Zenon
  <1>3. CASE e.type # "open"
    <2>1. InOrder(HandleNow(s, e), opening)
      <3>1. CASE e.type = "message"
        <4>1. e.n \in own
          BY <3>1 DEF Incoming
        <4>2. <<e.n>> \in MessageQueues(own)
          BY <4>1 DEF MessageQueues
        <4>3. HandleNow(s, e) = QueueMessages(s, <<e.n>>)
          BY <3>1 DEF HandleNow
        <4> QED
          BY <1>1, <4>2, <4>3, QuietMethods, AlikeInOrder
      <3>2. CASE e.type = "close"
        <4>1. HandleNow(s, e) = QueueNativeClose(s)
          BY <3>2 DEF HandleNow
        <4> QED
          BY <1>1, <4>1, InOrderCloses
      <3> QED
        BY <1>1, <1>3, <3>1, <3>2
    <2>2. NoOpen(q)
      BY <1>1, <1>3, Components, NoOpenQueues DEF InOrder, Closing
    <2>3. InOrder(r3, opening)
      <3> HIDE DEF q
      <3> QED
        BY <1>1, <2>2, InOrderFields
    <2>4. HandleNative(s, e) = IF ~(s.announcementPending \/ s.nativeEventDrainActive)
                               THEN HandleNow(s, e) ELSE r3
      BY <1>3, Zenon DEF HandleNative
    <2> HIDE DEF r3
    <2> QED
      BY <1>3, <2>1, <2>3, <2>4, Zenon
  <1> QED
    BY <1>2, <1>3

LEMMA InOrderPeerEvent ==
    ASSUME NEW own \in SUBSET Nat, NEW s \in Sound(own), NEW opening, InOrder(s, opening),
           NEW e \in Incoming(own), e.type = "open" => opening
    PROVE  /\ e.type # "open" => InOrder(PeerEvent(s, e), opening)
           /\ e.type = "open" => InOrder(PeerEvent(s, e), FALSE)
  <1> DEFINE r == [s EXCEPT !.pendingNativeEvents = Append(@, e)]
  <1>1. InOrder(s, FALSE) /\ s \in States(own) /\ e.type # "datachannel"
    BY Weaker DEF Sound, Incoming
  <1>2. InOrder(r, opening) /\ InOrder(r, FALSE)
    <2>1. Alike(s, r)
      BY <1>1, QuietFields, Zenon
    <2> HIDE DEF r
    <2> QED
      BY <1>1, <2>1, AlikeInOrder
  <1>3. PeerEvent(s, e) = IF s.closed THEN s
                          ELSE IF s.known THEN HandleNative(s, e) ELSE r
    BY <1>1, Zenon DEF PeerEvent
  <1> HIDE DEF r
  <1>4. s.known => /\ e.type # "open" => InOrder(HandleNative(s, e), opening)
                   /\ e.type = "open" => InOrder(HandleNative(s, e), FALSE)
    BY InOrderHandle
  <1> QED
    BY <1>1, <1>2, <1>3, <1>4, Zenon

LEMMA InOrderHandOver ==
    ASSUME NEW own \in SUBSET Nat, NEW s \in States(own), NEW opening, InOrder(s, opening),
           NEW ns \in MessageQueues(own), s.readyState # "closed",
           ~s.messageEventGateActive, NEW r \in HandOver(s, ns)
    PROVE  InOrder(r, opening)
  <1> DEFINE first(k) == DispatchMessages(s, SubSeq(ns, 1, k))
             listens(k) == [first(k) EXCEPT !.messageConsumer = "listener"]
             rest(k) == SubSeq(ns, k + 1, Len(ns))
  <1>1. ASSUME NEW k \in 1 .. Len(ns) PROVE first(k) \in States(own) /\ InOrder(first(k), opening)
    BY Parts, StepsTyped, InOrderDispatchMessages
  <1>2. InOrder(first(Len(ns)), opening)
    BY WholePart, InOrderDispatchMessages
  <1> HIDE DEF first
  <1>3. ASSUME NEW k \in 1 .. Len(ns) PROVE InOrder(ClosePeer(first(k)), opening)
    BY <1>1, InOrderCloses
  <1>4. ASSUME NEW k \in 1 .. Len(ns) - 1
        PROVE  InOrder(QueueMessages(listens(k), rest(k)), opening)
    <2>1. k \in 1 .. Len(ns)
      BY DEF MessageQueues
    <2>2. rest(k) \in MessageQueues(own) /\ "listener" \in Consumers
      BY <2>1, Parts, Names
    <2>3. listens(k) \in States(own) /\ Quiet(first(k), listens(k))
      BY <1>1, <2>1, <2>2, Values, QuietFields
    <2> HIDE DEF listens, rest
    <2>4. InOrder(listens(k), opening)
      BY <1>1, <2>1, <2>3, QuietInOrder
    <2> QED
      BY <2>2, <2>3, <2>4, QuietMethods, AlikeInOrder
  <1>5. \/ r = first(Len(ns))
        \/ \E k \in 1 .. Len(ns) : r = ClosePeer(first(k))
        \/ \E k \in 1 .. Len(ns) - 1 : r = QueueMessages(listens(k), rest(k))
    BY Zenon DEF HandOver, first
  <1> HIDE DEF listens, rest
  <1> QED
    BY <1>2, <1>3, <1>4, <1>5, Zenon

LEMMA InOrderMessages ==
    ASSUME NEW own \in SUBSET Nat, NEW s \in States(own), NEW opening, InOrder(s, opening),
           NEW ns \in MessageQueues(own)
    PROVE  /\ \A r \in MessageBatch(s, ns) : InOrder(r, opening)
           /\ \A r \in FlushMessages(s) : InOrder(r, opening)
           /\ InOrder(AfterMessages(s, ns), opening)
  <1> DEFINE t == [s EXCEPT !.messageConsumerGateActive = FALSE]
             early == [s EXCEPT !.pendingNativeEvents = s.pendingNativeEvents \o Messages(ns)]
             q == s.queuedNativeEvents \o Messages(ns)
             held == [s EXCEPT !.queuedNativeEvents = q]
  <1>1. t \in States(own) /\ Quiet(s, t)
    BY Flags, QuietFields
  <1>2. InOrder(t, opening)
    BY <1>1, QuietInOrder
  <1>3. /\ t.readyState = s.readyState
        /\ t.messageEventGateActive = s.messageEventGateActive
    BY DEF States
  <1>4. InOrder(early, opening)
    <2>1. Alike(s, early)
      BY QuietFields, Zenon
    <2> HIDE DEF early
    <2> QED
      BY <2>1, AlikeInOrder
  <1>5. InOrder(held, opening)
    <2>1. NoOpen(q)
      BY Components, NoOpenQueues DEF InOrder, Closing
    <2> HIDE DEF q
    <2> QED
      BY <2>1, InOrderFields
  <1>6. InOrder(QueueMessages(s, ns), opening)
    BY QuietMethods, AlikeInOrder
  <1>7. ~MessagesHeld(s) => ~s.messageEventGateActive
    BY Zenon DEF MessagesHeld
  <1>8. s.known => s.readyState # "closed"
    BY Zenon DEF InOrder, Closing
  <1> HIDE DEF t
  <1>9. InOrder(QueueMessages(t, ns), opening)
    BY <1>1, <1>2, QuietMethods, AlikeInOrder
  <1>10. ASSUME NEW r \in MessageBatch(s, ns) PROVE InOrder(r, opening)
    <2> DEFINE first(k) == DispatchMessages(t, SubSeq(ns, 1, k))
               cut(k) == [first(k) EXCEPT !.threw = TRUE]
               called == s.known /\ ~MessagesHeld(s)
    <2>1. ASSUME called, NEW k \in 1 .. Len(ns) PROVE InOrder(cut(k), opening)
      <3>1. first(k) \in States(own)
        BY <1>1, Parts, StepsTyped
      <3>2. InOrder(first(k), opening)
        BY <1>1, <1>2, <1>3, <1>7, <1>8, <2>1, Parts, InOrderDispatchMessages
      <3> HIDE DEF first
      <3> QED
        BY <3>1, <3>2, QuietFields, QuietInOrder
    <2>2. ASSUME called, NEW p \in HandOver(t, ns) PROVE InOrder(p, opening)
      BY <1>1, <1>2, <1>3, <1>7, <1>8, <2>2, InOrderHandOver
    <2>3. \/ r = early \/ r = held \/ r = QueueMessages(s, ns) \/ r = QueueMessages(t, ns)
          \/ called /\ (r \in HandOver(t, ns) \/ \E k \in 1 .. Len(ns) : r = cut(k))
      BY <1>10, Zenon DEF MessageBatch, t
    <2> HIDE DEF cut, called, early, held
    <2> QED
      BY <1>4, <1>5, <1>6, <1>9, <2>1, <2>2, <2>3, Zenon DEF early, held
  <1>11. ASSUME NEW r \in FlushMessages(s) PROVE InOrder(r, opening)
    <2> DEFINE empty == [s EXCEPT !.queuedMessageEvents = <<>>]
               idle == [s EXCEPT !.idleCallbacks = s.idleCallbacks + 1]
               u == [t EXCEPT !.queuedMessageEvents = <<>>]
               ms == s.queuedMessageEvents
               v == DispatchMessages(u, <<Head(ms)>>)
               called == s.readyState # "closed" /\ ~MessagesHeld(s)
    <2>1. InOrder(empty, opening)
      BY QuietFields, AlikeInOrder
    <2>2. InOrder(idle, opening)
      <3>1. Quiet(s, idle)
        BY QuietFields, Zenon
      <3> HIDE DEF idle
      <3> QED
        BY <3>1, QuietInOrder
    <2>3. u \in States(own) /\ Alike(t, u)
      BY <1>1, Values, Names, QuietFields
    <2> HIDE DEF u
    <2>4. InOrder(u, opening)
      BY <1>2, <2>3, AlikeInOrder
    <2>5. /\ u.readyState = s.readyState
          /\ u.messageEventGateActive = s.messageEventGateActive
      BY <1>3, <2>3, Zenon DEF Alike
    <2>6. ms \in MessageQueues(own)
      BY Components
    <2> HIDE DEF ms
    <2>7. ASSUME called, ms # <<>>
          PROVE  InOrder(v, opening) /\ InOrder(QueueMessages(v, Tail(ms)), opening)
      <3>1. Head(ms) \in own /\ Tail(ms) \in MessageQueues(own)
        BY <2>6, <2>7, Queues
      <3>2. <<Head(ms)>> \in MessageQueues(own)
        BY <3>1 DEF MessageQueues
      <3>3. v \in States(own)
        BY <2>3, <3>2, StepsTyped
      <3>4. InOrder(v, opening)
        BY <1>7, <2>3, <2>4, <2>5, <2>7, <3>2, InOrderDispatchMessages
      <3> HIDE DEF v
      <3> QED
        BY <3>1, <3>3, <3>4, QuietMethods, AlikeInOrder
    <2>8. ASSUME called, NEW p \in HandOver(u, ms) PROVE InOrder(p, opening)
      BY <1>7, <2>3, <2>4, <2>5, <2>6, <2>8, InOrderHandOver
    <2>9. \/ r = empty \/ r = idle \/ r = s \/ r = u
          \/ called /\ r \in HandOver(u, ms)
          \/ called /\ ms # <<>> /\ (r = v \/ r = QueueMessages(v, Tail(ms)))
      BY <1>11, Zenon DEF FlushMessages, u, ms, t
    <2> HIDE DEF empty, idle, v, called
    <2> QED
      BY <2>1, <2>2, <2>4, <2>7, <2>8, <2>9, Zenon
  <1>12. InOrder(AfterMessages(s, ns), opening)
    BY <1>4, <1>5, <1>6, Zenon DEF AfterMessages
  <1> QED
    BY <1>10, <1>11, <1>12

LEMMA InParts ==
    ASSUME NEW S, NEW q \in Seq(S), q # <<>>, NEW y
    PROVE  /\ In(y, q) <=> Head(q) = y \/ In(y, Tail(q))
           /\ Head(q) \in S /\ Tail(q) \in Seq(S)
  <1>1. /\ DOMAIN q = 1 .. Len(q) /\ Len(q) \in Nat /\ 1 \in DOMAIN q /\ Head(q) = q[1]
        /\ DOMAIN Tail(q) = 1 .. Len(q) - 1
        /\ \A i \in 1 .. Len(q) - 1 : Tail(q)[i] = q[i + 1]
        /\ Head(q) \in S /\ Tail(q) \in Seq(S)
    OBVIOUS
  <1>2. \A i \in DOMAIN q : i = 1 \/ (i - 1 \in DOMAIN Tail(q) /\ q[i] = Tail(q)[i - 1])
    BY <1>1
  <1>3. In(y, q) => Head(q) = y \/ In(y, Tail(q))
    BY <1>1, <1>2 DEF In
  <1>4. Head(q) = y => In(y, q)
    BY <1>1 DEF In
  <1> QED
    BY <1>1, <1>3, <1>4, InTail

LEMMA Stronger ==
    ASSUME NEW s, NEW opening, InOrder(s, FALSE),
           NothingDeferred => s.openEventDispatched \/ s.readyState \in {"closing", "closed"}
    PROVE  InOrder(s, opening)
  BY Zenon DEF InOrder

LEMMA InOrderTimers ==
    ASSUME NEW own \in SUBSET Nat, NEW s \in Sound(own), NEW opening, InOrder(s, opening),
           s.timers # <<>>,
           NEW r \in TimerResults([s EXCEPT !.timers = Tail(@)], Head(s.timers))
    PROVE  InOrder(r, opening)
  <1> DEFINE q == s.timers
             rest == Tail(q)
             task == Head(q)
             t == [s EXCEPT !.timers = rest]
  <1>1. s \in States(own) /\ InOrder(s, FALSE)
    BY Weaker DEF Sound
  <1>2. q \in TimerQueues /\ q \in Seq(TimerTasks) /\ q # <<>>
    BY <1>1, Components DEF TimerQueues
  <1>3. /\ rest \in TimerQueues /\ task \in TimerTasks
        /\ \A y : In(y, q) <=> task = y \/ In(y, rest)
    BY <1>2, InParts DEF TimerQueues
  <1>4. /\ Gated(rest, s.messageEventGateActive)
        /\ task \in {"gate1", "gate2"} => ~In("announceOpen", rest)
    BY <1>2, GatedQueue DEF InOrder
  <1>5. task # "flushDataChannel"
    BY <1>3, Zenon DEF InOrder
  <1>6. t \in Sound(own)
    BY <1>3, SoundFields
  <1>7. r \in TimerResults(t, task)
    OBVIOUS
  <1> HIDE DEF rest, task
  <1>8. InOrder(t, FALSE) /\ (task # "announceOpen" => InOrder(t, opening))
    <2>1. ~In("flushDataChannel", rest) /\ (In("announceOpen", rest) => In("announceOpen", q))
      BY <1>3, Zenon DEF InOrder
    <2>2. InOrder(t, FALSE)
      BY <1>1, <1>4, <2>1 DEF InOrder, Closing, States
    <2>3. task # "announceOpen" => (In("announceOpen", q) <=> In("announceOpen", rest))
      BY <1>3, Zenon
    <2>4. task # "announceOpen" => InOrder(t, opening)
      BY <1>1, <1>4, <2>1, <2>3 DEF InOrder, Closing, States
    <2> QED
      BY <2>2, <2>4
  <1>9. /\ t \in States(own) /\ t.timers = rest /\ t.log = s.log
        /\ t.readyState = s.readyState
    <2>1. t.timers = rest /\ t.log = s.log /\ t.readyState = s.readyState
      BY <1>1 DEF States
    <2> QED
      BY <1>6, <2>1 DEF Sound
  <1> HIDE DEF t
  <1>10. CASE task = "announceOpen"
    <2>1. r = IF t.readyState = "open" THEN DispatchOpen(t) ELSE t
      BY <1>7, <1>10 DEF TimerResults
    <2>2. ~Has(t.log, "message")
      BY <1>3, <1>9, <1>10, Zenon DEF InOrder
    <2>3. t.readyState \in {"open", "closing", "closed"}
      BY <1>8, <1>9, Components DEF ReadyStates, InOrder
    <2>4. CASE t.readyState = "open"
      <3>1. /\ InOrder(DispatchOpen(t), FALSE)
            /\ NothingDeferred => DispatchOpen(t).openEventDispatched
        BY <1>6, <1>8, <2>2, <2>4, InOrderOpen
      <3> QED
        BY <2>1, <2>4, <3>1, Stronger
    <2>5. CASE t.readyState \in {"closing", "closed"}
      BY <1>8, <2>1, <2>5, Stronger
    <2> QED
      BY <2>3, <2>4, <2>5
  <1>11. CASE task = "gate1"
    <2>1. r = Later(t, "gate2")
      BY <1>7, <1>11 DEF TimerResults
    <2> QED
      BY <1>4, <1>8, <1>9, <1>11, <2>1, Names, InOrderLater
  <1>12. CASE task = "gate2"
    <2> DEFINE u == [t EXCEPT !.messageEventGateActive = FALSE]
    <2>1. r = ScheduleMessageFlush(u)
      BY <1>7, <1>12 DEF TimerResults
    <2>2. InOrder(u, opening)
      BY <1>4, <1>8, <1>9, <1>12, InOrderFields
    <2>3. u \in States(own)
      BY <1>9, Flags
    <2> HIDE DEF u
    <2> QED
      BY <2>1, <2>2, <2>3, QuietMethods, QuietInOrder
  <1>13. CASE task = "pollClose"
    <2>1. r = PollClose(t)
      BY <1>7, <1>13 DEF TimerResults
    <2> QED
      BY <1>8, <1>9, <1>13, <2>1, InOrderCloses
  <1>14. CASE task \in {"finishClose", "closeLocal"}
    <2>1. r = CloseIfClosing(t)
      BY <1>7, <1>14 DEF TimerResults
    <2> QED
      BY <1>8, <1>9, <1>14, <2>1, InOrderCloses
  <1> QED
    BY <1>3, <1>5, <1>10, <1>11, <1>12, <1>13, <1>14 DEF TimerTasks

LEMMA InOrderDrain ==
    ASSUME NEW own \in SUBSET Nat, NEW s \in Sound(own), NEW opening, InOrder(s, opening)
    PROVE  InOrder(DrainQueuedEvent(s), opening)
  <1> DEFINE events == s.queuedNativeEvents
             e == Head(events)
             more == Tail(events)
             u == [s EXCEPT !.queuedNativeEvents = more]
             v == HandleNow(u, e)
  <1>1. s \in States(own) /\ NoOpen(events)
    BY DEF Sound, InOrder, Closing
  <1>2. events \in EventQueues(own)
    BY <1>1, Components
  <1> HIDE DEF events
  <1>3. CASE events = <<>>
    <2>1. DrainQueuedEvent(s) = [s EXCEPT !.nativeEventDrainActive = FALSE]
      BY <1>3, Zenon DEF DrainQueuedEvent, events
    <2> QED
      BY <1>1, <2>1, QuietFields, AlikeInOrder
  <1>4. CASE events # <<>>
    <2>1. e \in Incoming(own) /\ more \in EventQueues(own) /\ NoOpen(more) /\ e.type # "open"
      BY <1>1, <1>2, <1>4, Queues, NoOpenQueues
    <2> HIDE DEF e, more
    <2>2. u \in Sound(own) /\ InOrder(u, opening)
      BY <1>1, <2>1, SoundFields, InOrderFields
    <2> HIDE DEF u
    <2>3. v \in Sound(own) /\ InOrder(v, opening)
      BY <2>1, <2>2, SoundMethods, InOrderHandle
    <2> HIDE DEF v
    <2>4. v \in States(own)
      BY <2>3 DEF Sound
    <2>5. /\ InOrder(Soon(v, "drainNativeEvents"), opening)
          /\ InOrder([v EXCEPT !.nativeEventDrainActive = FALSE], opening)
      BY <2>3, <2>4, QuietTasks, QuietFields, AlikeInOrder
    <2>6. DrainQueuedEvent(s) = IF more # <<>> THEN Soon(v, "drainNativeEvents")
                                ELSE [v EXCEPT !.nativeEventDrainActive = FALSE]
      BY <1>4, Zenon DEF DrainQueuedEvent, events, e, more, u, v
    <2> QED
      BY <2>5, <2>6
  <1> QED
    BY <1>3, <1>4

LEMMA QuietIce ==
    ASSUME NEW own \in SUBSET Nat, NEW s \in States(own),
           ~s.closed => s.deferredIceEvents > 0
    PROVE  /\ Alike(s, FlushIceEvents(s))
           /\ ~s.openDeferredForIce => Quiet(s, FlushIceEvents(s))
  <1> DEFINE idle == [s EXCEPT !.iceEventFlushScheduled = FALSE]
             left == IF s.closed THEN 0 ELSE s.deferredIceEvents - 1
             t == [idle EXCEPT !.deferredIceEvents = left]
  <1>1. left \in IceCounts
    <2>1. s.deferredIceEvents \in IceCounts /\ 0 \in IceCounts
      BY Components, Names
    <2> QED
      BY <2>1, IncomingAssumption DEF IceCounts, IncomingAssumption
  <1> HIDE DEF left
  <1>2. /\ idle \in States(own) /\ Quiet(s, idle)
    BY Flags, QuietFields
  <1>3. idle.openDeferredForIce = s.openDeferredForIce
    BY DEF States
  <1> HIDE DEF idle
  <1>4. /\ t \in States(own) /\ Quiet(idle, t)
    BY <1>1, <1>2, Values, QuietFields
  <1>5. t.openDeferredForIce = s.openDeferredForIce
    BY <1>2, <1>3 DEF States
  <1> HIDE DEF t
  <1>6. Quiet(s, t)
    BY <1>2, <1>4, QuietTwice
  <1>7. Quiet(s, ScheduleIceFlush(idle)) /\ Quiet(s, ScheduleIceFlush(t))
    BY <1>2, <1>4, <1>6, QuietMethods, QuietTwice
  <1>8. Alike(s, Soon(t, "retryOpen"))
    BY <1>4, <1>6, QuietTasks, QuietTwice DEF Quiet
  <1>9. \/ FlushIceEvents(s) \in {ScheduleIceFlush(idle), ScheduleIceFlush(t), t}
        \/ s.openDeferredForIce /\ FlushIceEvents(s) = Soon(t, "retryOpen")
    BY <1>5, Zenon DEF FlushIceEvents, idle, left, t
  <1> QED
    BY <1>6, <1>7, <1>8, <1>9, Zenon DEF Quiet

\* What every state knows of the head of immediates.
LEMMA FirstImmediate ==
    ASSUME NEW own \in SUBSET Nat, NEW s \in Sound(own), s.immediates # <<>>
    PROVE  LET t == [s EXCEPT !.immediates = Tail(@)]
               task == Head(s.immediates)
           IN  /\ t \in Sound(own) /\ task \in ImmediateTasks /\ Quiet(s, t)
               /\ In(task, s.immediates)
               /\ task = "flushIceEvents" /\ ~t.closed => t.deferredIceEvents > 0
               /\ task = "retryOpen" => ~NothingDeferred
  <1> DEFINE q == s.immediates
             rest == Tail(q)
             task == Head(q)
             t == [s EXCEPT !.immediates = rest]
  <1>1. s \in States(own) /\ IceFlush(s)
    BY DEF Sound
  <1>2. q \in ImmediateQueues /\ q \in Seq(ImmediateTasks) /\ q # <<>>
    BY <1>1, Components DEF ImmediateQueues
  <1>3. t \in Sound(own)
    BY SoundRest
  <1>4. /\ task \in ImmediateTasks
        /\ \A y : In(y, q) <=> task = y \/ In(y, rest)
    BY <1>2, InParts
  <1> HIDE DEF rest, task
  <1>5. /\ t.closed = s.closed /\ t.deferredIceEvents = s.deferredIceEvents
        /\ t.immediates = rest
        /\ t.pendingNativeEvents = s.pendingNativeEvents
        /\ t.announcementPending = s.announcementPending
        /\ t.openEventPending = s.openEventPending
        /\ t.openDeferredForIce = s.openDeferredForIce
        /\ t.nativeEventDrainActive = s.nativeEventDrainActive
        /\ t.queuedMessageEvents = s.queuedMessageEvents
    BY <1>1 DEF States
  <1>6. Alike(s, t)
    BY <1>1, QuietFields
  <1> HIDE DEF t
  <1>7. Quiet(s, t)
    BY <1>4, <1>5, <1>6, Zenon DEF Quiet
  <1>8. In(task, q)
    BY <1>4
  <1>9. task = "flushIceEvents" /\ ~t.closed => t.deferredIceEvents > 0
    BY <1>1, <1>5, <1>8 DEF In, IceFlush
  <1>10. task = "retryOpen" => ~NothingDeferred
    BY <1>1, <1>8, Zenon DEF IceFlush, Undeferred
  <1> QED
    BY <1>3, <1>4, <1>7, <1>8, <1>9, <1>10 DEF t, rest, task

LEMMA InOrderImmediates ==
    ASSUME NEW own \in SUBSET Nat, NEW s \in Sound(own), NEW opening, InOrder(s, opening),
           s.immediates # <<>>,
           NEW r \in ImmediateResults([s EXCEPT !.immediates = Tail(@)],
                                      Head(s.immediates))
    PROVE  InOrder(r, opening)
  <1> DEFINE task == Head(s.immediates)
             t == [s EXCEPT !.immediates = Tail(@)]
  <1>1. /\ t \in Sound(own) /\ task \in ImmediateTasks /\ Quiet(s, t)
        /\ task = "flushIceEvents" /\ ~t.closed => t.deferredIceEvents > 0
        /\ task = "retryOpen" => ~NothingDeferred
    BY FirstImmediate
  <1>2. r \in ImmediateResults(t, task)
    OBVIOUS
  <1> HIDE DEF t, task
  <1>3. t \in States(own) /\ InOrder(t, opening)
    BY <1>1, QuietInOrder DEF Sound
  <1>4. CASE task = "flushMessages"
    <2> DEFINE u == [t EXCEPT !.messageEventFlushScheduled = FALSE]
    <2>1. r \in FlushMessages(u)
      BY <1>2, <1>4 DEF ImmediateResults
    <2>2. u \in States(own) /\ Quiet(t, u) /\ <<>> \in MessageQueues(own)
      BY <1>3, Flags, QuietFields, Names
    <2> HIDE DEF u
    <2>3. InOrder(u, opening)
      BY <1>3, <2>2, QuietInOrder
    <2> QED
      BY <2>1, <2>2, <2>3, InOrderMessages
  <1>5. CASE task = "rescheduleFlush"
    <2>1. r = ScheduleMessageFlush(t)
      BY <1>2, <1>5 DEF ImmediateResults
    <2> QED
      BY <1>3, <2>1, QuietMethods, QuietInOrder
  <1>6. CASE task = "drainNativeEvents"
    <2>1. r = DrainQueuedEvent(t)
      BY <1>2, <1>6 DEF ImmediateResults
    <2> QED
      BY <1>1, <1>3, <2>1, InOrderDrain
  <1>7. CASE task = "closeNative"
    <2>1. r = Later(t, "closeLocal")
      BY <1>2, <1>7 DEF ImmediateResults
    <2> QED
      BY <1>3, <2>1, Names, InOrderLater
  <1>8. CASE task = "flushIceEvents"
    <2>1. r = FlushIceEvents(t)
      BY <1>2, <1>8 DEF ImmediateResults
    <2> QED
      BY <1>1, <1>3, <1>8, <2>1, QuietIce, AlikeInOrder
  <1>9. CASE task = "retryOpen"
    <2> DEFINE u == [t EXCEPT !.openDeferredForIce = FALSE]
    <2>1. r = DispatchOpen(u)
      BY <1>2, <1>9 DEF ImmediateResults
    <2>2. u \in Sound(own) /\ Alike(t, u)
      BY <1>1, <1>3, SoundFields, QuietFields
    <2> HIDE DEF u
    <2>3. InOrder(u, opening)
      BY <1>3, <2>2, AlikeInOrder
    <2> QED
      BY <1>1, <1>9, <2>1, <2>2, <2>3, InOrderOpen
  <1> QED
    BY <1>1, <1>4, <1>5, <1>6, <1>7, <1>8, <1>9 DEF ImmediateTasks

-----------------------------------------------------------------------------
\* The application was not yet told of the channel.

LEMMA OnlyAppended ==
    ASSUME NEW log \in Logs, NEW e \in Events, NEW x, Only(x, log), e.type = x
    PROVE  Only(x, Append(log, e))
  <1> DEFINE r == Append(log, e)
  <1>1. /\ DOMAIN log = 1 .. Len(log) /\ Len(log) \in Nat
        /\ DOMAIN r = 1 .. Len(log) + 1 /\ r[Len(log) + 1] = e
        /\ \A i \in 1 .. Len(log) : r[i] = log[i]
    BY AppendProperties DEF Logs
  <1> HIDE DEF r
  <1>2. \A i \in DOMAIN r : i \in DOMAIN log \/ i = Len(log) + 1
    BY <1>1
  <1>3. Only(x, r)
    BY <1>1, <1>2, Zenon DEF Only
  <1> QED
    BY <1>3 DEF r

LEMMA OnlyMessages ==
    ASSUME NEW own \in SUBSET Nat, NEW q \in EventQueues(own),
           NEW ns \in MessageQueues(own), Only("message", q)
    PROVE  Only("message", q \o Messages(ns))
  <1> DEFINE more == Messages(ns)
             r == q \o more
  <1>1. more \in Seq(Incoming(own)) /\ q \in Seq(Incoming(own))
    BY MessagesTyped DEF EventQueues
  <1>2. \A i \in DOMAIN more : more[i].type = "message"
    BY DEF Messages, Message, Event
  <1> HIDE DEF more
  <1>3. /\ DOMAIN r = 1 .. Len(q) + Len(more) /\ DOMAIN more = 1 .. Len(more)
        /\ Len(more) \in Nat /\ Len(q) \in Nat /\ DOMAIN q = 1 .. Len(q)
        /\ \A i \in 1 .. Len(q) : r[i] = q[i]
        /\ \A i \in 1 .. Len(q) + Len(more) : i > Len(q) => r[i] = more[i - Len(q)]
    BY <1>1, ConcatProperties
  <1> HIDE DEF r
  <1>4. \A i \in DOMAIN r : i \in DOMAIN q \/ (i > Len(q) /\ i - Len(q) \in DOMAIN more)
    BY <1>3
  <1>5. Only("message", r)
    BY <1>2, <1>3, <1>4 DEF Only
  <1> QED
    BY <1>5 DEF r, more

LEMMA OnlyOthers ==
    /\ \A q : Only("message", q) => NoOpen(q)
    /\ \A log : Only("close", log) => \A x : x # "close" => ~Has(log, x)
    /\ \A x : Only(x, <<>>) /\ LogFinal(<<>>) /\ ~In(x, <<>>) /\ ~Has(<<>>, x)
  <1>1. "message" # "open"
    OBVIOUS
  <1>2. \A q : Only("message", q) => NoOpen(q)
    BY <1>1, Zenon DEF Only, NoOpen
  <1>3. \A log : Only("close", log) => \A x : x # "close" => ~Has(log, x)
    BY Zenon DEF Only, Has
  <1>4. \A x : Only(x, <<>>) /\ LogFinal(<<>>) /\ ~In(x, <<>>) /\ ~Has(<<>>, x)
    BY DEF Only, LogFinal, In, Has
  <1> QED
    BY <1>2, <1>3, <1>4, Zenon

LEMMA UnannouncedCloses ==
    ASSUME NEW own \in SUBSET Nat, NEW s \in States(own), Unannounced(s)
    PROVE  /\ Unannounced(HandleClose(s))
           /\ Unannounced(ClosePeer(s))
           /\ Fresh(s) => Fresh(ClosePeer(s))
  <1>1. ASSUME NEW p \in States(own), Unannounced(p) PROVE Unannounced(HandleClose(p))
    <2> DEFINE e == Event("close", 0)
               q == Append(p.log, e)
               v == [p EXCEPT !.readyState = "closed", !.known = FALSE]
               r == Dispatch(v, e)
    <2>1. CASE p.readyState = "closed"
      BY <1>1, <2>1, Zenon DEF HandleClose
    <2>2. CASE p.readyState # "closed"
      <3>1. p.log \in Logs /\ e \in Events /\ e.type = "close"
        BY Components, EventsAre DEF Event
      <3>2. ~Has(p.log, "close") /\ LogFinal(p.log) /\ Only("close", p.log)
        BY <1>1, <2>2 DEF Unannounced, Closing
      <3> HIDE DEF e
      <3>3. LogFinal(q) /\ Only("close", q)
        BY <3>1, <3>2, LogAppended, OnlyAppended
      <3>4. r = [v EXCEPT !.log = q]
        BY DEF Dispatch, States
      <3>5. HandleClose(p) = r
        BY <2>2, Zenon DEF HandleClose, e
      <3> HIDE DEF q, r
      <3>6. /\ r.log = q /\ r.readyState = "closed" /\ ~r.known
            /\ r.queuedNativeEvents = p.queuedNativeEvents
            /\ r.messageEventGateActive = p.messageEventGateActive
            /\ r.pendingDataChannelEvent = p.pendingDataChannelEvent
            /\ r.dataChannelFlushScheduled = p.dataChannelFlushScheduled
            /\ r.timers = p.timers
            /\ r.openEventPending = p.openEventPending
            /\ r.openDeferredForIce = p.openDeferredForIce
            /\ r.nativeEventDrainActive = p.nativeEventDrainActive
            /\ r.queuedMessageEvents = p.queuedMessageEvents
            /\ r.immediates = p.immediates
        BY <3>4 DEF States
      <3>7. "closed" # "connecting"
        OBVIOUS
      <3> QED
        BY <1>1, <3>3, <3>5, <3>6, <3>7, Zenon DEF Unannounced, Closing
    <2> QED
      BY <2>1, <2>2
  <1> DEFINE r1 == [s EXCEPT !.closed = TRUE]
             r == [r1 EXCEPT !.deferredIceEvents = 0]
  <1>2. r1 \in States(own) /\ Quiet(s, r1) /\ r1.known = s.known
    <2>1. r1 \in States(own)
      BY Flags
    <2>2. Quiet(s, r1)
      BY QuietFields, Zenon
    <2> QED
      BY <2>1, <2>2, Zenon DEF Quiet, Alike
  <1>3. ClosePeer(s) = IF r.known THEN HandleClose(r) ELSE r
    BY Zenon DEF ClosePeer
  <1> HIDE DEF r1
  <1>4. r \in States(own) /\ Quiet(r1, r) /\ r.known = s.known
    BY <1>2, Values, Names, QuietFields DEF Quiet, Alike
  <1> HIDE DEF r
  <1>5. Unannounced(r) /\ (Fresh(s) => Fresh(r))
    BY <1>2, <1>4, QuietInOrder
  <1>6. Unannounced(HandleClose(r))
    BY <1>1, <1>4, <1>5
  <1>7. Fresh(s) => ~r.known
    BY <1>4, Zenon DEF Fresh
  <1> QED
    BY <1>1, <1>3, <1>5, <1>6, <1>7, Zenon

LEMMA UnannouncedListens ==
    ASSUME NEW own \in SUBSET Nat, NEW s \in States(own), Unannounced(s)
    PROVE  /\ Unannounced(ScheduleDataChannelFlush(s))
           /\ Fresh(s) => Fresh(ScheduleDataChannelFlush(s))
  <1> DEFINE v == [s EXCEPT !.dataChannelFlushScheduled = TRUE]
             q == Append(s.timers, "flushDataChannel")
             r == Later(v, "flushDataChannel")
  <1>1. CASE s.dataChannelFlushScheduled \/ ~s.pendingDataChannelEvent
    BY <1>1, Zenon DEF ScheduleDataChannelFlush
  <1>2. CASE ~s.dataChannelFlushScheduled /\ s.pendingDataChannelEvent
    <2>1. s.timers = <<>>
      BY <1>2, Zenon DEF Unannounced
    <2>2. q = <<"flushDataChannel">>
      BY <2>1
    <2>3. r = [v EXCEPT !.timers = q]
      BY DEF Later, States
    <2>4. ScheduleDataChannelFlush(s) = r
      BY <1>2, Zenon DEF ScheduleDataChannelFlush
    <2> HIDE DEF q, r
    <2>5. /\ r.timers = q /\ r.dataChannelFlushScheduled
          /\ r.known = s.known /\ r.readyState = s.readyState /\ r.log = s.log
          /\ r.queuedNativeEvents = s.queuedNativeEvents
          /\ r.messageEventGateActive = s.messageEventGateActive
          /\ r.pendingDataChannelEvent = s.pendingDataChannelEvent
          /\ r.announcementPending = s.announcementPending
          /\ r.openEventPending = s.openEventPending
          /\ r.openDeferredForIce = s.openDeferredForIce
          /\ r.nativeEventDrainActive = s.nativeEventDrainActive
          /\ r.queuedMessageEvents = s.queuedMessageEvents
          /\ r.immediates = s.immediates
      BY <2>3 DEF States
    <2>6. Unannounced(r)
      BY <1>2, <2>2, <2>5, Zenon DEF Unannounced, Closing
    <2>7. ~Fresh(s)
      BY <1>2, Zenon DEF Fresh
    <2> QED
      BY <2>4, <2>6, <2>7
  <1> QED
    BY <1>1, <1>2

LEMMA UnannouncedMessages ==
    ASSUME NEW own \in SUBSET Nat, NEW s \in States(own), Unannounced(s),
           NEW ns \in MessageQueues(own),
           NEW r \in MessageBatch(s, ns) \cup FlushMessages(s) \cup {AfterMessages(s, ns)}
    PROVE  /\ Unannounced(r)
           /\ Fresh(s) => Fresh(r)
  <1> DEFINE p == s.pendingNativeEvents \o Messages(ns)
             q == s.queuedNativeEvents \o Messages(ns)
             early == [s EXCEPT !.pendingNativeEvents = p]
             held == [s EXCEPT !.queuedNativeEvents = q]
             t == [s EXCEPT !.messageConsumerGateActive = FALSE]
             u == [t EXCEPT !.queuedMessageEvents = <<>>]
             empty == [s EXCEPT !.queuedMessageEvents = <<>>]
             idle == [s EXCEPT !.idleCallbacks = s.idleCallbacks + 1]
  <1>1. NoOpen(q) /\ (Fresh(s) => Only("message", p))
    BY Components, NoOpenQueues, OnlyMessages DEF Unannounced, Closing, Fresh
  <1> HIDE DEF p, q
  <1>2. Unannounced(early) /\ (Fresh(s) => Fresh(early))
    <2>1. /\ early.pendingNativeEvents = p /\ early.known = s.known
          /\ early.readyState = s.readyState /\ early.log = s.log
          /\ early.pendingDataChannelEvent = s.pendingDataChannelEvent
      BY DEF States
    <2>2. Fresh(s) => Fresh(early)
      BY <1>1, <2>1, Zenon DEF Fresh
    <2>3. Unannounced(early)
      BY DEF Unannounced, Closing, States
    <2> QED
      BY <2>2, <2>3
  <1>3. Unannounced(held)
    BY <1>1 DEF Unannounced, Closing, States
  <1>4. s.queuedMessageEvents = <<>> /\ (s.known => s.announcementPending)
        /\ (Fresh(s) => ~s.known)
    BY Zenon DEF Unannounced, Fresh
  <1>5. Quiet(s, empty) /\ Quiet(s, u)
    BY <1>4 DEF Quiet, Alike, States
  <1>6. Quiet(s, idle)
    BY QuietFields, Zenon
  <1>7. \/ r = early /\ ~s.known
        \/ r = held /\ s.known
        \/ r = s \/ r = empty \/ r = idle \/ r = u
    BY <1>4, Zenon DEF MessageBatch, FlushMessages, AfterMessages, p, q
  <1> HIDE DEF early, held, empty, idle, u
  <1> QED
    BY <1>2, <1>3, <1>4, <1>5, <1>6, <1>7, QuietInOrder, Zenon

LEMMA UnannouncedPeerEvent ==
    ASSUME NEW own \in SUBSET Nat, NEW s \in States(own), Unannounced(s),
           NEW e \in Incoming(own)
    PROVE  /\ Unannounced(PeerEvent(s, e))
           /\ e.type = "message" /\ Fresh(s) => Fresh(PeerEvent(s, e))
  <1> DEFINE p == Append(s.pendingNativeEvents, e)
             q == Append(s.queuedNativeEvents, e)
             early == [s EXCEPT !.pendingNativeEvents = p]
             held == [s EXCEPT !.queuedNativeEvents = q]
             opened == [s EXCEPT !.readyState = "open", !.openEventPending = TRUE]
  <1>1. e.type \in {"open", "message", "close"} /\ e \in Events /\ e.type # "datachannel"
    BY DEF Incoming
  <1>2. e.type # "open" => NoOpen(q)
    BY Components, NoOpenQueues DEF Unannounced, Closing
  <1>3. e.type = "message" /\ Fresh(s) => Only("message", p)
    <2>1. s.pendingNativeEvents \in Logs
      <3>1. s.pendingNativeEvents \in Seq(Incoming(own))
        BY Components DEF EventQueues
      <3>2. Incoming(own) \subseteq Events
        BY DEF Incoming
      <3> QED
        BY <3>1, <3>2, SeqSubset DEF Logs
    <2> QED
      BY <1>1, <2>1, OnlyAppended DEF Fresh
  <1> HIDE DEF p, q
  <1>4. Unannounced(early)
    BY DEF Unannounced, Closing, States
  <1>5. e.type = "message" /\ Fresh(s) => Fresh(early)
    <2>1. /\ early.pendingNativeEvents = p /\ early.known = s.known
          /\ early.readyState = s.readyState /\ early.log = s.log
          /\ early.pendingDataChannelEvent = s.pendingDataChannelEvent
      BY DEF States
    <2> QED
      BY <1>3, <2>1, Zenon DEF Fresh
  <1>6. e.type # "open" => Unannounced(held)
    BY <1>2 DEF Unannounced, Closing, States
  <1>7. s.known => Unannounced(opened)
    <2>1. /\ opened.known = s.known /\ opened.readyState = "open" /\ opened.log = s.log
          /\ opened.queuedNativeEvents = s.queuedNativeEvents
          /\ opened.messageEventGateActive = s.messageEventGateActive
          /\ opened.pendingDataChannelEvent = s.pendingDataChannelEvent
          /\ opened.dataChannelFlushScheduled = s.dataChannelFlushScheduled
          /\ opened.timers = s.timers /\ opened.immediates = s.immediates
          /\ opened.announcementPending = s.announcementPending
          /\ opened.openEventPending
          /\ opened.openDeferredForIce = s.openDeferredForIce
          /\ opened.nativeEventDrainActive = s.nativeEventDrainActive
          /\ opened.queuedMessageEvents = s.queuedMessageEvents
      BY DEF States
    <2>2. "open" # "closed" /\ "open" # "connecting"
      OBVIOUS
    <2> HIDE DEF opened
    <2> QED
      BY <2>1, <2>2, Zenon DEF Unannounced, Closing
  <1>8. s.known => s.announcementPending
    BY Zenon DEF Unannounced
  <1>9. Fresh(s) => ~s.known
    BY Zenon DEF Fresh
  <1>10. \/ PeerEvent(s, e) = s
         \/ PeerEvent(s, e) = early /\ ~s.known
         \/ PeerEvent(s, e) = held /\ e.type # "open" /\ s.known
         \/ PeerEvent(s, e) = opened /\ s.known
    BY <1>1, <1>8, Zenon DEF PeerEvent, HandleNative, p, q
  <1> HIDE DEF early, held, opened
  <1> QED
    BY <1>4, <1>5, <1>6, <1>7, <1>9, <1>10, Zenon

LEMMA UnannouncedAnnounce ==
    ASSUME NEW own \in SUBSET Nat, NEW s \in States(own), Unannounced(s), Fresh(s)
    PROVE  Unannounced(Announce(s))
  <1> DEFINE v == [s EXCEPT !.known = TRUE,
                            !.readyState = "open",
                            !.openEventPending = TRUE,
                            !.announcementPending = TRUE,
                            !.pendingDataChannelEvent = TRUE,
                            !.queuedNativeEvents = s.pendingNativeEvents,
                            !.pendingNativeEvents = <<>>]
  <1>1. Announce(s) = ScheduleDataChannelFlush(v)
    BY DEF Announce
  <1>2. /\ v.known /\ v.readyState = "open" /\ v.log = s.log
        /\ v.queuedNativeEvents = s.pendingNativeEvents
        /\ v.messageEventGateActive = s.messageEventGateActive
        /\ v.pendingDataChannelEvent
        /\ v.dataChannelFlushScheduled = s.dataChannelFlushScheduled
        /\ v.timers = s.timers /\ v.immediates = s.immediates
        /\ v.announcementPending
        /\ v.openEventPending
        /\ v.openDeferredForIce = s.openDeferredForIce
        /\ v.nativeEventDrainActive = s.nativeEventDrainActive
        /\ v.queuedMessageEvents = s.queuedMessageEvents
    BY DEF States
  <1>3. v \in States(own)
    BY Names, Components DEF States
  <1> HIDE DEF v
  <1>4. NoOpen(v.queuedNativeEvents)
    BY <1>2, OnlyOthers DEF Fresh
  <1>5. ~Has(v.log, "close")
    BY <1>2, OnlyOthers DEF Fresh
  <1>6. "open" # "closed" /\ "open" # "connecting"
    OBVIOUS
  <1>7. s.dataChannelFlushScheduled => s.pendingDataChannelEvent
    BY Zenon DEF Unannounced
  <1>8. Unannounced(v)
    BY <1>2, <1>4, <1>5, <1>6, <1>7, Zenon DEF Unannounced, Closing
  <1> QED
    BY <1>1, <1>3, <1>8, UnannouncedListens

LEMMA UnannouncedImmediates ==
    ASSUME NEW own \in SUBSET Nat, NEW s \in Sound(own), Unannounced(s),
           s.immediates # <<>>,
           NEW r \in ImmediateResults([s EXCEPT !.immediates = Tail(@)],
                                      Head(s.immediates))
    PROVE  Unannounced(r) /\ (Fresh(s) => Fresh(r))
  <1> DEFINE task == Head(s.immediates)
             t == [s EXCEPT !.immediates = Tail(@)]
  <1>1. /\ t \in Sound(own) /\ task \in ImmediateTasks /\ Quiet(s, t)
        /\ In(task, s.immediates)
        /\ task = "flushIceEvents" /\ ~t.closed => t.deferredIceEvents > 0
    BY FirstImmediate
  <1>2. r \in ImmediateResults(t, task)
    OBVIOUS
  <1> HIDE DEF t, task
  <1>3. t \in States(own) /\ Unannounced(t) /\ (Fresh(s) => Fresh(t))
    BY <1>1, QuietInOrder DEF Sound
  <1>4. task \notin Loud
    BY <1>1, Zenon DEF Unannounced
  <1>5. CASE task = "flushMessages"
    <2> DEFINE u == [t EXCEPT !.messageEventFlushScheduled = FALSE]
    <2>1. r \in FlushMessages(u)
      BY <1>2, <1>5 DEF ImmediateResults
    <2>2. u \in States(own) /\ Quiet(t, u) /\ <<>> \in MessageQueues(own)
      BY <1>3, Flags, QuietFields, Names
    <2> HIDE DEF u
    <2>3. Unannounced(u) /\ (Fresh(s) => Fresh(u))
      BY <1>3, <2>2, QuietInOrder
    <2> QED
      BY <2>1, <2>2, <2>3, UnannouncedMessages
  <1>6. CASE task = "rescheduleFlush"
    <2>1. r = ScheduleMessageFlush(t)
      BY <1>2, <1>6 DEF ImmediateResults
    <2> QED
      BY <1>3, <2>1, QuietMethods, QuietInOrder
  <1>7. CASE task = "flushIceEvents"
    <2>1. r = FlushIceEvents(t)
      BY <1>2, <1>7 DEF ImmediateResults
    <2>2. ~t.openDeferredForIce
      BY <1>3, Zenon DEF Unannounced
    <2> QED
      BY <1>1, <1>3, <1>7, <2>1, <2>2, QuietIce, QuietInOrder
  <1> QED
    BY <1>1, <1>4, <1>5, <1>6, <1>7 DEF ImmediateTasks, Loud

-----------------------------------------------------------------------------
\* The datachannel event: the application is told of the channel.

\* Between the event and the release of what waited for it.
JustTold(s) ==
    /\ InOrder(s, FALSE)
    /\ s.timers = <<>>
    /\ ~Has(s.log, "message")
    /\ s.openEventPending
    /\ ~s.messageEventGateActive

LEMMA ToldOf ==
    ASSUME NEW own \in SUBSET Nat, NEW s \in States(own), Unannounced(s), s.timers # <<>>
    PROVE  /\ ~Fresh(s)
           /\ Head(s.timers) = "flushDataChannel"
           /\ Tail(s.timers) = <<>>
           /\ s.pendingDataChannelEvent /\ s.openEventPending
           /\ s.readyState # "connecting"
  <1>1. s.dataChannelFlushScheduled /\ s.timers = <<"flushDataChannel">>
    BY Zenon DEF Unannounced
  <1>2. Head(s.timers) = "flushDataChannel" /\ Tail(s.timers) = <<>>
    BY <1>1
  <1>3. /\ s.pendingDataChannelEvent /\ s.openEventPending
        /\ s.readyState # "connecting"
    BY <1>1, Zenon DEF Unannounced
  <1>4. ~Fresh(s)
    BY <1>3, Zenon DEF Fresh
  <1> QED
    BY <1>2, <1>3, <1>4

LEMMA ToldFirst ==
    ASSUME NEW log \in Logs, Only("close", log), LogFinal(log)
    PROVE  LET r == Append(log, Event("datachannel", 0))
           IN  /\ LogAnnounced(r) /\ LogFinal(r) /\ LogOpenFirst(r)
               /\ Has(r, "datachannel") /\ ~Has(r, "message")
               /\ Has(r, "close") => Has(log, "close")
  <1> DEFINE e == Event("datachannel", 0)
             r == Append(log, e)
  <1>1. e \in Events /\ e.type = "datachannel"
    BY EventsAre DEF Event
  <1> HIDE DEF e
  <1>2. /\ DOMAIN log = 1 .. Len(log) /\ Len(log) \in Nat
        /\ DOMAIN r = 1 .. Len(log) + 1 /\ r[Len(log) + 1] = e
        /\ \A i \in 1 .. Len(log) : r[i] = log[i]
    BY <1>1, AppendProperties DEF Logs
  <1>3. /\ \A x : Has(r, x) <=> Has(log, x) \/ e.type = x
        /\ LogFinal(r)
    BY <1>1, LogAppended
  <1>4. ~Has(log, "message")
    BY OnlyOthers
  <1> HIDE DEF r
  <1>5. \A i \in DOMAIN r : r[i].type \in {"close", "datachannel"}
    <2>1. \A i \in DOMAIN r : i \in DOMAIN log \/ i = Len(log) + 1
      BY <1>2
    <2> QED
      BY <1>1, <1>2, <2>1 DEF Only
  <1>6. LogAnnounced(r) /\ LogOpenFirst(r)
    BY <1>5 DEF LogAnnounced, LogOpenFirst
  <1>7. /\ Has(r, "datachannel") /\ ~Has(r, "message")
        /\ Has(r, "close") => Has(log, "close")
    BY <1>1, <1>3, <1>4
  <1> QED
    BY <1>3, <1>6, <1>7 DEF r, e

LEMMA JustToldKept ==
    ASSUME NEW own \in SUBSET Nat, NEW s \in States(own), JustTold(s)
    PROVE  /\ \A r : Quiet(s, r) => JustTold(r)
           /\ JustTold(LocalClose(s))
           /\ JustTold(ClosePeer(s))
  <1>1. ASSUME NEW r, Quiet(s, r) PROVE JustTold(r)
    <2>1. InOrder(r, FALSE)
      BY <1>1, QuietInOrder DEF JustTold
    <2> QED
      BY <1>1, <2>1, Zenon DEF JustTold, Quiet, Alike
  <1>2. JustTold(LocalClose(s))
    <2> DEFINE t == [s EXCEPT !.readyState = "closing"]
               r == Soon(t, "closeNative")
    <2>1. InOrder(LocalClose(s), FALSE)
      BY InOrderCloses DEF JustTold
    <2>2. LocalClose(s) = s \/ LocalClose(s) = r
      BY Zenon DEF LocalClose
    <2>3. /\ r.timers = s.timers /\ r.log = s.log
          /\ r.openEventPending = s.openEventPending
          /\ r.messageEventGateActive = s.messageEventGateActive
      BY DEF Soon, States
    <2> HIDE DEF r
    <2> QED
      BY <2>1, <2>2, <2>3, Zenon DEF JustTold
  <1>3. JustTold(ClosePeer(s))
    <2> DEFINE r1 == [s EXCEPT !.closed = TRUE]
               r == [r1 EXCEPT !.deferredIceEvents = 0]
               v == [r EXCEPT !.readyState = "closed", !.known = FALSE]
               e == Event("close", 0)
               q == Append(r.log, e)
               w == Dispatch(v, e)
    <2>1. InOrder(ClosePeer(s), FALSE)
      BY InOrderCloses DEF JustTold
    <2>2. r1 \in States(own)
      BY Flags
    <2>3. Quiet(s, r1)
      BY QuietFields, Zenon
    <2>4. ClosePeer(s) = IF r.known THEN HandleClose(r) ELSE r
      BY Zenon DEF ClosePeer
    <2> HIDE DEF r1
    <2>5. r \in States(own)
      BY <2>2, Values, Names
    <2>6. Quiet(s, r)
      BY <2>2, <2>3, QuietFields, QuietTwice
    <2> HIDE DEF r
    <2>7. HandleClose(r) = r \/ HandleClose(r) = w
      BY Zenon DEF HandleClose
    <2>8. e \in Events /\ e.type # "message"
      BY EventsAre DEF Event
    <2> HIDE DEF e
    <2>9. JustTold(r)
      BY <1>1, <2>6
    <2>10. ~Has(q, "message")
      BY <2>5, <2>8, <2>9, Components, LogAppended DEF JustTold
    <2> HIDE DEF q
    <2>11. w = [v EXCEPT !.log = q]
      BY <2>5 DEF Dispatch, q, States
    <2>12. /\ w.timers = r.timers /\ w.log = q
           /\ w.openEventPending = r.openEventPending
           /\ w.messageEventGateActive = r.messageEventGateActive
      BY <2>5, <2>11 DEF States
    <2> HIDE DEF w
    <2> QED
      BY <2>1, <2>4, <2>7, <2>9, <2>10, <2>12, Zenon DEF JustTold
  <1> QED
    BY <1>1, <1>2, <1>3

LEMMA Second ==
    ASSUME NEW S, NEW q \in Seq(S), NEW x \in S, Len(q) = 1
    PROVE  /\ DOMAIN Append(q, x) = 1 .. 2
           /\ Append(q, x)[1] = q[1] /\ Append(q, x)[2] = x
  <1> DEFINE r == Append(q, x)
  <1>1. /\ r \in Seq(S) /\ Len(r) = Len(q) + 1
        /\ \A i \in 1 .. Len(q) : r[i] = q[i]
        /\ r[Len(q) + 1] = x
    <2>1. r \in Seq(S) /\ Len(r) = Len(q) + 1
      BY AppendProperties
    <2>2. \A i \in 1 .. Len(q) : r[i] = q[i]
      BY AppendProperties
    <2>3. r[Len(q) + 1] = x
      BY AppendProperties, Zenon
    <2> QED
      BY <2>1, <2>2, <2>3
  <1> HIDE DEF r
  <1>2. r[1] = q[1] /\ r[2] = x
    BY <1>1
  <1>3. DOMAIN r = 1 .. 2
    BY <1>1
  <1> QED
    BY <1>2, <1>3 DEF r

LEMMA ReleasedInOrder ==
    ASSUME NEW own \in SUBSET Nat, NEW s \in States(own), JustTold(s), NEW opening
    PROVE  InOrder(AfterAnnouncement(s), opening)
  <1> DEFINE q1 == Append(s.timers, "announceOpen")
             q2 == Append(q1, "gate1")
             r1 == [s EXCEPT !.announcementPending = FALSE]
             r2 == [r1 EXCEPT !.openEventPending = FALSE]
             r3 == [r2 EXCEPT !.timers = q1]
             r4 == [r3 EXCEPT !.messageEventGateActive = TRUE]
             r5 == [r4 EXCEPT !.timers = q2]
             r6 == GateUntilConsumer(r5)
             r7 == [r6 EXCEPT !.nativeEventDrainActive = TRUE]
  <1>1. /\ q1 \in TimerQueues /\ q2 \in TimerQueues
        /\ DOMAIN q2 = 1 .. 2 /\ q2[1] = "announceOpen" /\ q2[2] = "gate1"
    <2>1. s.timers = <<>> /\ s.timers \in Seq(TimerTasks) /\ Len(s.timers) = 0
      BY Components DEF JustTold, TimerQueues
    <2>2. "announceOpen" \in TimerTasks /\ "gate1" \in TimerTasks
      BY Names
    <2>3. q1 \in Seq(TimerTasks) /\ Len(q1) = 1 /\ q1[1] = "announceOpen"
      BY <2>1, <2>2, AppendProperties
    <2> HIDE DEF q1
    <2>4. q2 \in Seq(TimerTasks)
      BY <2>2, <2>3
    <2>5. DOMAIN q2 = 1 .. 2 /\ q2[1] = "announceOpen" /\ q2[2] = "gate1"
      BY <2>2, <2>3, Second
    <2> QED
      BY <2>3, <2>4, <2>5 DEF TimerQueues
  <1>2. Gated(q2, TRUE) /\ ~In("flushDataChannel", q2) /\ In("announceOpen", q2)
    <2> HIDE DEF q2
    <2> QED
      BY <1>1 DEF Gated, In
  <1>3. r1 \in States(own) /\ Alike(s, r1)
    BY Flags, QuietFields
  <1>4. r1.openEventPending /\ r1.messageEventGateActive = s.messageEventGateActive
    BY DEF JustTold, States
  <1> HIDE DEF r1
  <1>5. r2 \in States(own) /\ Alike(r1, r2)
    BY <1>3, Flags, QuietFields
  <1> HIDE DEF r2
  <1>6. Alike(s, r2)
    BY <1>3, <1>5, QuietTwice
  <1>7. r2.timers = <<>> /\ ~r2.messageEventGateActive /\ r2.log = s.log
    BY <1>6, Zenon DEF Alike, JustTold
  <1>8. InOrder(r2, FALSE)
    BY <1>6, AlikeInOrder DEF JustTold
  <1> DEFINE after == GateAfterAnnouncement(Later(r2, "announceOpen"))
  <1>9. q1 = Append(r2.timers, "announceOpen")
    BY <1>6, Zenon DEF Alike
  <1> HIDE DEF q1
  <1>10. Later(r2, "announceOpen") = r3
    BY <1>5, <1>9 DEF Later, States
  <1>11. r3 \in States(own)
    BY <1>1, <1>5, Values
  <1>12. ~r3.messageEventGateActive /\ r3.timers = q1
    BY <1>5, <1>7 DEF States
  <1>13. r4 \in States(own)
    <2> HIDE DEF r3
    <2> QED
      BY <1>11, Flags
  <1>14. r4.timers = q1
    <2> HIDE DEF r3
    <2> QED
      BY <1>11, <1>12 DEF States
  <1>15. after = r5
    <2>1. after = Later(r4, "gate1")
      BY <1>10, <1>12, Zenon DEF GateAfterAnnouncement
    <2> HIDE DEF r4
    <2>2. Later(r4, "gate1") = r5
      BY <1>13, <1>14 DEF Later, States
    <2> QED
      BY <2>1, <2>2
  <1> HIDE DEF q2
  <1>16. /\ r5.known = r2.known /\ r5.readyState = r2.readyState
         /\ r5.queuedNativeEvents = r2.queuedNativeEvents
         /\ r5.messageEventGateActive = TRUE
         /\ r5.pendingDataChannelEvent = r2.pendingDataChannelEvent
         /\ r5.dataChannelFlushScheduled = r2.dataChannelFlushScheduled
         /\ r5.timers = q2
         /\ r5.log = r2.log
    BY <1>5 DEF States
  <1>17. r5 \in States(own)
    <2> HIDE DEF r4
    <2> QED
      BY <1>1, <1>13, Values
  <1> HIDE DEF after, r5
  <1>18. InOrder(r5, opening)
    <2>1. ~Has(r5.log, "message")
      BY <1>7, <1>16 DEF JustTold
    <2> QED
      BY <1>2, <1>8, <1>16, <2>1, Zenon DEF InOrder, Closing
  <1>19. r6 \in States(own) /\ InOrder(r6, opening)
    BY <1>17, <1>18, GatesTyped, QuietMethods, QuietInOrder
  <1>20. AfterAnnouncement(s) =
           IF r6.queuedNativeEvents = <<>> THEN r6 ELSE Soon(r7, "drainNativeEvents")
    BY <1>4, <1>15, Zenon DEF AfterAnnouncement, r1, r2, after
  <1> HIDE DEF r6
  <1>21. r7 \in States(own) /\ Alike(r6, r7)
    BY <1>19, Flags, QuietFields
  <1> HIDE DEF r7
  <1>22. InOrder(Soon(r7, "drainNativeEvents"), opening)
    BY <1>19, <1>21, QuietTasks, AlikeInOrder
  <1> QED
    BY <1>19, <1>20, <1>22

LEMMA UnannouncedTimers ==
    ASSUME NEW own \in SUBSET Nat, NEW s \in States(own), Unannounced(s),
           s.timers # <<>>,
           NEW r \in TimerResults([s EXCEPT !.timers = Tail(@)], Head(s.timers))
    PROVE  Unannounced(r) \/ \A opening : InOrder(r, opening)
  <1> DEFINE t == [s EXCEPT !.timers = <<>>]
             u == [t EXCEPT !.dataChannelFlushScheduled = FALSE]
             v == [u EXCEPT !.pendingDataChannelEvent = FALSE]
             w == GateUntilConsumer(v)
             e == Event("datachannel", 0)
             sent == Dispatch(w, e)
             q == Append(s.log, e)
  <1>1. /\ Head(s.timers) = "flushDataChannel" /\ Tail(s.timers) = <<>>
        /\ s.pendingDataChannelEvent /\ s.openEventPending
        /\ s.readyState # "connecting"
    BY ToldOf
  <1>2. r \in FlushDataChannel(t)
    BY <1>1 DEF TimerResults
  <1>3. t \in States(own)
    BY Values, Names
  <1> DEFINE Result == \/ r = u
                       \/ \E c \in {"none", "onmessage", "listener"} :
                             r = AfterAnnouncement(AddMessageConsumer(sent, c))
                       \/ r = AfterAnnouncement(LocalClose(sent))
                       \/ r = AfterAnnouncement(ClosePeer(sent))
  <1>4. Result
    <2> HIDE DEF t
    <2> QED
      BY <1>2, Zenon DEF FlushDataChannel
  <1>5. /\ v.known = s.known /\ v.readyState = s.readyState /\ v.log = s.log
        /\ v.queuedNativeEvents = s.queuedNativeEvents
        /\ v.messageEventGateActive = s.messageEventGateActive
        /\ ~v.pendingDataChannelEvent
        /\ ~v.dataChannelFlushScheduled
        /\ v.timers = <<>>
        /\ v.openEventPending = s.openEventPending
    BY DEF States
  <1>6. /\ u.known = s.known /\ u.readyState = s.readyState /\ u.log = s.log
        /\ u.queuedNativeEvents = s.queuedNativeEvents
        /\ u.messageEventGateActive = s.messageEventGateActive
        /\ u.pendingDataChannelEvent = s.pendingDataChannelEvent
        /\ ~u.dataChannelFlushScheduled
        /\ u.timers = <<>> /\ u.immediates = s.immediates
        /\ u.announcementPending = s.announcementPending
        /\ u.openEventPending = s.openEventPending
        /\ u.openDeferredForIce = s.openDeferredForIce
        /\ u.nativeEventDrainActive = s.nativeEventDrainActive
        /\ u.queuedMessageEvents = s.queuedMessageEvents
    BY DEF States
  <1> HIDE DEF t
  <1>7. u \in States(own)
    BY <1>3, Flags
  <1> HIDE DEF u
  <1>8. v \in States(own)
    BY <1>7, Flags
  <1> HIDE DEF v
  <1>9. Unannounced(u)
    BY <1>6, Zenon DEF Unannounced, Closing
  <1>10. w \in States(own) /\ Quiet(v, w)
    BY <1>8, GatesTyped, QuietMethods
  <1> HIDE DEF w
  <1>11. JustTold(sent)
    <2>1. w.log = s.log
      BY <1>5, <1>10, Zenon DEF Quiet, Alike
    <2>2. /\ LogAnnounced(q) /\ LogFinal(q) /\ LogOpenFirst(q)
          /\ Has(q, "datachannel") /\ ~Has(q, "message")
          /\ Has(q, "close") => Has(s.log, "close")
      BY Components, ToldFirst DEF Unannounced
    <2>3. q = Append(w.log, e)
      BY <2>1
    <2> HIDE DEF q
    <2>4. sent = [w EXCEPT !.log = q]
      BY <1>10, <2>3 DEF Dispatch, States
    <2> HIDE DEF e
    <2>5. /\ sent.known = w.known /\ sent.readyState = w.readyState /\ sent.log = q
          /\ sent.queuedNativeEvents = w.queuedNativeEvents
          /\ sent.messageEventGateActive = w.messageEventGateActive
          /\ sent.pendingDataChannelEvent = w.pendingDataChannelEvent
          /\ sent.dataChannelFlushScheduled = w.dataChannelFlushScheduled
          /\ sent.timers = w.timers
          /\ sent.openEventPending = w.openEventPending
      BY <1>10, <2>4 DEF States
    <2> HIDE DEF sent
    <2>6. /\ sent.known = s.known /\ sent.readyState = s.readyState
          /\ sent.queuedNativeEvents = s.queuedNativeEvents
          /\ sent.messageEventGateActive = s.messageEventGateActive
          /\ ~sent.pendingDataChannelEvent /\ ~sent.dataChannelFlushScheduled
          /\ sent.timers = <<>> /\ sent.openEventPending = s.openEventPending
      BY <1>5, <1>10, <2>5, Zenon DEF Quiet, Alike
    <2>7. Closing(sent) /\ ~sent.messageEventGateActive
      BY <2>2, <2>5, <2>6, Zenon DEF Closing, Unannounced
    <2>8. Gated(sent.timers, sent.messageEventGateActive)
          /\ ~In("flushDataChannel", sent.timers) /\ ~In("announceOpen", sent.timers)
      BY <2>6, OnlyOthers, Ungated
    <2>9. InOrder(sent, FALSE)
      BY <1>1, <2>2, <2>5, <2>6, <2>7, <2>8, Zenon DEF InOrder
    <2> QED
      BY <1>1, <2>2, <2>5, <2>6, <2>7, <2>9, Zenon DEF JustTold
  <1>12. sent \in States(own)
    BY <1>10, EventsAre, StepsTyped
  <1> HIDE DEF sent
  <1>13. ASSUME NEW c \in {"none", "onmessage", "listener"}, NEW opening
         PROVE  InOrder(AfterAnnouncement(AddMessageConsumer(sent, c)), opening)
    <2>1. c \in Consumers
      BY Names
    <2> QED
      BY <1>11, <1>12, <2>1, GatesTyped, QuietMethods, JustToldKept, ReleasedInOrder
  <1>14. ASSUME NEW opening
         PROVE  /\ InOrder(AfterAnnouncement(LocalClose(sent)), opening)
                /\ InOrder(AfterAnnouncement(ClosePeer(sent)), opening)
    BY <1>11, <1>12, CloseTyped, JustToldKept, ReleasedInOrder
  <1> QED
    BY <1>4, <1>9, <1>13, <1>14, Zenon

-----------------------------------------------------------------------------
\* The steps.  Direct event 1 is the channel, event 2 its opening; before and after the
\* application was told of the channel.
Sequenced ==
    \/ Unannounced(js) /\ (DP!Coming(1) => Fresh(js))
    \/ InOrder(js, DP!Coming(2)) /\ ~DP!Coming(1)

\* What most steps do to either.
Kept(s, r) ==
    /\ Unannounced(s) => Unannounced(r)
    /\ Fresh(s) /\ Unannounced(s) => Fresh(r)
    /\ \A opening : InOrder(s, opening) => InOrder(r, opening)

LEMMA QuietKept ==
    ASSUME NEW s, NEW r, Quiet(s, r)
    PROVE  Kept(s, r)
  BY QuietInOrder DEF Kept

LEMMA KeptItems ==
    ASSUME DP!Ordered, Typed, DrainSwap \/ DrainCall \/ DrainFinish \/ DrainThrow
    PROVE  Kept(js, js')
  <1>1. ours \in SUBSET Nat /\ js \in Sound(ours) /\ js \in States(ours)
    BY OursTyped
  <1>2. CASE DrainSwap \/ DrainFinish
    <2>1. js' = js
      BY <1>2, Zenon DEF DrainSwap, DrainFinish
    <2> QED
      BY <2>1, Zenon DEF Kept
  <1>3. CASE DrainCall
    <2> DEFINE mine == Mine(batch)
    <2>1. mine \in MessageQueues(ours)
      BY MineTyped
    <2>2. js' \in MessageBatch(js, mine) \/ js' = PeerEvents(js, Messages(mine))
      BY <1>3, Zenon DEF DrainCall
    <2> HIDE DEF mine
    <2>3. PeerEvents(js, Messages(mine)) = AfterMessages(js, mine)
      BY <1>1, <2>1, MessagesInTurn
    <2>4. js' \in MessageBatch(js, mine) \cup FlushMessages(js) \cup {AfterMessages(js, mine)}
      BY <2>2, <2>3
    <2>5. /\ Unannounced(js) => Unannounced(js')
          /\ Fresh(js) /\ Unannounced(js) => Fresh(js')
      BY <1>1, <2>1, <2>4, UnannouncedMessages
    <2>6. ASSUME NEW opening, InOrder(js, opening) PROVE InOrder(js', opening)
      BY <1>1, <2>1, <2>2, <2>3, <2>6, InOrderMessages
    <2> QED
      BY <2>5, <2>6, Zenon DEF Kept
  <1>4. CASE DrainThrow
    <2>1. js' = [js EXCEPT !.threw = FALSE]
      BY <1>4 DEF DrainThrow
    <2> QED
      BY <1>1, <2>1, QuietFields, QuietKept
  <1> QED
    BY <1>2, <1>3, <1>4

LEMMA KeptFinish ==
    ASSUME NEW own \in SUBSET Nat, NEW s \in States(own), NEW k \in Nat
    PROVE  Quiet(s, [ScheduleIceFlush([s EXCEPT !.operationsPending = 0]) EXCEPT
                        !.idleCallbacks = 0,
                        !.immediates = @ \o [i \in 1 .. k |-> "rescheduleFlush"]])
  <1> DEFINE p == [s EXCEPT !.operationsPending = 0]
             t == ScheduleIceFlush(p)
             u == [t EXCEPT !.idleCallbacks = 0]
             woken == [i \in 1 .. k |-> "rescheduleFlush"]
             q == t.immediates \o woken
             v == [u EXCEPT !.immediates = q]
  <1>1. p \in States(own) /\ Quiet(s, p)
    BY Values, Names, QuietFields
  <1> HIDE DEF p
  <1>2. t \in States(own) /\ Quiet(s, t)
    BY <1>1, OpenTyped, QuietMethods, QuietTwice
  <1> HIDE DEF t
  <1>3. \A x \in Loud : In(x, q) => In(x, t.immediates)
    <2> DEFINE p0 == t.immediates
    <2>1. p0 \in Seq(ImmediateTasks) /\ Len(p0) \in Nat /\ DOMAIN p0 = 1 .. Len(p0)
      BY <1>2, Components DEF ImmediateQueues
    <2>2. /\ woken \in Seq(ImmediateTasks) /\ Len(woken) = k
          /\ \A i \in 1 .. k : woken[i] = "rescheduleFlush"
      BY Names
    <2> HIDE DEF p0, woken
    <2>3. /\ DOMAIN (p0 \o woken) = 1 .. Len(p0) + k
          /\ \A i \in 1 .. Len(p0) + k :
                (p0 \o woken)[i] = IF i <= Len(p0) THEN p0[i] ELSE woken[i - Len(p0)]
      BY <2>1, <2>2, ConcatProperties
    <2>4. \A i \in 1 .. Len(p0) + k :
             \/ i \in DOMAIN p0 /\ (p0 \o woken)[i] = p0[i]
             \/ (p0 \o woken)[i] = "rescheduleFlush"
      BY <2>1, <2>2, <2>3
    <2>5. "rescheduleFlush" \notin Loud
      BY DEF Loud
    <2> HIDE DEF q
    <2>6. q = p0 \o woken
      BY DEF q, p0
    <2> QED
      BY <2>3, <2>4, <2>5, <2>6, Zenon DEF In, p0
  <1> HIDE DEF q
  <1>4. u \in States(own) /\ Quiet(s, u) /\ u.immediates = t.immediates
    <2>1. u \in States(own)
      BY <1>2, Values
    <2>2. Quiet(t, u)
      BY <1>2, QuietFields
    <2>3. u.immediates = t.immediates
      BY <1>2 DEF States
    <2> QED
      BY <1>2, <2>1, <2>2, <2>3, QuietTwice
  <1> HIDE DEF u
  <1>5. Quiet(u, v)
    <2>1. /\ v.known = u.known /\ v.readyState = u.readyState
          /\ v.openEventDispatched = u.openEventDispatched
          /\ v.queuedNativeEvents = u.queuedNativeEvents
          /\ v.messageEventGateActive = u.messageEventGateActive
          /\ v.pendingDataChannelEvent = u.pendingDataChannelEvent
          /\ v.dataChannelFlushScheduled = u.dataChannelFlushScheduled
          /\ v.timers = u.timers /\ v.log = u.log
          /\ v.pendingNativeEvents = u.pendingNativeEvents
          /\ v.announcementPending = u.announcementPending
          /\ v.openEventPending = u.openEventPending
          /\ v.openDeferredForIce = u.openDeferredForIce
          /\ v.nativeEventDrainActive = u.nativeEventDrainActive
          /\ v.queuedMessageEvents = u.queuedMessageEvents
          /\ v.immediates = q
      BY <1>4 DEF States
    <2> HIDE DEF v
    <2> QED
      BY <1>3, <1>4, <2>1, Zenon DEF Quiet, Alike
  <1>6. [t EXCEPT !.idleCallbacks = 0, !.immediates = @ \o woken] = v
    <2> HIDE DEF woken
    <2> QED
      BY <1>2 DEF u, q, States
  <1> HIDE DEF v
  <1>7. Quiet(s, v)
    BY <1>4, <1>5, QuietTwice
  <1> QED
    BY <1>6, <1>7, Zenon DEF t, p, woken

LEMMA KeptTasks ==
    ASSUME DP!Ordered, Typed,
           \/ RunImmediate \/ ConsumerGateTimeout \/ GraceEnds \/ FinishOperation
           \/ StartOperation \/ IceEvent \/ ListenDataChannel \/ ListenMessage
           \/ CloseChannel \/ CloseConnection
    PROVE  Kept(js, js')
  <1>1. ours \in SUBSET Nat /\ js \in Sound(ours) /\ js \in States(ours)
    BY OursTyped
  <1>2. CASE RunImmediate
    <2>1. js.immediates # <<>>
      BY <1>2 DEF RunImmediate
    <2>2. js' \in ImmediateResults([js EXCEPT !.immediates = Tail(@)], Head(js.immediates))
      BY <1>2 DEF RunImmediate
    <2>3. /\ Unannounced(js) => Unannounced(js')
          /\ Fresh(js) /\ Unannounced(js) => Fresh(js')
      BY <1>1, <2>1, <2>2, UnannouncedImmediates
    <2>4. ASSUME NEW opening, InOrder(js, opening) PROVE InOrder(js', opening)
      BY <1>1, <2>1, <2>2, <2>4, InOrderImmediates
    <2> QED
      BY <2>3, <2>4, Zenon DEF Kept
  <1>3. CASE ConsumerGateTimeout
    BY <1>1, <1>3, QuietMethods, QuietKept DEF ConsumerGateTimeout
  <1>4. CASE GraceEnds
    BY <1>1, <1>4, QuietFields, QuietKept DEF GraceEnds
  <1>5. CASE FinishOperation
    <2>1. js.idleCallbacks \in Nat
      BY <1>1, Components
    <2>2. js' = [ScheduleIceFlush([js EXCEPT !.operationsPending = 0]) EXCEPT
                    !.idleCallbacks = 0,
                    !.immediates = @ \o [i \in 1 .. js.idleCallbacks |->
                                            "rescheduleFlush"]]
      BY <1>5, Zenon DEF FinishOperation
    <2>3. Quiet(js, js')
      BY <1>1, <2>1, <2>2, KeptFinish, Zenon
    <2> QED
      BY <2>3, QuietKept
  <1>6. CASE StartOperation
    <2> DEFINE p == [js EXCEPT !.operationsPending = 1]
               r == [p EXCEPT !.operations = p.operations + 1]
    <2>1. p \in States(ours) /\ Quiet(js, p)
      BY <1>1, Values, Names, QuietFields
    <2>2. js' = r
      BY <1>1, <1>6 DEF StartOperation, States
    <2> HIDE DEF p
    <2>3. Quiet(p, r)
      BY <2>1, QuietFields
    <2> QED
      BY <2>1, <2>2, <2>3, QuietTwice, QuietKept
  <1>7. CASE IceEvent
    <2>1. js' = [js EXCEPT !.deferredIceEvents = js.deferredIceEvents + 1]
      BY <1>7, Zenon DEF IceEvent
    <2> QED
      BY <1>1, <2>1, QuietFields, QuietKept
  <1>8. CASE ListenDataChannel
    <2> DEFINE p == [js EXCEPT !.dataChannelConsumer = TRUE]
    <2>1. p \in States(ours) /\ Quiet(js, p)
      BY <1>1, Flags, QuietFields
    <2>2. js' = ScheduleDataChannelFlush(p)
      BY <1>8 DEF ListenDataChannel
    <2> HIDE DEF p
    <2>3. /\ Unannounced(js) => Unannounced(js')
          /\ Fresh(js) /\ Unannounced(js) => Fresh(js')
      BY <1>1, <2>1, <2>2, UnannouncedListens, QuietInOrder
    <2>4. ASSUME NEW opening, InOrder(js, opening) PROVE InOrder(js', opening)
      <3>1. InOrder(p, opening)
        BY <2>1, <2>4, QuietInOrder
      <3>2. ~p.pendingDataChannelEvent
        BY <3>1, Zenon DEF InOrder
      <3> QED
        BY <2>2, <3>1, <3>2, Zenon DEF ScheduleDataChannelFlush
    <2> QED
      BY <2>3, <2>4, Zenon DEF Kept
  <1>9. CASE ListenMessage
    <2>1. PICK c \in {"onmessage", "listener"} : js' = AddMessageConsumer(js, c)
      BY <1>9 DEF ListenMessage
    <2>2. c \in Consumers
      BY DEF Consumers
    <2> QED
      BY <1>1, <2>1, <2>2, QuietMethods, QuietKept
  <1>10. CASE CloseChannel
    <2>1. Has(js.log, "datachannel") /\ js' = LocalClose(js)
      BY <1>10, Zenon DEF CloseChannel, Announced, Has
    <2>2. ~Unannounced(js)
      <3>1. "datachannel" # "close"
        OBVIOUS
      <3> QED
        BY <2>1, <3>1, OnlyOthers, Zenon DEF Unannounced
    <2>3. ASSUME NEW opening, InOrder(js, opening) PROVE InOrder(js', opening)
      BY <1>1, <2>1, <2>3, InOrderCloses
    <2> QED
      BY <2>2, <2>3, Zenon DEF Kept
  <1>11. CASE CloseConnection
    <2>1. js' = ClosePeer(js)
      BY <1>11 DEF CloseConnection
    <2>2. ASSUME NEW opening, InOrder(js, opening) PROVE InOrder(js', opening)
      BY <1>1, <2>1, <2>2, InOrderCloses
    <2>3. /\ Unannounced(js) => Unannounced(js')
          /\ Fresh(js) /\ Unannounced(js) => Fresh(js')
      BY <1>1, <2>1, UnannouncedCloses
    <2> QED
      BY <2>2, <2>3, Zenon DEF Kept
  <1> QED
    BY <1>2, <1>3, <1>4, <1>5, <1>6, <1>7, <1>8, <1>9, <1>10, <1>11

LEMMA Expecting ==
    ASSUME NEW s, NEW now, NEW then, InOrder(s, now), then => now
    PROVE  InOrder(s, then)
  BY Zenon DEF InOrder

LEMMA SequencedInit == Init => Sequenced
  <1> SUFFICES ASSUME Init PROVE Sequenced
    OBVIOUS
  <1>1. js = InitJs
    BY DEF Init
  <1>2. /\ js.readyState = "connecting" /\ ~js.known /\ js.log = <<>>
        /\ js.queuedNativeEvents = <<>> /\ js.pendingNativeEvents = <<>>
        /\ js.queuedMessageEvents = <<>> /\ js.timers = <<>> /\ js.immediates = <<>>
        /\ ~js.messageEventGateActive /\ ~js.nativeEventDrainActive
        /\ ~js.openDeferredForIce /\ ~js.pendingDataChannelEvent
        /\ ~js.dataChannelFlushScheduled
    BY <1>1 DEF InitJs
  <1>3. NoOpen(<<>>)
    BY OnlyOthers
  <1>4. "connecting" # "closed"
    OBVIOUS
  <1>5. Unannounced(js) /\ Fresh(js)
    BY <1>2, <1>3, <1>4, OnlyOthers, Zenon DEF Unannounced, Closing, Fresh
  <1> QED
    BY <1>5 DEF Sequenced

LEMMA SequencedStep ==
    ASSUME DP!Ordered, Typed, Sequenced, [Next]_vars
    PROVE  Sequenced'
  <1>1. ours \in SUBSET Nat /\ js \in Sound(ours) /\ js \in States(ours)
    BY OursTyped
  <1>2. (DP!Coming(1)' => DP!Coming(1)) /\ (DP!Coming(2)' => DP!Coming(2))
    <2>1. DP!TypeOK /\ DP!Numbered(tsfnQueue, directs)
      BY DEF DP!Ordered
    <2>2. \A n \in Nat : DP!Coming(n)' => DP!Coming(n)
      BY <2>1, DispatcherAssumed, DispatcherStep, DP!NumberedStep
    <2> QED
      BY <2>2
  <1>3. CASE Kept(js, js')
    <2>1. CASE Unannounced(js) /\ (DP!Coming(1) => Fresh(js))
      BY <1>2, <1>3, <2>1, Zenon DEF Kept, Sequenced
    <2>2. CASE InOrder(js, DP!Coming(2)) /\ ~DP!Coming(1)
      <3>1. InOrder(js', DP!Coming(2))
        BY <1>3, <2>2, Zenon DEF Kept
      <3>2. InOrder(js', DP!Coming(2)')
        BY <1>2, <3>1, Expecting
      <3> QED
        BY <1>2, <2>2, <3>2, Zenon DEF Sequenced
    <2> QED
      BY <2>1, <2>2 DEF Sequenced
  <1>4. CASE DirectEvent
    <2> DEFINE n == Head(tsfnQueue).n
               type == DirectEvents[n]
               e == Event(type, 0)
    <2>1. /\ n \in Nat /\ DP!Coming(n) /\ \A m \in Nat : m <= n => ~DP!Coming(m)'
          /\ \/ n = 1 /\ type = "datachannel"
             \/ n = 2 /\ type = "open"
             \/ n = 3 /\ type = "close"
      BY <1>4, Direct
    <2>2. js' = PeerEvent(js, e)
      BY <1>4 DEF DirectEvent
    <2> HIDE DEF n, type
    <2>3. e.type = type
      BY DEF Event
    <2>4. ~DP!Coming(1)' /\ (n # 1 => ~DP!Coming(2)')
      BY <2>1
    <2>5. n # 1 => e \in Incoming(ours)
      BY <2>1, EventsAre
    <2> HIDE DEF e
    <2>6. CASE Unannounced(js) /\ (DP!Coming(1) => Fresh(js))
      <3>1. CASE n = 1
        <4>1. Unannounced(Announce(js))
          BY <1>1, <2>1, <2>6, <3>1, UnannouncedAnnounce
        <4>2. PeerEvent(js, e) = IF js.closed THEN js ELSE Announce(js)
          <5>1. e.type = "datachannel"
            BY <2>1, <2>3, <3>1
          <5> QED
            BY <5>1, Zenon DEF PeerEvent
        <4> QED
          BY <2>2, <2>4, <2>6, <4>1, <4>2, Zenon DEF Sequenced
      <3>2. CASE n # 1
        <4>1. Unannounced(PeerEvent(js, e))
          BY <1>1, <2>5, <2>6, <3>2, UnannouncedPeerEvent
        <4> QED
          BY <2>2, <2>4, <4>1, Zenon DEF Sequenced
      <3> QED
        BY <3>1, <3>2
    <2>7. CASE InOrder(js, DP!Coming(2)) /\ ~DP!Coming(1)
      <3>1. n # 1
        BY <2>1, <2>7
      <3>2. e.type = "open" => DP!Coming(2)
        BY <2>1, <2>3
      <3>3. InOrder(PeerEvent(js, e), FALSE)
        <4>1. \/ InOrder(PeerEvent(js, e), DP!Coming(2))
              \/ InOrder(PeerEvent(js, e), FALSE)
          BY <1>1, <2>5, <2>7, <3>1, <3>2, InOrderPeerEvent
        <4> QED
          BY <4>1, Weaker
      <3>4. InOrder(js', FALSE) /\ ~DP!Coming(2)'
        BY <2>2, <2>4, <3>1, <3>3, Zenon
      <3>5. InOrder(js', DP!Coming(2)')
        BY <3>4, Zenon DEF InOrder
      <3> QED
        BY <2>4, <3>5, Zenon DEF Sequenced
    <2> QED
      BY <2>6, <2>7 DEF Sequenced
  <1>5. CASE RunTimer
    <2>1. /\ js.timers # <<>>
          /\ js' \in TimerResults([js EXCEPT !.timers = Tail(@)], Head(js.timers))
      BY <1>5 DEF RunTimer
    <2>2. CASE Unannounced(js) /\ (DP!Coming(1) => Fresh(js))
      <3>1. ~Fresh(js)
        BY <1>1, <2>1, <2>2, ToldOf
      <3>2. Unannounced(js') \/ \A opening : InOrder(js', opening)
        BY <1>1, <2>1, <2>2, UnannouncedTimers
      <3> QED
        BY <1>2, <2>2, <3>1, <3>2, Zenon DEF Sequenced
    <2>3. CASE InOrder(js, DP!Coming(2)) /\ ~DP!Coming(1)
      <3>1. InOrder(js', DP!Coming(2))
        BY <1>1, <2>1, <2>3, InOrderTimers
      <3>2. InOrder(js', DP!Coming(2)')
        BY <1>2, <3>1, Expecting
      <3> QED
        BY <1>2, <2>3, <3>2, Zenon DEF Sequenced
    <2> QED
      BY <2>2, <2>3 DEF Sequenced
  <1>6. CASE ConnectionFails
    <2>1. js.known /\ js' = HandleClose(js)
      BY <1>6, Zenon DEF ConnectionFails
    <2>2. CASE Unannounced(js) /\ (DP!Coming(1) => Fresh(js))
      <3>1. Unannounced(js') /\ ~Fresh(js)
        BY <1>1, <2>1, <2>2, UnannouncedCloses DEF Fresh
      <3> QED
        BY <1>2, <2>2, <3>1, Zenon DEF Sequenced
    <2>3. CASE InOrder(js, DP!Coming(2)) /\ ~DP!Coming(1)
      <3>1. InOrder(js', DP!Coming(2))
        BY <1>1, <2>1, <2>3, InOrderHandleClose
      <3>2. InOrder(js', DP!Coming(2)')
        BY <1>2, <3>1, Expecting
      <3> QED
        BY <1>2, <2>3, <3>2, Zenon DEF Sequenced
    <2> QED
      BY <2>2, <2>3 DEF Sequenced
  <1>7. CASE NativeDirect \/ NativeMessage \/ OtherMessage \/ DispatcherClose
             \/ UNCHANGED vars
    <2>1. js' = js
      BY <1>7, Zenon DEF NativeDirect, NativeMessage, OtherMessage, DispatcherClose, vars
    <2>2. Kept(js, js')
      BY <2>1, Zenon DEF Kept
    <2> QED
      BY <1>3, <2>2
  <1>8. CASE DrainSwap \/ DrainCall \/ DrainFinish \/ DrainThrow
    BY <1>3, <1>8, KeptItems
  <1>9. CASE \/ RunImmediate \/ ConsumerGateTimeout \/ GraceEnds \/ FinishOperation
             \/ StartOperation \/ IceEvent \/ ListenDataChannel \/ ListenMessage
             \/ CloseChannel \/ CloseConnection
    BY <1>3, <1>9, KeptTasks
  <1> QED
    BY <1>4, <1>5, <1>6, <1>7, <1>8, <1>9, Zenon DEF Next, TsfnItem, Application

LEMMA SequencedImplied ==
    ASSUME Sequenced
    PROVE  /\ AnnouncedFirst /\ ClosedIsFinal
           /\ NothingDeferred => OpenBeforeMessages
  <1>1. LogAnnounced(js.log) /\ LogFinal(js.log) /\ (NothingDeferred => LogOpenFirst(js.log))
    <2>1. CASE Unannounced(js)
      <3>1. Only("close", js.log) /\ LogFinal(js.log)
        BY <2>1, Zenon DEF Unannounced
      <3>2. LogAnnounced(js.log) /\ LogOpenFirst(js.log)
        BY <3>1 DEF Only, LogAnnounced, LogOpenFirst
      <3> QED
        BY <3>1, <3>2
    <2>2. CASE InOrder(js, DP!Coming(2))
      BY <2>2, Zenon DEF InOrder
    <2> QED
      BY <2>1, <2>2 DEF Sequenced
  <1>2. AnnouncedFirst
    BY <1>1 DEF LogAnnounced, AnnouncedFirst, Positions
  <1>3. ClosedIsFinal
    BY <1>1 DEF LogFinal, ClosedIsFinal, Positions
  <1>4. NothingDeferred => OpenBeforeMessages
    BY <1>1 DEF LogOpenFirst, OpenBeforeMessages, Positions
  <1> QED
    BY <1>2, <1>3, <1>4

\* The application hears of the channel before anything else of it and of nothing after
\* its close, for any number of messages, operations and deferred events, whatever the
\* handlers do and however the connection ends.
THEOREM AnnouncedUntilClosed == Spec => [](AnnouncedFirst /\ ClosedIsFinal)
  <1>1. Init => DP!Ordered /\ Typed /\ Sequenced
    BY DispatcherOrdered, TypedInit, SequencedInit
  <1>2. (DP!Ordered /\ Typed /\ Sequenced) /\ [Next]_vars =>
           (DP!Ordered /\ Typed /\ Sequenced)'
    BY DispatcherOrdered, TypedStep, SequencedStep
  <1>3. DP!Ordered /\ Typed /\ Sequenced => AnnouncedFirst /\ ClosedIsFinal
    BY SequencedImplied
  <1> QED
    BY <1>1, <1>2, <1>3, PTL DEF Spec

\* Nor does it see a message before open, unless an ICE event is deferred behind an
\* operation: that event defers open as well, but not the messages.
THEOREM EventsComeInOrder ==
    ASSUME NothingDeferred
    PROVE  Spec => []EventsInOrder
  <1>1. Init => DP!Ordered /\ Typed /\ Sequenced
    BY DispatcherOrdered, TypedInit, SequencedInit
  <1>2. (DP!Ordered /\ Typed /\ Sequenced) /\ [Next]_vars =>
           (DP!Ordered /\ Typed /\ Sequenced)'
    BY DispatcherOrdered, TypedStep, SequencedStep
  <1>3. DP!Ordered /\ Typed /\ Sequenced => EventsInOrder
    BY SequencedImplied DEF EventsInOrder
  <1> QED
    BY <1>1, <1>2, <1>3, PTL DEF Spec

-----------------------------------------------------------------------------
\* The order of messages, in any queue: their numbers rise, above one bound and up to
\* another.

Ascends(q, lo, hi) ==
    /\ \A i \in DOMAIN q : q[i].type = "message" => lo < q[i].n /\ q[i].n <= hi
    /\ \A i, j \in DOMAIN q :
          i < j /\ q[i].type = "message" /\ q[j].type = "message" => q[i].n < q[j].n

Rises(ns, lo, hi) ==
    /\ \A i \in DOMAIN ns : lo < ns[i] /\ ns[i] <= hi
    /\ \A i, j \in DOMAIN ns : i < j => ns[i] < ns[j]

Carries(q, n) == \E i \in DOMAIN q : q[i].type = "message" /\ q[i].n = n

LEMMA AscendsFurther ==
    ASSUME NEW p \in Logs, NEW q \in Logs, NEW lo \in Nat, NEW mid \in Nat, NEW hi \in Nat,
           lo <= mid, mid <= hi, Ascends(p, lo, mid), Ascends(q, mid, hi)
    PROVE  Ascends(p \o q, lo, hi)
  <1> DEFINE t == p \o q
             k == Len(p)
  <1>1. /\ \A i \in DOMAIN t :
              \/ i \in DOMAIN p /\ t[i] = p[i]
              \/ i > k /\ i - k \in DOMAIN q /\ t[i] = q[i - k]
        /\ \A i \in DOMAIN t : i \in Nat
        /\ \A i \in DOMAIN p : i \in Nat /\ i <= k
        /\ k \in Nat
    <2>1. p \in Seq(Events) /\ q \in Seq(Events)
      BY DEF Logs
    <2> QED
      BY <2>1, DispatcherAssumed, DP!Joined
  <1>2. /\ \A i \in DOMAIN p : p[i].n \in Nat
        /\ \A i \in DOMAIN q : q[i].n \in Nat
    <2>1. (\A i \in DOMAIN p : p[i] \in Events) /\ (\A i \in DOMAIN q : q[i] \in Events)
      BY DEF Logs
    <2> QED
      BY <2>1 DEF Events
  <1> HIDE DEF t, k
  <1>3. ASSUME NEW i \in DOMAIN t, t[i].type = "message"
        PROVE  lo < t[i].n /\ t[i].n <= hi
    <2>1. CASE i \in DOMAIN p /\ t[i] = p[i]
      BY <1>2, <1>3, <2>1 DEF Ascends
    <2>2. CASE i - k \in DOMAIN q /\ t[i] = q[i - k]
      BY <1>2, <1>3, <2>2 DEF Ascends
    <2> QED
      BY <1>1, <2>1, <2>2
  <1>4. ASSUME NEW i \in DOMAIN t, NEW j \in DOMAIN t, i < j,
               t[i].type = "message", t[j].type = "message"
        PROVE  t[i].n < t[j].n
    <2>1. CASE j \in DOMAIN p /\ t[j] = p[j]
      <3>1. i \in DOMAIN p /\ t[i] = p[i]
        BY <1>1, <1>4, <2>1
      <3> QED
        BY <1>4, <2>1, <3>1 DEF Ascends
    <2>2. CASE j > k /\ j - k \in DOMAIN q /\ t[j] = q[j - k]
      <3>1. CASE i \in DOMAIN p /\ t[i] = p[i]
        BY <1>2, <1>4, <2>2, <3>1 DEF Ascends
      <3>2. CASE i > k /\ i - k \in DOMAIN q /\ t[i] = q[i - k]
        <4>1. i - k < j - k
          BY <1>1, <1>4
        <4> QED
          BY <1>4, <2>2, <3>2, <4>1 DEF Ascends
      <3> QED
        BY <1>1, <3>1, <3>2
    <2> QED
      BY <1>1, <2>1, <2>2
  <1>5. Ascends(t, lo, hi)
    BY <1>3, <1>4 DEF Ascends
  <1> QED
    BY <1>5 DEF t

LEMMA Numbers ==
    ASSUME NEW own \in SUBSET Nat, NEW q \in MessageQueues(own)
    PROVE  \A i \in DOMAIN q : q[i] \in Nat
  <1>1. q \in Seq(own)
    BY DEF MessageQueues
  <1>2. q \in Seq(Nat)
    BY <1>1, SeqSubset
  <1> QED
    BY <1>2

LEMMA RisesFurther ==
    ASSUME NEW own \in SUBSET Nat, NEW p \in MessageQueues(own), NEW q \in MessageQueues(own),
           NEW lo \in Nat, NEW mid \in Nat, NEW hi \in Nat,
           lo <= mid, mid <= hi, Rises(p, lo, mid), Rises(q, mid, hi)
    PROVE  Rises(p \o q, lo, hi)
  <1> DEFINE t == p \o q
             k == Len(p)
  <1>1. /\ \A i \in DOMAIN t :
              \/ i \in DOMAIN p /\ t[i] = p[i]
              \/ i > k /\ i - k \in DOMAIN q /\ t[i] = q[i - k]
        /\ \A i \in DOMAIN t : i \in Nat
        /\ \A i \in DOMAIN p : i \in Nat /\ i <= k
        /\ k \in Nat
    <2>1. p \in Seq(own) /\ q \in Seq(own)
      BY DEF MessageQueues
    <2> QED
      BY <2>1, DispatcherAssumed, DP!Joined
  <1>2. /\ \A i \in DOMAIN p : p[i] \in Nat
        /\ \A i \in DOMAIN q : q[i] \in Nat
    BY Numbers
  <1> HIDE DEF t, k
  <1>3. ASSUME NEW i \in DOMAIN t
        PROVE  lo < t[i] /\ t[i] <= hi
    <2>1. CASE i \in DOMAIN p /\ t[i] = p[i]
      BY <1>2, <1>3, <2>1 DEF Rises
    <2>2. CASE i - k \in DOMAIN q /\ t[i] = q[i - k]
      BY <1>2, <1>3, <2>2 DEF Rises
    <2> QED
      BY <1>1, <2>1, <2>2
  <1>4. ASSUME NEW i \in DOMAIN t, NEW j \in DOMAIN t, i < j
        PROVE  t[i] < t[j]
    <2>1. CASE j \in DOMAIN p /\ t[j] = p[j]
      <3>1. i \in DOMAIN p /\ t[i] = p[i]
        BY <1>1, <1>4, <2>1
      <3> QED
        BY <1>4, <2>1, <3>1 DEF Rises
    <2>2. CASE j > k /\ j - k \in DOMAIN q /\ t[j] = q[j - k]
      <3>1. CASE i \in DOMAIN p /\ t[i] = p[i]
        BY <1>2, <1>4, <2>2, <3>1 DEF Rises
      <3>2. CASE i > k /\ i - k \in DOMAIN q /\ t[i] = q[i - k]
        <4>1. i - k < j - k
          BY <1>1, <1>4
        <4> QED
          BY <1>4, <2>2, <3>2, <4>1 DEF Rises
      <3> QED
        BY <1>1, <3>1, <3>2
    <2> QED
      BY <1>1, <2>1, <2>2
  <1>5. Rises(t, lo, hi)
    BY <1>3, <1>4 DEF Rises
  <1> QED
    BY <1>5 DEF t

LEMMA Wider ==
    ASSUME NEW q \in Logs, NEW lo \in Nat, NEW hi \in Nat, NEW lower \in Nat, NEW higher \in Nat,
           lower <= lo, hi <= higher, Ascends(q, lo, hi)
    PROVE  Ascends(q, lower, higher)
  <1>1. \A i \in DOMAIN q : q[i].n \in Nat
    <2>1. \A i \in DOMAIN q : q[i] \in Events
      BY DEF Logs
    <2> QED
      BY <2>1 DEF Events
  <1> QED
    BY <1>1 DEF Ascends

LEMMA RisesWider ==
    ASSUME NEW own \in SUBSET Nat, NEW ns \in MessageQueues(own),
           NEW lo \in Nat, NEW hi \in Nat, NEW lower \in Nat, NEW higher \in Nat,
           lower <= lo, hi <= higher, Rises(ns, lo, hi)
    PROVE  Rises(ns, lower, higher)
  <1>1. \A i \in DOMAIN ns : ns[i] \in Nat
    BY Numbers
  <1> QED
    BY <1>1 DEF Rises

LEMMA RisesAscends ==
    ASSUME NEW own \in SUBSET Nat, NEW ns \in MessageQueues(own), NEW lo, NEW hi
    PROVE  /\ Rises(ns, lo, hi) => Ascends(Messages(ns), lo, hi)
           /\ \A n : Carries(Messages(ns), n) <=> In(n, ns)
  <1>1. /\ DOMAIN Messages(ns) = DOMAIN ns
        /\ \A i \in DOMAIN ns : Messages(ns)[i].type = "message" /\ Messages(ns)[i].n = ns[i]
    BY DEF Messages, Message, Event, MessageQueues
  <1>2. Rises(ns, lo, hi) => Ascends(Messages(ns), lo, hi)
    BY <1>1, Zenon DEF Rises, Ascends
  <1>3. \A n : Carries(Messages(ns), n) <=> In(n, ns)
    BY <1>1, Zenon DEF Carries, In
  <1> QED
    BY <1>2, <1>3

LEMMA Nothing ==
    /\ \A lo, hi : Ascends(<<>>, lo, hi) /\ Rises(<<>>, lo, hi)
    /\ \A n : ~Carries(<<>>, n) /\ ~In(n, <<>>)
  BY DEF Ascends, Rises, Carries, In

\* Part of a queue, and one event more or less.
LEMMA RisesInParts ==
    ASSUME NEW own \in SUBSET Nat, NEW ns \in MessageQueues(own),
           NEW lo \in Nat, NEW hi \in Nat, Rises(ns, lo, hi), NEW k \in 1 .. Len(ns)
    PROVE  /\ ns[k] \in Nat /\ lo <= ns[k] /\ ns[k] <= hi
           /\ Rises(SubSeq(ns, 1, k), lo, ns[k])
           /\ Rises(SubSeq(ns, k + 1, Len(ns)), ns[k], hi)
           /\ \A n : In(n, ns) <=> \/ In(n, SubSeq(ns, 1, k))
                                   \/ In(n, SubSeq(ns, k + 1, Len(ns)))
  <1> DEFINE p == SubSeq(ns, 1, k)
             q == SubSeq(ns, k + 1, Len(ns))
  <1>1. /\ \A i \in DOMAIN p : i \in DOMAIN ns /\ i <= k /\ p[i] = ns[i] /\ i \in Nat
        /\ \A i \in DOMAIN q :
              i + k \in DOMAIN ns /\ k < i + k /\ q[i] = ns[i + k] /\ i \in Nat
        /\ \A i \in DOMAIN ns : \/ i \in DOMAIN p /\ p[i] = ns[i]
                                \/ i - k \in DOMAIN q /\ q[i - k] = ns[i]
        /\ k \in DOMAIN ns /\ \A i \in DOMAIN ns : ns[i] \in Nat
    BY DispatcherAssumed, DP!InTwo DEF MessageQueues
  <1> HIDE DEF p, q
  <1>2. k \in Int
    OBVIOUS
  <1>3. ns[k] \in Nat /\ lo < ns[k] /\ lo <= ns[k] /\ ns[k] <= hi
    BY <1>1 DEF Rises
  <1>4. Rises(p, lo, ns[k])
    <2>1. ASSUME NEW i \in DOMAIN p PROVE lo < p[i] /\ p[i] <= ns[k]
      <3>1. i \in DOMAIN ns /\ p[i] = ns[i] /\ ns[i] \in Nat /\ lo < ns[i]
        BY <1>1 DEF Rises
      <3>2. CASE i = k
        BY <1>3, <3>1, <3>2
      <3>3. CASE i < k
        <4>1. ns[i] < ns[k]
          BY <1>1, <3>1, <3>3 DEF Rises
        <4> QED
          BY <1>3, <3>1, <4>1
      <3> QED
        BY <1>1, <1>2, <3>2, <3>3
    <2>2. \A i, j \in DOMAIN p : i < j => p[i] < p[j]
      BY <1>1, Zenon DEF Rises
    <2> QED
      BY <2>1, <2>2 DEF Rises
  <1>5. Rises(q, ns[k], hi)
    <2>1. \A i \in DOMAIN q : ns[k] < q[i] /\ q[i] <= hi
      BY <1>1, Zenon DEF Rises
    <2>2. ASSUME NEW i \in DOMAIN q, NEW j \in DOMAIN q, i < j PROVE q[i] < q[j]
      <3>1. i + k < j + k
        BY <1>1, <1>2, <2>2
      <3> QED
        BY <1>1, <3>1 DEF Rises
    <2> QED
      BY <2>1, <2>2 DEF Rises
  <1>6. \A n : In(n, ns) <=> In(n, p) \/ In(n, q)
    BY <1>1, Zenon DEF In
  <1> QED
    BY <1>3, <1>4, <1>5, <1>6 DEF p, q

LEMMA AscendsOther ==
    ASSUME NEW q \in Logs, NEW e \in Events, e.type # "message", NEW lo, NEW hi
    PROVE  /\ Ascends(q, lo, hi) => Ascends(Append(q, e), lo, hi)
           /\ \A n : Carries(q, n) <=> Carries(Append(q, e), n)
  <1> DEFINE r == Append(q, e)
  <1>1. /\ DOMAIN q = 1 .. Len(q) /\ Len(q) \in Nat
        /\ DOMAIN r = 1 .. Len(q) + 1 /\ r[Len(q) + 1] = e
        /\ \A i \in 1 .. Len(q) : r[i] = q[i]
    BY AppendProperties DEF Logs
  <1> HIDE DEF r
  <1>2. /\ \A i \in DOMAIN r : \/ i \in DOMAIN q /\ r[i] = q[i]
                               \/ r[i].type # "message"
        /\ \A i \in DOMAIN q : i \in DOMAIN r /\ r[i] = q[i]
    BY <1>1
  <1>3. Ascends(q, lo, hi) => Ascends(r, lo, hi)
    BY <1>2, Zenon DEF Ascends
  <1>4. \A n : Carries(q, n) <=> Carries(r, n)
    BY <1>2, Zenon DEF Carries
  <1> QED
    BY <1>3, <1>4 DEF r

LEMMA AscendsTail ==
    ASSUME NEW own \in SUBSET Nat, NEW q \in EventQueues(own), q # <<>>,
           NEW lo \in Nat, NEW hi \in Nat, Ascends(q, lo, hi)
    PROVE  LET e == Head(q)
               r == Tail(q)
           IN  /\ e.type = "message" =>
                     /\ e.n \in Nat /\ lo <= e.n /\ e.n <= hi
                     /\ Rises(<<e.n>>, lo, e.n) /\ Ascends(r, e.n, hi)
                     /\ \A n : Carries(q, n) <=> n = e.n \/ Carries(r, n)
               /\ e.type # "message" =>
                     /\ Ascends(r, lo, hi)
                     /\ \A n : Carries(q, n) <=> Carries(r, n)
  <1> DEFINE e == Head(q)
             r == Tail(q)
             len == Len(q)
  <1>1. /\ q \in Seq(Incoming(own)) /\ len \in Nat /\ len # 0 /\ DOMAIN q = 1 .. len
        /\ \A i \in DOMAIN q : q[i].n \in Nat
    <2>1. q \in Seq(Incoming(own)) /\ \A i \in DOMAIN q : q[i] \in Events
      BY DEF EventQueues, Incoming
    <2>2. \A i \in DOMAIN q : q[i].n \in Nat
      BY <2>1 DEF Events
    <2> QED
      BY <2>1, <2>2
  <1>2. /\ DOMAIN r = 1 .. len - 1 /\ e = q[1]
        /\ \A i \in 1 .. len - 1 : r[i] = q[i + 1]
    BY <1>1
  <1> HIDE DEF e, r, len
  <1>3. /\ \A i \in DOMAIN r : i + 1 \in DOMAIN q /\ 1 < i + 1 /\ r[i] = q[i + 1] /\ i \in Nat
        /\ 1 \in DOMAIN q /\ e = q[1]
        /\ \A i \in DOMAIN q : i = 1 \/ (i - 1 \in DOMAIN r /\ r[i - 1] = q[i])
    BY <1>1, <1>2
  <1>4. \A i, j \in DOMAIN r : i < j /\ r[i].type = "message" /\ r[j].type = "message" =>
                                  r[i].n < r[j].n
    <2>1. \A i, j \in DOMAIN r : i < j => i + 1 < j + 1
      BY <1>3
    <2> QED
      BY <1>3, <2>1, ZenonT(60) DEF Ascends
  <1>5. \A i \in DOMAIN r : r[i].type = "message" => lo < r[i].n /\ r[i].n <= hi
    BY <1>3, Zenon DEF Ascends
  <1>6. CASE e.type = "message"
    <2>1. e.n \in Nat /\ lo <= e.n /\ e.n <= hi /\ lo < e.n
      BY <1>1, <1>3, <1>6 DEF Ascends
    <2>2. \A i \in DOMAIN r : r[i].type = "message" => e.n < r[i].n
      BY <1>3, <1>6, Zenon DEF Ascends
    <2>3. Ascends(r, e.n, hi)
      BY <1>4, <1>5, <2>2, Zenon DEF Ascends
    <2>4. \A n : Carries(q, n) <=> n = e.n \/ Carries(r, n)
      BY <1>3, <1>6, ZenonT(60) DEF Carries
    <2>5. Rises(<<e.n>>, lo, e.n)
      <3> DEFINE x == e.n
      <3>1. x \in Nat /\ lo < x
        BY <2>1
      <3> HIDE DEF x
      <3>2. Rises(<<x>>, lo, x)
        BY <3>1 DEF Rises
      <3> QED
        BY <3>2 DEF x
    <2> QED
      BY <1>6, <2>1, <2>3, <2>4, <2>5 DEF e, r
  <1>7. CASE e.type # "message"
    <2>1. Ascends(r, lo, hi)
      BY <1>4, <1>5, Zenon DEF Ascends
    <2>2. ASSUME NEW n PROVE Carries(q, n) <=> Carries(r, n)
      <3>1. ASSUME NEW i \in DOMAIN q, q[i].type = "message", q[i].n = n
            PROVE  Carries(r, n)
        <4>1. i # 1
          BY <1>3, <1>7, <3>1
        <4>2. i - 1 \in DOMAIN r /\ r[i - 1] = q[i]
          BY <1>3, <4>1
        <4> QED
          BY <3>1, <4>2, Zenon DEF Carries
      <3>2. ASSUME NEW i \in DOMAIN r, r[i].type = "message", r[i].n = n
            PROVE  Carries(q, n)
        BY <1>3, <3>2, ZenonT(60) DEF Carries
      <3> QED
        BY <3>1, <3>2, Zenon DEF Carries
    <2> QED
      BY <1>7, <2>1, <2>2 DEF e, r
  <1> QED
    BY <1>6, <1>7

\* What a longer queue carries.
LEMMA CarriesFurther ==
    ASSUME NEW p \in Logs, NEW q \in Logs, NEW n
    PROVE  Carries(p \o q, n) <=> Carries(p, n) \/ Carries(q, n)
  <1> DEFINE t == p \o q
             k == Len(p)
  <1>1. /\ \A i \in DOMAIN t :
              \/ i \in DOMAIN p /\ t[i] = p[i]
              \/ i > k /\ i - k \in DOMAIN q /\ t[i] = q[i - k]
        /\ \A i \in DOMAIN p : i \in DOMAIN t /\ t[i] = p[i]
        /\ \A i \in DOMAIN q : i + k \in DOMAIN t /\ t[i + k] = q[i]
    <2>1. p \in Seq(Events) /\ q \in Seq(Events)
      BY DEF Logs
    <2> QED
      BY <2>1, DispatcherAssumed, DP!Joined
  <1> HIDE DEF t, k
  <1>2. Carries(t, n) => Carries(p, n) \/ Carries(q, n)
    BY <1>1, ZenonT(60) DEF Carries
  <1>3. Carries(p, n) => Carries(t, n)
    BY <1>1, ZenonT(60) DEF Carries
  <1>4. Carries(q, n) => Carries(t, n)
    BY <1>1, ZenonT(60) DEF Carries
  <1> QED
    BY <1>2, <1>3, <1>4 DEF t

LEMMA InFurther ==
    ASSUME NEW own, NEW p \in MessageQueues(own), NEW q \in MessageQueues(own), NEW n
    PROVE  In(n, p \o q) <=> In(n, p) \/ In(n, q)
  <1> DEFINE t == p \o q
             k == Len(p)
  <1>1. /\ \A i \in DOMAIN t :
              \/ i \in DOMAIN p /\ t[i] = p[i]
              \/ i > k /\ i - k \in DOMAIN q /\ t[i] = q[i - k]
        /\ \A i \in DOMAIN p : i \in DOMAIN t /\ t[i] = p[i]
        /\ \A i \in DOMAIN q : i + k \in DOMAIN t /\ t[i + k] = q[i]
    <2>1. p \in Seq(own) /\ q \in Seq(own)
      BY DEF MessageQueues
    <2> QED
      BY <2>1, DispatcherAssumed, DP!Joined
  <1> HIDE DEF t, k
  <1>2. In(n, t) => In(n, p) \/ In(n, q)
    BY <1>1, Zenon DEF In
  <1>3. In(n, p) => In(n, t)
    BY <1>1, Zenon DEF In
  <1>4. In(n, q) => In(n, t)
    BY <1>1, Zenon DEF In
  <1> QED
    BY <1>2, <1>3, <1>4 DEF t


-----------------------------------------------------------------------------
\* Where the messages of the channel are: dispatched, and in its three queues, one after
\* the other.

Placed(l, ms, qs, ps, last) ==
    \E a, b, c \in Nat :
        /\ a <= b /\ b <= c /\ c <= last
        /\ Ascends(l, 0, a) /\ Rises(ms, a, b)
        /\ Ascends(qs, b, c) /\ Ascends(ps, c, last)

Somewhere(l, ms, qs, ps, n) ==
    Carries(l, n) \/ In(n, ms) \/ Carries(qs, n) \/ Carries(ps, n)

LEMMA QueuesAreLogs ==
    ASSUME NEW own, NEW q \in EventQueues(own)
    PROVE  q \in Logs
  <1>1. Incoming(own) \subseteq Events
    BY DEF Incoming
  <1> QED
    BY <1>1, SeqSubset DEF EventQueues, Logs

LEMMA PlacedOther ==
    ASSUME NEW l \in Logs, NEW ms, NEW qs \in Logs, NEW ps \in Logs, NEW last,
           NEW e \in Events, e.type # "message", Placed(l, ms, qs, ps, last)
    PROVE  /\ Placed(Append(l, e), ms, qs, ps, last)
           /\ Placed(l, ms, Append(qs, e), ps, last)
           /\ Placed(l, ms, qs, Append(ps, e), last)
           /\ \A n : Somewhere(l, ms, qs, ps, n) <=> Somewhere(Append(l, e), ms, qs, ps, n)
           /\ \A n : Somewhere(l, ms, qs, ps, n) <=> Somewhere(l, ms, Append(qs, e), ps, n)
           /\ \A n : Somewhere(l, ms, qs, ps, n) <=> Somewhere(l, ms, qs, Append(ps, e), n)
  <1>1. \A q \in {l, qs, ps} : \A lo, hi : Ascends(q, lo, hi) => Ascends(Append(q, e), lo, hi)
    BY AscendsOther
  <1>2. \A q \in {l, qs, ps} : \A n : Carries(q, n) <=> Carries(Append(q, e), n)
    BY AscendsOther
  <1>3. /\ Placed(Append(l, e), ms, qs, ps, last)
        /\ Placed(l, ms, Append(qs, e), ps, last)
        /\ Placed(l, ms, qs, Append(ps, e), last)
    BY <1>1, Zenon DEF Placed
  <1> QED
    BY <1>2, <1>3, Zenon DEF Somewhere

\* More messages come in.
LEMMA PlacedMore ==
    ASSUME NEW own \in SUBSET Nat, NEW l \in Logs, NEW ms \in MessageQueues(own),
           NEW qs \in Logs, NEW ps \in Logs, NEW last \in Nat,
           Placed(l, ms, qs, ps, last),
           NEW ns \in MessageQueues(own), NEW next \in Nat, last <= next,
           Rises(ns, last, next)
    PROVE  /\ qs = <<>> /\ ps = <<>> => Placed(l, ms \o ns, qs, ps, next)
           /\ ps = <<>> => Placed(l, ms, qs \o Messages(ns), ps, next)
           /\ Placed(l, ms, qs, ps \o Messages(ns), next)
  <1>1. PICK a \in Nat, b \in Nat, c \in Nat :
            /\ a <= b /\ b <= c /\ c <= last
            /\ Ascends(l, 0, a) /\ Rises(ms, a, b)
            /\ Ascends(qs, b, c) /\ Ascends(ps, c, last)
    BY Zenon DEF Placed
  <1>2. Messages(ns) \in Logs /\ Ascends(Messages(ns), last, next)
    BY MessagesTyped, RisesAscends, QueuesAreLogs
  <1>3. /\ b <= last /\ a <= last /\ c <= next /\ next <= next /\ b <= b /\ last <= last
    BY <1>1
  <1>4. ASSUME qs = <<>>, ps = <<>> PROVE Placed(l, ms \o ns, qs, ps, next)
    <2>1. Rises(ms, a, last)
      BY <1>1, <1>3, RisesWider
    <2>2. Rises(ms \o ns, a, next)
      BY <1>3, <2>1, RisesFurther
    <2>3. Ascends(qs, next, next) /\ Ascends(ps, next, next)
      BY <1>4, Nothing
    <2>4. a <= next
      BY <1>3
    <2> QED
      BY <1>1, <1>3, <2>2, <2>3, <2>4, Zenon DEF Placed
  <1>5. ASSUME ps = <<>> PROVE Placed(l, ms, qs \o Messages(ns), ps, next)
    <2>1. Ascends(qs, b, last)
      BY <1>1, <1>3, Wider
    <2>2. Ascends(qs \o Messages(ns), b, next)
      BY <1>2, <1>3, <2>1, AscendsFurther
    <2>3. Ascends(ps, next, next)
      BY <1>5, Nothing
    <2>4. b <= next
      BY <1>3
    <2> QED
      BY <1>1, <1>3, <2>2, <2>3, <2>4, Zenon DEF Placed
  <1>6. Placed(l, ms, qs, ps \o Messages(ns), next)
    <2>1. Ascends(ps \o Messages(ns), c, next)
      BY <1>1, <1>2, <1>3, AscendsFurther
    <2> QED
      BY <1>1, <1>3, <2>1, Zenon DEF Placed
  <1> QED
    BY <1>4, <1>5, <1>6

LEMMA SomewhereMore ==
    ASSUME NEW own \in SUBSET Nat, NEW l \in Logs, NEW ms \in MessageQueues(own),
           NEW qs \in Logs, NEW ps \in Logs, NEW ns \in MessageQueues(own), NEW n,
           Somewhere(l, ms, qs, ps, n) \/ In(n, ns)
    PROVE  /\ Somewhere(l, ms \o ns, qs, ps, n)
           /\ Somewhere(l, ms, qs \o Messages(ns), ps, n)
           /\ Somewhere(l, ms, qs, ps \o Messages(ns), n)
           /\ Somewhere(l \o Messages(ns), ms, qs, ps, n)
  <1>1. Messages(ns) \in Logs /\ (Carries(Messages(ns), n) <=> In(n, ns))
    BY MessagesTyped, RisesAscends, QueuesAreLogs
  <1>2. In(n, ms \o ns) <=> In(n, ms) \/ In(n, ns)
    BY InFurther
  <1>3. \A q \in {l, qs, ps} :
            Carries(q \o Messages(ns), n) <=> Carries(q, n) \/ Carries(Messages(ns), n)
    BY <1>1, CarriesFurther
  <1> QED
    BY <1>1, <1>2, <1>3, Zenon DEF Somewhere

\* The first k of the queued messages are dispatched.
LEMMA PlacedParts ==
    ASSUME NEW own \in SUBSET Nat, NEW l \in Logs, NEW ms \in MessageQueues(own),
           NEW qs \in Logs, NEW ps \in Logs, NEW last \in Nat,
           Placed(l, ms, qs, ps, last), NEW k \in 1 .. Len(ms)
    PROVE  LET p == SubSeq(ms, 1, k)
               q == SubSeq(ms, k + 1, Len(ms))
           IN  /\ Placed(l \o Messages(p), q, qs, ps, last)
               /\ \A n : Somewhere(l, ms, qs, ps, n) =>
                            Somewhere(l \o Messages(p), q, qs, ps, n)
  <1> DEFINE p == SubSeq(ms, 1, k)
             q == SubSeq(ms, k + 1, Len(ms))
  <1>1. PICK a \in Nat, b \in Nat, c \in Nat :
            /\ a <= b /\ b <= c /\ c <= last
            /\ Ascends(l, 0, a) /\ Rises(ms, a, b)
            /\ Ascends(qs, b, c) /\ Ascends(ps, c, last)
    BY Zenon DEF Placed
  <1>2. /\ ms[k] \in Nat /\ a <= ms[k] /\ ms[k] <= b
        /\ Rises(p, a, ms[k]) /\ Rises(q, ms[k], b)
        /\ \A n : In(n, ms) <=> In(n, p) \/ In(n, q)
    BY <1>1, RisesInParts
  <1>3. p \in MessageQueues(own) /\ q \in MessageQueues(own)
    BY Parts
  <1> HIDE DEF p, q
  <1>4. Messages(p) \in Logs /\ Ascends(Messages(p), a, ms[k])
    BY <1>2, <1>3, MessagesTyped, RisesAscends, QueuesAreLogs
  <1>5. Ascends(l \o Messages(p), 0, ms[k])
    BY <1>1, <1>2, <1>4, AscendsFurther
  <1>6. Placed(l \o Messages(p), q, qs, ps, last)
    BY <1>1, <1>2, <1>5, Zenon DEF Placed
  <1>7. ASSUME NEW n, Somewhere(l, ms, qs, ps, n)
        PROVE  Somewhere(l \o Messages(p), q, qs, ps, n)
    <2>1. Carries(l \o Messages(p), n) <=> Carries(l, n) \/ Carries(Messages(p), n)
      BY <1>4, CarriesFurther
    <2>2. Carries(Messages(p), n) <=> In(n, p)
      BY <1>3, RisesAscends
    <2> QED
      BY <1>2, <1>7, <2>1, <2>2, Zenon DEF Somewhere
  <1> QED
    BY <1>6, <1>7 DEF p, q

\* The oldest of the events that wait for the drain goes to the queue of messages, or,
\* if it is another one, is handled.
LEMMA PlacedHead ==
    ASSUME NEW own \in SUBSET Nat, NEW l \in Logs, NEW ms \in MessageQueues(own),
           NEW qs \in EventQueues(own), qs # <<>>, NEW ps \in Logs, NEW last \in Nat,
           Placed(l, ms, qs, ps, last)
    PROVE  LET e == Head(qs)
           IN  /\ e.type = "message" =>
                     /\ Placed(l, ms \o <<e.n>>, Tail(qs), ps, last)
                     /\ \A n : Somewhere(l, ms, qs, ps, n) =>
                                  Somewhere(l, ms \o <<e.n>>, Tail(qs), ps, n)
               /\ e.type # "message" =>
                     /\ Placed(l, ms, Tail(qs), ps, last)
                     /\ \A n : Somewhere(l, ms, qs, ps, n) =>
                                  Somewhere(l, ms, Tail(qs), ps, n)
  <1> DEFINE e == Head(qs)
             r == Tail(qs)
  <1>1. PICK a \in Nat, b \in Nat, c \in Nat :
            /\ a <= b /\ b <= c /\ c <= last
            /\ Ascends(l, 0, a) /\ Rises(ms, a, b)
            /\ Ascends(qs, b, c) /\ Ascends(ps, c, last)
    BY Zenon DEF Placed
  <1>2. /\ e.type = "message" =>
              /\ e.n \in Nat /\ b <= e.n /\ e.n <= c
              /\ Rises(<<e.n>>, b, e.n) /\ Ascends(r, e.n, c)
              /\ \A n : Carries(qs, n) <=> n = e.n \/ Carries(r, n)
        /\ e.type # "message" =>
              /\ Ascends(r, b, c)
              /\ \A n : Carries(qs, n) <=> Carries(r, n)
    BY <1>1, AscendsTail
  <1>3. e \in Incoming(own)
    BY DEF EventQueues
  <1> HIDE DEF e, r
  <1>4. ASSUME e.type = "message"
        PROVE  /\ Placed(l, ms \o <<e.n>>, r, ps, last)
               /\ \A n : Somewhere(l, ms, qs, ps, n) =>
                            Somewhere(l, ms \o <<e.n>>, r, ps, n)
    <2> DEFINE x == e.n
               one == <<x>>
    <2>1. x \in own
      BY <1>3, <1>4 DEF Incoming
    <2>2. Rises(one, b, x) /\ x \in Nat /\ b <= x /\ x <= c
      BY <1>2, <1>4
    <2> HIDE DEF x
    <2>3. one \in MessageQueues(own) /\ \A n : n = x => In(n, one)
      BY <2>1 DEF MessageQueues, In
    <2> HIDE DEF one
    <2>4. Rises(ms \o one, a, x)
      BY <1>1, <2>2, <2>3, RisesFurther
    <2>5. Ascends(r, x, c)
      BY <1>2, <1>4 DEF x
    <2>6. a <= x
      BY <1>1, <2>2
    <2>7. Placed(l, ms \o one, r, ps, last)
      BY <1>1, <2>2, <2>4, <2>5, <2>6, Zenon DEF Placed
    <2>8. ASSUME NEW n, Somewhere(l, ms, qs, ps, n)
          PROVE  Somewhere(l, ms \o one, r, ps, n)
      <3>1. In(n, ms \o one) <=> In(n, ms) \/ In(n, one)
        BY <2>3, InFurther
      <3>2. Carries(qs, n) => In(n, one) \/ Carries(r, n)
        BY <1>2, <1>4, <2>3, Zenon DEF x
      <3> QED
        BY <2>8, <3>1, <3>2, Zenon DEF Somewhere
    <2> QED
      BY <2>7, <2>8, Zenon DEF one, x
  <1>5. ASSUME e.type # "message"
        PROVE  /\ Placed(l, ms, r, ps, last)
               /\ \A n : Somewhere(l, ms, qs, ps, n) => Somewhere(l, ms, r, ps, n)
    BY <1>1, <1>2, <1>5, Zenon DEF Placed, Somewhere
  <1> QED
    BY <1>4, <1>5, Zenon DEF e, r

\* What else becomes of the queues: the messages waiting are dropped, those of an
\* unknown channel start to wait for its announcement, time goes by.
LEMMA PlacedElse ==
    ASSUME NEW l, NEW ms, NEW qs, NEW ps \in Logs, NEW last \in Nat,
           Placed(l, ms, qs, ps, last)
    PROVE  /\ Placed(l, <<>>, qs, ps, last)
           /\ Placed(l, ms, ps, <<>>, last)
           /\ \A next \in Nat : last <= next => Placed(l, ms, qs, ps, next)
  <1>1. PICK a \in Nat, b \in Nat, c \in Nat :
            /\ a <= b /\ b <= c /\ c <= last
            /\ Ascends(l, 0, a) /\ Rises(ms, a, b)
            /\ Ascends(qs, b, c) /\ Ascends(ps, c, last)
    BY Zenon DEF Placed
  <1>2. Placed(l, <<>>, qs, ps, last)
    BY <1>1, Nothing, Zenon DEF Placed
  <1>3. Placed(l, ms, ps, <<>>, last)
    <2>1. last <= last /\ b <= last
      BY <1>1
    <2>2. Ascends(ps, b, last) /\ Ascends(<<>>, last, last)
      BY <1>1, <2>1, Wider, Nothing
    <2> QED
      BY <1>1, <2>1, <2>2, Zenon DEF Placed
  <1>4. ASSUME NEW next \in Nat, last <= next PROVE Placed(l, ms, qs, ps, next)
    <2>1. c <= next /\ c <= c
      BY <1>1, <1>4
    <2>2. Ascends(ps, c, next)
      BY <1>1, <1>4, <2>1, Wider
    <2> QED
      BY <1>1, <2>1, <2>2, Zenon DEF Placed
  <1> QED
    BY <1>2, <1>3, <1>4

-----------------------------------------------------------------------------
\* The messages up to last were received.  They are in order wherever they are; those in
\* seen are somewhere, unless the channel or the connection is closed or a handler threw.
Lively(s) == s.readyState # "closed" /\ ~s.closed /\ ~s.threw

Sorted(s, last, seen) ==
    /\ Placed(s.log, s.queuedMessageEvents, s.queuedNativeEvents,
              s.pendingNativeEvents, last)
    /\ Lively(s) => \A n \in seen : Somewhere(s.log, s.queuedMessageEvents,
                                              s.queuedNativeEvents,
                                              s.pendingNativeEvents, n)
    /\ s.known => s.pendingNativeEvents = <<>>
    /\ s.queuedNativeEvents # <<>> => s.announcementPending \/ s.nativeEventDrainActive
    /\ s.readyState = "connecting" => ~s.known /\ s.queuedNativeEvents = <<>>

\* Steps that leave them where they are.
Still(s, r) ==
    /\ r.log = s.log
    /\ r.queuedMessageEvents = s.queuedMessageEvents
    /\ r.queuedNativeEvents = s.queuedNativeEvents
    /\ r.pendingNativeEvents = s.pendingNativeEvents
    /\ r.announcementPending = s.announcementPending
    /\ r.nativeEventDrainActive = s.nativeEventDrainActive
    /\ r.known => s.known
    /\ r.readyState = "connecting" => s.readyState = "connecting"
    /\ Lively(r) => Lively(s)

LEMMA StillSorted ==
    ASSUME NEW s, NEW r, Still(s, r), NEW last, NEW seen, Sorted(s, last, seen)
    PROVE  Sorted(r, last, seen)
  BY Zenon DEF Still, Sorted

LEMMA StillTwice ==
    /\ \A s, p, r : Still(s, p) /\ Still(p, r) => Still(s, r)
    /\ \A s : Still(s, s)
  <1>1. ASSUME NEW s, NEW p, NEW r, Still(s, p), Still(p, r) PROVE Still(s, r)
    <2>1. /\ r.log = s.log
          /\ r.queuedMessageEvents = s.queuedMessageEvents
          /\ r.queuedNativeEvents = s.queuedNativeEvents
          /\ r.pendingNativeEvents = s.pendingNativeEvents
          /\ r.announcementPending = s.announcementPending
          /\ r.nativeEventDrainActive = s.nativeEventDrainActive
      BY <1>1 DEF Still
    <2> QED
      BY <1>1, <2>1, Zenon DEF Still
  <1>2. \A s : Still(s, s)
    BY Zenon DEF Still
  <1> QED
    BY <1>1, <1>2

LEMMA StillFields ==
    ASSUME NEW own, NEW s \in States(own), NEW x
    PROVE  /\ Still(s, [s EXCEPT !.messageEventFlushScheduled = x])
           /\ Still(s, [s EXCEPT !.messageEventGateActive = x])
           /\ Still(s, [s EXCEPT !.messageConsumerGateActive = x])
           /\ Still(s, [s EXCEPT !.nativeCloseEventQueued = x])
           /\ Still(s, [s EXCEPT !.graceOver = x])
           /\ Still(s, [s EXCEPT !.pendingDataChannelEvent = x])
           /\ Still(s, [s EXCEPT !.dataChannelFlushScheduled = x])
           /\ Still(s, [s EXCEPT !.timers = x])
           /\ Still(s, [s EXCEPT !.immediates = x])
           /\ Still(s, [s EXCEPT !.messageConsumer = x])
           /\ Still(s, [s EXCEPT !.dataChannelConsumer = x])
           /\ Still(s, [s EXCEPT !.operationsPending = x])
           /\ Still(s, [s EXCEPT !.operations = x])
           /\ Still(s, [s EXCEPT !.idleCallbacks = x])
           /\ Still(s, [s EXCEPT !.deferredIceEvents = x])
           /\ Still(s, [s EXCEPT !.iceEventFlushScheduled = x])
           /\ Still(s, [s EXCEPT !.openEventPending = x])
           /\ Still(s, [s EXCEPT !.openEventDispatched = x])
           /\ Still(s, [s EXCEPT !.openDeferredForIce = x])
  BY SMTT(60) DEF Still, Lively, States

LEMMA StillEnds ==
    ASSUME NEW own, NEW s \in States(own)
    PROVE  /\ Still(s, [s EXCEPT !.closed = TRUE])
           /\ Still(s, [s EXCEPT !.threw = TRUE])
           /\ Still(s, [s EXCEPT !.known = FALSE])
           /\ Still(s, [s EXCEPT !.readyState = "closed"])
           /\ s.readyState # "closed" => Still(s, [s EXCEPT !.readyState = "closing"])
           /\ s.readyState # "closed" => Still(s, [s EXCEPT !.readyState = "open"])
  BY SMTT(60) DEF Still, Lively, States

LEMMA StillMethods ==
    ASSUME NEW own \in SUBSET Nat, NEW s \in States(own)
    PROVE  /\ \A x : Still(s, Later(s, x)) /\ Still(s, Soon(s, x))
           /\ Still(s, ScheduleMessageFlush(s))
           /\ Still(s, ReleaseConsumerGate(s))
           /\ \A c \in Consumers : Still(s, AddMessageConsumer(s, c))
           /\ Still(s, GateUntilConsumer(s))
           /\ Still(s, GateAfterAnnouncement(s))
           /\ Still(s, ScheduleIceFlush(s))
           /\ Still(s, ScheduleDataChannelFlush(s))
           /\ Still(s, LocalClose(s))
           /\ Still(s, QueueNativeClose(s))
  <1>1. ASSUME NEW p \in States(own), NEW x
        PROVE  Still(p, Later(p, x)) /\ Still(p, Soon(p, x))
    BY StillFields DEF Later, Soon
  <1>2. ASSUME NEW p \in States(own) PROVE Still(p, ScheduleMessageFlush(p))
    <2> DEFINE r == [p EXCEPT !.messageEventFlushScheduled = TRUE]
    <2>1. r \in States(own) /\ Still(p, r)
      BY Flags, StillFields
    <2> HIDE DEF r
    <2>2. Still(r, Soon(r, "flushMessages"))
      BY <1>1, <2>1
    <2> QED
      BY <2>1, <2>2, StillTwice, Zenon DEF ScheduleMessageFlush, r
  <1>3. ASSUME NEW p \in States(own) PROVE Still(p, ReleaseConsumerGate(p))
    <2> DEFINE r == [p EXCEPT !.messageConsumerGateActive = FALSE]
    <2>1. r \in States(own) /\ Still(p, r)
      BY Flags, StillFields
    <2> HIDE DEF r
    <2>2. Still(r, ScheduleMessageFlush(r))
      BY <1>2, <2>1
    <2> QED
      BY <2>1, <2>2, StillTwice, Zenon DEF ReleaseConsumerGate, r
  <1>4. ASSUME NEW c \in Consumers PROVE Still(s, AddMessageConsumer(s, c))
    <2> DEFINE r == [s EXCEPT !.messageConsumer = c]
    <2>1. r \in States(own) /\ Still(s, r)
      BY Values, StillFields
    <2> HIDE DEF r
    <2>2. Still(r, ReleaseConsumerGate(r))
      BY <1>3, <2>1
    <2> QED
      BY <2>1, <2>2, StillTwice, Zenon DEF AddMessageConsumer, r
  <1>5. Still(s, GateUntilConsumer(s))
    BY StillFields, StillTwice, Zenon DEF GateUntilConsumer
  <1>6. Still(s, GateAfterAnnouncement(s))
    <2> DEFINE r == [s EXCEPT !.messageEventGateActive = TRUE]
    <2>1. r \in States(own) /\ Still(s, r)
      BY Flags, StillFields
    <2> HIDE DEF r
    <2>2. Still(r, Later(r, "gate1"))
      BY <1>1, <2>1
    <2> QED
      BY <2>1, <2>2, StillTwice, Zenon DEF GateAfterAnnouncement, r
  <1>7. Still(s, ScheduleIceFlush(s))
    <2> DEFINE r == [s EXCEPT !.iceEventFlushScheduled = TRUE]
    <2>1. r \in States(own) /\ Still(s, r)
      BY Flags, StillFields
    <2> HIDE DEF r
    <2>2. Still(r, Soon(r, "flushIceEvents"))
      BY <1>1, <2>1
    <2> QED
      BY <2>1, <2>2, StillTwice, Zenon DEF ScheduleIceFlush, r
  <1>8. Still(s, ScheduleDataChannelFlush(s))
    <2> DEFINE r == [s EXCEPT !.dataChannelFlushScheduled = TRUE]
    <2>1. r \in States(own) /\ Still(s, r)
      BY Flags, StillFields
    <2> HIDE DEF r
    <2>2. Still(r, Later(r, "flushDataChannel"))
      BY <1>1, <2>1
    <2> QED
      BY <2>1, <2>2, StillTwice, Zenon DEF ScheduleDataChannelFlush, r
  <1>9. Still(s, LocalClose(s))
    <2> DEFINE r == [s EXCEPT !.readyState = "closing"]
    <2>1. r \in States(own) /\ (s.readyState # "closed" => Still(s, r))
      BY Values, Names, StillEnds
    <2> HIDE DEF r
    <2>2. Still(r, Soon(r, "closeNative"))
      BY <1>1, <2>1
    <2>3. s.readyState # "closed" => Still(s, Soon(r, "closeNative"))
      BY <2>1, <2>2, StillTwice, Zenon
    <2> QED
      BY <2>3, StillTwice DEF LocalClose, r
  <1>10. Still(s, QueueNativeClose(s))
    <2> DEFINE r1 == [s EXCEPT !.nativeCloseEventQueued = TRUE]
               r == [r1 EXCEPT !.graceOver = FALSE]
    <2>1. r1 \in States(own) /\ Still(s, r1)
      BY Flags, StillFields
    <2> HIDE DEF r1
    <2>2. r \in States(own) /\ Still(r1, r)
      BY <2>1, Flags, StillFields
    <2> HIDE DEF r
    <2>3. Still(r, Later(r, "pollClose"))
      BY <1>1, <2>2
    <2>4. Still(s, Later(r, "pollClose"))
      BY <2>1, <2>2, <2>3, StillTwice, Zenon
    <2> QED
      BY <2>4, StillTwice, Zenon DEF QueueNativeClose, r, r1
  <1> QED
    BY <1>1, <1>2, <1>3, <1>4, <1>5, <1>6, <1>7, <1>8, <1>9, <1>10

LEMMA SortedDispatch ==
    ASSUME NEW own \in SUBSET Nat, NEW s \in States(own), NEW e \in Events,
           e.type # "message", NEW last, NEW seen, Sorted(s, last, seen)
    PROVE  Sorted(Dispatch(s, e), last, seen)
  <1> DEFINE q == Append(s.log, e)
             r == [s EXCEPT !.log = q]
  <1>1. /\ s.log \in Logs /\ s.queuedNativeEvents \in Logs /\ s.pendingNativeEvents \in Logs
    BY Components, QueuesAreLogs
  <1>2. /\ Placed(q, s.queuedMessageEvents, s.queuedNativeEvents, s.pendingNativeEvents, last)
        /\ \A n : Somewhere(s.log, s.queuedMessageEvents, s.queuedNativeEvents,
                            s.pendingNativeEvents, n)
                    => Somewhere(q, s.queuedMessageEvents, s.queuedNativeEvents,
                                 s.pendingNativeEvents, n)
    BY <1>1, PlacedOther DEF Sorted
  <1> HIDE DEF q
  <1>3. /\ r.log = q
        /\ r.queuedMessageEvents = s.queuedMessageEvents
        /\ r.queuedNativeEvents = s.queuedNativeEvents
        /\ r.pendingNativeEvents = s.pendingNativeEvents
        /\ r.announcementPending = s.announcementPending
        /\ r.nativeEventDrainActive = s.nativeEventDrainActive
        /\ r.known = s.known /\ r.readyState = s.readyState
        /\ r.closed = s.closed /\ r.threw = s.threw
    BY DEF States
  <1>4. Dispatch(s, e) = r
    BY DEF Dispatch, q
  <1> HIDE DEF r
  <1> QED
    BY <1>2, <1>3, <1>4, Zenon DEF Sorted, Lively

LEMMA SortedCloses ==
    ASSUME NEW own \in SUBSET Nat, NEW s \in States(own), NEW last, NEW seen,
           Sorted(s, last, seen)
    PROVE  /\ Sorted(HandleClose(s), last, seen)
           /\ Sorted(CloseIfClosing(s), last, seen)
           /\ Sorted(ClosePeer(s), last, seen)
           /\ Sorted(PollClose(s), last, seen)
  <1>1. ASSUME NEW p \in States(own), Sorted(p, last, seen)
        PROVE  Sorted(HandleClose(p), last, seen)
    <2> DEFINE r1 == [p EXCEPT !.readyState = "closed"]
               r == [r1 EXCEPT !.known = FALSE]
    <2>1. r1 \in States(own) /\ Still(p, r1)
      BY Values, Names, StillEnds
    <2> HIDE DEF r1
    <2>2. r \in States(own) /\ Still(r1, r)
      BY <2>1, Flags, StillEnds
    <2> HIDE DEF r
    <2>3. Sorted(r, last, seen)
      BY <1>1, <2>1, <2>2, StillSorted
    <2>4. Event("close", 0) \in Events /\ Event("close", 0).type # "message"
      BY EventsAre DEF Event
    <2>5. Sorted(Dispatch(r, Event("close", 0)), last, seen)
      BY <2>2, <2>3, <2>4, SortedDispatch
    <2> QED
      BY <1>1, <2>5, Zenon DEF HandleClose, r, r1
  <1>2. Sorted(CloseIfClosing(s), last, seen)
    BY <1>1, Zenon DEF CloseIfClosing
  <1>3. Sorted(ClosePeer(s), last, seen)
    <2> DEFINE r1 == [s EXCEPT !.closed = TRUE]
               r == [r1 EXCEPT !.deferredIceEvents = 0]
    <2>1. r1 \in States(own) /\ Still(s, r1)
      BY Flags, StillEnds
    <2> HIDE DEF r1
    <2>2. r \in States(own) /\ Still(r1, r)
      BY <2>1, Values, Names, StillFields
    <2>3. ClosePeer(s) = IF r.known THEN HandleClose(r) ELSE r
      BY Zenon DEF ClosePeer, r1
    <2> HIDE DEF r
    <2>4. Sorted(r, last, seen)
      BY <2>1, <2>2, StillSorted
    <2> QED
      BY <1>1, <2>2, <2>3, <2>4, Zenon
  <1>4. Sorted(PollClose(s), last, seen)
    <2> DEFINE t == [s EXCEPT !.nativeCloseEventQueued = FALSE]
               u == [t EXCEPT !.readyState = "closing"]
               v == Dispatch(u, Event("closing", 0))
    <2>1. t \in States(own) /\ Still(s, t)
      BY Flags, StillFields
    <2> HIDE DEF t
    <2>2. Sorted(t, last, seen)
      BY <2>1, StillSorted
    <2>3. u \in States(own) /\ (t.readyState # "closed" => Still(t, u))
      BY <2>1, Values, Names, StillEnds
    <2> HIDE DEF u
    <2>4. t.readyState # "closed" => Sorted(u, last, seen)
      BY <2>2, <2>3, StillSorted
    <2>5. Event("closing", 0) \in Events /\ Event("closing", 0).type # "message"
      BY EventsAre DEF Event
    <2>6. v \in States(own) /\ (t.readyState # "closed" => Sorted(v, last, seen))
      BY <2>3, <2>4, <2>5, StepsTyped, SortedDispatch
    <2> HIDE DEF v
    <2>7. Still(v, Later(v, "finishClose")) /\ Still(s, Later(s, "pollClose"))
      BY <2>6, StillMethods
    <2>8. /\ t.readyState # "closed" => Sorted(Later(v, "finishClose"), last, seen)
          /\ Sorted(Later(s, "pollClose"), last, seen)
          /\ Sorted(HandleClose(t), last, seen)
      BY <1>1, <2>1, <2>2, <2>6, <2>7, StillSorted
    <2>9. t.readyState = "open" => t.readyState # "closed"
      OBVIOUS
    <2> QED
      BY <2>8, <2>9, Zenon DEF PollClose, t, u, v
  <1> QED
    BY <1>1, <1>2, <1>3, <1>4

LEMMA SortedOpen ==
    ASSUME NEW own \in SUBSET Nat, NEW s \in States(own), NEW last, NEW seen,
           Sorted(s, last, seen)
    PROVE  Sorted(DispatchOpen(s), last, seen)
  <1> DEFINE t == [s EXCEPT !.openDeferredForIce = TRUE]
             u == [s EXCEPT !.openEventDispatched = TRUE]
  <1>1. t \in States(own) /\ u \in States(own) /\ Still(s, t) /\ Still(s, u)
    BY Flags, StillFields
  <1> HIDE DEF t, u
  <1>2. Sorted(t, last, seen) /\ Sorted(u, last, seen)
    BY <1>1, StillSorted
  <1>3. Still(t, ScheduleIceFlush(t))
    BY <1>1, StillMethods
  <1>4. Sorted(ScheduleIceFlush(t), last, seen)
    BY <1>2, <1>3, StillSorted
  <1>5. Event("open", 0) \in Events /\ Event("open", 0).type # "message"
    BY EventsAre DEF Event
  <1>6. Sorted(Dispatch(u, Event("open", 0)), last, seen)
    BY <1>1, <1>2, <1>5, SortedDispatch
  <1> QED
    BY <1>4, <1>6, Zenon DEF DispatchOpen, t, u

LEMMA StillIce ==
    ASSUME NEW own \in SUBSET Nat, NEW s \in States(own),
           ~s.closed => s.deferredIceEvents > 0
    PROVE  Still(s, FlushIceEvents(s))
  <1> DEFINE idle == [s EXCEPT !.iceEventFlushScheduled = FALSE]
             left == IF s.closed THEN 0 ELSE s.deferredIceEvents - 1
             t == [idle EXCEPT !.deferredIceEvents = left]
  <1>1. left \in IceCounts
    <2>1. s.deferredIceEvents \in IceCounts /\ 0 \in IceCounts
      BY Components, Names
    <2> QED
      BY <2>1, IncomingAssumption DEF IceCounts, IncomingAssumption
  <1> HIDE DEF left
  <1>2. /\ idle \in States(own) /\ Still(s, idle)
    BY Flags, StillFields
  <1> HIDE DEF idle
  <1>3. /\ t \in States(own) /\ Still(idle, t)
    BY <1>1, <1>2, Values, StillFields
  <1> HIDE DEF t
  <1>4. /\ Still(idle, ScheduleIceFlush(idle)) /\ Still(t, ScheduleIceFlush(t))
        /\ Still(t, Soon(t, "retryOpen"))
    BY <1>2, <1>3, StillMethods
  <1>5. FlushIceEvents(s) \in {ScheduleIceFlush(idle), ScheduleIceFlush(t), t,
                               Soon(t, "retryOpen")}
    BY Zenon DEF FlushIceEvents, idle, left, t
  <1>6. Still(s, t) /\ Still(s, ScheduleIceFlush(idle))
    BY <1>2, <1>3, <1>4, StillTwice
  <1>7. Still(s, ScheduleIceFlush(t)) /\ Still(s, Soon(t, "retryOpen"))
    BY <1>4, <1>6, StillTwice
  <1> QED
    BY <1>5, <1>6, <1>7


-----------------------------------------------------------------------------
\* More messages come in, and those that wait are dispatched.

LEMMA SortedLater ==
    ASSUME NEW own \in SUBSET Nat, NEW s \in States(own), NEW last \in Nat, NEW seen,
           Sorted(s, last, seen), NEW next \in Nat, last <= next, NEW new,
           Lively(s) => new \subseteq seen
    PROVE  Sorted(s, next, new)
  <1>1. s.pendingNativeEvents \in Logs
    BY Components, QueuesAreLogs
  <1>2. Placed(s.log, s.queuedMessageEvents, s.queuedNativeEvents,
               s.pendingNativeEvents, next)
    BY <1>1, PlacedElse DEF Sorted
  <1> QED
    BY <1>2, Zenon DEF Sorted

LEMMA SortedMore ==
    ASSUME NEW own \in SUBSET Nat, NEW s \in States(own), NEW last \in Nat, NEW seen,
           Sorted(s, last, seen), NEW next \in Nat, last <= next,
           NEW ns \in MessageQueues(own), Rises(ns, last, next),
           NEW new, \A n \in new : n \in seen \/ In(n, ns)
    PROVE  /\ s.pendingNativeEvents = <<>> /\ s.queuedNativeEvents = <<>> =>
                 Sorted([s EXCEPT !.queuedMessageEvents = @ \o ns], next, new)
           /\ s.known /\ (s.announcementPending \/ s.nativeEventDrainActive) =>
                 Sorted([s EXCEPT !.queuedNativeEvents = @ \o Messages(ns)], next, new)
           /\ ~s.known => Sorted([s EXCEPT !.pendingNativeEvents = @ \o Messages(ns)],
                                 next, new)
  <1> DEFINE l == s.log
             ms == s.queuedMessageEvents
             qs == s.queuedNativeEvents
             ps == s.pendingNativeEvents
             ms1 == ms \o ns
             qs1 == qs \o Messages(ns)
             ps1 == ps \o Messages(ns)
             r1 == [s EXCEPT !.queuedMessageEvents = ms1]
             r2 == [s EXCEPT !.queuedNativeEvents = qs1]
             r3 == [s EXCEPT !.pendingNativeEvents = ps1]
  <1>1. /\ l \in Logs /\ ms \in MessageQueues(own) /\ qs \in Logs /\ ps \in Logs
    BY Components, QueuesAreLogs
  <1>2. Placed(l, ms, qs, ps, last)
    BY DEF Sorted
  <1> HIDE DEF l, ms, qs, ps
  <1>3. /\ qs = <<>> /\ ps = <<>> => Placed(l, ms1, qs, ps, next)
        /\ ps = <<>> => Placed(l, ms, qs1, ps, next)
        /\ Placed(l, ms, qs, ps1, next)
    BY <1>1, <1>2, PlacedMore
  <1>4. ASSUME NEW n \in new, Lively(s)
        PROVE  /\ Somewhere(l, ms1, qs, ps, n)
               /\ Somewhere(l, ms, qs1, ps, n)
               /\ Somewhere(l, ms, qs, ps1, n)
    <2>1. Somewhere(l, ms, qs, ps, n) \/ In(n, ns)
      BY <1>4, Zenon DEF Sorted, l, ms, qs, ps
    <2> QED
      BY <1>1, <2>1, SomewhereMore
  <1> HIDE DEF ms1, qs1, ps1
  <1>5. /\ s.log = l /\ s.queuedMessageEvents = ms
        /\ s.queuedNativeEvents = qs /\ s.pendingNativeEvents = ps
    BY DEF l, ms, qs, ps
  <1>6. \A r \in {r1, r2, r3} :
            /\ r.log = l
            /\ r.announcementPending = s.announcementPending
            /\ r.nativeEventDrainActive = s.nativeEventDrainActive
            /\ r.known = s.known /\ r.readyState = s.readyState
            /\ r.closed = s.closed /\ r.threw = s.threw
    BY <1>5 DEF States
  <1>7. /\ r1.queuedMessageEvents = ms1 /\ r1.queuedNativeEvents = qs
        /\ r1.pendingNativeEvents = ps
        /\ r2.queuedMessageEvents = ms /\ r2.queuedNativeEvents = qs1
        /\ r2.pendingNativeEvents = ps
        /\ r3.queuedMessageEvents = ms /\ r3.queuedNativeEvents = qs
        /\ r3.pendingNativeEvents = ps1
    BY <1>5 DEF States
  <1> HIDE DEF r1, r2, r3
  <1>8. ps = <<>> /\ qs = <<>> => Sorted(r1, next, new)
    BY <1>3, <1>4, <1>5, <1>6, <1>7, Zenon DEF Sorted, Lively
  <1>9. s.known /\ (s.announcementPending \/ s.nativeEventDrainActive) =>
            Sorted(r2, next, new)
    BY <1>3, <1>4, <1>5, <1>6, <1>7, Zenon DEF Sorted, Lively
  <1>10. ~s.known => Sorted(r3, next, new)
    BY <1>3, <1>4, <1>5, <1>6, <1>7, Zenon DEF Sorted, Lively
  <1> QED
    BY <1>5, <1>8, <1>9, <1>10, Zenon DEF r1, r2, r3, ms1, qs1, ps1

LEMMA SortedQueue ==
    ASSUME NEW own \in SUBSET Nat, NEW s \in States(own), NEW last \in Nat, NEW seen,
           Sorted(s, last, seen), NEW next \in Nat, last <= next,
           NEW ns \in MessageQueues(own), Rises(ns, last, next),
           NEW new, \A n \in new : n \in seen \/ In(n, ns)
    PROVE  /\ s.pendingNativeEvents = <<>> /\ s.queuedNativeEvents = <<>> =>
                 Sorted(QueueMessages(s, ns), next, new)
           /\ Sorted(AfterMessages(s, ns), next, new)
  <1> DEFINE r == [s EXCEPT !.queuedMessageEvents = @ \o ns]
  <1>1. r \in States(own)
    BY Components, Queues, Values
  <1>2. s.pendingNativeEvents = <<>> /\ s.queuedNativeEvents = <<>> => Sorted(r, next, new)
    BY SortedMore
  <1>3. QueueMessages(s, ns) = ScheduleMessageFlush(r)
    BY Zenon DEF QueueMessages
  <1> HIDE DEF r
  <1>4. Still(r, ScheduleMessageFlush(r))
    BY <1>1, StillMethods
  <1>5. s.pendingNativeEvents = <<>> /\ s.queuedNativeEvents = <<>> =>
            Sorted(QueueMessages(s, ns), next, new)
    BY <1>2, <1>3, <1>4, StillSorted
  <1>6. ASSUME s.closed \/ ns = <<>> PROVE Sorted(s, next, new)
    <2>1. Lively(s) => new \subseteq seen
      BY <1>6, Nothing, Zenon DEF Lively
    <2> QED
      BY <2>1, SortedLater
  <1>7. /\ s.known /\ (s.announcementPending \/ s.nativeEventDrainActive) =>
              Sorted([s EXCEPT !.queuedNativeEvents = @ \o Messages(ns)], next, new)
        /\ ~s.known => Sorted([s EXCEPT !.pendingNativeEvents = @ \o Messages(ns)],
                              next, new)
    BY SortedMore
  <1>8. s.known /\ ~(s.announcementPending \/ s.nativeEventDrainActive) =>
            s.pendingNativeEvents = <<>> /\ s.queuedNativeEvents = <<>>
    BY Zenon DEF Sorted
  <1>9. Sorted(AfterMessages(s, ns), next, new)
    BY <1>5, <1>6, <1>7, <1>8, Zenon DEF AfterMessages
  <1> QED
    BY <1>5, <1>9

\* The first k of ns are handed over, and the others queued.
LEMMA Unlively ==
    ASSUME NEW s, NEW last, NEW seen, Sorted(s, last, {}), ~Lively(s)
    PROVE  Sorted(s, last, seen)
  BY Zenon DEF Sorted

LEMMA PeerClosed ==
    ASSUME NEW own \in SUBSET Nat, NEW s \in States(own)
    PROVE  ~Lively(ClosePeer(s)) /\ ~Lively([s EXCEPT !.threw = TRUE])
  <1>1. ~Lively([s EXCEPT !.threw = TRUE])
    BY DEF Lively, States
  <1>2. ~Lively(ClosePeer(s))
    <2> DEFINE r1 == [s EXCEPT !.closed = TRUE]
               r == [r1 EXCEPT !.deferredIceEvents = 0]
               u1 == [r EXCEPT !.readyState = "closed"]
               u == [u1 EXCEPT !.known = FALSE]
    <2>1. r1 \in States(own) /\ r1.closed
      <3>1. r1 \in States(own)
        BY Flags
      <3>2. r1.closed
        BY DEF States
      <3> QED
        BY <3>1, <3>2
    <2> HIDE DEF r1
    <2>2. r \in States(own) /\ r.closed
      BY <2>1, Values, Names DEF States
    <2>3. ClosePeer(s) = IF r.known THEN HandleClose(r) ELSE r
      BY Zenon DEF ClosePeer, r1
    <2> HIDE DEF r
    <2>4. u1 \in States(own) /\ u1.closed
      BY <2>2, Values, Names DEF States
    <2> HIDE DEF u1
    <2>5. u \in States(own) /\ u.closed
      <3>1. u \in States(own)
        BY <2>4, Flags
      <3>2. u.closed
        BY <2>4 DEF States
      <3> QED
        BY <3>1, <3>2
    <2>6. HandleClose(r) = IF r.readyState = "closed" THEN r
                           ELSE Dispatch(u, Event("close", 0))
      BY Zenon DEF HandleClose, u1
    <2> HIDE DEF u
    <2>7. Dispatch(u, Event("close", 0)).closed
      BY <2>5 DEF Dispatch, States
    <2> QED
      BY <2>2, <2>3, <2>6, <2>7, Zenon DEF Lively
  <1> QED
    BY <1>1, <1>2

LEMMA SortedFirst ==
    ASSUME NEW own \in SUBSET Nat, NEW t \in States(own), NEW last \in Nat, NEW seen,
           t.queuedMessageEvents = <<>>, NEW ns \in MessageQueues(own),
           Sorted([t EXCEPT !.queuedMessageEvents = ns], last, seen),
           NEW k \in 1 .. Len(ns)
    PROVE  LET first == DispatchMessages(t, SubSeq(ns, 1, k))
               rest == SubSeq(ns, k + 1, Len(ns))
           IN  /\ first \in States(own)
               /\ first.queuedMessageEvents = <<>>
               /\ Sorted([first EXCEPT !.queuedMessageEvents = rest], last, seen)
               /\ Sorted(first, last, {})
               /\ k = Len(ns) => Sorted(first, last, seen)
  <1> DEFINE part == SubSeq(ns, 1, k)
             rest == SubSeq(ns, k + 1, Len(ns))
             first == DispatchMessages(t, part)
             l == t.log
             l1 == l \o Messages(part)
             qs == t.queuedNativeEvents
             ps == t.pendingNativeEvents
             v == [t EXCEPT !.queuedMessageEvents = ns]
             w == [first EXCEPT !.queuedMessageEvents = rest]
  <1>1. /\ l \in Logs /\ qs \in Logs /\ ps \in Logs
    BY Components, QueuesAreLogs
  <1>2. /\ v.log = l /\ v.queuedMessageEvents = ns
        /\ v.queuedNativeEvents = qs /\ v.pendingNativeEvents = ps
        /\ v.announcementPending = t.announcementPending
        /\ v.nativeEventDrainActive = t.nativeEventDrainActive
        /\ v.known = t.known /\ v.readyState = t.readyState
        /\ v.closed = t.closed /\ v.threw = t.threw
    BY DEF States
  <1>3. part \in MessageQueues(own) /\ rest \in MessageQueues(own)
    BY Parts
  <1>4. first \in States(own)
    BY <1>3, StepsTyped
  <1>5. first = [t EXCEPT !.log = l1]
    BY DEF DispatchMessages
  <1> HIDE DEF l, l1, qs, ps, part, rest
  <1>6. /\ first.log = l1 /\ first.queuedMessageEvents = <<>>
        /\ first.queuedNativeEvents = qs /\ first.pendingNativeEvents = ps
        /\ first.announcementPending = t.announcementPending
        /\ first.nativeEventDrainActive = t.nativeEventDrainActive
        /\ first.known = t.known /\ first.readyState = t.readyState
        /\ first.closed = t.closed /\ first.threw = t.threw
    <2>1. qs = t.queuedNativeEvents /\ ps = t.pendingNativeEvents
      BY DEF qs, ps
    <2> QED
      BY <1>5, <2>1 DEF States
  <1> HIDE DEF first
  <1>7. /\ w.log = l1 /\ w.queuedMessageEvents = rest
        /\ w.queuedNativeEvents = qs /\ w.pendingNativeEvents = ps
        /\ w.announcementPending = t.announcementPending
        /\ w.nativeEventDrainActive = t.nativeEventDrainActive
        /\ w.known = t.known /\ w.readyState = t.readyState
        /\ w.closed = t.closed /\ w.threw = t.threw
    BY <1>4, <1>6 DEF States
  <1> HIDE DEF v, w
  <1>8. Sorted(v, last, seen)
    BY DEF v
  <1>9. Placed(l, ns, qs, ps, last)
    BY <1>2, <1>8, Zenon DEF Sorted
  <1>10. /\ Placed(l1, rest, qs, ps, last)
         /\ \A n : Somewhere(l, ns, qs, ps, n) => Somewhere(l1, rest, qs, ps, n)
    BY <1>1, <1>9, PlacedParts DEF l1, part, rest
  <1>11. Sorted(w, last, seen)
    BY <1>2, <1>7, <1>8, <1>10, Zenon DEF Sorted, Lively
  <1>12. Placed(l1, <<>>, qs, ps, last)
    BY <1>1, <1>10, PlacedElse
  <1>13. Sorted(first, last, {})
    BY <1>2, <1>6, <1>8, <1>12, Zenon DEF Sorted
  <1>14. ASSUME k = Len(ns) PROVE Sorted(first, last, seen)
    <2>1. rest = <<>>
      BY <1>14 DEF rest, MessageQueues
    <2> QED
      BY <1>6, <1>7, <1>11, <2>1, Zenon DEF Sorted, Lively
  <1> QED
    BY <1>4, <1>6, <1>11, <1>13, <1>14, Zenon DEF w, first, part, rest

LEMMA EmptyFirst ==
    ASSUME NEW own, NEW ns \in MessageQueues(own)
    PROVE  <<>> \o ns = ns
  BY DEF MessageQueues

\* Queueing the rest in an empty queue.
LEMMA SortedRest ==
    ASSUME NEW own \in SUBSET Nat, NEW s \in States(own), NEW last, NEW seen,
           s.queuedMessageEvents = <<>>, NEW ns \in MessageQueues(own),
           Sorted([s EXCEPT !.queuedMessageEvents = ns], last, seen)
    PROVE  Sorted(QueueMessages(s, ns), last, seen)
  <1> DEFINE r == [s EXCEPT !.queuedMessageEvents = ns]
  <1>1. s.queuedMessageEvents \o ns = ns
    BY EmptyFirst
  <1>2. QueueMessages(s, ns) = ScheduleMessageFlush(r)
    BY <1>1, Zenon DEF QueueMessages
  <1>3. r \in States(own)
    BY Values
  <1> HIDE DEF r
  <1>4. Still(r, ScheduleMessageFlush(r))
    BY <1>3, StillMethods
  <1>5. Sorted(r, last, seen)
    BY DEF r
  <1> QED
    BY <1>2, <1>4, <1>5, StillSorted

LEMMA SortedHandOver ==
    ASSUME NEW own \in SUBSET Nat, NEW t \in States(own), NEW last \in Nat, NEW seen,
           t.queuedMessageEvents = <<>>, NEW ns \in MessageQueues(own), ns # <<>>,
           Sorted([t EXCEPT !.queuedMessageEvents = ns], last, seen),
           NEW r \in HandOver(t, ns)
    PROVE  Sorted(r, last, seen)
  <1> DEFINE first(k) == DispatchMessages(t, SubSeq(ns, 1, k))
             rest(k) == SubSeq(ns, k + 1, Len(ns))
             listens(k) == [first(k) EXCEPT !.messageConsumer = "listener"]
             w(k) == [first(k) EXCEPT !.queuedMessageEvents = rest(k)]
             v(k) == [listens(k) EXCEPT !.queuedMessageEvents = rest(k)]
  <1>1. ASSUME NEW k \in 1 .. Len(ns)
        PROVE  /\ first(k) \in States(own) /\ first(k).queuedMessageEvents = <<>>
               /\ Sorted(w(k), last, seen) /\ Sorted(first(k), last, {})
               /\ k = Len(ns) => Sorted(first(k), last, seen)
               /\ rest(k) \in MessageQueues(own)
    BY SortedFirst, Parts, ZenonT(60)
  <1>2. Len(ns) \in 1 .. Len(ns) /\ \A k \in 1 .. Len(ns) - 1 : k \in 1 .. Len(ns)
    BY DEF MessageQueues
  <1>3. Sorted(first(Len(ns)), last, seen)
    BY <1>1, <1>2
  <1>4. \/ r = first(Len(ns))
        \/ \E k \in 1 .. Len(ns) : r = ClosePeer(first(k))
        \/ \E k \in 1 .. Len(ns) - 1 : r = QueueMessages(listens(k), rest(k))
    BY Zenon DEF HandOver
  <1> HIDE DEF first, rest
  <1>5. ASSUME NEW k \in 1 .. Len(ns) PROVE Sorted(ClosePeer(first(k)), last, seen)
    <2>1. Sorted(ClosePeer(first(k)), last, {})
      BY <1>1, SortedCloses
    <2>2. ~Lively(ClosePeer(first(k)))
      BY <1>1, PeerClosed
    <2> QED
      BY <2>1, <2>2, Unlively
  <1>6. ASSUME NEW k \in 1 .. Len(ns)
        PROVE  Sorted(QueueMessages(listens(k), rest(k)), last, seen)
    <2>1. listens(k) \in States(own)
      BY <1>1, Values, Names
    <2>2. listens(k).queuedMessageEvents = <<>>
      BY <1>1 DEF States
    <2>3. w(k) \in States(own)
      BY <1>1, Values
    <2>4. v(k) = [w(k) EXCEPT !.messageConsumer = "listener"]
      BY <1>1 DEF States
    <2> HIDE DEF w
    <2>5. Still(w(k), [w(k) EXCEPT !.messageConsumer = "listener"])
      BY <2>3, StillFields
    <2>6. Sorted(v(k), last, seen)
      BY <1>1, <2>4, <2>5, StillSorted
    <2> HIDE DEF listens
    <2> QED
      BY <1>1, <2>1, <2>2, <2>6, SortedRest
  <1> HIDE DEF listens
  <1> QED
    BY <1>2, <1>3, <1>4, <1>5, <1>6, Zenon

LEMMA SortedBatch ==
    ASSUME NEW own \in SUBSET Nat, NEW s \in States(own), NEW last \in Nat, NEW seen,
           Sorted(s, last, seen), NEW next \in Nat, last <= next,
           NEW ns \in MessageQueues(own), ns # <<>>, Rises(ns, last, next),
           NEW new, \A n \in new : n \in seen \/ In(n, ns),
           NEW r \in MessageBatch(s, ns)
    PROVE  Sorted(r, next, new)
  <1> DEFINE t == [s EXCEPT !.messageConsumerGateActive = FALSE]
             early == [s EXCEPT !.pendingNativeEvents = @ \o Messages(ns)]
             held == [s EXCEPT !.queuedNativeEvents = @ \o Messages(ns)]
             free == /\ s.known /\ ~(s.announcementPending \/ s.nativeEventDrainActive)
             first(k) == DispatchMessages(t, SubSeq(ns, 1, k))
             cut(k) == [first(k) EXCEPT !.threw = TRUE]
  <1>1. t \in States(own) /\ Still(s, t)
    BY Flags, StillFields
  <1>2. Sorted(t, last, seen)
    BY <1>1, StillSorted
  <1>3. /\ t.queuedMessageEvents = s.queuedMessageEvents
        /\ t.queuedNativeEvents = s.queuedNativeEvents
        /\ t.pendingNativeEvents = s.pendingNativeEvents
    BY <1>1, Zenon DEF Still
  <1>4. /\ ~s.known => Sorted(early, next, new)
        /\ s.known /\ (s.announcementPending \/ s.nativeEventDrainActive) =>
              Sorted(held, next, new)
    BY SortedMore
  <1>5. free => s.pendingNativeEvents = <<>> /\ s.queuedNativeEvents = <<>>
    BY Zenon DEF Sorted
  <1> HIDE DEF t
  <1>6. free => /\ Sorted(QueueMessages(s, ns), next, new)
                /\ Sorted(QueueMessages(t, ns), next, new)
    BY <1>1, <1>2, <1>3, <1>5, SortedQueue
  <1>7. ASSUME free, s.queuedMessageEvents = <<>>
        PROVE  Sorted([t EXCEPT !.queuedMessageEvents = ns], next, new)
    <2>1. t.queuedMessageEvents \o ns = ns
      BY <1>3, <1>7, EmptyFirst
    <2>2. Sorted([t EXCEPT !.queuedMessageEvents = @ \o ns], next, new)
      BY <1>1, <1>2, <1>3, <1>5, <1>7, SortedMore
    <2> QED
      BY <2>1, <2>2, Zenon
  <1>8. ASSUME free, s.queuedMessageEvents = <<>>, NEW p \in HandOver(t, ns)
        PROVE  Sorted(p, next, new)
    BY <1>1, <1>3, <1>7, <1>8, SortedHandOver
  <1>9. ASSUME free, s.queuedMessageEvents = <<>>, NEW k \in 1 .. Len(ns)
        PROVE  Sorted(cut(k), next, new)
    <2>1. first(k) \in States(own) /\ Sorted(first(k), next, {})
      BY <1>1, <1>3, <1>7, <1>9, SortedFirst
    <2> HIDE DEF first
    <2>2. Still(first(k), cut(k)) /\ ~Lively(cut(k))
      BY <2>1, StillEnds, PeerClosed
    <2>3. Sorted(cut(k), next, {})
      BY <2>1, <2>2, StillSorted
    <2> QED
      BY <2>2, <2>3, Unlively
  <1>10. \/ ~s.known /\ r = early
         \/ s.known /\ (s.announcementPending \/ s.nativeEventDrainActive) /\ r = held
         \/ free /\ (r = QueueMessages(s, ns) \/ r = QueueMessages(t, ns))
         \/ /\ free /\ s.queuedMessageEvents = <<>>
            /\ r \in HandOver(t, ns) \/ \E k \in 1 .. Len(ns) : r = cut(k)
    BY Zenon DEF MessageBatch, t
  <1> HIDE DEF early, held, free, cut
  <1> QED
    BY <1>4, <1>6, <1>8, <1>9, <1>10, Zenon

LEMMA SortedHead ==
    ASSUME NEW own \in SUBSET Nat, NEW t \in States(own), NEW last \in Nat, NEW seen,
           t.queuedMessageEvents = <<>>, NEW ns \in MessageQueues(own), ns # <<>>,
           Sorted([t EXCEPT !.queuedMessageEvents = ns], last, seen)
    PROVE  LET first == DispatchMessages(t, <<Head(ns)>>)
           IN  /\ first \in States(own)
               /\ first.queuedMessageEvents = <<>>
               /\ Sorted([first EXCEPT !.queuedMessageEvents = Tail(ns)], last, seen)
               /\ Tail(ns) = <<>> => Sorted(first, last, seen)
  <1> DEFINE f(k) == DispatchMessages(t, SubSeq(ns, 1, k))
             after(k) == [f(k) EXCEPT !.queuedMessageEvents = SubSeq(ns, k + 1, Len(ns))]
             first == DispatchMessages(t, <<Head(ns)>>)
  <1>1. /\ 1 \in 1 .. Len(ns) /\ SubSeq(ns, 1, 1) = <<Head(ns)>>
        /\ SubSeq(ns, 1 + 1, Len(ns)) = Tail(ns)
        /\ Tail(ns) = <<>> => 1 = Len(ns)
    BY DispatcherAssumed, DP!FirstAndRest DEF MessageQueues
  <1>2. \A k \in 1 .. Len(ns) :
            /\ f(k) \in States(own) /\ f(k).queuedMessageEvents = <<>>
            /\ Sorted(after(k), last, seen)
            /\ k = Len(ns) => Sorted(f(k), last, seen)
    BY SortedFirst, ZenonT(60)
  <1>3. f(1) = first /\ after(1) = [first EXCEPT !.queuedMessageEvents = Tail(ns)]
    BY <1>1, Zenon
  <1> HIDE DEF f, after
  <1>4. /\ f(1) \in States(own) /\ f(1).queuedMessageEvents = <<>>
        /\ Sorted(after(1), last, seen)
        /\ 1 = Len(ns) => Sorted(f(1), last, seen)
    BY <1>1, <1>2, Zenon
  <1> QED
    BY <1>1, <1>3, <1>4, Zenon

LEMMA SortedFlush ==
    ASSUME NEW own \in SUBSET Nat, NEW s \in States(own), NEW last \in Nat, NEW seen,
           Sorted(s, last, seen), NEW r \in FlushMessages(s)
    PROVE  Sorted(r, last, seen)
  <1> DEFINE t == [s EXCEPT !.messageConsumerGateActive = FALSE]
             empty == [s EXCEPT !.queuedMessageEvents = <<>>]
             idle == [s EXCEPT !.idleCallbacks = s.idleCallbacks + 1]
             u == [t EXCEPT !.queuedMessageEvents = <<>>]
             ms == s.queuedMessageEvents
             v == DispatchMessages(u, <<Head(ms)>>)
  <1>1. ms \in MessageQueues(own) /\ s.pendingNativeEvents \in Logs
    BY Components, QueuesAreLogs
  <1>2. ASSUME s.readyState = "closed" PROVE Sorted(empty, last, seen)
    <2>1. Placed(s.log, <<>>, s.queuedNativeEvents, s.pendingNativeEvents, last)
      BY <1>1, PlacedElse DEF Sorted
    <2>2. /\ empty.log = s.log /\ empty.queuedMessageEvents = <<>>
          /\ empty.queuedNativeEvents = s.queuedNativeEvents
          /\ empty.pendingNativeEvents = s.pendingNativeEvents
          /\ empty.announcementPending = s.announcementPending
          /\ empty.nativeEventDrainActive = s.nativeEventDrainActive
          /\ empty.known = s.known /\ empty.readyState = s.readyState
      BY DEF States
    <2> HIDE DEF empty
    <2> QED
      BY <1>2, <2>1, <2>2, Zenon DEF Sorted, Lively
  <1>3. Sorted(idle, last, seen)
    <2>1. Still(s, idle)
      BY StillFields, Zenon
    <2> HIDE DEF idle
    <2> QED
      BY <2>1, StillSorted
  <1>4. t \in States(own) /\ Still(s, t)
    BY Flags, StillFields
  <1>5. t.queuedMessageEvents = ms
    BY DEF States
  <1> HIDE DEF t
  <1>6. Sorted(t, last, seen)
    BY <1>4, StillSorted
  <1> HIDE DEF ms
  <1>7. u \in States(own) /\ u.queuedMessageEvents = <<>>
    <2>1. u \in States(own)
      BY <1>4, Values, Names
    <2>2. u.queuedMessageEvents = <<>>
      BY <1>4 DEF States
    <2> QED
      BY <2>1, <2>2
  <1>8. [u EXCEPT !.queuedMessageEvents = ms] = t
    BY <1>4, <1>5 DEF States
  <1>9. ms = <<>> => u = t
    BY <1>4, <1>5 DEF States
  <1> HIDE DEF u
  <1>10. Sorted([u EXCEPT !.queuedMessageEvents = ms], last, seen)
    BY <1>6, <1>8
  <1>11. ASSUME NEW p \in HandOver(u, ms), ms # <<>> PROVE Sorted(p, last, seen)
    BY <1>1, <1>7, <1>10, <1>11, SortedHandOver
  <1>12. ASSUME ms # <<>>
         PROVE  /\ Tail(ms) = <<>> => Sorted(v, last, seen)
                /\ Sorted(QueueMessages(v, Tail(ms)), last, seen)
    <2>1. /\ v \in States(own) /\ v.queuedMessageEvents = <<>>
          /\ Sorted([v EXCEPT !.queuedMessageEvents = Tail(ms)], last, seen)
          /\ Tail(ms) = <<>> => Sorted(v, last, seen)
      BY <1>1, <1>7, <1>10, <1>12, SortedHead
    <2>2. Tail(ms) \in MessageQueues(own)
      BY <1>1, <1>12, DispatcherAssumed, DP!FirstAndRest DEF MessageQueues
    <2> HIDE DEF v
    <2> QED
      BY <2>1, <2>2, SortedRest
  <1>13. \/ s.readyState = "closed" /\ r = empty
         \/ r = idle \/ r = s
         \/ ms = <<>> /\ r = u
         \/ ms # <<>> /\ r \in HandOver(u, ms)
         \/ ms # <<>> /\ Tail(ms) = <<>> /\ r = v
         \/ ms # <<>> /\ r = QueueMessages(v, Tail(ms))
    BY Zenon DEF FlushMessages, u, ms, t
  <1> HIDE DEF empty, idle, v
  <1> QED
    BY <1>2, <1>3, <1>6, <1>9, <1>11, <1>12, <1>13, Zenon

-----------------------------------------------------------------------------
\* The direct events, and the events that were held back.

LEMMA SortedAppended ==
    ASSUME NEW own \in SUBSET Nat, NEW s \in States(own), NEW last \in Nat, NEW seen,
           Sorted(s, last, seen), NEW e \in Incoming(own), e.type # "message"
    PROVE  /\ s.known /\ (s.announcementPending \/ s.nativeEventDrainActive) =>
                 Sorted([s EXCEPT !.queuedNativeEvents = Append(@, e)], last, seen)
           /\ ~s.known =>
                 Sorted([s EXCEPT !.pendingNativeEvents = Append(@, e)], last, seen)
  <1> DEFINE l == s.log
             ms == s.queuedMessageEvents
             qs == s.queuedNativeEvents
             ps == s.pendingNativeEvents
             qs1 == Append(qs, e)
             ps1 == Append(ps, e)
             r1 == [s EXCEPT !.queuedNativeEvents = qs1]
             r2 == [s EXCEPT !.pendingNativeEvents = ps1]
  <1>1. /\ l \in Logs /\ qs \in Logs /\ ps \in Logs /\ e \in Events
    BY Components, QueuesAreLogs DEF Incoming
  <1>2. Placed(l, ms, qs, ps, last)
    BY DEF Sorted
  <1> HIDE DEF l, ms, qs, ps
  <1>3. /\ Placed(l, ms, qs1, ps, last) /\ Placed(l, ms, qs, ps1, last)
        /\ \A n : Somewhere(l, ms, qs, ps, n) <=> Somewhere(l, ms, qs1, ps, n)
        /\ \A n : Somewhere(l, ms, qs, ps, n) <=> Somewhere(l, ms, qs, ps1, n)
    BY <1>1, <1>2, PlacedOther
  <1> HIDE DEF qs1, ps1
  <1>4. /\ s.log = l /\ s.queuedMessageEvents = ms
        /\ s.queuedNativeEvents = qs /\ s.pendingNativeEvents = ps
    BY DEF l, ms, qs, ps
  <1>5. \A r \in {r1, r2} :
            /\ r.log = l /\ r.queuedMessageEvents = ms
            /\ r.announcementPending = s.announcementPending
            /\ r.nativeEventDrainActive = s.nativeEventDrainActive
            /\ r.known = s.known /\ r.readyState = s.readyState
            /\ r.closed = s.closed /\ r.threw = s.threw
    BY <1>4 DEF States
  <1>6. /\ r1.queuedNativeEvents = qs1 /\ r1.pendingNativeEvents = ps
        /\ r2.queuedNativeEvents = qs /\ r2.pendingNativeEvents = ps1
    BY <1>4 DEF States
  <1> HIDE DEF r1, r2
  <1>7. s.known /\ (s.announcementPending \/ s.nativeEventDrainActive) =>
            Sorted(r1, last, seen)
    BY <1>3, <1>4, <1>5, <1>6, Zenon DEF Sorted, Lively
  <1>8. ~s.known => Sorted(r2, last, seen)
    BY <1>3, <1>4, <1>5, <1>6, Zenon DEF Sorted, Lively
  <1> QED
    BY <1>7, <1>8, Zenon DEF r1, r2, qs1, ps1, qs, ps

LEMMA SortedHandle ==
    ASSUME NEW own \in SUBSET Nat, NEW s \in States(own), NEW last \in Nat, NEW seen,
           Sorted(s, last, seen), s.known, s.readyState # "closed",
           NEW e \in Incoming(own), e.type # "message"
    PROVE  Sorted(HandleNow(s, e), last, seen) /\ Sorted(HandleNative(s, e), last, seen)
  <1> DEFINE t == [s EXCEPT !.readyState = "open"]
             u == [t EXCEPT !.openEventPending = TRUE]
             r == [s EXCEPT !.queuedNativeEvents = Append(@, e)]
  <1>1. e.type \in {"open", "close"}
    BY DEF Incoming
  <1>2. t \in States(own) /\ Still(s, t)
    BY Values, Names, StillEnds
  <1> HIDE DEF t
  <1>3. Sorted(t, last, seen)
    BY <1>2, StillSorted
  <1>4. Sorted(DispatchOpen(t), last, seen)
    BY <1>2, <1>3, SortedOpen
  <1>5. Still(s, QueueNativeClose(s))
    BY StillMethods
  <1>6. Sorted(QueueNativeClose(s), last, seen)
    BY <1>5, StillSorted
  <1>7. HandleNow(s, e) \in {t, DispatchOpen(t), s, QueueNativeClose(s)}
    <2>1. CASE e.type = "open"
      BY <2>1, Zenon DEF HandleNow, t
    <2>2. CASE e.type = "close"
      BY <2>2 DEF HandleNow
    <2> QED
      BY <1>1, <2>1, <2>2
  <1>8. Sorted(HandleNow(s, e), last, seen)
    BY <1>3, <1>4, <1>6, <1>7, Zenon
  <1>9. Still(t, u)
    BY <1>2, StillFields
  <1>10. HandleNative(s, e) = IF ~(s.announcementPending \/ s.nativeEventDrainActive)
                              THEN HandleNow(s, e)
                              ELSE IF e.type = "open" THEN u ELSE r
    BY Zenon DEF HandleNative, t
  <1> HIDE DEF u
  <1>11. Sorted(u, last, seen)
    BY <1>3, <1>9, StillSorted
  <1>12. s.announcementPending \/ s.nativeEventDrainActive => Sorted(r, last, seen)
    BY SortedAppended
  <1> HIDE DEF r
  <1> QED
    BY <1>8, <1>10, <1>11, <1>12, Zenon

LEMMA SortedPeerEvent ==
    ASSUME NEW own \in SUBSET Nat, NEW s \in States(own), NEW last \in Nat, NEW seen,
           Sorted(s, last, seen), s.known => s.readyState # "closed",
           NEW e \in Incoming(own), e.type # "message"
    PROVE  Sorted(PeerEvent(s, e), last, seen)
  <1> DEFINE r == [s EXCEPT !.pendingNativeEvents = Append(@, e)]
  <1>1. e.type # "datachannel"
    BY DEF Incoming
  <1>2. PeerEvent(s, e) = IF s.closed THEN s
                          ELSE IF s.known THEN HandleNative(s, e) ELSE r
    BY <1>1, Zenon DEF PeerEvent
  <1>3. ~s.known => Sorted(r, last, seen)
    BY SortedAppended
  <1>4. s.known => Sorted(HandleNative(s, e), last, seen)
    BY SortedHandle
  <1> HIDE DEF r
  <1> QED
    BY <1>2, <1>3, <1>4, Zenon

LEMMA SortedAnnounce ==
    ASSUME NEW own \in SUBSET Nat, NEW s \in States(own), NEW last \in Nat, NEW seen,
           Sorted(s, last, seen), s.readyState = "connecting"
    PROVE  Sorted(Announce(s), last, seen)
  <1> DEFINE ps == s.pendingNativeEvents
             t == [s EXCEPT !.known = TRUE,
                            !.readyState = "open",
                            !.openEventPending = TRUE,
                            !.announcementPending = TRUE,
                            !.pendingDataChannelEvent = TRUE,
                            !.queuedNativeEvents = ps,
                            !.pendingNativeEvents = <<>>]
  <1>1. t \in States(own)
    <2> DEFINE r1 == [s EXCEPT !.known = TRUE]
               r2 == [r1 EXCEPT !.readyState = "open"]
               r3 == [r2 EXCEPT !.openEventPending = TRUE]
               r4 == [r3 EXCEPT !.announcementPending = TRUE]
               r5 == [r4 EXCEPT !.pendingDataChannelEvent = TRUE]
               r6 == [r5 EXCEPT !.queuedNativeEvents = ps]
               r7 == [r6 EXCEPT !.pendingNativeEvents = <<>>]
    <2>1. /\ <<>> \in EventQueues(own) /\ "open" \in ReadyStates
          /\ ps \in EventQueues(own)
      BY Names, Components
    <2> HIDE DEF ps
    <2>2. r1 \in States(own)
      BY Flags
    <2> HIDE DEF r1
    <2>3. r2 \in States(own)
      BY <2>1, <2>2, Values
    <2> HIDE DEF r2
    <2>4. r3 \in States(own)
      BY <2>3, Flags
    <2> HIDE DEF r3
    <2>5. r4 \in States(own)
      BY <2>4, Flags
    <2> HIDE DEF r4
    <2>6. r5 \in States(own)
      BY <2>5, Flags
    <2> HIDE DEF r5
    <2>7. r6 \in States(own)
      BY <2>1, <2>6, Values
    <2> HIDE DEF r6
    <2>8. r7 \in States(own)
      BY <2>1, <2>7, Values
    <2> QED
      BY <2>8, Zenon DEF t, r1, r2, r3, r4, r5, r6, r7
  <1>2. /\ t.log = s.log /\ t.queuedMessageEvents = s.queuedMessageEvents
        /\ t.queuedNativeEvents = ps /\ t.pendingNativeEvents = <<>>
        /\ t.announcementPending = TRUE /\ t.known = TRUE /\ t.readyState = "open"
        /\ t.closed = s.closed /\ t.threw = s.threw
    BY DEF States
  <1>3. Announce(s) = ScheduleDataChannelFlush(t)
    BY Zenon DEF Announce
  <1>4. s.queuedNativeEvents = <<>> /\ ~s.known
    BY Zenon DEF Sorted
  <1>5. ps \in Logs
    BY Components, QueuesAreLogs
  <1>6. Placed(s.log, s.queuedMessageEvents, ps, <<>>, last)
    BY <1>5, PlacedElse DEF Sorted
  <1>7. Lively(s) => \A n \in seen :
            Somewhere(s.log, s.queuedMessageEvents, <<>>, ps, n)
    BY <1>4, Zenon DEF Sorted
  <1> HIDE DEF t, ps
  <1>8. \A n : ~Carries(<<>>, n)
    BY DEF Carries
  <1>9. Lively(s) => \A n \in seen :
            Somewhere(s.log, s.queuedMessageEvents, ps, <<>>, n)
    BY <1>7, <1>8, Zenon DEF Somewhere
  <1>10. Lively(t) => Lively(s)
    BY <1>2 DEF Lively
  <1>11. Sorted(t, last, seen)
    <2>1. "open" # "connecting"
      OBVIOUS
    <2> QED
      BY <1>2, <1>6, <1>9, <1>10, <2>1, Zenon DEF Sorted
  <1>12. Still(t, ScheduleDataChannelFlush(t))
    BY <1>1, StillMethods
  <1> QED
    BY <1>3, <1>11, <1>12, StillSorted

LEMMA SortedDrain ==
    ASSUME NEW own \in SUBSET Nat, NEW s \in States(own), NEW last \in Nat, NEW seen,
           Sorted(s, last, seen), NoOpen(s.queuedNativeEvents)
    PROVE  Sorted(DrainQueuedEvent(s), last, seen)
  <1> DEFINE l == s.log
             ms == s.queuedMessageEvents
             qs == s.queuedNativeEvents
             ps == s.pendingNativeEvents
             e == Head(qs)
             rest == Tail(qs)
             t == [s EXCEPT !.queuedNativeEvents = rest]
             v == HandleNow(t, e)
             stop == [v EXCEPT !.nativeEventDrainActive = FALSE]
  <1>1. /\ l \in Logs /\ ms \in MessageQueues(own) /\ qs \in EventQueues(own)
        /\ ps \in Logs
    BY Components, QueuesAreLogs
  <1>2. Placed(l, ms, qs, ps, last) /\ NoOpen(qs)
    BY DEF Sorted
  <1>3. /\ s.log = l /\ s.queuedMessageEvents = ms
        /\ s.queuedNativeEvents = qs /\ s.pendingNativeEvents = ps
    OBVIOUS
  <1> HIDE DEF l, ms, qs, ps
  <1>4. CASE qs = <<>>
    <2> DEFINE r == [s EXCEPT !.nativeEventDrainActive = FALSE]
    <2>1. DrainQueuedEvent(s) = r
      BY <1>3, <1>4, Zenon DEF DrainQueuedEvent
    <2>2. /\ r.log = s.log /\ r.queuedMessageEvents = s.queuedMessageEvents
          /\ r.queuedNativeEvents = s.queuedNativeEvents
          /\ r.pendingNativeEvents = s.pendingNativeEvents
          /\ r.known = s.known /\ r.readyState = s.readyState
          /\ r.closed = s.closed /\ r.threw = s.threw
      BY DEF States
    <2> HIDE DEF r
    <2> QED
      BY <1>3, <1>4, <2>1, <2>2, Zenon DEF Sorted, Lively
  <1>5. CASE qs # <<>>
    <2>1. /\ e \in Incoming(own) /\ rest \in EventQueues(own) /\ e.type # "open"
      BY <1>1, <1>2, <1>5, Queues, NoOpenQueues
    <2>2. /\ e.type = "message" =>
                /\ Placed(l, ms \o <<e.n>>, rest, ps, last)
                /\ \A n : Somewhere(l, ms, qs, ps, n) =>
                             Somewhere(l, ms \o <<e.n>>, rest, ps, n)
          /\ e.type # "message" =>
                /\ Placed(l, ms, rest, ps, last)
                /\ \A n : Somewhere(l, ms, qs, ps, n) =>
                             Somewhere(l, ms, rest, ps, n)
      BY <1>1, <1>2, <1>5, PlacedHead
    <2>3. /\ s.announcementPending \/ s.nativeEventDrainActive
          /\ s.readyState # "connecting"
          /\ s.known => ps = <<>>
          /\ Lively(s) => \A n \in seen : Somewhere(l, ms, qs, ps, n)
      BY <1>3, <1>5, Zenon DEF Sorted
    <2> HIDE DEF e, rest
    <2>4. /\ t \in States(own) /\ t.log = l /\ t.queuedMessageEvents = ms
          /\ t.queuedNativeEvents = rest /\ t.pendingNativeEvents = ps
          /\ t.announcementPending = s.announcementPending
          /\ t.nativeEventDrainActive = s.nativeEventDrainActive
          /\ t.known = s.known /\ t.readyState = s.readyState
          /\ t.closed = s.closed /\ t.threw = s.threw
      <3>1. t \in States(own)
        BY <2>1, Values
      <3>2. /\ t.log = l /\ t.queuedMessageEvents = ms
            /\ t.queuedNativeEvents = rest /\ t.pendingNativeEvents = ps
            /\ t.announcementPending = s.announcementPending
            /\ t.nativeEventDrainActive = s.nativeEventDrainActive
            /\ t.known = s.known /\ t.readyState = s.readyState
            /\ t.closed = s.closed /\ t.threw = s.threw
        BY <1>3 DEF States
      <3> QED
        BY <3>1, <3>2
    <2> HIDE DEF t
    <2>5. v \in States(own)
      BY <2>1, <2>4, HandleTyped
    <2>6. v.queuedNativeEvents = rest /\ Sorted(v, last, seen)
      <3>1. CASE e.type = "message"
        <4> DEFINE ms1 == ms \o <<e.n>>
                   u == [t EXCEPT !.queuedMessageEvents = ms1]
        <4>1. v = ScheduleMessageFlush(u)
          BY <2>4, <3>1, Zenon DEF HandleNow, QueueMessages
        <4>2. ms1 \in MessageQueues(own)
          <5>1. e.n \in own
            BY <2>1, <3>1 DEF Incoming
          <5>2. <<e.n>> \in MessageQueues(own)
            BY <5>1 DEF MessageQueues
          <5> QED
            BY <1>1, <5>2, Queues
        <4>3. Placed(l, ms1, rest, ps, last)
          BY <2>2, <3>1
        <4>4. Lively(s) => \A n \in seen : Somewhere(l, ms1, rest, ps, n)
          BY <2>2, <2>3, <3>1
        <4> HIDE DEF ms1
        <4>5. u \in States(own)
          BY <2>4, <4>2, Values
        <4>6. /\ u.log = l /\ u.queuedMessageEvents = ms1
              /\ u.queuedNativeEvents = rest /\ u.pendingNativeEvents = ps
              /\ u.announcementPending = s.announcementPending
              /\ u.nativeEventDrainActive = s.nativeEventDrainActive
              /\ u.known = s.known /\ u.readyState = s.readyState
              /\ u.closed = s.closed /\ u.threw = s.threw
          BY <2>4 DEF States
        <4> HIDE DEF u
        <4>7. Sorted(u, last, seen)
          BY <2>3, <4>3, <4>4, <4>6, Zenon DEF Sorted, Lively
        <4>8. Still(u, v)
          BY <4>1, <4>5, StillMethods
        <4> QED
          BY <4>6, <4>7, <4>8, StillSorted DEF Still
      <3>2. CASE e.type = "close"
        <4>1. v = QueueNativeClose(t)
          BY <3>2 DEF HandleNow
        <4>2. Still(t, v)
          BY <2>4, <4>1, StillMethods
        <4>3. Sorted(t, last, seen)
          <5>1. Placed(l, ms, rest, ps, last) /\ "close" # "message"
            BY <2>2, <3>2
          <5>2. Lively(s) => \A n \in seen : Somewhere(l, ms, rest, ps, n)
            BY <2>2, <2>3, <3>2
          <5> QED
            BY <2>3, <2>4, <5>1, <5>2, Zenon DEF Sorted, Lively
        <4> QED
          BY <2>4, <4>2, <4>3, StillSorted DEF Still
      <3> QED
        BY <2>1, <3>1, <3>2 DEF Incoming
    <2> HIDE DEF v
    <2>7. Sorted(Soon(v, "drainNativeEvents"), last, seen)
      <3>1. Still(v, Soon(v, "drainNativeEvents"))
        BY <2>5, StillMethods
      <3> QED
        BY <2>6, <3>1, StillSorted
    <2>8. rest = <<>> => Sorted(stop, last, seen)
      <3>1. /\ stop.log = v.log /\ stop.queuedMessageEvents = v.queuedMessageEvents
            /\ stop.queuedNativeEvents = v.queuedNativeEvents
            /\ stop.pendingNativeEvents = v.pendingNativeEvents
            /\ stop.known = v.known /\ stop.readyState = v.readyState
            /\ stop.closed = v.closed /\ stop.threw = v.threw
        BY <2>5 DEF States
      <3> HIDE DEF stop
      <3> QED
        BY <2>6, <3>1, Zenon DEF Sorted, Lively
    <2>9. DrainQueuedEvent(s) = IF rest # <<>> THEN Soon(v, "drainNativeEvents") ELSE stop
      BY <1>3, <1>5, Zenon DEF DrainQueuedEvent, e, rest, t, v
    <2> HIDE DEF stop
    <2> QED
      BY <2>7, <2>8, <2>9
  <1> QED
    BY <1>4, <1>5

-----------------------------------------------------------------------------
\* Timers and immediates.

LEMMA SortedAnnouncement ==
    ASSUME NEW own \in SUBSET Nat, NEW s \in States(own), NEW last \in Nat, NEW seen,
           Sorted(s, last, seen)
    PROVE  Sorted(AfterAnnouncement(s), last, seen)
  <1> DEFINE announced == [s EXCEPT !.announcementPending = FALSE]
             unpending == [announced EXCEPT !.openEventPending = FALSE]
             opened == IF ~announced.openEventPending THEN announced
                       ELSE Later(unpending, "announceOpen")
             held == GateAfterAnnouncement(opened)
             gated == GateUntilConsumer(held)
             draining == [gated EXCEPT !.nativeEventDrainActive = TRUE]
  <1>1. announced \in States(own)
    BY Flags
  <1>2. /\ announced.log = s.log
        /\ announced.queuedMessageEvents = s.queuedMessageEvents
        /\ announced.queuedNativeEvents = s.queuedNativeEvents
        /\ announced.pendingNativeEvents = s.pendingNativeEvents
        /\ announced.known = s.known /\ announced.readyState = s.readyState
        /\ announced.closed = s.closed /\ announced.threw = s.threw
    BY DEF States
  <1> HIDE DEF announced
  <1>3. unpending \in States(own) /\ Still(announced, unpending)
    BY <1>1, Flags, StillFields
  <1> HIDE DEF unpending
  <1>4. opened \in States(own) /\ Still(announced, opened)
    <2>1. /\ Later(unpending, "announceOpen") \in States(own)
          /\ Still(unpending, Later(unpending, "announceOpen"))
      BY <1>3, StepsTyped, StillMethods, Names
    <2>2. Still(announced, Later(unpending, "announceOpen"))
      BY <1>3, <2>1, StillTwice
    <2>3. Still(announced, announced)
      BY StillTwice
    <2> QED
      BY <1>1, <2>1, <2>2, <2>3
  <1> HIDE DEF opened
  <1>5. held \in States(own) /\ Still(announced, held)
    <2>1. held \in States(own) /\ Still(opened, held)
      BY <1>4, GatesTyped, StillMethods
    <2> QED
      BY <1>4, <2>1, StillTwice
  <1> HIDE DEF held
  <1>6. gated \in States(own) /\ Still(announced, gated)
    <2>1. gated \in States(own) /\ Still(held, gated)
      BY <1>5, GatesTyped, StillMethods
    <2> QED
      BY <1>5, <2>1, StillTwice
  <1> HIDE DEF gated
  <1>7. /\ gated.log = s.log
        /\ gated.queuedMessageEvents = s.queuedMessageEvents
        /\ gated.queuedNativeEvents = s.queuedNativeEvents
        /\ gated.pendingNativeEvents = s.pendingNativeEvents
        /\ gated.known => s.known
        /\ gated.readyState = "connecting" => s.readyState = "connecting"
        /\ Lively(gated) => Lively(s)
    <2>1. Lively(announced) => Lively(s)
      BY <1>2 DEF Lively
    <2>2. /\ gated.log = s.log
          /\ gated.queuedMessageEvents = s.queuedMessageEvents
          /\ gated.queuedNativeEvents = s.queuedNativeEvents
          /\ gated.pendingNativeEvents = s.pendingNativeEvents
      BY <1>2, <1>6 DEF Still
    <2>3. /\ gated.known => s.known
          /\ gated.readyState = "connecting" => s.readyState = "connecting"
          /\ Lively(gated) => Lively(announced)
      BY <1>2, <1>6 DEF Still
    <2> QED
      BY <2>1, <2>2, <2>3
  <1>8. s.queuedNativeEvents = <<>> => Sorted(gated, last, seen)
    BY <1>7, Zenon DEF Sorted
  <1>9. draining \in States(own) /\ Sorted(draining, last, seen)
    <2>1. draining \in States(own)
      BY <1>6, Flags
    <2>2. /\ draining.log = gated.log
          /\ draining.queuedMessageEvents = gated.queuedMessageEvents
          /\ draining.queuedNativeEvents = gated.queuedNativeEvents
          /\ draining.pendingNativeEvents = gated.pendingNativeEvents
          /\ draining.nativeEventDrainActive = TRUE
          /\ draining.known = gated.known /\ draining.readyState = gated.readyState
          /\ draining.closed = gated.closed /\ draining.threw = gated.threw
      BY <1>6 DEF States
    <2>3. Lively(draining) => Lively(gated)
      BY <2>2, Zenon DEF Lively
    <2> HIDE DEF draining
    <2>4. /\ draining.log = s.log
          /\ draining.queuedMessageEvents = s.queuedMessageEvents
          /\ draining.queuedNativeEvents = s.queuedNativeEvents
          /\ draining.pendingNativeEvents = s.pendingNativeEvents
      BY <1>7, <2>2
    <2>5. /\ draining.known => s.known
          /\ draining.readyState = "connecting" => s.readyState = "connecting"
          /\ Lively(draining) => Lively(s)
      BY <1>7, <2>2, <2>3
    <2>6. Sorted(draining, last, seen)
      BY <2>2, <2>4, <2>5, Zenon DEF Sorted
    <2> QED
      BY <2>1, <2>6
  <1> HIDE DEF draining
  <1>10. Sorted(Soon(draining, "drainNativeEvents"), last, seen)
    <2>1. Still(draining, Soon(draining, "drainNativeEvents"))
      BY <1>9, StillMethods
    <2> QED
      BY <1>9, <2>1, StillSorted
  <1>11. AfterAnnouncement(s) = IF gated.queuedNativeEvents = <<>> THEN gated
                                ELSE Soon(draining, "drainNativeEvents")
    BY Zenon DEF AfterAnnouncement, announced, unpending, opened, held, gated, draining
  <1> QED
    BY <1>7, <1>8, <1>10, <1>11, Zenon

LEMMA SortedFlushed ==
    ASSUME NEW own \in SUBSET Nat, NEW s \in States(own), NEW last \in Nat, NEW seen,
           Sorted(s, last, seen), NEW r \in FlushDataChannel(s)
    PROVE  Sorted(r, last, seen)
  <1> DEFINE t == [s EXCEPT !.dataChannelFlushScheduled = FALSE]
             u == [t EXCEPT !.pendingDataChannelEvent = FALSE]
             v == GateUntilConsumer(u)
             e == Event("datachannel", 0)
             sent == Dispatch(v, e)
  <1>1. t \in States(own) /\ Sorted(t, last, seen)
    <2>1. t \in States(own) /\ Still(s, t)
      BY Flags, StillFields
    <2> HIDE DEF t
    <2> QED
      BY <2>1, StillSorted
  <1> HIDE DEF t
  <1>2. u \in States(own) /\ Sorted(u, last, seen)
    <2>1. u \in States(own) /\ Still(t, u)
      BY <1>1, Flags, StillFields
    <2> HIDE DEF u
    <2> QED
      BY <1>1, <2>1, StillSorted
  <1> HIDE DEF u
  <1>3. v \in States(own) /\ Sorted(v, last, seen)
    <2>1. v \in States(own) /\ Still(u, v)
      BY <1>2, GatesTyped, StillMethods
    <2> QED
      BY <1>2, <2>1, StillSorted
  <1>4. e \in Events /\ e.type # "message"
    BY EventsAre DEF Event
  <1> HIDE DEF v, e
  <1>5. sent \in States(own) /\ Sorted(sent, last, seen)
    BY <1>3, <1>4, StepsTyped, SortedDispatch
  <1> HIDE DEF sent
  <1>6. ASSUME NEW c \in Consumers
        PROVE  Sorted(AfterAnnouncement(AddMessageConsumer(sent, c)), last, seen)
    <2>1. /\ AddMessageConsumer(sent, c) \in States(own)
          /\ Still(sent, AddMessageConsumer(sent, c))
      BY <1>5, GatesTyped, StillMethods
    <2>2. Sorted(AddMessageConsumer(sent, c), last, seen)
      BY <1>5, <2>1, StillSorted
    <2> QED
      BY <2>1, <2>2, SortedAnnouncement
  <1>7. Sorted(AfterAnnouncement(LocalClose(sent)), last, seen)
    <2>1. LocalClose(sent) \in States(own) /\ Still(sent, LocalClose(sent))
      BY <1>5, CloseTyped, StillMethods
    <2>2. Sorted(LocalClose(sent), last, seen)
      BY <1>5, <2>1, StillSorted
    <2> QED
      BY <2>1, <2>2, SortedAnnouncement
  <1>8. Sorted(AfterAnnouncement(ClosePeer(sent)), last, seen)
    <2>1. ClosePeer(sent) \in States(own) /\ Sorted(ClosePeer(sent), last, seen)
      BY <1>5, CloseTyped, SortedCloses
    <2> QED
      BY <2>1, SortedAnnouncement
  <1>9. \/ r = t
        \/ \E c \in Consumers : r = AfterAnnouncement(AddMessageConsumer(sent, c))
        \/ r = AfterAnnouncement(LocalClose(sent))
        \/ r = AfterAnnouncement(ClosePeer(sent))
    BY Zenon DEF FlushDataChannel, Consumers, t, u, v, e, sent
  <1> QED
    BY <1>1, <1>6, <1>7, <1>8, <1>9, Zenon

LEMMA SortedTimers ==
    ASSUME NEW own \in SUBSET Nat, NEW s \in States(own), NEW last \in Nat, NEW seen,
           Sorted(s, last, seen), NEW task \in TimerTasks, NEW r \in TimerResults(s, task)
    PROVE  Sorted(r, last, seen)
  <1>1. CASE task = "flushDataChannel"
    <2>1. r \in FlushDataChannel(s)
      BY <1>1 DEF TimerResults
    <2> QED
      BY <2>1, SortedFlushed
  <1>2. CASE task = "announceOpen"
    <2>1. r \in {s, DispatchOpen(s)}
      BY <1>2 DEF TimerResults
    <2> QED
      BY <2>1, SortedOpen
  <1>3. CASE task = "gate1"
    <2>1. r = Later(s, "gate2")
      BY <1>3 DEF TimerResults
    <2>2. Still(s, r)
      BY <2>1, StillMethods
    <2> QED
      BY <2>2, StillSorted
  <1>4. CASE task = "gate2"
    <2> DEFINE u == [s EXCEPT !.messageEventGateActive = FALSE]
    <2>1. r = ScheduleMessageFlush(u)
      BY <1>4 DEF TimerResults
    <2>2. u \in States(own) /\ Still(s, u)
      BY Flags, StillFields
    <2> HIDE DEF u
    <2>3. Still(u, r)
      BY <2>1, <2>2, StillMethods
    <2>4. Still(s, r)
      BY <2>2, <2>3, StillTwice
    <2> QED
      BY <2>4, StillSorted
  <1>5. CASE task = "pollClose"
    <2>1. r = PollClose(s)
      BY <1>5 DEF TimerResults
    <2> QED
      BY <2>1, SortedCloses
  <1>6. CASE task \in {"finishClose", "closeLocal"}
    <2>1. r = CloseIfClosing(s)
      BY <1>6 DEF TimerResults
    <2> QED
      BY <2>1, SortedCloses
  <1> QED
    BY <1>1, <1>2, <1>3, <1>4, <1>5, <1>6 DEF TimerTasks

LEMMA SortedImmediates ==
    ASSUME NEW own \in SUBSET Nat, NEW s \in States(own), NEW last \in Nat, NEW seen,
           Sorted(s, last, seen), NoOpen(s.queuedNativeEvents),
           NEW task \in ImmediateTasks,
           task = "flushIceEvents" /\ ~s.closed => s.deferredIceEvents > 0,
           NEW r \in ImmediateResults(s, task)
    PROVE  Sorted(r, last, seen)
  <1>1. CASE task = "flushMessages"
    <2> DEFINE u == [s EXCEPT !.messageEventFlushScheduled = FALSE]
    <2>1. r \in FlushMessages(u)
      BY <1>1 DEF ImmediateResults
    <2>2. u \in States(own) /\ Still(s, u)
      BY Flags, StillFields
    <2> HIDE DEF u
    <2>3. Sorted(u, last, seen)
      BY <2>2, StillSorted
    <2> QED
      BY <2>1, <2>2, <2>3, SortedFlush
  <1>2. CASE task = "rescheduleFlush"
    <2>1. r = ScheduleMessageFlush(s)
      BY <1>2 DEF ImmediateResults
    <2>2. Still(s, r)
      BY <2>1, StillMethods
    <2> QED
      BY <2>2, StillSorted
  <1>3. CASE task = "drainNativeEvents"
    <2>1. r = DrainQueuedEvent(s)
      BY <1>3 DEF ImmediateResults
    <2> QED
      BY <2>1, SortedDrain
  <1>4. CASE task = "closeNative"
    <2>1. r = Later(s, "closeLocal")
      BY <1>4 DEF ImmediateResults
    <2>2. Still(s, r)
      BY <2>1, StillMethods
    <2> QED
      BY <2>2, StillSorted
  <1>5. CASE task = "flushIceEvents"
    <2>1. r = FlushIceEvents(s)
      BY <1>5 DEF ImmediateResults
    <2>2. Still(s, r)
      BY <1>5, <2>1, StillIce
    <2> QED
      BY <2>2, StillSorted
  <1>6. CASE task = "retryOpen"
    <2> DEFINE u == [s EXCEPT !.openDeferredForIce = FALSE]
    <2>1. r = DispatchOpen(u)
      BY <1>6 DEF ImmediateResults
    <2>2. u \in States(own) /\ Still(s, u)
      BY Flags, StillFields
    <2> HIDE DEF u
    <2>3. Sorted(u, last, seen)
      BY <2>2, StillSorted
    <2> QED
      BY <2>1, <2>2, <2>3, SortedOpen
  <1> QED
    BY <1>1, <1>2, <1>3, <1>4, <1>5, <1>6 DEF ImmediateTasks

-----------------------------------------------------------------------------
\* The steps.

LEMMA StillFinish ==
    ASSUME NEW own \in SUBSET Nat, NEW s \in States(own), NEW x
    PROVE  Still(s, [ScheduleIceFlush([s EXCEPT !.operationsPending = 0]) EXCEPT
                        !.idleCallbacks = 0, !.immediates = @ \o x])
  <1> DEFINE p == [s EXCEPT !.operationsPending = 0]
             t == ScheduleIceFlush(p)
             u == [t EXCEPT !.idleCallbacks = 0]
             q == t.immediates \o x
             v == [u EXCEPT !.immediates = q]
  <1>1. p \in States(own) /\ Still(s, p)
    BY Values, Names, StillFields
  <1> HIDE DEF p
  <1>2. t \in States(own) /\ Still(s, t)
    <2>1. t \in States(own) /\ Still(p, t)
      BY <1>1, OpenTyped, StillMethods
    <2> QED
      BY <1>1, <2>1, StillTwice
  <1> HIDE DEF t, q
  <1>3. u \in States(own) /\ Still(t, u)
    BY <1>2, Values, StillFields
  <1>4. [t EXCEPT !.idleCallbacks = 0, !.immediates = @ \o x] = v
    BY <1>2 DEF u, q, States
  <1> HIDE DEF u
  <1>5. Still(u, v)
    BY <1>3, StillFields
  <1> HIDE DEF v
  <1>6. Still(t, v)
    BY <1>3, <1>5, StillTwice
  <1>7. Still(s, v)
    BY <1>2, <1>6, StillTwice
  <1> QED
    BY <1>4, <1>7, Zenon DEF t, p

LEMMA NoOpenQueued ==
    ASSUME Sequenced
    PROVE  /\ NoOpen(js.queuedNativeEvents)
           /\ js.known => js.readyState # "closed"
  BY Zenon DEF Sequenced, Unannounced, InOrder, Closing

LEMMA SortedTasks ==
    ASSUME DP!Ordered, Typed, Sequenced, Tasks, NEW last \in Nat, NEW seen,
           Sorted(js, last, seen)
    PROVE  Sorted(js', last, seen)
  <1>1. ours \in SUBSET Nat /\ js \in Sound(ours) /\ js \in States(ours)
    BY OursTyped
  <1>2. CASE RunTimer
    <2> DEFINE q == js.timers
               t == [js EXCEPT !.timers = Tail(q)]
               task == Head(q)
    <2>1. q \in TimerQueues /\ q # <<>>
      BY <1>1, <1>2, Components DEF RunTimer
    <2>2. Tail(q) \in TimerQueues /\ task \in TimerTasks
      BY <2>1, Queues
    <2>3. js' \in TimerResults(t, task)
      BY <1>2 DEF RunTimer
    <2> HIDE DEF q, task
    <2>4. t \in States(ours) /\ Still(js, t)
      BY <1>1, <2>2, Values, StillFields
    <2> HIDE DEF t
    <2>5. Sorted(t, last, seen)
      BY <2>4, StillSorted
    <2> QED
      BY <1>1, <2>2, <2>3, <2>4, <2>5, SortedTimers
  <1>3. CASE RunImmediate
    <2> DEFINE t == [js EXCEPT !.immediates = Tail(@)]
               task == Head(js.immediates)
    <2>1. js.immediates # <<>> /\ js' \in ImmediateResults(t, task)
      BY <1>3 DEF RunImmediate
    <2>2. /\ t \in Sound(ours) /\ task \in ImmediateTasks
          /\ task = "flushIceEvents" /\ ~t.closed => t.deferredIceEvents > 0
      BY <1>1, <2>1, FirstImmediate
    <2>3. Still(js, t) /\ t.queuedNativeEvents = js.queuedNativeEvents
      <3>1. Still(js, t)
        BY <1>1, StillFields
      <3>2. t.queuedNativeEvents = js.queuedNativeEvents
        BY <1>1 DEF States
      <3> QED
        BY <3>1, <3>2
    <2> HIDE DEF t, task
    <2>4. t \in States(ours) /\ Sorted(t, last, seen) /\ NoOpen(t.queuedNativeEvents)
      BY <2>2, <2>3, StillSorted, NoOpenQueued DEF Sound
    <2> QED
      BY <1>1, <2>1, <2>2, <2>4, SortedImmediates
  <1>4. CASE ConsumerGateTimeout
    BY <1>1, <1>4, StillMethods, StillSorted DEF ConsumerGateTimeout
  <1>5. CASE GraceEnds
    BY <1>1, <1>5, StillFields, StillSorted DEF GraceEnds
  <1>6. CASE FinishOperation
    <2>1. js' = [ScheduleIceFlush([js EXCEPT !.operationsPending = 0]) EXCEPT
                    !.idleCallbacks = 0,
                    !.immediates = @ \o [i \in 1 .. js.idleCallbacks |->
                                            "rescheduleFlush"]]
      BY <1>6, Zenon DEF FinishOperation
    <2>2. Still(js, js')
      BY <1>1, <2>1, StillFinish, Zenon
    <2> QED
      BY <2>2, StillSorted
  <1>7. CASE StartOperation
    <2> DEFINE p == [js EXCEPT !.operationsPending = 1]
               r == [p EXCEPT !.operations = p.operations + 1]
    <2>1. p \in States(ours) /\ Still(js, p)
      BY <1>1, Values, Names, StillFields
    <2>2. js' = r
      BY <1>1, <1>7 DEF StartOperation, States
    <2> HIDE DEF p
    <2>3. Still(p, r)
      BY <2>1, StillFields
    <2>4. Still(js, js')
      BY <2>1, <2>2, <2>3, StillTwice
    <2> QED
      BY <2>4, StillSorted
  <1>8. CASE IceEvent
    <2>1. js' = [js EXCEPT !.deferredIceEvents = js.deferredIceEvents + 1]
      BY <1>8, Zenon DEF IceEvent
    <2>2. Still(js, js')
      BY <1>1, <2>1, StillFields
    <2> QED
      BY <2>2, StillSorted
  <1>9. CASE ListenDataChannel
    <2> DEFINE p == [js EXCEPT !.dataChannelConsumer = TRUE]
    <2>1. p \in States(ours) /\ Still(js, p)
      BY <1>1, Flags, StillFields
    <2>2. js' = ScheduleDataChannelFlush(p)
      BY <1>9 DEF ListenDataChannel
    <2> HIDE DEF p
    <2>3. Still(p, js')
      BY <1>1, <2>1, <2>2, StillMethods
    <2>4. Still(js, js')
      BY <2>1, <2>3, StillTwice
    <2> QED
      BY <2>4, StillSorted
  <1>10. CASE ListenMessage
    <2>1. PICK c \in {"onmessage", "listener"} : js' = AddMessageConsumer(js, c)
      BY <1>10 DEF ListenMessage
    <2>2. c \in Consumers
      BY DEF Consumers
    <2>3. Still(js, js')
      BY <1>1, <2>1, <2>2, StillMethods
    <2> QED
      BY <2>3, StillSorted
  <1>11. CASE CloseChannel
    <2>1. Still(js, js')
      BY <1>1, <1>11, StillMethods DEF CloseChannel
    <2> QED
      BY <2>1, StillSorted
  <1>12. CASE CloseConnection
    BY <1>1, <1>12, SortedCloses DEF CloseConnection
  <1>13. CASE ConnectionFails
    BY <1>1, <1>13, SortedCloses DEF ConnectionFails
  <1> QED
    BY <1>2, <1>3, <1>4, <1>5, <1>6, <1>7, <1>8, <1>9, <1>10, <1>11, <1>12, <1>13
       DEF Tasks, Application

LEMMA SortedDirect ==
    ASSUME DP!Ordered, Typed, Sequenced, DirectEvent, NEW last \in Nat, NEW seen,
           Sorted(js, last, seen)
    PROVE  Sorted(js', last, seen)
  <1> DEFINE n == Head(tsfnQueue).n
             type == DirectEvents[n]
             e == Event(type, 0)
  <1>1. ours \in SUBSET Nat /\ js \in Sound(ours) /\ js \in States(ours)
    BY OursTyped
  <1>2. /\ DP!Coming(n)
        /\ \/ n = 1 /\ type = "datachannel"
           \/ n = 2 /\ type = "open"
           \/ n = 3 /\ type = "close"
    BY Direct
  <1>3. js' = PeerEvent(js, e)
    BY DEF DirectEvent
  <1> HIDE DEF n, type
  <1>4. e.type = type
    BY DEF Event
  <1>5. n # 1 => e \in Incoming(ours) /\ e.type # "message"
    BY <1>2, <1>4, EventsAre
  <1> HIDE DEF e
  <1>6. CASE n = 1
    <2>1. js.readyState = "connecting"
      BY <1>2, <1>6 DEF Sequenced, Fresh
    <2>2. Sorted(Announce(js), last, seen)
      BY <1>1, <2>1, SortedAnnounce
    <2>3. js' = IF js.closed THEN js ELSE Announce(js)
      <3>1. e.type = "datachannel"
        BY <1>2, <1>4, <1>6
      <3> QED
        BY <1>3, <3>1, Zenon DEF PeerEvent
    <2> QED
      BY <2>2, <2>3
  <1>7. CASE n # 1
    BY <1>1, <1>3, <1>5, <1>7, NoOpenQueued, SortedPeerEvent
  <1> QED
    BY <1>6, <1>7

\* What the dispatcher delivered is all that JavaScript has seen.  A batch out of which a
\* handler threw may be lost in part, and nothing is said of what was lost then.
Seen == IF thrown THEN {} ELSE ours \cap 1 .. Len(delivered)

Arranged == ~tsfnClosing /\ Sorted(js, Len(delivered), Seen)

LEMMA ArrangedInit == Init => Arranged
  <1> SUFFICES ASSUME Init PROVE Arranged
    OBVIOUS
  <1>1. js = InitJs /\ ours = {} /\ delivered = <<>> /\ ~tsfnClosing
    BY DEF Init, D!Init
  <1>2. /\ js.log = <<>> /\ js.queuedMessageEvents = <<>> /\ js.queuedNativeEvents = <<>>
        /\ js.pendingNativeEvents = <<>> /\ ~js.known
    BY <1>1 DEF InitJs
  <1>3. Len(delivered) = 0 /\ Seen = {}
    BY <1>1 DEF Seen
  <1>4. Placed(<<>>, <<>>, <<>>, <<>>, 0)
    <2>1. 0 \in Nat /\ 0 <= 0
      OBVIOUS
    <2>2. Ascends(<<>>, 0, 0) /\ Rises(<<>>, 0, 0)
      BY Nothing
    <2> QED
      BY <2>1, <2>2, Zenon DEF Placed
  <1> QED
    BY <1>1, <1>2, <1>3, <1>4, Zenon DEF Arranged, Sorted

\* A batch of the dispatcher: the channel's messages in it come after all that were
\* delivered before.
LEMMA MineRises ==
    ASSUME DP!Ordered, Typed, DrainCall
    PROVE  LET mine == Mine(batch)
           IN  /\ mine \in MessageQueues(ours)
               /\ Len(delivered) \in Nat /\ Len(delivered)' \in Nat
               /\ Len(delivered) <= Len(delivered)'
               /\ Rises(mine, Len(delivered), Len(delivered)')
               /\ \A n \in Seen' : n \in Seen \/ In(n, mine)
  <1> DEFINE mine == Mine(batch)
             k == Len(delivered)
             m == Len(batch)
  <1>1. /\ batch \in Seq(Nat) /\ m \in Nat /\ delivered \in Seq(Nat) /\ k \in Nat
        /\ DOMAIN batch = 1 .. m
        /\ \A i \in 1 .. m : batch[i] = k + i
    BY OrderedTypes
  <1>2. delivered' = delivered \o batch /\ ours' = ours /\ thrown' = thrown
    BY Zenon DEF DrainCall, D!DrainCall, D!nativeVars
  <1>3. Len(delivered)' = k + m
    BY <1>1, <1>2
  <1>4. mine \in MessageQueues(ours)
    BY MineTyped
  <1> HIDE DEF k, m
  <1>5. \A i, j \in DOMAIN batch : i < j => batch[i] < batch[j]
    BY <1>1
  <1>6. /\ \A i \in DOMAIN mine : \E j \in DOMAIN batch : mine[i] = batch[j]
        /\ \A j \in DOMAIN batch :
              batch[j] \in ours => \E i \in DOMAIN mine : mine[i] = batch[j]
        /\ \A i, j \in DOMAIN mine : i < j => mine[i] < mine[j]
    BY <1>1, <1>5, MineIs
  <1> HIDE DEF mine
  <1>7. Rises(mine, k, k + m)
    <2>1. \A j \in DOMAIN batch : k < batch[j] /\ batch[j] <= k + m
      BY <1>1
    <2>2. \A i \in DOMAIN mine : k < mine[i] /\ mine[i] <= k + m
      BY <1>6, <2>1
    <2> QED
      BY <1>6, <2>2, Zenon DEF Rises
  <1>8. ASSUME NEW n \in Seen' PROVE n \in Seen \/ In(n, mine)
    <2>1. ~thrown /\ n \in ours /\ n \in 1 .. k + m
      BY <1>2, <1>3, <1>8 DEF Seen
    <2>2. CASE n \in 1 .. k
      BY <2>1, <2>2 DEF Seen, k
    <2>3. CASE n \notin 1 .. k
      <3>1. n - k \in 1 .. m /\ k + (n - k) = n
        BY <1>1, <2>1, <2>3
      <3>2. n - k \in DOMAIN batch /\ batch[n - k] = n
        BY <1>1, <3>1
      <3> QED
        BY <1>6, <2>1, <3>2 DEF In
    <2> QED
      BY <2>2, <2>3
  <1>9. k <= k + m /\ k + m \in Nat
    BY <1>1
  <1> QED
    BY <1>1, <1>3, <1>4, <1>7, <1>8, <1>9 DEF k, mine

LEMMA ArrangedCall ==
    ASSUME DP!Ordered, Typed, Arranged, DrainCall
    PROVE  Sorted(js', Len(delivered)', Seen')
  <1> DEFINE mine == Mine(batch)
             k == Len(delivered)
             next == Len(delivered)'
             new == Seen'
  <1>1. ours \in SUBSET Nat /\ js \in Sound(ours) /\ js \in States(ours)
    BY OursTyped
  <1>2. /\ mine \in MessageQueues(ours) /\ k \in Nat /\ next \in Nat /\ k <= next
        /\ Rises(mine, k, next) /\ \A n \in new : n \in Seen \/ In(n, mine)
    BY MineRises
  <1>3. \/ mine # <<>> /\ js' \in MessageBatch(js, mine)
        \/ js' = PeerEvents(js, Messages(mine))
    <2>1. \/ Len(batch) > 1 /\ mine = batch /\ js' \in MessageBatch(js, mine)
          \/ js' = PeerEvents(js, Messages(mine))
      BY Zenon DEF DrainCall
    <2>2. Len(batch) > 1 => batch # <<>>
      OBVIOUS
    <2> QED
      BY <2>1, <2>2
  <1>4. Sorted(js, k, Seen)
    BY DEF Arranged
  <1> HIDE DEF mine, k, next, new
  <1>5. PeerEvents(js, Messages(mine)) = AfterMessages(js, mine)
    BY <1>1, <1>2, MessagesInTurn
  <1>6. Sorted(AfterMessages(js, mine), next, new)
    BY <1>1, <1>2, <1>4, SortedQueue
  <1>7. ASSUME mine # <<>>, js' \in MessageBatch(js, mine)
        PROVE  Sorted(js', next, new)
    <2> DEFINE r == js'
    <2>1. r \in MessageBatch(js, mine)
      BY <1>7
    <2> HIDE DEF r
    <2>2. Sorted(r, next, new)
      BY <1>1, <1>2, <1>4, <1>7, <2>1, SortedBatch
    <2> QED
      BY <2>2 DEF r
  <1>8. Sorted(js', next, new)
    BY <1>3, <1>5, <1>6, <1>7
  <1> QED
    BY <1>8 DEF next, new

LEMMA ArrangedStep ==
    ASSUME DP!Ordered, Typed, Sequenced, Arranged, [Next]_vars
    PROVE  Arranged'
  <1> DEFINE k == Len(delivered)
  <1>1. ours \in SUBSET Nat /\ js \in Sound(ours) /\ js \in States(ours) /\ k \in Nat
    <2>1. ours \in SUBSET Nat /\ js \in Sound(ours) /\ k \in Nat
      BY OrderedTypes DEF Typed
    <2> QED
      BY <2>1, SoundFields
  <1>2. ~tsfnClosing /\ Sorted(js, k, Seen)
    BY DEF Arranged
  <1>3. ASSUME UNCHANGED <<tsfnClosing, delivered, thrown, ours>>, Sorted(js', k, Seen)
        PROVE  Arranged'
    BY <1>2, <1>3 DEF Arranged, Seen
  <1>4. CASE Tasks
    <2>1. UNCHANGED <<tsfnClosing, delivered, thrown, ours>>
      BY <1>4, TasksApart, Zenon DEF dispatcherVars
    <2>2. Sorted(js', k, Seen)
      BY <1>1, <1>2, <1>4, SortedTasks
    <2> QED
      BY <1>3, <2>1, <2>2
  <1>5. CASE DirectEvent
    <2>1. UNCHANGED <<tsfnClosing, delivered, thrown, ours>>
      BY <1>5, Zenon DEF DirectEvent, D!DispatchDirect, D!nativeVars
    <2>2. Sorted(js', k, Seen)
      BY <1>1, <1>2, <1>5, SortedDirect
    <2> QED
      BY <1>3, <2>1, <2>2
  <1>6. CASE DrainSwap \/ DrainFinish \/ NativeDirect \/ OtherMessage \/ DispatcherClose
             \/ UNCHANGED vars
    <2>1. UNCHANGED <<tsfnClosing, delivered, thrown, ours, js>>
      BY <1>6, Zenon DEF DrainSwap, DrainFinish, NativeDirect, OtherMessage, DispatcherClose,
         D!DrainSwap, D!DrainFinish, D!EmitDirect, D!Emit, D!Close, D!nativeVars, vars,
         dispatcherVars
    <2> QED
      BY <1>2, <1>3, <2>1
  <1>7. CASE DrainCall
    <2>1. UNCHANGED tsfnClosing
      BY <1>7, Zenon DEF DrainCall, D!DrainCall, D!nativeVars
    <2> QED
      BY <1>2, <1>7, <2>1, ArrangedCall DEF Arranged
  <1>8. CASE DrainThrow
    <2>1. UNCHANGED <<tsfnClosing, delivered>> /\ Seen' = {}
      BY <1>8, Zenon DEF DrainThrow, D!DrainThrow, Seen
    <2> DEFINE r == [js EXCEPT !.threw = FALSE]
    <2>2. js' = r
      BY <1>8 DEF DrainThrow
    <2>3. /\ r.log = js.log /\ r.queuedMessageEvents = js.queuedMessageEvents
          /\ r.queuedNativeEvents = js.queuedNativeEvents
          /\ r.pendingNativeEvents = js.pendingNativeEvents
          /\ r.announcementPending = js.announcementPending
          /\ r.nativeEventDrainActive = js.nativeEventDrainActive
          /\ r.known = js.known /\ r.readyState = js.readyState
      BY <1>1 DEF States
    <2> HIDE DEF r
    <2>4. Sorted(r, k, {})
      BY <1>2, <2>3, Zenon DEF Sorted
    <2> QED
      BY <1>2, <2>1, <2>2, <2>4 DEF Arranged
  <1>9. CASE NativeMessage
    <2>1. /\ UNCHANGED <<tsfnClosing, delivered, thrown, js>>
          /\ active /\ accepted' = accepted + 1 /\ ours' = ours \cup {accepted'}
      BY <1>9, Zenon DEF NativeMessage, D!Emit, D!nativeVars
    <2>2. k <= accepted
      <3>1. DP!Pending
        BY <1>2, <2>1 DEF DP!Ordered, DP!OrderInv, DP!Live
      <3>2. Len(batch) \in Nat /\ Len(pendingEvents) \in Nat
        <4>1. DP!TypeOK
          BY DEF DP!Ordered
        <4> QED
          BY <4>1 DEF DP!TypeOK
      <3> QED
        BY <1>1, <3>1, <3>2 DEF DP!Pending
    <2>3. accepted' \notin 1 .. k
      BY <1>1, <2>1, <2>2, OrderedTypes
    <2>4. Seen' = Seen
      BY <2>1, <2>3 DEF Seen
    <2> QED
      BY <1>2, <2>1, <2>4 DEF Arranged
  <1> QED
    BY <1>4, <1>5, <1>6, <1>7, <1>8, <1>9 DEF Next, Tasks, TsfnItem

LEMMA ArrangedImplied ==
    ASSUME DP!Ordered, Typed, Arranged
    PROVE  MessagesInOrder
  <1>1. Sorted(js, Len(delivered), Seen)
    BY DEF Arranged
  <1>2. \A i, j \in Positions("message") : i < j => js.log[i].n < js.log[j].n
    <2>1. PICK a \in Nat : Ascends(js.log, 0, a)
      BY <1>1, Zenon DEF Sorted, Placed
    <2> QED
      BY <2>1, Zenon DEF Ascends, Positions
  <1>3. ASSUME js.readyState # "closed", ~js.closed, ~js.threw, ~thrown,
               NEW n \in ours \cap Range(delivered)
        PROVE  n \in Held \cup Dispatched
    <2>1. n \in Seen
      <3>1. /\ delivered \in Seq(Nat) /\ Len(delivered) \in Nat
            /\ \A i \in 1 .. Len(delivered) : delivered[i] = i
        BY OrderedTypes
      <3>2. n \in 1 .. Len(delivered)
        BY <1>3, <3>1 DEF Range
      <3> QED
        BY <1>3, <3>2 DEF Seen
    <2>2. Somewhere(js.log, js.queuedMessageEvents, js.queuedNativeEvents,
                    js.pendingNativeEvents, n)
      BY <1>1, <1>3, <2>1, Zenon DEF Sorted, Lively
    <2>3. Carries(js.log, n) => n \in Dispatched
      BY DEF Carries, Dispatched, Positions
    <2>4. In(n, js.queuedMessageEvents) => n \in Held
      BY DEF In, Held, Range
    <2>5. /\ Carries(js.queuedNativeEvents, n) => n \in Held
          /\ Carries(js.pendingNativeEvents, n) => n \in Held
      BY DEF Carries, Held, Range
    <2> QED
      BY <2>2, <2>3, <2>4, <2>5, Zenon DEF Somewhere
  <1> QED
    BY <1>2, <1>3, Zenon DEF MessagesInOrder

\* Messages are dispatched in the order they were received, each at most once, and none is
\* lost on its way through the queues and gates of the channel: for any number of messages,
\* whatever the handlers do and however batches and direct events overtake each other.
THEOREM MessagesComeInOrder == Spec => []MessagesInOrder
  <1>1. Init => DP!Ordered /\ Typed /\ Sequenced /\ Arranged
    BY DispatcherOrdered, TypedInit, SequencedInit, ArrangedInit
  <1>2. (DP!Ordered /\ Typed /\ Sequenced /\ Arranged) /\ [Next]_vars =>
           (DP!Ordered /\ Typed /\ Sequenced /\ Arranged)'
    BY DispatcherOrdered, TypedStep, SequencedStep, ArrangedStep
  <1>3. DP!Ordered /\ Typed /\ Sequenced /\ Arranged => MessagesInOrder
    BY ArrangedImplied
  <1> QED
    BY <1>1, <1>2, <1>3, PTL DEF Spec

-----------------------------------------------------------------------------
\* The close of the remote peer.  The log only grows, and closing is the last word to it:
\* every message of the channel was dispatched before.

Told(log, own) ==
    \A i \in DOMAIN log : log[i].type = "closing" =>
        \A n \in own : \E j \in DOMAIN log :
            j < i /\ log[j].type = "message" /\ log[j].n = n

Longer(l, m) ==
    /\ \A i \in DOMAIN l : i \in DOMAIN m /\ m[i] = l[i]
    /\ \A i \in DOMAIN m : i \in DOMAIN l \/ m[i].type \notin {"closing", "datachannel"}

LEMMA LongerTold ==
    ASSUME NEW l, NEW m, Longer(l, m)
    PROVE  /\ \A own : Told(l, own) => Told(m, own)
           /\ \A x \in {"closing", "datachannel"} : Has(m, x) => Has(l, x)
  <1>1. ASSUME NEW i \in DOMAIN m, m[i].type \in {"closing", "datachannel"}
        PROVE  i \in DOMAIN l /\ l[i] = m[i]
    BY <1>1, Zenon DEF Longer
  <1>2. ASSUME NEW own, Told(l, own) PROVE Told(m, own)
    <2> SUFFICES ASSUME NEW i \in DOMAIN m, m[i].type = "closing", NEW n \in own
                 PROVE  \E j \in DOMAIN m :
                            j < i /\ m[j].type = "message" /\ m[j].n = n
      BY DEF Told
    <2>1. i \in DOMAIN l /\ l[i].type = "closing"
      BY <1>1
    <2>2. PICK j \in DOMAIN l : j < i /\ l[j].type = "message" /\ l[j].n = n
      BY <1>2, <2>1, Zenon DEF Told
    <2>3. j \in DOMAIN m /\ m[j] = l[j]
      BY <2>2, Zenon DEF Longer
    <2> QED
      BY <2>2, <2>3
  <1>3. \A x \in {"closing", "datachannel"} : Has(m, x) => Has(l, x)
    BY <1>1, Zenon DEF Has
  <1> QED
    BY <1>2, <1>3

LEMMA LongerTwice ==
    /\ \A l : Longer(l, l)
    /\ \A l, m, p : Longer(l, m) /\ Longer(m, p) => Longer(l, p)
  BY Zenon DEF Longer

LEMMA LogGrows ==
    ASSUME NEW log \in Logs
    PROVE  /\ \A more \in Logs :
                 (\A i \in DOMAIN more : more[i].type \notin {"closing", "datachannel"}) =>
                     Longer(log, log \o more)
           /\ \A e \in Events :
                 e.type \notin {"closing", "datachannel"} => Longer(log, Append(log, e))
  <1>1. ASSUME NEW more \in Logs,
               \A i \in DOMAIN more : more[i].type \notin {"closing", "datachannel"}
        PROVE  Longer(log, log \o more)
    <2> DEFINE t == log \o more
               k == Len(log)
    <2>1. /\ \A i \in DOMAIN t :
                \/ i \in DOMAIN log /\ t[i] = log[i]
                \/ i > k /\ i - k \in DOMAIN more /\ t[i] = more[i - k]
          /\ \A i \in DOMAIN log : i \in DOMAIN t /\ t[i] = log[i]
      <3>1. log \in Seq(Events) /\ more \in Seq(Events)
        BY DEF Logs
      <3> QED
        BY <3>1, DispatcherAssumed, DP!Joined
    <2> HIDE DEF t, k
    <2>2. Longer(log, t)
      BY <1>1, <2>1, Zenon DEF Longer
    <2> QED
      BY <2>2 DEF t
  <1>2. ASSUME NEW e \in Events, e.type \notin {"closing", "datachannel"}
        PROVE  Longer(log, Append(log, e))
    <2> DEFINE more == <<e>>
    <2>1. more \in Logs /\ Append(log, e) = log \o more
      BY AppendIsConcat DEF Logs
    <2>2. \A i \in DOMAIN more : more[i].type \notin {"closing", "datachannel"}
      BY <1>2
    <2> HIDE DEF more
    <2> QED
      BY <1>1, <2>1, <2>2
  <1> QED
    BY <1>1, <1>2

\* What came of the close of the remote peer, when ended says that it was reported, done
\* that every message of the channel reached JavaScript, and gone that the dispatcher was
\* closed: it waits for the announcement, and the grace period for the messages.
Apart(s) ==
    /\ s.closed => ~s.known
    /\ s.readyState = "closed" => ~s.known
    /\ ~s.known => s.readyState \in {"connecting", "closed"}

Ending(s, own, ended, done, gone) ==
    /\ Apart(s)
    /\ ~s.threw
    /\ gone => s.closed
    /\ s.readyState = "connecting" => ~s.nativeCloseEventQueued /\ ~s.graceOver
    /\ s.announcementPending /\ s.readyState # "closed" =>
          ~s.nativeCloseEventQueued /\ ~s.graceOver
    /\ s.nativeCloseEventQueued \/ Has(s.log, "closing") => ended
    /\ Has(s.queuedNativeEvents, "close") \/ Has(s.pendingNativeEvents, "close") => ended
    /\ s.graceOver /\ s.readyState # "closed" => done /\ ~s.nativeEventDrainActive
    /\ Told(s.log, own)

Promised(s) == Has(s.log, "datachannel") => ~s.announcementPending

\* Steps that get no further with it.
Steady(s, r) ==
    /\ Longer(s.log, r.log)
    /\ Has(r.queuedNativeEvents, "close") => Has(s.queuedNativeEvents, "close")
    /\ Has(r.pendingNativeEvents, "close") => Has(s.pendingNativeEvents, "close")
    /\ r.nativeEventDrainActive => s.nativeEventDrainActive
    /\ r.announcementPending => s.announcementPending
    /\ r.nativeCloseEventQueued => s.nativeCloseEventQueued
    /\ r.graceOver => s.graceOver
    /\ r.readyState = "connecting" => s.readyState = "connecting"
    /\ r.readyState # "closed" => s.readyState # "closed"
    /\ s.closed => r.closed
    /\ Apart(s) => Apart(r)
    /\ r.threw => s.threw

LEMMA SteadyEnding ==
    ASSUME NEW s, NEW r, Steady(s, r)
    PROVE  /\ \A own, ended, done, gone :
                 Ending(s, own, ended, done, gone) => Ending(r, own, ended, done, gone)
           /\ Promised(s) => Promised(r)
  <1>1. /\ \A own : Told(s.log, own) => Told(r.log, own)
        /\ Has(r.log, "closing") => Has(s.log, "closing")
        /\ Has(r.log, "datachannel") => Has(s.log, "datachannel")
    BY LongerTold DEF Steady
  <1>2. ASSUME NEW own, NEW ended, NEW done, NEW gone, Ending(s, own, ended, done, gone)
        PROVE  Ending(r, own, ended, done, gone)
    BY <1>1, <1>2, ZenonT(60) DEF Steady, Ending
  <1>3. Promised(s) => Promised(r)
    BY <1>1, Zenon DEF Steady, Promised
  <1> QED
    BY <1>2, <1>3

LEMMA SteadyTwice ==
    /\ \A s, p, r : Steady(s, p) /\ Steady(p, r) => Steady(s, r)
    /\ \A s : Steady(s, s)
  <1>1. ASSUME NEW s, NEW p, NEW r, Steady(s, p), Steady(p, r) PROVE Steady(s, r)
    <2>1. Longer(s.log, r.log)
      BY <1>1, LongerTwice, Zenon DEF Steady
    <2> QED
      BY <1>1, <2>1, ZenonT(60) DEF Steady
  <1>2. \A s : Steady(s, s)
    BY LongerTwice, Zenon DEF Steady
  <1> QED
    BY <1>1, <1>2

\* Steps that have nothing to do with it.
Same(s, r) ==
    /\ r.log = s.log
    /\ r.queuedNativeEvents = s.queuedNativeEvents
    /\ r.pendingNativeEvents = s.pendingNativeEvents
    /\ r.nativeEventDrainActive = s.nativeEventDrainActive
    /\ r.announcementPending = s.announcementPending
    /\ r.nativeCloseEventQueued = s.nativeCloseEventQueued
    /\ r.graceOver = s.graceOver
    /\ r.readyState = s.readyState
    /\ r.known = s.known
    /\ r.closed = s.closed
    /\ r.threw = s.threw

LEMMA SameSteady ==
    /\ \A s, r : Same(s, r) => Steady(s, r)
    /\ \A s, p, r : Same(s, p) /\ Same(p, r) => Same(s, r)
    /\ \A s : Same(s, s)
  <1>1. ASSUME NEW s, NEW r, Same(s, r) PROVE Steady(s, r)
    <2>1. Apart(s) => Apart(r)
      BY <1>1, Zenon DEF Same, Apart
    <2> QED
      BY <1>1, <2>1, LongerTwice, Zenon DEF Same, Steady
  <1>2. \A s, p, r : Same(s, p) /\ Same(p, r) => Same(s, r)
    BY DEF Same
  <1>3. \A s : Same(s, s)
    BY Zenon DEF Same
  <1> QED
    BY <1>1, <1>2, <1>3

LEMMA SameFields ==
    ASSUME NEW own, NEW s \in States(own), NEW x
    PROVE  /\ Same(s, [s EXCEPT !.messageEventFlushScheduled = x])
           /\ Same(s, [s EXCEPT !.messageEventGateActive = x])
           /\ Same(s, [s EXCEPT !.messageConsumerGateActive = x])
           /\ Same(s, [s EXCEPT !.queuedMessageEvents = x])
           /\ Same(s, [s EXCEPT !.pendingDataChannelEvent = x])
           /\ Same(s, [s EXCEPT !.dataChannelFlushScheduled = x])
           /\ Same(s, [s EXCEPT !.timers = x])
           /\ Same(s, [s EXCEPT !.immediates = x])
           /\ Same(s, [s EXCEPT !.messageConsumer = x])
           /\ Same(s, [s EXCEPT !.dataChannelConsumer = x])
           /\ Same(s, [s EXCEPT !.operationsPending = x])
           /\ Same(s, [s EXCEPT !.operations = x])
           /\ Same(s, [s EXCEPT !.idleCallbacks = x])
           /\ Same(s, [s EXCEPT !.deferredIceEvents = x])
           /\ Same(s, [s EXCEPT !.iceEventFlushScheduled = x])
           /\ Same(s, [s EXCEPT !.openEventPending = x])
           /\ Same(s, [s EXCEPT !.openEventDispatched = x])
           /\ Same(s, [s EXCEPT !.openDeferredForIce = x])
  BY SMTT(60) DEF Same, States

LEMMA SameMethods ==
    ASSUME NEW own \in SUBSET Nat, NEW s \in States(own)
    PROVE  /\ \A x : Same(s, Later(s, x)) /\ Same(s, Soon(s, x))
           /\ Same(s, ScheduleMessageFlush(s))
           /\ \A ns \in MessageQueues(own) : Same(s, QueueMessages(s, ns))
           /\ Same(s, ReleaseConsumerGate(s))
           /\ \A c \in Consumers : Same(s, AddMessageConsumer(s, c))
           /\ Same(s, GateUntilConsumer(s))
           /\ Same(s, GateAfterAnnouncement(s))
           /\ Same(s, ScheduleIceFlush(s))
           /\ Same(s, ScheduleDataChannelFlush(s))
  <1>1. ASSUME NEW p \in States(own), NEW x
        PROVE  Same(p, Later(p, x)) /\ Same(p, Soon(p, x))
    BY SameFields DEF Later, Soon
  <1>2. ASSUME NEW p \in States(own) PROVE Same(p, ScheduleMessageFlush(p))
    <2> DEFINE r == [p EXCEPT !.messageEventFlushScheduled = TRUE]
    <2>1. r \in States(own) /\ Same(p, r)
      BY Flags, SameFields
    <2> HIDE DEF r
    <2>2. Same(r, Soon(r, "flushMessages"))
      BY <1>1, <2>1
    <2> QED
      BY <2>1, <2>2, SameSteady, Zenon DEF ScheduleMessageFlush, r
  <1>3. ASSUME NEW p \in States(own) PROVE Same(p, ReleaseConsumerGate(p))
    <2> DEFINE r == [p EXCEPT !.messageConsumerGateActive = FALSE]
    <2>1. r \in States(own) /\ Same(p, r)
      BY Flags, SameFields
    <2> HIDE DEF r
    <2>2. Same(r, ScheduleMessageFlush(r))
      BY <1>2, <2>1
    <2> QED
      BY <2>1, <2>2, SameSteady, Zenon DEF ReleaseConsumerGate, r
  <1>4. ASSUME NEW c \in Consumers PROVE Same(s, AddMessageConsumer(s, c))
    <2> DEFINE r == [s EXCEPT !.messageConsumer = c]
    <2>1. r \in States(own) /\ Same(s, r)
      BY Values, SameFields
    <2> HIDE DEF r
    <2>2. Same(r, ReleaseConsumerGate(r))
      BY <1>3, <2>1
    <2> QED
      BY <2>1, <2>2, SameSteady, Zenon DEF AddMessageConsumer, r
  <1>5. Same(s, GateUntilConsumer(s))
    BY SameFields, SameSteady, Zenon DEF GateUntilConsumer
  <1>6. Same(s, GateAfterAnnouncement(s))
    <2> DEFINE r == [s EXCEPT !.messageEventGateActive = TRUE]
    <2>1. r \in States(own) /\ Same(s, r)
      BY Flags, SameFields
    <2> HIDE DEF r
    <2>2. Same(r, Later(r, "gate1"))
      BY <1>1, <2>1
    <2> QED
      BY <2>1, <2>2, SameSteady, Zenon DEF GateAfterAnnouncement, r
  <1>7. Same(s, ScheduleIceFlush(s))
    <2> DEFINE r == [s EXCEPT !.iceEventFlushScheduled = TRUE]
    <2>1. r \in States(own) /\ Same(s, r)
      BY Flags, SameFields
    <2> HIDE DEF r
    <2>2. Same(r, Soon(r, "flushIceEvents"))
      BY <1>1, <2>1
    <2> QED
      BY <2>1, <2>2, SameSteady, Zenon DEF ScheduleIceFlush, r
  <1>8. Same(s, ScheduleDataChannelFlush(s))
    <2> DEFINE r == [s EXCEPT !.dataChannelFlushScheduled = TRUE]
    <2>1. r \in States(own) /\ Same(s, r)
      BY Flags, SameFields
    <2> HIDE DEF r
    <2>2. Same(r, Later(r, "flushDataChannel"))
      BY <1>1, <2>1
    <2> QED
      BY <2>1, <2>2, SameSteady, Zenon DEF ScheduleDataChannelFlush, r
  <1>9. ASSUME NEW ns \in MessageQueues(own) PROVE Same(s, QueueMessages(s, ns))
    <2> DEFINE r == [s EXCEPT !.queuedMessageEvents = @ \o ns]
    <2>1. r \in States(own) /\ Same(s, r)
      BY Components, Queues, Values, SameFields
    <2> HIDE DEF r
    <2>2. Same(r, ScheduleMessageFlush(r))
      BY <1>2, <2>1
    <2> QED
      BY <2>1, <2>2, SameSteady, Zenon DEF QueueMessages, r
  <1> QED
    BY <1>1, <1>2, <1>3, <1>4, <1>5, <1>6, <1>7, <1>8, <1>9

LEMMA SteadyDispatch ==
    ASSUME NEW own \in SUBSET Nat, NEW s \in States(own), NEW e \in Events
    PROVE  e.type \notin {"closing", "datachannel"} => Steady(s, Dispatch(s, e))
  <1> DEFINE q == Append(s.log, e)
             r == [s EXCEPT !.log = q]
  <1> SUFFICES ASSUME e.type \notin {"closing", "datachannel"}
               PROVE  Steady(s, Dispatch(s, e))
    OBVIOUS
  <1>1. Longer(s.log, q)
    BY Components, LogGrows
  <1> HIDE DEF q
  <1>2. /\ r.log = q
        /\ r.queuedNativeEvents = s.queuedNativeEvents
        /\ r.pendingNativeEvents = s.pendingNativeEvents
        /\ r.nativeEventDrainActive = s.nativeEventDrainActive
        /\ r.announcementPending = s.announcementPending
        /\ r.nativeCloseEventQueued = s.nativeCloseEventQueued
        /\ r.graceOver = s.graceOver
        /\ r.readyState = s.readyState
        /\ r.known = s.known
        /\ r.closed = s.closed
        /\ r.threw = s.threw
    BY DEF States
  <1>3. Dispatch(s, e) = r
    BY DEF Dispatch, q
  <1> HIDE DEF r
  <1>4. Apart(s) => Apart(r)
    BY <1>2, Zenon DEF Apart
  <1> QED
    BY <1>1, <1>2, <1>3, <1>4, Zenon DEF Steady

LEMMA SteadyCloses ==
    ASSUME NEW own \in SUBSET Nat, NEW s \in States(own)
    PROVE  /\ Steady(s, HandleClose(s))
           /\ Steady(s, CloseIfClosing(s))
           /\ Steady(s, ClosePeer(s))
           /\ s.readyState # "connecting" => Steady(s, LocalClose(s))
  <1> DEFINE Ended(p) == [p EXCEPT !.readyState = "closed", !.known = FALSE]
             e == Event("close", 0)
  <1>1. e \in Events /\ e.type \notin {"closing", "datachannel"}
    BY EventsAre DEF Event
  <1> HIDE DEF e
  <1>2. ASSUME NEW p \in States(own)
        PROVE  /\ Ended(p) \in States(own)
               /\ Ended(p).log = p.log
               /\ Ended(p).queuedNativeEvents = p.queuedNativeEvents
               /\ Ended(p).pendingNativeEvents = p.pendingNativeEvents
               /\ Ended(p).nativeEventDrainActive = p.nativeEventDrainActive
               /\ Ended(p).announcementPending = p.announcementPending
               /\ Ended(p).nativeCloseEventQueued = p.nativeCloseEventQueued
               /\ Ended(p).graceOver = p.graceOver
               /\ Ended(p).readyState = "closed"
               /\ Ended(p).known = FALSE
               /\ Ended(p).closed = p.closed
               /\ Ended(p).threw = p.threw
    <2> DEFINE r1 == [p EXCEPT !.readyState = "closed"]
    <2>1. r1 \in States(own)
      BY Values, Names
    <2>2. [r1 EXCEPT !.known = FALSE] \in States(own)
      BY <2>1, Flags
    <2>3. Ended(p) = [r1 EXCEPT !.known = FALSE]
      BY DEF States
    <2> QED
      BY <2>2, <2>3 DEF States
  <1> HIDE DEF Ended
  <1>3. \A p \in States(own) : Steady(p, Ended(p)) /\ Steady(Ended(p), Dispatch(Ended(p), e))
    <2> SUFFICES ASSUME NEW p \in States(own)
                 PROVE  Steady(p, Ended(p)) /\ Steady(Ended(p), Dispatch(Ended(p), e))
      OBVIOUS
    <2>1. Apart(Ended(p))
      BY <1>2 DEF Apart
    <2>2. "closed" # "connecting"
      OBVIOUS
    <2>3. Steady(p, Ended(p))
      BY <1>2, <2>1, <2>2, LongerTwice, Zenon DEF Steady
    <2>4. Steady(Ended(p), Dispatch(Ended(p), e))
      BY <1>1, <1>2, SteadyDispatch
    <2> QED
      BY <2>3, <2>4
  <1>4. \A p \in States(own) :
           HandleClose(p) = IF p.readyState = "closed" THEN p ELSE Dispatch(Ended(p), e)
    BY Zenon DEF HandleClose, Ended, e
  <1>5. \A p \in States(own) : Steady(p, HandleClose(p))
    BY <1>3, <1>4, SteadyTwice, Zenon
  <1>6. Steady(s, CloseIfClosing(s))
    BY <1>5, SteadyTwice, Zenon DEF CloseIfClosing
  <1>7. Steady(s, ClosePeer(s))
    <2> DEFINE r1 == [s EXCEPT !.closed = TRUE]
               r == [r1 EXCEPT !.deferredIceEvents = 0]
    <2>1. r \in States(own)
      <3>1. r1 \in States(own)
        BY Flags
      <3> QED
        BY <3>1, Values, Names
    <2>2. /\ r.log = s.log
          /\ r.queuedNativeEvents = s.queuedNativeEvents
          /\ r.pendingNativeEvents = s.pendingNativeEvents
          /\ r.nativeEventDrainActive = s.nativeEventDrainActive
          /\ r.announcementPending = s.announcementPending
          /\ r.nativeCloseEventQueued = s.nativeCloseEventQueued
          /\ r.graceOver = s.graceOver
          /\ r.readyState = s.readyState
          /\ r.known = s.known
          /\ r.closed = TRUE
          /\ r.threw = s.threw
      BY DEF States
    <2>3. ClosePeer(s) = IF r.known THEN HandleClose(r) ELSE r
      BY Zenon DEF ClosePeer, r1
    <2> HIDE DEF r
    <2>4. ASSUME ~s.known PROVE Steady(s, r)
      <3>1. Apart(s) => Apart(r)
        BY <2>2, <2>4, Zenon DEF Apart
      <3> QED
        BY <2>2, <3>1, LongerTwice, Zenon DEF Steady
    <2>5. ASSUME s.known, s.readyState # "closed"
          PROVE  Steady(s, Dispatch(Ended(r), e))
      <3>1. Apart(Ended(r)) /\ "closed" # "connecting"
        BY <1>2, <2>1 DEF Apart
      <3>2. /\ Ended(r).log = r.log
            /\ Ended(r).queuedNativeEvents = r.queuedNativeEvents
            /\ Ended(r).pendingNativeEvents = r.pendingNativeEvents
            /\ Ended(r).nativeEventDrainActive = r.nativeEventDrainActive
            /\ Ended(r).announcementPending = r.announcementPending
            /\ Ended(r).nativeCloseEventQueued = r.nativeCloseEventQueued
            /\ Ended(r).graceOver = r.graceOver
            /\ Ended(r).readyState = "closed"
            /\ Ended(r).closed = r.closed
            /\ Ended(r).threw = r.threw
        BY <1>2, <2>1
      <3>3. Steady(s, Ended(r))
        BY <2>2, <3>1, <3>2, LongerTwice, Zenon DEF Steady
      <3> QED
        BY <1>3, <2>1, <3>3, SteadyTwice, Zenon
    <2>6. ASSUME s.known, s.readyState = "closed" PROVE Steady(s, r)
      <3>1. ~Apart(s)
        BY <2>6 DEF Apart
      <3> QED
        BY <2>2, <3>1, LongerTwice, Zenon DEF Steady
    <2> QED
      BY <1>4, <2>1, <2>2, <2>3, <2>4, <2>5, <2>6, Zenon
  <1>8. ASSUME s.readyState # "connecting" PROVE Steady(s, LocalClose(s))
    <2> DEFINE r == [s EXCEPT !.readyState = "closing"]
    <2>1. r \in States(own)
      BY Values, Names
    <2>2. /\ r.log = s.log
          /\ r.queuedNativeEvents = s.queuedNativeEvents
          /\ r.pendingNativeEvents = s.pendingNativeEvents
          /\ r.nativeEventDrainActive = s.nativeEventDrainActive
          /\ r.announcementPending = s.announcementPending
          /\ r.nativeCloseEventQueued = s.nativeCloseEventQueued
          /\ r.graceOver = s.graceOver
          /\ r.readyState = "closing"
          /\ r.known = s.known
          /\ r.closed = s.closed
          /\ r.threw = s.threw
      BY DEF States
    <2>3. LocalClose(s) = IF s.readyState \in {"closing", "closed"} THEN s
                          ELSE Soon(r, "closeNative")
      BY Zenon DEF LocalClose
    <2> HIDE DEF r
    <2>4. Same(r, Soon(r, "closeNative"))
      BY <2>1, SameMethods
    <2>5. ASSUME s.readyState \notin {"closing", "closed"} PROVE Steady(s, r)
      <3>1. "closing" # "connecting" /\ "closing" # "closed"
            /\ s.readyState \notin {"connecting", "closed"}
        BY <1>8, <2>5
      <3>2. Apart(s) => Apart(r)
        BY <2>2, <3>1, Zenon DEF Apart
      <3>3. s.readyState # "closed"
        BY <2>5
      <3> QED
        BY <2>2, <3>1, <3>2, <3>3, LongerTwice, Zenon DEF Steady
    <2> QED
      BY <2>3, <2>4, <2>5, SameSteady, SteadyTwice, Zenon
  <1> QED
    BY <1>5, <1>6, <1>7, <1>8

LEMMA SteadyOpen ==
    ASSUME NEW own \in SUBSET Nat, NEW s \in States(own)
    PROVE  /\ Steady(s, DispatchOpen(s))
           /\ s.known /\ s.readyState \notin {"connecting", "closed"} =>
                 Steady(s, [s EXCEPT !.readyState = "open"])
  <1> DEFINE t == [s EXCEPT !.openDeferredForIce = TRUE]
             u == [s EXCEPT !.openEventDispatched = TRUE]
  <1>1. t \in States(own) /\ u \in States(own) /\ Same(s, t) /\ Same(s, u)
    BY Flags, SameFields
  <1> HIDE DEF t, u
  <1>2. Same(t, ScheduleIceFlush(t))
    BY <1>1, SameMethods
  <1>3. Steady(s, ScheduleIceFlush(t))
    BY <1>1, <1>2, SameSteady, Zenon
  <1>4. Event("open", 0) \in Events /\ Event("open", 0).type \notin {"closing", "datachannel"}
    BY EventsAre DEF Event
  <1>5. Steady(u, Dispatch(u, Event("open", 0)))
    BY <1>1, <1>4, SteadyDispatch
  <1>6. Steady(s, Dispatch(u, Event("open", 0)))
    BY <1>1, <1>5, SameSteady, SteadyTwice, Zenon
  <1>7. Steady(s, DispatchOpen(s))
    BY <1>3, <1>6, SteadyTwice, Zenon DEF DispatchOpen, t, u
  <1>8. ASSUME s.known, s.readyState \notin {"connecting", "closed"}
        PROVE  Steady(s, [s EXCEPT !.readyState = "open"])
    <2> DEFINE r == [s EXCEPT !.readyState = "open"]
    <2>1. /\ r.log = s.log
          /\ r.queuedNativeEvents = s.queuedNativeEvents
          /\ r.pendingNativeEvents = s.pendingNativeEvents
          /\ r.nativeEventDrainActive = s.nativeEventDrainActive
          /\ r.announcementPending = s.announcementPending
          /\ r.nativeCloseEventQueued = s.nativeCloseEventQueued
          /\ r.graceOver = s.graceOver
          /\ r.readyState = "open"
          /\ r.known = s.known
          /\ r.closed = s.closed
          /\ r.threw = s.threw
      BY DEF States
    <2> HIDE DEF r
    <2>2. "open" # "connecting" /\ "open" # "closed"
      OBVIOUS
    <2>3. Apart(s) => Apart(r)
      BY <1>8, <2>1, <2>2, Zenon DEF Apart
    <2>4. s.readyState # "closed"
      BY <1>8
    <2>5. Steady(s, r)
      BY <2>1, <2>2, <2>3, <2>4, LongerTwice, Zenon DEF Steady
    <2> QED
      BY <2>5 DEF r
  <1> QED
    BY <1>7, <1>8

LEMMA SteadyIce ==
    ASSUME NEW own \in SUBSET Nat, NEW s \in States(own),
           ~s.closed => s.deferredIceEvents > 0
    PROVE  Same(s, FlushIceEvents(s))
  <1> DEFINE idle == [s EXCEPT !.iceEventFlushScheduled = FALSE]
             left == IF s.closed THEN 0 ELSE s.deferredIceEvents - 1
             t == [idle EXCEPT !.deferredIceEvents = left]
  <1>1. left \in IceCounts
    <2>1. s.deferredIceEvents \in IceCounts /\ 0 \in IceCounts
      BY Components, Names
    <2> QED
      BY <2>1, IncomingAssumption DEF IceCounts, IncomingAssumption
  <1> HIDE DEF left
  <1>2. idle \in States(own) /\ Same(s, idle)
    BY Flags, SameFields
  <1> HIDE DEF idle
  <1>3. t \in States(own) /\ Same(idle, t)
    BY <1>1, <1>2, Values, SameFields
  <1> HIDE DEF t
  <1>4. /\ Same(idle, ScheduleIceFlush(idle)) /\ Same(t, ScheduleIceFlush(t))
        /\ Same(t, Soon(t, "retryOpen"))
    BY <1>2, <1>3, SameMethods
  <1>5. FlushIceEvents(s) \in {ScheduleIceFlush(idle), ScheduleIceFlush(t), t,
                               Soon(t, "retryOpen")}
    BY Zenon DEF FlushIceEvents, idle, left, t
  <1>6. Same(s, t) /\ Same(s, ScheduleIceFlush(idle))
    BY <1>2, <1>3, <1>4, SameSteady, Zenon
  <1>7. Same(s, ScheduleIceFlush(t)) /\ Same(s, Soon(t, "retryOpen"))
    BY <1>4, <1>6, SameSteady, Zenon
  <1> QED
    BY <1>5, <1>6, <1>7

\* Messages are no part of it, wherever they go.
LEMMA SteadyMessages ==
    ASSUME NEW own \in SUBSET Nat, NEW s \in States(own), NEW ns \in MessageQueues(own)
    PROVE  /\ Steady(s, DispatchMessages(s, ns))
           /\ Steady(s, [s EXCEPT !.pendingNativeEvents = @ \o Messages(ns)])
           /\ Steady(s, [s EXCEPT !.queuedNativeEvents = @ \o Messages(ns)])
  <1> DEFINE more == Messages(ns)
             l == s.log \o more
             qs == s.queuedNativeEvents \o more
             ps == s.pendingNativeEvents \o more
             r1 == [s EXCEPT !.log = l]
             r2 == [s EXCEPT !.pendingNativeEvents = ps]
             r3 == [s EXCEPT !.queuedNativeEvents = qs]
  <1>1. more \in Logs
    BY MessagesTyped
  <1>2. \A i \in DOMAIN more : more[i].type = "message"
    BY DEF Messages, Message, Event
  <1>3. /\ s.log \in Logs /\ s.queuedNativeEvents \in Logs /\ s.pendingNativeEvents \in Logs
    BY Components, QueuesAreLogs
  <1> HIDE DEF more
  <1>4. \A i \in DOMAIN more : more[i].type \notin {"closing", "datachannel"}
    BY <1>2
  <1>5. Longer(s.log, l)
    BY <1>1, <1>3, <1>4, LogGrows
  <1>6. ~Has(more, "close")
    BY <1>2 DEF Has
  <1>7. /\ Has(qs, "close") => Has(s.queuedNativeEvents, "close")
        /\ Has(ps, "close") => Has(s.pendingNativeEvents, "close")
    BY <1>1, <1>3, <1>6, LogExtended
  <1> HIDE DEF l, qs, ps
  <1>8. \A r \in {r1, r2, r3} :
           /\ r.nativeEventDrainActive = s.nativeEventDrainActive
           /\ r.announcementPending = s.announcementPending
           /\ r.nativeCloseEventQueued = s.nativeCloseEventQueued
           /\ r.graceOver = s.graceOver
           /\ r.readyState = s.readyState
           /\ r.known = s.known
           /\ r.closed = s.closed
           /\ r.threw = s.threw
    BY DEF States
  <1>9. /\ r1.log = l /\ r1.queuedNativeEvents = s.queuedNativeEvents
        /\ r1.pendingNativeEvents = s.pendingNativeEvents
        /\ r2.log = s.log /\ r2.queuedNativeEvents = s.queuedNativeEvents
        /\ r2.pendingNativeEvents = ps
        /\ r3.log = s.log /\ r3.queuedNativeEvents = qs
        /\ r3.pendingNativeEvents = s.pendingNativeEvents
    BY DEF States
  <1> HIDE DEF r1, r2, r3
  <1>10. \A r \in {r1, r2, r3} : Apart(s) => Apart(r)
    BY <1>8, Zenon DEF Apart
  <1>11. Longer(s.log, s.log)
    BY LongerTwice
  <1>12. Steady(s, r1)
    BY <1>5, <1>8, <1>9, <1>10, Zenon DEF Steady
  <1>13. Steady(s, r2)
    BY <1>7, <1>8, <1>9, <1>10, <1>11, Zenon DEF Steady
  <1>14. Steady(s, r3)
    BY <1>7, <1>8, <1>9, <1>10, <1>11, Zenon DEF Steady
  <1> QED
    BY <1>12, <1>13, <1>14, Zenon DEF r1, r2, r3, l, qs, ps, more, DispatchMessages

LEMMA SteadyHandOver ==
    ASSUME NEW own \in SUBSET Nat, NEW s \in States(own), NEW ns \in MessageQueues(own),
           NEW r \in HandOver(s, ns)
    PROVE  Steady(s, r)
  <1> DEFINE first(k) == DispatchMessages(s, SubSeq(ns, 1, k))
             rest(k) == SubSeq(ns, k + 1, Len(ns))
             listens(k) == [first(k) EXCEPT !.messageConsumer = "listener"]
  <1>1. ASSUME NEW k \in 1 .. Len(ns)
        PROVE  /\ first(k) \in States(own) /\ Steady(s, first(k))
               /\ rest(k) \in MessageQueues(own)
    BY Parts, StepsTyped, SteadyMessages
  <1>2. first(Len(ns)) \in States(own) /\ Steady(s, first(Len(ns)))
    <2>1. SubSeq(ns, 1, Len(ns)) = ns
      BY WholePart
    <2> QED
      BY <2>1, StepsTyped, SteadyMessages
  <1>3. \/ r = first(Len(ns))
        \/ \E k \in 1 .. Len(ns) : r = ClosePeer(first(k))
        \/ \E k \in 1 .. Len(ns) - 1 : r = QueueMessages(listens(k), rest(k))
    BY Zenon DEF HandOver
  <1> HIDE DEF first, rest
  <1>4. \A k \in 1 .. Len(ns) - 1 : k \in 1 .. Len(ns)
    BY DEF MessageQueues
  <1>5. ASSUME NEW k \in 1 .. Len(ns) PROVE Steady(s, ClosePeer(first(k)))
    BY <1>1, SteadyCloses, SteadyTwice
  <1>6. ASSUME NEW k \in 1 .. Len(ns) PROVE Steady(s, QueueMessages(listens(k), rest(k)))
    <2>1. listens(k) \in States(own) /\ Same(first(k), listens(k))
      BY <1>1, Values, Names, SameFields
    <2> HIDE DEF listens
    <2>2. Same(listens(k), QueueMessages(listens(k), rest(k)))
      BY <1>1, <2>1, SameMethods
    <2> QED
      BY <1>1, <2>1, <2>2, SameSteady, SteadyTwice, Zenon
  <1> HIDE DEF listens
  <1> QED
    BY <1>2, <1>3, <1>4, <1>5, <1>6, Zenon

LEMMA SteadyBatch ==
    ASSUME NEW own \in SUBSET Nat, NEW s \in States(own), NEW ns \in MessageQueues(own)
    PROVE  /\ \A r \in MessageBatch(s, ns) : ~HandlerMayThrow => Steady(s, r)
           /\ Steady(s, AfterMessages(s, ns))
  <1> DEFINE t == [s EXCEPT !.messageConsumerGateActive = FALSE]
             early == [s EXCEPT !.pendingNativeEvents = @ \o Messages(ns)]
             held == [s EXCEPT !.queuedNativeEvents = @ \o Messages(ns)]
  <1>1. t \in States(own) /\ Same(s, t)
    BY Flags, SameFields
  <1>2. Steady(s, early) /\ Steady(s, held)
    BY SteadyMessages
  <1>3. Same(s, QueueMessages(s, ns))
    BY SameMethods
  <1> HIDE DEF t, early, held
  <1>4. Same(t, QueueMessages(t, ns))
    BY <1>1, SameMethods
  <1>5. Steady(s, QueueMessages(s, ns)) /\ Steady(s, QueueMessages(t, ns))
    BY <1>1, <1>3, <1>4, SameSteady, Zenon
  <1>6. ASSUME NEW r \in MessageBatch(s, ns), ~HandlerMayThrow PROVE Steady(s, r)
    <2>1. \/ r \in {early, held, QueueMessages(s, ns), QueueMessages(t, ns)}
          \/ r \in HandOver(t, ns)
      BY <1>6, Zenon DEF MessageBatch, t, early, held
    <2>2. CASE r \in {early, held, QueueMessages(s, ns), QueueMessages(t, ns)}
      BY <1>2, <1>5, <2>2
    <2>3. CASE r \in HandOver(t, ns)
      <3>1. Steady(t, r)
        BY <1>1, <2>3, SteadyHandOver
      <3> QED
        BY <1>1, <3>1, SameSteady, SteadyTwice, Zenon
    <2> QED
      BY <2>1, <2>2, <2>3
  <1>7. Steady(s, AfterMessages(s, ns))
    <2>1. AfterMessages(s, ns) \in {s, early, held, QueueMessages(s, ns)}
      BY Zenon DEF AfterMessages, early, held
    <2> QED
      BY <1>2, <1>5, <2>1, SteadyTwice
  <1> QED
    BY <1>6, <1>7

LEMMA SteadyFlush ==
    ASSUME NEW own \in SUBSET Nat, NEW s \in States(own), NEW r \in FlushMessages(s)
    PROVE  Steady(s, r)
  <1> DEFINE t == [s EXCEPT !.messageConsumerGateActive = FALSE]
             empty == [s EXCEPT !.queuedMessageEvents = <<>>]
             idle == [s EXCEPT !.idleCallbacks = s.idleCallbacks + 1]
             u == [t EXCEPT !.queuedMessageEvents = <<>>]
             ms == s.queuedMessageEvents
             v == DispatchMessages(u, <<Head(ms)>>)
  <1>1. ms \in MessageQueues(own)
    BY Components
  <1>2. Same(s, empty) /\ Same(s, idle) /\ Same(s, s)
    BY SameFields, SameSteady
  <1>3. t \in States(own) /\ Same(s, t)
    BY Flags, SameFields
  <1> HIDE DEF t
  <1>4. u \in States(own) /\ Same(t, u)
    BY <1>3, Values, Names, SameFields
  <1>5. Steady(s, u)
    BY <1>3, <1>4, SameSteady, Zenon
  <1> HIDE DEF ms, u, empty, idle
  <1>6. ASSUME NEW p \in HandOver(u, ms) PROVE Steady(s, p)
    BY <1>1, <1>4, <1>5, SteadyHandOver, SteadyTwice, Zenon
  <1>7. ASSUME ms # <<>> PROVE Steady(s, v) /\ Steady(s, QueueMessages(v, Tail(ms)))
    <2>1. <<Head(ms)>> \in MessageQueues(own) /\ Tail(ms) \in MessageQueues(own)
      <3>1. Head(ms) \in own /\ Tail(ms) \in MessageQueues(own)
        BY <1>1, <1>7, Queues
      <3> QED
        BY <3>1 DEF MessageQueues
    <2>2. v \in States(own) /\ Steady(u, v)
      BY <1>4, <2>1, StepsTyped, SteadyMessages
    <2> HIDE DEF v
    <2>3. Same(v, QueueMessages(v, Tail(ms)))
      BY <2>1, <2>2, SameMethods
    <2> QED
      BY <1>5, <2>2, <2>3, SameSteady, SteadyTwice, Zenon
  <1>8. \/ r \in {empty, idle, s}
        \/ ms = <<>> /\ r = u
        \/ r \in HandOver(u, ms)
        \/ ms # <<>> /\ (r = v \/ r = QueueMessages(v, Tail(ms)))
    BY Zenon DEF FlushMessages, empty, idle, u, ms, t, v
  <1> HIDE DEF v
  <1>9. CASE r \in {empty, idle, s}
    BY <1>2, <1>9, SameSteady
  <1> QED
    BY <1>5, <1>6, <1>7, <1>8, <1>9

\* The native close, when nothing of the channel is held up any more.
LEMMA EndingReported ==
    ASSUME NEW own \in SUBSET Nat, NEW s \in States(own), NEW ended, NEW done, NEW gone,
           Ending(s, own, ended, done, gone), ended,
           s.readyState # "connecting",
           s.readyState # "closed" => ~s.announcementPending
    PROVE  /\ Ending(QueueNativeClose(s), own, ended, done, gone)
           /\ Promised(s) => Promised(QueueNativeClose(s))
  <1> DEFINE p == [s EXCEPT !.nativeCloseEventQueued = TRUE]
             r == [p EXCEPT !.graceOver = FALSE]
  <1>1. r \in States(own)
    <2>1. p \in States(own)
      BY Flags
    <2> HIDE DEF p
    <2> QED
      BY <2>1, Flags
  <1>2. /\ r.log = s.log
        /\ r.queuedNativeEvents = s.queuedNativeEvents
        /\ r.pendingNativeEvents = s.pendingNativeEvents
        /\ r.nativeEventDrainActive = s.nativeEventDrainActive
        /\ r.announcementPending = s.announcementPending
        /\ r.graceOver = FALSE
        /\ r.readyState = s.readyState
        /\ r.known = s.known
        /\ r.closed = s.closed
        /\ r.threw = s.threw
    BY DEF States
  <1>3. QueueNativeClose(s) = IF s.nativeCloseEventQueued THEN s ELSE Later(r, "pollClose")
    BY Zenon DEF QueueNativeClose, p
  <1> HIDE DEF r
  <1>4. Apart(r)
    BY <1>2, Zenon DEF Ending, Apart
  <1>5. Ending(r, own, ended, done, gone)
    BY <1>2, <1>4, Zenon DEF Ending
  <1>6. Promised(s) => Promised(r)
    BY <1>2, Zenon DEF Promised
  <1>7. Same(r, Later(r, "pollClose"))
    BY <1>1, SameMethods
  <1>8. Steady(r, Later(r, "pollClose"))
    BY <1>7, SameSteady
  <1>9. /\ Ending(Later(r, "pollClose"), own, ended, done, gone)
        /\ Promised(s) => Promised(Later(r, "pollClose"))
    BY <1>5, <1>6, <1>8, SteadyEnding
  <1> QED
    BY <1>3, <1>9, Zenon

\* Queues that hold the close only when it was reported.
LEMMA EndingQueued ==
    ASSUME NEW own \in SUBSET Nat, NEW s \in States(own), NEW ended, NEW done, NEW gone,
           Ending(s, own, ended, done, gone), NEW q, Has(q, "close") => ended
    PROVE  /\ Ending([s EXCEPT !.queuedNativeEvents = q], own, ended, done, gone)
           /\ Ending([s EXCEPT !.pendingNativeEvents = q], own, ended, done, gone)
  <1> DEFINE r1 == [s EXCEPT !.queuedNativeEvents = q]
             r2 == [s EXCEPT !.pendingNativeEvents = q]
  <1>1. /\ r1.log = s.log
        /\ r1.queuedNativeEvents = q
        /\ r1.pendingNativeEvents = s.pendingNativeEvents
        /\ r1.nativeEventDrainActive = s.nativeEventDrainActive
        /\ r1.announcementPending = s.announcementPending
        /\ r1.nativeCloseEventQueued = s.nativeCloseEventQueued
        /\ r1.graceOver = s.graceOver
        /\ r1.readyState = s.readyState
        /\ r1.known = s.known
        /\ r1.closed = s.closed
        /\ r1.threw = s.threw
    BY DEF States
  <1>2. /\ r2.log = s.log
        /\ r2.queuedNativeEvents = s.queuedNativeEvents
        /\ r2.pendingNativeEvents = q
        /\ r2.nativeEventDrainActive = s.nativeEventDrainActive
        /\ r2.announcementPending = s.announcementPending
        /\ r2.nativeCloseEventQueued = s.nativeCloseEventQueued
        /\ r2.graceOver = s.graceOver
        /\ r2.readyState = s.readyState
        /\ r2.known = s.known
        /\ r2.closed = s.closed
        /\ r2.threw = s.threw
    BY DEF States
  <1> HIDE DEF r1, r2
  <1>3. Apart(r1) /\ Apart(r2)
    BY <1>1, <1>2, Zenon DEF Ending, Apart
  <1>4. Ending(r1, own, ended, done, gone)
    BY <1>1, <1>3, Zenon DEF Ending
  <1>5. Ending(r2, own, ended, done, gone)
    BY <1>2, <1>3, Zenon DEF Ending
  <1> QED
    BY <1>4, <1>5 DEF r1, r2

LEMMA PromisedQueued ==
    ASSUME NEW own, NEW s \in States(own), NEW q
    PROVE  /\ Promised(s) => Promised([s EXCEPT !.queuedNativeEvents = q])
           /\ Promised(s) => Promised([s EXCEPT !.pendingNativeEvents = q])
  BY DEF Promised, Has, States

\* An event of the channel that goes ahead, or waits with the others.
LEMMA EndingHandled ==
    ASSUME NEW own \in SUBSET Nat, NEW s \in States(own), NEW ended, NEW done, NEW gone,
           Ending(s, own, ended, done, gone),
           NEW e \in Incoming(own), e.type = "close" => ended,
           s.readyState # "connecting",
           e.type = "open" => s.known
    PROVE  /\ (s.readyState # "closed" => ~s.announcementPending) =>
                 /\ Ending(HandleNow(s, e), own, ended, done, gone)
                 /\ Promised(s) => Promised(HandleNow(s, e))
           /\ s.known => /\ Ending(HandleNative(s, e), own, ended, done, gone)
                         /\ Promised(s) => Promised(HandleNative(s, e))
  <1> DEFINE t == [s EXCEPT !.readyState = "open"]
             u == [t EXCEPT !.openEventPending = TRUE]
             q == Append(s.queuedNativeEvents, e)
             r == [s EXCEPT !.queuedNativeEvents = q]
             Good(p) == /\ Ending(p, own, ended, done, gone)
                        /\ Promised(s) => Promised(p)
  <1>1. e.type \in {"open", "message", "close"}
    BY DEF Incoming
  <1>2. \A p : Steady(s, p) => Good(p)
    BY SteadyEnding
  <1>3. t \in States(own)
    BY Values, Names
  <1>4. s.known => Steady(s, t)
    <2>1. s.known => s.readyState # "closed"
      BY Zenon DEF Ending, Apart
    <2> QED
      BY <2>1, SteadyOpen
  <1> HIDE DEF t
  <1>5. s.known => Steady(s, DispatchOpen(t))
    BY <1>3, <1>4, SteadyOpen, SteadyTwice
  <1>6. s.known => Steady(s, u)
    <2>1. Same(t, u)
      BY <1>3, SameFields
    <2> QED
      BY <1>4, <2>1, SameSteady, SteadyTwice, Zenon
  <1> HIDE DEF u
  <1>7. e.type = "message" => Steady(s, QueueMessages(s, <<e.n>>))
    <2>1. ASSUME e.type = "message" PROVE <<e.n>> \in MessageQueues(own)
      <3>1. e.n \in own
        BY <2>1 DEF Incoming
      <3> QED
        BY <3>1 DEF MessageQueues
    <2>2. e.type = "message" => Same(s, QueueMessages(s, <<e.n>>))
      BY <2>1, SameMethods
    <2> QED
      BY <2>2, SameSteady, SteadyTwice
  <1>8. ASSUME s.readyState # "closed" => ~s.announcementPending
        PROVE  Good(HandleNow(s, e))
    <2>1. CASE e.type = "open"
      <3>1. HandleNow(s, e) \in {t, DispatchOpen(t), s}
        BY <2>1, Zenon DEF HandleNow, t
      <3>2. Steady(s, HandleNow(s, e))
        BY <1>4, <1>5, <2>1, <3>1, SteadyTwice
      <3> QED
        BY <1>2, <3>2
    <2>2. CASE e.type = "message"
      <3>1. HandleNow(s, e) = QueueMessages(s, <<e.n>>)
        BY <2>2 DEF HandleNow
      <3> QED
        BY <1>2, <1>7, <2>2, <3>1
    <2>3. CASE e.type = "close"
      <3>1. HandleNow(s, e) = QueueNativeClose(s)
        BY <2>3 DEF HandleNow
      <3> QED
        BY <1>8, <2>3, <3>1, EndingReported
    <2> QED
      BY <1>1, <2>1, <2>2, <2>3
  <1>9. Good(r)
    <2>1. s.queuedNativeEvents \in Logs /\ e \in Events
      <3>1. e \in Events
        BY DEF Incoming, Events
      <3> QED
        BY <3>1, Components, QueuesAreLogs
    <2>2. Has(q, "close") => ended
      <3>1. Has(q, "close") => Has(s.queuedNativeEvents, "close") \/ e.type = "close"
        BY <2>1, LogAppended
      <3> QED
        BY <3>1, Zenon DEF Ending
    <2> HIDE DEF q
    <2>3. Ending([s EXCEPT !.queuedNativeEvents = q], own, ended, done, gone)
      BY <2>2, EndingQueued
    <2>4. Promised(s) => Promised([s EXCEPT !.queuedNativeEvents = q])
      BY PromisedQueued
    <2> QED
      BY <2>3, <2>4
  <1>10. HandleNative(s, e) = IF ~(s.announcementPending \/ s.nativeEventDrainActive)
                              THEN HandleNow(s, e)
                              ELSE IF e.type = "open" THEN u ELSE r
    BY Zenon DEF HandleNative, t, u
  <1>11. s.known => Good(HandleNative(s, e))
    BY <1>2, <1>6, <1>8, <1>9, <1>10, Zenon
  <1> QED
    BY <1>8, <1>11

LEMMA EndingPeerEvent ==
    ASSUME NEW own \in SUBSET Nat, NEW s \in States(own), NEW ended, NEW done, NEW gone,
           Ending(s, own, ended, done, gone),
           NEW e \in Incoming(own), e.type = "close" => ended,
           s.readyState = "connecting" => ~s.known
    PROVE  /\ Ending(PeerEvent(s, e), own, ended, done, gone)
           /\ Promised(s) => Promised(PeerEvent(s, e))
  <1> DEFINE q == Append(s.pendingNativeEvents, e)
             r == [s EXCEPT !.pendingNativeEvents = q]
             Good(p) == /\ Ending(p, own, ended, done, gone)
                        /\ Promised(s) => Promised(p)
  <1>1. PeerEvent(s, e) = IF s.closed THEN s
                          ELSE IF s.known THEN HandleNative(s, e) ELSE r
    <2>1. e.type # "datachannel"
      BY DEF Incoming
    <2> QED
      BY <2>1, Zenon DEF PeerEvent
  <1>2. Good(s)
    OBVIOUS
  <1>3. s.known => Good(HandleNative(s, e))
    BY EndingHandled
  <1>4. Good(r)
    <2>1. s.pendingNativeEvents \in Logs /\ e \in Events
      <3>1. e \in Events
        BY DEF Incoming, Events
      <3> QED
        BY <3>1, Components, QueuesAreLogs
    <2>2. Has(q, "close") => ended
      <3>1. Has(q, "close") => Has(s.pendingNativeEvents, "close") \/ e.type = "close"
        BY <2>1, LogAppended
      <3> QED
        BY <3>1, Zenon DEF Ending
    <2> HIDE DEF q
    <2>3. Ending([s EXCEPT !.pendingNativeEvents = q], own, ended, done, gone)
      BY <2>2, EndingQueued
    <2>4. Promised(s) => Promised([s EXCEPT !.pendingNativeEvents = q])
      BY PromisedQueued
    <2> QED
      BY <2>3, <2>4
  <1> HIDE DEF r
  <1> QED
    BY <1>1, <1>2, <1>3, <1>4, Zenon

\* The channel becomes known: its early events wait now.
LEMMA EndingAnnounced ==
    ASSUME NEW own \in SUBSET Nat, NEW s \in States(own), NEW ended, NEW done, NEW gone,
           Ending(s, own, ended, done, gone), Fresh(s), ~s.closed
    PROVE  /\ Ending(Announce(s), own, ended, done, gone)
           /\ Promised(Announce(s))
  <1> DEFINE ps == s.pendingNativeEvents
             t == [s EXCEPT !.known = TRUE,
                            !.readyState = "open",
                            !.openEventPending = TRUE,
                            !.announcementPending = TRUE,
                            !.pendingDataChannelEvent = TRUE,
                            !.queuedNativeEvents = ps,
                            !.pendingNativeEvents = <<>>]
  <1>1. t \in States(own)
    <2> DEFINE r1 == [s EXCEPT !.known = TRUE]
               r2 == [r1 EXCEPT !.readyState = "open"]
               r3 == [r2 EXCEPT !.openEventPending = TRUE]
               r4 == [r3 EXCEPT !.announcementPending = TRUE]
               r5 == [r4 EXCEPT !.pendingDataChannelEvent = TRUE]
               r6 == [r5 EXCEPT !.queuedNativeEvents = ps]
               r7 == [r6 EXCEPT !.pendingNativeEvents = <<>>]
    <2>1. /\ <<>> \in EventQueues(own) /\ "open" \in ReadyStates
          /\ ps \in EventQueues(own)
      BY Names, Components
    <2> HIDE DEF ps
    <2>2. r1 \in States(own)
      BY Flags
    <2> HIDE DEF r1
    <2>3. r2 \in States(own)
      BY <2>1, <2>2, Values
    <2> HIDE DEF r2
    <2>4. r3 \in States(own)
      BY <2>3, Flags
    <2> HIDE DEF r3
    <2>5. r4 \in States(own)
      BY <2>4, Flags
    <2> HIDE DEF r4
    <2>6. r5 \in States(own)
      BY <2>5, Flags
    <2> HIDE DEF r5
    <2>7. r6 \in States(own)
      BY <2>1, <2>6, Values
    <2> HIDE DEF r6
    <2>8. r7 \in States(own)
      BY <2>1, <2>7, Values
    <2> QED
      BY <2>8, Zenon DEF t, r1, r2, r3, r4, r5, r6, r7
  <1>2. /\ t.log = s.log /\ t.queuedNativeEvents = ps /\ t.pendingNativeEvents = <<>>
        /\ t.nativeEventDrainActive = s.nativeEventDrainActive
        /\ t.nativeCloseEventQueued = s.nativeCloseEventQueued
        /\ t.graceOver = s.graceOver
        /\ t.known = TRUE /\ t.readyState = "open"
        /\ t.closed = s.closed /\ t.threw = s.threw
    BY DEF States
  <1>3. Announce(s) = ScheduleDataChannelFlush(t)
    BY Zenon DEF Announce
  <1> HIDE DEF t
  <1>4. ~Has(<<>>, "close") /\ ~Has(<<>>, "datachannel")
    BY DEF Has
  <1>5. "open" # "connecting" /\ "open" # "closed"
    OBVIOUS
  <1>6. s.log = <<>> /\ s.readyState = "connecting"
    BY Zenon DEF Fresh
  <1>7. ~s.nativeCloseEventQueued /\ ~s.graceOver
    BY <1>6, Zenon DEF Ending
  <1>8. Apart(t)
    BY <1>2, <1>5, Zenon DEF Apart
  <1>9. Ending(t, own, ended, done, gone)
    BY <1>2, <1>4, <1>5, <1>6, <1>7, <1>8, Zenon DEF Ending, ps
  <1>10. Promised(t)
    BY <1>2, <1>4, <1>6, Zenon DEF Promised
  <1>11. Same(t, ScheduleDataChannelFlush(t))
    BY <1>1, SameMethods
  <1>12. Steady(t, ScheduleDataChannelFlush(t))
    BY <1>11, SameSteady
  <1> QED
    BY <1>3, <1>9, <1>10, <1>12, SteadyEnding

\* Of the early events, one a turn.
LEMMA EndingDrain ==
    ASSUME NEW own \in SUBSET Nat, NEW s \in States(own), NEW ended, NEW done, NEW gone,
           Ending(s, own, ended, done, gone), ~s.announcementPending,
           NoOpen(s.queuedNativeEvents),
           s.readyState = "connecting" => s.queuedNativeEvents = <<>>
    PROVE  /\ Ending(DrainQueuedEvent(s), own, ended, done, gone)
           /\ Promised(s) => Promised(DrainQueuedEvent(s))
  <1> DEFINE qs == s.queuedNativeEvents
             e == Head(qs)
             rest == Tail(qs)
             t == [s EXCEPT !.queuedNativeEvents = rest]
             v == HandleNow(t, e)
             Good(p) == /\ Ending(p, own, ended, done, gone)
                        /\ Promised(s) => Promised(p)
  <1>1. ASSUME NEW p \in States(own)
        PROVE  Steady(p, [p EXCEPT !.nativeEventDrainActive = FALSE])
    <2> DEFINE r == [p EXCEPT !.nativeEventDrainActive = FALSE]
    <2>1. /\ r.log = p.log
          /\ r.queuedNativeEvents = p.queuedNativeEvents
          /\ r.pendingNativeEvents = p.pendingNativeEvents
          /\ r.nativeEventDrainActive = FALSE
          /\ r.announcementPending = p.announcementPending
          /\ r.nativeCloseEventQueued = p.nativeCloseEventQueued
          /\ r.graceOver = p.graceOver
          /\ r.readyState = p.readyState
          /\ r.known = p.known
          /\ r.closed = p.closed
          /\ r.threw = p.threw
      BY DEF States
    <2> HIDE DEF r
    <2>2. Apart(p) => Apart(r)
      BY <2>1, Zenon DEF Apart
    <2>3. Steady(p, r)
      BY <2>1, <2>2, LongerTwice, Zenon DEF Steady
    <2> QED
      BY <2>3 DEF r
  <1>2. qs \in EventQueues(own)
    BY Components
  <1>3. CASE qs = <<>>
    <2>1. DrainQueuedEvent(s) = [s EXCEPT !.nativeEventDrainActive = FALSE]
      BY <1>3, Zenon DEF DrainQueuedEvent
    <2> QED
      BY <1>1, <2>1, SteadyEnding
  <1>4. CASE qs # <<>>
    <2>1. /\ e \in Incoming(own) /\ rest \in EventQueues(own) /\ e.type # "open"
      BY <1>2, <1>4, Queues, NoOpenQueues
    <2>2. /\ Has(rest, "close") => Has(qs, "close")
          /\ e.type = "close" => Has(qs, "close")
      <3>1. /\ DOMAIN qs = 1 .. Len(qs) /\ DOMAIN rest = 1 .. Len(qs) - 1
            /\ Len(qs) \in Nat \ {0} /\ e = qs[1]
            /\ \A i \in 1 .. Len(qs) - 1 : rest[i] = qs[i + 1]
        BY <1>2, <1>4 DEF EventQueues
      <3> HIDE DEF qs, rest, e
      <3>2. 1 \in DOMAIN qs /\ \A i \in DOMAIN rest : i + 1 \in DOMAIN qs /\ rest[i] = qs[i + 1]
        BY <3>1
      <3> QED
        BY <3>1, <3>2, Zenon DEF Has
    <2>3. Has(qs, "close") => ended
      BY Zenon DEF Ending
    <2>4. Good(t)
      <3> HIDE DEF rest
      <3>1. Has(rest, "close") => ended
        BY <2>2, <2>3
      <3>2. Ending(t, own, ended, done, gone)
        BY <3>1, EndingQueued
      <3>3. Promised(s) => Promised(t)
        BY PromisedQueued
      <3> QED
        BY <3>2, <3>3
    <2>5. /\ t \in States(own) /\ t.readyState = s.readyState
          /\ t.announcementPending = s.announcementPending
      <3>1. t \in States(own)
        BY <2>1, Values
      <3>2. /\ t.readyState = s.readyState
            /\ t.announcementPending = s.announcementPending
        BY DEF States
      <3> QED
        BY <3>1, <3>2
    <2>6. DrainQueuedEvent(s) = IF rest # <<>> THEN Soon(v, "drainNativeEvents")
                                ELSE [v EXCEPT !.nativeEventDrainActive = FALSE]
      BY <1>4, Zenon DEF DrainQueuedEvent
    <2> HIDE DEF e, rest, t
    <2>7. v \in States(own)
      BY <2>1, <2>5, HandleTyped
    <2>8. Good(v)
      <3>1. t.readyState # "connecting" /\ ~t.announcementPending
            /\ (e.type = "close" => ended)
        BY <1>4, <2>2, <2>3, <2>5
      <3>2. Ending(v, own, ended, done, gone) /\ (Promised(t) => Promised(v))
        BY <2>1, <2>4, <2>5, <3>1, EndingHandled
      <3> QED
        BY <2>4, <3>2
    <2> HIDE DEF v
    <2>9. /\ Steady(v, Soon(v, "drainNativeEvents"))
          /\ Steady(v, [v EXCEPT !.nativeEventDrainActive = FALSE])
      BY <1>1, <2>7, SameMethods, SameSteady
    <2>10. /\ Good(Soon(v, "drainNativeEvents"))
           /\ Good([v EXCEPT !.nativeEventDrainActive = FALSE])
      BY <2>8, <2>9, SteadyEnding
    <2> QED
      BY <2>6, <2>10, Zenon
  <1> QED
    BY <1>3, <1>4

-----------------------------------------------------------------------------
\* The announcement, and the end of the grace period.

LEMMA ToldMore ==
    ASSUME NEW log \in Logs, NEW e \in Events, NEW own, Told(log, own),
           e.type = "closing" => \A n \in own : Carries(log, n)
    PROVE  Told(Append(log, e), own)
  <1> DEFINE r == Append(log, e)
             k == Len(log)
  <1>1. /\ DOMAIN log = 1 .. k /\ k \in Nat
        /\ DOMAIN r = 1 .. k + 1 /\ r[k + 1] = e
        /\ \A i \in 1 .. k : r[i] = log[i]
    BY AppendProperties DEF Logs
  <1> HIDE DEF r, k
  <1>2. \A j \in DOMAIN log : j \in DOMAIN r /\ r[j] = log[j] /\ j < k + 1
    BY <1>1
  <1>3. ASSUME NEW i \in DOMAIN r, r[i].type = "closing", NEW n \in own
        PROVE  \E j \in DOMAIN r : j < i /\ r[j].type = "message" /\ r[j].n = n
    <2>1. CASE i = k + 1
      <3>1. PICK j \in DOMAIN log : log[j].type = "message" /\ log[j].n = n
        BY <1>1, <1>3, <2>1, Zenon DEF Carries
      <3> QED
        BY <1>2, <2>1, <3>1
    <2>2. CASE i # k + 1
      <3>1. i \in DOMAIN log /\ log[i].type = "closing"
        BY <1>1, <1>3, <2>2
      <3>2. PICK j \in DOMAIN log : j < i /\ log[j].type = "message" /\ log[j].n = n
        BY <1>3, <3>1, Zenon DEF Told
      <3> QED
        BY <1>2, <3>2
    <2> QED
      BY <2>1, <2>2
  <1>4. Told(r, own)
    BY <1>3, Zenon DEF Told
  <1> QED
    BY <1>4 DEF r

LEMMA EndingDispatch ==
    ASSUME NEW own \in SUBSET Nat, NEW s \in States(own), NEW ended, NEW done, NEW gone,
           Ending(s, own, ended, done, gone), NEW e \in Events,
           e.type = "closing" => ended /\ \A n \in own : Carries(s.log, n)
    PROVE  Ending(Dispatch(s, e), own, ended, done, gone)
  <1> DEFINE q == Append(s.log, e)
             r == [s EXCEPT !.log = q]
  <1>1. s.log \in Logs
    BY Components
  <1>2. Told(q, own)
    BY <1>1, ToldMore DEF Ending
  <1>3. Has(q, "closing") => Has(s.log, "closing") \/ e.type = "closing"
    BY <1>1, LogAppended
  <1> HIDE DEF q
  <1>4. /\ r.log = q
        /\ r.queuedNativeEvents = s.queuedNativeEvents
        /\ r.pendingNativeEvents = s.pendingNativeEvents
        /\ r.nativeEventDrainActive = s.nativeEventDrainActive
        /\ r.announcementPending = s.announcementPending
        /\ r.nativeCloseEventQueued = s.nativeCloseEventQueued
        /\ r.graceOver = s.graceOver
        /\ r.readyState = s.readyState
        /\ r.known = s.known
        /\ r.closed = s.closed
        /\ r.threw = s.threw
    BY DEF States
  <1>5. Dispatch(s, e) = r
    BY DEF Dispatch, q
  <1> HIDE DEF r
  <1>6. Apart(r)
    BY <1>4, Zenon DEF Ending, Apart
  <1>7. Ending(r, own, ended, done, gone)
    BY <1>2, <1>3, <1>4, <1>6, Zenon DEF Ending
  <1> QED
    BY <1>5, <1>7

LEMMA EndingReleased ==
    ASSUME NEW own \in SUBSET Nat, NEW s \in States(own), NEW ended, NEW done, NEW gone,
           Ending(s, own, ended, done, gone), s.readyState # "closed" => ~s.graceOver
    PROVE  /\ Ending(AfterAnnouncement(s), own, ended, done, gone)
           /\ Promised(AfterAnnouncement(s))
  <1> DEFINE announced == [s EXCEPT !.announcementPending = FALSE]
             unpending == [announced EXCEPT !.openEventPending = FALSE]
             opened == IF ~announced.openEventPending THEN announced
                       ELSE Later(unpending, "announceOpen")
             held == GateAfterAnnouncement(opened)
             gated == GateUntilConsumer(held)
             draining == [gated EXCEPT !.nativeEventDrainActive = TRUE]
             last == Soon(draining, "drainNativeEvents")
  <1>1. announced \in States(own)
    BY Flags
  <1>2. /\ announced.log = s.log
        /\ announced.queuedNativeEvents = s.queuedNativeEvents
        /\ announced.pendingNativeEvents = s.pendingNativeEvents
        /\ announced.nativeEventDrainActive = s.nativeEventDrainActive
        /\ announced.announcementPending = FALSE
        /\ announced.nativeCloseEventQueued = s.nativeCloseEventQueued
        /\ announced.graceOver = s.graceOver
        /\ announced.readyState = s.readyState
        /\ announced.known = s.known
        /\ announced.closed = s.closed
        /\ announced.threw = s.threw
    BY DEF States
  <1> HIDE DEF announced
  <1>3. unpending \in States(own) /\ Same(announced, unpending)
    BY <1>1, Flags, SameFields
  <1> HIDE DEF unpending
  <1>4. opened \in States(own) /\ Same(announced, opened)
    <2>1. /\ Later(unpending, "announceOpen") \in States(own)
          /\ Same(unpending, Later(unpending, "announceOpen"))
      BY <1>3, StepsTyped, SameMethods, Names
    <2>2. Same(announced, Later(unpending, "announceOpen"))
      BY <1>3, <2>1, SameSteady, Zenon
    <2>3. Same(announced, announced)
      BY SameSteady
    <2> QED
      BY <1>1, <2>1, <2>2, <2>3
  <1> HIDE DEF opened
  <1>5. held \in States(own) /\ Same(announced, held)
    <2>1. held \in States(own) /\ Same(opened, held)
      BY <1>4, GatesTyped, SameMethods
    <2> HIDE DEF held
    <2> QED
      BY <1>4, <2>1, SameSteady, Zenon
  <1> HIDE DEF held
  <1>6. gated \in States(own) /\ Same(announced, gated)
    <2>1. gated \in States(own) /\ Same(held, gated)
      BY <1>5, GatesTyped, SameMethods
    <2> HIDE DEF gated
    <2> QED
      BY <1>5, <2>1, SameSteady, Zenon
  <1> HIDE DEF gated
  <1>7. Apart(announced)
    BY <1>2, Zenon DEF Ending, Apart
  <1>8. Ending(announced, own, ended, done, gone)
    BY <1>2, <1>7, Zenon DEF Ending
  <1>9. Ending(gated, own, ended, done, gone)
    BY <1>6, <1>8, SameSteady, SteadyEnding
  <1>10. ~gated.announcementPending /\ (gated.readyState # "closed" => ~gated.graceOver)
    <2>1. /\ gated.announcementPending = announced.announcementPending
          /\ gated.readyState = announced.readyState
          /\ gated.graceOver = announced.graceOver
      BY <1>6, Zenon DEF Same
    <2> QED
      BY <1>2, <2>1
  <1>11. draining \in States(own)
    BY <1>6, Flags
  <1>12. /\ draining.log = gated.log
         /\ draining.queuedNativeEvents = gated.queuedNativeEvents
         /\ draining.pendingNativeEvents = gated.pendingNativeEvents
         /\ draining.announcementPending = gated.announcementPending
         /\ draining.nativeCloseEventQueued = gated.nativeCloseEventQueued
         /\ draining.graceOver = gated.graceOver
         /\ draining.readyState = gated.readyState
         /\ draining.known = gated.known
         /\ draining.closed = gated.closed
         /\ draining.threw = gated.threw
    BY <1>6 DEF States
  <1> HIDE DEF draining
  <1>13. Apart(draining)
    BY <1>9, <1>12, Zenon DEF Ending, Apart
  <1>14. Ending(draining, own, ended, done, gone)
    BY <1>9, <1>10, <1>12, <1>13, Zenon DEF Ending
  <1>15. Same(draining, last)
    BY <1>11, SameMethods
  <1>16. Ending(last, own, ended, done, gone)
    BY <1>14, <1>15, SameSteady, SteadyEnding
  <1>17. ~last.announcementPending
    BY <1>10, <1>12, <1>15, Zenon DEF Same
  <1>18. AfterAnnouncement(s) = IF gated.queuedNativeEvents = <<>> THEN gated ELSE last
    BY Zenon DEF AfterAnnouncement, announced, unpending, opened, held, gated, draining
  <1> HIDE DEF last
  <1> QED
    BY <1>9, <1>10, <1>16, <1>17, <1>18, Zenon DEF Promised

LEMMA EndingTold ==
    ASSUME NEW own \in SUBSET Nat, NEW s \in States(own), NEW ended, NEW done, NEW gone,
           Ending(s, own, ended, done, gone),
           s.readyState # "connecting", s.known => s.announcementPending,
           NEW r \in FlushDataChannel(s)
    PROVE  /\ Ending(r, own, ended, done, gone)
           /\ Promised(s) => Promised(r)
  <1> DEFINE t == [s EXCEPT !.dataChannelFlushScheduled = FALSE]
             u == [t EXCEPT !.pendingDataChannelEvent = FALSE]
             v == GateUntilConsumer(u)
             e == Event("datachannel", 0)
             sent == Dispatch(v, e)
             Apt(p) == /\ Ending(p, own, ended, done, gone)
                       /\ p.readyState # "closed" => ~p.graceOver
  <1>1. t \in States(own) /\ Same(s, t)
    BY Flags, SameFields
  <1> HIDE DEF t
  <1>2. u \in States(own) /\ Same(t, u)
    BY <1>1, Flags, SameFields
  <1> HIDE DEF u
  <1>3. v \in States(own) /\ Same(s, v)
    <2>1. v \in States(own) /\ Same(u, v)
      BY <1>2, GatesTyped, SameMethods
    <2> HIDE DEF v
    <2> QED
      BY <1>1, <1>2, <2>1, SameSteady, Zenon
  <1>4. e \in Events /\ e.type = "datachannel"
    BY EventsAre DEF Event
  <1> HIDE DEF v, e
  <1>5. Ending(v, own, ended, done, gone)
    BY <1>3, SameSteady, SteadyEnding
  <1>6. v.readyState # "connecting" /\ (v.readyState # "closed" => ~v.graceOver)
    <2>1. s.readyState # "closed" => ~s.graceOver
      BY Zenon DEF Ending, Apart
    <2>2. v.readyState = s.readyState /\ v.graceOver = s.graceOver
      BY <1>3, Zenon DEF Same
    <2> QED
      BY <2>1, <2>2
  <1>7. sent \in States(own) /\ Ending(sent, own, ended, done, gone)
    BY <1>3, <1>4, <1>5, StepsTyped, EndingDispatch
  <1>8. sent.readyState = v.readyState /\ sent.graceOver = v.graceOver
    BY <1>3 DEF Dispatch, States
  <1> HIDE DEF sent
  <1>9. ASSUME NEW p, Steady(sent, p) PROVE Apt(p)
    <2>1. Ending(p, own, ended, done, gone)
      BY <1>7, <1>9, SteadyEnding
    <2>2. p.readyState # "closed" => ~p.graceOver
      BY <1>6, <1>8, <1>9, Zenon DEF Steady
    <2> QED
      BY <2>1, <2>2
  <1> DEFINE Good(p) == Ending(p, own, ended, done, gone) /\ Promised(p)
  <1>10. ASSUME NEW c \in Consumers
         PROVE  Good(AfterAnnouncement(AddMessageConsumer(sent, c)))
    <2>1. AddMessageConsumer(sent, c) \in States(own) /\ Apt(AddMessageConsumer(sent, c))
      BY <1>7, <1>9, GatesTyped, SameMethods, SameSteady
    <2> QED
      BY <2>1, EndingReleased
  <1>11. Good(AfterAnnouncement(LocalClose(sent)))
    <2>1. LocalClose(sent) \in States(own) /\ Apt(LocalClose(sent))
      BY <1>6, <1>7, <1>8, <1>9, CloseTyped, SteadyCloses
    <2> QED
      BY <2>1, EndingReleased
  <1>12. Good(AfterAnnouncement(ClosePeer(sent)))
    <2>1. ClosePeer(sent) \in States(own) /\ Apt(ClosePeer(sent))
      BY <1>7, <1>9, CloseTyped, SteadyCloses
    <2> QED
      BY <2>1, EndingReleased
  <1>13. /\ Ending(t, own, ended, done, gone)
         /\ Promised(s) => Promised(t)
    BY <1>1, SameSteady, SteadyEnding
  <1>14. \/ r = t
         \/ \E c \in Consumers : r = AfterAnnouncement(AddMessageConsumer(sent, c))
         \/ r = AfterAnnouncement(LocalClose(sent))
         \/ r = AfterAnnouncement(ClosePeer(sent))
    BY Zenon DEF FlushDataChannel, Consumers, t, u, v, e, sent
  <1> QED
    BY <1>10, <1>11, <1>12, <1>13, <1>14, Zenon

\* Closing is dispatched when the channel holds no message any more, and then every one of
\* them was dispatched.
LEMMA EndingPolled ==
    ASSUME NEW own \in SUBSET Nat, NEW s \in States(own), NEW ended, NEW done, NEW gone,
           Ending(s, own, ended, done, gone), NEW last, NEW seen, Sorted(s, last, seen),
           done => ended /\ own \subseteq seen
    PROVE  /\ Ending(PollClose(s), own, ended, done, gone)
           /\ Promised(s) => Promised(PollClose(s))
  <1> DEFINE t == [s EXCEPT !.nativeCloseEventQueued = FALSE]
             u == [t EXCEPT !.readyState = "closing"]
             e == Event("closing", 0)
             v == Dispatch(u, e)
             Good(p) == Ending(p, own, ended, done, gone) /\ (Promised(s) => Promised(p))
  <1>1. t \in States(own)
    BY Flags
  <1>2. /\ t.log = s.log
        /\ t.queuedNativeEvents = s.queuedNativeEvents
        /\ t.pendingNativeEvents = s.pendingNativeEvents
        /\ t.nativeEventDrainActive = s.nativeEventDrainActive
        /\ t.announcementPending = s.announcementPending
        /\ t.nativeCloseEventQueued = FALSE
        /\ t.graceOver = s.graceOver
        /\ t.readyState = s.readyState
        /\ t.known = s.known
        /\ t.closed = s.closed
        /\ t.threw = s.threw
    BY DEF States
  <1>3. PollClose(s) =
          IF s.readyState = "closed" THEN s
          ELSE IF \/ ~s.graceOver \/ s.messageEventGateActive
                  \/ s.messageEventFlushScheduled \/ s.queuedMessageEvents # <<>>
          THEN Later(s, "pollClose")
          ELSE IF t.readyState # "open" THEN HandleClose(t) ELSE Later(v, "finishClose")
    BY Zenon DEF PollClose, t, u, v, e
  <1> HIDE DEF t
  <1>4. Steady(s, t)
    <2>1. Apart(s) => Apart(t)
      BY <1>2, Zenon DEF Apart
    <2> QED
      BY <1>2, <2>1, LongerTwice, Zenon DEF Steady
  <1>5. Good(s) /\ Good(Later(s, "pollClose"))
    <2>1. Same(s, Later(s, "pollClose"))
      BY SameMethods
    <2> QED
      BY <2>1, SameSteady, SteadyEnding
  <1>6. Good(HandleClose(t))
    BY <1>1, <1>4, SteadyCloses, SteadyTwice, SteadyEnding
  <1>7. ASSUME s.graceOver, s.queuedMessageEvents = <<>>, s.readyState = "open"
        PROVE  Good(Later(v, "finishClose"))
    <2>1. "open" # "closed" /\ "open" # "connecting" /\ "closing" # "closed"
          /\ "closing" # "connecting"
      OBVIOUS
    <2>2. s.readyState # "closed" /\ s.known /\ ~s.closed /\ ~s.threw /\ ended
          /\ own \subseteq seen /\ ~s.nativeEventDrainActive /\ ~s.announcementPending
      BY <1>7, <2>1, Zenon DEF Ending, Apart
    <2>3. s.queuedNativeEvents = <<>> /\ s.pendingNativeEvents = <<>>
      BY <2>2, Zenon DEF Sorted
    <2>4. ASSUME NEW n \in own PROVE Carries(s.log, n)
      <3>1. Somewhere(s.log, s.queuedMessageEvents, s.queuedNativeEvents,
                      s.pendingNativeEvents, n)
        BY <2>2, Zenon DEF Sorted, Lively
      <3>2. ~In(n, <<>>) /\ ~Carries(<<>>, n)
        BY DEF In, Carries
      <3> QED
        BY <1>7, <2>3, <3>1, <3>2, Zenon DEF Somewhere
    <2>5. u \in States(own)
      BY <1>1, Values, Names
    <2>6. /\ u.log = t.log
          /\ u.queuedNativeEvents = t.queuedNativeEvents
          /\ u.pendingNativeEvents = t.pendingNativeEvents
          /\ u.nativeEventDrainActive = t.nativeEventDrainActive
          /\ u.announcementPending = t.announcementPending
          /\ u.nativeCloseEventQueued = FALSE
          /\ u.graceOver = t.graceOver
          /\ u.readyState = "closing"
          /\ u.known = t.known
          /\ u.closed = t.closed
          /\ u.threw = t.threw
      BY <1>1, <1>2 DEF States
    <2> HIDE DEF u
    <2>7. Apart(u)
      BY <1>2, <2>1, <2>2, <2>6, Zenon DEF Apart
    <2>8. Ending(t, own, ended, done, gone) /\ (Promised(s) => Promised(t))
      BY <1>4, SteadyEnding
    <2>9. Ending(u, own, ended, done, gone)
      BY <1>2, <2>1, <2>2, <2>6, <2>7, <2>8, Zenon DEF Ending
    <2>10. e \in Events /\ e.type = "closing"
      BY EventsAre DEF Event
    <2> HIDE DEF e
    <2>11. v \in States(own) /\ Ending(v, own, ended, done, gone)
      <3>1. \A n \in own : Carries(u.log, n)
        BY <1>2, <2>4, <2>6
      <3> QED
        BY <2>2, <2>5, <2>9, <2>10, <3>1, StepsTyped, EndingDispatch
    <2>12. Promised(v)
      <3>1. v.announcementPending = u.announcementPending
        BY <2>5 DEF Dispatch, States
      <3> QED
        BY <1>2, <2>2, <2>6, <3>1 DEF Promised
    <2> HIDE DEF v
    <2>13. Same(v, Later(v, "finishClose"))
      BY <2>11, SameMethods
    <2> QED
      BY <2>11, <2>12, <2>13, SameSteady, SteadyEnding
  <1> HIDE DEF v, u, e
  <1> QED
    BY <1>2, <1>3, <1>5, <1>6, <1>7, Zenon

LEMMA EndingTimers ==
    ASSUME NEW own \in SUBSET Nat, NEW s \in States(own), NEW ended, NEW done, NEW gone,
           Ending(s, own, ended, done, gone), NEW last, NEW seen, Sorted(s, last, seen),
           done => ended /\ own \subseteq seen,
           NEW task \in TimerTasks,
           task = "flushDataChannel" =>
              s.readyState # "connecting" /\ (s.known => s.announcementPending),
           NEW r \in TimerResults(s, task)
    PROVE  /\ Ending(r, own, ended, done, gone)
           /\ Promised(s) => Promised(r)
  <1>1. CASE task = "flushDataChannel"
    <2>1. r \in FlushDataChannel(s)
      BY <1>1 DEF TimerResults
    <2> QED
      BY <1>1, <2>1, EndingTold
  <1>2. CASE task = "announceOpen"
    <2>1. r = s \/ r = DispatchOpen(s)
      BY <1>2 DEF TimerResults
    <2>2. Steady(s, s) /\ Steady(s, DispatchOpen(s))
      BY SteadyOpen, SteadyTwice
    <2>3. Steady(s, r)
      BY <2>1, <2>2
    <2> QED
      BY <2>3, SteadyEnding
  <1>3. CASE task = "gate1"
    <2>1. r = Later(s, "gate2")
      BY <1>3 DEF TimerResults
    <2>2. Same(s, r)
      BY <2>1, SameMethods
    <2> QED
      BY <2>2, SameSteady, SteadyEnding
  <1>4. CASE task = "gate2"
    <2> DEFINE u == [s EXCEPT !.messageEventGateActive = FALSE]
    <2>1. r = ScheduleMessageFlush(u)
      BY <1>4 DEF TimerResults
    <2>2. u \in States(own) /\ Same(s, u)
      BY Flags, SameFields
    <2> HIDE DEF u
    <2>3. Same(u, r)
      BY <2>1, <2>2, SameMethods
    <2>4. Same(s, r)
      BY <2>2, <2>3, SameSteady, Zenon
    <2> QED
      BY <2>4, SameSteady, SteadyEnding
  <1>5. CASE task = "pollClose"
    <2>1. r = PollClose(s)
      BY <1>5 DEF TimerResults
    <2> QED
      BY <2>1, EndingPolled
  <1>6. CASE task \in {"finishClose", "closeLocal"}
    <2>1. r = CloseIfClosing(s)
      BY <1>6 DEF TimerResults
    <2>2. Steady(s, r)
      BY <2>1, SteadyCloses
    <2> QED
      BY <2>2, SteadyEnding
  <1> QED
    BY <1>1, <1>2, <1>3, <1>4, <1>5, <1>6 DEF TimerTasks

LEMMA EndingImmediates ==
    ASSUME NEW own \in SUBSET Nat, NEW s \in States(own), NEW ended, NEW done, NEW gone,
           Ending(s, own, ended, done, gone), NoOpen(s.queuedNativeEvents),
           s.readyState = "connecting" => s.queuedNativeEvents = <<>>,
           NEW task \in ImmediateTasks,
           task = "drainNativeEvents" => ~s.announcementPending,
           task = "flushIceEvents" /\ ~s.closed => s.deferredIceEvents > 0,
           NEW r \in ImmediateResults(s, task)
    PROVE  /\ Ending(r, own, ended, done, gone)
           /\ Promised(s) => Promised(r)
  <1>1. CASE task = "flushMessages"
    <2> DEFINE u == [s EXCEPT !.messageEventFlushScheduled = FALSE]
    <2>1. r \in FlushMessages(u)
      BY <1>1 DEF ImmediateResults
    <2>2. u \in States(own) /\ Same(s, u)
      BY Flags, SameFields
    <2> HIDE DEF u
    <2>3. Steady(s, u) /\ Steady(u, r)
      BY <2>1, <2>2, SameSteady, SteadyFlush
    <2>4. Steady(s, r)
      BY <2>3, SteadyTwice
    <2> QED
      BY <2>4, SteadyEnding
  <1>2. CASE task = "rescheduleFlush"
    <2>1. r = ScheduleMessageFlush(s)
      BY <1>2 DEF ImmediateResults
    <2>2. Same(s, r)
      BY <2>1, SameMethods
    <2> QED
      BY <2>2, SameSteady, SteadyEnding
  <1>3. CASE task = "drainNativeEvents"
    <2>1. r = DrainQueuedEvent(s)
      BY <1>3 DEF ImmediateResults
    <2> QED
      BY <1>3, <2>1, EndingDrain
  <1>4. CASE task = "closeNative"
    <2>1. r = Later(s, "closeLocal")
      BY <1>4 DEF ImmediateResults
    <2>2. Same(s, r)
      BY <2>1, SameMethods
    <2> QED
      BY <2>2, SameSteady, SteadyEnding
  <1>5. CASE task = "flushIceEvents"
    <2>1. r = FlushIceEvents(s)
      BY <1>5 DEF ImmediateResults
    <2>2. Same(s, r)
      BY <1>5, <2>1, SteadyIce
    <2> QED
      BY <2>2, SameSteady, SteadyEnding
  <1>6. CASE task = "retryOpen"
    <2> DEFINE u == [s EXCEPT !.openDeferredForIce = FALSE]
    <2>1. r = DispatchOpen(u)
      BY <1>6 DEF ImmediateResults
    <2>2. u \in States(own) /\ Same(s, u)
      BY Flags, SameFields
    <2> HIDE DEF u
    <2>3. Steady(s, u) /\ Steady(u, r)
      BY <2>1, <2>2, SameSteady, SteadyOpen
    <2>4. Steady(s, r)
      BY <2>3, SteadyTwice
    <2> QED
      BY <2>4, SteadyEnding
  <1> QED
    BY <1>1, <1>2, <1>3, <1>4, <1>5, <1>6 DEF ImmediateTasks

-----------------------------------------------------------------------------
\* The steps.
Ended == directs = MaxDirect

Done == Ended /\ ours \subseteq 1 .. Len(delivered)

Over ==
    /\ ~thrown
    /\ Ending(js, ours, Ended, Done, ~active)
    /\ Promised(js)

LEMMA OverInit == Init => Over /\ DP!Backed
  <1> SUFFICES ASSUME Init PROVE Over /\ DP!Backed
    OBVIOUS
  <1>1. /\ js = InitJs /\ active = TRUE /\ thrown = FALSE /\ pendingEvents = <<>>
        /\ dispatchScheduled = FALSE
    BY DEF Init, D!Init
  <1>2. DP!Backed
    BY <1>1, Zenon DEF DP!Backed
  <1>3. /\ ~js.known /\ js.readyState = "connecting" /\ ~js.threw /\ ~js.closed
        /\ ~js.nativeCloseEventQueued /\ ~js.graceOver /\ ~js.announcementPending
        /\ js.log = <<>> /\ js.queuedNativeEvents = <<>> /\ js.pendingNativeEvents = <<>>
    BY <1>1 DEF InitJs
  <1>4. \A x : ~Has(<<>>, x) /\ Told(<<>>, ours)
    BY DEF Has, Told
  <1>5. Ending(js, ours, Ended, Done, ~active)
    BY <1>1, <1>3, <1>4, Zenon DEF Ending, Apart
  <1> QED
    BY <1>1, <1>2, <1>3, <1>5, Zenon DEF Over, Promised

\* When the grace period ends, all that the remote peer sent has come.
LEMMA AllCame ==
    ASSUME DP!Ordered, DP!Backed, Typed, ~tsfnClosing, ~thrown, active,
           phase = "idle", ~D!HasDrain(tsfnQueue)
    PROVE  ours \subseteq 1 .. Len(delivered)
  <1>1. ~DP!HasDrain(tsfnQueue)
    BY Zenon DEF DP!HasDrain, D!HasDrain, DP!IsDrain, D!IsDrain
  <1>2. ~DP!Outstanding
    BY <1>1 DEF DP!Outstanding
  <1>3. pendingEvents = <<>>
    BY <1>2, Zenon DEF DP!Backed
  <1>4. DP!Pending /\ batch = <<>>
    <2>1. "idle" # "calling"
      OBVIOUS
    <2> QED
      BY <2>1, Zenon DEF DP!Ordered, DP!OrderInv, DP!Live, DP!Idle
  <1>5. Len(delivered) \in Nat
    BY OrderedTypes
  <1>6. Len(delivered) = accepted
    <2>1. Len(delivered) + Len(batch) + Len(pendingEvents) = accepted
      BY <1>4, Zenon DEF DP!Pending
    <2>2. Len(<<>>) = 0
      OBVIOUS
    <2> QED
      BY <1>3, <1>4, <1>5, <2>1, <2>2
  <1> QED
    BY <1>6 DEF Typed

LEMMA OverTasks ==
    ASSUME GraceSuffices,
           DP!Ordered, DP!Backed, Typed, Sequenced, Arranged, Over, Tasks
    PROVE  Ending(js', ours, Ended, Done, ~active) /\ Promised(js')
  <1> DEFINE last == Len(delivered)
             Good(p) == Ending(p, ours, Ended, Done, ~active) /\ Promised(p)
  <1>1. ours \in SUBSET Nat /\ js \in Sound(ours) /\ js \in States(ours)
    BY OursTyped
  <1>2. /\ ~tsfnClosing /\ Sorted(js, last, Seen) /\ ~thrown
        /\ Ending(js, ours, Ended, Done, ~active) /\ Promised(js)
    BY Zenon DEF Arranged, Over
  <1>3. Done => Ended /\ ours \subseteq Seen
    BY <1>2 DEF Done, Seen
  <1> HIDE DEF last
  <1>4. ASSUME NEW p, Steady(js, p) PROVE Good(p)
    BY <1>2, <1>4, SteadyEnding
  <1>5. ASSUME NEW p, Same(js, p) PROVE Good(p)
    BY <1>4, <1>5, SameSteady
  <1>6. CASE RunTimer
    <2> DEFINE q == js.timers
               t == [js EXCEPT !.timers = Tail(q)]
               task == Head(q)
    <2>1. q \in TimerQueues /\ q # <<>>
      BY <1>1, <1>6, Components DEF RunTimer
    <2>2. Tail(q) \in TimerQueues /\ task \in TimerTasks
      BY <2>1, Queues
    <2>3. js' \in TimerResults(t, task)
      BY <1>6 DEF RunTimer
    <2>4. task = "flushDataChannel" =>
             js.readyState # "connecting" /\ (js.known => js.announcementPending)
      <3>1. ASSUME Unannounced(js)
            PROVE  js.readyState # "connecting" /\ (js.known => js.announcementPending)
        <4>1. js.readyState # "connecting"
          BY <1>1, <2>1, <3>1, ToldOf
        <4> QED
          BY <3>1, <4>1, Zenon DEF Unannounced
      <3>2. ASSUME ~In("flushDataChannel", q) PROVE task # "flushDataChannel"
        <4>1. 1 \in DOMAIN q /\ task = q[1]
          BY <2>1 DEF TimerQueues
        <4> QED
          BY <3>2, <4>1, Zenon DEF In
      <3>3. Unannounced(js) \/ ~In("flushDataChannel", q)
        BY Zenon DEF Sequenced, InOrder
      <3> QED
        BY <3>1, <3>2, <3>3
    <2> HIDE DEF q, task
    <2>5. t \in States(ours) /\ Still(js, t) /\ Same(js, t)
      BY <1>1, <2>2, Values, StillFields, SameFields
    <2> HIDE DEF t
    <2>6. Sorted(t, last, Seen) /\ Good(t)
      BY <1>2, <1>5, <2>5, StillSorted
    <2>7. task = "flushDataChannel" =>
             t.readyState # "connecting" /\ (t.known => t.announcementPending)
      BY <2>4, <2>5, Zenon DEF Same
    <2> QED
      BY <1>1, <1>3, <2>2, <2>3, <2>5, <2>6, <2>7, EndingTimers
  <1>7. CASE RunImmediate
    <2> DEFINE q == js.immediates
               t == [js EXCEPT !.immediates = Tail(@)]
               task == Head(q)
    <2>1. q # <<>> /\ js' \in ImmediateResults(t, task)
      BY <1>7 DEF RunImmediate
    <2>2. /\ t \in Sound(ours) /\ task \in ImmediateTasks
          /\ task = "flushIceEvents" /\ ~t.closed => t.deferredIceEvents > 0
      BY <1>1, <2>1, FirstImmediate
    <2>3. task = "drainNativeEvents" => ~js.announcementPending
      <3>1. ASSUME Unannounced(js) PROVE task # "drainNativeEvents"
        <4>1. q \in ImmediateQueues
          BY <1>1, Components
        <4>2. 1 \in DOMAIN q /\ task = q[1]
          BY <2>1, <4>1 DEF ImmediateQueues
        <4>3. ~In("drainNativeEvents", q)
          BY <3>1 DEF Unannounced, Loud
        <4> QED
          BY <4>2, <4>3, Zenon DEF In
      <3>2. Unannounced(js) \/ ~js.announcementPending
        BY <1>2, Zenon DEF Sequenced, InOrder, Promised
      <3> QED
        BY <3>1, <3>2
    <2>4. Same(js, t)
      BY <1>1, SameFields
    <2> HIDE DEF t, task, q
    <2>5. t \in States(ours) /\ Good(t) /\ NoOpen(t.queuedNativeEvents)
          /\ (t.readyState = "connecting" => t.queuedNativeEvents = <<>>)
          /\ (task = "drainNativeEvents" => ~t.announcementPending)
      <3>1. t \in States(ours) /\ Good(t)
        BY <1>5, <2>2, <2>4 DEF Sound
      <3>2. /\ t.queuedNativeEvents = js.queuedNativeEvents
            /\ t.readyState = js.readyState
            /\ t.announcementPending = js.announcementPending
        BY <2>4, Zenon DEF Same
      <3>3. js.readyState = "connecting" => js.queuedNativeEvents = <<>>
        BY <1>2, Zenon DEF Sorted
      <3> QED
        BY <2>3, <3>1, <3>2, <3>3, NoOpenQueued
    <2>6. Ending(js', ours, Ended, Done, ~active) /\ (Promised(t) => Promised(js'))
      BY <1>1, <2>1, <2>2, <2>5, EndingImmediates
    <2> QED
      BY <2>5, <2>6
  <1>8. CASE ConsumerGateTimeout
    BY <1>1, <1>5, <1>8, SameMethods DEF ConsumerGateTimeout
  <1>9. CASE GraceEnds
    <2> DEFINE r == [js EXCEPT !.graceOver = TRUE]
    <2>1. /\ js' = r /\ phase = "idle" /\ js.nativeCloseEventQueued
          /\ ~D!HasDrain(tsfnQueue) /\ ~js.nativeEventDrainActive
      BY <1>9, Zenon DEF GraceEnds, Task
    <2>2. /\ r.log = js.log
          /\ r.queuedNativeEvents = js.queuedNativeEvents
          /\ r.pendingNativeEvents = js.pendingNativeEvents
          /\ r.nativeEventDrainActive = js.nativeEventDrainActive
          /\ r.announcementPending = js.announcementPending
          /\ r.nativeCloseEventQueued = js.nativeCloseEventQueued
          /\ r.readyState = js.readyState
          /\ r.known = js.known
          /\ r.closed = js.closed
          /\ r.threw = js.threw
      BY <1>1 DEF States
    <2> HIDE DEF r
    <2>3. Ended /\ js.readyState # "connecting"
      BY <1>2, <2>1, Zenon DEF Ending
    <2>4. js.readyState # "closed" => Done
      <3>1. js.readyState # "closed" => active
        BY <1>2, <2>3, Zenon DEF Ending, Apart
      <3>2. active => ours \subseteq 1 .. Len(delivered)
        BY <1>2, <2>1, AllCame
      <3> QED
        BY <2>3, <3>1, <3>2 DEF Done
    <2>5. Apart(r)
      BY <1>2, <2>2, Zenon DEF Ending, Apart
    <2>6. Ending(r, ours, Ended, Done, ~active)
      BY <1>2, <2>1, <2>2, <2>3, <2>4, <2>5, Zenon DEF Ending
    <2>7. Promised(r)
      BY <1>2, <2>2, Zenon DEF Promised
    <2> QED
      BY <2>1, <2>6, <2>7
  <1>10. CASE FinishOperation
    <2> DEFINE p == [js EXCEPT !.operationsPending = 0]
               t == ScheduleIceFlush(p)
               u == [t EXCEPT !.idleCallbacks = 0]
               x == [i \in 1 .. js.idleCallbacks |-> "rescheduleFlush"]
               q == t.immediates \o x
               v == [u EXCEPT !.immediates = q]
    <2>1. js' = [t EXCEPT !.idleCallbacks = 0, !.immediates = @ \o x]
      BY <1>10, Zenon DEF FinishOperation
    <2>2. p \in States(ours) /\ Same(js, p)
      BY <1>1, Values, Names, SameFields
    <2> HIDE DEF p
    <2>3. t \in States(ours) /\ Same(p, t)
      BY <1>1, <2>2, OpenTyped, SameMethods
    <2> HIDE DEF t, x, q
    <2>4. u \in States(ours) /\ Same(t, u)
      BY <1>1, <2>3, Values, SameFields
    <2>5. js' = v
      BY <2>1, <2>3 DEF q, States
    <2> HIDE DEF u
    <2>6. Same(u, v)
      BY <2>4, SameFields
    <2> HIDE DEF v
    <2>7. Same(js, v)
      BY <2>2, <2>3, <2>4, <2>6, SameSteady, Zenon
    <2> QED
      BY <1>5, <2>5, <2>7
  <1>11. CASE StartOperation
    <2> DEFINE p == [js EXCEPT !.operationsPending = 1]
               r == [p EXCEPT !.operations = p.operations + 1]
    <2>1. p \in States(ours) /\ Same(js, p)
      BY <1>1, Values, Names, SameFields
    <2>2. js' = r
      BY <1>1, <1>11 DEF StartOperation, States
    <2> HIDE DEF p
    <2>3. Same(p, r)
      BY <2>1, SameFields
    <2> HIDE DEF r
    <2>4. Same(js, r)
      BY <2>1, <2>3, SameSteady, Zenon
    <2> QED
      BY <1>5, <2>2, <2>4
  <1>12. CASE IceEvent
    <2>1. js' = [js EXCEPT !.deferredIceEvents = js.deferredIceEvents + 1]
      BY <1>12, Zenon DEF IceEvent
    <2>2. Same(js, js')
      BY <1>1, <2>1, SameFields
    <2> QED
      BY <1>5, <2>2
  <1>13. CASE ListenDataChannel
    <2> DEFINE p == [js EXCEPT !.dataChannelConsumer = TRUE]
    <2>1. p \in States(ours) /\ Same(js, p)
      BY <1>1, Flags, SameFields
    <2>2. js' = ScheduleDataChannelFlush(p)
      BY <1>13 DEF ListenDataChannel
    <2> HIDE DEF p
    <2>3. Same(p, js')
      BY <1>1, <2>1, <2>2, SameMethods
    <2>4. Same(js, js')
      BY <2>1, <2>3, SameSteady, Zenon
    <2> QED
      BY <1>5, <2>4
  <1>14. CASE ListenMessage
    <2>1. PICK c \in {"onmessage", "listener"} : js' = AddMessageConsumer(js, c)
      BY <1>14 DEF ListenMessage
    <2>2. c \in Consumers
      BY DEF Consumers
    <2>3. Same(js, js')
      BY <1>1, <2>1, <2>2, SameMethods
    <2> QED
      BY <1>5, <2>3
  <1>15. CASE CloseChannel
    <2>1. js.readyState # "connecting" /\ js' = LocalClose(js)
      BY <1>15 DEF CloseChannel
    <2>2. Steady(js, js')
      BY <1>1, <2>1, SteadyCloses
    <2> QED
      BY <1>4, <2>2
  <1>16. CASE CloseConnection
    BY <1>1, <1>4, <1>16, SteadyCloses DEF CloseConnection
  <1>17. CASE ConnectionFails
    BY <1>1, <1>4, <1>17, SteadyCloses DEF ConnectionFails
  <1> QED
    BY <1>6, <1>7, <1>8, <1>9, <1>10, <1>11, <1>12, <1>13, <1>14, <1>15, <1>16, <1>17
       DEF Tasks, Application

LEMMA OverDirect ==
    ASSUME DP!Ordered, Typed, Sequenced, Arranged, Over, DirectEvent
    PROVE  Ending(js', ours, Ended, Done, ~active) /\ Promised(js')
  <1> DEFINE n == Head(tsfnQueue).n
             type == DirectEvents[n]
             e == Event(type, 0)
  <1>1. ours \in SUBSET Nat /\ js \in Sound(ours) /\ js \in States(ours)
    BY OursTyped
  <1>2. /\ DP!Coming(n)
        /\ \/ n = 1 /\ type = "datachannel"
           \/ n = 2 /\ type = "open"
           \/ n = 3 /\ type = "close"
    BY Direct
  <1>3. n = 3 => Ended
    <2>1. DP!DispatchDirect /\ DP!TypeOK /\ DP!Numbered(tsfnQueue, directs)
      BY SameActions DEF DirectEvent, DP!Ordered
    <2>2. n \in 1 .. directs /\ directs \in 0 .. MaxDirect
      BY <2>1, DispatcherAssumed, DP!Arriving
    <2>3. MaxDirect = 3
      BY DEF MaxDirect, DirectEvents
    <2> QED
      BY <2>2, <2>3 DEF Ended
  <1>4. js' = PeerEvent(js, e)
    BY DEF DirectEvent
  <1> HIDE DEF n, type
  <1>5. e.type = type
    BY DEF Event
  <1>6. n # 1 => e \in Incoming(ours) /\ (e.type = "close" => Ended)
    BY <1>2, <1>3, <1>5, EventsAre
  <1> HIDE DEF e
  <1>7. /\ Ending(js, ours, Ended, Done, ~active) /\ Promised(js)
        /\ js.readyState = "connecting" => ~js.known
    BY Zenon DEF Over, Arranged, Sorted
  <1>8. CASE n = 1
    <2>1. Fresh(js)
      BY <1>2, <1>8 DEF Sequenced
    <2>2. ~js.closed => Ending(Announce(js), ours, Ended, Done, ~active)
                        /\ Promised(Announce(js))
      BY <1>1, <1>7, <2>1, EndingAnnounced
    <2>3. js' = IF js.closed THEN js ELSE Announce(js)
      <3>1. e.type = "datachannel"
        BY <1>2, <1>5, <1>8
      <3> QED
        BY <1>4, <3>1, Zenon DEF PeerEvent
    <2> QED
      BY <1>7, <2>2, <2>3
  <1>9. CASE n # 1
    <2>1. /\ Ending(PeerEvent(js, e), ours, Ended, Done, ~active)
          /\ Promised(js) => Promised(PeerEvent(js, e))
      BY <1>1, <1>6, <1>7, <1>9, EndingPeerEvent
    <2> QED
      BY <1>4, <1>7, <2>1
  <1> QED
    BY <1>8, <1>9

LEMMA OverCall ==
    ASSUME ~HandlerMayThrow, DP!Ordered, Typed, Over, DrainCall
    PROVE  Ending(js', ours, Ended, Done, ~active) /\ Promised(js')
  <1> DEFINE mine == Mine(batch)
             r == js'
  <1>1. ours \in SUBSET Nat /\ js \in Sound(ours) /\ js \in States(ours)
    BY OursTyped
  <1>2. mine \in MessageQueues(ours)
    BY MineTyped
  <1>3. r \in MessageBatch(js, mine) \/ r = PeerEvents(js, Messages(mine))
    BY Zenon DEF DrainCall
  <1> HIDE DEF mine, r
  <1>4. PeerEvents(js, Messages(mine)) = AfterMessages(js, mine)
    BY <1>1, <1>2, MessagesInTurn
  <1>5. Steady(js, AfterMessages(js, mine))
    BY <1>1, <1>2, SteadyBatch
  <1>6. r \in MessageBatch(js, mine) => Steady(js, r)
    BY <1>1, <1>2, SteadyBatch
  <1>7. Steady(js, r)
    BY <1>3, <1>4, <1>5, <1>6
  <1>8. Ending(r, ours, Ended, Done, ~active) /\ Promised(r)
    BY <1>7, SteadyEnding DEF Over
  <1> QED
    BY <1>8 DEF r

\* What was known stays known.
LEMMA EndingLater ==
    ASSUME NEW s, NEW own, NEW ended, NEW done, NEW gone, Ending(s, own, ended, done, gone),
           NEW ended2, NEW done2, NEW gone2,
           ended => ended2, done => done2, gone2 => gone \/ s.closed
    PROVE  Ending(s, own, ended2, done2, gone2)
  BY Zenon DEF Ending

LEMMA OverStep ==
    ASSUME GraceSuffices, ~HandlerMayThrow,
           DP!Ordered, DP!Backed, Typed, Sequenced, Arranged, Over, [Next]_vars
    PROVE  Over'
  <1>1. ours \in SUBSET Nat /\ js \in Sound(ours) /\ js \in States(ours)
    BY OursTyped
  <1>2. /\ ~thrown /\ Ending(js, ours, Ended, Done, ~active) /\ Promised(js)
        /\ ~js.threw
    BY Zenon DEF Over, Ending
  <1>3. directs \in 0 .. MaxDirect /\ MaxDirect = 3 /\ Len(delivered) \in Nat
    <2>1. DP!TypeOK
      BY DEF DP!Ordered
    <2>2. directs \in 0 .. MaxDirect
      BY <2>1, Zenon DEF DP!TypeOK
    <2> QED
      BY <2>2, OrderedTypes DEF MaxDirect, DirectEvents
  <1>4. ASSUME UNCHANGED <<active, delivered, directs, thrown, ours>>,
               Ending(js', ours, Ended, Done, ~active), Promised(js')
        PROVE  Over'
    BY <1>2, <1>4 DEF Over, Ended, Done
  <1>5. CASE Tasks
    <2>1. UNCHANGED <<active, delivered, directs, thrown, ours>>
      BY <1>5, TasksApart, Zenon DEF dispatcherVars
    <2>2. Ending(js', ours, Ended, Done, ~active) /\ Promised(js')
      BY <1>5, OverTasks
    <2> QED
      BY <1>4, <2>1, <2>2
  <1>6. CASE DirectEvent
    <2>1. UNCHANGED <<active, delivered, directs, thrown, ours>>
      BY <1>6, Zenon DEF DirectEvent, D!DispatchDirect, D!nativeVars
    <2>2. Ending(js', ours, Ended, Done, ~active) /\ Promised(js')
      BY <1>6, OverDirect
    <2> QED
      BY <1>4, <2>1, <2>2
  <1>7. CASE DrainSwap \/ DrainFinish \/ OtherMessage \/ UNCHANGED vars
    <2>1. UNCHANGED <<active, delivered, directs, thrown, ours, js>>
      BY <1>7, Zenon DEF DrainSwap, DrainFinish, OtherMessage, D!DrainSwap, D!DrainFinish,
         D!Emit, D!nativeVars, vars, dispatcherVars
    <2> QED
      BY <1>2, <1>4, <2>1
  <1>8. CASE DrainCall
    <2>1. /\ UNCHANGED <<active, directs, thrown, ours>>
          /\ delivered' = delivered \o batch
      BY <1>8, Zenon DEF DrainCall, D!DrainCall, D!nativeVars
    <2>2. Ending(js', ours, Ended, Done, ~active) /\ Promised(js')
      BY <1>8, OverCall
    <2>3. 1 .. Len(delivered) \subseteq 1 .. Len(delivered)'
      <3>1. Len(delivered') = Len(delivered) + Len(batch)
            /\ Len(delivered) \in Nat /\ Len(batch) \in Nat
        BY <2>1, OrderedTypes
      <3> QED
        BY <3>1
    <2>4. (Ended => Ended') /\ (Done => Done')
      BY <2>1, <2>3 DEF Ended, Done
    <2> DEFINE r == js'
    <2>5. Ending(r, ours, Ended, Done, ~active)
      BY <2>2
    <2> HIDE DEF r
    <2>6. Ending(r, ours, Ended', Done', ~active)
      BY <2>4, <2>5, EndingLater
    <2>7. Ending(js', ours', Ended', Done', ~active')
      BY <2>1, <2>6 DEF r
    <2> QED
      BY <1>2, <2>1, <2>2, <2>7 DEF Over
  <1>9. CASE DrainThrow
    BY <1>2, <1>9 DEF DrainThrow
  <1>10. CASE DispatcherClose
    <2>1. UNCHANGED <<delivered, directs, thrown, ours, js>> /\ js.closed
      BY <1>10, Zenon DEF DispatcherClose, D!Close
    <2>2. (Ended => Ended') /\ (Done => Done')
      BY <2>1 DEF Ended, Done
    <2>3. Ending(js, ours, Ended', Done', ~active')
      BY <1>2, <2>1, <2>2, EndingLater
    <2>4. Ending(js', ours', Ended', Done', ~active')
      BY <2>1, <2>3
    <2> QED
      BY <1>2, <2>1, <2>4 DEF Over
  <1>11. CASE NativeDirect
    <2>1. /\ UNCHANGED <<active, delivered, thrown, ours, js>>
          /\ directs < MaxDirect
      BY <1>11, Zenon DEF NativeDirect, D!EmitDirect, D!nativeVars
    <2>2. ~Ended
      BY <1>3, <2>1 DEF Ended
    <2>3. ~Done
      BY <2>2 DEF Done
    <2>4. Ending(js, ours, Ended', Done', ~active')
      BY <1>2, <2>1, <2>2, <2>3, EndingLater
    <2>5. Ending(js', ours', Ended', Done', ~active')
      BY <2>1, <2>4
    <2> QED
      BY <1>2, <2>1, <2>5 DEF Over
  <1>12. CASE NativeMessage
    <2>1. /\ UNCHANGED <<active, delivered, directs, thrown, js>>
          /\ directs = 2
      BY <1>12, Zenon DEF NativeMessage, D!Emit, D!nativeVars
    <2>2. ~Ended /\ ~Ended' /\ ~Done /\ ~Done'
      BY <1>3, <2>1 DEF Ended, Done
    <2>3. Told(js.log, ours')
      <3>1. ~Has(js.log, "closing")
        BY <1>2, <2>2, Zenon DEF Ending
      <3> QED
        BY <3>1, Zenon DEF Has, Told
    <2>4. Ending(js, ours', Ended, Done, ~active)
      BY <1>2, <2>3, Zenon DEF Ending
    <2>5. Ending(js, ours', Ended', Done', ~active')
      BY <2>1, <2>2, <2>4, EndingLater
    <2>6. Ending(js', ours', Ended', Done', ~active')
      BY <2>1, <2>5
    <2> QED
      BY <1>2, <2>1, <2>6 DEF Over
  <1> QED
    BY <1>5, <1>6, <1>7, <1>8, <1>9, <1>10, <1>11, <1>12 DEF Next, Tasks, TsfnItem

LEMMA OverImplied == Over => RemoteCloseLosesNothing
  <1> SUFFICES ASSUME Over, NEW i \in Positions("closing"), NEW n \in ours
               PROVE  \E j \in Positions("message") : j < i /\ js.log[j].n = n
    BY DEF RemoteCloseLosesNothing
  <1>1. Told(js.log, ours)
    BY Zenon DEF Over, Ending
  <1>2. i \in DOMAIN js.log /\ js.log[i].type = "closing"
    BY DEF Positions
  <1>3. PICK j \in DOMAIN js.log : j < i /\ js.log[j].type = "message" /\ js.log[j].n = n
    BY <1>1, <1>2, Zenon DEF Told
  <1> QED
    BY <1>3 DEF Positions

LEMMA BackedKept ==
    ASSUME DP!Ordered, DP!Ordered', DP!Backed, [Next]_vars
    PROVE  DP!Backed'
  <1>1. DP!TypeOK /\ DP!TypeOK' /\ DP!DrainInv
    BY DEF DP!Ordered
  <1>2. [DP!Next]_(DP!vars)
    BY DispatcherStep
  <1> QED
    BY <1>1, <1>2, DispatcherAssumed, DP!BackedStep

\* Every message the remote peer sent is dispatched before closing, through whichever of the
\* dispatcher and the three queues of the channel it comes, for any number of messages: where
\* no handler throws, and what the close overtook in the dispatcher reaches the channel
\* within the grace period.  The second premise cannot be given up: in a small instance
\* without it, TLC finds a message that is lost.
THEOREM RemoteCloseComesLast ==
    ASSUME GraceSuffices, ~HandlerMayThrow
    PROVE  Spec => []RemoteCloseLosesNothing
  <1> DEFINE Inv == DP!Ordered /\ DP!Backed /\ Typed /\ Sequenced /\ Arranged /\ Over
  <1>1. Init => Inv
    BY DispatcherOrdered, TypedInit, SequencedInit, ArrangedInit, OverInit
  <1>2. Inv /\ [Next]_vars => Inv'
    <2> SUFFICES ASSUME Inv, [Next]_vars PROVE Inv'
      OBVIOUS
    <2>1. DP!Ordered'
      BY DispatcherOrdered
    <2>2. DP!Backed'
      BY <2>1, BackedKept
    <2>3. Typed' /\ Sequenced' /\ Arranged'
      <3>1. Typed'
        BY <2>1, TypedStep
      <3>2. Sequenced'
        BY SequencedStep
      <3>3. Arranged'
        BY ArrangedStep
      <3> QED
        BY <3>1, <3>2, <3>3
    <2>4. Over'
      BY OverStep
    <2> QED
      BY <2>1, <2>2, <2>3, <2>4
  <1>3. Inv => RemoteCloseLosesNothing
    BY OverImplied
  <1> QED
    BY <1>1, <1>2, <1>3, PTL DEF Spec
=============================================================================
