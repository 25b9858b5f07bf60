---------------------------- MODULE SctpTransport ----------------------------
(***************************************************************************)
(* The transport objects JavaScript shows for a peer connection's data     *)
(* channels: RTCSctpTransport, the RTCIceTransport below it, and the rules *)
(* of lib/index.js that give them a state.                                 *)
(*                                                                         *)
(* Two things tell how the connection is.  The native connection can be    *)
(* asked at any time, and its events come later, in order.  And a peer of  *)
(* the same process may know more: when candidates were exchanged between  *)
(* the two, a connection one of them sees is taken for one of both, and    *)
(* the states the other has missed are repaired by timers.                 *)
(*                                                                         *)
(* t is the peer studied, q what it sees of the paired one.  Immediates    *)
(* run in the order they were set, and so do timers of no delay; the two,  *)
(* the poll timer, the application and native events interleave freely.    *)
(***************************************************************************)
EXTENDS Naturals, Sequences

CONSTANTS
    MaxEvents,          \* bound: native events on their way
    MaxOps,             \* bound: signaling operations at a time, of each peer
    SameProcess         \* are candidates exchanged by peers of one process

ASSUME SctpTransportAssumption ==
    {MaxEvents, MaxOps} \subseteq Nat /\ SameProcess \in BOOLEAN

VARIABLES
    t,                  \* the RTCPeerConnection and its transports
    q,                  \* the paired peer, as far as the code looks at it
    net,                \* native states: <<ice connection, connection>>
    events              \* their changes on the way to JavaScript

vars == <<t, q, net, events>>

Up == {"connected", "completed"}
Down == {"disconnected", "failed", "closed"}
IceStates == {"new", "checking"} \cup Up \cup Down
ConnStates == {"new", "connecting", "connected"} \cup Down

\* Who answers: nobody yet, a peer of the process, or the peer itself; the
\* operations of a paired peer, has it negotiated data, and is it connected.
Alone == [link |-> "none", ops |-> 0, negotiated |-> FALSE, up |-> FALSE]

Left == [Alone EXCEPT !.link = "left"]

Init ==
    /\ t = [closed     |-> FALSE,
            local      |-> FALSE,   \* has the local description a data section
            remote     |-> FALSE,   \* has the remote one
            ops        |-> 0,       \* _operationsPending
            explicit   |-> FALSE,   \* _explicitIceCandidateExchange
            ice        |-> "new",   \* _iceConnectionState
            conn       |-> "new",   \* _connectionState
            sctp       |-> "none",  \* the state of _sctpTransport, if any
            ready      |-> FALSE,   \* _sctpConnectedTransitionReady
            poll       |-> FALSE,   \* _sctpConnectPollScheduled
            deadline   |-> "none",  \* _sctpConnectPollDeadline: none, set, over
            over       |-> "none",  \* _stateOverride of the ICE transport
            requested  |-> FALSE,   \* _connectionSequenceRequested
            started    |-> FALSE,   \* _connectionSequenceStarted
            replaying  |-> FALSE,   \* _connectionSequenceReplaying
            immediates |-> <<>>,    \* setImmediate
            timers     |-> <<>>]    \* setTimeout of no delay
    /\ q = Alone
    /\ net = <<"new", "new">>
    /\ events = <<>>

-----------------------------------------------------------------------------
\* Scheduling

Immediately(p, task) == [p EXCEPT !.immediates = Append(@, task)]
Soon(p, task) == [p EXCEPT !.timers = Append(@, task)]

Once(queue, task) ==
    IF \E i \in DOMAIN queue : queue[i] = task THEN queue ELSE Append(queue, task)

ScheduleUpdate(p) == [p EXCEPT !.immediates = Once(@, "update")]

-----------------------------------------------------------------------------
\* The ICE transport

HasData(p) == p.local \/ p.remote
Negotiated(p) == p.local /\ p.remote

ReplayDue(p) ==
    p.requested /\ ~p.started /\ Negotiated(p) /\ p.ice \in Up

StartReplay(p) == Soon([p EXCEPT !.started = TRUE, !.replaying = TRUE], "replay")

HandleIceState(p, state) ==
    IF p.sctp = "none" \/ (p.replaying /\ state \in Up) THEN p
    ELSE IF state \in Up /\ ReplayDue(p) THEN StartReplay(p)
    ELSE [p EXCEPT !.over = "none"]

ForceDisconnected(p) ==
    IF p.sctp = "none" THEN p
    ELSE [p EXCEPT !.started = TRUE, !.over = "disconnected"]

\* Fault: the state shown between the two timers is the one announced first.
ReplayChecking(p) ==
    IF p.closed \/ p.over = "disconnected" THEN p
    ELSE Soon([p EXCEPT !.over = "checking"], "replayed")

Replay(p) ==
    IF p.closed \/ p.over = "disconnected" THEN p
    ELSE Soon([p EXCEPT !.over = "connected"], "replayed")

Replayed(p) ==
    IF p.closed \/ p.over # "connected" THEN p
    ELSE [p EXCEPT !.replaying = FALSE]

-----------------------------------------------------------------------------
\* The state of the SCTP transport

Failed(p) == p.closed \/ p.conn \in Down \/ p.ice \in Down

\* _sameProcessIceCandidateExchange
Same(p) == p.explicit /\ SameProcess

SeesConnection(p) == p.conn = "connected" \/ p.ice \in Up

NativeConnected(p, other) ==
    SeesConnection(p) /\ Negotiated(p) /\ other.link # "self"

SameProcessConnected(p, other) ==
    /\ Same(p) /\ Negotiated(p)
    /\ other.link = "paired" /\ other.negotiated
    /\ SeesConnection(p) \/ other.up

OperationsSettled(p, other) ==
    p.ops = 0 /\ (other.link = "paired" => other.ops = 0)

\* Fault: a transport that is connected waits for operations like any other.
ShouldConnectSettled(p, other) ==
    /\ NativeConnected(p, other) \/ SameProcessConnected(p, other)
    /\ OperationsSettled(p, other)

ShouldConnect(p, other) ==
    /\ NativeConnected(p, other) \/ SameProcessConnected(p, other)
    /\ OperationsSettled(p, other) \/ p.sctp = "connected"

\* The states of the connection that lag behind the transport's.
RepairDue(p, other) ==
    /\ Same(p) /\ ~Failed(p) /\ OperationsSettled(p, other)
    /\ Negotiated(p) /\ other.link = "paired" /\ other.negotiated
    /\ p.conn # "connected" \/ p.ice \notin Up

ShouldRepair(p, other) == p.sctp = "connected" /\ RepairDue(p, other)

PollDue(p, other) ==
    /\ ~p.closed /\ OperationsSettled(p, other) /\ Negotiated(p)
    /\ p.deadline # "over"

\* A new transport comes with a new ICE transport.
Existing(p) ==
    IF p.sctp # "none" THEN p
    ELSE [p EXCEPT !.over = "none", !.requested = FALSE, !.started = FALSE,
                   !.replaying = FALSE]

\* _updateSctpTransport: the state that follows from what p and the paired peer
\* know; connected is only shown a task after it was found.
Update(p, other) ==
    LET should == ShouldConnect(p, other)
        ready == p.ready /\ should /\ ~Failed(p)
        wait == should /\ p.sctp # "connected" /\ ~ready
        state == IF Failed(p) THEN "closed"
                 ELSE IF should /\ ~wait THEN "connected" ELSE "connecting"
        polls == state = "connecting" /\ PollDue(p, other)
    IN IF ~HasData(p) THEN [p EXCEPT !.sctp = "none", !.ready = FALSE]
       ELSE [Existing(p) EXCEPT
               !.sctp = state,
               !.ready = ready,
               !.immediates = IF wait THEN Once(@, "transition") ELSE @,
               !.timers = IF state = "connected" /\ RepairDue(p, other)
                          THEN Once(@, "repair") ELSE @,
               !.deadline = IF state # "connecting" THEN "none"
                            ELSE IF polls THEN "set" ELSE @,
               !.poll = @ \/ polls]

\* _syncStatesFromNative: the native states as they are now, before their events.
Copy(p) == [p EXCEPT !.ice = net[1], !.conn = net[2]]
Sync(p) == IF p.closed THEN p ELSE Update(Copy(p), q)

-----------------------------------------------------------------------------
\* The tasks

Transition ==
    LET p == [t EXCEPT !.immediates = Tail(@)] IN
    /\ t.immediates # <<>> /\ Head(t.immediates) = "transition"
    /\ t' = IF p.closed \/ p.sctp = "none" THEN p
            ELSE Update([p EXCEPT !.ready = TRUE], q)
    /\ UNCHANGED <<q, net, events>>

UpdateTask ==
    LET p == [t EXCEPT !.immediates = Tail(@)] IN
    /\ t.immediates # <<>> /\ Head(t.immediates) = "update"
    /\ t' = Update(IF p.closed THEN p ELSE Copy(p), q)
    /\ UNCHANGED <<q, net, events>>

HandleRemotePeerClosed ==
    LET p == [t EXCEPT !.immediates = Tail(@)]
        gone == [p EXCEPT !.ice = "disconnected", !.conn = "disconnected"] IN
    /\ t.immediates # <<>> /\ Head(t.immediates) = "peerClosed"
    /\ t' = IF p.closed THEN p ELSE ForceDisconnected(Update(gone, q))
    /\ UNCHANGED <<q, net, events>>

RepairConn(p) ==
    IF p.conn = "connected" THEN p ELSE Update([p EXCEPT !.conn = "connected"], q)
RepairIce(p) ==
    IF p.ice \in Up THEN p
    ELSE HandleIceState([p EXCEPT !.ice = "connected"], "connected")

StartRepair(p) ==
    LET checking == IF p.ice # "new" THEN p
                    ELSE HandleIceState([p EXCEPT !.ice = "checking"], "checking")
    IN Soon([checking EXCEPT !.conn = IF @ = "new" THEN "connecting" ELSE @],
            "repaired")

RepairTimer ==
    LET p == [t EXCEPT !.timers = Tail(@)] IN
    /\ t.timers # <<>>
    /\ \/ /\ Head(t.timers) = "repair"
          /\ t' = IF ShouldRepair(p, q) THEN StartRepair(p) ELSE p
       \/ /\ Head(t.timers) = "repaired"
          /\ t' = IF ShouldRepair(p, q) THEN RepairConn(RepairIce(p)) ELSE p
    /\ UNCHANGED <<q, net, events>>

ReplayTimer ==
    LET p == [t EXCEPT !.timers = Tail(@)] IN
    /\ t.timers # <<>>
    /\ \/ Head(t.timers) = "replay" /\ t' = Replay(p)
       \/ Head(t.timers) = "replayed" /\ t' = Replayed(p)
    /\ UNCHANGED <<q, net, events>>

PollTimer ==
    LET p == [t EXCEPT !.poll = FALSE] IN
    /\ t.poll
    /\ t' = IF p.closed \/ p.sctp # "connecting" THEN p ELSE ScheduleUpdate(p)
    /\ UNCHANGED <<q, net, events>>

DeadlinePasses ==
    /\ t.deadline = "set"
    /\ t' = [t EXCEPT !.deadline = "over"]
    /\ UNCHANGED <<q, net, events>>

-----------------------------------------------------------------------------
\* The application's operations

StartOperation ==
    /\ ~t.closed /\ t.ops < MaxOps
    /\ t' = [t EXCEPT !.ops = @ + 1]
    /\ UNCHANGED <<q, net, events>>

\* A description is set, or rolled back before anything was connected.
Describe(local, remote) ==
    /\ ~t.closed /\ t.ops > 0
    /\ \/ t.local => local
       \/ net = <<"new", "new">> /\ ~Negotiated(t) /\ ~local
    /\ \/ t.remote => remote
       \/ net = <<"new", "new">> /\ ~Negotiated(t) /\ ~remote
    /\ t' = Sync([t EXCEPT !.local = local, !.remote = remote])
    /\ UNCHANGED <<q, net, events>>

\* _pairWithRemoteDescription, by either side: the owner of the description is
\* a peer of this process, the peer itself, or unknown.
PairWith(link) ==
    /\ ~t.closed /\ q.link = "none"
    /\ \E ops \in 0..MaxOps :
         /\ \/ t.ops > 0 /\ ~t.remote /\ (link = "self" => t.local)
            \/ ops > 0 /\ link = "paired" /\ t.local
         /\ q' = [q EXCEPT !.link = link,
                          !.ops = IF link = "paired" THEN ops ELSE 0]
    /\ UNCHANGED <<t, net, events>>

\* Fault: an operation that ends asks nobody to look at the transport again.
CountDown(p) == [p EXCEPT !.ops = @ - 1]

FinishPendingOperation(p) ==
    LET done == [p EXCEPT !.ops = @ - 1]
    IN IF done.ops = 0 THEN ScheduleUpdate(done) ELSE done

FinishOperation ==
    /\ t.ops > 0
    /\ t' = FinishPendingOperation(t)
    /\ UNCHANGED <<q, net, events>>

AddStateListener ==
    /\ t.sctp # "none" /\ ~t.requested
    /\ t' = (LET p == [t EXCEPT !.requested = TRUE]
             IN IF ReplayDue(p) THEN StartReplay(p) ELSE p)
    /\ UNCHANGED <<q, net, events>>

\* _markExplicitIceCandidateExchange
AddCandidate ==
    /\ ~t.closed
    /\ SameProcess => q.link = "paired"
    /\ t' = Update([t EXCEPT !.explicit = TRUE], q)
    /\ UNCHANGED <<q, net, events>>

Close ==
    /\ ~t.closed
    /\ t' = Update([t EXCEPT !.closed = TRUE, !.ice = "closed", !.conn = "closed"],
                   Left)
    /\ q' = Left
    /\ events' = <<>>
    /\ UNCHANGED net

-----------------------------------------------------------------------------
\* The paired peer

PairedStarts ==
    /\ q.link = "paired" /\ q.ops < MaxOps
    /\ q' = [q EXCEPT !.ops = @ + 1]
    /\ UNCHANGED <<t, net, events>>

\* Fault: only the peer whose operation ended looks at its transport again.
KeepTransport(p) == p
UpdatePaired(p) == IF p.closed THEN p ELSE ScheduleUpdate(p)

PairedFinishes ==
    /\ q.link = "paired" /\ q.ops > 0
    /\ \E negotiates \in BOOLEAN :
         q' = [q EXCEPT !.ops = @ - 1, !.negotiated = @ \/ negotiates]
    /\ t' = IF q'.ops = 0 THEN UpdatePaired(t) ELSE t
    /\ UNCHANGED <<net, events>>

PairedConnects ==
    /\ q.link = "paired" /\ q.negotiated /\ ~q.up
    /\ q' = [q EXCEPT !.up = TRUE]
    /\ UNCHANGED <<t, net, events>>

PairedAddsCandidate ==
    /\ q.link = "paired" /\ ~t.explicit
    /\ t' = ScheduleUpdate([t EXCEPT !.explicit = TRUE])
    /\ UNCHANGED <<q, net, events>>

PairedCloses ==
    /\ q.link = "paired"
    /\ q' = Left
    /\ t' = Immediately(t, "peerClosed")
    /\ UNCHANGED <<net, events>>

-----------------------------------------------------------------------------
\* The native connection

NativeSteps ==
    {<<<<"new", "new">>, <<"checking", "new">>>>,
     <<<<"checking", "new">>, <<"checking", "connecting">>>>,
     <<<<"checking", "connecting">>, <<"connected", "connecting">>>>,
     <<<<"connected", "connecting">>, <<"connected", "connected">>>>,
     <<<<"checking", "connecting">>, <<"failed", "connecting">>>>,
     <<<<"failed", "connecting">>, <<"failed", "failed">>>>,
     <<<<"connected", "connected">>, <<"disconnected", "connected">>>>,
     <<<<"disconnected", "connected">>, <<"disconnected", "disconnected">>>>}

\* States the native connection does not come back from.
Lost == {p \in IceStates \X ConnStates : p[1] \in Down}

NativeChanges ==
    /\ Len(events) < MaxEvents
    /\ ~t.closed /\ (Negotiated(t) \/ (HasData(t) /\ t.ops > 0))
    /\ \E step \in NativeSteps :
         /\ step[1] = net
         /\ net' = step[2]
         /\ events' = Append(events,
                IF net[1] # step[2][1] THEN <<"ice", step[2][1]>>
                ELSE <<"conn", step[2][2]>>)
    /\ UNCHANGED <<t, q>>

NativeEvent ==
    /\ events # <<>>
    /\ events' = Tail(events)
    /\ LET state == Head(events)[2] IN
       t' = IF Head(events)[1] = "ice"
            THEN HandleIceState(Update([t EXCEPT !.ice = state], q), state)
            ELSE Update([t EXCEPT !.conn = state], q)
    /\ UNCHANGED <<q, net>>

-----------------------------------------------------------------------------
Tasks ==
    \/ Transition \/ UpdateTask \/ HandleRemotePeerClosed
    \/ RepairTimer \/ ReplayTimer

Application ==
    \/ StartOperation \/ FinishOperation
    \/ \E local, remote \in BOOLEAN : Describe(local, remote)
    \/ \E link \in {"paired", "self"} : PairWith(link)
    \/ AddStateListener \/ AddCandidate \/ Close

Paired ==
    \/ PairedStarts \/ PairedFinishes
    \/ PairedConnects \/ PairedAddsCandidate \/ PairedCloses

Next ==
    \/ Tasks \/ PollTimer \/ DeadlinePasses
    \/ Application \/ Paired
    \/ NativeChanges \/ NativeEvent

\* The event loop runs its immediates, and goes on while anything else is due.
Fairness ==
    /\ WF_vars(Transition \/ UpdateTask \/ HandleRemotePeerClosed)
    /\ WF_vars(\/ RepairTimer \/ ReplayTimer \/ PollTimer \/ NativeEvent
               \/ FinishOperation \/ PairedFinishes)

Spec == Init /\ [][Next]_vars /\ Fairness

-----------------------------------------------------------------------------
\* Properties

\* Every variable has the type the code gives it.
TypeOK ==
    /\ t \in [closed : BOOLEAN, local : BOOLEAN, remote : BOOLEAN, ops : 0..MaxOps,
              explicit : BOOLEAN, ice : IceStates, conn : ConnStates,
              sctp : {"none", "connecting", "connected", "closed"}, ready : BOOLEAN,
              poll : BOOLEAN, deadline : {"none", "set", "over"},
              over : {"none", "connected", "disconnected"},
              requested : BOOLEAN, started : BOOLEAN, replaying : BOOLEAN,
              immediates : Seq({"update", "transition", "peerClosed"}),
              timers : Seq({"repair", "repaired", "replay", "replayed"})]
    /\ q \in [link : {"none", "paired", "self", "left"}, ops : 0..MaxOps,
              negotiated : BOOLEAN, up : BOOLEAN]
    /\ net \in IceStates \X ConnStates
    /\ events \in Seq({"ice", "conn"} \X (IceStates \cup ConnStates))

Quiet ==
    /\ t.immediates = <<>> /\ t.timers = <<>> /\ events = <<>> /\ ~t.poll
    /\ t.ops = 0 /\ q.ops = 0

Usable == NativeConnected(t, q) \/ SameProcessConnected(t, q)

\* When nothing is on its way, the transport shows what the connection is:
\* closed when it failed, connected when it can be used, else connecting.
\* Nobody tells the transport: every change must have asked it to look.
SettledStateIsRight ==
    Quiet /\ HasData(t) /\ t.deadline # "over" =>
        t.sctp = IF Failed(t) THEN "closed"
                 ELSE IF Usable THEN "connected" ELSE "connecting"

\* A transport that is connected goes back to connecting only when the paired
\* peer has left, or a native event was out of date: others were behind it.
StaysConnected ==
    [][t.sctp = "connected" /\ t'.sctp = "connecting" =>
          q'.link = "left" \/ Len(events') \in 1..(Len(events) - 1)]_vars

Reachable ==
    /\ ~t.closed /\ Negotiated(t) /\ OperationsSettled(t, q)
    /\ t.deadline # "over"
    /\ \/ net \in Up \X {"connected"} /\ q.link \in {"none", "paired"}
       \/ q.up /\ q.negotiated /\ Same(t) /\ net \notin Lost

\* A connection that lasts is shown: once both sides have negotiated data and
\* ended their operations, and the native connection is up, or for peers of one
\* process that of the other peer, the transport becomes connected.
ConnectsInTheEnd == <>[]Reachable => <>[](t.sctp = "connected")
=============================================================================
