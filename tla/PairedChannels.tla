---------------------------- MODULE PairedChannels ----------------------------
(***************************************************************************)
(* One data channel between two RTCPeerConnections of the same process     *)
(* (lib/index.js), which know of each other by their descriptions.         *)
(*                                                                         *)
(* Peer A creates the channel; peer B learns of it from a native           *)
(* datachannel event.  That event may come late or never.  So B also looks *)
(* at A's channels, and after a grace period makes a synthetic channel and *)
(* announces that; when the native event comes after all, the channel      *)
(* adopts the native one.  Two channels with the same id are linked: A's   *)
(* messages reach a synthetic channel by tasks of setImmediate and a       *)
(* native one by the network, A hears when B has dispatched them, waits    *)
(* for that before it closes, and tells B that it has closed.  A's open    *)
(* event waits until B has dispatched its datachannel event.               *)
(*                                                                         *)
(* B's channel may close before the native event comes, or before A's does: *)
(* then B gets another one.                                                *)
(*                                                                         *)
(* a is A's channel, b is B's last one, p the pair of peers, net the       *)
(* native side.  A message is its number, and is empty or counts one byte. *)
(* The gates and queues of an announced channel are in IncomingChannel,    *)
(* bufferedAmount is in SendBuffer; here B's messages pass one queue,      *)
(* inbox.                                                                  *)
(***************************************************************************)
EXTENDS Naturals, Sequences, Functions

CONSTANTS
    MaxSends,           \* bound: messages A sends
    MaxOps,             \* bound: signaling operations
    MaxCloses,          \* bound: channels the application of B closes
    Empty               \* the messages that are empty

ASSUME PairedChannelsAssumption ==
    {MaxSends, MaxOps, MaxCloses} \subseteq Nat /\ Empty \subseteq Nat

VARIABLES a, b, p, net

vars == <<a, b, p, net>>

\* The native close among the messages on the wire.
CloseMark == 0

ReadyStates == {"none", "connecting", "open", "closing", "closed"}

Init ==
    /\ a = [ready    |-> "none",    \* _readyState; none before createDataChannel
            id       |-> FALSE,     \* has the channel an id
            native   |-> "connecting",
            opened   |-> FALSE,     \* _openEventDispatched
            deferred |-> "no",      \* its deferral: poll, settled or unsettled
            expired  |-> FALSE,     \* _openEventDataChannelDeferralExpired
            sent     |-> 0,         \* history: messages of the application
            tail     |-> 0,         \* _pendingSendCount
            unacked  |-> 0,         \* _pendingPairedDeliveryBytes
            close    |-> "no",      \* how far close() is
            partner  |-> FALSE,     \* did close() find the paired channel
            forced   |-> FALSE,     \* history: its drain met the deadline
            blind    |-> FALSE,     \* history: did it send while not linked
            remote   |-> "no"]      \* how far a remote close is
    /\ b = [kind      |-> "none",   \* synthetic or native
            ready     |-> "none",
            pending   |-> FALSE,    \* in _pendingSyntheticDataChannelAnnouncements
            announced |-> FALSE,    \* in _remoteAnnouncedDataChannelIds
            event     |-> 0,        \* its events in _pendingDataChannelEvents
            shown     |-> 0,        \* history: datachannel events dispatched
            gone      |-> 0,        \* history: B's channels that have closed
            hold      |-> FALSE,    \* _announcementPending
            held      |-> <<>>,     \* _queuedNativeEvents
            drain     |-> FALSE,    \* _nativeEventDrainActive
            inbox     |-> <<>>,     \* _queuedMessageEvents
            got       |-> <<>>,     \* history: messages dispatched
            closes    |-> FALSE,    \* has the application closed it
            remote    |-> "no",
            repair    |-> FALSE,    \* _dataChannelAnnouncementRepairScheduled
            clock     |-> "none",   \* its grace period: none, grace or ready
            flush     |-> FALSE]    \* _dataChannelFlushScheduled
    /\ p = [paired |-> FALSE, negotiated |-> FALSE, ops |-> 0, started |-> 0,
            sctp |-> FALSE, listener |-> FALSE]
    /\ net = [event  |-> "none",    \* B's datachannel event: none, flying, done
              wire   |-> <<>>,      \* from A's native channel to B's
              tasks  |-> <<>>,      \* synthetic messages, in immediates
              byWire |-> {},        \* history: messages that took each route
              byTask |-> {}]

Linked == b.kind # "none" /\ "closed" \notin {a.ready, b.ready}
Live(channel) == channel.ready \notin {"none", "closed"}

-----------------------------------------------------------------------------
\* When B makes an announcement of its own

HasRemote(c) == c.announced \/ c.pending \/ Live(c)

\* Is there a channel of A that B has not heard of.
Candidates(c) ==
    p.paired /\ (c.pending \/ (Live(a) /\ (~a.id \/ ~HasRemote(c))))

CanRepair == p.paired /\ p.negotiated /\ p.ops = 0

ScheduleRepair(c) ==
    IF c.repair THEN c
    ELSE IF ~Candidates(c) THEN [c EXCEPT !.clock = "none"]
    ELSE [c EXCEPT !.repair = TRUE,
                   !.clock = IF CanRepair /\ @ = "none" THEN "grace" ELSE @]

ScheduleFlush(c) == [c EXCEPT !.flush = @ \/ c.event > 0]

Settled(c) == ~c.pending /\ c.event = 0 /\ HasRemote(c)

-----------------------------------------------------------------------------
\* The open event of A's channel

DispatchOpen(x, c) ==
    IF x.opened \/ x.ready # "open" THEN x
    ELSE IF ~x.expired /\ p.paired /\ x.id /\ p.listener /\ ~Settled(c)
    THEN [x EXCEPT !.deferred = IF @ = "no" THEN "poll" ELSE @]
    ELSE [x EXCEPT !.opened = TRUE]

Open(x, c) == DispatchOpen([x EXCEPT !.ready = "open", !.id = TRUE], c)

PollSettled ==
    /\ a.deferred = "poll"
    /\ IF Settled(b) \/ ~p.listener
       THEN /\ a' = [a EXCEPT !.deferred = IF Settled(b) THEN "settled" ELSE "unsettled"]
            /\ UNCHANGED b
       ELSE /\ b' = ScheduleFlush(ScheduleRepair(b))
            /\ UNCHANGED a
    /\ UNCHANGED <<p, net>>

AfterSettled ==
    /\ a.deferred \in {"settled", "unsettled"}
    /\ a' = DispatchOpen([a EXCEPT !.deferred = "no",
                                   !.expired = @ \/ a.deferred = "unsettled"], b)
    /\ UNCHANGED <<b, p, net>>

NativeOpen ==
    /\ a.ready \in {"connecting", "open"} /\ a.native = "open"
    /\ a' = Open(a, b)
    /\ UNCHANGED <<b, p, net>>

\* The timer of _scheduleDataChannelOpenRepair.
RepairMissedOpen ==
    /\ p.sctp /\ a.ready = "connecting" /\ a.native = "open"
    /\ a' = Open(a, b)
    /\ UNCHANGED <<b, p, net>>

-----------------------------------------------------------------------------
\* Announcements of B

Announce(c) ==
    ScheduleFlush([c EXCEPT !.ready = "open", !.hold = TRUE,
                            !.announced = TRUE, !.pending = FALSE, !.event = @ + 1])

\* B's first channel, or a new one in the place of one that closed.  Events in
\* _pendingDataChannelEvents and timers outlive the old channel.
Fresh(c) ==
    [c EXCEPT !.ready = "open", !.hold = FALSE, !.held = <<>>, !.drain = FALSE,
              !.inbox = <<>>, !.remote = "no"]

\* A's close knows the old channel, and so do the tasks under way, in vain.
LeaveOld(x) == [x EXCEPT !.partner = FALSE]
WithoutTasks(n) == [n EXCEPT !.tasks = <<>>]

\* Fault: the new channel is not noted for its announcement.
CreateUnannounced(c) == [Fresh(c) EXCEPT !.kind = "synthetic"]
CreateSynthetic(c) == [Fresh(c) EXCEPT !.kind = "synthetic", !.pending = TRUE]

\* _repairMissingDataChannelAnnouncements: what is pending is announced, and
\* what is missing becomes pending.
RepairMissing(x) ==
    LET announce == x.pending
        c == IF announce THEN Announce(x) ELSE x
        make == Live(a) /\ ~HasRemote(c)
        opened == IF announce /\ a.ready = "connecting" THEN Open(a, c) ELSE a
        known == [opened EXCEPT !.id = @ \/ Live(a)]
    IN IF make
       THEN /\ a' = LeaveOld(known)
            /\ b' = ScheduleRepair(CreateSynthetic(c))
            /\ net' = WithoutTasks(net)
       ELSE /\ a' = known
            /\ b' = [c EXCEPT !.clock = "none"]
            /\ UNCHANGED net

RepairTimer ==
    /\ b.repair
    /\ LET c == [b EXCEPT !.repair = FALSE,
                          !.clock = IF CanRepair /\ @ = "none" THEN "grace" ELSE @]
       IN IF CanRepair /\ (b.pending \/ c.clock = "ready") THEN RepairMissing(c)
          ELSE b' = ScheduleRepair(c) /\ UNCHANGED <<a, net>>
    /\ UNCHANGED p

\* DATA_CHANNEL_ANNOUNCEMENT_REPAIR_GRACE_MS
GraceEnds ==
    /\ b.clock = "grace"
    /\ b' = [b EXCEPT !.clock = "ready"]
    /\ UNCHANGED <<a, p, net>>

\* Fault: the native channel is announced although the synthetic one was.
AdoptAnew(c) ==
    Announce([c EXCEPT !.kind = "native", !.ready = "open", !.pending = FALSE])
Adopt(c) ==
    LET adopted == [c EXCEPT !.kind = "native", !.ready = "open", !.pending = FALSE]
    IN IF c.announced
       THEN [adopted EXCEPT !.drain = @ \/ c.held # <<>>]
       ELSE Announce(adopted)

\* A datachannel event; one that finds no channel, or a closed one, makes its own.
NativeAnnounces ==
    /\ net.event = "flying"
    /\ IF b.kind = "synthetic" /\ b.ready # "closed"
       THEN /\ b' = Adopt(b)
            /\ net' = [net EXCEPT !.event = "done"]
            /\ UNCHANGED a
       ELSE /\ b' = Announce([Fresh(b) EXCEPT !.kind = "native"])
            /\ net' = [WithoutTasks(net) EXCEPT !.event = "done"]
            /\ a' = LeaveOld(a)
    /\ UNCHANGED p

FlushDataChannel ==
    /\ b.flush
    /\ b' = IF ~p.listener \/ b.event = 0 THEN [b EXCEPT !.flush = FALSE]
            ELSE [b EXCEPT !.flush = FALSE, !.event = 0, !.shown = @ + b.event,
                           !.hold = FALSE, !.drain = @ \/ b.held # <<>>]
    /\ UNCHANGED <<a, p, net>>

-----------------------------------------------------------------------------
\* Messages from A to B

Synthetic == Linked /\ b.kind = "synthetic"
ReadyForSend == Synthetic \/ a.native = "open"

\* Hand over the oldest message of x that was not yet.
Hand(x) ==
    LET m == x.sent - x.tail
        counts == m \notin Empty IN
    /\ a' = [x EXCEPT !.unacked = IF Linked /\ counts THEN @ + 1 ELSE @,
                      !.blind = @ \/ ~Linked]
    /\ net' = IF Synthetic
              THEN [net EXCEPT !.tasks = Append(@, m), !.byTask = @ \cup {m}]
              ELSE [net EXCEPT !.wire = Append(@, m), !.byWire = @ \cup {m}]

Send ==
    /\ a.ready = "open" /\ a.sent < MaxSends
    /\ LET x == [a EXCEPT !.sent = @ + 1] IN
       \/ /\ a' = [x EXCEPT !.tail = @ + 1]    \* a Blob, or not its turn yet
          /\ UNCHANGED net
       \/ /\ a.tail = 0 /\ ReadyForSend
          /\ Hand(x)
    /\ UNCHANGED <<b, p>>

\* Fault: the count of pending sends is not taken back.
SendTailKept ==
    /\ a.tail > 0 /\ ReadyForSend
    /\ Hand(a)
    /\ UNCHANGED <<b, p>>

\* The next message of the tail; a Blob also when the channel closed meanwhile.
SendTail ==
    /\ a.tail > 0 /\ ReadyForSend
    /\ Hand([a EXCEPT !.tail = @ - 1])
    /\ UNCHANGED <<b, p>>

\* The Blob cannot be read, the send throws, or it is waited for in vain: an
\* error event, and the message is lost.
SendTailFails ==
    /\ a.tail > 0
    /\ a' = [a EXCEPT !.tail = @ - 1]
    /\ UNCHANGED <<b, p, net>>

\* _handleNativeEvent of B's channel
Receive(c, e) ==
    IF c.ready = "closed" THEN c
    ELSE IF c.hold \/ c.drain THEN [c EXCEPT !.held = Append(@, e)]
    ELSE IF e = CloseMark
    THEN [c EXCEPT !.remote = IF @ = "no" THEN "deferred" ELSE @]
    ELSE [c EXCEPT !.inbox = Append(@, e)]

DeliverSynthetic ==
    /\ net.tasks # <<>>
    /\ net' = [net EXCEPT !.tasks = Tail(@)]
    /\ b' = Receive(b, Head(net.tasks))
    /\ UNCHANGED <<a, p>>

\* What comes before the datachannel event waits for it.
DeliverNative ==
    /\ net.wire # <<>> /\ net.event = "done"
    /\ net' = [net EXCEPT !.wire = Tail(@)]
    /\ b' = Receive(b, Head(net.wire))
    /\ UNCHANGED <<a, p>>

DrainHeld ==
    /\ b.drain
    /\ b' = IF b.held = <<>> THEN [b EXCEPT !.drain = FALSE]
            ELSE [Receive([b EXCEPT !.hold = FALSE, !.drain = FALSE], Head(b.held))
                    EXCEPT !.hold = b.hold, !.held = Tail(b.held),
                           !.drain = Len(b.held) > 1]
    /\ UNCHANGED <<a, p, net>>

Acknowledge(x, m) ==
    IF Linked /\ m \notin Empty THEN [x EXCEPT !.unacked = IF @ > 0 THEN @ - 1 ELSE 0]
    ELSE x

DispatchMessage ==
    /\ b.inbox # <<>> /\ b.ready # "closed"
    /\ b' = [b EXCEPT !.inbox = Tail(@), !.got = Append(@, Head(b.inbox))]
    /\ a' = Acknowledge(a, Head(b.inbox))
    /\ UNCHANGED <<p, net>>

-----------------------------------------------------------------------------
\* Closing

Close ==
    /\ a.ready \in {"connecting", "open"}
    /\ \E buffered \in BOOLEAN :    \* bufferedAmount is above zero
         a' = [a EXCEPT !.ready = "closing", !.partner = Linked,
                        !.close = IF buffered \/ a.tail + a.unacked > 0
                                  THEN "drain" ELSE "close"]
    /\ UNCHANGED <<b, p, net>>

\* Fault: a linked channel, too, waits for its own sends only.
DrainedOwn == a.tail = 0
Drained == a.tail = 0 /\ (Linked => a.unacked = 0)

DrainPoll ==
    /\ a.close = "drain" /\ Drained
    /\ a' = [a EXCEPT !.close = "close"]
    /\ UNCHANGED <<b, p, net>>

\* CLOSE_FLUSH_TIMEOUT_MS after the last send.
DrainDeadline ==
    /\ a.close = "drain" /\ a.tail = 0 /\ ~Drained
    /\ a' = [a EXCEPT !.close = "close", !.forced = TRUE]
    /\ UNCHANGED <<b, p, net>>

CloseNative ==
    /\ a.close = "close"
    /\ a' = [a EXCEPT !.close = "done", !.native = "closed", !.remote = "closing"]
    /\ b' = IF a.partner /\ b.ready # "closed"
            THEN [b EXCEPT !.remote = IF @ = "no" THEN "deferred" ELSE @]
            ELSE b
    /\ net' = [net EXCEPT !.wire = IF a.native = "open" THEN Append(@, CloseMark) ELSE @]
    /\ UNCHANGED p

CloseByB ==
    /\ b.ready = "open" /\ b.announced /\ b.event = 0 /\ b.gone < MaxCloses
    /\ b' = [b EXCEPT !.ready = "closing", !.closes = TRUE, !.remote = "closing"]
    /\ a' = IF Linked THEN [a EXCEPT !.remote = IF @ = "no" THEN "deferred" ELSE @]
            ELSE a
    /\ UNCHANGED <<p, net>>

RemoteClose ==
    \/ /\ a.remote = "deferred" /\ a.ready # "closed"
       /\ a' = [a EXCEPT !.remote = "closing", !.ready = "closing"]
       /\ UNCHANGED b
       /\ UNCHANGED <<p, net>>
    \/ /\ b.remote = "deferred" /\ b.inbox = <<>> /\ b.ready # "closed"
       /\ b' = [b EXCEPT !.remote = "closing", !.ready = "closing"]
       /\ UNCHANGED a
       /\ UNCHANGED <<p, net>>

HandleClose ==
    \/ /\ a.remote = "closing" /\ a.ready # "closed"
       /\ a' = [a EXCEPT !.ready = "closed"]
       /\ UNCHANGED b
       /\ UNCHANGED <<p, net>>
    \/ /\ b.remote = "closing" /\ b.ready # "closed"
       /\ b' = [b EXCEPT !.ready = "closed", !.announced = FALSE, !.pending = FALSE,
                         !.gone = @ + 1]
       /\ UNCHANGED a
       /\ UNCHANGED <<p, net>>

-----------------------------------------------------------------------------
\* The peers

CreateDataChannel ==
    /\ a.ready = "none"
    /\ a' = [a EXCEPT !.ready = "connecting"]
    /\ b' = IF p.paired THEN [b EXCEPT !.repair = TRUE,
                                !.clock = IF CanRepair THEN "grace" ELSE "none"]
            ELSE b
    /\ UNCHANGED <<p, net>>

StartOperation ==
    /\ p.started < MaxOps
    /\ p' = [p EXCEPT !.ops = @ + 1, !.started = @ + 1]
    /\ UNCHANGED <<a, b, net>>

\* _pairWithRemoteDescription
Pair ==
    /\ ~p.paired /\ p.ops > 0
    /\ p' = [p EXCEPT !.paired = TRUE]
    /\ b' = IF Live(a) THEN [b EXCEPT !.repair = TRUE] ELSE b
    /\ UNCHANGED <<a, net>>

Negotiate ==
    /\ p.paired /\ ~p.negotiated /\ p.ops > 0
    /\ p' = [p EXCEPT !.negotiated = TRUE]
    /\ \/ UNCHANGED <<a, b>>
       \/ /\ Live(a) /\ ~a.id    \* _assignDataChannelIdsFromDtlsRole
          /\ a' = [a EXCEPT !.id = TRUE]
          /\ b' = ScheduleRepair(b)
    /\ UNCHANGED net

AfterUpdate(c) == IF p.sctp /\ p.ops = 1 THEN ScheduleRepair(c) ELSE c

FinishOperation ==
    /\ p.ops > 0
    /\ p' = [p EXCEPT !.ops = @ - 1]
    /\ b' = AfterUpdate(b)
    /\ UNCHANGED <<a, net>>

\* The transport of either peer becomes connected.
TransportConnects ==
    /\ p.negotiated /\ p.ops = 0 /\ ~p.sctp
    /\ p' = [p EXCEPT !.sctp = TRUE]
    /\ b' = ScheduleRepair(b)
    /\ UNCHANGED <<a, net>>

ListenDataChannel ==
    /\ ~p.listener
    /\ p' = [p EXCEPT !.listener = TRUE]
    /\ b' = ScheduleRepair(ScheduleFlush(b))
    /\ UNCHANGED <<a, net>>

NativeConnects ==
    /\ p.negotiated /\ a.ready \in {"connecting", "open"}
    /\ a.native = "connecting" /\ net.event = "none"
    /\ a' = [a EXCEPT !.native = "open", !.id = TRUE]
    /\ net' = [net EXCEPT !.event = "flying"]
    /\ UNCHANGED <<b, p>>

-----------------------------------------------------------------------------
AnnouncementSteps ==
    \/ RepairTimer \/ NativeAnnounces \/ FlushDataChannel
    \/ PollSettled \/ AfterSettled \/ NativeOpen \/ RepairMissedOpen

MessageSteps ==
    \/ Send \/ SendTail \/ SendTailFails \/ DeliverSynthetic \/ DeliverNative
    \/ DrainHeld \/ DispatchMessage

CloseSteps ==
    \/ Close \/ DrainPoll \/ DrainDeadline \/ CloseNative \/ CloseByB \/ RemoteClose \/ HandleClose

PeerSteps ==
    \/ CreateDataChannel \/ StartOperation \/ Pair \/ Negotiate \/ FinishOperation
    \/ TransportConnects \/ ListenDataChannel \/ NativeConnects

Next == AnnouncementSteps \/ GraceEnds \/ MessageSteps \/ CloseSteps \/ PeerSteps

\* Timers run.  Nothing is assumed of the network, nor of the application.
Fairness ==
    /\ WF_vars(RepairTimer) /\ WF_vars(GraceEnds) /\ WF_vars(FlushDataChannel)
    /\ WF_vars(PollSettled) /\ WF_vars(AfterSettled) /\ WF_vars(RepairMissedOpen)

Spec == Init /\ [][Next]_vars /\ Fairness

-----------------------------------------------------------------------------
\* Properties

Events == 0..MaxSends

\* Every variable has the type the code gives it, and A waits for no more
\* acknowledgements than it has sent messages.
TypeOK ==
    /\ a \in [ready : ReadyStates, id : BOOLEAN,
              native : {"connecting", "open", "closed"}, opened : BOOLEAN,
              deferred : {"no", "poll", "settled", "unsettled"}, expired : BOOLEAN,
              sent : 0..MaxSends, tail : 0..MaxSends, unacked : 0..MaxSends,
              close : {"no", "drain", "close", "done"}, partner : BOOLEAN,
              forced : BOOLEAN, blind : BOOLEAN,
              remote : {"no", "deferred", "closing"}]
    /\ b \in [kind : {"none", "synthetic", "native"}, ready : ReadyStates,
              pending : BOOLEAN, announced : BOOLEAN, event : Nat, shown : Nat,
              gone : Nat,
              hold : BOOLEAN, held : Seq(Events), drain : BOOLEAN,
              inbox : Seq(1..MaxSends), got : Seq(1..MaxSends), closes : BOOLEAN,
              remote : {"no", "deferred", "closing"}, repair : BOOLEAN,
              clock : {"none", "grace", "ready"}, flush : BOOLEAN]
    /\ p \in [paired : BOOLEAN, negotiated : BOOLEAN, ops : 0..MaxOps,
              started : 0..MaxOps, sctp : BOOLEAN, listener : BOOLEAN]
    /\ net \in [event : {"none", "flying", "done"}, wire : Seq(Events),
                tasks : Seq(1..MaxSends), byWire : SUBSET (1..MaxSends),
                byTask : SUBSET (1..MaxSends)]

\* Whichever of the native event and the repair comes first, and however late the
\* other, each of B's channels gets one datachannel event: a second one for the
\* same channel of A only in place of one that closed.
AnnouncedOnce == b.shown + b.event <= b.gone + (IF Live(b) THEN 1 ELSE 0)

SameRoute(m, n) == {m, n} \subseteq net.byTask \/ {m, n} \subseteq net.byWire

\* Messages of one route are dispatched in the order they were sent, each once,
\* also when the channel turns from a synthetic into a native one under them.
\* And when A closes, B's channel closes after the last message that was handed
\* over, whichever queue it is in; unless B closed it, A's drain met its deadline
\* or the channels were not linked, and but for empty messages.
CloseOvertakesNothing ==
    /\ \A i, j \in DOMAIN b.got :
           i < j /\ SameRoute(b.got[i], b.got[j]) => b.got[i] < b.got[j]
    /\ b.gone > 0 /\ ~b.closes /\ ~a.forced /\ ~a.blind =>
           (net.byTask \cup net.byWire) \ Empty \subseteq Range(b.got)

\* With a listener, and as long as nobody closes it, a channel is announced to
\* B and opens at A, also when the native event never comes.
Usable ==
    /\ p.listener /\ p.sctp /\ p.ops = 0
    /\ a.ready \in {"connecting", "open"} /\ b.ready \in {"none", "open"}
AnnouncedInTheEnd == <>[]Usable => <>(b.announced /\ b.event = 0 /\ a.opened)
=============================================================================
