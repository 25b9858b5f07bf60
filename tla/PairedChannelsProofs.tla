------------------------ MODULE PairedChannelsProofs ------------------------
(***************************************************************************)
(* A channel is announced once, for any number of messages, operations and *)
(* any order of native events, timers and closes.  And what is sent over   *)
(* it comes in order, each message once and all of them before the close:  *)
(* Delivery says of every message where it is.                             *)
(***************************************************************************)
EXTENDS PairedChannels, FiniteSetTheorems, SequenceTheorems, TLAPS

BFields == {"kind", "ready", "pending", "announced", "event", "shown", "gone",
            "hold", "held", "drain", "inbox", "got", "closes", "remote", "repair",
            "clock", "flush"}

\* What the announcements of a channel c keep true: one that has not been
\* announced has no datachannel event, and a pending one was not announced.
Fine(c) ==
    /\ DOMAIN c = BFields
    /\ c.shown \in Nat /\ c.event \in Nat /\ c.gone \in Nat
    /\ c.shown + c.event <= c.gone + (IF c.announced THEN 1 ELSE 0)
    /\ c.announced => Live(c)
    /\ c.pending => Live(c) /\ ~c.announced
    /\ c.announced \/ c.pending => c.kind # "none"
    /\ c.kind \in {"none", "synthetic", "native"}
    /\ c.ready = "closed" => c.gone > 0

\* Before its native event has come, the channel is not native.
IInv ==
    /\ Fine(b)
    /\ DOMAIN net = {"event", "wire", "tasks", "byWire", "byTask"}
    /\ net.event # "done" => b.kind # "native"

\* Scheduling a timer changes nothing of the announcement.
LEMMA Scheduling ==
    ASSUME NEW c, Fine(c)
    PROVE  /\ Fine(ScheduleRepair(c)) /\ ScheduleRepair(c).kind = c.kind
           /\ Fine(ScheduleFlush(c)) /\ ScheduleFlush(c).kind = c.kind
  BY DEF Fine, BFields, Live, ScheduleRepair, ScheduleFlush

LEMMA Announcing ==
    ASSUME NEW c, Fine(c), ~c.announced, c.kind # "none"
    PROVE  Fine(Announce(c)) /\ Announce(c).kind = c.kind
  BY DEF Fine, BFields, Live, Announce, ScheduleFlush

LEMMA Creating ==
    ASSUME NEW c, Fine(c), ~HasRemote(c)
    PROVE  Fine(CreateSynthetic(c)) /\ CreateSynthetic(c).kind = "synthetic"
  BY DEF Fine, BFields, Live, CreateSynthetic, Fresh, HasRemote

\* A new channel replaces none that lives.
LEMMA Replacing ==
    ASSUME NEW c, Fine(c), ~c.announced
    PROVE  LET d == [Fresh(c) EXCEPT !.kind = "native"]
           IN  Fine(Announce(d)) /\ Announce(d).kind = "native"
  <1> DEFINE f == Fresh(c)
             d == [f EXCEPT !.kind = "native"]
  <1>1. Fine([f EXCEPT !.pending = FALSE]) /\ Fine(f) /\ f.announced = FALSE
    BY DEF Fine, BFields, Live, Fresh
  <1> HIDE DEF f
  <1>2. Fine(d) /\ ~d.announced /\ d.kind = "native"
    BY <1>1 DEF Fine, BFields, Live
  <1> HIDE DEF d
  <1>3. Fine(Announce(d)) /\ Announce(d).kind = "native"
    BY <1>2, Announcing
  <1> QED
    BY <1>3 DEF d, f

\* Announcing what is pending and making what is missing, in one task.
LEMMA Repairing ==
    ASSUME NEW x, Fine(x), RepairMissing(x)
    PROVE  Fine(b') /\ b'.kind \in {x.kind, "synthetic"}
  <1> DEFINE c == IF x.pending THEN Announce(x) ELSE x
             made == CreateSynthetic(c)
             make == Live(a) /\ ~HasRemote(c)
  <1>1. Fine(c) /\ c.kind = x.kind
    BY Announcing DEF Fine, Live
  <1>2. b' = IF make THEN ScheduleRepair(made) ELSE [c EXCEPT !.clock = "none"]
    BY Zenon DEF RepairMissing
  <1> HIDE DEF c
  <1>3. Fine([c EXCEPT !.clock = "none"]) /\ [c EXCEPT !.clock = "none"].kind = c.kind
    BY <1>1 DEF Fine, BFields, Live
  <1>4. make => Fine(made) /\ made.kind = "synthetic"
    BY <1>1, Creating
  <1> HIDE DEF made, make
  <1> QED
    BY <1>1, <1>2, <1>3, <1>4, Scheduling

LEMMA InitIInv == Init => IInv
  BY DEF Init, IInv, Fine, BFields, Live

LEMMA RepairStep == IInv /\ RepairTimer => IInv'
  <1> SUFFICES ASSUME IInv, RepairTimer PROVE IInv'
    OBVIOUS
  <1> DEFINE c == [b EXCEPT !.repair = FALSE,
                            !.clock = IF CanRepair /\ @ = "none" THEN "grace" ELSE @]
  <1>1. Fine(c) /\ c.kind = b.kind
    BY DEF IInv, Fine, BFields, Live
  <1>2. \/ RepairMissing(c)
        \/ b' = ScheduleRepair(c) /\ net' = net
    BY DEF RepairTimer
  <1> HIDE DEF c
  <1>3. Fine(b') /\ b'.kind \in {c.kind, "synthetic"}
    BY <1>1, <1>2, Repairing, Scheduling
  <1>4. net' = net \/ net' = [net EXCEPT !.tasks = <<>>]
    BY <1>2, Zenon DEF RepairMissing, WithoutTasks
  <1>5. DOMAIN net' = DOMAIN net /\ net'.event = net.event
    BY <1>4 DEF IInv
  <1> QED
    BY <1>1, <1>3, <1>5 DEF IInv

LEMMA NativeStep == IInv /\ NativeAnnounces => IInv'
  <1> SUFFICES ASSUME IInv, NativeAnnounces PROVE IInv'
    OBVIOUS
  <1>1. DOMAIN net' = DOMAIN net /\ net'.event = "done"
    BY DEF IInv, NativeAnnounces, WithoutTasks
  <1>2. Fine(b')
    <2>1. CASE b' = Adopt(b) /\ b.kind = "synthetic" /\ b.ready # "closed"
      BY <2>1 DEF IInv, Fine, BFields, Live, Adopt, Announce, ScheduleFlush
    <2>2. CASE /\ b' = Announce([Fresh(b) EXCEPT !.kind = "native"])
               /\ ~(b.kind = "synthetic" /\ b.ready # "closed")
      <3>1. ~b.announced
        BY <2>2 DEF IInv, Fine, Live, NativeAnnounces
      <3> QED
        BY <2>2, <3>1, Replacing DEF IInv
    <2> QED
      BY <2>1, <2>2, Zenon DEF NativeAnnounces
  <1> QED
    BY <1>1, <1>2 DEF IInv

LEMMA FlushStep == IInv /\ FlushDataChannel => IInv'
  BY DEF IInv, Fine, BFields, Live, FlushDataChannel

\* What B's channel receives changes neither its announcement nor its kind.
LEMMA Receiving ==
    ASSUME NEW c, NEW e, Fine(c)
    PROVE  Fine(Receive(c, e)) /\ Receive(c, e).kind = c.kind
  BY DEF Fine, BFields, Live, Receive

LEMMA AnnouncementStep == IInv /\ AnnouncementSteps => IInv'
  <1> SUFFICES ASSUME IInv, AnnouncementSteps PROVE IInv'
    OBVIOUS
  <1>1. CASE RepairTimer
    BY <1>1, RepairStep
  <1>2. CASE NativeAnnounces
    BY <1>2, NativeStep
  <1>3. CASE FlushDataChannel
    BY <1>3, FlushStep
  <1>4. CASE PollSettled
    BY <1>4, Scheduling DEF PollSettled, IInv
  <1>5. CASE AfterSettled
    BY <1>5 DEF AfterSettled, IInv
  <1>6. CASE NativeOpen
    BY <1>6 DEF NativeOpen, IInv
  <1>7. CASE RepairMissedOpen
    BY <1>7 DEF RepairMissedOpen, IInv
  <1> QED
    BY <1>1, <1>2, <1>3, <1>4, <1>5, <1>6, <1>7 DEF AnnouncementSteps

LEMMA MessageStep == IInv /\ MessageSteps => IInv'
  <1> SUFFICES ASSUME IInv, MessageSteps PROVE IInv'
    OBVIOUS
  <1>1. CASE Send
    BY <1>1 DEF Send, Hand, IInv
  <1>2. CASE SendTail \/ SendTailFails
    BY <1>2 DEF SendTail, SendTailFails, Hand, IInv
  <1>3. CASE DeliverSynthetic
    BY <1>3, Receiving DEF DeliverSynthetic, IInv
  <1>4. CASE DeliverNative
    BY <1>4, Receiving DEF DeliverNative, IInv
  <1>5. CASE DrainHeld
    <2> DEFINE c == [b EXCEPT !.hold = FALSE, !.drain = FALSE]
               d == Receive(c, Head(b.held))
    <2>1. Fine(c) /\ c.kind = b.kind
      BY DEF IInv, Fine, BFields, Live
    <2>2. Fine(d) /\ d.kind = b.kind
      BY <2>1, Receiving
    <2>3. \/ b' = [b EXCEPT !.drain = FALSE]
          \/ b' = [d EXCEPT !.hold = b.hold, !.held = Tail(b.held),
                            !.drain = Len(b.held) > 1]
      BY <1>5 DEF DrainHeld
    <2> HIDE DEF d
    <2>4. Fine(b') /\ b'.kind = b.kind
      <3>1. CASE b' = [b EXCEPT !.drain = FALSE]
        BY <3>1 DEF IInv, Fine, BFields, Live
      <3>2. CASE b' # [b EXCEPT !.drain = FALSE]
        <4> DEFINE y == Tail(b.held)
                   z == Len(b.held) > 1
        <4>1. b' = [d EXCEPT !.hold = b.hold, !.held = y, !.drain = z]
          BY <2>3, <3>2, Zenon
        <4> HIDE DEF y, z
        <4> QED
          BY <2>2, <4>1 DEF Fine, BFields, Live
      <3> QED
        BY <3>1, <3>2
    <2>5. net' = net
      BY <1>5 DEF DrainHeld
    <2> QED
      BY <2>4, <2>5 DEF IInv
  <1>6. CASE DispatchMessage
    BY <1>6 DEF DispatchMessage, IInv, Fine, BFields, Live
  <1> QED
    BY <1>1, <1>2, <1>3, <1>4, <1>5, <1>6 DEF MessageSteps

LEMMA CloseStep == IInv /\ CloseSteps => IInv'
  <1> SUFFICES ASSUME IInv, CloseSteps PROVE IInv'
    OBVIOUS
  <1>1. CASE Close
    BY <1>1 DEF Close, IInv
  <1>2. CASE DrainPoll \/ DrainDeadline
    BY <1>2 DEF DrainPoll, DrainDeadline, IInv
  <1>3. CASE CloseNative
    BY <1>3 DEF CloseNative, IInv, Fine, BFields, Live
  <1>4. CASE CloseByB
    BY <1>4 DEF CloseByB, IInv, Fine, BFields, Live
  <1>5. CASE RemoteClose
    <2>1. net' = net /\ b' \in {b, [b EXCEPT !.remote = "closing", !.ready = "closing"]}
      BY <1>5 DEF RemoteClose
    <2>2. CASE b' = b
      BY <2>1, <2>2 DEF IInv
    <2>3. CASE b' # b
      <3>1. b' = [b EXCEPT !.remote = "closing", !.ready = "closing"]
        BY <2>1, <2>3
      <3>2. b.ready # "closed"
        BY <1>5, <2>3 DEF RemoteClose
      <3>3. Fine(b') /\ b'.kind = b.kind
        BY <3>1, <3>2 DEF IInv, Fine, BFields, Live
      <3> QED
        BY <2>1, <3>3 DEF IInv
    <2> QED
      BY <2>2, <2>3
  <1>6. CASE HandleClose
    <2> DEFINE n == b.gone + 1
               d == [b EXCEPT !.ready = "closed", !.announced = FALSE,
                              !.pending = FALSE, !.gone = n]
    <2>1. net' = net /\ b' \in {b, d}
      BY <1>6, Zenon DEF HandleClose
    <2>2. n \in Nat /\ n > 0 /\ b.shown + b.event <= n
      BY DEF IInv, Fine
    <2> HIDE DEF n
    <2>3. Fine(d) /\ d.kind = b.kind
      BY <2>2 DEF IInv, Fine, BFields, Live
    <2> HIDE DEF d
    <2> QED
      BY <2>1, <2>3 DEF IInv
  <1> QED
    BY <1>1, <1>2, <1>3, <1>4, <1>5, <1>6 DEF CloseSteps

LEMMA PeerStep == IInv /\ PeerSteps => IInv'
  <1> SUFFICES ASSUME IInv, PeerSteps PROVE IInv'
    OBVIOUS
  <1>1. CASE CreateDataChannel
    BY <1>1 DEF CreateDataChannel, IInv, Fine, BFields, Live
  <1>2. CASE StartOperation
    BY <1>2 DEF StartOperation, IInv
  <1>3. CASE Pair
    BY <1>3 DEF Pair, IInv, Fine, BFields, Live
  <1>4. CASE Negotiate
    BY <1>4, Scheduling DEF Negotiate, IInv
  <1>5. CASE FinishOperation
    BY <1>5, Scheduling DEF FinishOperation, AfterUpdate, IInv
  <1>6. CASE TransportConnects
    BY <1>6, Scheduling DEF TransportConnects, IInv
  <1>7. CASE ListenDataChannel
    BY <1>7, Scheduling DEF ListenDataChannel, IInv
  <1>8. CASE NativeConnects
    BY <1>8 DEF NativeConnects, IInv
  <1> QED
    BY <1>1, <1>2, <1>3, <1>4, <1>5, <1>6, <1>7, <1>8 DEF PeerSteps

LEMMA NextIInv == IInv /\ [Next]_vars => IInv'
  <1> SUFFICES ASSUME IInv, [Next]_vars PROVE IInv'
    OBVIOUS
  <1>1. CASE GraceEnds
    BY <1>1 DEF GraceEnds, IInv, Fine, BFields, Live
  <1>2. CASE UNCHANGED vars
    BY <1>2 DEF vars, IInv
  <1> QED
    BY <1>1, <1>2, AnnouncementStep, MessageStep, CloseStep, PeerStep DEF Next

\* B's application hears of each of B's channels once, whichever of the native
\* event, the repair and the adoption of the one by the other comes first; and of
\* a second channel only when the one before it has closed.
THEOREM AnnouncedNeverTwice == Spec => []AnnouncedOnce
  <1>1. IInv => AnnouncedOnce
    BY DEF IInv, Fine, AnnouncedOnce
  <1> QED
    BY <1>1, InitIInv, NextIInv, PTL DEF Spec

-----------------------------------------------------------------------------
LEMMA Bounds == MaxSends \in Nat /\ MaxOps \in Nat /\ MaxCloses \in Nat /\ Empty \subseteq Nat
  BY PairedChannelsAssumption DEF PairedChannelsAssumption

\* The types of the parts of the state.
Counts == 0 .. MaxSends
Numbers == 1 .. MaxSends

ARecord ==
    [ready : ReadyStates, id : BOOLEAN,
     native : {"connecting", "open", "closed"}, opened : BOOLEAN,
     deferred : {"no", "poll", "settled", "unsettled"}, expired : BOOLEAN,
     sent : Counts, tail : Counts, unacked : Counts,
     close : {"no", "drain", "close", "done"}, partner : BOOLEAN,
     forced : BOOLEAN, blind : BOOLEAN,
     remote : {"no", "deferred", "closing"}]

BRecord ==
    [kind : {"none", "synthetic", "native"}, ready : ReadyStates,
     pending : BOOLEAN, announced : BOOLEAN, event : Nat, shown : Nat, gone : Nat,
     hold : BOOLEAN, held : Seq(Counts), drain : BOOLEAN,
     inbox : Seq(Numbers), got : Seq(Numbers), closes : BOOLEAN,
     remote : {"no", "deferred", "closing"}, repair : BOOLEAN,
     clock : {"none", "grace", "ready"}, flush : BOOLEAN]

\* What A counts as unacknowledged or pending was sent.
TypeA(x) == x \in ARecord /\ x.tail + x.unacked <= x.sent

TypeB(c) == c \in BRecord

\* The operations pending were started.
TypeP ==
    /\ p \in [paired : BOOLEAN, negotiated : BOOLEAN, ops : 0..MaxOps,
              started : 0..MaxOps, sctp : BOOLEAN, listener : BOOLEAN]
    /\ p.ops <= p.started

TypeNet == net \in [event : {"none", "flying", "done"}, wire : Seq(Counts),
                    tasks : Seq(Numbers), byWire : SUBSET Numbers,
                    byTask : SUBSET Numbers]

Types == TypeA(a) /\ TypeB(b) /\ TypeP /\ TypeNet

LEMMA TypesInit == Init => Types
<1> SUFFICES ASSUME Init PROVE Types
  OBVIOUS
<1>1. 0 \in Counts /\ 0 \in 0 .. MaxOps
  BY Bounds DEF Counts
<1>2. <<>> \in Seq(Counts) /\ <<>> \in Seq(Numbers)
  OBVIOUS
<1>3. TypeA(a)
  BY <1>1 DEF Init, TypeA, ARecord, ReadyStates
<1>4. TypeB(b)
  BY <1>2 DEF Init, TypeB, BRecord, ReadyStates
<1>5. TypeP
  BY <1>1 DEF Init, TypeP
<1>6. TypeNet
  BY <1>2 DEF Init, TypeNet
<1> QED BY <1>3, <1>4, <1>5, <1>6 DEF Types

LEMMA SchedulingTypes ==
    ASSUME NEW c, TypeB(c)
    PROVE  TypeB(ScheduleRepair(c)) /\ TypeB(ScheduleFlush(c)) /\ TypeB(AfterUpdate(c))
<1>1. TypeB(ScheduleRepair(c))
  <2> DEFINE x == IF CanRepair /\ c.clock = "none" THEN "grace" ELSE c.clock
             d == [c EXCEPT !.repair = TRUE, !.clock = x]
  <2>1. x \in {"none", "grace", "ready"}
    BY DEF TypeB, BRecord
  <2> HIDE DEF x
  <2>2. TypeB(d) /\ TypeB([c EXCEPT !.clock = "none"])
    BY <2>1 DEF TypeB, BRecord
  <2>3. ScheduleRepair(c) \in {c, [c EXCEPT !.clock = "none"], d}
    BY Zenon DEF ScheduleRepair, x
  <2> QED BY <2>2, <2>3
<1>2. TypeB(ScheduleFlush(c))
  BY DEF TypeB, BRecord, ScheduleFlush
<1> QED BY <1>1, <1>2 DEF AfterUpdate

LEMMA AnnouncingTypes ==
    ASSUME NEW c, TypeB(c)
    PROVE  /\ TypeB(Announce(c)) /\ TypeB(CreateSynthetic(c)) /\ TypeB(Adopt(c))
           /\ TypeB(Announce([Fresh(c) EXCEPT !.kind = "native"]))
<1>1. ASSUME NEW d, TypeB(d) PROVE TypeB(Announce(d))
  <2> DEFINE e == [d EXCEPT !.ready = "open", !.hold = TRUE, !.announced = TRUE,
                            !.pending = FALSE, !.event = @ + 1]
  <2>1. d.event + 1 \in Nat
    BY <1>1 DEF TypeB, BRecord
  <2>2. TypeB(e)
    <3> DEFINE n == d.event + 1
    <3>1. e = [d EXCEPT !.ready = "open", !.hold = TRUE, !.announced = TRUE,
                        !.pending = FALSE, !.event = n]
      BY Zenon
    <3> HIDE DEF n
    <3> QED BY <1>1, <2>1, <3>1 DEF TypeB, BRecord, ReadyStates, n
  <2> QED BY <2>2, SchedulingTypes DEF Announce
<1>2. TypeB(Fresh(c))
  <2>1. <<>> \in Seq(Counts) /\ <<>> \in Seq(Numbers)
    OBVIOUS
  <2> QED BY <2>1 DEF TypeB, BRecord, Fresh, ReadyStates
<1> DEFINE f == Fresh(c)
           g == [f EXCEPT !.kind = "native"]
<1>4. TypeB([f EXCEPT !.kind = "synthetic", !.pending = TRUE]) /\ TypeB(g)
  <2>1. TypeB(f)
    BY <1>2
  <2> HIDE DEF f
  <2> QED BY <2>1 DEF TypeB, BRecord
<1>5. TypeB(CreateSynthetic(c))
  BY <1>4, Zenon DEF CreateSynthetic
<1>6. TypeB(Announce(g))
  <2> HIDE DEF g
  <2> QED BY <1>1, <1>4
<1>3. TypeB(Adopt(c))
  <2> DEFINE d == [c EXCEPT !.kind = "native", !.ready = "open", !.pending = FALSE]
             e == [d EXCEPT !.drain = @ \/ c.held # <<>>]
  <2>1. TypeB(d)
    BY DEF TypeB, BRecord, ReadyStates
  <2>2. TypeB(e)
    <3> DEFINE x == d.drain \/ c.held # <<>>
    <3>1. e = [d EXCEPT !.drain = x]
      BY Zenon
    <3> HIDE DEF d, x
    <3>2. ASSUME NEW y \in BOOLEAN PROVE TypeB([d EXCEPT !.drain = y])
      BY <2>1 DEF TypeB, BRecord
    <3>3. x \in BOOLEAN
      BY <2>1 DEF TypeB, BRecord, x
    <3> QED BY <3>1, <3>2, <3>3, Zenon
  <2>3. TypeB(Announce(d))
    BY <1>1, <2>1
  <2>4. Adopt(c) = IF c.announced THEN e ELSE Announce(d)
    BY Zenon DEF Adopt
  <2> QED BY <2>2, <2>3, <2>4, Zenon
<1> QED BY <1>1, <1>3, <1>5, <1>6, Zenon

LEMMA OpeningTypes ==
    ASSUME NEW x, NEW c, TypeA(x)
    PROVE  TypeA(DispatchOpen(x, c)) /\ TypeA(Open(x, c))
<1>1. ASSUME NEW y, TypeA(y) PROVE TypeA(DispatchOpen(y, c))
  <2>1. TypeA([y EXCEPT !.opened = TRUE])
    BY <1>1 DEF TypeA, ARecord
  <2>2. TypeA([y EXCEPT !.deferred = IF @ = "no" THEN "poll" ELSE @])
    BY <1>1 DEF TypeA, ARecord
  <2> QED BY <1>1, <2>1, <2>2, Zenon DEF DispatchOpen
<1>2. TypeA([x EXCEPT !.ready = "open", !.id = TRUE])
  BY DEF TypeA, ARecord, ReadyStates
<1> QED BY <1>1, <1>2, Zenon DEF Open

LEMMA ReceivingTypes ==
    ASSUME NEW c, NEW e \in Counts, TypeB(c) PROVE TypeB(Receive(c, e))
<1>1. c.held \in Seq(Counts) /\ c.inbox \in Seq(Numbers)
  BY DEF TypeB, BRecord
<1>2. Append(c.held, e) \in Seq(Counts)
  BY <1>1
<1>3. e # CloseMark => Append(c.inbox, e) \in Seq(Numbers)
  <2>1. e # CloseMark => e \in Numbers
    BY Bounds DEF Counts, Numbers, CloseMark
  <2> QED BY <1>1, <2>1
<1>4. TypeB([c EXCEPT !.held = Append(@, e)])
  BY <1>2 DEF TypeB, BRecord
<1>5. e # CloseMark => TypeB([c EXCEPT !.inbox = Append(@, e)])
  BY <1>3 DEF TypeB, BRecord
<1>6. TypeB([c EXCEPT !.remote = IF @ = "no" THEN "deferred" ELSE @])
  BY DEF TypeB, BRecord
<1> QED BY <1>4, <1>5, <1>6, Zenon DEF Receive

\* A's record forgets the old channel, and its tasks go.
LEMMA LeavingTypes ==
    /\ \A x : TypeA(x) => TypeA(LeaveOld(x))
    /\ TypeNet => WithoutTasks(net) \in [event : {"none", "flying", "done"},
                     wire : Seq(Counts), tasks : Seq(Numbers),
                     byWire : SUBSET Numbers, byTask : SUBSET Numbers]
<1>1. ASSUME NEW x, TypeA(x) PROVE TypeA(LeaveOld(x))
  BY <1>1 DEF TypeA, ARecord, LeaveOld
<1>2. <<>> \in Seq(Numbers)
  OBVIOUS
<1> QED BY <1>1, <1>2 DEF TypeNet, WithoutTasks

\* Repairing announces what is pending, and makes a channel that is missing.
LEMMA RepairingTypes ==
    ASSUME NEW x, TypeB(x), TypeA(a), TypeNet, RepairMissing(x)
    PROVE  TypeA(a') /\ TypeB(b') /\ TypeNet'
<1> DEFINE c == IF x.pending THEN Announce(x) ELSE x
           make == Live(a) /\ ~HasRemote(c)
           made == CreateSynthetic(c)
           opened == IF x.pending /\ a.ready = "connecting" THEN Open(a, c) ELSE a
           known == [opened EXCEPT !.id = @ \/ Live(a)]
<1>1. TypeB(c)
  BY AnnouncingTypes
<1>2. TypeB(made) /\ TypeB([c EXCEPT !.clock = "none"])
  <2> HIDE DEF c
  <2>1. TypeB([c EXCEPT !.clock = "none"])
    BY <1>1 DEF TypeB, BRecord
  <2> QED BY <1>1, <2>1, AnnouncingTypes
<1>3. TypeA(known)
  <2>1. TypeA(opened)
    BY OpeningTypes
  <2> DEFINE i == opened.id \/ Live(a)
  <2>2. known = [opened EXCEPT !.id = i]
    BY Zenon
  <2> HIDE DEF opened
  <2>3. i \in BOOLEAN
    BY <2>1 DEF TypeA, ARecord
  <2> HIDE DEF i
  <2>4. TypeA([opened EXCEPT !.id = i])
    BY <2>1, <2>3 DEF TypeA, ARecord
  <2> QED BY <2>2, <2>4, Zenon
<1>4. \/ a' = LeaveOld(known) /\ b' = ScheduleRepair(made) /\ net' = WithoutTasks(net)
      \/ a' = known /\ b' = [c EXCEPT !.clock = "none"] /\ net' = net
  BY Zenon DEF RepairMissing
<1> HIDE DEF c, made, known
<1>5. CASE a' = LeaveOld(known) /\ b' = ScheduleRepair(made) /\ net' = WithoutTasks(net)
  BY <1>2, <1>3, <1>5, LeavingTypes, SchedulingTypes DEF TypeNet
<1>6. CASE a' = known /\ b' = [c EXCEPT !.clock = "none"] /\ net' = net
  BY <1>2, <1>3, <1>6 DEF TypeNet
<1> QED BY <1>4, <1>5, <1>6

LEMMA AnnouncementTypes == Types /\ AnnouncementSteps => Types'
<1> SUFFICES ASSUME Types, AnnouncementSteps PROVE Types'
  OBVIOUS
<1>0. TypeA(a) /\ TypeB(b) /\ TypeP /\ TypeNet
  BY DEF Types
<1>1. p' = p /\ TypeP'
  <2>1. p' = p
    BY DEF AnnouncementSteps, RepairTimer, NativeAnnounces, FlushDataChannel,
           PollSettled, AfterSettled, NativeOpen, RepairMissedOpen
  <2> QED BY <1>0, <2>1 DEF TypeP
<1>2. CASE RepairTimer
  <2> DEFINE c == [b EXCEPT !.repair = FALSE,
                            !.clock = IF CanRepair /\ @ = "none" THEN "grace" ELSE @]
  <2>1. TypeB(c)
    BY <1>0 DEF TypeB, BRecord
  <2>2. \/ RepairMissing(c)
        \/ b' = ScheduleRepair(c) /\ a' = a /\ net' = net
    BY <1>2 DEF RepairTimer
  <2> HIDE DEF c
  <2>3. TypeA(a') /\ TypeB(b') /\ TypeNet'
    <3>1. CASE RepairMissing(c)
      BY <1>0, <2>1, <3>1, RepairingTypes
    <3>2. CASE b' = ScheduleRepair(c) /\ a' = a /\ net' = net
      BY <1>0, <2>1, <3>2, SchedulingTypes DEF TypeNet
    <3> QED BY <2>2, <3>1, <3>2
  <2> QED BY <1>1, <2>3 DEF Types
<1>3. CASE NativeAnnounces
  <2> DEFINE n == WithoutTasks(net)
             d == Announce([Fresh(b) EXCEPT !.kind = "native"])
  <2>1. \/ b' = Adopt(b) /\ net' = [net EXCEPT !.event = "done"] /\ a' = a
        \/ b' = d /\ net' = [n EXCEPT !.event = "done"] /\ a' = LeaveOld(a)
    BY <1>3, Zenon DEF NativeAnnounces
  <2>2. TypeB(b') /\ TypeA(a')
    <3>1. TypeB(d) /\ TypeB(Adopt(b))
      BY <1>0, AnnouncingTypes
    <3> HIDE DEF d
    <3> QED BY <1>0, <2>1, <3>1, LeavingTypes
  <2>3. n \in [event : {"none", "flying", "done"},
               wire : Seq(Counts), tasks : Seq(Numbers),
               byWire : SUBSET Numbers, byTask : SUBSET Numbers]
    BY <1>0, LeavingTypes
  <2> HIDE DEF n, d
  <2>4. TypeNet'
    BY <1>0, <2>1, <2>3 DEF TypeNet
  <2> QED BY <1>1, <2>2, <2>4 DEF Types
<1>4. CASE FlushDataChannel
  <2> DEFINE n == b.shown + b.event
             d == [b EXCEPT !.flush = FALSE, !.event = 0, !.shown = n,
                            !.hold = FALSE, !.drain = @ \/ b.held # <<>>]
  <2>1. n \in Nat
    BY <1>0 DEF TypeB, BRecord
  <2>2. \/ b' = [b EXCEPT !.flush = FALSE]
        \/ b' = d
    BY <1>4, Zenon DEF FlushDataChannel
  <2> HIDE DEF n
  <2>3. TypeB(d) /\ TypeB([b EXCEPT !.flush = FALSE])
    BY <1>0, <2>1 DEF TypeB, BRecord
  <2>4. a' = a /\ net' = net
    BY <1>4 DEF FlushDataChannel
  <2> QED BY <1>0, <1>1, <2>2, <2>3, <2>4 DEF Types, TypeNet
<1>5. CASE PollSettled
  <2>1. TypeA([a EXCEPT !.deferred = IF Settled(b) THEN "settled" ELSE "unsettled"])
    BY <1>0 DEF TypeA, ARecord
  <2>2. /\ net' = net
        /\ \/ /\ a' = [a EXCEPT !.deferred = IF Settled(b) THEN "settled" ELSE "unsettled"]
              /\ b' = b
           \/ /\ b' = ScheduleFlush(ScheduleRepair(b))
              /\ a' = a
    BY <1>5 DEF PollSettled
  <2> QED BY <1>0, <1>1, <2>1, <2>2, SchedulingTypes DEF Types, TypeNet
<1>6. CASE AfterSettled
  <2> DEFINE x == [a EXCEPT !.deferred = "no",
                            !.expired = @ \/ a.deferred = "unsettled"]
  <2>1. TypeA(x)
    BY <1>0 DEF TypeA, ARecord
  <2>2. a' = DispatchOpen(x, b) /\ b' = b /\ net' = net
    BY <1>6 DEF AfterSettled
  <2> HIDE DEF x
  <2> QED BY <1>0, <1>1, <2>1, <2>2, OpeningTypes DEF Types, TypeNet
<1>7. CASE NativeOpen
  BY <1>0, <1>1, <1>7, OpeningTypes DEF NativeOpen, Types, TypeNet
<1>8. CASE RepairMissedOpen
  BY <1>0, <1>1, <1>8, OpeningTypes DEF RepairMissedOpen, Types, TypeNet
<1> QED BY <1>2, <1>3, <1>4, <1>5, <1>6, <1>7, <1>8 DEF AnnouncementSteps
\* What is taken from a queue has the type of its entries.
LEMMA Taking ==
    ASSUME NEW T, NEW s \in Seq(T), s # <<>>
    PROVE  Head(s) \in T /\ Tail(s) \in Seq(T) /\ Len(s) \in Nat
  BY HeadTailProperties

\* Handing over a message counts it as unacknowledged, at the most.
LEMMA HandingTypes ==
    ASSUME NEW x, TypeA(x), x.tail + x.unacked < x.sent, TypeNet, Hand(x)
    PROVE  TypeA(a') /\ TypeNet'
<1> DEFINE m == x.sent - x.tail
           n == x.unacked + 1
<1>1. x.sent \in Counts /\ x.tail \in Counts /\ x.unacked \in Counts
  BY DEF TypeA, ARecord
<1>2. m \in Numbers /\ m \in Counts
  BY <1>1, Bounds DEF Counts, Numbers
<1>3. n \in Counts /\ x.tail + n <= x.sent
  BY <1>1, Bounds DEF Counts
<1> DEFINE k == IF Linked /\ m \notin Empty THEN n ELSE x.unacked
           l == x.blind \/ ~Linked
           tasked == net.byTask \cup {m}
           wired == net.byWire \cup {m}
           tasks == Append(net.tasks, m)
           wire == Append(net.wire, m)
<1>4. /\ a' = [x EXCEPT !.unacked = k, !.blind = l]
      /\ net' = IF Synthetic THEN [net EXCEPT !.tasks = tasks, !.byTask = tasked]
                ELSE [net EXCEPT !.wire = wire, !.byWire = wired]
  BY Zenon DEF Hand
<1>5. wire \in Seq(Counts) /\ tasks \in Seq(Numbers)
  BY <1>2 DEF TypeNet
<1>6. tasked \in SUBSET Numbers /\ wired \in SUBSET Numbers
  BY <1>2 DEF TypeNet
<1>7. k \in Counts /\ x.tail + k <= x.sent /\ l \in BOOLEAN
  BY <1>1, <1>3 DEF TypeA, ARecord
<1> HIDE DEF m, n, k, l, tasked, wired, tasks, wire
<1>8. TypeA(a')
  BY <1>4, <1>7 DEF TypeA, ARecord
<1>9. TypeNet'
  BY <1>4, <1>5, <1>6 DEF TypeNet
<1> QED BY <1>8, <1>9

LEMMA SendTypes == Types /\ Send => Types'
<1> SUFFICES ASSUME Types, Send PROVE Types'
  OBVIOUS
<1> DEFINE n == a.sent + 1
           k == a.tail + 1
           x == [a EXCEPT !.sent = n]
<1>0. TypeA(a) /\ TypeB(b) /\ TypeP /\ TypeNet
  BY DEF Types
<1>1. /\ a.sent \in Counts /\ a.tail \in Counts /\ a.unacked \in Counts
      /\ a.tail + a.unacked <= a.sent
  BY <1>0 DEF TypeA, ARecord
<1>2. a.sent < MaxSends
  BY DEF Send
<1>3. /\ n \in Counts /\ k \in Counts
      /\ a.tail + a.unacked < n /\ k + a.unacked <= n
  BY <1>1, <1>2, Bounds DEF Counts
<1>4. /\ b' = b /\ p' = p
      /\ \/ a' = [x EXCEPT !.tail = k] /\ net' = net
         \/ a.tail = 0 /\ Hand(x)
  <2>1. x.tail = a.tail
    BY <1>0 DEF TypeA, ARecord
  <2> QED BY <2>1, Zenon DEF Send
<1> HIDE DEF n, k
<1>5. /\ TypeA(x) /\ x.tail = a.tail /\ x.unacked = a.unacked /\ x.sent = n
      /\ TypeA([x EXCEPT !.tail = k])
  <2>1. x \in ARecord /\ x.tail = a.tail /\ x.unacked = a.unacked /\ x.sent = n
    BY <1>0, <1>3 DEF TypeA, ARecord
  <2>2. a.tail + a.unacked <= n
    BY <1>1, <1>3 DEF Counts
  <2>3. TypeA(x)
    BY <2>1, <2>2 DEF TypeA
  <2> HIDE DEF x
  <2>4. TypeA([x EXCEPT !.tail = k])
    BY <2>1, <1>3 DEF TypeA, ARecord
  <2> QED BY <2>1, <2>3, <2>4
<1> HIDE DEF x
<1>6. TypeA(a') /\ TypeNet'
  <2>1. CASE Hand(x)
    BY <1>0, <1>3, <1>5, <2>1, HandingTypes
  <2>2. CASE a' = [x EXCEPT !.tail = k] /\ net' = net
    BY <1>0, <1>5, <2>2 DEF TypeNet
  <2> QED BY <1>4, <2>1, <2>2
<1> QED BY <1>0, <1>4, <1>6 DEF Types, TypeP

LEMMA SendTailTypes == Types /\ SendTail => Types'
<1> SUFFICES ASSUME Types, SendTail PROVE Types'
  OBVIOUS
<1> DEFINE k == a.tail - 1
           x == [a EXCEPT !.tail = k]
<1>0. TypeA(a) /\ TypeB(b) /\ TypeP /\ TypeNet
  BY DEF Types
<1>1. /\ a.sent \in Counts /\ a.tail \in Counts /\ a.unacked \in Counts
      /\ a.tail + a.unacked <= a.sent
  BY <1>0 DEF TypeA, ARecord
<1>2. a.tail > 0
  BY DEF SendTail
<1>3. k \in Counts /\ k + a.unacked < a.sent
  BY <1>1, <1>2, Bounds DEF Counts
<1>4. b' = b /\ p' = p /\ Hand(x)
  BY Zenon DEF SendTail
<1>5. k + a.unacked <= a.sent
  BY <1>1, <1>3 DEF Counts
<1> HIDE DEF k
<1>6. TypeA(x) /\ x.tail = k /\ x.unacked = a.unacked /\ x.sent = a.sent
  BY <1>0, <1>3, <1>5 DEF TypeA, ARecord
<1> HIDE DEF x
<1>7. TypeA(a') /\ TypeNet'
  BY <1>0, <1>3, <1>4, <1>6, HandingTypes
<1> QED BY <1>0, <1>4, <1>7 DEF Types, TypeP

LEMMA SendTailFailsTypes == Types /\ SendTailFails => Types'
<1> SUFFICES ASSUME Types, SendTailFails PROVE Types'
  OBVIOUS
<1> DEFINE k == a.tail - 1
<1>0. TypeA(a) /\ TypeB(b) /\ TypeP /\ TypeNet
  BY DEF Types
<1>1. k \in Counts /\ k + a.unacked <= a.sent
  BY <1>0, Bounds DEF SendTailFails, TypeA, ARecord, Counts
<1>2. a' = [a EXCEPT !.tail = k] /\ b' = b /\ p' = p /\ net' = net
  BY Zenon DEF SendTailFails
<1> HIDE DEF k
<1>3. TypeA(a')
  BY <1>0, <1>1, <1>2 DEF TypeA, ARecord
<1> QED BY <1>0, <1>2, <1>3 DEF Types, TypeP, TypeNet

LEMMA DispatchTypes == Types /\ DispatchMessage => Types'
<1> SUFFICES ASSUME Types, DispatchMessage PROVE Types'
  OBVIOUS
<1> DEFINE n == a.unacked - 1
           s == Tail(b.inbox)
           m == Head(b.inbox)
           t == Append(b.got, Head(b.inbox))
<1>0. TypeA(a) /\ TypeB(b) /\ TypeP /\ TypeNet
  BY DEF Types
<1>1. a.unacked \in Counts /\ a.tail \in Counts /\ a.sent \in Counts
  BY <1>0 DEF TypeA, ARecord
<1>2. b.inbox \in Seq(Numbers) /\ b.got \in Seq(Numbers)
  BY <1>0 DEF TypeB, BRecord
<1>3. /\ b.inbox # <<>>
      /\ b' = [b EXCEPT !.inbox = s, !.got = t]
      /\ a' = Acknowledge(a, m) /\ p' = p /\ net' = net
  BY Zenon DEF DispatchMessage
<1>4. s \in Seq(Numbers) /\ t \in Seq(Numbers)
  BY <1>2, <1>3, Taking
<1>5. a.unacked > 0 => n \in Counts /\ a.tail + n <= a.tail + a.unacked
  BY <1>1, Bounds DEF Counts
<1>6. 0 \in Counts /\ a.tail + 0 <= a.tail + a.unacked
  BY <1>1, Bounds DEF Counts
<1> HIDE DEF m
<1>7. TypeA(Acknowledge(a, m))
  <2> DEFINE k == IF a.unacked > 0 THEN n ELSE 0
  <2>1. k \in Counts /\ a.tail + k <= a.tail + a.unacked
    BY <1>5, <1>6
  <2>2. k \in Counts /\ a.tail + k <= a.sent
    BY <1>0, <1>1, <2>1 DEF TypeA, Counts
  <2>3. Acknowledge(a, m) = IF Linked /\ m \notin Empty THEN [a EXCEPT !.unacked = k] ELSE a
    BY Zenon DEF Acknowledge
  <2> HIDE DEF k
  <2> QED BY <1>0, <2>2, <2>3 DEF TypeA, ARecord
<1> HIDE DEF s, t
<1>8. TypeB([b EXCEPT !.inbox = s, !.got = t])
  BY <1>0, <1>4 DEF TypeB, BRecord
<1> QED BY <1>0, <1>3, <1>7, <1>8 DEF Types, TypeP, TypeNet

LEMMA DrainTypes == Types /\ DrainHeld => Types'
<1> SUFFICES ASSUME Types, DrainHeld PROVE Types'
  OBVIOUS
<1> DEFINE c == [b EXCEPT !.hold = FALSE, !.drain = FALSE]
           d == Receive(c, Head(b.held))
           s == Tail(b.held)
<1>0. TypeA(a) /\ TypeB(b) /\ TypeP /\ TypeNet
  BY DEF Types
<1>1. TypeB(c) /\ TypeB([b EXCEPT !.drain = FALSE])
  BY <1>0 DEF TypeB, BRecord
<1>2. b.held \in Seq(Counts) /\ b.hold \in BOOLEAN
  BY <1>0 DEF TypeB, BRecord
<1>3. b.held # <<>> => TypeB(d) /\ s \in Seq(Counts)
  <2> SUFFICES ASSUME b.held # <<>> PROVE TypeB(d) /\ s \in Seq(Counts)
    OBVIOUS
  <2>1. Head(b.held) \in Counts /\ s \in Seq(Counts)
    BY <1>2, Taking
  <2> HIDE DEF c
  <2> QED BY <1>1, <2>1, ReceivingTypes
<1> DEFINE more == Len(b.held) > 1
<1>4. /\ a' = a /\ p' = p /\ net' = net
      /\ b' = IF b.held = <<>> THEN [b EXCEPT !.drain = FALSE]
              ELSE [d EXCEPT !.hold = b.hold, !.held = s, !.drain = more]
  BY Zenon DEF DrainHeld
<1>5. more \in BOOLEAN
  OBVIOUS
<1> HIDE DEF c, d, s, more
<1>6. TypeB(d) /\ s \in Seq(Counts) =>
        TypeB([d EXCEPT !.hold = b.hold, !.held = s, !.drain = more])
  BY <1>2, <1>5 DEF TypeB, BRecord
<1> QED BY <1>0, <1>1, <1>3, <1>4, <1>6 DEF Types, TypeP, TypeNet

LEMMA MessageTypes == Types /\ MessageSteps => Types'
<1> SUFFICES ASSUME Types, MessageSteps PROVE Types'
  OBVIOUS
<1>0. TypeA(a) /\ TypeB(b) /\ TypeP /\ TypeNet
  BY DEF Types
<1>1. CASE DeliverSynthetic
  <2> DEFINE s == Tail(net.tasks)
             e == Head(net.tasks)
  <2>1. /\ net.tasks # <<>> /\ net' = [net EXCEPT !.tasks = s]
        /\ b' = Receive(b, e) /\ a' = a /\ p' = p
    BY <1>1, Zenon DEF DeliverSynthetic
  <2>2. net.tasks \in Seq(Numbers)
    BY <1>0 DEF TypeNet
  <2>3. s \in Seq(Numbers) /\ e \in Numbers
    BY <2>1, <2>2, Taking
  <2>4. e \in Counts
    BY <2>3, Bounds DEF Counts, Numbers
  <2> HIDE DEF s, e
  <2>5. TypeB(b')
    BY <1>0, <2>1, <2>4, ReceivingTypes
  <2>6. TypeNet'
    BY <1>0, <2>1, <2>3 DEF TypeNet
  <2> QED BY <1>0, <2>1, <2>5, <2>6 DEF Types, TypeP
<1>2. CASE DeliverNative
  <2> DEFINE s == Tail(net.wire)
             e == Head(net.wire)
  <2>1. /\ net.wire # <<>> /\ net' = [net EXCEPT !.wire = s]
        /\ b' = Receive(b, e) /\ a' = a /\ p' = p
    BY <1>2, Zenon DEF DeliverNative
  <2>2. net.wire \in Seq(Counts)
    BY <1>0 DEF TypeNet
  <2>3. s \in Seq(Counts) /\ e \in Counts
    BY <2>1, <2>2, Taking
  <2> HIDE DEF s, e
  <2>5. TypeB(b')
    BY <1>0, <2>1, <2>3, ReceivingTypes
  <2>6. TypeNet'
    BY <1>0, <2>1, <2>3 DEF TypeNet
  <2> QED BY <1>0, <2>1, <2>5, <2>6 DEF Types, TypeP
<1> QED BY <1>1, <1>2, SendTypes, SendTailTypes, SendTailFailsTypes, DrainTypes, DispatchTypes
        DEF MessageSteps
LEMMA CloseTypes == Types /\ CloseSteps => Types'
<1> SUFFICES ASSUME Types, CloseSteps PROVE Types'
  OBVIOUS
<1>0. TypeA(a) /\ TypeB(b) /\ TypeP /\ TypeNet
  BY DEF Types
<1>1. p' = p
  BY DEF CloseSteps, Close, DrainPoll, DrainDeadline, CloseNative, CloseByB, RemoteClose, HandleClose
<1>2. TypeA([a EXCEPT !.remote = IF @ = "no" THEN "deferred" ELSE @])
  BY <1>0 DEF TypeA, ARecord
<1>3. TypeB([b EXCEPT !.remote = IF @ = "no" THEN "deferred" ELSE @])
  BY <1>0 DEF TypeB, BRecord
<1>4. CASE Close
  <2>1. ASSUME NEW l \in BOOLEAN, NEW k \in {"drain", "close"}
        PROVE  TypeA([a EXCEPT !.ready = "closing", !.partner = l, !.close = k])
    BY <1>0 DEF TypeA, ARecord, ReadyStates
  <2>2. Linked \in BOOLEAN
    BY DEF Linked
  <2>3. PICK k \in {"drain", "close"} :
          a' = [a EXCEPT !.ready = "closing", !.partner = Linked, !.close = k]
    BY <1>4 DEF Close
  <2>4. b' = b /\ net' = net
    BY <1>4 DEF Close
  <2> QED BY <1>0, <1>1, <2>1, <2>2, <2>3, <2>4 DEF Types, TypeP, TypeNet
<1>5. CASE DrainPoll \/ DrainDeadline
  <2>1. /\ TypeA([a EXCEPT !.close = "close"])
        /\ TypeA([a EXCEPT !.close = "close", !.forced = TRUE])
    BY <1>0 DEF TypeA, ARecord
  <2> QED BY <1>0, <1>1, <1>5, <2>1 DEF DrainPoll, DrainDeadline, Types, TypeP, TypeNet
<1>6. CASE CloseNative
  <2> DEFINE s == Append(net.wire, CloseMark)
  <2>1. TypeA([a EXCEPT !.close = "done", !.native = "closed", !.remote = "closing"])
    BY <1>0 DEF TypeA, ARecord
  <2>2. CloseMark \in Counts
    BY Bounds DEF Counts, CloseMark
  <2>3. s \in Seq(Counts)
    BY <1>0, <2>2 DEF TypeNet
  <2>4. /\ a' = [a EXCEPT !.close = "done", !.native = "closed", !.remote = "closing"]
        /\ b' \in {b, [b EXCEPT !.remote = IF @ = "no" THEN "deferred" ELSE @]}
        /\ net' = [net EXCEPT !.wire = IF a.native = "open" THEN s ELSE @]
    BY <1>6, Zenon DEF CloseNative
  <2> HIDE DEF s
  <2>5. TypeNet'
    BY <1>0, <2>3, <2>4 DEF TypeNet
  <2> QED BY <1>0, <1>1, <1>3, <2>1, <2>4, <2>5 DEF Types, TypeP
<1>7. CASE CloseByB
  <2>1. TypeB([b EXCEPT !.ready = "closing", !.closes = TRUE, !.remote = "closing"])
    BY <1>0 DEF TypeB, BRecord, ReadyStates
  <2>2. /\ b' = [b EXCEPT !.ready = "closing", !.closes = TRUE, !.remote = "closing"]
        /\ a' \in {a, [a EXCEPT !.remote = IF @ = "no" THEN "deferred" ELSE @]}
        /\ net' = net
    BY <1>7, Zenon DEF CloseByB
  <2> QED BY <1>0, <1>1, <1>2, <2>1, <2>2 DEF Types, TypeP, TypeNet
<1>8. CASE RemoteClose
  <2>1. TypeA([a EXCEPT !.remote = "closing", !.ready = "closing"])
    BY <1>0 DEF TypeA, ARecord, ReadyStates
  <2>2. TypeB([b EXCEPT !.remote = "closing", !.ready = "closing"])
    BY <1>0 DEF TypeB, BRecord, ReadyStates
  <2>3. /\ a' \in {a, [a EXCEPT !.remote = "closing", !.ready = "closing"]}
        /\ b' \in {b, [b EXCEPT !.remote = "closing", !.ready = "closing"]}
        /\ net' = net
    BY <1>8, Zenon DEF RemoteClose
  <2> QED BY <1>0, <1>1, <2>1, <2>2, <2>3 DEF Types, TypeP, TypeNet
<1>9. CASE HandleClose
  <2>1. TypeA([a EXCEPT !.ready = "closed"])
    BY <1>0 DEF TypeA, ARecord, ReadyStates
  <2> DEFINE n == b.gone + 1
             d == [b EXCEPT !.ready = "closed", !.announced = FALSE, !.pending = FALSE,
                            !.gone = n]
  <2>2. /\ a' \in {a, [a EXCEPT !.ready = "closed"]}
        /\ b' \in {b, d}
        /\ net' = net
    BY <1>9, Zenon DEF HandleClose
  <2>3. n \in Nat
    BY <1>0 DEF TypeB, BRecord
  <2> HIDE DEF n
  <2>4. TypeB(d)
    BY <1>0, <2>3 DEF TypeB, BRecord, ReadyStates
  <2> QED BY <1>0, <1>1, <2>1, <2>2, <2>4 DEF Types, TypeP, TypeNet
<1> QED BY <1>4, <1>5, <1>6, <1>7, <1>8, <1>9 DEF CloseSteps

LEMMA PeerTypes == Types /\ PeerSteps => Types'
<1> SUFFICES ASSUME Types, PeerSteps PROVE Types'
  OBVIOUS
<1>0. TypeA(a) /\ TypeB(b) /\ TypeP /\ TypeNet
  BY DEF Types
<1>1. TypeA([a EXCEPT !.id = TRUE])
  BY <1>0 DEF TypeA, ARecord
<1>2. TypeB([b EXCEPT !.repair = TRUE])
  BY <1>0 DEF TypeB, BRecord
<1>3. CASE CreateDataChannel
  <2>1. TypeA([a EXCEPT !.ready = "connecting"])
    BY <1>0 DEF TypeA, ARecord, ReadyStates
  <2>2. TypeB([b EXCEPT !.repair = TRUE, !.clock = IF CanRepair THEN "grace" ELSE "none"])
    BY <1>0 DEF TypeB, BRecord
  <2> QED BY <1>0, <1>3, <2>1, <2>2 DEF CreateDataChannel, Types, TypeP, TypeNet
<1>4. CASE StartOperation
  <2> DEFINE n == p.ops + 1
             k == p.started + 1
  <2>1. /\ p.ops \in 0..MaxOps /\ p.started \in 0..MaxOps
        /\ p.ops <= p.started
    BY <1>0 DEF TypeP
  <2>2. p.started < MaxOps
    BY <1>4 DEF StartOperation
  <2>3. n \in 0..MaxOps /\ k \in 0..MaxOps /\ n <= k
    BY <2>1, <2>2, Bounds
  <2>4. /\ p' = [p EXCEPT !.ops = n, !.started = k]
        /\ a' = a /\ b' = b /\ net' = net
    BY <1>4, Zenon DEF StartOperation
  <2> HIDE DEF n, k
  <2>5. TypeP'
    BY <1>0, <2>3, <2>4 DEF TypeP
  <2> QED BY <1>0, <2>4, <2>5 DEF Types, TypeNet
<1>5. CASE Pair
  <2>1. [p EXCEPT !.paired = TRUE].ops = p.ops
    BY <1>0 DEF TypeP
  <2>2. p' = [p EXCEPT !.paired = TRUE]
    BY <1>5 DEF Pair
  <2>3. TypeP'
    BY <1>0, <2>2 DEF TypeP
  <2>4. a' = a /\ net' = net /\ b' \in {b, [b EXCEPT !.repair = TRUE]}
    BY <1>5, Zenon DEF Pair
  <2> QED BY <1>0, <1>2, <2>3, <2>4 DEF Types, TypeNet
<1>6. CASE Negotiate
  <2>1. p' = [p EXCEPT !.negotiated = TRUE]
    BY <1>6 DEF Negotiate
  <2>2. TypeP'
    BY <1>0, <2>1 DEF TypeP
  <2>3. /\ net' = net
        /\ a' \in {a, [a EXCEPT !.id = TRUE]}
        /\ b' \in {b, ScheduleRepair(b)}
    BY <1>6, Zenon DEF Negotiate
  <2>4. TypeA(a')
    BY <1>0, <2>3, <1>1
  <2>5. TypeB(b')
    BY <1>0, <2>3, SchedulingTypes
  <2> QED BY <1>0, <2>2, <2>3, <2>4, <2>5 DEF Types, TypeNet
<1>7. CASE FinishOperation
  <2> DEFINE n == p.ops - 1
  <2>1. /\ p.ops \in 0..MaxOps /\ p.started \in 0..MaxOps
        /\ p.ops <= p.started
    BY <1>0 DEF TypeP
  <2>2. p.ops > 0
    BY <1>7 DEF FinishOperation
  <2>3. n \in 0..MaxOps /\ n <= p.started
    BY <2>1, <2>2, Bounds
  <2>4. /\ p' = [p EXCEPT !.ops = n]
        /\ a' = a /\ b' = AfterUpdate(b) /\ net' = net
    BY <1>7, Zenon DEF FinishOperation
  <2> HIDE DEF n
  <2>5. TypeP'
    BY <1>0, <2>3, <2>4 DEF TypeP
  <2> QED BY <1>0, <2>4, <2>5, SchedulingTypes DEF Types, TypeNet
<1>8. CASE TransportConnects
  <2>1. p' = [p EXCEPT !.sctp = TRUE]
    BY <1>8 DEF TransportConnects
  <2>2. TypeP'
    BY <1>0, <2>1 DEF TypeP
  <2> QED BY <1>0, <1>8, <2>2, SchedulingTypes DEF TransportConnects, Types, TypeNet
<1>9. CASE ListenDataChannel
  <2>1. p' = [p EXCEPT !.listener = TRUE]
    BY <1>9 DEF ListenDataChannel
  <2>2. TypeP'
    BY <1>0, <2>1 DEF TypeP
  <2> QED BY <1>0, <1>9, <2>2, SchedulingTypes DEF ListenDataChannel, Types, TypeNet
<1>10. CASE NativeConnects
  <2>1. TypeA([a EXCEPT !.native = "open", !.id = TRUE])
    BY <1>0 DEF TypeA, ARecord
  <2>2. net' = [net EXCEPT !.event = "flying"]
    BY <1>10 DEF NativeConnects
  <2>3. TypeNet'
    BY <1>0, <2>2 DEF TypeNet
  <2> QED BY <1>0, <1>10, <2>1, <2>3 DEF NativeConnects, Types, TypeP
<1> QED BY <1>3, <1>4, <1>5, <1>6, <1>7, <1>8, <1>9, <1>10 DEF PeerSteps

LEMMA NextTypes == Types /\ [Next]_vars => Types'
<1> SUFFICES ASSUME Types, [Next]_vars PROVE Types'
  OBVIOUS
<1>0. TypeA(a) /\ TypeB(b) /\ TypeP /\ TypeNet
  BY DEF Types
<1>1. CASE GraceEnds
  <2>1. TypeB([b EXCEPT !.clock = "ready"])
    BY <1>0 DEF TypeB, BRecord
  <2> QED BY <1>0, <1>1, <2>1 DEF GraceEnds, Types, TypeP, TypeNet
<1>2. CASE UNCHANGED vars
  BY <1>0, <1>2 DEF vars, Types, TypeP, TypeNet
<1> QED BY <1>1, <1>2, AnnouncementTypes, MessageTypes, CloseTypes, PeerTypes DEF Next

\* Every variable keeps its type: what A waits for, or has still to hand over,
\* it has sent, and the operations under way have started.
THEOREM TypeCorrect == Spec => []TypeOK
<1>1. Types => TypeOK
  <2> SUFFICES ASSUME Types PROVE TypeOK
    OBVIOUS
  <2>0. TypeA(a) /\ TypeB(b) /\ TypeP /\ TypeNet
    BY DEF Types
  <2>1. a \in ARecord /\ b \in BRecord
    BY <2>0 DEF TypeA, TypeB
  <2> QED BY <2>0, <2>1, Zenon
          DEF TypeOK, TypeP, TypeNet, ARecord, BRecord, Events, Counts, Numbers
<1> QED BY <1>1, TypesInit, NextTypes, PTL DEF Spec

-----------------------------------------------------------------------------
(***************************************************************************)
(* The messages on their way.  A message that was handed over by a route   *)
(* is dispatched, in the inbox, held or in the route's queue, or was lost  *)
(* with a channel that closed.                                             *)
(***************************************************************************)

\* In s the members of R come in their order.
Ordered(R, s) ==
    \A i, j \in DOMAIN s : i < j /\ s[i] \in R /\ s[j] \in R => s[i] < s[j]

Below(R, S, T) == \A m \in S \cap R, n \in T \cap R : m < n

\* So they do across the queues of the route R, the oldest in g.
InLine(R, g, i, h, q) ==
    /\ Ordered(R, g) /\ Ordered(R, i) /\ Ordered(R, h) /\ Ordered(R, q)
    /\ Below(R, Range(g), Range(i)) /\ Below(R, Range(g), Range(h))
    /\ Below(R, Range(g), Range(q)) /\ Below(R, Range(i), Range(h))
    /\ Below(R, Range(i), Range(q)) /\ Below(R, Range(h), Range(q))

Handed == net.byTask \cup net.byWire

\* Neither B's application nor a deadline nor a send without a link disturbs.
Clean == ~b.closes /\ ~a.forced /\ ~a.blind

Ended == a.close \in {"close", "done"}

\* What B has not acknowledged.
Waiting == (Handed \ Empty) \ Range(b.got)

Places ==
    /\ Range(b.got) \subseteq Handed /\ Range(b.inbox) \subseteq Handed
    /\ Range(b.held) \subseteq Handed \cup {CloseMark}
    /\ Range(net.tasks) \subseteq net.byTask
    /\ Range(net.wire) \subseteq net.byWire \cup {CloseMark}
    /\ net.byTask \cap net.byWire = {}
    /\ \A m \in Handed : m <= a.sent - a.tail

Lines ==
    /\ InLine(net.byTask, b.got, b.inbox, b.held, net.tasks)
    /\ InLine(net.byWire, b.got, b.inbox, b.held, net.wire)

Holding == b.held # <<>> => b.hold \/ b.drain

\* Before B has a channel nothing is under way to it.
Beginning ==
    /\ b.kind = "none" => /\ b.inbox = <<>> /\ b.held = <<>> /\ b.got = <<>>
                          /\ net.tasks = <<>>
                          /\ Handed = {} \/ a.blind
    /\ net.event = "done" => b.kind # "none"

Counting == Clean => a.unacked = Cardinality(Waiting)

\* A ends only when all is dispatched, and only then anything closes.
Ending ==
    /\ Clean /\ Ended => a.tail = 0 /\ Waiting = {}
    /\ /\ ~b.closes
       /\ \/ b.gone > 0 \/ b.remote # "no" \/ a.remote # "no" \/ a.ready = "closed"
          \/ CloseMark \in Range(net.wire) \/ CloseMark \in Range(b.held)
       => Ended
    /\ a.close # "no" => a.ready \in {"closing", "closed"}

Delivery == Places /\ Lines /\ Holding /\ Beginning /\ Counting /\ Ending

\* An entry at the end of a queue, or taken from its head.
LEMMA Putting ==
    ASSUME NEW R, NEW s \in Seq(Nat), NEW m \in Nat
    PROVE  /\ Range(Append(s, m)) = Range(s) \cup {m}
           /\ Append(s, m) \in Seq(Nat)
           /\ Ordered(R, s) /\ Below(R, Range(s), {m}) => Ordered(R, Append(s, m))
<1> DEFINE t == Append(s, m)
<1>1. /\ t \in Seq(Nat) /\ DOMAIN t = 1 .. Len(s) + 1 /\ DOMAIN s = 1 .. Len(s)
      /\ Len(s) \in Nat
      /\ \A i \in 1 .. Len(s) : t[i] = s[i]
      /\ t[Len(s) + 1] = m
  OBVIOUS
<1> HIDE DEF t
<1>2. \A i \in DOMAIN t : i \in DOMAIN s \/ i = Len(s) + 1
  BY <1>1
<1>3. Range(t) = Range(s) \cup {m}
  <2>1. Range(s) \subseteq Range(t) /\ m \in Range(t)
    BY <1>1 DEF Range
  <2>2. Range(t) \subseteq Range(s) \cup {m}
    BY <1>1, <1>2 DEF Range
  <2> QED BY <2>1, <2>2
<1>4. ASSUME Ordered(R, s), Below(R, Range(s), {m}) PROVE Ordered(R, t)
  <2> SUFFICES ASSUME NEW i \in DOMAIN t, NEW j \in DOMAIN t, i < j,
                      t[i] \in R, t[j] \in R
               PROVE  t[i] < t[j]
    BY DEF Ordered
  <2>1. i \in DOMAIN s /\ t[i] = s[i]
    BY <1>1, <1>2
  <2>2. CASE j \in DOMAIN s
    BY <1>1, <1>4, <2>1, <2>2 DEF Ordered
  <2>3. CASE j = Len(s) + 1
    <3>1. s[i] \in Range(s) \cap R /\ t[j] = m /\ m \in {m} \cap R
      BY <1>1, <2>1, <2>3 DEF Range
    <3> QED BY <1>4, <2>1, <3>1 DEF Below
  <2> QED BY <1>2, <2>2, <2>3
<1> QED BY <1>1, <1>3, <1>4 DEF t

LEMMA Taken ==
    ASSUME NEW R, NEW s \in Seq(Nat), s # <<>>
    PROVE  /\ Head(s) \in Range(s) /\ Head(s) \in Nat /\ Tail(s) \in Seq(Nat)
           /\ Range(s) = {Head(s)} \cup Range(Tail(s))
           /\ Ordered(R, s) => Ordered(R, Tail(s)) /\ Below(R, {Head(s)}, Range(Tail(s)))
<1> DEFINE t == Tail(s)
<1>1. /\ Len(s) \in Nat /\ Len(s) > 0 /\ DOMAIN s = 1 .. Len(s)
      /\ Head(s) = s[1] /\ t \in Seq(Nat) /\ DOMAIN t = 1 .. Len(s) - 1
      /\ \A i \in 1 .. Len(s) - 1 : t[i] = s[i + 1]
      /\ Head(s) \in Nat
  OBVIOUS
<1> HIDE DEF t
<1>2. 1 \in DOMAIN s
  BY <1>1
<1>3. /\ \A i \in DOMAIN t : i + 1 \in DOMAIN s /\ t[i] = s[i + 1] /\ 1 < i + 1
      /\ \A i \in DOMAIN s : i = 1 \/ (i - 1 \in DOMAIN t /\ s[i] = t[i - 1])
      /\ \A i, j \in DOMAIN t : i < j => i + 1 < j + 1
  BY <1>1
<1>4. Range(s) = {Head(s)} \cup Range(t) /\ Head(s) \in Range(s)
  <2>1. Head(s) \in Range(s)
    BY <1>1, <1>2 DEF Range
  <2>2. Range(t) \subseteq Range(s)
    BY <1>3 DEF Range
  <2>3. ASSUME NEW m \in Range(s) PROVE m \in {Head(s)} \cup Range(t)
    <3>1. PICK i \in DOMAIN s : m = s[i]
      BY DEF Range
    <3>2. CASE i = 1
      BY <1>1, <3>1, <3>2
    <3>3. CASE i # 1
      BY <1>3, <3>1, <3>3 DEF Range
    <3> QED BY <3>2, <3>3
  <2> QED BY <2>1, <2>2, <2>3
<1>5. ASSUME Ordered(R, s) PROVE Ordered(R, t) /\ Below(R, {Head(s)}, Range(t))
  <2>1. Ordered(R, t)
    BY <1>3, <1>5 DEF Ordered
  <2>2. ASSUME NEW m \in {Head(s)} \cap R, NEW n \in Range(t) \cap R PROVE m < n
    <3>1. PICK j \in DOMAIN t : n = t[j]
      BY DEF Range
    <3>2. j + 1 \in DOMAIN s /\ s[j + 1] = n /\ 1 < j + 1 /\ s[1] = m
      BY <1>1, <1>3, <3>1
    <3> QED BY <1>2, <1>5, <3>2 DEF Ordered
  <2> QED BY <2>1, <2>2 DEF Below
<1> QED BY <1>1, <1>4, <1>5 DEF t

LEMMA NothingThere ==
    /\ Range(<<>>) = {}
    /\ \A R, S : Ordered(R, <<>>) /\ Below(R, S, {}) /\ Below(R, {}, S)
  BY DEF Range, Ordered, Below

\* From queue to queue, towards the application.
LEMMA Forward ==
    ASSUME NEW R, NEW g \in Seq(Nat), NEW i \in Seq(Nat), NEW h \in Seq(Nat),
           NEW q \in Seq(Nat), InLine(R, g, i, h, q)
    PROVE  /\ q # <<>> => InLine(R, g, i, Append(h, Head(q)), Tail(q))
           /\ q # <<>> => InLine(R, g, i, h, Tail(q))
           /\ q # <<>> /\ h = <<>> => InLine(R, g, Append(i, Head(q)), h, Tail(q))
           /\ h # <<>> => InLine(R, g, Append(i, Head(h)), Tail(h), q)
           /\ h # <<>> => InLine(R, g, i, Tail(h), q)
           /\ i # <<>> => InLine(R, Append(g, Head(i)), Tail(i), h, q)
<1>0. /\ Ordered(R, g) /\ Ordered(R, i) /\ Ordered(R, h) /\ Ordered(R, q)
      /\ Below(R, Range(g), Range(i)) /\ Below(R, Range(g), Range(h))
      /\ Below(R, Range(g), Range(q)) /\ Below(R, Range(i), Range(h))
      /\ Below(R, Range(i), Range(q)) /\ Below(R, Range(h), Range(q))
  BY DEF InLine
<1>1. ASSUME q # <<>>
      PROVE  /\ InLine(R, g, i, Append(h, Head(q)), Tail(q))
             /\ InLine(R, g, i, h, Tail(q))
             /\ h = <<>> => InLine(R, g, Append(i, Head(q)), h, Tail(q))
  <2> DEFINE m == Head(q)
             t == Tail(q)
  <2>1. /\ m \in Nat /\ Range(q) = {m} \cup Range(t)
        /\ Ordered(R, t) /\ Below(R, {m}, Range(t))
    BY <1>0, <1>1, Taken
  <2> HIDE DEF m, t
  <2>2. /\ Below(R, Range(g), Range(t)) /\ Below(R, Range(g), {m})
        /\ Below(R, Range(i), Range(t)) /\ Below(R, Range(i), {m})
        /\ Below(R, Range(h), Range(t)) /\ Below(R, Range(h), {m})
    BY <1>0, <2>1, Zenon DEF Below
  <2>3. /\ Ordered(R, Append(h, m)) /\ Range(Append(h, m)) = Range(h) \cup {m}
        /\ Ordered(R, Append(i, m)) /\ Range(Append(i, m)) = Range(i) \cup {m}
    BY <1>0, <2>1, <2>2, Putting
  <2>4. InLine(R, g, i, h, t)
    BY <1>0, <2>1, <2>2 DEF InLine
  <2>5. InLine(R, g, i, Append(h, m), t)
    <3>1. /\ Below(R, Range(g), Range(h) \cup {m}) /\ Below(R, Range(i), Range(h) \cup {m})
          /\ Below(R, Range(h) \cup {m}, Range(t))
      BY <1>0, <2>1, <2>2, Zenon DEF Below
    <3> QED BY <1>0, <2>1, <2>2, <2>3, <3>1 DEF InLine
  <2>6. ASSUME h = <<>> PROVE InLine(R, g, Append(i, m), h, t)
    <3>1. Below(R, Range(g), Range(i) \cup {m}) /\ Below(R, Range(i) \cup {m}, Range(t))
      BY <1>0, <2>1, <2>2, Zenon DEF Below
    <3>2. \A S : Below(R, S, Range(h)) /\ Below(R, Range(h), S)
      BY <2>6, NothingThere
    <3> QED BY <1>0, <2>1, <2>2, <2>3, <3>1, <3>2 DEF InLine
  <2> QED BY <2>4, <2>5, <2>6 DEF m, t
<1>2. ASSUME h # <<>>
      PROVE  /\ InLine(R, g, Append(i, Head(h)), Tail(h), q)
             /\ InLine(R, g, i, Tail(h), q)
  <2> DEFINE m == Head(h)
             t == Tail(h)
  <2>1. /\ m \in Nat /\ Range(h) = {m} \cup Range(t)
        /\ Ordered(R, t) /\ Below(R, {m}, Range(t))
    BY <1>0, <1>2, Taken
  <2> HIDE DEF m, t
  <2>2. /\ Below(R, Range(g), Range(t)) /\ Below(R, Range(g), {m})
        /\ Below(R, Range(i), Range(t)) /\ Below(R, Range(i), {m})
        /\ Below(R, Range(t), Range(q)) /\ Below(R, {m}, Range(q))
    BY <1>0, <2>1, Zenon DEF Below
  <2>3. Ordered(R, Append(i, m)) /\ Range(Append(i, m)) = Range(i) \cup {m}
    BY <1>0, <2>1, <2>2, Putting
  <2>4. InLine(R, g, i, t, q)
    BY <1>0, <2>1, <2>2 DEF InLine
  <2>5. InLine(R, g, Append(i, m), t, q)
    <3>1. /\ Below(R, Range(g), Range(i) \cup {m}) /\ Below(R, Range(i) \cup {m}, Range(t))
          /\ Below(R, Range(i) \cup {m}, Range(q))
      BY <1>0, <2>1, <2>2, Zenon DEF Below
    <3> QED BY <1>0, <2>1, <2>2, <2>3, <3>1 DEF InLine
  <2> QED BY <2>4, <2>5 DEF m, t
<1>3. ASSUME i # <<>> PROVE InLine(R, Append(g, Head(i)), Tail(i), h, q)
  <2> DEFINE m == Head(i)
             t == Tail(i)
  <2>1. /\ m \in Nat /\ Range(i) = {m} \cup Range(t)
        /\ Ordered(R, t) /\ Below(R, {m}, Range(t))
    BY <1>0, <1>3, Taken
  <2> HIDE DEF m, t
  <2>2. /\ Below(R, Range(g), Range(t)) /\ Below(R, Range(g), {m})
        /\ Below(R, Range(t), Range(h)) /\ Below(R, {m}, Range(h))
        /\ Below(R, Range(t), Range(q)) /\ Below(R, {m}, Range(q))
    BY <1>0, <2>1, Zenon DEF Below
  <2>3. Ordered(R, Append(g, m)) /\ Range(Append(g, m)) = Range(g) \cup {m}
    BY <1>0, <2>1, <2>2, Putting
  <2>4. InLine(R, Append(g, m), t, h, q)
    <3>1. /\ Below(R, Range(g) \cup {m}, Range(t)) /\ Below(R, Range(g) \cup {m}, Range(h))
          /\ Below(R, Range(g) \cup {m}, Range(q))
      BY <1>0, <2>1, <2>2, Zenon DEF Below
    <3> QED BY <1>0, <2>1, <2>2, <2>3, <3>1 DEF InLine
  <2> QED BY <2>4 DEF m, t
<1> QED BY <1>1, <1>2, <1>3

\* What came by the other route disturbs no line, and nor does a loss.
LEMMA Strange ==
    ASSUME NEW R, NEW g \in Seq(Nat), NEW i \in Seq(Nat), NEW h \in Seq(Nat),
           NEW q \in Seq(Nat), NEW m \in Nat, m \notin R, InLine(R, g, i, h, q)
    PROVE  /\ InLine(R, g, i, Append(h, m), q)
           /\ InLine(R, g, Append(i, m), h, q)
           /\ InLine(R, g, i, h, Append(q, m))
<1>0. /\ Ordered(R, g) /\ Ordered(R, i) /\ Ordered(R, h) /\ Ordered(R, q)
      /\ Below(R, Range(g), Range(i)) /\ Below(R, Range(g), Range(h))
      /\ Below(R, Range(g), Range(q)) /\ Below(R, Range(i), Range(h))
      /\ Below(R, Range(i), Range(q)) /\ Below(R, Range(h), Range(q))
  BY DEF InLine
<1>1. \A S, T : Below(R, S, T) => Below(R, S \cup {m}, T) /\ Below(R, S, T \cup {m})
  BY Zenon DEF Below
<1>2. \A S : Below(R, S, {m})
  BY Zenon DEF Below
<1>3. /\ Ordered(R, Append(i, m)) /\ Range(Append(i, m)) = Range(i) \cup {m}
      /\ Ordered(R, Append(h, m)) /\ Range(Append(h, m)) = Range(h) \cup {m}
      /\ Ordered(R, Append(q, m)) /\ Range(Append(q, m)) = Range(q) \cup {m}
  BY <1>0, <1>2, Putting
<1>4. /\ Below(R, Range(g), Range(h) \cup {m}) /\ Below(R, Range(i), Range(h) \cup {m})
      /\ Below(R, Range(h) \cup {m}, Range(q)) /\ Below(R, Range(h), Range(q) \cup {m})
      /\ Below(R, Range(g), Range(i) \cup {m}) /\ Below(R, Range(i) \cup {m}, Range(h))
      /\ Below(R, Range(i) \cup {m}, Range(q)) /\ Below(R, Range(i), Range(q) \cup {m})
      /\ Below(R, Range(g), Range(q) \cup {m})
  BY <1>0, <1>1
<1> QED BY <1>0, <1>3, <1>4 DEF InLine

LEMMA Dropping ==
    ASSUME NEW R, NEW g, NEW i, NEW h, NEW q, InLine(R, g, i, h, q)
    PROVE  InLine(R, g, <<>>, <<>>, q) /\ InLine(R, g, <<>>, <<>>, <<>>)
<1>1. /\ Ordered(R, g) /\ Ordered(R, q) /\ Below(R, Range(g), Range(q))
  BY DEF InLine
<1>2. Ordered(R, <<>>) /\ \A S : Below(R, S, Range(<<>>)) /\ Below(R, Range(<<>>), S)
  BY NothingThere
<1> QED BY <1>1, <1>2, Zenon DEF InLine

\* The newest message takes its route at the end.
LEMMA Newest ==
    ASSUME NEW R, NEW g \in Seq(Nat), NEW i \in Seq(Nat), NEW h \in Seq(Nat),
           NEW q \in Seq(Nat), NEW m \in Nat, \A n \in R : n < m,
           m \notin Range(g) \cup Range(i) \cup Range(h) \cup Range(q),
           InLine(R, g, i, h, q)
    PROVE  InLine(R \cup {m}, g, i, h, Append(q, m))
<1>0. /\ Ordered(R, g) /\ Ordered(R, i) /\ Ordered(R, h) /\ Ordered(R, q)
      /\ Below(R, Range(g), Range(i)) /\ Below(R, Range(g), Range(h))
      /\ Below(R, Range(g), Range(q)) /\ Below(R, Range(i), Range(h))
      /\ Below(R, Range(i), Range(q)) /\ Below(R, Range(h), Range(q))
  BY DEF InLine
<1> DEFINE T == R \cup {m}
<1>1. ASSUME NEW s, m \notin Range(s), Ordered(R, s) PROVE Ordered(T, s)
  BY <1>1 DEF Ordered, Range
<1>2. ASSUME NEW S, NEW U, m \notin S, m \notin U, Below(R, S, U)
      PROVE  Below(T, S, U) /\ Below(T, S, U \cup {m})
  BY <1>2 DEF Below
<1> HIDE DEF T
<1>3. Ordered(T, g) /\ Ordered(T, i) /\ Ordered(T, h) /\ Ordered(T, q)
  BY <1>0, <1>1
<1>4. Below(T, Range(q), {m})
  BY DEF Below, T
<1>5. Ordered(T, Append(q, m)) /\ Range(Append(q, m)) = Range(q) \cup {m}
  BY <1>3, <1>4, Putting
<1>6. /\ Below(T, Range(g), Range(i)) /\ Below(T, Range(g), Range(h))
      /\ Below(T, Range(g), Range(q) \cup {m}) /\ Below(T, Range(i), Range(h))
      /\ Below(T, Range(i), Range(q) \cup {m}) /\ Below(T, Range(h), Range(q) \cup {m})
  BY <1>0, <1>2
<1>7. InLine(T, g, i, h, Append(q, m))
  BY <1>3, <1>5, <1>6 DEF InLine
<1> QED BY <1>7 DEF T

LEMMA Queues ==
    ASSUME Types
    PROVE  /\ b.got \in Seq(Nat) /\ b.inbox \in Seq(Nat) /\ b.held \in Seq(Nat)
           /\ net.tasks \in Seq(Nat) /\ net.wire \in Seq(Nat)
           /\ CloseMark \notin Handed /\ Handed \subseteq Numbers
           /\ a.sent \in Nat /\ a.tail \in Nat /\ a.unacked \in Nat
           /\ a.tail <= a.sent
<1>1. ASSUME NEW T, T \subseteq Nat, NEW s \in Seq(T) PROVE s \in Seq(Nat)
  BY <1>1, SeqMonotonic
<1>2. Counts \subseteq Nat /\ Numbers \subseteq Nat /\ CloseMark \notin Numbers
  BY Bounds DEF Counts, Numbers, CloseMark
<1>3. /\ b.got \in Seq(Numbers) /\ b.inbox \in Seq(Numbers) /\ b.held \in Seq(Counts)
      /\ net.tasks \in Seq(Numbers) /\ net.wire \in Seq(Counts)
      /\ net.byTask \subseteq Numbers /\ net.byWire \subseteq Numbers
  BY DEF Types, TypeB, BRecord, TypeNet
<1>4. /\ a.sent \in Nat /\ a.tail \in Nat /\ a.unacked \in Nat
      /\ a.tail + a.unacked <= a.sent
  BY Bounds DEF Types, TypeA, ARecord, Counts
<1>5. a.tail <= a.sent
  BY <1>4
<1> QED BY <1>1, <1>2, <1>3, <1>4, <1>5 DEF Handed

LEMMA FewWaiting == ASSUME Types PROVE IsFiniteSet(Waiting)
<1>1. IsFiniteSet(Numbers)
  BY Bounds, FS_Interval DEF Numbers
<1>2. Waiting \subseteq Numbers
  BY Queues DEF Waiting
<1> QED BY <1>1, <1>2, FS_Subset

LEMMA DeliveryInit == Init => Delivery
<1> SUFFICES ASSUME Init PROVE Delivery
  OBVIOUS
<1>1. /\ b.got = <<>> /\ b.inbox = <<>> /\ b.held = <<>> /\ b.kind = "none"
      /\ net.tasks = <<>> /\ net.wire = <<>> /\ net.event = "none"
      /\ net.byTask = {} /\ net.byWire = {}
      /\ a.sent = 0 /\ a.tail = 0 /\ a.unacked = 0 /\ a.close = "no"
      /\ a.ready = "none" /\ a.remote = "no" /\ b.remote = "no" /\ b.gone = 0
  BY DEF Init
<1>2. Handed = {} /\ Waiting = {}
  BY <1>1 DEF Handed, Waiting
<1>3. Places
  BY <1>1, <1>2, NothingThere DEF Places
<1>4. Lines
  <2>1. \A R : InLine(R, <<>>, <<>>, <<>>, <<>>)
    BY NothingThere, Zenon DEF InLine
  <2> QED BY <1>1, <2>1, Zenon DEF Lines
<1>5. Counting
  BY <1>1, <1>2, FS_EmptySet DEF Counting
<1>6. Ending
  BY <1>1, <1>2, NothingThere DEF Ending, Ended
<1> QED BY <1>1, <1>2, <1>3, <1>4, <1>5, <1>6 DEF Delivery, Holding, Beginning

\* Steps that leave the messages and the closes where they are, or at most give
\* B a new channel.  d is what became of c, B's channel.
Kept(c, d) ==
    /\ d.got = c.got /\ d.inbox = c.inbox /\ d.held = c.held
    /\ d.remote = c.remote /\ d.closes = c.closes /\ d.gone = c.gone
    /\ c.kind # "none" => d.kind # "none"
    /\ (c.held # <<>> => c.hold \/ c.drain) => (d.held # <<>> => d.hold \/ d.drain)

Renewed(c, d) ==
    /\ d.got = c.got /\ d.inbox = <<>> /\ d.held = <<>>
    /\ d.remote = "no" /\ d.closes = c.closes /\ d.gone = c.gone
    /\ d.kind # "none"

KeptA(x, y) ==
    /\ y.sent = x.sent /\ y.tail = x.tail /\ y.unacked = x.unacked
    /\ y.close = x.close /\ y.forced = x.forced /\ y.blind = x.blind
    /\ y.remote = x.remote
    /\ x.ready = "closed" <=> y.ready = "closed"
    /\ (x.close # "no" => x.ready \in {"closing", "closed"})
         => (y.close # "no" => y.ready \in {"closing", "closed"})

LEMMA Quiet ==
    ASSUME Delivery, KeptA(a, a'),
           \/ Kept(b, b') /\ net'.tasks = net.tasks
           \/ Renewed(b, b') /\ net'.tasks = <<>>,
           net'.wire = net.wire, net'.byTask = net.byTask, net'.byWire = net.byWire,
           net'.event = "done" => net.event = "done" \/ b'.kind # "none"
    PROVE  Delivery'
<1>1. /\ a'.sent = a.sent /\ a'.tail = a.tail /\ a'.unacked = a.unacked
      /\ a'.close = a.close /\ a'.forced = a.forced /\ a'.blind = a.blind
      /\ a'.remote = a.remote
      /\ b'.got = b.got /\ b'.closes = b.closes /\ b'.gone = b.gone
  BY DEF Kept, KeptA, Renewed
<1>2. \/ /\ b'.inbox = b.inbox /\ b'.held = b.held /\ b'.remote = b.remote
         /\ net'.tasks = net.tasks
      \/ /\ b'.inbox = <<>> /\ b'.held = <<>> /\ b'.remote = "no" /\ net'.tasks = <<>>
  BY DEF Kept, Renewed
<1>3. /\ Handed' = Handed /\ Waiting' = Waiting
      /\ Clean' <=> Clean
      /\ Ended' <=> Ended
  BY <1>1, Zenon DEF Handed, Waiting, Clean, Ended
<1>4. Places'
  BY <1>1, <1>2, <1>3, NothingThere DEF Delivery, Places
<1>5. Lines'
  BY <1>1, <1>2, Dropping DEF Delivery, Lines
<1>6. Holding'
  BY DEF Delivery, Holding, Kept, Renewed
<1>7. Beginning'
  BY <1>1, <1>3 DEF Delivery, Beginning, Kept, Renewed
<1>8. Counting'
  BY <1>1, <1>3, Zenon DEF Delivery, Counting
<1>9. Ending'
  <2>1. (CloseMark \in Range(b.held))' => CloseMark \in Range(b.held)
    BY <1>2, NothingThere
  <2> QED BY <1>1, <1>2, <1>3, <2>1 DEF Delivery, Ending, KeptA
<1> QED BY <1>4, <1>5, <1>6, <1>7, <1>8, <1>9 DEF Delivery

LEMMA KeptChain ==
    ASSUME NEW c, NEW d, NEW e, Kept(d, e)
    PROVE  /\ Kept(c, d) => Kept(c, e)
           /\ Renewed(c, d) => Renewed(c, e)
  BY Zenon DEF Kept, Renewed

LEMMA KeptSame == /\ \A c : Kept(c, c)
                  /\ \A x : KeptA(x, x)
  BY Zenon DEF Kept, KeptA

LEMMA KeptScheduling ==
    ASSUME NEW c, TypeB(c)
    PROVE  Kept(c, ScheduleRepair(c)) /\ Kept(c, ScheduleFlush(c)) /\ Kept(c, AfterUpdate(c))
<1>1. Kept(c, ScheduleRepair(c))
  BY DEF TypeB, BRecord, ScheduleRepair, Kept
<1>2. Kept(c, ScheduleFlush(c))
  BY DEF TypeB, BRecord, ScheduleFlush, Kept
<1> QED BY <1>1, <1>2, KeptSame, Zenon DEF AfterUpdate

LEMMA KeptAnnouncing == ASSUME NEW c, TypeB(c) PROVE Kept(c, Announce(c))
<1> DEFINE n == c.event + 1
           d == [c EXCEPT !.ready = "open", !.hold = TRUE,
                          !.announced = TRUE, !.pending = FALSE, !.event = n]
<1>1. Announce(c) = ScheduleFlush(d)
  BY Zenon DEF Announce
<1>2. n \in Nat
  BY DEF TypeB, BRecord
<1> HIDE DEF n
<1>3. TypeB(d)
  BY <1>2 DEF TypeB, BRecord, ReadyStates
<1>4. Kept(c, d)
  BY DEF TypeB, BRecord, Kept
<1> HIDE DEF d
<1> QED BY <1>1, <1>3, <1>4, KeptScheduling, KeptChain

LEMMA Renewing ==
    ASSUME NEW c, TypeB(c)
    PROVE  /\ Renewed(c, CreateSynthetic(c))
           /\ Renewed(c, Announce([Fresh(c) EXCEPT !.kind = "native"]))
<1> DEFINE f == Fresh(c)
           d == [f EXCEPT !.kind = "native"]
           e == [f EXCEPT !.kind = "synthetic", !.pending = TRUE]
<1>1. /\ TypeB(f)
      /\ f.got = c.got /\ f.inbox = <<>> /\ f.held = <<>> /\ f.remote = "no"
      /\ f.closes = c.closes /\ f.gone = c.gone
  <2>1. <<>> \in Seq(Counts) /\ <<>> \in Seq(Numbers)
    OBVIOUS
  <2> QED BY <2>1 DEF TypeB, BRecord, Fresh, ReadyStates
<1> HIDE DEF f
<1>2. TypeB(d) /\ Renewed(c, d) /\ Renewed(c, e)
  BY <1>1 DEF TypeB, BRecord, Renewed
<1>3. CreateSynthetic(c) = e
  BY Zenon DEF CreateSynthetic, f
<1> HIDE DEF d, e
<1>4. Renewed(c, Announce(d))
  BY <1>2, KeptAnnouncing, KeptChain
<1> QED BY <1>2, <1>3, <1>4 DEF d, f

LEMMA KeptOpening ==
    ASSUME NEW x, NEW c, TypeA(x)
    PROVE  /\ KeptA(x, DispatchOpen(x, c))
           /\ x.ready \in {"connecting", "open"} => KeptA(x, Open(x, c))
<1>1. ASSUME NEW y, TypeA(y) PROVE KeptA(y, DispatchOpen(y, c))
  <2>1. KeptA(y, [y EXCEPT !.opened = TRUE])
    BY <1>1 DEF TypeA, ARecord, KeptA
  <2>2. KeptA(y, [y EXCEPT !.deferred = IF @ = "no" THEN "poll" ELSE @])
    BY <1>1 DEF TypeA, ARecord, KeptA
  <2> QED BY <2>1, <2>2, KeptSame, Zenon DEF DispatchOpen
<1>2. ASSUME x.ready \in {"connecting", "open"} PROVE KeptA(x, Open(x, c))
  <2> DEFINE y == [x EXCEPT !.ready = "open", !.id = TRUE]
  <2>1. TypeA(y)
    BY DEF TypeA, ARecord, ReadyStates
  <2>2. KeptA(x, y)
    BY <1>2 DEF TypeA, ARecord, KeptA
  <2> HIDE DEF y
  <2>3. KeptA(y, DispatchOpen(y, c))
    BY <1>1, <2>1
  <2>4. KeptA(x, DispatchOpen(y, c))
    BY <2>2, <2>3, Zenon DEF KeptA
  <2> QED BY <2>4 DEF Open, y
<1> QED BY <1>1, <1>2

LEMMA RepairingKeeps ==
    ASSUME NEW x, TypeB(x), TypeA(a), RepairMissing(x)
    PROVE  /\ KeptA(a, a')
           /\ \/ Kept(x, b') /\ net' = net
              \/ Renewed(x, b') /\ net' = WithoutTasks(net)
<1> DEFINE c == IF x.pending THEN Announce(x) ELSE x
           made == CreateSynthetic(c)
           opened == IF x.pending /\ a.ready = "connecting" THEN Open(a, c) ELSE a
           i == opened.id \/ Live(a)
           known == [opened EXCEPT !.id = i]
<1>1. TypeB(c) /\ Kept(x, c)
  BY KeptAnnouncing, KeptSame, AnnouncingTypes
<1>2. TypeA(opened) /\ KeptA(a, opened)
  BY OpeningTypes, KeptOpening, KeptSame
<1>3. \/ a' = LeaveOld(known) /\ b' = ScheduleRepair(made) /\ net' = WithoutTasks(net)
      \/ a' = known /\ b' = [c EXCEPT !.clock = "none"] /\ net' = net
  BY Zenon DEF RepairMissing
<1> HIDE DEF c, opened, i
<1>4. KeptA(a, a')
  <2>1. KeptA(opened, known) /\ KeptA(opened, LeaveOld(known))
    BY <1>2 DEF TypeA, ARecord, KeptA, LeaveOld
  <2> HIDE DEF known
  <2> QED BY <1>2, <1>3, <2>1, Zenon DEF KeptA
<1>5. TypeB(made) /\ Renewed(x, made)
  <2>1. TypeB(made) /\ Renewed(c, made)
    BY <1>1, AnnouncingTypes, Renewing
  <2> HIDE DEF made
  <2> QED BY <1>1, <2>1, Zenon DEF Kept, Renewed
<1>6. Kept(x, [c EXCEPT !.clock = "none"])
  <2>1. Kept(c, [c EXCEPT !.clock = "none"])
    BY <1>1 DEF TypeB, BRecord, Kept
  <2> QED BY <1>1, <2>1, KeptChain
<1> HIDE DEF made, known
<1>7. Renewed(x, ScheduleRepair(made))
  BY <1>5, KeptScheduling, KeptChain
<1> QED BY <1>3, <1>4, <1>6, <1>7

LEMMA AnnouncementDelivery ==
    ASSUME Types, Delivery, AnnouncementSteps PROVE Delivery'
<1>0. TypeA(a) /\ TypeB(b) /\ TypeP /\ TypeNet
  BY DEF Types
<1>1. ASSUME KeptA(a, a'), Kept(b, b'), net' = net PROVE Delivery'
  BY <1>1, Quiet
<1>2. CASE RepairTimer
  <2> DEFINE c == [b EXCEPT !.repair = FALSE,
                            !.clock = IF CanRepair /\ @ = "none" THEN "grace" ELSE @]
  <2>1. TypeB(c) /\ Kept(b, c)
    BY <1>0 DEF TypeB, BRecord, Kept
  <2>2. \/ RepairMissing(c)
        \/ b' = ScheduleRepair(c) /\ a' = a /\ net' = net
    BY <1>2 DEF RepairTimer
  <2> HIDE DEF c
  <2>3. CASE RepairMissing(c)
    <3>1. /\ KeptA(a, a')
          /\ \/ Kept(c, b') /\ net' = net
             \/ Renewed(c, b') /\ net' = WithoutTasks(net)
      BY <1>0, <2>1, <2>3, RepairingKeeps
    <3>2. CASE Kept(c, b') /\ net' = net
      BY <1>1, <2>1, <3>1, <3>2, KeptChain
    <3>3. CASE Renewed(c, b') /\ net' = WithoutTasks(net)
      <4>1. Renewed(b, b')
        BY <2>1, <3>3, Zenon DEF Kept, Renewed
      <4>2. /\ net'.tasks = <<>> /\ net'.wire = net.wire /\ net'.event = net.event
            /\ net'.byTask = net.byTask /\ net'.byWire = net.byWire
        BY <1>0, <3>3 DEF TypeNet, WithoutTasks
      <4> QED BY <3>1, <4>1, <4>2, Quiet
    <3> QED BY <3>1, <3>2, <3>3
  <2>4. CASE b' = ScheduleRepair(c) /\ a' = a /\ net' = net
    BY <1>1, <2>1, <2>4, KeptScheduling, KeptChain, KeptSame
  <2> QED BY <2>2, <2>3, <2>4
<1>3. CASE NativeAnnounces
  <2> DEFINE d == [b EXCEPT !.kind = "native", !.ready = "open", !.pending = FALSE]
             e == [d EXCEPT !.drain = @ \/ b.held # <<>>]
             f == Announce([Fresh(b) EXCEPT !.kind = "native"])
             n == WithoutTasks(net)
  <2>1. \/ /\ b' = IF b.announced THEN e ELSE Announce(d)
           /\ net' = [net EXCEPT !.event = "done"] /\ a' = a
        \/ /\ b' = f
           /\ net' = [n EXCEPT !.event = "done"] /\ a' = LeaveOld(a)
    BY <1>3, Zenon DEF NativeAnnounces, Adopt
  <2>2. TypeB(d) /\ Kept(b, d) /\ d.kind # "none"
    <3>1. TypeB(d) /\ d.kind # "none"
      BY <1>0 DEF TypeB, BRecord, ReadyStates
    <3>2. Kept(b, d)
      BY <1>0 DEF TypeB, BRecord, Kept
    <3> QED BY <3>1, <3>2
  <2>3. Kept(d, e)
    <3>1. d.held = b.held
      BY <1>0 DEF TypeB, BRecord
    <3> HIDE DEF d
    <3> QED BY <2>2, <3>1 DEF TypeB, BRecord, Kept
  <2> HIDE DEF d, e
  <2>4. Kept(d, Announce(d))
    BY <2>2, KeptAnnouncing
  <2>5. /\ Kept(b, e) /\ Kept(b, Announce(d))
        /\ e.kind # "none" /\ Announce(d).kind # "none"
    BY <2>2, <2>3, <2>4, KeptChain, Zenon DEF Kept
  <2>6. Renewed(b, f) /\ f.kind # "none"
    BY <1>0, Renewing, Zenon DEF Renewed
  <2>7. n \in [event : {"none", "flying", "done"}, wire : Seq(Counts),
               tasks : Seq(Numbers), byWire : SUBSET Numbers, byTask : SUBSET Numbers]
    BY <1>0, LeavingTypes
  <2>8. /\ n.tasks = <<>> /\ n.wire = net.wire
        /\ n.byTask = net.byTask /\ n.byWire = net.byWire
    BY <1>0 DEF TypeNet, WithoutTasks
  <2>9. KeptA(a, a) /\ KeptA(a, LeaveOld(a))
    BY <1>0, KeptSame DEF TypeA, ARecord, KeptA, LeaveOld
  <2> HIDE DEF f, n
  <2>10. /\ net'.wire = net.wire /\ net'.byTask = net.byTask /\ net'.byWire = net.byWire
         /\ KeptA(a, a') /\ b'.kind # "none"
         /\ \/ Kept(b, b') /\ net'.tasks = net.tasks
            \/ Renewed(b, b') /\ net'.tasks = <<>>
    <3>1. CASE /\ b' = IF b.announced THEN e ELSE Announce(d)
               /\ net' = [net EXCEPT !.event = "done"] /\ a' = a
      BY <1>0, <2>5, <2>9, <3>1 DEF TypeNet
    <3>2. CASE b' = f /\ net' = [n EXCEPT !.event = "done"] /\ a' = LeaveOld(a)
      BY <2>6, <2>7, <2>8, <2>9, <3>2
    <3> QED BY <2>1, <3>1, <3>2
  <2> QED BY <2>10, Quiet
<1>4. CASE FlushDataChannel
  <2> DEFINE n == b.shown + b.event
             d == [b EXCEPT !.flush = FALSE, !.event = 0, !.shown = n,
                            !.hold = FALSE, !.drain = @ \/ b.held # <<>>]
  <2>1. b' = [b EXCEPT !.flush = FALSE] \/ b' = d
    BY <1>4, Zenon DEF FlushDataChannel
  <2> HIDE DEF n
  <2>2. Kept(b, d) /\ Kept(b, [b EXCEPT !.flush = FALSE])
    BY <1>0 DEF TypeB, BRecord, Kept
  <2>3. a' = a /\ net' = net
    BY <1>4 DEF FlushDataChannel
  <2> QED BY <1>1, <2>1, <2>2, <2>3, KeptSame
<1>5. CASE PollSettled
  <2>1. KeptA(a, [a EXCEPT !.deferred = IF Settled(b) THEN "settled" ELSE "unsettled"])
    BY <1>0 DEF TypeA, ARecord, KeptA
  <2>2. Kept(b, ScheduleFlush(ScheduleRepair(b)))
    BY <1>0, SchedulingTypes, KeptScheduling, KeptChain
  <2>3. net' = net /\ KeptA(a, a') /\ Kept(b, b')
    BY <1>5, <2>1, <2>2, KeptSame DEF PollSettled
  <2> QED BY <1>1, <2>3
<1>6. CASE AfterSettled
  <2> DEFINE x == [a EXCEPT !.deferred = "no",
                            !.expired = @ \/ a.deferred = "unsettled"]
  <2>1. TypeA(x) /\ KeptA(a, x)
    BY <1>0 DEF TypeA, ARecord, KeptA
  <2>2. a' = DispatchOpen(x, b) /\ b' = b /\ net' = net
    BY <1>6 DEF AfterSettled
  <2> HIDE DEF x
  <2>3. KeptA(x, a')
    BY <2>1, <2>2, KeptOpening
  <2>4. KeptA(a, a')
    BY <2>1, <2>3, Zenon DEF KeptA
  <2> QED BY <1>1, <2>2, <2>4, KeptSame
<1>7. CASE NativeOpen
  BY <1>0, <1>1, <1>7, KeptOpening, KeptSame DEF NativeOpen
<1>8. CASE RepairMissedOpen
  BY <1>0, <1>1, <1>8, KeptOpening, KeptSame DEF RepairMissedOpen
<1> QED BY <1>2, <1>3, <1>4, <1>5, <1>6, <1>7, <1>8 DEF AnnouncementSteps

LEMMA PeerDelivery ==
    ASSUME Types, Delivery, PeerSteps PROVE Delivery'
<1>0. TypeA(a) /\ TypeB(b) /\ TypeP /\ TypeNet
  BY DEF Types
<1>1. a.close # "no" => a.ready \in {"closing", "closed"}
  BY DEF Delivery, Ending
<1>2. ASSUME KeptA(a, a'), Kept(b, b'), net' = net PROVE Delivery'
  BY <1>2, Quiet
<1>3. CASE CreateDataChannel
  <2>1. a.ready = "none"
    BY <1>3 DEF CreateDataChannel
  <2>2. KeptA(a, [a EXCEPT !.ready = "connecting"])
    BY <1>0, <1>1, <2>1 DEF TypeA, ARecord, KeptA
  <2>3. Kept(b, [b EXCEPT !.repair = TRUE, !.clock = IF CanRepair THEN "grace" ELSE "none"])
    BY <1>0 DEF TypeB, BRecord, Kept
  <2>4. KeptA(a, a') /\ Kept(b, b') /\ net' = net
    BY <1>3, <2>2, <2>3, KeptSame DEF CreateDataChannel
  <2> QED BY <1>2, <2>4
<1>4. CASE StartOperation
  BY <1>2, <1>4, KeptSame DEF StartOperation
<1>5. CASE Pair
  <2>1. Kept(b, [b EXCEPT !.repair = TRUE])
    BY <1>0 DEF TypeB, BRecord, Kept
  <2>2. a' = a /\ net' = net /\ b' \in {b, [b EXCEPT !.repair = TRUE]}
    BY <1>5, Zenon DEF Pair
  <2> QED BY <1>2, <2>1, <2>2, KeptSame
<1>6. CASE Negotiate
  <2>1. KeptA(a, [a EXCEPT !.id = TRUE])
    BY <1>0 DEF TypeA, ARecord, KeptA
  <2>2. /\ net' = net /\ a' \in {a, [a EXCEPT !.id = TRUE]}
        /\ b' \in {b, ScheduleRepair(b)}
    BY <1>6, Zenon DEF Negotiate
  <2> QED BY <1>0, <1>2, <2>1, <2>2, KeptSame, KeptScheduling
<1>7. CASE FinishOperation
  BY <1>0, <1>2, <1>7, KeptSame, KeptScheduling DEF FinishOperation
<1>8. CASE TransportConnects
  BY <1>0, <1>2, <1>8, KeptSame, KeptScheduling DEF TransportConnects
<1>9. CASE ListenDataChannel
  <2>1. Kept(b, ScheduleRepair(ScheduleFlush(b)))
    BY <1>0, SchedulingTypes, KeptScheduling, KeptChain
  <2> QED BY <1>2, <1>9, <2>1, KeptSame DEF ListenDataChannel
<1>10. CASE NativeConnects
  <2>1. /\ a' = [a EXCEPT !.native = "open", !.id = TRUE] /\ b' = b
        /\ net' = [net EXCEPT !.event = "flying"]
    BY <1>10 DEF NativeConnects
  <2>2. KeptA(a, a')
    BY <1>0, <2>1 DEF TypeA, ARecord, KeptA
  <2>3. /\ net'.wire = net.wire /\ net'.tasks = net.tasks /\ net'.event # "done"
        /\ net'.byTask = net.byTask /\ net'.byWire = net.byWire
    BY <1>0, <2>1 DEF TypeNet
  <2> QED BY <2>1, <2>2, <2>3, Quiet, KeptSame
<1> QED BY <1>3, <1>4, <1>5, <1>6, <1>7, <1>8, <1>9, <1>10 DEF PeerSteps

\* The parts of Delivery, for steps that move messages.
LEMMA Parts ==
    ASSUME Delivery
    PROVE  /\ Range(b.got) \subseteq Handed /\ Range(b.inbox) \subseteq Handed
           /\ Range(b.held) \subseteq Handed \cup {CloseMark}
           /\ Range(net.tasks) \subseteq net.byTask
           /\ Range(net.wire) \subseteq net.byWire \cup {CloseMark}
           /\ net.byTask \cap net.byWire = {}
           /\ \A m \in Handed : m <= a.sent - a.tail
           /\ InLine(net.byTask, b.got, b.inbox, b.held, net.tasks)
           /\ InLine(net.byWire, b.got, b.inbox, b.held, net.wire)
  BY DEF Delivery, Places, Lines

\* A hands over the next message, before its close has ended.
LEMMA HandingDelivery ==
    ASSUME Types, Delivery, NEW x, TypeA(x), Hand(x), b' = b,
           x.sent - x.tail = a.sent - a.tail + 1,
           x.unacked = a.unacked, x.close = a.close, x.ready = a.ready,
           x.remote = a.remote, x.forced = a.forced, x.blind = a.blind,
           Clean => ~Ended
    PROVE  Delivery'
<1> DEFINE m == x.sent - x.tail
           k == IF Linked /\ m \notin Empty THEN x.unacked + 1 ELSE x.unacked
           l == x.blind \/ ~Linked
           tasked == net.byTask \cup {m}
           wired == net.byWire \cup {m}
           tasks == Append(net.tasks, m)
           wire == Append(net.wire, m)
<1>1. /\ a' = [x EXCEPT !.unacked = k, !.blind = l]
      /\ net' = IF Synthetic THEN [net EXCEPT !.tasks = tasks, !.byTask = tasked]
                ELSE [net EXCEPT !.wire = wire, !.byWire = wired]
  BY Zenon DEF Hand
<1>2. m \in Nat /\ m > a.sent - a.tail /\ m > 0
  BY Queues
<1>3. \A n \in Handed : n < m /\ n <= m
  BY <1>2, Parts, Queues, Bounds DEF Numbers
<1>4. m \notin Handed /\ m # CloseMark
  BY <1>2, <1>3 DEF CloseMark
<1>5. /\ a'.sent - a'.tail = m /\ a'.unacked = k /\ a'.blind = l /\ a'.close = a.close
      /\ a'.tail = x.tail
      /\ a'.ready = a.ready /\ a'.remote = a.remote /\ a'.forced = a.forced
  <2> HIDE DEF k, l
  <2> QED BY <1>1 DEF TypeA, ARecord
<1>6. \/ /\ Synthetic /\ net'.tasks = tasks /\ net'.byTask = tasked
         /\ net'.wire = net.wire /\ net'.byWire = net.byWire /\ net'.event = net.event
      \/ /\ ~Synthetic /\ net'.wire = wire /\ net'.byWire = wired
         /\ net'.tasks = net.tasks /\ net'.byTask = net.byTask /\ net'.event = net.event
  <2> HIDE DEF tasked, wired, tasks, wire
  <2> QED BY <1>1 DEF Types, TypeNet
<1> HIDE DEF m
<1>7. /\ Range(tasks) = Range(net.tasks) \cup {m}
      /\ Range(wire) = Range(net.wire) \cup {m}
  BY <1>2, Putting, Queues
<1>8. Handed' = Handed \cup {m}
  BY <1>6 DEF Handed
<1>9. m \notin net.byTask \cup net.byWire
  BY <1>4 DEF Handed
<1>10. Places'
  <2>1. /\ Range(b.got) \subseteq Handed' /\ Range(b.inbox) \subseteq Handed'
        /\ Range(b.held) \subseteq Handed' \cup {CloseMark}
    BY <1>8, Parts
  <2>2. /\ Range(net'.tasks) \subseteq net'.byTask
        /\ Range(net'.wire) \subseteq net'.byWire \cup {CloseMark}
        /\ net'.byTask \cap net'.byWire = {}
    <3> HIDE DEF tasks, wire
    <3> QED BY <1>6, <1>7, <1>9, Parts
  <2>3. \A n \in Handed' : n <= a'.sent - a'.tail
    BY <1>2, <1>3, <1>5, <1>8
  <2> QED BY <2>1, <2>2, <2>3 DEF Places
<1>11. Lines'
  <2>1. m \notin Range(b.got) \cup Range(b.inbox) \cup Range(b.held)
                 \cup Range(net.tasks) \cup Range(net.wire)
    BY <1>4, Parts DEF Handed
  <2>2. /\ InLine(tasked, b.got, b.inbox, b.held, tasks)
        /\ InLine(wired, b.got, b.inbox, b.held, wire)
    <3>1. /\ \A n \in net.byTask : n < m
          /\ \A n \in net.byWire : n < m
      BY <1>3 DEF Handed
    <3> QED BY <1>2, <2>1, <3>1, Newest, Parts, Queues
  <2> HIDE DEF tasked, wired, tasks, wire
  <2> QED BY <1>6, <2>2, Parts DEF Lines
<1>12. Beginning'
  <2>1. Synthetic => b.kind # "none"
    BY DEF Synthetic
  <2>2. b.kind = "none" => l
    BY DEF Linked
  <2> HIDE DEF l, tasked, wired, tasks, wire
  <2> QED BY <1>5, <1>6, <2>1, <2>2 DEF Delivery, Beginning
<1>13. Clean' => Clean /\ Linked
  BY <1>5 DEF Clean
<1>14. Counting'
  <2> SUFFICES ASSUME Clean' PROVE a'.unacked = Cardinality(Waiting')
    BY DEF Counting
  <2>1. a.unacked = Cardinality(Waiting) /\ Linked
    BY <1>13 DEF Delivery, Counting
  <2>2. m \notin Range(b.got)
    BY <1>4, Parts
  <2>3. CASE m \in Empty
    <3>1. Waiting' = Waiting
      BY <1>8, <2>3 DEF Waiting
    <3> QED BY <1>5, <2>1, <2>3, <3>1
  <2>4. CASE m \notin Empty
    <3>1. Waiting' = Waiting \cup {m} /\ m \notin Waiting
      BY <1>4, <1>8, <2>2, <2>4 DEF Waiting
    <3>2. Cardinality(Waiting') = Cardinality(Waiting) + 1
      BY <3>1, FewWaiting, FS_AddElement
    <3> QED BY <1>5, <2>1, <2>4, <3>2
  <2> QED BY <2>3, <2>4
<1>15. Ending'
  <2>1. CloseMark \in Range(net'.wire) => CloseMark \in Range(net.wire)
    <3> HIDE DEF tasks, wire
    <3> QED BY <1>4, <1>6, <1>7
  <2>2. Ended' <=> Ended
    BY <1>5 DEF Ended
  <2> QED BY <1>5, <1>13, <2>1, <2>2 DEF Delivery, Ending
<1>16. Holding'
  BY DEF Delivery, Holding
<1> QED BY <1>10, <1>11, <1>12, <1>14, <1>15, <1>16 DEF Delivery

LEMMA SendDelivery == ASSUME Types, Delivery, Send PROVE Delivery'
<1> DEFINE n == a.sent + 1
           k == a.tail + 1
           x == [a EXCEPT !.sent = n]
<1>0. TypeA(a) /\ TypeB(b)
  BY DEF Types
<1>1. n \in Counts /\ k \in Nat /\ n - k = a.sent - a.tail
  <2>1. a.sent < MaxSends /\ a.sent \in Nat /\ a.tail \in Nat
    BY Queues DEF Send
  <2> QED BY <2>1, Bounds DEF Counts
<1>2. a.ready = "open" /\ a.close = "no" /\ ~Ended
  BY DEF Send, Delivery, Ending, Ended
<1>3. /\ b' = b
      /\ \/ a' = [x EXCEPT !.tail = k] /\ net' = net
         \/ a.tail = 0 /\ Hand(x)
  <2>1. x.tail = a.tail
    BY <1>0 DEF TypeA, ARecord
  <2> QED BY <2>1, Zenon DEF Send
<1>4. n - a.tail = a.sent - a.tail + 1 /\ a.tail + a.unacked <= n
  BY <1>0, Queues DEF TypeA, ARecord
<1> HIDE DEF n, k
<1>5. /\ x \in ARecord /\ x.sent = n /\ x.tail = a.tail /\ x.unacked = a.unacked
      /\ x.close = a.close /\ x.ready = a.ready /\ x.remote = a.remote
      /\ x.forced = a.forced /\ x.blind = a.blind
  BY <1>0, <1>1 DEF TypeA, ARecord
<1>6. TypeA(x)
  BY <1>4, <1>5 DEF TypeA
<1>7. CASE Hand(x)
  <2> HIDE DEF x
  <2> QED BY <1>2, <1>3, <1>4, <1>5, <1>6, <1>7, HandingDelivery
<1>8. CASE a' = [x EXCEPT !.tail = k] /\ net' = net
  <2>1. /\ a'.sent - a'.tail = a.sent - a.tail /\ a'.unacked = a.unacked
        /\ a'.close = a.close /\ a'.ready = a.ready /\ a'.remote = a.remote
        /\ a'.forced = a.forced /\ a'.blind = a.blind
    <3> HIDE DEF x
    <3> QED BY <1>1, <1>5, <1>8 DEF ARecord
  <2>2. /\ Handed' = Handed /\ Waiting' = Waiting
        /\ Clean' <=> Clean
        /\ Ended' <=> Ended
    BY <1>3, <1>8, <2>1, Zenon DEF Handed, Waiting, Clean, Ended
  <2> HIDE DEF x
  <2>3. Places' /\ Lines' /\ Holding' /\ Beginning' /\ Counting'
    BY <1>3, <1>8, <2>1, <2>2, Zenon
       DEF Delivery, Places, Lines, Holding, Beginning, Counting
  <2>4. Ending'
    BY <1>2, <1>3, <1>8, <2>1, <2>2 DEF Delivery, Ending
  <2> QED BY <2>3, <2>4 DEF Delivery
<1> QED BY <1>3, <1>7, <1>8

\* While something is left in the tail, a close waits, unless it is forced.
LEMMA SendTailDelivery == ASSUME Types, Delivery, SendTail PROVE Delivery'
<1> DEFINE k == a.tail - 1
           x == [a EXCEPT !.tail = k]
<1>0. TypeA(a) /\ TypeB(b)
  BY DEF Types
<1>1. a.tail > 0 /\ b' = b /\ Hand(x)
  BY Zenon DEF SendTail
<1>2. k \in Counts /\ a.sent - k = a.sent - a.tail + 1 /\ k + a.unacked <= a.sent
  BY <1>0, <1>1, Bounds, Queues DEF Counts, TypeA, ARecord
<1> HIDE DEF k
<1>3. /\ x \in ARecord /\ x.sent = a.sent /\ x.tail = k /\ x.unacked = a.unacked
      /\ x.close = a.close /\ x.ready = a.ready /\ x.remote = a.remote
      /\ x.forced = a.forced /\ x.blind = a.blind
  BY <1>0, <1>2 DEF TypeA, ARecord
<1>4. TypeA(x)
  BY <1>2, <1>3 DEF TypeA
<1>5. Clean => ~Ended
  BY <1>1 DEF Delivery, Ending
<1> HIDE DEF x
<1> QED BY <1>1, <1>2, <1>3, <1>4, <1>5, HandingDelivery

LEMMA SendTailFailsDelivery == ASSUME Types, Delivery, SendTailFails PROVE Delivery'
<1> DEFINE k == a.tail - 1
<1>0. TypeA(a)
  BY DEF Types
<1>1. a.tail > 0 /\ b' = b /\ net' = net /\ a' = [a EXCEPT !.tail = k]
  BY Zenon DEF SendTailFails
<1>2. a.sent - a.tail <= a.sent - k /\ a.sent - k \in Int
  BY Queues
<1> HIDE DEF k
<1>3. /\ a'.sent = a.sent /\ a'.tail = k /\ a'.unacked = a.unacked
      /\ a'.close = a.close /\ a'.ready = a.ready /\ a'.remote = a.remote
      /\ a'.forced = a.forced /\ a'.blind = a.blind
  BY <1>0, <1>1 DEF TypeA, ARecord
<1>4. /\ Handed' = Handed /\ Waiting' = Waiting
      /\ Clean' <=> Clean
      /\ Ended' <=> Ended
  BY <1>1, <1>3, Zenon DEF Handed, Waiting, Clean, Ended
<1>5. Places'
  <2>1. \A m \in Handed : m <= a.sent - k
    <3> SUFFICES ASSUME NEW m \in Handed PROVE m <= a.sent - k
      OBVIOUS
    <3>1. m \in Nat /\ m <= a.sent - a.tail
      BY Parts, Queues, Bounds DEF Numbers
    <3> QED BY <1>2, <3>1, Queues
  <2> QED BY <1>1, <1>3, <1>4, <2>1, Parts DEF Places
<1>6. Lines' /\ Holding' /\ Beginning' /\ Counting'
  BY <1>1, <1>3, <1>4, Zenon DEF Delivery, Lines, Holding, Beginning, Counting
<1>7. Ending'
  BY <1>1, <1>3, <1>4 DEF Delivery, Ending
<1> QED BY <1>5, <1>6, <1>7 DEF Delivery

\* What B's channel does with an event: it ignores it, holds it back, notes
\* the close, or queues the message when nothing is held.
LEMMA Received ==
    ASSUME NEW c, TypeB(c), NEW e
    PROVE  \/ Receive(c, e) = c
           \/ Receive(c, e) = [c EXCEPT !.held = Append(@, e)] /\ (c.hold \/ c.drain)
           \/ /\ Receive(c, e) = [c EXCEPT !.remote = IF @ = "no" THEN "deferred" ELSE @]
              /\ e = CloseMark
           \/ /\ Receive(c, e) = [c EXCEPT !.inbox = Append(@, e)]
              /\ e # CloseMark /\ ~c.hold /\ ~c.drain
  BY Zenon DEF Receive

\* The oldest of the queue q reaches B's channel; o is the other route's queue.
LEMMA Delivering ==
    ASSUME Types, Holding, NEW R, NEW O, NEW q \in Seq(Nat), NEW o \in Seq(Nat), q # <<>>,
           Head(q) \notin O, b' = Receive(b, Head(q)),
           InLine(R, b.got, b.inbox, b.held, q), InLine(O, b.got, b.inbox, b.held, o)
    PROVE  /\ InLine(R, b'.got, b'.inbox, b'.held, Tail(q))
           /\ InLine(O, b'.got, b'.inbox, b'.held, o)
           /\ Holding' /\ b'.got = b.got
           /\ Range(b'.inbox) \subseteq Range(b.inbox) \cup ({Head(q)} \ {CloseMark})
           /\ Range(b'.held) \subseteq Range(b.held) \cup {Head(q)}
           /\ b'.kind = b.kind /\ b'.gone = b.gone /\ b'.closes = b.closes
           /\ b'.remote = b.remote \/ Head(q) = CloseMark
<1> DEFINE e == Head(q)
           t == Tail(q)
           h == Append(b.held, e)
           i == Append(b.inbox, e)
<1>0. TypeB(b)
  BY DEF Types
<1>1. e \in Nat
  BY Taken
<1>2. /\ \/ b' = b
         \/ b' = [b EXCEPT !.held = h] /\ (b.hold \/ b.drain)
         \/ b' = [b EXCEPT !.remote = IF @ = "no" THEN "deferred" ELSE @] /\ e = CloseMark
         \/ b' = [b EXCEPT !.inbox = i] /\ e # CloseMark /\ ~b.hold /\ ~b.drain
  <2>1. b' = Receive(b, e)
    OBVIOUS
  <2> HIDE DEF e
  <2> QED BY <1>0, <2>1, Received
<1>3. /\ Range(h) = Range(b.held) \cup {e} /\ Range(i) = Range(b.inbox) \cup {e}
  BY <1>1, Putting, Queues
<1>4. /\ InLine(R, b.got, b.inbox, h, t) /\ InLine(R, b.got, b.inbox, b.held, t)
      /\ b.held = <<>> => InLine(R, b.got, i, b.held, t)
      /\ InLine(O, b.got, b.inbox, h, o) /\ InLine(O, b.got, i, b.held, o)
  BY <1>1, Forward, Strange, Queues
<1> HIDE DEF e, t, h, i
<1>5. CASE b' = b
  BY <1>4, <1>5 DEF e, t, Holding
<1>6. CASE b' = [b EXCEPT !.held = h] /\ (b.hold \/ b.drain)
  <2>1. /\ b'.held = h /\ b'.got = b.got /\ b'.inbox = b.inbox /\ b'.kind = b.kind
        /\ b'.gone = b.gone /\ b'.closes = b.closes /\ b'.remote = b.remote
        /\ b'.hold = b.hold /\ b'.drain = b.drain
    BY <1>0, <1>6 DEF TypeB, BRecord
  <2> QED BY <1>3, <1>4, <1>6, <2>1 DEF e, t, Holding
<1>7. CASE b' = [b EXCEPT !.remote = IF @ = "no" THEN "deferred" ELSE @] /\ e = CloseMark
  <2>1. /\ b'.held = b.held /\ b'.got = b.got /\ b'.inbox = b.inbox /\ b'.kind = b.kind
        /\ b'.gone = b.gone /\ b'.closes = b.closes
        /\ b'.hold = b.hold /\ b'.drain = b.drain
    BY <1>0, <1>7 DEF TypeB, BRecord
  <2> QED BY <1>4, <1>7, <2>1 DEF e, t, Holding
<1>8. CASE b' = [b EXCEPT !.inbox = i] /\ e # CloseMark /\ ~b.hold /\ ~b.drain
  <2>1. /\ b'.held = b.held /\ b'.got = b.got /\ b'.inbox = i /\ b'.kind = b.kind
        /\ b'.gone = b.gone /\ b'.closes = b.closes /\ b'.remote = b.remote
        /\ b'.hold = b.hold /\ b'.drain = b.drain
    BY <1>0, <1>8 DEF TypeB, BRecord
  <2>2. b.held = <<>>
    BY <1>8 DEF Holding
  <2> QED BY <1>3, <1>4, <1>8, <2>1, <2>2 DEF e, t, Holding
<1> QED BY <1>2, <1>5, <1>6, <1>7, <1>8

\* A message or the close mark comes from a queue of its route.
LEMMA DeliverDelivery ==
    ASSUME Types, Delivery, DeliverSynthetic \/ DeliverNative PROVE Delivery'
<1>0. TypeNet /\ Holding
  BY DEF Types, Delivery
<1>1. a' = a
  BY DEF DeliverSynthetic, DeliverNative
<1> DEFINE tasks == Tail(net.tasks)
           wire == Tail(net.wire)
<1>2. \/ /\ DeliverSynthetic /\ net.tasks # <<>> /\ b' = Receive(b, Head(net.tasks))
         /\ net' = [net EXCEPT !.tasks = tasks]
      \/ /\ DeliverNative /\ net.wire # <<>> /\ b' = Receive(b, Head(net.wire))
         /\ net' = [net EXCEPT !.wire = wire] /\ net.event = "done"
  BY Zenon DEF DeliverSynthetic, DeliverNative
<1> HIDE DEF tasks, wire
<1>3. /\ net'.byTask = net.byTask /\ net'.byWire = net.byWire /\ net'.event = net.event
      /\ \/ /\ net.tasks # <<>> /\ b' = Receive(b, Head(net.tasks))
            /\ net'.tasks = tasks /\ net'.wire = net.wire
         \/ /\ net.wire # <<>> /\ b' = Receive(b, Head(net.wire)) /\ net.event = "done"
            /\ net'.wire = wire /\ net'.tasks = net.tasks
  BY <1>0, <1>2 DEF TypeNet
<1>4. PICK e :
        /\ InLine(net.byTask, b'.got, b'.inbox, b'.held, net'.tasks)
        /\ InLine(net.byWire, b'.got, b'.inbox, b'.held, net'.wire)
        /\ Holding' /\ b'.got = b.got
        /\ Range(b'.inbox) \subseteq Range(b.inbox) \cup ({e} \ {CloseMark})
        /\ Range(b'.held) \subseteq Range(b.held) \cup {e}
        /\ b'.kind = b.kind /\ b'.gone = b.gone /\ b'.closes = b.closes
        /\ b'.remote = b.remote \/ e = CloseMark
        /\ Range(net'.tasks) \subseteq Range(net.tasks)
        /\ Range(net'.wire) \subseteq Range(net.wire)
        /\ e \in Range(net.tasks) \/ (e \in Range(net.wire) /\ net.event = "done")
        /\ b.kind # "none"
  <2>1. CASE /\ net.tasks # <<>> /\ b' = Receive(b, Head(net.tasks))
             /\ net'.tasks = tasks /\ net'.wire = net.wire
    <3>1. /\ Head(net.tasks) \in Range(net.tasks)
          /\ Range(net.tasks) = {Head(net.tasks)} \cup Range(tasks)
      BY <2>1, Queues, Taken DEF tasks
    <3>2. Head(net.tasks) \notin net.byWire
      BY <3>1, Parts
    <3>3. b.kind # "none"
      BY <2>1 DEF Delivery, Beginning
    <3> DEFINE e == Head(net.tasks)
    <3>4. /\ InLine(net.byTask, b'.got, b'.inbox, b'.held, tasks)
          /\ InLine(net.byWire, b'.got, b'.inbox, b'.held, net.wire)
          /\ Holding' /\ b'.got = b.got
          /\ Range(b'.inbox) \subseteq Range(b.inbox) \cup ({e} \ {CloseMark})
          /\ Range(b'.held) \subseteq Range(b.held) \cup {e}
          /\ b'.kind = b.kind /\ b'.gone = b.gone /\ b'.closes = b.closes
          /\ b'.remote = b.remote \/ e = CloseMark
      BY <1>0, <2>1, <3>2, Delivering, Parts, Queues DEF tasks
    <3> HIDE DEF e
    <3>5. e \in Range(net.tasks) /\ Range(tasks) \subseteq Range(net.tasks)
      BY <3>1 DEF e
    <3> QED BY <2>1, <3>3, <3>4, <3>5
  <2>2. CASE /\ net.wire # <<>> /\ b' = Receive(b, Head(net.wire)) /\ net.event = "done"
             /\ net'.wire = wire /\ net'.tasks = net.tasks
    <3>1. /\ Head(net.wire) \in Range(net.wire)
          /\ Range(net.wire) = {Head(net.wire)} \cup Range(wire)
      BY <2>2, Queues, Taken DEF wire
    <3>2. Head(net.wire) \notin net.byTask
      BY <3>1, Parts, Queues DEF Handed
    <3>3. b.kind # "none"
      BY <2>2 DEF Delivery, Beginning
    <3> DEFINE e == Head(net.wire)
    <3>4. /\ InLine(net.byTask, b'.got, b'.inbox, b'.held, net.tasks)
          /\ InLine(net.byWire, b'.got, b'.inbox, b'.held, wire)
          /\ Holding' /\ b'.got = b.got
          /\ Range(b'.inbox) \subseteq Range(b.inbox) \cup ({e} \ {CloseMark})
          /\ Range(b'.held) \subseteq Range(b.held) \cup {e}
          /\ b'.kind = b.kind /\ b'.gone = b.gone /\ b'.closes = b.closes
          /\ b'.remote = b.remote \/ e = CloseMark
      BY <1>0, <2>2, <3>2, Delivering, Parts, Queues DEF wire
    <3> HIDE DEF e
    <3>5. e \in Range(net.wire) /\ Range(wire) \subseteq Range(net.wire)
      BY <3>1 DEF e
    <3> QED BY <2>2, <3>3, <3>4, <3>5
  <2> QED BY <1>3, <2>1, <2>2
<1>5. /\ Handed' = Handed /\ Waiting' = Waiting
      /\ Clean' <=> Clean
      /\ Ended' <=> Ended
  BY <1>1, <1>3, <1>4, Zenon DEF Handed, Waiting, Clean, Ended
<1>6. e \in Handed \cup {CloseMark}
  BY <1>4, Parts DEF Handed
<1>7. Places'
  BY <1>1, <1>3, <1>4, <1>5, <1>6, Parts DEF Places
<1>8. Lines'
  BY <1>3, <1>4 DEF Lines
<1>9. Beginning'
  BY <1>1, <1>3, <1>4, <1>5 DEF Delivery, Beginning
<1>10. Counting'
  BY <1>1, <1>5, Zenon DEF Delivery, Counting
<1>11. Ending'
  <2>1. e = CloseMark => CloseMark \in Range(net.wire)
    BY <1>4, Parts, Queues DEF Handed
  <2> QED BY <1>1, <1>4, <1>5, <2>1 DEF Delivery, Ending
<1> QED BY <1>4, <1>7, <1>8, <1>9, <1>10, <1>11 DEF Delivery

\* What was held back is taken up in its order.
LEMMA DrainDelivery == ASSUME Types, Delivery, DrainHeld PROVE Delivery'
<1> DEFINE c == [b EXCEPT !.hold = FALSE, !.drain = FALSE]
           e == Head(b.held)
           d == Receive(c, e)
           t == Tail(b.held)
           more == Len(b.held) > 1
<1>0. TypeB(b) /\ Holding
  BY DEF Types, Delivery
<1>1. /\ a' = a /\ net' = net
      /\ b' = IF b.held = <<>> THEN [b EXCEPT !.drain = FALSE]
              ELSE [d EXCEPT !.hold = b.hold, !.held = t, !.drain = more]
  BY Zenon DEF DrainHeld
<1>2. CASE b.held = <<>>
  <2>1. Kept(b, b')
    BY <1>0, <1>1, <1>2 DEF TypeB, BRecord, Kept
  <2> QED BY <1>1, <2>1, KeptSame, Quiet
<1>3. CASE b.held # <<>>
  <2> DEFINE i == Append(b.inbox, e)
  <2>1. TypeB(c)
    BY <1>0 DEF TypeB, BRecord
  <2>2. /\ e \in Range(b.held) /\ e \in Nat
        /\ Range(b.held) = {e} \cup Range(t)
    BY <1>3, Queues, Taken
  <2>3. more <=> t # <<>>
    <3>1. t \in Seq(Nat) /\ Len(t) = Len(b.held) - 1 /\ Len(b.held) \in Nat
      BY <1>3, Queues, HeadTailProperties, LenProperties
    <3>2. t = <<>> <=> Len(t) = 0
      BY <3>1, EmptySeq
    <3> HIDE DEF t
    <3>3. Len(t) \in Nat
      BY <3>1, LenProperties
    <3> QED BY <3>1, <3>2, <3>3
  <2>4. /\ c.held = b.held /\ c.inbox = b.inbox /\ c.got = b.got /\ c.remote = b.remote
        /\ c.kind = b.kind /\ c.gone = b.gone /\ c.closes = b.closes
        /\ ~c.hold /\ ~c.drain
    BY <1>0 DEF TypeB, BRecord
  <2>5. \/ d = c
        \/ d = [c EXCEPT !.remote = IF @ = "no" THEN "deferred" ELSE @] /\ e = CloseMark
        \/ d = [c EXCEPT !.inbox = i] /\ e # CloseMark
    <3> HIDE DEF c, e
    <3> QED BY <2>1, <2>4, Received
  <2>6. b' = [d EXCEPT !.hold = b.hold, !.held = t, !.drain = more]
    BY <1>1, <1>3, Zenon
  <2> HIDE DEF c, d, e, t, i, more
  <2>7. /\ d \in [DOMAIN c -> {d[x] : x \in DOMAIN c}] /\ DOMAIN d = DOMAIN c
        /\ d.got = b.got /\ d.kind = b.kind /\ d.gone = b.gone /\ d.closes = b.closes
        /\ \/ d.inbox = b.inbox /\ (d.remote = b.remote \/ e = CloseMark)
           \/ d.inbox = i /\ d.remote = b.remote /\ e # CloseMark
    BY <2>1, <2>4, <2>5 DEF TypeB, BRecord
  <2>8. /\ b'.got = b.got /\ b'.kind = b.kind /\ b'.gone = b.gone /\ b'.closes = b.closes
        /\ b'.held = t /\ b'.drain = more
        /\ \/ b'.inbox = b.inbox /\ (b'.remote = b.remote \/ e = CloseMark)
           \/ b'.inbox = i /\ b'.remote = b.remote /\ e # CloseMark
    BY <2>1, <2>6, <2>7 DEF TypeB, BRecord
  <2>9. Range(i) = Range(b.inbox) \cup {e}
    BY <2>2, Putting, Queues DEF i
  <2>10. /\ InLine(net.byTask, b.got, b.inbox, t, net.tasks)
         /\ InLine(net.byTask, b.got, i, t, net.tasks)
         /\ InLine(net.byWire, b.got, b.inbox, t, net.wire)
         /\ InLine(net.byWire, b.got, i, t, net.wire)
    BY <1>3, Forward, Parts, Queues DEF e, i, t
  <2>11. /\ Handed' = Handed /\ Waiting' = Waiting
         /\ Clean' <=> Clean
         /\ Ended' <=> Ended
    BY <1>1, <2>8, Zenon DEF Handed, Waiting, Clean, Ended
  <2>12. Places'
    BY <1>1, <2>2, <2>8, <2>9, <2>11, Parts DEF Places
  <2>13. Lines'
    BY <1>1, <2>8, <2>10 DEF Lines
  <2>14. Holding'
    BY <2>3, <2>8 DEF Holding
  <2>15. Beginning'
    BY <1>1, <1>3, <2>8, <2>11 DEF Delivery, Beginning
  <2>16. Counting'
    BY <1>1, <2>11, Zenon DEF Delivery, Counting
  <2>17. Ending'
    BY <1>1, <2>2, <2>8, <2>11 DEF Delivery, Ending
  <2> QED BY <2>12, <2>13, <2>14, <2>15, <2>16, <2>17 DEF Delivery
<1> QED BY <1>2, <1>3

\* A message that is dispatched was waited for, or is empty, or the count no
\* longer matters.
LEMMA DispatchDelivery == ASSUME Types, IInv, Delivery, DispatchMessage PROVE Delivery'
<1> DEFINE m == Head(b.inbox)
           s == Tail(b.inbox)
           g == Append(b.got, m)
<1>0. TypeA(a) /\ TypeB(b)
  BY DEF Types
<1>1. /\ b.inbox # <<>> /\ b.ready # "closed" /\ net' = net
      /\ b' = [b EXCEPT !.inbox = s, !.got = g] /\ a' = Acknowledge(a, m)
  BY Zenon DEF DispatchMessage
<1>2. /\ m \in Range(b.inbox) /\ m \in Nat /\ Range(b.inbox) = {m} \cup Range(s)
  BY <1>1, Queues, Taken
<1>3. Range(g) = Range(b.got) \cup {m}
  BY <1>2, Putting, Queues
<1>4. /\ InLine(net.byTask, g, s, b.held, net.tasks)
      /\ InLine(net.byWire, g, s, b.held, net.wire)
  BY <1>1, Forward, Parts, Queues
<1>5. m \in Handed /\ m \notin Range(b.got)
  <2>1. m \in Handed
    BY <1>2, Parts
  <2>2. /\ Below(net.byTask, Range(b.got), Range(b.inbox))
        /\ Below(net.byWire, Range(b.got), Range(b.inbox))
    BY Parts DEF InLine
  <2>3. ~(m < m)
    BY <1>2
  <2> QED BY <1>2, <2>1, <2>2, <2>3 DEF Below, Handed
<1> DEFINE n == IF a.unacked > 0 THEN a.unacked - 1 ELSE 0
<1>6. a' = IF Linked /\ m \notin Empty THEN [a EXCEPT !.unacked = n] ELSE a
  BY <1>1, Zenon DEF Acknowledge
<1> HIDE DEF m, s, g, n
<1>7. /\ b'.got = g /\ b'.inbox = s /\ b'.held = b.held /\ b'.kind = b.kind
      /\ b'.hold = b.hold /\ b'.drain = b.drain /\ b'.remote = b.remote
      /\ b'.gone = b.gone /\ b'.closes = b.closes
  BY <1>0, <1>1 DEF TypeB, BRecord
<1>8. /\ a'.sent = a.sent /\ a'.tail = a.tail /\ a'.close = a.close
      /\ a'.ready = a.ready /\ a'.remote = a.remote /\ a'.forced = a.forced
      /\ a'.blind = a.blind
      /\ a'.unacked = IF Linked /\ m \notin Empty THEN n ELSE a.unacked
  BY <1>0, <1>6 DEF TypeA, ARecord
<1>9. /\ Handed' = Handed
      /\ Clean' <=> Clean
      /\ Ended' <=> Ended
  BY <1>1, <1>7, <1>8, Zenon DEF Handed, Clean, Ended
<1>10. Waiting' = Waiting \ {m}
  BY <1>3, <1>7, <1>9 DEF Waiting
<1>11. Counting'
  <2> SUFFICES ASSUME Clean PROVE a'.unacked = Cardinality(Waiting')
    BY <1>9 DEF Counting
  <2>1. a.unacked = Cardinality(Waiting)
    BY DEF Delivery, Counting
  <2>2. CASE m \in Empty
    <3>1. Waiting' = Waiting
      BY <1>10, <2>2 DEF Waiting
    <3> QED BY <1>8, <2>1, <2>2, <3>1
  <2>3. CASE m \notin Empty
    <3>1. m \in Waiting
      BY <1>5, <2>3 DEF Waiting
    <3>2. b.kind # "none"
      BY <1>1 DEF Delivery, Beginning
    <3>3. a.ready # "closed"
      BY <3>1 DEF Delivery, Ending, Clean
    <3>4. Linked
      BY <1>1, <3>2, <3>3 DEF Linked
    <3>5. Cardinality(Waiting') = Cardinality(Waiting) - 1
      BY <1>10, <3>1, FewWaiting, FS_RemoveElement
    <3>6. Cardinality(Waiting) # 0
      BY <3>1, FewWaiting, FS_EmptySet
    <3>7. a.unacked > 0
      BY <2>1, <3>6, Queues
    <3> QED BY <1>8, <2>1, <2>3, <3>4, <3>5, <3>7 DEF n
  <2> QED BY <2>2, <2>3
<1>12. Places'
  BY <1>1, <1>2, <1>3, <1>5, <1>7, <1>8, <1>9, Parts DEF Places
<1>13. Lines'
  BY <1>1, <1>4, <1>7 DEF Lines
<1>14. Beginning'
  BY <1>1, <1>7, <1>8, <1>9 DEF Delivery, Beginning
<1>15. Ending'
  BY <1>1, <1>7, <1>8, <1>9, <1>10 DEF Delivery, Ending
<1>16. Holding'
  BY <1>7 DEF Delivery, Holding
<1> QED BY <1>11, <1>12, <1>13, <1>14, <1>15, <1>16 DEF Delivery

LEMMA MessageDelivery ==
    ASSUME Types, IInv, Delivery, MessageSteps PROVE Delivery'
  BY SendDelivery, SendTailDelivery, SendTailFailsDelivery, DeliverDelivery,
     DrainDelivery, DispatchDelivery DEF MessageSteps

\* A, or B, closes: A only when nothing is waited for.
LEMMA Closing ==
    ASSUME Types, IInv, Delivery, Close \/ DrainPoll PROVE Delivery'
<1>0. TypeA(a)
  BY DEF Types
<1>1. /\ b' = b /\ net' = net
      /\ a'.sent = a.sent /\ a'.tail = a.tail /\ a'.unacked = a.unacked
      /\ a'.remote = a.remote /\ a'.forced = a.forced /\ a'.blind = a.blind
      /\ a'.close \in {"drain", "close"} /\ a.close \in {"no", "drain"}
      /\ a'.close = "close" => a.tail = 0 /\ (Linked => a.unacked = 0)
      /\ \/ a'.ready = "closing" /\ a.ready # "closed"
         \/ a'.ready = a.ready /\ a.close # "no"
  <2>1. CASE Close
    <3>1. PICK k \in {"drain", "close"} :
            /\ a' = [a EXCEPT !.ready = "closing", !.partner = Linked, !.close = k]
            /\ k = "close" => ~(a.tail + a.unacked > 0)
      BY <2>1 DEF Close
    <3>2. a.ready \in {"connecting", "open"} /\ b' = b /\ net' = net
      BY <2>1 DEF Close
    <3>3. a.close = "no"
      BY <1>0, <3>2 DEF Delivery, Ending, TypeA, ARecord
    <3>4. k = "close" => a.tail = 0 /\ a.unacked = 0
      BY <3>1, Queues
    <3>5. /\ a'.sent = a.sent /\ a'.tail = a.tail /\ a'.unacked = a.unacked
          /\ a'.remote = a.remote /\ a'.forced = a.forced /\ a'.blind = a.blind
          /\ a'.close = k /\ a'.ready = "closing"
      BY <1>0, <3>1 DEF TypeA, ARecord
    <3> QED BY <3>2, <3>3, <3>4, <3>5
  <2>2. CASE DrainPoll
    <3>1. /\ a' = [a EXCEPT !.close = "close"] /\ b' = b /\ net' = net
          /\ a.close = "drain" /\ a.tail = 0 /\ (Linked => a.unacked = 0)
      BY <2>2 DEF DrainPoll, Drained
    <3> QED BY <1>0, <3>1 DEF TypeA, ARecord
  <2> QED BY <2>1, <2>2
<1>2. /\ Handed' = Handed /\ Waiting' = Waiting
      /\ Clean' <=> Clean
      /\ ~Ended
  BY <1>1, Zenon DEF Handed, Waiting, Clean, Ended
<1>3. Places' /\ Lines' /\ Holding' /\ Beginning' /\ Counting'
  BY <1>1, <1>2, Zenon DEF Delivery, Places, Lines, Holding, Beginning, Counting
<1>4. ASSUME Clean, a'.close = "close" PROVE Waiting = {}
  <2>1. CASE Linked
    <3>1. Cardinality(Waiting) = 0
      BY <1>1, <1>4, <2>1 DEF Delivery, Counting
    <3> QED BY <3>1, FewWaiting, FS_EmptySet
  <2>2. CASE ~Linked
    <3>1. a.ready # "closed" /\ b.gone = 0
      BY <1>2, <1>4 DEF Delivery, Ending, Clean, IInv, Fine
    <3>2. b.kind = "none"
      BY <2>2, <3>1 DEF IInv, Fine, Linked
    <3>3. Handed = {}
      BY <1>4, <3>2 DEF Delivery, Beginning, Clean
    <3> QED BY <3>3 DEF Waiting
  <2> QED BY <2>1, <2>2
<1>5. Ending'
  <2>1. Clean' /\ Ended' => a'.tail = 0 /\ Waiting' = {}
    BY <1>1, <1>2, <1>4 DEF Ended
  <2>2. a'.close # "no" => a'.ready \in {"closing", "closed"}
    BY <1>1 DEF Delivery, Ending
  <2>3. /\ b'.closes = b.closes /\ b'.gone = b.gone /\ b'.remote = b.remote
        /\ b'.held = b.held /\ net'.wire = net.wire
        /\ a'.ready = "closed" => a.ready = "closed"
    BY <1>1
  <2>4. ~b.closes => /\ b.gone = 0 /\ b.remote = "no" /\ a.remote = "no"
                     /\ a.ready # "closed" /\ CloseMark \notin Range(net.wire)
                     /\ CloseMark \notin Range(b.held)
    BY <1>2 DEF Delivery, Ending, IInv, Fine
  <2> QED BY <1>1, <2>1, <2>2, <2>3, <2>4 DEF Ending
<1> QED BY <1>3, <1>5 DEF Delivery

\* What keeps the messages where they are, and every queue.
LEMMA Settling ==
    ASSUME Types, Delivery,
           a'.sent = a.sent, a'.tail = a.tail, a'.unacked = a.unacked,
           a'.blind = a.blind, b'.got = b.got, b'.inbox = b.inbox, b'.held = b.held,
           b'.kind = b.kind, b'.hold = b.hold, b'.drain = b.drain,
           net'.tasks = net.tasks, net'.byTask = net.byTask, net'.byWire = net.byWire,
           net'.event = net.event,
           net'.wire = net.wire \/ net'.wire = Append(net.wire, CloseMark),
           Clean' => Clean, Ending'
    PROVE  Delivery'
<1>1. Handed' = Handed /\ Waiting' = Waiting
  BY Zenon DEF Handed, Waiting
<1>2. Range(net'.wire) \subseteq Range(net.wire) \cup {CloseMark}
  <2>1. CloseMark \in Nat
    BY DEF CloseMark
  <2> QED BY <2>1, Putting, Queues
<1>3. Places'
  BY <1>1, <1>2, Parts DEF Places
<1>4. Lines'
  <2>1. CloseMark \in Nat /\ CloseMark \notin net.byWire
    BY Queues DEF Handed, CloseMark
  <2>2. InLine(net.byWire, b.got, b.inbox, b.held, Append(net.wire, CloseMark))
    BY <2>1, Strange, Parts, Queues
  <2> QED BY <2>2, Parts DEF Lines
<1>5. Holding' /\ Beginning' /\ Counting'
  BY <1>1, Zenon DEF Delivery, Holding, Beginning, Counting
<1> QED BY <1>3, <1>4, <1>5 DEF Delivery

LEMMA CloseNativeDelivery == ASSUME Types, Delivery, CloseNative PROVE Delivery'
<1> DEFINE r == IF b.remote = "no" THEN "deferred" ELSE b.remote
           wire == Append(net.wire, CloseMark)
           w == IF a.native = "open" THEN wire ELSE net.wire
<1>0. TypeA(a) /\ TypeB(b) /\ TypeNet
  BY DEF Types
<1>1. /\ a' = [a EXCEPT !.close = "done", !.native = "closed", !.remote = "closing"]
      /\ b' \in {b, [b EXCEPT !.remote = r]}
      /\ net' = [net EXCEPT !.wire = w]
      /\ a.close = "close"
  BY Zenon DEF CloseNative
<1>2. w \in {net.wire, wire}
  OBVIOUS
<1> HIDE DEF r, w, wire
<1>3. /\ a'.sent = a.sent /\ a'.tail = a.tail /\ a'.unacked = a.unacked
      /\ a'.forced = a.forced /\ a'.blind = a.blind /\ a'.close = "done"
      /\ a'.ready = a.ready
  BY <1>0, <1>1 DEF TypeA, ARecord
<1>4. /\ b'.got = b.got /\ b'.inbox = b.inbox /\ b'.held = b.held
      /\ b'.kind = b.kind /\ b'.hold = b.hold /\ b'.drain = b.drain
      /\ b'.closes = b.closes /\ b'.gone = b.gone
  BY <1>0, <1>1 DEF TypeB, BRecord
<1>5. /\ net'.tasks = net.tasks /\ net'.byTask = net.byTask /\ net'.byWire = net.byWire
      /\ net'.event = net.event /\ net'.wire \in {net.wire, wire}
  BY <1>0, <1>1, <1>2 DEF TypeNet
<1>6. /\ Handed' = Handed /\ Waiting' = Waiting
      /\ Clean' <=> Clean
      /\ Ended /\ Ended'
  BY <1>1, <1>3, <1>4, <1>5, Zenon DEF Handed, Waiting, Clean, Ended
<1>7. Ending'
  BY <1>1, <1>3, <1>6 DEF Delivery, Ending
<1> QED BY <1>3, <1>4, <1>5, <1>6, <1>7, Settling DEF wire

LEMMA CloseDelivery == ASSUME Types, IInv, Delivery, CloseSteps PROVE Delivery'
<1>0. TypeA(a) /\ TypeB(b) /\ TypeNet
  BY DEF Types
<1>1. CASE DrainDeadline
  <2>1. /\ a' = [a EXCEPT !.close = "close", !.forced = TRUE] /\ b' = b /\ net' = net
        /\ a.close = "drain"
    BY <1>1 DEF DrainDeadline
  <2>2. /\ a'.sent = a.sent /\ a'.tail = a.tail /\ a'.unacked = a.unacked
        /\ a'.forced = TRUE /\ a'.blind = a.blind /\ a'.close = "close"
        /\ a'.ready = a.ready
    BY <1>0, <2>1 DEF TypeA, ARecord
  <2>3. ~Clean' /\ Ended'
    BY <2>2 DEF Clean, Ended
  <2>4. Ending'
    BY <2>1, <2>2, <2>3 DEF Delivery, Ending
  <2> QED BY <2>1, <2>2, <2>3, <2>4, Settling
<1>2. CASE CloseByB
  <2>1. /\ b' = [b EXCEPT !.ready = "closing", !.closes = TRUE, !.remote = "closing"]
        /\ a' \in {a, [a EXCEPT !.remote = IF @ = "no" THEN "deferred" ELSE @]}
        /\ net' = net
    BY <1>2, Zenon DEF CloseByB
  <2>2. /\ a'.sent = a.sent /\ a'.tail = a.tail /\ a'.unacked = a.unacked
        /\ a'.forced = a.forced /\ a'.blind = a.blind /\ a'.close = a.close
        /\ a'.ready = a.ready
    BY <1>0, <2>1 DEF TypeA, ARecord
  <2>3. /\ b'.got = b.got /\ b'.inbox = b.inbox /\ b'.held = b.held
        /\ b'.kind = b.kind /\ b'.hold = b.hold /\ b'.drain = b.drain
        /\ b'.closes = TRUE
    BY <1>0, <2>1 DEF TypeB, BRecord
  <2>4. ~Clean'
    BY <2>3 DEF Clean
  <2>5. Ending'
    BY <2>2, <2>3, <2>4 DEF Delivery, Ending
  <2> QED BY <2>1, <2>2, <2>3, <2>4, <2>5, Settling
<1>3. CASE RemoteClose \/ HandleClose
  <2> DEFINE n == b.gone + 1
             x == [a EXCEPT !.remote = "closing", !.ready = "closing"]
             y == [a EXCEPT !.ready = "closed"]
             c == [b EXCEPT !.remote = "closing", !.ready = "closing"]
             d == [b EXCEPT !.ready = "closed", !.announced = FALSE, !.pending = FALSE,
                            !.gone = n]
  <2>1. /\ net' = net
        /\ \/ b' = b /\ a' = x /\ a.remote # "no" /\ a.ready # "closed"
           \/ b' = b /\ a' = y /\ a.remote # "no"
           \/ a' = a /\ b' = c /\ b.remote # "no"
           \/ a' = a /\ b' = d /\ b.remote # "no"
    BY <1>3, Zenon DEF RemoteClose, HandleClose
  <2> HIDE DEF n
  <2>2. /\ a'.sent = a.sent /\ a'.tail = a.tail /\ a'.unacked = a.unacked
        /\ a'.forced = a.forced /\ a'.blind = a.blind /\ a'.close = a.close
        /\ a'.ready = a.ready \/ a'.ready \in {"closing", "closed"}
        /\ a'.ready = "closed" \/ a'.remote # "no" =>
             a.ready = "closed" \/ a.remote # "no"
    BY <1>0, <2>1 DEF TypeA, ARecord
  <2>3. /\ b'.got = b.got /\ b'.inbox = b.inbox /\ b'.held = b.held
        /\ b'.kind = b.kind /\ b'.hold = b.hold /\ b'.drain = b.drain
        /\ b'.closes = b.closes
        /\ b'.gone = b.gone \/ b.remote # "no"
        /\ b'.remote # "no" => b.remote # "no"
    BY <1>0, <2>1 DEF TypeB, BRecord
  <2>4. /\ Handed' = Handed /\ Waiting' = Waiting
        /\ Clean' <=> Clean
        /\ Ended' <=> Ended
    BY <2>1, <2>2, <2>3, Zenon DEF Handed, Waiting, Clean, Ended
  <2> HIDE DEF x, y, c, d
  <2>5. Ending'
    BY <2>1, <2>2, <2>3, <2>4 DEF Delivery, Ending
  <2> QED BY <2>1, <2>2, <2>3, <2>4, <2>5, Settling
<1> QED BY <1>1, <1>2, <1>3, Closing, CloseNativeDelivery DEF CloseSteps

LEMMA NextDelivery ==
    ASSUME Types, IInv, Delivery, [Next]_vars PROVE Delivery'
<1>0. TypeB(b)
  BY DEF Types
<1>1. CASE GraceEnds
  <2>1. Kept(b, [b EXCEPT !.clock = "ready"])
    BY <1>0 DEF TypeB, BRecord, Kept
  <2> QED BY <1>1, <2>1, KeptSame, Quiet DEF GraceEnds
<1>2. CASE UNCHANGED vars
  BY <1>2, KeptSame, Quiet DEF vars
<1> QED BY <1>1, <1>2, AnnouncementDelivery, MessageDelivery, CloseDelivery,
           PeerDelivery DEF Next

\* B dispatches the messages of each route in the order they were sent, each once,
\* for any number of messages and channels, also while the channel turns from a
\* synthetic into a native one and its announcement holds events back.  And A's
\* close, unless it meets its deadline, waits for all that it handed over while
\* the channels were linked, but the empty ones.
THEOREM ClosesAfterTheLast == Spec => []CloseOvertakesNothing
<1>1. Types /\ IInv /\ Delivery => CloseOvertakesNothing
  <2> SUFFICES ASSUME Types, IInv, Delivery PROVE CloseOvertakesNothing
    OBVIOUS
  <2>1. Ordered(net.byTask, b.got) /\ Ordered(net.byWire, b.got)
    BY Parts DEF InLine
  <2>2. ASSUME NEW i \in DOMAIN b.got, NEW j \in DOMAIN b.got, i < j,
               SameRoute(b.got[i], b.got[j])
        PROVE  b.got[i] < b.got[j]
    BY <2>1, <2>2 DEF Ordered, SameRoute
  <2>3. ASSUME b.gone > 0, ~b.closes, ~a.forced, ~a.blind
        PROVE  (net.byTask \cup net.byWire) \ Empty \subseteq Range(b.got)
    <3>1. Clean /\ Ended
      BY <2>3 DEF Delivery, Ending, Clean
    <3>2. Waiting = {}
      BY <3>1 DEF Delivery, Ending
    <3> QED BY <3>2 DEF Waiting, Handed
  <2> QED BY <2>2, <2>3 DEF CloseOvertakesNothing
<1>2. Init => Types /\ IInv /\ Delivery
  BY TypesInit, InitIInv, DeliveryInit
<1>3. Types /\ IInv /\ Delivery /\ [Next]_vars => (Types /\ IInv /\ Delivery)'
  BY NextTypes, NextIInv, NextDelivery
<1> QED BY <1>1, <1>2, <1>3, PTL DEF Spec
=============================================================================
