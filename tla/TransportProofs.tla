-------------------------- MODULE TransportProofs -------------------------
(***************************************************************************)
(* Once nothing is left to run, the SCTP transport shows what the          *)
(* connection is, and once connected it stays so: for any number of        *)
(* operations and of native states ahead of their events, with or without  *)
(* a paired peer.  And every state it can be in has its type: a native     *)
(* event is assigned as it comes.                                          *)
(*                                                                         *)
(* Then, of the native objects below it: how a peer connection is taken    *)
(* down with its channels (PeerTeardown), for any sets of channels.        *)
(***************************************************************************)
EXTENDS PeerTeardown, SctpTransport, SequenceTheorems, TLAPS

TFields == {"closed", "local", "remote", "ops", "explicit", "ice", "conn", "sctp",
            "ready", "poll", "deadline", "over", "requested", "started",
            "replaying", "immediates", "timers"}

TaskNames == {"update", "transition", "peerClosed"}

QFields == {"link", "ops", "negotiated", "up"}

TShape(p) == DOMAIN p = TFields /\ p.immediates \in Seq(TaskNames) /\ p.ops \in Nat
QShape(o) == DOMAIN o = QFields /\ o.ops \in Nat

\* A task or the end of an operation is still to come, and looks again.
Busy(p, o) == p.immediates # <<>> \/ ~OperationsSettled(p, o)

Connects(p, o) == NativeConnected(p, o) \/ SameProcessConnected(p, o)

\* There is a transport wherever there is data, and a closed connection's is
\* closed.
Present(p) ==
    HasData(p) => p.sctp # "none" /\ (p.closed => p.sctp = "closed")

\* Once p is not busy its transport is right, or the poll is going to look.
Right(p, o) ==
    HasData(p) /\ ~Busy(p, o) =>
        /\ Failed(p) => p.sctp = "closed"
        /\ ~Failed(p) => p.sctp \in {"connecting", "connected"}
        /\ p.sctp = "connected" => Connects(p, o)
        /\ p.sctp = "connecting" /\ Negotiated(p) => p.poll \/ p.deadline = "over"

Good(p, o) == TShape(p) /\ Present(p) /\ Right(p, o)

IInv == QShape(q) /\ Good(t, q)

-----------------------------------------------------------------------------
\* Two states of the connection that the transport cannot tell apart.
Alike(p, r) ==
    /\ TShape(r)
    /\ <<r.closed, r.local, r.remote, r.explicit>>
         = <<p.closed, p.local, p.remote, p.explicit>>
    /\ <<r.ops, r.ice, r.conn, r.sctp>> = <<p.ops, p.ice, p.conn, p.sctp>>
    /\ <<r.poll, r.deadline, r.immediates>> = <<p.poll, p.deadline, p.immediates>>

LEMMA AlikeGood ==
    ASSUME NEW p, NEW r, NEW o, Good(p, o), Alike(p, r)
    PROVE  Good(r, o)
  BY DEF Good, Alike, Present, Right, Busy, OperationsSettled, Connects,
         NativeConnected, SameProcessConnected, Same, SeesConnection, Negotiated,
         HasData, Failed

\* Putting a task into a queue of immediates leaves it non-empty.
LEMMA Queued ==
    ASSUME NEW S, NEW queue \in Seq(S), NEW task \in S
    PROVE  /\ Append(queue, task) \in Seq(S) /\ Append(queue, task) # <<>>
           /\ Once(queue, task) \in Seq(S) /\ Once(queue, task) # <<>>
  <1>1. Append(queue, task) \in Seq(S) /\ Append(queue, task) # <<>>
    BY AppendProperties
  <1>2. CASE \E i \in DOMAIN queue : queue[i] = task
    <2>1. queue # <<>>
      BY <1>2
    <2> QED
      BY <1>2, <2>1, <1>1 DEF Once
  <1>3. CASE ~ \E i \in DOMAIN queue : queue[i] = task
    BY <1>1, <1>3 DEF Once
  <1> QED
    BY <1>1, <1>2, <1>3

LEMMA Scheduled ==
    ASSUME NEW p, NEW o, TShape(p), Present(p)
    PROVE  /\ TShape(ScheduleUpdate(p)) /\ ScheduleUpdate(p).immediates # <<>>
           /\ Good(ScheduleUpdate(p), o)
  <1>1. /\ Once(p.immediates, "update") \in Seq(TaskNames)
        /\ Once(p.immediates, "update") # <<>>
    <2>1. p.immediates \in Seq(TaskNames) /\ "update" \in TaskNames
      BY DEF TShape, TaskNames
    <2> QED
      BY <2>1, Queued
  <1> QED
    BY <1>1 DEF ScheduleUpdate, TShape, TFields, Good, Present, Right, Busy, HasData

\* The events of the ICE transport do not touch what decides the SCTP state.
LEMMA IceEvents ==
    ASSUME NEW p, NEW state, TShape(p)
    PROVE  Alike(p, HandleIceState(p, state)) /\ Alike(p, ForceDisconnected(p))
  BY DEF Alike, HandleIceState, ForceDisconnected, StartReplay, Soon, TShape, TFields

\* What an update gives a transport there is data for.
LEMMA UpdateFields ==
    ASSUME NEW p, NEW o, TShape(p), HasData(p)
    PROVE  LET should == ShouldConnect(p, o)
               u == Update(p, o)
               wait == should /\ p.sctp # "connected"
                              /\ ~(p.ready /\ should /\ ~Failed(p))
               state == IF Failed(p) THEN "closed"
                        ELSE IF should /\ ~wait THEN "connected" ELSE "connecting"
               polls == state = "connecting" /\ PollDue(p, o)
           IN  /\ DOMAIN u = TFields
               /\ u.closed = p.closed /\ u.local = p.local /\ u.remote = p.remote
               /\ u.explicit = p.explicit /\ u.ops = p.ops
               /\ u.ice = p.ice /\ u.conn = p.conn
               /\ u.sctp = state
               /\ u.immediates = IF wait THEN Once(p.immediates, "transition")
                                 ELSE p.immediates
               /\ polls => u.poll
               /\ state = "connecting" /\ ~polls => u.deadline = p.deadline
  BY DEF Update, Existing, TShape, TFields

\* An update makes the state right, whatever it was before.
LEMMA Updated ==
    ASSUME NEW p, NEW o, TShape(p)
    PROVE  Good(Update(p, o), o)
  <1>1. CASE ~HasData(p)
    BY <1>1 DEF Update, Good, TShape, TFields, Present, Right, HasData
  <1>2. CASE HasData(p)
    <2> DEFINE u == Update(p, o)
               should == ShouldConnect(p, o)
               wait == should /\ p.sctp # "connected"
                              /\ ~(p.ready /\ should /\ ~Failed(p))
               state == IF Failed(p) THEN "closed"
                        ELSE IF should /\ ~wait THEN "connected" ELSE "connecting"
               polls == state = "connecting" /\ PollDue(p, o)
    <2>1. /\ DOMAIN u = TFields
          /\ u.closed = p.closed /\ u.local = p.local /\ u.remote = p.remote
          /\ u.explicit = p.explicit /\ u.ops = p.ops
          /\ u.ice = p.ice /\ u.conn = p.conn
          /\ u.sctp = state
          /\ u.immediates = IF wait THEN Once(p.immediates, "transition")
                            ELSE p.immediates
          /\ polls => u.poll
          /\ state = "connecting" /\ ~polls => u.deadline = p.deadline
      BY <1>2, UpdateFields
    <2> HIDE DEF u
    <2>2. /\ Once(p.immediates, "transition") \in Seq(TaskNames)
          /\ Once(p.immediates, "transition") # <<>>
      <3>1. p.immediates \in Seq(TaskNames) /\ "transition" \in TaskNames
        BY DEF TShape, TaskNames
      <3> QED
        BY <3>1, Queued
    <2>3. TShape(u)
      BY <2>1, <2>2 DEF TShape
    <2>4. /\ HasData(u) /\ (Negotiated(u) <=> Negotiated(p))
          /\ (Failed(u) <=> Failed(p)) /\ (Connects(u, o) <=> Connects(p, o))
          /\ (OperationsSettled(u, o) <=> OperationsSettled(p, o))
      BY <1>2, <2>1 DEF HasData, Negotiated, Failed, Connects, NativeConnected,
         SameProcessConnected, SeesConnection, Same, OperationsSettled
    <2>5. Present(u)
      BY <2>1 DEF Present, Failed
    <2>6. Right(u, o)
      <3> SUFFICES ASSUME u.immediates = <<>>, OperationsSettled(p, o)
                   PROVE  /\ Failed(p) => state = "closed"
                          /\ ~Failed(p) => state \in {"connecting", "connected"}
                          /\ state = "connected" => Connects(p, o)
                          /\ state = "connecting" /\ Negotiated(p) =>
                                u.poll \/ u.deadline = "over"
        BY <2>1, <2>4 DEF Right, Busy
      <3>1. ~wait
        BY <2>1, <2>2
      <3>2. should <=> Connects(p, o)
        BY DEF ShouldConnect, Connects
      <3>3. state = "connecting" /\ Negotiated(p) => polls \/ u.deadline = "over"
        BY <2>1 DEF PollDue, Failed
      <3> HIDE DEF should, wait, polls
      <3> QED
        BY <2>1, <3>1, <3>2, <3>3
    <2> QED
      BY <2>3, <2>5, <2>6 DEF Good, u
  <1> QED
    BY <1>1, <1>2

-----------------------------------------------------------------------------
LEMMA InitIInv == Init => IInv
  BY DEF Init, IInv, Good, TShape, TFields, QShape, QFields, Alone, Present,
         Right, HasData

\* A task that ends takes itself out of the queue and changes nothing else.
LEMMA Dequeued ==
    ASSUME NEW p, TShape(p), Present(p), p.immediates # <<>>
    PROVE  LET r == [p EXCEPT !.immediates = Tail(@)]
           IN  /\ TShape(r) /\ Present(r) /\ r.closed = p.closed /\ r.sctp = p.sctp
               /\ (HasData(r) <=> HasData(p))
  <1>1. Tail(p.immediates) \in Seq(TaskNames)
    BY HeadTailProperties DEF TShape
  <1> QED
    BY <1>1 DEF TShape, TFields, Present, HasData

\* A connection that is closed, or that no data is negotiated for, is never wrong.
LEMMA Settled ==
    ASSUME NEW p, NEW o, TShape(p), Present(p), p.closed \/ p.sctp = "none"
    PROVE  Good(p, o)
  BY DEF Good, Present, Right, Failed

LEMMA Copied ==
    ASSUME NEW p, TShape(p)
    PROVE  TShape(Copy(p))
  BY DEF Copy, TShape, TFields

LEMMA TasksInvariant ==
    ASSUME IInv, Transition \/ UpdateTask \/ HandleRemotePeerClosed
    PROVE  IInv'
  <1> DEFINE r == [t EXCEPT !.immediates = Tail(@)]
  <1>1. /\ QShape(q) /\ TShape(t) /\ Present(t)
        /\ t.immediates # <<>> /\ q' = q
    BY DEF IInv, Good, Transition, UpdateTask, HandleRemotePeerClosed
  <1>2. TShape(r) /\ Present(r)
    BY <1>1, Dequeued
  <1>3. TShape([r EXCEPT !.ready = TRUE])
    BY <1>2 DEF TShape, TFields
  <1>4. TShape([r EXCEPT !.ice = "disconnected", !.conn = "disconnected"])
    BY <1>2 DEF TShape, TFields
  <1>5. CASE Transition
    <2>1. t' = IF r.closed \/ r.sctp = "none" THEN r
               ELSE Update([r EXCEPT !.ready = TRUE], q)
      BY <1>5 DEF Transition
    <2> QED
      BY <1>1, <1>2, <1>3, <2>1, Settled, Updated DEF IInv
  <1>6. CASE UpdateTask
    <2>1. t' = Update(IF r.closed THEN r ELSE Copy(r), q)
      BY <1>6 DEF UpdateTask
    <2>2. TShape(IF r.closed THEN r ELSE Copy(r))
      BY <1>2, Copied
    <2> QED
      BY <1>1, <2>1, <2>2, Updated DEF IInv
  <1>7. CASE HandleRemotePeerClosed
    <2> DEFINE gone == [r EXCEPT !.ice = "disconnected", !.conn = "disconnected"]
               u == Update(gone, q)
    <2>1. t' = IF r.closed THEN r ELSE ForceDisconnected(u)
      BY <1>7 DEF HandleRemotePeerClosed
    <2>2. Good(u, q)
      BY <1>4, Updated
    <2>3. Good(ForceDisconnected(u), q)
      <3> HIDE DEF u
      <3> QED
        BY <2>2, IceEvents, AlikeGood DEF Good
    <2> QED
      BY <1>1, <1>2, <2>1, <2>3, Settled DEF IInv
  <1> QED
    BY <1>5, <1>6, <1>7

\* Timers: only the one that ends the repair changes a state that decides.
LEMMA TimersInvariant ==
    ASSUME IInv, RepairTimer \/ ReplayTimer
    PROVE  IInv'
  <1> DEFINE r == [t EXCEPT !.timers = Tail(@)]
  <1>1. /\ QShape(q) /\ Good(t, q) /\ TShape(t) /\ q' = q
    BY DEF IInv, Good, RepairTimer, ReplayTimer
  <1>2. Alike(t, r)
    BY <1>1 DEF Alike, TShape, TFields
  <1>3. TShape(r) /\ Good(r, q)
    BY <1>1, <1>2, AlikeGood DEF Alike
  <1>4. CASE ReplayTimer
    <2>1. t' \in {Replay(r), Replayed(r)}
      BY <1>4 DEF ReplayTimer
    <2>2. Alike(r, Replay(r)) /\ Alike(r, Replayed(r))
      BY <1>3 DEF Alike, Replay, Replayed, Soon, TShape, TFields
    <2> QED
      BY <1>1, <1>3, <2>1, <2>2, AlikeGood DEF IInv
  <1>5. CASE RepairTimer
    <2>1. \/ t' = r
          \/ ShouldRepair(r, q) /\ t' \in {StartRepair(r), RepairConn(RepairIce(r))}
      <3>1. ShouldRepair(t, q) <=> ShouldRepair(r, q)
        BY <1>1, <1>2 DEF Alike, ShouldRepair, RepairDue, Same, Failed,
           OperationsSettled, Negotiated, TShape, TFields
      <3> QED
        BY <1>5, <3>1 DEF RepairTimer
    <2> HIDE DEF r
    <2>2. CASE ShouldRepair(r, q)
      <3>1. /\ r.sctp = "connected" /\ ~Failed(r) /\ Negotiated(r)
        BY <2>2 DEF ShouldRepair, RepairDue
      <3>2. Good(StartRepair(r), q)
        BY <1>3, <3>1 DEF StartRepair, HandleIceState, StartReplay, Soon, ReplayDue,
           Good, TShape, TFields, Present, Right, Busy, HasData, Negotiated, Failed,
           Down, Up, Connects, NativeConnected, SameProcessConnected, SeesConnection,
           Same, OperationsSettled
      <3> DEFINE ice == RepairIce(r)
      <3>3. TShape(ice) /\ (r.conn = "connected" => Good(ice, q))
        <4> DEFINE up == [r EXCEPT !.ice = "connected"]
        <4>1. TShape(up) /\ (r.conn = "connected" => Good(up, q))
          BY <1>3, <3>1 DEF Good, TShape, TFields, Present, Right, Busy, HasData,
             Negotiated, Failed, Down, Connects, NativeConnected,
             SameProcessConnected, SeesConnection, Same, OperationsSettled
        <4> HIDE DEF up
        <4>2. Alike(up, HandleIceState(up, "connected"))
          BY <4>1, IceEvents
        <4>3. ice \in {r, HandleIceState(up, "connected")}
          BY DEF RepairIce, up
        <4> QED
          BY <1>3, <4>1, <4>2, <4>3, AlikeGood DEF Alike
      <3>4. ice.conn = r.conn
        BY <1>3 DEF RepairIce, HandleIceState, StartReplay, Soon, TShape, TFields
      <3> HIDE DEF ice
      <3>5. Good(RepairConn(ice), q)
        <4>1. TShape([ice EXCEPT !.conn = "connected"])
          BY <3>3 DEF TShape, TFields
        <4> QED
          BY <3>3, <3>4, <4>1, Updated DEF RepairConn
      <3> QED
        BY <1>1, <1>3, <2>1, <3>2, <3>5 DEF IInv, ice
    <2> QED
      BY <1>1, <1>3, <2>1, <2>2 DEF IInv
  <1> QED
    BY <1>4, <1>5

LEMMA PollInvariant ==
    ASSUME IInv, PollTimer \/ DeadlinePasses
    PROVE  IInv'
  <1>1. /\ QShape(q) /\ Good(t, q) /\ TShape(t) /\ Present(t) /\ q' = q
    BY DEF IInv, Good, PollTimer, DeadlinePasses
  <1>2. CASE PollTimer
    <2> DEFINE r == [t EXCEPT !.poll = FALSE]
    <2>1. t' = IF r.closed \/ r.sctp # "connecting" THEN r ELSE ScheduleUpdate(r)
      BY <1>2 DEF PollTimer
    <2>2. TShape(r) /\ Present(r)
      BY <1>1 DEF TShape, TFields, Present, HasData
    <2>3. CASE r.closed
      BY <1>1, <2>1, <2>2, <2>3, Settled DEF IInv
    <2>4. CASE ~r.closed /\ r.sctp = "connecting"
      <3> HIDE DEF r
      <3> QED
        BY <1>1, <2>1, <2>2, <2>4, Scheduled DEF IInv
    <2>5. CASE ~r.closed /\ r.sctp # "connecting"
      <3>1. Good(r, q)
        BY <1>1, <2>5 DEF Good, TShape, TFields, Present, Right, Busy, HasData,
           Negotiated, Failed, Connects, NativeConnected, SameProcessConnected,
           SeesConnection, Same, OperationsSettled
      <3> QED
        BY <1>1, <2>1, <2>5, <3>1 DEF IInv
    <2> QED
      BY <2>3, <2>4, <2>5
  <1>3. CASE DeadlinePasses
    <2>1. t' = [t EXCEPT !.deadline = "over"]
      BY <1>3 DEF DeadlinePasses
    <2>2. Good(t', q)
      BY <1>1, <2>1 DEF Good, TShape, TFields, Present, Right, Busy, HasData,
         Negotiated, Failed, Connects, NativeConnected, SameProcessConnected,
         SeesConnection, Same, OperationsSettled
    <2> QED
      BY <1>1, <2>2 DEF IInv
  <1> QED
    BY <1>2, <1>3

\* While an operation is pending nothing is claimed of the state.
LEMMA Pending ==
    ASSUME NEW p, NEW o, TShape(p), Present(p), ~OperationsSettled(p, o)
    PROVE  Good(p, o)
  BY DEF Good, Right, Busy

LEMMA OperationsInvariant ==
    ASSUME IInv, StartOperation \/ FinishOperation
    PROVE  IInv'
  <1>1. /\ QShape(q) /\ TShape(t) /\ Present(t) /\ q' = q /\ t.ops \in Nat
    BY DEF IInv, Good, TShape, StartOperation, FinishOperation
  <1>2. CASE StartOperation
    <2>1. t' = [t EXCEPT !.ops = @ + 1]
      BY <1>2 DEF StartOperation
    <2>2. TShape(t') /\ Present(t') /\ t'.ops # 0
      BY <1>1, <2>1 DEF TShape, TFields, Present, HasData
    <2> QED
      BY <1>1, <2>2, Pending DEF IInv, OperationsSettled
  <1>3. CASE FinishOperation
    <2> DEFINE r == [t EXCEPT !.ops = @ - 1]
    <2>1. t.ops > 0 /\ t' = IF r.ops = 0 THEN ScheduleUpdate(r) ELSE r
      BY <1>3 DEF FinishOperation, FinishPendingOperation
    <2>2. TShape(r) /\ Present(r)
      BY <1>1, <2>1 DEF TShape, TFields, Present, HasData
    <2> HIDE DEF r
    <2> QED
      BY <1>1, <2>1, <2>2, Pending, Scheduled DEF IInv, OperationsSettled
  <1> QED
    BY <1>2, <1>3

LEMMA ApplicationInvariant ==
    ASSUME IInv,
           \/ \E local, remote \in BOOLEAN : Describe(local, remote)
           \/ \E link \in {"paired", "self"} : PairWith(link)
           \/ AddStateListener \/ AddCandidate \/ Close
    PROVE  IInv'
  <1>1. QShape(q) /\ Good(t, q) /\ TShape(t) /\ Present(t)
    BY DEF IInv, Good
  <1>2. ASSUME NEW local \in BOOLEAN, NEW remote \in BOOLEAN, Describe(local, remote)
        PROVE  IInv'
    <2> DEFINE r == [t EXCEPT !.local = local, !.remote = remote]
    <2>1. ~t.closed /\ t' = Sync(r) /\ q' = q
      BY <1>2 DEF Describe
    <2>2. TShape(r) /\ ~r.closed
      BY <1>1, <2>1 DEF TShape, TFields
    <2>3. TShape(Copy(r))
      BY <2>2, Copied
    <2>4. t' = Update(Copy(r), q)
      BY <2>1, <2>2 DEF Sync
    <2> QED
      BY <1>1, <2>1, <2>3, <2>4, Updated DEF IInv
  <1>3. ASSUME NEW link \in {"paired", "self"}, PairWith(link)
        PROVE  IInv'
    <2>1. PICK ops \in 0..MaxOps :
             /\ \/ t.ops > 0
                \/ ops > 0 /\ link = "paired"
             /\ q' = [q EXCEPT !.link = link,
                              !.ops = IF link = "paired" THEN ops ELSE 0]
      BY <1>3 DEF PairWith
    <2>2. t' = t
      BY <1>3 DEF PairWith
    <2>3. QShape(q')
      BY <1>1, <2>1, SctpTransportAssumption DEF QShape, QFields
    <2>4. ~OperationsSettled(t, q')
      BY <1>1, <2>1, SctpTransportAssumption
         DEF OperationsSettled, QShape, QFields, TShape
    <2> QED
      BY <1>1, <2>2, <2>3, <2>4, Pending DEF IInv
  <1>4. CASE AddStateListener
    <2> DEFINE r == [t EXCEPT !.requested = TRUE]
    <2>1. t' = (IF ReplayDue(r) THEN StartReplay(r) ELSE r) /\ q' = q
      BY <1>4 DEF AddStateListener
    <2>2. Alike(t, t')
      BY <1>1, <2>1 DEF Alike, StartReplay, Soon, TShape, TFields
    <2> QED
      BY <1>1, <2>1, <2>2, AlikeGood DEF IInv
  <1>5. CASE AddCandidate
    <2>1. TShape([t EXCEPT !.explicit = TRUE])
      BY <1>1 DEF TShape, TFields
    <2>2. t' = Update([t EXCEPT !.explicit = TRUE], q) /\ q' = q
      BY <1>5 DEF AddCandidate
    <2> QED
      BY <1>1, <2>1, <2>2, Updated DEF IInv
  <1>6. CASE Close
    <2> DEFINE r == [t EXCEPT !.closed = TRUE, !.ice = "closed", !.conn = "closed"]
    <2>1. t' = Update(r, Left) /\ q' = Left
      BY <1>6 DEF Close
    <2>2. TShape(r)
      BY <1>1 DEF TShape, TFields
    <2>3. QShape(Left)
      BY DEF QShape, QFields, Left, Alone
    <2> QED
      BY <2>1, <2>2, <2>3, Updated DEF IInv
  <1> QED
    BY <1>2, <1>3, <1>4, <1>5, <1>6

LEMMA PairedInvariant ==
    ASSUME IInv, Paired
    PROVE  IInv'
  <1>1. QShape(q) /\ Good(t, q) /\ TShape(t) /\ Present(t)
    BY DEF IInv, Good
  <1>2. CASE PairedStarts
    <2>1. q' = [q EXCEPT !.ops = @ + 1] /\ t' = t /\ q.link = "paired"
      BY <1>2 DEF PairedStarts
    <2>2. QShape(q') /\ ~OperationsSettled(t, q')
      BY <1>1, <2>1 DEF QShape, QFields, OperationsSettled
    <2> QED
      BY <1>1, <2>1, <2>2, Pending DEF IInv
  <1>3. CASE PairedFinishes
    <2>1. /\ q.ops > 0 /\ q.link = "paired"
          /\ \E negotiates \in BOOLEAN :
               q' = [q EXCEPT !.ops = @ - 1, !.negotiated = @ \/ negotiates]
          /\ t' = IF q'.ops = 0 THEN UpdatePaired(t) ELSE t
      BY <1>3 DEF PairedFinishes
    <2>2. QShape(q') /\ q'.link = "paired"
      BY <1>1, <2>1 DEF QShape, QFields
    <2>3. CASE q'.ops # 0
      <3>1. ~OperationsSettled(t, q')
        BY <2>2, <2>3 DEF OperationsSettled
      <3> QED
        BY <1>1, <2>1, <2>2, <2>3, <3>1, Pending DEF IInv
    <2>4. CASE q'.ops = 0
      BY <1>1, <2>1, <2>2, <2>4, Settled, Scheduled DEF IInv, UpdatePaired
    <2> QED
      BY <2>3, <2>4
  <1>4. CASE PairedConnects
    <2>1. q' = [q EXCEPT !.up = TRUE] /\ t' = t
      BY <1>4 DEF PairedConnects
    <2>2. QShape(q')
      BY <1>1, <2>1 DEF QShape, QFields
    <2>3. Good(t, q')
      BY <1>1, <2>1 DEF Good, Right, Busy, Connects, NativeConnected,
         SameProcessConnected, OperationsSettled, QShape, QFields
    <2> QED
      BY <2>1, <2>2, <2>3 DEF IInv
  <1>5. CASE PairedAddsCandidate
    <2> DEFINE r == [t EXCEPT !.explicit = TRUE]
    <2>1. t' = ScheduleUpdate(r) /\ q' = q
      BY <1>5 DEF PairedAddsCandidate
    <2>2. TShape(r) /\ Present(r)
      BY <1>1 DEF TShape, TFields, Present, HasData
    <2> HIDE DEF r
    <2> QED
      BY <1>1, <2>1, <2>2, Scheduled DEF IInv
  <1>6. CASE PairedCloses
    <2>1. t' = Immediately(t, "peerClosed") /\ q' = Left
      BY <1>6 DEF PairedCloses
    <2>2. QShape(Left)
      BY DEF QShape, QFields, Left, Alone
    <2>3. /\ Append(t.immediates, "peerClosed") \in Seq(TaskNames)
          /\ Append(t.immediates, "peerClosed") # <<>>
      <3>1. t.immediates \in Seq(TaskNames) /\ "peerClosed" \in TaskNames
        BY <1>1 DEF TShape, TaskNames
      <3> QED
        BY <3>1, Queued
    <2>4. Good(t', Left)
      BY <1>1, <2>1, <2>3 DEF Immediately, Good, TShape, TFields, Present, Right,
         Busy, HasData
    <2> QED
      BY <2>1, <2>2, <2>4 DEF IInv
  <1> QED
    BY <1>2, <1>3, <1>4, <1>5, <1>6 DEF Paired

LEMMA NativeInvariant ==
    ASSUME IInv, NativeChanges \/ NativeEvent
    PROVE  IInv'
  <1>1. QShape(q) /\ Good(t, q) /\ TShape(t)
    BY DEF IInv, Good
  <1>2. CASE NativeChanges
    BY <1>2 DEF IInv, NativeChanges
  <1>3. CASE NativeEvent
    <2> DEFINE state == Head(events)[2]
               ice == Update([t EXCEPT !.ice = state], q)
               conn == Update([t EXCEPT !.conn = state], q)
    <2>1. t' \in {HandleIceState(ice, state), conn} /\ q' = q
      BY <1>3 DEF NativeEvent
    <2>2. TShape([t EXCEPT !.ice = state]) /\ TShape([t EXCEPT !.conn = state])
      BY <1>1 DEF TShape, TFields
    <2>3. Good(ice, q) /\ Good(conn, q)
      BY <2>2, Updated
    <2> HIDE DEF ice, conn
    <2>4. Good(HandleIceState(ice, state), q)
      BY <2>3, IceEvents, AlikeGood DEF Good
    <2> QED
      BY <1>1, <2>1, <2>3, <2>4 DEF IInv
  <1> QED
    BY <1>2, <1>3

LEMMA NextIInv == IInv /\ [Next]_vars => IInv'
  <1> SUFFICES ASSUME IInv, [Next]_vars PROVE IInv'
    OBVIOUS
  <1>1. CASE Tasks
    BY <1>1, TasksInvariant, TimersInvariant DEF Tasks
  <1>2. CASE PollTimer \/ DeadlinePasses
    BY <1>2, PollInvariant
  <1>3. CASE Application
    BY <1>3, OperationsInvariant, ApplicationInvariant DEF Application
  <1>4. CASE Paired
    BY <1>4, PairedInvariant
  <1>5. CASE NativeChanges \/ NativeEvent
    BY <1>5, NativeInvariant
  <1>6. CASE UNCHANGED vars
    BY <1>6 DEF vars, IInv
  <1> QED
    BY <1>1, <1>2, <1>3, <1>4, <1>5, <1>6 DEF Next

LEMMA IInvSettled == IInv => SettledStateIsRight
  BY DEF IInv, Good, Right, Busy, SettledStateIsRight, Quiet, Usable, Connects,
     OperationsSettled, NativeConnected, SameProcessConnected, HasData, Failed,
     Negotiated

\* Nobody tells the SCTP transport that the connection has changed: events, copied
\* states, operations and the paired peer each have to see to it that
\* _updateSctpTransport runs again.  Whatever their order, once nothing is left to
\* run the transport shows what the connection is.
THEOREM SettledStates == Spec => []SettledStateIsRight
  BY InitIInv, NextIInv, IInvSettled, PTL DEF Spec
-----------------------------------------------------------------------------
\* Types

Counts == 0..MaxOps
TaskQueues == Seq(TaskNames)
TimerNames == {"repair", "repaired", "replay", "replayed"}
TimerQueues == Seq(TimerNames)
SctpStates == {"none", "connecting", "connected", "closed"}
Deadlines == {"none", "set", "over"}
Overrides == {"none", "connected", "disconnected"}
Links == {"none", "paired", "self", "left"}

Transports ==
    [closed : BOOLEAN, local : BOOLEAN, remote : BOOLEAN, ops : Counts,
     explicit : BOOLEAN, ice : IceStates, conn : ConnStates, sctp : SctpStates,
     ready : BOOLEAN, poll : BOOLEAN, deadline : Deadlines, over : Overrides,
     requested : BOOLEAN, started : BOOLEAN, replaying : BOOLEAN,
     immediates : TaskQueues, timers : TimerQueues]

Peers == [link : Links, ops : Counts, negotiated : BOOLEAN, up : BOOLEAN]

\* An event tells a state of its own kind: the code assigns it without a look.
Changes == ({"ice"} \X IceStates) \cup ({"conn"} \X ConnStates)

Types ==
    /\ t \in Transports
    /\ q \in Peers
    /\ net \in IceStates \X ConnStates
    /\ events \in Seq(Changes)

\* What the operators of SctpTransport give a field.
LEMMA Fields ==
    ASSUME NEW p \in Transports
    PROVE  /\ \A s \in IceStates : [p EXCEPT !.ice = s] \in Transports
           /\ \A s \in ConnStates : [p EXCEPT !.conn = s] \in Transports
           /\ \A n \in Counts : [p EXCEPT !.ops = n] \in Transports
           /\ \A s \in Overrides : [p EXCEPT !.over = s] \in Transports
           /\ \A s \in TaskQueues : [p EXCEPT !.immediates = s] \in Transports
           /\ \A s \in TimerQueues : [p EXCEPT !.timers = s] \in Transports
           /\ \A b \in BOOLEAN : [p EXCEPT !.ready = b] \in Transports
           /\ \A b \in BOOLEAN : [p EXCEPT !.started = b] \in Transports
           /\ \A b \in BOOLEAN : [p EXCEPT !.replaying = b] \in Transports
           /\ \A b \in BOOLEAN : [p EXCEPT !.requested = b] \in Transports
           /\ \A b \in BOOLEAN : [p EXCEPT !.explicit = b] \in Transports
           /\ \A b \in BOOLEAN : [p EXCEPT !.closed = b] \in Transports
           /\ \A b \in BOOLEAN : [p EXCEPT !.poll = b] \in Transports
           /\ \A s \in Deadlines : [p EXCEPT !.deadline = s] \in Transports
           /\ \A s \in SctpStates : [p EXCEPT !.sctp = s] \in Transports
  BY DEF Transports

LEMMA OnceTyped ==
    /\ \A s \in TaskQueues, x \in TaskNames :
          /\ Once(s, x) \in TaskQueues /\ Append(s, x) \in TaskQueues
    /\ \A s \in TimerQueues, x \in TimerNames :
          /\ Once(s, x) \in TimerQueues /\ Append(s, x) \in TimerQueues
  BY Queued, Zenon DEF TaskQueues, TimerQueues

LEMMA TailTyped ==
    /\ \A s \in TaskQueues : s # <<>> => Tail(s) \in TaskQueues
    /\ \A s \in TimerQueues : s # <<>> => Tail(s) \in TimerQueues
  BY HeadTailProperties DEF TaskQueues, TimerQueues

LEMMA Typing ==
    ASSUME NEW p \in Transports
    PROVE  /\ p.immediates \in TaskQueues /\ p.timers \in TimerQueues
           /\ p.sctp \in SctpStates /\ p.over \in Overrides
           /\ p.deadline \in Deadlines /\ p.ops \in Counts
           /\ p.ice \in IceStates /\ p.conn \in ConnStates
           /\ p.poll \in BOOLEAN /\ p.ready \in BOOLEAN
  BY DEF Transports

LEMMA ExistingTyped == \A p \in Transports : Existing(p) \in Transports
  <1> SUFFICES ASSUME NEW p \in Transports
               PROVE  Existing(p) \in Transports
    OBVIOUS
  <1>1. "none" \in Overrides
    BY DEF Overrides
  <1> QED
    BY <1>1 DEF Existing, Transports

\* The fields that _updateSctpTransport assigns.
LEMMA Assigned ==
    ASSUME NEW p \in Transports, NEW sctp \in SctpStates, NEW ready \in BOOLEAN,
           NEW immediates \in TaskQueues, NEW timers \in TimerQueues,
           NEW deadline \in Deadlines, NEW poll \in BOOLEAN
    PROVE  [p EXCEPT !.sctp = sctp, !.ready = ready, !.immediates = immediates,
                     !.timers = timers, !.deadline = deadline, !.poll = poll]
             \in Transports
  BY DEF Transports

\* An update gives fields of their types to a transport that has them.
LEMMA UpdateTyped == \A p \in Transports : \A o : Update(p, o) \in Transports
  <1> SUFFICES ASSUME NEW p \in Transports, NEW o
               PROVE  Update(p, o) \in Transports
    OBVIOUS
  <1> DEFINE should == ShouldConnect(p, o)
             ready == p.ready /\ should /\ ~Failed(p)
             wait == should /\ p.sctp # "connected" /\ ~ready
             state == IF Failed(p) THEN "closed"
                      ELSE IF should /\ ~wait THEN "connected" ELSE "connecting"
             polls == state = "connecting" /\ PollDue(p, o)
             e == Existing(p)
             immediates == IF wait THEN Once(e.immediates, "transition")
                           ELSE e.immediates
             timers == IF state = "connected" /\ RepairDue(p, o)
                       THEN Once(e.timers, "repair") ELSE e.timers
             deadline == IF state # "connecting" THEN "none"
                         ELSE IF polls THEN "set" ELSE e.deadline
             poll == e.poll \/ polls
  <1>1. e \in Transports
    BY ExistingTyped
  <1>2. /\ e.immediates \in TaskQueues /\ e.timers \in TimerQueues
        /\ e.deadline \in Deadlines
    BY <1>1, Typing
  <1>3. immediates \in TaskQueues
    <2>1. "transition" \in TaskNames
      BY DEF TaskNames
    <2> HIDE DEF wait, e
    <2> QED
      BY <1>2, <2>1, OnceTyped
  <1>4. timers \in TimerQueues
    <2>1. "repair" \in TimerNames
      BY DEF TimerNames
    <2> HIDE DEF state, e
    <2> QED
      BY <1>2, <2>1, OnceTyped
  <1>5. deadline \in Deadlines
    <2> HIDE DEF state, polls, e
    <2> QED
      BY <1>2 DEF Deadlines
  <1>6. state \in SctpStates /\ "none" \in SctpStates
    <2> HIDE DEF should, wait
    <2> QED
      BY DEF SctpStates
  <1>7. ready \in BOOLEAN /\ poll \in BOOLEAN
    BY Zenon
  <1>8. Update(p, o) =
          IF ~HasData(p) THEN [p EXCEPT !.sctp = "none", !.ready = FALSE]
          ELSE [e EXCEPT !.sctp = state, !.ready = ready, !.immediates = immediates,
                         !.timers = timers, !.deadline = deadline, !.poll = poll]
    BY Zenon DEF Update
  <1> HIDE DEF e, state, ready, immediates, timers, deadline, poll
  <1>9. [p EXCEPT !.sctp = "none", !.ready = FALSE] \in Transports
    BY <1>6 DEF Transports
  <1>10. [e EXCEPT !.sctp = state, !.ready = ready, !.immediates = immediates,
                   !.timers = timers, !.deadline = deadline, !.poll = poll]
           \in Transports
    BY <1>1, <1>3, <1>4, <1>5, <1>6, <1>7, Assigned, Zenon
  <1> QED
    BY <1>8, <1>9, <1>10, Zenon

LEMMA ScheduleTyped == \A p \in Transports : ScheduleUpdate(p) \in Transports
  <1> SUFFICES ASSUME NEW p \in Transports
               PROVE  ScheduleUpdate(p) \in Transports
    OBVIOUS
  <1>1. "update" \in TaskNames /\ p.immediates \in TaskQueues
    BY Typing DEF TaskNames
  <1>2. Once(p.immediates, "update") \in TaskQueues
    BY <1>1, OnceTyped
  <1> QED
    BY <1>2, Fields DEF ScheduleUpdate

LEMMA SoonTyped ==
    \A p \in Transports : \A x \in TimerNames : Soon(p, x) \in Transports
  <1> SUFFICES ASSUME NEW p \in Transports, NEW x \in TimerNames
               PROVE  Soon(p, x) \in Transports
    OBVIOUS
  <1>1. Append(p.timers, x) \in TimerQueues
    BY OnceTyped, Typing
  <1> QED
    BY <1>1, Fields DEF Soon

LEMMA StartReplayTyped == \A p \in Transports : StartReplay(p) \in Transports
  <1> SUFFICES ASSUME NEW p \in Transports
               PROVE  StartReplay(p) \in Transports
    OBVIOUS
  <1> DEFINE r == [p EXCEPT !.started = TRUE, !.replaying = TRUE]
  <1>1. r \in Transports /\ "replay" \in TimerNames
    BY DEF Transports, TimerNames
  <1> HIDE DEF r
  <1>2. Soon(r, "replay") \in Transports
    BY <1>1, SoonTyped
  <1> QED
    BY <1>2, Zenon DEF StartReplay, r

\* The state only decides which events the ICE transport is to show.
LEMMA IceTyped ==
    \A p \in Transports :
        /\ \A state : HandleIceState(p, state) \in Transports
        /\ ForceDisconnected(p) \in Transports
  <1> SUFFICES ASSUME NEW p \in Transports, NEW state
               PROVE  /\ HandleIceState(p, state) \in Transports
                      /\ ForceDisconnected(p) \in Transports
    OBVIOUS
  <1>1. /\ [p EXCEPT !.over = "none"] \in Transports
        /\ [p EXCEPT !.started = TRUE, !.over = "disconnected"] \in Transports
    BY DEF Transports, Overrides
  <1> QED
    BY <1>1, StartReplayTyped, Zenon DEF HandleIceState, ForceDisconnected

LEMMA ReplayTyped ==
    \A p \in Transports : Replay(p) \in Transports /\ Replayed(p) \in Transports
  <1> SUFFICES ASSUME NEW p \in Transports
               PROVE  Replay(p) \in Transports /\ Replayed(p) \in Transports
    OBVIOUS
  <1>1. /\ "connected" \in Overrides /\ "replayed" \in TimerNames
        /\ [p EXCEPT !.replaying = FALSE] \in Transports
    BY DEF Overrides, TimerNames, Transports
  <1>2. [p EXCEPT !.over = "connected"] \in Transports
    BY <1>1, Fields
  <1> QED
    BY <1>1, <1>2, SoonTyped, Zenon DEF Replay, Replayed

LEMMA RepairTyped ==
    \A p \in Transports : StartRepair(p) \in Transports
                          /\ RepairConn(RepairIce(p)) \in Transports
  <1> SUFFICES ASSUME NEW p \in Transports
               PROVE  StartRepair(p) \in Transports
                      /\ RepairConn(RepairIce(p)) \in Transports
    OBVIOUS
  <1>1. /\ "checking" \in IceStates /\ "connected" \in IceStates
        /\ "connecting" \in ConnStates /\ "connected" \in ConnStates
        /\ "repaired" \in TimerNames
    BY DEF IceStates, ConnStates, Up, TimerNames
  <1> DEFINE ice == RepairIce(p)
             checking == IF p.ice # "new" THEN p
                         ELSE HandleIceState([p EXCEPT !.ice = "checking"], "checking")
             conn == IF checking.conn = "new" THEN "connecting" ELSE checking.conn
  <1>2. checking \in Transports
    BY <1>1, Fields, IceTyped
  <1>3. conn \in ConnStates
    <2> HIDE DEF checking
    <2> QED
      BY <1>1, <1>2, Typing
  <1>4. StartRepair(p) \in Transports
    <2>1. StartRepair(p) = Soon([checking EXCEPT !.conn = conn], "repaired")
      BY DEF StartRepair
    <2> HIDE DEF checking, conn
    <2>2. [checking EXCEPT !.conn = conn] \in Transports
      BY <1>2, <1>3, Fields
    <2> QED
      BY <1>1, <2>1, <2>2, SoonTyped
  <1>5. ice \in Transports
    BY <1>1, Fields, IceTyped DEF RepairIce
  <1> HIDE DEF ice
  <1>6. RepairConn(ice) \in Transports
    BY <1>1, <1>5, Fields, UpdateTyped DEF RepairConn
  <1> QED
    BY <1>4, <1>6 DEF ice

LEMMA PeerFields ==
    ASSUME NEW o \in Peers
    PROVE  /\ o.ops \in Counts
           /\ \A n \in Counts : [o EXCEPT !.ops = n] \in Peers
           /\ [o EXCEPT !.up = TRUE] \in Peers
           /\ Left \in Peers
  <1>1. 0 \in Counts
    BY SctpTransportAssumption DEF Counts
  <1>2. Left \in Peers /\ Alone \in Peers
    BY <1>1 DEF Peers, Links, Left, Alone
  <1> QED
    BY <1>2 DEF Peers

LEMMA CountBounds ==
    /\ 0 \in Counts
    /\ \A n \in Counts : /\ n < MaxOps => n + 1 \in Counts
                         /\ n > 0 => n - 1 \in Counts
  BY SctpTransportAssumption DEF Counts

LEMMA TypesInit == Init => Types
  <1> SUFFICES ASSUME Init PROVE Types
    OBVIOUS
  <1>1. /\ "new" \in IceStates /\ "new" \in ConnStates /\ "none" \in SctpStates
        /\ "none" \in Deadlines /\ "none" \in Overrides /\ 0 \in Counts
        /\ <<>> \in TaskQueues /\ <<>> \in TimerQueues /\ "none" \in Links
    BY CountBounds DEF IceStates, ConnStates, SctpStates, Deadlines, Overrides,
       TaskQueues, TimerQueues, Links
  <1>2. t \in Transports
    BY <1>1 DEF Init, Transports
  <1>3. q \in Peers
    BY <1>1 DEF Init, Peers, Alone
  <1>4. net \in IceStates \X ConnStates /\ events \in Seq(Changes)
    BY <1>1 DEF Init
  <1> QED
    BY <1>2, <1>3, <1>4 DEF Types

LEMMA CopyTyped ==
    ASSUME NEW p \in Transports, net \in IceStates \X ConnStates
    PROVE  Copy(p) \in Transports
  <1>1. net[1] \in IceStates /\ net[2] \in ConnStates
    OBVIOUS
  <1> QED
    BY <1>1 DEF Copy, Transports

LEMMA TasksTyped ==
    ASSUME Types, Transition \/ UpdateTask \/ HandleRemotePeerClosed
    PROVE  Types'
  <1> DEFINE r == [t EXCEPT !.immediates = Tail(@)]
  <1>1. t \in Transports /\ t.immediates # <<>> /\ UNCHANGED <<q, net, events>>
    BY DEF Types, Transition, UpdateTask, HandleRemotePeerClosed
  <1>2. r \in Transports
    <2>1. Tail(t.immediates) \in TaskQueues
      BY <1>1, Typing, TailTyped
    <2> QED
      BY <1>1, <2>1, Fields
  <1>3. CASE Transition
    <2>1. t' = IF r.closed \/ r.sctp = "none" THEN r
               ELSE Update([r EXCEPT !.ready = TRUE], q)
      BY <1>3 DEF Transition
    <2> HIDE DEF r
    <2>2. [r EXCEPT !.ready = TRUE] \in Transports
      BY <1>2, Fields
    <2> QED
      BY <1>1, <1>2, <2>1, <2>2, UpdateTyped, Zenon DEF Types
  <1>4. CASE UpdateTask
    <2>1. t' = Update(IF r.closed THEN r ELSE Copy(r), q)
      BY <1>4 DEF UpdateTask
    <2> HIDE DEF r
    <2>2. Copy(r) \in Transports
      BY <1>2, CopyTyped DEF Types
    <2> QED
      BY <1>1, <1>2, <2>1, <2>2, UpdateTyped, Zenon DEF Types
  <1>5. CASE HandleRemotePeerClosed
    <2> DEFINE gone == [r EXCEPT !.ice = "disconnected", !.conn = "disconnected"]
    <2>1. t' = IF r.closed THEN r ELSE ForceDisconnected(Update(gone, q))
      BY <1>5 DEF HandleRemotePeerClosed
    <2> HIDE DEF r
    <2>2. gone \in Transports
      BY <1>2 DEF Transports, IceStates, ConnStates, Down
    <2> HIDE DEF gone
    <2> QED
      BY <1>1, <1>2, <2>1, <2>2, UpdateTyped, IceTyped, Zenon DEF Types
  <1> QED
    BY <1>3, <1>4, <1>5

LEMMA TimersTyped ==
    ASSUME Types, RepairTimer \/ ReplayTimer
    PROVE  Types'
  <1> DEFINE r == [t EXCEPT !.timers = Tail(@)]
  <1>1. t \in Transports /\ t.timers # <<>> /\ UNCHANGED <<q, net, events>>
    BY DEF Types, RepairTimer, ReplayTimer
  <1>2. r \in Transports
    <2>1. Tail(t.timers) \in TimerQueues
      BY <1>1, Typing, TailTyped
    <2> QED
      BY <1>1, <2>1, Fields
  <1>3. t' \in {r, StartRepair(r), RepairConn(RepairIce(r)), Replay(r), Replayed(r)}
    BY DEF RepairTimer, ReplayTimer
  <1> HIDE DEF r
  <1> QED
    BY <1>1, <1>2, <1>3, RepairTyped, ReplayTyped DEF Types

LEMMA OthersTyped ==
    ASSUME Types, PollTimer \/ DeadlinePasses \/ StartOperation \/ FinishOperation
                  \/ AddStateListener \/ AddCandidate \/ Close
    PROVE  Types'
  <1>1. t \in Transports /\ t.ops \in Counts /\ q \in Peers
    BY Typing DEF Types
  <1>2. CASE PollTimer
    <2> DEFINE r == [t EXCEPT !.poll = FALSE]
    <2>1. /\ t' = IF r.closed \/ r.sctp # "connecting" THEN r ELSE ScheduleUpdate(r)
          /\ UNCHANGED <<q, net, events>>
      BY <1>2 DEF PollTimer
    <2>2. r \in Transports
      BY <1>1, Fields
    <2> HIDE DEF r
    <2> QED
      BY <2>1, <2>2, ScheduleTyped, Zenon DEF Types
  <1>3. CASE DeadlinePasses
    BY <1>1, <1>3, Fields DEF DeadlinePasses, Types, Deadlines
  <1>4. CASE StartOperation
    <2>1. t.ops + 1 \in Counts
      BY <1>1, <1>4, CountBounds DEF StartOperation
    <2> QED
      BY <1>1, <1>4, <2>1, Fields DEF StartOperation, Types
  <1>5. CASE FinishOperation
    <2> DEFINE done == [t EXCEPT !.ops = @ - 1]
    <2>1. t.ops - 1 \in Counts
      BY <1>1, <1>5, CountBounds DEF FinishOperation
    <2>2. done \in Transports
      BY <1>1, <2>1, Fields
    <2>3. t' \in {done, ScheduleUpdate(done)} /\ UNCHANGED <<q, net, events>>
      BY <1>5 DEF FinishOperation, FinishPendingOperation
    <2> HIDE DEF done
    <2> QED
      BY <2>2, <2>3, ScheduleTyped DEF Types
  <1>6. CASE AddStateListener
    <2> DEFINE r == [t EXCEPT !.requested = TRUE]
    <2>1. t' \in {r, StartReplay(r)} /\ UNCHANGED <<q, net, events>>
      BY <1>6 DEF AddStateListener
    <2>2. r \in Transports
      BY <1>1, Fields
    <2> HIDE DEF r
    <2> QED
      BY <2>1, <2>2, StartReplayTyped DEF Types
  <1>7. CASE AddCandidate
    <2>1. [t EXCEPT !.explicit = TRUE] \in Transports
      BY <1>1, Fields
    <2> QED
      BY <1>7, <2>1, UpdateTyped, Zenon DEF AddCandidate, Types
  <1>8. CASE Close
    <2> DEFINE r == [t EXCEPT !.closed = TRUE, !.ice = "closed", !.conn = "closed"]
    <2>1. /\ t' = Update(r, Left) /\ q' = Left /\ events' = <<>> /\ net' = net
      BY <1>8 DEF Close
    <2>2. r \in Transports
      BY <1>1 DEF Transports, IceStates, ConnStates, Down
    <2> HIDE DEF r
    <2>3. t' \in Transports /\ q' \in Peers
      BY <1>1, <2>1, <2>2, UpdateTyped, PeerFields
    <2>4. events' \in Seq(Changes)
      BY <2>1
    <2> QED
      BY <2>1, <2>3, <2>4 DEF Types
  <1> QED
    BY <1>2, <1>3, <1>4, <1>5, <1>6, <1>7, <1>8

LEMMA DescribeTyped ==
    ASSUME Types, NEW local \in BOOLEAN, NEW remote \in BOOLEAN,
           Describe(local, remote)
    PROVE  Types'
  <1> DEFINE r == [t EXCEPT !.local = local, !.remote = remote]
  <1>1. r \in Transports
    BY DEF Types, Transports
  <1>2. /\ t' = IF r.closed THEN r ELSE Update(Copy(r), q)
        /\ UNCHANGED <<q, net, events>>
    BY DEF Describe, Sync
  <1> HIDE DEF r
  <1>3. Copy(r) \in Transports
    BY <1>1, CopyTyped DEF Types
  <1> QED
    BY <1>1, <1>2, <1>3, UpdateTyped, Zenon DEF Types

LEMMA PairWithTyped ==
    ASSUME Types, NEW link \in {"paired", "self"}, PairWith(link)
    PROVE  Types'
  <1>1. PICK ops \in 0..MaxOps :
          q' = [q EXCEPT !.link = link, !.ops = IF link = "paired" THEN ops ELSE 0]
    BY Zenon DEF PairWith
  <1> DEFINE n == IF link = "paired" THEN ops ELSE 0
  <1>2. n \in Counts /\ link \in Links
    BY CountBounds DEF Links, Counts
  <1>3. q' = [q EXCEPT !.link = link, !.ops = n]
    BY <1>1
  <1> HIDE DEF n
  <1>4. q' \in Peers
    BY <1>2, <1>3 DEF Types, Peers
  <1> QED
    BY <1>4 DEF PairWith, Types

LEMMA PairedTyped ==
    ASSUME Types, Paired
    PROVE  Types'
  <1>1. t \in Transports /\ q \in Peers /\ q.ops \in Counts
    BY PeerFields DEF Types
  <1>2. CASE PairedStarts
    <2>1. q.ops + 1 \in Counts
      BY <1>1, <1>2, CountBounds DEF PairedStarts
    <2> QED
      BY <1>1, <1>2, <2>1, PeerFields DEF PairedStarts, Types
  <1>3. CASE PairedFinishes
    <2>1. q.ops - 1 \in Counts
      BY <1>1, <1>3, CountBounds DEF PairedFinishes
    <2>2. PICK negotiates \in BOOLEAN :
            q' = [q EXCEPT !.ops = @ - 1, !.negotiated = @ \/ negotiates]
      BY <1>3, Zenon DEF PairedFinishes
    <2> DEFINE n == q.ops - 1
               b == q.negotiated \/ negotiates
    <2>3. q' = [q EXCEPT !.ops = n, !.negotiated = b] /\ n \in Counts /\ b \in BOOLEAN
      BY <2>1, <2>2, Zenon
    <2> HIDE DEF n, b
    <2>4. q' \in Peers
      BY <1>1, <2>3 DEF Peers
    <2>5. t' \in {t, ScheduleUpdate(t)} /\ UNCHANGED <<net, events>>
      BY <1>3 DEF PairedFinishes, UpdatePaired
    <2> QED
      BY <1>1, <2>4, <2>5, ScheduleTyped DEF Types
  <1>4. CASE PairedConnects
    BY <1>1, <1>4, PeerFields DEF PairedConnects, Types
  <1>5. CASE PairedAddsCandidate
    <2>1. [t EXCEPT !.explicit = TRUE] \in Transports
      BY <1>1, Fields
    <2> QED
      BY <1>5, <2>1, ScheduleTyped DEF PairedAddsCandidate, Types
  <1>6. CASE PairedCloses
    <2>1. Append(t.immediates, "peerClosed") \in TaskQueues
      <3>1. t.immediates \in TaskQueues /\ "peerClosed" \in TaskNames
        BY <1>1, Typing DEF TaskNames
      <3> QED
        BY <3>1, OnceTyped
    <2>2. Immediately(t, "peerClosed") \in Transports
      BY <1>1, <2>1, Fields DEF Immediately
    <2> QED
      BY <1>1, <1>6, <2>2, PeerFields DEF PairedCloses, Types
  <1> QED
    BY <1>2, <1>3, <1>4, <1>5, <1>6 DEF Paired

\* What the native connection does is a step of NativeSteps, and its event tells
\* the part of the state that the step has changed.
LEMMA NativeTyped ==
    ASSUME Types, NativeChanges \/ NativeEvent
    PROVE  Types'
  <1>1. CASE NativeChanges
    <2>1. PICK move \in NativeSteps :
            /\ net' = move[2]
            /\ events' = Append(events, IF net[1] # move[2][1] THEN <<"ice", move[2][1]>>
                                        ELSE <<"conn", move[2][2]>>)
      BY <1>1 DEF NativeChanges
    <2>2. move[2] \in IceStates \X ConnStates
      BY DEF NativeSteps, IceStates, ConnStates, Up, Down
    <2> DEFINE e == IF net[1] # move[2][1] THEN <<"ice", move[2][1]>>
                    ELSE <<"conn", move[2][2]>>
    <2>3. e \in Changes
      BY <2>2 DEF Changes
    <2> HIDE DEF e
    <2>4. events' \in Seq(Changes)
      BY <2>1, <2>3, AppendProperties DEF Types, e
    <2> QED
      BY <1>1, <2>1, <2>2, <2>4 DEF NativeChanges, Types
  <1>2. CASE NativeEvent
    <2> DEFINE e == Head(events)
    <2>1. e \in Changes /\ Tail(events) \in Seq(Changes)
      BY <1>2, HeadTailProperties DEF NativeEvent, Types
    <2>2. /\ t' = IF e[1] = "ice"
                  THEN HandleIceState(Update([t EXCEPT !.ice = e[2]], q), e[2])
                  ELSE Update([t EXCEPT !.conn = e[2]], q)
          /\ events' = Tail(events) /\ UNCHANGED <<q, net>>
      BY <1>2 DEF NativeEvent
    <2> HIDE DEF e
    <2>3. \/ e[1] = "ice" /\ e[2] \in IceStates
          \/ e[1] # "ice" /\ e[2] \in ConnStates
      BY <2>1 DEF Changes
    <2>4. t \in Transports
      BY DEF Types
    <2>5. t' \in Transports
      BY <2>2, <2>3, <2>4, Fields, UpdateTyped, IceTyped
    <2> QED
      BY <2>1, <2>2, <2>5 DEF Types
  <1> QED
    BY <1>1, <1>2

LEMMA TypesStep == Types /\ [Next]_vars => Types'
  <1> SUFFICES ASSUME Types, [Next]_vars PROVE Types'
    OBVIOUS
  <1>1. CASE Tasks
    BY <1>1, TasksTyped, TimersTyped DEF Tasks
  <1>2. CASE PollTimer \/ DeadlinePasses
    BY <1>2, OthersTyped
  <1>3. CASE Application
    BY <1>3, OthersTyped, DescribeTyped, PairWithTyped DEF Application
  <1>4. CASE Paired
    BY <1>4, PairedTyped
  <1>5. CASE NativeChanges \/ NativeEvent
    BY <1>5, NativeTyped
  <1>6. CASE UNCHANGED vars
    BY <1>6 DEF vars, Types
  <1> QED
    BY <1>1, <1>2, <1>3, <1>4, <1>5, <1>6 DEF Next

LEMMA TypesOK == Types => TypeOK
  <1> SUFFICES ASSUME Types PROVE TypeOK
    OBVIOUS
  <1>1. events \in Seq({"ice", "conn"} \X (IceStates \cup ConnStates))
    <2>1. Changes \subseteq {"ice", "conn"} \X (IceStates \cup ConnStates)
      BY DEF Changes
    <2> QED
      BY <2>1 DEF Types
  <1> QED
    BY <1>1 DEF Types, TypeOK, Transports, Peers, Counts, TaskQueues, TaskNames,
       TimerQueues, TimerNames, SctpStates, Deadlines, Overrides, Links

\* The types of the transport's state.  An event is assigned to the state of its
\* kind as it comes, so the invariant says of those on the way that each tells a
\* state of its own kind.
THEOREM TypeCorrect == Spec => []TypeOK
  BY TypesInit, TypesStep, TypesOK, PTL DEF Spec
-----------------------------------------------------------------------------
\* A transport that is connected stays so.
\*
\* What the peer sees of a connection is never ahead of the native connection,
\* unless it was told by a paired peer; and no event is ahead of it either.

Reported == net[1] \in Up \cup Down

\* The paired peer's connection is one of both, whatever this one's is.
Shared(p, o) ==
    /\ Same(p) /\ Negotiated(p)
    /\ o.link = "paired" /\ o.negotiated /\ o.up

Justified(p, o) == Reported \/ Shared(p, o) \/ o.link = "left"

Ordered ==
    /\ net[2] = "connected" => Reported
    /\ \A i \in 1..Len(events) : events[i][2] \in Up => Reported
    /\ events # <<>> =>
          LET last == events[Len(events)]
          IN  /\ last[1] = "ice" => last[2] = net[1]
              /\ last[1] # "ice" =>
                    /\ last[2] = net[2]
                    /\ net[2] \in {"connected"} \cup Down \/ ~Reported

Lasting(p, o) == p.sctp = "connected" => Failed(p) \/ Connects(p, o) \/ o.link = "left"

Firm(p, o) ==
    /\ SeesConnection(p) => Justified(p, o)
    /\ p.sctp = "connected" => ~Failed(p)
    /\ Lasting(p, o)

Standing == Ordered /\ Firm(t, q)
Stays ==
    t.sctp = "connected" /\ t'.sctp = "connecting" =>
        q'.link = "left" \/ Len(events') \in 1..(Len(events) - 1)

\* What the invariant is about, of two states with the same native connection.
LEMMA AlikeFirm ==
    ASSUME NEW p, NEW r, NEW o, Firm(p, o), Alike(p, r)
    PROVE  Firm(r, o) /\ r.sctp = p.sctp
  BY DEF Firm, Alike, Lasting, Connects, NativeConnected, SameProcessConnected, Same,
         SeesConnection, Negotiated, Failed, Justified, Shared

LEMMA Carried ==
    ASSUME Ordered, UNCHANGED <<net, events>>, Firm(t', q')
    PROVE  Standing'
  BY DEF Ordered, Standing, Firm, Reported, Justified

\* An update shows no connection that is not one, and gives up none that is.
LEMMA UpdateFirm ==
    ASSUME NEW p, NEW o, TShape(p), SeesConnection(p) => Justified(p, o)
    PROVE  /\ Firm(Update(p, o), o)
           /\ Lasting(p, o) /\ p.sctp = "connected"
                /\ Update(p, o).sctp = "connecting" => o.link = "left"
  <1> DEFINE u == Update(p, o)
  <1>1. CASE ~HasData(p)
    <2>1. /\ u.sctp = "none" /\ u.ice = p.ice /\ u.conn = p.conn
          /\ u.local = p.local /\ u.remote = p.remote /\ u.explicit = p.explicit
      BY <1>1 DEF Update, TShape, TFields
    <2> HIDE DEF u
    <2>2. Firm(u, o)
      BY <2>1 DEF Firm, Lasting, SeesConnection, Justified, Shared, Same, Negotiated
    <2> QED
      BY <2>1, <2>2 DEF u
  <1>2. CASE HasData(p)
    <2> DEFINE should == ShouldConnect(p, o)
               wait == should /\ p.sctp # "connected"
                              /\ ~(p.ready /\ should /\ ~Failed(p))
               state == IF Failed(p) THEN "closed"
                        ELSE IF should /\ ~wait THEN "connected" ELSE "connecting"
    <2>1. /\ u.closed = p.closed /\ u.local = p.local /\ u.remote = p.remote
          /\ u.explicit = p.explicit /\ u.ice = p.ice /\ u.conn = p.conn
          /\ u.sctp = state
      BY <1>2, UpdateFields
    <2> HIDE DEF u
    <2>2. /\ Failed(u) <=> Failed(p)
          /\ Connects(u, o) <=> Connects(p, o)
          /\ SeesConnection(u) <=> SeesConnection(p)
          /\ Justified(u, o) <=> Justified(p, o)
      BY <2>1 DEF Failed, Connects, NativeConnected, SameProcessConnected,
         SeesConnection, Justified, Shared, Same, Negotiated
    <2>3. /\ should => Connects(p, o)
          /\ Connects(p, o) /\ p.sctp = "connected" => should
      BY DEF ShouldConnect, Connects
    <2> HIDE DEF should
    <2>4. /\ state = "connected" => ~Failed(p) /\ Connects(p, o)
          /\ state = "connecting" /\ p.sctp = "connected" =>
                ~Failed(p) /\ ~Connects(p, o)
      BY <2>3
    <2> HIDE DEF state
    <2>5. Firm(u, o)
      BY <2>1, <2>2, <2>4 DEF Firm, Lasting
    <2> QED
      BY <2>1, <2>4, <2>5 DEF Lasting, u
  <1> QED
    BY <1>1, <1>2

\* Whatever else is known of the connection, it lasts: what the native connection
\* reported is seen, and what it did not report is the paired peer's.
LEMMA Lasts ==
    ASSUME NEW p, NEW r, NEW o, Firm(p, o), r.sctp = p.sctp,
           Negotiated(p) => Negotiated(r), Same(p) => Same(r),
           Reported => Failed(r) \/ SeesConnection(r)
    PROVE  Lasting(r, o)
  <1> SUFFICES ASSUME p.sctp = "connected", ~Failed(r), o.link # "left"
               PROVE  Connects(r, o)
    BY DEF Lasting
  <1>1. Connects(p, o) /\ Negotiated(p) /\ o.link # "self"
    BY DEF Firm, Lasting, Connects, NativeConnected, SameProcessConnected
  <1>2. CASE Reported
    BY <1>1, <1>2 DEF Connects, NativeConnected
  <1>3. CASE ~Reported
    <2>1. Shared(p, o)
      BY <1>1, <1>3 DEF Firm, Justified, Shared, Connects, NativeConnected,
         SameProcessConnected
    <2> QED
      BY <2>1 DEF Shared, Connects, SameProcessConnected
  <1> QED
    BY <1>2, <1>3

\* The native states as they are now report what there is to see of them.
LEMMA CopyFirm ==
    ASSUME NEW p, NEW r, TShape(r), Ordered, Firm(p, q), r.sctp = p.sctp,
           Negotiated(p) => Negotiated(r), Same(p) => Same(r)
    PROVE  /\ Firm(Update(Copy(r), q), q)
           /\ p.sctp = "connected" /\ Update(Copy(r), q).sctp = "connecting" =>
                q.link = "left"
  <1> DEFINE c == Copy(r)
  <1>1. /\ TShape(c) /\ c.ice = net[1] /\ c.conn = net[2] /\ c.sctp = r.sctp
        /\ c.local = r.local /\ c.remote = r.remote /\ c.explicit = r.explicit
    BY Copied DEF Copy, TShape, TFields
  <1> HIDE DEF c
  <1>2. SeesConnection(c) => Reported
    BY <1>1 DEF SeesConnection, Ordered, Reported
  <1>3. Reported => Failed(c) \/ SeesConnection(c)
    BY <1>1 DEF Reported, Failed, SeesConnection
  <1>4. (Negotiated(p) => Negotiated(c)) /\ (Same(p) => Same(c))
    BY <1>1 DEF Negotiated, Same
  <1>5. Lasting(c, q)
    BY <1>1, <1>3, <1>4, Lasts
  <1> QED
    BY <1>1, <1>2, <1>5, UpdateFirm DEF Justified, c
-----------------------------------------------------------------------------
LEMMA InitStanding == Init => Standing
  BY DEF Init, Standing, Ordered, Reported, Firm, Lasting, SeesConnection, Up, Down

\* Every task but the one that tells a peer has left updates the transport with
\* what was known, or with the native states as they are.
LEMMA TasksStanding ==
    ASSUME IInv, Standing, Transition \/ UpdateTask \/ HandleRemotePeerClosed
    PROVE  Standing' /\ Stays
  <1> DEFINE r == [t EXCEPT !.immediates = Tail(@)]
  <1>1. /\ TShape(t) /\ Present(t) /\ t.immediates # <<>> /\ Ordered /\ Firm(t, q)
        /\ q' = q /\ UNCHANGED <<net, events>>
    BY DEF IInv, Good, Standing, Transition, UpdateTask, HandleRemotePeerClosed
  <1>2. /\ TShape(r) /\ r.closed = t.closed /\ r.local = t.local
        /\ r.remote = t.remote /\ r.explicit = t.explicit /\ r.ice = t.ice
        /\ r.conn = t.conn /\ r.sctp = t.sctp
    BY <1>1, Dequeued DEF TShape, TFields
  <1> HIDE DEF r
  <1>3. Firm(r, q)
    BY <1>1, <1>2 DEF Firm, Lasting, Connects, NativeConnected, SameProcessConnected,
       Same, SeesConnection, Negotiated, Failed, Justified, Shared
  <1>4. SUFFICES /\ Firm(t', q)
                 /\ t.sctp = "connected" /\ t'.sctp = "connecting" =>
                       q.link = "left"
    BY <1>1, Carried DEF Stays
  <1>5. CASE r.closed /\ t' = r
    BY <1>2, <1>3, <1>5
  <1>6. CASE Transition
    <2> DEFINE c == [r EXCEPT !.ready = TRUE]
    <2>1. t' = IF r.closed \/ r.sctp = "none" THEN r ELSE Update(c, q)
      BY <1>6 DEF Transition, r
    <2>2. /\ TShape(c) /\ c.closed = r.closed /\ c.local = r.local
          /\ c.remote = r.remote /\ c.explicit = r.explicit /\ c.ice = r.ice
          /\ c.conn = r.conn /\ c.sctp = r.sctp
      BY <1>2 DEF TShape, TFields
    <2> HIDE DEF c
    <2>3. (SeesConnection(c) => Justified(c, q)) /\ Lasting(c, q)
      BY <1>3, <2>2 DEF Firm, Lasting, Connects, NativeConnected,
         SameProcessConnected, Same, SeesConnection, Negotiated, Failed, Justified,
         Shared
    <2> QED
      BY <1>2, <1>3, <2>1, <2>2, <2>3, UpdateFirm
  <1>7. CASE UpdateTask
    <2>1. t' = IF r.closed THEN Update(r, q) ELSE Update(Copy(r), q)
      BY <1>7 DEF UpdateTask, r
    <2>2. CASE r.closed
      BY <1>2, <1>3, <2>1, <2>2, UpdateFirm DEF Firm
    <2>3. CASE ~r.closed
      BY <1>1, <1>2, <1>3, <2>1, <2>3, CopyFirm
    <2> QED
      BY <2>2, <2>3
  <1>8. CASE HandleRemotePeerClosed
    <2> DEFINE gone == [r EXCEPT !.ice = "disconnected", !.conn = "disconnected"]
               u == Update(gone, q)
    <2>1. t' = IF r.closed THEN r ELSE ForceDisconnected(u)
      BY <1>8 DEF HandleRemotePeerClosed, r
    <2>2. /\ TShape(gone) /\ gone.ice = "disconnected" /\ gone.conn = "disconnected"
          /\ gone.sctp = r.sctp
      BY <1>2 DEF TShape, TFields
    <2> HIDE DEF gone
    <2>3. ~SeesConnection(gone) /\ Lasting(gone, q)
      BY <2>2 DEF SeesConnection, Lasting, Failed, Up, Down
    <2>4. /\ Firm(u, q) /\ TShape(u)
          /\ t.sctp = "connected" /\ u.sctp = "connecting" => q.link = "left"
      BY <1>2, <2>2, <2>3, UpdateFirm, Updated DEF Good
    <2> HIDE DEF u
    <2>5. /\ Firm(ForceDisconnected(u), q)
          /\ ForceDisconnected(u).sctp = u.sctp
      BY <2>4, IceEvents, AlikeFirm
    <2> QED
      BY <1>2, <1>3, <2>1, <2>4, <2>5
  <1> QED
    BY <1>6, <1>7, <1>8
\* A repair that is due goes by a connection the native one reported, or by the
\* paired peer's: what it puts right is no more than that.
LEMMA TimersStanding ==
    ASSUME IInv, Standing, RepairTimer \/ ReplayTimer
    PROVE  Standing' /\ Stays
  <1> DEFINE r == [t EXCEPT !.timers = Tail(@)]
  <1>1. /\ TShape(t) /\ Ordered /\ Firm(t, q) /\ q' = q /\ UNCHANGED <<net, events>>
    BY DEF IInv, Good, Standing, RepairTimer, ReplayTimer
  <1>2. Alike(t, r)
    BY <1>1 DEF Alike, TShape, TFields
  <1>3. TShape(r) /\ Firm(r, q) /\ r.sctp = t.sctp
    BY <1>1, <1>2, AlikeFirm DEF Alike
  <1>4. SUFFICES Firm(t', q) /\ (r.sctp = "connected" => t'.sctp = "connected")
    BY <1>1, <1>3, Carried DEF Stays
  <1>5. CASE ReplayTimer
    <2>1. t' \in {Replay(r), Replayed(r)}
      BY <1>5 DEF ReplayTimer
    <2> HIDE DEF r
    <2>2. Alike(r, Replay(r)) /\ Alike(r, Replayed(r))
      BY <1>3 DEF Alike, Replay, Replayed, Soon, TShape, TFields
    <2> QED
      BY <1>3, <2>1, <2>2, AlikeFirm
  <1>6. CASE RepairTimer
    <2>1. \/ t' = r
          \/ ShouldRepair(r, q) /\ t' \in {StartRepair(r), RepairConn(RepairIce(r))}
      BY <1>6 DEF RepairTimer
    <2> HIDE DEF r
    <2>2. CASE ShouldRepair(r, q)
      <3>1. /\ r.sctp = "connected" /\ ~Failed(r) /\ Negotiated(r) /\ Same(r)
            /\ q.link = "paired" /\ q.negotiated /\ ~r.closed
        BY <2>2 DEF ShouldRepair, RepairDue, Failed
      <3>2. Justified(r, q)
        <4>1. Connects(r, q)
          BY <1>3, <3>1 DEF Firm, Lasting
        <4> QED
          BY <1>3, <3>1, <4>1 DEF Firm, Connects, NativeConnected,
             SameProcessConnected, Justified, Shared
      <3>3. Firm(StartRepair(r), q) /\ StartRepair(r).sctp = "connected"
        BY <1>3, <3>1 DEF StartRepair, HandleIceState, StartReplay, Soon, ReplayDue,
           TShape, TFields, Firm, Lasting, Failed, Down, Up, Connects,
           NativeConnected, SameProcessConnected, SeesConnection, Same, Negotiated,
           Justified, Shared
      <3> DEFINE up == [r EXCEPT !.ice = "connected"]
                 ice == RepairIce(r)
      <3>4. TShape(up) /\ Firm(up, q) /\ up.sctp = "connected" /\ up.conn = r.conn
        <4>1. /\ TShape(up) /\ up.closed = r.closed /\ up.ice = "connected"
              /\ up.conn = r.conn /\ up.sctp = r.sctp /\ up.local = r.local
              /\ up.remote = r.remote /\ up.explicit = r.explicit
          BY <1>3 DEF TShape, TFields
        <4> HIDE DEF up
        <4>2. /\ ~Failed(up) /\ NativeConnected(up, q) /\ Justified(up, q)
          BY <3>1, <3>2, <4>1 DEF Failed, Up, Down, NativeConnected, SeesConnection,
             Negotiated, Justified, Shared, Same
        <4> QED
          BY <3>1, <4>1, <4>2 DEF Firm, Lasting, Connects
      <3> HIDE DEF up
      <3>5. /\ Firm(HandleIceState(up, "connected"), q)
            /\ Alike(up, HandleIceState(up, "connected"))
        BY <3>4, IceEvents, AlikeFirm
      <3>6. /\ TShape(ice) /\ Firm(ice, q) /\ ice.sctp = "connected"
            /\ Justified(ice, q)
        <4>1. ice \in {r, HandleIceState(up, "connected")}
          BY DEF RepairIce, up
        <4>2. CASE ice = r
          BY <1>3, <3>1, <3>2, <4>2
        <4>3. CASE ice = HandleIceState(up, "connected")
          <5>1. TShape(ice) /\ Firm(ice, q) /\ ice.sctp = "connected" /\ ice.ice = "connected"
            BY <3>4, <3>5, <4>3 DEF Alike, up, TShape, TFields
          <5> QED
            BY <5>1 DEF Firm, SeesConnection, Up
        <4> QED
          BY <4>1, <4>2, <4>3
      <3> HIDE DEF ice
      <3>7. Firm(RepairConn(ice), q) /\ RepairConn(ice).sctp = "connected"
        <4> DEFINE c == [ice EXCEPT !.conn = "connected"]
        <4>1. /\ TShape(c) /\ c.closed = ice.closed /\ c.ice = ice.ice
              /\ c.conn = "connected" /\ c.sctp = "connected"
              /\ c.local = ice.local /\ c.remote = ice.remote
              /\ c.explicit = ice.explicit
          BY <3>6 DEF TShape, TFields
        <4> HIDE DEF c
        <4>2. /\ ~Failed(c) /\ SeesConnection(c) /\ Justified(c, q)
              /\ Negotiated(c) /\ HasData(c)
          BY <3>1, <3>6, <4>1 DEF Firm, Lasting, Failed, Down, SeesConnection,
             Justified, Shared, Same, Negotiated, HasData, Connects, NativeConnected,
             SameProcessConnected
        <4>3. ShouldConnect(c, q)
          BY <3>1, <4>1, <4>2 DEF ShouldConnect, NativeConnected
        <4>4. Update(c, q).sctp = "connected"
          BY <4>1, <4>2, <4>3, UpdateFields
        <4> QED
          BY <3>6, <4>1, <4>2, <4>4, UpdateFirm DEF RepairConn, c
      <3> QED
        BY <2>1, <1>3, <3>3, <3>7 DEF ice
    <2> QED
      BY <1>3, <2>1, <2>2
  <1> QED
    BY <1>5, <1>6

\* The poll, the operations and the listener decide nothing.
LEMMA OthersStanding ==
    ASSUME IInv, Standing,
           PollTimer \/ DeadlinePasses \/ StartOperation \/ FinishOperation
             \/ AddStateListener
    PROVE  Standing' /\ Stays
  <1>1. TShape(t) /\ Ordered /\ Firm(t, q) /\ q' = q /\ UNCHANGED <<net, events>>
    BY DEF IInv, Good, Standing, PollTimer, DeadlinePasses, StartOperation,
           FinishOperation, AddStateListener
  <1>2. /\ t'.closed = t.closed /\ t'.local = t.local /\ t'.remote = t.remote
        /\ t'.explicit = t.explicit /\ t'.ice = t.ice /\ t'.conn = t.conn
        /\ t'.sctp = t.sctp
    <2> USE <1>1 DEF TShape, TFields
    <2>1. CASE PollTimer
      BY <2>1 DEF PollTimer, ScheduleUpdate
    <2>2. CASE DeadlinePasses \/ StartOperation
      BY <2>2 DEF DeadlinePasses, StartOperation
    <2>3. CASE FinishOperation
      BY <2>3 DEF FinishOperation, FinishPendingOperation, ScheduleUpdate
    <2>4. CASE AddStateListener
      BY <2>4 DEF AddStateListener, StartReplay, Soon
    <2> QED
      BY <2>1, <2>2, <2>3, <2>4
  <1>3. Firm(t', q)
    BY <1>1, <1>2 DEF Firm, Lasting, Connects, NativeConnected, SameProcessConnected,
       Same, SeesConnection, Negotiated, Failed, Justified, Shared
  <1> QED
    BY <1>1, <1>2, <1>3, Carried DEF Stays

LEMMA ApplicationStanding ==
    ASSUME IInv, Standing,
           \/ \E local, remote \in BOOLEAN : Describe(local, remote)
           \/ \E link \in {"paired", "self"} : PairWith(link)
           \/ AddCandidate \/ Close
    PROVE  Standing' /\ Stays
  <1>1. TShape(t) /\ QShape(q) /\ Ordered /\ Firm(t, q)
    BY DEF IInv, Good, Standing
  <1>2. ASSUME NEW local \in BOOLEAN, NEW remote \in BOOLEAN, Describe(local, remote)
        PROVE  Standing' /\ Stays
    <2> DEFINE r == [t EXCEPT !.local = local, !.remote = remote]
    <2>1. /\ ~t.closed /\ t' = Sync(r) /\ q' = q /\ UNCHANGED <<net, events>>
          /\ (t.local => local) \/ ~Negotiated(t)
          /\ (t.remote => remote) \/ ~Negotiated(t)
      BY <1>2, Zenon DEF Describe
    <2>2. /\ TShape(r) /\ ~r.closed /\ r.sctp = t.sctp /\ r.local = local
          /\ r.remote = remote /\ r.explicit = t.explicit
      BY <1>1, <2>1 DEF TShape, TFields
    <2> HIDE DEF r
    <2>3. t' = Update(Copy(r), q)
      BY <2>1, <2>2 DEF Sync
    <2>4. (Negotiated(t) => Negotiated(r)) /\ (Same(t) => Same(r))
      BY <2>1, <2>2, Zenon DEF Negotiated, Same
    <2>5. /\ Firm(Update(Copy(r), q), q)
          /\ t.sctp = "connected" /\ Update(Copy(r), q).sctp = "connecting" =>
                q.link = "left"
      BY <1>1, <2>2, <2>4, CopyFirm
    <2> QED
      BY <1>1, <2>1, <2>3, <2>5, Carried DEF Stays
  <1>3. ASSUME NEW link \in {"paired", "self"}, PairWith(link)
        PROVE  Standing' /\ Stays
    <2>1. /\ q.link = "none" /\ q'.link = link
          /\ link = "self" => ~t.remote
          /\ t' = t /\ UNCHANGED <<net, events>>
      <3>1. /\ q.link = "none" /\ t' = t /\ UNCHANGED <<net, events>>
            /\ \E n \in Nat : q' = [q EXCEPT !.link = link, !.ops = n]
            /\ ~t.remote \/ link = "paired"
        <4>1. PICK ops \in 0..MaxOps :
                 /\ ~t.remote \/ link = "paired"
                 /\ q' = [q EXCEPT !.link = link,
                                  !.ops = IF link = "paired" THEN ops ELSE 0]
          BY <1>3, Zenon DEF PairWith
        <4>2. (IF link = "paired" THEN ops ELSE 0) \in Nat
          BY SctpTransportAssumption
        <4>3. q.link = "none" /\ t' = t /\ UNCHANGED <<net, events>>
          BY <1>3, Zenon DEF PairWith
        <4> QED
          BY <4>1, <4>2, <4>3, Zenon
      <3> QED
        BY <1>1, <3>1 DEF QShape, QFields
    <2>2. /\ SeesConnection(t) => Reported
          /\ t.sctp = "connected" => ~Failed(t) /\ SeesConnection(t) /\ Negotiated(t)
      BY <1>1, <2>1 DEF Firm, Lasting, Connects, NativeConnected,
         SameProcessConnected, Justified, Shared
    <2>3. Firm(t, q')
      BY <2>1, <2>2 DEF Firm, Lasting, Connects, NativeConnected, Negotiated, Justified
    <2> QED
      BY <1>1, <2>1, <2>2, <2>3, Carried DEF Stays
  <1>4. CASE AddCandidate
    <2> DEFINE r == [t EXCEPT !.explicit = TRUE]
    <2>1. t' = Update(r, q) /\ q' = q /\ UNCHANGED <<net, events>>
      BY <1>4 DEF AddCandidate
    <2>2. /\ TShape(r) /\ r.closed = t.closed /\ r.local = t.local
          /\ r.remote = t.remote /\ r.explicit /\ r.ice = t.ice
          /\ r.conn = t.conn /\ r.sctp = t.sctp
      BY <1>1 DEF TShape, TFields
    <2> HIDE DEF r
    <2>3. (SeesConnection(r) => Justified(r, q)) /\ Lasting(r, q)
      BY <1>1, <2>2 DEF Firm, Lasting, Connects, NativeConnected,
         SameProcessConnected, Same, SeesConnection, Negotiated, Failed, Justified,
         Shared
    <2> QED
      BY <1>1, <2>1, <2>2, <2>3, UpdateFirm, Carried DEF Stays
  <1>5. CASE Close
    <2> DEFINE r == [t EXCEPT !.closed = TRUE, !.ice = "closed", !.conn = "closed"]
    <2>1. t' = Update(r, Left) /\ q' = Left /\ events' = <<>> /\ net' = net
      BY <1>5 DEF Close
    <2>2. TShape(r) /\ r.ice = "closed" /\ r.conn = "closed"
      BY <1>1 DEF TShape, TFields
    <2> HIDE DEF r
    <2>3. ~SeesConnection(r) /\ Left.link = "left"
      BY <2>2 DEF SeesConnection, Up, Left, Alone
    <2>4. Firm(t', q')
      BY <2>1, <2>2, <2>3, UpdateFirm
    <2>5. Firm(t, q)' /\ Ordered'
      BY <1>1, <2>1, <2>4 DEF Firm, Justified, Reported, Ordered
    <2> QED
      BY <2>1, <2>3, <2>5 DEF Standing, Stays
  <1> QED
    BY <1>2, <1>3, <1>4, <1>5

\* What the paired peer is taken for only grows, until it leaves.
LEMMA PairedStanding ==
    ASSUME IInv, Standing, Paired
    PROVE  Standing' /\ Stays
  <1>1. TShape(t) /\ QShape(q) /\ Ordered /\ Firm(t, q)
    BY DEF IInv, Good, Standing
  <1>2. /\ UNCHANGED <<net, events>>
        /\ t' \in {t, ScheduleUpdate(t), ScheduleUpdate([t EXCEPT !.explicit = TRUE]),
                   Immediately(t, "peerClosed")}
    BY Zenon DEF Paired, PairedStarts, PairedFinishes, PairedConnects,
       PairedAddsCandidate, PairedCloses, UpdatePaired
  <1>3. /\ t'.closed = t.closed /\ t'.local = t.local /\ t'.remote = t.remote
        /\ t.explicit => t'.explicit
        /\ t'.ice = t.ice /\ t'.conn = t.conn /\ t'.sctp = t.sctp
    BY <1>1, <1>2 DEF ScheduleUpdate, Immediately, TShape, TFields
  <1>4. \/ q'.link = "left"
        \/ /\ q'.link = q.link
           /\ q.up => q'.up
           /\ q.negotiated => q'.negotiated
    <2>1. \/ q' = q \/ q' = Left
          \/ q' = [q EXCEPT !.ops = @ + 1]
          \/ q' = [q EXCEPT !.up = TRUE]
          \/ \E negotiates \in BOOLEAN :
               q' = [q EXCEPT !.ops = @ - 1, !.negotiated = @ \/ negotiates]
      BY Zenon DEF Paired, PairedStarts, PairedFinishes, PairedConnects,
         PairedAddsCandidate, PairedCloses
    <2>2. ASSUME NEW negotiates \in BOOLEAN,
                 q' = [q EXCEPT !.ops = @ - 1, !.negotiated = @ \/ negotiates]
          PROVE  q'.link = q.link /\ q'.up = q.up /\ (q.negotiated => q'.negotiated)
      BY <1>1, <2>2 DEF QShape, QFields
    <2>3. /\ q' = q => q'.link = q.link /\ q'.up = q.up /\ q'.negotiated = q.negotiated
          /\ q' = Left => q'.link = "left"
          /\ q' = [q EXCEPT !.ops = @ + 1] =>
                q'.link = q.link /\ q'.up = q.up /\ q'.negotiated = q.negotiated
          /\ q' = [q EXCEPT !.up = TRUE] =>
                q'.link = q.link /\ q'.up /\ q'.negotiated = q.negotiated
      BY <1>1 DEF QShape, QFields, Left, Alone
    <2> QED
      BY <2>1, <2>2, <2>3, Zenon
  <1>5. Firm(t', q')
    BY <1>1, <1>3, <1>4 DEF Firm, Lasting, Connects, NativeConnected,
       SameProcessConnected, Same, SeesConnection, Negotiated, Failed, Justified,
       Shared
  <1> QED
    BY <1>1, <1>2, <1>3, <1>5, Carried DEF Stays
\* An event is out of date only if others follow it.
LEMMA NativeStanding ==
    ASSUME IInv, Types, Standing, NativeChanges \/ NativeEvent
    PROVE  Standing' /\ Stays
  <1>1. /\ TShape(t) /\ Ordered /\ Firm(t, q) /\ events \in Seq(Changes) /\ q' = q
        /\ net \in IceStates \X ConnStates
    BY DEF IInv, Good, Types, Standing, NativeChanges, NativeEvent
  <1>2. CASE NativeChanges
    <2>1. PICK move \in NativeSteps :
            /\ move[1] = net /\ net' = move[2]
            /\ events' = Append(events, IF net[1] # move[2][1] THEN <<"ice", move[2][1]>>
                                        ELSE <<"conn", move[2][2]>>)
      BY <1>2 DEF NativeChanges
    <2> DEFINE e == IF net[1] # move[2][1] THEN <<"ice", move[2][1]>>
                    ELSE <<"conn", move[2][2]>>
    <2>2. /\ t' = t /\ (Reported => Reported') /\ (net'[2] = "connected" => Reported')
          /\ e[2] \in Up => Reported'
          /\ e[1] = "ice" => e[2] = net'[1]
          /\ e[1] # "ice" => /\ e[2] = net'[2]
                             /\ net'[2] \in {"connected"} \cup Down \/ ~Reported'
      BY <1>2, <2>1 DEF NativeChanges, NativeSteps, Reported, Up, Down
    <2>3. events' = Append(events, e)
      BY <2>1
    <2> HIDE DEF e
    <2>4. /\ Len(events') = Len(events) + 1
          /\ events'[Len(events) + 1] = e
          /\ \A i \in 1..Len(events) : events'[i] = events[i]
          /\ Len(events) \in Nat /\ events' # <<>>
      BY <1>1, <2>3
    <2>5. Ordered'
      BY <1>1, <2>2, <2>4 DEF Ordered
    <2>6. Firm(t, q)'
      BY <1>1, <2>2 DEF Firm, Justified, Shared, Lasting, Connects, NativeConnected,
         SameProcessConnected, Same, SeesConnection, Negotiated, Failed
    <2> QED
      BY <2>2, <2>5, <2>6 DEF Standing, Stays
  <1>3. CASE NativeEvent
    <2> DEFINE e == Head(events)
               r == IF e[1] = "ice" THEN [t EXCEPT !.ice = e[2]]
                    ELSE [t EXCEPT !.conn = e[2]]
               u == Update(r, q)
    <2>1. /\ events # <<>> /\ events' = Tail(events) /\ net' = net
          /\ t' \in {u, HandleIceState(u, e[2])}
      BY <1>3 DEF NativeEvent
    <2>2. /\ Len(events) \in Nat \ {0} /\ e = events[1]
          /\ Len(events') = Len(events) - 1
          /\ \A i \in 1..Len(events') : events'[i] = events[i + 1]
      BY <1>1, <2>1
    <2> HIDE DEF e
    <2>3. /\ TShape(r) /\ r.closed = t.closed /\ r.local = t.local
          /\ r.remote = t.remote /\ r.explicit = t.explicit /\ r.sctp = t.sctp
          /\ e[1] = "ice" => r.ice = e[2] /\ r.conn = t.conn
          /\ e[1] # "ice" => r.ice = t.ice /\ r.conn = e[2]
      BY <1>1 DEF TShape, TFields
    <2> HIDE DEF r
    <2>4. e[2] \in Up => Reported
      BY <1>1, <2>2 DEF Ordered
    <2>5. SeesConnection(r) => Justified(r, q)
      BY <1>1, <2>3, <2>4 DEF SeesConnection, Justified, Shared, Same, Negotiated,
         Firm, Up
    <2>6. Len(events) = 1 => Lasting(r, q)
      <3> SUFFICES ASSUME Len(events) = 1 PROVE Lasting(r, q)
        OBVIOUS
      <3>1. Reported => Failed(r) \/ SeesConnection(r)
        BY <1>1, <2>1, <2>2, <2>3 DEF Ordered, Reported, Failed, SeesConnection
      <3> QED
        BY <1>1, <2>3, <3>1, Lasts DEF Negotiated, Same
    <2>7. /\ Firm(u, q)
          /\ TShape(u)
          /\ Lasting(r, q) /\ r.sctp = "connected" /\ u.sctp = "connecting" =>
                q.link = "left"
      BY <2>3, <2>5, UpdateFirm, Updated DEF Good
    <2> HIDE DEF u
    <2>8. Firm(t', q) /\ t'.sctp = u.sctp
      BY <2>1, <2>7, IceEvents, AlikeFirm
    <2>9. Stays
      BY <1>1, <2>2, <2>3, <2>6, <2>7, <2>8 DEF Stays
    <2>10. Ordered'
      <3>1. events' # <<>> => /\ Len(events') \in 1..Len(events')
                              /\ events'[Len(events')] = events[Len(events)]
        <4>1. events' # <<>> => Len(events') # 0
          BY <1>1, <2>1
        <4> QED
          BY <2>2, <4>1
      <3>2. \A i \in 1..Len(events') : i + 1 \in 1..Len(events)
        BY <2>2
      <3> QED
        BY <1>1, <2>1, <2>2, <3>1, <3>2 DEF Ordered, Reported
    <2> QED
      BY <1>1, <2>1, <2>8, <2>9, <2>10 DEF Standing, Firm, Justified, Reported
  <1> QED
    BY <1>2, <1>3

LEMMA StandingStep == IInv /\ Types /\ Standing /\ [Next]_vars => Standing' /\ Stays
  <1> SUFFICES ASSUME IInv, Types, Standing, [Next]_vars PROVE Standing' /\ Stays
    OBVIOUS
  <1>1. CASE Tasks
    BY <1>1, TasksStanding, TimersStanding DEF Tasks
  <1>2. CASE PollTimer \/ DeadlinePasses
    BY <1>2, OthersStanding
  <1>3. CASE Application
    BY <1>3, OthersStanding, ApplicationStanding DEF Application
  <1>4. CASE Paired
    BY <1>4, PairedStanding
  <1>5. CASE NativeChanges \/ NativeEvent
    BY <1>5, NativeStanding
  <1>6. CASE UNCHANGED vars
    BY <1>6, Carried DEF vars, Standing, Stays
  <1> QED
    BY <1>1, <1>2, <1>3, <1>4, <1>5, <1>6 DEF Next

\* Once connected, the transport is not shown as connecting again, whatever copies
\* the native state, repairs it or replays it, in whatever order: only the paired
\* peer that leaves, or an event that others are behind, takes the connection back.
THEOREM ConnectionStays == Spec => StaysConnected
  <1>1. IInv /\ Types /\ Standing /\ [Next]_vars => [Stays]_vars
    BY StandingStep
  <1> QED
    BY <1>1, InitIInv, NextIInv, TypesInit, TypesStep, InitStanding, StandingStep, PTL
       DEF Spec, StaysConnected, Stays
-----------------------------------------------------------------------------
\* How a peer connection is taken down (PeerTeardown), for any sets of channels that are
\* made on either side.  Accounted follows every channel from AddChannel through the map,
\* the snapshot and the teardown's list; with it, each claim is read off the state of the
\* shutdown.

Held == channels \cup channelSnapshot \cup work

\* The flag is set before the snapshot is taken, so nothing registers after it.
Stages ==
    /\ shutdown <=> prepare # "idle"
    /\ prepare \in {"destroying", "handed"} => channels = {}
    /\ prepare # "destroying" => channelSnapshot = {}
    /\ prepare \in {"idle", "marked"} => work = {}
    /\ prepare \in {"marked", "destroying"} => InAddChannel \cap LocalChannels = {}
    /\ prepare = "handed" => InAddChannel = {}

\* Where a channel can be, given how far AddChannel is with it.
Places ==
    /\ \A c \in Channels :
          step[c] \in {"registered", "done"} => c \in closed \cup Held
    /\ \A c \in Held : step[c] \in {"registered", "done"}
    /\ \A c \in Channels : step[c] = "attached" => c \in hooked

Callbacks ==
    /\ calling \subseteq closed
    /\ channels \subseteq hooked
    /\ work \cap (hooked \cup calling) = {}

Accounted == PTTypeOK /\ Stages /\ Places /\ Callbacks /\ ClosedUnregistered

LEMMA InitAccounted == PTInit => Accounted
  BY DEF PTInit, Accounted, PTTypeOK, Stages, Places, Callbacks,
         ClosedUnregistered, Held, InAddChannel, Adding, Channels

\* AddChannel, and the channels it is called for.
LEMMA AddChannelAccounted ==
    ASSUME Accounted, NEW c \in Channels,
           CreateDataChannel(c) \/ OnDataChannel(c) \/ AddChannel(c)
    PROVE  Accounted'
  <1> USE DEF Accounted, PTTypeOK, Stages, Places, Callbacks, ClosedUnregistered,
              Held, InAddChannel, Adding, Channels, shutdownVars
  <1>1. CASE CreateDataChannel(c)
    BY <1>1, ChannelsAssumption DEF CreateDataChannel, JavaScriptIdle
  <1>2. CASE OnDataChannel(c)
    BY <1>2, ChannelsAssumption DEF OnDataChannel
  <1>3. CASE CheckShutdown(c)
    BY <1>3 DEF CheckShutdown
  <1>4. CASE AttachCallbacks(c)
    BY <1>4 DEF AttachCallbacks
  <1>5. CASE Register(c)
    BY <1>5 DEF Register
  <1>6. CASE Refuse(c)
    BY <1>6 DEF Refuse
  <1>7. CASE RecheckClosed(c)
    BY <1>7 DEF RecheckClosed
  <1> QED
    BY <1>1, <1>2, <1>3, <1>4, <1>5, <1>6, <1>7 DEF AddChannel

\* Channels closing, and the callback that reports it.
LEMMA ClosingAccounted ==
    ASSUME Accounted, NEW c \in Channels, ChannelCloses(c) \/ OnClosed(c)
    PROVE  Accounted'
  <1> USE DEF Accounted, PTTypeOK, Stages, Places, Callbacks, ClosedUnregistered,
              Held, InAddChannel, Channels, shutdownVars
  <1>1. CASE ChannelCloses(c)
    BY <1>1 DEF ChannelCloses, Made
  <1>2. CASE OnClosed(c)
    BY <1>2 DEF OnClosed
  <1> QED
    BY <1>1, <1>2

\* The steps of PrepareShutdown.
LEMMA PrepareAccounted ==
    ASSUME Accounted, BeginShutdown \/ PrepareShutdown
    PROVE  Accounted'
  <1> USE DEF Accounted, PTTypeOK, Stages, Places, Callbacks, ClosedUnregistered,
              Held, InAddChannel, Channels, bindingVars
  <1>1. CASE BeginShutdown
    BY <1>1 DEF BeginShutdown, JavaScriptIdle
  <1>2. CASE TakeSnapshot
    BY <1>2 DEF TakeSnapshot
  <1>3. ASSUME NEW c \in Channels, DestroyChannel(c)
        PROVE  Accounted'
    BY <1>3 DEF DestroyChannel
  <1>4. CASE HandOver
    <2>1. InAddChannel = {}
      BY <1>4 DEF HandOver
    <2> QED
      BY <1>4, <2>1 DEF HandOver
  <1> QED
    BY <1>1, <1>2, <1>3, <1>4 DEF PrepareShutdown

\* The steps of RunPeerTeardown, on whichever thread runs it.
LEMMA TeardownAccounted ==
    ASSUME Accounted, RunPeerTeardown
    PROVE  Accounted'
  <1> USE DEF Accounted, PTTypeOK, Stages, Places, Callbacks, ClosedUnregistered,
              Held, InAddChannel, Channels, bindingVars
  <1>1. ASSUME NEW c \in Channels, CloseDataChannelForTeardown(c)
        PROVE  Accounted'
    BY <1>1 DEF CloseDataChannelForTeardown
  <1>2. CASE ClosePeerConnection
    BY <1>2 DEF ClosePeerConnection
  <1>3. CASE ReleasePeerConnection
    BY <1>3 DEF ReleasePeerConnection
  <1> QED
    BY <1>1, <1>2, <1>3 DEF RunPeerTeardown

LEMMA EveryChannelAccounted == PTSpec => []Accounted
  <1>1. Accounted /\ PTNext => Accounted'
    BY AddChannelAccounted, ClosingAccounted, PrepareAccounted, TeardownAccounted
       DEF PTNext
  <1>2. Accounted /\ UNCHANGED PTvars => Accounted'
    BY DEF Accounted, PTvars, PTTypeOK, Stages, Places, Callbacks,
           ClosedUnregistered, Held, InAddChannel, Channels
  <1> QED
    BY InitAccounted, <1>1, <1>2, PTL DEF PTSpec

\* The state of the teardown is well typed, and PrepareShutdown starts it once.
THEOREM TeardownTypeCorrect == PTSpec => []PTTypeOK
  <1>1. Accounted => PTTypeOK
    BY DEF Accounted
  <1> QED
    BY EveryChannelAccounted, <1>1, PTL

\* Whatever channels are announced and close while a peer connection is shut
\* down, its handles reach RunPeerTeardown with no other user left, and every
\* channel is closed or on the list.
THEOREM HandOverIsComplete == PTSpec => []HandOverComplete
  <1>1. Accounted => HandOverComplete
    <2> SUFFICES ASSUME Accounted, teardown # "none"
                 PROVE  /\ channels = {}
                        /\ InAddChannel = {}
                        /\ Made \subseteq closed \cup work
                        /\ work \cap (hooked \cup calling) = {}
      BY DEF HandOverComplete
    <2>1. prepare = "handed" /\ channels = {} /\ channelSnapshot = {} /\ InAddChannel = {}
      BY DEF Accounted, PTTypeOK, Stages
    <2>2. \A c \in Made : step[c] = "done"
      BY <2>1 DEF Accounted, PTTypeOK, Made, InAddChannel
    <2>3. Made \subseteq closed \cup work
      BY <2>1, <2>2 DEF Accounted, Places, Held, Made
    <2> QED
      BY <2>1, <2>3 DEF Accounted, Callbacks
  <1> QED
    BY EveryChannelAccounted, <1>1, PTL

\* No closed channel is left in PeerBinding::channels, whatever the moment it
\* closed at.
THEOREM ClosedAreUnregistered == PTSpec => []ClosedUnregistered
  <1>1. Accounted => ClosedUnregistered
    BY DEF Accounted
  <1> QED
    BY EveryChannelAccounted, <1>1, PTL

=============================================================================
