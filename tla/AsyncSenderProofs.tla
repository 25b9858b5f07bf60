-------------------------- MODULE AsyncSenderProofs --------------------------
(***************************************************************************)
(* Proofs about AsyncSender for any channels, threads, cap and number of   *)
(* sends.                                                                  *)
(***************************************************************************)
EXTENDS AsyncSender, SequenceTheorems, TLAPS

LEMMA Assumed == /\ \A c \in Channels : ThreadOf[c] \in Threads
                 /\ MaxQueue \in Nat \ {0}
                 /\ MaxSends \in Nat
  BY SenderAssumption DEF SenderAssumption

LEMMA AppendInSeq ==
    ASSUME NEW S, NEW s \in Seq(S), NEW e \in S
    PROVE  /\ Append(s, e) \in Seq(S)
           /\ Len(Append(s, e)) = Len(s) + 1
           /\ Len(s) \in Nat
  OBVIOUS

LEMMA EmptyInSeq == ASSUME NEW S PROVE <<>> \in Seq(S) /\ Len(<<>>) = 0
  OBVIOUS

LEMMA ElementInRange ==
    ASSUME NEW S, NEW s \in Seq(S), NEW i \in Nat \ {0}, i <= Len(s)
    PROVE  s[i] \in S
  OBVIOUS

-----------------------------------------------------------------------------
LEMMA TypeInit == Init => TypeOK
  BY Assumed, EmptyInSeq DEF Init, TypeOK

LEMMA TypeStep == TypeOK /\ [Next]_vars => TypeOK'
<1> SUFFICES ASSUME TypeOK, [Next]_vars PROVE TypeOK'
  OBVIOUS
<1> USE DEF TypeOK
<1>1. ASSUME NEW c \in Channels, CanSend(c)
      PROVE  /\ sends[c] + 1 \in Numbers
             /\ [sends EXCEPT ![c] = @ + 1] \in [Channels -> 0 .. MaxSends]
  BY <1>1, Assumed DEF CanSend, Numbers
<1>2. ASSUME NEW c \in Channels, SendBinary(c) PROVE TypeOK'
  <2>1. [channel |-> c, n |-> sends[c] + 1] \in Items
    BY <1>1, <1>2 DEF SendBinary, Items
  <2>2. queue' \in Seq(Items) /\ accepted' \in Seq(Items)
    BY <1>2, <2>1, AppendInSeq DEF SendBinary
  <2>3. caller' \in [Threads -> {"idle", "notify"}]
    BY <1>2, Assumed DEF SendBinary
  <2>4. sends' \in [Channels -> 0 .. MaxSends]
    BY <1>1, <1>2 DEF SendBinary, Counted
  <2> QED BY <1>2, <2>2, <2>3, <2>4, Zenon DEF SendBinary
<1>3. ASSUME NEW c \in Channels, DropBinary(c) PROVE TypeOK'
  BY <1>1, <1>3, Zenon DEF DropBinary, Counted
<1>4. ASSUME NEW c \in Channels, SendString(c) PROVE TypeOK'
  <2>1. [n |-> sends[c] + 1, binary |-> FALSE] \in OnWire
    BY <1>1, <1>4, Zenon DEF SendString, OnWire
  <2>2. Append(wire[c], [n |-> sends[c] + 1, binary |-> FALSE]) \in Seq(OnWire)
    BY <2>1, AppendInSeq
  <2>3. wire' \in [Channels -> Seq(OnWire)]
    BY <1>4, <2>2, Zenon DEF SendString
  <2> QED BY <1>1, <1>4, <2>3, Zenon DEF SendString, Counted
<1>5. ASSUME NEW c \in Channels, CloseChannel(c) PROVE TypeOK'
  BY <1>5, Zenon DEF CloseChannel, history
<1>6. ASSUME NEW t \in Threads, NotifyOne(t) PROVE TypeOK'
  BY <1>6, Zenon DEF NotifyOne, history
<1>7. CASE Park
  BY <1>7, Zenon DEF Park, history
<1>8. CASE SpuriousWake
  BY <1>8, Zenon DEF SpuriousWake, history
<1>9. CASE Swap
  <2>1. 1 \in Nat \ {0}
    OBVIOUS
  <2> QED BY <1>9, <2>1, Zenon DEF Swap, history
<1>10. CASE SendItem
  <2>1. batch[next] \in Items
    BY <1>10, ElementInRange, Zenon DEF SendItem
  <2>2. handled' \in Seq(Items)
    BY <1>10, <2>1, AppendInSeq, Zenon DEF SendItem
  <2>3. wire' \in [Channels -> Seq(OnWire)]
    <3> DEFINE item == batch[next]
               entry == [n |-> item.n, binary |-> TRUE]
    <3>1. item.channel \in Channels /\ entry \in OnWire
      BY <2>1, Zenon DEF Items, OnWire
    <3>2. Append(wire[item.channel], entry) \in Seq(OnWire)
      BY <3>1, AppendInSeq
    <3> QED BY <1>10, <3>1, <3>2, Zenon DEF SendItem, Reaches, Throws, PassedOver
  <2>4. next' \in Nat \ {0}
    BY <1>10 DEF SendItem
  <2>5. failed' \in SUBSET Items
    <3>1. failed' = failed \/ failed' = failed \cup {batch[next]}
      BY <1>10, Zenon DEF SendItem, Reaches, Throws, PassedOver
    <3> QED BY <2>1, <3>1
  <2> QED BY <1>10, <2>2, <2>3, <2>4, <2>5, Zenon DEF SendItem
<1>11. CASE Clear
  BY <1>11, EmptyInSeq, Zenon DEF Clear, history
<1>12. CASE UNCHANGED vars
  BY <1>12, Zenon DEF vars, history
<1> QED BY <1>2, <1>3, <1>4, <1>5, <1>6, <1>7, <1>8, <1>9, <1>10, <1>11,
           <1>12 DEF Next, Run

\* Every variable of the sender keeps its type.
THEOREM TypeCorrect == Spec => []TypeOK
  BY TypeInit, TypeStep, PTL DEF Spec

-----------------------------------------------------------------------------
\* The send thread never sleeps on work nobody is about to announce.
THEOREM WakeupNotLost == Spec => []NoLostWakeup
<1> USE DEF NoLostWakeup
<1>1. Init => NoLostWakeup
  BY DEF Init
<1>2. TypeOK /\ NoLostWakeup /\ [Next]_vars => NoLostWakeup'
  <2> SUFFICES ASSUME TypeOK, NoLostWakeup, [Next]_vars PROVE NoLostWakeup'
    OBVIOUS
  <2>1. ASSUME NEW c \in Channels, SendBinary(c) PROVE NoLostWakeup'
    <3>1. ThreadOf[c] \in Threads /\ caller \in [Threads -> {"idle", "notify"}]
      BY Assumed, Zenon DEF TypeOK
    <3>2. caller'[ThreadOf[c]] = "notify"
      BY <2>1, <3>1, Zenon DEF SendBinary
    <3> QED BY <3>1, <3>2, Zenon
  <2>2. ASSUME NEW c \in Channels, DropBinary(c) PROVE NoLostWakeup'
    BY <2>2, Zenon DEF DropBinary
  <2>3. ASSUME NEW c \in Channels, SendString(c) PROVE NoLostWakeup'
    BY <2>3, Zenon DEF SendString
  <2>4. ASSUME NEW c \in Channels, CloseChannel(c) PROVE NoLostWakeup'
    BY <2>4, Zenon DEF CloseChannel
  <2>5. ASSUME NEW t \in Threads, NotifyOne(t) PROVE NoLostWakeup'
    BY <2>5 DEF NotifyOne, TypeOK
  <2>6. CASE Run \/ SpuriousWake
    BY <2>6 DEF Run, Park, Swap, SendItem, Clear, SpuriousWake
  <2>7. CASE UNCHANGED vars
    BY <2>7, Zenon DEF vars
  <2> QED BY <2>1, <2>2, <2>3, <2>4, <2>5, <2>6, <2>7 DEF Next
<1> QED BY <1>1, <1>2, TypeCorrect, PTL DEF Spec

-----------------------------------------------------------------------------
LEMMA RangeAppend ==
    ASSUME NEW S, NEW s \in Seq(S), NEW e \in S
    PROVE  Range(Append(s, e)) = Range(s) \cup {e}
<1>1. /\ DOMAIN s = 1 .. Len(s) /\ Len(s) \in Nat
      /\ DOMAIN Append(s, e) = 1 .. Len(s) + 1
      /\ \A i \in 1 .. Len(s) : Append(s, e)[i] = s[i]
      /\ Append(s, e)[Len(s) + 1] = e
  OBVIOUS
<1> QED BY <1>1 DEF Range

LEMMA ItemChannels ==
    ASSUME NEW s \in Seq(Items), NEW x \in Range(s)
    PROVE  x.channel \in Channels
<1>1. PICK i \in DOMAIN s : x = s[i]
  BY DEF Range
<1>2. s[i] \in Items
  BY ElementOfSeq
<1> QED BY <1>1, <1>2, Zenon DEF Items

\* On a channel that is still open Run loses no message but those whose own send threw,
\* whatever else is in the batch.
THEOREM OpenChannelsKeep == Spec => []OpenChannelsLoseNothing
<1>1. Init => OpenChannelsLoseNothing
  BY DEF Init, OpenChannelsLoseNothing, Range
<1>2. TypeOK /\ OpenChannelsLoseNothing /\ [Next]_vars => OpenChannelsLoseNothing'
  <2> SUFFICES ASSUME TypeOK, OpenChannelsLoseNothing, [Next]_vars
               PROVE  OpenChannelsLoseNothing'
    OBVIOUS
  <2>1. CASE SendItem
    <3> DEFINE item == batch[next]
               entry == [n |-> item.n, binary |-> TRUE]
    <3>1. /\ item \in Items /\ item.channel \in Channels /\ entry \in OnWire
      <4>1. item \in Items
        BY <2>1, ElementInRange, Zenon DEF SendItem, TypeOK
      <4> QED BY <4>1, Zenon DEF Items, OnWire
    <3>2. /\ handled' = Append(handled, item) /\ isOpen' = isOpen
          /\ Reaches(item) \/ Throws(item) \/ PassedOver(item)
      BY <2>1, Zenon DEF SendItem
    <3>3. /\ wire' = wire \/ wire' = [wire EXCEPT ![item.channel] = Append(@, entry)]
          /\ failed \subseteq failed'
      BY <3>2, Zenon DEF Reaches, Throws, PassedOver
    <3> HIDE DEF item, entry
    <3>4. Range(handled') = Range(handled) \cup {item}
      BY <3>1, <3>2, RangeAppend DEF TypeOK
    <3>5. Range(Append(wire[item.channel], entry)) = Range(wire[item.channel]) \cup {entry}
      BY <3>1, RangeAppend DEF TypeOK
    <3>6. \A c \in Channels : Range(wire[c]) \subseteq Range(wire'[c])
      BY <3>1, <3>3, <3>5 DEF TypeOK
    <3>7. isOpen[item.channel] => item \in failed' \/ entry \in Range(wire'[item.channel])
      <4>1. CASE Reaches(item)
        <5>1. wire' = [wire EXCEPT ![item.channel] = Append(@, entry)]
          BY <4>1, Zenon DEF Reaches, entry
        <5> QED BY <3>1, <3>5, <5>1 DEF TypeOK
      <4>2. CASE Throws(item)
        BY <4>2 DEF Throws
      <4>3. CASE PassedOver(item)
        BY <4>3, Zenon DEF PassedOver
      <4> QED BY <3>2, <4>1, <4>2, <4>3, Zenon
    <3>8. SUFFICES ASSUME NEW x \in Range(handled'), x \notin failed', isOpen'[x.channel]
                   PROVE  [n |-> x.n, binary |-> TRUE] \in Range(wire'[x.channel])
      BY Zenon DEF OpenChannelsLoseNothing
    <3>9. CASE x = item
      BY <3>2, <3>7, <3>8, <3>9, Zenon DEF entry
    <3>10. CASE x \in Range(handled)
      <4>1. x.channel \in Channels
        BY <3>10, ItemChannels DEF TypeOK
      <4>2. x \in Range(handled) \ failed
        BY <3>3, <3>8, <3>10
      <4> QED BY <3>2, <3>6, <3>8, <4>1, <4>2, Zenon DEF OpenChannelsLoseNothing
    <3> QED BY <3>4, <3>8, <3>9, <3>10
  <2>2. ASSUME NEW c \in Channels, SendString(c) PROVE OpenChannelsLoseNothing'
    <3> DEFINE entry == [n |-> sends[c] + 1, binary |-> FALSE]
    <3>1. entry \in OnWire
      <4>1. sends[c] + 1 \in Numbers
        BY <2>2, Assumed DEF SendString, CanSend, Numbers, TypeOK
      <4> QED BY <4>1, Zenon DEF OnWire
    <3>2. /\ wire' = [wire EXCEPT ![c] = Append(@, entry)]
          /\ UNCHANGED <<isOpen, handled, failed>>
      BY <2>2, Zenon DEF SendString
    <3> HIDE DEF entry
    <3>3. Range(Append(wire[c], entry)) = Range(wire[c]) \cup {entry}
      BY <2>2, <3>1, RangeAppend DEF TypeOK
    <3>4. \A d \in Channels : Range(wire[d]) \subseteq Range(wire'[d])
      BY <2>2, <3>2, <3>3 DEF TypeOK
    <3>5. \A x \in Range(handled) : x.channel \in Channels
      BY ItemChannels DEF TypeOK
    <3> QED BY <3>2, <3>4, <3>5, Zenon DEF OpenChannelsLoseNothing
  <2>3. ASSUME NEW c \in Channels, CloseChannel(c) PROVE OpenChannelsLoseNothing'
    <3>1. UNCHANGED <<wire, handled, failed>> /\ isOpen' = [isOpen EXCEPT ![c] = FALSE]
      BY <2>3, Zenon DEF CloseChannel, history
    <3>2. \A d \in Channels : isOpen'[d] => isOpen[d]
      BY <3>1 DEF TypeOK
    <3>3. \A x \in Range(handled) : x.channel \in Channels
      BY ItemChannels DEF TypeOK
    <3> QED BY <3>1, <3>2, <3>3, Zenon DEF OpenChannelsLoseNothing
  <2>4. ASSUME NEW c \in Channels, SendBinary(c) \/ DropBinary(c)
        PROVE  OpenChannelsLoseNothing'
    BY <2>4, Zenon DEF SendBinary, DropBinary, OpenChannelsLoseNothing
  <2>5. ASSUME NEW t \in Threads, NotifyOne(t) PROVE OpenChannelsLoseNothing'
    BY <2>5, Zenon DEF NotifyOne, history, OpenChannelsLoseNothing
  <2>6. CASE Park \/ Swap \/ Clear \/ SpuriousWake \/ UNCHANGED vars
    BY <2>6, Zenon DEF Park, Swap, Clear, SpuriousWake, vars, history,
       OpenChannelsLoseNothing
  <2> QED BY <2>1, <2>2, <2>3, <2>4, <2>5, <2>6 DEF Next, Run
<1> QED BY <1>1, <1>2, TypeCorrect, PTL DEF Spec

-----------------------------------------------------------------------------
\* What the send thread has dealt with, still has in its batch and will find in
\* queue_ is what was accepted, in order.
Sending == worker = "sending"

Rest == IF Sending THEN Len(batch) + 1 - next ELSE 0

Counts ==
    /\ Sending => next <= Len(batch) + 1
    /\ ~Sending => batch = <<>>
    /\ Len(handled) + Rest + Len(queue) = Len(accepted)

Placed ==
    /\ \A i \in 1 .. Len(handled) : handled[i] = accepted[i]
    /\ Sending => \A i \in next .. Len(batch) :
                     batch[i] = accepted[Len(handled) + i + 1 - next]
    /\ \A i \in 1 .. Len(queue) : queue[i] = accepted[Len(handled) + Rest + i]

PathInv == Counts /\ Placed

LEMMA Lengths ==
    TypeOK => /\ queue \in Seq(Items) /\ Len(queue) \in Nat
              /\ batch \in Seq(Items) /\ Len(batch) \in Nat
              /\ handled \in Seq(Items) /\ Len(handled) \in Nat
              /\ accepted \in Seq(Items) /\ Len(accepted) \in Nat
              /\ next \in Nat /\ next >= 1
              /\ Len(<<>>) = 0
  BY DEF TypeOK

LEMMA PathInvStep ==
    ASSUME TypeOK, PathInv, [Next]_vars
    PROVE  PathInv'
<1> USE DEF PathInv
<1>1. ASSUME NEW c \in Channels, SendBinary(c) PROVE PathInv'
  <2> DEFINE item == [channel |-> c, n |-> sends[c] + 1]
  <2>1. item \in Items
    <3>1. sends[c] + 1 \in Numbers
      BY <1>1, Assumed DEF SendBinary, CanSend, Numbers, TypeOK
    <3> QED BY <3>1, Zenon DEF Items
  <2>2. /\ queue' = Append(queue, item) /\ accepted' = Append(accepted, item)
        /\ UNCHANGED <<batch, next, worker, handled>>
    BY <1>1, Zenon DEF SendBinary
  <2> HIDE DEF item
  <2>3. /\ Len(queue') = Len(queue) + 1 /\ queue'[Len(queue) + 1] = item
        /\ \A i \in 1 .. Len(queue) : queue'[i] = queue[i]
        /\ Len(accepted') = Len(accepted) + 1 /\ accepted'[Len(accepted) + 1] = item
        /\ \A i \in 1 .. Len(accepted) : accepted'[i] = accepted[i]
    BY <2>1, <2>2, Lengths, AppendProperties
  <2>4. Rest' = Rest /\ Rest \in Nat
    BY <2>2, Lengths DEF Rest, Sending, Counts
  <2>5. Counts'
    BY <2>2, <2>3, <2>4, Lengths DEF Counts, Sending
  <2>6. Placed'
    <3>1. \A i \in 1 .. Len(handled') : handled'[i] = accepted'[i]
      BY <2>2, <2>3, <2>4, Lengths DEF Counts, Placed
    <3>2. Sending' => \A i \in next' .. Len(batch') :
                         batch'[i] = accepted'[Len(handled') + i + 1 - next']
      <4> SUFFICES ASSUME Sending, NEW i \in next .. Len(batch)
                   PROVE  batch[i] = accepted'[Len(handled) + i + 1 - next]
        BY <2>2 DEF Sending
      <4>1. Len(handled) + i + 1 - next \in 1 .. Len(accepted)
        BY Lengths DEF Counts, Rest
      <4> QED BY <2>3, <4>1 DEF Placed
    <3>3. \A i \in 1 .. Len(queue') : queue'[i] = accepted'[Len(handled') + Rest' + i]
      <4> SUFFICES ASSUME NEW i \in 1 .. Len(queue) + 1
                   PROVE  queue'[i] = accepted'[Len(handled) + Rest + i]
        BY <2>2, <2>3, <2>4
      <4>1. CASE i \in 1 .. Len(queue)
        <5>1. Len(handled) + Rest + i \in 1 .. Len(accepted)
          BY <2>4, <4>1, Lengths DEF Counts
        <5> QED BY <2>3, <4>1, <5>1 DEF Placed
      <4>2. CASE i = Len(queue) + 1
        <5>1. Len(handled) + Rest + i = Len(accepted) + 1
          BY <2>4, <4>2, Lengths DEF Counts
        <5> QED BY <2>3, <4>2, <5>1
      <4> QED BY <4>1, <4>2, Lengths
    <3> QED BY <3>1, <3>2, <3>3, Zenon DEF Placed
  <2> QED BY <2>5, <2>6
<1>2. CASE Swap
  <2>1. /\ ~Sending /\ batch = <<>> /\ batch' = queue /\ queue' = <<>>
        /\ next' = 1 /\ Sending' /\ UNCHANGED <<handled, accepted>>
    BY <1>2 DEF Swap, history, Counts, Sending
  <2>2. Rest = 0 /\ Rest' = Len(queue) /\ Len(queue') = 0
    BY <2>1, Lengths DEF Rest
  <2>3. Counts'
    BY <2>1, <2>2, Lengths DEF Counts
  <2>4. Placed'
    BY <2>1, <2>2, Lengths DEF Placed
  <2> QED BY <2>3, <2>4
<1>3. CASE SendItem
  <2>1. /\ Sending /\ Sending' /\ next <= Len(batch) /\ next' = next + 1
        /\ handled' = Append(handled, batch[next])
        /\ UNCHANGED <<queue, batch, accepted>>
    BY <1>3, Zenon DEF SendItem, Sending
  <2>2. batch[next] \in Items
    BY <2>1, ElementInRange DEF TypeOK
  <2>3. /\ Len(handled') = Len(handled) + 1 /\ handled'[Len(handled) + 1] = batch[next]
        /\ \A i \in 1 .. Len(handled) : handled'[i] = handled[i]
    BY <2>1, <2>2, Lengths, AppendProperties
  <2>4. Rest \in Nat /\ Rest' = Rest - 1
    BY <2>1, Lengths DEF Rest
  <2>5. Counts'
    BY <2>1, <2>3, <2>4, Lengths DEF Counts
  <2>6. batch[next] = accepted[Len(handled) + 1]
    <3>1. /\ next \in next .. Len(batch)
          /\ Len(handled) + next + 1 - next = Len(handled) + 1
      BY <2>1, Lengths
    <3> QED BY <2>1, <3>1 DEF Placed
  <2>7. Placed'
    <3>1. \A i \in 1 .. Len(handled') : handled'[i] = accepted'[i]
      BY <2>1, <2>3, <2>6, Lengths DEF Placed
    <3>2. \A i \in next' .. Len(batch') :
             batch'[i] = accepted'[Len(handled') + i + 1 - next']
      <4> SUFFICES ASSUME NEW i \in next + 1 .. Len(batch)
                   PROVE  batch[i] = accepted[Len(handled) + 1 + i + 1 - (next + 1)]
        BY <2>1, <2>3
      <4>1. next \in Nat /\ Len(batch) \in Nat /\ Len(handled) \in Nat
        BY Lengths, Zenon
      <4> HIDE DEF PathInv
      <4>2. i \in next .. Len(batch)
        BY <4>1
      <4>3. Len(handled) + 1 + i + 1 - (next + 1) = Len(handled) + i + 1 - next
        BY <4>1, <4>2
      <4> QED BY <2>1, <4>2, <4>3 DEF PathInv, Placed
    <3>3. \A i \in 1 .. Len(queue') : queue'[i] = accepted'[Len(handled') + Rest' + i]
      <4>1. Len(handled') + Rest' = Len(handled) + Rest
        BY <2>3, <2>4, Lengths
      <4> QED BY <2>1, <4>1 DEF Placed
    <3> QED BY <3>1, <3>2, <3>3, Zenon DEF Placed
  <2> QED BY <2>5, <2>7
<1>4. CASE Clear
  <2>1. /\ Sending /\ ~Sending' /\ next > Len(batch) /\ batch' = <<>>
        /\ UNCHANGED <<queue, handled, accepted>>
    BY <1>4 DEF Clear, history, Sending
  <2>2. Rest = 0 /\ Rest' = 0
    BY <2>1, Lengths DEF Rest, Counts
  <2>3. Counts'
    BY <2>1, <2>2, Lengths DEF Counts
  <2>4. Placed'
    BY <2>1, <2>2, Lengths DEF Placed
  <2> QED BY <2>3, <2>4
<1>5. CASE \/ UNCHANGED vars
           \/ Park \/ SpuriousWake
           \/ \E c \in Channels : DropBinary(c) \/ SendString(c) \/ CloseChannel(c)
           \/ \E t \in Threads : NotifyOne(t)
  <2>1. UNCHANGED <<queue, batch, next, handled, accepted>> /\ (Sending' <=> Sending)
    BY <1>5 DEF vars, Park, SpuriousWake, DropBinary, SendString, CloseChannel,
       NotifyOne, history, Sending
  <2>2. Rest' = Rest
    BY <2>1 DEF Rest
  <2> QED BY <2>1, <2>2, Zenon DEF Counts, Placed
<1> QED BY <1>1, <1>2, <1>3, <1>4, <1>5 DEF Next, Run

\* SendBinary accepts, SendItem delivers, and no other step touches the path.
LEMMA PathStep ==
    ASSUME TypeOK, PathInv, PathInv', TypeOK', [Next]_vars
    PROVE  [Path!Next]_(Path!vars)
<1> DEFINE PathAccept == /\ \E m \in Items : accepted' = Append(accepted, m)
                         /\ handled' = handled
           PathDeliver == /\ \E k \in Len(handled) + 1 .. Len(accepted) :
                                handled' = SubSeq(accepted, 1, k)
                          /\ accepted' = accepted
           Same == accepted' = accepted /\ handled' = handled
<1> SUFFICES PathAccept \/ PathDeliver \/ Same
  BY Zenon DEF Path!Next, Path!vars, Path!Accept, Path!Deliver, Path!Shut
<1>1. ASSUME NEW c \in Channels, SendBinary(c) PROVE PathAccept
  <2>1. [channel |-> c, n |-> sends[c] + 1] \in Items
    <3>1. sends[c] + 1 \in Numbers
      BY <1>1, Assumed DEF SendBinary, CanSend, Numbers, TypeOK
    <3> QED BY <3>1, Zenon DEF Items
  <2> QED BY <1>1, <2>1, Zenon DEF SendBinary
<1>2. CASE SendItem
  <2> DEFINE k == Len(handled) + 1
  <2>1. /\ Sending /\ next <= Len(batch) /\ accepted' = accepted
        /\ handled' = Append(handled, batch[next])
    BY <1>2, Zenon DEF SendItem, Sending
  <2>2. /\ handled' \in Seq(Items) /\ Len(handled') = k
    <3>1. batch[next] \in Items
      BY <2>1, ElementInRange DEF TypeOK
    <3> QED BY <2>1, <3>1, Lengths, AppendProperties
  <2>3. k \in Len(handled) + 1 .. Len(accepted)
    BY <2>1, Lengths DEF PathInv, Counts, Rest
  <2>4. /\ SubSeq(accepted, 1, k) \in Seq(Items) /\ Len(SubSeq(accepted, 1, k)) = k
        /\ \A i \in 1 .. k : SubSeq(accepted, 1, k)[i] = accepted[i]
    <3>1. \A i \in 1 .. k : accepted[i] \in Items
      BY <2>3, Lengths, ElementOfSeq
    <3>2. k \in Int /\ 1 \in Int /\ 1 <= k /\ k - 1 + 1 = k
          /\ \A i \in 1 .. k : 1 + i - 1 = i
      BY Lengths
    <3>3. /\ SubSeq(accepted, 1, k) \in Seq(Items)
          /\ Len(SubSeq(accepted, 1, k)) = IF 1 <= k THEN k - 1 + 1 ELSE 0
          /\ \A i \in 1 .. k - 1 + 1 : SubSeq(accepted, 1, k)[i] = accepted[1 + i - 1]
      BY <3>1, <3>2, SubSeqProperties
    <3> QED BY <3>2, <3>3
  <2>5. \A i \in 1 .. Len(handled') : handled'[i] = SubSeq(accepted, 1, k)[i]
    BY <2>1, <2>2, <2>4 DEF PathInv, Placed
  <2>6. handled' = SubSeq(accepted, 1, k)
    BY <2>2, <2>4, <2>5, SeqEqual
  <2> QED BY <2>1, <2>3, <2>6, Zenon
<1>3. CASE \/ UNCHANGED vars
           \/ Park \/ Swap \/ Clear \/ SpuriousWake
           \/ \E c \in Channels : DropBinary(c) \/ SendString(c) \/ CloseChannel(c)
           \/ \E t \in Threads : NotifyOne(t)
  BY <1>3, Zenon DEF vars, Park, Swap, Clear, SpuriousWake, DropBinary, SendString,
     CloseChannel, NotifyOne, history
<1> QED BY <1>1, <1>2, <1>3, Zenon DEF Next, Run

\* The safety half of OrderedPath: for any number of threads and channels the queue,
\* the batch and the send thread are an ordered path that loses nothing it accepted.
THEOREM ImplementsPath == Spec => Path!Init /\ [][Path!Next]_(Path!vars)
<1>1. Init => Path!Init
  BY Zenon DEF Init, Path!Init
<1>2. Init => PathInv
  BY DEF Init, PathInv, Counts, Placed, Rest, Sending
<1>3. TypeOK /\ PathInv /\ [Next]_vars => PathInv'
  BY PathInvStep
<1>4. TypeOK /\ TypeOK' /\ PathInv /\ PathInv' /\ [Next]_vars =>
          [Path!Next]_(Path!vars)
  BY PathStep
<1> QED BY <1>1, <1>2, <1>3, <1>4, TypeCorrect, PTL DEF Spec
=============================================================================
