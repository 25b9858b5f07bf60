--------------------------- MODULE SendBufferProofs ---------------------------
(***************************************************************************)
(* Proofs about SendBuffer for any kinds and sizes of messages, any cap    *)
(* and any number of sends.                                                *)
(***************************************************************************)
EXTENDS SendBuffer, TLAPS

LEMMA Assumed == /\ MaxSends \in Nat
                 /\ Bytes \in [0 .. MaxSends -> Nat]
                 /\ \A m, n \in 0 .. MaxSends : m < n => Bytes[m] < Bytes[n]
  BY BufferAssumption DEF BufferAssumption

\* What the proofs need of the types of the counters.
Counters ==
    /\ bufferedAmount \in Nat
    /\ pendingDecrease \in Nat
    /\ Requested \in 0 .. MaxSends
    /\ settled \in 0 .. Requested

\* Everything handed over was requested, and is settled.
HandedSettled ==
    /\ handed \in Seq(Nat)
    /\ \A i \in DOMAIN handed : handed[i] <= settled

Inv == kinds \in Seq(Kinds) /\ Counters /\ AccountingExact
OrderInv == Inv /\ HandedSettled /\ HandedInOrder

LEMMA SizeNat == ASSUME NEW n \in 1 .. MaxSends
                 PROVE  /\ Size(n) \in Nat /\ Size(n) # 0
                        /\ Bytes[n] \in Nat /\ Bytes[n - 1] \in Nat
                        /\ Bytes[n] = Bytes[n - 1] + Size(n)
<1>1. n \in 0 .. MaxSends /\ n - 1 \in 0 .. MaxSends
  BY Assumed
<1>2. Bytes[n] \in Nat /\ Bytes[n - 1] \in Nat /\ Bytes[n - 1] < Bytes[n]
  BY <1>1, Assumed
<1> QED BY <1>2 DEF Size

LEMMA BoundNat == MaxSends \in Nat
  BY Assumed

LEMMA BytesNat == ASSUME NEW n \in 0 .. MaxSends PROVE Bytes[n] \in Nat
  BY Assumed

LEMMA Shifted ==
    ASSUME NEW p \in Nat, NEW r \in Nat, NEW d \in Nat, NEW z \in Nat
    PROVE  (p + z) + r - (d + z) = p + r - d
  OBVIOUS

LEMMA AppendKind ==
    ASSUME NEW K, NEW s \in Seq(K), NEW k \in K
    PROVE  Append(s, k) \in Seq(K) /\ Len(Append(s, k)) = Len(s) + 1
  OBVIOUS

-----------------------------------------------------------------------------
\* The counters stay consistent: one step per action that touches them.
LEMMA AccountingStep == Inv /\ [Next]_vars => Inv'
<1> SUFFICES ASSUME Inv, [Next]_vars PROVE Inv'
  OBVIOUS
<1>1. kinds \in Seq(Kinds) /\ Counters /\ AccountingExact
  BY DEF Inv
<1>2. Bytes[settled] \in Nat /\ Bytes[Requested] \in Nat
  BY <1>1, Assumed, BytesNat DEF Counters
<1>3. ASSUME NEW kind \in Kinds, CanCallSend, kinds' = Append(kinds, kind)
      PROVE  /\ kinds' \in Seq(Kinds) /\ Requested' = Requested + 1
             /\ Requested' \in 1 .. MaxSends
             /\ Size(Requested + 1) \in Nat
             /\ Bytes[Requested'] = Bytes[Requested] + Size(Requested + 1)
  <2>1. kinds' \in Seq(Kinds) /\ Requested' = Requested + 1
    BY <1>1, <1>3, AppendKind DEF Requested
  <2>2. /\ Requested + 1 \in 1 .. MaxSends /\ (Requested + 1) - 1 = Requested
    BY <1>1, <1>3, BoundNat DEF CanCallSend, Counters
  <2>3. /\ Size(Requested + 1) \in Nat
        /\ Bytes[Requested + 1] = Bytes[Requested] + Size(Requested + 1)
    BY <2>2, SizeNat
  <2> QED BY <2>1, <2>2, <2>3, Zenon
<1>4. ASSUME NEW kind \in Kinds, SendNow(kind) PROVE Inv'
  <2>1. ~HasPendingSends /\ kinds' = Append(kinds, kind) /\ CanCallSend
    BY <1>4, Zenon DEF SendNow
  <2>2. /\ bufferedAmount' = bufferedAmount + Size(Requested + 1)
        /\ pendingDecrease' = pendingDecrease + Size(Requested + 1)
        /\ settled' = settled + 1
    BY <1>4, Zenon DEF SendNow, QueueDecrease
  <2>3. settled = Requested
    BY <1>1, <2>1, BoundNat DEF Counters, HasPendingSends
  <2>4. /\ kinds' \in Seq(Kinds) /\ Requested' = Requested + 1
        /\ Requested' \in 1 .. MaxSends
        /\ Size(Requested + 1) \in Nat
        /\ Bytes[Requested'] = Bytes[Requested] + Size(Requested + 1)
    BY <1>3, <2>1, Zenon
  <2>5. Counters'
    BY <1>1, <2>2, <2>3, <2>4, BoundNat, SMT DEF Counters
  <2>6. bufferedAmount = pendingDecrease
    BY <1>1, <1>2, <2>3, SMT DEF Counters, AccountingExact
  <2>7. Bytes[settled'] = Bytes[Requested'] /\ bufferedAmount' = pendingDecrease'
    BY <2>2, <2>3, <2>4, <2>6, Zenon
  <2>8. bufferedAmount' \in Nat /\ Bytes[Requested'] \in Nat
    BY <2>5, <2>4, <1>2, SMT DEF Counters
  <2>9. AccountingExact'
    BY <2>7, <2>8, SMT DEF AccountingExact
  <2> QED BY <2>4, <2>5, <2>9, Zenon DEF Inv
<1>5. ASSUME NEW kind \in Kinds, SendLater(kind) PROVE Inv'
  <2>1. /\ kinds' = Append(kinds, kind) /\ CanCallSend
        /\ bufferedAmount' = bufferedAmount + Size(Requested + 1)
        /\ pendingDecrease' = pendingDecrease /\ settled' = settled
    BY <1>5, Zenon DEF SendLater
  <2>2. /\ kinds' \in Seq(Kinds) /\ Requested' = Requested + 1
        /\ Requested' \in 1 .. MaxSends
        /\ Size(Requested + 1) \in Nat
        /\ Bytes[Requested'] = Bytes[Requested] + Size(Requested + 1)
    BY <1>3, <2>1, Zenon
  <2>3. Counters'
    BY <1>1, <2>1, <2>2, BoundNat, SMT DEF Counters
  <2>4. Bytes[settled'] = Bytes[settled]
    BY <2>1, Zenon
  <2>5. AccountingExact'
    BY <1>1, <1>2, <2>1, <2>2, <2>4, SMT DEF Counters, AccountingExact
  <2> QED BY <2>2, <2>3, <2>5, Zenon DEF Inv
<1>6. ASSUME HasPendingSends, Settle, UNCHANGED <<bufferedAmount, kinds>>
      PROVE  Inv'
  <2>1. /\ settled' = settled + 1 /\ Requested' = Requested /\ kinds' = kinds
        /\ pendingDecrease' = pendingDecrease + Size(settled + 1)
        /\ bufferedAmount' = bufferedAmount
    BY <1>6, Zenon DEF Settle, QueueDecrease, Requested
  <2>2. /\ settled + 1 \in 1 .. MaxSends /\ settled + 1 <= Requested
        /\ (settled + 1) - 1 = settled
    BY <1>1, <1>6, BoundNat DEF HasPendingSends, Counters
  <2>3. /\ Size(settled + 1) \in Nat /\ Bytes[settled + 1] \in Nat
        /\ Bytes[settled + 1] = Bytes[settled] + Size(settled + 1)
    BY <2>2, SizeNat
  <2>4. Counters'
    BY <1>1, <2>1, <2>2, <2>3, BoundNat, SMT DEF Counters
  <2>5. /\ Bytes[settled'] = Bytes[settled] + Size(settled + 1)
        /\ Bytes[Requested'] = Bytes[Requested]
    BY <2>1, <2>3, Zenon
  <2>6. AccountingExact'
    <3>1. bufferedAmount = pendingDecrease + Bytes[Requested] - Bytes[settled]
      BY <1>1, Zenon DEF AccountingExact
    <3>2. (pendingDecrease + Size(settled + 1)) + Bytes[Requested]
             - (Bytes[settled] + Size(settled + 1))
           = pendingDecrease + Bytes[Requested] - Bytes[settled]
      BY <1>1, <1>2, <2>3, Shifted DEF Counters
    <3> QED
      BY <2>1, <2>5, <3>1, <3>2, Zenon DEF AccountingExact
  <2> QED BY <1>1, <2>1, <2>4, <2>6, Zenon DEF Inv
<1>7. ASSUME UNCHANGED <<bufferedAmount, pendingDecrease, kinds, settled>>
      PROVE  Inv'
  BY <1>1, <1>7, Zenon DEF Inv, Counters, AccountingExact, Requested
<1>8. CASE SendTail
  <2>1. CASE TailReady \/ TailRead
    BY <1>7, <2>1, Zenon DEF TailReady, TailRead
  <2>2. CASE TailSend
    BY <1>6, <2>2, Zenon DEF TailSend, Pending
  <2>3. CASE TailFail
    BY <1>6, <2>3, Zenon DEF TailFail, Pending
  <2> QED BY <1>8, <2>1, <2>2, <2>3, Zenon DEF SendTail
<1>9. CASE FlushDecrease
  <2>1. /\ pendingDecrease' = 0
        /\ bufferedAmount' = IF pendingDecrease > bufferedAmount THEN 0
                             ELSE bufferedAmount - pendingDecrease
        /\ kinds' = kinds /\ settled' = settled /\ Requested' = Requested
    BY <1>9, Zenon DEF FlushDecrease, FlushUnchanged, Requested
  <2>2. Bytes[settled] <= Bytes[Requested]
    <3>1. settled \in 0 .. MaxSends /\ Requested \in 0 .. MaxSends
      BY <1>1, BoundNat DEF Counters
    <3>2. settled = Requested \/ settled < Requested
      BY <1>1, BoundNat DEF Counters
    <3> QED BY <1>2, <3>1, <3>2, Assumed
  <2>3. /\ Bytes[settled'] = Bytes[settled]
        /\ Bytes[Requested'] = Bytes[Requested]
    BY <2>1, Zenon
  <2>4. Counters' /\ AccountingExact'
    BY <1>1, <1>2, <2>1, <2>2, <2>3, SMT DEF Counters, AccountingExact
  <2> QED BY <1>1, <2>1, <2>4, Zenon DEF Inv
<1>10. CASE Close
  BY <1>7, <1>10, Zenon DEF Close
<1>11. CASE LocalClose
  BY <1>7, <1>11, Zenon
     DEF LocalClose, TailDone, Drained, DrainTimeout, CloseNative,
         FinishClose, CloseStep
<1>12. CASE UNCHANGED jsVars
  BY <1>7, <1>12, Zenon DEF jsVars
<1>13. CASE NativeCloses \/ RemoteCloses \/ SendThread \/ Notify \/ SctpSends
  BY <1>12, <1>13, Zenon
     DEF NativeCloses, RemoteCloses, SendThread, Notify, SctpSends
<1>14. CASE UNCHANGED vars
  BY <1>12, <1>14, Zenon DEF vars
<1> QED
  BY <1>4, <1>5, <1>8, <1>9, <1>10, <1>11, <1>13, <1>14, Zenon DEF Next

(***************************************************************************)
(* bufferedAmount is exactly the size of the send tail and of the pending  *)
(* decreases, through sends, errors, drains and both ways of closing.      *)
(***************************************************************************)
THEOREM Accounting == Spec => []AccountingExact
<1>1. Init => Inv
  BY Assumed DEF Init, Inv, Counters, AccountingExact, Requested
<1>2. Inv /\ [Next]_vars => Inv'
  BY AccountingStep
<1>3. Inv => AccountingExact
  BY DEF Inv
<1> QED BY <1>1, <1>2, <1>3, PTL DEF Spec

-----------------------------------------------------------------------------
\* A step that hands over the next unsettled call keeps the order.
LEMMA HandNext ==
    ASSUME OrderInv, Inv', settled' = settled + 1,
           handed' = Append(handed, settled + 1)
    PROVE  HandedSettled' /\ HandedInOrder'
<1>1. settled \in Nat
  BY BoundNat DEF OrderInv, Inv, Counters
<1>2. handed \in Seq(Nat) /\ \A i \in DOMAIN handed : handed[i] <= settled
  BY DEF OrderInv, HandedSettled
<1>3. handed' \in Seq(Nat) /\ DOMAIN handed' = 1 .. Len(handed) + 1
      /\ DOMAIN handed = 1 .. Len(handed) /\ Len(handed) \in Nat
      /\ \A i \in DOMAIN handed : handed'[i] = handed[i] /\ handed[i] \in Nat
      /\ handed'[Len(handed) + 1] = settled + 1
  BY <1>1, <1>2
<1>4. HandedSettled'
  BY <1>1, <1>2, <1>3 DEF HandedSettled
<1>5. ASSUME NEW i \in DOMAIN handed', NEW j \in DOMAIN handed', i < j
      PROVE  handed'[i] < handed'[j]
  <2>1. i \in DOMAIN handed
    BY <1>3, <1>5
  <2>2. CASE j \in DOMAIN handed
    BY <1>3, <1>5, <2>1, <2>2 DEF OrderInv, HandedInOrder
  <2>3. CASE j = Len(handed) + 1
    BY <1>1, <1>2, <1>3, <2>1, <2>3
  <2> QED BY <1>3, <2>2, <2>3
<1> QED BY <1>4, <1>5 DEF HandedInOrder

(***************************************************************************)
(* Messages are handed to the native channel in the order of the calls of  *)
(* send, whichever of them had to wait and whichever failed.               *)
(***************************************************************************)
THEOREM OrderKept == Spec => []HandedInOrder
<1>1. Init => OrderInv
  <2>1. Init => Inv
    BY Assumed DEF Init, Inv, Counters, AccountingExact, Requested
  <2>2. Init => HandedSettled /\ HandedInOrder
    BY DEF Init, HandedSettled, HandedInOrder
  <2> QED BY <2>1, <2>2 DEF OrderInv
<1>2. OrderInv /\ [Next]_vars => OrderInv'
  <2> SUFFICES ASSUME OrderInv, [Next]_vars PROVE HandedSettled' /\ HandedInOrder'
    BY AccountingStep DEF OrderInv
  <2>1. Inv'
    BY AccountingStep DEF OrderInv
  <2>2. ASSUME handed' = handed, settled' = settled \/ settled' = settled + 1
        PROVE  HandedSettled' /\ HandedInOrder'
    <3>1. settled \in Nat /\ handed \in Seq(Nat)
          /\ \A i \in DOMAIN handed : handed[i] <= settled
      BY BoundNat DEF OrderInv, Inv, Counters, HandedSettled
    <3>2. \A i \in DOMAIN handed : handed[i] \in Nat
      BY <3>1
    <3> QED
      BY <2>2, <3>1, <3>2 DEF OrderInv, HandedSettled, HandedInOrder
  <2>3. ASSUME NEW kind \in Kinds, SendNow(kind)
        PROVE  HandedSettled' /\ HandedInOrder'
    <3>1. ~HasPendingSends /\ handed' = Append(handed, Requested + 1)
          /\ settled' = settled + 1
      BY <2>3, Zenon DEF SendNow, SendNative
    <3>2. Requested = settled
      BY <3>1, BoundNat DEF OrderInv, Inv, Counters, HasPendingSends
    <3> QED BY <2>1, <3>1, <3>2, HandNext
  <2>4. CASE TailSend
    BY <2>1, <2>4, HandNext DEF TailSend, SendNative, Settle
  <2>5. CASE TailFail
    BY <2>2, <2>5, Zenon DEF TailFail, Settle
  <2>6. CASE UNCHANGED <<handed, settled>>
    BY <2>2, <2>6, Zenon
  <2>7. CASE (\E kind \in Kinds : SendLater(kind)) \/ Close \/ TailReady \/ TailRead
             \/ FlushDecrease \/ LocalClose
    BY <2>6, <2>7, Zenon
       DEF SendLater, Close, TailReady, TailRead, FlushDecrease, FlushUnchanged,
           LocalClose, TailDone, Drained, DrainTimeout, CloseNative,
           FinishClose, CloseStep
  <2>8. CASE NativeCloses \/ RemoteCloses \/ SendThread \/ Notify \/ SctpSends
             \/ UNCHANGED vars
    BY <2>6, <2>8, Zenon
       DEF NativeCloses, RemoteCloses, SendThread, Notify, SctpSends, vars,
           jsVars
  <2> QED
    BY <2>3, <2>4, <2>5, <2>7, <2>8, Zenon DEF Next, SendTail
<1>3. OrderInv => HandedInOrder
  BY DEF OrderInv
<1> QED BY <1>1, <1>2, <1>3, PTL DEF Spec

-----------------------------------------------------------------------------
\* Every step of a channel is a step of the send queue or leaves it alone.
LEMMA SenderStep == [Next]_vars => [S!Next]_(S!vars)
<1> SUFFICES ASSUME [Next]_vars PROVE S!Next \/ UNCHANGED S!vars
  OBVIOUS
<1>1. Channel \in Channels /\ "javascript" \in Threads
  BY DEF Channel, Channels, Threads
<1>2. CASE UNCHANGED senderVars
  BY <1>2, Zenon DEF senderVars, S!vars, S!history
<1>3. ASSUME NEW n, NEW kind, SendNative(n, kind) PROVE S!Next
  BY <1>1, <1>3, Zenon DEF SendNative, S!Next
<1>4. CASE (\E kind \in Kinds : SendNow(kind)) \/ TailSend
  BY <1>3, <1>4, Zenon DEF SendNow, TailSend
<1>5. CASE NativeCloses \/ RemoteCloses \/ SendThread \/ Notify
  BY <1>1, <1>5, Zenon
     DEF NativeCloses, RemoteCloses, SendThread, Notify, S!Next
<1>6. CASE (\E kind \in Kinds : SendLater(kind)) \/ Close \/ TailReady \/ TailRead
           \/ TailFail \/ FlushDecrease \/ LocalClose \/ SctpSends
           \/ UNCHANGED vars
  BY <1>2, <1>6, Zenon
     DEF SendLater, Close, TailReady, TailRead, TailFail, FlushDecrease,
         FlushUnchanged, LocalClose, TailDone, Drained, DrainTimeout,
         CloseNative, FinishClose, CloseStep, SctpSends, vars
<1> QED
  BY <1>4, <1>5, <1>6, Zenon DEF Next, SendTail

(***************************************************************************)
(* What a channel does to the send queue is what AsyncSender allows: each  *)
(* of its steps is a step of AsyncSender or leaves it alone.               *)
(***************************************************************************)
THEOREM SenderStepsOnly == Spec => S!Init /\ [][S!Next]_(S!vars)
<1>1. Init => S!Init
  BY DEF Init
<1> QED BY <1>1, SenderStep, PTL DEF Spec

\* So what AsyncSenderProofs proves of a step of the queue holds here.
Sender == INSTANCE AsyncSenderProofs WITH MaxFailures <- MaxSends

LEMMA SenderAssumed == /\ ThreadOf \in [Channels -> Threads]
                       /\ MaxQueue \in Nat \ {0}
                       /\ MaxSends \in Nat
  BY BufferAssumption DEF BufferAssumption, ThreadOf, Channels, Threads

\* S and Sender are two names of the same formulas.
LEMMA SameTypes == (S!TypeOK <=> Sender!TypeOK) /\ (S!TypeOK' <=> Sender!TypeOK')
  BY Zenon DEF S!TypeOK, Sender!TypeOK, S!Items, Sender!Items, S!Numbers,
     Sender!Numbers, S!OnWire, Sender!OnWire

LEMMA SameStep == [S!Next]_(S!vars) => [Sender!Next]_(Sender!vars)
<1>1. (S!vars = Sender!vars) /\ (S!vars' = Sender!vars')
  BY DEF S!vars, Sender!vars, S!history, Sender!history
<1>2. S!Next => Sender!Next
  BY Zenon
     DEF S!Next, Sender!Next, S!SendBinary, Sender!SendBinary, S!DropBinary,
         Sender!DropBinary, S!SendString, Sender!SendString, S!CloseChannel,
         Sender!CloseChannel, S!NotifyOne, Sender!NotifyOne, S!Run, Sender!Run,
         S!Park, Sender!Park, S!Swap, Sender!Swap, S!SendItem, Sender!SendItem,
         S!Reaches, Sender!Reaches, S!Throws, Sender!Throws, S!PassedOver,
         Sender!PassedOver,
         S!Clear, Sender!Clear, S!SpuriousWake, Sender!SpuriousWake, S!CanSend,
         Sender!CanSend, S!Counted, Sender!Counted, S!history, Sender!history,
         S!Cardinality, Sender!Cardinality
<1> QED BY <1>1, <1>2

LEMMA SenderTypes == /\ Init => S!TypeOK
                     /\ S!TypeOK /\ [Next]_vars => S!TypeOK'
<1>1. Init => Sender!Init
  BY Zenon DEF Init, S!Init, Sender!Init
<1>2. Sender!Init => Sender!TypeOK
  BY Sender!TypeInit, SenderAssumed
<1>3. Sender!TypeOK /\ [Sender!Next]_(Sender!vars) => Sender!TypeOK'
  BY Sender!TypeStep, SenderAssumed
<1> QED BY <1>1, <1>2, <1>3, SenderStep, SameStep, SameTypes, Zenon

-----------------------------------------------------------------------------
\* The wire only grows, and the send queue's thread alone adds binary messages.
WireKept == wire'[Channel] = wire[Channel]
WireGrows == Len(wire'[Channel]) = Len(wire[Channel]) + 1

LEMMA WireLength == S!TypeOK => /\ wire[Channel] \in Seq(S!OnWire)
                                /\ Len(wire[Channel]) \in Nat
<1>1. S!TypeOK => wire[Channel] \in Seq(S!OnWire)
  BY Zenon DEF S!TypeOK, Channel, Channels
<1> QED BY <1>1

LEMMA WireAppend ==
    ASSUME S!TypeOK, NEW c \in Channels, NEW e,
           wire' = [wire EXCEPT ![c] = Append(@, e)]
    PROVE  WireGrows
<1>1. c = Channel /\ wire'[Channel] = Append(wire[Channel], e)
  BY Zenon DEF S!TypeOK, Channel, Channels
<1>2. wire[Channel] \in Seq(S!OnWire)
  BY WireLength
<1>3. ASSUME NEW T, NEW s \in Seq(T) PROVE Len(Append(s, e)) = Len(s) + 1
  OBVIOUS
<1> QED BY <1>1, <1>2, <1>3, Zenon DEF WireGrows

LEMMA SenderWire ==
    ASSUME S!TypeOK, S!Run \/ S!SpuriousWake
    PROVE  /\ WireKept \/ WireGrows
           /\ queue = <<>> /\ batch = <<>> =>
                  queue' = <<>> /\ batch' = <<>> /\ WireKept
<1>1. CASE S!Park \/ S!Clear \/ S!SpuriousWake
  BY <1>1, Zenon DEF S!Park, S!Clear, S!SpuriousWake, S!history, WireKept
<1>2. CASE S!Swap
  BY <1>2, Zenon DEF S!Swap, WireKept
<1>3. CASE S!SendItem
  <2>1. next \in Nat \ {0} /\ next <= Len(batch)
    BY <1>3, Zenon DEF S!SendItem, S!TypeOK
  <2>2. batch # <<>>
    BY <2>1
  <2>3. batch[next].channel \in Channels
    <3>1. ASSUME NEW T, NEW s \in Seq(T), NEW i \in Nat \ {0}, i <= Len(s)
          PROVE  s[i] \in T
      BY <3>1
    <3>2. batch[next] \in S!Items
      BY <2>1, <3>1, Zenon DEF S!TypeOK
    <3> QED BY <3>2, Zenon DEF S!Items
  <2>4. WireKept \/ WireGrows
    <3>1. CASE S!Reaches(batch[next])
      BY <2>3, <3>1, WireAppend, Zenon DEF S!Reaches
    <3>2. CASE S!Throws(batch[next]) \/ S!PassedOver(batch[next])
      BY <3>2, Zenon DEF S!Throws, S!PassedOver, WireKept
    <3> QED BY <1>3, <3>1, <3>2, Zenon DEF S!SendItem
  <2> QED BY <2>2, <2>4, Zenon
<1> QED BY <1>1, <1>2, <1>3, Zenon DEF S!Run

\* A call handed over: a string goes to the wire, anything else to the queue.
LEMMA HandedWire ==
    ASSUME S!TypeOK, NEW n, NEW kind, SendNative(n, kind)
    PROVE  /\ WireKept \/ WireGrows
           /\ kind = "string" => queue' = queue /\ batch' = batch /\ WireGrows
           /\ handed' = Append(handed, n)
<1>1. Channel \in Channels
  BY DEF Channel, Channels
<1>2. CASE kind = "string" /\ S!SendString(Channel)
  <2>1. WireGrows
    BY <1>1, <1>2, WireAppend, Zenon DEF S!SendString
  <2> QED BY <1>2, <2>1, Zenon DEF S!SendString, SendNative
<1>3. CASE kind # "string" /\ (S!SendBinary(Channel) \/ S!DropBinary(Channel))
  BY <1>3, Zenon DEF S!SendBinary, S!DropBinary, WireKept, SendNative
<1> QED BY <1>2, <1>3, Zenon DEF SendNative

LEMMA WireStep ==
    ASSUME S!TypeOK, [Next]_vars
    PROVE  WireKept \/ WireGrows
<1>1. ASSUME NEW kind \in Kinds, SendNow(kind) PROVE WireKept \/ WireGrows
  BY <1>1, HandedWire, Zenon DEF SendNow
<1>2. CASE TailSend
  BY <1>2, HandedWire, Zenon DEF TailSend
<1>3. CASE SendThread
  BY <1>3, SenderWire, Zenon DEF SendThread
<1>4. CASE NativeCloses \/ RemoteCloses \/ Notify
  BY <1>4, Zenon
     DEF NativeCloses, RemoteCloses, Notify, S!CloseChannel, S!NotifyOne,
         S!history, WireKept
<1>5. CASE (\E kind \in Kinds : SendLater(kind)) \/ Close \/ TailReady \/ TailRead
           \/ TailFail \/ FlushDecrease \/ LocalClose \/ SctpSends
           \/ UNCHANGED vars
  BY <1>5, Zenon
     DEF SendLater, Close, TailReady, TailRead, TailFail, FlushDecrease,
         FlushUnchanged, LocalClose, TailDone, Drained, DrainTimeout,
         CloseNative, FinishClose, CloseStep, SctpSends, vars, senderVars,
         WireKept
<1> QED BY <1>1, <1>2, <1>3, <1>4, <1>5, Zenon DEF Next, SendTail

-----------------------------------------------------------------------------
\* The parts of TypeOK that the counters and the send queue do not cover.
Stages ==
    /\ readyState \in {"open", "closing", "closed"}
    /\ decreaseScheduled \in BOOLEAN
    /\ tailStep \in {"ready", "accept", "reading"}
    /\ closeStage \in {"none", "tail", "poll", "close", "native"}
    /\ drain \in {"no", "drained", "timeout"}

LeftOnWire == left \in 0 .. Len(wire[Channel])

HandedRequested == handed \in Seq(1 .. Requested)

LEMMA StagesStep == Stages /\ [Next]_vars => Stages'
<1> SUFFICES ASSUME Stages, [Next]_vars PROVE Stages'
  OBVIOUS
<1> USE DEF Stages
<1>1. ASSUME NEW kind \in Kinds, SendNow(kind) \/ SendLater(kind) PROVE Stages'
  BY <1>1, Zenon DEF SendNow, SendLater, QueueDecrease
<1>2. CASE Close
  BY <1>2, Zenon DEF Close
<1>3. CASE SendTail
  BY <1>3, Zenon DEF SendTail, TailReady, TailRead, TailSend, TailFail, Settle, QueueDecrease
<1>4. CASE FlushDecrease
  BY <1>4, Zenon DEF FlushDecrease, FlushUnchanged
<1>5. CASE LocalClose
  BY <1>5, Zenon DEF LocalClose, TailDone, Drained, DrainTimeout, CloseNative,
     FinishClose, CloseStep
<1>6. CASE NativeCloses \/ RemoteCloses \/ SendThread \/ Notify \/ SctpSends
           \/ UNCHANGED vars
  BY <1>6, Zenon
     DEF NativeCloses, RemoteCloses, SendThread, Notify, SctpSends, vars, jsVars
<1> QED BY <1>1, <1>2, <1>3, <1>4, <1>5, <1>6, Zenon DEF Next

LEMMA LeftKept == ASSUME [Next]_vars PROVE left' = left \/ SctpSends
  BY Zenon
     DEF Next, SendNow, SendLater, Close, SendTail, TailReady, TailRead, TailSend, TailFail,
         FlushDecrease, FlushUnchanged, LocalClose, TailDone, Drained,
         DrainTimeout, CloseNative, FinishClose, CloseStep, NativeCloses,
         RemoteCloses, SendThread, Notify, vars

LEMMA LeftStep ==
    ASSUME S!TypeOK, LeftOnWire, [Next]_vars PROVE LeftOnWire'
<1>1. Len(wire[Channel]) \in Nat
  BY WireLength
<1>2. CASE SctpSends
  <2>1. wire' = wire /\ left < Len(wire[Channel]) /\ left' = left + 1
    BY <1>2, Zenon DEF SctpSends, senderVars
  <2> QED BY <1>1, <2>1 DEF LeftOnWire
<1>3. CASE left' = left
  <2>1. CASE WireKept
    BY <1>3, <2>1, Zenon DEF WireKept, LeftOnWire
  <2>2. CASE WireGrows
    BY <1>1, <1>3, <2>2 DEF WireGrows, LeftOnWire
  <2> QED BY <2>1, <2>2, WireStep
<1> QED BY <1>2, <1>3, LeftKept, Zenon

\* Only the calls of send, settled or not, are handed over.
LEMMA HandedStep ==
    ASSUME Inv, S!TypeOK, HandedRequested, [Next]_vars PROVE HandedRequested'
<1>1. /\ kinds \in Seq(Kinds) /\ Requested \in 0 .. MaxSends /\ settled \in 0 .. Requested
      /\ MaxSends \in Nat
  BY BoundNat, Zenon DEF Inv, Counters
<1>2. ASSUME NEW n \in 1 .. Requested', handed' = Append(handed, n),
             Requested' = Requested \/ Requested' = Requested + 1
      PROVE  HandedRequested'
  <2>1. Requested \in Nat /\ Requested' \in Nat /\ 1 .. Requested \subseteq 1 .. Requested'
    BY <1>1, <1>2
  <2>2. ASSUME NEW A, NEW B, A \subseteq B, NEW s \in Seq(A), NEW e \in B
        PROVE  Append(s, e) \in Seq(B)
    BY <2>2
  <2> QED BY <1>2, <2>1, <2>2, Zenon DEF HandedRequested
<1>3. ASSUME handed' = handed, Requested' = Requested \/ Requested' = Requested + 1
      PROVE  HandedRequested'
  <2>1. 1 .. Requested \subseteq 1 .. Requested'
    BY <1>1, <1>3
  <2>2. ASSUME NEW A, NEW B, A \subseteq B, NEW s \in Seq(A)
        PROVE  s \in Seq(B)
    BY <2>2
  <2> QED BY <1>3, <2>1, <2>2, Zenon DEF HandedRequested
<1>4. ASSUME NEW kind \in Kinds, kinds' = Append(kinds, kind)
      PROVE  Requested' = Requested + 1
  BY <1>1, <1>4, AppendKind DEF Requested
<1>5. ASSUME NEW kind \in Kinds, SendNow(kind) PROVE HandedRequested'
  <2>1. Requested' = Requested + 1 /\ handed' = Append(handed, Requested + 1)
    BY <1>4, <1>5, Zenon DEF SendNow, SendNative
  <2>2. Requested + 1 \in 1 .. Requested'
    BY <1>1, <2>1
  <2> QED BY <1>2, <2>1, <2>2, Zenon
<1>6. ASSUME NEW kind \in Kinds, SendLater(kind) PROVE HandedRequested'
  BY <1>3, <1>4, <1>6, Zenon DEF SendLater
<1>7. CASE TailSend
  <2>1. HasPendingSends /\ handed' = Append(handed, settled + 1) /\ kinds' = kinds
    BY <1>7, Zenon DEF TailSend, Pending, SendNative
  <2>2. Requested' = Requested
    BY <2>1, Zenon DEF Requested
  <2>3. settled + 1 \in 1 .. Requested'
    BY <1>1, <2>1, <2>2 DEF HasPendingSends
  <2> QED BY <1>2, <2>1, <2>2, <2>3, Zenon
<1>8. ASSUME UNCHANGED <<handed, kinds>> PROVE HandedRequested'
  BY <1>3, <1>8, Zenon DEF Requested
<1>9. CASE Close \/ TailReady \/ TailRead \/ TailFail \/ FlushDecrease \/ LocalClose
  BY <1>8, <1>9, Zenon
     DEF Close, TailReady, TailRead, TailFail, FlushDecrease, FlushUnchanged, LocalClose,
         TailDone, Drained, DrainTimeout, CloseNative, FinishClose, CloseStep
<1>10. CASE NativeCloses \/ RemoteCloses \/ SendThread \/ Notify \/ SctpSends
           \/ UNCHANGED vars
  BY <1>8, <1>10, Zenon
     DEF NativeCloses, RemoteCloses, SendThread, Notify, SctpSends, vars, jsVars
<1> QED BY <1>5, <1>6, <1>7, <1>9, <1>10, Zenon DEF Next, SendTail

TypeInv == Inv /\ S!TypeOK /\ Stages /\ LeftOnWire /\ HandedRequested

LEMMA TypeInvInit == Init => TypeInv
<1> SUFFICES ASSUME Init PROVE TypeInv
  OBVIOUS
<1>1. Inv
  BY Assumed DEF Init, Inv, Counters, AccountingExact, Requested
<1>2. S!TypeOK
  BY SenderTypes
<1>3. Stages
  BY DEF Init, Stages
<1>4. LeftOnWire
  BY <1>2, WireLength DEF Init, LeftOnWire
<1>5. HandedRequested
  BY DEF Init, HandedRequested
<1> QED BY <1>1, <1>2, <1>3, <1>4, <1>5, Zenon DEF TypeInv

LEMMA TypeInvStep == TypeInv /\ [Next]_vars => TypeInv'
  BY AccountingStep, SenderTypes, StagesStep, LeftStep, HandedStep, Zenon DEF TypeInv

\* Every variable keeps its type: what has left the wire was on it, and what is
\* handed over was asked for, for any kinds and sizes of messages.
THEOREM TypeCorrect == Spec => []TypeOK
<1>1. TypeInv => TypeOK
  BY BoundNat DEF TypeInv, Inv, Counters, Stages, LeftOnWire, HandedRequested, TypeOK
<1> QED BY <1>1, TypeInvInit, TypeInvStep, PTL DEF Spec

-----------------------------------------------------------------------------
(***************************************************************************)
(* Why close truncates nothing when all messages are strings: the send     *)
(* thread has no work, what is on the wire of an open channel is in the    *)
(* pending decrease, so bufferedAmount is positive; and from the poll on   *)
(* no call of send is left to reach the wire.                              *)
(***************************************************************************)
ThreadIdle == queue = <<>> /\ batch = <<>>
ClosingNotOpen == closeStage # "none" => readyState # "open"
TailEmpty == closeStage \in {"poll", "close", "native"} => ~HasPendingSends
WireEmpty ==
    closeStage \in {"close", "native"} /\ drain # "timeout" => NativeBuffered = 0
WireCounted ==
    readyState = "open" /\ NativeBuffered # 0 => pendingDecrease # 0

Truncation ==
    OnlyStrings =>
        ThreadIdle /\ ClosingNotOpen /\ TailEmpty /\ WireEmpty /\ WireCounted

LEMMA StringsBefore ==
    ASSUME TypeInv, [Next]_vars, OnlyStrings' PROVE OnlyStrings
<1>1. kinds \in Seq(Kinds)
  BY Zenon DEF TypeInv, Inv
<1>2. ASSUME NEW kind \in Kinds, kinds' = Append(kinds, kind) PROVE OnlyStrings
  <2>1. DOMAIN kinds \subseteq DOMAIN kinds' /\ \A i \in DOMAIN kinds : kinds'[i] = kinds[i]
    BY <1>1, <1>2
  <2> QED BY <2>1, Zenon DEF OnlyStrings
<1>3. CASE kinds' = kinds
  BY <1>3, Zenon DEF OnlyStrings
<1>4. kinds' = kinds \/ \E kind \in Kinds : kinds' = Append(kinds, kind)
  BY Zenon
     DEF Next, SendNow, SendLater, Close, SendTail, TailReady, TailRead, TailSend, TailFail,
         FlushDecrease, FlushUnchanged, LocalClose, TailDone, Drained,
         DrainTimeout, CloseNative, FinishClose, CloseStep, NativeCloses,
         RemoteCloses, SendThread, Notify, SctpSends, vars, jsVars
<1> QED BY <1>2, <1>3, <1>4, Zenon

LEMMA TruncationStep ==
    ASSUME TypeInv, Truncation, [Next]_vars PROVE Truncation'
<1> SUFFICES ASSUME OnlyStrings'
             PROVE  (ThreadIdle /\ ClosingNotOpen /\ TailEmpty /\ WireEmpty /\ WireCounted)'
  BY Zenon DEF Truncation
<1>1. OnlyStrings /\ ThreadIdle /\ ClosingNotOpen /\ TailEmpty /\ WireEmpty /\ WireCounted
  BY StringsBefore, Zenon DEF Truncation
<1>2. /\ S!TypeOK /\ left \in 0 .. Len(wire[Channel]) /\ Len(wire[Channel]) \in Nat
      /\ Requested \in Nat /\ settled \in 0 .. Requested /\ MaxSends \in Nat
      /\ pendingDecrease \in Nat /\ bufferedAmount \in Nat /\ kinds \in Seq(Kinds)
      /\ Requested <= MaxSends
  BY WireLength, BoundNat DEF TypeInv, Inv, Counters, LeftOnWire
<1>3. ASSUME NEW kind \in Kinds, SendNow(kind)
      PROVE  (ThreadIdle /\ ClosingNotOpen /\ TailEmpty /\ WireEmpty /\ WireCounted)'
  <2>1. /\ readyState = "open" /\ closeStage' = closeStage /\ ~HasPendingSends
        /\ kinds' = Append(kinds, kind) /\ settled' = settled + 1
        /\ SendNative(Requested + 1, kind) /\ CanCallSend
        /\ pendingDecrease' = pendingDecrease + Size(Requested + 1)
    BY <1>3, Zenon DEF SendNow, CanCallSend, QueueDecrease
  <2>2. kind = "string"
    <3>1. Len(kinds) + 1 \in DOMAIN kinds' /\ kinds'[Len(kinds) + 1] = kind
      BY <1>2, <2>1
    <3> QED BY <3>1, Zenon DEF OnlyStrings
  <2>3. ThreadIdle'
    BY <1>1, <1>2, <2>1, <2>2, HandedWire, Zenon DEF ThreadIdle
  <2>4. closeStage' = "none"
    BY <1>1, <2>1, Zenon DEF ClosingNotOpen, TypeInv, Stages
  <2>5. pendingDecrease' # 0
    <3>1. Requested + 1 \in 1 .. MaxSends
      BY <1>2, <2>1 DEF CanCallSend
    <3>2. Size(Requested + 1) \in Nat /\ Size(Requested + 1) # 0
      BY <3>1, SizeNat
    <3> QED BY <1>2, <2>1, <3>2
  <2> QED BY <2>3, <2>4, <2>5, Zenon DEF ClosingNotOpen, TailEmpty, WireEmpty, WireCounted
<1>4. ASSUME NEW kind \in Kinds, SendLater(kind)
      PROVE  (ThreadIdle /\ ClosingNotOpen /\ TailEmpty /\ WireEmpty /\ WireCounted)'
  <2>1. closeStage = "none"
    BY <1>1, <1>4, Zenon DEF SendLater, CanCallSend, ClosingNotOpen, TypeInv, Stages
  <2>2. /\ UNCHANGED <<closeStage, readyState, left, pendingDecrease>>
        /\ queue' = queue /\ batch' = batch /\ wire' = wire
    BY <1>4, Zenon DEF SendLater, senderVars
  <2> QED BY <1>1, <2>1, <2>2, Zenon
       DEF ThreadIdle, ClosingNotOpen, TailEmpty, WireEmpty, WireCounted, NativeBuffered
<1>5. CASE Close
  <2>1. /\ readyState = "open" /\ readyState' = "closing"
        /\ closeStage' = IF HasPendingSends THEN "tail"
                         ELSE IF bufferedAmount > 0 THEN "poll" ELSE "close"
        /\ queue' = queue /\ batch' = batch /\ wire' = wire /\ kinds' = kinds
        /\ UNCHANGED <<left, pendingDecrease, settled>>
    BY <1>5, Zenon DEF Close, senderVars
  <2>2. HasPendingSends' <=> HasPendingSends
    BY <2>1, Zenon DEF HasPendingSends, Requested
  <2>3. ~HasPendingSends /\ ~(bufferedAmount > 0) => NativeBuffered = 0
    <3> SUFFICES ASSUME ~HasPendingSends, ~(bufferedAmount > 0) PROVE NativeBuffered = 0
      OBVIOUS
    <3>1. settled = Requested /\ bufferedAmount = 0
      BY <1>2 DEF HasPendingSends
    <3>2. Bytes[Requested] \in Nat
      BY <1>2, BytesNat
    <3>3. bufferedAmount = pendingDecrease + Bytes[Requested] - Bytes[settled]
      BY Zenon DEF TypeInv, Inv, AccountingExact
    <3>4. pendingDecrease = 0
      BY <1>2, <3>1, <3>2, <3>3
    <3> QED BY <1>1, <2>1, <3>4, Zenon DEF WireCounted
  <2>4. NativeBuffered' = NativeBuffered
    BY <2>1, Zenon DEF NativeBuffered
  <2>5. TailEmpty'
    BY <2>1, <2>2, Zenon DEF TailEmpty
  <2>6. WireEmpty'
    BY <2>1, <2>3, <2>4, Zenon DEF WireEmpty
  <2> QED BY <1>1, <2>1, <2>5, <2>6, Zenon DEF ThreadIdle, ClosingNotOpen, WireCounted
<1>6. CASE TailSend
  <2>1. /\ HasPendingSends /\ kinds' = kinds /\ settled' = settled + 1
        /\ UNCHANGED <<readyState, closeStage>>
        /\ SendNative(settled + 1, kinds[settled + 1])
        /\ pendingDecrease' = pendingDecrease + Size(settled + 1)
    BY <1>6, Zenon DEF TailSend, Pending, Settle, QueueDecrease
  <2>2. settled + 1 \in DOMAIN kinds /\ settled + 1 \in 1 .. MaxSends
    BY <1>2, <2>1 DEF HasPendingSends, Requested
  <2>3. kinds[settled + 1] = "string"
    BY <1>1, <2>2, Zenon DEF OnlyStrings
  <2>4. ThreadIdle'
    BY <1>1, <1>2, <2>1, <2>3, HandedWire, Zenon DEF ThreadIdle
  <2>5. closeStage \notin {"poll", "close", "native"}
    BY <1>1, <2>1, Zenon DEF TailEmpty
  <2>6. pendingDecrease' # 0
    <3>1. Size(settled + 1) \in Nat /\ Size(settled + 1) # 0
      BY <2>2, SizeNat
    <3> QED BY <1>2, <2>1, <3>1
  <2> QED BY <1>1, <2>1, <2>4, <2>5, <2>6, Zenon
       DEF ClosingNotOpen, TailEmpty, WireEmpty, WireCounted
<1>7. CASE TailFail
  <2>1. /\ HasPendingSends /\ kinds' = kinds /\ settled' = settled + 1
        /\ UNCHANGED <<readyState, closeStage, left>>
        /\ queue' = queue /\ batch' = batch /\ wire' = wire
        /\ pendingDecrease' = pendingDecrease + Size(settled + 1)
    BY <1>7, Zenon DEF TailFail, Pending, Settle, QueueDecrease, senderVars
  <2>2. closeStage \notin {"poll", "close", "native"}
    BY <1>1, <2>1, Zenon DEF TailEmpty
  <2>3. pendingDecrease # 0 => pendingDecrease' # 0
    <3>1. settled + 1 \in 1 .. MaxSends
      BY <1>2, <2>1 DEF HasPendingSends
    <3>2. Size(settled + 1) \in Nat
      BY <3>1, SizeNat
    <3> QED BY <1>2, <2>1, <3>2
  <2>4. NativeBuffered' = NativeBuffered
    BY <2>1, Zenon DEF NativeBuffered
  <2> QED BY <1>1, <2>1, <2>2, <2>3, <2>4, Zenon
       DEF ThreadIdle, ClosingNotOpen, TailEmpty, WireEmpty, WireCounted
<1>8. CASE FlushDecrease
  <2>1. /\ pendingDecrease = 0 \/ NativeBuffered = 0 \/ readyState = "closed"
        /\ UNCHANGED <<readyState, closeStage, left, drain>>
        /\ kinds' = kinds /\ settled' = settled
        /\ queue' = queue /\ batch' = batch /\ wire' = wire
    BY <1>8, Zenon DEF FlushDecrease, FlushUnchanged, senderVars
  <2>2. NativeBuffered' = NativeBuffered /\ (HasPendingSends' <=> HasPendingSends)
    BY <2>1, Zenon DEF NativeBuffered, HasPendingSends, Requested
  <2>3. readyState = "closed" => readyState # "open"
    OBVIOUS
  <2>4. WireCounted'
    BY <1>1, <2>1, <2>2, <2>3, Zenon DEF WireCounted
  <2> QED BY <1>1, <2>1, <2>2, <2>4, Zenon
       DEF ThreadIdle, ClosingNotOpen, TailEmpty, WireEmpty
<1>9. CASE LocalClose
  <2>1. /\ UNCHANGED <<left, pendingDecrease>>
        /\ kinds' = kinds /\ settled' = settled
        /\ queue' = queue /\ batch' = batch /\ wire' = wire
    BY <1>9, Zenon
       DEF LocalClose, TailDone, Drained, DrainTimeout, CloseNative, FinishClose,
           CloseStep, senderVars
  <2>2. NativeBuffered' = NativeBuffered /\ (HasPendingSends' <=> HasPendingSends)
    BY <2>1, Zenon DEF NativeBuffered, HasPendingSends, Requested
  <2>3. \/ TailDone \/ Drained \/ DrainTimeout
        \/ CloseNative \/ FinishClose
    BY <1>9, Zenon DEF LocalClose
  <2>4. CASE FinishClose
    <3>1. readyState' = "closed" /\ UNCHANGED <<closeStage, drain>>
      BY <2>4, Zenon DEF FinishClose
    <3> QED BY <1>1, <2>1, <2>2, <3>1, Zenon
         DEF ThreadIdle, ClosingNotOpen, TailEmpty, WireEmpty, WireCounted
  <2>5. CASE TailDone
    <3>1. /\ ~HasPendingSends /\ closeStage = "tail" /\ closeStage' = "poll"
          /\ readyState' = readyState
      BY <2>5, Zenon DEF TailDone, CloseStep
    <3> QED BY <1>1, <2>1, <2>2, <3>1, Zenon
         DEF ThreadIdle, ClosingNotOpen, TailEmpty, WireEmpty, WireCounted
  <2>6. CASE Drained
    <3>1. /\ NativeBuffered = 0 /\ closeStage = "poll" /\ closeStage' = "close"
          /\ readyState' = readyState
      BY <2>6, Zenon DEF Drained, CloseStep
    <3> QED BY <1>1, <2>1, <2>2, <3>1, Zenon
         DEF ThreadIdle, ClosingNotOpen, TailEmpty, WireEmpty, WireCounted
  <2>7. CASE DrainTimeout
    <3>1. /\ drain' = "timeout" /\ closeStage = "poll" /\ closeStage' = "close"
          /\ readyState' = readyState
      BY <2>7, Zenon DEF DrainTimeout, CloseStep
    <3> QED BY <1>1, <2>1, <2>2, <3>1, Zenon
         DEF ThreadIdle, ClosingNotOpen, TailEmpty, WireEmpty, WireCounted
  <2>8. CASE CloseNative
    <3>1. /\ drain' = drain /\ closeStage = "close" /\ closeStage' = "native"
          /\ readyState' = readyState
      BY <2>8, Zenon DEF CloseNative, CloseStep
    <3> QED BY <1>1, <2>1, <2>2, <3>1, Zenon
         DEF ThreadIdle, ClosingNotOpen, TailEmpty, WireEmpty, WireCounted
  <2> QED BY <2>3, <2>4, <2>5, <2>6, <2>7, <2>8, Zenon
<1>10. ASSUME UNCHANGED jsVars, left' = left, ThreadIdle', WireKept
       PROVE  (ThreadIdle /\ ClosingNotOpen /\ TailEmpty /\ WireEmpty /\ WireCounted)'
  <2>1. NativeBuffered' = NativeBuffered /\ (HasPendingSends' <=> HasPendingSends)
    BY <1>10, Zenon DEF NativeBuffered, HasPendingSends, Requested, jsVars, WireKept
  <2> QED BY <1>1, <1>10, <2>1, Zenon
       DEF ClosingNotOpen, TailEmpty, WireEmpty, WireCounted, jsVars
<1>11. CASE SendThread
  BY <1>1, <1>2, <1>10, <1>11, SenderWire, Zenon DEF SendThread, ThreadIdle
<1>12. CASE NativeCloses \/ RemoteCloses \/ Notify \/ UNCHANGED vars
  BY <1>1, <1>10, <1>12, Zenon
     DEF NativeCloses, RemoteCloses, Notify, S!CloseChannel, S!NotifyOne,
         S!history, WireKept, ThreadIdle, vars, senderVars
<1>13. CASE SctpSends
  <2>1. /\ left < Len(wire[Channel]) /\ left' = left + 1 /\ UNCHANGED jsVars
        /\ queue' = queue /\ batch' = batch /\ wire' = wire
    BY <1>13, Zenon DEF SctpSends, senderVars
  <2>2. NativeBuffered # 0
    BY <1>2, <2>1 DEF NativeBuffered
  <2>3. HasPendingSends' <=> HasPendingSends
    BY <2>1, Zenon DEF HasPendingSends, Requested, jsVars
  <2> QED BY <1>1, <2>1, <2>2, <2>3, Zenon
       DEF ThreadIdle, ClosingNotOpen, TailEmpty, WireEmpty, WireCounted, jsVars
<1>14. CASE TailReady \/ TailRead
  BY <1>1, <1>14, Zenon
     DEF TailReady, TailRead, senderVars, ThreadIdle, ClosingNotOpen, TailEmpty, WireEmpty,
         WireCounted, NativeBuffered, HasPendingSends, Requested
<1> QED BY <1>3, <1>4, <1>5, <1>6, <1>7, <1>8, <1>9, <1>11, <1>12, <1>13, <1>14,
       Zenon DEF Next, SendTail

(***************************************************************************)
(* A close that did not time out closes the native channel of strings only *)
(* when all of them have left, for any number and sizes of strings.        *)
(***************************************************************************)
THEOREM NothingTruncated == Spec => []CloseTruncatesNothing
<1>1. Init => Truncation
  <2> SUFFICES ASSUME Init PROVE Truncation
    OBVIOUS
  <2>1. queue = <<>> /\ batch = <<>> /\ closeStage = "none"
    BY Zenon DEF Init, S!Init
  <2>2. NativeBuffered = 0
    <3>1. wire[Channel] = <<>> /\ left = 0
      BY DEF Init, S!Init, Channel, Channels
    <3> QED BY <3>1 DEF NativeBuffered
  <2> QED BY <2>1, <2>2, Zenon
       DEF Truncation, ThreadIdle, ClosingNotOpen, TailEmpty, WireEmpty, WireCounted
<1>2. TypeInv /\ Truncation /\ [Next]_vars => Truncation'
  BY TruncationStep
<1>3. Truncation => CloseTruncatesNothing
  BY Zenon DEF Truncation, TailEmpty, WireEmpty, CloseTruncatesNothing
<1> QED BY <1>1, <1>2, <1>3, TypeInvInit, TypeInvStep, PTL DEF Spec
=============================================================================
