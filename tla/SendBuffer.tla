------------------------------ MODULE SendBuffer ------------------------------
(***************************************************************************)
(* The sending half of RTCDataChannel in lib/index.js: send, the send tail *)
(* that later sends wait behind, the bufferedAmount counter with its drain *)
(* guard, and close with its drain, on top of the AsyncSender that takes   *)
(* the binary messages.                                                    *)
(*                                                                         *)
(* The channel's peer connection has no paired peer in its process, so a   *)
(* message reaches the remote peer only by SCTP.  rtc::DataChannel's       *)
(* bufferedAmount counts what is on the wire of AsyncSender and has not    *)
(* left it; it knows nothing of AsyncSender's queue.                       *)
(***************************************************************************)
EXTENDS Naturals, Sequences, SequencesExt

CONSTANTS
    Kinds,              \* what the application sends: "string", "binary", "blob"
    Bytes,              \* Bytes[n]: the size of the first n messages together,
                        \* none of them empty
    MaxQueue,           \* AsyncSender's cap
    MaxSends            \* bound: calls of send

ASSUME BufferAssumption ==
    /\ Kinds \subseteq {"string", "binary", "blob"}
    /\ MaxSends \in Nat
    /\ Bytes \in [0 .. MaxSends -> Nat]
    /\ \A m, n \in 0 .. MaxSends : m < n => Bytes[m] < Bytes[n]
    /\ MaxQueue \in Nat \ {0}

Channels == {"channel"}
Threads == {"javascript"}
ThreadOf == [c \in Channels |-> "javascript"]

VARIABLES queue, batch, next, worker, caller, isOpen, wire, sends, accepted,
          handled, failed

senderVars == <<queue, batch, next, worker, caller, isOpen, wire, sends,
                accepted, handled, failed>>

S == INSTANCE AsyncSender WITH MaxFailures <- MaxSends

VARIABLES
    left,               \* messages that left the wire
    readyState,
    bufferedAmount,
    pendingDecrease,    \* _pendingBufferedAmountDecrease
    decreaseScheduled,  \* _bufferedAmountDecreaseScheduled
    kinds,              \* history: the calls of send, in order
    settled,            \* the send tail holds the calls after the first settled
    tailStep,           \* of the first of them: "ready", "accept", or "reading"
    closeStage,         \* how far close has come
    handed,             \* history: the calls handed to the native channel
    drain               \* history: how close's drain ended: "no", "drained" or
                        \* "timeout"

jsVars == <<readyState, bufferedAmount, pendingDecrease, decreaseScheduled,
            kinds, settled, tailStep, closeStage, handed, drain>>
vars == <<senderVars, left, jsVars>>

Channel == "channel"
Requested == Len(kinds)
Size(n) == Bytes[n] - Bytes[n - 1]
HasPendingSends == settled < Requested
NativeBuffered == Len(wire[Channel]) - left

TypeOK ==
    /\ S!TypeOK
    /\ left \in 0 .. Len(wire[Channel])
    /\ readyState \in {"open", "closing", "closed"}
    /\ bufferedAmount \in Nat
    /\ pendingDecrease \in Nat
    /\ decreaseScheduled \in BOOLEAN
    /\ kinds \in Seq(Kinds) /\ Requested <= MaxSends
    /\ settled \in 0 .. Requested
    /\ tailStep \in {"ready", "accept", "reading"}
    /\ closeStage \in {"none", "tail", "poll", "close", "native"}
    /\ handed \in Seq(1 .. Requested)
    /\ drain \in {"no", "drained", "timeout"}

Init ==
    /\ S!Init
    /\ left = 0
    /\ readyState = "open"
    /\ bufferedAmount = 0
    /\ pendingDecrease = 0
    /\ decreaseScheduled = FALSE
    /\ kinds = <<>>
    /\ settled = 0
    /\ tailStep = "ready"
    /\ closeStage = "none"
    /\ handed = <<>>
    /\ drain = "no"

-----------------------------------------------------------------------------
\* _sendNativeString and _sendNativeBinary: the n-th call is handed over.  A
\* string needs an open channel, a binary message is always reported sent.
SendNative(n, kind) ==
    /\ handed' = Append(handed, n)
    /\ \/ kind = "string" /\ S!SendString(Channel)
       \/ kind # "string" /\ (S!SendBinary(Channel) \/ S!DropBinary(Channel))

\* JavaScript runs one task at a time, and Enqueue ends before send returns.
Task == caller["javascript"] = "idle"

\* _queueBufferedAmountDecrease
QueueDecrease(size) ==
    /\ pendingDecrease' = pendingDecrease + size
    /\ decreaseScheduled' = TRUE

-----------------------------------------------------------------------------
\* Calls of the application

CanCallSend == Task /\ readyState = "open" /\ Requested < MaxSends

\* Fault: the send tail is not looked at.
SendNowOvertakes(kind) ==
    /\ CanCallSend
    /\ kind # "blob"
    /\ isOpen[Channel]
    /\ kinds' = Append(kinds, kind)
    /\ SendNative(Requested + 1, kind)
    /\ bufferedAmount' = bufferedAmount + Size(Requested + 1)
    /\ QueueDecrease(Size(Requested + 1))
    /\ settled' = settled + 1
    /\ UNCHANGED <<left, readyState, tailStep, closeStage, drain>>

\* send with nothing in front of the message: handed over at once.
SendNow(kind) ==
    /\ CanCallSend
    /\ kind # "blob"
    /\ ~HasPendingSends /\ isOpen[Channel]
    /\ kinds' = Append(kinds, kind)
    /\ SendNative(Requested + 1, kind)
    /\ bufferedAmount' = bufferedAmount + Size(Requested + 1)
    /\ QueueDecrease(Size(Requested + 1))
    /\ settled' = settled + 1
    /\ UNCHANGED <<left, readyState, tailStep, closeStage, drain>>

\* _enqueueSend
SendLater(kind) ==
    /\ CanCallSend
    /\ kind = "blob" \/ HasPendingSends \/ ~isOpen[Channel]
    /\ kinds' = Append(kinds, kind)
    /\ bufferedAmount' = bufferedAmount + Size(Requested + 1)
    /\ UNCHANGED <<senderVars, left, readyState, pendingDecrease,
                   decreaseScheduled, settled, tailStep, closeStage,
                   handed, drain>>

\* Fault: what is buffered is not drained.
CloseUndrained ==
    /\ Task
    /\ readyState = "open"
    /\ readyState' = "closing"
    /\ closeStage' = IF HasPendingSends THEN "tail" ELSE "close"
    /\ UNCHANGED <<senderVars, left, bufferedAmount, pendingDecrease,
                   decreaseScheduled, kinds, settled, tailStep, handed,
                   drain>>

\* close: native close at once, after the drain, or after the send tail.
Close ==
    /\ Task
    /\ readyState = "open"
    /\ readyState' = "closing"
    /\ closeStage' = IF HasPendingSends THEN "tail"
                     ELSE IF bufferedAmount > 0 THEN "poll" ELSE "close"
    /\ UNCHANGED <<senderVars, left, bufferedAmount, pendingDecrease,
                   decreaseScheduled, kinds, settled, tailStep, handed,
                   drain>>

-----------------------------------------------------------------------------
\* The send tail

Pending(step) == Task /\ HasPendingSends /\ tailStep = step

\* Fault: the pending count goes down in the catch block too.
SettleTwice ==
    /\ settled' = settled + 2
    /\ tailStep' = "ready"
    /\ QueueDecrease(Size(settled + 1))

\* The finally block of _enqueueSend, after success or an error event.
Settle ==
    /\ settled' = settled + 1
    /\ tailStep' = "ready"
    /\ QueueDecrease(Size(settled + 1))

\* _waitForNativeSendReady
TailReady ==
    /\ Pending("ready")
    /\ isOpen[Channel]
    /\ tailStep' = "accept"
    /\ UNCHANGED <<senderVars, left, readyState, bufferedAmount,
                   pendingDecrease, decreaseScheduled, kinds, settled,
                   closeStage, handed, drain>>

\* _waitForNativeSendAccepted with a blob, which is read first.
TailRead ==
    /\ Pending("accept")
    /\ kinds[settled + 1] = "blob"
    /\ readyState # "closed"
    /\ tailStep' = "reading"
    /\ UNCHANGED <<senderVars, left, readyState, bufferedAmount,
                   pendingDecrease, decreaseScheduled, kinds, settled,
                   closeStage, handed, drain>>

\* readyState is not looked at again after a blob was read.
TailSend ==
    /\ \/ /\ Pending("accept")
          /\ kinds[settled + 1] # "blob"
          /\ readyState # "closed"
       \/ Pending("reading")
    /\ SendNative(settled + 1, kinds[settled + 1])
    /\ Settle
    /\ UNCHANGED <<left, readyState, bufferedAmount, kinds, closeStage, drain>>

\* An error: the channel stays closed natively until the deadline, it is closed,
\* sending a string throws, or a blob cannot be read.
TailFail ==
    /\ \/ Pending("ready") /\ ~isOpen[Channel]
       \/ Pending("accept") /\ (readyState = "closed" \/ kinds[settled + 1] = "string")
       \/ Pending("reading")
    /\ Settle
    /\ UNCHANGED <<senderVars, left, readyState, bufferedAmount, kinds,
                   closeStage, handed, drain>>

-----------------------------------------------------------------------------
\* The counter

FlushUnchanged == UNCHANGED <<senderVars, left, readyState, kinds, settled,
                              tailStep, closeStage, handed, drain>>

\* Fault: the pending decrease is applied but kept.
FlushDecreaseKeeps ==
    /\ Task
    /\ decreaseScheduled
    /\ NativeBuffered = 0 \/ readyState = "closed"
    /\ decreaseScheduled' = FALSE
    /\ bufferedAmount' = IF pendingDecrease > bufferedAmount THEN 0
                         ELSE bufferedAmount - pendingDecrease
    /\ UNCHANGED pendingDecrease
    /\ FlushUnchanged

\* Fault: with native data left, the flush is not scheduled again.
FlushDecreaseOnce ==
    /\ Task
    /\ decreaseScheduled
    /\ decreaseScheduled' = FALSE
    /\ IF NativeBuffered = 0
       THEN /\ pendingDecrease' = 0
            /\ bufferedAmount' = bufferedAmount - pendingDecrease
       ELSE UNCHANGED <<pendingDecrease, bufferedAmount>>
    /\ FlushUnchanged

\* _flushBufferedAmountDecrease, again later while the native channel holds data.
FlushDecrease ==
    /\ Task
    /\ decreaseScheduled
    /\ pendingDecrease = 0 \/ NativeBuffered = 0 \/ readyState = "closed"
    /\ decreaseScheduled' = FALSE
    /\ pendingDecrease' = 0
    /\ bufferedAmount' = IF pendingDecrease > bufferedAmount THEN 0
                         ELSE bufferedAmount - pendingDecrease
    /\ FlushUnchanged

-----------------------------------------------------------------------------
\* The rest of close

CloseStep(from, to) ==
    /\ Task
    /\ closeStage = from
    /\ closeStage' = to
    /\ UNCHANGED <<senderVars, left, readyState, bufferedAmount,
                   pendingDecrease, decreaseScheduled, kinds, settled, tailStep,
                   handed>>

TailDone == ~HasPendingSends /\ CloseStep("tail", "poll") /\ UNCHANGED drain

\* A poll of _closeNativeAfterBufferedSends that ends it.
Drained ==
    /\ bufferedAmount = 0 /\ NativeBuffered = 0
    /\ CloseStep("poll", "close")
    /\ drain' = "drained"

\* CLOSE_FLUSH_TIMEOUT_MS
DrainTimeout == CloseStep("poll", "close") /\ drain' = "timeout"

\* After CLOSE_FLUSH_DELAY_MS or an immediate; the native channel closes on a
\* thread of its own.
CloseNative == CloseStep("close", "native") /\ UNCHANGED drain

\* Fault: only a native close event ends a local close.
FinishCloseRemote ==
    /\ Task
    /\ ~isOpen[Channel] /\ readyState # "closed"
    /\ readyState' = "closed"
    /\ UNCHANGED <<senderVars, left, bufferedAmount, pendingDecrease,
                   decreaseScheduled, kinds, settled, tailStep, closeStage,
                   handed, drain>>

\* close's last timer, or the native close event of whichever side closed.
FinishClose ==
    /\ Task
    /\ \/ closeStage = "native" /\ readyState = "closing"
       \/ ~isOpen[Channel] /\ readyState # "closed"
    /\ readyState' = "closed"
    /\ UNCHANGED <<senderVars, left, bufferedAmount, pendingDecrease,
                   decreaseScheduled, kinds, settled, tailStep, closeStage,
                   handed, drain>>

-----------------------------------------------------------------------------
\* Native threads: ChannelBinding::Close, the remote peer's close, the send
\* thread, and SCTP.

NativeCloses ==
    /\ closeStage = "native"
    /\ S!CloseChannel(Channel)
    /\ UNCHANGED <<left, jsVars>>

RemoteCloses == S!CloseChannel(Channel) /\ UNCHANGED <<left, jsVars>>

SendThread == (S!Run \/ S!SpuriousWake) /\ UNCHANGED <<left, jsVars>>

Notify == S!NotifyOne("javascript") /\ UNCHANGED <<left, jsVars>>

SctpSends ==
    /\ left < Len(wire[Channel])
    /\ left' = left + 1
    /\ UNCHANGED <<senderVars, jsVars>>

SendTail == TailReady \/ TailRead \/ TailSend \/ TailFail

LocalClose == TailDone \/ Drained \/ DrainTimeout \/ CloseNative \/ FinishClose

Next ==
    \/ \E kind \in Kinds : SendNow(kind) \/ SendLater(kind)
    \/ Close \/ SendTail \/ FlushDecrease \/ LocalClose
    \/ NativeCloses \/ RemoteCloses \/ SendThread \/ Notify \/ SctpSends

\* Timers, immediates and promise jobs run, native threads are scheduled, and
\* the remote peer acknowledges what is sent or the deadlines of the code pass.
Spec == /\ Init /\ [][Next]_vars
        /\ WF_vars(SendTail) /\ WF_vars(FlushDecrease) /\ WF_vars(LocalClose)
        /\ WF_vars(SendThread) /\ WF_vars(Notify) /\ WF_vars(SctpSends)

-----------------------------------------------------------------------------
(***************************************************************************)
(* bufferedAmount is exactly the size of the messages in the send tail and *)
(* of those whose decrease is pending: no path of send, error or close     *)
(* counts a message twice or forgets it.                                   *)
(***************************************************************************)
AccountingExact ==
    bufferedAmount = pendingDecrease + Bytes[Requested] - Bytes[settled]

\* Messages are handed to the native channel in the order of the send calls,
\* each once, although some wait for a blob or for the channel to open.
HandedInOrder ==
    \A i, j \in DOMAIN handed : i < j => handed[i] < handed[j]

\* Strings do not pass through the send thread, whose queue no counter sees.
OnlyStrings == \A i \in DOMAIN kinds : kinds[i] = "string"

(***************************************************************************)
(* close loses no string: when it closes the native channel, without       *)
(* having timed out, everything that was sent has left.                    *)
(***************************************************************************)
CloseTruncatesNothing ==
    OnlyStrings /\ closeStage = "native" /\ drain # "timeout" =>
        ~HasPendingSends /\ NativeBuffered = 0

\* Every send is accounted for in the end: bufferedAmount returns to zero.
BufferSettles == bufferedAmount > 0 ~> bufferedAmount = 0

\* close ends, whatever the send tail, the drain and the remote peer do.
CloseCompletes == readyState = "closing" ~> readyState = "closed"
=============================================================================
