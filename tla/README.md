# webrtc-node in TLA+

A verification development for `webrtc-node`, the Node.js binding of
libdatachannel: `lib/index.js` implements the browser's `RTCPeerConnection` and
`RTCDataChannel`, `src/native/addon.cc` connects it to the C++ library, whose
threads call back into JavaScript. The hard part of the program is between the
two: events and messages of many native threads, queues, timers and close
handling on one JavaScript thread.

## Inventory

| Component | State | Operations | Interacts with |
| --- | --- | --- | --- |
| Event dispatcher (`addon.cc` 335-465) | `active`, `pendingEvents`, `dispatchScheduled`, the queue of the thread-safe function | `Emit`, `EmitDirect`, `Close`, `Drain`, `DispatchDirect` | libdatachannel's threads call it, it calls the event callback of `RTCPeerConnection` |
| Native send thread (`addon.cc` 102-160, 891-925) | `queue_`, the batch of `Run` | `Enqueue`, `Run`, `SendBinary`, `SendString` | called by the send paths of `RTCDataChannel`, shared by every channel and every JavaScript thread of the process |
| Incoming data channel (`index.js` 1943-2432, 4576-4767, 4863-4890) | `readyState`, announcement and drain flags, three event queues, two message gates, the postponed open and close | native events, message flush, consumer changes, local and remote close | fed by the dispatcher, held up by signaling operations and deferred ICE events of its peer connection |
| Sends and `bufferedAmount` (`index.js` 1612-1941) | the send tail, `bufferedAmount`, pending decreases | `send`, `close`, drain polls | the native send thread |
| Peer teardown (`addon.cc` 162-214, 694-845, 1189-1427) | `shutdown`, `channels`, the callbacks, the teardown's work | `AddChannel`, `RemoveChannel`, `PrepareShutdown`, `RunPeerTeardown` | JavaScript and libdatachannel's threads call it; it closes the dispatcher |
| Signaling (`index.js` 2687-3428, 3696-3746, 4151-4704) | the six descriptions, `signalingState`, operations pending, candidates kept back, three flags of ICE restarts | `createOffer`, `createAnswer`, `setLocalDescription`, `setRemoteDescription`, rollback, `addIceCandidate`, `restartIce`, `close`, the refresh timer | the native peer connection and its events, an answering peer of the process, `PeerTeardown` |
| SCTP, DTLS and ICE transports (`index.js` 1250-1370, 3543-3861) | transport states, the poll and its deadline, the replayed ICE sequence | update, transition, poll, repair and replay tasks | copied native states and their events, the operations and states of the paired peer |
| Pairing and repair (`index.js` 3451-3541, 3864-4124, 4576-4634, 1496-1820) | the paired peer, synthetic channels, pending announcements, messages not acknowledged | pairing, announcement repair, adoption, synthetic delivery, close by the paired channel | both peers of one process |
| Data channel ids (`index.js` 4745-4827) | ids in use | assignment by DTLS role | pairing |
| ICE UDP mux (`addon.cc` 472-600) | `active`, the listener | `Emit`, `Close` | libdatachannel |
| Certificates, SDP helpers, loader, scripts | none of interest | | |

What is hard: native threads emit while JavaScript runs a batch; two kinds of
events take two routes and may overtake one another; an exception of the
application unwinds native code; a close must neither overtake messages nor wait
for good; everything is held up by something else (operations, ICE events, a
datachannel listener, a message listener, two timers, a grace period); signaling
operations read descriptions before an `await` and write them after it; native
states may be read ahead of their events; and two peers of one process act on one
another directly, by tasks and timers, beside the network.
`PROJECT.json` lists these hazards with their lines.

## Modules

| Module | What it is |
| --- | --- |
| `OrderedDelivery` | what both queues promise: an ordered path that loses nothing while it is open, and delivers in the end |
| `EventDispatcher`, `MCEventDispatcher` | the dispatcher, one critical section per action |
| `EventDispatcherProofs` | its theorems |
| `AsyncSender`, `MCAsyncSender` | the send thread with its callers |
| `AsyncSenderProofs` | its theorems |
| `IncomingChannel` | a remotely opened channel, composed with the dispatcher that feeds it |
| `IncomingChannelProofs` | its theorems |
| `SendBuffer`, `MCSendBuffer` | the sending half of a channel, composed with the send thread |
| `SendBufferProofs` | its theorems |
| `PeerTeardown` | the bindings of a peer connection and its channels, from registration to release |
| `Signaling`, `MCSignaling` | the signaling operations of a peer connection with its native side |
| `OfferAnswer` | the exchange of descriptions that `Signaling` implements |
| `SignalingProofs` | their theorems |
| `AnnouncementProofs` | that the application is told the state, on top of these |
| `SctpTransport` | the states of connection and transports, alone and with a peer of the process |
| `TransportProofs` | its theorems and those of `PeerTeardown` |
| `PairedChannels` | a data channel between two peers of one process |
| `PairedChannelsProofs` | its theorems |

Definitions whose comment begins with *Fault:* are not part of the
specifications: each is a definition of the code with one plausible mistake in
it, and `PROJECT.json` pairs it with the property that must notice.

### EventDispatcher

The variables are the struct's fields (`active`, `pendingEvents`,
`dispatchScheduled`), the thread-safe function's queue (`tsfnQueue`,
`tsfnClosing`; Node-API, external) and where the JavaScript thread is in `Drain`
(`phase`, `batch`). `accepted`, `delivered`, `directs` and `thrown`
are history. A message
is its number. `Emit`, `EmitDirect` and `Close` are one critical section each;
`Drain` is three steps, `DrainSwap` (first critical section), `DrainCall` (the
call into JavaScript, unlocked) and `DrainFinish` (second critical section), or
`DrainThrow` when the call leaves an exception. Only an array can do that: `Drain`
passes a single message as an object, which `_handleNativeEvent` queues and dispatches
later with exceptions contained, and two or more as an array, which may reach a handler
directly (`index.js` 2559-2566, 2374). `phase` is `batched` in the second case, and
`DrainThrow` starts from there. `EnvTeardown` makes later
`NonBlockingCall`s fail.

### AsyncSender

`queue`, `batch` and `next` are `queue_`, the local batch of `Run` and its index;
`worker` and `caller` say where the send thread and the calling threads are.
A JavaScript thread owns its channels (`ThreadOf`) and there may be several
(worker threads share the one `AsyncSender`). The notification after the unlock
is a step of its own, and the condition variable may wake for no reason.
`DropBinary` is the early return at the cap; `SendString` bypasses the queue.
`SendItem` has the three outcomes of the loop body: the message reaches the wire
(`Reaches`), its channel has closed (`PassedOver`), or the send of an open channel throws,
which `catch (...)` swallows (`Throws`; the history `failed`, at most `MaxFailures`).

### IncomingChannel

The state of the JavaScript objects is one record, `js`; each method is an
operator from such a state to the next, named as in the source, and an action
runs one task: an item of the thread-safe function (the actions of
`EventDispatcher` conjoined with what the event callback does), a timer, an
immediate, or a call by the application. Timers of equal delay are served in
order, and so are immediates; between the two, and between items, any order is
allowed, which is more than Node's event loop does. Handlers may close the peer
connection, close the channel, or add a message listener in the places where the
code reads that state again; other calls of the application are tasks of their
own. The message batch is the loop of `_dispatchNativeMessageBatch`, the queued
messages the loop of `_flushQueuedMessageEvents`.

### SendBuffer

The channel is open at first. `kinds` is the history of the calls of `send`, and
the send tail (`_sendTail`, `_pendingSendCount`) is the part of it after
`settled`: promise jobs run in the order they were chained. `tailStep` says which
`await` of the first of them is pending. `SendNow` and `SendLater` are the two
ways through `send`; `TailReady`, `TailRead`, `TailSend` and `TailFail` are one run of
`_enqueueSend`, `Settle` its `finally`. A blob is read (`TailRead`) after `readyState` was
looked at and handed over a task later, whatever has become of the channel. `pendingDecrease` and
`decreaseScheduled` are the fields of the counter, `FlushDecrease` the flush that
`_scheduleBufferedAmountDecrease` repeats while `NativeBuffered` is not zero.
`closeStage` follows `close` through the send tail, the polls of
`_closeNativeAfterBufferedSends` and the native close. The native side is
`AsyncSender` itself: every step of the send thread is one of that module.

A message is its number, its size comes from `Bytes` (the constant sums them, so
that no sum is needed in a proof; no message is empty). Time is not modelled:
`DrainTimeout`, the 50 ms of `CLOSE_FLUSH_DELAY_MS` and the deadline of
`_waitForNativeSendReady` may pass at any point.

### PeerTeardown

`shutdown` and `channels` are `PeerBinding`'s fields and `work` is
`PeerTeardownWork::dataChannels`. `step` says how far `AddChannel` is with each
channel: the test of `shutdown`, `AttachCallbacks`, the registration with the
second test, and the last look at `isClosed()` are separate actions, since other
threads run between them. `createDataChannel` calls it on the JavaScript thread
(`LocalChannels`), `onDataChannel` on one of libdatachannel's (`RemoteChannels`).
`prepare` and `teardown` are the program counters of `PrepareShutdown` and
`RunPeerTeardown`; with `sync` (`DestroySync`) JavaScript waits for the latter.
A channel may close at any moment (`ChannelCloses`), and its callback (`OnClosed`)
ends in `RemoveChannel`. Of libdatachannel, which is not part of the repository's
sources, the module assumes that `resetCallbacks` waits for a running callback and
that setting `onClosed` on a closed channel calls nothing. The events the callbacks
emit change nothing here, so the `callbacksActive` flags, which only gate them, are
left out, and so is the weak pointer by which a callback finds its binding: the
bindings are taken to be alive. The 5 s timeout may
expire at any point, so the model needs no closed state to wait for.

### Signaling

The record `s` holds the fields of the connection that decide something
(`_signalingState`, the six descriptions, `_lastCreatedOffer`, the flags of ICE
restarts, `_operationsPending`, the candidates kept back), the native signaling
state and local description, and the native `events` on their way. A description
is what the code asks of its SDP. `tasks` are the operations whose `setImmediate`
is pending, in order; `waiting` are the calls of `setRemoteDescription` that await
`_ensureLocalAnswerApplied` of the answering peer.

A call (`CallCreateOffer`, ...) does the work before the first `await`. What
follows it is one action for each branch of the source that ends differently:
`SetLocalNoMedia`, `SetLocalRestartOffer`, `SetLocalNative` and so on for
`setLocalDescription`, `SetRemoteReplace`, `SetRemoteRestartAnswer` and so on for
`setRemoteDescription`. `Finish` is the `finally` with `_finishPendingOperation`.
Any other call, native event or timer may come between two tasks.
`EnsureLocalAnswerApplied` is the same connection in the role of the answering
peer. The peer of the same process is otherwise only `paired`: idle, busy (an offer
or operations pending) or gone.

The native peer connection is what the code relies on: a signaling state, a local
description, and the errors `NativeAcceptsLocal` and `NativeAcceptsRemote` give.

Three constants name what the application is assumed to do. Of native events nothing is
assumed: each comes at any later time, in the order they were emitted.

* `Chained`: the application awaits `createOffer`, `createAnswer` and the two set
  operations before it calls the next. (Candidates, restarts, channels and `close`
  are free.) The source has no operations chain.
* `Unhurried`: it sets an offer or rolls one back only when no native event is on its way
  that tells of a local description (`MayBegin`). An answer need not wait for the event
  of the offer it answers. The code has nothing of the kind: without it a late event of an
  offer that was rolled back makes that offer the current description (`index.js`
  4636-4647). It is `FALSE` in the runs; `hurried` in `MCSignaling` is the history of
  whether the application ever did otherwise, and only `UnhurriedExchange` asks for it.
  The theorems that need the constant say so.
* `Cautious`: the operators `MayRestart`, `MayRollback`, `MayForget`, `MayGuess`,
  `MayAnswer`, `MayOffer` and `MayAnswerWith` each exclude sequences of calls that the
  source handles wrongly; see *Observations*. It is `TRUE` in every run.

The candidates kept back are `queued` (`_pendingRemoteCandidatesForNative`) and
`pendingIce` (`_pendingIce`). The gathering state, by which
`_canApplyNativeIceCredentials` knows a connection that has not begun to gather, is left
out.

`OfferAnswer` is the exchange itself, four types of descriptions and seven steps;
`ImplementsOfferAnswer` maps the current and pending descriptions to it. The run checks it
as `UnhurriedExchange`, step by step until the application hurries.

### SctpTransport

`t` is the connection and its transports, `q` what the code looks at of the paired
peer, `net` the native states and `events` their changes on the way to JavaScript.
`Update` is `_updateSctpTransport` with all it schedules; `Copy` is the reading of
the native states by `_syncStatesFromNative` and the update task, ahead of their
events. `immediates` and `timers` keep their order each, with the deduplication of
`_sctpUpdateScheduled` and its like in `Once`. `poll` and `deadline` are the connect
poll and its five seconds, which may be over at any point. `over`, `requested`,
`started` and `replaying` are the replayed ICE sequence. The connection and ICE
states JavaScript shows (`conn`, `ice`) are moved by events, copies, the repair
(`RepairTimer`) and the departure of the paired peer (`HandleRemotePeerClosed`).

`NativeSteps` are the changes of the native connection the model generates: to
connected, or to failed or disconnected for good.

### PairedChannels

`a` is the channel of the peer that created it, `b` the last channel of the other peer,
`p` the pair of peers and `net` the native side: the datachannel event, the messages on
the wire and those in immediates. `b` is `synthetic` or `native`, and turns from one into
the other in `Adopt`. `RepairMissing` is `_repairMissingDataChannelAnnouncements`, with a
grace period (`clock`) before it makes a channel of its own. When B's channel has closed,
the repair and the native event make another one in its place (`Fresh`); what knew the old
one goes to waste, A's close (`LeaveOld`) and the synthetic messages in immediates
(`WithoutTasks`). Events of a closed channel stay in `_pendingDataChannelEvents`; `gone`
counts the channels that have closed.

`Send`, `SendTail` and `Hand` are the paths of `send`: to a channel that is linked or not
yet, and before B has dispatched its datachannel event or after. `SendTailFails` is every
error of `_enqueueSend`, a blob that cannot be read, a send that throws and the waits of
five seconds. The messages in `Empty` have size zero and are not counted. `Receive` is
`_handleNativeEvent` of `b`; `Acknowledge` is the report of a dispatched message to the
sender. `close` goes through `DrainPoll`, or `DrainDeadline` when the minute of
`CLOSE_FLUSH_TIMEOUT_MS` has passed, and `CloseNative`, which tells the channel it found
when it was called (`partner`). `PollSettled` and `AfterSettled` are the polls that hold
back A's open event until B has dispatched its datachannel event.

No timer waits for another: the grace period of the repair, the remote close, immediates
and the network come in any order. The network keeps its own, and so do immediates; a
native message may pass a synthetic one, which the code does not prevent, and so the order
of messages is stated for each of the two routes. In `Adopt` a channel that was not
announced is announced; the source then also finds one whose event is pending (4619-4621),
which needs a second native event for the same channel and is left out.

## Runs

| Run | Question | Bounds |
| --- | --- | --- |
| `dispatcher` | Is the dispatcher an ordered path with one drain and no stranded message, until a callback throws? | 4 messages, 2 direct events: a running batch, a second one behind it and a direct event in each place |
| `dispatcher_stall` | Does a throwing callback stall delivery? It does | 3 messages: a batch of two, which is an array, and one to wait for good |
| `sender` | Is the send thread an ordered path that never sleeps on work? | 2 threads, 2 channels, 3 sends each, a cap of 2, 1 send that throws: the queue refills while a full batch is sent |
| `sender_mixed` | Are strings and binaries of a channel in order? They are not | 2 sends each |
| `incoming_order` | What order of events does an application see, is a message lost, whatever its handlers do, and does a remote close wait for the messages it overtakes? | 3 messages (one queued and a batch behind it, or one that the close overtakes while the drain of another runs), the connection may fail or be closed |
| `incoming_live` | Do gates, operations and deferred ICE events let go in the end? | 1 message, 1 operation, 1 deferred ICE event |
| `send_buffer` | Is each message counted and handed over once and in order, does the counter return to zero and `close` end? What does the drain before close promise for strings, which the send thread does not see? | 3 sends of any kind, a cap of 1, either side closing at any point |
| `peer_teardown` | Does a shutdown forget or keep a channel that is added or closes meanwhile, and does it end? | 2 local and 2 remote channels: an announcement before and one during the shutdown, beside channels of `createDataChannel` |
| `signaling` | Does the state follow the descriptions and is it announced, do settled operations mean what they say, and are the descriptions an offer/answer exchange? | 5 calls: an offer, a rollback or a second offer, its answer, and a candidate or restart in the gaps; 6 remote descriptions (offers and answers with and without data, new credentials, a pranswer); a new connection or a renegotiation in either role; native events as late as they like |
| `signaling_close` | Does an operation leave the native peer alone after `close`? It does not | 4 calls |
| `transport` | Does the transport show the connection once all is quiet, stay connected, and connect in the end? | 1 operation at a time of each peer, 3 native events on their way |
| `paired` | Is each channel of B announced once, in the end, and do its messages survive the switch from synthetic to native and a close? | 2 messages, the first of them empty (one before and one after the switch), 1 operation, 1 channel that B closes before the native event comes or A closes |

Deadlock is not checked: the bounds on messages, sends and calls, and a closed
or released connection, really do end the activity.

Bounds that are not obvious. In `send_buffer` the cap of 1 makes the second of two binaries
meet a full queue, and three sends put one in the send tail between two others. In
`transport` three events are needed: only with three changes in flight can an event undo a
state that was copied ahead of it. In `paired` the operation holds the repair and the flush
of a native announcement back, and one channel closed by B is enough for another in its
place; two operations, one of which ends while the other goes on, were checked by hand
(four minutes, no error). `incoming_live` has one message: with a second one, which lets a
batch start before the native open is handled, the channel may be reopened while it closes
(1944-1948, see *Observations*), and `ChannelSettles` fails.

`GraceSuffices` is the one timing assumption of `IncomingChannel`: the 25 ms grace
period of a remote close outlasts the items already queued for the JavaScript thread
and the drain of early events. Both runs have it; the theorems about order do not need
it. The 1000 ms consumer
gate and the operations have no timing: they may end at any point.

### What the properties exempt

* `StaysConnected` allows connecting after connected when the paired peer left or when
  the event handled is older than others on their way: states are copied silently, and
  an older event then overwrites what was copied. The transport really does flap there.
* `SettledStateIsRight` and `ConnectsInTheEnd` say nothing once the poll's deadline of
  five seconds has passed: afterwards nobody looks again on their own.
* `StateMatchesDescriptions` and `StateAnnounced` except a connection with a pending
  provisional answer and the offer of an ICE restart that only JavaScript knows of, in
  which the source shows another state on purpose or by the flaw described below.
* `SettledMeansApplied` excepts an answer passed to `setLocalDescription` explicitly,
  and `DeferredCandidatesSettle` a paired peer that has left, and candidates in
  `_pendingIce`; all are described below.
* `OpenChannelsLoseNothing` excepts a message whose own send threw, and
  `RemoteCloseLosesNothing` a run in which a handler threw out of a batch.
* `CloseOvertakesNothing` speaks of the order of messages on one route, and of a close
  whose drain did not give up, of a channel that B did not close, all of whose messages
  were sent while the channels were linked; and of messages that are not empty.
* `CloseTruncatesNothing` is about channels of strings.

### Fairness

The JavaScript thread serves the items of the thread-safe function
(`WF(JavaScript)`), timers, immediates and expired timeouts, because Node's event
loop serves each of them in every turn. The send thread runs (`WF(Run)`) and a
thread past its push notifies, because the operating system schedules them.
Operations end (`FinishOperation`), because native calls return. In `SendBuffer`
the send tail, the flush and the stages of `close` are timers and promise jobs of
the same event loop, and SCTP gets rid of what it holds (`SctpSends`); without the
last, `bufferedAmount` would stay up until the connection is given up. In
`PeerTeardown` every thread inside `AddChannel`, a callback, `PrepareShutdown` or the
teardown goes on; that `resetCallbacks` gets its turn among callbacks rests on the
finite number of channels.

`SctpTransport` has one weak fairness for the immediates and one for timers, the
poll, native events and the end of operations: the event loop empties its immediates
and then goes on with whatever else is due. In `PairedChannels` each timer of the
code has its own; neither the network (the datachannel event may never come) nor the
application owes anything. `Signaling` states safety and a refinement and has no
fairness. Other native threads and the application owe nothing anywhere.

### What the violation runs show

* `dispatcher_stall`: the path of an array, that is of two messages or more, calls an
  `onmessage` handler without `callListener` (`index.js` 2374). Its exception drops the
  rest of the batch and unwinds `Drain` with `dispatchScheduled` set.
* `sender_mixed`: only binaries go through the queue.
* `signaling_close`: `createOffer` tests `_closed` before its `await` and calls the
  native peer connection after it (`index.js` 2688-2704).

## Observations

Places where the code, read with the models, does something its texts do not say or
something a reader would not expect. Where a property would fail for one of them, it is
excluded as stated, and the model says where.

Delivery and sending:

* An exception of a handler in the batch path drops the rest of its batch, not only its
  own message (`index.js` 2374; 114-115 say "the offending message is dropped and the
  loop continues").
* When the connection fails, a channel's close is dispatched even if its datachannel
  event was not (`index.js` 4839-4841 and 2093-2113; `docs/divergences.md` 158-161).
* The drain before `close` does not see messages in the send thread's queue (1927-1941),
  although `docs/divergences.md` 151-152 has such closes "wait for native delivery"; the
  close overtakes them if the send thread is more than 50 ms behind.
* Between paired channels an empty message is in no counter (1849, 1872, 1895): `send("")`
  and `close()` in one task close the paired channel after a grace period of 25 ms
  (1679, 1997), whether or not the message has arrived.
* A native open that is handled while early events are drained sets `readyState` to open,
  also when the application has closed the channel in its datachannel handler
  (1944-1948). The close then finds a channel that is not closing and does not end.
* `bufferedAmount` may be zero while the send thread's queue is full, and the next message is then
  dropped (`addon.cc` 119-121; `README.md` 52-53).
* With an operation and a deferred ICE event, a message may be dispatched before `open`,
  which alone waits for such events. `EventsInOrder` is therefore checked without
  operations, and proved where no ICE event is ever deferred.

Signaling, excluded by `Cautious`:

* `MayAnswer`: `createAnswer` is accepted in `stable`.
* `MayOffer`: an offer older than the last exchange is accepted, since
  `_lastCreatedOffer` is not cleared (2916-2918); it is known by having no data section
  where the current description has one. And while the paired peer has the answer
  applied, a set of an offer that was called before goes on against the remote offer.
* `MayAnswerWith`: so is an answer created for an earlier offer, since
  `_lastCreatedAnswer` is not cleared either (2896): it is known by having a data section
  where the offer has none, or none where it has one. The descriptions are then not an
  offer and its answer, and a restart or a renegotiation (3154, 3177) that relies on them
  goes wrong many calls later, beyond the bound of the run.
* `MayGuess`: `setLocalDescription()` in `have-local-pranswer` takes an offer to be
  meant (4151-4153).
* `MayRollback`: a pending provisional answer, and the flag of a JavaScript-only
  restart offer, survive a rollback (2816-2857, 4211-4241).
* `MayRestart`: an ICE restart in the role opposite to the first exchange. The native
  description is then still of the first role, and the refresh replaces the current
  local description by it (4544-4553). For the same reason a remote restart offer is
  handled in JavaScript alone (3154, 4356), while `docs/divergences.md` 230-231 says it
  is "applied natively". One that meets the native peer in the middle of an exchange
  leaves it there: the answer that would end it is applied in JavaScript only.
* `MayForget`: the flag of a remote restart offer survives its rollback (3120-3153), and
  a later `_ensureLocalAnswerApplied` commits an old answer in `stable` (4437-4441).

Signaling, excluded by `Chained` or `Unhurried`, or by a property's condition:

* Two set operations at a time: the implicit type is chosen before the `await`, and a
  remote answer is applied after awaiting the answering peer without testing the state
  again (3173-3190, 3206-3220).
* A native local description that arrives after a rollback, or after a later offer,
  becomes the current or pending one (4636-4647).
* A candidate that the peer of the same process hands over while an answer is missing goes
  to `_pendingIce` (3374-3378). The operations that take it out (2907, 3012, 3293, 4461)
  still count as pending then, so that `addIceCandidate` puts it back: an answerer keeps it
  for good. Nor is `_pendingIce` emptied by a rollback or by an answer that is applied in
  JavaScript alone (3205-3247).
* `setLocalDescription(await createAnswer())` in a renegotiation finds an answer
  already set and does nothing (2883-2909).
* While a provisional answer is pending, a native event or the refresh timer may change
  have-remote-pranswer into have-local-offer.
* An invalid remote offer in have-local-offer rolls the local one back before its
  syntax is looked at (3115-3119); modelled as it is.
* A paired peer that leaves while candidates are kept back flushes nothing here.

Transports:

* A loss of the ICE connection that comes between the start of the replay and its first
  timer is overwritten by "connected" (1305-1328).
* After the paired peer has closed, the end of an operation copies the native states
  back and may show the connection as up until its own events arrive.

Same-process channels:

* A synthetic channel that is adopted before its datachannel event was dispatched drains
  its held messages first (4603-4632), so a listener attached in that event misses
  them. Messages sent before the peers were paired are not counted, and the direct close
  of the paired channel may overtake them; and a synthetic message and a native one may
  overtake each other. All of this is in the model, and exempt in its property.
* `bufferedAmount` is decreased both by the native drain and by the report of delivery
  (1899-1914), and under-reports; not in the model.
* A synthetic channel that is closed before the native datachannel event comes is
  announced a second time, as a new channel; so is one that B closes before A does, by
  the repair. Both are in the model.
* `_adoptNative` sets a closing channel to open (1758-1772).

## Proofs

`EventDispatcherProofs`, for any number of messages and direct events:
`TypeCorrect`, `AtMostOneDrain` (with or without throwing callbacks),
`NoMessageStranded` (until a callback throws, which `dispatcher_stall` shows to
be needed) and `MessagesInOrder`. The inductive
invariant adds to these that `dispatchScheduled` is set exactly as long as a
drain is queued or running: it is the flag, not the queue, that `Emit` reads.
Two more rest on the same invariant. `ImplementsPath`: the dispatcher starts and steps as
`OrderedDelivery` does under the mapping of `OrderedPath` (`Bounded` keeps what was
delivered and the batch within what was accepted). `DirectsStayBehind`, about
`DirectOvertakesNothingQueued`: a queued direct event waits for no message beyond those
accepted, and one with no drain queued before it for none beyond the batch (`DirectInv`).
`Ordered`, which the users of the dispatcher build on, adds that direct events are numbered
in the order they wait, so that each comes once and after those of lower numbers.

`IncomingChannelProofs`, for any number of messages, operations and deferred ICE events,
any choice of what handlers do, and the end of the connection at any point:

* `TypeCorrect`. Each method is a lemma, and the three loops of the model (a native batch,
  the queued messages, the ICE flush) are followed by their least counterexample. The
  invariant (`Sound`) adds what keeps the count of deferred ICE events from running below
  zero: one flush at a time is scheduled, and it has an event to flush (`IceFlush`).
* `AnnouncedUntilClosed`: no open, message or closing before the datachannel event, and
  nothing but a datachannel event after close. The invariant (`Sequenced`) has two
  phases. Before the application is told of the channel (`Unannounced`), every queue that
  could dispatch is empty or waits for the announcement; afterwards (`InOrder`) the
  channel is closed as soon as close is in the log.
* `EventsComeInOrder`, that is `EventsInOrder`: with that, no message before open. Its
  hypothesis is `NothingDeferred`: no operations or no ICE events, so that none is deferred.
  Without it the property is false (see above). The invariant adds that no message is dispatched
  while the timer that announces open waits (the timers of the message gate stand behind
  it), and that as long as the native open is still to be handled, open was dispatched, has
  that timer, or cannot come any more since the channel is closing.
* `MessagesComeInOrder`, that is `MessagesInOrder`. Three queues can hold a message: the
  native events that wait for the announcement, those that wait for their drain, and the
  queued messages. The invariant (`Arranged`) is that the log, the queued messages and the
  two queues of native events hold numbers of consecutive ranges in that order
  (`Placed`): a message enters a queue only behind all that precede it, and leaves it only
  when the queues before it are empty. And what JavaScript has seen is somewhere in one of
  them, while the channel and the connection are open and nothing threw. That a queue
  implies a way out of it (events wait only for an announcement or a running drain, pending
  ones only while the channel is not known) is what makes the loops of a flush and of a
  drain keep the ranges.
* `RemoteCloseComesLast`, that is `RemoteCloseLosesNothing`, under two hypotheses:
  `GraceSuffices`, and no handler throws. Without either of them TLC finds a message
  that is dispatched after closing or never (with two messages). The close can overtake
  messages in the dispatcher, so the argument is about what is known when closing is
  dispatched. The invariant (`Over`, with `Ending`) says: a close that was handled has come
  from the native layer (`Ended`), and when the grace period is over, the batches have
  handed over all messages of the channel and no drain of early events runs (`Done`); for
  `DP!Backed` a message still in the dispatcher has a drain, which the grace period
  outlasts. With `Arranged`, every message not yet dispatched is then in the queue of
  messages, or waits for the announcement, and a poll that finds either waits. Steps that
  get the close no further (`Steady`) need one lemma for all of it.

`AsyncSenderProofs`, for any channels, threads, cap and number of sends: `TypeCorrect`,
`WakeupNotLost`, `OpenChannelsKeep` (what the thread has dealt with on an open channel is
on the wire, unless its own send threw) and `ImplementsPath`, the step half of its
refinement of `OrderedDelivery`: the invariant (`PathInv`) gives every accepted item its
place, handled, in the rest of the batch or in the queue, in that order.

`SendBufferProofs`, for any kinds and sizes of messages, any cap and any number of
sends: `Accounting` (the invariant adds the range of `settled`; that the flush
never has to clip at zero follows from it, because sums of sizes only grow),
`OrderKept` (the invariant adds that what was handed over is settled, so the next
call handed over is a later one), `SenderStepsOnly` (the channel is a user of
`AsyncSender`: its steps are that module's or leave the send queue alone), `TypeCorrect`
and `NothingTruncated`. The last is about channels that send strings only; its invariant
(`Truncation`) says that the send thread has nothing to do, that the tail is empty from the
first poll on, and that after the last poll that did not time out the native buffer is empty,
which no later send can change, since the channel is not open any more.

`TransportProofs`, about `PeerTeardown` for any disjoint sets of channels
(`ChannelsAssumption`): `TeardownTypeCorrect`, `HandOverIsComplete` and
`ClosedAreUnregistered`. The invariant (`Accounted`) adds where a
channel can be at each step of `AddChannel` (`Places`), that the flag precedes the
snapshot (`Stages`), and that what is registered has callbacks and what is on the
teardown's list has none (`Callbacks`).

`SignalingProofs`, for any number of calls, whatever descriptions the application passes
and however the native events, the timer, the answering peer and the tasks interleave:

* `TypeCorrect` and `OperationsAreCounted` (when no task is left and nothing waits,
  `ops` is zero: the first half of `DeferredCandidatesSettle`), without any hypothesis. The
  invariant (`Sound`) counts: `ops` is the number of tasks that are operations of this
  connection, and of calls that await an answerer (`Counting`). Such a call leaves the
  queue and comes back to its head, so that the calls of `setRemoteDescription` have
  distinct identities (`Identified`) is part of it.
* `StateIsThatOfDescriptions` and `CandidatesReachTheNativePeer`, that is
  `StateMatchesDescriptions` and `DeferredCandidatesSettle`, with `Chained` and `Cautious`
  as hypotheses, as in the run, and no assumption about native events. Without either
  hypothesis the first is false (see above), and the second rests on it: a state that
  leaves the descriptions could turn stable with nobody to look. The invariant (`Orderly`)
  says that there is one operation on descriptions at a time (`Single`); that the pending
  descriptions and the state are those of a phase of the exchange (`Phase`: while an answer
  is provisional the state may be that of either description); that what the task of an
  operation was called under still holds when it runs, although events, the paired peer and
  a close come between (`Prepared`); and that candidates are kept back only for a reason
  that goes away with a step which looks at them (`KeptBack`).
* `OperationsDoWhatTheyPromise` and `DescriptionsAreExchanged`, that is
  `SettledMeansApplied` and the refinement of `OfferAnswer`, with the hypothesis `Careful`:
  `Chained`, `Unhurried` and `Cautious`, and no remote description with the
  marker of a restart offer (`Unmarked`; the run has none either, the marker comes from a
  paired peer only). Their invariant (`Joined`, below) is kept
  beside the others: each step keeps it, is a step of the exchange or none (`Moves`), and
  settles an operation only if it has done what it was asked for (`Upheld`).

`Joined` is needed because the code reads the native peer, and what the native peer says is
not what JavaScript knows: an offer with data that is replaced by one without, and
answered, leaves the native peer in have-remote-offer with nothing pending. So the two do
not agree, and the invariant says how far they may differ. While the connection is open
(`Joint`), the current descriptions are an offer and its answer of the same media, and what
is described is what is pending or else current (`Described`); the native peer has the part
that the current description has, or a local offer that JavaScript has, too (`NativeFits`);
the local descriptions on their way in events are one, the one the native peer has
(`News`); an offer without data is not made once there was one with data (`Offered`); a
native remote offer that JavaScript no longer has is not answered by anyone (`Answerable`);
and an ICE restart that only JavaScript knows of is of the pending offer, with the native
peer out of the way (`Restarts`). Once it is closed there is no paired peer and nothing on
its way (`Gone`). `Fits` says of each task what it may rely on when it runs (`Expects`),
for an offer or a rollback also that no local description is on its way (`Silent`), which
is what `Unhurried` gives, and of one that is only to settle, what it has achieved
(`Achieved`).

`AnnouncementProofs`, with the hypothesis `Careful` too: `StateIsAnnounced`, that is
`StateAnnounced`. What could go wrong is that an operation suppresses a native event, or
one is ignored as outdated, that would have been the only one to tell of the state. The
invariant (`Announced`), kept beside `Joined`, says that a state not dispatched yet is that
of a native event on its way while nothing is suppressed (`Told`); that every suppression
is one that a task on its way is going to lift (`Held`); and, of an operation that awaits
an answerer, that the state it remembers is one that its answer is going to change
(`Watched`). That a native event is not ignored rests on `News` and `NativeFits`: native
states and JavaScript's agree as far as they say.

`DescriptionsArePaired`, with the same hypothesis, says of the connection what an exchange is
for: its current descriptions are an offer and its answer, or none, and a pending offer
excludes a pending offer of the other side. It follows from the refinement and two facts
about `OfferAnswer`.

`PairedChannelsProofs`, for any number of messages, empty or not, of operations and of
channels that B closes, and without an assumption about the application:

* `TypeCorrect`.
* `AnnouncedNeverTwice`. The invariant (`Fine`) adds that a channel not marked as announced
  has no event dispatched or pending, and that a pending announcement is of a channel that
  was not announced: the close, which clears the mark, is the only way back, and then it is
  another channel whose event follows.
* `ClosesAfterTheLast`, that is `CloseOvertakesNothing`. The invariant (`Delivery`) says where
  messages are: on the wire, in tasks, held, in the inbox or dispatched, and nowhere twice
  (`Places`); that along each route they are in order across these queues (`Lines`); that
  what is held waits for the announcement or for its drain (`Holding`); that nothing is under
  way to a channel that is not there (`Beginning`); that, as long as every message was sent
  linked, what A waits for is the number of messages that are not empty and still on their
  way (`Counting`); and that a close which knows its partner comes when there is none of
  them, or the drain gave up (`Ending`).

`TransportProofs`, about `SctpTransport` for any number of operations and of native states
ahead of their events, with or without a paired peer: `TypeCorrect`, `SettledStates` and
`ConnectionStays`. The invariant of the second says of every state, not only of a quiet
one, who is going to look: a transport is right, or a task is in the queue of immediates,
or an operation is pending whose end schedules one, or it is connecting and the poll is
set. `Updated` is its core: `Update` makes it true whatever the state was before, so only
the steps that do not call it need an argument. `ConnectionStays`, that is
`StaysConnected`, needs to know that no update finds a connection gone that was there. Its
invariant (`Standing`) relates what the peer sees to the native states and their events: a
connection that is seen has been reported by the native connection, or is shared with the
paired peer, or that peer has left (`Firm`); no event is ahead of the native states, and
the last one tells them as they are (`Ordered`). So a copy of the native states, or the
last event, either shows the connection, or that it failed, or there is one of the paired
peer (`Lasts`).

Every invariant and action property that a run checks of the code's specifications is a
theorem, under the hypotheses named above (`SettledMeansApplied` and `StateAnnounced` for
an `Unhurried` application only, where the run checks them of every one; `UnhurriedExchange`
as `ImplementsOfferAnswer`). Model-checked only is liveness (with it the
liveness half of the refinements of `OrderedDelivery`), which like ENABLED is beyond the
prover.

## Not modelled

* Payloads and their conversion, labels, statistics, SDP text, certificates, addon
  loading and installation, the conformance and release scripts: no state, or input and
  output only. Most of the implementation's lines that no module covers are these.
* The ICE UDP mux (`addon.cc` 472-600) is a smaller copy of the dispatcher's life cycle:
  one callback, no batches.
* Data channel ids: `PairedChannels` knows when a channel has one, not its number.
* The DTLS transport's state, which is derived from the connection's, and the limits of the SCTP
  transport; the native ICE state "completed" and a recovery from disconnected, which no
  step of the model generates.
* Several channels at a time, negotiated channels and re-pairing of peers of one process;
  the deadlines of five seconds of the repair and of the deferred open there; the
  suppression of spurious closes; error events.
* Explicit local ICE credentials, prepared descriptions and negotiationneeded.
* The registry of all peer connections and libdatachannel's global cleanup:
  `CloseAllPeerBindings` (`addon.cc` 1401-1427) may run on the thread of another
  environment, while `PeerTeardown` shuts a peer down on its own JavaScript thread.
