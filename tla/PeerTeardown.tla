---------------------------- MODULE PeerTeardown ----------------------------
(***************************************************************************)
(* struct PeerBinding and struct ChannelBinding of addon.cc: how a peer    *)
(* connection and its data channels are taken down while libdatachannel's  *)
(* threads still announce channels and report that channels have closed.   *)
(*                                                                         *)
(* The actors are the JavaScript thread (createDataChannel, close, the     *)
(* finalizer, environment cleanup), libdatachannel's threads (onDataChannel*)
(* and onClosed callbacks) and the thread of RunPeerTeardown.  A step is   *)
(* one critical section of channelsMutex, one access to the atomic         *)
(* `shutdown', or one call into libdatachannel.                            *)
(*                                                                         *)
(* libdatachannel (external): a callback runs under a lock of its own, so  *)
(* resetCallbacks returns only when no callback of that object is running; *)
(* a channel that is already closed when onClosed is set never calls it.   *)
(* What the callbacks emit is the subject of EventDispatcher.              *)
(*                                                                         *)
(* PTInit, PTNext and the like carry a prefix because TransportProofs      *)
(* extends this module together with SctpTransport.                        *)
(***************************************************************************)
EXTENDS Naturals

CONSTANTS
    LocalChannels,      \* bound: channels createDataChannel makes
    RemoteChannels      \* bound: channels the remote peer opens

ASSUME ChannelsAssumption == LocalChannels \cap RemoteChannels = {}

Channels == LocalChannels \cup RemoteChannels

VARIABLES
    step,               \* where AddChannel stands with each channel
    shutdown,           \* PeerBinding::shutdown
    channels,           \* PeerBinding::channels
    hooked,             \* channels whose callbacks are attached
    closed,             \* channels for which isClosed() holds
    calling,            \* channels whose onClosed callback is running
    prepare,            \* what the JavaScript thread does in PrepareShutdown
    channelSnapshot,    \* channels PrepareShutdown has yet to destroy
    work,               \* PeerTeardownWork::dataChannels
    teardown,           \* what RunPeerTeardown does
    sync                \* DestroySync: the JavaScript thread runs it itself

bindingVars == <<step, channels, hooked, closed, calling>>
shutdownVars == <<shutdown, prepare, channelSnapshot, work, teardown, sync>>
PTvars == <<step, shutdown, channels, hooked, closed, calling, prepare,
          channelSnapshot, work, teardown, sync>>

Adding == {"made", "checked", "attached", "registered", "refused"}

PTTypeOK ==
    /\ step \in [Channels -> {"none", "done"} \cup Adding]
    /\ shutdown \in BOOLEAN
    /\ channels \subseteq Channels
    /\ hooked \subseteq Channels
    /\ closed \subseteq Channels
    /\ calling \subseteq Channels
    /\ prepare \in {"idle", "marked", "destroying", "handed"}
    /\ channelSnapshot \subseteq Channels
    /\ work \subseteq Channels
    /\ teardown \in {"none", "channels", "waiting", "released"}
    /\ (teardown = "none") <=> (prepare # "handed")
    /\ sync \in BOOLEAN

PTInit ==
    /\ step = [c \in Channels |-> "none"]
    /\ shutdown = FALSE
    /\ channels = {}
    /\ hooked = {}
    /\ closed = {}
    /\ calling = {}
    /\ prepare = "idle"
    /\ channelSnapshot = {}
    /\ work = {}
    /\ teardown = "none"
    /\ sync = FALSE

Made == {c \in Channels : step[c] # "none"}

\* Channels on their way through AddChannel.
InAddChannel == {c \in Channels : step[c] \in Adding}

JavaScriptIdle ==
    /\ prepare \in {"idle", "handed"}
    /\ sync => teardown = "released"
    /\ InAddChannel \cap LocalChannels = {}

-----------------------------------------------------------------------------
\* Channels come to be, and AddChannel

\* JavaScript creates no channel once it has closed the peer connection, and
\* neither a finalizer nor environment cleanup leaves it anyone to ask.
CreateDataChannel(c) ==
    /\ c \in LocalChannels
    /\ step[c] = "none"
    /\ JavaScriptIdle
    /\ ~shutdown
    /\ step' = [step EXCEPT ![c] = "made"]
    /\ UNCHANGED <<shutdownVars, channels, hooked, closed, calling>>

\* One onDataChannel callback at a time, until the peer's callbacks are reset.
OnDataChannel(c) ==
    /\ c \in RemoteChannels
    /\ step[c] = "none"
    /\ teardown = "none"
    /\ InAddChannel \cap RemoteChannels = {}
    /\ step' = [step EXCEPT ![c] = "made"]
    /\ UNCHANGED <<shutdownVars, channels, hooked, closed, calling>>

\* The first test of shutdown; a late channel is closed unseen.
CheckShutdown(c) ==
    /\ step[c] = "made"
    /\ step' = [step EXCEPT ![c] = IF shutdown THEN "done" ELSE "checked"]
    /\ closed' = IF shutdown THEN closed \cup {c} ELSE closed
    /\ UNCHANGED <<shutdownVars, channels, hooked, calling>>

AttachCallbacks(c) ==
    /\ step[c] = "checked"
    /\ step' = [step EXCEPT ![c] = "attached"]
    /\ hooked' = hooked \cup {c}
    /\ UNCHANGED <<shutdownVars, channels, closed, calling>>

\* Fault: shutdown is not tested again under channelsMutex.
RegisterUnchecked(c) ==
    /\ step[c] = "attached"
    /\ channels' = channels \cup {c}
    /\ step' = [step EXCEPT ![c] = "registered"]
    /\ UNCHANGED <<shutdownVars, hooked, closed, calling>>

\* The second test, under channelsMutex.
Register(c) ==
    /\ step[c] = "attached"
    /\ \/ /\ ~shutdown
          /\ channels' = channels \cup {c}
          /\ step' = [step EXCEPT ![c] = "registered"]
       \/ /\ shutdown
          /\ step' = [step EXCEPT ![c] = "refused"]
          /\ UNCHANGED channels
    /\ UNCHANGED <<shutdownVars, hooked, closed, calling>>

\* ChannelBinding::Destroy waits for the channel's running callback.
Refuse(c) ==
    /\ step[c] = "refused"
    /\ c \notin calling
    /\ step' = [step EXCEPT ![c] = "done"]
    /\ hooked' = hooked \ {c}
    /\ closed' = closed \cup {c}
    /\ UNCHANGED <<shutdownVars, channels, calling>>

\* Fault: the channel is not looked at again once it is registered.
RecheckNothing(c) ==
    /\ step[c] = "registered"
    /\ step' = [step EXCEPT ![c] = "done"]
    /\ UNCHANGED <<shutdownVars, channels, hooked, closed, calling>>

\* A channel may have closed before it was in the map, even before it had
\* callbacks.
RecheckClosed(c) ==
    /\ step[c] = "registered"
    /\ step' = [step EXCEPT ![c] = "done"]
    /\ channels' = IF c \in closed THEN channels \ {c} ELSE channels
    /\ UNCHANGED <<shutdownVars, hooked, closed, calling>>

AddChannel(c) ==
    \/ CheckShutdown(c)
    \/ AttachCallbacks(c)
    \/ Register(c)
    \/ Refuse(c)
    \/ RecheckClosed(c)

-----------------------------------------------------------------------------
\* Channels close

\* The remote peer, the transport, or the thread of ChannelBinding::Close.
ChannelCloses(c) ==
    /\ c \in Made \ closed
    /\ closed' = closed \cup {c}
    /\ calling' = IF c \in hooked THEN calling \cup {c} ELSE calling
    /\ UNCHANGED <<shutdownVars, step, channels, hooked>>

\* Fault: PrepareShutdown keeps channelsMutex while it destroys the channels.
OnClosedLocked(c) ==
    /\ c \in calling
    /\ prepare # "destroying"
    /\ channels' = channels \ {c}
    /\ calling' = calling \ {c}
    /\ UNCHANGED <<shutdownVars, step, hooked, closed>>

\* The end of the onClosed callback: RemoveChannel.
OnClosed(c) ==
    /\ c \in calling
    /\ channels' = channels \ {c}
    /\ calling' = calling \ {c}
    /\ UNCHANGED <<shutdownVars, step, hooked, closed>>

-----------------------------------------------------------------------------
\* Shutdown

\* ClosePeer and the finalizer leave the teardown to a thread, CloseAllPeerBindings
\* does it at once.  Later calls find shutdown set and do nothing.
BeginShutdown ==
    /\ JavaScriptIdle
    /\ ~shutdown
    /\ shutdown' = TRUE
    /\ prepare' = "marked"
    /\ sync' \in BOOLEAN
    /\ UNCHANGED <<bindingVars, channelSnapshot, work, teardown>>

TakeSnapshot ==
    /\ prepare = "marked"
    /\ prepare' = "destroying"
    /\ channelSnapshot' = channels
    /\ channels' = {}
    /\ UNCHANGED <<step, hooked, closed, calling, shutdown, work, teardown, sync>>

\* The map's order is arbitrary.
DestroyChannel(c) ==
    /\ prepare = "destroying"
    /\ c \in channelSnapshot \ calling
    /\ hooked' = hooked \ {c}
    /\ channelSnapshot' = channelSnapshot \ {c}
    /\ work' = work \cup {c}
    /\ UNCHANGED <<step, channels, closed, calling, shutdown, prepare, teardown,
                   sync>>

\* Fault: shutdown goes on as if it were still destroying channels.
HandOverAgain ==
    /\ prepare = "destroying"
    /\ channelSnapshot = {}
    /\ InAddChannel \cap RemoteChannels = {}
    /\ teardown' = "channels"
    /\ UNCHANGED <<bindingVars, shutdown, prepare, channelSnapshot, work, sync>>

\* DeactivateCallbacks waits for a running onDataChannel; then the dispatcher is
\* closed and the handle moves to the teardown.
HandOver ==
    /\ prepare = "destroying"
    /\ channelSnapshot = {}
    /\ InAddChannel \cap RemoteChannels = {}
    /\ prepare' = "handed"
    /\ teardown' = "channels"
    /\ UNCHANGED <<bindingVars, shutdown, channelSnapshot, work, sync>>

CloseDataChannelForTeardown(c) ==
    /\ teardown = "channels"
    /\ c \in work
    /\ closed' = closed \cup {c}
    /\ work' = work \ {c}
    /\ UNCHANGED <<step, channels, hooked, calling, shutdown, prepare,
                   channelSnapshot, teardown, sync>>

ClosePeerConnection ==
    /\ teardown = "channels"
    /\ work = {}
    /\ teardown' = "waiting"
    /\ UNCHANGED <<bindingVars, shutdown, prepare, channelSnapshot, work, sync>>

\* The peer has closed, or PEER_CLOSE_TIMEOUT has passed.
ReleasePeerConnection ==
    /\ teardown = "waiting"
    /\ teardown' = "released"
    /\ UNCHANGED <<bindingVars, shutdown, prepare, channelSnapshot, work, sync>>

PrepareShutdown ==
    \/ TakeSnapshot
    \/ \E c \in Channels : DestroyChannel(c)
    \/ HandOver

RunPeerTeardown ==
    \/ \E c \in Channels : CloseDataChannelForTeardown(c)
    \/ ClosePeerConnection
    \/ ReleasePeerConnection

PTNext ==
    \/ \E c \in Channels : \/ CreateDataChannel(c)
                           \/ OnDataChannel(c)
                           \/ AddChannel(c)
                           \/ ChannelCloses(c)
                           \/ OnClosed(c)
    \/ BeginShutdown
    \/ PrepareShutdown
    \/ RunPeerTeardown

\* Threads that can run do run.  Nobody has to open or close anything.
PTFairness ==
    /\ \A c \in Channels : WF_PTvars(AddChannel(c)) /\ WF_PTvars(OnClosed(c))
    /\ WF_PTvars(PrepareShutdown)
    /\ WF_PTvars(RunPeerTeardown)

PTSpec == PTInit /\ [][PTNext]_PTvars
PTFairSpec == PTSpec /\ PTFairness

-----------------------------------------------------------------------------
\* When the handles go to the teardown, nobody else works on them: the map is
\* empty, no channel is on its way through AddChannel, and every channel ever
\* made is closed or on the teardown's list with its callbacks gone.  (The two
\* tests of shutdown in AddChannel against the flag, the snapshot and the reset
\* in PrepareShutdown.)
HandOverComplete ==
    teardown # "none" =>
        /\ channels = {}
        /\ InAddChannel = {}
        /\ Made \subseteq closed \cup work
        /\ work \cap (hooked \cup calling) = {}

\* A closed channel does not stay in the map, whenever it closed: before its
\* callbacks were attached, between that and its registration, or afterwards.
\* (RemoveChannel from onClosed, and the isClosed test at the end of AddChannel.)
ClosedUnregistered ==
    \A c \in channels \cap closed : step[c] = "registered" \/ c \in calling

\* Once begun, a shutdown releases the peer connection with every channel closed:
\* the JavaScript thread, the callbacks it waits for and the teardown never wait
\* for each other in a circle.  (channelsMutex and callbacksMutex are given up
\* before resetCallbacks.)
ShutdownCompletes ==
    shutdown ~> /\ teardown = "released"
                /\ channels = {}
                /\ Made \subseteq closed

=============================================================================
