------------------------------ MODULE Signaling ------------------------------
(***************************************************************************)
(* The signaling operations of one RTCPeerConnection (lib/index.js):       *)
(* createOffer, createAnswer, setLocalDescription, setRemoteDescription,   *)
(* addIceCandidate, restartIce and close, with the native peer connection  *)
(* they drive, its events, and an answering peer of the same process.      *)
(*                                                                         *)
(* Every operation counts itself in ops, waits for a task of setImmediate, *)
(* does its work, usually waits for another task, and is counted down.     *)
(* These tasks run in the order they were scheduled; calls of the          *)
(* application, native events and the refresh timer run between any two.   *)
(*                                                                         *)
(* A description is what the code asks of its SDP: its type, whether it    *)
(* has an application (data) section or no media section at all, its ICE   *)
(* credentials, and whether the object bears the marker of an ICE restart  *)
(* that only JavaScript knows of.  s holds the state; the operators are    *)
(* the methods of the source.  Explicit local ICE credentials are not set. *)
(***************************************************************************)
EXTENDS Naturals, Sequences

CONSTANTS
    MaxCalls,           \* bound: calls of the application
    Remotes,            \* what it passes to setRemoteDescription
    Chained,            \* does it await each description before the next
    Unhurried,          \* does it begin or roll back an exchange only after the
                        \* event that tells of its last local description
    Cautious            \* do both sides avoid what the May operators allow

Descriptions ==
    [type : {"none", "offer", "answer", "pranswer", "rollback"},
     data : BOOLEAN, cred : Nat, restart : BOOLEAN]

ASSUME SignalingAssumption ==
    /\ MaxCalls \in Nat
    /\ {Chained, Unhurried, Cautious} \subseteq BOOLEAN
    /\ Remotes \subseteq {d \in Descriptions : d.type \in {"offer", "answer", "pranswer"}}

HLO == "have-local-offer"
HRO == "have-remote-offer"
HLP == "have-local-pranswer"
HRP == "have-remote-pranswer"
SignalingStates == {"stable", HLO, HRO, HLP, HRP, "closed"}

NoDesc == [type |-> "none", data |-> FALSE, cred |-> 0, restart |-> FALSE]
Local(type, data) == [NoDesc EXCEPT !.type = type, !.data = data, !.cred = 1]
Remote(type, data, cred) ==
    [NoDesc EXCEPT !.type = type, !.data = data, !.cred = cred]
Rollback == [NoDesc EXCEPT !.type = "rollback"]

IsNoMedia(d) == d # NoDesc /\ ~d.data
MarkRestart(d) == [d EXCEPT !.restart = TRUE]
Or(d, e) == IF d # NoDesc THEN d ELSE e

VARIABLES
    s,                  \* the state of the RTCPeerConnection
    tasks,              \* operations whose continuation is scheduled, in order
    waiting,            \* those that await _ensureLocalAnswerApplied
    calls,              \* history: the calls of the application
    outcome             \* the set operation fulfilled by the last step

vars == <<s, tasks, waiting, calls, outcome>>

NoOutcome == [by |-> "none", type |-> "none", explicit |-> FALSE]

InitState(cl, cr) ==
    [closed     |-> FALSE,
     sig        |-> "stable",   \* _signalingState
     dispatched |-> "stable",   \* _lastDispatchedSignalingState
     l  |-> cl, cl |-> cl, pl |-> NoDesc,   \* _localDescription, current, pending
     r  |-> cr, cr |-> cr, pr |-> NoDesc,   \* _remoteDescription, current, pending
     lastOffer  |-> NoDesc,
     lastAnswer |-> NoDesc,
     suppress   |-> "none",     \* _suppressNextNativeSignalingState
     restart    |-> FALSE,      \* _iceRestartPending
     jsOffer    |-> FALSE,      \* _jsOnlyIceRestartOfferPending
     jsRemote   |-> FALSE,      \* _jsOnlyIceRestartRemoteOffer
     ops        |-> 0,          \* _operationsPending
     refresh    |-> FALSE,      \* _localDescriptionRefreshScheduled
     queued     |-> {},         \* _pendingRemoteCandidatesForNative
     pendingIce |-> FALSE,      \* _pendingIce has a candidate
     channels   |-> cl.data,    \* is there a data channel
     paired     |-> "none",     \* the paired peer: idle, busy, or gone
     native     |-> IF cl = NoDesc THEN "none" ELSE "live",
     misused    |-> FALSE,      \* history: native call after close
     nsig       |-> "stable",   \* the native signaling state
     nl         |-> cl,         \* the native local description
     ncl        |-> cl,         \* what a native rollback returns to
     events     |-> <<>>]       \* native events on their way

\* A new connection, or one that has been through an exchange.
Init ==
    /\ \E ends \in {<<NoDesc, NoDesc>>,
                    <<Local("offer", TRUE), Remote("answer", TRUE, 2)>>,
                    <<Local("answer", TRUE), Remote("offer", TRUE, 2)>>} :
            s = InitState(ends[1], ends[2])
    /\ tasks = <<>>
    /\ waiting = {}
    /\ calls = 0
    /\ outcome = NoOutcome

-----------------------------------------------------------------------------
\* The descriptions and the signaling state

RemoteDescription(t) == Or(t.pr, t.cr)

DescriptionSignalingState(t) ==
    IF t.closed THEN "closed"
    ELSE IF t.pl.type = "offer" THEN HLO
    ELSE IF t.pr.type = "offer" THEN HRO
    ELSE IF t.pl.type = "pranswer" THEN HLP
    ELSE IF t.pr.type = "pranswer" THEN HRP
    ELSE "stable"

SyncSignalingState(t) ==
    [t EXCEPT !.sig = IF t.jsOffer THEN HLO ELSE DescriptionSignalingState(t)]

SyncStatesFromNative(t) ==
    IF t.closed \/ t.native = "none" THEN t ELSE SyncSignalingState(t)

Dispatch(t) == [t EXCEPT !.dispatched = t.sig]
DispatchIfChanged(t, before) == IF t.sig = before THEN t ELSE Dispatch(t)
EnterState(t, state, before) == DispatchIfChanged([t EXCEPT !.sig = state], before)

SetPendingLocal(t, d) == [t EXCEPT !.pl = d, !.l = d]
SetPendingRemote(t, d) == [t EXCEPT !.pr = d, !.r = d]
RollbackLocal(t) == [t EXCEPT !.pl = NoDesc, !.l = t.cl]
RollbackRemote(t) == [t EXCEPT !.pr = NoDesc, !.r = t.cr]

\* Fault: the pending description stays where it was.
CommitLocalOnly(t, d) ==
    LET c == Or(d, t.cl) IN [t EXCEPT !.cl = c, !.l = c]

CommitLocal(t, d) ==
    LET c == Or(d, t.cl) IN [t EXCEPT !.cl = c, !.pl = NoDesc, !.l = c]
CommitRemote(t, d) ==
    LET c == Or(d, t.cr) IN [t EXCEPT !.cr = c, !.pr = NoDesc, !.r = c]

CommitPendingLocal(t) == CommitLocal(t, Or(t.pl, t.l))
CommitPendingRemote(t) == CommitRemote(t, Or(t.pr, t.r))

\* Fault: the current description is refreshed, whichever has that type.
RefreshCurrentLocal(t, d) == [t EXCEPT !.l = d, !.cl = d]

RefreshCurrentOrPendingLocal(t, d) ==
    IF t.pl.type = d.type THEN [t EXCEPT !.l = d, !.pl = d]
                          ELSE [t EXCEPT !.l = d, !.cl = d]

\* The gathering state is left out: the rollback of a first offer makes it new again.
CanApplyNativeIceCredentials(t) == {t.l, t.cl, t.pl} = {NoDesc}

-----------------------------------------------------------------------------
\* The native peer connection (libdatachannel, external)

\* The first call makes it; close hands its handle to the teardown.
EnsureNative(t) ==
    [t EXCEPT !.native = IF t.native = "none" THEN "live" ELSE t.native,
              !.misused = t.misused \/ t.closed]

Emit(t, event) == [t EXCEPT !.events = Append(t.events, event)]
StateEvent(state) ==
    [type |-> "signalingstatechange", state |-> state, desc |-> NoDesc]
DescriptionEvent(d) ==
    [type |-> "localdescription", state |-> "none", desc |-> d]

NativeState(t, state) ==
    IF t.nsig = state THEN t
    ELSE Emit([t EXCEPT !.nsig = state], StateEvent(state))

NativeAcceptsLocal(t, type) ==
    /\ t.native # "handed"
    /\ \/ type = "offer" /\ t.nsig = "stable"
       \/ type = "answer" /\ t.nsig = HRO

NativeSetLocal(t, type) ==
    LET d == Local(type, TRUE)
        n == [EnsureNative(t) EXCEPT !.nl = d,
                                     !.ncl = IF type = "answer" THEN d ELSE t.ncl]
    IN  NativeState(Emit(n, DescriptionEvent(d)),
                    IF type = "offer" THEN HLO ELSE "stable")

NativeAcceptsRemote(t, type) ==
    /\ t.native # "handed"
    /\ \/ type = "offer" /\ t.nsig = "stable"
       \/ type = "answer" /\ t.nsig = HLO

NativeSetRemote(t, d) ==
    LET n == [EnsureNative(t) EXCEPT !.ncl = IF d.type = "answer" THEN t.nl ELSE t.ncl]
    IN  NativeState(n, IF d.type = "offer" THEN HRO ELSE "stable")

NativeRollbackLocal(t) ==
    IF t.nsig # HLO THEN EnsureNative(t)
    ELSE NativeState([EnsureNative(t) EXCEPT !.nl = t.ncl], "stable")

NativeRollbackRemote(t) ==
    IF t.nsig # HRO THEN EnsureNative(t) ELSE NativeState(EnsureNative(t), "stable")

-----------------------------------------------------------------------------
\* Remote candidates, and the end of an operation

\* A paired peer is busy while it has a local offer or operations pending.
DeferCandidates(t) ==
    /\ t.r.type = "offer"
    /\ t.sig = HRO \/ t.paired = "busy" \/ t.ops > 0

FlushCandidates(t) ==
    IF t.r = NoDesc \/ DeferCandidates(t) \/ t.queued = {} THEN t
    ELSE [EnsureNative(t) EXCEPT !.queued = {}]

\* _addExchangedLocalCandidate, for the one candidate of its kind
AddExchangedCandidate(t) ==
    IF RemoteDescription(t) = NoDesc \/ DeferCandidates(t)
    THEN [t EXCEPT !.pendingIce = TRUE]
    ELSE [EnsureNative(t) EXCEPT !.pendingIce = FALSE]

AddPendingCandidates(t) ==
    FlushCandidates(IF t.pendingIce THEN AddExchangedCandidate(t) ELSE t)

\* Fault: nothing is flushed when the last operation ends.
FinishWithoutFlush(t) == [t EXCEPT !.ops = IF t.ops > 0 THEN t.ops - 1 ELSE 0]

FinishPendingOperation(t) ==
    LET n == [t EXCEPT !.ops = IF t.ops > 0 THEN t.ops - 1 ELSE 0]
    IN  IF n.ops = 0 THEN FlushCandidates(n) ELSE n

Pair(t, here) == IF here THEN [t EXCEPT !.paired = "busy"] ELSE t

-----------------------------------------------------------------------------
\* Operations as tasks

NewTask(op) ==
    [op |-> op, at |-> "work", id |-> 0,
     desc |-> NoDesc,           \* the description passed, if any
     type |-> "none",           \* its type, or the implicit one
     restart |-> FALSE,         \* createOffer({ iceRestart: true })
     here |-> FALSE,            \* from a peer of this process
     valid |-> TRUE,            \* does its SDP parse
     before |-> "none",         \* previousState, kept across an await
     suppressed |-> "none"]     \* suppressedNativeSignalingState

SetOps == {"setLocal", "setRemote"}
DescriptionOps == SetOps \cup {"createOffer", "createAnswer"}

InProgress(ops) == waiting # {} \/ \E i \in 1 .. Len(tasks) : tasks[i].op \in ops

Pranswers == {d \in {s.pl, s.pr} : d.type = "pranswer"}

\* Flaws of the source that only some exchanges meet (see README): the roles of
\* an ICE restart differ from those the native peer keeps, or it starts in the
\* middle of a native exchange; an ICE restart offer, on either side, or an offer
\* with a pranswer is rolled back; the type of a description is guessed after a
\* pranswer; an answer is created without an offer; and a description is set that
\* is older than what it follows: an offer than the last exchange, an answer than
\* the offer it answers; or an offer against that of the other peer.
MayRestart(type) == Cautious => s.nl.type # type /\ s.nsig = "stable"
MayRollback == Cautious => ~s.jsOffer /\ Pranswers = {}
MayForget == Cautious => ~s.jsRemote
MayGuess == Cautious => s.sig # HLP
MayAnswer == Cautious => s.sig \in {HRO, HLP}
MayOffer(d) ==
    Cautious => /\ d.type = "offer" => s.sig \notin {HRO, HLP}
                /\ LET offer == Or(d, s.lastOffer)
                   IN  offer.type = "offer" /\ s.cl.data => offer.data
MayAnswerWith(d) ==
    Cautious => LET answer == Or(d, s.lastAnswer)
                IN  answer.type = "answer" /\ s.sig \in {HRO, HLP} =>
                        answer.data = RemoteDescription(s).data

\* No native event is on its way that tells of a local description.
MayBegin ==
    Unhurried => \A i \in 1 .. Len(s.events) : s.events[i].type # "localdescription"

CanCall(op) ==
    /\ ~s.closed
    /\ calls < MaxCalls
    /\ Chained /\ op \in DescriptionOps => ~InProgress(DescriptionOps)

Start(task) ==
    /\ s' = [s EXCEPT !.ops = s.ops + 1]
    /\ tasks' = Append(tasks, [task EXCEPT !.id = calls])
    /\ calls' = calls + 1
    /\ outcome' = NoOutcome
    /\ UNCHANGED waiting

Ready == tasks # <<>>

At(op, at) == Ready /\ Head(tasks).op = op /\ Head(tasks).at = at
Task == Head(tasks)

\* The operation awaits another task.
AwaitAs(t, task) ==
    /\ s' = t
    /\ tasks' = Append(Tail(tasks), task)
    /\ outcome' = NoOutcome
    /\ UNCHANGED <<waiting, calls>>

Await(t, at) == AwaitAs(t, [Task EXCEPT !.at = at])

\* Its promise settles, unless the connection was closed before.
Settle(t) ==
    /\ s' = FinishPendingOperation(t)
    /\ tasks' = Tail(tasks)
    /\ outcome' = IF Task.op \in SetOps /\ ~t.closed
                  THEN [by |-> Task.op, type |-> Task.type,
                        explicit |-> Task.desc # NoDesc]
                  ELSE NoOutcome
    /\ UNCHANGED <<waiting, calls>>

Reject(t) ==
    /\ s' = FinishPendingOperation(t)
    /\ tasks' = Tail(tasks)
    /\ outcome' = NoOutcome
    /\ UNCHANGED <<waiting, calls>>

-----------------------------------------------------------------------------
\* createOffer and createAnswer

\* Its application section stays once it was negotiated.
NativeOffer(t) == Local("offer", t.channels \/ t.nl # NoDesc)

CallCreateOffer ==
    /\ CanCall("createOffer")
    /\ s.sig \in {"stable", HLO}
    /\ \E restart \in BOOLEAN :
           /\ restart => MayRestart("answer")
           /\ Start([NewTask("createOffer") EXCEPT !.restart = restart])

CreateOffer ==
    /\ At("createOffer", "work")
    /\ LET t == [EnsureNative(s) EXCEPT !.restart = s.restart \/ Task.restart]
           offer == [NativeOffer(s) EXCEPT
                         !.restart = t.restart /\ ~CanApplyNativeIceCredentials(s)]
       IN  IF s.native = "handed" THEN Reject(t)
           ELSE Settle([t EXCEPT !.lastOffer = offer])

CallCreateAnswer ==
    /\ CanCall("createAnswer")
    /\ RemoteDescription(s) # NoDesc /\ MayAnswer
    /\ Start(NewTask("createAnswer"))

\* An answer to an offer without media needs no native peer.
CreateAnswer ==
    /\ At("createAnswer", "work")
    /\ LET r == RemoteDescription(s)
           answer == [Local("answer", r.data) EXCEPT !.restart = s.jsRemote]
       IN  \/ /\ IsNoMedia(r) /\ ~s.jsRemote
              /\ Settle([s EXCEPT !.lastAnswer = answer])
           \/ /\ ~IsNoMedia(r) \/ s.jsRemote
              /\ r # NoDesc /\ s.native # "handed"
              /\ Settle([EnsureNative(s) EXCEPT !.lastAnswer = answer])
           \/ /\ ~IsNoMedia(r) \/ s.jsRemote
              /\ r = NoDesc \/ s.native = "handed"
              /\ Reject(EnsureNative(s))

-----------------------------------------------------------------------------
\* setLocalDescription

\* The application passes what createOffer returned, without its marker.
Plain(d) == [d EXCEPT !.restart = FALSE]

ImplicitType(t) == IF t.sig = HRO THEN "answer" ELSE "offer"

CallSetLocal ==
    /\ CanCall("setLocal")
    /\ \E d \in {NoDesc, Rollback, Plain(s.lastOffer), s.lastAnswer,
                IF s.lastAnswer = NoDesc THEN NoDesc
                ELSE [s.lastAnswer EXCEPT !.type = "pranswer"]} :
           /\ d = Rollback => s.sig = HLO \/ s.ops > 0
           /\ d = Rollback => MayRollback
           /\ d = NoDesc => MayGuess
           /\ d.type \in {"offer", "rollback"} \/ (d = NoDesc /\ ImplicitType(s) = "offer") =>
                  MayBegin
           /\ s.restart /\ s.sig = "stable" => MayRestart("answer")
           /\ MayOffer(d) /\ MayAnswerWith(d)
           /\ Start([NewTask("setLocal") EXCEPT
                        !.desc = d,
                        !.type = IF d = NoDesc THEN ImplicitType(s) ELSE d.type])

\* Either the same SDP, or any answer this peer made with its native peer.
AlreadyApplied(t, d) ==
    /\ d.type = "answer" /\ t.l.type = "answer"
    /\ d.data \/ (~t.l.data /\ t.pr = NoDesc)

InvalidLocal(t, d) ==
    \/ d.type = "offer" /\ (t.sig \notin {"stable", HLO} \/ d # Plain(t.lastOffer))
    \/ d.type = "rollback" /\ t.sig # HLO
    \/ d.type = "pranswer" /\ t.sig \notin {HRO, HLP}
    \/ d.type = "answer" /\ ~AlreadyApplied(t, d) /\ t.sig \notin {HRO, HLP}
    \/ d.type = "answer" /\ d # t.lastAnswer

\* The description a task without one applies.
ImplicitLocal(t, type) ==
    IF type = "offer" THEN Or(t.lastOffer, NativeOffer(t))
    ELSE Or(t.lastAnswer, Local("answer", RemoteDescription(t).data))

AppliesNoMedia(t, d, type) ==
    \/ IsNoMedia(d)
    \/ d = NoDesc /\ type = "offer" /\ IsNoMedia(ImplicitLocal(t, type))
    \/ d = NoDesc /\ type = "answer" /\ IsNoMedia(RemoteDescription(t))

\* A renegotiation that changes nothing stays in JavaScript.
DataOnlyLocalOffer(t, d) ==
    /\ ~t.restart /\ t.sig = "stable"
    /\ t.cl.type = "offer" /\ t.cr.type = "answer"
    /\ t.cl.data /\ t.cr.data
    /\ d = NoDesc \/ (d.data /\ d.cred = t.cl.cred)

DataOnlyLocalAnswer(t, d) ==
    /\ t.pr.type = "offer" /\ t.cr.type = "offer" /\ t.cl.type = "answer"
    /\ t.pr.data /\ t.cr.data /\ t.cl.data
    /\ t.pr.cred = t.cr.cred
    /\ d = NoDesc \/ (d.data /\ d.cred = t.cl.cred)

\* Which of its ways setLocalDescription goes after the first task.
LocalPath(t, d, type) ==
    IF t.closed THEN "closed"
    ELSE IF InvalidLocal(t, d) THEN "invalid"
    ELSE IF d.type \in {"rollback", "pranswer"} THEN d.type
    ELSE IF AlreadyApplied(t, d) THEN "applied"
    ELSE IF AppliesNoMedia(t, d, type) THEN "noMedia"
    ELSE IF type = "answer" /\ t.jsRemote THEN "restartAnswer"
    ELSE IF type = "offer" /\ DataOnlyLocalOffer(t, d) THEN "dataOnly"
    ELSE IF type = "answer" /\ DataOnlyLocalAnswer(t, d) THEN "dataOnly"
    ELSE IF type = t.l.type /\ type # "offer" /\ t.pr = NoDesc THEN "sync"
    ELSE IF type = "offer" /\ t.restart /\ ~CanApplyNativeIceCredentials(t)
         THEN "restartOffer"
    ELSE IF NativeAcceptsLocal(t, type) THEN "native"
    ELSE "invalid"

LocalWork(path) == At("setLocal", "work")
                   /\ LocalPath(s, Task.desc, Task.type) = path

SetLocalClosed == LocalWork("closed") /\ Reject(s)
SetLocalInvalid == LocalWork("invalid") /\ Reject(s)

\* Also what a remote offer does to a pending local one.
RollbackLocalOffer(t) ==
    LET n == IF t.l # NoDesc /\ t.l.data
             THEN NativeRollbackLocal([t EXCEPT !.suppress = "stable"]) ELSE t
    IN  EnterState([RollbackLocal(n) EXCEPT !.paired = "none"], "stable", t.sig)

SetLocalRollback ==
    LocalWork("rollback") /\ Await(RollbackLocalOffer(s), "clear")

SetLocalPranswer ==
    /\ LocalWork("pranswer")
    /\ Await(EnterState(SetPendingLocal(s, Task.desc), HLP, s.sig), "done")

SetLocalApplied ==
    LocalWork("applied") /\ Settle(AddPendingCandidates(SyncStatesFromNative(s)))

\* Fault: the offer it answers stays pending.
CommitAnswerOnly(t, answer) == CommitLocal(t, answer)

CommitAnswer(t, answer) == CommitLocal(CommitPendingRemote(t), answer)

\* The event is dispatched whether the state changes or not.
SetLocalNoMedia ==
    /\ LocalWork("noMedia")
    /\ LET d == Or(Task.desc, ImplicitLocal(s, Task.type))
           t == IF Task.desc = NoDesc /\ Task.type = "offer" /\ s.lastOffer = NoDesc
                THEN EnsureNative(s) ELSE s
       IN  \/ d.type = "offer"
              /\ Await(Dispatch([SetPendingLocal(t, d) EXCEPT !.sig = HLO]), "done")
           \/ d.type = "answer"
              /\ Await(Dispatch([CommitAnswer(t, d) EXCEPT !.sig = "stable"]), "done")

\* _applyJsOnlyLocalAnswer
ApplyRestartAnswer(t, answer) ==
    EnterState([CommitAnswer(t, MarkRestart(answer)) EXCEPT !.jsRemote = FALSE],
               "stable", t.sig)

SetLocalRestartAnswer ==
    /\ LocalWork("restartAnswer")
    /\ Await(ApplyRestartAnswer(s, Or(Task.desc, ImplicitLocal(s, "answer"))), "done")

SetLocalDataOnly ==
    /\ LocalWork("dataOnly")
    /\ LET d == Or(Task.desc, s.cl)
           t == IF Task.type = "offer" THEN SetPendingLocal(s, d) ELSE CommitAnswer(s, d)
       IN  Await(DispatchIfChanged(SyncSignalingState(t), s.sig), "done")

\* The state is have-local-offer for as long as jsOffer holds.
SetLocalRestartOffer ==
    /\ LocalWork("restartOffer")
    /\ LET d == MarkRestart(Or(Task.desc, Or(s.lastOffer, NativeOffer(s))))
           t == [SetPendingLocal(s, d) EXCEPT !.jsOffer = TRUE, !.restart = FALSE]
       IN  Await(EnterState(t, HLO, s.sig), "done")

SetLocalSync ==
    /\ LocalWork("sync")
    /\ Await(AddPendingCandidates(SyncSignalingState(CommitAnswer(s, s.l))), "refresh")

\* No event is dispatched here: the native peer sends one.
SetLocalNative ==
    /\ LocalWork("native")
    /\ LET n == NativeSetLocal(s, Task.type)
       IN  \/ /\ Task.type = "offer"
              /\ Await(SyncSignalingState([SetPendingLocal(n, n.nl)
                                              EXCEPT !.restart = FALSE]), "refresh")
           \/ /\ Task.type = "answer"
              /\ Await(AddPendingCandidates(SyncSignalingState(CommitAnswer(n, n.nl))),
                       "refresh")

RefreshFromNative(t) ==
    IF t.closed \/ t.l = NoDesc \/ t.native = "none" THEN t
    ELSE SyncSignalingState(IF t.nl = NoDesc THEN t
                            ELSE RefreshCurrentOrPendingLocal(t, t.nl))

\* Unless gathering is complete, the description is read again 50 ms later.
RefreshAfterGatheringWindow(t, complete) ==
    LET n == RefreshFromNative(t)
    IN  [n EXCEPT !.refresh = @ \/ (~n.closed /\ n.l # NoDesc /\ ~complete)]

SetLocalRefresh ==
    /\ At("setLocal", "refresh")
    /\ \E complete \in BOOLEAN : Settle(RefreshAfterGatheringWindow(s, complete))

\* The last task of the other ways of both operations.
ClearSuppressed(t, state) ==
    [t EXCEPT !.suppress = IF state # "none" /\ t.suppress = state THEN "none" ELSE @]

Finish ==
    \/ \E op \in SetOps : At(op, "done") /\ Settle(ClearSuppressed(s, Task.suppressed))
    \/ \E op \in SetOps : At(op, "clear") /\ Settle(ClearSuppressed(s, "stable"))

-----------------------------------------------------------------------------
\* setRemoteDescription

RestartRemoteOffer(t, d) ==
    \/ d.restart
    \/ d.type = "offer" /\ d.data /\ t.cr.data /\ d.cred # t.cr.cred

\* RFC 3264: sections stay once negotiated, an answer has those of the offer.
Proper(d) ==
    /\ d.type = "offer" /\ s.cr.data => d.data
    /\ d.type \in {"answer", "pranswer"} /\ s.pl.type = "offer" => d.data = s.pl.data

CallSetRemote ==
    /\ CanCall("setRemote")
    /\ \E d \in {r \in Remotes : Proper(r)} \cup {Rollback}, here, valid \in BOOLEAN :
           /\ d.type = "answer" => s.sig \in {HLO, HRP} \/ s.jsOffer \/ s.ops > 0
           /\ d.type = "pranswer" => s.sig \in {HLO, HRP} \/ s.ops > 0
           /\ d.type = "rollback" => s.sig = HRO \/ s.ops > 0
           /\ here => d.type \in {"offer", "answer"}
           /\ ~valid => d.type = "offer"
           /\ d.type \in {"offer", "rollback"} => MayRollback /\ MayBegin
           /\ d.type = "rollback" => MayForget
           /\ RestartRemoteOffer(s, d) => MayRestart("offer")
           /\ Start([NewTask("setRemote") EXCEPT
                        !.desc = d, !.type = d.type, !.here = here, !.valid = valid])

InvalidRemote(t, d) ==
    \/ d.type = "answer" /\ t.sig \notin {HLO, HRP} /\ ~t.jsOffer
    \/ d.type = "pranswer" /\ t.sig \notin {HLO, HRP}
    \/ d.type = "rollback" /\ t.sig # HRO

DataOnlyRemoteOffer(t, d) ==
    /\ t.sig = "stable"
    /\ t.cr.type = "offer" /\ t.cl.type = "answer"
    /\ d.data /\ t.cr.data /\ t.cl.data
    /\ d.cred = t.cr.cred

DataOnlyRemoteAnswer(t, d) ==
    /\ t.pl.type = "offer" /\ t.cl.type = "offer" /\ t.cr.type = "answer"
    /\ d.data /\ t.pl.data /\ t.cl.data /\ t.cr.data
    /\ t.pl.cred = t.cl.cred /\ d.cred = t.cr.cred

\* Which of its ways setRemoteDescription goes, also after a rollback.
RemotePath(t, d, valid, at) ==
    IF t.closed THEN "closed"
    ELSE IF at = "work" /\ InvalidRemote(t, d) THEN "invalid"
    ELSE IF d.type = "pranswer" THEN "pranswer"
    ELSE IF at = "work" /\ d.type = "offer" /\ t.sig \in {HLO, HRP} THEN "rollbackLocal"
    ELSE IF ~valid THEN "invalid"
    ELSE IF d.type = "rollback" THEN "rollback"
    ELSE IF d.type = "offer" /\ RestartRemoteOffer(t, d) THEN "restartOffer"
    ELSE IF d.type = "answer" /\ (d.restart \/ t.jsOffer) THEN "restartAnswer"
    ELSE IF d.type = "offer" /\ DataOnlyRemoteOffer(t, d) THEN "dataOnlyOffer"
    ELSE IF d.type = "answer" /\ DataOnlyRemoteAnswer(t, d) THEN "dataOnlyAnswer"
    ELSE IF IsNoMedia(d) THEN "noMedia"
    ELSE IF d.type = "offer" /\ t.sig = HRO THEN "replace"
    ELSE d.type

\* What the work starts from.
Now == IF Task.at = "work" THEN s ELSE ClearSuppressed(s, "stable")

RemoteWork(path) ==
    /\ At("setRemote", "work") \/ At("setRemote", "rolledBack")
    /\ RemotePath(Now, Task.desc, Task.valid, Task.at) = path

SetRemoteClosed == RemoteWork("closed") /\ Reject(Now)
SetRemoteInvalid == RemoteWork("invalid") /\ Reject(Now)

SetRemotePranswer ==
    /\ RemoteWork("pranswer")
    /\ Await(EnterState(Pair(SetPendingRemote(s, Task.desc), Task.here), HRP, s.sig), "done")

\* The SDP is only parsed after the local offer was rolled back.
SetRemoteRollbackLocal ==
    RemoteWork("rollbackLocal") /\ Await(RollbackLocalOffer(s), "rolledBack")

\* jsRemote and the queued candidates survive the rollback.
SetRemoteRollback ==
    /\ RemoteWork("rollback")
    /\ LET n == IF s.r.data THEN NativeRollbackRemote([s EXCEPT !.suppress = "stable"])
                ELSE s
           t == [RollbackRemote(n) EXCEPT !.paired = "none"]
       IN  Await(EnterState(t, "stable", s.sig), "clear")

SetRemoteRestartOffer ==
    /\ RemoteWork("restartOffer")
    /\ LET t == Pair(SetPendingRemote(Now, MarkRestart(Task.desc)), Task.here)
       IN  Await(EnterState([t EXCEPT !.jsRemote = TRUE], HRO, Now.sig), "done")

SetRemoteDataOnlyOffer ==
    /\ RemoteWork("dataOnlyOffer")
    /\ LET t == Pair(SetPendingRemote(Now, Task.desc), Task.here)
       IN  Await(DispatchIfChanged(SyncSignalingState(t), Now.sig), "done")

\* The event is dispatched whether the state changes or not.
SetRemoteNoMedia ==
    /\ RemoteWork("noMedia")
    /\ LET t == IF Task.type = "offer"
                THEN [SetPendingRemote(RollbackLocal(Now), Task.desc) EXCEPT !.sig = HRO]
                ELSE [CommitRemote(CommitPendingLocal(Now), Task.desc) EXCEPT !.sig = "stable"]
       IN  Await(Dispatch(Pair(t, Task.here)), "done")

SetRemoteReplace ==
    /\ RemoteWork("replace")
    /\ Await(Pair(SetPendingRemote(Now, Task.desc), Task.here), "done")

\* Fault: the native event is suppressed and none takes its place.
AnnounceNothing(t, before) ==
    IF t.sig = before THEN t ELSE [t EXCEPT !.suppress = t.sig]

\* The state is compared with the one before the native call.
Announce(t, before) ==
    IF t.sig = before THEN t ELSE Dispatch([t EXCEPT !.suppress = t.sig])

AwaitSuppressed(t, before) ==
    AwaitAs(t, [Task EXCEPT !.at = "done",
                            !.suppressed = IF t.sig = before THEN "none" ELSE t.sig])

\* The candidates of the SDP are kept for after the local answer.
SetRemoteOffer ==
    /\ RemoteWork("offer")
    /\ IF NativeAcceptsRemote(Now, "offer")
       THEN \E inline \in SUBSET {"inline"} :
            LET n == [NativeSetRemote(Now, Task.desc) EXCEPT !.queued = @ \cup inline]
                t == SyncSignalingState(SetPendingRemote(
                         RollbackLocal(Pair(n, Task.here)), Task.desc))
            IN  AwaitSuppressed(Announce(t, Now.sig), Now.sig)
       ELSE Reject(EnsureNative(Now))

\* Fault: it waits for answers of other processes, too.
AwaitAnyAnswerer ==
    /\ \E path \in {"restartAnswer", "dataOnlyAnswer", "answer"} :
           /\ RemoteWork(path)
           /\ waiting' = waiting \cup {[Task EXCEPT !.at = path, !.before = s.sig]}
    /\ tasks' = Tail(tasks)
    /\ outcome' = NoOutcome
    /\ UNCHANGED <<s, calls>>

\* An answer created by a peer of this process is applied there first.
AwaitAnswerer ==
    /\ \E path \in {"restartAnswer", "dataOnlyAnswer", "answer"} :
           /\ RemoteWork(path)
           /\ waiting' = waiting \cup {[Task EXCEPT !.at = path, !.before = s.sig]}
    /\ Task.here
    /\ tasks' = Tail(tasks)
    /\ outcome' = NoOutcome
    /\ UNCHANGED <<s, calls>>

AnswererAnswers ==
    /\ \E task \in waiting : /\ tasks' = <<task>> \o tasks
                             /\ waiting' = waiting \ {task}
    /\ outcome' = NoOutcome
    /\ UNCHANGED <<s, calls>>

AnswererThrows ==
    /\ \E task \in waiting : waiting' = waiting \ {task}
    /\ s' = FinishPendingOperation(s)
    /\ outcome' = NoOutcome
    /\ UNCHANGED <<tasks, calls>>

\* After the answerer nothing is tested again, not even whether this is closed.
RemoteAnswer(path) ==
    \/ At("setRemote", path)
    \/ RemoteWork(path) /\ ~Task.here

Before == IF Task.at = "work" THEN s.sig ELSE Task.before

CommitRemoteAnswer(t, answer) == CommitRemote(CommitPendingLocal(t), answer)

SetRemoteRestartAnswer ==
    /\ RemoteAnswer("restartAnswer")
    /\ LET t == CommitRemoteAnswer(s, MarkRestart(Task.desc))
       IN  Await(EnterState([t EXCEPT !.jsOffer = FALSE, !.restart = FALSE],
                            "stable", Before), "done")

SetRemoteDataOnlyAnswer ==
    /\ RemoteAnswer("dataOnlyAnswer")
    /\ LET t == SyncSignalingState(CommitRemoteAnswer(s, Task.desc))
       IN  Await(DispatchIfChanged(t, Before), "done")

SetRemoteAnswer ==
    /\ RemoteAnswer("answer")
    /\ IF NativeAcceptsRemote(s, "answer")
       THEN LET t == SyncSignalingState(CommitRemoteAnswer(
                         Pair(NativeSetRemote(s, Task.desc), Task.here), Task.desc))
            IN  AwaitSuppressed(AddPendingCandidates(Announce(t, s.sig)), s.sig)
       ELSE Reject(EnsureNative(s))

-----------------------------------------------------------------------------
\* _ensureLocalAnswerApplied, called for setRemoteDescription of another peer

EnsureTask(t, at) ==
    /\ s' = [t EXCEPT !.paired = "busy"]
    /\ tasks' = Append(tasks, [NewTask("ensure") EXCEPT !.at = at])
    /\ calls' = calls + 1
    /\ outcome' = NoOutcome
    /\ UNCHANGED waiting

\* The caller is the paired peer, in the middle of its operation.  Answers
\* without media name no answerer.
EnsureLocalAnswerApplied ==
    /\ calls < MaxCalls
    /\ s.paired \in {"idle", "busy"}
    /\ Chained => ~InProgress({"setRemote"})
    /\ s.lastAnswer.data /\ ~IsNoMedia(RemoteDescription(s))
    /\ s.l.type # "answer" \/ s.pr # NoDesc
    /\ \/ s.jsRemote /\ EnsureTask(ApplyRestartAnswer(s, s.lastAnswer), "done")
       \/ /\ ~s.jsRemote /\ NativeAcceptsLocal(s, "answer")
          /\ LET n == NativeSetLocal(s, "answer")
             IN  EnsureTask(AddPendingCandidates(SyncSignalingState(CommitAnswer(n, n.nl))),
                            "refresh")
       \/ /\ ~s.jsRemote /\ ~NativeAcceptsLocal(s, "answer")
          /\ s' = EnsureNative(s)
          /\ calls' = calls + 1
          /\ outcome' = NoOutcome
          /\ UNCHANGED <<tasks, waiting>>

EnsureFinishes ==
    /\ \/ At("ensure", "done") /\ s' = s
       \/ /\ At("ensure", "refresh")
          /\ \E complete \in BOOLEAN : s' = RefreshAfterGatheringWindow(s, complete)
    /\ tasks' = Tail(tasks)
    /\ outcome' = NoOutcome
    /\ UNCHANGED <<waiting, calls>>

-----------------------------------------------------------------------------
\* Candidates, ICE restarts, channels and close

\* Without a description it waits one task for an operation to set it.
CallAddIceCandidate ==
    /\ CanCall("addIceCandidate")
    /\ \/ RemoteDescription(s) # NoDesc /\ Start(NewTask("addIceCandidate"))
       \/ /\ RemoteDescription(s) = NoDesc /\ s.ops > 0
          /\ tasks' = Append(tasks, [NewTask("addIceCandidate") EXCEPT !.at = "early"])
          /\ calls' = calls + 1
          /\ outcome' = NoOutcome
          /\ UNCHANGED <<s, waiting>>

AddIceCandidateEarly ==
    /\ At("addIceCandidate", "early")
    /\ IF RemoteDescription(s) = NoDesc
       THEN /\ tasks' = Tail(tasks)
            /\ outcome' = NoOutcome
            /\ UNCHANGED <<s, waiting, calls>>
       ELSE Await([s EXCEPT !.ops = @ + 1], "work")

AddIceCandidate ==
    /\ At("addIceCandidate", "work")
    /\ Settle(IF DeferCandidates(s) THEN [s EXCEPT !.queued = @ \cup {"added"}]
              ELSE EnsureNative(s))

\* A step of the application that schedules nothing.
Immediately(t) ==
    /\ s' = t
    /\ calls' = calls + 1
    /\ outcome' = NoOutcome
    /\ UNCHANGED <<tasks, waiting>>

CallAddExchangedCandidate ==
    CanCall("addExchangedCandidate") /\ Immediately(AddExchangedCandidate(s))

RestartIce ==
    /\ CanCall("restartIce")
    /\ s.l # NoDesc \/ s.r # NoDesc
    /\ MayRestart("answer")
    /\ Immediately([s EXCEPT !.restart = TRUE])

CreateDataChannel ==
    /\ CanCall("createDataChannel") /\ ~s.channels
    /\ Immediately([EnsureNative(s) EXCEPT !.channels = TRUE])

Close ==
    /\ CanCall("close")
    /\ Immediately([s EXCEPT !.closed = TRUE, !.sig = "closed", !.dispatched = "closed",
                             !.native = IF @ = "live" THEN "handed" ELSE @,
                             !.paired = "none", !.events = <<>>])

-----------------------------------------------------------------------------
\* Native events, the timer and the paired peer

Handle(t) ==
    /\ s' = [t EXCEPT !.events = Tail(@)]
    /\ outcome' = NoOutcome
    /\ UNCHANGED <<tasks, waiting, calls>>

HandleSignalingState(t, state) ==
    IF t.jsOffer THEN [t EXCEPT !.sig = HLO]
    ELSE IF t.suppress = state THEN [t EXCEPT !.suppress = "none"]
    ELSE IF state # DescriptionSignalingState(t) THEN t
    ELSE Dispatch([t EXCEPT !.sig = state])

HandleNativeEvent ==
    /\ s.events # <<>>
    /\ LET event == Head(s.events)
       IN  Handle(IF event.type = "localdescription"
                  THEN RefreshCurrentOrPendingLocal(s, event.desc)
                  ELSE HandleSignalingState(s, event.state))

Passes(t) ==
    /\ s' = t
    /\ outcome' = NoOutcome
    /\ UNCHANGED <<tasks, waiting, calls>>

RefreshTimer == s.refresh /\ Passes(RefreshFromNative([s EXCEPT !.refresh = FALSE]))

PairedSettles == s.paired = "busy" /\ Passes(FlushCandidates([s EXCEPT !.paired = "idle"]))

\* It was closed or rolled its offer back: nothing is flushed here then.
PairedLeaves == s.paired \in {"idle", "busy"} /\ Passes([s EXCEPT !.paired = "left"])

-----------------------------------------------------------------------------
SetLocalWork ==
    \/ SetLocalClosed \/ SetLocalInvalid \/ SetLocalRollback \/ SetLocalPranswer
    \/ SetLocalApplied \/ SetLocalNoMedia \/ SetLocalRestartAnswer
    \/ SetLocalDataOnly \/ SetLocalRestartOffer \/ SetLocalSync \/ SetLocalNative
    \/ SetLocalRefresh

SetRemoteWork ==
    \/ SetRemoteClosed \/ SetRemoteInvalid \/ SetRemotePranswer
    \/ SetRemoteRollbackLocal \/ SetRemoteRollback \/ SetRemoteRestartOffer
    \/ SetRemoteDataOnlyOffer \/ SetRemoteNoMedia \/ SetRemoteReplace
    \/ SetRemoteOffer \/ AwaitAnswerer \/ SetRemoteRestartAnswer
    \/ SetRemoteDataOnlyAnswer \/ SetRemoteAnswer

RunTask ==
    \/ CreateOffer \/ CreateAnswer
    \/ SetLocalWork \/ SetRemoteWork \/ Finish
    \/ EnsureFinishes \/ AddIceCandidateEarly \/ AddIceCandidate

Application ==
    \/ CallCreateOffer \/ CallCreateAnswer \/ CallSetLocal \/ CallSetRemote
    \/ EnsureLocalAnswerApplied
    \/ CallAddIceCandidate \/ CallAddExchangedCandidate
    \/ RestartIce \/ CreateDataChannel \/ Close

Answerer == AnswererAnswers \/ AnswererThrows

\* What goes on without the application.
EventLoop == RunTask \/ Answerer \/ HandleNativeEvent \/ RefreshTimer

Next == Application \/ EventLoop \/ PairedSettles \/ PairedLeaves

Spec == Init /\ [][Next]_vars

-----------------------------------------------------------------------------
\* The state, the scheduled operations and those that wait for an answerer.
TypeOK ==
    /\ s.sig \in SignalingStates
    /\ {s.l, s.cl, s.pl, s.r, s.cr, s.pr} \subseteq Descriptions
    /\ s.native \in {"none", "live", "handed"}
    /\ \A i \in 1 .. Len(tasks) : tasks[i].desc \in Descriptions
    /\ \A task \in waiting : task.op = "setRemote" /\ task.here

Quiescent == tasks = <<>> /\ waiting = {} /\ s.events = <<>> /\ ~s.refresh

\* Whatever operations, native events and the refresh timer interleave, the
\* state the application reads is the one its pending descriptions imply.
StateMatchesDescriptions ==
    ~s.closed /\ ~s.jsOffer /\ Pranswers = {} => s.sig = DescriptionSignalingState(s)

\* Once everything has settled, the last signalingstatechange event told the
\* application the state it is in, although the native events are suppressed
\* and ignored in several places.
StateAnnounced ==
    Quiescent /\ ~s.jsOffer /\ Pranswers = {} => s.dispatched = s.sig

\* A set operation that fulfils its promise has done what it was asked for,
\* while the application awaits each before the next.  An answer passed
\* explicitly is the exception: SetLocalApplied ignores it in a renegotiation.
SettledMeansApplied ==
    /\ outcome.type = "offer" /\ outcome.by = "setLocal" =>
           s.sig = HLO /\ s.pl.type = "offer"
    /\ outcome.type = "offer" /\ outcome.by = "setRemote" =>
           s.sig = HRO /\ s.pr.type = "offer"
    /\ outcome.type = "answer" /\ ~(outcome.by = "setLocal" /\ outcome.explicit) =>
           s.sig = "stable" /\ s.pl = NoDesc /\ s.pr = NoDesc
    /\ outcome.type = "rollback" =>
           s.sig = "stable" /\ s.pl = NoDesc /\ s.pr = NoDesc

\* However operations end, by an error, a close or a throwing answerer, their
\* count returns to zero; and the candidates of SDP and of addIceCandidate that
\* were kept back while an answer was missing reach the native peer once the
\* exchange is over, whichever ended last.  Those that _addExchangedLocalCandidate
\* keeps in _pendingIce do not: an answerer puts them back whenever it takes them.
DeferredCandidatesSettle ==
    Quiescent =>
        /\ s.ops = 0
        /\ s.sig = "stable" /\ s.r # NoDesc /\ s.paired \notin {"busy", "left"} =>
               s.queued = {}

\* The descriptions go through the states of an offer/answer exchange.
Exchange == INSTANCE OfferAnswer WITH
                currentLocal <- s.cl.type, pendingLocal <- s.pl.type,
                currentRemote <- s.cr.type, pendingRemote <- s.pr.type

ImplementsOfferAnswer == Exchange!Spec

\* Comment in close: its result is final, native teardown is best-effort; so
\* no operation may call the native peer after it.
NoNativeUseAfterClose == ~s.misused
=============================================================================
