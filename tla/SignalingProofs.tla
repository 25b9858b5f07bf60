--------------------------- MODULE SignalingProofs ---------------------------
(***************************************************************************)
(* The signaling operations of a peer connection.  SInv is inductive: its  *)
(* first part (Sound) holds of every application, the second (Orderly) of  *)
(* those that are Chained and Cautious.  Joined ties the native peer, its  *)
(* events and the tasks to the descriptions; it is inductive beside SInv   *)
(* when the application is Careful, and with it every step is one of the   *)
(* exchange and every operation that settles has done what it promises.    *)
(***************************************************************************)
EXTENDS Signaling, SequenceTheorems, FiniteSetTheorems, TLAPS

SigNames == SignalingStates \cup {"none"}

Events ==
    [type : {"signalingstatechange", "localdescription"}, state : SigNames,
     desc : Descriptions]

Queues == Seq(Events)
Candidates == SUBSET {"inline", "added"}
PairedStates == {"none", "idle", "busy", "left"}
NativeHandles == {"none", "live", "handed"}
NativeStates == {"stable", HLO, HRO}

States ==
    [closed : BOOLEAN, sig : SignalingStates, dispatched : SignalingStates,
     l : Descriptions, cl : Descriptions, pl : Descriptions,
     r : Descriptions, cr : Descriptions, pr : Descriptions,
     lastOffer : Descriptions, lastAnswer : Descriptions, suppress : SigNames,
     restart : BOOLEAN, jsOffer : BOOLEAN, jsRemote : BOOLEAN, ops : Nat,
     refresh : BOOLEAN, queued : Candidates, pendingIce : BOOLEAN,
     channels : BOOLEAN, paired : PairedStates, native : NativeHandles,
     misused : BOOLEAN, nsig : NativeStates, nl : Descriptions, ncl : Descriptions,
     events : Queues]

Operations == DescriptionOps \cup {"ensure", "addIceCandidate"}

Stages == {"work", "done", "clear", "refresh", "rolledBack", "early",
           "restartAnswer", "dataOnlyAnswer", "answer"}

TaskRecords ==
    [op : Operations, at : Stages, id : Nat, desc : Descriptions,
     type : {"none", "offer", "answer", "pranswer", "rollback"}, restart : BOOLEAN,
     here : BOOLEAN, valid : BOOLEAN, before : SigNames, suppressed : SigNames]

\* The type of a set operation is that of its description, or the implicit one; and only
\* some types get to some stages.
Shape(task) ==
    /\ task.op = "setLocal" /\ task.desc = NoDesc => task.type \in {"offer", "answer"}
    /\ task.op \in SetOps /\ task.desc # NoDesc => task.type = task.desc.type
    /\ task.op = "setRemote" => task.desc # NoDesc
    /\ task.at = "rolledBack" => task.op = "setRemote" /\ task.type = "offer"
    /\ task.at = "early" => task.op = "addIceCandidate"

Tasks == {task \in TaskRecords : Shape(task)}

WaitingTasks ==
    {task \in Tasks : /\ task.op = "setRemote" /\ task.here
                      /\ task.at \in {"restartAnswer", "dataOnlyAnswer", "answer"}}

\* What createOffer and createAnswer left.
Created(t) ==
    /\ t.lastOffer = NoDesc \/ t.lastOffer.type = "offer"
    /\ t.lastAnswer = NoDesc \/ t.lastAnswer.type = "answer"

Typed ==
    /\ s \in States /\ Created(s)
    /\ tasks \in Seq(Tasks)
    /\ waiting \subseteq WaitingTasks
    /\ calls \in Nat

-----------------------------------------------------------------------------
\* Descriptions

LEMMA DescriptionTypes ==
    /\ NoDesc \in Descriptions /\ Rollback \in Descriptions
    /\ NoDesc.type = "none" /\ Rollback.type = "rollback"
    /\ \A type \in {"offer", "answer", "pranswer"}, data \in BOOLEAN :
          Local(type, data) \in Descriptions /\ Local(type, data).type = type
  <1>1. NoDesc \in Descriptions /\ NoDesc.type = "none"
    BY DEF NoDesc, Descriptions
  <1>2. ASSUME NEW d \in Descriptions,
               NEW type \in {"none", "offer", "answer", "pranswer", "rollback"}
        PROVE  /\ [d EXCEPT !.type = type] \in Descriptions
               /\ [d EXCEPT !.type = type].type = type
    BY DEF Descriptions
  <1>3. ASSUME NEW d \in Descriptions, NEW data \in BOOLEAN
        PROVE  /\ [d EXCEPT !.data = data] \in Descriptions
               /\ [d EXCEPT !.data = data].type = d.type
    BY DEF Descriptions
  <1>4. ASSUME NEW d \in Descriptions
        PROVE  [d EXCEPT !.cred = 1] \in Descriptions /\ [d EXCEPT !.cred = 1].type = d.type
    BY DEF Descriptions
  <1>5. Rollback \in Descriptions /\ Rollback.type = "rollback"
    BY <1>1, <1>2 DEF Rollback
  <1>6. ASSUME NEW type \in {"offer", "answer", "pranswer"}, NEW data \in BOOLEAN
        PROVE  Local(type, data) \in Descriptions /\ Local(type, data).type = type
    <2> DEFINE d1 == [NoDesc EXCEPT !.type = type]
               d2 == [d1 EXCEPT !.data = data]
               d3 == [d2 EXCEPT !.cred = 1]
    <2>1. d1 \in Descriptions /\ d1.type = type
      BY <1>1, <1>2
    <2>2. d2 \in Descriptions /\ d2.type = type
      <3> HIDE DEF d1
      <3> QED
        BY <1>3, <2>1
    <2>3. d3 \in Descriptions /\ d3.type = type
      <3> HIDE DEF d2
      <3> QED
        BY <1>4, <2>2
    <2>4. Local(type, data) = d3
      BY Zenon DEF Local
    <2> QED
      BY <2>3, <2>4
  <1> QED
    BY <1>1, <1>5, <1>6

LEMMA DescriptionOperators ==
    ASSUME NEW d \in Descriptions, NEW e \in Descriptions
    PROVE  /\ MarkRestart(d) \in Descriptions /\ MarkRestart(d).type = d.type
           /\ Plain(d) \in Descriptions /\ Plain(d).type = d.type
           /\ Or(d, e) \in Descriptions /\ Or(d, e) \in {d, e}
           /\ \A b \in BOOLEAN : [d EXCEPT !.restart = b] \in Descriptions
           /\ [d EXCEPT !.type = "pranswer"] \in Descriptions
           /\ [d EXCEPT !.type = "pranswer"].type = "pranswer"
  BY DEF MarkRestart, Plain, Or, Descriptions

\* What setLocalDescription is called with.
LEMMA LocalArguments ==
    ASSUME NEW d \in Descriptions, NEW e \in Descriptions
    PROVE  {NoDesc, Rollback, Plain(d), e,
            IF e = NoDesc THEN NoDesc ELSE [e EXCEPT !.type = "pranswer"]} \subseteq Descriptions
  <1>1. NoDesc \in Descriptions /\ Rollback \in Descriptions
    BY DescriptionTypes
  <1>2. Plain(d) \in Descriptions /\ [e EXCEPT !.type = "pranswer"] \in Descriptions
    BY DescriptionOperators
  <1> QED
    BY <1>1, <1>2

-----------------------------------------------------------------------------
\* One field of the state is changed.
LEMMA StateFlags ==
    ASSUME NEW t \in States, NEW b \in BOOLEAN
    PROVE  /\ [t EXCEPT !.closed = b] \in States
           /\ [t EXCEPT !.restart = b] \in States
           /\ [t EXCEPT !.jsOffer = b] \in States
           /\ [t EXCEPT !.jsRemote = b] \in States
           /\ [t EXCEPT !.refresh = b] \in States
           /\ [t EXCEPT !.pendingIce = b] \in States
           /\ [t EXCEPT !.channels = b] \in States
           /\ [t EXCEPT !.misused = b] \in States
  BY SMTT(60) DEF States

LEMMA StateDescriptions ==
    ASSUME NEW t \in States, NEW d \in Descriptions
    PROVE  /\ [t EXCEPT !.l = d] \in States
           /\ [t EXCEPT !.cl = d] \in States
           /\ [t EXCEPT !.pl = d] \in States
           /\ [t EXCEPT !.r = d] \in States
           /\ [t EXCEPT !.cr = d] \in States
           /\ [t EXCEPT !.pr = d] \in States
           /\ [t EXCEPT !.lastOffer = d] \in States
           /\ [t EXCEPT !.lastAnswer = d] \in States
           /\ [t EXCEPT !.nl = d] \in States
           /\ [t EXCEPT !.ncl = d] \in States
  BY SMTT(60) DEF States

LEMMA StateValues ==
    ASSUME NEW t \in States
    PROVE  /\ \A x \in SignalingStates : [t EXCEPT !.sig = x] \in States
           /\ \A x \in SignalingStates : [t EXCEPT !.dispatched = x] \in States
           /\ \A x \in SigNames : [t EXCEPT !.suppress = x] \in States
           /\ \A x \in Nat : [t EXCEPT !.ops = x] \in States
           /\ \A x \in Candidates : [t EXCEPT !.queued = x] \in States
           /\ \A x \in PairedStates : [t EXCEPT !.paired = x] \in States
           /\ \A x \in NativeHandles : [t EXCEPT !.native = x] \in States
           /\ \A x \in NativeStates : [t EXCEPT !.nsig = x] \in States
           /\ \A x \in Queues : [t EXCEPT !.events = x] \in States
  BY SMTT(60) DEF States

LEMMA StateFields ==
    ASSUME NEW t \in States
    PROVE  /\ {t.closed, t.restart, t.jsOffer, t.jsRemote, t.refresh, t.pendingIce,
               t.channels, t.misused} \subseteq BOOLEAN
           /\ t.sig \in SignalingStates /\ t.dispatched \in SignalingStates
           /\ {t.l, t.cl, t.pl, t.r, t.cr, t.pr, t.lastOffer, t.lastAnswer,
               t.nl, t.ncl} \subseteq Descriptions
           /\ t.suppress \in SigNames /\ t.ops \in Nat /\ t.queued \in Candidates
           /\ t.paired \in PairedStates /\ t.native \in NativeHandles
           /\ t.nsig \in NativeStates /\ t.events \in Queues
  BY SMTT(60) DEF States

-----------------------------------------------------------------------------
\* What the native peer connection does leaves the exchange alone, and what is said of
\* candidates and of operations.
SameExchange(t, u) ==
    /\ u.closed = t.closed /\ u.sig = t.sig
    /\ u.l = t.l /\ u.cl = t.cl /\ u.pl = t.pl
    /\ u.r = t.r /\ u.cr = t.cr /\ u.pr = t.pr
    /\ u.lastOffer = t.lastOffer /\ u.lastAnswer = t.lastAnswer
    /\ u.restart = t.restart /\ u.jsOffer = t.jsOffer /\ u.jsRemote = t.jsRemote
    /\ u.channels = t.channels

SameCandidates(t, u) == u.queued = t.queued /\ u.paired = t.paired /\ u.ops = t.ops

LEMMA SameTransitive ==
    ASSUME NEW t, NEW u, NEW v
    PROVE  /\ SameExchange(t, u) /\ SameExchange(u, v) => SameExchange(t, v)
           /\ SameCandidates(t, u) /\ SameCandidates(u, v) => SameCandidates(t, v)
  BY DEF SameExchange, SameCandidates

\* A call may make the native peer connection, and do no more.
Undisturbed(t, u) ==
    /\ u.nsig = t.nsig /\ u.nl = t.nl /\ u.ncl = t.ncl /\ u.events = t.events
    /\ u.native = t.native \/ (t.native = "none" /\ u.native = "live")

LEMMA UndisturbedSteps ==
    ASSUME NEW t, NEW u, NEW v
    PROVE  /\ Undisturbed(t, t)
           /\ Undisturbed(t, u) /\ Undisturbed(u, v) => Undisturbed(t, v)
  BY DEF Undisturbed

LEMMA EnsureNativeKeeps ==
    ASSUME NEW t \in States
    PROVE  /\ EnsureNative(t) \in States
           /\ Undisturbed(t, EnsureNative(t)) /\ EnsureNative(t).native # "none"
           /\ SameExchange(t, EnsureNative(t)) /\ SameCandidates(t, EnsureNative(t))
           /\ EnsureNative(t).nsig = t.nsig /\ EnsureNative(t).events = t.events
           /\ EnsureNative(t).dispatched = t.dispatched
           /\ EnsureNative(t).suppress = t.suppress
           /\ EnsureNative(t).nl = t.nl /\ EnsureNative(t).ncl = t.ncl
  <1> DEFINE u == [t EXCEPT !.native = IF t.native = "none" THEN "live" ELSE t.native]
             v == [u EXCEPT !.misused = t.misused \/ t.closed]
  <1>1. u \in States
    BY StateFields, StateValues DEF NativeHandles
  <1>2. (t.misused \/ t.closed) \in BOOLEAN
    OBVIOUS
  <1>3. v \in States
    <2> HIDE DEF u
    <2> QED
      BY <1>1, <1>2, StateFlags
  <1>4. EnsureNative(t) = v
    BY Zenon DEF EnsureNative
  <1>5. /\ SameExchange(t, v) /\ SameCandidates(t, v)
        /\ v.nsig = t.nsig /\ v.events = t.events
        /\ v.dispatched = t.dispatched /\ v.suppress = t.suppress
        /\ v.nl = t.nl /\ v.ncl = t.ncl
        /\ v.native = IF t.native = "none" THEN "live" ELSE t.native
    BY DEF SameExchange, SameCandidates, States
  <1> HIDE DEF u, v
  <1>6. Undisturbed(t, v) /\ v.native # "none"
    BY <1>5 DEF Undisturbed
  <1> QED
    BY <1>3, <1>4, <1>5, <1>6

NativeStep(t, u) ==
    /\ u \in States /\ SameExchange(t, u) /\ SameCandidates(t, u)
    /\ u.dispatched = t.dispatched /\ u.suppress = t.suppress

LEMMA NativeSteps ==
    ASSUME NEW t, NEW u, NEW v, NativeStep(t, u), NativeStep(u, v)
    PROVE  NativeStep(t, v)
  BY SameTransitive DEF NativeStep

LEMMA EmitKeeps ==
    ASSUME NEW t \in States, NEW event \in Events
    PROVE  NativeStep(t, Emit(t, event)) /\ Emit(t, event).nsig = t.nsig
  <1> DEFINE q == Append(t.events, event)
  <1>1. q \in Queues
    BY StateFields, AppendProperties DEF Queues
  <1> HIDE DEF q
  <1> DEFINE u == [t EXCEPT !.events = q]
  <1>2. u \in States
    BY <1>1, StateValues
  <1>3. /\ SameExchange(t, u) /\ SameCandidates(t, u) /\ u.nsig = t.nsig
        /\ u.dispatched = t.dispatched /\ u.suppress = t.suppress
    BY DEF SameExchange, SameCandidates, States
  <1>4. Emit(t, event) = u
    BY Zenon DEF Emit, q
  <1> QED
    BY <1>2, <1>3, <1>4 DEF NativeStep

LEMMA EventTypes ==
    /\ \A state \in SigNames : StateEvent(state) \in Events
    /\ \A d \in Descriptions : DescriptionEvent(d) \in Events
  BY DescriptionTypes DEF SigNames, StateEvent, DescriptionEvent, Events

LEMMA StatesNamed ==
    /\ NativeStates \subseteq SignalingStates /\ SignalingStates \subseteq SigNames
    /\ "stable" \in NativeStates /\ HLO \in NativeStates /\ HRO \in NativeStates
    /\ {"stable", HLO, HRO, HLP, HRP, "closed"} = SignalingStates
    /\ "none" \in SigNames
  BY DEF NativeStates, SignalingStates, SigNames

LEMMA NativeStateKeeps ==
    ASSUME NEW t \in States, NEW state \in NativeStates
    PROVE  NativeStep(t, NativeState(t, state))
  <1>1. CASE t.nsig = state
    BY <1>1 DEF NativeState, NativeStep, SameExchange, SameCandidates
  <1>2. CASE t.nsig # state
    <2> DEFINE u == [t EXCEPT !.nsig = state]
    <2>1. u \in States
      BY StateValues
    <2>2. NativeStep(t, u)
      BY <2>1 DEF NativeStep, SameExchange, SameCandidates, States
    <2>3. NativeState(t, state) = Emit(u, StateEvent(state))
      BY <1>2, Zenon DEF NativeState
    <2>4. StateEvent(state) \in Events
      BY EventTypes, StatesNamed
    <2> HIDE DEF u
    <2>5. NativeStep(u, Emit(u, StateEvent(state)))
      BY <2>1, <2>4, EmitKeeps
    <2> QED
      BY <2>2, <2>3, <2>5, NativeSteps
  <1> QED
    BY <1>1, <1>2

LEMMA EnsureNativeStep ==
    ASSUME NEW t \in States
    PROVE  NativeStep(t, EnsureNative(t))
  BY EnsureNativeKeeps DEF NativeStep

LEMMA NativeSetLocalKeeps ==
    ASSUME NEW t \in States, NEW type \in {"offer", "answer"}
    PROVE  /\ NativeStep(t, NativeSetLocal(t, type))
           /\ NativeSetLocal(t, type).nl = Local(type, TRUE)
  <1> DEFINE d == Local(type, TRUE)
             e == EnsureNative(t)
             c == IF type = "answer" THEN d ELSE t.ncl
             u == [e EXCEPT !.nl = d]
             n == [u EXCEPT !.ncl = c]
             state == IF type = "offer" THEN HLO ELSE "stable"
  <1>1. d \in Descriptions /\ c \in Descriptions
    BY DescriptionTypes, StateFields
  <1>2. NativeStep(t, e) /\ e \in States
    BY EnsureNativeStep, EnsureNativeKeeps
  <1>3. NativeSetLocal(t, type)
          = NativeState(Emit(n, DescriptionEvent(d)), state)
    BY Zenon DEF NativeSetLocal
  <1>4. state \in NativeStates
    BY StatesNamed
  <1>5. DescriptionEvent(d) \in Events
    BY <1>1, EventTypes
  <1> HIDE DEF d, e, c, state
  <1>6. u \in States
    BY <1>1, <1>2, StateDescriptions
  <1>7. n \in States
    <2> HIDE DEF u
    <2> QED
      BY <1>1, <1>6, StateDescriptions
  <1>8. SameExchange(e, n) /\ SameCandidates(e, n) /\ n.dispatched = e.dispatched
        /\ n.suppress = e.suppress /\ n.nl = d
    BY <1>2 DEF SameExchange, SameCandidates, States
  <1> HIDE DEF u, n
  <1>9. NativeStep(e, n)
    BY <1>7, <1>8 DEF NativeStep
  <1> DEFINE m == Emit(n, DescriptionEvent(d))
  <1>10. NativeStep(n, m) /\ m \in States
    BY <1>5, <1>7, EmitKeeps DEF NativeStep
  <1>11. m.nl = n.nl
    BY <1>7 DEF Emit, States
  <1> HIDE DEF m
  <1>12. NativeStep(m, NativeState(m, state))
    BY <1>4, <1>10, NativeStateKeeps
  <1>13. NativeState(m, state).nl = m.nl
    BY <1>10 DEF NativeState, Emit, States
  <1>14. NativeStep(t, n)
    BY <1>2, <1>9, NativeSteps
  <1>15. NativeStep(t, m)
    BY <1>10, <1>14, NativeSteps
  <1>16. NativeStep(t, NativeState(m, state))
    BY <1>12, <1>15, NativeSteps
  <1>17. NativeSetLocal(t, type) = NativeState(m, state)
    BY <1>3 DEF m
  <1> QED
    BY <1>8, <1>11, <1>13, <1>16, <1>17 DEF d

LEMMA NativeSetRemoteKeeps ==
    ASSUME NEW t \in States, NEW d \in Descriptions
    PROVE  NativeStep(t, NativeSetRemote(t, d))
  <1> DEFINE e == EnsureNative(t)
             c == IF d.type = "answer" THEN t.nl ELSE t.ncl
             n == [e EXCEPT !.ncl = c]
             state == IF d.type = "offer" THEN HRO ELSE "stable"
  <1>1. NativeStep(t, e) /\ e \in States
    BY EnsureNativeStep, EnsureNativeKeeps
  <1>2. c \in Descriptions /\ state \in NativeStates
    BY StateFields, StatesNamed
  <1>3. NativeSetRemote(t, d) = NativeState(n, state)
    BY Zenon DEF NativeSetRemote
  <1> HIDE DEF e, c, state
  <1>4. n \in States
    BY <1>1, <1>2, StateDescriptions
  <1>5. NativeStep(e, n)
    BY <1>1, <1>4 DEF NativeStep, SameExchange, SameCandidates, States
  <1> HIDE DEF n
  <1>6. NativeStep(n, NativeState(n, state))
    BY <1>2, <1>4, NativeStateKeeps
  <1>7. NativeStep(t, n)
    BY <1>1, <1>5, NativeSteps
  <1> QED
    BY <1>3, <1>6, <1>7, NativeSteps

LEMMA NativeRollbackLocalKeeps ==
    ASSUME NEW t \in States
    PROVE  NativeStep(t, NativeRollbackLocal(t))
  <1> DEFINE e == EnsureNative(t)
             n == [e EXCEPT !.nl = t.ncl]
  <1>1. NativeStep(t, e) /\ e \in States
    BY EnsureNativeStep, EnsureNativeKeeps
  <1>2. NativeRollbackLocal(t) = IF t.nsig # HLO THEN e ELSE NativeState(n, "stable")
    BY Zenon DEF NativeRollbackLocal
  <1>3. t.ncl \in Descriptions /\ "stable" \in NativeStates
    BY StateFields, StatesNamed
  <1> HIDE DEF e
  <1>4. n \in States
    BY <1>1, <1>3, StateDescriptions
  <1>5. NativeStep(e, n)
    BY <1>1, <1>4 DEF NativeStep, SameExchange, SameCandidates, States
  <1> HIDE DEF n
  <1>6. NativeStep(n, NativeState(n, "stable"))
    BY <1>3, <1>4, NativeStateKeeps
  <1>7. NativeStep(t, n)
    BY <1>1, <1>5, NativeSteps
  <1>8. NativeStep(t, NativeState(n, "stable"))
    BY <1>6, <1>7, NativeSteps
  <1> QED
    BY <1>1, <1>2, <1>8

LEMMA NativeRollbackRemoteKeeps ==
    ASSUME NEW t \in States
    PROVE  NativeStep(t, NativeRollbackRemote(t))
  <1> DEFINE e == EnsureNative(t)
  <1>1. NativeStep(t, e) /\ e \in States
    BY EnsureNativeStep, EnsureNativeKeeps
  <1>2. NativeRollbackRemote(t) = IF t.nsig # HRO THEN e ELSE NativeState(e, "stable")
    BY Zenon DEF NativeRollbackRemote
  <1> HIDE DEF e
  <1>3. NativeStep(e, NativeState(e, "stable"))
    BY <1>1, NativeStateKeeps, StatesNamed
  <1>4. NativeStep(t, NativeState(e, "stable"))
    BY <1>1, <1>3, NativeSteps
  <1> QED
    BY <1>1, <1>2, <1>4

-----------------------------------------------------------------------------
\* Candidates, and the end of an operation
SameEvents(t, u) == u.dispatched = t.dispatched /\ u.suppress = t.suppress

Flushed(t) == t.r = NoDesc \/ DeferCandidates(t) \/ t.queued = {}

Flush(t, u) ==
    /\ u \in States /\ SameExchange(t, u) /\ SameEvents(t, u) /\ Undisturbed(t, u)
    /\ u.paired = t.paired /\ u.ops = t.ops
    /\ u.queued = t.queued \/ u.queued = {}

LEMMA DeferSame ==
    ASSUME NEW t, NEW u, SameExchange(t, u), u.paired = t.paired, u.ops = t.ops
    PROVE  DeferCandidates(u) <=> DeferCandidates(t)
  BY DEF SameExchange, DeferCandidates

LEMMA FlushCandidatesKeeps ==
    ASSUME NEW t \in States
    PROVE  Flush(t, FlushCandidates(t)) /\ Flushed(FlushCandidates(t))
  <1>1. CASE Flushed(t)
    BY <1>1 DEF FlushCandidates, Flushed, Flush, SameExchange, SameEvents, Undisturbed
  <1>2. CASE ~Flushed(t)
    <2> DEFINE e == EnsureNative(t)
               u == [e EXCEPT !.queued = {}]
    <2>1. NativeStep(t, e) /\ e \in States /\ Undisturbed(t, e)
      BY EnsureNativeStep, EnsureNativeKeeps
    <2>2. FlushCandidates(t) = u
      BY <1>2, Zenon DEF FlushCandidates, Flushed
    <2> HIDE DEF e
    <2>3. {} \in Candidates
      BY DEF Candidates
    <2>4. u \in States
      BY <2>1, <2>3, StateValues
    <2>5. Flush(e, u) /\ u.queued = {}
      BY <2>1, <2>4 DEF Flush, SameExchange, SameEvents, Undisturbed, States
    <2>6. Flush(t, u)
      <3> HIDE DEF u
      <3> QED
        BY <2>1, <2>5, UndisturbedSteps
           DEF Flush, NativeStep, SameExchange, SameCandidates, SameEvents
    <2>7. Flushed(u)
      BY <2>5 DEF Flushed
    <2> QED
      BY <2>2, <2>6, <2>7
  <1> QED
    BY <1>1, <1>2

LEMMA AddExchangedCandidateKeeps ==
    ASSUME NEW t \in States
    PROVE  /\ NativeStep(t, AddExchangedCandidate(t))
           /\ Undisturbed(t, AddExchangedCandidate(t))
  <1> DEFINE e == EnsureNative(t)
             u == [t EXCEPT !.pendingIce = TRUE]
             v == [e EXCEPT !.pendingIce = FALSE]
  <1>1. NativeStep(t, e) /\ e \in States /\ Undisturbed(t, e)
    BY EnsureNativeStep, EnsureNativeKeeps
  <1>2. AddExchangedCandidate(t)
          = IF RemoteDescription(t) = NoDesc \/ DeferCandidates(t) THEN u ELSE v
    BY Zenon DEF AddExchangedCandidate
  <1>3. u \in States
    BY StateFlags
  <1>4. NativeStep(t, u) /\ Undisturbed(t, u)
    BY <1>3 DEF NativeStep, SameExchange, SameCandidates, Undisturbed, States
  <1> HIDE DEF e
  <1>5. v \in States
    BY <1>1, StateFlags
  <1>6. NativeStep(e, v) /\ Undisturbed(e, v)
    BY <1>1, <1>5 DEF NativeStep, SameExchange, SameCandidates, Undisturbed, States
  <1> HIDE DEF v
  <1>7. NativeStep(t, v) /\ Undisturbed(t, v)
    BY <1>1, <1>6, NativeSteps, UndisturbedSteps
  <1> QED
    BY <1>2, <1>4, <1>7

LEMMA AddPendingCandidatesKeeps ==
    ASSUME NEW t \in States
    PROVE  Flush(t, AddPendingCandidates(t)) /\ Flushed(AddPendingCandidates(t))
  <1> DEFINE u == IF t.pendingIce THEN AddExchangedCandidate(t) ELSE t
  <1>1. NativeStep(t, u) /\ Undisturbed(t, u)
    BY UndisturbedSteps, AddExchangedCandidateKeeps
    DEF NativeStep, SameExchange, SameCandidates
  <1>2. AddPendingCandidates(t) = FlushCandidates(u)
    BY Zenon DEF AddPendingCandidates
  <1> HIDE DEF u
  <1>3. Flush(u, FlushCandidates(u)) /\ Flushed(FlushCandidates(u))
    BY <1>1, FlushCandidatesKeeps DEF NativeStep
  <1>4. Flush(t, FlushCandidates(u))
    BY <1>1, <1>3, UndisturbedSteps
       DEF Flush, NativeStep, SameExchange, SameCandidates, SameEvents
  <1> QED
    BY <1>2, <1>3, <1>4

Less(n) == IF n > 0 THEN n - 1 ELSE 0

LEMMA FinishKeeps ==
    ASSUME NEW t \in States
    PROVE  LET u == FinishPendingOperation(t)
           IN  /\ u \in States /\ SameExchange(t, u) /\ SameEvents(t, u)
               /\ Undisturbed(t, u)
               /\ u.paired = t.paired /\ u.ops = Less(t.ops)
               /\ u.queued = t.queued \/ u.queued = {}
               /\ u.ops > 0 \/ Flushed(u)
  <1> DEFINE n == [t EXCEPT !.ops = Less(t.ops)]
  <1>1. t.ops \in Nat /\ Less(t.ops) \in Nat
    BY StateFields DEF Less
  <1>2. n \in States
    BY <1>1, StateValues
  <1>3. /\ SameExchange(t, n) /\ SameEvents(t, n) /\ n.ops = Less(t.ops)
        /\ n.paired = t.paired /\ n.queued = t.queued /\ Undisturbed(t, n)
    BY DEF SameExchange, SameEvents, Undisturbed, States
  <1>4. FinishPendingOperation(t) = IF n.ops = 0 THEN FlushCandidates(n) ELSE n
    BY Zenon DEF FinishPendingOperation, Less
  <1> HIDE DEF n
  <1>5. Flush(n, FlushCandidates(n)) /\ Flushed(FlushCandidates(n))
    BY <1>2, FlushCandidatesKeeps
  <1>6. CASE n.ops = 0
    BY <1>3, <1>4, <1>5, <1>6, UndisturbedSteps DEF Flush, SameExchange, SameEvents
  <1>7. CASE n.ops # 0
    BY <1>1, <1>2, <1>3, <1>4, <1>7
  <1> QED
    BY <1>6, <1>7

-----------------------------------------------------------------------------
\* The descriptions and the signaling state
SameRemote(t, u) == u.r = t.r /\ u.cr = t.cr /\ u.pr = t.pr
SameLocal(t, u) == u.l = t.l /\ u.cl = t.cl /\ u.pl = t.pl

SameNative(t, u) ==
    /\ u.native = t.native /\ u.nsig = t.nsig /\ u.nl = t.nl /\ u.ncl = t.ncl
    /\ u.events = t.events

\* What steps of an exchange leave alone that call no native peer; and those that only
\* set descriptions.
Firm(t, u) ==
    /\ u \in States /\ SameCandidates(t, u) /\ SameNative(t, u)
    /\ u.closed = t.closed /\ u.jsOffer = t.jsOffer /\ u.jsRemote = t.jsRemote
    /\ u.lastOffer = t.lastOffer /\ u.lastAnswer = t.lastAnswer
    /\ u.restart = t.restart /\ u.channels = t.channels

Kept(t, u) == Firm(t, u) /\ SameEvents(t, u) /\ u.sig = t.sig

LEMMA KeptTwice ==
    ASSUME NEW t, NEW u, NEW v, Kept(t, u), Kept(u, v)
    PROVE  Kept(t, v)
  BY DEF Kept, Firm, SameCandidates, SameEvents, SameNative

\* Three fields, one after the other.
WithLocal(t, d, c, e) == [[[t EXCEPT !.l = d] EXCEPT !.cl = c] EXCEPT !.pl = e]

LEMMA LocalFields ==
    ASSUME NEW t \in States, NEW d \in Descriptions, NEW e \in Descriptions,
           NEW c \in Descriptions
    PROVE  LET u == WithLocal(t, d, c, e)
           IN  /\ Kept(t, u) /\ SameRemote(t, u)
               /\ u.l = d /\ u.cl = c /\ u.pl = e
  <1> DEFINE a == [t EXCEPT !.l = d]
             b == [a EXCEPT !.cl = c]
             u == [b EXCEPT !.pl = e]
  <1>1. a \in States
    BY StateDescriptions
  <1>2. b \in States
    <2> HIDE DEF a
    <2> QED
      BY <1>1, StateDescriptions
  <1>3. u \in States
    <2> HIDE DEF b
    <2> QED
      BY <1>2, StateDescriptions
  <1>4. /\ SameCandidates(t, u) /\ SameEvents(t, u) /\ SameRemote(t, u)
        /\ u.closed = t.closed /\ u.jsOffer = t.jsOffer /\ u.jsRemote = t.jsRemote
        /\ u.lastOffer = t.lastOffer /\ u.lastAnswer = t.lastAnswer
        /\ u.sig = t.sig /\ SameNative(t, u) /\ u.restart = t.restart
        /\ u.l = d /\ u.cl = c /\ u.pl = e
    BY DEF SameCandidates, SameEvents, SameNative, SameRemote, States
  <1> QED
    BY <1>3, <1>4 DEF Kept, Firm, WithLocal

WithRemote(t, d, c, e) == [[[t EXCEPT !.r = d] EXCEPT !.cr = c] EXCEPT !.pr = e]

LEMMA RemoteFields ==
    ASSUME NEW t \in States, NEW d \in Descriptions, NEW e \in Descriptions,
           NEW c \in Descriptions
    PROVE  LET u == WithRemote(t, d, c, e)
           IN  /\ Kept(t, u) /\ SameLocal(t, u)
               /\ u.r = d /\ u.cr = c /\ u.pr = e
  <1> DEFINE a == [t EXCEPT !.r = d]
             b == [a EXCEPT !.cr = c]
             u == [b EXCEPT !.pr = e]
  <1>1. a \in States
    BY StateDescriptions
  <1>2. b \in States
    <2> HIDE DEF a
    <2> QED
      BY <1>1, StateDescriptions
  <1>3. u \in States
    <2> HIDE DEF b
    <2> QED
      BY <1>2, StateDescriptions
  <1>4. /\ SameCandidates(t, u) /\ SameEvents(t, u) /\ SameLocal(t, u)
        /\ u.closed = t.closed /\ u.jsOffer = t.jsOffer /\ u.jsRemote = t.jsRemote
        /\ u.lastOffer = t.lastOffer /\ u.lastAnswer = t.lastAnswer
        /\ u.sig = t.sig /\ SameNative(t, u) /\ u.restart = t.restart
        /\ u.r = d /\ u.cr = c /\ u.pr = e
    BY DEF SameCandidates, SameEvents, SameNative, SameLocal, States
  <1> QED
    BY <1>3, <1>4 DEF Kept, Firm, WithRemote

LEMMA SetPendingKeeps ==
    ASSUME NEW t \in States, NEW d \in Descriptions
    PROVE  /\ LET u == SetPendingLocal(t, d)
              IN  /\ Kept(t, u) /\ SameRemote(t, u)
                  /\ u.l = d /\ u.pl = d /\ u.cl = t.cl
           /\ LET u == SetPendingRemote(t, d)
              IN  /\ Kept(t, u) /\ SameLocal(t, u)
                  /\ u.r = d /\ u.pr = d /\ u.cr = t.cr
  <1>1. t.cl \in Descriptions /\ t.cr \in Descriptions
    BY StateFields
  <1>2. SetPendingLocal(t, d) = WithLocal(t, d, t.cl, d)
    BY DEF SetPendingLocal, WithLocal, States
  <1>3. SetPendingRemote(t, d) = WithRemote(t, d, t.cr, d)
    BY DEF SetPendingRemote, WithRemote, States
  <1> QED
    BY <1>1, <1>2, <1>3, LocalFields, RemoteFields

LEMMA CommitKeeps ==
    ASSUME NEW t \in States, NEW d \in Descriptions
    PROVE  /\ LET u == CommitLocal(t, d)
              IN  /\ Kept(t, u) /\ SameRemote(t, u)
                  /\ u.l = Or(d, t.cl) /\ u.cl = Or(d, t.cl) /\ u.pl = NoDesc
           /\ LET u == CommitRemote(t, d)
              IN  /\ Kept(t, u) /\ SameLocal(t, u)
                  /\ u.r = Or(d, t.cr) /\ u.cr = Or(d, t.cr) /\ u.pr = NoDesc
  <1> DEFINE c == Or(d, t.cl)
             e == Or(d, t.cr)
  <1>1. c \in Descriptions /\ e \in Descriptions /\ NoDesc \in Descriptions
    BY StateFields, DescriptionOperators, DescriptionTypes
  <1> HIDE DEF c, e
  <1>2. CommitLocal(t, d) = WithLocal(t, c, c, NoDesc)
    BY DEF CommitLocal, WithLocal, States, c
  <1>3. CommitRemote(t, d) = WithRemote(t, e, e, NoDesc)
    BY DEF CommitRemote, WithRemote, States, e
  <1> QED
    BY <1>1, <1>2, <1>3, LocalFields, RemoteFields DEF c, e

LEMMA RollbackKeeps ==
    ASSUME NEW t \in States
    PROVE  /\ LET u == RollbackLocal(t)
              IN  /\ Kept(t, u) /\ SameRemote(t, u)
                  /\ u.l = t.cl /\ u.cl = t.cl /\ u.pl = NoDesc
           /\ LET u == RollbackRemote(t)
              IN  /\ Kept(t, u) /\ SameLocal(t, u)
                  /\ u.r = t.cr /\ u.cr = t.cr /\ u.pr = NoDesc
  <1>1. t.cl \in Descriptions /\ t.cr \in Descriptions /\ NoDesc \in Descriptions
    BY StateFields, DescriptionTypes
  <1>2. RollbackLocal(t) = WithLocal(t, t.cl, t.cl, NoDesc)
    BY DEF RollbackLocal, WithLocal, States
  <1>3. RollbackRemote(t) = WithRemote(t, t.cr, t.cr, NoDesc)
    BY DEF RollbackRemote, WithRemote, States
  <1> QED
    BY <1>1, <1>2, <1>3, LocalFields, RemoteFields

LEMMA RefreshCurrentOrPendingKeeps ==
    ASSUME NEW t \in States, NEW d \in Descriptions
    PROVE  LET u == RefreshCurrentOrPendingLocal(t, d)
           IN  /\ Kept(t, u) /\ SameRemote(t, u)
               /\ u.l = d /\ u.pl.type = t.pl.type
               /\ IF t.pl.type = d.type THEN u.pl = d /\ u.cl = t.cl
                                        ELSE u.pl = t.pl /\ u.cl = d
  <1>1. t.cl \in Descriptions /\ t.pl \in Descriptions
    BY StateFields
  <1>2. CASE t.pl.type = d.type
    <2>1. RefreshCurrentOrPendingLocal(t, d)
            = WithLocal(t, d, t.cl, d)
      BY <1>2 DEF RefreshCurrentOrPendingLocal, WithLocal, States
    <2> DEFINE u == WithLocal(t, d, t.cl, d)
    <2>2. Kept(t, u) /\ SameRemote(t, u) /\ u.l = d /\ u.cl = t.cl /\ u.pl = d
      BY <1>1, LocalFields
    <2> HIDE DEF u
    <2> QED
      BY <1>2, <2>1, <2>2 DEF u
  <1>3. CASE t.pl.type # d.type
    <2>1. RefreshCurrentOrPendingLocal(t, d)
            = WithLocal(t, d, d, t.pl)
      BY <1>3 DEF RefreshCurrentOrPendingLocal, WithLocal, States
    <2> DEFINE u == WithLocal(t, d, d, t.pl)
    <2>2. Kept(t, u) /\ SameRemote(t, u) /\ u.l = d /\ u.cl = d /\ u.pl = t.pl
      BY <1>1, LocalFields
    <2> HIDE DEF u
    <2> QED
      BY <1>3, <2>1, <2>2 DEF u
  <1> QED
    BY <1>2, <1>3

LEMMA CommitAnswerKeeps ==
    ASSUME NEW t \in States, NEW d \in Descriptions
    PROVE  /\ LET u == CommitAnswer(t, d)
              IN  /\ Kept(t, u) /\ u.pl = NoDesc /\ u.pr = NoDesc
                  /\ u.l = Or(d, t.cl) /\ u.cl = Or(d, t.cl)
                  /\ u.cr = Or(Or(t.pr, t.r), t.cr) /\ u.r = u.cr
           /\ LET u == CommitRemoteAnswer(t, d)
              IN  /\ Kept(t, u) /\ u.pl = NoDesc /\ u.pr = NoDesc
                  /\ u.r = Or(d, t.cr) /\ u.cr = Or(d, t.cr)
                  /\ u.cl = Or(Or(t.pl, t.l), t.cl) /\ u.l = u.cl
  <1> DEFINE a == Or(t.pr, t.r)
             b == Or(t.pl, t.l)
             v == CommitRemote(t, a)
             w == CommitLocal(t, b)
  <1>1. a \in Descriptions /\ b \in Descriptions
    BY StateFields, DescriptionOperators
  <1>2. CommitAnswer(t, d) = CommitLocal(v, d) /\ CommitRemoteAnswer(t, d) = CommitRemote(w, d)
    BY Zenon DEF CommitAnswer, CommitRemoteAnswer, CommitPendingRemote, CommitPendingLocal
  <1>3. /\ Kept(t, v) /\ SameLocal(t, v) /\ v.r = Or(a, t.cr) /\ v.cr = Or(a, t.cr)
        /\ v.pr = NoDesc
    BY <1>1, CommitKeeps
  <1>4. /\ Kept(t, w) /\ SameRemote(t, w) /\ w.l = Or(b, t.cl) /\ w.cl = Or(b, t.cl)
        /\ w.pl = NoDesc
    BY <1>1, CommitKeeps
  <1> HIDE DEF v, w
  <1> DEFINE x == CommitLocal(v, d)
             y == CommitRemote(w, d)
  <1>5. v \in States /\ w \in States
    BY <1>3, <1>4 DEF Kept, Firm
  <1>6. /\ Kept(v, x) /\ SameRemote(v, x) /\ x.l = Or(d, v.cl) /\ x.cl = Or(d, v.cl)
        /\ x.pl = NoDesc
    BY <1>5, CommitKeeps
  <1>7. /\ Kept(w, y) /\ SameLocal(w, y) /\ y.r = Or(d, w.cr) /\ y.cr = Or(d, w.cr)
        /\ y.pr = NoDesc
    BY <1>5, CommitKeeps
  <1> HIDE DEF x, y
  <1>8. Kept(t, x) /\ Kept(t, y)
    BY <1>3, <1>4, <1>6, <1>7, KeptTwice
  <1> QED
    BY <1>2, <1>3, <1>4, <1>6, <1>7, <1>8 DEF SameLocal, SameRemote, x, y

LEMMA SyncKeeps ==
    ASSUME NEW t \in States
    PROVE  LET u == SyncSignalingState(t)
           IN  /\ Firm(t, u) /\ SameLocal(t, u) /\ SameRemote(t, u) /\ SameEvents(t, u)
               /\ u.sig = IF t.jsOffer THEN HLO ELSE DescriptionSignalingState(t)
  <1> DEFINE x == IF t.jsOffer THEN HLO ELSE DescriptionSignalingState(t)
             u == [t EXCEPT !.sig = x]
  <1>1. x \in SignalingStates
    BY StatesNamed DEF DescriptionSignalingState
  <1>2. SyncSignalingState(t) = u
    BY Zenon DEF SyncSignalingState
  <1> HIDE DEF x
  <1>3. u \in States
    BY <1>1, StateValues
  <1>4. /\ SameCandidates(t, u) /\ SameNative(t, u) /\ SameLocal(t, u) /\ SameRemote(t, u)
        /\ SameEvents(t, u) /\ u.sig = x
        /\ u.closed = t.closed /\ u.jsOffer = t.jsOffer /\ u.jsRemote = t.jsRemote
        /\ u.lastOffer = t.lastOffer /\ u.lastAnswer = t.lastAnswer
        /\ u.restart = t.restart
    BY DEF SameCandidates, SameEvents, SameNative, SameLocal, SameRemote, States
  <1> QED
    BY <1>2, <1>3, <1>4 DEF Firm, x

LEMMA EnterKeeps ==
    ASSUME NEW t \in States, NEW state \in SignalingStates, NEW before
    PROVE  /\ LET u == Dispatch(t)
              IN  /\ Firm(t, u) /\ SameLocal(t, u) /\ SameRemote(t, u)
                  /\ u.suppress = t.suppress /\ u.sig = t.sig /\ u.dispatched = t.sig
           /\ LET u == DispatchIfChanged(t, before)
              IN  /\ Firm(t, u) /\ SameLocal(t, u) /\ SameRemote(t, u)
                  /\ u.suppress = t.suppress /\ u.sig = t.sig
                  /\ u.dispatched = IF t.sig = before THEN t.dispatched ELSE t.sig
           /\ LET u == EnterState(t, state, before)
              IN  /\ Firm(t, u) /\ SameLocal(t, u) /\ SameRemote(t, u)
                  /\ u.suppress = t.suppress /\ u.sig = state
                  /\ u.dispatched = IF state = before THEN t.dispatched ELSE state
  <1>1. ASSUME NEW x \in States
        PROVE  LET u == Dispatch(x)
               IN  /\ Firm(x, u) /\ SameLocal(x, u) /\ SameRemote(x, u)
                   /\ u.suppress = x.suppress /\ u.sig = x.sig /\ u.dispatched = x.sig
    <2> DEFINE u == [x EXCEPT !.dispatched = x.sig]
    <2>1. u \in States
      BY StateFields, StateValues
    <2>2. /\ SameCandidates(x, u) /\ SameNative(x, u) /\ SameLocal(x, u) /\ SameRemote(x, u)
          /\ u.suppress = x.suppress /\ u.sig = x.sig /\ u.dispatched = x.sig
          /\ u.closed = x.closed /\ u.jsOffer = x.jsOffer /\ u.jsRemote = x.jsRemote
          /\ u.lastOffer = x.lastOffer /\ u.lastAnswer = x.lastAnswer
          /\ u.restart = x.restart
      BY DEF SameCandidates, SameEvents, SameNative, SameLocal, SameRemote, States
    <2>3. Dispatch(x) = u
      BY Zenon DEF Dispatch
    <2> QED
      BY <2>1, <2>2, <2>3 DEF Firm
  <1>2. ASSUME NEW x \in States
        PROVE  LET u == DispatchIfChanged(x, before)
               IN  /\ Firm(x, u) /\ SameLocal(x, u) /\ SameRemote(x, u)
                   /\ u.suppress = x.suppress /\ u.sig = x.sig
                   /\ u.dispatched = IF x.sig = before THEN x.dispatched ELSE x.sig
    <2>1. CASE x.sig = before
      BY <2>1 DEF DispatchIfChanged, Firm, SameLocal, SameRemote, SameCandidates, SameNative
    <2>2. CASE x.sig # before
      <3>1. DispatchIfChanged(x, before) = Dispatch(x)
        BY <2>2, Zenon DEF DispatchIfChanged
      <3> QED
        BY <1>1, <2>2, <3>1
    <2> QED
      BY <2>1, <2>2
  <1>3. LET u == EnterState(t, state, before)
        IN  /\ Firm(t, u) /\ SameLocal(t, u) /\ SameRemote(t, u)
            /\ u.suppress = t.suppress /\ u.sig = state
            /\ u.dispatched = IF state = before THEN t.dispatched ELSE state
    <2> DEFINE x == [t EXCEPT !.sig = state]
               u == DispatchIfChanged(x, before)
    <2>1. x \in States
      BY StateValues
    <2>2. /\ SameCandidates(t, x) /\ SameNative(t, x) /\ SameLocal(t, x) /\ SameRemote(t, x)
          /\ x.suppress = t.suppress /\ x.sig = state /\ x.dispatched = t.dispatched
          /\ x.closed = t.closed /\ x.jsOffer = t.jsOffer /\ x.jsRemote = t.jsRemote
          /\ x.lastOffer = t.lastOffer /\ x.lastAnswer = t.lastAnswer
          /\ x.restart = t.restart /\ x.channels = t.channels
      BY DEF SameCandidates, SameEvents, SameNative, SameLocal, SameRemote, States
    <2>3. EnterState(t, state, before) = u
      BY Zenon DEF EnterState
    <2> HIDE DEF x
    <2>4. /\ Firm(x, u) /\ SameLocal(x, u) /\ SameRemote(x, u)
          /\ u.suppress = x.suppress /\ u.sig = x.sig
          /\ u.dispatched = IF x.sig = before THEN x.dispatched ELSE x.sig
      BY <1>2, <2>1
    <2> HIDE DEF u
    <2>5. Firm(t, u) /\ SameLocal(t, u) /\ SameRemote(t, u)
      BY <2>2, <2>4 DEF Firm, SameLocal, SameRemote, SameCandidates, SameNative
    <2> QED
      BY <2>2, <2>3, <2>4, <2>5
  <1> QED
    BY <1>1, <1>2, <1>3

LEMMA PairKeeps ==
    ASSUME NEW t \in States, NEW here \in BOOLEAN
    PROVE  LET u == Pair(t, here)
           IN  /\ u \in States /\ SameExchange(t, u) /\ SameEvents(t, u) /\ SameNative(t, u)
               /\ u.ops = t.ops /\ u.queued = t.queued
  <1> DEFINE x == [t EXCEPT !.paired = "busy"]
  <1>1. x \in States
    BY StateValues DEF PairedStates
  <1>2. /\ SameExchange(t, x) /\ SameEvents(t, x) /\ SameNative(t, x)
        /\ x.ops = t.ops /\ x.queued = t.queued
    BY DEF SameExchange, SameEvents, SameNative, States
  <1>3. Pair(t, here) = IF here THEN x ELSE t
    BY Zenon DEF Pair
  <1>4. /\ SameExchange(t, t) /\ SameEvents(t, t) /\ SameNative(t, t)
    BY DEF SameExchange, SameEvents, SameNative
  <1> HIDE DEF x
  <1> QED
    BY <1>1, <1>2, <1>3, <1>4

LEMMA ClearSuppressedKeeps ==
    ASSUME NEW t \in States, NEW state
    PROVE  LET u == ClearSuppressed(t, state)
           IN  /\ Firm(t, u) /\ SameLocal(t, u) /\ SameRemote(t, u)
               /\ u.sig = t.sig /\ u.dispatched = t.dispatched
               /\ u.suppress = IF state # "none" /\ t.suppress = state THEN "none"
                               ELSE t.suppress
  <1> DEFINE x == IF state # "none" /\ t.suppress = state THEN "none" ELSE t.suppress
             u == [t EXCEPT !.suppress = x]
  <1>1. x \in SigNames
    BY StateFields, StatesNamed
  <1>2. ClearSuppressed(t, state) = u
    BY DEF ClearSuppressed, States
  <1> HIDE DEF x
  <1>3. u \in States
    BY <1>1, StateValues
  <1>4. /\ SameCandidates(t, u) /\ SameNative(t, u) /\ SameLocal(t, u) /\ SameRemote(t, u)
        /\ u.suppress = x /\ u.sig = t.sig /\ u.dispatched = t.dispatched
        /\ u.closed = t.closed /\ u.jsOffer = t.jsOffer /\ u.jsRemote = t.jsRemote
        /\ u.lastOffer = t.lastOffer /\ u.lastAnswer = t.lastAnswer
        /\ u.restart = t.restart
    BY DEF SameCandidates, SameEvents, SameNative, SameLocal, SameRemote, States
  <1> QED
    BY <1>2, <1>3, <1>4 DEF Firm, x

-----------------------------------------------------------------------------
\* What no step of an operation changes before its promise settles.
Basic(t, u) ==
    /\ u \in States /\ u.closed = t.closed /\ u.ops = t.ops /\ u.jsOffer = t.jsOffer
    /\ u.lastOffer = t.lastOffer /\ u.lastAnswer = t.lastAnswer

LEMMA BasicSteps ==
    ASSUME NEW t, NEW u
    PROVE  /\ \A v : Basic(t, u) /\ Basic(u, v) => Basic(t, v)
           /\ t \in States => Basic(t, t)
           /\ NativeStep(t, u) => Basic(t, u) /\ SameLocal(t, u) /\ SameRemote(t, u)
                                  /\ u.sig = t.sig
           /\ Firm(t, u) => Basic(t, u)
           /\ Kept(t, u) => Basic(t, u) /\ u.sig = t.sig
           /\ Flush(t, u) => Basic(t, u) /\ SameLocal(t, u) /\ SameRemote(t, u)
                             /\ u.sig = t.sig
  BY DEF Basic, NativeStep, Firm, Kept, Flush, SameExchange, SameCandidates, SameLocal,
         SameRemote

LEMMA RollbackLocalOfferKeeps ==
    ASSUME NEW t \in States
    PROVE  LET u == RollbackLocalOffer(t)
           IN  /\ Basic(t, u) /\ SameRemote(t, u) /\ u.jsRemote = t.jsRemote
               /\ u.pl = NoDesc /\ u.l = t.cl /\ u.cl = t.cl
               /\ u.sig = "stable" /\ u.paired = "none"
               /\ t.sig # "stable" => u.dispatched = "stable"
               /\ u.suppress \in {t.suppress, "stable"}
  <1> DEFINE a == [t EXCEPT !.suppress = "stable"]
             b == NativeRollbackLocal(a)
             n == IF t.l # NoDesc /\ t.l.data THEN b ELSE t
             c == RollbackLocal(n)
             m == [c EXCEPT !.paired = "none"]
             u == EnterState(m, "stable", t.sig)
  <1>1. RollbackLocalOffer(t) = u
    BY Zenon DEF RollbackLocalOffer
  <1>2. /\ a \in States /\ Basic(t, a) /\ SameLocal(t, a) /\ SameRemote(t, a)
        /\ a.jsRemote = t.jsRemote /\ a.suppress = "stable"
    BY StateValues, StatesNamed DEF Basic, SameLocal, SameRemote, States
  <1> HIDE DEF a
  <1>3. NativeStep(a, b)
    BY <1>2, NativeRollbackLocalKeeps
  <1> HIDE DEF b
  <1>4. Basic(t, n) /\ SameLocal(t, n) /\ SameRemote(t, n) /\ n.jsRemote = t.jsRemote
        /\ n.suppress \in {t.suppress, "stable"}
    BY <1>2, <1>3 DEF Basic, NativeStep, SameExchange, SameCandidates, SameLocal, SameRemote
  <1> HIDE DEF n
  <1>5. /\ Kept(n, c) /\ SameRemote(n, c)
        /\ c.l = n.cl /\ c.cl = n.cl /\ c.pl = NoDesc
    BY <1>4, RollbackKeeps DEF Basic
  <1> HIDE DEF c
  <1>6. c \in States
    BY <1>5 DEF Kept, Firm
  <1>7. /\ Basic(c, m) /\ SameLocal(c, m) /\ SameRemote(c, m) /\ m.jsRemote = c.jsRemote
        /\ m.paired = "none" /\ m.suppress = c.suppress
    BY <1>6, StateValues DEF PairedStates, Basic, SameLocal, SameRemote, States
  <1> HIDE DEF m
  <1>8. Firm(m, u) /\ SameLocal(m, u) /\ SameRemote(m, u) /\ u.sig = "stable"
        /\ u.suppress = m.suppress /\ (t.sig # "stable" => u.dispatched = "stable")
    BY <1>7, EnterKeeps, StatesNamed DEF Basic
  <1> HIDE DEF u
  <1>9. Basic(n, c) /\ Basic(m, u)
    BY <1>5, <1>8, BasicSteps
  <1>10. Basic(t, u)
    BY <1>4, <1>7, <1>9 DEF Basic
  <1> QED
    BY <1>1, <1>4, <1>5, <1>7, <1>8, <1>10
       DEF SameLocal, SameRemote, SameEvents, Kept, Firm, SameCandidates

LEMMA ApplyRestartAnswerKeeps ==
    ASSUME NEW t \in States, NEW answer \in Descriptions
    PROVE  LET u == ApplyRestartAnswer(t, answer)
           IN  /\ Basic(t, u) /\ SameCandidates(t, u)
               /\ u.pl = NoDesc /\ u.pr = NoDesc /\ u.sig = "stable"
               /\ u.suppress = t.suppress /\ u.events = t.events
               /\ u.dispatched = "stable" \/ (t.sig = "stable" /\ SameEvents(t, u))
  <1> DEFINE d == MarkRestart(answer)
             c == CommitAnswer(t, d)
             m == [c EXCEPT !.jsRemote = FALSE]
             u == EnterState(m, "stable", t.sig)
  <1>1. ApplyRestartAnswer(t, answer) = u
    BY Zenon DEF ApplyRestartAnswer
  <1>2. d \in Descriptions
    BY DescriptionOperators
  <1> HIDE DEF d
  <1>3. Kept(t, c) /\ c.pl = NoDesc /\ c.pr = NoDesc
    BY <1>2, CommitAnswerKeeps
  <1> HIDE DEF c
  <1>4. c \in States
    BY <1>3 DEF Kept, Firm
  <1>5. /\ Basic(c, m) /\ SameCandidates(c, m) /\ SameLocal(c, m) /\ SameRemote(c, m)
        /\ SameEvents(c, m) /\ m.events = c.events
    <2>1. m \in States
      BY <1>4, StateFlags
    <2> QED
      BY <1>4, <2>1 DEF Basic, SameCandidates, SameLocal, SameRemote, SameEvents, States
  <1> HIDE DEF m
  <1>6. /\ Firm(m, u) /\ SameLocal(m, u) /\ SameRemote(m, u) /\ u.sig = "stable"
        /\ u.suppress = m.suppress
        /\ u.dispatched = "stable" \/ (t.sig = "stable" /\ u.dispatched = m.dispatched)
    BY <1>5, EnterKeeps, StatesNamed DEF Basic
  <1> HIDE DEF u
  <1>7. Basic(t, u) /\ SameCandidates(t, u)
    BY <1>3, <1>5, <1>6 DEF Basic, Kept, Firm, SameCandidates
  <1> QED
    BY <1>1, <1>3, <1>5, <1>6, <1>7
       DEF SameLocal, SameRemote, Kept, Firm, SameNative, SameEvents

Refreshed(t, u) ==
    /\ Basic(t, u) /\ SameCandidates(t, u) /\ SameRemote(t, u)
    /\ u.pl.type = t.pl.type
    /\ \/ u.sig = t.sig
       \/ u.sig = IF t.jsOffer THEN HLO ELSE DescriptionSignalingState(t)

LEMMA RefreshFromNativeKeeps ==
    ASSUME NEW t \in States
    PROVE  Refreshed(t, RefreshFromNative(t))
  <1> DEFINE r == RefreshCurrentOrPendingLocal(t, t.nl)
             n == IF t.nl = NoDesc THEN t ELSE r
             u == SyncSignalingState(n)
  <1>1. RefreshFromNative(t)
          = IF t.closed \/ t.l = NoDesc \/ t.native = "none" THEN t ELSE u
    BY Zenon DEF RefreshFromNative
  <1>2. Kept(t, r) /\ SameRemote(t, r) /\ r.pl.type = t.pl.type
    BY StateFields, RefreshCurrentOrPendingKeeps
  <1> HIDE DEF r
  <1>3. Kept(t, n) /\ SameRemote(t, n) /\ n.pl.type = t.pl.type
    BY <1>2 DEF Kept, Firm, SameRemote, SameCandidates, SameNative, SameEvents
  <1> HIDE DEF n
  <1>4. /\ Firm(n, u) /\ SameLocal(n, u) /\ SameRemote(n, u)
        /\ u.sig = IF n.jsOffer THEN HLO ELSE DescriptionSignalingState(n)
    BY <1>3, SyncKeeps DEF Kept, Firm
  <1> HIDE DEF u
  <1>5. DescriptionSignalingState(n) = DescriptionSignalingState(t)
    BY <1>3 DEF DescriptionSignalingState, Kept, Firm, SameRemote
  <1>6. Basic(t, u) /\ SameCandidates(t, u) /\ SameRemote(t, u) /\ u.pl.type = t.pl.type
    BY <1>3, <1>4 DEF Basic, Kept, Firm, SameCandidates, SameRemote, SameLocal
  <1>7. u.sig = IF t.jsOffer THEN HLO ELSE DescriptionSignalingState(t)
    BY <1>3, <1>4, <1>5 DEF Kept, Firm
  <1>8. Refreshed(t, t)
    BY DEF Refreshed, Basic, SameCandidates, SameRemote
  <1> QED
    BY <1>1, <1>6, <1>7, <1>8 DEF Refreshed

LEMMA RefreshAfterGatheringWindowKeeps ==
    ASSUME NEW t \in States, NEW complete \in BOOLEAN
    PROVE  Refreshed(t, RefreshAfterGatheringWindow(t, complete))
  <1> DEFINE n == RefreshFromNative(t)
             b == n.refresh \/ (~n.closed /\ n.l # NoDesc /\ ~complete)
             u == [n EXCEPT !.refresh = b]
  <1>1. Refreshed(t, n)
    BY RefreshFromNativeKeeps
  <1>2. RefreshAfterGatheringWindow(t, complete) = u
    <2>1. RefreshAfterGatheringWindow(t, complete)
            = [n EXCEPT !.refresh = @ \/ (~n.closed /\ n.l # NoDesc /\ ~complete)]
      BY Zenon DEF RefreshAfterGatheringWindow
    <2> HIDE DEF n
    <2> QED
      BY <1>1, <2>1 DEF Refreshed, Basic, States
  <1> HIDE DEF n
  <1>3. n \in States
    BY <1>1 DEF Refreshed, Basic
  <1>4. b \in BOOLEAN
    BY <1>3, StateFields
  <1> HIDE DEF b
  <1>5. u \in States
    BY <1>3, <1>4, StateFlags
  <1>6. Basic(n, u) /\ SameCandidates(n, u) /\ SameRemote(n, u) /\ u.pl = n.pl /\ u.sig = n.sig
    BY <1>3, <1>5 DEF Basic, SameCandidates, SameRemote, States
  <1> HIDE DEF u
  <1> QED
    BY <1>1, <1>2, <1>6 DEF Refreshed, Basic, SameCandidates, SameRemote

-----------------------------------------------------------------------------
\* The tasks that are counted in ops.  The continuation of _ensureLocalAnswerApplied is
\* none of this connection's operations, and an early candidate is counted later.
Counts(task) == task.op # "ensure" /\ task.at # "early"

Counted(ts) == {i \in 1 .. Len(ts) : Counts(ts[i])}

Pending(ts) == Cardinality(Counted(ts))

LEMMA Shifted ==
    ASSUME NEW S \in SUBSET Nat, IsFiniteSet(S), NEW T, T = {i + 1 : i \in S}
    PROVE  IsFiniteSet(T) /\ Cardinality(T) = Cardinality(S)
  <1> DEFINE f == [i \in S |-> i + 1]
  <1>1. f \in Injection(S, T)
    BY DEF Injection, IsInjective
  <1>2. f \in Surjection(S, T)
    BY DEF Surjection
  <1>3. ExistsBijection(S, T)
    BY <1>1, <1>2, Zenon DEF ExistsBijection, Bijection
  <1> QED
    BY <1>3, FS_Bijection, Zenon

LEMMA CountedFinite ==
    ASSUME NEW ts \in Seq(Tasks)
    PROVE  /\ IsFiniteSet(Counted(ts)) /\ Counted(ts) \subseteq Nat
           /\ Pending(ts) \in Nat
  <1>1. Len(ts) \in Nat
    BY LenProperties
  <1>2. IsFiniteSet(1 .. Len(ts))
    BY <1>1, FS_Interval
  <1>3. Counted(ts) \in SUBSET (1 .. Len(ts))
    BY DEF Counted
  <1>4. IsFiniteSet(Counted(ts))
    BY <1>2, <1>3, FS_Subset, Zenon
  <1>5. Pending(ts) \in Nat
    BY <1>4, FS_CardinalityType DEF Pending
  <1> QED
    BY <1>1, <1>3, <1>4, <1>5

LEMMA CountedEmpty == Pending(<<>>) = 0
  BY FS_EmptySet DEF Counted, Pending

LEMMA CountedAppend ==
    ASSUME NEW ts \in Seq(Tasks), NEW x \in Tasks
    PROVE  Pending(Append(ts, x)) = Pending(ts) + (IF Counts(x) THEN 1 ELSE 0)
  <1> DEFINE n == Len(ts) + 1
             q == Append(ts, x)
  <1>1. /\ Len(ts) \in Nat /\ q \in Seq(Tasks) /\ Len(q) = n /\ q[n] = x
        /\ \A i \in 1 .. Len(ts) : q[i] = ts[i]
    BY LenProperties, AppendProperties
  <1>2. IsFiniteSet(Counted(ts)) /\ Counted(ts) \subseteq 1 .. Len(ts)
    BY CountedFinite DEF Counted
  <1>3. n \notin Counted(ts)
    BY <1>1, <1>2
  <1> HIDE DEF q
  <1>4. Counted(q) = IF Counts(x) THEN Counted(ts) \cup {n} ELSE Counted(ts)
    BY <1>1 DEF Counted
  <1>5. Cardinality(Counted(ts) \cup {n}) = Cardinality(Counted(ts)) + 1
    BY <1>2, <1>3, FS_AddElement
  <1>6. Pending(ts) \in Nat
    BY CountedFinite
  <1> QED
    BY <1>4, <1>5, <1>6 DEF Pending, q

LEMMA CountedTail ==
    ASSUME NEW ts \in Seq(Tasks), ts # <<>>
    PROVE  Pending(ts) = Pending(Tail(ts)) + (IF Counts(Head(ts)) THEN 1 ELSE 0)
  <1> DEFINE q == Tail(ts)
             S == Counted(q)
             T == {i + 1 : i \in S}
  <1>1. /\ q \in Seq(Tasks) /\ Len(q) = Len(ts) - 1 /\ Len(ts) \in Nat /\ Len(ts) >= 1
        /\ \A i \in 1 .. Len(q) : q[i] = ts[i + 1]
        /\ Head(ts) = ts[1]
    BY LenProperties, EmptySeq, HeadTailProperties
  <1> HIDE DEF q
  <1>2. IsFiniteSet(S) /\ S \subseteq Nat
    BY <1>1, CountedFinite
  <1>3. IsFiniteSet(T) /\ Cardinality(T) = Cardinality(S)
    BY <1>2, Shifted
  <1>4. 1 \notin T
    BY <1>1 DEF Counted
  <1>5. Counted(ts) = IF Counts(Head(ts)) THEN T \cup {1} ELSE T
    <2>1. \A i \in 2 .. Len(ts) : i \in T <=> Counts(ts[i])
      <3> SUFFICES ASSUME NEW i \in 2 .. Len(ts) PROVE i \in T <=> Counts(ts[i])
        OBVIOUS
      <3>1. i - 1 \in 1 .. Len(q) /\ (i - 1) + 1 = i /\ q[i - 1] = ts[(i - 1) + 1]
        BY <1>1
      <3>2. i \in T <=> i - 1 \in S
        BY <1>2, <3>1
      <3> QED
        BY <3>1, <3>2 DEF Counted
    <2>2. T \subseteq 2 .. Len(ts)
      BY <1>1 DEF Counted
    <2> QED
      BY <1>1, <2>1, <2>2 DEF Counted
  <1>6. Cardinality(T \cup {1}) = Cardinality(T) + 1
    BY <1>3, <1>4, FS_AddElement
  <1> HIDE DEF T
  <1>7. Pending(q) \in Nat
    BY <1>1, CountedFinite
  <1> QED
    BY <1>3, <1>5, <1>6, <1>7 DEF Pending, q

LEMMA CountedCons ==
    ASSUME NEW ts \in Seq(Tasks), NEW x \in Tasks, Counts(x)
    PROVE  /\ <<x>> \o ts \in Seq(Tasks)
           /\ Pending(<<x>> \o ts) = Pending(ts) + 1
  <1> DEFINE q == <<x>> \o ts
  <1>1. q \in Seq(Tasks) /\ q # <<>> /\ Head(q) = x /\ Tail(q) = ts
    <2>1. <<x>> \in Seq(Tasks) /\ Len(<<x>>) = 1 /\ <<x>>[1] = x /\ Len(ts) \in Nat
      BY LenProperties
    <2>2. /\ q \in Seq(Tasks) /\ Len(q) = 1 + Len(ts)
          /\ \A i \in 1 .. 1 + Len(ts) : q[i] = IF i <= 1 THEN x ELSE ts[i - 1]
      BY <2>1, ConcatProperties
    <2> HIDE DEF q
    <2>3. q # <<>> /\ Head(q) = x
      BY <2>1, <2>2
    <2>4. /\ Tail(q) \in Seq(Tasks) /\ Len(Tail(q)) = Len(ts)
          /\ \A i \in 1 .. Len(ts) : Tail(q)[i] = q[i + 1]
      BY <2>1, <2>2, <2>3, HeadTailProperties
    <2>5. \A i \in 1 .. Len(ts) : Tail(q)[i] = ts[i]
      BY <2>1, <2>2, <2>4
    <2>6. Tail(q) = ts
      BY <2>4, <2>5, SeqEqual
    <2> QED
      BY <2>2, <2>3, <2>6
  <1> HIDE DEF q
  <1>2. Pending(q) = Pending(Tail(q)) + 1
    BY <1>1, CountedTail
  <1> QED
    BY <1>1, <1>2 DEF q

-----------------------------------------------------------------------------
\* The operations that are counted in ops are the tasks and those that wait for an
\* answerer, each of which is one of its own.
Counting ==
    IsFiniteSet(waiting) /\ s.ops = Pending(tasks) + Cardinality(waiting)

Remoting(i) == i \in 1 .. Len(tasks) /\ tasks[i].op = "setRemote"

Identified ==
    /\ \A i : Remoting(i) => tasks[i].id < calls
    /\ \A i, j : Remoting(i) /\ Remoting(j) /\ tasks[i].id = tasks[j].id => i = j
    /\ \A i : Remoting(i) => \A w \in waiting : w.id # tasks[i].id
    /\ \A w \in waiting : w.id < calls
    /\ \A v, w \in waiting : v.id = w.id => v = w

Sound == Typed /\ Counting /\ Identified

\* What a step may leave in the place of s before an operation is counted down.
Valid(u) == u \in States /\ u.ops = s.ops /\ u.closed = s.closed /\ Created(u)

LEMMA BasicValid ==
    ASSUME Typed, NEW u, Basic(s, u)
    PROVE  Valid(u)
  BY DEF Typed, Basic, Valid, Created

LEMMA Front ==
    ASSUME NEW ts \in Seq(Tasks), ts # <<>>
    PROVE  /\ Len(ts) \in Nat /\ Len(ts) >= 1
           /\ Head(ts) = ts[1] /\ Head(ts) \in Tasks /\ Tail(ts) \in Seq(Tasks)
           /\ Len(Tail(ts)) = Len(ts) - 1
           /\ \A i \in 1 .. Len(ts) - 1 : Tail(ts)[i] = ts[i + 1]
  BY LenProperties, EmptySeq, HeadTailProperties

LEMMA TaskTyped ==
    ASSUME Typed, Ready
    PROVE  /\ Task \in Tasks /\ Task.op \in Operations /\ Task.at \in Stages
           /\ Task.id \in Nat /\ Task.desc \in Descriptions /\ Shape(Task)
           /\ Task.here \in BOOLEAN /\ Task.valid \in BOOLEAN /\ Task.restart \in BOOLEAN
           /\ Task.before \in SigNames /\ Task.suppressed \in SigNames
           /\ Task.type \in {"none", "offer", "answer", "pranswer", "rollback"}
  BY Front DEF Typed, Ready, Task, Tasks, TaskRecords

\* The operation goes on as another task.
LEMMA AwaitSound ==
    ASSUME Sound, Ready, NEW u, u \in States, Created(u), NEW task \in Tasks,
           task.op = Task.op, task.id = Task.id,
           u.ops + (IF Counts(Task) THEN 1 ELSE 0) = s.ops + (IF Counts(task) THEN 1 ELSE 0),
           AwaitAs(u, task)
    PROVE  Sound'
  <1>1. /\ s' = u /\ tasks' = Append(Tail(tasks), task)
        /\ waiting' = waiting /\ calls' = calls
    BY DEF AwaitAs
  <1> DEFINE q == Tail(tasks)
  <1>2. /\ tasks \in Seq(Tasks) /\ tasks # <<>> /\ Len(tasks) \in Nat /\ Len(tasks) >= 1
        /\ Task = tasks[1]
        /\ q \in Seq(Tasks) /\ Len(q) = Len(tasks) - 1
        /\ \A i \in 1 .. Len(tasks) - 1 : q[i] = tasks[i + 1]
    BY Front DEF Sound, Typed, Ready, Task
  <1> HIDE DEF q
  <1>3. /\ tasks' \in Seq(Tasks) /\ Len(tasks') = Len(tasks)
        /\ \A i \in 1 .. Len(tasks) - 1 : tasks'[i] = tasks[i + 1]
        /\ tasks'[Len(tasks)] = task
    BY <1>2, AppendProperties, <1>1 DEF q
  <1>4. Typed'
    BY <1>1, <1>3 DEF Sound, Typed
  <1>5. Counting'
    <2> DEFINE m == IF Counts(Task) THEN 1 ELSE 0
               n == IF Counts(task) THEN 1 ELSE 0
    <2>1. m \in Nat /\ n \in Nat /\ u.ops + m = s.ops + n
      OBVIOUS
    <2>2. Pending(tasks) = Pending(q) + m
      BY <1>2, CountedTail DEF q, Task
    <2>3. Pending(tasks') = Pending(q) + n
      BY <1>1, <1>2, CountedAppend DEF q
    <2>4. Pending(q) \in Nat /\ Cardinality(waiting) \in Nat /\ u.ops \in Nat
      BY <1>2, CountedFinite, FS_CardinalityType, StateFields DEF Sound, Counting
    <2>5. s.ops = Pending(tasks) + Cardinality(waiting) /\ IsFiniteSet(waiting)
      BY DEF Sound, Counting
    <2> HIDE DEF m, n
    <2>6. u.ops = Pending(tasks') + Cardinality(waiting)
      BY <2>1, <2>2, <2>3, <2>4, <2>5
    <2> QED
      BY <1>1, <2>5, <2>6 DEF Counting
  <1>6. Identified'
    <2> DEFINE From(i) == IF i = Len(tasks) THEN 1 ELSE i + 1
    <2>1. ASSUME NEW i, Remoting(i)'
          PROVE  /\ i \in 1 .. Len(tasks) /\ Remoting(From(i))
                 /\ tasks'[i].id = tasks[From(i)].id
      <3>1. i \in 1 .. Len(tasks) /\ tasks'[i].op = "setRemote"
        BY <1>3, <2>1 DEF Remoting
      <3>2. CASE i = Len(tasks)
        BY <1>2, <1>3, <3>1, <3>2 DEF Remoting
      <3>3. CASE i # Len(tasks)
        BY <1>2, <3>1, <3>3, <1>3 DEF Remoting
      <3> QED
        BY <3>2, <3>3
    <2>2. \A i, j \in 1 .. Len(tasks) : From(i) = From(j) => i = j
      BY <1>2
    <2> HIDE DEF From
    <2>3. \A i : Remoting(i)' => tasks'[i].id < calls'
      BY <1>1, <2>1 DEF Sound, Identified
    <2>4. \A i, j : Remoting(i)' /\ Remoting(j)' /\ tasks'[i].id = tasks'[j].id => i = j
      BY <2>1, <2>2 DEF Sound, Identified
    <2>5. \A i : Remoting(i)' => \A w \in waiting' : w.id # tasks'[i].id
      BY <1>1, <2>1 DEF Sound, Identified
    <2> QED
      BY <1>1, <2>3, <2>4, <2>5 DEF Sound, Identified
  <1> QED
    BY <1>4, <1>5, <1>6 DEF Sound

\* A task leaves the queue, and with it an operation or not.
LEMMA DropSound ==
    ASSUME Sound, Ready, NEW u, u \in States, Created(u),
           u.ops = s.ops - (IF Counts(Task) THEN 1 ELSE 0),
           s' = u, tasks' = Tail(tasks), UNCHANGED <<waiting, calls>>
    PROVE  Sound'
  <1> DEFINE q == Tail(tasks)
  <1>2. /\ tasks \in Seq(Tasks) /\ tasks # <<>> /\ Len(tasks) \in Nat /\ Len(tasks) >= 1
        /\ q \in Seq(Tasks) /\ Len(q) = Len(tasks) - 1
        /\ \A i \in 1 .. Len(tasks) - 1 : q[i] = tasks[i + 1]
    BY Front DEF Sound, Typed, Ready
  <1>3. tasks' = q
    OBVIOUS
  <1>4. Typed'
    BY <1>2 DEF Sound, Typed
  <1>5. Counting'
    <2>1. Pending(tasks) = Pending(q) + (IF Counts(Task) THEN 1 ELSE 0)
      BY <1>2, CountedTail DEF Task
    <2>2. Pending(q) \in Nat
      BY <1>2, CountedFinite
    <2>3. Cardinality(waiting) \in Nat
      BY FS_CardinalityType DEF Sound, Counting
    <2> HIDE DEF q
    <2>4. IsFiniteSet(waiting) /\ s.ops = Pending(tasks) + Cardinality(waiting)
      BY DEF Sound, Counting
    <2> DEFINE n == IF Counts(Task) THEN 1 ELSE 0
    <2>5. n \in Nat /\ u.ops = s.ops - n /\ Pending(tasks) = Pending(q) + n
      BY <2>1
    <2> HIDE DEF n
    <2>6. u.ops = Pending(q) + Cardinality(waiting)
      BY <2>2, <2>3, <2>4, <2>5
    <2> QED
      BY <1>3, <2>4, <2>6 DEF Counting
  <1> HIDE DEF q
  <1>6. Identified'
    <2>1. ASSUME NEW i, Remoting(i)'
          PROVE  /\ i \in 1 .. Len(tasks) - 1 /\ i + 1 \in Nat /\ Remoting(i + 1)
                 /\ tasks'[i].id = tasks[i + 1].id
      BY <1>2, <1>3, <2>1 DEF Remoting
    <2>2. \A i, j \in 1 .. Len(tasks) - 1 : i + 1 = j + 1 => i = j
      BY <1>2
    <2>3. \A i : Remoting(i)' => tasks'[i].id < calls'
      BY <2>1 DEF Sound, Identified
    <2>4. \A i, j : Remoting(i)' /\ Remoting(j)' /\ tasks'[i].id = tasks'[j].id => i = j
      BY <2>1, <2>2 DEF Sound, Identified
    <2>5. \A i : Remoting(i)' => \A w \in waiting' : w.id # tasks'[i].id
      BY <2>1 DEF Sound, Identified
    <2> QED
      BY <2>3, <2>4, <2>5 DEF Sound, Identified
  <1> QED
    BY <1>4, <1>5, <1>6 DEF Sound

LEMMA ProgressOps ==
    ASSUME Sound, Ready, Counts(Task)
    PROVE  s.ops \in Nat /\ s.ops > 0
  <1>1. tasks \in Seq(Tasks) /\ tasks # <<>> /\ Tail(tasks) \in Seq(Tasks)
    BY Front DEF Sound, Typed, Ready
  <1>2. Pending(tasks) = Pending(Tail(tasks)) + 1 /\ Pending(Tail(tasks)) \in Nat
    BY <1>1, CountedTail, CountedFinite DEF Task
  <1>3. Cardinality(waiting) \in Nat
    BY FS_CardinalityType DEF Sound, Counting
  <1> QED
    BY <1>2, <1>3 DEF Sound, Counting

\* Its promise settles.
LEMMA EndSound ==
    ASSUME Sound, Ready, NEW u, Valid(u), Counts(Task),
           s' = FinishPendingOperation(u), tasks' = Tail(tasks), UNCHANGED <<waiting, calls>>
    PROVE  Sound'
  <1> DEFINE v == FinishPendingOperation(u)
  <1>1. v \in States /\ SameExchange(u, v) /\ v.ops = Less(u.ops)
    BY FinishKeeps DEF Valid
  <1>2. s.ops \in Nat /\ s.ops > 0 /\ u.ops = s.ops
    BY ProgressOps DEF Valid
  <1> HIDE DEF v
  <1>3. v.ops = s.ops - (IF Counts(Task) THEN 1 ELSE 0)
    BY <1>1, <1>2 DEF Less
  <1>4. Created(v)
    BY <1>1 DEF SameExchange, Valid, Created
  <1>5. s' = v
    BY DEF v
  <1> QED
    BY <1>1, <1>3, <1>4, <1>5, DropSound

LEMMA SettleSound ==
    ASSUME Sound, Ready, NEW u, Valid(u), Counts(Task), Settle(u) \/ Reject(u)
    PROVE  Sound'
  BY EndSound DEF Settle, Reject

\* A task joins the queue, and with it an operation or not.
LEMMA JoinSound ==
    ASSUME Sound, NEW u, u \in States, Created(u), NEW task \in Tasks,
           u.ops = s.ops + (IF Counts(task) THEN 1 ELSE 0),
           task.op = "setRemote" => task.id = calls,
           s' = u, tasks' = Append(tasks, task), calls' = calls + 1, waiting' = waiting
    PROVE  Sound'
  <1>1. /\ tasks \in Seq(Tasks) /\ Len(tasks) \in Nat /\ calls \in Nat
        /\ tasks' \in Seq(Tasks) /\ Len(tasks') = Len(tasks) + 1
        /\ \A i \in 1 .. Len(tasks) : tasks'[i] = tasks[i]
        /\ tasks'[Len(tasks) + 1] = task
    BY LenProperties, AppendProperties DEF Sound, Typed
  <1>2. Typed'
    BY <1>1 DEF Sound, Typed
  <1>3. Counting'
    <2> DEFINE n == IF Counts(task) THEN 1 ELSE 0
    <2>1. Pending(tasks') = Pending(tasks) + n
      BY <1>1, CountedAppend
    <2>2. Pending(tasks) \in Nat
      BY <1>1, CountedFinite
    <2>3. Cardinality(waiting) \in Nat
      BY FS_CardinalityType DEF Sound, Counting
    <2>4. IsFiniteSet(waiting) /\ s.ops = Pending(tasks) + Cardinality(waiting)
      BY DEF Sound, Counting
    <2>5. n \in Nat /\ u.ops = s.ops + n
      OBVIOUS
    <2> HIDE DEF n
    <2>6. u.ops = Pending(tasks') + Cardinality(waiting)
      BY <2>1, <2>2, <2>3, <2>4, <2>5
    <2> QED
      BY <2>4, <2>6 DEF Counting
  <1>4. Identified'
    <2>1. ASSUME NEW i, Remoting(i)'
          PROVE  \/ Remoting(i) /\ i # Len(tasks) + 1 /\ tasks'[i] = tasks[i]
                 \/ i = Len(tasks) + 1 /\ tasks'[i].id = calls
      <3>1. i \in 1 .. Len(tasks) + 1 /\ tasks'[i].op = "setRemote"
        BY <1>1, <2>1 DEF Remoting
      <3>2. CASE i \in 1 .. Len(tasks)
        BY <1>1, <3>1, <3>2 DEF Remoting
      <3>3. CASE i = Len(tasks) + 1
        BY <1>1, <3>1, <3>3
      <3> QED
        BY <1>1, <3>1, <3>2, <3>3
    <2>2. \A i : Remoting(i) => tasks[i].id < calls /\ tasks[i].id \in Nat
      BY <1>1, ElementOfSeq DEF Remoting, Sound, Identified, Tasks, TaskRecords
    <2>3. \A i : Remoting(i)' => tasks'[i].id < calls'
      <3> SUFFICES ASSUME NEW i, Remoting(i)'
                   PROVE  tasks'[i].id < calls + 1
        OBVIOUS
      <3>1. CASE Remoting(i) /\ tasks'[i] = tasks[i]
        BY <2>2, <3>1, <1>1
      <3>2. CASE tasks'[i].id = calls
        BY <1>1, <3>2
      <3> QED
        BY <2>1, <3>1, <3>2
    <2>4. ASSUME NEW i, NEW j, Remoting(i)', Remoting(j)', tasks'[i].id = tasks'[j].id
          PROVE  i = j
      <3>1. CASE Remoting(i) /\ tasks'[i] = tasks[i] /\ Remoting(j) /\ tasks'[j] = tasks[j]
        BY <2>4, <3>1 DEF Sound, Identified
      <3>2. CASE Remoting(i) /\ tasks'[i] = tasks[i] /\ tasks'[j].id = calls
        BY <2>2, <3>2, <1>1, <2>4
      <3>3. CASE Remoting(j) /\ tasks'[j] = tasks[j] /\ tasks'[i].id = calls
        BY <2>2, <3>3, <2>4, <1>1
      <3>4. \/ Remoting(i) /\ i # Len(tasks) + 1 /\ tasks'[i] = tasks[i]
            \/ i = Len(tasks) + 1 /\ tasks'[i].id = calls
        BY <2>1, <2>4
      <3>5. \/ Remoting(j) /\ j # Len(tasks) + 1 /\ tasks'[j] = tasks[j]
            \/ j = Len(tasks) + 1 /\ tasks'[j].id = calls
        BY <2>1, <2>4
      <3> QED
        BY <3>1, <3>2, <3>3, <3>4, <3>5
    <2>5. \A w \in waiting : w.id \in Nat /\ w.id < calls
      BY DEF Sound, Typed, WaitingTasks, Tasks, TaskRecords, Identified
    <2>6. ASSUME NEW i, Remoting(i)', NEW w \in waiting
          PROVE  w.id # tasks'[i].id
      <3>1. w.id \in Nat /\ w.id < calls
        BY <2>5
      <3>2. CASE Remoting(i) /\ tasks'[i] = tasks[i]
        BY <3>2 DEF Sound, Identified
      <3>3. CASE tasks'[i].id = calls
        BY <1>1, <3>1, <3>3
      <3> QED
        BY <2>1, <2>6, <3>2, <3>3
    <2>7. \A w \in waiting' : w.id < calls'
      BY <1>1, <2>5
    <2> QED
      BY <2>3, <2>4, <2>6, <2>7 DEF Sound, Identified
  <1> QED
    BY <1>2, <1>3, <1>4 DEF Sound

\* No task starts or ends.
LEMMA AsideSound ==
    ASSUME Sound, NEW u, u \in States, u.ops = s.ops, Created(u),
           s' = u, tasks' = tasks, waiting' = waiting, calls' \in {calls, calls + 1}
    PROVE  Sound'
  <1>1. calls \in Nat
    BY DEF Sound, Typed
  <1>2. Typed'
    BY <1>1 DEF Sound, Typed
  <1>3. Counting'
    BY DEF Sound, Counting
  <1>4. Identified'
    <2>1. \A i : Remoting(i)' <=> Remoting(i)
      BY DEF Remoting
    <2>2. \A i : Remoting(i) => tasks[i].id \in Nat
      BY ElementOfSeq DEF Remoting, Sound, Typed, Tasks, TaskRecords
    <2>3. \A w \in waiting : w.id \in Nat
      BY DEF Sound, Typed, WaitingTasks, Tasks, TaskRecords
    <2>4. \A i : Remoting(i)' => tasks'[i].id < calls'
      BY <1>1, <2>1, <2>2 DEF Sound, Identified
    <2>5. \A w \in waiting' : w.id < calls'
      BY <1>1, <2>3 DEF Sound, Identified
    <2> QED
      BY <2>1, <2>4, <2>5 DEF Sound, Identified
  <1> QED
    BY <1>2, <1>3, <1>4 DEF Sound

LEMMA TasksTyped ==
    ASSUME Sound
    PROVE  /\ tasks \in Seq(Tasks) /\ Len(tasks) \in Nat /\ calls \in Nat
           /\ \A i : Remoting(i) => tasks[i] \in Tasks /\ tasks[i].id \in Nat
           /\ \A w \in waiting : w \in Tasks /\ w.id \in Nat /\ Counts(w)
           /\ IsFiniteSet(waiting) /\ Cardinality(waiting) \in Nat
           /\ s \in States /\ Created(s) /\ s.ops \in Nat
  <1>1. tasks \in Seq(Tasks) /\ Len(tasks) \in Nat /\ calls \in Nat
    BY LenProperties DEF Sound, Typed
  <1>2. \A i : Remoting(i) => tasks[i] \in Tasks
    BY <1>1, ElementOfSeq DEF Remoting
  <1>3. \A task \in Tasks : task.id \in Nat
    BY DEF Tasks, TaskRecords
  <1>4. \A w \in waiting : w \in Tasks /\ Counts(w)
    BY DEF Sound, Typed, WaitingTasks, Counts
  <1>5. IsFiniteSet(waiting) /\ Cardinality(waiting) \in Nat
    BY FS_CardinalityType DEF Sound, Counting
  <1>6. s \in States /\ Created(s) /\ s.ops \in Nat
    BY StateFields DEF Sound, Typed
  <1> QED
    BY <1>1, <1>2, <1>3, <1>4, <1>5, <1>6

\* The operation waits for the answerer.
LEMMA WaitSound ==
    ASSUME Sound, Ready, NEW w \in WaitingTasks, w.id = Task.id, Task.op = "setRemote",
           Counts(Task), waiting' = waiting \cup {w}, tasks' = Tail(tasks),
           UNCHANGED <<s, calls>>
    PROVE  Sound'
  <1> DEFINE q == Tail(tasks)
  <1>1. /\ tasks \in Seq(Tasks) /\ tasks # <<>> /\ Len(tasks) \in Nat /\ Len(tasks) >= 1
        /\ Task = tasks[1]
        /\ q \in Seq(Tasks) /\ Len(q) = Len(tasks) - 1
        /\ \A i \in 1 .. Len(tasks) - 1 : q[i] = tasks[i + 1]
    BY Front DEF Sound, Typed, Ready, Task
  <1>2. tasks' = q
    OBVIOUS
  <1>3. Remoting(1)
    BY <1>1 DEF Remoting
  <1>4. \A v \in waiting : v.id # w.id
    BY <1>1, <1>3 DEF Sound, Identified
  <1>5. w.id < calls
    BY <1>1, <1>3 DEF Sound, Identified
  <1>6. Typed'
    BY <1>1, <1>2 DEF Sound, Typed
  <1>7. Counting'
    <2>1. Pending(tasks) = Pending(q) + 1 /\ Pending(q) \in Nat
      BY <1>1, CountedTail, CountedFinite DEF Task
    <2>2. w \notin waiting
      BY <1>4
    <2>3. /\ IsFiniteSet(waiting) /\ Cardinality(waiting) \in Nat
          /\ IsFiniteSet(waiting \cup {w})
          /\ Cardinality(waiting \cup {w}) = Cardinality(waiting) + 1
      BY <2>2, TasksTyped, FS_AddElement
    <2>4. s.ops = Pending(tasks) + Cardinality(waiting) /\ s' = s
      BY DEF Sound, Counting
    <2> HIDE DEF q
    <2>5. s.ops = Pending(q) + (Cardinality(waiting) + 1)
      BY <2>1, <2>3, <2>4
    <2> QED
      BY <1>2, <2>3, <2>4, <2>5 DEF Counting
  <1> HIDE DEF q
  <1>8. Identified'
    <2>1. ASSUME NEW i, Remoting(i)'
          PROVE  /\ i \in 1 .. Len(tasks) - 1 /\ i + 1 \in Nat /\ Remoting(i + 1)
                 /\ tasks'[i].id = tasks[i + 1].id /\ i + 1 # 1
      BY <1>1, <1>2, <2>1 DEF Remoting
    <2>2. \A i, j \in 1 .. Len(tasks) - 1 : i + 1 = j + 1 => i = j
      BY <1>1
    <2>3. \A i : Remoting(i)' => tasks'[i].id < calls'
      BY <2>1 DEF Sound, Identified
    <2>4. \A i, j : Remoting(i)' /\ Remoting(j)' /\ tasks'[i].id = tasks'[j].id => i = j
      BY <2>1, <2>2 DEF Sound, Identified
    <2>5. ASSUME NEW i, Remoting(i)', NEW v \in waiting'
          PROVE  v.id # tasks'[i].id
      <3>1. Remoting(i + 1) /\ tasks'[i].id = tasks[i + 1].id /\ i + 1 # 1
        BY <2>1, <2>5
      <3>2. CASE v \in waiting
        BY <3>1, <3>2 DEF Sound, Identified
      <3>3. CASE v = w
        BY <1>1, <1>3, <3>1, <3>3 DEF Sound, Identified
      <3> QED
        BY <3>2, <3>3
    <2>6. \A v \in waiting' : v.id < calls'
      BY <1>5 DEF Sound, Identified
    <2>7. \A v, x \in waiting' : v.id = x.id => v = x
      BY <1>4 DEF Sound, Identified
    <2> QED
      BY <2>3, <2>4, <2>5, <2>6, <2>7 DEF Identified
  <1> QED
    BY <1>6, <1>7, <1>8 DEF Sound

\* It goes on, ahead of what was scheduled since.
LEMMA AnswersSound ==
    ASSUME Sound, AnswererAnswers
    PROVE  Sound'
  <1>1. PICK w \in waiting : tasks' = <<w>> \o tasks /\ waiting' = waiting \ {w}
    BY DEF AnswererAnswers
  <1>2. UNCHANGED <<s, calls>>
    BY DEF AnswererAnswers
  <1>3. w \in Tasks /\ Counts(w) /\ w.id \in Nat
    BY TasksTyped
  <1>4. /\ tasks' \in Seq(Tasks) /\ Pending(tasks') = Pending(tasks) + 1
        /\ Pending(tasks) \in Nat
    BY <1>1, <1>3, TasksTyped, CountedCons, CountedFinite
  <1>5. /\ IsFiniteSet(waiting \ {w}) /\ Cardinality(waiting \ {w}) = Cardinality(waiting) - 1
        /\ Cardinality(waiting) \in Nat
    BY TasksTyped, FS_RemoveElement
  <1>6. Typed'
    BY <1>1, <1>2, <1>4 DEF Sound, Typed
  <1>7. Counting'
    BY <1>1, <1>2, <1>4, <1>5 DEF Sound, Counting
  <1>8. Identified'
    <2>1. /\ Len(tasks') = 1 + Len(tasks) /\ tasks'[1] = w
          /\ \A i \in 2 .. 1 + Len(tasks) : tasks'[i] = tasks[i - 1]
      BY <1>3, TasksTyped, <1>1, ConcatProperties
    <2>2. ASSUME NEW i, Remoting(i)'
          PROVE  \/ i = 1 /\ tasks'[i].id = w.id
                 \/ /\ i \in 2 .. 1 + Len(tasks) /\ Remoting(i - 1)
                    /\ tasks'[i].id = tasks[i - 1].id
      <3>1. i \in 1 .. 1 + Len(tasks) /\ tasks'[i].op = "setRemote"
        BY <2>1, <2>2 DEF Remoting
      <3>2. Len(tasks) \in Nat
        BY TasksTyped
      <3>3. CASE i = 1
        BY <2>1, <3>3
      <3>4. CASE i # 1
        BY <3>1, <3>2, <3>4, <2>1 DEF Remoting
      <3> QED
        BY <3>3, <3>4
    <2>3. \A i, j \in 2 .. 1 + Len(tasks) : i - 1 = j - 1 => i = j
      BY TasksTyped
    <2>4. \A i : Remoting(i)' => tasks'[i].id < calls'
      BY <1>2, <2>2 DEF Sound, Identified
    <2>5. ASSUME NEW i, NEW j, Remoting(i)', Remoting(j)', tasks'[i].id = tasks'[j].id
          PROVE  i = j
      BY <2>2, <2>5, <2>3 DEF Sound, Identified
    <2>6. \A i : Remoting(i)' => \A v \in waiting' : v.id # tasks'[i].id
      BY <1>1, <2>2 DEF Sound, Identified
    <2> QED
      BY <1>1, <1>2, <2>4, <2>5, <2>6 DEF Sound, Identified
  <1> QED
    BY <1>6, <1>7, <1>8 DEF Sound

\* The answerer fails, and with it the operation.
LEMMA ThrowsSound ==
    ASSUME Sound, AnswererThrows
    PROVE  Sound'
  <1>1. PICK w \in waiting : waiting' = waiting \ {w}
    BY DEF AnswererThrows
  <1>2. s' = FinishPendingOperation(s) /\ UNCHANGED <<tasks, calls>>
    BY DEF AnswererThrows
  <1>3. /\ IsFiniteSet(waiting \ {w}) /\ Cardinality(waiting \ {w}) = Cardinality(waiting) - 1
        /\ Cardinality(waiting) \in Nat
    BY TasksTyped, FS_RemoveElement
  <1>4. Cardinality(waiting) # 0
    BY <1>1, TasksTyped, FS_EmptySet
  <1>5. s \in States /\ Created(s) /\ s.ops \in Nat /\ tasks \in Seq(Tasks)
    BY TasksTyped
  <1>6. s' \in States /\ SameExchange(s, s') /\ s'.ops = Less(s.ops)
    BY <1>2, <1>5, FinishKeeps
  <1>7. Typed'
    BY <1>1, <1>2, <1>6 DEF Sound, Typed, Created, SameExchange
  <1>8. Counting'
    BY <1>5, CountedFinite, <1>3, <1>4, <1>6, <1>1, <1>2 DEF Sound, Counting, Less
  <1>9. Identified'
    BY <1>1, <1>2 DEF Sound, Identified, Remoting
  <1> QED
    BY <1>7, <1>8, <1>9 DEF Sound

-----------------------------------------------------------------------------
\* How the queue of tasks changes.
LEMMA Shifts ==
    ASSUME Sound, Ready, tasks' = Tail(tasks)
    PROVE  /\ 1 \in 1 .. Len(tasks) /\ Task = tasks[1]
           /\ \A i \in 1 .. Len(tasks') :
                 i + 1 \in 1 .. Len(tasks) /\ i + 1 # 1 /\ tasks'[i] = tasks[i + 1]
           /\ \A i, j \in 1 .. Len(tasks') : i + 1 = j + 1 => i = j
  BY Front DEF Sound, Typed, Ready, Task

LEMMA Joins ==
    ASSUME Sound, NEW task \in Tasks, tasks' = Append(tasks, task)
    PROVE  \A i \in 1 .. Len(tasks') :
              \/ i \in 1 .. Len(tasks) /\ tasks'[i] = tasks[i]
              \/ i = Len(tasks) + 1 /\ tasks'[i] = task
  BY TasksTyped, AppendProperties

LEMMA Requeues ==
    ASSUME Sound, Ready, NEW task \in Tasks, tasks' = Append(Tail(tasks), task)
    PROVE  /\ 1 \in 1 .. Len(tasks) /\ Task = tasks[1]
           /\ \A i \in 1 .. Len(tasks') :
              \/ i + 1 \in 1 .. Len(tasks) /\ i + 1 # 1 /\ tasks'[i] = tasks[i + 1]
              \/ i = Len(tasks) /\ tasks'[i] = task
  <1> DEFINE q == Tail(tasks)
  <1>1. /\ Len(tasks) \in Nat /\ Len(tasks) >= 1 /\ Task = tasks[1]
        /\ q \in Seq(Tasks) /\ Len(q) = Len(tasks) - 1
        /\ \A i \in 1 .. Len(tasks) - 1 : q[i] = tasks[i + 1]
    BY Front DEF Sound, Typed, Ready, Task
  <1>2. tasks' = Append(q, task)
    OBVIOUS
  <1> HIDE DEF q
  <1>3. /\ Len(tasks') = Len(q) + 1
        /\ \A i \in 1 .. Len(q) : tasks'[i] = q[i]
        /\ tasks'[Len(q) + 1] = task
    BY <1>1, <1>2, AppendProperties
  <1> QED
    BY <1>1, <1>3

LEMMA Advances ==
    ASSUME Sound, NEW task \in Tasks, tasks' = <<task>> \o tasks
    PROVE  \A i \in 1 .. Len(tasks') :
              \/ i = 1 /\ tasks'[i] = task
              \/ i - 1 \in 1 .. Len(tasks) /\ tasks'[i] = tasks[i - 1]
  BY TasksTyped, ConcatProperties

-----------------------------------------------------------------------------
\* What is pending and the state go together: an answer can only be provisional, and the
\* state may be that of either description then.  While an offer of an ICE restart that
\* only JavaScript knows of is pending the state is have-local-offer, but for a remote
\* pranswer or an exchange that was committed behind it.
Exchanges ==
    {<<"none", "none", "stable">>, <<"offer", "none", HLO>>, <<"none", "offer", HRO>>,
     <<"offer", "pranswer", HRP>>, <<"offer", "pranswer", HLO>>,
     <<"pranswer", "offer", HLP>>, <<"pranswer", "offer", HRO>>}

Phase(t) ==
    \/ t.closed
    \/ ~t.jsOffer /\ <<t.pl.type, t.pr.type, t.sig>> \in Exchanges
    \/ /\ t.jsOffer /\ t.pl.type \in {"none", "offer"} /\ t.pr.type \in {"none", "pranswer"}
       /\ t.sig \in {"stable", HLO, HRP}

NoPranswer(t) == ~t.jsOffer /\ t.pl.type # "pranswer" /\ t.pr.type # "pranswer"

\* What a call was made under still holds when its task runs.
Upcoming(t, task) ==
    /\ task.op \in SetOps /\ task.at = "work" /\ task.type = "rollback" => NoPranswer(t)
    /\ task.op = "setLocal" /\ task.at = "work" /\ task.desc = NoDesc /\ task.type = "offer"
          => t.pr.type # "offer"
    /\ task.op = "setRemote" /\ task.at = "work" /\ task.type = "offer" => NoPranswer(t)
    /\ task.at = "rolledBack" => ~t.jsOffer /\ t.pl.type = "none" /\ t.pr.type = "none"

\* No more than one operation on descriptions is on its way.
Describing(i) == i \in 1 .. Len(tasks) /\ tasks[i].op \in DescriptionOps

Single ==
    /\ \A i, j : Describing(i) /\ Describing(j) => i = j
    /\ waiting # {} => \A i : ~Describing(i)
    /\ \A v, w \in waiting : v = w

Prepared == s.closed \/ \A i \in 1 .. Len(tasks) : Upcoming(s, tasks[i])

\* Candidates are kept back for a reason that goes away with a step that looks at them.
KeptBack(t) ==
    \/ t.queued = {} \/ t.r = NoDesc \/ t.ops > 0
    \/ t.paired \in {"busy", "left"} \/ t.sig # "stable"

Orderly == Single /\ Phase(s) /\ Prepared /\ KeptBack(s)

SInv == Sound /\ (Chained /\ Cautious => Orderly)

\* What a step leaves as it is for the operations that are to come.
Calm(t, u) ==
    /\ u.closed = t.closed /\ u.jsOffer = t.jsOffer
    /\ \/ u.pl.type = t.pl.type /\ u.pr.type = t.pr.type
       \/ u.pl.type = "none" /\ u.pr.type = "none"

LEMMA CalmUpcoming ==
    ASSUME NEW t, NEW u, NEW task, Calm(t, u), Upcoming(t, task)
    PROVE  Upcoming(u, task)
  BY DEF Calm, Upcoming, NoPranswer

LEMMA FlushedKeptBack ==
    ASSUME NEW t, t.ops > 0 \/ Flushed(t)
    PROVE  KeptBack(t)
  BY DEF Flushed, KeptBack, DeferCandidates, HRO

LEMMA FinishOrderly ==
    ASSUME NEW t \in States, Phase(t)
    PROVE  LET u == FinishPendingOperation(t)
           IN  Phase(u) /\ KeptBack(u) /\ Calm(t, u)
  <1> DEFINE u == FinishPendingOperation(t)
  <1>1. u \in States /\ SameExchange(t, u) /\ (u.ops > 0 \/ Flushed(u))
    BY FinishKeeps
  <1> HIDE DEF u
  <1>2. KeptBack(u)
    BY <1>1, FlushedKeptBack
  <1>3. Phase(u) /\ Calm(t, u)
    BY <1>1 DEF SameExchange, Phase, Calm
  <1> QED
    BY <1>2, <1>3 DEF u

-----------------------------------------------------------------------------
\* The ways a step can go on, each of which preserves the invariant.

\* What the work of a task may leave.
Proceeds(u) == Valid(u) /\ (Phase(s) /\ Upcoming(s, Task) => Phase(u))

LEMMA HeadUpcoming ==
    ASSUME Sound, Ready, Prepared
    PROVE  s.closed \/ Upcoming(s, Task)
  BY Front DEF Sound, Typed, Ready, Task, Prepared

LEMMA ProceedsPhase ==
    ASSUME Sound, Ready, Orderly, NEW u, Proceeds(u)
    PROVE  Phase(u)
  <1>1. CASE s.closed
    BY <1>1 DEF Proceeds, Valid, Phase
  <1>2. CASE ~s.closed
    BY <1>2, HeadUpcoming DEF Orderly, Proceeds
  <1> QED
    BY <1>1, <1>2

\* No other operation on descriptions is there when one of them runs.
LEMMA Alone ==
    ASSUME Sound, Ready, Single, Task.op \in DescriptionOps
    PROVE  /\ waiting = {} /\ Describing(1)
           /\ \A i : Describing(i) => i = 1
  BY Front DEF Sound, Typed, Ready, Task, Describing, Single

\* The tasks of other operations are not told what to expect.
LEMMA NothingUpcoming ==
    ASSUME NEW t, NEW task \in Tasks,
           task.op \notin SetOps \/ task.at \notin {"work", "rolledBack"}
    PROVE  Upcoming(t, task)
  BY DEF Upcoming, Tasks, Shape, SetOps

LEMMA AwaitOrderly ==
    ASSUME SInv, Ready, Task.op \in DescriptionOps, Counts(Task),
           NEW u, Proceeds(u), NEW task \in Tasks,
           task.op = Task.op, task.id = Task.id, Counts(task),
           \/ task.at \notin {"work", "rolledBack"}
           \/ Phase(s) /\ Upcoming(s, Task) => Upcoming(u, task),
           AwaitAs(u, task)
    PROVE  SInv'
  <1>1. Sound /\ (Chained /\ Cautious => Orderly)
    BY DEF SInv
  <1>2. Valid(u)
    BY DEF Proceeds
  <1>3. Sound'
    BY <1>2, <1>1, AwaitSound DEF Valid
  <1>4. /\ s' = u /\ tasks' = Append(Tail(tasks), task)
        /\ waiting' = waiting /\ calls' = calls
    BY DEF AwaitAs
  <1>5. ASSUME Orderly
        PROVE  Orderly'
    <2>1. Phase(u)
      BY <1>1, <1>5, ProceedsPhase
    <2>2. u.ops > 0
      BY <1>1, <1>2, ProgressOps DEF Valid
    <2>3. waiting = {} /\ \A i : Describing(i) => i = 1
      BY <1>1, <1>5, Alone DEF Orderly
    <2>4. \A i \in 1 .. Len(tasks') :
              \/ i + 1 \in 1 .. Len(tasks) /\ i + 1 # 1 /\ tasks'[i] = tasks[i + 1]
              \/ i = Len(tasks) /\ tasks'[i] = task
      BY <1>1, <1>4, Requeues
    <2>5. \A i : Describing(i)' => i = Len(tasks)
      BY <2>3, <2>4 DEF Describing
    <2>6. Single'
      BY <1>4, <2>3, <2>5 DEF Single
    <2>7. ASSUME ~u.closed, NEW i \in 1 .. Len(tasks')
          PROVE  Upcoming(u, tasks'[i])
      <3>1. CASE i + 1 \in 1 .. Len(tasks) /\ i + 1 # 1 /\ tasks'[i] = tasks[i + 1]
        BY <1>1, <3>1, TasksTyped, ElementOfSeq, <2>3, NothingUpcoming
        DEF Describing, DescriptionOps
      <3>2. CASE tasks'[i] = task
        <4>1. CASE task.at \notin {"work", "rolledBack"}
          BY <3>2, <4>1, NothingUpcoming
        <4>2. CASE Phase(s) /\ Upcoming(s, Task) => Upcoming(u, task)
          BY <1>2, <2>7, <1>1, <1>5, HeadUpcoming, <3>2, <4>2 DEF Valid, Orderly
        <4> QED
          BY <4>1, <4>2
      <3> QED
        BY <2>4, <3>1, <3>2
    <2>8. Prepared'
      BY <1>4, <2>7 DEF Prepared
    <2> QED
      BY <1>4, <2>1, <2>2, <2>6, <2>8 DEF Orderly, KeptBack
  <1> QED
    BY <1>1, <1>3, <1>5 DEF SInv

\* An operation ends; the others find what they expect.
LEMMA EndOrderly ==
    ASSUME SInv, Ready, Counts(Task), NEW u, Proceeds(u),
           Task.op \in DescriptionOps \/ Calm(s, u),
           s' = FinishPendingOperation(u), tasks' = Tail(tasks), UNCHANGED <<waiting, calls>>
    PROVE  SInv'
  <1>1. Sound /\ (Chained /\ Cautious => Orderly)
    BY DEF SInv
  <1>2. Valid(u) /\ u \in States
    BY DEF Proceeds, Valid
  <1>3. Sound'
    BY <1>1, <1>2, EndSound
  <1>4. ASSUME Orderly
        PROVE  Orderly'
    <2>1. Phase(u)
      BY <1>1, <1>4, ProceedsPhase
    <2>2. Phase(s') /\ KeptBack(s') /\ Calm(u, s')
      BY <1>2, <2>1, FinishOrderly
    <2>3. \A i \in 1 .. Len(tasks') :
              i + 1 \in 1 .. Len(tasks) /\ i + 1 # 1 /\ tasks'[i] = tasks[i + 1]
      BY <1>1, Shifts
    <2>4. \A i, j \in 1 .. Len(tasks') : i + 1 = j + 1 => i = j
      BY <1>1, Shifts
    <2>5. \A i : Describing(i)' => i \in 1 .. Len(tasks') /\ Describing(i + 1)
      BY <2>3 DEF Describing
    <2>6. Single'
      BY <1>4, <2>4, <2>5 DEF Orderly, Single
    <2>7. ASSUME ~s'.closed, NEW i \in 1 .. Len(tasks')
          PROVE  Upcoming(s', tasks'[i])
      <3>1. i + 1 \in 1 .. Len(tasks) /\ i + 1 # 1 /\ tasks'[i] = tasks[i + 1]
        BY <2>3
      <3>2. tasks'[i] \in Tasks
        BY <1>1, <3>1, TasksTyped, ElementOfSeq
      <3>3. CASE Task.op \in DescriptionOps
        BY <1>1, <1>4, <3>1, <3>3, Alone, <3>2, NothingUpcoming
        DEF Orderly, Describing, DescriptionOps
      <3>4. CASE Calm(s, u)
        <4>1. ~s.closed
          BY <1>2, <2>2, <2>7 DEF Valid, Calm
        <4>2. Upcoming(s, tasks[i + 1])
          BY <1>4, <3>1, <4>1 DEF Orderly, Prepared
        <4> QED
          BY <2>2, <3>1, <3>4, <4>2, CalmUpcoming
      <3> QED
        BY <3>3, <3>4
    <2> QED
      BY <2>2, <2>6, <2>7 DEF Orderly, Prepared
  <1> QED
    BY <1>1, <1>3, <1>4 DEF SInv

LEMMA SettleOrderly ==
    ASSUME SInv, Ready, Counts(Task), NEW u, Proceeds(u),
           Task.op \in DescriptionOps \/ Calm(s, u), Settle(u) \/ Reject(u)
    PROVE  SInv'
  BY EndOrderly DEF Settle, Reject

LEMMA WaitOrderly ==
    ASSUME SInv, Ready, NEW w \in WaitingTasks, w.id = Task.id, Task.op = "setRemote",
           Counts(Task), waiting' = waiting \cup {w}, tasks' = Tail(tasks),
           UNCHANGED <<s, calls>>
    PROVE  SInv'
  <1>1. Sound /\ (Chained /\ Cautious => Orderly)
    BY DEF SInv
  <1>2. Sound'
    BY <1>1, WaitSound
  <1>3. ASSUME Orderly
        PROVE  Orderly'
    BY <1>1, <1>3, Alone, Shifts
    DEF Orderly, DescriptionOps, SetOps, Describing, Single, Prepared
  <1> QED
    BY <1>1, <1>2, <1>3 DEF SInv

LEMMA AnswersOrderly ==
    ASSUME SInv, AnswererAnswers
    PROVE  SInv'
  <1>1. Sound /\ (Chained /\ Cautious => Orderly)
    BY DEF SInv
  <1>2. Sound'
    BY <1>1, AnswersSound
  <1>3. PICK w \in waiting : tasks' = <<w>> \o tasks /\ waiting' = waiting \ {w}
    BY DEF AnswererAnswers
  <1>4. UNCHANGED s
    BY DEF AnswererAnswers
  <1>5. w \in Tasks /\ w.at \notin {"work", "rolledBack"}
    BY <1>1 DEF Sound, Typed, WaitingTasks
  <1>6. ASSUME Orderly
        PROVE  Orderly'
    <2>1. (\A i : ~Describing(i)) /\ waiting' = {}
      BY <1>3, <1>6 DEF Orderly, Single
    <2>2. \A i \in 1 .. Len(tasks') :
              \/ i = 1 /\ tasks'[i] = w
              \/ i - 1 \in 1 .. Len(tasks) /\ tasks'[i] = tasks[i - 1]
      BY <1>1, <1>3, <1>5, Advances
    <2>3. \A i : Describing(i)' => i = 1
      BY <2>1, <2>2 DEF Describing
    <2>4. Single'
      BY <2>1, <2>3 DEF Single
    <2>5. Upcoming(s, w)
      BY <1>5, NothingUpcoming
    <2>6. Prepared'
      BY <1>4, <1>6, <2>2, <2>5 DEF Orderly, Prepared
    <2> QED
      BY <1>4, <1>6, <2>4, <2>6 DEF Orderly
  <1> QED
    BY <1>1, <1>2, <1>6 DEF SInv

LEMMA ThrowsOrderly ==
    ASSUME SInv, AnswererThrows
    PROVE  SInv'
  <1>1. Sound /\ (Chained /\ Cautious => Orderly)
    BY DEF SInv
  <1>2. Sound'
    BY <1>1, ThrowsSound
  <1>3. PICK w \in waiting : waiting' = waiting \ {w}
    BY DEF AnswererThrows
  <1>4. s' = FinishPendingOperation(s) /\ UNCHANGED <<tasks, calls>>
    BY DEF AnswererThrows
  <1>5. ASSUME Orderly
        PROVE  Orderly'
    <2>1. Phase(s') /\ KeptBack(s') /\ Calm(s, s')
      BY <1>1, <1>4, <1>5, TasksTyped, FinishOrderly DEF Orderly
    <2>2. Single'
      BY <1>3, <1>4, <1>5 DEF Orderly, Single, Describing
    <2>3. ASSUME ~s'.closed, NEW i \in 1 .. Len(tasks')
          PROVE  Upcoming(s', tasks'[i])
      BY <1>4, <1>5, <2>1, <2>3, CalmUpcoming DEF Orderly, Prepared, Calm
    <2> QED
      BY <2>1, <2>2, <2>3 DEF Orderly, Prepared
  <1> QED
    BY <1>1, <1>2, <1>5 DEF SInv

\* A task joins the queue.
LEMMA JoinOrderly ==
    ASSUME SInv, NEW u, u \in States, Created(u), NEW task \in Tasks,
           u.ops = s.ops + (IF Counts(task) THEN 1 ELSE 0),
           task.op = "setRemote" => task.id = calls,
           s' = u, tasks' = Append(tasks, task), calls' = calls + 1, waiting' = waiting,
           Calm(s, u), Phase(s) => Phase(u), KeptBack(s) => KeptBack(u),
           Chained /\ task.op \in DescriptionOps => ~InProgress(DescriptionOps),
           Chained /\ Cautious /\ Orderly => s.closed \/ Upcoming(s, task)
    PROVE  SInv'
  <1>1. Sound /\ (Chained /\ Cautious => Orderly)
    BY DEF SInv
  <1>2. Sound'
    BY <1>1, JoinSound
  <1>3. \A i \in 1 .. Len(tasks') :
            \/ i \in 1 .. Len(tasks) /\ tasks'[i] = tasks[i]
            \/ i = Len(tasks) + 1 /\ tasks'[i] = task
    BY <1>1, Joins
  <1>4. ASSUME Chained, Cautious
        PROVE  Orderly'
    <2>1. Orderly
      BY <1>1, <1>4
    <2>2. CASE task.op \in DescriptionOps
      <3>1. waiting = {} /\ \A i : ~Describing(i)
        BY <1>4, <2>2 DEF InProgress, Describing
      <3>2. \A i : Describing(i)' => i = Len(tasks) + 1
        BY <1>3, <3>1 DEF Describing
      <3> QED
        <4>1. Single'
          BY <3>1, <3>2 DEF Single
        <4>2. ASSUME ~u.closed, NEW i \in 1 .. Len(tasks')
              PROVE  Upcoming(u, tasks'[i])
          BY <1>3, <1>4, <2>1, <4>2, CalmUpcoming DEF Calm, Orderly, Prepared
        <4> QED
          BY <2>1, <4>1, <4>2 DEF Orderly, Prepared
    <2>3. CASE task.op \notin DescriptionOps
      <3>1. \A i : Describing(i)' => Describing(i)
        BY <1>3, <2>3 DEF Describing
      <3>2. Single'
        BY <2>1, <3>1 DEF Orderly, Single
      <3>3. ASSUME ~u.closed, NEW i \in 1 .. Len(tasks')
            PROVE  Upcoming(u, tasks'[i])
        BY <1>3, <1>4, <2>1, <3>3, CalmUpcoming DEF Calm, Orderly, Prepared
      <3> QED
        BY <2>1, <3>2, <3>3 DEF Orderly, Prepared
    <2> QED
      BY <2>2, <2>3
  <1> QED
    BY <1>2, <1>4 DEF SInv

\* The operations stay as they are.
LEMMA AsideOrderly ==
    ASSUME SInv, NEW u, u \in States, u.ops = s.ops, Created(u), s' = u,
           tasks' = tasks, waiting' = waiting, calls' \in {calls, calls + 1},
           u.closed \/ Calm(s, u), Phase(s) => Phase(u),
           Phase(s) /\ KeptBack(s) => KeptBack(u)
    PROVE  SInv'
  <1>1. Sound /\ (Chained /\ Cautious => Orderly)
    BY DEF SInv
  <1>3. Sound'
    BY <1>1, AsideSound
  <1>4. ASSUME Orderly
        PROVE  Orderly'
    <2>1. Single'
      BY <1>4 DEF Orderly, Single, Describing
    <2>2. ASSUME ~u.closed, NEW i \in 1 .. Len(tasks)
          PROVE  Upcoming(u, tasks[i])
      BY <1>4, <2>2, CalmUpcoming DEF Orderly, Prepared, Calm
    <2> QED
      BY <1>4, <2>1, <2>2 DEF Orderly, Prepared
  <1> QED
    BY <1>1, <1>3, <1>4 DEF SInv

\* A task that is none of these operations ends.
LEMMA DropOrderly ==
    ASSUME SInv, Ready, ~Counts(Task), NEW u, Valid(u), s' = u, tasks' = Tail(tasks),
           UNCHANGED <<waiting, calls>>, Calm(s, u), Phase(s) => Phase(u),
           Phase(s) /\ KeptBack(s) => KeptBack(u)
    PROVE  SInv'
  <1>1. Sound /\ (Chained /\ Cautious => Orderly)
    BY DEF SInv
  <1>2. Sound'
    BY <1>1, TasksTyped, DropSound DEF Valid
  <1>3. /\ \A i \in 1 .. Len(tasks') :
               i + 1 \in 1 .. Len(tasks) /\ i + 1 # 1 /\ tasks'[i] = tasks[i + 1]
        /\ \A i, j \in 1 .. Len(tasks') : i + 1 = j + 1 => i = j
    BY <1>1, Shifts
  <1>4. ASSUME Orderly
        PROVE  Orderly'
    <2>1. \A i : Describing(i)' => i \in 1 .. Len(tasks') /\ Describing(i + 1)
      BY <1>3 DEF Describing
    <2>2. Single'
      BY <1>3, <1>4, <2>1 DEF Orderly, Single
    <2>3. ASSUME ~u.closed, NEW i \in 1 .. Len(tasks')
          PROVE  Upcoming(u, tasks'[i])
      BY <1>3, <1>4, <2>3, CalmUpcoming DEF Orderly, Prepared, Calm
    <2> QED
      BY <1>4, <2>2, <2>3 DEF Orderly, Prepared
  <1> QED
    BY <1>1, <1>2, <1>4 DEF SInv

-----------------------------------------------------------------------------
\* The exchange goes from phase to phase.
Synced(t) == IF t.jsOffer THEN HLO ELSE DescriptionSignalingState(t)

LEMMA PhaseSettled ==
    ASSUME NEW u, u.jsOffer \in BOOLEAN, u.pl.type = "none", u.pr.type = "none",
           u.sig \in {"stable", Synced(u)}
    PROVE  Phase(u)
  BY DEF Synced, DescriptionSignalingState, Phase, Exchanges, HLO, HRO, HLP, HRP

LEMMA PhaseLocalOffer ==
    ASSUME NEW u, u.jsOffer \in BOOLEAN, u.pl.type = "offer",
           u.pr.type \in {"none", "pranswer"}, u.sig \in {HLO, Synced(u)}
    PROVE  Phase(u)
  BY DEF Synced, DescriptionSignalingState, Phase, Exchanges, HLO, HRO, HLP, HRP

LEMMA PhaseRemoteOffer ==
    ASSUME NEW u, u.jsOffer = FALSE, u.pl.type = "none", u.pr.type = "offer",
           u.sig \in {HRO, Synced(u)}
    PROVE  Phase(u)
  BY DEF Synced, DescriptionSignalingState, Phase, Exchanges, HLO, HRO, HLP, HRP

LEMMA PhaseSynced ==
    ASSUME NEW t, NEW u, Phase(t), u.closed = t.closed, u.jsOffer = t.jsOffer,
           u.pl.type = t.pl.type, u.pr.type = t.pr.type, u.sig \in {t.sig, Synced(t)}
    PROVE  Phase(u)
  <1> USE DEF Synced, DescriptionSignalingState, Exchanges, HLO, HRO, HLP, HRP
  <1>1. CASE t.closed
    BY <1>1 DEF Phase
  <1>2. CASE ~t.closed /\ ~t.jsOffer
    BY <1>2 DEF Phase
  <1>3. CASE ~t.closed /\ t.jsOffer
    BY <1>3 DEF Phase
  <1> QED
    BY <1>1, <1>2, <1>3

\* Only a step of the exchange makes the state stable.
LEMMA StableBefore ==
    ASSUME NEW t, Phase(t), Synced(t) = "stable"
    PROVE  t.sig = "stable"
  BY DEF Synced, DescriptionSignalingState, Phase, Exchanges, HLO, HRO, HLP, HRP

-----------------------------------------------------------------------------
\* Operations on descriptions

\* The same operation as another task.
Staged(task, n, at) ==
    /\ n \in Tasks /\ n.op = task.op /\ n.id = task.id /\ n.at = at /\ n.here = task.here
    /\ n.type = task.type /\ n.desc = task.desc
    /\ Counts(n) <=> task.op # "ensure"

LEMMA StageTyped ==
    ASSUME NEW task \in Tasks, NEW x \in SigNames,
           NEW at \in {"done", "clear", "refresh", "restartAnswer", "dataOnlyAnswer", "answer"}
    PROVE  /\ Staged(task, [task EXCEPT !.at = at], at)
           /\ Staged(task, [task EXCEPT !.at = at, !.suppressed = x], at)
           /\ Staged(task, [task EXCEPT !.at = at, !.before = x], at)
  <1>1. task \in TaskRecords /\ Shape(task) /\ at \in Stages
    BY DEF Tasks, Stages
  <1> DEFINE a == [task EXCEPT !.at = at]
  <1>2. /\ a \in TaskRecords /\ a.op = task.op /\ a.id = task.id /\ a.at = at
        /\ a.here = task.here /\ a.type = task.type /\ a.desc = task.desc
    BY <1>1 DEF TaskRecords
  <1> HIDE DEF a
  <1> DEFINE b == [a EXCEPT !.suppressed = x]
             c == [a EXCEPT !.before = x]
  <1>3. /\ b \in TaskRecords /\ b.op = a.op /\ b.id = a.id /\ b.at = at
        /\ b.here = a.here /\ b.type = a.type /\ b.desc = a.desc
    BY <1>2 DEF TaskRecords
  <1>4. /\ c \in TaskRecords /\ c.op = a.op /\ c.id = a.id /\ c.at = at
        /\ c.here = a.here /\ c.type = a.type /\ c.desc = a.desc
    BY <1>2 DEF TaskRecords
  <1>5. [task EXCEPT !.at = at, !.suppressed = x] = b
    BY Zenon DEF a
  <1>6. [task EXCEPT !.at = at, !.before = x] = c
    BY Zenon DEF a
  <1>7. [task EXCEPT !.at = at] = a
    BY Zenon DEF a
  <1> HIDE DEF b, c
  <1>8. Shape(a) /\ Shape(b) /\ Shape(c)
    BY <1>1, <1>2, <1>3, <1>4 DEF Shape
  <1>9. a \in Tasks /\ b \in Tasks /\ c \in Tasks
    BY <1>2, <1>3, <1>4, <1>8 DEF Tasks
  <1>10. /\ Counts(a) <=> task.op # "ensure"
         /\ Counts(b) <=> task.op # "ensure"
         /\ Counts(c) <=> task.op # "ensure"
    BY <1>2, <1>3, <1>4 DEF Counts
  <1> QED
    BY <1>2, <1>3, <1>4, <1>5, <1>6, <1>7, <1>9, <1>10 DEF Staged

\* The task at work on descriptions.
Describes ==
    Ready /\ Task.op \in DescriptionOps /\ Task.at # "early"

LEMMA AwaitStage ==
    ASSUME SInv, Describes, NEW u, Proceeds(u), NEW at \in {"done", "clear", "refresh"},
           Await(u, at)
    PROVE  SInv'
  <1>1. Ready /\ Sound /\ Task \in Tasks /\ "none" \in SigNames
    BY TaskTyped, StatesNamed DEF Describes, SInv, Sound
  <1> DEFINE n == [Task EXCEPT !.at = at]
  <1>2. Staged(Task, n, at)
    BY <1>1, StageTyped, Zenon
  <1>3. AwaitAs(u, n)
    BY DEF Await
  <1> HIDE DEF n
  <1>4. Counts(Task) /\ Counts(n)
    BY <1>2 DEF Staged, Describes, Counts, DescriptionOps, SetOps
  <1>5. n.at \notin {"work", "rolledBack"}
    BY <1>2 DEF Staged
  <1> QED
    BY <1>1, <1>2, <1>3, <1>4, <1>5, AwaitOrderly DEF Staged, Describes

LEMMA AwaitSuppressedStage ==
    ASSUME SInv, Describes, NEW u, Proceeds(u), NEW before, AwaitSuppressed(u, before)
    PROVE  SInv'
  <1>1. Ready /\ Sound /\ Task \in Tasks
    BY TaskTyped DEF Describes, SInv, Sound
  <1> DEFINE x == IF u.sig = before THEN "none" ELSE u.sig
             n == [Task EXCEPT !.at = "done", !.suppressed = x]
  <1>2. x \in SigNames
    BY StateFields, StatesNamed DEF Proceeds, Valid
  <1>3. AwaitAs(u, n)
    BY Zenon DEF AwaitSuppressed
  <1> HIDE DEF x
  <1>4. Staged(Task, n, "done")
    BY <1>1, <1>2, StageTyped, Zenon
  <1> HIDE DEF n
  <1>5. Counts(Task) /\ Counts(n)
    BY <1>4 DEF Staged, Describes, Counts, DescriptionOps, SetOps
  <1>6. n.at \notin {"work", "rolledBack"}
    BY <1>4 DEF Staged
  <1> QED
    BY <1>1, <1>3, <1>4, <1>5, <1>6, AwaitOrderly DEF Staged, Describes

LEMMA SettleStage ==
    ASSUME SInv, Describes, NEW u, Proceeds(u), Settle(u) \/ Reject(u)
    PROVE  SInv'
  BY SettleOrderly DEF Describes, Counts, DescriptionOps, SetOps

\* Most steps keep what Basic names.
LEMMA BasicProceeds ==
    ASSUME SInv, NEW u, Basic(s, u), Phase(s) /\ Upcoming(s, Task) => Phase(u)
    PROVE  Proceeds(u)
  BY BasicValid DEF SInv, Sound, Proceeds

LEMMA SameProceeds ==
    ASSUME SInv, NEW u, Basic(s, u), u.pl = s.pl, u.pr = s.pr, u.sig = s.sig
    PROVE  Proceeds(u)
  BY BasicProceeds DEF Basic, Phase

\* The state is entered, and perhaps announced.
Entered(t, u, state) ==
    /\ Firm(t, u) /\ SameLocal(t, u) /\ SameRemote(t, u)
    /\ u.suppress = t.suppress /\ u.sig = state

LEMMA EnterStateKeeps ==
    ASSUME NEW t \in States, NEW before
    PROVE  /\ \A state \in SignalingStates : Entered(t, EnterState(t, state, before), state)
           /\ Entered(t, Dispatch(t), t.sig)
           /\ Entered(t, DispatchIfChanged(t, before), t.sig)
  <1>1. "stable" \in SignalingStates
    BY StatesNamed
  <1>2. ASSUME NEW state \in SignalingStates
        PROVE  Entered(t, EnterState(t, state, before), state)
    BY EnterKeeps DEF Entered
  <1>3. Entered(t, Dispatch(t), t.sig)
    BY <1>1, EnterKeeps DEF Entered
  <1>4. Entered(t, DispatchIfChanged(t, before), t.sig)
    BY <1>1, EnterKeeps DEF Entered
  <1> QED
    BY <1>2, <1>3, <1>4

LEMMA StateNames ==
    /\ "stable" \in SignalingStates /\ HLO \in SignalingStates /\ HRO \in SignalingStates
    /\ HLP \in SignalingStates /\ HRP \in SignalingStates
  BY DEF SignalingStates

\* The way an operation goes says what it is about.
LEMMA LocalWorkFacts ==
    ASSUME SInv, NEW path, LocalWork(path)
    PROVE  /\ Describes /\ Task \in Tasks /\ Task.desc \in Descriptions
           /\ Task.op = "setLocal" /\ Task.at = "work" /\ Shape(Task)
           /\ s \in States /\ Created(s) /\ s.jsOffer \in BOOLEAN /\ Sound
           /\ path # "closed" => ~s.closed
           /\ path \notin {"closed", "invalid"} => ~InvalidLocal(s, Task.desc)
           /\ path \in {"rollback", "pranswer"} =>
                  Task.desc # NoDesc /\ Task.desc.type = path /\ Task.type = path
           /\ path = "restartOffer" => Task.type = "offer"
           /\ path = "dataOnly" => Task.type \in {"offer", "answer"}
  <1>1. /\ Ready /\ Task.op = "setLocal" /\ Task.at = "work"
        /\ LocalPath(s, Task.desc, Task.type) = path
    BY DEF LocalWork, At, Task
  <1>2. Sound
    BY DEF SInv
  <1>3. s \in States /\ Created(s) /\ s.jsOffer \in BOOLEAN
    BY <1>2, StateFields DEF Sound, Typed
  <1>4. Task \in Tasks /\ Task.desc \in Descriptions /\ Shape(Task)
    BY <1>1, <1>2, TaskTyped DEF Sound
  <1>5. Describes
    BY <1>1 DEF Describes, DescriptionOps, SetOps
  <1>6. /\ path # "closed" => ~s.closed
        /\ path \notin {"closed", "invalid"} => ~InvalidLocal(s, Task.desc)
        /\ path \in {"rollback", "pranswer"} => Task.desc.type = path
        /\ path = "restartOffer" => Task.type = "offer"
        /\ path = "dataOnly" => Task.type \in {"offer", "answer"}
    BY <1>1 DEF LocalPath
  <1>7. path \in {"rollback", "pranswer"} => Task.desc # NoDesc /\ Task.type = path
    BY <1>1, <1>4, <1>6, DescriptionTypes DEF Shape, SetOps
  <1> QED
    BY <1>1, <1>2, <1>3, <1>4, <1>5, <1>6, <1>7

\* A local offer is not set beside one of the other side.
LEMMA OfferFits ==
    ASSUME SInv, NEW path, LocalWork(path), path \notin {"closed", "invalid"},
           Task.type = "offer", Phase(s), Upcoming(s, Task)
    PROVE  s.pr.type \in {"none", "pranswer"}
  <1>1. /\ Task.op = "setLocal" /\ Task.at = "work" /\ Shape(Task)
        /\ ~s.closed /\ ~InvalidLocal(s, Task.desc) /\ s.jsOffer \in BOOLEAN
    BY LocalWorkFacts
  <1>2. CASE s.jsOffer
    BY <1>1, <1>2 DEF Phase
  <1>3. CASE ~s.jsOffer /\ Task.desc = NoDesc
    BY <1>1, <1>3 DEF Phase, Upcoming, Exchanges
  <1>4. CASE ~s.jsOffer /\ Task.desc # NoDesc
    <2>1. Task.desc.type = "offer"
      BY <1>1, <1>4 DEF Shape, SetOps
    <2>2. s.sig \in {"stable", HLO}
      BY <1>1, <2>1 DEF InvalidLocal
    <2> QED
      BY <1>1, <1>4, <2>2 DEF Phase, Exchanges, HLO, HRO, HLP, HRP
  <1> QED
    BY <1>1, <1>2, <1>3, <1>4

LEMMA SetLocalClosedStep == ASSUME SInv, SetLocalClosed PROVE SInv'
  BY LocalWorkFacts, BasicSteps, SameProceeds, SettleStage DEF SetLocalClosed

LEMMA SetLocalInvalidStep == ASSUME SInv, SetLocalInvalid PROVE SInv'
  BY LocalWorkFacts, BasicSteps, SameProceeds, SettleStage DEF SetLocalInvalid

LEMMA SetLocalRollbackStep == ASSUME SInv, SetLocalRollback PROVE SInv'
  <1> DEFINE u == RollbackLocalOffer(s)
  <1>1. LocalWork("rollback") /\ Await(u, "clear")
    BY DEF SetLocalRollback
  <1>2. /\ Describes /\ s \in States /\ Task.type = "rollback" /\ Task.op = "setLocal"
        /\ Task.at = "work" /\ ~s.closed /\ s.sig = HLO
    BY <1>1, LocalWorkFacts DEF InvalidLocal
  <1>3. Basic(s, u) /\ SameRemote(s, u) /\ u.pl = NoDesc /\ u.sig = "stable"
    BY <1>2, RollbackLocalOfferKeeps
  <1> HIDE DEF u
  <1>4. ASSUME Phase(s), Upcoming(s, Task)
        PROVE  Phase(u)
    <2>1. NoPranswer(s)
      BY <1>2, <1>4 DEF Upcoming, SetOps
    <2>2. s.pr.type = "none"
      BY <1>2, <1>4, <2>1 DEF Phase, NoPranswer, Exchanges, HLO, HRO, HLP, HRP
    <2>3. u.jsOffer \in BOOLEAN
      BY <1>3, StateFields DEF Basic
    <2> QED
      BY <1>3, <2>2, <2>3, PhaseSettled, DescriptionTypes DEF SameRemote
  <1>5. Proceeds(u)
    BY <1>3, <1>4, BasicProceeds
  <1> QED
    BY <1>1, <1>2, <1>5, AwaitStage

LEMMA SetLocalPranswerStep == ASSUME SInv, SetLocalPranswer PROVE SInv'
  <1> DEFINE t == SetPendingLocal(s, Task.desc)
             u == EnterState(t, HLP, s.sig)
  <1>1. LocalWork("pranswer") /\ Await(u, "done")
    BY DEF SetLocalPranswer
  <1>2. /\ Describes /\ s \in States /\ Task.desc \in Descriptions
        /\ Task.desc.type = "pranswer" /\ ~s.closed /\ s.sig \in {HRO, HLP}
    BY <1>1, LocalWorkFacts DEF InvalidLocal
  <1>3. Kept(s, t) /\ SameRemote(s, t) /\ t.pl = Task.desc
    BY <1>2, SetPendingKeeps
  <1>4. t \in States
    BY <1>3 DEF Kept, Firm
  <1> HIDE DEF t
  <1>5. Entered(t, u, HLP)
    BY <1>4, StateNames, EnterStateKeeps
  <1> HIDE DEF u
  <1>6. Basic(s, u)
    BY <1>3, <1>5, BasicSteps DEF Entered
  <1>7. u.pl.type = "pranswer" /\ u.pr = s.pr /\ u.sig = HLP
    BY <1>2, <1>3, <1>5 DEF Entered, SameLocal, SameRemote
  <1>8. ASSUME Phase(s)
        PROVE  Phase(u)
    <2>1. ~s.jsOffer /\ s.pr.type = "offer"
      BY <1>2, <1>8 DEF Phase, Exchanges, HLO, HRO, HLP, HRP
    <2> QED
      BY <1>6, <1>7, <2>1 DEF Basic, Phase, Exchanges
  <1>9. Proceeds(u)
    BY <1>6, <1>8, BasicProceeds
  <1> QED
    BY <1>1, <1>2, <1>9, AwaitStage

LEMMA SetLocalAppliedStep == ASSUME SInv, SetLocalApplied PROVE SInv'
  <1> DEFINE t == SyncStatesFromNative(s)
             u == AddPendingCandidates(t)
  <1>1. LocalWork("applied") /\ Settle(u)
    BY DEF SetLocalApplied
  <1>2. Describes /\ s \in States /\ ~s.closed
    BY <1>1, LocalWorkFacts
  <1>3. /\ Basic(s, t) /\ SameLocal(s, t) /\ SameRemote(s, t)
        /\ t.sig \in {s.sig, Synced(s)}
    <2>1. CASE s.closed \/ s.native = "none"
      BY <1>2, <2>1, BasicSteps DEF SyncStatesFromNative, SameLocal, SameRemote
    <2>2. CASE ~(s.closed \/ s.native = "none")
      BY <2>2, <1>2, SyncKeeps, BasicSteps DEF SyncStatesFromNative, Synced
    <2> QED
      BY <2>1, <2>2
  <1>4. t \in States
    BY <1>3 DEF Basic
  <1> HIDE DEF t
  <1>5. Flush(t, u)
    BY <1>4, AddPendingCandidatesKeeps
  <1> HIDE DEF u
  <1>6. Basic(t, u) /\ SameLocal(t, u) /\ SameRemote(t, u) /\ u.sig = t.sig
    BY <1>5, BasicSteps
  <1>7. Basic(s, u)
    BY <1>3, <1>6, BasicSteps
  <1>8. Phase(s) => Phase(u)
    BY <1>3, <1>6, <1>7, PhaseSynced DEF Basic, SameLocal, SameRemote
  <1>9. Proceeds(u)
    BY <1>7, <1>8, BasicProceeds
  <1> QED
    BY <1>1, <1>2, <1>9, SettleStage

LEMMA SigKeeps ==
    ASSUME NEW t \in States, NEW state \in SignalingStates
    PROVE  Entered(t, [t EXCEPT !.sig = state], state)
  <1> DEFINE m == [t EXCEPT !.sig = state]
  <1>1. m.sig = state
    BY SMTT(30) DEF States
  <1>2. EnterState(t, state, state) = DispatchIfChanged(m, state)
    BY DEF EnterState
  <1> HIDE DEF m
  <1>3. EnterState(t, state, state) = m
    BY <1>1, <1>2 DEF DispatchIfChanged
  <1>4. Entered(t, EnterState(t, state, state), state)
    BY EnterStateKeeps
  <1> QED
    BY <1>3, <1>4 DEF m

LEMMA EnteredSteps ==
    ASSUME NEW t, NEW u, NEW state, Entered(t, u, state)
    PROVE  /\ Basic(t, u) /\ u \in States /\ u.sig = state
           /\ u.pl = t.pl /\ u.pr = t.pr /\ SameLocal(t, u) /\ SameRemote(t, u)
           /\ Synced(u) = Synced(t)
  BY BasicSteps DEF Entered, Firm, SameLocal, SameRemote, Synced, DescriptionSignalingState

LEMMA SyncEnters ==
    ASSUME NEW t \in States
    PROVE  LET u == SyncSignalingState(t)
           IN  Entered(t, u, Synced(t)) /\ Synced(u) = Synced(t)
  <1> DEFINE u == SyncSignalingState(t)
  <1>1. Entered(t, u, Synced(t))
    BY SyncKeeps DEF Entered, SameEvents, Synced
  <1> HIDE DEF u
  <1> QED
    BY <1>1, EnteredSteps DEF u

LEMMA KeptSteps ==
    ASSUME NEW t, NEW u, Kept(t, u)
    PROVE  Basic(t, u) /\ u \in States /\ u.sig = t.sig
  BY BasicSteps DEF Kept, Firm

LEMMA BasicTwice ==
    ASSUME NEW t, NEW u, NEW v, Basic(t, u), Basic(u, v)
    PROVE  Basic(t, v)
  BY BasicSteps

\* An answer completes the exchange.
LEMMA CommitAnswerSettles ==
    ASSUME NEW t \in States, NEW d \in Descriptions
    PROVE  /\ LET u == SyncSignalingState(CommitAnswer(t, d))
              IN  Basic(t, u) /\ Phase(u) /\ u.pl = NoDesc /\ u.pr = NoDesc
           /\ LET u == AddPendingCandidates(SyncSignalingState(CommitAnswer(t, d)))
              IN  Basic(t, u) /\ Phase(u) /\ u.pl = NoDesc /\ u.pr = NoDesc
  <1> DEFINE a == CommitAnswer(t, d)
             b == SyncSignalingState(a)
             c == AddPendingCandidates(b)
  <1>1. Kept(t, a) /\ a.pl = NoDesc /\ a.pr = NoDesc
    BY CommitAnswerKeeps
  <1>2. Basic(t, a) /\ a \in States
    BY <1>1, KeptSteps
  <1> HIDE DEF a
  <1>3. Entered(a, b, Synced(a)) /\ Synced(b) = Synced(a)
    BY <1>2, SyncEnters
  <1> HIDE DEF b
  <1>4. Basic(a, b) /\ b \in States /\ b.pl = NoDesc /\ b.pr = NoDesc /\ b.sig = Synced(b)
    BY <1>1, <1>3, EnteredSteps
  <1>5. b.jsOffer \in BOOLEAN
    BY <1>4, StateFields
  <1>6. Phase(b)
    BY <1>4, <1>5, PhaseSettled, DescriptionTypes
  <1>7. Basic(t, b)
    BY <1>2, <1>4, BasicTwice
  <1>8. Flush(b, c)
    BY <1>4, AddPendingCandidatesKeeps
  <1> HIDE DEF c
  <1>9. Basic(b, c) /\ SameLocal(b, c) /\ SameRemote(b, c) /\ c.sig = b.sig
    BY <1>8, BasicSteps
  <1>10. Phase(c)
    BY <1>6, <1>9 DEF Basic, SameLocal, SameRemote, Phase
  <1>11. Basic(t, c)
    BY <1>7, <1>9, BasicTwice
  <1>12. c.pl = NoDesc /\ c.pr = NoDesc
    BY <1>4, <1>9 DEF SameLocal, SameRemote
  <1> QED
    BY <1>4, <1>6, <1>7, <1>10, <1>11, <1>12 DEF a, b, c

LEMMA ImplicitTyped ==
    ASSUME NEW t \in States, Created(t)
    PROVE  /\ NativeOffer(t) \in Descriptions /\ NativeOffer(t).type = "offer"
           /\ RemoteDescription(t) \in Descriptions /\ RemoteDescription(t).data \in BOOLEAN
           /\ ImplicitLocal(t, "offer") \in Descriptions
           /\ ImplicitLocal(t, "offer").type = "offer"
           /\ ImplicitLocal(t, "answer") \in Descriptions
           /\ ImplicitLocal(t, "answer").type = "answer"
  <1>1. /\ t.lastOffer \in Descriptions /\ t.lastAnswer \in Descriptions
        /\ t.pr \in Descriptions /\ t.cr \in Descriptions /\ t.channels \in BOOLEAN
        /\ t.nl \in Descriptions
    BY StateFields
  <1>2. NativeOffer(t) \in Descriptions /\ NativeOffer(t).type = "offer"
    BY <1>1, DescriptionTypes DEF NativeOffer
  <1>3. RemoteDescription(t) \in Descriptions /\ RemoteDescription(t).data \in BOOLEAN
    BY <1>1 DEF RemoteDescription, Or, Descriptions
  <1> DEFINE a == Local("answer", RemoteDescription(t).data)
  <1>4. a \in Descriptions /\ a.type = "answer"
    BY <1>3, DescriptionTypes
  <1> HIDE DEF a
  <1>5. /\ ImplicitLocal(t, "offer") = Or(t.lastOffer, NativeOffer(t))
        /\ ImplicitLocal(t, "answer") = Or(t.lastAnswer, a)
    BY DEF ImplicitLocal, a
  <1> QED
    BY <1>1, <1>2, <1>3, <1>4, <1>5 DEF Or, Created

LEMMA SetLocalNoMediaStep == ASSUME SInv, SetLocalNoMedia PROVE SInv'
  <1> DEFINE d == Or(Task.desc, ImplicitLocal(s, Task.type))
             t == IF Task.desc = NoDesc /\ Task.type = "offer" /\ s.lastOffer = NoDesc
                  THEN EnsureNative(s) ELSE s
             a == SetPendingLocal(t, d)
             b == [a EXCEPT !.sig = HLO]
             c == CommitAnswer(t, d)
             e == [c EXCEPT !.sig = "stable"]
  <1>1. /\ LocalWork("noMedia")
        /\ \/ d.type = "offer" /\ Await(Dispatch(b), "done")
           \/ d.type = "answer" /\ Await(Dispatch(e), "done")
    BY DEF SetLocalNoMedia
  <1>2. /\ Describes /\ s \in States /\ Created(s) /\ Task.desc \in Descriptions
        /\ Shape(Task) /\ Task.op = "setLocal" /\ s.jsOffer \in BOOLEAN
    BY <1>1, LocalWorkFacts
  <1>3. d \in Descriptions /\ (d.type = "offer" => Task.type = "offer")
    <2>1. CASE Task.desc = NoDesc
      BY <1>2, <2>1, ImplicitTyped DEF Shape, Or
    <2>2. CASE Task.desc # NoDesc
      BY <1>2, <2>2 DEF Shape, Or, SetOps
    <2> QED
      BY <2>1, <2>2
  <1>4. NativeStep(s, t) \/ t = s
    BY <1>2, EnsureNativeStep
  <1>5. Basic(s, t) /\ t \in States /\ SameLocal(s, t) /\ SameRemote(s, t)
    BY <1>2, <1>4, BasicSteps DEF Basic, SameLocal, SameRemote
  <1> HIDE DEF d, t
  <1>6. CASE d.type = "offer" /\ Await(Dispatch(b), "done")
    <2> DEFINE u == Dispatch(b)
    <2>1. Kept(t, a) /\ SameRemote(t, a) /\ a.pl = d
      BY <1>3, <1>5, SetPendingKeeps
    <2>2. Basic(t, a) /\ a \in States
      BY <2>1, KeptSteps
    <2> HIDE DEF a
    <2>3. Entered(a, b, HLO)
      BY <2>2, SigKeeps, StateNames
    <2>4. Basic(a, b) /\ b \in States /\ b.sig = HLO /\ b.pl = a.pl /\ b.pr = a.pr
      BY <2>3, EnteredSteps
    <2> HIDE DEF b
    <2>5. Entered(b, u, b.sig)
      BY <2>4, EnterStateKeeps
    <2> HIDE DEF u
    <2>6. Basic(b, u) /\ u \in States /\ u.sig = HLO /\ u.pl = b.pl /\ u.pr = b.pr
      BY <2>4, <2>5, EnteredSteps
    <2>7. Basic(s, u)
      BY <1>5, <2>2, <2>4, <2>6, BasicSteps
    <2>8. u.pl.type = "offer" /\ u.pr = s.pr /\ u.jsOffer \in BOOLEAN
      BY <1>2, <1>5, <1>6, <2>1, <2>4, <2>6, <2>7 DEF SameRemote, Basic
    <2>9. ASSUME Phase(s), Upcoming(s, Task)
          PROVE  Phase(u)
      BY <1>1, <1>3, <1>6, <2>9, OfferFits, <2>6, <2>8, PhaseLocalOffer
    <2>10. Proceeds(u)
      BY <2>7, <2>9, BasicProceeds
    <2>11. Await(u, "done")
      BY <1>6 DEF u
    <2> QED
      BY <1>2, <2>10, <2>11, AwaitStage
  <1>7. CASE Await(Dispatch(e), "done")
    <2> DEFINE u == Dispatch(e)
    <2>1. Kept(t, c) /\ c.pl = NoDesc /\ c.pr = NoDesc
      BY <1>3, <1>5, CommitAnswerKeeps
    <2>2. Basic(t, c) /\ c \in States
      BY <2>1, KeptSteps
    <2> HIDE DEF c
    <2>3. Entered(c, e, "stable")
      BY <2>2, SigKeeps, StateNames
    <2>4. Basic(c, e) /\ e \in States /\ e.sig = "stable" /\ e.pl = c.pl /\ e.pr = c.pr
      BY <2>3, EnteredSteps
    <2> HIDE DEF e
    <2>5. Entered(e, u, e.sig)
      BY <2>4, EnterStateKeeps
    <2> HIDE DEF u
    <2>6. Basic(e, u) /\ u \in States /\ u.sig = "stable" /\ u.pl = e.pl /\ u.pr = e.pr
      BY <2>4, <2>5, EnteredSteps
    <2>7. Basic(s, u)
      BY <1>5, <2>2, <2>4, <2>6, BasicSteps
    <2>8. u.pl = NoDesc /\ u.pr = NoDesc /\ u.jsOffer \in BOOLEAN
      BY <1>2, <2>1, <2>4, <2>6, <2>7 DEF Basic
    <2>9. Phase(u)
      BY <2>6, <2>8, PhaseSettled, DescriptionTypes
    <2>10. Proceeds(u)
      BY <2>7, <2>9, BasicProceeds
    <2>11. Await(u, "done")
      BY <1>7 DEF u
    <2> QED
      BY <1>2, <2>10, <2>11, AwaitStage
  <1> QED
    BY <1>1, <1>6, <1>7

LEMMA SetLocalRestartAnswerStep == ASSUME SInv, SetLocalRestartAnswer PROVE SInv'
  <1> DEFINE d == Or(Task.desc, ImplicitLocal(s, "answer"))
             u == ApplyRestartAnswer(s, d)
  <1>1. LocalWork("restartAnswer") /\ Await(u, "done")
    BY DEF SetLocalRestartAnswer
  <1>2. Describes /\ s \in States /\ Created(s) /\ Task.desc \in Descriptions
    BY <1>1, LocalWorkFacts
  <1>3. d \in Descriptions
    BY <1>2, ImplicitTyped, DescriptionOperators
  <1> HIDE DEF d
  <1>4. Basic(s, u) /\ u.pl = NoDesc /\ u.pr = NoDesc /\ u.sig = "stable"
    BY <1>2, <1>3, ApplyRestartAnswerKeeps
  <1> HIDE DEF u
  <1>5. u.jsOffer \in BOOLEAN
    BY <1>4, StateFields DEF Basic
  <1>6. Phase(u)
    BY <1>4, <1>5, PhaseSettled, DescriptionTypes
  <1>7. Proceeds(u)
    BY <1>4, <1>6, BasicProceeds
  <1> QED
    BY <1>1, <1>2, <1>7, AwaitStage

LEMMA DataOnlyFacts ==
    ASSUME LocalWork("dataOnly"), Task.type = "offer"
    PROVE  s.cl.type = "offer"
  BY DEF LocalWork, LocalPath, DataOnlyLocalOffer

LEMMA SetLocalDataOnlyStep == ASSUME SInv, SetLocalDataOnly PROVE SInv'
  <1> DEFINE d == Or(Task.desc, s.cl)
             t == IF Task.type = "offer" THEN SetPendingLocal(s, d) ELSE CommitAnswer(s, d)
             a == SyncSignalingState(t)
             u == DispatchIfChanged(a, s.sig)
  <1>1. LocalWork("dataOnly") /\ Await(u, "done")
    BY DEF SetLocalDataOnly
  <1>2. /\ Describes /\ s \in States /\ Task.desc \in Descriptions
        /\ Shape(Task) /\ Task.op = "setLocal" /\ s.jsOffer \in BOOLEAN
    BY <1>1, LocalWorkFacts
  <1>3. d \in Descriptions
    BY <1>2, StateFields, DescriptionOperators
  <1>4. Task.type = "offer" => d.type = "offer"
    BY <1>1, <1>2, DataOnlyFacts DEF Or, Shape, SetOps
  <1> HIDE DEF d
  <1>5. /\ Kept(s, t)
        /\ IF Task.type = "offer" THEN t.pl = d /\ t.pr = s.pr
                                  ELSE t.pl = NoDesc /\ t.pr = NoDesc
    <2>1. CASE Task.type = "offer"
      BY <1>2, <1>3, <2>1, SetPendingKeeps DEF SameRemote
    <2>2. CASE Task.type # "offer"
      BY <1>2, <1>3, <2>2, CommitAnswerKeeps
    <2> QED
      BY <2>1, <2>2
  <1>6. Basic(s, t) /\ t \in States
    BY <1>5, KeptSteps
  <1> HIDE DEF t
  <1>7. Entered(t, a, Synced(t)) /\ Synced(a) = Synced(t)
    BY <1>6, SyncEnters
  <1> HIDE DEF a
  <1>8. Basic(t, a) /\ a \in States /\ a.sig = Synced(a) /\ a.pl = t.pl /\ a.pr = t.pr
    BY <1>7, EnteredSteps
  <1>9. Entered(a, u, a.sig)
    BY <1>8, EnterStateKeeps
  <1> HIDE DEF u
  <1>10. /\ Basic(a, u) /\ u \in States /\ u.sig = a.sig /\ u.pl = a.pl /\ u.pr = a.pr
         /\ Synced(u) = Synced(a)
    BY <1>9, EnteredSteps
  <1>11. Basic(s, u)
    BY <1>6, <1>8, <1>10, BasicSteps
  <1>12. u.jsOffer \in BOOLEAN /\ u.sig = Synced(u) /\ u.pl = t.pl /\ u.pr = t.pr
    BY <1>2, <1>8, <1>10, <1>11 DEF Basic
  <1>13. ASSUME Phase(s), Upcoming(s, Task)
         PROVE  Phase(u)
    <2>1. CASE Task.type = "offer"
      BY <1>1, <1>13, <2>1, OfferFits, <1>4, <1>5, <1>12, PhaseLocalOffer
    <2>2. CASE Task.type # "offer"
      BY <1>5, <1>12, <2>2, PhaseSettled, DescriptionTypes
    <2> QED
      BY <2>1, <2>2
  <1>14. Proceeds(u)
    BY <1>11, <1>13, BasicProceeds
  <1> QED
    BY <1>1, <1>2, <1>14, AwaitStage

LEMMA SetLocalRestartOfferStep == ASSUME SInv, SetLocalRestartOffer PROVE SInv'
  <1> DEFINE o == Or(Task.desc, Or(s.lastOffer, NativeOffer(s)))
             d == MarkRestart(o)
             a == SetPendingLocal(s, d)
             b == [a EXCEPT !.jsOffer = TRUE]
             t == [b EXCEPT !.restart = FALSE]
             u == EnterState(t, HLO, s.sig)
  <1>1. LocalWork("restartOffer") /\ Await(u, "done")
    BY Zenon DEF SetLocalRestartOffer
  <1>2. /\ Describes /\ s \in States /\ Created(s) /\ Task.desc \in Descriptions
        /\ Shape(Task) /\ Task.op = "setLocal" /\ Task.type = "offer"
    BY <1>1, LocalWorkFacts
  <1>3. o \in Descriptions /\ o.type = "offer"
    BY <1>2, StateFields, ImplicitTyped DEF Shape, SetOps, Or, Created
  <1> HIDE DEF o
  <1>4. d \in Descriptions /\ d.type = "offer"
    BY <1>3, DescriptionOperators
  <1> HIDE DEF d
  <1>5. Kept(s, a) /\ SameRemote(s, a) /\ a.pl = d
    BY <1>2, <1>4, SetPendingKeeps
  <1>6. Basic(s, a) /\ a \in States
    BY <1>5, KeptSteps
  <1> HIDE DEF a
  <1>7. b \in States
    BY <1>6, StateFlags
  <1>8. /\ b.closed = a.closed /\ b.ops = a.ops /\ b.jsOffer = TRUE
        /\ b.lastOffer = a.lastOffer /\ b.lastAnswer = a.lastAnswer
        /\ b.pl = a.pl /\ b.pr = a.pr
    BY <1>6 DEF States
  <1> HIDE DEF b
  <1>9. t \in States
    BY <1>7, StateFlags
  <1>10. /\ t.closed = b.closed /\ t.ops = b.ops /\ t.jsOffer = TRUE
         /\ t.lastOffer = b.lastOffer /\ t.lastAnswer = b.lastAnswer
         /\ t.pl = b.pl /\ t.pr = b.pr
    BY <1>7, <1>8 DEF States
  <1> HIDE DEF t
  <1>11. Entered(t, u, HLO)
    BY <1>9, StateNames, EnterStateKeeps
  <1> HIDE DEF u
  <1>12. Basic(t, u) /\ u \in States /\ u.sig = HLO /\ u.pl = t.pl /\ u.pr = t.pr
    BY <1>11, EnteredSteps
  <1>13. Valid(u)
    BY <1>2, <1>6, <1>8, <1>10, <1>12 DEF Valid, Basic, Created
  <1>14. ASSUME Phase(s), Upcoming(s, Task)
         PROVE  Phase(u)
    <2>1. s.pr.type \in {"none", "pranswer"}
      BY <1>1, <1>2, <1>14, OfferFits
    <2>2. u.pr = s.pr /\ u.pl.type = "offer" /\ u.jsOffer \in BOOLEAN
      BY <1>4, <1>5, <1>8, <1>10, <1>12 DEF SameRemote, Basic
    <2> QED
      BY <1>12, <2>1, <2>2, PhaseLocalOffer
  <1>15. Proceeds(u)
    BY <1>13, <1>14 DEF Proceeds
  <1> QED
    BY <1>1, <1>2, <1>15, AwaitStage

LEMMA SetLocalSyncStep == ASSUME SInv, SetLocalSync PROVE SInv'
  <1> DEFINE u == AddPendingCandidates(SyncSignalingState(CommitAnswer(s, s.l)))
  <1>1. LocalWork("sync") /\ Await(u, "refresh")
    BY DEF SetLocalSync
  <1>2. Describes /\ s \in States /\ s.l \in Descriptions
    BY <1>1, LocalWorkFacts, StateFields
  <1>3. Basic(s, u) /\ Phase(u)
    BY <1>2, CommitAnswerSettles
  <1> HIDE DEF u
  <1>4. Proceeds(u)
    BY <1>3, BasicProceeds
  <1> QED
    BY <1>1, <1>2, <1>4, AwaitStage

LEMMA SetLocalNativeStep == ASSUME SInv, SetLocalNative PROVE SInv'
  <1> DEFINE n == NativeSetLocal(s, Task.type)
             a == SetPendingLocal(n, n.nl)
             b == [a EXCEPT !.restart = FALSE]
             u == SyncSignalingState(b)
             v == AddPendingCandidates(SyncSignalingState(CommitAnswer(n, n.nl)))
  <1>1. /\ LocalWork("native")
        /\ \/ Task.type = "offer" /\ Await(u, "refresh")
           \/ Task.type = "answer" /\ Await(v, "refresh")
    BY DEF SetLocalNative
  <1>2. Describes /\ s \in States /\ s.jsOffer \in BOOLEAN
    BY <1>1, LocalWorkFacts
  <1>3. Task.type \in {"offer", "answer"}
    BY <1>1
  <1>4. NativeStep(s, n) /\ n.nl = Local(Task.type, TRUE)
    BY <1>2, <1>3, NativeSetLocalKeeps
  <1>5. n.nl \in Descriptions /\ n.nl.type = Task.type
    BY <1>3, <1>4, DescriptionTypes
  <1>6. Basic(s, n) /\ n \in States /\ SameRemote(s, n)
    BY <1>4, BasicSteps DEF Basic
  <1> HIDE DEF n
  <1>7. CASE Task.type = "offer" /\ Await(u, "refresh")
    <2>1. Kept(n, a) /\ SameRemote(n, a) /\ a.pl = n.nl
      BY <1>5, <1>6, SetPendingKeeps
    <2>2. Basic(n, a) /\ a \in States
      BY <2>1, KeptSteps
    <2> HIDE DEF a
    <2>3. b \in States
      BY <2>2, StateFlags
    <2>4. /\ b.closed = a.closed /\ b.ops = a.ops /\ b.jsOffer = a.jsOffer
          /\ b.lastOffer = a.lastOffer /\ b.lastAnswer = a.lastAnswer
          /\ b.pl = a.pl /\ b.pr = a.pr
      BY <2>2 DEF States
    <2> HIDE DEF b
    <2>5. Basic(a, b)
      BY <2>3, <2>4 DEF Basic
    <2>6. Entered(b, u, Synced(b)) /\ Synced(u) = Synced(b)
      BY <2>3, SyncEnters
    <2> HIDE DEF u
    <2>7. Basic(b, u) /\ u.pl = b.pl /\ u.pr = b.pr /\ u.sig = Synced(u)
      BY <2>6, EnteredSteps
    <2>8. Basic(s, u)
      BY <1>6, <2>2, <2>5, <2>7, BasicSteps
    <2>9. u.pl.type = "offer" /\ u.pr = s.pr /\ u.jsOffer \in BOOLEAN
      BY <1>2, <1>5, <1>6, <1>7, <2>1, <2>4, <2>7, <2>8 DEF SameRemote, Basic
    <2>10. ASSUME Phase(s), Upcoming(s, Task)
           PROVE  Phase(u)
      BY <1>1, <1>7, <2>10, OfferFits, <2>7, <2>9, PhaseLocalOffer
    <2>11. Proceeds(u)
      BY <2>8, <2>10, BasicProceeds
    <2> QED
      BY <1>2, <1>7, <2>11, AwaitStage
  <1>8. CASE Await(v, "refresh")
    <2>1. Basic(n, v) /\ Phase(v)
      BY <1>5, <1>6, CommitAnswerSettles
    <2> HIDE DEF v
    <2>2. Basic(s, v)
      BY <1>6, <2>1, BasicTwice
    <2>3. Proceeds(v)
      BY <2>1, <2>2, BasicProceeds
    <2> QED
      BY <1>2, <1>8, <2>3, AwaitStage
  <1> QED
    BY <1>1, <1>7, <1>8

\* What reads the native description again leaves the exchange where it was.
LEMMA RefreshedPhase ==
    ASSUME NEW t, NEW u, Refreshed(t, u), Phase(t)
    PROVE  /\ Phase(u) /\ Calm(t, u)
           /\ KeptBack(t) => KeptBack(u)
  BY PhaseSynced, StableBefore
  DEF Refreshed, Basic, SameRemote, Synced, Calm, KeptBack, SameCandidates

LEMMA DescribesFacts ==
    ASSUME SInv, NEW op \in DescriptionOps, NEW at, at # "early", At(op, at)
    PROVE  Describes /\ Sound /\ s \in States /\ Created(s) /\ Task \in Tasks
  BY TasksTyped, TaskTyped DEF At, Task, SInv, Describes, Sound

LEMMA SetLocalRefreshStep == ASSUME SInv, SetLocalRefresh PROVE SInv'
  <1>1. PICK complete \in BOOLEAN : Settle(RefreshAfterGatheringWindow(s, complete))
    BY DEF SetLocalRefresh
  <1> DEFINE u == RefreshAfterGatheringWindow(s, complete)
  <1>2. Describes /\ s \in States
    BY DescribesFacts DEF SetLocalRefresh, DescriptionOps, SetOps
  <1>3. Refreshed(s, u)
    BY <1>2, RefreshAfterGatheringWindowKeeps
  <1>4. Settle(u)
    BY <1>1
  <1> HIDE DEF u
  <1>5. Basic(s, u) /\ (Phase(s) => Phase(u))
    BY <1>3, RefreshedPhase DEF Refreshed
  <1>6. Proceeds(u)
    BY <1>5, BasicProceeds
  <1> QED
    BY <1>2, <1>4, <1>6, SettleStage

LEMMA ClearSuppressedEnters ==
    ASSUME NEW t \in States, NEW state
    PROVE  LET u == ClearSuppressed(t, state)
           IN  /\ Basic(t, u) /\ u \in States /\ u.sig = t.sig
               /\ u.pl = t.pl /\ u.pr = t.pr /\ u.cr = t.cr /\ SameRemote(t, u)
  <1> DEFINE u == ClearSuppressed(t, state)
  <1>1. Firm(t, u) /\ SameLocal(t, u) /\ SameRemote(t, u) /\ u.sig = t.sig
    BY ClearSuppressedKeeps
  <1> HIDE DEF u
  <1>2. Basic(t, u) /\ u \in States
    BY <1>1, BasicSteps DEF Firm
  <1> QED
    BY <1>1, <1>2 DEF SameLocal, SameRemote, u

LEMMA FinishStep == ASSUME SInv, Finish PROVE SInv'
  <1>1. PICK state : /\ Describes /\ s \in States
                     /\ Settle(ClearSuppressed(s, state))
    <2>1. \A op \in SetOps : op \in DescriptionOps
      BY DEF DescriptionOps
    <2>2. CASE \E op \in SetOps : At(op, "done") /\ Settle(ClearSuppressed(s, Task.suppressed))
      BY <2>1, <2>2, DescribesFacts
    <2>3. CASE \E op \in SetOps : At(op, "clear") /\ Settle(ClearSuppressed(s, "stable"))
      BY <2>1, <2>3, DescribesFacts
    <2> QED
      BY <2>2, <2>3 DEF Finish
  <1> DEFINE u == ClearSuppressed(s, state)
  <1>2. Basic(s, u) /\ u.sig = s.sig /\ u.pl = s.pl /\ u.pr = s.pr
    BY <1>1, ClearSuppressedEnters
  <1>3. Settle(u)
    BY <1>1
  <1> HIDE DEF u
  <1>4. Proceeds(u)
    BY <1>2, SameProceeds
  <1> QED
    BY <1>1, <1>3, <1>4, SettleStage

\* What createOffer and createAnswer leave.
LEMMA CreatedProceeds ==
    ASSUME SInv, NEW t \in States, Basic(s, t), t.pl = s.pl, t.pr = s.pr, t.sig = s.sig,
           NEW d \in Descriptions
    PROVE  /\ d.type = "offer" => Proceeds([t EXCEPT !.lastOffer = d])
           /\ d.type = "answer" => Proceeds([t EXCEPT !.lastAnswer = d])
  <1> DEFINE a == [t EXCEPT !.lastOffer = d]
             b == [t EXCEPT !.lastAnswer = d]
  <1>1. a \in States /\ b \in States
    BY StateDescriptions
  <1>2. /\ a.closed = t.closed /\ a.ops = t.ops /\ a.jsOffer = t.jsOffer
        /\ a.lastOffer = d /\ a.lastAnswer = t.lastAnswer
        /\ a.pl = t.pl /\ a.pr = t.pr /\ a.sig = t.sig
    BY DEF States
  <1>3. /\ b.closed = t.closed /\ b.ops = t.ops /\ b.jsOffer = t.jsOffer
        /\ b.lastOffer = t.lastOffer /\ b.lastAnswer = d
        /\ b.pl = t.pl /\ b.pr = t.pr /\ b.sig = t.sig
    BY DEF States
  <1> HIDE DEF a, b
  <1>4. Created(s)
    BY DEF SInv, Sound, Typed
  <1>5. ASSUME d.type = "offer"
        PROVE  Proceeds(a)
    BY <1>1, <1>2, <1>4, <1>5 DEF Valid, Created, Basic, Phase, Proceeds
  <1>6. ASSUME d.type = "answer"
        PROVE  Proceeds(b)
    BY <1>1, <1>3, <1>4, <1>6 DEF Valid, Created, Basic, Phase, Proceeds
  <1> QED
    BY <1>5, <1>6 DEF a, b

LEMMA CreateOfferStep == ASSUME SInv, CreateOffer PROVE SInv'
  <1> DEFINE e == EnsureNative(s)
             r == s.restart \/ Task.restart
             t == [e EXCEPT !.restart = r]
             b == t.restart /\ ~CanApplyNativeIceCredentials(s)
             n == NativeOffer(s)
             d == [n EXCEPT !.restart = b]
             u == [t EXCEPT !.lastOffer = d]
  <1>1. /\ At("createOffer", "work")
        /\ IF s.native = "handed" THEN Reject(t) ELSE Settle(u)
    BY Zenon DEF CreateOffer
  <1>2. Describes /\ Sound /\ s \in States /\ Created(s) /\ Task \in Tasks
    BY <1>1, DescribesFacts DEF DescriptionOps
  <1>3. NativeStep(s, e)
    BY <1>2, EnsureNativeStep
  <1>4. Basic(s, e) /\ e \in States /\ e.pl = s.pl /\ e.pr = s.pr /\ e.sig = s.sig
    BY <1>3, BasicSteps DEF Basic, SameLocal, SameRemote
  <1> HIDE DEF e
  <1>5. r \in BOOLEAN /\ b \in BOOLEAN
    OBVIOUS
  <1> HIDE DEF r
  <1>6. t \in States
    BY <1>4, <1>5, StateFlags
  <1>7. /\ t.closed = e.closed /\ t.ops = e.ops /\ t.jsOffer = e.jsOffer
        /\ t.lastOffer = e.lastOffer /\ t.lastAnswer = e.lastAnswer
        /\ t.pl = e.pl /\ t.pr = e.pr /\ t.sig = e.sig
    BY <1>4 DEF States
  <1> HIDE DEF t, b
  <1>8. Basic(s, t) /\ t.pl = s.pl /\ t.pr = s.pr /\ t.sig = s.sig
    BY <1>4, <1>6, <1>7 DEF Basic
  <1>9. n \in Descriptions /\ n.type = "offer"
    BY <1>2, ImplicitTyped
  <1> HIDE DEF n
  <1>10. d \in Descriptions /\ d.type = "offer"
    BY <1>5, <1>9, DescriptionOperators DEF Descriptions
  <1> HIDE DEF d
  <1>11. Proceeds(t) /\ Proceeds(u)
    BY <1>6, <1>8, <1>10, SameProceeds, CreatedProceeds
  <1> HIDE DEF u
  <1> QED
    BY <1>1, <1>2, <1>11, SettleStage

LEMMA CreateAnswerStep == ASSUME SInv, CreateAnswer PROVE SInv'
  <1> DEFINE r == RemoteDescription(s)
             o == Local("answer", r.data)
             d == [o EXCEPT !.restart = s.jsRemote]
             e == EnsureNative(s)
             u == [s EXCEPT !.lastAnswer = d]
             v == [e EXCEPT !.lastAnswer = d]
  <1>1. /\ At("createAnswer", "work")
        /\ Settle(u) \/ Settle(v) \/ Reject(e)
    BY Zenon DEF CreateAnswer
  <1>2. Describes /\ Sound /\ s \in States /\ Created(s)
    BY <1>1, DescribesFacts DEF DescriptionOps
  <1>3. NativeStep(s, e)
    BY <1>2, EnsureNativeStep
  <1>4. Basic(s, e) /\ e \in States /\ e.pl = s.pl /\ e.pr = s.pr /\ e.sig = s.sig
    BY <1>3, BasicSteps DEF Basic, SameLocal, SameRemote
  <1> HIDE DEF e
  <1>5. o \in Descriptions /\ o.type = "answer" /\ s.jsRemote \in BOOLEAN
    BY <1>2, ImplicitTyped, DescriptionTypes, StateFields
  <1> HIDE DEF o
  <1>6. d \in Descriptions /\ d.type = "answer"
    BY <1>5, DescriptionOperators DEF Descriptions
  <1> HIDE DEF d
  <1>7. Basic(s, s)
    BY <1>2, BasicSteps
  <1>8. Proceeds(e) /\ Proceeds(u) /\ Proceeds(v)
    BY <1>2, <1>4, <1>6, <1>7, SameProceeds, CreatedProceeds
  <1> HIDE DEF u, v
  <1> QED
    BY <1>1, <1>2, <1>8, SettleStage

-----------------------------------------------------------------------------
\* setRemoteDescription

LEMMA PairSteps ==
    ASSUME NEW t \in States, NEW here \in BOOLEAN
    PROVE  LET u == Pair(t, here)
           IN  /\ Basic(t, u) /\ u \in States /\ u.sig = t.sig
               /\ u.pl = t.pl /\ u.pr = t.pr
  <1> DEFINE u == Pair(t, here)
  <1>1. u \in States /\ SameExchange(t, u) /\ u.ops = t.ops
    BY PairKeeps
  <1> HIDE DEF u
  <1> QED
    BY <1>1 DEF Basic, SameExchange, u

LEMMA AnnounceSteps ==
    ASSUME NEW t \in States, NEW before
    PROVE  LET u == Announce(t, before)
           IN  /\ Basic(t, u) /\ u \in States /\ u.sig = t.sig
               /\ u.pl = t.pl /\ u.pr = t.pr
  <1> DEFINE a == [t EXCEPT !.suppress = t.sig]
             u == Announce(t, before)
  <1>1. CASE t.sig = before
    BY <1>1, BasicSteps DEF Announce
  <1>2. CASE t.sig # before
    <2>1. t.sig \in SigNames
      BY StateFields, StatesNamed
    <2>2. a \in States
      BY <2>1, StateValues
    <2>3. /\ a.closed = t.closed /\ a.ops = t.ops /\ a.jsOffer = t.jsOffer
          /\ a.lastOffer = t.lastOffer /\ a.lastAnswer = t.lastAnswer
          /\ a.pl = t.pl /\ a.pr = t.pr /\ a.sig = t.sig
      BY DEF States
    <2>4. u = Dispatch(a)
      BY <1>2 DEF Announce
    <2> HIDE DEF a
    <2>5. Entered(a, Dispatch(a), a.sig)
      BY <2>2, EnterStateKeeps
    <2>6. Basic(a, u) /\ u \in States /\ u.sig = a.sig /\ u.pl = a.pl /\ u.pr = a.pr
      BY <2>4, <2>5, EnteredSteps
    <2> HIDE DEF u
    <2>7. Basic(t, a)
      BY <2>2, <2>3 DEF Basic
    <2> QED
      BY <2>3, <2>6, <2>7, BasicTwice DEF u
  <1> QED
    BY <1>1, <1>2

LEMMA RemoteWorkFacts ==
    ASSUME SInv, NEW path, RemoteWork(path)
    PROVE  /\ Describes /\ Task \in Tasks /\ Task.desc \in Descriptions
           /\ Task.op = "setRemote" /\ Task.desc # NoDesc /\ Task.type = Task.desc.type
           /\ Task.here \in BOOLEAN /\ Task.at \in {"work", "rolledBack"}
           /\ s \in States /\ Created(s) /\ s.jsOffer \in BOOLEAN /\ Sound
           /\ Basic(s, Now) /\ Now \in States /\ Now.sig = s.sig
           /\ Now.pl = s.pl /\ Now.pr = s.pr
           /\ Task.at = "work" => Now = s
           /\ path # "closed" => ~s.closed
           /\ path \in {"pranswer", "rollback"} =>
                  Task.at = "work" /\ Task.type = path /\ ~InvalidRemote(s, Task.desc)
           /\ path = "rollbackLocal" =>
                  Task.at = "work" /\ Task.type = "offer" /\ s.sig \in {HLO, HRP}
           /\ path \in {"restartOffer", "dataOnlyOffer", "replace", "offer"} =>
                  Task.type = "offer"
           /\ path \in {"restartOffer", "dataOnlyOffer", "replace", "offer", "noMedia"} =>
                  (Task.type = "offer" /\ Task.at = "work" => s.sig \notin {HLO, HRP})
           /\ path = "replace" => s.sig = HRO
           /\ path \in {"restartAnswer", "dataOnlyAnswer", "answer"} => Task.type = "answer"
  <1>1. /\ Ready /\ Task.op = "setRemote" /\ Task.at \in {"work", "rolledBack"}
        /\ RemotePath(Now, Task.desc, Task.valid, Task.at) = path
    BY DEF RemoteWork, At, Task
  <1>2. Sound
    BY DEF SInv
  <1>3. s \in States /\ Created(s) /\ s.jsOffer \in BOOLEAN
    BY <1>2, StateFields DEF Sound, Typed
  <1>4. /\ Task \in Tasks /\ Task.desc \in Descriptions /\ Shape(Task)
        /\ Task.here \in BOOLEAN
    BY <1>1, <1>2, TaskTyped DEF Sound
  <1>5. Describes
    BY <1>1 DEF Describes, DescriptionOps, SetOps
  <1>6. /\ Task.desc # NoDesc /\ Task.type = Task.desc.type
        /\ Task.at = "rolledBack" => Task.type = "offer"
    BY <1>1, <1>4 DEF Shape, SetOps
  <1>7. /\ Basic(s, Now) /\ Now \in States /\ Now.sig = s.sig
        /\ Now.pl = s.pl /\ Now.pr = s.pr
    <2>1. CASE Task.at = "work"
      BY <1>3, <2>1, BasicSteps DEF Now
    <2>2. CASE Task.at # "work"
      BY <1>3, <2>2, ClearSuppressedEnters DEF Now
    <2> QED
      BY <2>1, <2>2
  <1>8. Task.at = "work" => Now = s
    BY DEF Now
  <1> DEFINE t == Now
             d == Task.desc
             at == Task.at
  <1>9. /\ path # "closed" => ~t.closed
        /\ path \in {"pranswer", "rollback"} =>
               d.type = path /\ (at = "work" => ~InvalidRemote(t, d))
        /\ path = "rollbackLocal" => at = "work" /\ d.type = "offer" /\ t.sig \in {HLO, HRP}
        /\ path \in {"restartOffer", "dataOnlyOffer", "replace", "offer"} => d.type = "offer"
        /\ path \in {"restartOffer", "dataOnlyOffer", "replace", "offer", "noMedia"} =>
               (d.type = "offer" /\ at = "work" => t.sig \notin {HLO, HRP})
        /\ path = "replace" => t.sig = HRO
        /\ path \in {"restartAnswer", "dataOnlyAnswer", "answer"} => d.type = "answer"
    <2> HIDE DEF t, d, at
    <2>1. /\ RemotePath(t, d, Task.valid, at) = path
          /\ d.type \in {"none", "offer", "answer", "pranswer", "rollback"}
      BY <1>1, <1>4 DEF t, d, at, Descriptions
    <2>2. path # "closed" => ~t.closed
      BY <2>1 DEF RemotePath
    <2>3. path \in {"pranswer", "rollback"} =>
              d.type = path /\ (at = "work" => ~InvalidRemote(t, d))
      BY <2>1 DEF RemotePath
    <2>4. path = "rollbackLocal" => at = "work" /\ d.type = "offer" /\ t.sig \in {HLO, HRP}
      BY <2>1 DEF RemotePath
    <2>5. path \in {"restartOffer", "dataOnlyOffer", "replace"} => d.type = "offer"
      BY <2>1 DEF RemotePath
    <2>6. path = "offer" => d.type = "offer"
      BY <2>1 DEF RemotePath
    <2>7. path \notin {"closed", "invalid", "pranswer", "rollbackLocal"} =>
              (d.type = "offer" /\ at = "work" => t.sig \notin {HLO, HRP})
      BY <2>1 DEF RemotePath
    <2>8. path = "replace" => t.sig = HRO
      BY <2>1 DEF RemotePath
    <2>9. path \in {"restartAnswer", "dataOnlyAnswer", "answer"} => d.type = "answer"
      BY <2>1 DEF RemotePath
    <2> QED
      BY <2>2, <2>3, <2>4, <2>5, <2>6, <2>7, <2>8, <2>9
  <1> HIDE DEF t, d, at
  <1>10. t = Now /\ d = Task.desc /\ at = Task.at
    BY DEF t, d, at
  <1>11. path # "closed" => ~s.closed
    BY <1>7, <1>9, <1>10 DEF Basic
  <1>12. path \in {"pranswer", "rollback"} =>
             Task.at = "work" /\ Task.type = path /\ ~InvalidRemote(s, Task.desc)
    BY <1>1, <1>6, <1>8, <1>9, <1>10
  <1> QED
    BY <1>1, <1>2, <1>3, <1>4, <1>5, <1>6, <1>7, <1>8, <1>9, <1>10, <1>11, <1>12

\* A remote offer is set when nothing but another one is pending.
LEMMA RemoteOfferFits ==
    ASSUME SInv, NEW path, RemoteWork(path),
           path \in {"restartOffer", "dataOnlyOffer", "replace", "offer", "noMedia"},
           Task.type = "offer", Phase(s), Upcoming(s, Task)
    PROVE  s.jsOffer = FALSE /\ s.pl.type = "none"
  <1>1. /\ Task.op = "setRemote" /\ Task.at \in {"work", "rolledBack"} /\ ~s.closed
        /\ Task.at = "work" => s.sig \notin {HLO, HRP}
        /\ s.jsOffer \in BOOLEAN
    BY RemoteWorkFacts
  <1>2. CASE Task.at = "work"
    BY <1>1, <1>2 DEF Upcoming, NoPranswer, Phase, Exchanges, HLO, HRO, HLP, HRP
  <1>3. CASE Task.at = "rolledBack"
    BY <1>1, <1>3 DEF Upcoming
  <1> QED
    BY <1>1, <1>2, <1>3

LEMMA NowProceeds ==
    ASSUME SInv, NEW path, RemoteWork(path)
    PROVE  Proceeds(Now) /\ Proceeds(EnsureNative(Now))
  <1>1. /\ Basic(s, Now) /\ Now \in States /\ Now.sig = s.sig
        /\ Now.pl = s.pl /\ Now.pr = s.pr
    BY RemoteWorkFacts
  <1> DEFINE e == EnsureNative(Now)
  <1>2. NativeStep(Now, e)
    BY <1>1, EnsureNativeStep
  <1> HIDE DEF e
  <1>3. Basic(Now, e) /\ e.pl = Now.pl /\ e.pr = Now.pr /\ e.sig = Now.sig
    BY <1>2, BasicSteps DEF SameLocal, SameRemote
  <1>4. Basic(s, e)
    BY <1>1, <1>3, BasicTwice
  <1> QED
    BY <1>1, <1>3, <1>4, SameProceeds DEF e

LEMMA SetRemoteRejectedStep == ASSUME SInv, SetRemoteClosed \/ SetRemoteInvalid PROVE SInv'
  <1>1. PICK path : RemoteWork(path) /\ Reject(Now)
    BY DEF SetRemoteClosed, SetRemoteInvalid
  <1> QED
    BY <1>1, RemoteWorkFacts, NowProceeds, SettleStage

LEMMA SetRemotePranswerStep == ASSUME SInv, SetRemotePranswer PROVE SInv'
  <1> DEFINE a == SetPendingRemote(s, Task.desc)
             b == Pair(a, Task.here)
             u == EnterState(b, HRP, s.sig)
  <1>1. RemoteWork("pranswer") /\ Await(u, "done")
    BY DEF SetRemotePranswer
  <1>2. /\ Describes /\ s \in States /\ Task.desc \in Descriptions /\ Task.here \in BOOLEAN
        /\ Task.desc.type = "pranswer" /\ ~s.closed /\ s.sig \in {HLO, HRP}
        /\ s.jsOffer \in BOOLEAN
    BY <1>1, RemoteWorkFacts DEF InvalidRemote
  <1>3. Kept(s, a) /\ SameLocal(s, a) /\ a.pr = Task.desc
    BY <1>2, SetPendingKeeps
  <1>4. Basic(s, a) /\ a \in States /\ a.pl = s.pl
    BY <1>3, KeptSteps DEF SameLocal
  <1> HIDE DEF a
  <1>5. Basic(a, b) /\ b \in States /\ b.pl = a.pl /\ b.pr = a.pr
    BY <1>2, <1>4, PairSteps
  <1> HIDE DEF b
  <1>6. Entered(b, u, HRP)
    BY <1>5, StateNames, EnterStateKeeps
  <1> HIDE DEF u
  <1>7. Basic(b, u) /\ u.sig = HRP /\ u.pl = b.pl /\ u.pr = b.pr
    BY <1>6, EnteredSteps
  <1>8. Basic(s, u)
    BY <1>4, <1>5, <1>7, BasicSteps
  <1>9. ASSUME Phase(s)
        PROVE  Phase(u)
    <2>1. u.pl = s.pl /\ u.pr.type = "pranswer" /\ u.jsOffer = s.jsOffer
      BY <1>2, <1>3, <1>4, <1>5, <1>7, <1>8 DEF Basic
    <2> QED
      BY <1>2, <1>7, <1>9, <2>1 DEF Phase, Exchanges, HLO, HRO, HLP, HRP
  <1>10. Proceeds(u)
    BY <1>8, <1>9, BasicProceeds
  <1> QED
    BY <1>1, <1>2, <1>10, AwaitStage

\* The offer that meets a local one, which was rolled back for it, comes next.
LEMMA RolledBackTyped ==
    ASSUME NEW task \in Tasks, task.op = "setRemote", task.type = "offer"
    PROVE  LET n == [task EXCEPT !.at = "rolledBack"]
           IN  n \in Tasks /\ n.op = task.op /\ n.id = task.id /\ n.at = "rolledBack"
  <1> DEFINE n == [task EXCEPT !.at = "rolledBack"]
  <1>1. task \in TaskRecords /\ Shape(task) /\ "rolledBack" \in Stages
    BY DEF Tasks, Stages
  <1>2. /\ n \in TaskRecords /\ n.op = task.op /\ n.id = task.id /\ n.at = "rolledBack"
        /\ n.type = task.type /\ n.desc = task.desc
    BY <1>1 DEF TaskRecords
  <1> HIDE DEF n
  <1>3. Shape(n)
    BY <1>1, <1>2 DEF Shape
  <1> QED
    BY <1>2, <1>3 DEF Tasks, n

LEMMA SetRemoteRollbackLocalStep == ASSUME SInv, SetRemoteRollbackLocal PROVE SInv'
  <1> DEFINE u == RollbackLocalOffer(s)
             n == [Task EXCEPT !.at = "rolledBack"]
  <1>1. RemoteWork("rollbackLocal") /\ AwaitAs(u, n)
    BY DEF SetRemoteRollbackLocal, Await
  <1>2. /\ Describes /\ s \in States /\ Task \in Tasks /\ Task.type = "offer"
        /\ Task.op = "setRemote" /\ Task.at = "work" /\ ~s.closed /\ s.sig \in {HLO, HRP}
    BY <1>1, RemoteWorkFacts
  <1>3. Basic(s, u) /\ SameRemote(s, u) /\ u.pl = NoDesc /\ u.sig = "stable"
    BY <1>2, RollbackLocalOfferKeeps
  <1> HIDE DEF u
  <1>4. n \in Tasks /\ n.op = Task.op /\ n.id = Task.id /\ n.at = "rolledBack"
    BY <1>2, RolledBackTyped
  <1> HIDE DEF n
  <1>5. ASSUME Phase(s), Upcoming(s, Task)
        PROVE  Phase(u) /\ Upcoming(u, n)
    <2>1. NoPranswer(s)
      BY <1>2, <1>5 DEF Upcoming
    <2>2. s.pr.type = "none"
      BY <1>2, <1>5, <2>1 DEF Phase, NoPranswer, Exchanges, HLO, HRO, HLP, HRP
    <2>3. u.jsOffer = FALSE
      BY <1>2, <1>3, <2>1, StateFields DEF Basic, NoPranswer
    <2>4. u.pl.type = "none" /\ u.pr.type = "none"
      BY <1>3, <2>2, DescriptionTypes DEF SameRemote
    <2>5. Phase(u)
      <3>1. u.jsOffer \in BOOLEAN
        BY <2>3
      <3> QED
        BY <1>3, <2>4, <3>1, PhaseSettled
    <2>6. Upcoming(u, n)
      BY <1>4, <2>3, <2>4 DEF Upcoming
    <2> QED
      BY <2>5, <2>6
  <1>6. Proceeds(u)
    BY <1>3, <1>5, BasicProceeds
  <1>7. Counts(Task) /\ Counts(n)
    BY <1>2, <1>4 DEF Counts
  <1> QED
    BY <1>1, <1>2, <1>4, <1>5, <1>6, <1>7, AwaitOrderly DEF Describes

LEMMA SetRemoteRollbackStep == ASSUME SInv, SetRemoteRollback PROVE SInv'
  <1> DEFINE a == [s EXCEPT !.suppress = "stable"]
             n == IF s.r.data THEN NativeRollbackRemote(a) ELSE s
             b == RollbackRemote(n)
             t == [b EXCEPT !.paired = "none"]
             u == EnterState(t, "stable", s.sig)
  <1>1. RemoteWork("rollback") /\ Await(u, "clear")
    BY Zenon DEF SetRemoteRollback
  <1>2. /\ Describes /\ s \in States /\ Task.type = "rollback" /\ Task.op = "setRemote"
        /\ Task.at = "work" /\ Task.desc.type = "rollback" /\ ~s.closed
        /\ ~InvalidRemote(s, Task.desc) /\ s.jsOffer \in BOOLEAN
    BY <1>1, RemoteWorkFacts
  <1>3. s.sig = HRO
    BY <1>2 DEF InvalidRemote
  <1>4. a \in States
    BY <1>2, StateValues, StatesNamed
  <1>5. /\ a.closed = s.closed /\ a.ops = s.ops /\ a.jsOffer = s.jsOffer
        /\ a.lastOffer = s.lastOffer /\ a.lastAnswer = s.lastAnswer
        /\ a.pl = s.pl
    BY <1>2 DEF States
  <1> HIDE DEF a
  <1>6. Basic(s, n) /\ n \in States /\ n.pl = s.pl
    <2>1. CASE s.r.data
      <3>1. NativeStep(a, NativeRollbackRemote(a))
        BY <1>4, NativeRollbackRemoteKeeps
      <3>2. n = NativeRollbackRemote(a)
        BY <2>1
      <3> HIDE DEF n
      <3>3. Basic(a, n) /\ n.pl = a.pl
        BY <3>1, <3>2, BasicSteps DEF SameLocal
      <3>4. Basic(s, a)
        BY <1>4, <1>5 DEF Basic
      <3> QED
        BY <1>5, <3>3, <3>4, BasicTwice DEF Basic
    <2>2. CASE ~s.r.data
      BY <1>2, <2>2, BasicSteps
    <2> QED
      BY <2>1, <2>2
  <1> HIDE DEF n
  <1>7. Kept(n, b) /\ SameLocal(n, b) /\ b.pr = NoDesc
    BY <1>6, RollbackKeeps
  <1>8. Basic(n, b) /\ b \in States
    BY <1>7, KeptSteps
  <1> HIDE DEF b
  <1>9. t \in States
    BY <1>8, StateValues DEF PairedStates
  <1>10. /\ t.closed = b.closed /\ t.ops = b.ops /\ t.jsOffer = b.jsOffer
         /\ t.lastOffer = b.lastOffer /\ t.lastAnswer = b.lastAnswer
         /\ t.pl = b.pl /\ t.pr = b.pr
    BY <1>8 DEF States
  <1> HIDE DEF t
  <1>11. Basic(b, t)
    BY <1>9, <1>10 DEF Basic
  <1>12. Entered(t, u, "stable")
    BY <1>9, StateNames, EnterStateKeeps
  <1> HIDE DEF u
  <1>13. Basic(t, u) /\ u.sig = "stable" /\ u.pl = t.pl /\ u.pr = t.pr
    BY <1>12, EnteredSteps
  <1>14. Basic(s, u)
    BY <1>6, <1>8, <1>11, <1>13, BasicSteps
  <1>15. ASSUME Phase(s), Upcoming(s, Task)
         PROVE  Phase(u)
    <2>1. NoPranswer(s)
      BY <1>2, <1>15 DEF Upcoming, SetOps
    <2>2. s.pl.type = "none"
      BY <1>2, <1>3, <1>15, <2>1 DEF Phase, NoPranswer, Exchanges, HLO, HRO, HLP, HRP
    <2>3. u.pl = s.pl /\ u.pr = NoDesc /\ u.jsOffer \in BOOLEAN
      BY <1>2, <1>6, <1>7, <1>10, <1>13, <1>14 DEF SameLocal, Basic
    <2> QED
      BY <1>13, <2>2, <2>3, PhaseSettled, DescriptionTypes
  <1>16. Proceeds(u)
    BY <1>14, <1>15, BasicProceeds
  <1> QED
    BY <1>1, <1>2, <1>16, AwaitStage

\* A remote offer is set: what steps of that way start from.
LEMMA PendingRemoteOffer ==
    ASSUME NEW t \in States, NEW d \in Descriptions, NEW here \in BOOLEAN
    PROVE  LET u == Pair(SetPendingRemote(t, d), here)
           IN  Basic(t, u) /\ u \in States /\ u.pl = t.pl /\ u.pr = d /\ u.sig = t.sig
  <1> DEFINE a == SetPendingRemote(t, d)
             u == Pair(a, here)
  <1>1. Kept(t, a) /\ SameLocal(t, a) /\ a.pr = d
    BY SetPendingKeeps
  <1>2. Basic(t, a) /\ a \in States /\ a.pl = t.pl /\ a.sig = t.sig
    BY <1>1, KeptSteps DEF SameLocal
  <1> HIDE DEF a
  <1>3. Basic(a, u) /\ u \in States /\ u.pl = a.pl /\ u.pr = a.pr /\ u.sig = a.sig
    BY <1>2, PairSteps
  <1> HIDE DEF u
  <1> QED
    BY <1>1, <1>2, <1>3, BasicTwice DEF a, u

LEMMA SetRemoteRestartOfferStep == ASSUME SInv, SetRemoteRestartOffer PROVE SInv'
  <1> DEFINE d == MarkRestart(Task.desc)
             t == Pair(SetPendingRemote(Now, d), Task.here)
             a == [t EXCEPT !.jsRemote = TRUE]
             u == EnterState(a, HRO, Now.sig)
  <1>1. RemoteWork("restartOffer") /\ Await(u, "done")
    BY DEF SetRemoteRestartOffer
  <1>2. /\ Describes /\ Now \in States /\ Task.desc \in Descriptions /\ Task.here \in BOOLEAN
        /\ Task.desc.type = "offer" /\ Task.type = "offer" /\ Basic(s, Now)
        /\ Now.pl = s.pl /\ s.jsOffer \in BOOLEAN
    BY <1>1, RemoteWorkFacts
  <1>3. d \in Descriptions /\ d.type = "offer"
    BY <1>2, DescriptionOperators
  <1> HIDE DEF d
  <1>4. Basic(Now, t) /\ t \in States /\ t.pl = Now.pl /\ t.pr = d
    BY <1>2, <1>3, PendingRemoteOffer
  <1> HIDE DEF t
  <1>5. a \in States
    BY <1>4, StateFlags
  <1>6. /\ a.closed = t.closed /\ a.ops = t.ops /\ a.jsOffer = t.jsOffer
        /\ a.lastOffer = t.lastOffer /\ a.lastAnswer = t.lastAnswer
        /\ a.pl = t.pl /\ a.pr = t.pr
    BY <1>4 DEF States
  <1> HIDE DEF a
  <1>7. Basic(t, a)
    BY <1>5, <1>6 DEF Basic
  <1>8. Entered(a, u, HRO)
    BY <1>5, StateNames, EnterStateKeeps
  <1> HIDE DEF u
  <1>9. Basic(a, u) /\ u.sig = HRO /\ u.pl = a.pl /\ u.pr = a.pr
    BY <1>8, EnteredSteps
  <1>10. Basic(s, u)
    BY <1>2, <1>4, <1>7, <1>9, BasicSteps
  <1>11. ASSUME Phase(s), Upcoming(s, Task)
         PROVE  Phase(u)
    <2>1. s.jsOffer = FALSE /\ s.pl.type = "none"
      BY <1>1, <1>2, <1>11, RemoteOfferFits
    <2>2. u.jsOffer = FALSE /\ u.pl.type = "none" /\ u.pr.type = "offer"
      BY <1>2, <1>3, <1>4, <1>6, <1>9, <1>10, <2>1 DEF Basic
    <2> QED
      BY <1>9, <2>2, PhaseRemoteOffer
  <1>12. Proceeds(u)
    BY <1>10, <1>11, BasicProceeds
  <1> QED
    BY <1>1, <1>2, <1>12, AwaitStage

LEMMA SetRemoteDataOnlyOfferStep == ASSUME SInv, SetRemoteDataOnlyOffer PROVE SInv'
  <1> DEFINE t == Pair(SetPendingRemote(Now, Task.desc), Task.here)
             a == SyncSignalingState(t)
             u == DispatchIfChanged(a, Now.sig)
  <1>1. RemoteWork("dataOnlyOffer") /\ Await(u, "done")
    BY DEF SetRemoteDataOnlyOffer
  <1>2. /\ Describes /\ Now \in States /\ Task.desc \in Descriptions /\ Task.here \in BOOLEAN
        /\ Task.desc.type = "offer" /\ Task.type = "offer" /\ Basic(s, Now)
        /\ Now.pl = s.pl /\ s.jsOffer \in BOOLEAN
    BY <1>1, RemoteWorkFacts
  <1>3. Basic(Now, t) /\ t \in States /\ t.pl = Now.pl /\ t.pr = Task.desc
    BY <1>2, PendingRemoteOffer
  <1> HIDE DEF t
  <1>4. Entered(t, a, Synced(t)) /\ Synced(a) = Synced(t)
    BY <1>3, SyncEnters
  <1> HIDE DEF a
  <1>5. Basic(t, a) /\ a \in States /\ a.sig = Synced(a) /\ a.pl = t.pl /\ a.pr = t.pr
    BY <1>4, EnteredSteps
  <1>6. Entered(a, u, a.sig)
    BY <1>5, EnterStateKeeps
  <1> HIDE DEF u
  <1>7. /\ Basic(a, u) /\ u.sig = a.sig /\ u.pl = a.pl /\ u.pr = a.pr
        /\ Synced(u) = Synced(a)
    BY <1>6, EnteredSteps
  <1>8. Basic(s, u)
    BY <1>2, <1>3, <1>5, <1>7, BasicSteps
  <1>9. ASSUME Phase(s), Upcoming(s, Task)
        PROVE  Phase(u)
    BY <1>1, <1>2, <1>9, RemoteOfferFits, <1>3, <1>5, <1>7, <1>8, PhaseRemoteOffer DEF Basic
  <1>10. Proceeds(u)
    BY <1>8, <1>9, BasicProceeds
  <1> QED
    BY <1>1, <1>2, <1>10, AwaitStage

LEMMA SetRemoteReplaceStep == ASSUME SInv, SetRemoteReplace PROVE SInv'
  <1> DEFINE u == Pair(SetPendingRemote(Now, Task.desc), Task.here)
  <1>1. RemoteWork("replace") /\ Await(u, "done")
    BY DEF SetRemoteReplace
  <1>2. /\ Describes /\ Now \in States /\ Task.desc \in Descriptions /\ Task.here \in BOOLEAN
        /\ Task.desc.type = "offer" /\ Task.type = "offer" /\ Basic(s, Now)
        /\ Now.pl = s.pl /\ s.jsOffer \in BOOLEAN /\ s.sig = HRO /\ Now.sig = s.sig
    BY <1>1, RemoteWorkFacts
  <1>3. Basic(Now, u) /\ u.pl = Now.pl /\ u.pr = Task.desc /\ u.sig = Now.sig
    BY <1>2, PendingRemoteOffer
  <1> HIDE DEF u
  <1>4. Basic(s, u)
    BY <1>2, <1>3, BasicTwice
  <1>5. ASSUME Phase(s), Upcoming(s, Task)
        PROVE  Phase(u)
    BY <1>1, <1>2, <1>5, RemoteOfferFits, <1>3, <1>4, PhaseRemoteOffer DEF Basic
  <1>6. Proceeds(u)
    BY <1>4, <1>5, BasicProceeds
  <1> QED
    BY <1>1, <1>2, <1>6, AwaitStage

LEMMA SetRemoteNoMediaStep == ASSUME SInv, SetRemoteNoMedia PROVE SInv'
  <1> DEFINE a == RollbackLocal(Now)
             b == SetPendingRemote(a, Task.desc)
             c == [b EXCEPT !.sig = HRO]
             e == CommitRemoteAnswer(Now, Task.desc)
             f == [e EXCEPT !.sig = "stable"]
             t == IF Task.type = "offer" THEN c ELSE f
             p == Pair(t, Task.here)
             u == Dispatch(p)
  <1>1. RemoteWork("noMedia") /\ Await(u, "done")
    BY Zenon DEF SetRemoteNoMedia, CommitRemoteAnswer
  <1>2. /\ Describes /\ Now \in States /\ Task.desc \in Descriptions /\ Task.here \in BOOLEAN
        /\ Task.type = Task.desc.type /\ Basic(s, Now)
        /\ Now.pl = s.pl /\ s.jsOffer \in BOOLEAN
    BY <1>1, RemoteWorkFacts
  <1>3. /\ Basic(Now, c) /\ c \in States /\ c.sig = HRO
        /\ c.pl = NoDesc /\ c.pr = Task.desc
    <2>1. Kept(Now, a) /\ a.pl = NoDesc
      BY <1>2, RollbackKeeps
    <2>2. Basic(Now, a) /\ a \in States
      BY <2>1, KeptSteps
    <2> HIDE DEF a
    <2>3. Kept(a, b) /\ SameLocal(a, b) /\ b.pr = Task.desc
      BY <1>2, <2>2, SetPendingKeeps
    <2>4. Basic(a, b) /\ b \in States /\ b.pl = a.pl
      BY <2>3, KeptSteps DEF SameLocal
    <2> HIDE DEF b
    <2>5. Entered(b, c, HRO)
      BY <2>4, SigKeeps, StateNames
    <2> HIDE DEF c
    <2>6. Basic(b, c) /\ c \in States /\ c.sig = HRO /\ c.pl = b.pl /\ c.pr = b.pr
      BY <2>5, EnteredSteps
    <2>7. Basic(Now, c)
      BY <2>2, <2>4, <2>6, BasicSteps
    <2> QED
      BY <2>1, <2>3, <2>4, <2>6, <2>7
  <1>4. /\ Basic(Now, f) /\ f \in States /\ f.sig = "stable"
        /\ f.pl = NoDesc /\ f.pr = NoDesc
    <2>1. Kept(Now, e) /\ e.pl = NoDesc /\ e.pr = NoDesc
      BY <1>2, CommitAnswerKeeps
    <2>2. Basic(Now, e) /\ e \in States
      BY <2>1, KeptSteps
    <2> HIDE DEF e
    <2>3. Entered(e, f, "stable")
      BY <2>2, SigKeeps, StateNames
    <2> HIDE DEF f
    <2>4. Basic(e, f) /\ f \in States /\ f.sig = "stable" /\ f.pl = e.pl /\ f.pr = e.pr
      BY <2>3, EnteredSteps
    <2>5. Basic(Now, f)
      BY <2>2, <2>4, BasicTwice
    <2> QED
      BY <2>1, <2>4, <2>5
  <1> HIDE DEF c, f
  <1>5. Basic(Now, t) /\ t \in States /\ t \in {c, f} /\ (Task.type = "offer" <=> t = c)
    BY <1>3, <1>4 DEF HRO
  <1> HIDE DEF t
  <1>6. Basic(t, p) /\ p \in States /\ p.sig = t.sig /\ p.pl = t.pl /\ p.pr = t.pr
    BY <1>2, <1>5, PairSteps
  <1> HIDE DEF p
  <1>7. Entered(p, u, p.sig)
    BY <1>6, EnterStateKeeps
  <1> HIDE DEF u
  <1>8. Basic(p, u) /\ u.sig = p.sig /\ u.pl = p.pl /\ u.pr = p.pr
    BY <1>7, EnteredSteps
  <1>9. Basic(s, u)
    BY <1>2, <1>5, <1>6, <1>8, BasicSteps
  <1>10. ASSUME Phase(s), Upcoming(s, Task)
         PROVE  Phase(u)
    <2>1. CASE Task.type = "offer"
      <3>1. s.jsOffer = FALSE
        BY <1>1, <1>10, <2>1, RemoteOfferFits
      <3>2. /\ u.jsOffer = FALSE /\ u.pl.type = "none" /\ u.pr.type = "offer"
            /\ u.sig = HRO
        <4>1. t = c /\ Task.desc.type = "offer"
          BY <1>2, <1>5, <2>1
        <4>2. u.pl = NoDesc /\ u.pr = Task.desc /\ u.sig = HRO
          BY <1>3, <1>6, <1>8, <4>1
        <4>3. u.jsOffer = FALSE
          BY <1>9, <3>1 DEF Basic
        <4> QED
          BY <4>1, <4>2, <4>3, DescriptionTypes
      <3> QED
        BY <3>2, PhaseRemoteOffer
    <2>2. CASE Task.type # "offer"
      BY <1>2, <1>4, <1>5, <1>6, <1>8, <1>9, <2>2, DescriptionTypes, PhaseSettled DEF Basic
    <2> QED
      BY <2>1, <2>2
  <1>11. Proceeds(u)
    BY <1>9, <1>10, BasicProceeds
  <1> QED
    BY <1>1, <1>2, <1>11, AwaitStage

LEMMA SetRemoteOfferStep == ASSUME SInv, SetRemoteOffer PROVE SInv'
  <1>1. RemoteWork("offer")
    BY DEF SetRemoteOffer
  <1>2. /\ Describes /\ Now \in States /\ Task.desc \in Descriptions /\ Task.here \in BOOLEAN
        /\ Task.type = Task.desc.type /\ Task.type = "offer" /\ Basic(s, Now)
        /\ Now.pl = s.pl /\ s.jsOffer \in BOOLEAN
    BY <1>1, RemoteWorkFacts
  <1>3. CASE ~NativeAcceptsRemote(Now, "offer")
    BY <1>3, <1>1, <1>2, NowProceeds, SettleStage DEF SetRemoteOffer
  <1>4. CASE NativeAcceptsRemote(Now, "offer")
    <2> DEFINE m == NativeSetRemote(Now, Task.desc)
               N(inline) == [m EXCEPT !.queued = @ \cup inline]
               T(inline) == SyncSignalingState(SetPendingRemote(
                                RollbackLocal(Pair(N(inline), Task.here)), Task.desc))
    <2>1. PICK inline \in SUBSET {"inline"} :
              AwaitSuppressed(Announce(T(inline), Now.sig), Now.sig)
      BY <1>4, Zenon DEF SetRemoteOffer
    <2> DEFINE q == m.queued \cup inline
               n == [m EXCEPT !.queued = q]
               a == Pair(n, Task.here)
               b == RollbackLocal(a)
               c == SetPendingRemote(b, Task.desc)
               t == SyncSignalingState(c)
               u == Announce(t, Now.sig)
    <2>2. NativeStep(Now, m)
      BY <1>2, NativeSetRemoteKeeps
    <2>3. N(inline) = n
      BY Zenon
    <2>4. AwaitSuppressed(u, Now.sig)
      BY <2>1, <2>3
    <2> HIDE DEF m
    <2>5. Basic(Now, m) /\ m \in States
      BY <2>2, BasicSteps DEF Basic
    <2>6. q \in Candidates
      BY <2>5, StateFields DEF Candidates
    <2> HIDE DEF q, N, T
    <2>7. n \in States
      BY <2>5, <2>6, StateValues
    <2>8. /\ n.closed = m.closed /\ n.ops = m.ops /\ n.jsOffer = m.jsOffer
          /\ n.lastOffer = m.lastOffer /\ n.lastAnswer = m.lastAnswer
      BY <2>5 DEF States
    <2> HIDE DEF n
    <2>9. Basic(m, n)
      BY <2>7, <2>8 DEF Basic
    <2>10. Basic(n, a) /\ a \in States
      BY <1>2, <2>7, PairSteps
    <2> HIDE DEF a
    <2>11. Kept(a, b) /\ b.pl = NoDesc
      BY <2>10, RollbackKeeps
    <2>12. Basic(a, b) /\ b \in States
      BY <2>11, KeptSteps
    <2> HIDE DEF b
    <2>13. Kept(b, c) /\ SameLocal(b, c) /\ c.pr = Task.desc
      BY <1>2, <2>12, SetPendingKeeps
    <2>14. Basic(b, c) /\ c \in States /\ c.pl = b.pl
      BY <2>13, KeptSteps DEF SameLocal
    <2> HIDE DEF c
    <2>15. Entered(c, t, Synced(c)) /\ Synced(t) = Synced(c)
      BY <2>14, SyncEnters
    <2> HIDE DEF t
    <2>16. Basic(c, t) /\ t \in States /\ t.sig = Synced(t) /\ t.pl = c.pl /\ t.pr = c.pr
      BY <2>15, EnteredSteps
    <2>17. Basic(t, u) /\ u.sig = t.sig /\ u.pl = t.pl /\ u.pr = t.pr
      BY <2>16, AnnounceSteps
    <2> HIDE DEF u
    <2>18. Basic(s, c)
      BY <1>2, <2>5, <2>9, <2>10, <2>12, <2>14, BasicSteps
    <2>19. Basic(s, u)
      BY <2>16, <2>17, <2>18, BasicSteps
    <2>20. ASSUME Phase(s), Upcoming(s, Task)
           PROVE  Phase(u)
      <3>1. s.jsOffer = FALSE
        BY <1>1, <1>2, <2>20, RemoteOfferFits
      <3>2. u.pl = NoDesc /\ u.pr = Task.desc /\ u.sig = t.sig
        BY <2>11, <2>13, <2>14, <2>16, <2>17
      <3>3. u.jsOffer = FALSE /\ u.sig = Synced(u)
        BY <2>16, <2>17, <2>19, <3>1 DEF Basic, Synced, DescriptionSignalingState
      <3>4. u.pl.type = "none" /\ u.pr.type = "offer"
        BY <1>2, <3>2, DescriptionTypes
      <3> QED
        BY <3>3, <3>4, PhaseRemoteOffer
    <2>21. Proceeds(u)
      BY <2>19, <2>20, BasicProceeds
    <2> QED
      BY <1>2, <2>4, <2>21, AwaitSuppressedStage
  <1> QED
    BY <1>3, <1>4

LEMMA AwaitAnswererStep == ASSUME SInv, AwaitAnswerer PROVE SInv'
  <1>1. PICK path \in {"restartAnswer", "dataOnlyAnswer", "answer"} :
            /\ RemoteWork(path)
            /\ waiting' = waiting \cup {[Task EXCEPT !.at = path, !.before = s.sig]}
    BY DEF AwaitAnswerer
  <1>2. Task.here /\ tasks' = Tail(tasks) /\ UNCHANGED <<s, calls>>
    BY DEF AwaitAnswerer
  <1>3. /\ Describes /\ Task \in Tasks /\ Task.op = "setRemote" /\ s \in States
        /\ Task.at \in {"work", "rolledBack"}
    BY <1>1, RemoteWorkFacts
  <1> DEFINE w == [Task EXCEPT !.at = path, !.before = s.sig]
  <1>4. s.sig \in SigNames
    BY <1>3, StateFields, StatesNamed
  <1>5. Staged(Task, w, path)
    BY <1>3, <1>4, StageTyped, Zenon
  <1>6. waiting' = waiting \cup {w}
    BY <1>1
  <1> HIDE DEF w
  <1>7. w \in WaitingTasks /\ w.id = Task.id
    BY <1>1, <1>2, <1>3, <1>5 DEF Staged, WaitingTasks
  <1>8. Counts(Task) /\ Ready
    BY <1>3 DEF Counts, Describes
  <1> QED
    BY <1>2, <1>3, <1>6, <1>7, <1>8, WaitOrderly

\* The answer is applied, by a task that waited or at once.
LEMMA RemoteAnswerFacts ==
    ASSUME SInv, NEW path \in {"restartAnswer", "dataOnlyAnswer", "answer"},
           RemoteAnswer(path)
    PROVE  /\ Describes /\ Task \in Tasks /\ Task.desc \in Descriptions
           /\ Task.here \in BOOLEAN /\ s \in States /\ s.jsOffer \in BOOLEAN /\ Created(s)
  <1>1. CASE At("setRemote", path)
    BY <1>1, DescribesFacts, StateFields, TaskTyped
    DEF DescriptionOps, SetOps, Describes, Sound
  <1>2. CASE RemoteWork(path)
    BY <1>2, RemoteWorkFacts
  <1> QED
    BY <1>1, <1>2 DEF RemoteAnswer

LEMMA SetRemoteRestartAnswerStep == ASSUME SInv, SetRemoteRestartAnswer PROVE SInv'
  <1> DEFINE d == MarkRestart(Task.desc)
             t == CommitRemoteAnswer(s, d)
             a == [t EXCEPT !.jsOffer = FALSE]
             b == [a EXCEPT !.restart = FALSE]
             u == EnterState(b, "stable", Before)
  <1>1. RemoteAnswer("restartAnswer") /\ Await(u, "done")
    BY Zenon DEF SetRemoteRestartAnswer
  <1>2. /\ Describes /\ s \in States /\ Task.desc \in Descriptions /\ Created(s)
    BY <1>1, RemoteAnswerFacts
  <1>3. d \in Descriptions
    BY <1>2, DescriptionOperators
  <1> HIDE DEF d
  <1>4. Kept(s, t) /\ t.pl = NoDesc /\ t.pr = NoDesc
    BY <1>2, <1>3, CommitAnswerKeeps
  <1>5. Basic(s, t) /\ t \in States
    BY <1>4, KeptSteps
  <1> HIDE DEF t
  <1>6. a \in States
    BY <1>5, StateFlags
  <1>7. /\ a.closed = t.closed /\ a.ops = t.ops /\ a.jsOffer = FALSE
        /\ a.lastOffer = t.lastOffer /\ a.lastAnswer = t.lastAnswer
        /\ a.pl = t.pl /\ a.pr = t.pr
    BY <1>5 DEF States
  <1> HIDE DEF a
  <1>8. b \in States
    BY <1>6, StateFlags
  <1>9. /\ b.closed = a.closed /\ b.ops = a.ops /\ b.jsOffer = FALSE
        /\ b.lastOffer = a.lastOffer /\ b.lastAnswer = a.lastAnswer
        /\ b.pl = a.pl /\ b.pr = a.pr
    BY <1>6, <1>7 DEF States
  <1> HIDE DEF b
  <1>10. Entered(b, u, "stable")
    BY <1>8, StateNames, EnterStateKeeps
  <1> HIDE DEF u
  <1>11. Basic(b, u) /\ u \in States /\ u.sig = "stable" /\ u.pl = b.pl /\ u.pr = b.pr
    BY <1>10, EnteredSteps
  <1>12. Valid(u)
    BY <1>2, <1>5, <1>7, <1>9, <1>11 DEF Valid, Basic, Created
  <1>13. u.jsOffer \in BOOLEAN /\ u.pl = NoDesc /\ u.pr = NoDesc
    BY <1>4, <1>7, <1>9, <1>11 DEF Basic
  <1>14. Phase(u)
    BY <1>11, <1>13, PhaseSettled, DescriptionTypes
  <1>15. Proceeds(u)
    BY <1>12, <1>14 DEF Proceeds
  <1> QED
    BY <1>1, <1>2, <1>15, AwaitStage

\* A remote answer completes the exchange.
LEMMA CommitRemoteAnswerSettles ==
    ASSUME NEW t \in States, NEW d \in Descriptions
    PROVE  LET u == SyncSignalingState(CommitRemoteAnswer(t, d))
           IN  Basic(t, u) /\ u \in States /\ Phase(u)
  <1> DEFINE a == CommitRemoteAnswer(t, d)
             u == SyncSignalingState(a)
  <1>1. Kept(t, a) /\ a.pl = NoDesc /\ a.pr = NoDesc
    BY CommitAnswerKeeps
  <1>2. Basic(t, a) /\ a \in States
    BY <1>1, KeptSteps
  <1> HIDE DEF a
  <1>3. Entered(a, u, Synced(a)) /\ Synced(u) = Synced(a)
    BY <1>2, SyncEnters
  <1> HIDE DEF u
  <1>4. Basic(a, u) /\ u \in States /\ u.pl = NoDesc /\ u.pr = NoDesc /\ u.sig = Synced(u)
    BY <1>1, <1>3, EnteredSteps
  <1>5. u.jsOffer \in BOOLEAN
    BY <1>4, StateFields
  <1>6. Phase(u)
    BY <1>4, <1>5, PhaseSettled, DescriptionTypes
  <1>7. Basic(t, u)
    BY <1>2, <1>4, BasicTwice
  <1> QED
    BY <1>4, <1>6, <1>7 DEF a, u

LEMMA SamePhase ==
    ASSUME NEW t, NEW u, Phase(t), Basic(t, u), u.pl = t.pl, u.pr = t.pr, u.sig = t.sig
    PROVE  Phase(u)
  BY DEF Phase, Basic

LEMMA SetRemoteDataOnlyAnswerStep == ASSUME SInv, SetRemoteDataOnlyAnswer PROVE SInv'
  <1> DEFINE t == SyncSignalingState(CommitRemoteAnswer(s, Task.desc))
             u == DispatchIfChanged(t, Before)
  <1>1. RemoteAnswer("dataOnlyAnswer") /\ Await(u, "done")
    BY DEF SetRemoteDataOnlyAnswer
  <1>2. Describes /\ s \in States /\ Task.desc \in Descriptions
    BY <1>1, RemoteAnswerFacts
  <1>3. Basic(s, t) /\ t \in States /\ Phase(t)
    BY <1>2, CommitRemoteAnswerSettles
  <1> HIDE DEF t
  <1>4. Entered(t, u, t.sig)
    BY <1>3, EnterStateKeeps
  <1> HIDE DEF u
  <1>5. Basic(t, u) /\ u.pl = t.pl /\ u.pr = t.pr /\ u.sig = t.sig
    BY <1>4, EnteredSteps
  <1>6. Basic(s, u) /\ Phase(u)
    BY <1>3, <1>5, BasicTwice, SamePhase
  <1>7. Proceeds(u)
    BY <1>6, BasicProceeds
  <1> QED
    BY <1>1, <1>2, <1>7, AwaitStage

LEMMA SetRemoteAnswerStep == ASSUME SInv, SetRemoteAnswer PROVE SInv'
  <1>1. RemoteAnswer("answer")
    BY DEF SetRemoteAnswer
  <1>2. Describes /\ s \in States /\ Task.desc \in Descriptions /\ Task.here \in BOOLEAN
    BY <1>1, RemoteAnswerFacts
  <1>3. CASE ~NativeAcceptsRemote(s, "answer")
    <2> DEFINE e == EnsureNative(s)
    <2>1. Reject(e)
      BY <1>3 DEF SetRemoteAnswer
    <2>2. NativeStep(s, e)
      BY <1>2, EnsureNativeStep
    <2> HIDE DEF e
    <2>3. Basic(s, e) /\ e.pl = s.pl /\ e.pr = s.pr /\ e.sig = s.sig
      BY <2>2, BasicSteps DEF SameLocal, SameRemote
    <2>4. Proceeds(e)
      BY <2>3, SameProceeds
    <2> QED
      BY <1>2, <2>1, <2>4, SettleStage
  <1>4. CASE NativeAcceptsRemote(s, "answer")
    <2> DEFINE n == NativeSetRemote(s, Task.desc)
               a == Pair(n, Task.here)
               t == SyncSignalingState(CommitRemoteAnswer(a, Task.desc))
               b == Announce(t, s.sig)
               u == AddPendingCandidates(b)
    <2>1. AwaitSuppressed(u, s.sig)
      BY <1>4 DEF SetRemoteAnswer
    <2>2. NativeStep(s, n)
      BY <1>2, NativeSetRemoteKeeps
    <2> HIDE DEF n
    <2>3. Basic(s, n) /\ n \in States
      BY <2>2, BasicSteps DEF Basic
    <2>4. Basic(n, a) /\ a \in States
      BY <1>2, <2>3, PairSteps
    <2> HIDE DEF a
    <2>5. Basic(a, t) /\ t \in States /\ Phase(t)
      BY <1>2, <2>4, CommitRemoteAnswerSettles
    <2> HIDE DEF t
    <2>6. Basic(t, b) /\ b \in States /\ b.sig = t.sig /\ b.pl = t.pl /\ b.pr = t.pr
      BY <2>5, AnnounceSteps
    <2> HIDE DEF b
    <2>7. Flush(b, u)
      BY <2>6, AddPendingCandidatesKeeps
    <2> HIDE DEF u
    <2>8. Basic(b, u) /\ u.sig = b.sig /\ u.pl = b.pl /\ u.pr = b.pr
      BY <2>7, BasicSteps DEF SameLocal, SameRemote
    <2>9. Phase(u)
      BY <2>5, <2>6, <2>8, SamePhase
    <2>10. Basic(s, u)
      BY <2>3, <2>4, <2>5, <2>6, <2>8, BasicSteps
    <2>11. Proceeds(u)
      BY <2>9, <2>10, BasicProceeds
    <2> QED
      BY <1>2, <2>1, <2>11, AwaitSuppressedStage
  <1> QED
    BY <1>3, <1>4

-----------------------------------------------------------------------------
\* Steps beside the operations on descriptions

\* What leaves the exchange and the operations as they are.
Aside(t, u) ==
    /\ u \in States /\ u.ops = t.ops /\ u.closed = t.closed /\ u.jsOffer = t.jsOffer
    /\ u.lastOffer = t.lastOffer /\ u.lastAnswer = t.lastAnswer
    /\ u.pl = t.pl /\ u.pr = t.pr /\ u.sig = t.sig /\ u.r = t.r

LEMMA AsideKeeps ==
    ASSUME SInv, NEW u, Aside(s, u)
    PROVE  /\ Valid(u) /\ Proceeds(u) /\ Calm(s, u) /\ (Phase(s) => Phase(u))
           /\ u \in States /\ u.ops = s.ops /\ Created(u)
  BY DEF SInv, Sound, Typed, Aside, Valid, Created, Phase, Calm, Proceeds

LEMMA AsideStep ==
    ASSUME SInv, NEW u, Aside(s, u), s' = u, tasks' = tasks, waiting' = waiting,
           calls' \in {calls, calls + 1}, KeptBack(s) => KeptBack(u)
    PROVE  SInv'
  BY AsideKeeps, AsideOrderly

LEMMA NativeAside ==
    ASSUME NEW t, NEW u, NativeStep(t, u)
    PROVE  Aside(t, u) /\ (KeptBack(t) => KeptBack(u))
  BY DEF NativeStep, SameExchange, SameCandidates, Aside, KeptBack

LEMMA CallAddExchangedCandidateStep == ASSUME SInv, CallAddExchangedCandidate PROVE SInv'
  <1> DEFINE u == AddExchangedCandidate(s)
  <1>1. s' = u /\ calls' = calls + 1 /\ UNCHANGED <<tasks, waiting>>
    BY DEF CallAddExchangedCandidate, Immediately
  <1>2. s \in States
    BY DEF SInv, Sound, Typed
  <1>3. NativeStep(s, u)
    BY <1>2, AddExchangedCandidateKeeps
  <1> HIDE DEF u
  <1> QED
    BY <1>1, <1>3, NativeAside, AsideStep

LEMMA RestartIceStep == ASSUME SInv, RestartIce PROVE SInv'
  <1> DEFINE u == [s EXCEPT !.restart = TRUE]
  <1>1. s' = u /\ calls' = calls + 1 /\ UNCHANGED <<tasks, waiting>>
    BY DEF RestartIce, Immediately
  <1>2. s \in States
    BY DEF SInv, Sound, Typed
  <1>3. u \in States
    BY <1>2, StateFlags
  <1>4. /\ Aside(s, u) /\ u.queued = s.queued /\ u.paired = s.paired
    BY <1>2, <1>3 DEF Aside, States
  <1> HIDE DEF u
  <1>5. KeptBack(s) => KeptBack(u)
    BY <1>4 DEF KeptBack, Aside
  <1> QED
    BY <1>1, <1>4, <1>5, AsideStep

LEMMA CreateDataChannelStep == ASSUME SInv, CreateDataChannel PROVE SInv'
  <1> DEFINE e == EnsureNative(s)
             u == [e EXCEPT !.channels = TRUE]
  <1>1. s' = u /\ calls' = calls + 1 /\ UNCHANGED <<tasks, waiting>>
    BY DEF CreateDataChannel, Immediately
  <1>2. s \in States
    BY DEF SInv, Sound, Typed
  <1>3. NativeStep(s, e)
    BY <1>2, EnsureNativeStep
  <1>4. Aside(s, e) /\ (KeptBack(s) => KeptBack(e)) /\ e \in States
    BY <1>3, NativeAside DEF NativeStep
  <1> HIDE DEF e
  <1>5. u \in States
    BY <1>4, StateFlags
  <1>6. Aside(e, u) /\ u.queued = e.queued /\ u.paired = e.paired
    BY <1>4, <1>5 DEF Aside, States
  <1> HIDE DEF u
  <1>7. Aside(s, u)
    BY <1>4, <1>6 DEF Aside
  <1>8. KeptBack(s) => KeptBack(u)
    BY <1>4, <1>6 DEF KeptBack, Aside
  <1> QED
    BY <1>1, <1>7, <1>8, AsideStep

LEMMA CloseStep == ASSUME SInv, Close PROVE SInv'
  <1> DEFINE u == s'
             h == IF s.native = "live" THEN "handed" ELSE s.native
             q == <<>>
  <1>1. s' = [s EXCEPT !.closed = TRUE, !.sig = "closed", !.dispatched = "closed",
                       !.native = h, !.paired = "none", !.events = q]
    BY Zenon DEF Close, Immediately
  <1>2. s' = u /\ calls' = calls + 1 /\ UNCHANGED <<tasks, waiting>>
    BY DEF Close, Immediately
  <1>3. s \in States /\ Created(s) /\ s.native \in NativeHandles
    BY StateFields DEF SInv, Sound, Typed
  <1>4. /\ "closed" \in SignalingStates /\ "closed" \in SigNames /\ "none" \in PairedStates
        /\ q \in Queues
    BY DEF SignalingStates, SigNames, PairedStates, Queues
  <1>5. h \in NativeHandles
    BY <1>3 DEF NativeHandles
  <1> HIDE DEF h, q
  <1>6. u \in States
    BY <1>1, <1>3, <1>4, <1>5 DEF States
  <1>7. /\ u.closed = TRUE /\ u.sig = "closed" /\ u.ops = s.ops
        /\ u.lastOffer = s.lastOffer /\ u.lastAnswer = s.lastAnswer
    BY <1>1, <1>3 DEF States
  <1> HIDE DEF u
  <1>8. Created(u) /\ Phase(u) /\ KeptBack(u)
    BY <1>3, <1>7 DEF Created, Phase, KeptBack
  <1> QED
    BY <1>2, <1>6, <1>7, <1>8, AsideOrderly

LEMMA EventsKeep ==
    ASSUME NEW t \in States, NEW q \in Queues
    PROVE  Refreshed(t, [t EXCEPT !.events = q])
  <1> DEFINE u == [t EXCEPT !.events = q]
  <1>1. u \in States
    BY StateValues
  <1>2. /\ u.closed = t.closed /\ u.ops = t.ops /\ u.jsOffer = t.jsOffer
        /\ u.lastOffer = t.lastOffer /\ u.lastAnswer = t.lastAnswer
        /\ u.queued = t.queued /\ u.paired = t.paired
        /\ u.r = t.r /\ u.cr = t.cr /\ u.pr = t.pr /\ u.pl = t.pl /\ u.sig = t.sig
    BY DEF States
  <1> HIDE DEF u
  <1>3. Refreshed(t, u)
    BY <1>1, <1>2 DEF Refreshed, Basic, SameCandidates, SameRemote
  <1> QED
    BY <1>3 DEF u

LEMMA RefreshedTwice ==
    ASSUME NEW t, NEW u, NEW v, Refreshed(t, u), Refreshed(u, v), v.sig = u.sig
    PROVE  Refreshed(t, v)
  BY DEF Refreshed, Basic, SameCandidates, SameRemote

\* A native event that is not ignored says what the descriptions say.
LEMMA HandleSignalingStateKeeps ==
    ASSUME NEW t \in States, NEW state \in SigNames
    PROVE  Refreshed(t, HandleSignalingState(t, state))
  <1> DEFINE u == HandleSignalingState(t, state)
  <1>1. Refreshed(t, t)
    BY DEF Refreshed, Basic, SameCandidates, SameRemote
  <1>2. ASSUME NEW x \in SignalingStates, x = Synced(t), NEW v, Entered(t, v, x)
        PROVE  Refreshed(t, v)
    BY <1>2, BasicSteps
       DEF Entered, Refreshed, Firm, SameLocal, Synced
  <1>3. CASE t.jsOffer
    BY <1>3, SigKeeps, StateNames, <1>2 DEF HandleSignalingState, Synced
  <1>4. CASE ~t.jsOffer /\ t.suppress = state
    <2> DEFINE v == [t EXCEPT !.suppress = "none"]
    <2>1. u = v
      BY <1>4 DEF HandleSignalingState
    <2>2. v \in States
      BY StateValues, StatesNamed
    <2>3. /\ v.closed = t.closed /\ v.ops = t.ops /\ v.jsOffer = t.jsOffer
          /\ v.lastOffer = t.lastOffer /\ v.lastAnswer = t.lastAnswer
          /\ v.queued = t.queued /\ v.paired = t.paired
          /\ v.r = t.r /\ v.cr = t.cr /\ v.pr = t.pr /\ v.pl = t.pl /\ v.sig = t.sig
      BY DEF States
    <2> HIDE DEF u, v
    <2>4. Refreshed(t, v)
      BY <2>2, <2>3 DEF Refreshed, Basic, SameCandidates, SameRemote
    <2> QED
      BY <2>1, <2>4 DEF u
  <1>5. CASE ~t.jsOffer /\ t.suppress # state /\ state # DescriptionSignalingState(t)
    BY <1>5, <1>1 DEF HandleSignalingState
  <1>6. CASE ~t.jsOffer /\ t.suppress # state /\ state = DescriptionSignalingState(t)
    <2> DEFINE v == [t EXCEPT !.sig = state]
    <2>1. u = Dispatch(v)
      BY <1>6 DEF HandleSignalingState
    <2>2. state \in SignalingStates
      BY <1>6, StateNames DEF DescriptionSignalingState, SignalingStates
    <2>3. Entered(t, v, state)
      BY <2>2, SigKeeps
    <2> HIDE DEF u, v
    <2>4. v \in States /\ v.sig = state
      BY <2>3, EnteredSteps
    <2>5. Entered(v, u, v.sig)
      BY <2>1, <2>4, EnterStateKeeps
    <2>6. Refreshed(t, v)
      BY <1>2, <1>6, <2>2, <2>3 DEF Synced
    <2>7. /\ Basic(v, u) /\ SameCandidates(v, u) /\ SameRemote(v, u) /\ u.pl = v.pl
          /\ u.sig = v.sig
      BY <2>5, BasicSteps DEF Entered, Firm, SameLocal
    <2>8. Refreshed(v, u)
      BY <2>7 DEF Refreshed
    <2> QED
      BY <2>6, <2>7, <2>8, RefreshedTwice DEF u
  <1> QED
    BY <1>3, <1>4, <1>5, <1>6

LEMMA RefreshedStep ==
    ASSUME SInv, NEW u, Refreshed(s, u), s' = u, tasks' = tasks, waiting' = waiting,
           calls' = calls
    PROVE  SInv'
  BY RefreshedPhase, BasicValid, AsideOrderly
  DEF Refreshed, SameRemote, Basic, Calm, SInv, Sound, Valid

LEMMA HandleNativeEventStep == ASSUME SInv, HandleNativeEvent PROVE SInv'
  <1> DEFINE event == Head(s.events)
             t == IF event.type = "localdescription"
                  THEN RefreshCurrentOrPendingLocal(s, event.desc)
                  ELSE HandleSignalingState(s, event.state)
             q == Tail(t.events)
             u == [t EXCEPT !.events = q]
  <1>1. s.events # <<>> /\ s' = u /\ UNCHANGED <<tasks, waiting, calls>>
    BY Zenon DEF HandleNativeEvent, Handle
  <1>2. s \in States
    BY DEF SInv, Sound, Typed
  <1>3. s.events \in Seq(Events)
    BY <1>2, StateFields DEF Queues
  <1>4. event \in Events
    BY <1>1, <1>3
  <1> HIDE DEF event
  <1>5. event.desc \in Descriptions /\ event.state \in SigNames
    BY <1>4 DEF Events
  <1>6. Refreshed(s, t) /\ t.events = s.events
    <2>1. CASE event.type = "localdescription"
      BY <2>1, <1>2, <1>5, RefreshCurrentOrPendingKeeps, KeptSteps
      DEF Refreshed, Kept, Firm, SameNative
    <2>2. CASE event.type # "localdescription"
      <3>1. t = HandleSignalingState(s, event.state)
        BY <2>2
      <3>2. t.events = s.events
        <4>1. \A x \in SignalingStates : [s EXCEPT !.sig = x].events = s.events
          BY <1>2 DEF States
        <4>2. [s EXCEPT !.suppress = "none"].events = s.events
          BY <1>2 DEF States
        <4>3. ASSUME NEW x \in SignalingStates
              PROVE  Dispatch([s EXCEPT !.sig = x]).events = s.events
          <5> DEFINE v == [s EXCEPT !.sig = x]
          <5>1. v \in States /\ v.events = s.events
            BY <1>2, <4>1, StateValues
          <5> HIDE DEF v
          <5>2. Entered(v, Dispatch(v), v.sig)
            BY <5>1, EnterStateKeeps
          <5>3. Dispatch(v).events = v.events
            BY <5>2 DEF Entered, Firm, SameNative
          <5> QED
            BY <5>1, <5>3 DEF v
        <4>4. DescriptionSignalingState(s) \in SignalingStates /\ HLO \in SignalingStates
          BY StateNames DEF DescriptionSignalingState, SignalingStates
        <4> QED
          BY <3>1, <4>1, <4>2, <4>3, <4>4 DEF HandleSignalingState
      <3> QED
        BY <1>2, <1>5, <3>1, <3>2, HandleSignalingStateKeeps
    <2> QED
      BY <2>1, <2>2
  <1> HIDE DEF t
  <1>7. q \in Queues
    BY <1>1, <1>3, <1>6, HeadTailProperties DEF Queues
  <1> HIDE DEF q
  <1>8. t \in States
    BY <1>6 DEF Refreshed, Basic
  <1>9. Refreshed(t, u)
    BY <1>7, <1>8, EventsKeep
  <1>10. u.sig = t.sig
    BY <1>8 DEF States
  <1> HIDE DEF u
  <1>11. Refreshed(s, u)
    BY <1>6, <1>9, <1>10, RefreshedTwice
  <1> QED
    BY <1>1, <1>11, RefreshedStep

LEMMA RefreshTimerStep == ASSUME SInv, RefreshTimer PROVE SInv'
  <1> DEFINE t == [s EXCEPT !.refresh = FALSE]
             u == RefreshFromNative(t)
  <1>1. s' = u /\ UNCHANGED <<tasks, waiting, calls>>
    BY DEF RefreshTimer, Passes
  <1>2. s \in States
    BY DEF SInv, Sound, Typed
  <1>3. t \in States
    BY <1>2, StateFlags
  <1>4. /\ t.closed = s.closed /\ t.ops = s.ops /\ t.jsOffer = s.jsOffer
        /\ t.lastOffer = s.lastOffer /\ t.lastAnswer = s.lastAnswer
        /\ t.queued = s.queued /\ t.paired = s.paired
        /\ t.r = s.r /\ t.cr = s.cr /\ t.pr = s.pr /\ t.pl = s.pl /\ t.sig = s.sig
    BY <1>2 DEF States
  <1> HIDE DEF t
  <1>5. Refreshed(t, u)
    BY <1>3, RefreshFromNativeKeeps
  <1> HIDE DEF u
  <1>6. Refreshed(s, u)
    BY <1>4, <1>5 DEF Refreshed, Basic, SameCandidates, SameRemote, DescriptionSignalingState
  <1> QED
    BY <1>1, <1>6, RefreshedStep

LEMMA PairedStep == ASSUME SInv, PairedSettles \/ PairedLeaves PROVE SInv'
  <1>1. s \in States
    BY DEF SInv, Sound, Typed
  <1>2. ASSUME NEW x \in {"idle", "left"}
        PROVE  LET t == [s EXCEPT !.paired = x]
               IN  Aside(s, t) /\ t \in States /\ t.paired = x
    <2> DEFINE t == [s EXCEPT !.paired = x]
    <2>1. t \in States
      BY <1>1, StateValues DEF PairedStates
    <2>2. Aside(s, t) /\ t.paired = x
      BY <1>1, <2>1 DEF Aside, States
    <2> QED
      BY <2>1, <2>2
  <1>3. CASE PairedSettles
    <2> DEFINE t == [s EXCEPT !.paired = "idle"]
               u == FlushCandidates(t)
    <2>1. s' = u /\ UNCHANGED <<tasks, waiting, calls>>
      BY <1>3 DEF PairedSettles, Passes
    <2>2. Aside(s, t) /\ t \in States
      BY <1>2
    <2> HIDE DEF t
    <2>3. Flush(t, u) /\ Flushed(u)
      BY <2>2, FlushCandidatesKeeps
    <2> HIDE DEF u
    <2>4. Aside(s, u)
      BY <2>2, <2>3 DEF Aside, Flush, SameExchange
    <2>5. KeptBack(u)
      BY <2>3, FlushedKeptBack
    <2> QED
      BY <2>1, <2>4, <2>5, AsideStep
  <1>4. CASE PairedLeaves
    <2> DEFINE u == [s EXCEPT !.paired = "left"]
    <2>1. s' = u /\ UNCHANGED <<tasks, waiting, calls>>
      BY <1>4 DEF PairedLeaves, Passes
    <2>2. Aside(s, u) /\ u.paired = "left"
      BY <1>2
    <2> HIDE DEF u
    <2>3. KeptBack(u)
      BY <2>2 DEF KeptBack
    <2> QED
      BY <2>1, <2>2, <2>3, AsideStep
  <1> QED
    BY <1>3, <1>4

-----------------------------------------------------------------------------
\* The calls of the application

LEMMA TaskFields ==
    ASSUME NEW task \in TaskRecords
    PROVE  /\ \A d \in Descriptions : [task EXCEPT !.desc = d] \in TaskRecords
           /\ \A x \in {"none", "offer", "answer", "pranswer", "rollback"} :
                 [task EXCEPT !.type = x] \in TaskRecords
           /\ \A b \in BOOLEAN : /\ [task EXCEPT !.restart = b] \in TaskRecords
                                 /\ [task EXCEPT !.here = b] \in TaskRecords
                                 /\ [task EXCEPT !.valid = b] \in TaskRecords
           /\ \A at \in Stages : [task EXCEPT !.at = at] \in TaskRecords
           /\ \A n \in Nat : [task EXCEPT !.id = n] \in TaskRecords
  BY DEF TaskRecords

LEMMA NewTaskTyped ==
    ASSUME NEW op \in Operations
    PROVE  /\ NewTask(op) \in TaskRecords /\ NewTask(op).op = op
           /\ NewTask(op).at = "work" /\ NewTask(op).desc = NoDesc
           /\ NewTask(op).type = "none"
  BY DescriptionTypes DEF SigNames, Stages, NewTask, TaskRecords

LEMMA StartStep ==
    ASSUME SInv, NEW task \in TaskRecords, task.op # "ensure", task.at = "work",
           Shape(task), CanCall(task.op), Start(task),
           Chained /\ Cautious /\ Orderly => Upcoming(s, task)
    PROVE  SInv'
  <1> DEFINE n == [task EXCEPT !.id = calls]
             u == [s EXCEPT !.ops = s.ops + 1]
  <1>1. /\ s' = u /\ tasks' = Append(tasks, n) /\ calls' = calls + 1 /\ waiting' = waiting
    BY DEF Start
  <1>2. s \in States /\ Created(s) /\ calls \in Nat /\ s.ops \in Nat
    BY StateFields DEF SInv, Sound, Typed
  <1>3. n \in TaskRecords
    BY <1>2, TaskFields
  <1>4. /\ n.op = task.op /\ n.at = task.at /\ n.desc = task.desc /\ n.type = task.type
        /\ n.id = calls
    BY DEF TaskRecords
  <1> HIDE DEF n
  <1>5. n \in Tasks
    BY <1>3, <1>4 DEF Tasks, Shape
  <1>6. u \in States
    BY <1>2, StateValues
  <1>7. /\ u.ops = s.ops + 1 /\ u.closed = s.closed /\ u.jsOffer = s.jsOffer
        /\ u.pl = s.pl /\ u.pr = s.pr /\ u.sig = s.sig
        /\ u.lastOffer = s.lastOffer /\ u.lastAnswer = s.lastAnswer
    BY <1>2 DEF States
  <1> HIDE DEF u
  <1>8. Created(u) /\ Calm(s, u) /\ (Phase(s) => Phase(u)) /\ KeptBack(u)
    BY <1>2, <1>7 DEF Created, Calm, Phase, KeptBack
  <1>9. u.ops = s.ops + (IF Counts(n) THEN 1 ELSE 0)
    BY <1>4, <1>7 DEF Counts
  <1>10. Chained /\ n.op \in DescriptionOps => ~InProgress(DescriptionOps)
    BY <1>4 DEF CanCall
  <1>11. Upcoming(s, task) => Upcoming(s, n)
    BY <1>4 DEF Upcoming
  <1> QED
    BY <1>1, <1>4, <1>5, <1>6, <1>8, <1>9, <1>10, <1>11, JoinOrderly

LEMMA CallCreateStep == SInv /\ (CallCreateOffer \/ CallCreateAnswer) => SInv'
  <1>1. ASSUME SInv, CallCreateOffer
        PROVE  SInv'
    <2>1. CanCall("createOffer")
      BY <1>1 DEF CallCreateOffer
    <2>2. PICK restart \in BOOLEAN :
              Start([NewTask("createOffer") EXCEPT !.restart = restart])
      BY <1>1 DEF CallCreateOffer
    <2> DEFINE a == NewTask("createOffer")
               b == [a EXCEPT !.restart = restart]
    <2>3. a \in TaskRecords /\ a.op = "createOffer" /\ a.at = "work"
      BY NewTaskTyped DEF Operations, DescriptionOps
    <2> HIDE DEF a
    <2>4. b \in TaskRecords
      BY <2>3, TaskFields
    <2>5. b.op = "createOffer" /\ b.at = "work"
      BY <2>3 DEF TaskRecords
    <2>6. Start(b)
      BY <2>2 DEF a
    <2> HIDE DEF b
    <2>7. Shape(b) /\ Upcoming(s, b)
      BY <2>5 DEF Shape, Upcoming, SetOps
    <2> QED
      BY <1>1, <2>1, <2>4, <2>5, <2>6, <2>7, StartStep
  <1>2. ASSUME SInv, CallCreateAnswer
        PROVE  SInv'
    <2> DEFINE a == NewTask("createAnswer")
    <2>1. CanCall("createAnswer") /\ Start(a)
      BY <1>2 DEF CallCreateAnswer
    <2>2. a \in TaskRecords /\ a.op = "createAnswer" /\ a.at = "work"
      BY NewTaskTyped DEF Operations, DescriptionOps
    <2> HIDE DEF a
    <2>3. Shape(a) /\ Upcoming(s, a)
      BY <2>2 DEF Shape, Upcoming, SetOps
    <2> QED
      BY <1>2, <2>1, <2>2, <2>3, StartStep
  <1> QED
    BY <1>1, <1>2

LEMMA MayRollbackFacts ==
    ASSUME Cautious, MayRollback, s.jsOffer \in BOOLEAN
    PROVE  NoPranswer(s)
  BY DEF MayRollback, Pranswers, NoPranswer

Fresh(n, op, d, type) ==
    n \in TaskRecords /\ n.op = op /\ n.at = "work" /\ n.desc = d /\ n.type = type

LEMMA SetTaskTyped ==
    ASSUME NEW op \in SetOps, NEW d \in Descriptions,
           NEW type \in {"none", "offer", "answer", "pranswer", "rollback"}
    PROVE  Fresh([NewTask(op) EXCEPT !.desc = d, !.type = type], op, d, type)
  <1> DEFINE a == NewTask(op)
             b == [a EXCEPT !.desc = d]
             c == [b EXCEPT !.type = type]
  <1>1. a \in TaskRecords /\ a.op = op /\ a.at = "work"
    BY NewTaskTyped DEF Operations, DescriptionOps, SetOps
  <1>2. [NewTask(op) EXCEPT !.desc = d, !.type = type] = c
    BY Zenon
  <1> HIDE DEF a
  <1>4. b \in TaskRecords
    BY <1>1, TaskFields
  <1>5. b.op = op /\ b.at = "work" /\ b.desc = d
    BY <1>1 DEF TaskRecords
  <1> HIDE DEF b
  <1>6. c \in TaskRecords
    BY <1>4, TaskFields
  <1>7. c.op = op /\ c.at = "work" /\ c.desc = d /\ c.type = type
    BY <1>4, <1>5 DEF TaskRecords
  <1> HIDE DEF c
  <1> QED
    BY <1>2, <1>6, <1>7 DEF Fresh

LEMMA RemoteTaskTyped ==
    ASSUME NEW d \in Descriptions,
           NEW type \in {"none", "offer", "answer", "pranswer", "rollback"},
           NEW here \in BOOLEAN, NEW valid \in BOOLEAN
    PROVE  Fresh([NewTask("setRemote") EXCEPT !.desc = d, !.type = type,
                                              !.here = here, !.valid = valid],
                 "setRemote", d, type)
  <1> DEFINE op == "setRemote"
             c == [NewTask(op) EXCEPT !.desc = d, !.type = type]
             e == [c EXCEPT !.here = here]
             f == [e EXCEPT !.valid = valid]
  <1>1. op \in SetOps
    BY DEF SetOps
  <1>2. [NewTask("setRemote") EXCEPT !.desc = d, !.type = type,
                                     !.here = here, !.valid = valid] = f
    BY Zenon
  <1>3. c \in TaskRecords /\ c.op = op /\ c.at = "work" /\ c.desc = d /\ c.type = type
    <2>1. Fresh(c, op, d, type)
      BY <1>1, SetTaskTyped, Zenon
    <2> HIDE DEF c
    <2> QED
      BY <2>1 DEF Fresh
  <1> HIDE DEF c
  <1>4. e \in TaskRecords
    BY <1>3, TaskFields
  <1>5. e.op = op /\ e.at = "work" /\ e.desc = d /\ e.type = type
    BY <1>3 DEF TaskRecords
  <1> HIDE DEF e
  <1>6. f \in TaskRecords
    BY <1>4, TaskFields
  <1>7. f.op = op /\ f.at = "work" /\ f.desc = d /\ f.type = type
    BY <1>4, <1>5 DEF TaskRecords
  <1> HIDE DEF f
  <1> QED
    BY <1>2, <1>6, <1>7 DEF Fresh

LEMMA CallSetLocalStep == ASSUME SInv, CallSetLocal PROVE SInv'
  <1>1. CanCall("setLocal")
    BY DEF CallSetLocal
  <1>2. s \in States /\ Created(s) /\ s.jsOffer \in BOOLEAN
    BY StateFields DEF SInv, Sound, Typed
  <1>3. PICK d \in {NoDesc, Rollback, Plain(s.lastOffer), s.lastAnswer,
                    IF s.lastAnswer = NoDesc THEN NoDesc
                    ELSE [s.lastAnswer EXCEPT !.type = "pranswer"]} :
            /\ d = Rollback => MayRollback
            /\ d = NoDesc => MayGuess
            /\ MayOffer(d)
            /\ Start([NewTask("setLocal") EXCEPT
                         !.desc = d,
                         !.type = IF d = NoDesc THEN ImplicitType(s) ELSE d.type])
    BY DEF CallSetLocal
  <1> DEFINE type == IF d = NoDesc THEN ImplicitType(s) ELSE d.type
             n == [NewTask("setLocal") EXCEPT !.desc = d, !.type = type]
  <1>4. /\ d \in Descriptions
        /\ d = NoDesc \/ d.type # "none"
        /\ d.type = "rollback" => d = Rollback
    <2>1. s.lastOffer \in Descriptions /\ s.lastAnswer \in Descriptions
      BY <1>2, StateFields
    <2>2. /\ Plain(s.lastOffer) \in Descriptions /\ Plain(s.lastOffer).type = s.lastOffer.type
          /\ [s.lastAnswer EXCEPT !.type = "pranswer"] \in Descriptions
          /\ [s.lastAnswer EXCEPT !.type = "pranswer"].type = "pranswer"
      BY <2>1, DescriptionOperators
    <2>3. Plain(NoDesc) = NoDesc
      BY DescriptionTypes DEF Descriptions, NoDesc, Plain
    <2>4. d \in Descriptions
      BY <1>3, <2>1, LocalArguments, Zenon
    <2>5. d = NoDesc \/ (d.type # "none" /\ (d.type = "rollback" => d = Rollback))
      BY <1>2, <1>3, <2>2, <2>3, DescriptionTypes DEF Created
    <2> QED
      BY <2>4, <2>5, DescriptionTypes
  <1>5. type \in {"none", "offer", "answer", "pranswer", "rollback"}
    BY <1>4 DEF ImplicitType, Descriptions
  <1>6. d = NoDesc => type = ImplicitType(s) /\ type \in {"offer", "answer"}
    BY DEF ImplicitType
  <1>7. d # NoDesc => type = d.type
    OBVIOUS
  <1>8. Start(n)
    BY <1>3
  <1> HIDE DEF type
  <1>9. /\ n \in TaskRecords /\ n.op = "setLocal" /\ n.at = "work" /\ n.desc = d
        /\ n.type = type
    <2>1. "setLocal" \in SetOps
      BY DEF SetOps
    <2>2. Fresh(n, "setLocal", d, type)
      BY <1>4, <1>5, <2>1, SetTaskTyped, Zenon
    <2> HIDE DEF n
    <2> QED
      BY <2>2 DEF Fresh
  <1> HIDE DEF n
  <1>10. Shape(n)
    BY <1>6, <1>7, <1>9 DEF Shape
  <1>11. ASSUME Chained, Cautious, Orderly
         PROVE  Upcoming(s, n)
    <2>1. ASSUME type = "rollback"
          PROVE  NoPranswer(s)
      BY <1>2, <1>3, <1>4, <1>6, <1>7, <1>11, <2>1, MayRollbackFacts
    <2>2. ASSUME d = NoDesc, type = "offer"
          PROVE  s.pr.type # "offer"
      <3>1. ~s.closed /\ Phase(s)
        BY <1>1, <1>11 DEF CanCall, Orderly
      <3>2. s.sig \notin {HRO, HLP}
        BY <1>3, <1>6, <1>11, <2>2 DEF MayGuess, ImplicitType
      <3> QED
        BY <3>1, <3>2 DEF Phase, Exchanges, HRO, HLP, HLO, HRP
    <2> QED
      BY <1>9, <2>1, <2>2 DEF Upcoming
  <1> QED
    BY <1>1, <1>8, <1>9, <1>10, <1>11, StartStep

LEMMA CallSetRemoteStep == ASSUME SInv, CallSetRemote PROVE SInv'
  <1>1. CanCall("setRemote")
    BY DEF CallSetRemote
  <1>2. s \in States /\ s.jsOffer \in BOOLEAN
    BY StateFields DEF SInv, Sound, Typed
  <1>3. PICK d \in {r \in Remotes : Proper(r)} \cup {Rollback}, here \in BOOLEAN,
              valid \in BOOLEAN :
            /\ d.type \in {"offer", "rollback"} => MayRollback
            /\ Start([NewTask("setRemote") EXCEPT
                         !.desc = d, !.type = d.type, !.here = here, !.valid = valid])
    BY Zenon DEF CallSetRemote
  <1> DEFINE type == d.type
             n == [NewTask("setRemote") EXCEPT
                      !.desc = d, !.type = type, !.here = here, !.valid = valid]
  <1>4. /\ d \in Descriptions /\ d # NoDesc
        /\ type \in {"none", "offer", "answer", "pranswer", "rollback"}
    BY <1>3, SignalingAssumption, DescriptionTypes DEF Descriptions
  <1>5. Start(n)
    BY <1>3
  <1>6. type \in {"offer", "rollback"} => MayRollback
    BY <1>3
  <1>7. type = d.type
    OBVIOUS
  <1> HIDE DEF type
  <1>8. /\ n \in TaskRecords /\ n.op = "setRemote" /\ n.at = "work" /\ n.desc = d
        /\ n.type = type
    <2>1. Fresh(n, "setRemote", d, type)
      BY <1>4, RemoteTaskTyped, Zenon
    <2> HIDE DEF n
    <2> QED
      BY <2>1 DEF Fresh
  <1> HIDE DEF n
  <1>9. Shape(n)
    BY <1>4, <1>7, <1>8 DEF Shape
  <1>10. ASSUME Chained, Cautious, Orderly
         PROVE  Upcoming(s, n)
    BY <1>2, <1>6, <1>10, MayRollbackFacts, <1>8 DEF Upcoming
  <1> QED
    BY <1>1, <1>5, <1>8, <1>9, <1>10, StartStep

LEMMA CallAddIceCandidateStep == ASSUME SInv, CallAddIceCandidate PROVE SInv'
  <1> DEFINE a == NewTask("addIceCandidate")
             b == [a EXCEPT !.at = "early"]
  <1>1. CanCall("addIceCandidate")
    BY DEF CallAddIceCandidate
  <1>2. \/ Start(a)
        \/ /\ tasks' = Append(tasks, b) /\ calls' = calls + 1 /\ UNCHANGED <<s, waiting>>
    BY DEF CallAddIceCandidate
  <1>3. a \in TaskRecords /\ a.op = "addIceCandidate" /\ a.at = "work"
    BY NewTaskTyped DEF Operations
  <1> HIDE DEF a
  <1>4. b \in TaskRecords
    BY <1>3, TaskFields DEF Stages
  <1>5. b.op = "addIceCandidate" /\ b.at = "early"
    BY <1>3 DEF TaskRecords
  <1> HIDE DEF b
  <1>6. /\ Shape(a) /\ Upcoming(s, a) /\ b \in Tasks /\ Upcoming(s, b) /\ ~Counts(b)
    BY <1>3, <1>4, <1>5 DEF Shape, Upcoming, SetOps, Tasks, Counts
  <1>7. CASE Start(a)
    BY <1>1, <1>3, <1>6, <1>7, StartStep
  <1>8. CASE tasks' = Append(tasks, b) /\ calls' = calls + 1 /\ UNCHANGED <<s, waiting>>
    <2>1. s \in States /\ Created(s) /\ s.ops \in Nat
      BY StateFields DEF SInv, Sound, Typed
    <2>2. s.ops = s.ops + (IF Counts(b) THEN 1 ELSE 0)
      BY <1>6, <2>1
    <2>3. Calm(s, s) /\ b.op \notin DescriptionOps /\ b.op # "setRemote"
      BY <1>5 DEF Calm, DescriptionOps, SetOps
    <2> QED
      BY <1>6, <1>8, <2>1, <2>2, <2>3, JoinOrderly
  <1> QED
    BY <1>2, <1>7, <1>8

-----------------------------------------------------------------------------
\* _ensureLocalAnswerApplied, and the candidates of the other peer

LEMMA EnsureTaskStep ==
    ASSUME SInv, NEW t, Basic(s, t), Phase(t), t.pl = NoDesc, t.pr = NoDesc,
           NEW at \in {"done", "refresh"}, EnsureTask(t, at)
    PROVE  SInv'
  <1> DEFINE u == [t EXCEPT !.paired = "busy"]
             a == NewTask("ensure")
             n == [a EXCEPT !.at = at]
  <1>1. s' = u /\ tasks' = Append(tasks, n) /\ calls' = calls + 1 /\ waiting' = waiting
    BY DEF EnsureTask
  <1>2. t \in States /\ Created(s) /\ s.ops \in Nat
    BY StateFields DEF Basic, SInv, Sound, Typed
  <1>3. u \in States
    BY <1>2, StateValues DEF PairedStates
  <1>4. /\ u.ops = t.ops /\ u.closed = t.closed /\ u.jsOffer = t.jsOffer /\ u.sig = t.sig
        /\ u.lastOffer = t.lastOffer /\ u.lastAnswer = t.lastAnswer
        /\ u.pl = t.pl /\ u.pr = t.pr /\ u.paired = "busy"
    BY <1>2 DEF States
  <1> HIDE DEF u
  <1>5. a \in TaskRecords /\ a.op = "ensure"
    BY NewTaskTyped DEF Operations
  <1> HIDE DEF a
  <1>6. n \in TaskRecords
    BY <1>5, TaskFields DEF Stages
  <1>7. n.op = "ensure" /\ n.at = at
    BY <1>5 DEF TaskRecords
  <1> HIDE DEF n
  <1>8. n \in Tasks /\ ~Counts(n) /\ Upcoming(s, n) /\ n.op # "setRemote"
        /\ n.op \notin DescriptionOps
    BY <1>6, <1>7 DEF Tasks, Shape, Counts, Upcoming, SetOps, DescriptionOps
  <1>9. Created(u) /\ Phase(u) /\ KeptBack(u)
    BY <1>2, <1>4 DEF Basic, Created, Phase, KeptBack
  <1>10. Calm(s, u)
    BY <1>4, DescriptionTypes DEF Basic, Calm
  <1>11. u.ops = s.ops + (IF Counts(n) THEN 1 ELSE 0)
    BY <1>2, <1>4, <1>8 DEF Basic
  <1> QED
    BY <1>1, <1>3, <1>8, <1>9, <1>10, <1>11, JoinOrderly

LEMMA EnsureStep == ASSUME SInv, EnsureLocalAnswerApplied PROVE SInv'
  <1> DEFINE r == ApplyRestartAnswer(s, s.lastAnswer)
             n == NativeSetLocal(s, "answer")
             c == AddPendingCandidates(SyncSignalingState(CommitAnswer(n, n.nl)))
             e == EnsureNative(s)
  <1>1. \/ EnsureTask(r, "done")
        \/ EnsureTask(c, "refresh")
        \/ s' = e /\ calls' = calls + 1 /\ UNCHANGED <<tasks, waiting>>
    BY DEF EnsureLocalAnswerApplied
  <1>2. s \in States
    BY DEF SInv, Sound, Typed
  <1>3. CASE EnsureTask(r, "done")
    <2>1. s.lastAnswer \in Descriptions
      BY <1>2, StateFields
    <2>2. Basic(s, r) /\ r.pl = NoDesc /\ r.pr = NoDesc /\ r.sig = "stable"
      BY <1>2, <2>1, ApplyRestartAnswerKeeps
    <2> HIDE DEF r
    <2>3. r.jsOffer \in BOOLEAN
      BY <2>2, StateFields DEF Basic
    <2>4. Phase(r)
      BY <2>2, <2>3, PhaseSettled, DescriptionTypes
    <2> QED
      BY <1>3, <2>2, <2>4, EnsureTaskStep
  <1>4. CASE EnsureTask(c, "refresh")
    <2>1. NativeStep(s, n) /\ n.nl = Local("answer", TRUE)
      BY <1>2, NativeSetLocalKeeps
    <2>2. n.nl \in Descriptions /\ Basic(s, n) /\ n \in States
      BY <2>1, BasicSteps, DescriptionTypes DEF Basic
    <2> HIDE DEF n
    <2>3. Basic(n, c) /\ Phase(c) /\ c.pl = NoDesc /\ c.pr = NoDesc
      BY <2>2, CommitAnswerSettles
    <2> HIDE DEF c
    <2>4. Basic(s, c)
      BY <2>2, <2>3, BasicTwice
    <2> QED
      BY <1>4, <2>3, <2>4, EnsureTaskStep
  <1>5. CASE s' = e /\ calls' = calls + 1 /\ UNCHANGED <<tasks, waiting>>
    <2>1. NativeStep(s, e)
      BY <1>2, EnsureNativeStep
    <2> HIDE DEF e
    <2> QED
      BY <1>5, <2>1, NativeAside, AsideStep
  <1> QED
    BY <1>1, <1>3, <1>4, <1>5

LEMMA EnsureFinishesStep == ASSUME SInv, EnsureFinishes PROVE SInv'
  <1>1. /\ Ready /\ Task.op = "ensure" /\ tasks' = Tail(tasks) /\ UNCHANGED <<waiting, calls>>
        /\ s' = s \/ \E complete \in BOOLEAN : s' = RefreshAfterGatheringWindow(s, complete)
    BY DEF EnsureFinishes, At, Task
  <1>2. s \in States
    BY DEF SInv, Sound, Typed
  <1>3. Refreshed(s, s')
    BY <1>2, <1>1, RefreshAfterGatheringWindowKeeps
    DEF Refreshed, Basic, SameCandidates, SameRemote
  <1>4. Phase(s) => Phase(s') /\ (KeptBack(s) => KeptBack(s'))
    BY <1>3, RefreshedPhase
  <1>5. Basic(s, s') /\ Calm(s, s')
    BY <1>3 DEF Refreshed, SameRemote, Basic, Calm
  <1>6. Valid(s')
    BY <1>5, BasicValid DEF SInv, Sound
  <1>7. ~Counts(Task)
    BY <1>1 DEF Counts
  <1> DEFINE u == s'
  <1>8. /\ Valid(u) /\ Calm(s, u) /\ (Phase(s) => Phase(u)) /\ s' = u
        /\ (Phase(s) /\ KeptBack(s) => KeptBack(u))
    BY <1>4, <1>5, <1>6
  <1> HIDE DEF u
  <1> QED
    BY <1>1, <1>7, <1>8, DropOrderly

\* An early candidate joins the operations.
LEMMA AdmitOrderly ==
    ASSUME SInv, Ready, Task.op \notin DescriptionOps, ~Counts(Task),
           NEW u, u \in States, Created(u), u.ops = s.ops + 1, NEW task \in Tasks,
           Counts(task), task.op = Task.op, task.id = Task.id, AwaitAs(u, task),
           Calm(s, u), Phase(s) => Phase(u)
    PROVE  SInv'
  <1>1. Sound /\ (Chained /\ Cautious => Orderly)
    BY DEF SInv
  <1>2. s.ops \in Nat
    BY <1>1, TasksTyped
  <1>3. Sound'
    BY <1>2, <1>1, AwaitSound
  <1>4. /\ s' = u /\ tasks' = Append(Tail(tasks), task)
        /\ waiting' = waiting /\ calls' = calls
    BY DEF AwaitAs
  <1>5. ASSUME Orderly
        PROVE  Orderly'
    <2>1. \A i \in 1 .. Len(tasks') :
              \/ i + 1 \in 1 .. Len(tasks) /\ i + 1 # 1 /\ tasks'[i] = tasks[i + 1]
              \/ i = Len(tasks) /\ tasks'[i] = task
      BY <1>1, <1>4, Requeues
    <2>2. \A i : Describing(i)' => i \in 1 .. Len(tasks') /\ Describing(i + 1)
      BY <2>1 DEF Describing
    <2>3. Single'
      BY <1>4, <1>5, <2>2 DEF Orderly, Single
    <2>4. ASSUME ~u.closed, NEW i \in 1 .. Len(tasks')
          PROVE  Upcoming(u, tasks'[i])
      <3>1. CASE i + 1 \in 1 .. Len(tasks) /\ tasks'[i] = tasks[i + 1]
        BY <1>5, <2>4, <3>1, CalmUpcoming DEF Orderly, Prepared, Calm
      <3>2. CASE tasks'[i] = task
        BY <3>2, NothingUpcoming DEF DescriptionOps
      <3> QED
        BY <2>1, <3>1, <3>2
    <2>5. Prepared'
      BY <1>4, <2>4 DEF Prepared
    <2>6. KeptBack(u)
      BY <1>2 DEF KeptBack
    <2> QED
      BY <1>4, <1>5, <2>3, <2>5, <2>6 DEF Orderly
  <1> QED
    BY <1>1, <1>3, <1>5 DEF SInv

LEMMA AddIceCandidateEarlyStep == ASSUME SInv, AddIceCandidateEarly PROVE SInv'
  <1> DEFINE u == [s EXCEPT !.ops = s.ops + 1]
             n == [Task EXCEPT !.at = "work"]
  <1>1. /\ Ready /\ Task.op = "addIceCandidate" /\ Task.at = "early"
        /\ \/ tasks' = Tail(tasks) /\ UNCHANGED <<s, waiting, calls>>
           \/ AwaitAs(u, n)
    BY DEF AddIceCandidateEarly, At, Task, Await
  <1>2. s \in States /\ Created(s) /\ s.ops \in Nat
    BY StateFields DEF SInv, Sound, Typed
  <1>3. Task \in TaskRecords /\ ~Counts(Task)
    BY <1>1, TaskTyped DEF SInv, Sound, Tasks, Counts
  <1>4. Task.op \notin DescriptionOps
    BY <1>1 DEF DescriptionOps, SetOps
  <1>5. CASE tasks' = Tail(tasks) /\ UNCHANGED <<s, waiting, calls>>
    BY <1>2, <1>1, <1>3, <1>5, DropOrderly DEF Valid, Calm
  <1>6. CASE AwaitAs(u, n)
    <2>1. n \in TaskRecords
      BY <1>3, TaskFields DEF Stages
    <2>2. n.op = Task.op /\ n.id = Task.id /\ n.at = "work"
      BY <1>3 DEF TaskRecords
    <2> HIDE DEF n
    <2>3. n \in Tasks /\ Counts(n)
      BY <1>1, <2>1, <2>2 DEF Tasks, Shape, SetOps, Counts
    <2>4. u \in States
      BY <1>2, StateValues
    <2>5. /\ u.ops = s.ops + 1 /\ u.closed = s.closed /\ u.jsOffer = s.jsOffer
          /\ u.lastOffer = s.lastOffer /\ u.lastAnswer = s.lastAnswer
          /\ u.pl = s.pl /\ u.pr = s.pr /\ u.sig = s.sig
      BY <1>2 DEF States
    <2> HIDE DEF u
    <2>6. Created(u) /\ Calm(s, u) /\ (Phase(s) => Phase(u))
      BY <1>2, <2>5 DEF Created, Calm, Phase
    <2> QED
      BY <1>1, <1>3, <1>4, <1>6, <2>2, <2>3, <2>4, <2>5, <2>6, AdmitOrderly
  <1> QED
    BY <1>1, <1>5, <1>6

LEMMA AddIceCandidateStep == ASSUME SInv, AddIceCandidate PROVE SInv'
  <1> DEFINE q == [s EXCEPT !.queued = s.queued \cup {"added"}]
             e == EnsureNative(s)
  <1>1. /\ Ready /\ Task.op = "addIceCandidate" /\ Task.at = "work"
        /\ Settle(q) \/ Settle(e)
    BY DEF AddIceCandidate, At, Task
  <1>2. s \in States
    BY DEF SInv, Sound, Typed
  <1>3. Counts(Task)
    BY <1>1 DEF Counts
  <1>4. Aside(s, q)
    BY <1>2, StateFields, StateValues DEF Candidates, Aside, States
  <1>5. Aside(s, e)
    BY <1>2, EnsureNativeStep, NativeAside
  <1> HIDE DEF q, e
  <1>6. Proceeds(q) /\ Calm(s, q) /\ Proceeds(e) /\ Calm(s, e)
    BY <1>4, <1>5, AsideKeeps
  <1> QED
    BY <1>1, <1>3, <1>6, SettleOrderly

-----------------------------------------------------------------------------
\* The invariant

LEMMA InitSInv == Init => SInv
  <1> SUFFICES ASSUME Init PROVE SInv
    OBVIOUS
  <1>1. PICK cl \in {NoDesc, Local("offer", TRUE), Local("answer", TRUE)},
              cr \in {NoDesc, Remote("answer", TRUE, 2), Remote("offer", TRUE, 2)} :
              s = InitState(cl, cr)
    <2>1. PICK ends \in {<<NoDesc, NoDesc>>,
                         <<Local("offer", TRUE), Remote("answer", TRUE, 2)>>,
                         <<Local("answer", TRUE), Remote("offer", TRUE, 2)>>} :
              s = InitState(ends[1], ends[2])
      BY Zenon DEF Init
    <2>2. \/ ends[1] = NoDesc /\ ends[2] = NoDesc
          \/ ends[1] = Local("offer", TRUE) /\ ends[2] = Remote("answer", TRUE, 2)
          \/ ends[1] = Local("answer", TRUE) /\ ends[2] = Remote("offer", TRUE, 2)
      <3> DEFINE lo == Local("offer", TRUE)
                 la == Local("answer", TRUE)
                 ra == Remote("answer", TRUE, 2)
                 ro == Remote("offer", TRUE, 2)
      <3>1. ends \in {<<NoDesc, NoDesc>>, <<lo, ra>>, <<la, ro>>}
        BY <2>1
      <3> HIDE DEF lo, la, ra, ro
      <3>2. \/ ends[1] = NoDesc /\ ends[2] = NoDesc
            \/ ends[1] = lo /\ ends[2] = ra
            \/ ends[1] = la /\ ends[2] = ro
        BY <3>1
      <3> QED
        BY <3>2 DEF lo, la, ra, ro
    <2> QED
      BY <2>1, <2>2, Zenon
  <1>2. tasks = <<>> /\ waiting = {} /\ calls = 0
    BY DEF Init
  <1>3. cl \in Descriptions /\ cl.data \in BOOLEAN
    <2>1. TRUE \in BOOLEAN
      OBVIOUS
    <2>2. Local("offer", TRUE) \in Descriptions /\ Local("answer", TRUE) \in Descriptions
      BY <2>1, DescriptionTypes
    <2>3. cl \in Descriptions
      BY <2>2, DescriptionTypes
    <2> QED
      BY <2>3 DEF Descriptions
  <1>4. cr \in Descriptions
    <2>1. ASSUME NEW type \in {"offer", "answer"}
          PROVE  Remote(type, TRUE, 2) \in Descriptions
      <3> DEFINE a == [NoDesc EXCEPT !.type = type]
                 b == [a EXCEPT !.data = TRUE]
                 c == [b EXCEPT !.cred = 2]
      <3>1. Remote(type, TRUE, 2) = c
        BY Zenon DEF Remote
      <3>2. a \in Descriptions
        BY DescriptionTypes DEF Descriptions
      <3> HIDE DEF a
      <3>3. b \in Descriptions
        BY <3>2 DEF Descriptions
      <3> HIDE DEF b
      <3>4. c \in Descriptions
        BY <3>3 DEF Descriptions
      <3> QED
        BY <3>1, <3>4
    <2> QED
      BY <2>1, DescriptionTypes
  <1>5. NoDesc \in Descriptions /\ NoDesc.type = "none"
    BY DescriptionTypes
  <1>6. s \in States
    <2>1. /\ "stable" \in SignalingStates /\ "none" \in SigNames /\ {} \in Candidates
          /\ "none" \in PairedStates /\ {"none", "live"} \subseteq NativeHandles
          /\ "stable" \in NativeStates /\ <<>> \in Queues
      BY DEF SignalingStates, SigNames, Candidates, PairedStates, NativeHandles, NativeStates,
             Queues
    <2>2. (IF cl = NoDesc THEN "none" ELSE "live") \in NativeHandles
      BY <2>1
    <2> QED
      BY <1>1, <1>3, <1>4, <1>5, <2>1, <2>2 DEF InitState, States
  <1>7. /\ s.closed = FALSE /\ s.sig = "stable" /\ s.pl = NoDesc /\ s.pr = NoDesc
        /\ s.lastOffer = NoDesc /\ s.lastAnswer = NoDesc /\ s.jsOffer = FALSE /\ s.ops = 0
        /\ s.queued = {}
    BY <1>1 DEF InitState
  <1>8. Typed
    BY <1>2, <1>6, <1>7 DEF Typed, Created
  <1>9. Counting
    BY <1>2, <1>7, CountedEmpty, FS_EmptySet DEF Counting
  <1>10. \A i : i \notin 1 .. Len(tasks)
    BY <1>2
  <1>11. Identified
    BY <1>2, <1>10 DEF Identified, Remoting
  <1>12. Orderly
    <2>1. Single /\ Prepared
      BY <1>2, <1>10 DEF Single, Describing, Prepared
    <2>2. Phase(s) /\ KeptBack(s)
      BY <1>5, <1>7 DEF Phase, Exchanges, KeptBack
    <2> QED
      BY <2>1, <2>2 DEF Orderly
  <1> QED
    BY <1>8, <1>9, <1>11, <1>12 DEF SInv, Sound

LEMMA StutterSInv == ASSUME SInv, UNCHANGED vars PROVE SInv'
  BY RefreshedStep
  DEF vars, SInv, Sound, Typed, Refreshed, Basic, SameCandidates, SameRemote

LEMMA NextSInv == ASSUME SInv, [Next]_vars PROVE SInv'
  <1>1. CASE Application
    BY <1>1, CallCreateStep, CallSetLocalStep, CallSetRemoteStep, EnsureStep,
       CallAddIceCandidateStep, CallAddExchangedCandidateStep, RestartIceStep,
       CreateDataChannelStep, CloseStep, Zenon DEF Application
  <1>2. CASE SetLocalWork
    BY <1>2, SetLocalClosedStep, SetLocalInvalidStep, SetLocalRollbackStep,
       SetLocalPranswerStep, SetLocalAppliedStep, SetLocalNoMediaStep,
       SetLocalRestartAnswerStep, SetLocalDataOnlyStep, SetLocalRestartOfferStep,
       SetLocalSyncStep, SetLocalNativeStep, SetLocalRefreshStep, Zenon DEF SetLocalWork
  <1>3. CASE SetRemoteWork
    BY <1>3, SetRemoteRejectedStep, SetRemotePranswerStep, SetRemoteRollbackLocalStep,
       SetRemoteRollbackStep, SetRemoteRestartOfferStep, SetRemoteDataOnlyOfferStep,
       SetRemoteNoMediaStep, SetRemoteReplaceStep, SetRemoteOfferStep, AwaitAnswererStep,
       SetRemoteRestartAnswerStep, SetRemoteDataOnlyAnswerStep, SetRemoteAnswerStep, Zenon
    DEF SetRemoteWork
  <1>4. CASE RunTask
    BY <1>2, <1>3, <1>4, CreateOfferStep, CreateAnswerStep, FinishStep, EnsureFinishesStep,
       AddIceCandidateEarlyStep, AddIceCandidateStep, Zenon DEF RunTask
  <1>5. CASE Answerer
    BY AnswersOrderly, ThrowsOrderly, <1>5 DEF Answerer
  <1>6. CASE EventLoop
    BY <1>4, <1>5, <1>6, HandleNativeEventStep, RefreshTimerStep, Zenon DEF EventLoop
  <1>7. CASE PairedSettles \/ PairedLeaves
    BY <1>7, PairedStep
  <1>8. CASE UNCHANGED vars
    BY <1>8, StutterSInv
  <1> QED
    BY <1>1, <1>6, <1>7, <1>8 DEF Next

LEMMA SInvariant == Spec => []SInv
  BY InitSInv, NextSInv, PTL DEF Spec

-----------------------------------------------------------------------------
\* What the descriptions, the native peer connection and the tasks have to do with each
\* other when the application is Chained, Unhurried and Cautious, and no description comes
\* with the marker that only JavaScript knows of.  Events of the native peer may be late.
Unmarked == \A d \in Remotes : ~d.restart

Careful == Chained /\ Unhurried /\ Cautious /\ Unmarked

Blank(d) == d.type = "none" => d = NoDesc

CurrentTypes == {<<"none", "none">>, <<"offer", "answer">>, <<"answer", "offer">>}

\* The current descriptions are an offer and its answer, of the same media; offers keep
\* the media, and what is described is what is pending or else current.
Described(t) ==
    /\ Blank(t.l) /\ Blank(t.cl) /\ Blank(t.pl) /\ Blank(t.cr) /\ Blank(t.pr)
    /\ <<t.cl.type, t.cr.type>> \in CurrentTypes
    /\ t.cl.data = t.cr.data
    /\ t.pl = NoDesc => t.l = t.cl
    /\ t.pl.type = "offer" => t.l = t.pl
    /\ t.r = Or(t.pr, t.cr)
    /\ t.cl.data /\ t.pl.type = "offer" => t.pl.data
    /\ t.cl.data /\ t.pr.type = "offer" => t.pr.data

FromNative(d) == d \in {NoDesc, Local("offer", TRUE), Local("answer", TRUE)}

\* The local descriptions that native events on their way tell of.
Tells(t, D) ==
    \A i \in 1 .. Len(t.events) :
        t.events[i].type = "localdescription" => t.events[i].desc \in D

Silent(t) == Tells(t, {})

News(t) ==
    \/ Silent(t)
    \/ Tells(t, {t.nl}) /\ t.nl # NoDesc /\ t.nsig # HRO

\* The native peer has the part in the exchange that the current description has, or is
\* left with an offer that JavaScript completed behind it.
NativeFits(t) ==
    /\ FromNative(t.nl) /\ FromNative(t.ncl)
    /\ t.native = "none" => t.nsig = "stable"
    /\ t.ncl # NoDesc => t.ncl.type = t.cl.type /\ t.cl.data
    /\ t.nsig # HLO => t.nl = t.ncl
    /\ t.nsig = HLO =>
          /\ t.nl.type = "offer" /\ t.pr.type # "offer"
          /\ \/ t.pl.type = "offer" /\ t.pl.data
             \/ t.pl = NoDesc /\ t.cl.type = "offer" /\ t.cl.data
    /\ t.pl.type = "offer" => t.nl.type # "answer"

\* Once there was an offer with data there is none without.
Offered(t) ==
    /\ t.lastOffer.data \/ t.cl.data \/ (t.pl.type = "offer" /\ t.pl.data) =>
           t.channels \/ t.ncl # NoDesc
    /\ t.pl.type = "offer" /\ t.pl.data =>
           t.lastOffer = NoDesc \/ t.lastOffer.data \/ t.cl.data

\* When the native peer has a remote offer, then so has JavaScript, or no paired peer
\* finds an answer to apply.
Answerable(t) ==
    t.nsig = HRO =>
        /\ t.cl.data => t.pr.type = "offer" /\ t.cl.type # "answer"
        /\ t.pl.type = "offer" => ~t.pl.data /\ ~t.restart
        /\ t.pr.type = "pranswer" => ~t.pr.data
        /\ t.pr = NoDesc =>
              \/ t.paired \in {"none", "left"} \/ ~t.lastAnswer.data \/ IsNoMedia(t.cr)

\* ICE restarts that the native peer does not know of.
Restarts(t) ==
    /\ t.jsOffer => t.pl.type = "offer" /\ t.pl.data /\ t.ncl.type # "answer"
    /\ t.restart => t.nsig # HLO
    /\ t.jsRemote => t.pr.type = "offer" /\ t.cr.data /\ t.nsig = "stable"
                     /\ t.nl.type # "offer"

Joint(t) ==
    Described(t) /\ NativeFits(t) /\ News(t) /\ Offered(t) /\ Answerable(t) /\ Restarts(t)

\* After a close no native call has an effect, and no peer is paired.
Gone(t) ==
    /\ t.native = "handed" \/ t.nsig = "stable"
    /\ t.paired \in {"none", "left"}
    /\ Silent(t)

Consistent(t) == IF t.closed THEN Gone(t) ELSE Joint(t)

Idle(t) == t.sig = "stable" /\ t.pl = NoDesc /\ t.pr = NoDesc /\ ~t.jsOffer

\* What a set operation has done.
Achieved(t, task) ==
    /\ task.op = "setLocal" /\ task.type = "offer" => t.sig = HLO /\ t.pl.type = "offer"
    /\ task.op = "setRemote" /\ task.type = "offer" =>
           t.sig = HRO /\ t.pr.type = "offer" /\ ~t.jsOffer
    /\ task.type \in {"answer", "rollback"} => Idle(t)

Finishing(task) == task.op \in SetOps /\ task.at \in {"done", "clear", "refresh"}

AnswerStages == {"restartAnswer", "dataOnlyAnswer", "answer"}

\* What an operation on its way may rely on: a local one, and a remote one.
LocalExpects(t, task) ==
    /\ task.type = "offer" \/ (task.type = "rollback" /\ t.pl.type = "offer") => Silent(t)
    /\ task.type = "offer" =>
          /\ t.pr.type # "offer"
          /\ t.restart /\ t.sig = "stable" => t.nsig = "stable" /\ t.nl.type # "answer"
          /\ LET offer == Or(task.desc, t.lastOffer)
             IN  offer # NoDesc /\ t.cl.data => offer.data
    /\ task.type = "answer" =>
          /\ LET answer == Or(task.desc, t.lastAnswer)
             IN  answer # NoDesc /\ t.pr.type = "offer" => answer.data = t.pr.data
          /\ task.desc = NoDesc /\ t.pr.type # "offer" =>
                 Idle(t) /\ t.cl.type = "answer" /\ t.cl.data

RemoteExpects(t, task) ==
    /\ task.type \in {"offer", "rollback"} => Silent(t)
    /\ ~task.desc.restart /\ task.type # "none"
    /\ task.type = "offer" =>
          /\ t.cr.data => task.desc.data
          /\ RestartRemoteOffer(t, task.desc) => t.nsig = "stable" /\ t.nl.type # "offer"
    /\ task.type = "rollback" => ~t.jsRemote

Expects(t, task) ==
    /\ task.op = "createOffer" /\ task.restart => t.nsig = "stable" /\ t.nl.type # "answer"
    /\ task.op = "createAnswer" => t.pr.type = "offer" \/ t.nsig # HRO
    /\ task.op = "setLocal" /\ task.at = "work" => LocalExpects(t, task)
    /\ task.op = "setRemote" /\ task.at \in {"work", "rolledBack"} => RemoteExpects(t, task)
    /\ task.op = "setRemote" /\ task.at \in {"work"} \cup AnswerStages =>
          (task.type \in {"answer", "pranswer"} /\ t.pl.type = "offer" =>
              task.desc.data = t.pl.data)
    /\ task.op = "setRemote" /\ task.at \in AnswerStages =>
          /\ t.jsOffer <=> task.at = "restartAnswer"
          /\ task.at = "dataOnlyAnswer" => t.cl.type = "offer"
    /\ Finishing(task) => Achieved(t, task)

Answers(t, task) ==
    task.op = "setRemote" /\ task.at \in AnswerStages =>
        t.pl.type = "offer" /\ task.type = "answer"

Fits(t, task) == Answers(t, task) /\ (t.closed \/ Expects(t, task))

Joined ==
    /\ Consistent(s)
    /\ \A i \in 1 .. Len(tasks) : Fits(s, tasks[i])
    /\ \A task \in waiting : Fits(s, task)

-----------------------------------------------------------------------------
\* What steps leave alone: what was made, and the flags of ICE restarts; all but what
\* only candidates and the dispatch of events depend on.
SameMade(t, u) ==
    /\ u.closed = t.closed /\ u.channels = t.channels
    /\ u.lastOffer = t.lastOffer /\ u.lastAnswer = t.lastAnswer

SameRestarts(t, u) ==
    u.restart = t.restart /\ u.jsOffer = t.jsOffer /\ u.jsRemote = t.jsRemote

Alike(t, u) ==
    /\ u \in States /\ SameMade(t, u) /\ SameRestarts(t, u) /\ SameLocal(t, u)
    /\ SameRemote(t, u) /\ Undisturbed(t, u) /\ u.paired = t.paired

LEMMA AlikeSteps ==
    ASSUME NEW t, NEW u
    PROVE  /\ \A v : Alike(t, u) /\ Alike(u, v) => Alike(t, v)
           /\ t \in States => Alike(t, t)
           /\ NativeStep(t, u) /\ Undisturbed(t, u) => Alike(t, u) /\ u.sig = t.sig
           /\ Flush(t, u) => Alike(t, u) /\ u.sig = t.sig
           /\ \A state : Entered(t, u, state) => Alike(t, u) /\ u.sig = state
  <1>1. /\ \A v : Alike(t, u) /\ Alike(u, v) => Alike(t, v)
        /\ t \in States => Alike(t, t)
    BY DEF Alike, SameMade, SameRestarts, SameLocal, SameRemote, Undisturbed
  <1>2. NativeStep(t, u) /\ Undisturbed(t, u) => Alike(t, u) /\ u.sig = t.sig
    BY DEF Alike, SameMade, SameRestarts, SameLocal, SameRemote, NativeStep, SameExchange,
           SameCandidates
  <1>3. Flush(t, u) => Alike(t, u) /\ u.sig = t.sig
    BY DEF Alike, SameMade, SameRestarts, SameLocal, SameRemote, Flush, SameExchange
  <1>4. \A state : Entered(t, u, state) => Alike(t, u) /\ u.sig = state
    BY DEF Alike, SameMade, SameRestarts, Entered, Firm, SameCandidates, SameNative,
           Undisturbed
  <1> QED
    BY <1>1, <1>2, <1>3, <1>4

LEMMA AlikeConsistent ==
    ASSUME NEW t, NEW u, Alike(t, u)
    PROVE  /\ Joint(t) => Joint(u)
           /\ Gone(t) => Gone(u)
           /\ Consistent(t) => Consistent(u)
           /\ \A task : u.sig = t.sig /\ Fits(t, task) => Fits(u, task)
  <1>1. \A D : Tells(t, D) => Tells(u, D)
    BY DEF Alike, Undisturbed, Tells
  <1>2. Joint(t) => Joint(u)
    BY <1>1 DEF Alike, SameMade, SameRestarts, SameLocal, SameRemote, Undisturbed,
        Joint, Described, NativeFits, News, Silent, Offered, Answerable, Restarts
  <1>3. Gone(t) => Gone(u)
    BY <1>1 DEF Alike, Undisturbed, Gone, Silent
  <1>4. u.closed = t.closed
    BY DEF Alike, SameMade
  <1>5. ASSUME NEW task, u.sig = t.sig, Fits(t, task)
        PROVE  Fits(u, task)
    <2>1. Answers(u, task)
      BY <1>5 DEF Alike, SameLocal, Fits, Answers
    <2>2. ASSUME Expects(t, task) PROVE Expects(u, task)
      BY <1>5, <2>2 DEF Alike, SameMade, SameRestarts, SameLocal, SameRemote, Undisturbed,
          Expects, LocalExpects, RemoteExpects, RestartRemoteOffer, Achieved, Idle,
          Silent, Tells
    <2> QED
      BY <1>4, <1>5, <2>1, <2>2 DEF Fits
  <1> QED
    BY <1>2, <1>3, <1>4, <1>5 DEF Consistent

-----------------------------------------------------------------------------
\* What the calls of the native peer connection do to it.
LEMMA EmitTells ==
    ASSUME NEW t \in States, NEW event \in Events, NEW D, NEW E, Tells(t, D), D \subseteq E,
           event.type = "localdescription" => event.desc \in E
    PROVE  LET u == Emit(t, event)
           IN  /\ Tells(u, E) /\ u.nsig = t.nsig /\ u.nl = t.nl /\ u.ncl = t.ncl
               /\ u.native = t.native
  <1> DEFINE q == Append(t.events, event)
             u == [t EXCEPT !.events = q]
  <1>1. t.events \in Seq(Events)
    BY StateFields DEF Queues
  <1>2. /\ Len(q) = Len(t.events) + 1 /\ Len(t.events) \in Nat
        /\ \A i \in 1 .. Len(t.events) : q[i] = t.events[i]
        /\ q[Len(t.events) + 1] = event
    BY <1>1, AppendProperties, LenProperties
  <1>3. Emit(t, event) = u
    BY Zenon DEF Emit
  <1> HIDE DEF q
  <1>4. /\ u.events = q /\ u.nsig = t.nsig /\ u.nl = t.nl /\ u.ncl = t.ncl
        /\ u.native = t.native
    BY DEF States
  <1> HIDE DEF u
  <1>5. ASSUME NEW i \in 1 .. Len(u.events), u.events[i].type = "localdescription"
        PROVE  u.events[i].desc \in E
    <2>1. CASE i \in 1 .. Len(t.events)
      BY <1>2, <1>4, <1>5, <2>1 DEF Tells
    <2>2. CASE i = Len(t.events) + 1
      BY <1>2, <1>4, <1>5, <2>2
    <2> QED
      BY <1>2, <1>4, <1>5, <2>1, <2>2
  <1>6. Tells(u, E)
    BY <1>5 DEF Tells
  <1> QED
    BY <1>3, <1>4, <1>6

LEMMA NativeStateEffect ==
    ASSUME NEW t \in States, NEW state \in NativeStates
    PROVE  LET u == NativeState(t, state)
           IN  /\ u.nsig = state /\ u.nl = t.nl /\ u.ncl = t.ncl /\ u.native = t.native
               /\ \A D : Tells(t, D) => Tells(u, D)
  <1>1. CASE t.nsig = state
    BY <1>1 DEF NativeState
  <1>2. CASE t.nsig # state
    <2> DEFINE x == [t EXCEPT !.nsig = state]
               event == StateEvent(state)
    <2>1. x \in States
      BY StateValues
    <2>2. /\ x.nsig = state /\ x.nl = t.nl /\ x.ncl = t.ncl /\ x.native = t.native
          /\ x.events = t.events
      BY DEF States
    <2>3. NativeState(t, state) = Emit(x, event)
      BY <1>2, Zenon DEF NativeState
    <2>4. event \in Events /\ event.type # "localdescription"
      BY EventTypes, StatesNamed DEF StateEvent
    <2> HIDE DEF x, event
    <2>5. \A D : Tells(t, D) => Tells(x, D)
      BY <2>2 DEF Tells
    <2>6. ASSUME NEW D, Tells(t, D)
          PROVE  Tells(Emit(x, event), D)
      BY <2>5, <2>6, <2>1, <2>4, EmitTells
    <2>7. /\ Emit(x, event).nsig = x.nsig /\ Emit(x, event).nl = x.nl
          /\ Emit(x, event).ncl = x.ncl /\ Emit(x, event).native = x.native
      BY <2>1 DEF Emit, States
    <2> QED
      BY <2>2, <2>3, <2>6, <2>7
  <1> QED
    BY <1>1, <1>2

LEMMA NativeSetLocalEffect ==
    ASSUME NEW t \in States, NEW type \in {"offer", "answer"}, Silent(t)
    PROVE  LET u == NativeSetLocal(t, type)
           IN  /\ u.nl = Local(type, TRUE)
               /\ u.ncl = IF type = "answer" THEN u.nl ELSE t.ncl
               /\ u.nsig = IF type = "offer" THEN HLO ELSE "stable"
               /\ u.native # "none" /\ Tells(u, {u.nl})
  <1> DEFINE d == Local(type, TRUE)
             e == EnsureNative(t)
             c == IF type = "answer" THEN d ELSE t.ncl
             n == [e EXCEPT !.nl = d, !.ncl = c]
             m == Emit(n, DescriptionEvent(d))
             state == IF type = "offer" THEN HLO ELSE "stable"
  <1>1. d \in Descriptions /\ c \in Descriptions
    BY DescriptionTypes, StateFields
  <1>2. e \in States /\ e.events = t.events /\ e.native # "none"
    BY EnsureNativeKeeps DEF Undisturbed
  <1>3. NativeSetLocal(t, type) = NativeState(m, state)
    BY Zenon DEF NativeSetLocal
  <1>4. state \in NativeStates
    BY StatesNamed
  <1>5. /\ DescriptionEvent(d) \in Events
        /\ DescriptionEvent(d).desc = d
    BY <1>1, EventTypes DEF DescriptionEvent
  <1> HIDE DEF d, e, c, state
  <1>6. n \in States
    <2> DEFINE x == [e EXCEPT !.nl = d]
    <2>1. x \in States
      BY <1>1, <1>2, StateDescriptions
    <2>2. [x EXCEPT !.ncl = c] \in States
      <3> HIDE DEF x
      <3> QED
        BY <1>1, <2>1, StateDescriptions
    <2> QED
      BY <2>2
  <1>7. n.nl = d /\ n.ncl = c /\ n.events = e.events /\ n.native = e.native
    BY <1>2 DEF States
  <1> HIDE DEF n
  <1>8. Tells(n, {})
    BY <1>2, <1>7 DEF Silent, Tells
  <1>9. /\ Tells(m, {d}) /\ m.nl = d /\ m.ncl = c /\ m.native # "none"
    BY <1>2, <1>5, <1>6, <1>7, <1>8, EmitTells
  <1>10. m \in States
    BY <1>5, <1>6, EmitKeeps DEF NativeStep
  <1> HIDE DEF m
  <1> DEFINE u == NativeState(m, state)
  <1>11. /\ u.nsig = state /\ u.nl = d /\ u.ncl = c /\ u.native # "none" /\ Tells(u, {d})
    BY <1>4, <1>9, <1>10, NativeStateEffect
  <1> QED
    BY <1>3, <1>11 DEF d, c, state

LEMMA NativeSetRemoteEffect ==
    ASSUME NEW t \in States, NEW d \in Descriptions
    PROVE  LET u == NativeSetRemote(t, d)
           IN  /\ u.nl = t.nl
               /\ u.ncl = IF d.type = "answer" THEN t.nl ELSE t.ncl
               /\ u.nsig = IF d.type = "offer" THEN HRO ELSE "stable"
               /\ u.native # "none" /\ \A D : Tells(t, D) => Tells(u, D)
  <1> DEFINE e == EnsureNative(t)
             c == IF d.type = "answer" THEN t.nl ELSE t.ncl
             n == [e EXCEPT !.ncl = c]
             state == IF d.type = "offer" THEN HRO ELSE "stable"
  <1>1. e \in States /\ e.events = t.events /\ e.native # "none" /\ e.nl = t.nl
    BY EnsureNativeKeeps DEF Undisturbed
  <1>2. c \in Descriptions /\ state \in NativeStates
    BY StateFields, StatesNamed
  <1>3. NativeSetRemote(t, d) = NativeState(n, state)
    BY Zenon DEF NativeSetRemote
  <1> HIDE DEF e, c, state
  <1>4. n \in States
    BY <1>1, <1>2, StateDescriptions
  <1>5. n.nl = e.nl /\ n.ncl = c /\ n.events = e.events /\ n.native = e.native
    BY <1>1 DEF States
  <1> HIDE DEF n
  <1>6. \A D : Tells(t, D) => Tells(n, D)
    BY <1>1, <1>5 DEF Tells
  <1> DEFINE u == NativeState(n, state)
  <1>7. /\ u.nsig = state /\ u.nl = n.nl /\ u.ncl = n.ncl /\ u.native = n.native
        /\ \A D : Tells(n, D) => Tells(u, D)
    BY <1>2, <1>4, <1>6, NativeStateEffect
  <1> QED
    BY <1>1, <1>3, <1>5, <1>6, <1>7 DEF c, state

LEMMA NativeRollbackLocalEffect ==
    ASSUME NEW t \in States
    PROVE  LET u == NativeRollbackLocal(t)
           IN  IF t.nsig = HLO
               THEN /\ u.nsig = "stable" /\ u.nl = t.ncl /\ u.ncl = t.ncl
                    /\ Silent(t) => Silent(u)
               ELSE Undisturbed(t, u)
  <1> DEFINE e == EnsureNative(t)
             n == [e EXCEPT !.nl = t.ncl]
  <1>1. e \in States /\ Undisturbed(t, e)
    BY EnsureNativeKeeps
  <1>2. NativeRollbackLocal(t) = IF t.nsig # HLO THEN e ELSE NativeState(n, "stable")
    BY Zenon DEF NativeRollbackLocal
  <1>3. t.ncl \in Descriptions /\ "stable" \in NativeStates
    BY StateFields, StatesNamed
  <1> HIDE DEF e
  <1>4. n \in States
    BY <1>1, <1>3, StateDescriptions
  <1>5. n.nl = t.ncl /\ n.ncl = e.ncl /\ n.events = e.events
    BY <1>1 DEF States
  <1> HIDE DEF n
  <1>6. Silent(t) => Tells(n, {})
    BY <1>1, <1>5 DEF Undisturbed, Silent, Tells
  <1> DEFINE u == NativeState(n, "stable")
  <1>7. u.nsig = "stable" /\ u.nl = n.nl /\ u.ncl = n.ncl /\ (Silent(t) => Tells(u, {}))
    BY <1>3, <1>4, <1>6, NativeStateEffect
  <1> QED
    BY <1>1, <1>2, <1>5, <1>7 DEF Undisturbed, Silent

LEMMA NativeRollbackRemoteEffect ==
    ASSUME NEW t \in States
    PROVE  LET u == NativeRollbackRemote(t)
           IN  IF t.nsig = HRO
               THEN /\ u.nsig = "stable" /\ u.nl = t.nl /\ u.ncl = t.ncl
                    /\ Silent(t) => Silent(u)
               ELSE Undisturbed(t, u)
  <1> DEFINE e == EnsureNative(t)
             u == NativeState(e, "stable")
  <1>1. e \in States /\ Undisturbed(t, e)
    BY EnsureNativeKeeps
  <1>2. NativeRollbackRemote(t) = IF t.nsig # HRO THEN e ELSE u
    BY Zenon DEF NativeRollbackRemote
  <1> HIDE DEF e
  <1>3. Silent(t) => Tells(e, {})
    BY <1>1 DEF Undisturbed, Silent, Tells
  <1>4. u.nsig = "stable" /\ u.nl = e.nl /\ u.ncl = e.ncl /\ (Silent(t) => Tells(u, {}))
    BY <1>1, <1>3, NativeStateEffect, StatesNamed
  <1> QED
    BY <1>1, <1>2, <1>4 DEF Undisturbed, Silent

LEMMA PairEffect ==
    ASSUME NEW t \in States, NEW here \in BOOLEAN
    PROVE  LET u == Pair(t, here)
           IN  /\ u \in States /\ SameMade(t, u) /\ SameRestarts(t, u) /\ SameLocal(t, u)
               /\ SameRemote(t, u) /\ Undisturbed(t, u) /\ u.sig = t.sig
  BY PairKeeps DEF SameMade, SameRestarts, SameLocal, SameRemote, SameExchange, SameNative,
                   Undisturbed

LEMMA FirmAlike ==
    ASSUME NEW t, NEW u, Firm(t, u), SameLocal(t, u), SameRemote(t, u)
    PROVE  Alike(t, u)
  BY DEF Alike, SameMade, SameRestarts, Firm, SameCandidates, SameNative, Undisturbed

LEMMA AnnounceAlike ==
    ASSUME NEW t \in States, NEW before
    PROVE  Alike(t, Announce(t, before)) /\ Announce(t, before).sig = t.sig
  <1> DEFINE x == [t EXCEPT !.suppress = t.sig]
  <1>1. Announce(t, before) = IF t.sig = before THEN t ELSE Dispatch(x)
    BY Zenon DEF Announce
  <1>2. x \in States
    BY StateFields, StateValues, StatesNamed
  <1>3. Alike(t, x) /\ x.sig = t.sig
    BY <1>2 DEF Alike, SameMade, SameRestarts, SameLocal, SameRemote, Undisturbed, States
  <1> HIDE DEF x
  <1>4. Entered(x, Dispatch(x), x.sig)
    BY <1>2, EnterStateKeeps
  <1>5. Alike(t, Dispatch(x)) /\ Dispatch(x).sig = t.sig
    BY <1>3, <1>4, AlikeSteps
  <1> QED
    BY <1>1, <1>5, AlikeSteps

LEMMA ClearSuppressedAlike ==
    ASSUME NEW t \in States, NEW state
    PROVE  Alike(t, ClearSuppressed(t, state)) /\ ClearSuppressed(t, state).sig = t.sig
  BY ClearSuppressedKeeps, FirmAlike

LEMMA FinishAlike ==
    ASSUME NEW t \in States
    PROVE  Alike(t, FinishPendingOperation(t)) /\ FinishPendingOperation(t).sig = t.sig
  BY FinishKeeps DEF Alike, SameMade, SameRestarts, SameLocal, SameRemote, SameExchange

-----------------------------------------------------------------------------
\* A step of the exchange, or one that leaves it where it is.
SameCurrent(t, u) == u.cl.type = t.cl.type /\ u.cr.type = t.cr.type

Moves(t, u) ==
    \/ SameCurrent(t, u) /\ u.pl.type = t.pl.type /\ u.pr.type = t.pr.type
    \/ SameCurrent(t, u) /\ t.pr.type = "none" /\ u.pl.type = "offer" /\ u.pr.type = "none"
    \/ SameCurrent(t, u) /\ t.pl.type = "none" /\ u.pr.type = "offer" /\ u.pl.type = "none"
    \/ /\ SameCurrent(t, u) /\ t.pr.type = "offer"
       /\ u.pl.type = "pranswer" /\ u.pr.type = "offer"
    \/ /\ SameCurrent(t, u) /\ t.pl.type = "offer"
       /\ u.pr.type = "pranswer" /\ u.pl.type = "offer"
    \/ /\ t.pr.type = "offer" /\ u.cl.type = "answer" /\ u.cr.type = "offer"
       /\ u.pl.type = "none" /\ u.pr.type = "none"
    \/ /\ t.pl.type = "offer" /\ u.cl.type = "offer" /\ u.cr.type = "answer"
       /\ u.pl.type = "none" /\ u.pr.type = "none"
    \/ SameCurrent(t, u) /\ u.pl.type = "none" /\ u.pr.type = "none"

\* What every step is to keep: it joins the invariant, moves in the exchange, and settles
\* an operation only when it has done what it was asked for.
Upheld == Joined' /\ Moves(s, s') /\ SettledMeansApplied'

Given == SInv /\ Careful /\ Joined

LEMMA AlikeMoves ==
    ASSUME NEW t, NEW u, NEW v, Alike(u, v)
    PROVE  /\ Moves(u, v)
           /\ Moves(t, u) => Moves(t, v)
  BY DEF Alike, SameLocal, SameRemote, Moves, SameCurrent

LEMMA JoinedFacts ==
    ASSUME Given
    PROVE  /\ Sound /\ Single /\ Phase(s) /\ Prepared /\ s \in States /\ Created(s)
           /\ Consistent(s)
  BY DEF Given, SInv, Careful, Sound, Typed, Joined, Orderly

LEMMA HeadFits ==
    ASSUME Given, Ready
    PROVE  Fits(s, Task)
  BY JoinedFacts, Front DEF Sound, Typed, Ready, Task, Given, Joined

\* Other operations than those on descriptions expect nothing, nor do ends of other tasks.
LEMMA NothingExpected ==
    ASSUME NEW t, NEW task, task.op \notin DescriptionOps
    PROVE  Fits(t, task)
  BY DEF Fits, Answers, Expects, Finishing, DescriptionOps, SetOps

LEMMA NotHonest ==
    ASSUME outcome' = NoOutcome
    PROVE  SettledMeansApplied'
  BY DEF NoOutcome, SettledMeansApplied

\* The general form: whatever becomes of the tasks, each is one from before or fits.
LEMMA TasksJoin ==
    ASSUME Given, NEW u, s' = u, Consistent(u), Moves(s, u), SettledMeansApplied',
           \A i \in 1 .. Len(tasks') : Fits(u, tasks'[i]),
           \A w \in waiting' : Fits(u, w)
    PROVE  Upheld
  BY DEF Upheld, Joined

LEMMA AwaitJoins ==
    ASSUME Given, Describes, NEW u, Consistent(u), Moves(s, u), NEW task \in Tasks,
           Fits(u, task), AwaitAs(u, task)
    PROVE  Upheld
  <1>1. /\ s' = u /\ tasks' = Append(Tail(tasks), task) /\ outcome' = NoOutcome
        /\ waiting' = waiting
    BY DEF AwaitAs
  <1>2. Sound /\ Single /\ Ready
    BY JoinedFacts DEF Describes
  <1>3. waiting = {} /\ \A i : Describing(i) => i = 1
    BY <1>2, Alone DEF Describes
  <1>4. \A i \in 1 .. Len(tasks') :
            \/ i + 1 \in 1 .. Len(tasks) /\ i + 1 # 1 /\ tasks'[i] = tasks[i + 1]
            \/ i = Len(tasks) /\ tasks'[i] = task
    BY <1>1, <1>2, Requeues
  <1>5. ASSUME NEW i \in 1 .. Len(tasks')
        PROVE  Fits(u, tasks'[i])
    <2>1. CASE i + 1 \in 1 .. Len(tasks) /\ i + 1 # 1 /\ tasks'[i] = tasks[i + 1]
      BY <1>3, <2>1, NothingExpected DEF Describing
    <2>2. CASE tasks'[i] = task
      BY <2>2
    <2> QED
      BY <1>4, <2>1, <2>2
  <1> QED
    BY <1>1, <1>3, <1>5, NotHonest, TasksJoin

LEMMA EndJoins ==
    ASSUME Given, Describes, NEW u \in States, Consistent(u), Moves(s, u),
           s' = FinishPendingOperation(u), tasks' = Tail(tasks), waiting' = waiting,
           SettledMeansApplied'
    PROVE  Upheld
  <1>1. Alike(u, s')
    BY FinishAlike
  <1>2. Consistent(s') /\ Moves(s, s')
    BY <1>1, AlikeConsistent, AlikeMoves
  <1>3. Sound /\ Single /\ Ready
    BY JoinedFacts DEF Describes
  <1>4. waiting = {} /\ \A i : Describing(i) => i = 1
    BY <1>3, Alone DEF Describes
  <1>5. \A i \in 1 .. Len(tasks') :
            i + 1 \in 1 .. Len(tasks) /\ i + 1 # 1 /\ tasks'[i] = tasks[i + 1]
    BY <1>3, Shifts
  <1>6. ASSUME NEW i \in 1 .. Len(tasks')
        PROVE  Fits(s', tasks'[i])
    BY <1>4, <1>5, NothingExpected DEF Describing
  <1> QED
    BY <1>2, <1>4, <1>6, TasksJoin

LEMMA RejectJoins ==
    ASSUME Given, Describes, NEW u \in States, Consistent(u), Moves(s, u), Reject(u)
    PROVE  Upheld
  BY NotHonest, EndJoins DEF Reject

\* A set operation settles when it has achieved what it should, or ignores an answer.
LEMMA SettleJoins ==
    ASSUME Given, Describes, NEW u \in States, Consistent(u), Moves(s, u), Settle(u),
           Task.op \in SetOps /\ ~u.closed =>
               \/ Achieved(u, Task)
               \/ Task.op = "setLocal" /\ Task.desc # NoDesc /\ Task.type = "answer"
    PROVE  Upheld
  <1>1. /\ s' = FinishPendingOperation(u) /\ tasks' = Tail(tasks) /\ waiting' = waiting
        /\ outcome' = IF Task.op \in SetOps /\ ~u.closed
                      THEN [by |-> Task.op, type |-> Task.type,
                            explicit |-> Task.desc # NoDesc]
                      ELSE NoOutcome
    BY DEF Settle
  <1>2. Alike(u, s') /\ s'.sig = u.sig
    BY <1>1, FinishAlike
  <1>3. SettledMeansApplied'
    <2>1. CASE Task.op \in SetOps /\ ~u.closed
      <3>1. CASE Achieved(u, Task)
        BY <1>1, <1>2, <2>1, <3>1
           DEF Achieved, Idle, Alike, SameLocal, SameRemote, SettledMeansApplied, SetOps
      <3>2. CASE Task.op = "setLocal" /\ Task.desc # NoDesc /\ Task.type = "answer"
        BY <1>1, <2>1, <3>2 DEF SettledMeansApplied
      <3> QED
        BY <2>1, <3>1, <3>2
    <2>2. CASE ~(Task.op \in SetOps /\ ~u.closed)
      BY <1>1, <2>2, NotHonest
    <2> QED
      BY <2>1, <2>2
  <1> QED
    BY <1>1, <1>3, EndJoins

-----------------------------------------------------------------------------
\* Exchanges of offers and answers, as far as the descriptions decide what fits.
LEMMA MediaFields ==
    /\ NoDesc.data = FALSE /\ Rollback.restart = FALSE
    /\ \A type \in {"offer", "answer", "pranswer"}, data \in BOOLEAN :
          Local(type, data).data = data /\ Local(type, data) # NoDesc
    /\ \A d \in Descriptions :
          /\ MarkRestart(d).data = d.data /\ Plain(d).data = d.data
          /\ d.data \in BOOLEAN /\ (d.type # "none" => d # NoDesc)
          /\ IsNoMedia(d) <=> d # NoDesc /\ ~d.data
  <1>1. /\ NoDesc \in Descriptions /\ NoDesc.data = FALSE /\ NoDesc.type = "none"
        /\ NoDesc.restart = FALSE
    BY DEF NoDesc, Descriptions
  <1>2. Rollback.restart = FALSE
    BY <1>1 DEF Rollback, Descriptions
  <1>3. ASSUME NEW type \in {"offer", "answer", "pranswer"}, NEW data \in BOOLEAN
        PROVE  Local(type, data).data = data /\ Local(type, data) # NoDesc
    BY <1>1, DescriptionTypes DEF Local, Descriptions
  <1>4. ASSUME NEW d \in Descriptions
        PROVE  /\ MarkRestart(d).data = d.data /\ Plain(d).data = d.data
               /\ d.data \in BOOLEAN /\ (d.type # "none" => d # NoDesc)
               /\ IsNoMedia(d) <=> d # NoDesc /\ ~d.data
    BY <1>1 DEF MarkRestart, Plain, Descriptions, IsNoMedia
  <1> QED
    BY <1>1, <1>2, <1>3, <1>4

LEMMA StateMedia ==
    ASSUME NEW t \in States
    PROVE  /\ t.l.data \in BOOLEAN /\ t.cl.data \in BOOLEAN /\ t.pl.data \in BOOLEAN
           /\ t.cr.data \in BOOLEAN /\ t.pr.data \in BOOLEAN /\ t.lastOffer.data \in BOOLEAN
           /\ t.lastAnswer.data \in BOOLEAN
           /\ t.pl.type # "none" => t.pl # NoDesc
           /\ t.pr.type # "none" => t.pr # NoDesc
           /\ t.nl.type # "none" => t.nl # NoDesc
           /\ NoDesc.type = "none" /\ NoDesc.data = FALSE
           /\ Local("offer", TRUE).type = "offer" /\ Local("answer", TRUE).type = "answer"
  BY StateFields, MediaFields, DescriptionTypes

\* A local offer is pending; the native peer is left alone.
LEMMA LocalOfferJoint ==
    ASSUME NEW t \in States, NEW u, Joint(t), NEW d \in Descriptions, d.type = "offer",
           SameMade(t, u), Undisturbed(t, u), SameRemote(t, u), u.paired = t.paired,
           u.l = d, u.cl = t.cl, u.pl = d, t.pr.type # "offer", u.jsRemote = t.jsRemote,
           t.cl.data => d.data,
           d.data => t.channels \/ t.ncl # NoDesc,
           d.data => t.lastOffer = NoDesc \/ t.lastOffer.data \/ t.cl.data,
           t.nl.type # "answer",
           t.nsig = HLO => d.data,
           t.nsig = HRO => ~d.data /\ ~u.restart,
           u.jsOffer => d.data /\ t.ncl.type # "answer",
           u.restart => t.nsig # HLO
    PROVE  Joint(u)
  <1>1. d # NoDesc
    BY MediaFields
  <1>2. Described(u)
    BY <1>1 DEF Joint, Described, Blank, SameRemote, Or
  <1>3. NativeFits(u)
    BY DEF Joint, NativeFits, SameRemote, Undisturbed, HLO
  <1>4. News(u)
    BY DEF Joint, News, Silent, Tells, Undisturbed
  <1>5. Offered(u)
    BY DEF Joint, Offered, SameMade, Undisturbed
  <1>6. Answerable(u)
    BY <1>1 DEF Joint, Answerable, SameMade, SameRemote, Undisturbed
  <1>7. Restarts(u)
    BY DEF Joint, Restarts, SameRemote, Undisturbed
  <1> QED
    BY <1>2, <1>3, <1>4, <1>5, <1>6, <1>7 DEF Joint

\* A local answer completes the pending offer of the other side, in JavaScript alone.
LEMMA LocalAnswerJoint ==
    ASSUME NEW t \in States, NEW u, Joint(t), NEW d \in Descriptions, d.type = "answer",
           SameMade(t, u), Undisturbed(t, u), t.pr.type = "offer",
           u.l = d, u.cl = d, u.pl = NoDesc, u.r = t.pr, u.cr = t.pr, u.pr = NoDesc,
           ~u.jsOffer, ~u.jsRemote, u.restart = t.restart,
           d.data = t.pr.data, d.data => t.cl.data,
           t.ncl # NoDesc => t.ncl.type = "answer",
           t.nsig = HRO => ~d.data
    PROVE  Joint(u)
  <1>1. t.pr # NoDesc /\ t.pr.data \in BOOLEAN /\ NoDesc.type = "none"
    BY StateMedia
  <1>2. Described(u)
    BY <1>1 DEF Joint, Described, Blank, Or, CurrentTypes
  <1>3. NativeFits(u)
    BY <1>1 DEF Joint, NativeFits, Described, Undisturbed, HLO
  <1>4. News(u)
    BY DEF Joint, News, Silent, Tells, Undisturbed
  <1>5. Offered(u)
    BY <1>1 DEF Joint, Offered, SameMade, Undisturbed
  <1>6. Answerable(u)
    BY <1>1 DEF Joint, Answerable, SameMade, Undisturbed, IsNoMedia
  <1>7. Restarts(u)
    BY DEF Joint, Restarts, Undisturbed
  <1> QED
    BY <1>2, <1>3, <1>4, <1>5, <1>6, <1>7 DEF Joint

\* The same, with the native peer.
LEMMA NativeAnswerJoint ==
    ASSUME NEW t \in States, NEW u, Joint(t), t.pr.type = "offer", t.pr.data, t.nsig = HRO,
           SameMade(t, u), u.nl = Local("answer", TRUE), u.ncl = u.nl, u.nsig = "stable",
           u.native # "none", Tells(u, {u.nl}),
           u.l = u.nl, u.cl = u.nl, u.pl = NoDesc, u.r = t.pr, u.cr = t.pr, u.pr = NoDesc,
           ~u.jsOffer, u.jsRemote = t.jsRemote, u.restart = t.restart
    PROVE  Joint(u)
  <1>1. /\ t.pr # NoDesc /\ NoDesc.type = "none" /\ NoDesc.data = FALSE
        /\ u.nl.type = "answer" /\ u.nl # NoDesc /\ u.nl.data = TRUE
    BY StateMedia, MediaFields
  <1>2. Described(u)
    BY <1>1 DEF Joint, Described, Blank, Or, CurrentTypes
  <1>3. NativeFits(u)
    BY <1>1 DEF Joint, NativeFits, FromNative, HLO
  <1>4. News(u)
    BY <1>1 DEF News, HRO
  <1>5. Offered(u)
    BY <1>1 DEF Joint, Offered, SameMade
  <1>6. Answerable(u)
    BY <1>1 DEF Answerable, HRO
  <1>7. Restarts(u)
    BY DEF Joint, Restarts, HRO, HLO
  <1> QED
    BY <1>2, <1>3, <1>4, <1>5, <1>6, <1>7 DEF Joint

\* A remote offer is pending, for JavaScript alone.
LEMMA RemoteOfferJoint ==
    ASSUME NEW t \in States, NEW u, Joint(t), NEW d \in Descriptions, d.type = "offer",
           SameMade(t, u), Undisturbed(t, u), t.pl = NoDesc,
           u.l = t.cl, u.cl = t.cl, u.pl = NoDesc, u.r = d, u.cr = t.cr, u.pr = d,
           ~u.jsOffer, u.restart = t.restart,
           t.cl.data => d.data, t.nsig # HLO,
           u.jsRemote => t.cr.data /\ t.nsig = "stable" /\ t.nl.type # "offer"
    PROVE  Joint(u)
  <1>1. d # NoDesc /\ NoDesc.type = "none"
    BY MediaFields, StateMedia
  <1>2. Described(u)
    BY <1>1 DEF Joint, Described, Blank, Or
  <1>3. NativeFits(u)
    BY <1>1 DEF Joint, NativeFits, Undisturbed
  <1>4. News(u)
    BY DEF Joint, News, Silent, Tells, Undisturbed
  <1>5. Offered(u)
    BY <1>1 DEF Joint, Offered, SameMade, Undisturbed
  <1>6. Answerable(u)
    BY <1>1 DEF Joint, Answerable, Undisturbed
  <1>7. Restarts(u)
    BY DEF Joint, Restarts, Undisturbed
  <1> QED
    BY <1>2, <1>3, <1>4, <1>5, <1>6, <1>7 DEF Joint

\* A remote answer completes the pending local offer, in JavaScript alone.
LEMMA RemoteAnswerJoint ==
    ASSUME NEW t \in States, NEW u, Joint(t), NEW d \in Descriptions, d.type = "answer",
           SameMade(t, u), Undisturbed(t, u), t.pl.type = "offer", d.data = t.pl.data,
           u.l = t.pl, u.cl = t.pl, u.pl = NoDesc, u.r = d, u.cr = d, u.pr = NoDesc,
           ~u.jsOffer, ~u.jsRemote, u.restart => t.restart,
           t.ncl # NoDesc => t.ncl.type = "offer"
    PROVE  Joint(u)
  <1>1. d # NoDesc /\ t.pl # NoDesc /\ t.pl.data \in BOOLEAN /\ NoDesc.type = "none"
    BY MediaFields, StateMedia
  <1>2. Described(u)
    BY <1>1 DEF Joint, Described, Blank, Or, CurrentTypes
  <1>3. NativeFits(u)
    BY <1>1 DEF Joint, NativeFits, Described, Undisturbed
  <1>4. News(u)
    BY DEF Joint, News, Silent, Tells, Undisturbed
  <1>5. Offered(u)
    BY <1>1 DEF Joint, Offered, SameMade, Undisturbed
  <1>6. Answerable(u)
    BY <1>1 DEF Joint, Answerable, SameMade, Undisturbed, IsNoMedia
  <1>7. Restarts(u)
    BY DEF Joint, Restarts, Undisturbed
  <1> QED
    BY <1>2, <1>3, <1>4, <1>5, <1>6, <1>7 DEF Joint

-----------------------------------------------------------------------------
\* The steps of setLocalDescription
LEMMA StageFits ==
    ASSUME NEW u, NEW task, NEW n, NEW at \in {"done", "clear", "refresh"},
           Staged(task, n, at), u.closed \/ Achieved(u, task), task.op \in SetOps
    PROVE  Fits(u, n)
  BY DEF Staged, Achieved, AnswerStages, Answers, Expects, SetOps, Fits

LEMMA AwaitStageJoins ==
    ASSUME Given, Describes, NEW u, Consistent(u), Moves(s, u),
           u.closed \/ Achieved(u, Task),
           Task.op \in SetOps, NEW at \in {"done", "clear", "refresh"}, Await(u, at)
    PROVE  Upheld
  <1> DEFINE n == [Task EXCEPT !.at = at]
  <1>1. Task \in Tasks
    BY JoinedFacts, TaskTyped DEF Sound, Describes
  <1>2. Staged(Task, n, at)
    BY <1>1, StageTyped, StatesNamed
  <1>3. AwaitAs(u, n)
    BY DEF Await
  <1> HIDE DEF n
  <1>4. n \in Tasks /\ Fits(u, n)
    BY <1>2, StageFits DEF Staged
  <1> QED
    BY <1>3, <1>4, AwaitJoins

LEMMA AwaitSuppressedJoins ==
    ASSUME Given, Describes, NEW u \in States, Consistent(u), Moves(s, u),
           u.closed \/ Achieved(u, Task), Task.op \in SetOps, NEW before, AwaitSuppressed(u, before)
    PROVE  Upheld
  <1> DEFINE x == IF u.sig = before THEN "none" ELSE u.sig
             n == [Task EXCEPT !.at = "done", !.suppressed = x]
  <1>1. Task \in Tasks
    BY JoinedFacts, TaskTyped DEF Sound, Describes
  <1>2. x \in SigNames
    BY StateFields, StatesNamed
  <1>3. AwaitAs(u, n)
    BY DEF AwaitSuppressed
  <1> HIDE DEF x
  <1>4. Staged(Task, n, "done")
    BY <1>1, <1>2, StageTyped
  <1> HIDE DEF n
  <1>5. n \in Tasks /\ Fits(u, n)
    BY <1>4, StageFits DEF Staged
  <1> QED
    BY <1>3, <1>5, AwaitJoins

\* What the state and its task have to offer to one on its way.
LEMMA LocalGiven ==
    ASSUME Given, NEW path, LocalWork(path), path # "closed"
    PROVE  /\ Describes /\ Task \in Tasks /\ Task.desc \in Descriptions
           /\ Task.op = "setLocal" /\ Task.at = "work" /\ Shape(Task)
           /\ s \in States /\ Created(s) /\ Joint(s) /\ Phase(s) /\ ~s.closed
           /\ LocalExpects(s, Task) /\ Upcoming(s, Task)
           /\ LocalPath(s, Task.desc, Task.type) = path
  BY LocalWorkFacts, JoinedFacts, HeadUpcoming, HeadFits
  DEF Given, Describes, Consistent, Fits, Expects, LocalWork

\* A local offer comes when none of the other side is pending.
LEMMA OfferGiven ==
    ASSUME Given, NEW path, LocalWork(path), path \notin {"closed", "invalid"},
           Task.type = "offer"
    PROVE  /\ s.pr.type # "offer" /\ s.jsRemote = FALSE
           /\ s.sig = "stable" \/ s.pl.type = "offer"
           /\ s.pr.type = "none" \/ s.pl.type = "offer"
           /\ Task.desc # NoDesc => Task.desc.type = "offer"
                                    /\ Task.desc = Plain(s.lastOffer)
  <1>1. /\ SInv /\ Phase(s) /\ Upcoming(s, Task) /\ Joint(s) /\ ~s.closed /\ s \in States
        /\ Shape(Task) /\ Task.op = "setLocal"
    BY LocalGiven DEF Given
  <1>2. s.pr.type \in {"none", "pranswer"}
    BY <1>1, OfferFits
  <1>3. s.jsRemote = FALSE
    BY <1>1, <1>2, StateFields DEF Joint, Restarts
  <1>4. s.jsOffer => s.pl.type = "offer"
    BY <1>1 DEF Joint, Restarts
  <1>5. /\ s.sig = "stable" \/ s.pl.type = "offer"
        /\ s.pr.type = "none" \/ s.pl.type = "offer"
    BY <1>1, <1>2, <1>4 DEF Phase, Exchanges, HLO, HRO, HLP, HRP
  <1>6. ASSUME Task.desc # NoDesc
        PROVE  Task.desc.type = "offer" /\ Task.desc = Plain(s.lastOffer)
    BY <1>1, <1>6, LocalWorkFacts DEF Shape, SetOps, InvalidLocal
  <1> QED
    BY <1>2, <1>3, <1>5, <1>6

\* A local answer comes when an offer of the other side is pending, or is that of the
\* exchange before, once more.
LEMMA AnswerGiven ==
    ASSUME Given, NEW path, LocalWork(path), path \notin {"closed", "invalid", "applied"},
           Task.type = "answer"
    PROVE  /\ Task.desc # NoDesc => s.pr.type = "offer" /\ Task.desc.type = "answer"
           /\ s.pr.type # "offer" => Idle(s) /\ s.cl.type = "answer" /\ s.cl.data
           /\ s.pr.type = "offer" => s.jsOffer = FALSE /\ RemoteDescription(s) = s.pr
  <1>1. /\ SInv /\ Phase(s) /\ Joint(s) /\ ~s.closed /\ s \in States
        /\ Shape(Task) /\ Task.op = "setLocal" /\ LocalExpects(s, Task)
        /\ LocalPath(s, Task.desc, Task.type) = path
    BY LocalGiven DEF Given
  <1>2. ASSUME Task.desc # NoDesc
        PROVE  s.pr.type = "offer" /\ Task.desc.type = "answer"
    <2>1. Task.desc.type = "answer"
      BY <1>1, <1>2 DEF Shape, SetOps
    <2>2. ~InvalidLocal(s, Task.desc)
      BY <1>1, LocalWorkFacts
    <2>3. ~AlreadyApplied(s, Task.desc)
      BY <1>1, <2>1, <2>2 DEF LocalPath
    <2>4. s.sig \in {HRO, HLP}
      BY <2>1, <2>2, <2>3 DEF InvalidLocal
    <2> QED
      BY <1>1, <2>1, <2>4 DEF Phase, Exchanges, HLO, HRO, HLP, HRP
  <1>3. s.pr.type # "offer" => Idle(s) /\ s.cl.type = "answer" /\ s.cl.data
    BY <1>1, <1>2 DEF LocalExpects
  <1>4. s.pr.type = "offer" => s.jsOffer = FALSE /\ RemoteDescription(s) = s.pr
    BY <1>1, StateFields, StateMedia DEF Phase, RemoteDescription, Or
  <1> QED
    BY <1>2, <1>3, <1>4

LEMMA OfferMoves ==
    ASSUME NEW t, NEW u, u.cl = t.cl, SameRemote(t, u), u.pl.type = "offer",
           t.pr.type = "none" \/ t.pl.type = "offer"
    PROVE  Moves(t, u)
  BY DEF Moves, SameCurrent, SameRemote

\* What a step may leave that only sets descriptions, the state or candidates.
Carried(t, u) ==
    /\ u \in States /\ SameMade(t, u) /\ SameRestarts(t, u) /\ Undisturbed(t, u)
    /\ u.paired = t.paired

LEMMA CarriedSteps ==
    ASSUME NEW t, NEW u
    PROVE  /\ \A v : Carried(t, u) /\ Carried(u, v) => Carried(t, v)
           /\ t \in States => Carried(t, t)
           /\ Firm(t, u) => Carried(t, u)
           /\ Kept(t, u) => Carried(t, u)
           /\ Alike(t, u) => Carried(t, u) /\ SameLocal(t, u) /\ SameRemote(t, u)
           /\ NativeStep(t, u) /\ Undisturbed(t, u) =>
                  Carried(t, u) /\ SameLocal(t, u) /\ SameRemote(t, u) /\ u.sig = t.sig
  BY AlikeSteps
  DEF Carried, Alike, SameMade, SameRestarts, Undisturbed, Firm, SameCandidates,
      SameNative, Kept

LEMMA JointConsistent ==
    ASSUME NEW t, NEW u, Joint(u), SameMade(t, u), ~t.closed
    PROVE  Consistent(u)
  BY DEF SameMade, Consistent

LEMMA StutterMoves ==
    ASSUME NEW t
    PROVE  Moves(t, t)
  BY DEF Moves, SameCurrent

LEMMA SetLocalRejectedJoins ==
    Given /\ (SetLocalClosed \/ SetLocalInvalid) => Upheld
  <1> SUFFICES ASSUME Given, SetLocalClosed \/ SetLocalInvalid PROVE Upheld
    OBVIOUS
  <1>1. Reject(s) /\ \E path : LocalWork(path)
    BY DEF SetLocalClosed, SetLocalInvalid
  <1>2. Describes /\ s \in States /\ Consistent(s)
    BY <1>1, LocalWorkFacts, JoinedFacts DEF Given
  <1> QED
    BY <1>1, <1>2, StutterMoves, RejectJoins

\* A pending local offer is rolled back, by this peer or by an offer of the other.
LEMMA RollbackLocalOfferEffect ==
    ASSUME NEW t \in States
    PROVE  LET u == RollbackLocalOffer(t)
           IN  /\ u \in States /\ SameMade(t, u) /\ SameRestarts(t, u) /\ SameRemote(t, u)
               /\ u.pl = NoDesc /\ u.l = t.cl /\ u.cl = t.cl /\ u.sig = "stable"
               /\ u.paired = "none"
               /\ IF t.l # NoDesc /\ t.l.data /\ t.nsig = HLO
                  THEN /\ u.nsig = "stable" /\ u.nl = t.ncl /\ u.ncl = t.ncl
                       /\ Silent(t) => Silent(u)
                  ELSE Undisturbed(t, u)
  <1> DEFINE x == [t EXCEPT !.suppress = "stable"]
             n == IF t.l # NoDesc /\ t.l.data THEN NativeRollbackLocal(x) ELSE t
             r == RollbackLocal(n)
             p == [r EXCEPT !.paired = "none"]
             u == EnterState(p, "stable", t.sig)
  <1>1. RollbackLocalOffer(t) = u
    BY Zenon DEF RollbackLocalOffer
  <1>2. x \in States /\ Alike(t, x)
    BY StateValues, StatesNamed
    DEF Alike, SameMade, SameRestarts, SameLocal, SameRemote, Undisturbed, States
  <1> HIDE DEF x
  <1> DEFINE y == NativeRollbackLocal(x)
  <1>3. /\ y \in States /\ SameMade(t, y) /\ SameRestarts(t, y) /\ SameLocal(t, y)
        /\ SameRemote(t, y)
        /\ IF t.nsig = HLO THEN /\ y.nsig = "stable" /\ y.nl = t.ncl /\ y.ncl = t.ncl
                                /\ Silent(t) => Silent(y)
                           ELSE Undisturbed(t, y)
    <2>1. NativeStep(x, y)
      BY <1>2, NativeRollbackLocalKeeps
    <2>2. /\ y \in States /\ SameMade(t, y) /\ SameRestarts(t, y) /\ SameLocal(t, y)
          /\ SameRemote(t, y)
      BY <1>2, <2>1 DEF Alike, SameMade, SameRestarts, SameLocal, SameRemote, NativeStep,
                        SameExchange
    <2>3. Silent(t) => Silent(x)
      BY <1>2 DEF Alike, Undisturbed, Silent, Tells
    <2>4. IF x.nsig = HLO THEN /\ y.nsig = "stable" /\ y.nl = x.ncl /\ y.ncl = x.ncl
                               /\ Silent(x) => Silent(y)
                          ELSE Undisturbed(x, y)
      BY <1>2, NativeRollbackLocalEffect
    <2>5. x.nsig = t.nsig /\ x.ncl = t.ncl /\ Undisturbed(t, x)
      BY <1>2 DEF Alike, Undisturbed
    <2> HIDE DEF y
    <2> QED
      BY <2>2, <2>3, <2>4, <2>5, UndisturbedSteps
  <1> HIDE DEF y
  <1>4. n = IF t.l # NoDesc /\ t.l.data THEN y ELSE t
    BY Zenon DEF y
  <1> HIDE DEF n
  <1>5. /\ n \in States /\ SameMade(t, n) /\ SameRestarts(t, n) /\ SameLocal(t, n)
        /\ SameRemote(t, n)
        /\ IF t.l # NoDesc /\ t.l.data /\ t.nsig = HLO
           THEN /\ n.nsig = "stable" /\ n.nl = t.ncl /\ n.ncl = t.ncl
                /\ Silent(t) => Silent(n)
           ELSE Undisturbed(t, n)
    BY <1>3, <1>4, UndisturbedSteps DEF SameMade, SameRestarts, SameLocal, SameRemote
  <1>6. Kept(n, r) /\ SameRemote(n, r) /\ r.l = n.cl /\ r.cl = n.cl /\ r.pl = NoDesc
    BY <1>5, RollbackKeeps
  <1>7. Carried(n, r) /\ r \in States
    BY <1>6, CarriedSteps DEF Carried
  <1> HIDE DEF r
  <1>8. /\ p \in States /\ SameMade(r, p) /\ SameRestarts(r, p) /\ SameLocal(r, p)
        /\ SameRemote(r, p) /\ Undisturbed(r, p) /\ p.paired = "none"
    BY <1>7, StateValues
    DEF PairedStates, SameMade, SameRestarts, SameLocal, SameRemote, Undisturbed, States
  <1> HIDE DEF p
  <1>9. Alike(p, u) /\ u.sig = "stable"
    BY <1>8, EnterStateKeeps, StateNames, AlikeSteps
  <1> HIDE DEF u
  <1>10. /\ u \in States /\ SameMade(t, u) /\ SameRestarts(t, u) /\ SameRemote(t, u)
         /\ u.pl = NoDesc /\ u.l = t.cl /\ u.cl = t.cl /\ u.sig = "stable"
         /\ u.paired = "none" /\ Undisturbed(n, u)
    BY <1>5, <1>6, <1>7, <1>8, <1>9 DEF Alike, Carried, SameMade, SameRestarts, SameLocal,
        SameRemote, Undisturbed
  <1>11. Silent(n) => Silent(u)
    BY <1>10 DEF Undisturbed, Silent, Tells
  <1>12. IF t.l # NoDesc /\ t.l.data /\ t.nsig = HLO
         THEN /\ u.nsig = "stable" /\ u.nl = t.ncl /\ u.ncl = t.ncl
              /\ Silent(t) => Silent(u)
         ELSE Undisturbed(t, u)
    BY <1>5, <1>10, <1>11, UndisturbedSteps DEF Undisturbed
  <1> QED
    BY <1>1, <1>10, <1>12

LEMMA RollbackLocalOfferJoint ==
    ASSUME NEW t \in States, Joint(t), Silent(t), t.pl.type = "offer", ~t.jsOffer,
           t.pr.type = "none"
    PROVE  LET u == RollbackLocalOffer(t)
           IN  Joint(u) /\ Idle(u) /\ Moves(t, u) /\ Silent(u)
  <1> DEFINE u == RollbackLocalOffer(t)
  <1>1. /\ u \in States /\ SameMade(t, u) /\ SameRestarts(t, u) /\ SameRemote(t, u)
        /\ u.pl = NoDesc /\ u.l = t.cl /\ u.cl = t.cl /\ u.sig = "stable"
        /\ u.paired = "none"
        /\ IF t.l # NoDesc /\ t.l.data /\ t.nsig = HLO
           THEN /\ u.nsig = "stable" /\ u.nl = t.ncl /\ u.ncl = t.ncl
                /\ Silent(t) => Silent(u)
           ELSE Undisturbed(t, u)
    BY RollbackLocalOfferEffect
  <1> HIDE DEF u
  <1>2. t.pl # NoDesc /\ t.l = t.pl /\ t.pr = NoDesc /\ NoDesc.type = "none"
    BY StateMedia DEF Joint, Described, Blank
  <1>3. t.nsig = HLO => t.l # NoDesc /\ t.l.data
    BY <1>2 DEF Joint, NativeFits
  <1>4. Silent(u) /\ u.ncl = t.ncl /\ (u.nsig = "stable" \/ u.nsig = t.nsig)
        /\ u.nl = u.ncl /\ u.nsig # HLO
    BY <1>1, <1>3 DEF Undisturbed, Silent, Tells, Joint, NativeFits, HLO
  <1>5. Described(u)
    BY <1>1, <1>2 DEF Joint, Described, Blank, SameRemote
  <1>6. NativeFits(u)
    BY <1>1, <1>2, <1>3, <1>4 DEF Joint, NativeFits, Undisturbed
  <1>7. News(u) /\ Offered(u)
    BY <1>1, <1>2, <1>4 DEF Joint, News, Offered, SameMade
  <1>8. Answerable(u) /\ Restarts(u)
    BY <1>1, <1>2, <1>4 DEF Joint, Answerable, Restarts, SameMade, SameRestarts, SameRemote,
                           HRO
  <1>9. Joint(u)
    BY <1>5, <1>6, <1>7, <1>8 DEF Joint
  <1>10. Idle(u) /\ Moves(t, u)
    BY <1>1, <1>2 DEF Idle, SameRestarts, SameRemote, Moves, SameCurrent
  <1> QED
    BY <1>4, <1>9, <1>10 DEF u

LEMMA SetLocalRollbackJoins == ASSUME Given, SetLocalRollback PROVE Upheld
  <1> DEFINE u == RollbackLocalOffer(s)
  <1>1. LocalWork("rollback") /\ Await(u, "clear")
    BY DEF SetLocalRollback
  <1>2. /\ Describes /\ Task.op = "setLocal" /\ s \in States /\ Joint(s) /\ Phase(s)
        /\ LocalExpects(s, Task) /\ ~s.closed /\ Upcoming(s, Task) /\ Task.at = "work"
    BY <1>1, LocalGiven
  <1>3. /\ Task.desc.type = "rollback" /\ Task.type = "rollback"
        /\ ~InvalidLocal(s, Task.desc)
    BY <1>1, LocalWorkFacts DEF Given
  <1>4. s.sig = HLO /\ NoPranswer(s)
    BY <1>2, <1>3 DEF InvalidLocal, Upcoming, SetOps
  <1>5. ~s.jsOffer /\ s.pl.type = "offer" /\ s.pr.type = "none"
    BY <1>2, <1>4 DEF NoPranswer, Phase, Exchanges, HLO, HRO, HLP, HRP
  <1>6. Joint(u) /\ Idle(u) /\ Moves(s, u) /\ SameMade(s, u)
    <2>1. Silent(s)
      BY <1>2, <1>3, <1>5 DEF LocalExpects
    <2> QED
      BY <2>1, <1>2, <1>5, RollbackLocalOfferJoint, RollbackLocalOfferEffect
  <1> HIDE DEF u
  <1>7. Consistent(u) /\ Achieved(u, Task)
    BY <1>2, <1>3, <1>6, JointConsistent DEF Achieved
  <1> QED
    BY <1>1, <1>2, <1>6, <1>7, AwaitStageJoins DEF SetOps

LEMMA SetLocalPranswerJoins == ASSUME Given, SetLocalPranswer PROVE Upheld
  <1> DEFINE x == SetPendingLocal(s, Task.desc)
             u == EnterState(x, HLP, s.sig)
  <1>1. LocalWork("pranswer") /\ Await(u, "done")
    BY DEF SetLocalPranswer
  <1>2. /\ Describes /\ Task.op = "setLocal" /\ s \in States /\ Joint(s) /\ Phase(s)
        /\ Task.desc \in Descriptions /\ ~s.closed
    BY <1>1, LocalGiven
  <1>3. /\ Task.desc.type = "pranswer" /\ Task.type = "pranswer" /\ Task.desc # NoDesc
        /\ ~InvalidLocal(s, Task.desc)
    BY <1>1, LocalWorkFacts DEF Given
  <1>4. s.pr.type = "offer" /\ ~s.jsOffer
    BY <1>2, <1>3 DEF InvalidLocal, Phase, Exchanges, HLO, HRO, HLP, HRP
  <1>5. Carried(s, x) /\ SameRemote(s, x) /\ x.l = Task.desc /\ x.pl = Task.desc
        /\ x.cl = s.cl
    BY <1>2, SetPendingKeeps, CarriedSteps
  <1> HIDE DEF x
  <1>6. Alike(x, u)
    BY <1>5, EnterStateKeeps, StateNames, AlikeSteps DEF Carried
  <1> HIDE DEF u
  <1>7. /\ Carried(s, u) /\ SameRemote(s, u) /\ u.l = Task.desc /\ u.pl = Task.desc
        /\ u.cl = s.cl
    BY <1>6, CarriedSteps, <1>5 DEF SameLocal, SameRemote
  <1>8. Joint(u)
    BY <1>2, <1>3, <1>4, <1>7
       DEF Joint, Described, Blank, NativeFits, News, Silent, Tells, Offered, Answerable,
           Restarts, Carried, SameMade, SameRestarts, SameRemote, Undisturbed
  <1>9. Consistent(u) /\ Achieved(u, Task) /\ Moves(s, u)
    <2>1. Consistent(u)
      BY <1>2, <1>7, <1>8, JointConsistent DEF Carried
    <2> QED
      BY <1>3, <1>4, <1>7, <2>1 DEF Achieved, Moves, SameCurrent, SameRemote
  <1> QED
    BY <1>1, <1>2, <1>9, AwaitStageJoins DEF SetOps

LEMMA SetLocalAppliedJoins == ASSUME Given, SetLocalApplied PROVE Upheld
  <1> DEFINE x == SyncStatesFromNative(s)
             u == AddPendingCandidates(x)
  <1>1. LocalWork("applied") /\ Settle(u)
    BY DEF SetLocalApplied
  <1>2. /\ Describes /\ Task.op = "setLocal" /\ s \in States /\ Consistent(s)
        /\ Shape(Task) /\ LocalPath(s, Task.desc, Task.type) = "applied"
    BY <1>1, LocalGiven, JoinedFacts
  <1>3. AlreadyApplied(s, Task.desc)
    BY <1>2 DEF LocalPath
  <1>4. Task.desc.type = "answer" /\ Task.desc # NoDesc /\ Task.type = "answer"
    BY <1>2, <1>3, StateMedia DEF AlreadyApplied, Shape, SetOps
  <1>5. Alike(s, x) /\ x \in States
    BY <1>2, SyncEnters, AlikeSteps DEF SyncStatesFromNative, Alike
  <1> HIDE DEF x
  <1>6. Alike(x, u)
    BY <1>5, AddPendingCandidatesKeeps, AlikeSteps
  <1> HIDE DEF u
  <1>7. Alike(s, u) /\ u \in States
    BY <1>5, <1>6, AlikeSteps DEF Alike
  <1>8. Consistent(u) /\ Moves(s, u)
    BY <1>2, <1>7, AlikeConsistent, AlikeMoves
  <1> QED
    BY <1>1, <1>2, <1>4, <1>7, <1>8, SettleJoins

\* What a local offer without data, and an answer without data, meet.
LEMMA NoMediaOfferFits ==
    ASSUME NEW t \in States, Joint(t), NEW task, LocalExpects(t, task), Created(t),
           task.type = "offer", task.desc \in Descriptions,
           task.desc # NoDesc =>
               task.desc.type = "offer" /\ task.desc = Plain(t.lastOffer),
           t.sig = "stable" \/ t.pl.type = "offer", t.jsRemote = FALSE,
           NEW d, d = Or(task.desc, Or(t.lastOffer, NativeOffer(t))), ~d.data
    PROVE  /\ ~t.cl.data /\ t.pr.type # "offer" /\ t.nl.type # "answer" /\ ~t.jsOffer
           /\ t.nsig # HLO
           /\ t.nsig = HRO => ~t.restart
  <1>1. /\ t.lastOffer \in Descriptions /\ t.nl \in Descriptions /\ t.channels \in BOOLEAN
        /\ Plain(t.lastOffer).data = t.lastOffer.data /\ Plain(t.lastOffer).type = t.lastOffer.type
        /\ NativeOffer(t).data = (t.channels \/ t.nl # NoDesc)
        /\ NoDesc.type = "none"
    <2>1. t.lastOffer \in Descriptions /\ t.nl \in Descriptions /\ t.channels \in BOOLEAN
      BY StateFields
    <2>2. Plain(t.lastOffer).data = t.lastOffer.data
      BY <2>1, MediaFields
    <2>3. Plain(t.lastOffer).type = t.lastOffer.type
      BY <2>1, DescriptionOperators
    <2>4. (t.channels \/ t.nl # NoDesc) \in BOOLEAN
      BY <2>1
    <2>5. NativeOffer(t).data = (t.channels \/ t.nl # NoDesc)
      BY <2>4, MediaFields DEF NativeOffer
    <2> QED
      BY <2>1, <2>2, <2>3, <2>5, DescriptionTypes
  <1>2. Or(task.desc, t.lastOffer) # NoDesc => ~Or(task.desc, t.lastOffer).data
    BY DEF Or
  <1>3. Or(task.desc, t.lastOffer) = NoDesc => ~NativeOffer(t).data
    BY DEF Or
  <1>4. ~t.cl.data
    <2>1. CASE Or(task.desc, t.lastOffer) # NoDesc
      BY <1>2, <2>1 DEF LocalExpects
    <2>2. CASE Or(task.desc, t.lastOffer) = NoDesc
      BY <1>1, <1>3, <2>2 DEF Joint, Offered, NativeFits
    <2> QED
      BY <2>1, <2>2
  <1>5. t.ncl = NoDesc /\ t.nl.type # "answer"
    BY <1>1, <1>4 DEF Joint, NativeFits
  <1>6. ~(t.pl.type = "offer" /\ t.pl.data)
    <2> SUFFICES ASSUME t.pl.type = "offer", t.pl.data PROVE FALSE
      OBVIOUS
    <2>1. t.channels /\ (t.lastOffer = NoDesc \/ t.lastOffer.data)
      BY <1>4, <1>5 DEF Joint, Offered
    <2> QED
      BY <1>1, <1>2, <1>3, <2>1 DEF Or
  <1>7. t.nsig # HLO /\ ~t.jsOffer
    BY <1>4, <1>6 DEF Joint, NativeFits, Restarts
  <1>8. t.nsig = HRO => ~t.restart
    BY DEF Joint, Answerable, LocalExpects, HRO
  <1> QED
    BY <1>4, <1>5, <1>7, <1>8 DEF LocalExpects

LEMMA SetLocalNoMediaJoins == ASSUME Given, SetLocalNoMedia PROVE Upheld
  <1> DEFINE implicit == ImplicitLocal(s, Task.type)
             d == Or(Task.desc, implicit)
             t == IF Task.desc = NoDesc /\ Task.type = "offer" /\ s.lastOffer = NoDesc
                  THEN EnsureNative(s) ELSE s
             x == SetPendingLocal(t, d)
             y == [x EXCEPT !.sig = HLO]
             c == CommitAnswer(t, d)
             e == [c EXCEPT !.sig = "stable"]
  <1>1. LocalWork("noMedia")
    BY DEF SetLocalNoMedia
  <1>2. \/ d.type = "offer" /\ Await(Dispatch(y), "done")
        \/ d.type = "answer" /\ Await(Dispatch(e), "done")
    BY Zenon DEF SetLocalNoMedia
  <1>3. /\ Describes /\ Task.op = "setLocal" /\ s \in States /\ Created(s) /\ Joint(s)
        /\ Phase(s) /\ ~s.closed /\ LocalExpects(s, Task) /\ Shape(Task)
        /\ LocalPath(s, Task.desc, Task.type) = "noMedia" /\ Task.desc \in Descriptions
    BY <1>1, LocalGiven
  <1>4. AppliesNoMedia(s, Task.desc, Task.type)
    BY <1>3 DEF LocalPath
  <1>5. t \in States /\ Carried(s, t) /\ SameLocal(s, t) /\ SameRemote(s, t)
    BY <1>3, EnsureNativeStep, EnsureNativeKeeps, CarriedSteps
    DEF Carried, SameLocal, SameRemote
  <1> HIDE DEF t
  <1>6. CASE d.type = "offer" /\ Await(Dispatch(y), "done")
    <2>1. Task.type = "offer" /\ d \in Descriptions
      BY <1>3, ImplicitTyped, <1>6 DEF Shape, SetOps, Or
    <2>2. /\ s.pr.type # "offer" /\ s.jsRemote = FALSE
          /\ s.sig = "stable" \/ s.pl.type = "offer"
          /\ s.pr.type = "none" \/ s.pl.type = "offer"
          /\ Task.desc # NoDesc =>
                 Task.desc.type = "offer" /\ Task.desc = Plain(s.lastOffer)
      BY <1>1, <2>1, OfferGiven
    <2>3. d = Or(Task.desc, Or(s.lastOffer, NativeOffer(s)))
      BY <2>1 DEF ImplicitLocal, Or
    <2>4. ~d.data
      BY <1>4, <2>1 DEF AppliesNoMedia, IsNoMedia, Or
    <2>5. /\ ~s.cl.data /\ s.pr.type # "offer" /\ s.nl.type # "answer" /\ ~s.jsOffer
          /\ s.nsig # HLO
          /\ s.nsig = HRO => ~s.restart
      BY <1>3, <2>1, <2>2, <2>3, <2>4, NoMediaOfferFits
    <2> HIDE DEF d
    <2>6. Carried(t, x) /\ SameRemote(t, x) /\ x.l = d /\ x.pl = d /\ x.cl = t.cl
      BY <1>5, <2>1, SetPendingKeeps, CarriedSteps
    <2> HIDE DEF x
    <2>7. Alike(x, y) /\ y.sig = HLO /\ y \in States
      <3>1. Entered(x, y, HLO)
        BY <2>6, SigKeeps, StateNames DEF Carried
      <3> HIDE DEF y
      <3> QED
        BY <3>1, AlikeSteps DEF Alike
    <2> HIDE DEF y
    <2> DEFINE u == Dispatch(y)
    <2>8. Alike(y, u) /\ u.sig = HLO
      BY <2>7, EnterStateKeeps, AlikeSteps
    <2> HIDE DEF u
    <2>9. /\ Carried(s, u) /\ SameRemote(s, u) /\ u.l = d /\ u.pl = d /\ u.cl = s.cl
      BY <2>7, <2>8, AlikeSteps, CarriedSteps, <1>5, <2>6 DEF SameLocal, SameRemote
    <2>10. Joint(u)
      BY <1>3, <1>6, <2>1, <2>4, <2>5, <2>9, LocalOfferJoint DEF Carried, SameRestarts, Joint,
         Restarts
    <2>11. Consistent(u) /\ Moves(s, u) /\ Achieved(u, Task)
      <3>1. Consistent(u)
        BY <1>3, <2>9, <2>10, JointConsistent DEF Carried
      <3>2. Moves(s, u)
        BY <1>6, <2>2, <2>9, OfferMoves
      <3> QED
        BY <1>3, <1>6, <2>1, <2>8, <2>9, <3>1, <3>2 DEF Achieved
    <2> QED
      BY <1>3, <1>6, <2>11, AwaitStageJoins DEF SetOps, u
  <1>7. CASE d.type = "answer" /\ Await(Dispatch(e), "done")
    <2>1. Task.type = "answer" /\ d \in Descriptions
      BY <1>3, ImplicitTyped, <1>7 DEF Shape, SetOps, Or
    <2>2. /\ Task.desc # NoDesc => s.pr.type = "offer"
          /\ s.pr.type # "offer" => Idle(s) /\ s.cl.type = "answer" /\ s.cl.data
          /\ s.pr.type = "offer" => s.jsOffer = FALSE /\ RemoteDescription(s) = s.pr
      BY <1>1, <2>1, AnswerGiven
    <2>3. IsNoMedia(Task.desc) \/ (Task.desc = NoDesc /\ IsNoMedia(RemoteDescription(s)))
      BY <1>4, <2>1 DEF AppliesNoMedia
    <2>4. s.pr.type = "offer"
      <3> SUFFICES ASSUME s.pr.type # "offer" PROVE FALSE
        OBVIOUS
      <3>1. Task.desc = NoDesc /\ Idle(s) /\ s.cl.data
        BY <2>2
      <3>2. s.cr.data /\ RemoteDescription(s) = s.cr
        BY <1>3, <3>1 DEF Joint, Described, Idle, RemoteDescription, Or
      <3> QED
        BY <2>3, <3>1, <3>2 DEF IsNoMedia
    <2>5. d.data = s.pr.data
      <3>1. Or(Task.desc, s.lastAnswer) # NoDesc =>
                Or(Task.desc, s.lastAnswer).data = s.pr.data
        BY <1>3, <2>1, <2>4 DEF LocalExpects
      <3>2. d = Or(Task.desc, Or(s.lastAnswer, Local("answer", s.pr.data)))
        BY <2>1, <2>2, <2>4 DEF ImplicitLocal, Or
      <3>3. Local("answer", s.pr.data).data = s.pr.data
        BY <1>3, StateMedia, MediaFields
      <3> QED
        BY <3>1, <3>2, <3>3 DEF Or
    <2>6. ~s.pr.data
      BY <2>2, <2>3, <2>4, <2>5 DEF IsNoMedia, Or
    <2>7. ~s.cl.data /\ ~s.jsRemote /\ s.ncl = NoDesc
      BY <1>3, <2>4, <2>6 DEF Joint, Described, Restarts, NativeFits
    <2>8. s.pr # NoDesc /\ d # NoDesc
      BY <1>3, <1>7, <2>1, <2>4, StateMedia, MediaFields
    <2> HIDE DEF d
    <2>9. /\ Carried(t, c) /\ c.l = d /\ c.cl = d /\ c.pl = NoDesc
          /\ c.r = t.pr /\ c.cr = t.pr /\ c.pr = NoDesc
      BY <1>5, <2>1, CommitAnswerKeeps, <2>8, CarriedSteps DEF Or, SameRemote
    <2> HIDE DEF c
    <2>10. Alike(c, e) /\ e.sig = "stable" /\ e \in States
      <3>1. Entered(c, e, "stable")
        BY <2>9, SigKeeps, StateNames DEF Carried
      <3> HIDE DEF e
      <3> QED
        BY <3>1, AlikeSteps DEF Alike
    <2> HIDE DEF e
    <2> DEFINE u == Dispatch(e)
    <2>11. Alike(e, u) /\ u.sig = "stable"
      BY <2>10, EnterStateKeeps, AlikeSteps
    <2> HIDE DEF u
    <2>12. /\ Carried(s, u) /\ u.l = d /\ u.cl = d /\ u.pl = NoDesc
           /\ u.r = s.pr /\ u.cr = s.pr /\ u.pr = NoDesc
      BY <2>10, <2>11, AlikeSteps, CarriedSteps, <1>5, <2>9 DEF SameLocal, SameRemote
    <2>13. Joint(u)
      BY <1>3, <1>7, <2>1, <2>2, <2>4, <2>5, <2>6, <2>7, <2>12, LocalAnswerJoint
         DEF Carried, SameRestarts
    <2>14. Consistent(u) /\ Moves(s, u) /\ Achieved(u, Task)
      <3>1. Consistent(u)
        BY <1>3, <2>12, <2>13, JointConsistent DEF Carried
      <3>2. NoDesc.type = "none" /\ ~u.jsOffer
        BY <2>2, <2>4, <2>12, DescriptionTypes DEF Carried, SameRestarts
      <3> QED
        BY <1>7, <2>1, <2>4, <2>11, <2>12, <3>1, <3>2 DEF Moves, Achieved, Idle
    <2> QED
      BY <1>3, <1>7, <2>14, AwaitStageJoins DEF SetOps, u
  <1> QED
    BY <1>2, <1>6, <1>7

LEMMA ApplyRestartAnswerEffect ==
    ASSUME NEW t \in States, NEW a \in Descriptions, a.type = "answer",
           t.pr.type = "offer"
    PROVE  LET u == ApplyRestartAnswer(t, a)
           IN  /\ u \in States /\ SameMade(t, u) /\ Undisturbed(t, u)
               /\ u.l = MarkRestart(a) /\ u.cl = MarkRestart(a) /\ u.pl = NoDesc
               /\ u.r = t.pr /\ u.cr = t.pr /\ u.pr = NoDesc
               /\ u.jsRemote = FALSE /\ u.jsOffer = t.jsOffer /\ u.restart = t.restart
               /\ u.sig = "stable" /\ u.paired = t.paired
  <1> DEFINE d == MarkRestart(a)
             c == CommitAnswer(t, d)
             x == [c EXCEPT !.jsRemote = FALSE]
             u == EnterState(x, "stable", t.sig)
  <1>1. ApplyRestartAnswer(t, a) = u
    BY Zenon DEF ApplyRestartAnswer
  <1>2. d \in Descriptions /\ d # NoDesc /\ t.pr # NoDesc
    BY DescriptionOperators, StateMedia
  <1> HIDE DEF d
  <1>3. /\ Carried(t, c) /\ c.l = d /\ c.cl = d /\ c.pl = NoDesc
        /\ c.r = t.pr /\ c.cr = t.pr /\ c.pr = NoDesc
    BY <1>2, CommitAnswerKeeps, CarriedSteps DEF Or
  <1> HIDE DEF c
  <1>4. /\ x \in States /\ SameMade(c, x) /\ Undisturbed(c, x) /\ SameLocal(c, x)
        /\ SameRemote(c, x) /\ x.jsRemote = FALSE /\ x.jsOffer = c.jsOffer
        /\ x.restart = c.restart /\ x.paired = c.paired
    <2>1. x \in States /\ c \in States
      BY <1>3, StateFlags DEF Carried
    <2> QED
      BY <2>1 DEF SameMade, Undisturbed, SameLocal, SameRemote, States
  <1> HIDE DEF x
  <1>5. Alike(x, u) /\ u.sig = "stable"
    <2>1. Entered(x, u, "stable")
      BY <1>4, EnterStateKeeps, StateNames
    <2> HIDE DEF u
    <2> QED
      BY <2>1, AlikeSteps
  <1> HIDE DEF u
  <1>6. /\ u \in States /\ SameMade(t, u) /\ Undisturbed(t, u)
        /\ u.l = d /\ u.cl = d /\ u.pl = NoDesc
        /\ u.r = t.pr /\ u.cr = t.pr /\ u.pr = NoDesc
        /\ u.jsRemote = FALSE /\ u.jsOffer = t.jsOffer /\ u.restart = t.restart
        /\ u.sig = "stable" /\ u.paired = t.paired
    BY <1>3, <1>4, <1>5 DEF Carried, Alike, SameMade, SameRestarts, SameLocal, SameRemote,
        Undisturbed
  <1> QED
    BY <1>1, <1>6 DEF d

\* An answer that JavaScript alone applies to the offer of an ICE restart.
LEMMA ApplyRestartAnswerJoint ==
    ASSUME NEW t \in States, Joint(t), Phase(t), ~t.closed, t.jsRemote,
           NEW a \in Descriptions, a.type = "answer", a.data = t.pr.data
    PROVE  LET u == ApplyRestartAnswer(t, a)
           IN  u \in States /\ Joint(u) /\ Idle(u) /\ Moves(t, u) /\ SameMade(t, u)
  <1> DEFINE u == ApplyRestartAnswer(t, a)
             d == MarkRestart(a)
  <1>1. /\ t.pr.type = "offer" /\ t.cr.data /\ t.nsig = "stable" /\ t.nl.type # "offer"
        /\ NoDesc.type = "none"
    BY DescriptionTypes DEF Joint, Restarts
  <1>2. /\ u \in States /\ SameMade(t, u) /\ Undisturbed(t, u)
        /\ u.l = d /\ u.cl = d /\ u.pl = NoDesc
        /\ u.r = t.pr /\ u.cr = t.pr /\ u.pr = NoDesc
        /\ u.jsRemote = FALSE /\ u.jsOffer = t.jsOffer /\ u.restart = t.restart
        /\ u.sig = "stable" /\ u.paired = t.paired
    BY <1>1, ApplyRestartAnswerEffect
  <1>3. d \in Descriptions /\ d.type = "answer" /\ d.data = t.pr.data
    BY DescriptionOperators, MediaFields
  <1>4. t.jsOffer = FALSE
    BY <1>1, StateFields DEF Phase
  <1>5. t.cl.data /\ (t.ncl # NoDesc => t.ncl.type = "answer")
    BY <1>1, StateMedia DEF Joint, Described, NativeFits, HLO, FromNative
  <1> HIDE DEF u, d
  <1>6. Joint(u)
    BY <1>1, <1>2, <1>3, <1>4, <1>5, LocalAnswerJoint DEF HRO
  <1>7. Idle(u) /\ Moves(t, u)
    BY <1>1, <1>2, <1>3, <1>4 DEF Idle, Moves
  <1> QED
    BY <1>2, <1>6, <1>7 DEF u

LEMMA SetLocalRestartAnswerJoins == ASSUME Given, SetLocalRestartAnswer PROVE Upheld
  <1> DEFINE a == Or(Task.desc, ImplicitLocal(s, "answer"))
             u == ApplyRestartAnswer(s, a)
  <1>1. LocalWork("restartAnswer") /\ Await(u, "done")
    BY DEF SetLocalRestartAnswer
  <1>2. /\ Describes /\ Task.op = "setLocal" /\ s \in States /\ Created(s) /\ Joint(s)
        /\ Phase(s) /\ ~s.closed /\ LocalExpects(s, Task) /\ Shape(Task)
        /\ LocalPath(s, Task.desc, Task.type) = "restartAnswer"
        /\ Task.desc \in Descriptions
    BY <1>1, LocalGiven
  <1>3. Task.type = "answer" /\ s.jsRemote
    BY <1>2 DEF LocalPath
  <1>4. s.pr.type = "offer" /\ RemoteDescription(s) = s.pr
        /\ (Task.desc # NoDesc => Task.desc.type = "answer")
    BY <1>1, <1>2, <1>3, AnswerGiven DEF Joint, Restarts
  <1>5. a \in Descriptions /\ a.type = "answer" /\ a.data = s.pr.data
    BY <1>2, <1>3, <1>4, StateMedia, MediaFields, ImplicitTyped
    DEF LocalExpects, ImplicitLocal, Or
  <1> HIDE DEF a
  <1>6. u \in States /\ Joint(u) /\ Idle(u) /\ Moves(s, u) /\ SameMade(s, u)
    BY <1>2, <1>3, <1>5, ApplyRestartAnswerJoint
  <1> HIDE DEF u
  <1>7. Consistent(u) /\ Achieved(u, Task)
    BY <1>2, <1>3, <1>6, JointConsistent DEF Achieved
  <1> QED
    BY <1>1, <1>2, <1>6, <1>7, AwaitStageJoins DEF SetOps

\* The state that follows from the descriptions is entered, and perhaps announced.
LEMMA SyncAlike ==
    ASSUME NEW t \in States, NEW before
    PROVE  /\ LET u == SyncSignalingState(t)
              IN  u \in States /\ Alike(t, u) /\ u.sig = Synced(t)
           /\ LET u == DispatchIfChanged(SyncSignalingState(t), before)
              IN  u \in States /\ Alike(t, u) /\ u.sig = Synced(t)
           /\ LET u == AddPendingCandidates(SyncSignalingState(t))
              IN  u \in States /\ Alike(t, u) /\ u.sig = Synced(t)
  <1> DEFINE x == SyncSignalingState(t)
  <1>1. x \in States /\ Alike(t, x) /\ x.sig = Synced(t)
    <2>1. Entered(t, x, Synced(t))
      BY SyncEnters
    <2> HIDE DEF x
    <2> QED
      BY <2>1, AlikeSteps DEF Alike
  <1> HIDE DEF x
  <1>2. LET u == DispatchIfChanged(x, before)
        IN  u \in States /\ Alike(t, u) /\ u.sig = Synced(t)
    <2> DEFINE u == DispatchIfChanged(x, before)
    <2>1. Entered(x, u, x.sig)
      BY <1>1, EnterStateKeeps
    <2> HIDE DEF u
    <2>2. Alike(x, u) /\ u.sig = x.sig
      BY <2>1, AlikeSteps
    <2>3. Alike(t, u)
      BY <1>1, <2>2, AlikeSteps
    <2> QED
      BY <1>1, <2>2, <2>3 DEF Alike, u
  <1>3. LET u == AddPendingCandidates(x)
        IN  u \in States /\ Alike(t, u) /\ u.sig = Synced(t)
    <2> DEFINE u == AddPendingCandidates(x)
    <2>1. Flush(x, u)
      BY <1>1, AddPendingCandidatesKeeps
    <2> HIDE DEF u
    <2>2. Alike(x, u) /\ u.sig = x.sig
      BY <2>1, AlikeSteps
    <2>3. Alike(t, u)
      BY <1>1, <2>2, AlikeSteps
    <2> QED
      BY <1>1, <2>2, <2>3 DEF Alike, u
  <1> QED
    BY <1>1, <1>2, <1>3 DEF x

\* The same of a state that bears new descriptions.
LEMMA CarriedAlike ==
    ASSUME NEW t, NEW u, NEW v, Carried(t, u), Alike(u, v)
    PROVE  Carried(t, v) /\ SameLocal(u, v) /\ SameRemote(u, v) /\ v \in States
  BY CarriedSteps DEF Carried

\* A completed exchange.
LEMMA CommitAnswerFields ==
    ASSUME NEW t \in States, NEW d \in Descriptions, d # NoDesc
    PROVE  /\ LET c == CommitAnswer(t, d)
              IN  /\ Carried(t, c) /\ c.l = d /\ c.cl = d /\ c.pl = NoDesc /\ c.pr = NoDesc
                  /\ c.r = c.cr /\ (t.pr # NoDesc => c.cr = t.pr)
           /\ LET c == CommitRemoteAnswer(t, d)
              IN  /\ Carried(t, c) /\ c.r = d /\ c.cr = d /\ c.pl = NoDesc /\ c.pr = NoDesc
                  /\ c.l = c.cl /\ (t.pl # NoDesc => c.cl = t.pl)
  <1>1. LET c == CommitAnswer(t, d)
        IN  /\ Carried(t, c) /\ c.l = d /\ c.cl = d /\ c.pl = NoDesc /\ c.pr = NoDesc
            /\ c.r = c.cr /\ (t.pr # NoDesc => c.cr = t.pr)
    <2> DEFINE c == CommitAnswer(t, d)
    <2>1. Kept(t, c) /\ c.pl = NoDesc /\ c.pr = NoDesc /\ c.l = Or(d, t.cl)
          /\ c.cl = Or(d, t.cl) /\ c.cr = Or(Or(t.pr, t.r), t.cr) /\ c.r = c.cr
      BY CommitAnswerKeeps
    <2> HIDE DEF c
    <2> QED
      BY <2>1, CarriedSteps DEF Or, c
  <1>2. LET c == CommitRemoteAnswer(t, d)
        IN  /\ Carried(t, c) /\ c.r = d /\ c.cr = d /\ c.pl = NoDesc /\ c.pr = NoDesc
            /\ c.l = c.cl /\ (t.pl # NoDesc => c.cl = t.pl)
    <2> DEFINE c == CommitRemoteAnswer(t, d)
    <2>1. Kept(t, c) /\ c.pl = NoDesc /\ c.pr = NoDesc /\ c.r = Or(d, t.cr)
          /\ c.cr = Or(d, t.cr) /\ c.cl = Or(Or(t.pl, t.l), t.cl) /\ c.l = c.cl
      BY CommitAnswerKeeps
    <2> HIDE DEF c
    <2> QED
      BY <2>1, CarriedSteps DEF Or, c
  <1> QED
    BY <1>1, <1>2

LEMMA SetLocalDataOnlyJoins == ASSUME Given, SetLocalDataOnly PROVE Upheld
  <1> DEFINE d == Or(Task.desc, s.cl)
             t == IF Task.type = "offer" THEN SetPendingLocal(s, d) ELSE CommitAnswer(s, d)
             u == DispatchIfChanged(SyncSignalingState(t), s.sig)
  <1>1. LocalWork("dataOnly") /\ Await(u, "done")
    BY DEF SetLocalDataOnly
  <1>2. /\ Describes /\ Task.op = "setLocal" /\ s \in States /\ Created(s) /\ Joint(s)
        /\ Phase(s) /\ ~s.closed /\ LocalExpects(s, Task) /\ Shape(Task)
        /\ LocalPath(s, Task.desc, Task.type) = "dataOnly" /\ Task.desc \in Descriptions
        /\ Task.type \in {"offer", "answer"}
    BY <1>1, LocalGiven, LocalWorkFacts DEF Given
  <1>3. NoDesc.type = "none" /\ NoDesc.data = FALSE /\ s.cl \in Descriptions
    BY <1>2, DescriptionTypes, MediaFields, StateFields
  <1>4. d \in Descriptions
    BY <1>2, <1>3 DEF Or
  <1>5. CASE Task.type = "offer"
    <2>1. DataOnlyLocalOffer(s, Task.desc)
      BY <1>2, <1>5 DEF LocalPath
    <2>2. /\ s.pr.type # "offer" /\ s.jsRemote = FALSE
          /\ s.pr.type = "none" \/ s.pl.type = "offer"
          /\ Task.desc # NoDesc => Task.desc.type = "offer"
      BY <1>1, <1>5, OfferGiven
    <2>3. d.type = "offer" /\ d.data
      BY <2>1, <2>2 DEF DataOnlyLocalOffer, Or
    <2>4. s.cl.type = "offer" /\ s.cl.data /\ ~s.restart
      BY <2>1 DEF DataOnlyLocalOffer
    <2>5. s.nl.type # "answer" /\ s.ncl.type # "answer" /\ s.nsig # HRO
          /\ (s.channels \/ s.ncl # NoDesc)
      BY <1>2, <1>3, <2>2, <2>4 DEF Joint, NativeFits, Answerable, Offered
    <2> DEFINE x == SetPendingLocal(s, d)
    <2>6. t = x
      BY <1>5
    <2>7. Carried(s, x) /\ SameRemote(s, x) /\ x.l = d /\ x.pl = d /\ x.cl = s.cl
      BY <1>2, <1>4, SetPendingKeeps, CarriedSteps
    <2> HIDE DEF x, d, t
    <2>8. Alike(x, u) /\ u.sig = Synced(x)
      BY <2>6, <2>7, SyncAlike DEF Carried
    <2>9. u.sig = HLO
      BY <1>2, <2>3, <2>7, <2>8 DEF Synced, DescriptionSignalingState, Carried, SameMade
    <2> HIDE DEF u
    <2>10. /\ Carried(s, u) /\ SameRemote(s, u) /\ u.l = d /\ u.pl = d /\ u.cl = s.cl
      BY <2>7, <2>8, CarriedAlike DEF SameLocal, SameRemote
    <2>11. Joint(u)
      BY <1>2, <1>4, <2>2, <2>3, <2>4, <2>5, <2>10, LocalOfferJoint DEF Carried, SameRestarts
    <2>12. Consistent(u) /\ Moves(s, u) /\ Achieved(u, Task)
      <3>1. Consistent(u) /\ Moves(s, u)
        BY <1>2, <2>2, <2>3, <2>10, <2>11, JointConsistent, OfferMoves DEF Carried
      <3> QED
        BY <1>2, <1>5, <2>3, <2>9, <2>10, <3>1 DEF Achieved
    <2> QED
      BY <1>1, <1>2, <2>12, AwaitStageJoins DEF SetOps
  <1>6. CASE Task.type = "answer"
    <2>1. DataOnlyLocalAnswer(s, Task.desc) /\ ~s.jsRemote
      BY <1>2, <1>6 DEF LocalPath
    <2>2. /\ Task.desc # NoDesc => Task.desc.type = "answer"
          /\ s.jsOffer = FALSE
      BY <1>1, <1>6, <2>1, AnswerGiven DEF DataOnlyLocalAnswer
    <2>3. /\ s.pr.type = "offer" /\ s.cl.type = "answer" /\ s.pr.data /\ s.cl.data
          /\ d.type = "answer" /\ d.data
      BY <2>1, <2>2 DEF DataOnlyLocalAnswer, Or
    <2>4. s.nsig # HRO /\ (s.ncl # NoDesc => s.ncl.type = "answer")
      BY <1>2, <2>3 DEF Joint, NativeFits, Answerable
    <2> DEFINE x == CommitAnswer(s, d)
    <2>5. t = x
      BY <1>6
    <2>6. d # NoDesc /\ s.pr # NoDesc /\ d.data = s.pr.data
      BY <1>2, <1>3, <1>4, <2>3, MediaFields, StateMedia
    <2>7. /\ Carried(s, x) /\ x.l = d /\ x.cl = d /\ x.pl = NoDesc
          /\ x.r = s.pr /\ x.cr = s.pr /\ x.pr = NoDesc
      BY <1>2, <1>4, <2>6, CommitAnswerFields
    <2> HIDE DEF x, d, t
    <2>8. Alike(x, u) /\ u.sig = Synced(x)
      BY <2>5, <2>7, SyncAlike DEF Carried
    <2>9. u.sig = "stable"
      BY <1>2, <1>3, <2>2, <2>7, <2>8 DEF Synced, DescriptionSignalingState, Carried, SameMade,
         SameRestarts
    <2> HIDE DEF u
    <2>10. /\ Carried(s, u) /\ u.l = d /\ u.cl = d /\ u.pl = NoDesc
           /\ u.r = s.pr /\ u.cr = s.pr /\ u.pr = NoDesc
      BY <2>7, <2>8, CarriedAlike DEF SameLocal, SameRemote
    <2>11. Joint(u)
      BY <1>2, <1>4, <2>1, <2>2, <2>3, <2>4, <2>6, <2>10, LocalAnswerJoint
         DEF Carried, SameRestarts
    <2>12. Consistent(u) /\ Moves(s, u) /\ Achieved(u, Task)
      <3>1. Consistent(u)
        BY <1>2, <2>10, <2>11, JointConsistent DEF Carried
      <3> QED
        BY <1>3, <1>6, <2>2, <2>3, <2>9, <2>10, <3>1 DEF Achieved, Idle, Moves, Carried,
           SameRestarts
    <2> QED
      BY <1>1, <1>2, <2>12, AwaitStageJoins DEF SetOps
  <1> QED
    BY <1>2, <1>5, <1>6

LEMMA SetLocalSyncJoins == ASSUME Given, SetLocalSync PROVE Upheld
  <1> DEFINE x == CommitAnswer(s, s.l)
             u == AddPendingCandidates(SyncSignalingState(x))
  <1>1. LocalWork("sync") /\ Await(u, "refresh")
    BY DEF SetLocalSync
  <1>2. /\ Describes /\ Task.op = "setLocal" /\ s \in States /\ Joint(s) /\ Phase(s)
        /\ ~s.closed /\ LocalPath(s, Task.desc, Task.type) = "sync"
    BY <1>1, LocalGiven
  <1>3. Task.type = s.l.type /\ Task.type # "offer" /\ s.pr = NoDesc
    BY <1>2 DEF LocalPath
  <1>4. NoDesc.type = "none" /\ {s.l, s.cl} \subseteq Descriptions
    BY <1>2, DescriptionTypes, StateFields
  <1>5. s.pl.type # "offer" /\ s.jsOffer = FALSE
    BY <1>2, <1>3, StateFields DEF Joint, Described, Restarts
  <1>6. s.pl = NoDesc /\ s.sig = "stable"
    BY <1>2, <1>3, <1>4, <1>5 DEF Phase, Exchanges, Joint, Described, Blank
  <1>7. s.l = s.cl /\ s.r = s.cr
    BY <1>2, <1>3, <1>6 DEF Joint, Described, Or
  <1>8. Alike(s, x) /\ x \in States
    <2>1. Kept(s, x) /\ x.pl = NoDesc /\ x.pr = NoDesc /\ x.l = Or(s.l, s.cl)
          /\ x.cl = Or(s.l, s.cl) /\ x.cr = Or(Or(s.pr, s.r), s.cr) /\ x.r = x.cr
      BY <1>2, <1>4, CommitAnswerKeeps
    <2> HIDE DEF x
    <2>2. SameLocal(s, x) /\ SameRemote(s, x)
      BY <1>3, <1>6, <1>7, <2>1 DEF Or, SameLocal, SameRemote
    <2> QED
      BY <2>1, <2>2, FirmAlike DEF Kept, Firm
  <1> HIDE DEF x
  <1>9. u \in States /\ Alike(x, u) /\ u.sig = Synced(x)
    BY <1>8, SyncAlike
  <1> HIDE DEF u
  <1>10. Alike(s, u)
    BY <1>8, <1>9, AlikeSteps
  <1>11. u.sig = "stable"
    BY <1>2, <1>3, <1>4, <1>5, <1>6, <1>8, <1>9
       DEF Synced, DescriptionSignalingState, Alike, SameMade, SameRestarts, SameLocal,
           SameRemote
  <1>12. Consistent(u) /\ Moves(s, u) /\ Achieved(u, Task)
    <2>1. Consistent(u) /\ Moves(s, u)
      BY <1>10, AlikeConsistent, AlikeMoves, JoinedFacts
    <2>2. Idle(u)
      BY <1>3, <1>5, <1>6, <1>10, <1>11 DEF Idle, Alike, SameRestarts, SameLocal, SameRemote
    <2> QED
      BY <1>2, <1>3, <2>1, <2>2 DEF Achieved
  <1> QED
    BY <1>1, <1>2, <1>12, AwaitStageJoins DEF SetOps

\* An offer with data, which its path neither finds without media nor unchanged.
LEMMA OfferWithData ==
    ASSUME Given, NEW path, LocalWork(path), path \in {"restartOffer", "native"},
           Task.type = "offer",
           NEW d, d = Or(Task.desc, Or(s.lastOffer, NativeOffer(s)))
    PROVE  /\ d \in Descriptions /\ d.type = "offer" /\ d.data
           /\ s.nsig # HLO => s.channels \/ s.ncl # NoDesc
           /\ s.lastOffer = NoDesc \/ s.lastOffer.data
  <1>1. /\ s \in States /\ Created(s) /\ Joint(s) /\ ~s.closed
        /\ LocalPath(s, Task.desc, Task.type) = path /\ Task.desc \in Descriptions
    BY LocalGiven
  <1>2. ~AppliesNoMedia(s, Task.desc, Task.type)
    BY <1>1 DEF LocalPath
  <1>3. Task.desc # NoDesc => Task.desc.type = "offer" /\ Task.desc = Plain(s.lastOffer)
    BY OfferGiven
  <1>4. ImplicitLocal(s, "offer") = Or(s.lastOffer, NativeOffer(s))
    BY DEF ImplicitLocal
  <1>5. /\ ImplicitLocal(s, "offer") \in Descriptions
        /\ ImplicitLocal(s, "offer").type = "offer" /\ NoDesc.type = "none"
    BY <1>1, ImplicitTyped, DescriptionTypes
  <1>6. d \in Descriptions /\ d.type = "offer"
    BY <1>1, <1>3, <1>4, <1>5 DEF Or
  <1>7. d.data
    BY <1>2, <1>4, <1>5, <1>6 DEF AppliesNoMedia, IsNoMedia, Or
  <1>8. /\ s.lastOffer \in Descriptions /\ s.channels \in BOOLEAN
        /\ Plain(s.lastOffer).data = s.lastOffer.data
    BY <1>1, StateFields, MediaFields
  <1>9. s.lastOffer = NoDesc \/ s.lastOffer.data
    BY <1>3, <1>7, <1>8 DEF Or
  <1>10. s.nsig # HLO => s.channels \/ s.ncl # NoDesc
    <2>1. CASE s.lastOffer.data
      BY <1>1, <2>1 DEF Joint, Offered
    <2>2. CASE s.lastOffer = NoDesc
      <3>1. Task.desc = NoDesc
        BY <1>8, DescriptionOperators, <1>3, <1>5, <2>2
      <3>2. NativeOffer(s).data
        BY <1>7, <2>2, <3>1 DEF Or
      <3>3. NativeOffer(s).data = (s.channels \/ s.nl # NoDesc)
        BY <1>8, MediaFields DEF NativeOffer
      <3> QED
        BY <1>1, <3>2, <3>3 DEF Joint, NativeFits
    <2> QED
      BY <1>9, <2>1, <2>2
  <1> QED
    BY <1>6, <1>7, <1>9, <1>10

LEMMA SetLocalRestartOfferJoins == ASSUME Given, SetLocalRestartOffer PROVE Upheld
  <1> DEFINE a == Or(Task.desc, Or(s.lastOffer, NativeOffer(s)))
             d == MarkRestart(a)
             x == SetPendingLocal(s, d)
             t == [x EXCEPT !.jsOffer = TRUE, !.restart = FALSE]
             u == EnterState(t, HLO, s.sig)
  <1>1. LocalWork("restartOffer") /\ Await(u, "done")
    BY Zenon DEF SetLocalRestartOffer
  <1>2. /\ Describes /\ Task.op = "setLocal" /\ s \in States /\ Joint(s) /\ Phase(s)
        /\ ~s.closed /\ LocalPath(s, Task.desc, Task.type) = "restartOffer"
        /\ LocalExpects(s, Task)
    BY <1>1, LocalGiven
  <1>3. Task.type = "offer" /\ s.restart
    BY <1>2 DEF LocalPath
  <1>4. s.nsig # HLO
    BY <1>2, <1>3 DEF Joint, Restarts
  <1>5. /\ a \in Descriptions /\ a.type = "offer" /\ a.data
        /\ s.channels \/ s.ncl # NoDesc
        /\ s.lastOffer = NoDesc \/ s.lastOffer.data
    BY <1>1, <1>3, <1>4, OfferWithData
  <1> HIDE DEF a
  <1>6. d \in Descriptions /\ d.type = "offer" /\ d.data
    BY <1>5, DescriptionOperators, MediaFields
  <1>7. /\ s.pr.type # "offer" /\ s.jsRemote = FALSE
        /\ s.sig = "stable" \/ s.pl.type = "offer"
        /\ s.pr.type = "none" \/ s.pl.type = "offer"
    BY <1>1, <1>3, OfferGiven
  <1>8. s.nl.type # "answer" /\ s.nsig # HRO /\ s.ncl.type # "answer"
    BY <1>2, <1>3, <1>4, <1>7 DEF Joint, NativeFits, Answerable, LocalExpects, HRO
  <1> HIDE DEF d
  <1>9. Kept(s, x) /\ SameRemote(s, x) /\ x.l = d /\ x.pl = d /\ x.cl = s.cl
    BY <1>2, <1>6, SetPendingKeeps
  <1>10. Carried(s, x) /\ x \in States
    BY <1>9, CarriedSteps DEF Carried
  <1> HIDE DEF x
  <1>11. /\ t \in States /\ SameMade(x, t) /\ Undisturbed(x, t) /\ SameLocal(x, t)
         /\ SameRemote(x, t) /\ t.jsOffer = TRUE /\ t.restart = FALSE
         /\ t.jsRemote = x.jsRemote /\ t.paired = x.paired
    <2> DEFINE y == [x EXCEPT !.jsOffer = TRUE]
    <2>1. y \in States
      BY <1>10, StateFlags
    <2>2. [y EXCEPT !.restart = FALSE] \in States
      <3> HIDE DEF y
      <3> QED
        BY <2>1, StateFlags
    <2>3. t \in States
      BY <2>2
    <2> QED
      BY <1>10, <2>3 DEF SameMade, Undisturbed, SameLocal, SameRemote, States
  <1> HIDE DEF t
  <1>12. Alike(t, u) /\ u.sig = HLO
    <2>1. Entered(t, u, HLO)
      BY <1>11, EnterStateKeeps, StateNames
    <2> HIDE DEF u
    <2> QED
      BY <2>1, AlikeSteps
  <1> HIDE DEF u
  <1>13. /\ SameMade(s, u) /\ Undisturbed(s, u) /\ SameRemote(s, u) /\ u.paired = s.paired
         /\ u.l = d /\ u.pl = d /\ u.cl = s.cl /\ u.jsRemote = s.jsRemote
         /\ ~u.restart
    BY <1>9, <1>10, <1>11, <1>12 DEF Carried, Alike, SameMade, SameRestarts, SameLocal,
        SameRemote, Undisturbed
  <1>14. Joint(u)
    BY <1>2, <1>4, <1>5, <1>6, <1>7, <1>8, <1>13, LocalOfferJoint
  <1>15. Consistent(u) /\ Moves(s, u) /\ Achieved(u, Task)
    BY <1>2, <1>6, <1>7, <1>13, <1>14, JointConsistent, OfferMoves, <1>3, <1>12 DEF Achieved
  <1> QED
    BY <1>1, <1>2, <1>15, AwaitStageJoins DEF SetOps

\* A local offer, and a local answer, of the native peer.
LEMMA SetLocalNativeOfferJoins ==
    ASSUME Given, LocalWork("native"), Task.type = "offer",
           NEW n, n = NativeSetLocal(s, "offer"),
           NEW u, u = SyncSignalingState([SetPendingLocal(n, n.nl) EXCEPT !.restart = FALSE]),
           Await(u, "refresh")
    PROVE  Upheld
  <1>1. /\ Describes /\ Task.op = "setLocal" /\ s \in States /\ Joint(s) /\ Phase(s)
        /\ ~s.closed /\ LocalPath(s, Task.desc, Task.type) = "native" /\ Silent(s)
    BY LocalGiven DEF LocalExpects
  <1>2. NativeAcceptsLocal(s, "offer")
    BY <1>1 DEF LocalPath
  <1>3. s.nsig = "stable"
    BY <1>2 DEF NativeAcceptsLocal
  <1>4. /\ s.channels \/ s.ncl # NoDesc
        /\ s.lastOffer = NoDesc \/ s.lastOffer.data
    BY <1>3, OfferWithData DEF HLO
  <1>5. /\ s.pr.type # "offer" /\ s.jsRemote = FALSE
        /\ s.pr.type = "none" \/ s.pl.type = "offer"
    BY OfferGiven
  <1>6. /\ n.nl = Local("offer", TRUE) /\ n.ncl = s.ncl /\ n.nsig = HLO
        /\ n.native # "none" /\ Tells(n, {n.nl})
    BY <1>1, NativeSetLocalEffect
  <1>7. n \in States /\ SameExchange(s, n) /\ SameCandidates(s, n)
    BY <1>1, NativeSetLocalKeeps DEF NativeStep
  <1>8. n.nl \in Descriptions /\ n.nl.type = "offer" /\ n.nl.data = TRUE /\ n.nl # NoDesc
    <2>1. \A d \in {Local("offer", TRUE)} : d \in Descriptions /\ d.type = "offer"
      BY DescriptionTypes
    <2>2. \A d \in {Local("offer", TRUE)} : d.data = TRUE /\ d # NoDesc
      BY MediaFields
    <2> QED
      BY <1>6, <2>1, <2>2
  <1> DEFINE x == SetPendingLocal(n, n.nl)
             t == [x EXCEPT !.restart = FALSE]
  <1>9. /\ Carried(n, x) /\ SameRemote(n, x) /\ x.l = n.nl /\ x.pl = n.nl /\ x.cl = n.cl
        /\ x \in States
    BY <1>7, <1>8, SetPendingKeeps, CarriedSteps DEF Carried
  <1> HIDE DEF x
  <1>10. /\ t \in States /\ SameMade(x, t) /\ Undisturbed(x, t) /\ SameLocal(x, t)
         /\ SameRemote(x, t) /\ t.jsOffer = x.jsOffer /\ t.restart = FALSE
         /\ t.jsRemote = x.jsRemote /\ t.paired = x.paired
    <2>1. t \in States
      BY <1>9, StateFlags
    <2> QED
      BY <1>9, <2>1 DEF SameMade, Undisturbed, SameLocal, SameRemote, States
  <1>11. u = SyncSignalingState(t)
    BY DEF x
  <1> HIDE DEF t
  <1>12. Alike(t, u) /\ u.sig = Synced(t)
    BY <1>10, <1>11, SyncAlike
  <1>13. /\ SameMade(s, u) /\ SameRemote(s, u) /\ u.paired = s.paired
         /\ u.l = n.nl /\ u.pl = n.nl /\ u.cl = s.cl /\ u.jsRemote = s.jsRemote
         /\ u.jsOffer = s.jsOffer /\ ~u.restart
         /\ u.nl = n.nl /\ u.ncl = s.ncl /\ u.nsig = HLO /\ u.native # "none"
         /\ u.events = n.events
    <2>1. /\ SameMade(n, u) /\ SameRemote(n, u) /\ u.paired = n.paired
          /\ u.l = n.nl /\ u.pl = n.nl /\ u.cl = n.cl /\ u.jsRemote = n.jsRemote
          /\ u.jsOffer = n.jsOffer /\ ~u.restart
      BY <1>9, <1>10, <1>12 DEF Carried, Alike, SameMade, SameRestarts, SameLocal, SameRemote
    <2>2. Undisturbed(n, u)
      BY <1>9, <1>10, <1>12, UndisturbedSteps DEF Carried, Alike
    <2>3. /\ SameMade(s, u) /\ SameRemote(s, u) /\ u.paired = s.paired /\ u.cl = s.cl
          /\ u.jsRemote = s.jsRemote /\ u.jsOffer = s.jsOffer
      BY <1>7, <2>1 DEF SameMade, SameRemote, SameExchange, SameCandidates
    <2> QED
      BY <1>6, <2>1, <2>2, <2>3 DEF Undisturbed
  <1>14. Tells(u, {u.nl})
    BY <1>6, <1>13 DEF Tells
  <1>15. u.sig = HLO
    BY <1>1, <1>8, <1>10, <1>12, <1>13
       DEF Synced, DescriptionSignalingState, Alike, SameMade, SameLocal
  <1>16. Described(u)
    <2>1. Described(s)
      BY <1>1 DEF Joint
    <2>2. Blank(u.l) /\ Blank(u.pl) /\ u.l = u.pl /\ u.pl.type = "offer" /\ u.pl.data
      BY <1>8, <1>13 DEF Blank
    <2>3. u.cl = s.cl /\ u.cr = s.cr /\ u.pr = s.pr /\ u.r = s.r /\ u.pl # NoDesc
      BY <1>8, <1>13 DEF SameRemote
    <2> QED
      BY <2>1, <2>2, <2>3 DEF Described
  <1>17. NativeFits(u) /\ News(u)
    <2>1. News(u)
      BY <1>8, <1>13, <1>14 DEF News, HLO, HRO
    <2>2. FromNative(s.ncl) /\ (s.ncl # NoDesc => s.ncl.type = s.cl.type /\ s.cl.data)
      BY <1>1 DEF Joint, NativeFits
    <2>3. FromNative(u.nl)
      BY <1>6, <1>13 DEF FromNative
    <2> QED
      BY <1>5, <1>8, <1>13, <2>1, <2>2, <2>3 DEF NativeFits, SameRemote
  <1>18. Offered(u)
    BY <1>4, <1>13 DEF Offered, SameMade
  <1>19. Answerable(u) /\ Restarts(u)
    BY <1>1, <1>5, <1>8, <1>13 DEF Joint, Answerable, Restarts, HLO, HRO
  <1>20. Consistent(u) /\ Moves(s, u) /\ Achieved(u, Task)
    <2>1. Consistent(u) /\ Moves(s, u)
      BY <1>1, <1>5, <1>8, <1>13, <1>16, <1>17, <1>18, <1>19, JointConsistent, OfferMoves
         DEF Joint
    <2> QED
      BY <1>1, <1>8, <1>13, <1>15, <2>1 DEF Achieved
  <1> QED
    BY <1>1, <1>20, AwaitStageJoins DEF SetOps

\* A local answer of the native peer, set by this peer or for the other one.
LEMMA NativeAnswerEffect ==
    ASSUME NEW t \in States, Joint(t), Silent(t), ~t.closed,
           t.pr.type = "offer", t.pr.data, t.nsig = HRO, t.jsOffer = FALSE,
           NEW n, n = NativeSetLocal(t, "answer"),
           NEW u, u = AddPendingCandidates(SyncSignalingState(CommitAnswer(n, n.nl)))
    PROVE  /\ u \in States /\ Joint(u) /\ Idle(u) /\ Moves(t, u) /\ SameMade(t, u)
           /\ u.restart = t.restart
           /\ u.nsig = "stable" /\ u.cl.type = "answer" /\ u.cl.data
  <1>1. /\ n.nl = Local("answer", TRUE) /\ n.ncl = n.nl /\ n.nsig = "stable"
        /\ n.native # "none" /\ Tells(n, {n.nl})
    BY NativeSetLocalEffect
  <1>2. n \in States /\ SameExchange(t, n) /\ SameCandidates(t, n)
    BY NativeSetLocalKeeps DEF NativeStep
  <1>3. /\ n.nl \in Descriptions /\ n.nl.type = "answer" /\ n.nl.data = TRUE
        /\ n.nl # NoDesc /\ t.pr # NoDesc /\ NoDesc.type = "none"
    <2>1. t.pr # NoDesc
      BY StateMedia
    <2>2. n.nl \in Descriptions /\ n.nl.type = "answer" /\ NoDesc.type = "none"
      BY <1>1, DescriptionTypes
    <2>3. n.nl.data = TRUE /\ n.nl # NoDesc
      BY <1>1, MediaFields
    <2> QED
      BY <2>1, <2>2, <2>3
  <1> DEFINE x == CommitAnswer(n, n.nl)
  <1>4. /\ Carried(n, x) /\ x.l = n.nl /\ x.cl = n.nl /\ x.pl = NoDesc
        /\ x.r = t.pr /\ x.cr = t.pr /\ x.pr = NoDesc /\ x \in States
    BY <1>2, <1>3, CommitAnswerFields DEF SameExchange, Carried
  <1>5. u = AddPendingCandidates(SyncSignalingState(x))
    OBVIOUS
  <1> HIDE DEF x
  <1>6. u \in States /\ Alike(x, u) /\ u.sig = Synced(x)
    BY <1>4, <1>5, SyncAlike
  <1>7. /\ SameMade(t, u) /\ u.paired = t.paired
        /\ u.l = n.nl /\ u.cl = n.nl /\ u.pl = NoDesc
        /\ u.r = t.pr /\ u.cr = t.pr /\ u.pr = NoDesc
        /\ u.jsRemote = t.jsRemote /\ u.jsOffer = FALSE /\ u.restart = t.restart
        /\ u.nl = n.nl /\ u.ncl = u.nl /\ u.nsig = "stable" /\ u.native # "none"
        /\ u.events = n.events
    <2>1. /\ SameMade(n, u) /\ u.paired = n.paired
          /\ u.l = n.nl /\ u.cl = n.nl /\ u.pl = NoDesc
          /\ u.r = t.pr /\ u.cr = t.pr /\ u.pr = NoDesc
          /\ SameRestarts(n, u)
      BY <1>4, <1>6 DEF Carried, Alike, SameMade, SameRestarts, SameLocal, SameRemote
    <2>2. Undisturbed(n, u)
      BY <1>4, <1>6, UndisturbedSteps DEF Carried, Alike
    <2>3. /\ SameMade(t, u) /\ u.paired = t.paired
          /\ u.jsRemote = t.jsRemote /\ u.jsOffer = FALSE /\ u.restart = t.restart
      BY <1>2, <2>1 DEF SameMade, SameRestarts, SameExchange, SameCandidates
    <2> QED
      BY <1>1, <2>1, <2>2, <2>3 DEF Undisturbed
  <1>8. Tells(u, {u.nl})
    BY <1>1, <1>7 DEF Tells
  <1>9. Joint(u)
    <2>1. u.nl = Local("answer", TRUE) /\ u.l = u.nl /\ u.cl = u.nl
      BY <1>1, <1>7
    <2>2. ~u.jsOffer
      BY <1>7
    <2> QED
      BY <1>7, <1>8, <2>1, <2>2, NativeAnswerJoint
  <1>10. u.sig = "stable"
    BY <1>3, <1>6, <1>7 DEF Synced, DescriptionSignalingState, Alike, SameMade, SameRestarts,
       SameLocal, SameRemote
  <1> QED
    BY <1>3, <1>6, <1>7, <1>9, <1>10 DEF Idle, Moves

LEMMA SetLocalNativeJoins == ASSUME Given, SetLocalNative PROVE Upheld
  <1> DEFINE n == NativeSetLocal(s, Task.type)
  <1>1. LocalWork("native")
    BY DEF SetLocalNative
  <1>2. \/ /\ Task.type = "offer"
           /\ Await(SyncSignalingState([SetPendingLocal(n, n.nl) EXCEPT !.restart = FALSE]),
                    "refresh")
        \/ /\ Task.type = "answer"
           /\ Await(AddPendingCandidates(SyncSignalingState(CommitAnswer(n, n.nl))),
                    "refresh")
    BY Zenon DEF SetLocalNative
  <1>3. CASE /\ Task.type = "offer"
             /\ Await(SyncSignalingState([SetPendingLocal(n, n.nl)
                                             EXCEPT !.restart = FALSE]), "refresh")
    BY <1>1, <1>3, SetLocalNativeOfferJoins
  <1>4. CASE /\ Task.type = "answer"
             /\ Await(AddPendingCandidates(SyncSignalingState(CommitAnswer(n, n.nl))),
                      "refresh")
    <2> DEFINE u == AddPendingCandidates(SyncSignalingState(CommitAnswer(n, n.nl)))
    <2>1. /\ Describes /\ Task.op = "setLocal" /\ s \in States /\ Joint(s) /\ Phase(s)
          /\ ~s.closed /\ LocalPath(s, Task.desc, Task.type) = "native"
          /\ LocalExpects(s, Task)
      BY <1>1, LocalGiven
    <2>2. NativeAcceptsLocal(s, "answer") /\ ~AppliesNoMedia(s, Task.desc, Task.type)
      BY <1>4, <2>1 DEF LocalPath
    <2>3. s.nsig = HRO /\ Silent(s)
      BY <2>1, <2>2 DEF NativeAcceptsLocal, Joint, News
    <2>4. /\ Task.desc # NoDesc => s.pr.type = "offer"
          /\ s.pr.type # "offer" => Idle(s) /\ s.cl.type = "answer" /\ s.cl.data
          /\ s.pr.type = "offer" => s.jsOffer = FALSE /\ RemoteDescription(s) = s.pr
      BY <1>1, <1>4, AnswerGiven
    <2>5. s.pr.type = "offer"
      BY <2>1, <2>3, <2>4 DEF Joint, Answerable
    <2>6. s.pr.data
      <3>1. CASE Task.desc # NoDesc
        BY <1>4, <2>1, <2>2, <2>5, <3>1 DEF AppliesNoMedia, IsNoMedia, LocalExpects, Or
      <3>2. CASE Task.desc = NoDesc
        BY <2>1, <2>5, StateMedia, <1>4, <2>2, <2>4, <3>2 DEF AppliesNoMedia, IsNoMedia
      <3> QED
        BY <3>1, <3>2
    <2>7. Joint(u) /\ Idle(u) /\ Moves(s, u) /\ SameMade(s, u)
      BY <1>4, <2>1, <2>3, <2>4, <2>5, <2>6, NativeAnswerEffect
    <2>8. Await(u, "refresh")
      BY <1>4
    <2> HIDE DEF u
    <2>9. Consistent(u) /\ Achieved(u, Task)
      BY <1>4, <2>1, <2>7, JointConsistent DEF Achieved
    <2> QED
      BY <2>1, <2>7, <2>8, <2>9, AwaitStageJoins DEF SetOps
  <1> QED
    BY <1>2, <1>3, <1>4

\* The local description of the native peer is read again.
Renewed(t, u) ==
    /\ u \in States /\ SameMade(t, u) /\ SameRestarts(t, u) /\ SameRemote(t, u)
    /\ Undisturbed(t, u) /\ u.paired = t.paired
    /\ u.pl.type = t.pl.type /\ u.pl.data = t.pl.data /\ (u.pl = NoDesc <=> t.pl = NoDesc)
    /\ u.cl.type = t.cl.type /\ u.cl.data = t.cl.data
    /\ Described(u)
    /\ u.sig \in {t.sig, Synced(t)}

LEMMA RenewedJoint ==
    ASSUME NEW t, NEW u, Renewed(t, u), Joint(t)
    PROVE  Joint(u) /\ Moves(t, u)
  <1>1. NativeFits(u)
    BY DEF Renewed, Joint, NativeFits, SameRemote, Undisturbed
  <1>2. News(u)
    BY DEF Renewed, Joint, News, Silent, Tells, Undisturbed
  <1>3. Offered(u)
    BY DEF Renewed, Joint, Offered, SameMade, Undisturbed
  <1>4. Answerable(u)
    BY DEF Renewed, Joint, Answerable, SameMade, SameRestarts, SameRemote, Undisturbed
  <1>5. Restarts(u)
    BY DEF Renewed, Joint, Restarts, SameRestarts, SameRemote, Undisturbed
  <1>6. Moves(t, u)
    BY DEF Renewed, Moves, SameCurrent, SameRemote
  <1> QED
    BY <1>1, <1>2, <1>3, <1>4, <1>5, <1>6 DEF Renewed, Joint

\* No operation finds less than it expected.
LEMMA RenewedFits ==
    ASSUME NEW t, NEW u, Renewed(t, u), Phase(t), ~t.closed, t.jsOffer \in BOOLEAN,
           NEW task, Fits(t, task)
    PROVE  Fits(u, task)
  <1>1. Answers(u, task)
    BY DEF Renewed, Fits, Answers
  <1>2. u.sig = "stable" => t.sig = "stable"
    BY StableBefore DEF Renewed
  <1>3. ASSUME t.sig # u.sig
        PROVE  /\ ~Idle(t)
               /\ t.sig = HLO => t.pl.type # "offer"
               /\ t.sig = HRO => t.jsOffer
    BY <1>3, DescriptionTypes
       DEF Renewed, Synced, DescriptionSignalingState, Idle, Phase, Exchanges,
           HLO, HRO, HLP, HRP
  <1>4. Idle(t) => Idle(u)
    BY <1>3 DEF Idle, Renewed, SameRemote, SameRestarts
  <1>5. Achieved(t, task) => Achieved(u, task)
    BY <1>3, <1>4 DEF Achieved, Renewed, SameRemote, SameRestarts
  <1>6. LocalExpects(t, task) => LocalExpects(u, task)
    BY <1>2, <1>4 DEF LocalExpects, Renewed, SameMade, SameRemote, SameRestarts, Undisturbed,
                      Silent, Tells
  <1>7. RemoteExpects(t, task) => RemoteExpects(u, task)
    BY DEF RemoteExpects, RestartRemoteOffer, Renewed, SameRemote, SameRestarts, Undisturbed,
           Silent, Tells
  <1>8. Expects(t, task) => Expects(u, task)
    BY <1>5, <1>6, <1>7 DEF Expects, Renewed, SameRemote, SameRestarts, Undisturbed
  <1> QED
    BY <1>1, <1>8 DEF Fits, Renewed, SameMade

LEMMA RefreshRenews ==
    ASSUME NEW t \in States, Joint(t), Phase(t), ~t.closed, t.nl # NoDesc
    PROVE  LET u == RefreshCurrentOrPendingLocal(t, t.nl)
           IN  Renewed(t, u) /\ u.sig = t.sig
  <1> DEFINE u == RefreshCurrentOrPendingLocal(t, t.nl)
  <1>1. t.nl \in Descriptions /\ t.pl \in Descriptions /\ NoDesc.type = "none"
    BY StateFields, DescriptionTypes
  <1>2. /\ Kept(t, u) /\ SameRemote(t, u) /\ u.l = t.nl /\ u.pl.type = t.pl.type
        /\ IF t.pl.type = t.nl.type THEN u.pl = t.nl /\ u.cl = t.cl
                                    ELSE u.pl = t.pl /\ u.cl = t.nl
    BY <1>1, RefreshCurrentOrPendingKeeps
  <1> HIDE DEF u
  <1>3. Carried(t, u) /\ u.sig = t.sig
    BY <1>2, CarriedSteps DEF Kept
  <1>4. t.nl.data = TRUE /\ t.nl.type \in {"offer", "answer"}
    BY StateMedia, MediaFields DEF Joint, NativeFits, FromNative
  <1>5. t.pl.type # "answer"
    BY DEF Phase, Exchanges
  <1>6. Renewed(t, u)
    <2>1. CASE t.pl.type = t.nl.type
      <3>1. t.pl.type = "offer" /\ t.pl.data
        BY <1>4, <1>5, <2>1 DEF Joint, NativeFits, Described
      <3>2. t.pl.data = TRUE
        BY <3>1, StateMedia
      <3>3. t.pl # NoDesc
        BY <1>1, <3>1
      <3>4. Described(u)
        BY <1>1, <1>2, <1>4, <2>1, <3>1 DEF Joint, Described, Blank, SameRemote
      <3> QED
        BY <1>2, <1>3, <1>4, <2>1, <3>2, <3>3, <3>4 DEF Renewed, Carried
    <2>2. CASE t.pl.type # t.nl.type
      <3>1. t.pl.type # "offer"
        BY <1>4, <2>2 DEF Joint, NativeFits
      <3>2. t.nl.type = t.cl.type /\ t.cl.data
        BY <3>1 DEF Joint, NativeFits
      <3>3. t.cl.data = TRUE
        BY <3>2, StateMedia
      <3>4. Described(u)
        BY <1>2, <1>4, <2>2, <3>1, <3>2, <3>3 DEF Joint, Described, Blank, SameRemote
      <3> QED
        BY <1>2, <1>3, <1>4, <2>2, <3>2, <3>3, <3>4 DEF Renewed, Carried
    <2> QED
      BY <2>1, <2>2
  <1> QED
    BY <1>3, <1>6 DEF u

\* Steps that leave the descriptions alone are no less.
LEMMA AlikeRenews ==
    ASSUME NEW t, NEW u, Alike(t, u), u.sig \in {t.sig, Synced(t)}, Joint(t)
    PROVE  Renewed(t, u)
  BY AlikeConsistent DEF Joint, Renewed, Alike, SameLocal

LEMMA RenewedTwice ==
    ASSUME NEW t, NEW u, NEW v, Renewed(t, u), Alike(u, v), v.sig \in {u.sig, Synced(u)},
           ~t.closed
    PROVE  Renewed(t, v)
  BY UndisturbedSteps
  DEF Renewed, Synced, DescriptionSignalingState, SameMade, SameRestarts, SameRemote,
      Alike, SameLocal, Described

LEMMA RefreshFromNativeRenews ==
    ASSUME NEW t \in States, Joint(t), Phase(t), ~t.closed
    PROVE  Renewed(t, RefreshFromNative(t))
  <1> DEFINE x == IF t.nl = NoDesc THEN t ELSE RefreshCurrentOrPendingLocal(t, t.nl)
  <1>1. Renewed(t, t)
    BY AlikeSteps, AlikeRenews
  <1>2. Renewed(t, x)
    BY <1>1, RefreshRenews
  <1> HIDE DEF x
  <1>3. SyncSignalingState(x) \in States /\ Alike(x, SyncSignalingState(x))
        /\ SyncSignalingState(x).sig = Synced(x)
    BY <1>2, SyncAlike DEF Renewed
  <1>4. Renewed(t, SyncSignalingState(x))
    BY <1>2, <1>3, RenewedTwice
  <1>5. RefreshFromNative(t) \in {t, SyncSignalingState(x)}
    BY DEF RefreshFromNative, x
  <1> QED
    BY <1>1, <1>4, <1>5

\* What is kept when nothing but such a refresh happens.
Holds(t, u) ==
    /\ u \in States /\ Consistent(u) /\ Moves(t, u)
    /\ \A task : Fits(t, task) => Fits(u, task)

LEMMA RenewedHolds ==
    ASSUME NEW t \in States, NEW u, Renewed(t, u), Consistent(t), Phase(t), ~t.closed
    PROVE  Holds(t, u)
  BY RenewedJoint, JointConsistent, StateFields, RenewedFits DEF Consistent, Renewed, Holds

LEMMA AlikeHolds ==
    ASSUME NEW t, NEW u, Alike(t, u), u.sig = t.sig, Consistent(t)
    PROVE  Holds(t, u)
  BY AlikeConsistent, AlikeMoves DEF Holds, Alike

LEMMA RefreshHolds ==
    ASSUME NEW t \in States, Consistent(t), Phase(t)
    PROVE  /\ Holds(t, RefreshFromNative(t))
           /\ \A complete \in BOOLEAN : Holds(t, RefreshAfterGatheringWindow(t, complete))
  <1> DEFINE n == RefreshFromNative(t)
  <1>1. n \in States
    BY RefreshFromNativeKeeps DEF Refreshed, Basic
  <1>2. ~t.closed => Renewed(t, n)
    BY RefreshFromNativeRenews DEF Consistent
  <1>3. t.closed => n = t
    BY DEF RefreshFromNative
  <1> HIDE DEF n
  <1>4. ASSUME NEW u, Alike(n, u), u.sig = n.sig
        PROVE  Holds(t, u)
    <2>1. CASE t.closed
      BY <1>3, <1>4, <2>1, AlikeHolds
    <2>2. CASE ~t.closed
      BY <1>2, <1>4, <2>2, RenewedTwice, RenewedHolds
    <2> QED
      BY <2>1, <2>2
  <1>5. Holds(t, n)
    BY <1>1, <1>4, AlikeSteps
  <1>6. ASSUME NEW complete \in BOOLEAN
        PROVE  Holds(t, RefreshAfterGatheringWindow(t, complete))
    <2> DEFINE b == n.refresh \/ (~n.closed /\ n.l # NoDesc /\ ~complete)
               u == [n EXCEPT !.refresh = b]
    <2>1. RefreshAfterGatheringWindow(t, complete) = u
      BY Zenon DEF RefreshAfterGatheringWindow, n
    <2>2. b \in BOOLEAN
      BY <1>1, StateFields
    <2> HIDE DEF b
    <2>3. u \in States
      BY <1>1, <2>2, StateFlags
    <2>4. Alike(n, u) /\ u.sig = n.sig
      BY <1>1, <2>3 DEF Alike, SameMade, SameRestarts, SameLocal, SameRemote, Undisturbed,
                        States
    <2> HIDE DEF u
    <2> QED
      BY <1>4, <2>1, <2>4
  <1> QED
    BY <1>5, <1>6 DEF n

LEMMA SetLocalRefreshJoins == ASSUME Given, SetLocalRefresh PROVE Upheld
  <1>1. PICK complete \in BOOLEAN : Settle(RefreshAfterGatheringWindow(s, complete))
    BY Zenon DEF SetLocalRefresh
  <1> DEFINE u == RefreshAfterGatheringWindow(s, complete)
  <1>2. At("setLocal", "refresh")
    BY DEF SetLocalRefresh
  <1>3. Describes /\ s \in States /\ Task.op = "setLocal" /\ Sound
    BY <1>2, DescribesFacts DEF Given, DescriptionOps, SetOps, At, Task
  <1>4. Fits(s, Task)
    BY <1>3, HeadFits DEF Describes
  <1>5. Holds(s, u)
    BY <1>3, JoinedFacts, RefreshHolds
  <1> HIDE DEF u
  <1>6. Fits(u, Task) /\ u \in States /\ Consistent(u) /\ Moves(s, u)
    BY <1>4, <1>5 DEF Holds
  <1>7. ~u.closed => Achieved(u, Task)
    BY <1>2, <1>6 DEF Fits, Expects, Finishing, At, Task, SetOps
  <1> QED
    BY <1>1, <1>3, <1>6, <1>7, SettleJoins DEF u

LEMMA FinishJoins == ASSUME Given, Finish PROVE Upheld
  <1>1. PICK op \in SetOps, at \in {"done", "clear"}, state \in {Task.suppressed, "stable"} :
            At(op, at) /\ Settle(ClearSuppressed(s, state))
    BY DEF Finish
  <1> DEFINE u == ClearSuppressed(s, state)
  <1>2. Describes /\ s \in States /\ Task.op \in SetOps /\ Sound
    BY <1>1, DescribesFacts DEF Given, DescriptionOps, At, Task
  <1>3. Fits(s, Task)
    BY <1>2, HeadFits DEF Describes
  <1>4. Holds(s, u)
    BY <1>2, JoinedFacts, ClearSuppressedAlike, AlikeHolds
  <1> HIDE DEF u
  <1>5. Fits(u, Task) /\ u \in States /\ Consistent(u) /\ Moves(s, u)
    BY <1>3, <1>4 DEF Holds
  <1>6. ~u.closed => Achieved(u, Task)
    BY <1>1, <1>2, <1>5 DEF Fits, Expects, Finishing, At, Task
  <1> QED
    BY <1>1, <1>2, <1>5, <1>6, SettleJoins DEF u

-----------------------------------------------------------------------------
\* The steps of setRemoteDescription
LEMMA RemoteGiven ==
    ASSUME Given, NEW path, RemoteWork(path), path # "closed"
    PROVE  /\ Describes /\ Task \in Tasks /\ Task.desc \in Descriptions
           /\ Task.op = "setRemote" /\ Task.type = Task.desc.type
           /\ Task.at \in {"work", "rolledBack"} /\ Task.here \in BOOLEAN
           /\ s \in States /\ ~s.closed
           /\ Now \in States /\ ~Now.closed /\ Now.sig = s.sig
           /\ Joint(Now) /\ Phase(Now)
           /\ RemoteExpects(Now, Task) /\ Upcoming(Now, Task)
           /\ RemotePath(Now, Task.desc, Task.valid, Task.at) = path
           /\ Task.type \in {"answer", "pranswer"} =>
                  /\ Task.at = "work" /\ Now = s
                  /\ Now.pl.type = "offer" => Task.desc.data = Now.pl.data
           /\ SameMade(s, Now) /\ \A u : Moves(Now, u) => Moves(s, u)
  <1>1. /\ Describes /\ Task \in Tasks /\ Task.desc \in Descriptions
        /\ Task.op = "setRemote" /\ Task.type = Task.desc.type
        /\ Task.at \in {"work", "rolledBack"} /\ Task.here \in BOOLEAN
        /\ s \in States /\ ~s.closed /\ Now \in States /\ Now.sig = s.sig /\ Sound
        /\ Task.at = "work" => Now = s
    BY RemoteWorkFacts DEF Given
  <1>2. Phase(s) /\ Prepared /\ Consistent(s)
    BY <1>1, JoinedFacts DEF Describes
  <1>3. Upcoming(s, Task)
    BY <1>1, <1>2, HeadUpcoming DEF Describes
  <1>4. Fits(s, Task)
    BY <1>1, HeadFits DEF Describes
  <1>5. Alike(s, Now)
    BY <1>1, ClearSuppressedAlike, AlikeSteps DEF Now
  <1>6. SameMade(s, Now) /\ ~Now.closed
    BY <1>1, <1>5 DEF Alike, SameMade
  <1>7. Joint(Now) /\ Fits(Now, Task)
    BY <1>1, <1>2, <1>4, <1>5, AlikeConsistent DEF Consistent
  <1>9. Phase(Now) /\ Upcoming(Now, Task)
    BY <1>1, <1>2, <1>3, <1>5 DEF Alike, SameMade, SameRestarts, SameLocal, SameRemote, Phase,
        Upcoming, NoPranswer
  <1>10. ASSUME NEW u, Moves(Now, u)
         PROVE  Moves(s, u)
    BY <1>5, <1>10 DEF Alike, SameLocal, SameRemote, Moves, SameCurrent
  <1>11. Expects(Now, Task)
    BY <1>6, <1>7 DEF Fits
  <1>12. RemoteExpects(Now, Task)
    BY <1>1, <1>11 DEF Expects
  <1>13. Task.type \in {"answer", "pranswer"} =>
             /\ Task.at = "work" /\ Now = s
             /\ Now.pl.type = "offer" => Task.desc.data = Now.pl.data
    BY <1>1, <1>11 DEF Tasks, Shape, Expects
  <1>14. RemotePath(Now, Task.desc, Task.valid, Task.at) = path
    BY DEF RemoteWork
  <1> QED
    BY <1>1, <1>6, <1>7, <1>9, <1>10, <1>12, <1>13, <1>14

\* A remote offer comes when no local one is pending any more.
LEMMA RemoteOfferGiven ==
    ASSUME Given, NEW path, RemoteWork(path), Task.type = "offer",
           path \in {"restartOffer", "dataOnlyOffer", "replace", "offer", "noMedia"}
    PROVE  /\ Now.jsOffer = FALSE /\ Now.pl = NoDesc /\ Now.pl.type = "none"
           /\ Now.l = Now.cl
           /\ Now.sig = "stable" => Now.pr.type = "none"
           /\ Now.sig = HRO => Now.pr.type = "offer"
           /\ Now.sig \in {"stable", HRO}
           /\ Now.cl.data => Task.desc.data
  <1>1. /\ Now \in States /\ ~Now.closed /\ Joint(Now) /\ Phase(Now)
        /\ RemoteExpects(Now, Task) /\ s \in States
    BY RemoteGiven
  <1>2. Phase(s) /\ SInv
    BY JoinedFacts DEF Given
  <1>3. Upcoming(s, Task)
    BY RemoteGiven, JoinedFacts, HeadUpcoming DEF Describes
  <1>4. s.jsOffer = FALSE /\ s.pl.type = "none"
    BY <1>2, <1>3, RemoteOfferFits
  <1>5. Now.jsOffer = FALSE /\ Now.pl.type = "none"
    BY <1>1, ClearSuppressedAlike, AlikeSteps, <1>4 DEF Now, Alike, SameRestarts, SameLocal
  <1>6. Now.pl = NoDesc /\ Now.l = Now.cl
    BY <1>1, <1>5 DEF Joint, Described, Blank
  <1>7. /\ Now.sig = "stable" => Now.pr.type = "none"
        /\ Now.sig = HRO => Now.pr.type = "offer"
        /\ Now.sig \in {"stable", HRO}
    BY <1>1, <1>5 DEF Phase, Exchanges, HLO, HRO, HLP, HRP
  <1>8. Now.cl.data => Task.desc.data
    BY <1>1 DEF RemoteExpects, Joint, Described
  <1> QED
    BY <1>5, <1>6, <1>7, <1>8

\* A remote answer comes when a local offer is pending.
LEMMA RemoteAnswerComes ==
    ASSUME Given, NEW path, RemoteWork(path), Task.type \in {"answer", "pranswer"},
           path \notin {"closed", "invalid"}
    PROVE  /\ s.pl.type = "offer" /\ s.pr.type # "offer" /\ s.jsRemote = FALSE
           /\ s.pl # NoDesc /\ Task.desc.data = s.pl.data
  <1>1. /\ s \in States /\ ~s.closed /\ Joint(s) /\ Phase(s) /\ Now = s /\ Task.at = "work"
        /\ RemotePath(s, Task.desc, Task.valid, Task.at) = path
        /\ Task.type = Task.desc.type
        /\ s.pl.type = "offer" => Task.desc.data = s.pl.data
    BY RemoteGiven
  <1>2. ~InvalidRemote(s, Task.desc)
    BY <1>1 DEF RemotePath
  <1>3. s.sig \in {HLO, HRP} \/ s.jsOffer
    BY <1>1, <1>2 DEF InvalidRemote
  <1>4. s.pl.type = "offer"
    BY <1>1, <1>3 DEF Joint, Restarts, Phase, Exchanges, HLO, HRO, HLP, HRP
  <1>5. s.pr.type # "offer"
    BY <1>1, <1>4 DEF Phase, Exchanges
  <1> QED
    BY <1>1, <1>4, <1>5, StateFields, StateMedia DEF Joint, Restarts

LEMMA SetRemoteRejectedJoins ==
    Given /\ (SetRemoteClosed \/ SetRemoteInvalid) => Upheld
  <1> SUFFICES ASSUME Given, SetRemoteClosed \/ SetRemoteInvalid PROVE Upheld
    OBVIOUS
  <1>1. Reject(Now) /\ \E path : RemoteWork(path)
    BY DEF SetRemoteClosed, SetRemoteInvalid
  <1>2. Describes /\ s \in States /\ Now \in States /\ Consistent(s)
    BY <1>1, RemoteWorkFacts, JoinedFacts DEF Given
  <1>3. Alike(s, Now)
    BY <1>2, ClearSuppressedAlike, AlikeSteps DEF Now
  <1>4. Consistent(Now) /\ Moves(s, Now)
    BY <1>2, <1>3, AlikeConsistent, AlikeMoves
  <1> QED
    BY <1>1, <1>2, <1>4, RejectJoins

\* A remote description is pending, from a peer of this process or not.
LEMMA PendingRemoteEffect ==
    ASSUME NEW t \in States, NEW d \in Descriptions, NEW here \in BOOLEAN
    PROVE  LET u == Pair(SetPendingRemote(t, d), here)
           IN  /\ u \in States /\ SameMade(t, u) /\ SameRestarts(t, u) /\ Undisturbed(t, u)
               /\ SameLocal(t, u) /\ u.r = d /\ u.pr = d /\ u.cr = t.cr /\ u.sig = t.sig
  <1> DEFINE x == SetPendingRemote(t, d)
             u == Pair(x, here)
  <1>1. /\ Kept(t, x) /\ SameLocal(t, x) /\ x.r = d /\ x.pr = d /\ x.cr = t.cr
    BY SetPendingKeeps
  <1>2. Carried(t, x) /\ x \in States /\ x.sig = t.sig
    BY <1>1, CarriedSteps DEF Carried, Kept
  <1> HIDE DEF x
  <1>3. /\ u \in States /\ SameMade(x, u) /\ SameRestarts(x, u) /\ SameLocal(x, u)
        /\ SameRemote(x, u) /\ Undisturbed(x, u) /\ u.sig = x.sig
    BY <1>2, PairEffect
  <1> HIDE DEF u
  <1>4. Undisturbed(t, u)
    BY <1>2, <1>3, UndisturbedSteps DEF Carried
  <1>5. /\ u \in States /\ SameMade(t, u) /\ SameRestarts(t, u)
        /\ SameLocal(t, u) /\ u.r = d /\ u.pr = d /\ u.cr = t.cr /\ u.sig = t.sig
    BY <1>1, <1>2, <1>3 DEF Carried, SameMade, SameRestarts, SameLocal, SameRemote
  <1> QED
    BY <1>4, <1>5 DEF u, x

LEMMA SetRemotePranswerJoins == ASSUME Given, SetRemotePranswer PROVE Upheld
  <1> DEFINE x == Pair(SetPendingRemote(s, Task.desc), Task.here)
             u == EnterState(x, HRP, s.sig)
  <1>1. RemoteWork("pranswer") /\ Await(u, "done")
    BY DEF SetRemotePranswer
  <1>2. /\ Describes /\ Task.op = "setRemote" /\ s \in States /\ Task.desc \in Descriptions
        /\ ~s.closed /\ Task.here \in BOOLEAN /\ Task.desc.type = Task.type
    BY <1>1, RemoteGiven
  <1>3. Task.type = "pranswer"
    BY <1>1, RemoteWorkFacts DEF Given
  <1>4. /\ s.pl.type = "offer" /\ s.pr.type # "offer" /\ s.jsRemote = FALSE
        /\ s.pl # NoDesc /\ Task.desc.data = s.pl.data
    BY <1>1, <1>3, RemoteAnswerComes
  <1>5. Joint(s)
    BY <1>2, JoinedFacts DEF Consistent
  <1>6. /\ x \in States /\ SameMade(s, x) /\ SameRestarts(s, x) /\ Undisturbed(s, x)
        /\ SameLocal(s, x) /\ x.r = Task.desc /\ x.pr = Task.desc /\ x.cr = s.cr
    BY <1>2, PendingRemoteEffect
  <1> HIDE DEF x
  <1>7. Alike(x, u)
    <2>1. Entered(x, u, HRP)
      BY <1>6, EnterStateKeeps, StateNames
    <2> HIDE DEF u
    <2> QED
      BY <2>1, AlikeSteps
  <1> HIDE DEF u
  <1>8. /\ SameMade(s, u) /\ SameRestarts(s, u) /\ SameLocal(s, u)
        /\ u.r = Task.desc /\ u.pr = Task.desc /\ u.cr = s.cr
    BY <1>6, <1>7 DEF Alike, SameMade, SameRestarts, SameLocal, SameRemote
  <1>9. Undisturbed(s, u)
    BY <1>6, <1>7, UndisturbedSteps DEF Alike
  <1>10. Task.desc # NoDesc
    BY <1>2, <1>3, MediaFields
  <1>11. Described(u) /\ NativeFits(u)
    BY <1>2, <1>3, <1>5, <1>8, <1>9, <1>10
       DEF Joint, Described, NativeFits, Blank, Or, SameLocal, Undisturbed
  <1>12. News(u) /\ Offered(u)
    BY <1>5, <1>8, <1>9 DEF Joint, News, Silent, Tells, Offered, SameMade, SameLocal,
                            Undisturbed
  <1>13. Answerable(u) /\ Restarts(u)
    BY <1>2, <1>3, <1>4, <1>5, <1>8, <1>9, <1>10
       DEF Joint, Answerable, Restarts, SameMade, SameRestarts, SameLocal, Undisturbed
  <1>14. Consistent(u) /\ Moves(s, u) /\ Achieved(u, Task)
    <2>1. Consistent(u)
      BY <1>2, <1>8, <1>11, <1>12, <1>13, JointConsistent DEF Joint
    <2> QED
      BY <1>2, <1>3, <1>4, <1>8, <2>1 DEF Achieved, Moves, SameCurrent, SameLocal
  <1> QED
    BY <1>1, <1>2, <1>14, AwaitStageJoins DEF SetOps

\* The offer that meets a local one, which is rolled back for it.
LEMMA SetRemoteRollbackLocalJoins == ASSUME Given, SetRemoteRollbackLocal PROVE Upheld
  <1> DEFINE u == RollbackLocalOffer(s)
             n == [Task EXCEPT !.at = "rolledBack"]
  <1>1. RemoteWork("rollbackLocal") /\ AwaitAs(u, n)
    BY DEF SetRemoteRollbackLocal, Await
  <1>2. Task.at = "work" /\ Task.type = "offer" /\ s.sig \in {HLO, HRP} /\ Now = s
    BY <1>1, RemoteWorkFacts DEF Given
  <1>3. /\ Describes /\ Task \in Tasks /\ Task.op = "setRemote" /\ s \in States /\ ~s.closed
        /\ Joint(s) /\ Phase(s) /\ Silent(s) /\ RemoteExpects(s, Task) /\ Upcoming(s, Task)
    BY <1>1, <1>2, RemoteGiven DEF RemoteExpects
  <1>4. NoPranswer(s)
    BY <1>2, <1>3 DEF Upcoming
  <1>5. ~s.jsOffer /\ s.pl.type = "offer" /\ s.pr.type = "none"
    BY <1>2, <1>3, <1>4 DEF NoPranswer, Phase, Exchanges, HLO, HRO, HLP, HRP
  <1>6. Joint(u) /\ Moves(s, u) /\ Silent(u)
    BY <1>3, <1>5, RollbackLocalOfferJoint
  <1>7. /\ SameMade(s, u) /\ SameRemote(s, u)
        /\ s.nsig = "stable" => Undisturbed(s, u)
    BY <1>3, RollbackLocalOfferEffect DEF HLO
  <1> HIDE DEF u
  <1>8. Consistent(u)
    BY <1>3, <1>6, <1>7, JointConsistent
  <1>9. /\ n \in Tasks /\ n.op = "setRemote" /\ n.at = "rolledBack"
    BY <1>2, <1>3, RolledBackTyped
  <1>10. n.desc = Task.desc /\ n.type = Task.type
    BY <1>3 DEF Tasks, TaskRecords
  <1> HIDE DEF n
  <1>11. RestartRemoteOffer(u, n.desc) <=> RestartRemoteOffer(s, Task.desc)
    BY <1>7, <1>10 DEF RestartRemoteOffer, SameRemote
  <1>12. RemoteExpects(u, n)
    BY <1>2, <1>3, <1>6, <1>7, <1>10, <1>11 DEF RemoteExpects, SameRemote, Undisturbed
  <1>13. Fits(u, n)
    BY <1>9, <1>12 DEF Fits, Answers, AnswerStages, Expects, Finishing
  <1> QED
    BY <1>1, <1>3, <1>6, <1>8, <1>9, <1>13, AwaitJoins

LEMMA RollbackRemoteEffect ==
    ASSUME NEW t \in States, NEW n,
           n = (IF t.r.data THEN NativeRollbackRemote([t EXCEPT !.suppress = "stable"])
                ELSE t),
           NEW u,
           u = EnterState([RollbackRemote(n) EXCEPT !.paired = "none"], "stable", t.sig)
    PROVE  /\ u \in States /\ SameMade(t, u) /\ SameRestarts(t, u) /\ SameLocal(t, u)
           /\ u.pr = NoDesc /\ u.r = t.cr /\ u.cr = t.cr /\ u.sig = "stable"
           /\ u.paired = "none"
           /\ IF t.r.data /\ t.nsig = HRO
              THEN /\ u.nsig = "stable" /\ u.nl = t.nl /\ u.ncl = t.ncl
                   /\ Silent(t) => Silent(u)
              ELSE Undisturbed(t, u)
  <1> DEFINE x == [t EXCEPT !.suppress = "stable"]
             y == NativeRollbackRemote(x)
             r == RollbackRemote(n)
             p == [r EXCEPT !.paired = "none"]
  <1>1. x \in States /\ Alike(t, x)
    BY StateValues, StatesNamed
    DEF Alike, SameMade, SameRestarts, SameLocal, SameRemote, Undisturbed, States
  <1>2. n = IF t.r.data THEN y ELSE t
    OBVIOUS
  <1>3. u = EnterState(p, "stable", t.sig)
    OBVIOUS
  <1> HIDE DEF x
  <1>4. /\ y \in States /\ SameMade(t, y) /\ SameRestarts(t, y) /\ SameLocal(t, y)
        /\ SameRemote(t, y)
        /\ IF t.nsig = HRO THEN /\ y.nsig = "stable" /\ y.nl = t.nl /\ y.ncl = t.ncl
                                /\ Silent(t) => Silent(y)
                           ELSE Undisturbed(t, y)
    <2>1. NativeStep(x, y)
      BY <1>1, NativeRollbackRemoteKeeps
    <2>2. /\ y \in States /\ SameMade(t, y) /\ SameRestarts(t, y) /\ SameLocal(t, y)
          /\ SameRemote(t, y)
      BY <1>1, <2>1 DEF Alike, SameMade, SameRestarts, SameLocal, SameRemote, NativeStep,
                        SameExchange
    <2>3. Silent(t) => Silent(x)
      BY <1>1 DEF Alike, Undisturbed, Silent, Tells
    <2>4. IF x.nsig = HRO THEN /\ y.nsig = "stable" /\ y.nl = x.nl /\ y.ncl = x.ncl
                               /\ Silent(x) => Silent(y)
                          ELSE Undisturbed(x, y)
      BY <1>1, NativeRollbackRemoteEffect
    <2>5. x.nsig = t.nsig /\ x.ncl = t.ncl /\ x.nl = t.nl /\ Undisturbed(t, x)
      BY <1>1 DEF Alike, Undisturbed
    <2> HIDE DEF y
    <2> QED
      BY <2>2, <2>3, <2>4, <2>5, UndisturbedSteps
  <1> HIDE DEF y
  <1>5. /\ n \in States /\ SameMade(t, n) /\ SameRestarts(t, n) /\ SameLocal(t, n)
        /\ SameRemote(t, n)
        /\ IF t.r.data /\ t.nsig = HRO
           THEN /\ n.nsig = "stable" /\ n.nl = t.nl /\ n.ncl = t.ncl
                /\ Silent(t) => Silent(n)
           ELSE Undisturbed(t, n)
    BY <1>2, <1>4, UndisturbedSteps DEF SameMade, SameRestarts, SameLocal, SameRemote
  <1>6. Kept(n, r) /\ SameLocal(n, r) /\ r.r = n.cr /\ r.cr = n.cr /\ r.pr = NoDesc
    BY <1>5, RollbackKeeps
  <1>7. Carried(n, r) /\ r \in States
    BY <1>6, CarriedSteps DEF Carried
  <1> HIDE DEF r
  <1>8. /\ p \in States /\ SameMade(r, p) /\ SameRestarts(r, p) /\ SameLocal(r, p)
        /\ SameRemote(r, p) /\ Undisturbed(r, p) /\ p.paired = "none"
    <2>1. p \in States
      BY <1>7, StateValues DEF PairedStates
    <2> QED
      BY <1>7, <2>1 DEF SameMade, SameRestarts, SameLocal, SameRemote, Undisturbed, States
  <1> HIDE DEF p
  <1>9. Alike(p, u) /\ u.sig = "stable"
    <2>1. Entered(p, u, "stable")
      BY <1>3, <1>8, EnterStateKeeps, StateNames, Zenon
    <2> QED
      BY <2>1, AlikeSteps
  <1>10. /\ u \in States /\ SameMade(t, u) /\ SameRestarts(t, u) /\ SameLocal(t, u)
         /\ u.pr = NoDesc /\ u.r = t.cr /\ u.cr = t.cr /\ u.sig = "stable"
         /\ u.paired = "none" /\ Undisturbed(n, u)
    BY <1>5, <1>6, <1>7, <1>8, <1>9 DEF Alike, Carried, SameMade, SameRestarts, SameLocal,
        SameRemote, Undisturbed
  <1>11. Silent(n) => Silent(u)
    BY <1>10 DEF Undisturbed, Silent, Tells
  <1>12. IF t.r.data /\ t.nsig = HRO
         THEN /\ u.nsig = "stable" /\ u.nl = t.nl /\ u.ncl = t.ncl
              /\ Silent(t) => Silent(u)
         ELSE Undisturbed(t, u)
    BY <1>5, <1>10, <1>11, UndisturbedSteps DEF Undisturbed
  <1> QED
    BY <1>10, <1>12

LEMMA SetRemoteRollbackJoins == ASSUME Given, SetRemoteRollback PROVE Upheld
  <1> DEFINE n == IF s.r.data THEN NativeRollbackRemote([s EXCEPT !.suppress = "stable"])
                  ELSE s
             u == EnterState([RollbackRemote(n) EXCEPT !.paired = "none"], "stable", s.sig)
  <1>1. RemoteWork("rollback") /\ Await(u, "clear")
    BY Zenon DEF SetRemoteRollback
  <1>2. Task.at = "work" /\ Task.type = "rollback" /\ ~InvalidRemote(s, Task.desc) /\ Now = s
    BY <1>1, RemoteWorkFacts DEF Given
  <1>3. /\ Describes /\ Task.op = "setRemote" /\ s \in States /\ ~s.closed
        /\ Joint(s) /\ Phase(s) /\ Silent(s) /\ RemoteExpects(s, Task) /\ Upcoming(s, Task)
        /\ Task.type = Task.desc.type
    BY <1>1, <1>2, RemoteGiven DEF RemoteExpects
  <1>4. s.sig = HRO /\ NoPranswer(s) /\ ~s.jsRemote
    BY <1>2, <1>3 DEF InvalidRemote, Upcoming, SetOps, RemoteExpects
  <1>5. ~s.jsOffer /\ s.pr.type = "offer" /\ s.pl.type = "none"
    BY <1>3, <1>4 DEF NoPranswer, Phase, Exchanges, HLO, HRO, HLP, HRP
  <1>6. s.pr # NoDesc /\ s.r = s.pr /\ s.pl = NoDesc /\ NoDesc.type = "none"
    BY <1>3, <1>5, StateMedia DEF Joint, Described, Blank, Or
  <1>7. /\ u \in States /\ SameMade(s, u) /\ SameRestarts(s, u) /\ SameLocal(s, u)
        /\ u.pr = NoDesc /\ u.r = s.cr /\ u.cr = s.cr /\ u.sig = "stable"
        /\ u.paired = "none"
        /\ IF s.r.data /\ s.nsig = HRO
           THEN /\ u.nsig = "stable" /\ u.nl = s.nl /\ u.ncl = s.ncl
                /\ Silent(s) => Silent(u)
           ELSE Undisturbed(s, u)
    BY <1>3, RollbackRemoteEffect
  <1> HIDE DEF n, u
  <1>8. /\ Silent(u) /\ u.ncl = s.ncl /\ u.nl = s.nl
        /\ u.nsig = "stable" \/ u.nsig = s.nsig
        /\ u.nsig = HRO => ~s.pr.data
    BY <1>3, <1>6, <1>7 DEF Undisturbed, Silent, Tells, HRO
  <1>9. s.nsig # HLO /\ u.nsig # HLO
    BY <1>3, <1>5, <1>8 DEF Joint, NativeFits, HLO
  <1>10. Described(u)
    BY <1>3, <1>6, <1>7 DEF Joint, Described, Blank, Or, SameLocal
  <1>11. NativeFits(u)
    BY <1>3, <1>7, <1>8, <1>5, <1>9 DEF Undisturbed, Joint, NativeFits, SameLocal
  <1>12. News(u) /\ Offered(u)
    BY <1>3, <1>7, <1>8 DEF Joint, News, Offered, SameMade, SameLocal
  <1>13. Answerable(u)
    BY <1>3, <1>5, <1>6, <1>7, <1>8 DEF Joint, Described, Answerable, SameMade, SameLocal
  <1>14. Restarts(u)
    BY <1>3, <1>4, <1>5, <1>7, <1>9 DEF Joint, Restarts, SameRestarts
  <1>15. Consistent(u) /\ Moves(s, u) /\ Achieved(u, Task)
    <2>1. Consistent(u)
      BY <1>3, <1>7, <1>10, <1>11, <1>12, <1>13, <1>14, JointConsistent DEF Joint
    <2>2. Idle(u)
      BY <1>5, <1>6, <1>7 DEF Idle, SameLocal, SameRestarts
    <2>3. Moves(s, u)
      BY <1>6, <1>7 DEF Moves, SameCurrent, SameLocal
    <2> QED
      BY <1>2, <2>1, <2>2, <2>3 DEF Achieved
  <1> QED
    BY <1>1, <1>3, <1>15, AwaitStageJoins DEF SetOps

\* The last part that the ways of a remote offer have in common.
LEMMA RemoteOfferUpheld ==
    ASSUME Given, NEW path, RemoteWork(path), Task.type = "offer",
           path \in {"restartOffer", "dataOnlyOffer", "replace", "offer", "noMedia"},
           NEW u, Joint(u), SameMade(Now, u), u.cl = Now.cl, u.cr = Now.cr, u.pl = NoDesc,
           u.pr.type = "offer", u.sig = HRO, ~u.jsOffer
    PROVE  Consistent(u) /\ Moves(s, u) /\ Achieved(u, Task)
  BY RemoteGiven, RemoteOfferGiven, DescriptionTypes, JointConsistent
  DEF Moves, SameCurrent, Achieved

LEMMA SetRemoteRestartOfferJoins == ASSUME Given, SetRemoteRestartOffer PROVE Upheld
  <1> DEFINE d == MarkRestart(Task.desc)
             t == Pair(SetPendingRemote(Now, d), Task.here)
             x == [t EXCEPT !.jsRemote = TRUE]
             u == EnterState(x, HRO, Now.sig)
  <1>1. RemoteWork("restartOffer") /\ Await(u, "done")
    BY Zenon DEF SetRemoteRestartOffer
  <1>2. Task.type = "offer"
    BY <1>1, RemoteWorkFacts DEF Given
  <1>3. /\ Describes /\ Task.op = "setRemote" /\ Task.desc \in Descriptions
        /\ Task.desc.type = "offer" /\ Task.here \in BOOLEAN /\ Now \in States /\ Joint(Now)
        /\ ~Now.closed /\ RemoteExpects(Now, Task)
        /\ RemotePath(Now, Task.desc, Task.valid, Task.at) = "restartOffer"
    BY <1>1, <1>2, RemoteGiven
  <1>4. RestartRemoteOffer(Now, Task.desc)
    BY <1>3 DEF RemotePath
  <1>5. /\ Task.desc.data /\ Now.cr.data /\ Now.nsig = "stable" /\ Now.nl.type # "offer"
    BY <1>2, <1>3, <1>4 DEF RestartRemoteOffer, RemoteExpects
  <1>6. Now.jsOffer = FALSE /\ Now.pl = NoDesc /\ Now.l = Now.cl
    BY <1>1, <1>2, RemoteOfferGiven
  <1>7. d \in Descriptions /\ d.type = "offer" /\ d.data
    BY <1>3, <1>5, DescriptionOperators, MediaFields
  <1> HIDE DEF d
  <1>8. /\ t \in States /\ SameMade(Now, t) /\ SameRestarts(Now, t) /\ Undisturbed(Now, t)
        /\ SameLocal(Now, t) /\ t.r = d /\ t.pr = d /\ t.cr = Now.cr
    BY <1>3, <1>7, PendingRemoteEffect
  <1> HIDE DEF t
  <1>9. /\ x \in States /\ SameMade(t, x) /\ Undisturbed(t, x) /\ SameLocal(t, x)
        /\ SameRemote(t, x) /\ x.jsOffer = t.jsOffer /\ x.restart = t.restart
    <2>1. x \in States
      BY <1>8, StateFlags
    <2> QED
      BY <1>8, <2>1 DEF SameMade, Undisturbed, SameLocal, SameRemote, States
  <1> HIDE DEF x
  <1>10. Alike(x, u) /\ u.sig = HRO
    <2>1. Entered(x, u, HRO)
      BY <1>9, EnterStateKeeps, StateNames
    <2> HIDE DEF u
    <2> QED
      BY <2>1, AlikeSteps
  <1> HIDE DEF u
  <1>11. /\ SameMade(Now, u) /\ u.l = Now.cl /\ u.cl = Now.cl /\ u.pl = NoDesc
         /\ u.r = d /\ u.cr = Now.cr /\ u.pr = d /\ ~u.jsOffer /\ u.restart = Now.restart
    BY <1>6, <1>8, <1>9, <1>10 DEF Alike, SameMade, SameRestarts, SameLocal, SameRemote
  <1>12. Undisturbed(Now, u)
    BY <1>8, <1>9, <1>10, UndisturbedSteps DEF Alike
  <1>13. Joint(u)
    BY <1>3, <1>5, <1>6, <1>7, <1>11, <1>12, RemoteOfferJoint DEF HLO
  <1>14. Consistent(u) /\ Moves(s, u) /\ Achieved(u, Task)
    BY <1>1, <1>2, <1>7, <1>10, <1>11, <1>13, RemoteOfferUpheld
  <1> QED
    BY <1>1, <1>3, <1>14, AwaitStageJoins DEF SetOps

LEMMA SetRemoteDataOnlyOfferJoins == ASSUME Given, SetRemoteDataOnlyOffer PROVE Upheld
  <1> DEFINE t == Pair(SetPendingRemote(Now, Task.desc), Task.here)
             u == DispatchIfChanged(SyncSignalingState(t), Now.sig)
  <1>1. RemoteWork("dataOnlyOffer") /\ Await(u, "done")
    BY Zenon DEF SetRemoteDataOnlyOffer
  <1>2. Task.type = "offer"
    BY <1>1, RemoteWorkFacts DEF Given
  <1>3. /\ Describes /\ Task.op = "setRemote" /\ Task.desc \in Descriptions
        /\ Task.desc.type = "offer" /\ Task.here \in BOOLEAN /\ Now \in States /\ Joint(Now)
        /\ ~Now.closed
        /\ RemotePath(Now, Task.desc, Task.valid, Task.at) = "dataOnlyOffer"
    BY <1>1, <1>2, RemoteGiven
  <1>4. DataOnlyRemoteOffer(Now, Task.desc)
    BY <1>3 DEF RemotePath
  <1>5. /\ Now.jsOffer = FALSE /\ Now.pl = NoDesc /\ Now.l = Now.cl
        /\ Now.pr.type = "none" /\ (Now.cl.data => Task.desc.data)
    BY <1>1, <1>2, <1>4, RemoteOfferGiven DEF DataOnlyRemoteOffer
  <1>6. Now.nsig # HLO /\ ~Now.jsRemote
    BY <1>3, <1>4, <1>5, DescriptionTypes DEF Joint, NativeFits, Restarts, DataOnlyRemoteOffer
  <1>7. /\ t \in States /\ SameMade(Now, t) /\ SameRestarts(Now, t) /\ Undisturbed(Now, t)
        /\ SameLocal(Now, t) /\ t.r = Task.desc /\ t.pr = Task.desc /\ t.cr = Now.cr
    BY <1>3, PendingRemoteEffect
  <1> HIDE DEF t
  <1>8. Alike(t, u) /\ u.sig = Synced(t)
    BY <1>7, SyncAlike
  <1> HIDE DEF u
  <1>9. u.sig = HRO
    BY <1>3, <1>5, <1>7, <1>8, DescriptionTypes
       DEF Synced, DescriptionSignalingState, SameMade, SameRestarts, SameLocal
  <1>10. /\ SameMade(Now, u) /\ u.l = Now.cl /\ u.cl = Now.cl /\ u.pl = NoDesc
         /\ u.r = Task.desc /\ u.cr = Now.cr /\ u.pr = Task.desc /\ ~u.jsOffer
         /\ u.restart = Now.restart /\ ~u.jsRemote
    BY <1>5, <1>6, <1>7, <1>8 DEF Alike, SameMade, SameRestarts, SameLocal, SameRemote
  <1>11. Undisturbed(Now, u)
    BY <1>7, <1>8, UndisturbedSteps DEF Alike
  <1>12. Joint(u)
    BY <1>3, <1>5, <1>6, <1>10, <1>11, RemoteOfferJoint
  <1>13. Consistent(u) /\ Moves(s, u) /\ Achieved(u, Task)
    BY <1>1, <1>2, <1>3, <1>9, <1>10, <1>12, RemoteOfferUpheld
  <1> QED
    BY <1>1, <1>3, <1>13, AwaitStageJoins DEF SetOps

LEMMA SetRemoteReplaceJoins == ASSUME Given, SetRemoteReplace PROVE Upheld
  <1> DEFINE u == Pair(SetPendingRemote(Now, Task.desc), Task.here)
  <1>1. RemoteWork("replace") /\ Await(u, "done")
    BY Zenon DEF SetRemoteReplace
  <1>2. Task.type = "offer" /\ s.sig = HRO
    BY <1>1, RemoteWorkFacts DEF Given
  <1>3. /\ Describes /\ Task.op = "setRemote" /\ Task.desc \in Descriptions
        /\ Task.desc.type = "offer" /\ Task.here \in BOOLEAN /\ Now \in States /\ Joint(Now)
        /\ Now.sig = HRO
    BY <1>1, <1>2, RemoteGiven
  <1>4. /\ Now.jsOffer = FALSE /\ Now.pl = NoDesc /\ Now.l = Now.cl
        /\ Now.pr.type = "offer" /\ (Now.cl.data => Task.desc.data)
    BY <1>1, <1>2, <1>3, RemoteOfferGiven
  <1>5. Now.nsig # HLO
    BY <1>3, <1>4 DEF Joint, NativeFits
  <1>6. /\ u \in States /\ SameMade(Now, u) /\ SameRestarts(Now, u) /\ Undisturbed(Now, u)
        /\ SameLocal(Now, u) /\ u.r = Task.desc /\ u.pr = Task.desc /\ u.cr = Now.cr
        /\ u.sig = HRO
    BY <1>3, PendingRemoteEffect
  <1> HIDE DEF u
  <1>7. /\ u.l = Now.cl /\ u.cl = Now.cl /\ u.pl = NoDesc /\ ~u.jsOffer
        /\ u.restart = Now.restart /\ u.jsRemote = Now.jsRemote
    BY <1>4, <1>6 DEF SameRestarts, SameLocal
  <1>8. u.jsRemote => Now.cr.data /\ Now.nsig = "stable" /\ Now.nl.type # "offer"
    BY <1>3, <1>7 DEF Joint, Restarts
  <1>9. Joint(u)
    BY <1>3, <1>4, <1>5, <1>6, <1>7, <1>8, RemoteOfferJoint
  <1>10. Consistent(u) /\ Moves(s, u) /\ Achieved(u, Task)
    BY <1>1, <1>2, <1>3, <1>6, <1>7, <1>9, RemoteOfferUpheld
  <1> QED
    BY <1>1, <1>3, <1>10, AwaitStageJoins DEF SetOps

LEMMA PendingOver ==
    ASSUME NEW t \in States, NEW d \in Descriptions
    PROVE  LET u == SetPendingRemote(RollbackLocal(t), d)
           IN  /\ Carried(t, u) /\ u \in States /\ u.sig = t.sig
               /\ u.l = t.cl /\ u.cl = t.cl /\ u.pl = NoDesc
               /\ u.r = d /\ u.pr = d /\ u.cr = t.cr
  <1> DEFINE x == RollbackLocal(t)
             u == SetPendingRemote(x, d)
  <1>1. Kept(t, x) /\ SameRemote(t, x) /\ x.l = t.cl /\ x.cl = t.cl /\ x.pl = NoDesc
    BY RollbackKeeps
  <1>2. Carried(t, x) /\ x \in States /\ x.sig = t.sig
    BY <1>1, CarriedSteps DEF Carried, Kept
  <1> HIDE DEF x
  <1>3. Kept(x, u) /\ SameLocal(x, u) /\ u.r = d /\ u.pr = d /\ u.cr = x.cr
    BY <1>2, SetPendingKeeps
  <1> HIDE DEF u
  <1>4. Carried(t, u) /\ u \in States /\ u.sig = t.sig
    BY <1>2, <1>3, CarriedSteps DEF Carried, Kept
  <1> QED
    BY <1>1, <1>3, <1>4 DEF u, x, SameLocal, SameRemote

\* Nothing else than an offer or an answer has no media here.
LEMMA NoMediaGiven ==
    ASSUME Given, RemoteWork("noMedia")
    PROVE  /\ ~Task.desc.data /\ Task.type \in {"offer", "answer"}
           /\ Task.type = "answer" => ~Now.jsOffer
  BY RemoteGiven DEF Descriptions, RemoteExpects, RemotePath, IsNoMedia

LEMMA SetRemoteNoMediaJoins == ASSUME Given, SetRemoteNoMedia PROVE Upheld
  <1> DEFINE c == IF Task.type = "offer" THEN SetPendingRemote(RollbackLocal(Now), Task.desc)
                  ELSE CommitRemoteAnswer(Now, Task.desc)
             state == IF Task.type = "offer" THEN HRO ELSE "stable"
             t == [c EXCEPT !.sig = state]
             p == Pair(t, Task.here)
             u == Dispatch(p)
  <1>1. RemoteWork("noMedia") /\ Await(u, "done")
    BY Zenon DEF SetRemoteNoMedia, CommitRemoteAnswer
  <1>2. /\ Describes /\ Task.op = "setRemote" /\ Task.desc \in Descriptions
        /\ Task.desc.type = Task.type /\ Task.here \in BOOLEAN /\ Now \in States /\ Joint(Now)
        /\ ~Now.closed /\ ~s.closed /\ \A v : Moves(Now, v) => Moves(s, v)
    BY <1>1, RemoteGiven
  <1>3. /\ ~Task.desc.data /\ Task.type \in {"offer", "answer"}
        /\ Task.type = "answer" => ~Now.jsOffer
    BY <1>1, NoMediaGiven
  <1>4. Task.desc # NoDesc
    BY <1>2, <1>3, MediaFields
  <1>5. /\ Carried(Now, c) /\ c \in States
        /\ IF Task.type = "offer"
           THEN /\ c.l = Now.cl /\ c.cl = Now.cl /\ c.pl = NoDesc
                /\ c.r = Task.desc /\ c.pr = Task.desc /\ c.cr = Now.cr
           ELSE /\ c.r = Task.desc /\ c.cr = Task.desc /\ c.pl = NoDesc /\ c.pr = NoDesc
                /\ c.l = c.cl /\ (Now.pl # NoDesc => c.cl = Now.pl)
    <2>1. CASE Task.type = "offer"
      BY <1>2, <2>1, PendingOver
    <2>2. CASE Task.type # "offer"
      BY <1>2, <1>4, <2>2, CommitAnswerFields DEF Carried
    <2> QED
      BY <2>1, <2>2
  <1> HIDE DEF c
  <1>6. state \in SignalingStates
    BY StateNames
  <1> HIDE DEF state
  <1>7. t \in States /\ Alike(c, t) /\ t.sig = state
    BY <1>5, <1>6, SigKeeps, AlikeSteps DEF Alike
  <1> HIDE DEF t
  <1>8. /\ p \in States /\ SameMade(t, p) /\ SameRestarts(t, p) /\ SameLocal(t, p)
        /\ SameRemote(t, p) /\ Undisturbed(t, p) /\ p.sig = t.sig
    BY <1>2, <1>7, PairEffect
  <1> HIDE DEF p
  <1>9. Alike(p, u) /\ u.sig = p.sig
    BY <1>8, EnterStateKeeps, AlikeSteps
  <1> HIDE DEF u
  <1>10. /\ SameMade(Now, u) /\ SameRestarts(Now, u) /\ SameLocal(c, u) /\ SameRemote(c, u)
         /\ u.sig = state
    BY <1>5, <1>7, <1>8, <1>9
       DEF Alike, Carried, SameMade, SameRestarts, SameLocal, SameRemote
  <1>11. Undisturbed(Now, u)
    BY <1>5, <1>7, <1>8, <1>9, UndisturbedSteps DEF Alike, Carried
  <1>12. Consistent(u) /\ Moves(s, u) /\ Achieved(u, Task)
    <2>1. CASE Task.type = "offer"
      <3>1. /\ Now.jsOffer = FALSE /\ Now.pl = NoDesc /\ ~Now.cl.data
        BY <1>1, <1>3, <2>1, RemoteOfferGiven
      <3>2. Now.nsig # HLO /\ ~Now.jsRemote
        BY <1>2, <3>1, DescriptionTypes DEF Joint, NativeFits, Restarts, Described
      <3>3. /\ u.l = Now.cl /\ u.cl = Now.cl /\ u.pl = NoDesc /\ u.r = Task.desc
            /\ u.pr = Task.desc /\ u.cr = Now.cr /\ ~u.jsOffer /\ ~u.jsRemote
            /\ u.restart = Now.restart /\ u.sig = HRO
        BY <1>5, <1>10, <2>1, <3>1, <3>2 DEF SameRestarts, SameLocal, SameRemote, state
      <3>4. Joint(u)
        BY <1>2, <1>10, <1>11, <2>1, <3>1, <3>2, <3>3, RemoteOfferJoint
      <3> QED
        BY <1>1, <1>2, <1>10, <2>1, <3>3, <3>4, RemoteOfferUpheld
    <2>2. CASE Task.type = "answer"
      <3>1. /\ s.pl.type = "offer" /\ s.pr.type # "offer" /\ s.jsRemote = FALSE
            /\ s.pl # NoDesc /\ Task.desc.data = s.pl.data /\ Now = s
        BY <1>1, <2>2, RemoteAnswerComes, RemoteGiven
      <3>2. s.ncl = NoDesc
        BY <1>2, <1>3, <3>1 DEF Joint, NativeFits, Described
      <3>3. /\ u.l = s.pl /\ u.cl = s.pl /\ u.pl = NoDesc /\ u.r = Task.desc
            /\ u.cr = Task.desc /\ u.pr = NoDesc /\ ~u.jsOffer /\ ~u.jsRemote
            /\ u.restart = s.restart /\ u.sig = "stable"
        BY <1>3, <1>5, <1>10, <2>2, <3>1 DEF SameRestarts, SameLocal, SameRemote, state
      <3>4. Joint(u)
        BY <1>2, <1>10, <1>11, <2>2, <3>1, <3>2, <3>3, RemoteAnswerJoint
      <3>5. Consistent(u)
        BY <1>2, <1>10, <3>1, <3>4, JointConsistent
      <3>6. Moves(s, u)
        BY <1>2, <2>2, <3>1, <3>3, DescriptionTypes DEF Moves
      <3> QED
        BY <2>2, <3>3, <3>5, <3>6 DEF Achieved, Idle
    <2> QED
      BY <1>3, <2>1, <2>2
  <1> QED
    BY <1>1, <1>2, <1>12, AwaitStageJoins DEF SetOps

LEMMA SetRemoteOfferJoins == ASSUME Given, SetRemoteOffer PROVE Upheld
  <1>1. RemoteWork("offer")
    BY DEF SetRemoteOffer
  <1>2. Task.type = "offer"
    BY <1>1, RemoteWorkFacts DEF Given
  <1>3. /\ Describes /\ Task.op = "setRemote" /\ Task.desc \in Descriptions
        /\ Task.desc.type = "offer" /\ Task.here \in BOOLEAN /\ Now \in States /\ Joint(Now)
        /\ ~Now.closed /\ ~s.closed /\ Silent(Now)
        /\ RemotePath(Now, Task.desc, Task.valid, Task.at) = "offer"
        /\ SameMade(s, Now) /\ \A v : Moves(Now, v) => Moves(s, v)
    BY <1>1, <1>2, RemoteGiven DEF RemoteExpects
  <1>4. /\ Now.jsOffer = FALSE /\ Now.pl = NoDesc /\ Now.sig \in {"stable", HRO}
        /\ Now.sig = "stable" => Now.pr.type = "none"
    BY <1>1, <1>2, RemoteOfferGiven
  <1>5. Task.desc # NoDesc
    BY <1>3, MediaFields
  <1>6. /\ ~RestartRemoteOffer(Now, Task.desc) /\ ~DataOnlyRemoteOffer(Now, Task.desc)
        /\ Task.desc.data /\ Now.sig # HRO
    BY <1>3, <1>5 DEF RemotePath, IsNoMedia
  <1>7. CASE NativeAcceptsRemote(Now, "offer")
    <2>1. PICK inline \in SUBSET {"inline"} :
            LET n == [NativeSetRemote(Now, Task.desc) EXCEPT !.queued = @ \cup inline]
                t == SyncSignalingState(SetPendingRemote(
                         RollbackLocal(Pair(n, Task.here)), Task.desc))
            IN  AwaitSuppressed(Announce(t, Now.sig), Now.sig)
      BY <1>7, Zenon DEF SetRemoteOffer
    <2> DEFINE m == NativeSetRemote(Now, Task.desc)
               q == m.queued \cup inline
               n == [m EXCEPT !.queued = q]
               p == Pair(n, Task.here)
               o == SetPendingRemote(RollbackLocal(p), Task.desc)
               t == SyncSignalingState(o)
               u == Announce(t, Now.sig)
    <2>2. AwaitSuppressed(u, Now.sig)
      BY <2>1
    <2>3. Now.nsig = "stable"
      BY <1>7 DEF NativeAcceptsRemote
    <2>4. /\ NativeStep(Now, m) /\ m.nl = Now.nl /\ m.ncl = Now.ncl /\ m.nsig = HRO
          /\ m.native # "none" /\ Silent(m)
      BY <1>3, NativeSetRemoteKeeps, NativeSetRemoteEffect DEF Silent
    <2> HIDE DEF m
    <2>5. q \in Candidates
      BY <2>4, StateFields DEF NativeStep, Candidates
    <2> HIDE DEF q
    <2>6. n \in States /\ Carried(m, n) /\ SameLocal(m, n) /\ SameRemote(m, n)
      <3>1. n \in States
        BY <2>4, <2>5, StateValues DEF NativeStep
      <3> QED
        BY <2>4, <3>1 DEF NativeStep, Carried, SameMade, SameRestarts, SameLocal, SameRemote,
                          Undisturbed, States
    <2> HIDE DEF n
    <2>7. /\ p \in States /\ SameMade(n, p) /\ SameRestarts(n, p) /\ SameLocal(n, p)
          /\ SameRemote(n, p) /\ Undisturbed(n, p)
      BY <1>3, <2>6, PairEffect
    <2> HIDE DEF p
    <2>8. /\ Carried(p, o) /\ o \in States /\ o.l = p.cl /\ o.cl = p.cl /\ o.pl = NoDesc
          /\ o.r = Task.desc /\ o.pr = Task.desc /\ o.cr = p.cr
      BY <1>3, <2>7, PendingOver
    <2> HIDE DEF o
    <2>9. t \in States /\ Alike(o, t) /\ t.sig = Synced(o)
      BY <2>8, SyncAlike
    <2> HIDE DEF t
    <2>10. Alike(t, u) /\ u.sig = t.sig
      BY <2>9, AnnounceAlike
    <2> HIDE DEF u
    <2>11. Alike(o, u) /\ u.sig = Synced(o) /\ u \in States
      BY <2>9, <2>10, AlikeSteps DEF Alike
    <2>12. SameMade(Now, u) /\ SameRestarts(Now, u)
      BY <2>4, <2>6, <2>7, <2>8, <2>11
         DEF Alike, Carried, SameMade, SameRestarts, NativeStep, SameExchange
    <2>13. /\ u.l = Now.cl /\ u.cl = Now.cl /\ u.pl = NoDesc /\ u.r = Task.desc
           /\ u.pr = Task.desc /\ u.cr = Now.cr
      BY <2>4, <2>6, <2>7, <2>8, <2>11
         DEF Alike, SameLocal, SameRemote, NativeStep, SameExchange
    <2>14. Undisturbed(m, u)
      BY <2>6, <2>7, <2>8, <2>11, UndisturbedSteps DEF Alike, Carried
    <2>15. /\ u.nl = Now.nl /\ u.ncl = Now.ncl /\ u.nsig = HRO /\ u.native # "none"
           /\ Silent(u)
      BY <2>4, <2>14 DEF Undisturbed, Silent, Tells
    <2>16. u.sig = HRO /\ ~u.jsOffer /\ ~u.jsRemote
      <3>1. ~Now.jsRemote
        BY <1>3, <1>4, <1>6 DEF Joint, Restarts
      <3>2. ~o.jsOffer /\ o.pl.type = "none" /\ o.pr.type = "offer" /\ ~o.closed
        BY <1>3, <1>4, <2>8, <2>11, <2>12, DescriptionTypes DEF SameMade, SameRestarts, Alike
      <3> QED
        BY <1>4, <2>11, <2>12, <3>1, <3>2 DEF Synced, DescriptionSignalingState, SameRestarts
    <2>17. Described(u) /\ NativeFits(u)
      BY <1>3, <1>5, <1>6, <2>3, <2>13, <2>15, DescriptionTypes
         DEF Joint, Described, NativeFits, Blank, Or, HLO, HRO
    <2>18. News(u) /\ Offered(u)
      BY <1>3, <1>4, <2>12, <2>13, <2>15, DescriptionTypes DEF News, Joint, Offered, SameMade
    <2>19. Answerable(u)
      <3>1. ~(Now.cl.data /\ Now.cl.type = "answer")
        BY <1>3, <1>4, <1>6
           DEF Joint, Described, CurrentTypes, RestartRemoteOffer, DataOnlyRemoteOffer
      <3> QED
        BY <1>3, <1>5, <2>13, <3>1, DescriptionTypes DEF Answerable
    <2>20. Restarts(u)
      BY <2>15, <2>16 DEF Restarts, HLO, HRO
    <2>21. Joint(u)
      BY <2>17, <2>18, <2>19, <2>20 DEF Joint
    <2>22. Consistent(u) /\ Moves(s, u) /\ Achieved(u, Task)
      BY <1>1, <1>2, <1>3, <2>12, <2>13, <2>16, <2>21, RemoteOfferUpheld
    <2> QED
      BY <1>3, <2>2, <2>11, <2>22, AwaitSuppressedJoins DEF SetOps
  <1>8. CASE ~NativeAcceptsRemote(Now, "offer")
    <2> DEFINE u == EnsureNative(Now)
    <2>1. Reject(u)
      BY <1>8, Zenon DEF SetRemoteOffer
    <2>2. Alike(Now, u) /\ u \in States
      BY <1>3, EnsureNativeKeeps, EnsureNativeStep, AlikeSteps
    <2> HIDE DEF u
    <2>3. Joint(u) /\ Moves(Now, u) /\ SameMade(s, u)
      BY <1>3, <2>2, AlikeConsistent, AlikeMoves DEF Alike, SameMade
    <2>4. Consistent(u)
      BY <1>3, <2>3, JointConsistent
    <2> QED
      BY <1>3, <2>1, <2>2, <2>3, <2>4, RejectJoins
  <1> QED
    BY <1>7, <1>8

\* A remote answer with media: the work that comes to it.
LEMMA AnswerWorkGiven ==
    ASSUME Given, NEW path \in AnswerStages, RemoteWork(path)
    PROVE  /\ Task.type = "answer" /\ Now = s /\ s.pl.type = "offer"
           /\ Task.desc.data = s.pl.data /\ (s.jsOffer <=> path = "restartAnswer")
           /\ path = "dataOnlyAnswer" => s.cl.type = "offer"
  BY RemoteWorkFacts, RemoteGiven, RemoteAnswerComes
  DEF Given, AnswerStages, RemotePath, RemoteExpects, DataOnlyRemoteAnswer

\* It is the same when the answerer was awaited before, but for a close.
LEMMA RemoteAnswerGiven ==
    ASSUME Given, NEW path \in AnswerStages, RemoteAnswer(path)
    PROVE  /\ Describes /\ Task.op = "setRemote" /\ Task.desc \in Descriptions
           /\ Task.desc.type = "answer" /\ Task.type = "answer" /\ Task.here \in BOOLEAN
           /\ s \in States /\ Consistent(s) /\ Phase(s)
           /\ s.pl.type = "offer" /\ s.pl # NoDesc /\ Task.desc # NoDesc
           /\ ~s.closed => /\ Joint(s) /\ Task.desc.data = s.pl.data /\ ~s.jsRemote
                           /\ s.jsOffer <=> path = "restartAnswer"
                           /\ path = "dataOnlyAnswer" => s.cl.type = "offer"
  <1>1. /\ Describes /\ Task.desc \in Descriptions /\ Task.here \in BOOLEAN
        /\ s \in States /\ Task \in Tasks /\ Ready /\ Sound
    BY RemoteAnswerFacts, JoinedFacts DEF Given, AnswerStages, Describes
  <1>2. Consistent(s) /\ Phase(s)
    BY <1>1, JoinedFacts
  <1>3. Task.op = "setRemote" /\ (Task.at = path \/ RemoteWork(path))
    BY DEF RemoteAnswer, At, Task, RemoteWork
  <1>4. Task.type = Task.desc.type
    BY <1>1, <1>3 DEF Tasks, Shape, SetOps
  <1>5. Fits(s, Task)
    BY <1>1, HeadFits DEF Describes
  <1>6. /\ Task.type = "answer" /\ s.pl.type = "offer"
        /\ ~s.closed => /\ Task.desc.data = s.pl.data
                        /\ s.jsOffer <=> path = "restartAnswer"
                        /\ path = "dataOnlyAnswer" => s.cl.type = "offer"
    <2>1. CASE Task.at = path
      BY <1>3, <1>5, <2>1 DEF Fits, Answers, Expects
    <2>2. CASE RemoteWork(path)
      BY <2>2, AnswerWorkGiven
    <2> QED
      BY <1>3, <2>1, <2>2
  <1>7. ~s.closed => Joint(s) /\ ~s.jsRemote
    BY <1>2, <1>6 DEF Phase, Exchanges, Consistent, Joint, Restarts
  <1> QED
    BY <1>1, <1>2, <1>3, <1>4, <1>6, <1>7, StateMedia, MediaFields

LEMMA AwaitAnswererJoins == ASSUME Given, AwaitAnswerer PROVE Upheld
  <1>1. PICK path \in AnswerStages :
            /\ RemoteWork(path)
            /\ waiting' = waiting \cup {[Task EXCEPT !.at = path, !.before = s.sig]}
    BY Zenon DEF AwaitAnswerer, AnswerStages
  <1> DEFINE w == [Task EXCEPT !.at = path, !.before = s.sig]
  <1>2. s' = s /\ tasks' = Tail(tasks) /\ outcome' = NoOutcome /\ waiting' = waiting \cup {w}
    BY <1>1 DEF AwaitAnswerer
  <1>3. /\ Task.type = "answer" /\ Now = s /\ s.pl.type = "offer"
        /\ Task.desc.data = s.pl.data /\ (s.jsOffer <=> path = "restartAnswer")
        /\ path = "dataOnlyAnswer" => s.cl.type = "offer"
    BY <1>1, AnswerWorkGiven
  <1>4. /\ Describes /\ Task \in Tasks /\ Task.op = "setRemote" /\ s \in States
        /\ Sound /\ Single /\ Ready /\ Consistent(s)
    BY <1>1, RemoteGiven, JoinedFacts DEF AnswerStages, Describes
  <1>5. Staged(Task, w, path)
    BY <1>4, StageTyped, StateFields, StatesNamed DEF AnswerStages
  <1> HIDE DEF w
  <1>6. Fits(s, w)
    BY <1>3, <1>4, <1>5 DEF Staged, Answers, Expects, AnswerStages, Finishing, Fits
  <1>7. waiting = {} /\ \A i : Describing(i) => i = 1
    BY <1>4, Alone DEF Describes
  <1>8. ASSUME NEW i \in 1 .. Len(tasks')
        PROVE  Fits(s, tasks'[i])
    BY <1>2, <1>4, <1>8, Shifts, <1>7, NothingExpected DEF Describing
  <1> QED
    BY <1>2, <1>4, <1>6, <1>7, <1>8, NotHonest, StutterMoves, TasksJoin

\* What ends with an answer that JavaScript completes the exchange with alone.
LEMMA AnswerUpheld ==
    ASSUME Given, NEW path \in {"restartAnswer", "dataOnlyAnswer"}, RemoteAnswer(path),
           NEW d \in Descriptions, d.type = "answer", d.data = Task.desc.data,
           NEW u, Carried(s, u) \/ (Undisturbed(s, u) /\ SameMade(s, u) /\ u.paired = s.paired),
           u.l = s.pl, u.cl = s.pl, u.pl = NoDesc, u.r = d, u.cr = d, u.pr = NoDesc,
           ~s.closed => ~u.jsOffer /\ u.sig = "stable" /\ u.jsRemote = s.jsRemote,
           u.restart => s.restart,
           Await(u, "done")
    PROVE  Upheld
  <1>1. path \in AnswerStages
    BY DEF AnswerStages
  <1>2. /\ Describes /\ Task.op = "setRemote" /\ Task.type = "answer"
        /\ s \in States /\ Consistent(s) /\ s.pl.type = "offer"
        /\ ~s.closed => /\ Joint(s) /\ Task.desc.data = s.pl.data /\ ~s.jsRemote
                        /\ s.jsOffer <=> path = "restartAnswer"
                        /\ path = "dataOnlyAnswer" => s.cl.type = "offer"
    BY <1>1, RemoteAnswerGiven
  <1>3. Undisturbed(s, u) /\ SameMade(s, u) /\ u.paired = s.paired
    BY DEF Carried
  <1>4. Moves(s, u)
    BY <1>2, DescriptionTypes DEF Moves
  <1>5. CASE s.closed
    <2>1. Gone(u)
      BY <1>2, <1>3, <1>5 DEF Consistent, Gone, Undisturbed, Silent, Tells
    <2>2. u.closed /\ Consistent(u)
      BY <1>3, <1>5, <2>1 DEF Consistent, SameMade
    <2> QED
      BY <1>2, <1>4, <2>2, AwaitStageJoins DEF SetOps
  <1>6. CASE ~s.closed
    <2>1. s.ncl # NoDesc => s.ncl.type = "offer"
      BY <1>2, <1>6, StateMedia DEF Joint, NativeFits, Restarts, FromNative, Described,
                                    CurrentTypes
    <2>2. Joint(u)
      BY <1>2, <1>3, <1>6, <2>1, RemoteAnswerJoint
    <2>3. Consistent(u) /\ Achieved(u, Task)
      BY <1>2, <1>3, <1>6, <2>2, JointConsistent DEF Achieved, Idle
    <2> QED
      BY <1>2, <1>4, <2>3, AwaitStageJoins DEF SetOps
  <1> QED
    BY <1>5, <1>6

LEMMA SetRemoteRestartAnswerJoins == ASSUME Given, SetRemoteRestartAnswer PROVE Upheld
  <1> DEFINE d == MarkRestart(Task.desc)
             c == CommitRemoteAnswer(s, d)
             x == [c EXCEPT !.jsOffer = FALSE, !.restart = FALSE]
             u == EnterState(x, "stable", Before)
  <1>1. RemoteAnswer("restartAnswer") /\ Await(u, "done")
    BY Zenon DEF SetRemoteRestartAnswer
  <1>2. /\ Task.desc \in Descriptions /\ Task.desc.type = "answer" /\ s \in States
        /\ s.pl # NoDesc
    BY <1>1, RemoteAnswerGiven DEF AnswerStages
  <1>3. d \in Descriptions /\ d.type = "answer" /\ d.data = Task.desc.data /\ d # NoDesc
    BY <1>2, DescriptionOperators, MediaFields
  <1> HIDE DEF d
  <1>4. /\ Carried(s, c) /\ c.r = d /\ c.cr = d /\ c.pl = NoDesc /\ c.pr = NoDesc
        /\ c.l = s.pl /\ c.cl = s.pl /\ c \in States
    BY <1>2, <1>3, CommitAnswerFields DEF Carried
  <1> HIDE DEF c
  <1>5. /\ x \in States /\ SameMade(c, x) /\ SameLocal(c, x) /\ SameRemote(c, x)
        /\ Undisturbed(c, x) /\ x.paired = c.paired /\ x.jsOffer = FALSE
        /\ x.jsRemote = c.jsRemote /\ x.restart = FALSE
    <2> DEFINE y == [c EXCEPT !.jsOffer = FALSE]
    <2>1. y \in States
      BY <1>4, StateFlags
    <2>2. x = [y EXCEPT !.restart = FALSE]
      BY <1>4 DEF States
    <2> HIDE DEF y
    <2>3. x \in States
      BY <2>1, <2>2, StateFlags
    <2> QED
      BY <1>4, <2>3 DEF SameMade, SameLocal, SameRemote, Undisturbed, States
  <1> HIDE DEF x
  <1>6. Alike(x, u) /\ u.sig = "stable"
    <2>1. Entered(x, u, "stable")
      BY <1>5, EnterStateKeeps, StateNames
    <2> HIDE DEF u
    <2> QED
      BY <2>1, AlikeSteps
  <1> HIDE DEF u
  <1>7. /\ SameMade(s, u) /\ u.paired = s.paired /\ u.jsRemote = s.jsRemote
        /\ u.l = s.pl /\ u.cl = s.pl /\ u.pl = NoDesc /\ u.r = d /\ u.cr = d
        /\ u.pr = NoDesc /\ ~u.jsOffer /\ ~u.restart
    BY <1>4, <1>5, <1>6
       DEF Alike, Carried, SameMade, SameRestarts, SameLocal, SameRemote
  <1>8. Undisturbed(s, u)
    BY <1>4, <1>5, <1>6, UndisturbedSteps DEF Alike, Carried
  <1> QED
    BY <1>1, <1>3, <1>6, <1>7, <1>8, AnswerUpheld

LEMMA SetRemoteDataOnlyAnswerJoins == ASSUME Given, SetRemoteDataOnlyAnswer PROVE Upheld
  <1> DEFINE c == CommitRemoteAnswer(s, Task.desc)
             t == SyncSignalingState(c)
             u == DispatchIfChanged(t, Before)
  <1>1. RemoteAnswer("dataOnlyAnswer") /\ Await(u, "done")
    BY Zenon DEF SetRemoteDataOnlyAnswer
  <1>2. /\ Task.desc \in Descriptions /\ Task.desc.type = "answer" /\ s \in States
        /\ s.pl # NoDesc /\ Task.desc # NoDesc /\ (~s.closed => ~s.jsOffer)
    BY <1>1, RemoteAnswerGiven DEF AnswerStages
  <1>3. /\ Carried(s, c) /\ c.r = Task.desc /\ c.cr = Task.desc /\ c.pl = NoDesc
        /\ c.pr = NoDesc /\ c.l = s.pl /\ c.cl = s.pl /\ c \in States
    BY <1>2, CommitAnswerFields DEF Carried
  <1> HIDE DEF c
  <1>4. Alike(c, u) /\ u.sig = Synced(c)
    BY <1>3, SyncAlike
  <1> HIDE DEF t, u
  <1>5. Carried(s, u) /\ SameLocal(c, u) /\ SameRemote(c, u)
    BY <1>3, <1>4, CarriedAlike
  <1>6. ~s.closed => ~u.jsOffer /\ u.sig = "stable"
    BY <1>2, <1>3, <1>4, <1>5, DescriptionTypes
       DEF Carried, SameMade, SameRestarts, Synced, DescriptionSignalingState
  <1>7. u.jsRemote = s.jsRemote /\ u.restart = s.restart
    BY <1>5 DEF Carried, SameRestarts
  <1> QED
    BY <1>1, <1>2, <1>3, <1>5, <1>6, <1>7, AnswerUpheld DEF SameLocal, SameRemote

\* The native peer takes the answer of the other side.
LEMMA NativeRemoteAnswerJoint ==
    ASSUME NEW t \in States, NEW u, Joint(t), NEW d \in Descriptions, d.type = "answer",
           SameMade(t, u), t.nsig = HLO, t.pl.type = "offer", d.data = t.pl.data,
           u.nl = t.nl, u.ncl = t.nl, u.nsig = "stable", Tells(u, {u.nl}),
           u.l = t.pl, u.cl = t.pl, u.pl = NoDesc, u.r = d, u.cr = d, u.pr = NoDesc,
           ~u.jsOffer, ~u.jsRemote
    PROVE  Joint(u) /\ Moves(t, u)
  <1>1. d # NoDesc /\ t.pl # NoDesc /\ NoDesc.type = "none" /\ t.nl # NoDesc
    BY MediaFields, StateMedia DEF Joint, NativeFits
  <1>2. Described(u)
    BY <1>1 DEF Joint, Described, Blank, Or, CurrentTypes
  <1>3. NativeFits(u)
    BY <1>1 DEF Joint, NativeFits, HLO
  <1>4. News(u) /\ Offered(u)
    BY <1>1 DEF News, Offered, HRO
  <1>5. Answerable(u) /\ Restarts(u)
    BY DEF Answerable, Restarts, HLO, HRO
  <1>6. Moves(t, u)
    BY <1>1 DEF Moves
  <1> QED
    BY <1>2, <1>3, <1>4, <1>5, <1>6 DEF Joint

LEMMA SetRemoteAnswerJoins == ASSUME Given, SetRemoteAnswer PROVE Upheld
  <1>1. RemoteAnswer("answer")
    BY DEF SetRemoteAnswer
  <1>2. /\ Describes /\ Task.op = "setRemote" /\ Task.desc \in Descriptions
        /\ Task.desc.type = "answer" /\ Task.type = "answer" /\ Task.here \in BOOLEAN
        /\ s \in States /\ Consistent(s) /\ Phase(s)
        /\ s.pl.type = "offer" /\ s.pl # NoDesc /\ Task.desc # NoDesc
        /\ ~s.closed => /\ Joint(s) /\ Task.desc.data = s.pl.data
                        /\ ~s.jsRemote /\ ~s.jsOffer
    BY <1>1, RemoteAnswerGiven DEF AnswerStages
  <1>3. CASE NativeAcceptsRemote(s, "answer")
    <2> DEFINE n == NativeSetRemote(s, Task.desc)
               p == Pair(n, Task.here)
               c == CommitRemoteAnswer(p, Task.desc)
               t == SyncSignalingState(c)
               a == Announce(t, s.sig)
               u == AddPendingCandidates(a)
    <2>1. AwaitSuppressed(u, s.sig)
      BY <1>3, Zenon DEF SetRemoteAnswer
    <2>2. s.nsig = HLO /\ ~s.closed
      BY <1>2, <1>3 DEF NativeAcceptsRemote, Consistent, Gone, HLO
    <2>3. /\ NativeStep(s, n) /\ n.nl = s.nl /\ n.ncl = s.nl /\ n.nsig = "stable"
          /\ Tells(n, {n.nl})
      <3>1. Tells(s, {s.nl})
        BY <1>2, <2>2 DEF Joint, News, Silent, Tells
      <3> QED
        BY <1>2, <3>1, NativeSetRemoteKeeps, NativeSetRemoteEffect
    <2> HIDE DEF n
    <2>4. /\ p \in States /\ SameMade(n, p) /\ SameRestarts(n, p) /\ SameLocal(n, p)
          /\ SameRemote(n, p) /\ Undisturbed(n, p)
      BY <1>2, <2>3, PairEffect DEF NativeStep
    <2> HIDE DEF p
    <2>5. /\ p.pl = s.pl /\ SameMade(s, p) /\ SameRestarts(s, p)
      BY <2>3, <2>4 DEF SameMade, SameRestarts, SameLocal, NativeStep, SameExchange
    <2>6. /\ Carried(p, c) /\ c.r = Task.desc /\ c.cr = Task.desc /\ c.pl = NoDesc
          /\ c.pr = NoDesc /\ c.l = s.pl /\ c.cl = s.pl /\ c \in States
      BY <1>2, <2>4, <2>5, CommitAnswerFields DEF Carried
    <2> HIDE DEF c
    <2>7. t \in States /\ Alike(c, t) /\ t.sig = Synced(c)
      BY <2>6, SyncAlike
    <2> HIDE DEF t
    <2>8. Alike(t, a) /\ a.sig = t.sig /\ a \in States
      BY <2>7, AnnounceAlike DEF Alike
    <2> HIDE DEF a
    <2>9. Alike(a, u) /\ u.sig = a.sig
      BY <2>8, AddPendingCandidatesKeeps, AlikeSteps
    <2> HIDE DEF u
    <2>10. Alike(c, u) /\ u.sig = Synced(c) /\ u \in States
      BY <2>7, <2>8, <2>9, AlikeSteps DEF Alike
    <2>11. SameMade(s, u) /\ SameRestarts(s, u)
      BY <2>5, <2>6, <2>10 DEF Alike, Carried, SameMade, SameRestarts
    <2>12. /\ u.l = s.pl /\ u.cl = s.pl /\ u.pl = NoDesc /\ u.r = Task.desc
           /\ u.cr = Task.desc /\ u.pr = NoDesc
      BY <2>6, <2>10 DEF Alike, SameLocal, SameRemote
    <2>13. Undisturbed(n, u)
      BY <2>4, <2>6, <2>10, UndisturbedSteps DEF Alike, Carried
    <2>14. u.nl = s.nl /\ u.ncl = s.nl /\ u.nsig = "stable" /\ Tells(u, {u.nl})
      BY <2>3, <2>13 DEF Undisturbed, Tells
    <2>15. ~u.jsOffer /\ ~u.jsRemote /\ u.sig = "stable"
      BY <1>2, <2>2, <2>6, <2>10, <2>11, DescriptionTypes
         DEF Synced, DescriptionSignalingState, Alike, SameMade, SameRestarts
    <2>16. Joint(u) /\ Moves(s, u)
      BY <1>2, <2>2, <2>11, <2>12, <2>14, <2>15, NativeRemoteAnswerJoint
    <2>17. Consistent(u) /\ Achieved(u, Task)
      BY <1>2, <2>2, <2>11, <2>12, <2>15, <2>16, JointConsistent DEF Achieved, Idle
    <2> QED
      BY <1>2, <2>1, <2>10, <2>16, <2>17, AwaitSuppressedJoins DEF SetOps
  <1>4. CASE ~NativeAcceptsRemote(s, "answer")
    <2> DEFINE u == EnsureNative(s)
    <2>1. Reject(u)
      BY <1>4, Zenon DEF SetRemoteAnswer
    <2>2. Alike(s, u) /\ u \in States
      BY <1>2, EnsureNativeKeeps, EnsureNativeStep, AlikeSteps
    <2> HIDE DEF u
    <2> QED
      BY <1>2, <2>1, <2>2, AlikeConsistent, AlikeMoves, RejectJoins
  <1> QED
    BY <1>3, <1>4

-----------------------------------------------------------------------------
\* createOffer and createAnswer
\* What becomes of an operation that is neither of the set operations.
LEMMA CreateJoins ==
    ASSUME Given, Describes, Task.op \notin SetOps, NEW u \in States, u.closed = s.closed,
           SameLocal(s, u), SameRemote(s, u), Undisturbed(s, u), u.paired = s.paired,
           ~s.closed => Joint(u), Settle(u) \/ Reject(u)
    PROVE  Upheld
  <1>1. Consistent(s)
    BY JoinedFacts
  <1>2. Consistent(u)
    BY <1>1 DEF Consistent, Gone, Undisturbed, Silent, Tells
  <1>3. Moves(s, u)
    BY DEF Moves, SameCurrent, SameLocal, SameRemote
  <1> QED
    BY <1>2, <1>3, SettleJoins, RejectJoins

LEMMA CreateOfferJoins == ASSUME Given, CreateOffer PROVE Upheld
  <1> DEFINE e == EnsureNative(s)
             b == s.restart \/ Task.restart
             t == [e EXCEPT !.restart = b]
             offer == [NativeOffer(s) EXCEPT
                           !.restart = t.restart /\ ~CanApplyNativeIceCredentials(s)]
             u == [t EXCEPT !.lastOffer = offer]
  <1>1. At("createOffer", "work") /\ (Reject(t) \/ Settle(u))
    BY Zenon DEF CreateOffer
  <1>2. /\ Describes /\ s \in States /\ Created(s) /\ Task \in Tasks
        /\ Task.op = "createOffer" /\ Fits(s, Task) /\ Consistent(s)
    BY <1>1, DescribesFacts, HeadFits, JoinedFacts
       DEF Given, DescriptionOps, At, Task, Describes
  <1>3. b \in BOOLEAN
    BY <1>2, StateFields DEF Tasks, TaskRecords
  <1>4. ~s.closed /\ Task.restart => s.nsig = "stable"
    BY <1>2 DEF Fits, Expects
  <1> DEFINE A(x) == /\ x \in States /\ x.closed = s.closed /\ SameLocal(s, x)
                     /\ SameRemote(s, x) /\ Undisturbed(s, x) /\ x.paired = s.paired
                     /\ x.restart = b /\ x.jsOffer = s.jsOffer /\ x.jsRemote = s.jsRemote
                     /\ x.lastAnswer = s.lastAnswer /\ x.channels = s.channels
  <1>5. A(t) /\ t.lastOffer = s.lastOffer
    <2>1. /\ e \in States /\ Undisturbed(s, e) /\ SameExchange(s, e) /\ e.paired = s.paired
      BY <1>2, EnsureNativeKeeps DEF SameCandidates
    <2> HIDE DEF e, b
    <2>2. t \in States
      BY <1>3, <2>1, StateFlags
    <2> QED
      BY <2>1, <2>2 DEF SameExchange, SameLocal, SameRemote, Undisturbed, States
  <1>6. offer \in Descriptions /\ offer.data = (s.channels \/ s.nl # NoDesc)
    <2>1. NativeOffer(s) \in Descriptions
      BY <1>2, ImplicitTyped
    <2>2. NativeOffer(s).data = (s.channels \/ s.nl # NoDesc)
      BY <1>2, MediaFields, StateFields DEF NativeOffer
    <2>3. (t.restart /\ ~CanApplyNativeIceCredentials(s)) \in BOOLEAN
      OBVIOUS
    <2> QED
      BY <2>1, <2>2, <2>3 DEF Descriptions
  <1> HIDE DEF e, b, t, offer
  <1>7. A(u) /\ u.lastOffer = offer
    <2>1. u \in States
      BY <1>5, <1>6, StateDescriptions
    <2> QED
      BY <1>5, <2>1 DEF SameLocal, SameRemote, Undisturbed, States
  <1> HIDE DEF u
  <1>8. ASSUME NEW x, A(x), x.lastOffer \in {s.lastOffer, offer}, ~s.closed
        PROVE  Joint(x)
    <2>1. Joint(s) /\ (x.restart => s.restart \/ s.nsig = "stable")
      BY <1>2, <1>4, <1>8 DEF Consistent, b
    <2>2. Described(x) /\ NativeFits(x) /\ News(x)
      BY <1>8, <2>1 DEF Joint, Described, NativeFits, News, Silent, Tells, SameLocal,
                        SameRemote, Undisturbed
    <2>3. Answerable(x) /\ Restarts(x)
      BY <1>8, <2>1 DEF Joint, Answerable, Restarts, SameLocal, SameRemote, Undisturbed,
                        HLO, HRO
    <2>4. s.nl # NoDesc => s.channels \/ s.ncl # NoDesc
      BY <2>1 DEF Joint, NativeFits, Offered
    <2>5. Offered(x)
      BY <1>6, <1>8, <2>1, <2>4, StateMedia
         DEF Joint, Offered, NativeFits, SameLocal, Undisturbed
    <2> QED
      BY <2>1, <2>2, <2>3, <2>5 DEF Joint
  <1> QED
    BY <1>1, <1>2, <1>5, <1>7, <1>8, CreateJoins DEF SetOps

LEMMA CreateAnswerJoins == ASSUME Given, CreateAnswer PROVE Upheld
  <1> DEFINE r == RemoteDescription(s)
             answer == [Local("answer", r.data) EXCEPT !.restart = s.jsRemote]
             e == EnsureNative(s)
  <1>1. PICK x \in {s, e} : Settle([x EXCEPT !.lastAnswer = answer]) \/ Reject(x)
    BY Zenon DEF CreateAnswer
  <1> DEFINE u == [x EXCEPT !.lastAnswer = answer]
  <1>2. At("createAnswer", "work")
    BY DEF CreateAnswer
  <1>3. /\ Describes /\ s \in States /\ Created(s) /\ Task.op = "createAnswer"
        /\ Fits(s, Task) /\ Consistent(s)
    BY <1>2, DescribesFacts, HeadFits, JoinedFacts
       DEF Given, DescriptionOps, At, Task, Describes
  <1>4. ~s.closed => Joint(s) /\ (s.nsig = HRO => s.pr # NoDesc)
    BY <1>3, StateMedia DEF Fits, Expects, Consistent
  <1>5. x \in States /\ Alike(s, x)
    BY <1>3, EnsureNativeKeeps, EnsureNativeStep, AlikeSteps
  <1>6. answer \in Descriptions
    BY <1>3, ImplicitTyped, StateFields, DescriptionTypes, DescriptionOperators
  <1> HIDE DEF answer, e
  <1>7. /\ u \in States /\ SameRestarts(x, u) /\ SameLocal(x, u) /\ SameRemote(x, u)
        /\ Undisturbed(x, u) /\ u.paired = x.paired /\ u.closed = x.closed
        /\ u.channels = x.channels /\ u.lastOffer = x.lastOffer
    <2>1. u \in States
      BY <1>5, <1>6, StateDescriptions
    <2> QED
      BY <1>5, <2>1 DEF SameRestarts, SameLocal, SameRemote, Undisturbed, States
  <1> HIDE DEF u
  <1>8. ~s.closed => Joint(u)
    <2>1. ~s.closed => Joint(x) /\ (x.nsig = HRO => x.pr # NoDesc)
      BY <1>4, <1>5, AlikeConsistent DEF Alike, SameRemote, Undisturbed
    <2>2. Joint(x) => Described(u) /\ NativeFits(u) /\ News(u) /\ Offered(u)
      BY <1>7 DEF Joint, Described, NativeFits, News, Silent, Tells, Offered, SameLocal,
                  SameRemote, Undisturbed
    <2>3. Joint(x) /\ (x.nsig = HRO => x.pr # NoDesc) => Answerable(u) /\ Restarts(u)
      BY <1>7 DEF Joint, Answerable, Restarts, SameRestarts, SameLocal, SameRemote,
                  Undisturbed
    <2> QED
      BY <2>1, <2>2, <2>3 DEF Joint
  <1>9. u.closed = s.closed /\ SameLocal(s, u) /\ SameRemote(s, u) /\ u.paired = s.paired
    BY <1>5, <1>7 DEF Alike, SameMade, SameLocal, SameRemote
  <1>10. Undisturbed(s, u)
    BY <1>5, <1>7, UndisturbedSteps DEF Alike
  <1>11. CASE Settle(u)
    BY <1>3, <1>7, <1>8, <1>9, <1>10, <1>11, CreateJoins DEF SetOps
  <1>12. CASE Reject(x)
    BY <1>3, <1>5, <1>12, AlikeConsistent, AlikeMoves, RejectJoins
  <1> QED
    BY <1>1, <1>11, <1>12 DEF u

-----------------------------------------------------------------------------
\* Steps that leave the operations where they are, or add and remove others.
LEMMA OthersJoin ==
    ASSUME Given, NEW u, s' = u, outcome' = NoOutcome, Consistent(u), Moves(s, u),
           \A i \in 1 .. Len(tasks) : Fits(u, tasks[i]),
           \A w \in waiting : Fits(u, w), waiting' \subseteq waiting,
           \A i \in 1 .. Len(tasks') :
               \/ \E j \in 1 .. Len(tasks) : tasks'[i] = tasks[j]
               \/ tasks'[i] \in waiting \/ Fits(u, tasks'[i])
    PROVE  Upheld
  BY NotHonest, TasksJoin

LEMMA HoldsJoin ==
    ASSUME Given, NEW u, s' = u, outcome' = NoOutcome, Holds(s, u), waiting' \subseteq waiting,
           \A i \in 1 .. Len(tasks') :
               \/ \E j \in 1 .. Len(tasks) : tasks'[i] = tasks[j]
               \/ tasks'[i] \in waiting \/ Fits(u, tasks'[i])
    PROVE  Upheld
  BY OthersJoin DEF Holds, Given, Joined

LEMMA SameHolds ==
    ASSUME Given
    PROVE  Holds(s, s)
  BY JoinedFacts, AlikeSteps, AlikeHolds

LEMMA StartJoins ==
    ASSUME Given, NEW task \in TaskRecords, Shape(task), Start(task), Fits(s, task)
    PROVE  Upheld
  <1> DEFINE n == [task EXCEPT !.id = calls]
             u == [s EXCEPT !.ops = s.ops + 1]
  <1>1. /\ s' = u /\ tasks' = Append(tasks, n) /\ outcome' = NoOutcome /\ waiting' = waiting
    BY DEF Start
  <1>2. s \in States /\ Sound /\ Consistent(s) /\ calls \in Nat
    BY JoinedFacts DEF Sound, Typed
  <1>3. Alike(s, u) /\ u.sig = s.sig
    BY <1>2, StateFields, StateValues
    DEF Alike, SameMade, SameRestarts, SameLocal, SameRemote, Undisturbed, States
  <1> HIDE DEF u
  <1>4. Holds(s, u)
    BY <1>2, <1>3, AlikeHolds
  <1>5. /\ n \in TaskRecords /\ n.op = task.op /\ n.at = task.at /\ n.type = task.type
        /\ n.desc = task.desc /\ n.restart = task.restart
    BY <1>2 DEF TaskRecords
  <1> HIDE DEF n
  <1>6. n \in Tasks
    BY <1>5 DEF Tasks, Shape
  <1>7. Fits(s, n)
    BY <1>5 DEF Fits, Answers, Expects, LocalExpects, RemoteExpects, Achieved, Finishing
  <1>8. \A i \in 1 .. Len(tasks') :
            \/ i \in 1 .. Len(tasks) /\ tasks'[i] = tasks[i]
            \/ i = Len(tasks) + 1 /\ tasks'[i] = n
    BY <1>1, <1>2, <1>6, Joins
  <1> QED
    BY <1>1, <1>4, <1>7, <1>8, HoldsJoin DEF Holds

\* What calls of the application know.
LEMMA CallGiven ==
    ASSUME Given, NEW op, CanCall(op)
    PROVE  /\ ~s.closed /\ Joint(s) /\ Phase(s) /\ Cautious /\ s \in States /\ Created(s)
           /\ s.pr.type = "offer" <=> s.sig \in {HRO, HLP}
  <1>1. /\ ~s.closed /\ Joint(s) /\ Phase(s) /\ Cautious /\ s \in States /\ Created(s)
    BY JoinedFacts DEF CanCall, Consistent, Given, Careful
  <1>2. s.jsOffer \in BOOLEAN
    BY <1>1, StateFields
  <1> QED
    BY <1>1, <1>2 DEF Phase, Exchanges, HLO, HRO, HLP, HRP

LEMMA CallCreateJoins == ASSUME Given, CallCreateOffer \/ CallCreateAnswer PROVE Upheld
  <1>1. CASE CallCreateOffer
    <2>1. PICK restart \in BOOLEAN :
              /\ restart => MayRestart("answer")
              /\ Start([NewTask("createOffer") EXCEPT !.restart = restart])
      BY <1>1 DEF CallCreateOffer
    <2> DEFINE task == [NewTask("createOffer") EXCEPT !.restart = restart]
    <2>2. /\ NewTask("createOffer") \in TaskRecords /\ NewTask("createOffer").op = "createOffer"
          /\ NewTask("createOffer").at = "work"
      BY NewTaskTyped DEF Operations, DescriptionOps
    <2>3. /\ task \in TaskRecords /\ task.op = "createOffer" /\ task.at = "work"
          /\ task.restart = restart
      BY <2>2 DEF TaskRecords
    <2> HIDE DEF task
    <2>4. restart => s.nsig = "stable" /\ s.nl.type # "answer"
      BY <2>1 DEF MayRestart, Given, Careful
    <2>5. Shape(task) /\ Fits(s, task)
      BY <2>3, <2>4 DEF Shape, SetOps, Fits, Answers, Expects, Finishing
    <2> QED
      BY <2>1, <2>3, <2>5, StartJoins DEF task
  <1>2. CASE CallCreateAnswer
    <2> DEFINE task == NewTask("createAnswer")
    <2>1. CanCall("createAnswer") /\ MayAnswer /\ Start(task)
      BY <1>2 DEF CallCreateAnswer
    <2>2. task \in TaskRecords /\ task.op = "createAnswer" /\ task.at = "work"
      BY NewTaskTyped DEF Operations, DescriptionOps
    <2> HIDE DEF task
    <2>3. s.pr.type = "offer"
      BY <2>1, CallGiven DEF MayAnswer
    <2>4. Shape(task) /\ Fits(s, task)
      BY <2>2, <2>3 DEF Shape, SetOps, Fits, Answers, Expects, Finishing
    <2> QED
      BY <2>1, <2>2, <2>4, StartJoins
  <1> QED
    BY <1>1, <1>2

LEMMA CallSetLocalJoins == ASSUME Given, CallSetLocal PROVE Upheld
  <1>1. PICK d \in {NoDesc, Rollback, Plain(s.lastOffer), s.lastAnswer,
                    IF s.lastAnswer = NoDesc THEN NoDesc
                    ELSE [s.lastAnswer EXCEPT !.type = "pranswer"]} :
            /\ d = NoDesc => MayGuess
            /\ \/ d.type \in {"offer", "rollback"}
               \/ d = NoDesc /\ ImplicitType(s) = "offer"
               => MayBegin
            /\ s.restart /\ s.sig = "stable" => MayRestart("answer")
            /\ MayOffer(d) /\ MayAnswerWith(d)
            /\ Start([NewTask("setLocal") EXCEPT
                         !.desc = d,
                         !.type = IF d = NoDesc THEN ImplicitType(s) ELSE d.type])
    BY Zenon DEF CallSetLocal
  <1> DEFINE type == IF d = NoDesc THEN ImplicitType(s) ELSE d.type
             task == [NewTask("setLocal") EXCEPT !.desc = d, !.type = type]
  <1>2. CanCall("setLocal")
    BY DEF CallSetLocal
  <1>3. /\ ~s.closed /\ Joint(s) /\ Phase(s) /\ Cautious /\ s \in States /\ Created(s)
        /\ s.pr.type = "offer" <=> s.sig \in {HRO, HLP}
        /\ MayBegin => Silent(s)
    BY <1>2, CallGiven DEF Given, Careful, MayBegin, Silent, Tells
  <1>4. d \in Descriptions
    <2>1. s.lastOffer \in Descriptions /\ s.lastAnswer \in Descriptions
      BY <1>3, StateFields
    <2> QED
      BY <1>1, <2>1, LocalArguments, Zenon
  <1>5. /\ d = NoDesc => type = IF s.sig = HRO THEN "answer" ELSE "offer"
        /\ d # NoDesc => type = d.type
    BY DEF ImplicitType
  <1>6. type \in {"none", "offer", "answer", "pranswer", "rollback"}
    BY <1>4, <1>5 DEF Descriptions
  <1> HIDE DEF type
  <1>7. Fresh(task, "setLocal", d, type)
    BY <1>4, <1>6, SetTaskTyped DEF SetOps
  <1>8. Start(task)
    BY <1>1 DEF type
  <1> HIDE DEF task
  <1>9. Shape(task)
    BY <1>5, <1>7 DEF Fresh, Shape, SetOps
  <1>10. ASSUME type = "offer"
         PROVE  /\ s.pr.type # "offer" /\ Silent(s)
                /\ s.restart /\ s.sig = "stable" => s.nsig = "stable" /\ s.nl.type # "answer"
                /\ LET offer == Or(d, s.lastOffer)
                   IN  offer # NoDesc /\ s.cl.data => offer.data
    <2>1. s.pr.type # "offer"
      BY <1>1, <1>3, <1>5, <1>10 DEF MayGuess, MayOffer
    <2>4. Silent(s)
      BY <1>1, <1>3, <1>5, <1>10 DEF ImplicitType
    <2>2. s.restart /\ s.sig = "stable" => s.nsig = "stable" /\ s.nl.type # "answer"
      BY <1>1, <1>3 DEF MayRestart
    <2> DEFINE offer == Or(d, s.lastOffer)
    <2>3. offer # NoDesc => offer.type = "offer"
      BY <1>3, <1>5, <1>10 DEF Or, Created
    <2> QED
      BY <1>1, <1>3, <2>1, <2>2, <2>3, <2>4 DEF MayOffer
  <1>11. ASSUME type = "answer"
         PROVE  /\ LET answer == Or(d, s.lastAnswer)
                   IN  answer # NoDesc /\ s.pr.type = "offer" => answer.data = s.pr.data
                /\ d = NoDesc => s.pr.type = "offer"
    <2> DEFINE answer == Or(d, s.lastAnswer)
    <2>1. answer # NoDesc => answer.type = "answer"
      BY <1>3, <1>5, <1>11 DEF Or, Created
    <2>2. s.pr.type = "offer" => RemoteDescription(s) = s.pr
      BY <1>3, StateMedia DEF RemoteDescription, Or
    <2>3. answer # NoDesc /\ s.pr.type = "offer" => answer.data = s.pr.data
      BY <1>1, <1>3, <2>1, <2>2 DEF MayAnswerWith
    <2> QED
      BY <1>3, <1>5, <1>11, <2>3
  <1>12. type = "rollback" => Silent(s)
    BY <1>1, <1>3, <1>5
  <1>13. Fits(s, task)
    BY <1>7, <1>10, <1>11, <1>12 DEF Fresh, LocalExpects, Fits, Answers, Expects, Finishing
  <1> QED
    BY <1>7, <1>8, <1>9, <1>13, StartJoins DEF Fresh

LEMMA CallSetRemoteJoins == ASSUME Given, CallSetRemote PROVE Upheld
  <1>1. PICK d \in {r \in Remotes : Proper(r)} \cup {Rollback},
             here \in BOOLEAN, valid \in BOOLEAN :
            /\ d.type \in {"offer", "rollback"} => MayBegin
            /\ d.type = "rollback" => MayForget
            /\ RestartRemoteOffer(s, d) => MayRestart("offer")
            /\ Start([NewTask("setRemote") EXCEPT
                         !.desc = d, !.type = d.type, !.here = here, !.valid = valid])
    BY Zenon DEF CallSetRemote
  <1> DEFINE task == [NewTask("setRemote") EXCEPT
                         !.desc = d, !.type = d.type, !.here = here, !.valid = valid]
  <1>2. Cautious /\ Unmarked /\ (MayBegin => Silent(s))
    BY DEF Given, Careful, MayBegin, Silent, Tells
  <1>3. d \in Descriptions /\ d.type \in {"offer", "answer", "pranswer", "rollback"}
    BY SignalingAssumption, DescriptionTypes
  <1>4. ~d.restart /\ (d.type # "rollback" => Proper(d))
    BY <1>2, DescriptionTypes, MediaFields DEF Unmarked
  <1>5. Fresh(task, "setRemote", d, d.type)
    BY <1>3, RemoteTaskTyped
  <1>6. Start(task)
    BY <1>1
  <1> HIDE DEF task
  <1>7. task.op = "setRemote" /\ task.at = "work" /\ task.desc = d /\ task.type = d.type
    BY <1>5 DEF Fresh
  <1>8. d # NoDesc
    BY <1>3, DescriptionTypes
  <1>9. Shape(task)
    BY <1>7, <1>8 DEF Shape, SetOps
  <1>10. RemoteExpects(s, task)
    BY <1>1, <1>2, <1>3, <1>4, <1>7 DEF RemoteExpects, Proper, MayRestart, MayForget
  <1>11. Fits(s, task)
    BY <1>4, <1>7, <1>10 DEF Fits, Answers, AnswerStages, Expects, Finishing, Proper
  <1> QED
    BY <1>5, <1>6, <1>9, <1>11, StartJoins DEF Fresh

LEMMA StayJoins ==
    ASSUME Given, NEW u, s' = u, outcome' = NoOutcome, Holds(s, u), tasks' = tasks,
           waiting' = waiting
    PROVE  Upheld
  BY HoldsJoin

LEMMA AlikeStays ==
    ASSUME Given, NEW u, s' = u, outcome' = NoOutcome, Alike(s, u), u.sig = s.sig,
           tasks' = tasks, waiting' = waiting
    PROVE  Upheld
  BY JoinedFacts, AlikeHolds, StayJoins

LEMMA CallAddIceCandidateJoins == ASSUME Given, CallAddIceCandidate PROVE Upheld
  <1> DEFINE a == NewTask("addIceCandidate")
             b == [a EXCEPT !.at = "early"]
  <1>1. \/ Start(a)
        \/ tasks' = Append(tasks, b) /\ outcome' = NoOutcome /\ UNCHANGED <<s, waiting>>
    BY DEF CallAddIceCandidate
  <1>2. a \in TaskRecords /\ a.op = "addIceCandidate" /\ a.at = "work"
    BY NewTaskTyped DEF Operations
  <1> HIDE DEF a
  <1>3. b \in TaskRecords
    BY <1>2, TaskFields DEF Stages
  <1>4. b.op = "addIceCandidate" /\ b.at = "early"
    BY <1>2 DEF TaskRecords
  <1> HIDE DEF b
  <1>5. Shape(a) /\ b \in Tasks
    BY <1>2, <1>3, <1>4 DEF Shape, SetOps, Tasks
  <1>6. Fits(s, a) /\ Fits(s, b)
    BY <1>2, <1>4, NothingExpected DEF DescriptionOps, SetOps
  <1>7. CASE Start(a)
    BY <1>2, <1>5, <1>6, <1>7, StartJoins
  <1>8. CASE tasks' = Append(tasks, b) /\ outcome' = NoOutcome /\ UNCHANGED <<s, waiting>>
    BY <1>5, <1>8, JoinedFacts, Joins, <1>6, SameHolds, HoldsJoin
  <1> QED
    BY <1>1, <1>7, <1>8

LEMMA CallAddExchangedCandidateJoins == ASSUME Given, CallAddExchangedCandidate PROVE Upheld
  <1> DEFINE u == AddExchangedCandidate(s)
  <1>1. s' = u /\ outcome' = NoOutcome /\ UNCHANGED <<tasks, waiting>>
    BY DEF CallAddExchangedCandidate, Immediately
  <1>2. NativeStep(s, u) /\ Undisturbed(s, u)
    BY JoinedFacts, AddExchangedCandidateKeeps
  <1> HIDE DEF u
  <1>3. Alike(s, u) /\ u.sig = s.sig
    BY <1>2, AlikeSteps
  <1> QED
    BY <1>1, <1>3, AlikeStays

\* The native peer can tell the restart from the exchange before.
LEMMA RestartIceJoins == ASSUME Given, RestartIce PROVE Upheld
  <1> DEFINE u == [s EXCEPT !.restart = TRUE]
  <1>1. s' = u /\ outcome' = NoOutcome /\ UNCHANGED <<tasks, waiting>>
    BY DEF RestartIce, Immediately
  <1>2. ~s.closed /\ Joint(s) /\ s \in States
    BY CallGiven DEF RestartIce
  <1>3. s.nsig = "stable" /\ s.nl.type # "answer"
    BY DEF RestartIce, MayRestart, Given, Careful
  <1>4. u \in States
    BY <1>2, StateFlags
  <1>5. /\ SameMade(s, u) /\ SameLocal(s, u) /\ SameRemote(s, u) /\ Undisturbed(s, u)
        /\ u.paired = s.paired /\ u.jsOffer = s.jsOffer /\ u.jsRemote = s.jsRemote
        /\ u.sig = s.sig
    BY <1>2 DEF SameMade, SameLocal, SameRemote, Undisturbed, States
  <1> HIDE DEF u
  <1>6. Described(u) /\ NativeFits(u) /\ Offered(u) /\ Answerable(u) /\ Restarts(u)
    BY <1>2, <1>3, <1>5
       DEF Joint, Described, NativeFits, Offered, Answerable, Restarts, SameMade, SameLocal,
           SameRemote, Undisturbed, HLO, HRO
  <1>7. News(u)
    BY <1>2, <1>5 DEF Joint, News, Silent, Tells, Undisturbed
  <1>8. Consistent(u)
    BY <1>2, <1>5, <1>6, <1>7 DEF Joint, Consistent, SameMade
  <1>9. Moves(s, u)
    BY <1>5 DEF Moves, SameCurrent, SameLocal, SameRemote
  <1>10. ASSUME NEW task, Fits(s, task)
         PROVE  Fits(u, task)
    BY <1>2, <1>3, <1>5, <1>10
       DEF Fits, Answers, Expects, LocalExpects, RemoteExpects, RestartRemoteOffer, Achieved,
           Idle, SameMade, SameLocal, SameRemote, Undisturbed, Silent, Tells
  <1> QED
    BY <1>1, <1>4, <1>8, <1>9, <1>10, StayJoins DEF Holds

LEMMA CreateDataChannelJoins == ASSUME Given, CreateDataChannel PROVE Upheld
  <1> DEFINE e == EnsureNative(s)
             u == [e EXCEPT !.channels = TRUE]
  <1>1. s' = u /\ outcome' = NoOutcome /\ UNCHANGED <<tasks, waiting>>
    BY DEF CreateDataChannel, Immediately
  <1>2. ~s.closed /\ Joint(s) /\ s \in States
    BY CallGiven DEF CreateDataChannel
  <1>3. NativeStep(s, e) /\ Undisturbed(s, e)
    BY <1>2, EnsureNativeStep, EnsureNativeKeeps
  <1>4. Alike(s, e) /\ e.sig = s.sig /\ e \in States
    BY <1>3, AlikeSteps DEF NativeStep
  <1>5. Joint(e) /\ ~e.closed
    BY <1>2, <1>4, AlikeConsistent DEF Alike, SameMade
  <1> HIDE DEF e
  <1>6. u \in States
    BY <1>4, StateFlags
  <1>7. /\ u.closed = e.closed /\ u.lastOffer = e.lastOffer /\ u.lastAnswer = e.lastAnswer
        /\ u.channels = TRUE /\ SameRestarts(e, u) /\ SameLocal(e, u) /\ SameRemote(e, u)
        /\ Undisturbed(e, u) /\ u.paired = e.paired /\ u.sig = e.sig
    BY <1>4 DEF SameRestarts, SameLocal, SameRemote, Undisturbed, States
  <1> HIDE DEF u
  <1>8. Described(u) /\ NativeFits(u) /\ Offered(u) /\ Answerable(u) /\ Restarts(u)
    BY <1>5, <1>7
       DEF Joint, Described, NativeFits, Offered, Answerable, Restarts, SameRestarts, SameLocal,
           SameRemote, Undisturbed
  <1>9. News(u)
    BY <1>5, <1>7 DEF Joint, News, Silent, Tells, Undisturbed
  <1>10. Consistent(u)
    BY <1>5, <1>7, <1>8, <1>9 DEF Joint, Consistent
  <1>11. Moves(s, u)
    BY <1>4, <1>7 DEF Moves, SameCurrent, Alike, SameLocal, SameRemote
  <1>12. ASSUME NEW task, Fits(s, task)
         PROVE  Fits(u, task)
    <2>1. Fits(e, task)
      BY <1>4, <1>12, AlikeConsistent
    <2> QED
      BY <1>7, <2>1
         DEF Fits, Answers, Expects, LocalExpects, RemoteExpects, RestartRemoteOffer, Achieved,
             Idle, SameRestarts, SameLocal, SameRemote, Undisturbed, Silent, Tells
  <1> QED
    BY <1>1, <1>6, <1>10, <1>11, <1>12, StayJoins DEF Holds

LEMMA CloseJoins == ASSUME Given, Close PROVE Upheld
  <1> DEFINE h == IF s.native = "live" THEN "handed" ELSE s.native
  <1>1. s' = [s EXCEPT !.closed = TRUE, !.sig = "closed", !.dispatched = "closed",
                       !.native = IF @ = "live" THEN "handed" ELSE @,
                       !.paired = "none", !.events = <<>>]
    BY DEF Close, Immediately
  <1>2. outcome' = NoOutcome /\ UNCHANGED <<tasks, waiting>>
    BY DEF Close, Immediately
  <1>3. ~s.closed /\ Joint(s) /\ s \in States /\ s.native \in NativeHandles
    BY CallGiven, StateFields DEF Close
  <1>4. /\ s'.closed = TRUE /\ SameLocal(s, s') /\ SameRemote(s, s') /\ s'.nsig = s.nsig
        /\ s'.native = h /\ s'.paired = "none" /\ s'.events = <<>>
    BY <1>1, <1>3 DEF States, SameLocal, SameRemote
  <1>5. s' \in States
    BY NextSInv, CloseStep DEF Given, SInv, Sound, Typed
  <1> DEFINE w == s'
  <1>6. Silent(w)
    BY <1>4 DEF Silent, Tells
  <1>7. h = "handed" \/ s.nsig = "stable"
    BY <1>3 DEF Joint, NativeFits, NativeHandles
  <1>8. Consistent(w)
    BY <1>4, <1>6, <1>7 DEF Consistent, Gone
  <1>9. Moves(s, w)
    BY <1>4 DEF Moves, SameCurrent, SameLocal, SameRemote
  <1>10. ASSUME NEW task, Fits(s, task)
         PROVE  Fits(w, task)
    BY <1>4, <1>10 DEF Fits, Answers, SameLocal
  <1>11. Holds(s, w)
    BY <1>5, <1>8, <1>9, <1>10 DEF Holds
  <1>12. s' = w
    OBVIOUS
  <1> HIDE DEF w
  <1> QED
    BY <1>2, <1>11, <1>12, StayJoins

LEMMA AddIceCandidateEarlyJoins == ASSUME Given, AddIceCandidateEarly PROVE Upheld
  <1> DEFINE u == [s EXCEPT !.ops = s.ops + 1]
             n == [Task EXCEPT !.at = "work"]
  <1>1. /\ Ready /\ Task.op = "addIceCandidate" /\ Task.at = "early" /\ outcome' = NoOutcome
        /\ waiting' = waiting
        /\ \/ tasks' = Tail(tasks) /\ s' = s
           \/ s' = u /\ tasks' = Append(Tail(tasks), n)
    BY DEF AddIceCandidateEarly, At, Task, Await, AwaitAs
  <1>2. Sound /\ s \in States /\ Consistent(s)
    BY JoinedFacts
  <1>3. CASE tasks' = Tail(tasks) /\ s' = s
    BY <1>1, <1>2, <1>3, Shifts, SameHolds, HoldsJoin
  <1>4. CASE s' = u /\ tasks' = Append(Tail(tasks), n)
    <2>1. s.ops \in Nat /\ Task \in TaskRecords
      BY <1>2, StateFields, <1>1, TaskTyped DEF Sound, Tasks
    <2>2. u \in States
      BY <1>2, <2>1, StateValues
    <2>3. Alike(s, u) /\ u.sig = s.sig
      BY <1>2, <2>2 DEF Alike, SameMade, SameRestarts, SameLocal, SameRemote, Undisturbed,
                        States
    <2>4. n \in TaskRecords
      BY <2>1, TaskFields DEF Stages
    <2>5. n.op = "addIceCandidate" /\ n.at = "work"
      BY <1>1, <2>1 DEF TaskRecords
    <2> HIDE DEF u, n
    <2>6. n \in Tasks /\ Fits(u, n)
      BY <2>4, <2>5, NothingExpected DEF Tasks, Shape, SetOps, DescriptionOps
    <2>7. \A i \in 1 .. Len(tasks') :
              \/ i + 1 \in 1 .. Len(tasks) /\ i + 1 # 1 /\ tasks'[i] = tasks[i + 1]
              \/ i = Len(tasks) /\ tasks'[i] = n
      BY <1>1, <1>2, <1>4, <2>6, Requeues
    <2>8. Holds(s, u)
      BY <1>2, <2>3, AlikeHolds
    <2> QED
      BY <1>1, <1>4, <2>6, <2>7, <2>8, HoldsJoin
  <1> QED
    BY <1>1, <1>3, <1>4

LEMMA AddIceCandidateJoins == ASSUME Given, AddIceCandidate PROVE Upheld
  <1> DEFINE q == [s EXCEPT !.queued = s.queued \cup {"added"}]
             e == EnsureNative(s)
  <1>1. Ready /\ Task.op = "addIceCandidate" /\ (Settle(q) \/ Settle(e))
    BY DEF AddIceCandidate, At, Task
  <1>2. Sound /\ s \in States /\ Consistent(s)
    BY JoinedFacts
  <1>3. Alike(s, q) /\ q.sig = s.sig
    <2>1. s.queued \in Candidates
      BY <1>2, StateFields
    <2>2. (s.queued \cup {"added"}) \in Candidates
      BY <2>1 DEF Candidates
    <2>3. q \in States
      BY <1>2, <2>2, StateValues
    <2> QED
      BY <1>2, <2>3 DEF Alike, SameMade, SameRestarts, SameLocal, SameRemote, Undisturbed,
                        States
  <1>4. NativeStep(s, e) /\ Undisturbed(s, e)
    BY <1>2, EnsureNativeStep, EnsureNativeKeeps
  <1> HIDE DEF q, e
  <1>5. Alike(s, e) /\ e.sig = s.sig
    BY <1>4, AlikeSteps
  <1>6. PICK t : Settle(t) /\ Alike(s, t) /\ t.sig = s.sig
    BY <1>1, <1>3, <1>5
  <1>7. /\ s' = FinishPendingOperation(t) /\ tasks' = Tail(tasks) /\ waiting' = waiting
        /\ outcome' = NoOutcome
    BY <1>1, <1>6 DEF Settle, SetOps
  <1>8. Alike(s, s') /\ s'.sig = s.sig
    BY <1>6, <1>7, FinishAlike, AlikeSteps DEF Alike
  <1>9. \A i \in 1 .. Len(tasks') :
            i + 1 \in 1 .. Len(tasks) /\ i + 1 # 1 /\ tasks'[i] = tasks[i + 1]
    BY <1>1, <1>2, <1>7, Shifts
  <1> DEFINE w == s'
  <1>10. Holds(s, w) /\ s' = w
    BY <1>2, <1>8, AlikeHolds
  <1> HIDE DEF w
  <1> QED
    BY <1>7, <1>9, <1>10, HoldsJoin

LEMMA EnsureFinishesJoins == ASSUME Given, EnsureFinishes PROVE Upheld
  <1>1. /\ Ready /\ tasks' = Tail(tasks) /\ waiting' = waiting /\ outcome' = NoOutcome
        /\ s' = s \/ \E complete \in BOOLEAN : s' = RefreshAfterGatheringWindow(s, complete)
    BY DEF EnsureFinishes, At, Task
  <1>2. Sound /\ s \in States /\ Consistent(s) /\ Phase(s)
    BY JoinedFacts
  <1> DEFINE w == s'
  <1>3. Holds(s, w) /\ s' = w
    BY <1>1, <1>2, SameHolds, RefreshHolds
  <1>4. \A i \in 1 .. Len(tasks') :
            i + 1 \in 1 .. Len(tasks) /\ i + 1 # 1 /\ tasks'[i] = tasks[i + 1]
    BY <1>1, <1>2, Shifts
  <1> HIDE DEF w
  <1> QED
    BY <1>1, <1>3, <1>4, HoldsJoin

LEMMA PairedJoins == ASSUME Given, PairedSettles \/ PairedLeaves PROVE Upheld
  <1>1. PICK x \in {"idle", "left"} :
            /\ s.paired \in {"idle", "busy"} /\ (x = "idle" => s.paired = "busy")
            /\ outcome' = NoOutcome /\ UNCHANGED <<tasks, waiting>>
            /\ \/ s' = [s EXCEPT !.paired = x]
               \/ s' = FlushCandidates([s EXCEPT !.paired = x])
    BY DEF PairedSettles, PairedLeaves, Passes
  <1> DEFINE t == [s EXCEPT !.paired = x]
  <1>2. s \in States /\ Consistent(s)
    BY JoinedFacts
  <1>3. ~s.closed /\ Joint(s)
    BY <1>1, <1>2 DEF Consistent, Gone
  <1>4. t \in States
    BY <1>2, StateValues DEF PairedStates
  <1>5. /\ SameMade(s, t) /\ SameRestarts(s, t) /\ SameLocal(s, t) /\ SameRemote(s, t)
        /\ Undisturbed(s, t) /\ t.paired = x /\ t.sig = s.sig
    BY <1>2 DEF SameMade, SameRestarts, SameLocal, SameRemote, Undisturbed, States
  <1>6. s' = t \/ s' = FlushCandidates(t)
    BY <1>1
  <1> HIDE DEF t
  <1>7. Described(t) /\ NativeFits(t) /\ Offered(t) /\ Restarts(t)
    BY <1>3, <1>5
       DEF Joint, Described, NativeFits, Offered, Restarts, SameMade, SameRestarts, SameLocal,
           SameRemote, Undisturbed
  <1>8. News(t)
    BY <1>3, <1>5 DEF Joint, News, Silent, Tells, Undisturbed
  <1>9. Answerable(t)
    BY <1>1, <1>3, <1>5
       DEF Joint, Answerable, SameMade, SameRestarts, SameLocal, SameRemote, Undisturbed
  <1>10. Joint(t) /\ Consistent(t)
    BY <1>3, <1>5, <1>7, <1>8, <1>9 DEF Joint, Consistent, SameMade
  <1>11. Moves(s, t)
    BY <1>5 DEF Moves, SameCurrent, SameLocal, SameRemote
  <1>12. ASSUME NEW task, Fits(s, task)
         PROVE  Fits(t, task)
    BY <1>5, <1>12
       DEF Fits, Answers, Expects, LocalExpects, RemoteExpects, RestartRemoteOffer, Achieved,
           Idle, SameMade, SameRestarts, SameLocal, SameRemote, Undisturbed, Silent, Tells
  <1> DEFINE w == s'
  <1>13. Alike(t, w) /\ w.sig = t.sig
    BY <1>4, FlushCandidatesKeeps, <1>6, AlikeSteps
  <1>14. s' = w
    OBVIOUS
  <1> HIDE DEF w
  <1>15. Holds(t, w)
    BY <1>10, <1>13, AlikeHolds
  <1>16. Holds(s, w)
    BY <1>11, <1>12, <1>13, <1>15, AlikeMoves DEF Holds
  <1> QED
    BY <1>1, <1>14, <1>16, StayJoins

LEMMA RefreshTimerJoins == ASSUME Given, RefreshTimer PROVE Upheld
  <1> DEFINE t == [s EXCEPT !.refresh = FALSE]
             u == RefreshFromNative(t)
  <1>1. s' = u /\ outcome' = NoOutcome /\ UNCHANGED <<tasks, waiting>>
    BY DEF RefreshTimer, Passes
  <1>2. s \in States /\ Consistent(s) /\ Phase(s)
    BY JoinedFacts
  <1>3. t \in States
    BY <1>2, StateFlags
  <1>4. Alike(s, t) /\ t.sig = s.sig
    BY <1>2, <1>3 DEF Alike, SameMade, SameRestarts, SameLocal, SameRemote, Undisturbed,
                      States
  <1> HIDE DEF t
  <1>5. Consistent(t) /\ Phase(t)
    BY <1>2, <1>4, AlikeConsistent
       DEF Phase, Alike, SameMade, SameRestarts, SameLocal, SameRemote
  <1>6. Holds(t, u)
    BY <1>3, <1>5, RefreshHolds
  <1> HIDE DEF u
  <1>7. Holds(s, u)
    BY <1>4, <1>6, AlikeConsistent
    DEF Holds, Alike, SameLocal, SameRemote, Moves, SameCurrent
  <1> QED
    BY <1>1, <1>7, StayJoins

\* What a native event says of the state is no news to the descriptions.
LEMMA HandleSignalingStateHolds ==
    ASSUME NEW t \in States, Consistent(t), Phase(t), NEW state \in SigNames
    PROVE  /\ Holds(t, HandleSignalingState(t, state))
           /\ HandleSignalingState(t, state).events = t.events
  <1> DEFINE u == HandleSignalingState(t, state)
  <1>1. \A x : Entered(t, u, x) => Alike(t, u) /\ u.sig = x
    BY AlikeSteps
  <1>2. Alike(t, u) /\ u.sig \in {t.sig, Synced(t)}
    <2>1. CASE t.jsOffer
      <3>1. u = [t EXCEPT !.sig = HLO]
        BY <2>1 DEF HandleSignalingState
      <3>2. Entered(t, u, HLO)
        BY <3>1, SigKeeps, StateNames
      <3> HIDE DEF u
      <3> QED
        BY <1>1, <2>1, <3>2 DEF Synced
    <2>2. CASE ~t.jsOffer /\ t.suppress = state
      <3>1. u = [t EXCEPT !.suppress = "none"]
        BY <2>2 DEF HandleSignalingState
      <3>2. u \in States
        BY <3>1, StateValues, StatesNamed
      <3>3. /\ SameMade(t, u) /\ SameRestarts(t, u) /\ SameLocal(t, u) /\ SameRemote(t, u)
            /\ Undisturbed(t, u) /\ u.paired = t.paired /\ u.sig = t.sig
        BY <3>1 DEF SameMade, SameRestarts, SameLocal, SameRemote, Undisturbed, States
      <3> HIDE DEF u
      <3> QED
        BY <3>2, <3>3 DEF Alike
    <2>3. CASE ~t.jsOffer /\ t.suppress # state /\ state # DescriptionSignalingState(t)
      BY <2>3, AlikeSteps DEF HandleSignalingState
    <2>4. CASE ~t.jsOffer /\ t.suppress # state /\ state = DescriptionSignalingState(t)
      <3> DEFINE v == [t EXCEPT !.sig = state]
      <3>1. u = Dispatch(v)
        BY <2>4 DEF HandleSignalingState
      <3>2. state \in SignalingStates
        BY <2>4, StateNames DEF DescriptionSignalingState, SignalingStates
      <3>3. Entered(t, v, state)
        BY <3>2, SigKeeps
      <3> HIDE DEF u, v
      <3>4. v \in States /\ v.sig = state
        BY <3>3, EnteredSteps
      <3>5. Entered(v, u, v.sig)
        BY <3>1, <3>4, EnterStateKeeps
      <3>6. Alike(t, v) /\ Alike(v, u) /\ u.sig = state
        BY <3>3, <3>4, <3>5, AlikeSteps
      <3> QED
        BY <2>4, <3>6, AlikeSteps DEF Synced
    <2> QED
      BY <2>1, <2>2, <2>3, <2>4
  <1> HIDE DEF u
  <1>3. CASE t.closed
    <2>1. Consistent(u) /\ Moves(t, u)
      BY <1>2, AlikeConsistent, AlikeMoves
    <2>2. \A task : Fits(t, task) => Fits(u, task)
      BY <1>2, <1>3 DEF Alike, SameMade, SameLocal, Fits, Answers
    <2> QED
      BY <1>2, <2>1, <2>2 DEF Holds, Alike, Undisturbed, u
  <1>4. CASE ~t.closed
    BY <1>2, <1>4, AlikeRenews, RenewedHolds DEF Consistent, Alike, Undisturbed, u
  <1> QED
    BY <1>3, <1>4

LEMMA HandleNativeEventJoins == ASSUME Given, HandleNativeEvent PROVE Upheld
  <1> DEFINE event == Head(s.events)
             t == IF event.type = "localdescription"
                  THEN RefreshCurrentOrPendingLocal(s, event.desc)
                  ELSE HandleSignalingState(s, event.state)
             q == Tail(t.events)
             u == [t EXCEPT !.events = q]
  <1>1. s.events # <<>> /\ s' = u /\ outcome' = NoOutcome /\ UNCHANGED <<tasks, waiting>>
    BY Zenon DEF HandleNativeEvent, Handle
  <1>2. s \in States /\ Consistent(s) /\ Phase(s)
    BY JoinedFacts
  <1>3. s.events \in Seq(Events)
    BY <1>2, StateFields DEF Queues
  <1>4. /\ event = s.events[1] /\ 1 \in 1 .. Len(s.events) /\ event.state \in SigNames
        /\ Tail(s.events) \in Queues
        /\ \A i \in 1 .. Len(Tail(s.events)) :
               i + 1 \in 1 .. Len(s.events) /\ Tail(s.events)[i] = s.events[i + 1]
    <2>1. /\ event = s.events[1] /\ Tail(s.events) \in Queues /\ event \in Events
          /\ Len(s.events) \in Nat /\ Len(s.events) >= 1
          /\ Len(Tail(s.events)) = Len(s.events) - 1
          /\ \A i \in 1 .. Len(Tail(s.events)) : Tail(s.events)[i] = s.events[i + 1]
      BY <1>1, <1>3, HeadTailProperties, LenProperties DEF Queues
    <2> QED
      BY <2>1 DEF Events
  <1> HIDE DEF event
  <1>5. Holds(s, t) /\ t.events = s.events
    <2>1. CASE event.type = "localdescription"
      <3>1. ~Silent(s)
        BY <1>4, <2>1 DEF Silent, Tells
      <3>2. Joint(s) /\ ~s.closed
        BY <1>2, <3>1 DEF Consistent, Gone
      <3>3. event.desc = s.nl /\ s.nl # NoDesc
        BY <1>4, <2>1, <3>1, <3>2 DEF Joint, News, Tells
      <3>4. t = RefreshCurrentOrPendingLocal(s, s.nl)
        BY <2>1, <3>3
      <3>5. Renewed(s, t)
        BY <1>2, <3>2, <3>3, <3>4, RefreshRenews
      <3> HIDE DEF t
      <3> QED
        BY <1>2, <3>2, <3>5, RenewedHolds DEF Renewed, Undisturbed
    <2>2. CASE event.type # "localdescription"
      BY <1>2, <1>4, <2>2, HandleSignalingStateHolds
    <2> QED
      BY <2>1, <2>2
  <1> HIDE DEF t
  <1>6. q = Tail(s.events)
    BY <1>5
  <1> HIDE DEF q
  <1>7. t \in States /\ q \in Queues
    BY <1>4, <1>5, <1>6 DEF Holds
  <1>8. u \in States
    BY <1>7, StateValues
  <1>9. /\ SameMade(t, u) /\ SameRestarts(t, u) /\ SameLocal(t, u) /\ SameRemote(t, u)
        /\ u.paired = t.paired /\ u.sig = t.sig /\ u.events = q
        /\ u.nsig = t.nsig /\ u.nl = t.nl /\ u.ncl = t.ncl /\ u.native = t.native
    BY <1>7 DEF SameMade, SameRestarts, SameLocal, SameRemote, States
  <1> HIDE DEF u
  <1>10. \A D : Tells(t, D) => Tells(u, D)
    BY <1>4, <1>5, <1>6, <1>9 DEF Tells
  <1>11. Described(t) => Described(u)
    BY <1>9 DEF Described, SameLocal, SameRemote
  <1>12. NativeFits(t) /\ Offered(t) /\ Answerable(t) /\ Restarts(t) =>
             NativeFits(u) /\ Offered(u) /\ Answerable(u) /\ Restarts(u)
    BY <1>9 DEF NativeFits, Offered, Answerable, Restarts, SameMade, SameRestarts, SameLocal,
                SameRemote
  <1>13. (News(t) => News(u)) /\ (Gone(t) => Gone(u))
    BY <1>9, <1>10 DEF News, Silent, Gone
  <1>14. Consistent(u)
    BY <1>5, <1>9, <1>11, <1>12, <1>13 DEF Holds, Consistent, Joint, SameMade
  <1>15. Moves(s, u)
    BY <1>5, <1>9 DEF Holds, Moves, SameCurrent, SameLocal, SameRemote
  <1>16. ASSUME NEW task, Fits(t, task)
         PROVE  Fits(u, task)
    BY <1>9, <1>10, <1>16
       DEF Fits, Answers, Expects, LocalExpects, RemoteExpects, RestartRemoteOffer, Achieved,
           Idle, SameMade, SameRestarts, SameLocal, SameRemote, Silent
  <1>17. Holds(s, u)
    BY <1>5, <1>8, <1>14, <1>15, <1>16 DEF Holds
  <1> QED
    BY <1>1, <1>17, StayJoins

LEMMA AnswererJoins == ASSUME Given, Answerer PROVE Upheld
  <1>1. Sound /\ s \in States /\ Consistent(s)
    BY JoinedFacts
  <1>2. CASE AnswererAnswers
    <2>1. PICK task \in waiting : tasks' = <<task>> \o tasks /\ waiting' = waiting \ {task}
      BY <1>2 DEF AnswererAnswers
    <2>2. task \in Tasks
      BY <1>1 DEF Sound, Typed, WaitingTasks
    <2>3. \A i \in 1 .. Len(tasks') :
              \/ i = 1 /\ tasks'[i] = task
              \/ i - 1 \in 1 .. Len(tasks) /\ tasks'[i] = tasks[i - 1]
      BY <1>1, <2>1, <2>2, Advances
    <2>4. \A i \in 1 .. Len(tasks') :
              (\E j \in 1 .. Len(tasks) : tasks'[i] = tasks[j]) \/ tasks'[i] \in waiting
      BY <2>3
    <2>5. Holds(s, s) /\ waiting' \subseteq waiting /\ outcome' = NoOutcome /\ s' = s
      BY <1>2, <2>1, SameHolds DEF AnswererAnswers
    <2> QED
      BY <2>4, <2>5, HoldsJoin
  <1>3. CASE AnswererThrows
    <2> DEFINE u == FinishPendingOperation(s)
    <2>1. s' = u /\ waiting' \subseteq waiting /\ outcome' = NoOutcome /\ tasks' = tasks
      BY <1>3 DEF AnswererThrows
    <2>2. Alike(s, u) /\ u.sig = s.sig
      BY <1>1, FinishAlike
    <2> HIDE DEF u
    <2>3. Holds(s, u)
      BY <1>1, <2>2, AlikeHolds
    <2>4. \A i \in 1 .. Len(tasks') : \E j \in 1 .. Len(tasks) : tasks'[i] = tasks[j]
      BY <2>1
    <2> QED
      BY <2>1, <2>3, <2>4, HoldsJoin
  <1> QED
    BY <1>2, <1>3 DEF Answerer

\* The answer that another peer of the process finds unapplied is applied for it.
LEMMA EnsureTaskJoins ==
    ASSUME Given, s.pr.type = "offer", ~s.closed, ~InProgress({"setRemote"}),
           NEW t \in States, Joint(t), Idle(t), Moves(s, t), SameMade(s, t),
           t.restart = s.restart, t.nsig = "stable", s.nsig = "stable" => t.nl = s.nl,
           t.cl.type = "answer", t.cl.data, NEW at \in {"done", "refresh"}, EnsureTask(t, at)
    PROVE  Upheld
  <1> DEFINE u == [t EXCEPT !.paired = "busy"]
             a == NewTask("ensure")
             n == [a EXCEPT !.at = at]
  <1>1. /\ s' = u /\ tasks' = Append(tasks, n) /\ outcome' = NoOutcome
        /\ waiting' = waiting
    BY DEF EnsureTask
  <1>2. Sound /\ Phase(s) /\ s \in States
    BY JoinedFacts
  <1>3. u \in States
    BY StateValues DEF PairedStates
  <1>4. /\ SameMade(t, u) /\ SameRestarts(t, u) /\ SameLocal(t, u) /\ SameRemote(t, u)
        /\ Undisturbed(t, u) /\ u.sig = t.sig
    BY DEF SameMade, SameRestarts, SameLocal, SameRemote, Undisturbed, States
  <1> HIDE DEF u
  <1>5. a \in TaskRecords /\ a.op = "ensure"
    BY NewTaskTyped DEF Operations
  <1> HIDE DEF a
  <1>6. n \in TaskRecords
    BY <1>5, TaskFields DEF Stages
  <1>7. n.op = "ensure" /\ n.at = at
    BY <1>5 DEF TaskRecords
  <1> HIDE DEF n
  <1>8. n \in Tasks /\ Fits(u, n)
    BY <1>6, <1>7, NothingExpected DEF Tasks, Shape, SetOps, DescriptionOps
  <1>9. Described(u) /\ NativeFits(u) /\ Offered(u) /\ Restarts(u)
    <2>1. Described(t) /\ NativeFits(t) /\ Offered(t) /\ Restarts(t)
      BY DEF Joint
    <2>2. Described(u) /\ Restarts(u)
      BY <1>4, <2>1 DEF Described, Restarts, SameRestarts, SameLocal, SameRemote, Undisturbed
    <2>3. NativeFits(u) /\ Offered(u)
      BY <1>4, <2>1 DEF NativeFits, Offered, SameMade, SameLocal, SameRemote, Undisturbed
    <2> QED
      BY <2>2, <2>3
  <1>10. News(u)
    BY <1>4 DEF Joint, News, Silent, Tells, Undisturbed
  <1>11. Answerable(u)
    BY <1>4 DEF Answerable, Undisturbed, HRO
  <1>12. Consistent(u)
    BY <1>4, <1>9, <1>10, <1>11 DEF Joint, Consistent, SameMade
  <1>13. Moves(s, u)
    BY <1>4 DEF Moves, SameCurrent, SameLocal, SameRemote
  <1>14. s.pl.type # "offer" /\ ~s.jsOffer
    BY <1>2 DEF Phase, Exchanges
  <1>15. Idle(u) /\ u.cl.type = "answer" /\ u.cl.data
    BY <1>4 DEF Idle, SameLocal, SameRemote, SameRestarts
  <1>16. /\ u.nsig = "stable" /\ u.lastOffer = s.lastOffer /\ u.lastAnswer = s.lastAnswer
         /\ u.restart = s.restart /\ u.closed = s.closed
         /\ s.nsig = "stable" => u.nl = s.nl
    BY <1>4 DEF SameMade, SameRestarts, Undisturbed
  <1>17. ASSUME NEW task, Fits(s, task), task.op # "setRemote"
         PROVE  Fits(u, task)
    <2>1. Expects(s, task)
      BY <1>17 DEF Fits
    <2>2. task.op = "createOffer" /\ task.restart => u.nsig = "stable" /\ u.nl.type # "answer"
      BY <1>16, <2>1 DEF Expects
    <2>3. task.op = "setLocal" /\ task.at = "work" => LocalExpects(u, task)
      <3> SUFFICES ASSUME task.op = "setLocal", task.at = "work" PROVE LocalExpects(u, task)
        OBVIOUS
      <3>1. task.type # "offer"
        BY <2>1 DEF Expects, LocalExpects
      <3>2. u.pr.type # "offer" /\ u.pl.type # "offer"
        BY <1>15, DescriptionTypes DEF Idle
      <3> QED
        BY <1>15, <3>1, <3>2 DEF LocalExpects
    <2>4. Finishing(task) => Achieved(u, task)
      BY <1>2, <1>14, <1>15, <1>17, <2>1
         DEF Expects, Finishing, SetOps, Achieved, Phase, Exchanges, Idle
    <2>5. Expects(u, task)
      BY <1>16, <1>17, <2>2, <2>3, <2>4, StatesNamed DEF Expects, HRO
    <2> QED
      BY <1>17, <2>5 DEF Fits, Answers
  <1>18. waiting = {} /\ \A i \in 1 .. Len(tasks) : tasks[i].op # "setRemote"
    BY DEF InProgress
  <1>19. \A i \in 1 .. Len(tasks) : Fits(u, tasks[i])
    BY <1>17, <1>18 DEF Given, Joined
  <1>20. \A i \in 1 .. Len(tasks') :
              \/ i \in 1 .. Len(tasks) /\ tasks'[i] = tasks[i]
              \/ i = Len(tasks) + 1 /\ tasks'[i] = n
    BY <1>1, <1>2, <1>8, Joins
  <1> QED
    BY <1>1, <1>8, <1>12, <1>13, <1>18, <1>19, <1>20, OthersJoin

LEMMA EnsureJoins == ASSUME Given, EnsureLocalAnswerApplied PROVE Upheld
  <1> DEFINE r == ApplyRestartAnswer(s, s.lastAnswer)
             n == NativeSetLocal(s, "answer")
             c == AddPendingCandidates(SyncSignalingState(CommitAnswer(n, n.nl)))
             e == EnsureNative(s)
  <1>1. /\ s.paired \in {"idle", "busy"} /\ s.lastAnswer.data
        /\ ~IsNoMedia(RemoteDescription(s))
        /\ \/ s.jsRemote /\ EnsureTask(r, "done")
           \/ ~s.jsRemote /\ NativeAcceptsLocal(s, "answer") /\ EnsureTask(c, "refresh")
           \/ s' = e /\ outcome' = NoOutcome /\ UNCHANGED <<tasks, waiting>>
    BY DEF EnsureLocalAnswerApplied
  <1>2. Phase(s) /\ s \in States /\ Created(s) /\ Consistent(s)
    BY JoinedFacts
  <1>3. ~s.closed /\ Joint(s)
    BY <1>1, <1>2 DEF Consistent, Gone
  <1>4. ~InProgress({"setRemote"})
    BY DEF Given, Careful, EnsureLocalAnswerApplied
  <1>5. CASE s.jsRemote /\ EnsureTask(r, "done")
    <2>1. s.pr.type = "offer" /\ s.nsig = "stable" /\ s.cr.data
      BY <1>3, <1>5 DEF Joint, Restarts
    <2>2. s.lastAnswer \in Descriptions /\ s.lastAnswer.type = "answer"
      BY <1>1, <1>2, StateMedia, StateFields DEF Created
    <2>3. s.pr.data
      BY <1>3, <2>1 DEF Joint, Described
    <2>4. s.lastAnswer.data = s.pr.data
      BY <1>1, <1>2, <2>3, StateMedia
    <2>5. r \in States /\ Joint(r) /\ Idle(r) /\ Moves(s, r) /\ SameMade(s, r)
      BY <1>2, <1>3, <1>5, <2>2, <2>4, ApplyRestartAnswerJoint
    <2>6. /\ Undisturbed(s, r) /\ r.cl = MarkRestart(s.lastAnswer) /\ r.restart = s.restart
      BY <1>2, <2>1, <2>2, ApplyRestartAnswerEffect
    <2> HIDE DEF r
    <2>7. r.cl.type = "answer" /\ r.cl.data
      <3>1. r.cl.type = s.lastAnswer.type
        BY <2>2, <2>6, DescriptionOperators
      <3>2. r.cl.data = s.lastAnswer.data
        BY <2>2, <2>6, MediaFields
      <3> QED
        BY <1>1, <2>2, <3>1, <3>2
    <2> QED
      BY <1>3, <1>4, <1>5, <2>1, <2>5, <2>6, <2>7, EnsureTaskJoins DEF Undisturbed
  <1>6. CASE ~s.jsRemote /\ NativeAcceptsLocal(s, "answer") /\ EnsureTask(c, "refresh")
    <2>1. s.nsig = HRO
      BY <1>6 DEF NativeAcceptsLocal
    <2>2. s.pr.type = "offer" /\ s.pr.data
      <3>1. s.pr = NoDesc => RemoteDescription(s) = s.cr
        BY DEF RemoteDescription, Or
      <3>2. s.pr # NoDesc => s.pr.data
        <4> SUFFICES ASSUME s.pr # NoDesc PROVE s.pr.data
          OBVIOUS
        <4>1. s.pr \in Descriptions /\ RemoteDescription(s) = s.pr
          BY <1>2, StateFields DEF RemoteDescription, Or
        <4> QED
          BY <1>1, <4>1, MediaFields
      <3>3. s.pr # NoDesc
        BY <1>1, <1>3, <2>1, <3>1 DEF Joint, Answerable
      <3>4. s.pr.type \in {"none", "offer", "pranswer"}
        BY <1>2, <1>3 DEF Phase, Exchanges
      <3> QED
        BY <1>3, <2>1, <3>2, <3>3, <3>4 DEF Joint, Answerable, Described, Blank
    <2>3. Silent(s)
      BY <1>3, <2>1 DEF Joint, News, HRO, HLO
    <2>4. s.jsOffer = FALSE
      BY <1>2, <1>3, <2>2, StateFields DEF Phase, Exchanges
    <2>5. /\ c \in States /\ Joint(c) /\ Idle(c) /\ Moves(s, c) /\ SameMade(s, c)
          /\ c.restart = s.restart
          /\ c.nsig = "stable" /\ c.cl.type = "answer" /\ c.cl.data
      BY <1>2, <1>3, <2>1, <2>2, <2>3, <2>4, NativeAnswerEffect
    <2> HIDE DEF c
    <2>6. s.nsig # "stable"
      BY <2>1 DEF HRO
    <2> QED
      BY <1>3, <1>4, <1>6, <2>2, <2>5, <2>6, EnsureTaskJoins
  <1>7. CASE s' = e /\ outcome' = NoOutcome /\ UNCHANGED <<tasks, waiting>>
    <2>1. NativeStep(s, e) /\ Undisturbed(s, e)
      BY <1>2, EnsureNativeStep, EnsureNativeKeeps
    <2> HIDE DEF e
    <2>2. Alike(s, e) /\ e.sig = s.sig
      BY <2>1, AlikeSteps
    <2> QED
      BY <1>7, <2>2, AlikeStays
  <1> QED
    BY <1>1, <1>5, <1>6, <1>7

LEMMA InitJoined == Init => Joined /\ Exchange!Init /\ SettledMeansApplied
  <1> SUFFICES ASSUME Init PROVE Joined /\ Exchange!Init /\ SettledMeansApplied
    OBVIOUS
  <1> DEFINE lo == Local("offer", TRUE)
             la == Local("answer", TRUE)
             ra == Remote("answer", TRUE, 2)
             ro == Remote("offer", TRUE, 2)
  <1>1. PICK ends \in {<<NoDesc, NoDesc>>, <<lo, ra>>, <<la, ro>>} :
            s = InitState(ends[1], ends[2])
    BY Zenon DEF Init
  <1>2. /\ NoDesc.type = "none" /\ NoDesc.data = FALSE
        /\ lo.type = "offer" /\ lo.data = TRUE /\ la.type = "answer" /\ la.data = TRUE
        /\ lo # NoDesc /\ la # NoDesc
    BY DescriptionTypes, MediaFields
  <1>3. ra.type = "answer" /\ ra.data = TRUE /\ ro.type = "offer" /\ ro.data = TRUE
    BY DescriptionTypes DEF Remote, Descriptions
  <1>4. PICK cl \in {NoDesc, lo, la}, cr \in {NoDesc, ra, ro} :
            /\ s = InitState(cl, cr)
            /\ <<cl.type, cr.type>> \in CurrentTypes /\ cl.data = cr.data
            /\ Blank(cl) /\ Blank(cr) /\ (cl # NoDesc => cl.data)
    <2> HIDE DEF lo, la, ra, ro
    <2>1. \/ ends[1] = NoDesc /\ ends[2] = NoDesc
          \/ ends[1] = lo /\ ends[2] = ra
          \/ ends[1] = la /\ ends[2] = ro
      BY <1>1
    <2> QED
      BY <1>1, <1>2, <1>3, <2>1 DEF CurrentTypes, Blank
  <1> HIDE DEF lo, la, ra, ro
  <1>5. /\ s.closed = FALSE /\ s.sig = "stable" /\ s.l = cl /\ s.cl = cl /\ s.pl = NoDesc
        /\ s.r = cr /\ s.cr = cr /\ s.pr = NoDesc
        /\ s.lastOffer = NoDesc /\ s.lastAnswer = NoDesc /\ s.restart = FALSE
        /\ s.jsOffer = FALSE /\ s.jsRemote = FALSE /\ s.channels = cl.data
        /\ s.nsig = "stable" /\ s.nl = cl /\ s.ncl = cl /\ s.events = <<>>
    BY <1>4 DEF InitState
  <1>6. tasks = <<>> /\ waiting = {} /\ outcome = NoOutcome
    BY DEF Init
  <1>7. Described(s) /\ Silent(s)
    BY <1>2, <1>4, <1>5 DEF Described, Blank, Or, Silent, Tells
  <1>8. NativeFits(s)
    BY <1>2, <1>4, <1>5 DEF FromNative, lo, la, NativeFits, HLO
  <1>9. Offered(s) /\ Answerable(s) /\ Restarts(s) /\ News(s)
    BY <1>2, <1>4, <1>5, <1>7 DEF Offered, Answerable, Restarts, News, HLO, HRO
  <1>10. Joined
    BY <1>5, <1>6, <1>7, <1>8, <1>9 DEF Joined, Consistent, Joint
  <1>11. Exchange!Init
    BY <1>2, <1>4, <1>5 DEF Exchange!Init, Exchange!None, CurrentTypes
  <1>12. SettledMeansApplied
    BY <1>6 DEF NoOutcome, SettledMeansApplied
  <1> QED
    BY <1>10, <1>11, <1>12

LEMMA NextUpheld == ASSUME Given, Next PROVE Upheld
  <1>1. CASE Application
    BY <1>1, CallCreateJoins, CallSetLocalJoins, CallSetRemoteJoins, EnsureJoins,
       CallAddIceCandidateJoins, CallAddExchangedCandidateJoins, RestartIceJoins,
       CreateDataChannelJoins, CloseJoins, Zenon DEF Application
  <1>2. CASE SetLocalWork
    BY <1>2, SetLocalRejectedJoins, SetLocalRollbackJoins,
       SetLocalPranswerJoins, SetLocalAppliedJoins, SetLocalNoMediaJoins,
       SetLocalRestartAnswerJoins, SetLocalDataOnlyJoins, SetLocalRestartOfferJoins,
       SetLocalSyncJoins, SetLocalNativeJoins, SetLocalRefreshJoins, Zenon DEF SetLocalWork
  <1>3. CASE SetRemoteWork
    BY <1>3, SetRemoteRejectedJoins, SetRemotePranswerJoins, SetRemoteRollbackLocalJoins,
       SetRemoteRollbackJoins, SetRemoteRestartOfferJoins, SetRemoteDataOnlyOfferJoins,
       SetRemoteNoMediaJoins, SetRemoteReplaceJoins, SetRemoteOfferJoins,
       AwaitAnswererJoins, SetRemoteRestartAnswerJoins, SetRemoteDataOnlyAnswerJoins,
       SetRemoteAnswerJoins, Zenon DEF SetRemoteWork
  <1>4. CASE RunTask
    BY <1>2, <1>3, <1>4, CreateOfferJoins, CreateAnswerJoins, FinishJoins,
       EnsureFinishesJoins, AddIceCandidateEarlyJoins, AddIceCandidateJoins, Zenon
    DEF RunTask
  <1>5. CASE EventLoop
    BY <1>4, <1>5, AnswererJoins, HandleNativeEventJoins, RefreshTimerJoins, Zenon
    DEF EventLoop
  <1>6. CASE PairedSettles \/ PairedLeaves
    BY <1>6, PairedJoins
  <1> QED
    BY <1>1, <1>5, <1>6 DEF Next

\* The invariant, and what each step keeps beside it.
JointInv == SInv /\ Joined

LEMMA NextJointInv ==
    ASSUME Careful
    PROVE  JointInv /\ [Next]_vars =>
              JointInv' /\ Moves(s, s') /\ (SettledMeansApplied => SettledMeansApplied')
  <1> SUFFICES ASSUME JointInv, [Next]_vars
               PROVE  /\ JointInv' /\ Moves(s, s')
                      /\ SettledMeansApplied => SettledMeansApplied'
    OBVIOUS
  <1>1. Given /\ SInv'
    BY NextSInv DEF JointInv, Given
  <1>2. CASE Next
    BY <1>1, <1>2, NextUpheld DEF Upheld, JointInv
  <1>3. CASE UNCHANGED vars
    BY <1>3, <1>1 DEF vars, Given, Joined, Moves, SameCurrent, SettledMeansApplied, JointInv
  <1> QED
    BY <1>2, <1>3

-----------------------------------------------------------------------------
\* Whatever the application, the native peer and the answering peer do, and in whatever
\* order their steps come, the state keeps its type, and only calls of
\* setRemoteDescription with an answer of this process await an answerer.
THEOREM TypeCorrect == Spec => []TypeOK
  <1>1. SInv => TypeOK
    <2> SUFFICES ASSUME SInv PROVE TypeOK
      OBVIOUS
    <2>1. s \in States /\ tasks \in Seq(Tasks) /\ waiting \subseteq WaitingTasks
      BY DEF SInv, Sound, Typed
    <2>2. s.sig \in SignalingStates /\ s.native \in {"none", "live", "handed"}
      BY <2>1 DEF States, NativeHandles
    <2>3. {s.l, s.cl, s.pl, s.r, s.cr, s.pr} \subseteq Descriptions
      BY <2>1, StateFields
    <2>4. \A i \in 1 .. Len(tasks) : tasks[i].desc \in Descriptions
      BY <2>1, ElementOfSeq DEF Tasks, TaskRecords
    <2>5. \A task \in waiting : task.op = "setRemote" /\ task.here
      BY <2>1 DEF WaitingTasks
    <2> QED
      BY <2>2, <2>3, <2>4, <2>5 DEF TypeOK
  <1> QED
    BY <1>1, SInvariant, PTL

\* _operationsPending counts exactly the operations whose continuation is scheduled or
\* that await an answerer, whichever way each of them ends: when nothing is left to run
\* it is zero, and no candidate is kept back for an operation that is gone.
OperationsEnd == tasks = <<>> /\ waiting = {} => s.ops = 0

THEOREM OperationsAreCounted == Spec => []OperationsEnd
  <1>1. SInv => OperationsEnd
    BY CountedEmpty, FS_EmptySet DEF SInv, Sound, Counting, OperationsEnd
  <1> QED
    BY <1>1, SInvariant, PTL

\* When the application awaits each operation on descriptions before the next, and avoids
\* what the May operators forbid, the state it reads is always the one that its pending
\* descriptions imply.
THEOREM StateIsThatOfDescriptions ==
    ASSUME Chained, Cautious
    PROVE  Spec => []StateMatchesDescriptions
  <1>1. SInv => StateMatchesDescriptions
    <2> SUFFICES ASSUME SInv, ~s.closed, ~s.jsOffer, Pranswers = {}
                 PROVE  s.sig = DescriptionSignalingState(s)
      BY DEF StateMatchesDescriptions
    <2>1. Phase(s)
      BY DEF SInv, Orderly
    <2>2. s.pl.type # "pranswer" /\ s.pr.type # "pranswer"
      BY DEF Pranswers
    <2> QED
      BY <2>1, <2>2 DEF Phase, Exchanges, DescriptionSignalingState, HLO, HRO, HLP, HRP
  <1> QED
    BY <1>1, SInvariant, PTL

\* And once everything has settled, candidates that were kept back while an answer was
\* missing or operations were pending have reached the native peer, unless the paired
\* peer has not told that it settled.
THEOREM CandidatesReachTheNativePeer ==
    ASSUME Chained, Cautious
    PROVE  Spec => []DeferredCandidatesSettle
  <1>1. SInv => DeferredCandidatesSettle
    <2> SUFFICES ASSUME SInv, Quiescent PROVE DeferredCandidatesSettle
      BY DEF DeferredCandidatesSettle
    <2>1. tasks = <<>> /\ waiting = {}
      BY DEF Quiescent
    <2>2. s.ops = 0
      BY <2>1, CountedEmpty, FS_EmptySet DEF SInv, Sound, Counting
    <2>3. KeptBack(s)
      BY DEF SInv, Orderly
    <2> QED
      BY <2>2, <2>3 DEF KeptBack, DeferredCandidatesSettle
  <1> QED
    BY <1>1, SInvariant, PTL

\* When the application is careful in this way, a set operation that fulfils its promise
\* has done what it was asked for: the offer is pending and the state says so, or the
\* exchange is over, whatever native events, candidates and refreshes came in between.
THEOREM OperationsDoWhatTheyPromise ==
    ASSUME Careful
    PROVE  Spec => []SettledMeansApplied
  <1>1. Init => JointInv /\ SettledMeansApplied
    BY InitSInv, InitJoined DEF JointInv
  <1>2. /\ JointInv /\ SettledMeansApplied /\ [Next]_vars =>
               (JointInv /\ SettledMeansApplied)'
    BY NextJointInv
  <1> QED
    BY <1>1, <1>2, PTL DEF Spec

\* And its descriptions then go through the states of an offer/answer exchange: every step
\* of the connection is one of the exchange, or leaves the types of its descriptions alone.
THEOREM DescriptionsAreExchanged ==
    ASSUME Careful
    PROVE  Spec => ImplementsOfferAnswer
  <1>1. Init => JointInv /\ Exchange!Init
    BY InitSInv, InitJoined DEF JointInv
  <1>2. JointInv /\ [Next]_vars => JointInv'
    BY NextJointInv
  <1>3. JointInv /\ [Next]_vars => [Exchange!Next]_(Exchange!vars)
    <2> SUFFICES ASSUME Moves(s, s') PROVE [Exchange!Next]_(Exchange!vars)
      BY NextJointInv
    <2> QED
      BY DEF Moves, SameCurrent, Exchange!Next, Exchange!vars, Exchange!None,
             Exchange!LocalOffer, Exchange!RemoteOffer, Exchange!LocalPranswer,
             Exchange!RemotePranswer, Exchange!LocalAnswer, Exchange!RemoteAnswer,
             Exchange!Rollback
  <1> QED
    BY <1>1, <1>2, <1>3, PTL DEF Spec, ImplementsOfferAnswer, Exchange!Spec

-----------------------------------------------------------------------------
\* What an offer/answer exchange guarantees, and with it the descriptions of a connection
\* whose steps implement one.
ExchangeInv == Exchange!CurrentArePaired /\ Exchange!NoGlare

LEMMA InitExchangeInv == Exchange!Init => ExchangeInv
  BY DEF Exchange!Init, ExchangeInv, Exchange!CurrentArePaired, Exchange!NoGlare,
         Exchange!None

LEMMA NextExchangeInv == ASSUME ExchangeInv, [Exchange!Next]_(Exchange!vars) PROVE ExchangeInv'
  <1> USE DEF ExchangeInv, Exchange!CurrentArePaired, Exchange!NoGlare, Exchange!None
  <1>1. CASE Exchange!LocalOffer
    BY <1>1 DEF Exchange!LocalOffer
  <1>2. CASE Exchange!RemoteOffer
    BY <1>2 DEF Exchange!RemoteOffer
  <1>3. CASE Exchange!LocalPranswer
    BY <1>3 DEF Exchange!LocalPranswer
  <1>4. CASE Exchange!RemotePranswer
    BY <1>4 DEF Exchange!RemotePranswer
  <1>5. CASE Exchange!LocalAnswer
    BY <1>5 DEF Exchange!LocalAnswer
  <1>6. CASE Exchange!RemoteAnswer
    BY <1>6 DEF Exchange!RemoteAnswer
  <1>7. CASE Exchange!Rollback
    BY <1>7 DEF Exchange!Rollback
  <1>8. CASE UNCHANGED Exchange!vars
    BY <1>8 DEF Exchange!vars
  <1> QED
    BY <1>1, <1>2, <1>3, <1>4, <1>5, <1>6, <1>7, <1>8 DEF Exchange!Next

\* The descriptions of a connection whose application is Careful, whatever was pending and
\* rolled back, and however late native events and refreshes come: the current ones are an
\* offer and its answer, and an offer pending on one side excludes one on the other.
THEOREM DescriptionsArePaired ==
    ASSUME Careful
    PROVE  Spec => [](Exchange!CurrentArePaired /\ Exchange!NoGlare)
  <1>1. Spec => Exchange!Spec
    BY DescriptionsAreExchanged DEF ImplementsOfferAnswer
  <1>2. ExchangeInv => Exchange!CurrentArePaired /\ Exchange!NoGlare
    BY DEF ExchangeInv
  <1> QED
    BY <1>1, <1>2, InitExchangeInv, NextExchangeInv, PTL DEF Exchange!Spec

=============================================================================
