------------------------- MODULE AnnouncementProofs -------------------------
(***************************************************************************)
(* Once everything has settled, the last signalingstatechange event told   *)
(* the application the state that the connection is in (StateAnnounced of  *)
(* Signaling), for any remote descriptions and any number of calls, when   *)
(* the application is Careful (SignalingProofs).                           *)
(*                                                                         *)
(* Announced is kept beside the invariant of SignalingProofs.  It says why *)
(* a state that was not dispatched yet will be (a native event on its way  *)
(* says so, and nothing suppresses it), and which operation on its way     *)
(* will lift a suppression.  Telling is what a step may rely on: both      *)
(* invariants before it, and Joined, known from there, also after it.      *)
(***************************************************************************)
EXTENDS SignalingProofs

-----------------------------------------------------------------------------
\* StateAnnounced says nothing while the offer of an ICE restart, or a provisional answer,
\* is pending.
Exempt(t) == t.jsOffer \/ t.pl.type = "pranswer" \/ t.pr.type = "pranswer"

\* A native event on its way says what the state is, and will not be suppressed.
Coming(t) ==
    /\ t.suppress = "none"
    /\ \E i \in 1 .. Len(t.events) :
          t.events[i].type = "signalingstatechange" /\ t.events[i].state = t.sig

\* The application was told of the state, or is going to be.
Told(t) == t.dispatched = t.sig \/ Exempt(t) \/ (~t.closed /\ Coming(t))

\* The offer of an ICE restart that only JavaScript knows of is no stable state.
Restarting(t) == t.jsOffer /\ ~t.closed => t.sig # "stable"

\* A task that will lift the suppression of the native event of a state.
Suppresses(task, state) ==
    /\ task.op \in SetOps
    /\ \/ task.at \in {"clear", "rolledBack"} /\ state = "stable"
       \/ task.op = "setRemote" /\ task.at = "done" /\ task.suppressed = state

Held == s.suppress = "none" \/ \E i \in 1 .. Len(tasks) : Suppresses(tasks[i], s.suppress)

\* An operation that awaits an answerer remembers a state that its answer is going to
\* change; and no paired peer can apply an answer here before a rollback is finished.
Watched(t, task) ==
    /\ task.op = "setRemote" /\ task.at \in AnswerStages =>
           task.before \notin {"stable", "closed"}
    /\ task.op = "setLocal" /\ task.at = "clear" =>
           t.closed \/ t.paired \in {"none", "left"}

Announced ==
    /\ Told(s) /\ Restarting(s) /\ Held
    /\ \A i \in 1 .. Len(tasks) : Watched(s, tasks[i])
    /\ \A w \in waiting : Watched(s, w)

\* What a step may rely on.
Telling == Given /\ Announced /\ Joined'

\* Nothing is dispatched, and a suppression is lifted at most.
Quiet(t, u) ==
    /\ u.closed = t.closed /\ u.sig = t.sig /\ u.dispatched = t.dispatched
    /\ u.events = t.events /\ u.suppress \in {t.suppress, "none"}
    /\ u.jsOffer = t.jsOffer /\ u.pl.type = t.pl.type /\ u.pr.type = t.pr.type

LEMMA QuietTold ==
    ASSUME NEW t, NEW u, Quiet(t, u)
    PROVE  /\ Told(t) => Told(u)
           /\ Restarting(t) => Restarting(u)
  BY DEF Quiet, Told, Restarting, Exempt, Coming

LEMMA AlikeQuiet ==
    ASSUME NEW t, NEW u, Alike(t, u), u.sig = t.sig, u.dispatched = t.dispatched,
           u.suppress \in {t.suppress, "none"}
    PROVE  Quiet(t, u)
  BY DEF Quiet, Alike, SameMade, SameRestarts, SameLocal, SameRemote, Undisturbed

LEMMA QuietSteps ==
    ASSUME NEW t \in States
    PROVE  /\ \A u : NativeStep(t, u) /\ u.events = t.events => Quiet(t, u)
           /\ \A u : Flush(t, u) => Quiet(t, u) /\ u.suppress = t.suppress
           /\ Quiet(t, FinishPendingOperation(t))
           /\ FinishPendingOperation(t).suppress = t.suppress
           /\ \A state : Quiet(t, ClearSuppressed(t, state))
  <1>1. ASSUME NEW u, NativeStep(t, u), u.events = t.events PROVE Quiet(t, u)
    BY <1>1 DEF NativeStep, SameExchange, Quiet
  <1>2. ASSUME NEW u, Flush(t, u) PROVE Quiet(t, u) /\ u.suppress = t.suppress
    BY <1>2 DEF Flush, SameExchange, SameEvents, Undisturbed, Quiet
  <1>3. /\ Quiet(t, FinishPendingOperation(t))
        /\ FinishPendingOperation(t).suppress = t.suppress
    <2> DEFINE u == FinishPendingOperation(t)
    <2>1. SameExchange(t, u) /\ SameEvents(t, u) /\ Undisturbed(t, u)
      BY FinishKeeps
    <2> HIDE DEF u
    <2> QED
      BY <2>1 DEF SameExchange, SameEvents, Undisturbed, Quiet, u
  <1>4. ASSUME NEW state PROVE Quiet(t, ClearSuppressed(t, state))
    <2> DEFINE u == ClearSuppressed(t, state)
    <2>1. /\ Firm(t, u) /\ SameLocal(t, u) /\ SameRemote(t, u) /\ u.sig = t.sig
          /\ u.dispatched = t.dispatched /\ u.suppress \in {t.suppress, "none"}
      BY ClearSuppressedKeeps
    <2> HIDE DEF u
    <2>2. Quiet(t, u)
      BY <2>1, FirmAlike, AlikeQuiet
    <2> QED
      BY <2>2 DEF u
  <1> QED
    BY <1>1, <1>2, <1>3, <1>4

\* With descriptions that fit the state it is not stable while a pranswer, or the offer of
\* an ICE restart, is pending.
LEMMA Restless ==
    ASSUME NEW t, Phase(t), Restarting(t), ~t.closed, Exempt(t)
    PROVE  t.sig # "stable"
  BY DEF Phase, Exchanges, Restarting, Exempt, HLO, HRO, HLP, HRP

\* A state is entered and dispatched, unless it was that already.
Entering(t, u) ==
    /\ u.suppress = t.suppress /\ u.events = t.events
    /\ u.dispatched = u.sig \/ (u.sig = t.sig /\ u.dispatched = t.dispatched)

LEMMA EnteringSteps ==
    ASSUME NEW t \in States, NEW x \in States, SameEvents(t, x), x.events = t.events
    PROVE  /\ \A state \in SignalingStates : Entering(t, EnterState(x, state, t.sig))
           /\ Entering(t, DispatchIfChanged(SyncSignalingState(x), t.sig))
           /\ Entering(t, Dispatch(x))
  <1>1. ASSUME NEW state \in SignalingStates
        PROVE  Entering(t, EnterState(x, state, t.sig))
    <2> DEFINE u == EnterState(x, state, t.sig)
    <2>1. /\ Firm(x, u) /\ u.suppress = x.suppress /\ u.sig = state
          /\ u.dispatched = IF state = t.sig THEN x.dispatched ELSE state
      BY <1>1, EnterKeeps
    <2> HIDE DEF u
    <2> QED
      BY <2>1 DEF Entering, SameEvents, Firm, SameNative, u
  <1>2. Entering(t, DispatchIfChanged(SyncSignalingState(x), t.sig))
    <2> DEFINE y == SyncSignalingState(x)
               u == DispatchIfChanged(y, t.sig)
    <2>1. Firm(x, y) /\ SameEvents(x, y)
      BY SyncKeeps
    <2> HIDE DEF y
    <2>2. /\ Firm(y, u) /\ u.suppress = y.suppress /\ u.sig = y.sig
          /\ u.dispatched = IF y.sig = t.sig THEN y.dispatched ELSE y.sig
      BY <2>1, EnterKeeps, StateNames DEF Firm
    <2> HIDE DEF u
    <2>3. Entering(t, u)
      BY <2>1, <2>2 DEF Entering, SameEvents, Firm, SameNative
    <2> QED
      BY <2>3 DEF u, y
  <1>3. Entering(t, Dispatch(x))
    <2> DEFINE u == Dispatch(x)
    <2>1. Firm(x, u) /\ u.suppress = x.suppress /\ u.sig = x.sig /\ u.dispatched = x.sig
      BY EnterKeeps, StateNames
    <2> HIDE DEF u
    <2> QED
      BY <2>1 DEF Entering, SameEvents, Firm, SameNative, u
  <1> QED
    BY <1>1, <1>2, <1>3

LEMMA EntersTold ==
    ASSUME NEW t, NEW u, Told(t), Phase(t), Restarting(t), ~t.closed, ~u.closed, Entering(t, u),
           u.sig = "stable" \/ t.sig = "stable" \/ ~Exempt(t) \/ Exempt(u)
    PROVE  Told(u)
  BY Restless DEF Told, Coming, Entering

\* What reads the descriptions again may correct the state, but dispatches nothing.
Corrects(t, u) ==
    /\ u.closed = t.closed /\ SameEvents(t, u) /\ u.events = t.events
    /\ u.jsOffer = t.jsOffer /\ u.pl.type = t.pl.type /\ u.pr.type = t.pr.type
    /\ u.sig = t.sig \/ (~t.closed /\ u.sig = Synced(t))

LEMMA SyncedUnlessExempt ==
    ASSUME NEW t, Phase(t), ~t.closed, ~Exempt(t)
    PROVE  Synced(t) = t.sig
  BY DEF Phase, Exchanges, Exempt, Synced, DescriptionSignalingState, HLO, HRO, HLP, HRP

LEMMA CorrectsTold ==
    ASSUME NEW t, NEW u, Told(t), Phase(t), Restarting(t), Corrects(t, u)
    PROVE  Told(u) /\ Restarting(u)
  <1>1. CASE Exempt(t)
    BY <1>1 DEF Corrects, Told, Exempt, Restarting, Synced, HLO
  <1>2. CASE ~Exempt(t)
    BY <1>2, SyncedUnlessExempt DEF Corrects, Told, Exempt, Restarting, Coming, SameEvents
  <1> QED
    BY <1>1, <1>2

\* No more than this operation suppresses the events.
LEMMA HeldByTask ==
    ASSUME Given, Announced, Describes
    PROVE  s.suppress = "none" \/ Suppresses(Task, s.suppress)
  <1>1. Sound /\ Single /\ Ready
    BY JoinedFacts DEF Describes
  <1>2. \A i : Describing(i) => i = 1
    BY <1>1, Alone DEF Describes
  <1>3. Task = tasks[1]
    BY <1>1, Front DEF Sound, Typed, Ready, Task
  <1> QED
    BY <1>2, <1>3 DEF Announced, Held, Suppresses, Describing, DescriptionOps

LEMMA NoneSuppressed ==
    ASSUME Given, Announced, Describes, Task.at \in {"work", "refresh"} \cup AnswerStages
    PROVE  s.suppress = "none"
  BY HeldByTask DEF Suppresses, AnswerStages

\* Operations on other things than descriptions suppress nothing.
LEMMA OthersWatched ==
    ASSUME NEW t, NEW task, task.op \notin SetOps
    PROVE  Watched(t, task) /\ \A state : ~Suppresses(task, state)
  BY DEF Watched, Suppresses, SetOps

\* The operation goes on.
LEMMA GoesOn ==
    ASSUME Given, Announced, Describes, NEW u, Told(u), Restarting(u), NEW task \in Tasks,
           u.suppress = "none" \/ Suppresses(task, u.suppress),
           Watched(u, task), AwaitAs(u, task)
    PROVE  Announced'
  <1>1. Sound /\ Single /\ Ready /\ s' = u /\ tasks' = Append(Tail(tasks), task)
    BY JoinedFacts DEF Describes, AwaitAs
  <1>2. waiting' = {} /\ \A i : Describing(i) => i = 1
    BY <1>1, Alone DEF Describes, AwaitAs
  <1>3. /\ tasks \in Seq(Tasks) /\ Len(tasks) \in Nat /\ tasks # <<>>
        /\ Len(tasks') = Len(tasks) /\ Len(tasks) >= 1 /\ tasks'[Len(tasks)] = task
        /\ \A i \in 1 .. Len(tasks') :
              \/ i + 1 \in 1 .. Len(tasks) /\ i + 1 # 1 /\ tasks'[i] = tasks[i + 1]
              \/ i = Len(tasks) /\ tasks'[i] = task
    BY <1>1, Requeues, TasksTyped DEF Ready
  <1>4. \A i \in 1 .. Len(tasks') : Watched(u, tasks'[i])
    BY <1>2, <1>3, OthersWatched DEF Describing, DescriptionOps
  <1>5. u.suppress = "none" \/ \E i \in 1 .. Len(tasks') : Suppresses(tasks'[i], u.suppress)
    BY <1>3
  <1> QED
    BY <1>1, <1>2, <1>4, <1>5 DEF Announced, Held

\* It ends.
LEMMA Ends ==
    ASSUME Given, Announced, Describes, NEW u \in States, Told(u), Restarting(u),
           u.suppress = "none", Settle(u) \/ Reject(u)
    PROVE  Announced'
  <1>1. /\ Sound /\ Single /\ Ready /\ s' = FinishPendingOperation(u) /\ tasks' = Tail(tasks)
        /\ waiting' = waiting
    BY JoinedFacts DEF Describes, Settle, Reject
  <1>2. waiting' = {} /\ \A i : Describing(i) => i = 1
    BY <1>1, Alone DEF Describes
  <1>3. \A i \in 1 .. Len(tasks') : tasks'[i].op \notin SetOps
    BY <1>1, <1>2, Shifts DEF Describing, DescriptionOps
  <1>4. Told(s') /\ Restarting(s') /\ s'.suppress = "none"
    BY <1>1, QuietSteps, QuietTold
  <1> QED
    BY <1>2, <1>3, <1>4, OthersWatched DEF Announced, Held

\* Steps beside the operations on descriptions: a paired peer is found by the exchange of
\* descriptions only.
Loyal(t, u) ==
    u.closed \/ (~t.closed /\ (t.paired \in {"none", "left"} => u.paired \in {"none", "left"}))

LEMMA LoyalWatched ==
    ASSUME NEW t, NEW u, NEW task, Watched(t, task), Loyal(t, u)
    PROVE  Watched(u, task)
  BY DEF Watched, Loyal

LEMMA Beside ==
    ASSUME Given, Announced, NEW u, s' = u, Told(u), Restarting(u), Loyal(s, u),
           u.suppress \in {s.suppress, "none"}, waiting' \subseteq waiting,
           \A i \in 1 .. Len(tasks') :
               \/ \E j \in 1 .. Len(tasks) : tasks'[i] = tasks[j]
               \/ tasks'[i] \in waiting \/ tasks'[i].op \notin SetOps
               \/ tasks'[i].at = "work",
           \A j \in 1 .. Len(tasks) : tasks[j].op \in SetOps =>
               \E i \in 1 .. Len(tasks') : tasks'[i] = tasks[j]
    PROVE  Announced'
  <1>1. \A i \in 1 .. Len(tasks) : Watched(u, tasks[i])
    BY LoyalWatched DEF Announced
  <1>2. \A w \in waiting : Watched(u, w)
    BY LoyalWatched DEF Announced
  <1>3. \A i \in 1 .. Len(tasks') : Watched(u, tasks'[i])
    BY <1>1, <1>2, OthersWatched DEF Watched, AnswerStages
  <1>4. u.suppress = "none" \/ \E i \in 1 .. Len(tasks') : Suppresses(tasks'[i], u.suppress)
    BY DEF Announced, Held, Suppresses
  <1> QED
    BY <1>2, <1>3, <1>4 DEF Announced, Held

\* What an operation has achieved tells of the state that its next task finds.
LEMMA StageAchieved ==
    ASSUME Telling, Describes, Task.op \in SetOps, NEW u, NEW task \in Tasks,
           NEW at \in {"done", "clear", "refresh"}, Staged(Task, task, at), AwaitAs(u, task)
    PROVE  u.closed \/ Achieved(u, Task)
  <1>1. Sound /\ Ready /\ s' = u /\ tasks' = Append(Tail(tasks), task)
    BY JoinedFacts DEF Describes, AwaitAs, Telling
  <1>2. Len(tasks') \in Nat /\ Len(tasks') >= 1 /\ tasks'[Len(tasks')] = task
    BY <1>1, TasksTyped DEF Ready
  <1>3. Fits(u, task)
    BY <1>1, <1>2 DEF Telling, Joined
  <1> QED
    BY <1>3 DEF Fits, Expects, Finishing, Staged, Achieved

\* A set operation has been worked on.
LEMMA AwaitTold ==
    ASSUME Telling, Describes, Task.op \in SetOps, NEW u,
           NEW at \in {"done", "clear", "refresh"}, Await(u, at),
           u.closed \/ Achieved(u, Task) => Told(u) /\ Restarting(u),
           u.suppress = "none" \/ (at = "clear" /\ u.suppress = "stable"),
           at = "clear" => u.paired = "none"
    PROVE  Announced'
  <1> DEFINE n == [Task EXCEPT !.at = at]
  <1>1. n \in Tasks /\ Staged(Task, n, at) /\ AwaitAs(u, n)
    <2>1. Task \in Tasks
      BY TaskTyped DEF Describes, Telling, Given, SInv, Sound
    <2>2. Staged(Task, n, at)
      BY <2>1, StageTyped, StatesNamed
    <2> QED
      BY <2>2 DEF Staged, Await
  <1> HIDE DEF n
  <1>2. u.closed \/ Achieved(u, Task)
    BY <1>1, StageAchieved
  <1>3. Watched(u, n) /\ (u.suppress = "none" \/ Suppresses(n, u.suppress))
    BY <1>1 DEF Watched, Suppresses, Staged, AnswerStages, SetOps
  <1> QED
    BY <1>1, <1>2, <1>3, GoesOn DEF Telling

-----------------------------------------------------------------------------
\* setLocalDescription
LEMMA LocalTelling ==
    ASSUME Telling, NEW path, LocalWork(path)
    PROVE  /\ Describes /\ Task \in Tasks /\ Task.op = "setLocal" /\ Task.op \in SetOps
           /\ s \in States /\ Told(s) /\ Restarting(s) /\ Phase(s) /\ Consistent(s)
           /\ s.suppress = "none" /\ (path # "closed" => ~s.closed)
  <1>1. /\ Describes /\ Task \in Tasks /\ Task.op = "setLocal" /\ Task.at = "work"
        /\ s \in States /\ (path # "closed" => ~s.closed)
    BY LocalWorkFacts DEF Telling, Given
  <1> QED
    BY <1>1, JoinedFacts, NoneSuppressed DEF Telling, Announced, SetOps

LEMMA SetLocalRejectedTells ==
    Telling /\ (SetLocalClosed \/ SetLocalInvalid) => Announced'
  BY LocalTelling, Ends DEF SetLocalClosed, SetLocalInvalid, Telling

LEMMA SetLocalRollbackTells == ASSUME Telling, SetLocalRollback PROVE Announced'
  <1> DEFINE u == RollbackLocalOffer(s)
  <1>1. LocalWork("rollback") /\ Await(u, "clear")
    BY DEF SetLocalRollback
  <1>2. s.sig = HLO
    BY <1>1, LocalWorkFacts DEF Telling, Given, InvalidLocal
  <1>3. u.paired = "none" /\ u.sig = "stable"
    BY <1>1, LocalTelling, RollbackLocalOfferKeeps
  <1>4. u.dispatched = u.sig /\ u.suppress \in {"none", "stable"}
    BY <1>1, <1>2, LocalTelling, RollbackLocalOfferKeeps DEF HLO
  <1> HIDE DEF u
  <1>5. u.closed \/ Achieved(u, Task) => Told(u) /\ Restarting(u)
    BY <1>1, <1>3, <1>4, LocalWorkFacts DEF Telling, Given, Achieved, Idle, Told, Restarting
  <1> QED
    BY <1>1, <1>3, <1>4, <1>5, LocalTelling, AwaitTold

\* The operation entered a state, from this one or what was made of it.
LEMMA EnteredTells ==
    ASSUME Telling, Describes, Task.op \in SetOps,
           NEW t, Told(t), Phase(t), Restarting(t), t.suppress = "none", ~t.closed,
           NEW u, Await(u, "done"), ~u.closed, Entering(t, u),
           \/ Task.type \in {"answer", "rollback"}
           \/ Exempt(u) \/ ~Exempt(t) \/ t.sig = "stable",
           Task.type \in {"offer", "answer", "rollback"} \/ u.sig # "stable"
    PROVE  Announced'
  <1>1. u.suppress = "none"
    BY DEF Entering
  <1>2. Achieved(u, Task) => Told(u) /\ Restarting(u)
    BY EntersTold DEF Achieved, Idle, Restarting, SetOps, HLO, HRO
  <1> QED
    BY <1>1, <1>2, AwaitTold

LEMMA SetLocalPranswerTells == ASSUME Telling, SetLocalPranswer PROVE Announced'
  <1> DEFINE x == SetPendingLocal(s, Task.desc)
             u == EnterState(x, HLP, s.sig)
  <1>1. LocalWork("pranswer") /\ Await(u, "done")
    BY DEF SetLocalPranswer
  <1>2. Task.desc \in Descriptions /\ Task.desc.type = "pranswer"
    BY <1>1, LocalWorkFacts DEF Telling, Given
  <1>3. Kept(s, x) /\ x.pl = Task.desc
    BY <1>1, <1>2, LocalTelling, SetPendingKeeps
  <1> HIDE DEF x
  <1>4. Firm(x, u) /\ SameLocal(x, u) /\ u.sig = HLP /\ Entering(s, u)
    BY <1>1, <1>3, LocalTelling, EnterKeeps, EnteringSteps, StateNames
       DEF Kept, Firm, SameNative
  <1> HIDE DEF u
  <1>5. ~u.closed /\ Exempt(u) /\ u.sig # "stable"
    BY <1>1, <1>2, <1>3, <1>4, LocalTelling DEF Kept, Firm, SameLocal, Exempt, HLP
  <1> QED
    BY <1>1, <1>4, <1>5, LocalTelling, EnteredTells

LEMMA SetLocalAppliedTells == ASSUME Telling, SetLocalApplied PROVE Announced'
  <1> DEFINE x == SyncStatesFromNative(s)
             u == AddPendingCandidates(x)
  <1>1. LocalWork("applied") /\ Settle(u)
    BY DEF SetLocalApplied
  <1>2. x \in States /\ Corrects(s, x)
    <2>1. Firm(s, SyncSignalingState(s)) /\ Alike(s, SyncSignalingState(s))
          /\ SyncSignalingState(s).sig = Synced(s) /\ SameEvents(s, SyncSignalingState(s))
      BY <1>1, LocalTelling, SyncKeeps, FirmAlike, SyncAlike
    <2> QED
      BY <1>1, <2>1, LocalTelling
      DEF SyncStatesFromNative, Corrects, Firm, SameNative, SameEvents, Alike, SameLocal,
          SameRemote
  <1> HIDE DEF x
  <1>3. Told(x) /\ Restarting(x) /\ x.suppress = "none"
    BY <1>1, <1>2, LocalTelling, CorrectsTold DEF Corrects, SameEvents
  <1>4. u \in States /\ Told(u) /\ Restarting(u) /\ u.suppress = "none"
    BY <1>2, <1>3, AddPendingCandidatesKeeps, QuietSteps, QuietTold DEF Flush
  <1> HIDE DEF u
  <1> QED
    BY <1>1, <1>4, LocalTelling, Ends DEF Telling

LEMMA SetLocalNoMediaTells == ASSUME Telling, SetLocalNoMedia PROVE Announced'
  <1> DEFINE d == Or(Task.desc, ImplicitLocal(s, Task.type))
             t == IF Task.desc = NoDesc /\ Task.type = "offer" /\ s.lastOffer = NoDesc
                  THEN EnsureNative(s) ELSE s
             x == SetPendingLocal(t, d)
             y == [x EXCEPT !.sig = HLO]
             c == CommitAnswer(t, d)
             e == [c EXCEPT !.sig = "stable"]
  <1>1. LocalWork("noMedia")
    BY DEF SetLocalNoMedia
  <1>2. \/ d.type = "offer" /\ Await(Dispatch(y), "done")
        \/ d.type = "answer" /\ Await(Dispatch(e), "done")
    BY Zenon DEF SetLocalNoMedia
  <1>3. d \in Descriptions /\ (d.type = "answer" => Task.type = "answer")
    BY <1>1, LocalWorkFacts, ImplicitTyped DEF Telling, Given, Shape, SetOps, Or
  <1> HIDE DEF d
  <1>4. t \in States /\ t.closed = FALSE /\ t.suppress = "none" /\ t.events = s.events
    BY <1>1, LocalTelling, EnsureNativeStep, EnsureNativeKeeps
       DEF NativeStep, SameExchange, Undisturbed
  <1> HIDE DEF t
  <1>5. ASSUME NEW p, Kept(t, p), NEW state \in SignalingStates,
               Await(Dispatch([p EXCEPT !.sig = state]), "done"),
               state # "stable" \/ Task.type = "answer"
        PROVE  Announced'
    <2> DEFINE q == [p EXCEPT !.sig = state]
               u == Dispatch(q)
    <2>1. Entered(p, q, state) /\ Firm(p, q) /\ q \in States
      BY <1>5, SigKeeps DEF Kept, Firm, Entered
    <2> HIDE DEF q
    <2>2. /\ Firm(q, u) /\ u.suppress = q.suppress /\ u.sig = state /\ u.dispatched = state
      BY <2>1, EnterKeeps DEF Entered
    <2> HIDE DEF u
    <2>3. ~u.closed /\ Entering(s, u)
      BY <1>4, <1>5, <1>1, LocalTelling, <2>1, <2>2
         DEF Kept, Firm, SameNative, SameEvents, Entered, Entering
    <2>4. Told(u) /\ (Achieved(u, Task) => Restarting(u))
      BY <1>5, <2>2 DEF Told, Achieved, Idle, Restarting
    <2> QED
      BY <1>1, <1>5, <2>3, <2>4, LocalTelling, AwaitTold DEF u, q, Entering
  <1> QED
    BY <1>2, <1>3, <1>4, <1>5, SetPendingKeeps, CommitAnswerKeeps, StateNames DEF HLO

LEMMA SetLocalRestartAnswerTells == ASSUME Telling, SetLocalRestartAnswer PROVE Announced'
  <1> DEFINE d == Or(Task.desc, ImplicitLocal(s, "answer"))
             u == ApplyRestartAnswer(s, d)
  <1>1. LocalWork("restartAnswer") /\ Await(u, "done")
    BY DEF SetLocalRestartAnswer
  <1>2. d \in Descriptions
    BY <1>1, LocalWorkFacts, ImplicitTyped DEF Telling, Given, Or
  <1>3. Task.type = "answer"
    BY <1>1 DEF LocalWork, LocalPath
  <1> HIDE DEF d
  <1>4. Basic(s, u) /\ u.sig = "stable" /\ Entering(s, u)
    BY <1>1, <1>2, LocalTelling, ApplyRestartAnswerKeeps DEF SameEvents, Entering
  <1> HIDE DEF u
  <1> QED
    BY <1>1, <1>3, <1>4, LocalTelling, EnteredTells DEF Basic

\* Nothing is dispatched, and no native event comes or goes.
Mute(t, u) == u.closed = t.closed /\ SameEvents(t, u) /\ u.events = t.events

LEMMA MuteSteps ==
    ASSUME NEW t, NEW u
    PROVE  /\ \A v : Mute(t, u) /\ Mute(u, v) => Mute(t, v)
           /\ Mute(t, t)
           /\ Kept(t, u) \/ Flush(t, u) \/ (NativeStep(t, u) /\ u.events = t.events) => Mute(t, u)
           /\ t \in States => Mute(t, SyncSignalingState(t))
  <1>1. ASSUME t \in States PROVE Mute(t, SyncSignalingState(t))
    <2> DEFINE x == SyncSignalingState(t)
    <2>1. Firm(t, x) /\ SameEvents(t, x)
      BY <1>1, SyncKeeps
    <2> HIDE DEF x
    <2> QED
      BY <2>1 DEF Mute, Firm, SameNative, x
  <1>2. Kept(t, u) => Mute(t, u)
    BY DEF Kept, Firm, SameNative, Mute
  <1>3. Flush(t, u) => Mute(t, u)
    BY DEF Flush, SameExchange, Undisturbed, Mute
  <1> QED
    BY <1>1, <1>2, <1>3 DEF Mute, SameEvents, NativeStep, SameExchange

LEMMA RefreshCorrects ==
    ASSUME NEW t \in States
    PROVE  /\ RefreshFromNative(t) \in States /\ Corrects(t, RefreshFromNative(t))
           /\ \A complete \in BOOLEAN :
                 /\ RefreshAfterGatheringWindow(t, complete) \in States
                 /\ Corrects(t, RefreshAfterGatheringWindow(t, complete))
  <1> DEFINE r == RefreshCurrentOrPendingLocal(t, t.nl)
             n == IF t.nl = NoDesc THEN t ELSE r
             u == SyncSignalingState(n)
             v == RefreshFromNative(t)
  <1>1. v = IF t.closed \/ t.l = NoDesc \/ t.native = "none" THEN t ELSE u
    BY Zenon DEF RefreshFromNative
  <1>2. Kept(t, r) /\ SameRemote(t, r) /\ r.pl.type = t.pl.type
    BY StateFields, RefreshCurrentOrPendingKeeps
  <1> HIDE DEF r
  <1>3. Kept(t, n) /\ SameRemote(t, n) /\ n.pl.type = t.pl.type /\ n \in States
    BY <1>2 DEF Kept, Firm, SameRemote, SameCandidates, SameNative, SameEvents
  <1> HIDE DEF n
  <1>4. Alike(n, u) /\ u.sig = Synced(n) /\ Mute(n, u) /\ Mute(t, n)
    BY <1>3, SyncAlike, MuteSteps
  <1> HIDE DEF u
  <1>5. Synced(n) = Synced(t)
    BY <1>3 DEF Synced, DescriptionSignalingState, Kept, Firm, SameRemote
  <1>6. Corrects(t, t)
    BY DEF Corrects, SameEvents
  <1>7. ~t.closed => Corrects(t, u)
    BY <1>3, <1>4, <1>5
       DEF Corrects, Mute, SameEvents, Alike, SameRestarts, SameLocal, SameRemote, Kept, Firm
  <1>8. v \in States /\ Corrects(t, v)
    BY <1>1, <1>4, <1>6, <1>7 DEF Alike
  <1>9. ASSUME NEW complete \in BOOLEAN
        PROVE  /\ RefreshAfterGatheringWindow(t, complete) \in States
               /\ Corrects(t, RefreshAfterGatheringWindow(t, complete))
    <2> DEFINE b == v.refresh \/ (~v.closed /\ v.l # NoDesc /\ ~complete)
               w == [v EXCEPT !.refresh = b]
    <2>1. RefreshAfterGatheringWindow(t, complete)
            = [v EXCEPT !.refresh = @ \/ (~v.closed /\ v.l # NoDesc /\ ~complete)]
      BY Zenon DEF RefreshAfterGatheringWindow
    <2> HIDE DEF v
    <2>2. RefreshAfterGatheringWindow(t, complete) = w
      BY <1>8, <2>1 DEF States
    <2>3. b \in BOOLEAN
      BY <1>8, StateFields
    <2> HIDE DEF b
    <2>4. w \in States
      BY <1>8, <2>3, StateFlags
    <2>5. Corrects(t, w)
      BY <1>8 DEF Corrects, SameEvents, States
    <2> QED
      BY <2>2, <2>4, <2>5
  <1> QED
    BY <1>8, <1>9

LEMMA SetLocalDataOnlyTells == ASSUME Telling, SetLocalDataOnly PROVE Announced'
  <1> DEFINE d == Or(Task.desc, s.cl)
             a == SetPendingLocal(s, d)
             c == CommitAnswer(s, d)
             x == IF Task.type = "offer" THEN a ELSE c
             u == DispatchIfChanged(SyncSignalingState(x), s.sig)
  <1>1. LocalWork("dataOnly") /\ Await(u, "done")
    BY DEF SetLocalDataOnly
  <1>2. Task.desc \in Descriptions /\ s.cl \in Descriptions /\ Task.type \in {"offer", "answer"}
    BY <1>1, LocalTelling, LocalWorkFacts, StateFields DEF Telling, Given
  <1>3. Task.type = "offer" => s.sig = "stable"
    BY <1>1 DEF LocalWork, LocalPath, DataOnlyLocalOffer
  <1>4. d \in Descriptions
    BY <1>2 DEF Or
  <1> HIDE DEF d
  <1>5. Kept(s, a) /\ Kept(s, c)
    BY <1>1, <1>4, LocalTelling, SetPendingKeeps, CommitAnswerKeeps
  <1> HIDE DEF a, c
  <1>6. Kept(s, x) /\ x \in States
    BY <1>5 DEF Kept, Firm
  <1> HIDE DEF x
  <1>7. Mute(s, x)
    BY <1>6, MuteSteps
  <1>8. Entering(s, u)
    BY <1>1, <1>6, <1>7, LocalTelling, EnteringSteps DEF Mute
  <1>9. Alike(x, u)
    BY <1>6, SyncAlike
  <1> HIDE DEF u
  <1>10. ~u.closed
    BY <1>1, <1>7, <1>9, LocalTelling DEF Mute, Alike, SameMade
  <1> QED
    BY <1>1, <1>2, <1>3, <1>8, <1>10, LocalTelling, EnteredTells

LEMMA SetLocalRestartOfferTells == ASSUME Telling, SetLocalRestartOffer PROVE Announced'
  <1> DEFINE a == Or(Task.desc, Or(s.lastOffer, NativeOffer(s)))
             d == MarkRestart(a)
             x == SetPendingLocal(s, d)
             y == [x EXCEPT !.jsOffer = TRUE]
             t == [y EXCEPT !.restart = FALSE]
             u == EnterState(t, HLO, s.sig)
  <1>1. LocalWork("restartOffer")
    BY DEF SetLocalRestartOffer
  <1>2. Await(EnterState([x EXCEPT !.jsOffer = TRUE, !.restart = FALSE], HLO, s.sig), "done")
    BY Zenon DEF SetLocalRestartOffer
  <1>3. d \in Descriptions
    <2>1. Task.desc \in Descriptions /\ Created(s) /\ s.lastOffer \in Descriptions
      BY <1>1, LocalTelling, LocalWorkFacts, StateFields DEF Telling, Given
    <2>2. NativeOffer(s) \in Descriptions
      BY <1>1, <2>1, LocalTelling, ImplicitTyped
    <2> QED
      BY <2>1, <2>2, DescriptionOperators DEF Or
  <1> HIDE DEF d
  <1>4. Kept(s, x) /\ x \in States /\ Mute(s, x)
    BY <1>1, <1>3, LocalTelling, SetPendingKeeps, MuteSteps DEF Kept, Firm
  <1> HIDE DEF x
  <1>5. y \in States
    BY <1>4, StateFlags
  <1>6. y.jsOffer /\ Mute(x, y)
    BY <1>4 DEF States, Mute, SameEvents
  <1>7. t = [x EXCEPT !.jsOffer = TRUE, !.restart = FALSE]
    OBVIOUS
  <1> HIDE DEF y
  <1>8. t \in States
    BY <1>5, StateFlags
  <1>9. t.jsOffer /\ Mute(y, t)
    BY <1>5, <1>6 DEF States, Mute, SameEvents
  <1>10. Await(u, "done")
    BY <1>2, <1>7
  <1> HIDE DEF t
  <1>11. Mute(s, t)
    BY <1>4, <1>6, <1>9, MuteSteps
  <1>12. Entering(s, u) /\ Entered(t, u, HLO)
    BY <1>1, <1>8, <1>11, LocalTelling, EnteringSteps, EnterStateKeeps, StateNames DEF Mute
  <1> HIDE DEF u
  <1>13. ~u.closed /\ Exempt(u) /\ u.sig # "stable"
    BY <1>1, <1>9, <1>11, <1>12, LocalTelling DEF Mute, Entered, Firm, Exempt, HLO
  <1> QED
    BY <1>1, <1>10, <1>12, <1>13, LocalTelling, EnteredTells

LEMMA SetLocalSyncTells == ASSUME Telling, SetLocalSync PROVE Announced'
  <1> DEFINE x == CommitAnswer(s, s.l)
             y == SyncSignalingState(x)
             u == AddPendingCandidates(y)
  <1>1. LocalWork("sync") /\ Await(u, "refresh")
    BY DEF SetLocalSync
  <1>2. /\ s \in States /\ Joint(s) /\ Phase(s) /\ ~s.closed
        /\ LocalPath(s, Task.desc, Task.type) = "sync"
    BY <1>1, LocalGiven DEF Telling
  <1>3. Task.type = s.l.type /\ Task.type # "offer" /\ s.pr = NoDesc
    BY <1>2 DEF LocalPath
  <1>4. NoDesc.type = "none" /\ {s.l, s.cl} \subseteq Descriptions
    BY <1>2, DescriptionTypes, StateFields
  <1>5. s.pl.type # "offer" /\ s.jsOffer = FALSE
    BY <1>2, <1>3, StateFields DEF Joint, Described, Restarts
  <1>6. s.pl.type = "none" /\ s.pr.type = "none" /\ s.sig = "stable"
    BY <1>2, <1>3, <1>4, <1>5 DEF Phase, Exchanges
  <1>7. Kept(s, x) /\ x \in States /\ Mute(s, x) /\ x.pl = NoDesc /\ x.pr = NoDesc
    BY <1>2, <1>4, CommitAnswerKeeps, MuteSteps DEF Kept, Firm
  <1> HIDE DEF x
  <1>8. Mute(x, y) /\ Alike(x, y) /\ y \in States /\ y.sig = "stable"
    <2>1. Synced(x) = "stable"
      BY <1>2, <1>4, <1>5, <1>7 DEF Synced, DescriptionSignalingState, Kept, Firm
    <2> QED
      BY <1>7, <2>1, MuteSteps, SyncAlike
  <1> HIDE DEF y
  <1>9. Flush(y, u)
    BY <1>8, AddPendingCandidatesKeeps
  <1> HIDE DEF u
  <1>10. Mute(s, u) /\ u.sig = "stable" /\ u.jsOffer = FALSE
         /\ u.pl.type = "none" /\ u.pr.type = "none"
    BY <1>4, <1>5, <1>7, <1>8, <1>9, MuteSteps
       DEF Flush, SameExchange, Alike, SameLocal, SameRemote, SameRestarts, Kept, Firm
  <1>11. Quiet(s, u)
    BY <1>5, <1>6, <1>10 DEF Quiet, Mute, SameEvents
  <1> QED
    BY <1>1, <1>11, <1>10, LocalTelling, QuietTold, AwaitTold DEF Mute, SameEvents

LEMMA SetLocalRefreshTells == ASSUME Telling, SetLocalRefresh PROVE Announced'
  <1>1. PICK complete \in BOOLEAN : Settle(RefreshAfterGatheringWindow(s, complete))
    BY DEF SetLocalRefresh
  <1> DEFINE u == RefreshAfterGatheringWindow(s, complete)
  <1>2. Describes /\ s \in States /\ Task.at = "refresh"
    BY DescribesFacts DEF SetLocalRefresh, DescriptionOps, SetOps, Telling, Given, At, Task
  <1>3. Corrects(s, u) /\ u \in States
    BY <1>2, RefreshCorrects
  <1>4. Settle(u)
    BY <1>1
  <1> HIDE DEF u
  <1>5. Told(u) /\ Restarting(u) /\ u.suppress = "none"
    BY <1>2, <1>3, CorrectsTold, NoneSuppressed, JoinedFacts
       DEF Telling, Announced, Corrects, SameEvents
  <1> QED
    BY <1>2, <1>3, <1>4, <1>5, Ends DEF Telling

LEMMA FinishTells == ASSUME Telling, Finish PROVE Announced'
  <1>1. PICK state : /\ Describes /\ s \in States /\ Settle(ClearSuppressed(s, state))
                     /\ \/ Task.at = "done" /\ state = Task.suppressed
                        \/ Task.at = "clear" /\ state = "stable"
    <2>1. \A op \in SetOps : op \in DescriptionOps
      BY DEF DescriptionOps
    <2>2. CASE \E op \in SetOps : At(op, "done") /\ Settle(ClearSuppressed(s, Task.suppressed))
      BY <2>1, <2>2, DescribesFacts DEF At, Task, Telling, Given
    <2>3. CASE \E op \in SetOps : At(op, "clear") /\ Settle(ClearSuppressed(s, "stable"))
      BY <2>1, <2>3, DescribesFacts DEF At, Task, Telling, Given
    <2> QED
      BY <2>2, <2>3 DEF Finish
  <1> DEFINE u == ClearSuppressed(s, state)
  <1>2. s.suppress \in {"none", state}
    BY <1>1, HeldByTask DEF Suppresses, Telling
  <1>3. u \in States /\ u.suppress = "none" /\ Quiet(s, u)
    BY <1>1, <1>2, ClearSuppressedKeeps, QuietSteps DEF Firm
  <1>4. Settle(u)
    BY <1>1
  <1> HIDE DEF u
  <1> QED
    BY <1>1, <1>3, <1>4, QuietTold, Ends DEF Telling, Announced

\* The native peer says what state it comes to.
Says(t, state) == \E i \in 1 .. Len(t.events) :
    t.events[i].type = "signalingstatechange" /\ t.events[i].state = state

\* Neither description of the native peer is its state.
LEMMA NativeDescriptions ==
    ASSUME NEW t \in States, NEW d \in Descriptions
    PROVE  /\ [t EXCEPT !.nl = d] \in States /\ [t EXCEPT !.nl = d].nsig = t.nsig
           /\ [t EXCEPT !.ncl = d] \in States /\ [t EXCEPT !.ncl = d].nsig = t.nsig
  <1>1. [t EXCEPT !.nl = d].nsig = t.nsig /\ [t EXCEPT !.ncl = d].nsig = t.nsig
    BY DEF States
  <1> QED
    BY <1>1, StateDescriptions

LEMMA NativeSays ==
    ASSUME NEW t \in States, NEW type \in {"offer", "answer"},
           NEW state, state = (IF type = "offer" THEN HLO ELSE "stable"), t.nsig # state
    PROVE  Says(NativeSetLocal(t, type), state)
  <1> DEFINE d == Local(type, TRUE)
             e == EnsureNative(t)
             c == IF type = "answer" THEN d ELSE t.ncl
             x == [e EXCEPT !.nl = d]
             n == [x EXCEPT !.ncl = c]
             m == Emit(n, DescriptionEvent(d))
             y == [m EXCEPT !.nsig = state]
             u == Emit(y, StateEvent(state))
  <1>1. d \in Descriptions /\ c \in Descriptions
    BY DescriptionTypes, StateFields
  <1>2. e \in States /\ e.nsig = t.nsig
    BY EnsureNativeKeeps
  <1>3. NativeSetLocal(t, type) = NativeState(m, state)
    <2>1. n = [e EXCEPT !.nl = d, !.ncl = c]
      OBVIOUS
    <2> QED
      BY <2>1, Zenon DEF NativeSetLocal
  <1>4. state \in NativeStates /\ DescriptionEvent(d) \in Events /\ StateEvent(state) \in Events
    BY <1>1, StatesNamed, EventTypes
  <1> HIDE DEF d, e, c
  <1>5. x \in States /\ x.nsig = e.nsig
    BY <1>1, <1>2, NativeDescriptions
  <1> HIDE DEF x
  <1>6. n \in States /\ n.nsig = e.nsig
    BY <1>1, <1>5, NativeDescriptions
  <1> HIDE DEF n
  <1>7. m \in States /\ m.nsig = e.nsig
    BY <1>4, <1>6, EmitKeeps DEF NativeStep
  <1> HIDE DEF m
  <1>8. y \in States
    BY <1>4, <1>7, StateValues
  <1>9. NativeState(m, state) = u
    BY <1>2, <1>7, Zenon DEF NativeState
  <1> HIDE DEF y
  <1>10. u.events = Append(y.events, StateEvent(state))
    BY <1>8 DEF Emit, States
  <1>11. y.events \in Seq(Events)
    BY <1>8, StateFields DEF Queues
  <1>12. Len(u.events) \in 1 .. Len(u.events) /\ u.events[Len(u.events)] = StateEvent(state)
    BY <1>4, <1>10, <1>11
  <1> QED
    BY <1>3, <1>9, <1>12 DEF Says, StateEvent

LEMMA SaysComing ==
    ASSUME NEW t, NEW u, NEW state, Says(t, state), u.events = t.events, u.suppress = "none",
           u.sig = state
    PROVE  Coming(u)
  BY DEF Says, Coming

LEMMA SetLocalNativeTells == ASSUME Telling, SetLocalNative PROVE Announced'
  <1> DEFINE n == NativeSetLocal(s, Task.type)
             p == SetPendingLocal(n, n.nl)
             q == [p EXCEPT !.restart = FALSE]
             c == CommitAnswer(n, n.nl)
             u == SyncSignalingState(q)
             y == SyncSignalingState(c)
             v == AddPendingCandidates(y)
  <1>1. LocalWork("native")
    BY DEF SetLocalNative
  <1>2. \/ Task.type = "offer" /\ Await(u, "refresh")
        \/ Task.type = "answer" /\ Await(v, "refresh")
    BY Zenon DEF SetLocalNative
  <1>3. NativeAcceptsLocal(s, Task.type)
    BY <1>1 DEF LocalWork, LocalPath
  <1>4. s.nsig # IF Task.type = "offer" THEN HLO ELSE "stable"
    BY <1>2, <1>3 DEF NativeAcceptsLocal, HLO, HRO
  <1>5. /\ n \in States /\ n.nl \in Descriptions /\ SameEvents(s, n) /\ n.closed = s.closed
        /\ Says(n, IF Task.type = "offer" THEN HLO ELSE "stable")
    <2>1. NativeStep(s, n)
      BY <1>1, <1>2, LocalTelling, NativeSetLocalKeeps
    <2>2. Says(n, IF Task.type = "offer" THEN HLO ELSE "stable")
      BY <1>1, <1>2, <1>4, LocalTelling, NativeSays
    <2> HIDE DEF n
    <2> QED
      BY <2>1, <2>2, StateFields DEF NativeStep, SameExchange, SameEvents
  <1> HIDE DEF n
  <1>6. p \in States /\ Mute(n, p) /\ c \in States /\ Mute(n, c)
    <2>1. Kept(n, p) /\ Kept(n, c)
      BY <1>5, SetPendingKeeps, CommitAnswerKeeps
    <2> HIDE DEF p, c
    <2> QED
      BY <2>1, MuteSteps DEF Kept, Firm
  <1> HIDE DEF p, c
  <1>7. q \in States /\ Mute(p, q)
    <2>1. q \in States
      BY <1>6, StateFlags
    <2> QED
      BY <1>6, <2>1 DEF States, Mute, SameEvents
  <1> HIDE DEF q
  <1>8. Mute(q, u) /\ Mute(c, y) /\ y \in States
    BY <1>6, <1>7, SyncAlike, MuteSteps
  <1> HIDE DEF u, y
  <1>9. Mute(y, v)
    BY <1>8, AddPendingCandidatesKeeps, MuteSteps
  <1> HIDE DEF v
  <1>10. Mute(n, u) /\ Mute(n, v)
    BY <1>6, <1>7, <1>8, <1>9, MuteSteps
  <1>11. ASSUME NEW w, Mute(n, w), Await(w, "refresh"), Task.type \in {"offer", "answer"}
         PROVE  Announced'
    <2>1. w.suppress = "none" /\ ~w.closed /\ w.events = n.events
      BY <1>1, <1>5, <1>11, LocalTelling DEF Mute, SameEvents
    <2>2. Achieved(w, Task) => /\ w.sig = IF Task.type = "offer" THEN HLO ELSE "stable"
                               /\ Restarting(w)
      BY <1>1, <1>11, LocalTelling DEF Achieved, Idle, Restarting, HLO
    <2>3. Achieved(w, Task) => Told(w)
      BY <1>5, <2>1, <2>2, SaysComing DEF Told
    <2> QED
      BY <1>1, <1>11, <2>1, <2>2, <2>3, LocalTelling, AwaitTold
  <1> QED
    BY <1>2, <1>10, <1>11

\* createOffer and createAnswer
LEMMA CreateTells ==
    ASSUME Telling, Describes, Task.op \notin SetOps, NEW u \in States, Quiet(s, u),
           Settle(u) \/ Reject(u)
    PROVE  Announced'
  <1>1. s.suppress = "none"
    BY HeldByTask DEF Suppresses, Telling
  <1> QED
    BY <1>1, QuietTold, Ends DEF Telling, Announced, Quiet

LEMMA CreateOfferTells == ASSUME Telling, CreateOffer PROVE Announced'
  <1> DEFINE e == EnsureNative(s)
             r == s.restart \/ Task.restart
             t == [e EXCEPT !.restart = r]
             b == t.restart /\ ~CanApplyNativeIceCredentials(s)
             n == NativeOffer(s)
             d == [n EXCEPT !.restart = b]
             u == [t EXCEPT !.lastOffer = d]
  <1>1. /\ At("createOffer", "work")
        /\ IF s.native = "handed" THEN Reject(t) ELSE Settle(u)
    BY Zenon DEF CreateOffer
  <1>2. Describes /\ s \in States /\ Created(s) /\ Task.op \notin SetOps
    BY <1>1, DescribesFacts DEF DescriptionOps, Telling, Given, At, Task, SetOps
  <1>3. Quiet(s, e) /\ e \in States
    BY <1>2, EnsureNativeKeeps, EnsureNativeStep, QuietSteps
  <1> HIDE DEF e
  <1>4. r \in BOOLEAN /\ b \in BOOLEAN
    OBVIOUS
  <1> HIDE DEF r
  <1>5. t \in States /\ Quiet(s, t)
    <2>1. t \in States
      BY <1>3, <1>4, StateFlags
    <2> QED
      BY <1>3, <2>1 DEF States, Quiet
  <1> HIDE DEF t, b
  <1>6. n \in Descriptions
    BY <1>2, ImplicitTyped
  <1> HIDE DEF n
  <1>7. d \in Descriptions
    BY <1>4, <1>6, DescriptionOperators
  <1> HIDE DEF d
  <1>8. u \in States /\ Quiet(s, u)
    <2>1. u \in States
      BY <1>5, <1>7, StateDescriptions
    <2> QED
      BY <1>5, <2>1 DEF States, Quiet
  <1> HIDE DEF u
  <1> QED
    BY <1>1, <1>2, <1>5, <1>8, CreateTells

LEMMA CreateAnswerTells == ASSUME Telling, CreateAnswer PROVE Announced'
  <1> DEFINE r == RemoteDescription(s)
             o == Local("answer", r.data)
             d == [o EXCEPT !.restart = s.jsRemote]
             e == EnsureNative(s)
             u == [s EXCEPT !.lastAnswer = d]
             v == [e EXCEPT !.lastAnswer = d]
  <1>1. /\ At("createAnswer", "work")
        /\ Settle(u) \/ Settle(v) \/ Reject(e)
    BY Zenon DEF CreateAnswer
  <1>2. Describes /\ s \in States /\ Created(s) /\ Task.op \notin SetOps
    BY <1>1, DescribesFacts DEF DescriptionOps, Telling, Given, At, Task, SetOps
  <1>3. Quiet(s, e) /\ e \in States
    BY <1>2, EnsureNativeKeeps, EnsureNativeStep, QuietSteps
  <1> HIDE DEF e
  <1>4. o \in Descriptions /\ s.jsRemote \in BOOLEAN
    BY <1>2, ImplicitTyped, DescriptionTypes, StateFields
  <1> HIDE DEF o
  <1>5. d \in Descriptions
    BY <1>4, DescriptionOperators
  <1> HIDE DEF d
  <1>6. u \in States /\ Quiet(s, u)
    <2>1. u \in States
      BY <1>2, <1>5, StateDescriptions
    <2> QED
      BY <1>2, <2>1 DEF States, Quiet
  <1>7. v \in States /\ Quiet(s, v)
    <2>1. v \in States
      BY <1>3, <1>5, StateDescriptions
    <2> QED
      BY <1>3, <2>1 DEF States, Quiet
  <1> HIDE DEF u, v
  <1> QED
    BY <1>1, <1>2, <1>3, <1>6, <1>7, CreateTells

-----------------------------------------------------------------------------
\* setRemoteDescription
LEMMA RemoteTelling ==
    ASSUME Telling, NEW path, RemoteWork(path)
    PROVE  /\ Describes /\ Task \in Tasks /\ Task.op = "setRemote" /\ Task.op \in SetOps
           /\ s \in States /\ Now \in States /\ Quiet(s, Now) /\ Now.suppress = "none"
           /\ Told(Now) /\ Restarting(Now) /\ Phase(Now) /\ (path # "closed" => ~Now.closed)
           /\ Task.type = Task.desc.type /\ Task.desc \in Descriptions /\ Task.here \in BOOLEAN
           /\ (Task.at = "work" => Now = s)
  <1>1. /\ Describes /\ Task \in Tasks /\ Task.desc \in Descriptions
        /\ Task.op = "setRemote" /\ Task.type = Task.desc.type
        /\ Task.here \in BOOLEAN /\ Task.at \in {"work", "rolledBack"}
        /\ s \in States /\ Now \in States /\ Now.pl = s.pl /\ Now.pr = s.pr
        /\ Now.sig = s.sig /\ Basic(s, Now)
        /\ Task.at = "work" => Now = s
        /\ path # "closed" => ~s.closed
    BY RemoteWorkFacts DEF Telling, Given
  <1>2. s.suppress = "none" \/ Suppresses(Task, s.suppress)
    BY <1>1, HeldByTask DEF Telling
  <1>3. Quiet(s, Now) /\ Now.suppress = "none"
    <2>1. CASE Task.at = "work"
      BY <1>1, <1>2, <2>1 DEF Quiet, Suppresses
    <2>2. CASE Task.at = "rolledBack"
      <3>1. Now = ClearSuppressed(s, "stable")
        BY <2>2 DEF Now
      <3>2. Now.suppress = IF s.suppress = "stable" THEN "none" ELSE s.suppress
        BY <1>1, <3>1, ClearSuppressedKeeps
      <3>3. s.suppress \in {"none", "stable"}
        BY <1>2, <2>2 DEF Suppresses
      <3> QED
        BY <1>1, <3>1, <3>2, <3>3, QuietSteps
    <2> QED
      BY <1>1, <2>1, <2>2
  <1>4. Told(Now) /\ Restarting(Now)
    BY <1>3, QuietTold DEF Telling, Announced
  <1>5. Phase(Now)
    BY <1>1, JoinedFacts, SamePhase DEF Telling
  <1>6. path # "closed" => ~Now.closed
    BY <1>1, <1>3 DEF Quiet
  <1> QED
    BY <1>1, <1>3, <1>4, <1>5, <1>6 DEF SetOps

LEMMA SetRemoteRejectedTells ==
    ASSUME Telling, SetRemoteClosed \/ SetRemoteInvalid PROVE Announced'
  <1>1. Reject(Now) /\ \E path : RemoteWork(path)
    BY DEF SetRemoteClosed, SetRemoteInvalid
  <1> QED
    BY <1>1, RemoteTelling, Ends DEF Telling

LEMMA SetRemotePranswerTells == ASSUME Telling, SetRemotePranswer PROVE Announced'
  <1> DEFINE p == SetPendingRemote(s, Task.desc)
             x == Pair(p, Task.here)
             u == EnterState(x, HRP, s.sig)
  <1>1. RemoteWork("pranswer") /\ Await(u, "done")
    BY DEF SetRemotePranswer
  <1>2. Now = s /\ Task.type = "pranswer"
    BY <1>1, RemoteWorkFacts DEF Telling, Given
  <1>3. Kept(s, p) /\ p.pr = Task.desc /\ p \in States
    BY <1>1, RemoteTelling, SetPendingKeeps DEF Kept, Firm
  <1> HIDE DEF p
  <1>4. x \in States /\ SameEvents(p, x) /\ SameExchange(p, x) /\ x.events = p.events
    BY <1>1, <1>3, RemoteTelling, PairKeeps DEF SameNative
  <1> HIDE DEF x
  <1>5. Firm(x, u) /\ SameRemote(x, u) /\ u.sig = HRP /\ Entering(s, u)
    <2>1. SameEvents(s, x) /\ x.events = s.events
      BY <1>3, <1>4 DEF Kept, Firm, SameNative, SameEvents
    <2> QED
      BY <1>1, <1>4, <2>1, RemoteTelling, EnterKeeps, EnteringSteps, StateNames
  <1> HIDE DEF u
  <1>6. ~u.closed /\ Exempt(u) /\ u.sig # "stable"
    BY <1>1, <1>2, <1>3, <1>4, <1>5, RemoteTelling
       DEF Kept, Firm, SameRemote, SameExchange, Exempt, HRP
  <1> QED
    BY <1>1, <1>2, <1>5, <1>6, RemoteTelling, EnteredTells

LEMMA SetRemoteRollbackLocalTells == ASSUME Telling, SetRemoteRollbackLocal PROVE Announced'
  <1> DEFINE u == RollbackLocalOffer(s)
             n == [Task EXCEPT !.at = "rolledBack"]
  <1>1. RemoteWork("rollbackLocal") /\ AwaitAs(u, n)
    BY DEF SetRemoteRollbackLocal, Await
  <1>2. Task.at = "work" /\ Task.type = "offer" /\ s.sig \in {HLO, HRP} /\ Now = s
    BY <1>1, RemoteWorkFacts DEF Telling, Given
  <1>3. Upcoming(s, Task)
    BY <1>1, <1>2, RemoteGiven DEF Telling
  <1>4. s.jsOffer = FALSE
    BY <1>1, <1>2, <1>3, RemoteTelling, StateFields DEF Upcoming, NoPranswer
  <1>5. /\ u.sig = "stable" /\ u.dispatched = "stable" /\ u.suppress \in {"none", "stable"}
        /\ u.jsOffer = FALSE
    BY <1>1, <1>2, <1>4, RemoteTelling, RollbackLocalOfferKeeps DEF HLO, HRP, Basic
  <1> HIDE DEF u
  <1>6. /\ n \in Tasks /\ n.op = "setRemote" /\ n.at = "rolledBack"
    BY <1>1, <1>2, RemoteTelling, RolledBackTyped
  <1> HIDE DEF n
  <1>7. Watched(u, n) /\ (u.suppress = "none" \/ Suppresses(n, u.suppress))
    BY <1>5, <1>6 DEF Watched, Suppresses, AnswerStages, SetOps
  <1>8. Told(u) /\ Restarting(u)
    BY <1>5 DEF Told, Restarting
  <1> QED
    BY <1>1, <1>6, <1>7, <1>8, RemoteTelling, GoesOn DEF Telling

LEMMA RollbackRemoteSays ==
    ASSUME NEW t \in States, NEW n,
           n = (IF t.r.data THEN NativeRollbackRemote([t EXCEPT !.suppress = "stable"])
                ELSE t),
           NEW u,
           u = EnterState([RollbackRemote(n) EXCEPT !.paired = "none"], "stable", t.sig)
    PROVE  /\ u.suppress \in {t.suppress, "stable"}
           /\ t.sig # "stable" => u.dispatched = "stable"
  <1> DEFINE x == [t EXCEPT !.suppress = "stable"]
             y == NativeRollbackRemote(x)
             r == RollbackRemote(n)
             p == [r EXCEPT !.paired = "none"]
  <1>1. x \in States /\ x.suppress = "stable"
    BY StateValues, StatesNamed DEF States
  <1>2. n = IF t.r.data THEN y ELSE t
    OBVIOUS
  <1>3. u = EnterState(p, "stable", t.sig)
    OBVIOUS
  <1> HIDE DEF x
  <1>4. y \in States /\ y.suppress = "stable"
    BY <1>1, NativeRollbackRemoteKeeps DEF NativeStep
  <1> HIDE DEF y
  <1>5. r \in States /\ r.suppress \in {t.suppress, "stable"}
    BY <1>2, <1>4, RollbackKeeps DEF Kept, Firm, SameEvents
  <1> HIDE DEF r
  <1>6. p \in States
    BY <1>5, StateValues DEF PairedStates
  <1>7. p.suppress = r.suppress
    BY <1>5 DEF States
  <1> HIDE DEF p
  <1> QED
    BY <1>3, <1>5, <1>6, <1>7, EnterKeeps, StateNames

LEMMA SetRemoteRollbackTells == ASSUME Telling, SetRemoteRollback PROVE Announced'
  <1> DEFINE n == IF s.r.data THEN NativeRollbackRemote([s EXCEPT !.suppress = "stable"])
                  ELSE s
             u == EnterState([RollbackRemote(n) EXCEPT !.paired = "none"], "stable", s.sig)
  <1>1. RemoteWork("rollback") /\ Await(u, "clear")
    BY Zenon DEF SetRemoteRollback
  <1>2. Task.at = "work" /\ Task.type = "rollback" /\ s.sig = HRO /\ Now = s
    BY <1>1, RemoteWorkFacts DEF Telling, Given, InvalidRemote
  <1>3. u.sig = "stable" /\ u.paired = "none"
    BY <1>1, RemoteTelling, RollbackRemoteEffect
  <1>4. u.dispatched = "stable" /\ u.suppress \in {"none", "stable"}
    BY <1>1, <1>2, RemoteTelling, RollbackRemoteSays DEF HRO
  <1> HIDE DEF u
  <1>5. u.closed \/ Achieved(u, Task) => Told(u) /\ Restarting(u)
    BY <1>2, <1>3, <1>4 DEF Achieved, Idle, Told, Restarting
  <1> QED
    BY <1>1, <1>3, <1>4, <1>5, RemoteTelling, AwaitTold

LEMMA PairMute ==
    ASSUME NEW t \in States, NEW here \in BOOLEAN
    PROVE  Pair(t, here) \in States /\ Mute(t, Pair(t, here)) /\ Pair(t, here).sig = t.sig
  <1> DEFINE u == Pair(t, here)
  <1>1. u \in States /\ SameExchange(t, u) /\ SameEvents(t, u) /\ SameNative(t, u)
    BY PairKeeps
  <1> HIDE DEF u
  <1>2. u \in States /\ Mute(t, u) /\ u.sig = t.sig
    BY <1>1 DEF Mute, SameExchange, SameNative
  <1> QED
    BY <1>2 DEF u

\* A remote offer is set, with or without the native peer.
LEMMA RemoteOfferTells ==
    ASSUME Telling, NEW path, RemoteWork(path), Task.type = "offer",
           path \in {"restartOffer", "dataOnlyOffer", "replace", "offer", "noMedia"},
           NEW u, Entering(Now, u), u.closed = Now.closed, Await(u, "done")
    PROVE  Announced'
  <1>1. ~Exempt(Now)
    BY RemoteOfferGiven DEF Telling, Exempt, HRO
  <1> QED
    BY <1>1, RemoteTelling, EnteredTells

LEMMA SetRemoteRestartOfferTells == ASSUME Telling, SetRemoteRestartOffer PROVE Announced'
  <1> DEFINE d == MarkRestart(Task.desc)
             p == SetPendingRemote(Now, d)
             t == Pair(p, Task.here)
             x == [t EXCEPT !.jsRemote = TRUE]
             u == EnterState(x, HRO, Now.sig)
  <1>1. RemoteWork("restartOffer") /\ Await(u, "done")
    BY Zenon DEF SetRemoteRestartOffer
  <1>2. Task.type = "offer" /\ d \in Descriptions
    BY <1>1, RemoteTelling, RemoteWorkFacts, DescriptionOperators DEF Telling, Given
  <1> HIDE DEF d
  <1>3. Kept(Now, p) /\ p \in States
    BY <1>1, <1>2, RemoteTelling, SetPendingKeeps DEF Kept, Firm
  <1> HIDE DEF p
  <1>4. Mute(Now, p) /\ t \in States /\ Mute(p, t)
    BY <1>1, <1>3, RemoteTelling, MuteSteps, PairMute
  <1> HIDE DEF t
  <1>5. x \in States /\ Mute(t, x)
    <2>1. x \in States
      BY <1>4, StateFlags
    <2> QED
      BY <1>4, <2>1 DEF States, Mute, SameEvents
  <1> HIDE DEF x
  <1>6. Mute(Now, x)
    BY <1>4, <1>5, MuteSteps
  <1>7. Entering(Now, u) /\ Firm(x, u)
    BY <1>1, <1>5, <1>6, RemoteTelling, EnteringSteps, EnterKeeps, StateNames DEF Mute
  <1> HIDE DEF u
  <1> QED
    BY <1>1, <1>2, <1>6, <1>7, RemoteOfferTells DEF Mute, Firm

LEMMA SetRemoteDataOnlyOfferTells == ASSUME Telling, SetRemoteDataOnlyOffer PROVE Announced'
  <1> DEFINE p == SetPendingRemote(Now, Task.desc)
             x == Pair(p, Task.here)
             u == DispatchIfChanged(SyncSignalingState(x), Now.sig)
  <1>1. RemoteWork("dataOnlyOffer") /\ Await(u, "done")
    BY Zenon DEF SetRemoteDataOnlyOffer
  <1>2. Task.type = "offer"
    BY <1>1, RemoteWorkFacts DEF Telling, Given
  <1>3. Kept(Now, p) /\ p \in States
    BY <1>1, RemoteTelling, SetPendingKeeps DEF Kept, Firm
  <1> HIDE DEF p
  <1>4. Mute(Now, p) /\ x \in States /\ Mute(p, x)
    BY <1>1, <1>3, RemoteTelling, MuteSteps, PairMute
  <1> HIDE DEF x
  <1>5. Mute(Now, x)
    BY <1>4, MuteSteps
  <1>6. Entering(Now, u) /\ Alike(x, u)
    BY <1>1, <1>4, <1>5, RemoteTelling, EnteringSteps, SyncAlike DEF Mute
  <1> HIDE DEF u
  <1> QED
    BY <1>1, <1>2, <1>5, <1>6, RemoteOfferTells DEF Mute, Alike, SameMade

LEMMA SetRemoteReplaceTells == ASSUME Telling, SetRemoteReplace PROVE Announced'
  <1> DEFINE p == SetPendingRemote(Now, Task.desc)
             u == Pair(p, Task.here)
  <1>1. RemoteWork("replace") /\ Await(u, "done")
    BY Zenon DEF SetRemoteReplace
  <1>2. Task.type = "offer"
    BY <1>1, RemoteWorkFacts DEF Telling, Given
  <1>3. Kept(Now, p) /\ p \in States /\ p.sig = Now.sig
    BY <1>1, RemoteTelling, SetPendingKeeps DEF Kept, Firm
  <1> HIDE DEF p
  <1>4. Mute(Now, p) /\ Mute(p, u) /\ u.sig = Now.sig
    BY <1>1, <1>3, RemoteTelling, MuteSteps, PairMute
  <1> HIDE DEF u
  <1>5. Entering(Now, u) /\ u.closed = Now.closed
    BY <1>4 DEF Mute, SameEvents, Entering
  <1> QED
    BY <1>1, <1>2, <1>5, RemoteOfferTells

LEMMA SetRemoteNoMediaTells == ASSUME Telling, SetRemoteNoMedia PROVE Announced'
  <1> DEFINE a == RollbackLocal(Now)
             p == SetPendingRemote(a, Task.desc)
             c == CommitRemoteAnswer(Now, Task.desc)
             y == [p EXCEPT !.sig = HRO]
             z == [c EXCEPT !.sig = "stable"]
  <1>1. RemoteWork("noMedia")
    BY DEF SetRemoteNoMedia
  <1>2. \/ Task.type = "offer" /\ Await(Dispatch(Pair(y, Task.here)), "done")
        \/ Task.type # "offer" /\ Await(Dispatch(Pair(z, Task.here)), "done")
    BY Zenon DEF SetRemoteNoMedia, CommitRemoteAnswer
  <1>3. Task.type \in {"offer", "answer"}
    BY <1>1, NoMediaGiven DEF Telling
  <1>4. Kept(Now, a) /\ a \in States /\ Kept(Now, c)
    BY <1>1, RemoteTelling, RollbackKeeps, CommitAnswerKeeps DEF Kept, Firm
  <1> HIDE DEF a, c
  <1>5. Kept(a, p)
    BY <1>1, <1>4, RemoteTelling, SetPendingKeeps
  <1> HIDE DEF p
  <1>6. Kept(Now, p)
    BY <1>4, <1>5, KeptTwice
  <1>7. ASSUME NEW q, Kept(Now, q), NEW state \in SignalingStates,
               Await(Dispatch(Pair([q EXCEPT !.sig = state], Task.here)), "done")
        PROVE  Announced'
    <2> DEFINE e == [q EXCEPT !.sig = state]
               x == Pair(e, Task.here)
               u == Dispatch(x)
    <2>1. Mute(Now, q) /\ Firm(q, e) /\ SameEvents(q, e) /\ e \in States
      <3>1. Mute(Now, q) /\ q \in States
        BY <1>7, MuteSteps DEF Kept, Firm
      <3>2. Entered(q, e, state)
        BY <1>7, <3>1, SigKeeps
      <3>3. e.dispatched = q.dispatched
        BY <3>1 DEF States
      <3> HIDE DEF e
      <3> QED
        BY <3>1, <3>2, <3>3 DEF Entered, Firm, SameEvents
    <2> HIDE DEF e
    <2>2. Mute(q, e) /\ x \in States /\ Mute(e, x)
      BY <1>1, <2>1, RemoteTelling, PairMute DEF Mute, Firm, SameNative
    <2> HIDE DEF x
    <2>3. Mute(Now, x)
      BY <2>1, <2>2, MuteSteps
    <2>4. Entering(Now, u) /\ Firm(x, u)
      BY <1>1, <2>2, <2>3, RemoteTelling, EnteringSteps, EnterKeeps, StateNames DEF Mute
    <2>5. Await(u, "done")
      BY <1>7 DEF x, e
    <2> HIDE DEF u
    <2>6. u.closed = Now.closed
      BY <2>3, <2>4 DEF Mute, Firm
    <2>7. CASE Task.type = "offer"
      BY <1>1, <2>4, <2>5, <2>6, <2>7, RemoteOfferTells
    <2>8. CASE Task.type = "answer"
      BY <1>1, <2>4, <2>5, <2>6, <2>8, RemoteTelling, EnteredTells
    <2> QED
      BY <1>3, <2>7, <2>8
  <1> QED
    BY <1>2, <1>4, <1>6, <1>7, StateNames

\* The new state is announced in the place of the native event, which is suppressed.
LEMMA AnnounceSays ==
    ASSUME NEW t \in States, NEW before, t.sig # before
    PROVE  LET u == Announce(t, before)
           IN  /\ u \in States /\ u.sig = t.sig /\ u.dispatched = t.sig /\ u.suppress = t.sig
               /\ u.closed = t.closed
  <1> DEFINE x == [t EXCEPT !.suppress = t.sig]
             u == Dispatch(x)
  <1>1. Announce(t, before) = u
    BY DEF Announce
  <1>2. t.sig \in SigNames
    BY StateFields, StatesNamed
  <1>3. x \in States
    BY <1>2, StateValues
  <1>4. x.suppress = t.sig /\ x.sig = t.sig /\ x.closed = t.closed
    BY DEF States
  <1> HIDE DEF x
  <1>5. u \in States /\ u.sig = t.sig /\ u.dispatched = t.sig /\ u.suppress = t.sig
        /\ u.closed = t.closed
    BY <1>3, <1>4, EnterKeeps, StateNames DEF Firm
  <1> QED
    BY <1>1, <1>5

LEMMA AnnouncedTells ==
    ASSUME Telling, Describes, Task.op = "setRemote", Task \in Tasks,
           Task.type \in {"offer", "answer"}, NEW u \in States, u.dispatched = u.sig,
           u.suppress = u.sig, ~u.closed, NEW before, u.sig # before, AwaitSuppressed(u, before)
    PROVE  Announced'
  <1> DEFINE n == [Task EXCEPT !.at = "done", !.suppressed = u.sig]
  <1>1. AwaitAs(u, n)
    BY DEF AwaitSuppressed
  <1>2. Staged(Task, n, "done")
    BY StageTyped, StateFields, StatesNamed
  <1>3. n.suppressed = u.sig
    BY DEF Tasks, TaskRecords
  <1> HIDE DEF n
  <1>4. n \in Tasks /\ n.op = "setRemote" /\ n.at = "done"
    BY <1>2 DEF Staged
  <1>5. Achieved(u, Task)
    BY <1>1, <1>2, <1>4, StageAchieved DEF SetOps
  <1>6. Told(u) /\ Restarting(u)
    BY <1>5 DEF Told, Restarting, Achieved, Idle
  <1>7. Watched(u, n) /\ Suppresses(n, u.suppress)
    BY <1>3, <1>4 DEF Watched, Suppresses, AnswerStages, SetOps
  <1> QED
    BY <1>1, <1>4, <1>6, <1>7, GoesOn DEF Telling

LEMMA SetRemoteOfferTells == ASSUME Telling, SetRemoteOffer PROVE Announced'
  <1>1. RemoteWork("offer")
    BY DEF SetRemoteOffer
  <1>2. Task.type = "offer" /\ Now.sig # HRO
    BY <1>1, RemoteTelling, RemoteWorkFacts DEF Telling, Given, RemoteWork, RemotePath
  <1>3. Now.sig = "stable"
    BY <1>1, <1>2, RemoteOfferGiven DEF Telling
  <1>4. CASE Reject(EnsureNative(Now))
    <2>1. Quiet(Now, EnsureNative(Now)) /\ EnsureNative(Now) \in States
          /\ EnsureNative(Now).suppress = Now.suppress
      BY <1>1, RemoteTelling, EnsureNativeKeeps, EnsureNativeStep, QuietSteps
    <2> QED
      BY <1>1, <1>4, <2>1, RemoteTelling, QuietTold, Ends DEF Telling
  <1>5. ASSUME NEW inline \in SUBSET {"inline"},
               LET n == [NativeSetRemote(Now, Task.desc) EXCEPT !.queued = @ \cup inline]
                   t == SyncSignalingState(SetPendingRemote(
                            RollbackLocal(Pair(n, Task.here)), Task.desc))
               IN  AwaitSuppressed(Announce(t, Now.sig), Now.sig)
        PROVE  Announced'
    <2> DEFINE m == NativeSetRemote(Now, Task.desc)
               q == m.queued \cup inline
               n == [m EXCEPT !.queued = q]
               x == Pair(n, Task.here)
               y == RollbackLocal(x)
               z == SetPendingRemote(y, Task.desc)
               t == SyncSignalingState(z)
               u == Announce(t, Now.sig)
    <2>1. NativeStep(Now, m)
      BY <1>1, RemoteTelling, NativeSetRemoteKeeps
    <2>2. [m EXCEPT !.queued = @ \cup inline] = n
      OBVIOUS
    <2>3. AwaitSuppressed(u, Now.sig)
      BY <1>5, <2>2
    <2> HIDE DEF m
    <2>4. m \in States /\ m.closed = Now.closed /\ q \in Candidates
      BY <2>1, StateFields DEF NativeStep, SameExchange, Candidates
    <2>5. n \in States /\ n.closed = m.closed
      <3> HIDE DEF q
      <3>1. n \in States
        BY <2>4, StateValues
      <3> QED
        BY <2>4, <3>1 DEF States
    <2> HIDE DEF n
    <2>6. x \in States /\ x.closed = n.closed
      BY <1>1, <2>5, RemoteTelling, PairMute DEF Mute
    <2> HIDE DEF x
    <2>7. y \in States /\ y.closed = x.closed
      BY <2>6, RollbackKeeps DEF Kept, Firm
    <2> HIDE DEF y
    <2>8. /\ z \in States /\ z.closed = y.closed /\ z.pr = Task.desc
      BY <1>1, <2>7, RemoteTelling, SetPendingKeeps DEF Kept, Firm
    <2> HIDE DEF z
    <2>9. t \in States /\ t.closed = z.closed /\ t.sig = Synced(z)
      BY <2>8, SyncAlike DEF Alike, SameMade
    <2>10. ~t.closed /\ t.sig # "stable"
      <3>1. ~Now.closed /\ Task.desc.type = "offer"
        BY <1>1, <1>2, RemoteTelling
      <3>2. ~z.closed /\ ~t.closed
        BY <3>1, <2>4, <2>5, <2>6, <2>7, <2>8, <2>9
      <3> QED
        BY <3>1, <3>2, <2>8, <2>9 DEF Synced, DescriptionSignalingState, HLO, HRO
    <2> HIDE DEF t
    <2>11. /\ u \in States /\ u.sig = t.sig /\ u.dispatched = t.sig /\ u.suppress = t.sig
           /\ ~u.closed
      BY <1>3, <2>9, <2>10, AnnounceSays
    <2> HIDE DEF u
    <2> QED
      BY <1>1, <1>2, <1>3, <2>3, <2>10, <2>11, RemoteTelling, AnnouncedTells
  <1> QED
    BY <1>4, <1>5 DEF SetRemoteOffer

\* An answer finds a state that is not stable, or found one before it waited.
LEMMA PendingAnswer ==
    ASSUME Telling, NEW path \in AnswerStages, RemoteWork(path)
    PROVE  s.sig \notin {"stable", "closed"} /\ ~s.closed
  <1>1. path # "closed"
    BY DEF AnswerStages
  <1>2. Now = s /\ s.pl.type = "offer"
    BY AnswerWorkGiven DEF Telling
  <1>3. ~s.closed /\ Phase(s) /\ Restarting(s)
    BY <1>1, <1>2, RemoteTelling
  <1> QED
    BY <1>2, <1>3 DEF Phase, Exchanges, Restarting, HLO, HRP

LEMMA AnswerTelling ==
    ASSUME Telling, NEW path \in AnswerStages, RemoteAnswer(path)
    PROVE  /\ Describes /\ Task \in Tasks /\ Task.op = "setRemote" /\ Task.op \in SetOps
           /\ s \in States /\ s.suppress = "none" /\ Told(s) /\ Restarting(s) /\ Phase(s)
           /\ Task.type = "answer" /\ Task.desc \in Descriptions /\ Task.here \in BOOLEAN
           /\ Before \notin {"stable", "closed"}
  <1>1. /\ Describes /\ Task.op = "setRemote" /\ Task.desc \in Descriptions
        /\ Task.type = "answer" /\ Task.here \in BOOLEAN /\ s \in States /\ Phase(s)
    BY RemoteAnswerGiven DEF Telling
  <1>2. Task \in Tasks
    BY RemoteAnswerFacts DEF Telling, Given, AnswerStages
  <1>3. CASE RemoteWork(path)
    <2>1. Task.at = "work"
      BY <1>1, <1>3, RemoteGiven DEF Telling, AnswerStages
    <2>2. Before = s.sig
      BY <2>1 DEF Before
    <2> QED
      BY <1>1, <1>2, <1>3, <2>1, <2>2, PendingAnswer, NoneSuppressed
         DEF Telling, Announced, SetOps
  <1>4. CASE At("setRemote", path)
    <2>1. Task.at = path /\ Task.at # "work"
      BY <1>4 DEF At, Task, AnswerStages
    <2>2. Ready /\ Sound
      BY <1>1, JoinedFacts DEF Describes, Telling
    <2>3. Task = tasks[1] /\ 1 \in 1 .. Len(tasks)
      BY <2>2, Front DEF Ready, Task, Sound, Typed
    <2>4. Watched(s, Task)
      BY <2>3 DEF Telling, Announced
    <2> QED
      BY <1>1, <1>2, <2>1, <2>4, NoneSuppressed DEF Telling, Announced, SetOps, Watched, Before
  <1> QED
    BY <1>3, <1>4 DEF RemoteAnswer

LEMMA AwaitAnswererTells == ASSUME Telling, AwaitAnswerer PROVE Announced'
  <1>1. PICK path \in AnswerStages :
            /\ RemoteWork(path)
            /\ waiting' = waiting \cup {[Task EXCEPT !.at = path, !.before = s.sig]}
    BY DEF AwaitAnswerer, AnswerStages
  <1> DEFINE w == [Task EXCEPT !.at = path, !.before = s.sig]
  <1>2. tasks' = Tail(tasks) /\ s' = s
    BY DEF AwaitAnswerer
  <1>3. /\ Describes /\ Task \in Tasks /\ Task.op = "setRemote" /\ s.suppress = "none"
        /\ Ready /\ Sound /\ Single
    BY <1>1, RemoteTelling, JoinedFacts, AnswerWorkGiven DEF Describes, Telling
  <1>4. waiting = {} /\ \A i : Describing(i) => i = 1
    BY <1>3, Alone DEF Describes
  <1>5. \A i \in 1 .. Len(tasks') : tasks'[i].op \notin SetOps
    BY <1>2, <1>3, <1>4, Shifts DEF Describing, DescriptionOps
  <1>6. w.op = "setRemote" /\ w.before = s.sig
    BY <1>3 DEF Tasks, TaskRecords
  <1>7. w \in waiting' /\ \A x \in waiting' : x = w
    BY <1>1, <1>4
  <1> HIDE DEF w
  <1>8. Watched(s, w)
    BY <1>1, <1>6, PendingAnswer DEF Watched
  <1> QED
    BY <1>2, <1>3, <1>5, <1>7, <1>8, OthersWatched DEF Announced, Held, Telling

LEMMA SetRemoteRestartAnswerTells == ASSUME Telling, SetRemoteRestartAnswer PROVE Announced'
  <1> DEFINE a == MarkRestart(Task.desc)
             c == CommitRemoteAnswer(s, a)
             x == [c EXCEPT !.jsOffer = FALSE]
             y == [x EXCEPT !.restart = FALSE]
             u == EnterState(y, "stable", Before)
  <1>1. RemoteAnswer("restartAnswer")
    BY DEF SetRemoteRestartAnswer
  <1>2. Await(EnterState([c EXCEPT !.jsOffer = FALSE, !.restart = FALSE], "stable", Before),
              "done")
    BY Zenon DEF SetRemoteRestartAnswer
  <1>3. "restartAnswer" \in AnswerStages
    BY DEF AnswerStages
  <1>4. a \in Descriptions
    BY <1>1, <1>3, AnswerTelling, DescriptionOperators
  <1> HIDE DEF a
  <1>5. Kept(s, c) /\ c \in States
    BY <1>1, <1>3, <1>4, AnswerTelling, CommitAnswerKeeps DEF Kept, Firm
  <1>6. y = [c EXCEPT !.jsOffer = FALSE, !.restart = FALSE]
    OBVIOUS
  <1> HIDE DEF c
  <1>7. x \in States
    BY <1>5, StateFlags
  <1>8. x.jsOffer = FALSE /\ x.suppress = c.suppress
    BY <1>5 DEF States
  <1> HIDE DEF x
  <1>9. y \in States
    BY <1>7, StateFlags
  <1>10. y.jsOffer = FALSE /\ y.suppress = x.suppress
    BY <1>7, <1>8 DEF States
  <1>11. Await(u, "done")
    BY <1>2, <1>6
  <1> HIDE DEF y
  <1>12. /\ Firm(y, u) /\ u.suppress = y.suppress /\ u.sig = "stable"
         /\ u.dispatched = "stable"
    BY <1>1, <1>3, <1>9, AnswerTelling, EnterKeeps, StateNames
  <1> HIDE DEF u
  <1>13. u.suppress = "none" /\ Told(u) /\ Restarting(u)
    BY <1>1, <1>3, <1>5, <1>8, <1>10, <1>12, AnswerTelling
       DEF Kept, SameEvents, Firm, Told, Restarting
  <1> QED
    BY <1>1, <1>3, <1>11, <1>13, AnswerTelling, AwaitTold

LEMMA SetRemoteDataOnlyAnswerTells == ASSUME Telling, SetRemoteDataOnlyAnswer PROVE Announced'
  <1> DEFINE c == CommitRemoteAnswer(s, Task.desc)
             t == SyncSignalingState(c)
             u == DispatchIfChanged(t, Before)
  <1>1. RemoteAnswer("dataOnlyAnswer") /\ Await(u, "done")
    BY Zenon DEF SetRemoteDataOnlyAnswer
  <1>2. "dataOnlyAnswer" \in AnswerStages
    BY DEF AnswerStages
  <1>3. Kept(s, c) /\ c \in States /\ c.pl = NoDesc /\ c.pr = NoDesc
    BY <1>1, <1>2, AnswerTelling, CommitAnswerKeeps DEF Kept, Firm
  <1> HIDE DEF c
  <1>4. Firm(c, t) /\ SameEvents(c, t) /\ t.sig = Synced(c)
    BY <1>3, SyncKeeps DEF Synced
  <1> HIDE DEF t
  <1>5. /\ Firm(t, u) /\ u.suppress = t.suppress /\ u.sig = t.sig
        /\ u.dispatched = IF t.sig = Before THEN t.dispatched ELSE t.sig
    BY <1>4, EnterKeeps, StateNames DEF Firm
  <1> HIDE DEF u
  <1>6. u.suppress = "none" /\ u.jsOffer = c.jsOffer
    BY <1>1, <1>2, <1>3, <1>4, <1>5, AnswerTelling DEF Kept, SameEvents, Firm
  <1>7. ~c.jsOffer => t.sig \in {"stable", "closed"}
    BY <1>3, <1>4, DescriptionTypes DEF Synced, DescriptionSignalingState
  <1>8. Told(u)
    BY <1>1, <1>2, <1>5, <1>6, <1>7, AnswerTelling DEF Told, Exempt
  <1>9. u.closed \/ Achieved(u, Task) => Restarting(u)
    BY <1>1, <1>2, AnswerTelling DEF Achieved, Idle, Restarting
  <1> QED
    BY <1>1, <1>2, <1>6, <1>8, <1>9, AnswerTelling, AwaitTold

LEMMA SetRemoteAnswerTells == ASSUME Telling, SetRemoteAnswer PROVE Announced'
  <1> DEFINE m == NativeSetRemote(s, Task.desc)
             x == Pair(m, Task.here)
             c == CommitRemoteAnswer(x, Task.desc)
             t == SyncSignalingState(c)
             v == Announce(t, s.sig)
             u == AddPendingCandidates(v)
  <1>1. RemoteAnswer("answer") /\ "answer" \in AnswerStages
    BY DEF SetRemoteAnswer, AnswerStages
  <1>2. IF NativeAcceptsRemote(s, "answer") THEN AwaitSuppressed(u, s.sig)
                                            ELSE Reject(EnsureNative(s))
    BY Zenon DEF SetRemoteAnswer
  <1>3. CASE Reject(EnsureNative(s))
    <2>1. Quiet(s, EnsureNative(s)) /\ EnsureNative(s) \in States
          /\ EnsureNative(s).suppress = s.suppress
      BY <1>1, AnswerTelling, EnsureNativeKeeps, EnsureNativeStep, QuietSteps
    <2> QED
      BY <1>1, <1>3, <2>1, AnswerTelling, QuietTold, Ends DEF Telling
  <1>4. CASE NativeAcceptsRemote(s, "answer") /\ AwaitSuppressed(u, s.sig)
    <2>1. /\ Consistent(s) /\ s.pl.type = "offer"
          /\ ~s.closed => ~s.jsOffer
      BY <1>1, RemoteAnswerGiven DEF Telling
    <2>2. ~s.closed
      BY <1>4, <2>1 DEF NativeAcceptsRemote, Consistent, Gone, HLO
    <2>3. s.sig # "stable" /\ ~s.jsOffer
      BY <1>1, <2>1, <2>2, AnswerTelling DEF Phase, Exchanges, HLO, HRP
    <2>4. NativeStep(s, m)
      BY <1>1, AnswerTelling, NativeSetRemoteKeeps
    <2> HIDE DEF m
    <2>5. m \in States /\ m.closed = s.closed /\ m.jsOffer = s.jsOffer
      BY <2>4 DEF NativeStep, SameExchange
    <2>6. x \in States /\ x.closed = m.closed /\ x.jsOffer = m.jsOffer
      BY <1>1, <2>5, AnswerTelling, PairKeeps DEF SameExchange
    <2> HIDE DEF x
    <2>7. /\ c \in States /\ c.closed = x.closed /\ c.jsOffer = x.jsOffer
          /\ c.pl = NoDesc /\ c.pr = NoDesc
      BY <1>1, <2>6, AnswerTelling, CommitAnswerKeeps DEF Kept, Firm
    <2> HIDE DEF c
    <2>8. t \in States /\ t.closed = c.closed /\ t.sig = Synced(c)
      BY <2>7, SyncAlike DEF Alike, SameMade
    <2> HIDE DEF t
    <2>9. t.sig = "stable"
      BY <2>2, <2>3, <2>5, <2>6, <2>7, <2>8, DescriptionTypes
         DEF Synced, DescriptionSignalingState
    <2>10. /\ v \in States /\ v.sig = t.sig /\ v.dispatched = t.sig /\ v.suppress = t.sig
           /\ v.closed = t.closed
      BY <2>3, <2>8, <2>9, AnnounceSays
    <2> HIDE DEF v
    <2>11. Flush(v, u)
      BY <2>10, AddPendingCandidatesKeeps
    <2> HIDE DEF u
    <2>12. /\ u \in States /\ u.sig = "stable" /\ u.dispatched = "stable"
           /\ u.suppress = "stable" /\ ~u.closed
      BY <2>2, <2>5, <2>6, <2>7, <2>8, <2>9, <2>10, <2>11
         DEF Flush, SameExchange, SameEvents
    <2> QED
      BY <1>1, <1>4, <2>3, <2>12, AnswerTelling, AnnouncedTells
  <1> QED
    BY <1>2, <1>3, <1>4

\* Operations on descriptions stay where they are, or continue after an answerer.
Kin ==
    /\ waiting' \subseteq waiting
    /\ \A i \in 1 .. Len(tasks') :
          \/ \E j \in 1 .. Len(tasks) : tasks'[i] = tasks[j]
          \/ tasks'[i] \in waiting \/ tasks'[i].op \notin SetOps
          \/ tasks'[i].at = "work"
    /\ \A j \in 1 .. Len(tasks) : tasks[j].op \in SetOps =>
          \E i \in 1 .. Len(tasks') : tasks'[i] = tasks[j]

LEMMA KinSteps ==
    ASSUME Sound
    PROVE  /\ UNCHANGED tasks /\ waiting' \subseteq waiting => Kin
           /\ \A task \in Tasks :
                 /\ tasks' = Append(tasks, task) /\ waiting' \subseteq waiting
                 /\ task.op \notin SetOps \/ task.at = "work"
                 => Kin
           /\ \A task \in waiting :
                 tasks' = <<task>> \o tasks /\ waiting' \subseteq waiting => Kin
           /\ Ready /\ Task.op \notin SetOps =>
                 /\ tasks' = Tail(tasks) /\ waiting' \subseteq waiting => Kin
                 /\ \A task \in Tasks :
                       /\ tasks' = Append(Tail(tasks), task) /\ waiting' \subseteq waiting
                       /\ task.op \notin SetOps
                       => Kin
  <1>0. tasks \in Seq(Tasks) /\ Len(tasks) \in Nat /\ waiting \subseteq Tasks
    BY TasksTyped DEF Sound, Typed, WaitingTasks
  <1>1. UNCHANGED tasks /\ waiting' \subseteq waiting => Kin
    BY DEF Kin
  <1>2. ASSUME NEW task \in Tasks, tasks' = Append(tasks, task), waiting' \subseteq waiting,
               task.op \notin SetOps \/ task.at = "work"
        PROVE  Kin
    <2>1. \A i \in 1 .. Len(tasks) : i \in 1 .. Len(tasks') /\ tasks'[i] = tasks[i]
      BY <1>0, <1>2
    <2>2. \A i \in 1 .. Len(tasks') :
              \/ i \in 1 .. Len(tasks) /\ tasks'[i] = tasks[i]
              \/ i = Len(tasks) + 1 /\ tasks'[i] = task
      BY <1>2, Joins
    <2> QED
      BY <1>2, <2>1, <2>2 DEF Kin
  <1>3. ASSUME NEW task \in waiting, tasks' = <<task>> \o tasks, waiting' \subseteq waiting
        PROVE  Kin
    <2>1. \A i \in 1 .. Len(tasks) : i + 1 \in 1 .. Len(tasks') /\ tasks'[i + 1] = tasks[i]
      BY <1>0, <1>3
    <2>2. \A i \in 1 .. Len(tasks') :
              \/ i = 1 /\ tasks'[i] = task
              \/ i - 1 \in 1 .. Len(tasks) /\ tasks'[i] = tasks[i - 1]
      BY <1>0, <1>3, Advances
    <2> QED
      BY <1>3, <2>1, <2>2 DEF Kin
  <1>4. ASSUME Ready, Task.op \notin SetOps
        PROVE  /\ tasks' = Tail(tasks) /\ waiting' \subseteq waiting => Kin
               /\ \A task \in Tasks :
                     /\ tasks' = Append(Tail(tasks), task) /\ waiting' \subseteq waiting
                     /\ task.op \notin SetOps
                     => Kin
    <2>1. /\ Len(tasks) >= 1 /\ Task = tasks[1] /\ Tail(tasks) \in Seq(Tasks)
          /\ Len(Tail(tasks)) = Len(tasks) - 1
          /\ \A i \in 1 .. Len(tasks) - 1 : Tail(tasks)[i] = tasks[i + 1]
      BY <1>0, <1>4, Front DEF Ready, Task
    <2>2. \A j \in 1 .. Len(tasks) : tasks[j].op \in SetOps =>
              j - 1 \in 1 .. Len(Tail(tasks)) /\ Tail(tasks)[j - 1] = tasks[j]
      <3> SUFFICES ASSUME NEW j \in 1 .. Len(tasks), tasks[j].op \in SetOps
                   PROVE  j - 1 \in 1 .. Len(Tail(tasks)) /\ Tail(tasks)[j - 1] = tasks[j]
        OBVIOUS
      <3>1. j # 1
        BY <1>4, <2>1
      <3>2. j - 1 \in 1 .. Len(tasks) - 1
        BY <1>0, <3>1
      <3>3. Tail(tasks)[j - 1] = tasks[(j - 1) + 1]
        BY <2>1, <3>2
      <3> QED
        BY <2>1, <3>2, <3>3
    <2>3. ASSUME tasks' = Tail(tasks), waiting' \subseteq waiting
          PROVE  Kin
      BY <1>0, <2>1, <2>2, <2>3 DEF Kin
    <2>4. ASSUME NEW task \in Tasks, tasks' = Append(Tail(tasks), task),
                 waiting' \subseteq waiting, task.op \notin SetOps
          PROVE  Kin
      <3>1. \A i \in 1 .. Len(Tail(tasks)) :
                i \in 1 .. Len(tasks') /\ tasks'[i] = Tail(tasks)[i]
        BY <2>1, <2>4
      <3>2. \A i \in 1 .. Len(tasks') :
                \/ i + 1 \in 1 .. Len(tasks) /\ i + 1 # 1 /\ tasks'[i] = tasks[i + 1]
                \/ i = Len(tasks) /\ tasks'[i] = task
        BY <1>4, <2>4, Requeues
      <3> QED
        BY <2>2, <2>4, <3>1, <3>2 DEF Kin
    <2> QED
      BY <2>3, <2>4
  <1> QED
    BY <1>1, <1>2, <1>3, <1>4

LEMMA KinBeside ==
    ASSUME Given, Announced, Kin, NEW u, s' = u, Told(u), Restarting(u), Loyal(s, u),
           u.suppress \in {s.suppress, "none"}
    PROVE  Announced'
  BY Beside DEF Kin

LEMMA QuietBeside ==
    ASSUME Given, Announced, Kin, NEW u, s' = u, Quiet(s, u), u.paired = s.paired
    PROVE  Announced'
  <1>1. Told(u) /\ Restarting(u)
    BY QuietTold DEF Announced
  <1>2. Loyal(s, u) /\ u.suppress \in {s.suppress, "none"}
    BY DEF Quiet, Loyal
  <1> QED
    BY <1>1, <1>2, KinBeside

-----------------------------------------------------------------------------
\* Calls of the application
LEMMA StartTells ==
    ASSUME Given, Announced, NEW task \in TaskRecords, Shape(task), Start(task),
           task.op \notin SetOps \/ task.at = "work"
    PROVE  Announced'
  <1> DEFINE n == [task EXCEPT !.id = calls]
             u == [s EXCEPT !.ops = s.ops + 1]
  <1>1. s' = u /\ tasks' = Append(tasks, n) /\ waiting' = waiting
    BY DEF Start
  <1>2. s \in States /\ Sound /\ calls \in Nat
    BY JoinedFacts DEF Sound, Typed
  <1>3. Quiet(s, u) /\ u.paired = s.paired
    BY <1>2 DEF Quiet, States
  <1> HIDE DEF u
  <1>4. /\ n \in TaskRecords /\ n.op = task.op /\ n.at = task.at /\ n.type = task.type
        /\ n.desc = task.desc
    BY <1>2 DEF TaskRecords
  <1> HIDE DEF n
  <1>5. n \in Tasks
    BY <1>4 DEF Tasks, Shape
  <1>6. Kin
    BY <1>1, <1>2, <1>4, <1>5, KinSteps
  <1> QED
    BY <1>1, <1>3, <1>6, QuietBeside

LEMMA CallCreateTells ==
    ASSUME Given, Announced, CallCreateOffer \/ CallCreateAnswer PROVE Announced'
  <1>1. CASE CallCreateOffer
    <2>1. PICK restart \in BOOLEAN :
              Start([NewTask("createOffer") EXCEPT !.restart = restart])
      BY <1>1 DEF CallCreateOffer
    <2> DEFINE a == NewTask("createOffer")
               task == [a EXCEPT !.restart = restart]
    <2>2. a \in TaskRecords /\ a.op = "createOffer" /\ a.at = "work"
      BY NewTaskTyped DEF Operations, DescriptionOps
    <2>3. task \in TaskRecords /\ task.op = "createOffer" /\ task.at = "work"
      BY <2>2 DEF TaskRecords
    <2> HIDE DEF task
    <2> QED
      BY <2>1, <2>3, StartTells DEF task, Shape, SetOps
  <1>2. CASE CallCreateAnswer
    <2> DEFINE task == NewTask("createAnswer")
    <2>1. task \in TaskRecords /\ task.op = "createAnswer" /\ task.at = "work"
      BY NewTaskTyped DEF Operations, DescriptionOps
    <2>2. Start(task)
      BY <1>2 DEF CallCreateAnswer
    <2> HIDE DEF task
    <2> QED
      BY <2>1, <2>2, StartTells DEF Shape, SetOps
  <1> QED
    BY <1>1, <1>2

LEMMA CallSetLocalTells == ASSUME Given, Announced, CallSetLocal PROVE Announced'
  <1>1. PICK d \in {NoDesc, Rollback, Plain(s.lastOffer), s.lastAnswer,
                    IF s.lastAnswer = NoDesc THEN NoDesc
                    ELSE [s.lastAnswer EXCEPT !.type = "pranswer"]} :
            Start([NewTask("setLocal") EXCEPT
                         !.desc = d,
                         !.type = IF d = NoDesc THEN ImplicitType(s) ELSE d.type])
    BY Zenon DEF CallSetLocal
  <1> DEFINE type == IF d = NoDesc THEN ImplicitType(s) ELSE d.type
             task == [NewTask("setLocal") EXCEPT !.desc = d, !.type = type]
  <1>2. d \in Descriptions
    <2>1. s.lastOffer \in Descriptions /\ s.lastAnswer \in Descriptions
      BY JoinedFacts, StateFields
    <2> QED
      BY <1>1, <2>1, LocalArguments, Zenon
  <1>3. /\ d = NoDesc => type \in {"offer", "answer"}
        /\ d # NoDesc => type = d.type
    BY DEF ImplicitType
  <1>4. type \in {"none", "offer", "answer", "pranswer", "rollback"}
    BY <1>2, <1>3 DEF Descriptions
  <1> HIDE DEF type
  <1>5. Fresh(task, "setLocal", d, type)
    BY <1>2, <1>4, SetTaskTyped DEF SetOps
  <1>6. Start(task)
    BY <1>1 DEF type
  <1> HIDE DEF task
  <1> QED
    BY <1>3, <1>5, <1>6, StartTells DEF Fresh, Shape, SetOps

LEMMA CallSetRemoteTells == ASSUME Given, Announced, CallSetRemote PROVE Announced'
  <1>1. PICK d \in {r \in Remotes : Proper(r)} \cup {Rollback},
             here \in BOOLEAN, valid \in BOOLEAN :
            Start([NewTask("setRemote") EXCEPT
                         !.desc = d, !.type = d.type, !.here = here, !.valid = valid])
    BY Zenon DEF CallSetRemote
  <1> DEFINE task == [NewTask("setRemote") EXCEPT
                         !.desc = d, !.type = d.type, !.here = here, !.valid = valid]
  <1>2. d \in Descriptions /\ d.type \in {"offer", "answer", "pranswer", "rollback"}
    BY SignalingAssumption, DescriptionTypes
  <1>3. Fresh(task, "setRemote", d, d.type)
    BY <1>2, RemoteTaskTyped
  <1>4. Start(task) /\ d # NoDesc
    BY <1>1, <1>2, DescriptionTypes
  <1> HIDE DEF task
  <1> QED
    BY <1>3, <1>4, StartTells DEF Fresh, Shape, SetOps

LEMMA CallAddIceCandidateTells ==
    ASSUME Given, Announced, CallAddIceCandidate PROVE Announced'
  <1> DEFINE a == NewTask("addIceCandidate")
             b == [a EXCEPT !.at = "early"]
  <1>1. \/ Start(a)
        \/ tasks' = Append(tasks, b) /\ UNCHANGED <<s, waiting>>
    BY DEF CallAddIceCandidate
  <1>2. a \in TaskRecords /\ a.op = "addIceCandidate" /\ a.at = "work"
    BY NewTaskTyped DEF Operations
  <1> HIDE DEF a
  <1>3. b \in TaskRecords
    BY <1>2, TaskFields DEF Stages
  <1>4. b.op = "addIceCandidate" /\ b.at = "early"
    BY <1>2 DEF TaskRecords
  <1> HIDE DEF b
  <1>5. Shape(a) /\ b \in Tasks
    BY <1>2, <1>3, <1>4 DEF Shape, SetOps, Tasks
  <1>6. CASE Start(a)
    BY <1>2, <1>5, <1>6, StartTells DEF SetOps
  <1>7. CASE tasks' = Append(tasks, b) /\ UNCHANGED <<s, waiting>>
    <2>1. Kin
      BY <1>4, <1>5, <1>7, KinSteps, JoinedFacts DEF SetOps
    <2> QED
      BY <1>7, <2>1, QuietBeside DEF Quiet
  <1> QED
    BY <1>1, <1>6, <1>7

\* A call that schedules nothing.
LEMMA ImmediatelyTells ==
    ASSUME Given, Announced, NEW u, Immediately(u), Quiet(s, u), u.paired = s.paired
    PROVE  Announced'
  <1>1. Kin /\ s' = u
    BY KinSteps, JoinedFacts DEF Immediately
  <1> QED
    BY <1>1, QuietBeside

LEMMA CallAddExchangedCandidateTells ==
    ASSUME Given, Announced, CallAddExchangedCandidate PROVE Announced'
  <1> DEFINE u == AddExchangedCandidate(s)
  <1>1. Immediately(u)
    BY DEF CallAddExchangedCandidate
  <1>2. NativeStep(s, u) /\ Undisturbed(s, u)
    BY JoinedFacts, AddExchangedCandidateKeeps
  <1> HIDE DEF u
  <1>3. Quiet(s, u) /\ u.paired = s.paired
    BY <1>2, JoinedFacts, QuietSteps DEF Undisturbed, NativeStep, SameCandidates
  <1> QED
    BY <1>1, <1>3, ImmediatelyTells

LEMMA RestartIceTells == ASSUME Given, Announced, RestartIce PROVE Announced'
  <1> DEFINE u == [s EXCEPT !.restart = TRUE]
  <1>1. Immediately(u)
    BY DEF RestartIce
  <1>2. Quiet(s, u) /\ u.paired = s.paired
    BY JoinedFacts DEF Quiet, States
  <1> HIDE DEF u
  <1> QED
    BY <1>1, <1>2, ImmediatelyTells

LEMMA CreateDataChannelTells == ASSUME Given, Announced, CreateDataChannel PROVE Announced'
  <1> DEFINE e == EnsureNative(s)
             u == [e EXCEPT !.channels = TRUE]
  <1>1. Immediately(u)
    BY DEF CreateDataChannel
  <1>2. NativeStep(s, e) /\ Undisturbed(s, e)
    BY JoinedFacts, EnsureNativeStep, EnsureNativeKeeps
  <1>3. Quiet(s, e) /\ e.paired = s.paired /\ e \in States
    BY <1>2, JoinedFacts, QuietSteps DEF Undisturbed, NativeStep, SameCandidates
  <1> HIDE DEF e
  <1>4. Quiet(s, u) /\ u.paired = s.paired
    BY <1>3 DEF Quiet, States
  <1> HIDE DEF u
  <1> QED
    BY <1>1, <1>4, ImmediatelyTells

LEMMA CloseTells == ASSUME Given, Announced, Close PROVE Announced'
  <1>1. /\ s' = [s EXCEPT !.closed = TRUE, !.sig = "closed", !.dispatched = "closed",
                          !.native = IF @ = "live" THEN "handed" ELSE @,
                          !.paired = "none", !.events = <<>>]
        /\ UNCHANGED <<tasks, waiting>>
    BY DEF Close, Immediately
  <1> DEFINE u == s'
  <1>2. /\ u.closed = TRUE /\ u.sig = "closed" /\ u.dispatched = "closed"
        /\ u.suppress = s.suppress
    BY <1>1, JoinedFacts DEF States
  <1>3. Kin /\ s' = u
    BY <1>1, KinSteps, JoinedFacts
  <1> HIDE DEF u
  <1>4. Told(u) /\ Restarting(u) /\ Loyal(s, u)
    BY <1>2 DEF Told, Restarting, Loyal
  <1> QED
    BY <1>2, <1>3, <1>4, KinBeside

\* Tasks of other operations, the answerer, the timer and the paired peer
LEMMA AddIceCandidateEarlyTells ==
    ASSUME Given, Announced, AddIceCandidateEarly PROVE Announced'
  <1> DEFINE u == [s EXCEPT !.ops = s.ops + 1]
             n == [Task EXCEPT !.at = "work"]
  <1>1. /\ Ready /\ Task.op = "addIceCandidate" /\ Task.at = "early" /\ waiting' = waiting
        /\ \/ tasks' = Tail(tasks) /\ s' = s
           \/ s' = u /\ tasks' = Append(Tail(tasks), n)
    BY DEF AddIceCandidateEarly, At, Task, Await, AwaitAs
  <1>2. Sound /\ s \in States
    BY JoinedFacts
  <1>3. CASE tasks' = Tail(tasks) /\ s' = s
    <2>1. Kin
      BY <1>1, <1>2, <1>3, KinSteps DEF SetOps
    <2> QED
      BY <1>3, <2>1, QuietBeside DEF Quiet
  <1>4. CASE s' = u /\ tasks' = Append(Tail(tasks), n)
    <2>1. Quiet(s, u) /\ u.paired = s.paired
      BY <1>2 DEF Quiet, States
    <2>2. Task \in TaskRecords
      BY <1>1, <1>2, TaskTyped DEF Sound, Tasks
    <2>3. n \in TaskRecords
      BY <2>2, TaskFields DEF Stages
    <2>4. n.op = "addIceCandidate" /\ n.at = "work"
      BY <1>1, <2>2 DEF TaskRecords
    <2> HIDE DEF u, n
    <2>5. n \in Tasks
      BY <2>3, <2>4 DEF Tasks, Shape, SetOps
    <2>6. Kin
      BY <1>1, <1>2, <1>4, <2>4, <2>5, KinSteps DEF SetOps
    <2> QED
      BY <1>4, <2>1, <2>6, QuietBeside
  <1> QED
    BY <1>1, <1>3, <1>4

LEMMA AddIceCandidateTells == ASSUME Given, Announced, AddIceCandidate PROVE Announced'
  <1> DEFINE q == [s EXCEPT !.queued = s.queued \cup {"added"}]
             e == EnsureNative(s)
  <1>1. Ready /\ Task.op = "addIceCandidate" /\ (Settle(q) \/ Settle(e))
    BY DEF AddIceCandidate, At, Task
  <1>2. Sound /\ s \in States
    BY JoinedFacts
  <1>3. q \in States /\ Quiet(s, q) /\ q.paired = s.paired
    <2>1. s.queued \in Candidates
      BY <1>2, StateFields
    <2>2. (s.queued \cup {"added"}) \in Candidates
      BY <2>1 DEF Candidates
    <2>3. q \in States
      BY <1>2, <2>2, StateValues
    <2> QED
      BY <1>2, <2>3 DEF Quiet, States
  <1>4. e \in States /\ Quiet(s, e) /\ e.paired = s.paired
    BY <1>2, EnsureNativeStep, EnsureNativeKeeps, QuietSteps DEF SameCandidates
  <1> HIDE DEF q, e
  <1>5. PICK t \in States : Settle(t) /\ Quiet(s, t) /\ t.paired = s.paired
    BY <1>1, <1>3, <1>4
  <1> DEFINE u == FinishPendingOperation(t)
  <1>6. s' = u /\ tasks' = Tail(tasks) /\ waiting' = waiting
    BY <1>5 DEF Settle
  <1>7. Quiet(t, u) /\ u.paired = t.paired
    BY QuietSteps, FinishKeeps
  <1> HIDE DEF u
  <1>8. Quiet(s, u) /\ u.paired = s.paired
    BY <1>5, <1>7 DEF Quiet
  <1>9. Kin
    BY <1>1, <1>2, <1>6, KinSteps DEF SetOps
  <1> QED
    BY <1>6, <1>8, <1>9, QuietBeside

LEMMA CorrectsBeside ==
    ASSUME Given, Announced, Kin, NEW u, s' = u, Corrects(s, u), u.paired = s.paired
    PROVE  Announced'
  <1>1. Told(u) /\ Restarting(u)
    BY JoinedFacts, CorrectsTold DEF Announced
  <1>2. Loyal(s, u) /\ u.suppress = s.suppress
    BY DEF Corrects, SameEvents, Loyal
  <1> QED
    BY <1>1, <1>2, KinBeside

LEMMA RefreshPaired ==
    ASSUME NEW t \in States, Consistent(t), Phase(t)
    PROVE  /\ RefreshFromNative(t).paired = t.paired
           /\ \A complete \in BOOLEAN : RefreshAfterGatheringWindow(t, complete).paired = t.paired
  <1> DEFINE v == RefreshFromNative(t)
             r == RefreshCurrentOrPendingLocal(t, t.nl)
             n == IF t.nl = NoDesc THEN t ELSE r
             u == SyncSignalingState(n)
  <1>1. v = IF t.closed \/ t.l = NoDesc \/ t.native = "none" THEN t ELSE u
    BY Zenon DEF RefreshFromNative
  <1>2. r \in States /\ r.paired = t.paired
    BY StateFields, RefreshCurrentOrPendingKeeps DEF Kept, Firm, SameCandidates
  <1> HIDE DEF r
  <1>3. n \in States /\ n.paired = t.paired
    BY <1>2
  <1> HIDE DEF n
  <1>4. u \in States /\ u.paired = n.paired
    BY <1>3, SyncAlike DEF Alike
  <1> HIDE DEF u
  <1>5. v \in States /\ v.paired = t.paired
    BY <1>1, <1>3, <1>4
  <1>6. ASSUME NEW complete \in BOOLEAN
        PROVE  RefreshAfterGatheringWindow(t, complete).paired = t.paired
    <2>1. RefreshAfterGatheringWindow(t, complete)
            = [v EXCEPT !.refresh = @ \/ (~v.closed /\ v.l # NoDesc /\ ~complete)]
      BY Zenon DEF RefreshAfterGatheringWindow
    <2> HIDE DEF v
    <2> QED
      BY <1>5, <2>1 DEF States
  <1> QED
    BY <1>5, <1>6

LEMMA EnsureFinishesTells == ASSUME Given, Announced, EnsureFinishes PROVE Announced'
  <1>1. /\ Ready /\ Task.op = "ensure" /\ tasks' = Tail(tasks) /\ waiting' = waiting
        /\ s' = s \/ \E complete \in BOOLEAN : s' = RefreshAfterGatheringWindow(s, complete)
    BY DEF EnsureFinishes, At, Task
  <1>2. Sound /\ s \in States /\ Consistent(s) /\ Phase(s)
    BY JoinedFacts
  <1>3. Kin
    BY <1>1, <1>2, KinSteps DEF SetOps
  <1>4. CASE s' = s
    BY <1>3, <1>4, QuietBeside DEF Quiet
  <1>5. CASE \E complete \in BOOLEAN : s' = RefreshAfterGatheringWindow(s, complete)
    <2>1. PICK complete \in BOOLEAN : s' = RefreshAfterGatheringWindow(s, complete)
      BY <1>5
    <2> DEFINE u == RefreshAfterGatheringWindow(s, complete)
    <2>2. s' = u /\ Corrects(s, u) /\ u.paired = s.paired
      BY <1>2, <2>1, RefreshCorrects, RefreshPaired
    <2> HIDE DEF u
    <2> QED
      BY <1>3, <2>2, CorrectsBeside
  <1> QED
    BY <1>1, <1>4, <1>5

LEMMA RefreshTimerTells == ASSUME Given, Announced, RefreshTimer PROVE Announced'
  <1> DEFINE t == [s EXCEPT !.refresh = FALSE]
             u == RefreshFromNative(t)
  <1>1. s' = u /\ UNCHANGED <<tasks, waiting>>
    BY DEF RefreshTimer, Passes
  <1>2. s \in States /\ Consistent(s) /\ Phase(s) /\ Sound
    BY JoinedFacts
  <1>3. t \in States
    BY <1>2, StateFlags
  <1>4. Alike(s, t) /\ t.sig = s.sig /\ SameEvents(s, t)
    BY <1>2, <1>3 DEF Alike, SameMade, SameRestarts, SameLocal, SameRemote, Undisturbed,
                      SameEvents, States
  <1> HIDE DEF t
  <1>5. Consistent(t) /\ Phase(t)
    BY <1>2, <1>4, AlikeConsistent
       DEF Phase, Alike, SameMade, SameRestarts, SameLocal, SameRemote
  <1>6. Corrects(t, u) /\ u.paired = t.paired
    BY <1>3, <1>5, RefreshCorrects, RefreshPaired
  <1> HIDE DEF u
  <1>7. Synced(t) = Synced(s)
    BY <1>4 DEF Synced, DescriptionSignalingState, Alike, SameMade, SameRestarts, SameLocal,
                SameRemote
  <1>8. Corrects(s, u) /\ u.paired = s.paired
    BY <1>4, <1>6, <1>7
    DEF Corrects, SameEvents, Alike, SameMade, SameRestarts, SameLocal, SameRemote, Undisturbed
  <1>9. Kin
    BY <1>1, <1>2, KinSteps
  <1> QED
    BY <1>1, <1>8, <1>9, CorrectsBeside

LEMMA AnswererTells == ASSUME Given, Announced, Answerer PROVE Announced'
  <1>1. Sound /\ s \in States
    BY JoinedFacts
  <1>2. CASE AnswererAnswers
    <2>1. PICK task \in waiting : tasks' = <<task>> \o tasks /\ waiting' = waiting \ {task}
      BY <1>2 DEF AnswererAnswers
    <2>2. Kin
      BY <1>1, <2>1, KinSteps
    <2>3. s' = s
      BY <1>2 DEF AnswererAnswers
    <2> QED
      BY <2>2, <2>3, QuietBeside DEF Quiet
  <1>3. CASE AnswererThrows
    <2> DEFINE u == FinishPendingOperation(s)
    <2>1. s' = u /\ waiting' \subseteq waiting /\ tasks' = tasks
      BY <1>3 DEF AnswererThrows
    <2>2. Quiet(s, u) /\ u.paired = s.paired
      BY <1>1, QuietSteps, FinishKeeps
    <2> HIDE DEF u
    <2>3. Kin
      BY <1>1, <2>1, KinSteps
    <2> QED
      BY <2>1, <2>2, <2>3, QuietBeside
  <1> QED
    BY <1>2, <1>3 DEF Answerer

LEMMA PairedTells ==
    ASSUME Given, Announced, PairedSettles \/ PairedLeaves PROVE Announced'
  <1>1. PICK x \in {"idle", "left"} :
            /\ s.paired \in {"idle", "busy"} /\ UNCHANGED <<tasks, waiting>>
            /\ \/ s' = [s EXCEPT !.paired = x]
               \/ s' = FlushCandidates([s EXCEPT !.paired = x])
    BY DEF PairedSettles, PairedLeaves, Passes
  <1> DEFINE t == [s EXCEPT !.paired = x]
  <1>2. s \in States /\ Consistent(s) /\ Sound
    BY JoinedFacts
  <1>3. ~s.closed
    BY <1>1, <1>2 DEF Consistent, Gone
  <1>4. t \in States
    BY <1>2, StateValues DEF PairedStates
  <1>5. Quiet(s, t)
    BY <1>2 DEF Quiet, States
  <1>6. s' = t \/ s' = FlushCandidates(t)
    BY <1>1
  <1> HIDE DEF t
  <1> DEFINE u == s'
  <1>7. Quiet(t, u)
    BY <1>4, <1>6, FlushCandidatesKeeps, QuietSteps DEF Quiet
  <1>8. s' = u
    OBVIOUS
  <1> HIDE DEF u
  <1>9. Quiet(s, u)
    BY <1>5, <1>7 DEF Quiet
  <1>10. Told(u) /\ Restarting(u) /\ Loyal(s, u) /\ u.suppress \in {s.suppress, "none"}
    BY <1>1, <1>3, <1>9, QuietTold DEF Announced, Quiet, Loyal
  <1>11. Kin
    BY <1>1, <1>2, KinSteps
  <1> QED
    BY <1>8, <1>10, <1>11, KinBeside

-----------------------------------------------------------------------------
\* Native events
LEMMA LaterComing ==
    ASSUME NEW t, t.events \in Seq(Events), t.events # <<>>, Coming(t),
           NEW u, u.events = Tail(t.events), u.suppress = t.suppress, u.sig = t.sig,
           Head(t.events).type # "signalingstatechange" \/ Head(t.events).state # t.sig
    PROVE  Coming(u)
  <1>1. PICK i \in 1 .. Len(t.events) :
            t.events[i].type = "signalingstatechange" /\ t.events[i].state = t.sig
    BY DEF Coming
  <1>2. i # 1
    BY <1>1
  <1>3. i - 1 \in 1 .. Len(u.events) /\ u.events[i - 1] = t.events[i]
    BY <1>2
  <1> QED
    BY <1>1, <1>3 DEF Coming

LEMMA HandleNativeEventTells == ASSUME Given, Announced, HandleNativeEvent PROVE Announced'
  <1> DEFINE event == Head(s.events)
             t == IF event.type = "localdescription"
                  THEN RefreshCurrentOrPendingLocal(s, event.desc)
                  ELSE HandleSignalingState(s, event.state)
             q == Tail(t.events)
             u == [t EXCEPT !.events = q]
  <1>1. s.events # <<>> /\ s' = u /\ UNCHANGED <<tasks, waiting>>
    BY Zenon DEF HandleNativeEvent, Handle
  <1>2. s \in States /\ Sound /\ Phase(s) /\ Told(s) /\ Restarting(s)
    BY JoinedFacts DEF Announced
  <1>3. s.events \in Seq(Events)
    BY <1>2, StateFields DEF Queues
  <1>4. /\ event.state \in SigNames /\ event.desc \in Descriptions
        /\ event.type \in {"signalingstatechange", "localdescription"}
        /\ Tail(s.events) \in Queues
    <2>1. event \in Events /\ Tail(s.events) \in Queues
      BY <1>1, <1>3, HeadTailProperties DEF Queues
    <2> QED
      BY <2>1 DEF Events
  <1> DEFINE Later == event.type # "signalingstatechange" \/ event.state # s.sig
  <1>5. ASSUME NEW w, Coming(s), Later, w.events = Tail(s.events), w.suppress = s.suppress,
               w.sig = s.sig
        PROVE  Coming(w)
    BY <1>1, <1>3, <1>5, LaterComing
  <1> HIDE DEF event
  <1>6. /\ t \in States /\ t.events = s.events /\ t.closed = s.closed /\ t.paired = s.paired
        /\ t.suppress \in {s.suppress, "none"} /\ t.jsOffer = s.jsOffer
        /\ t.pl.type = s.pl.type /\ t.pr.type = s.pr.type
        /\ \/ t.dispatched = t.sig /\ (s.jsOffer => t.sig = HLO)
           \/ Exempt(s) /\ (t.sig = s.sig \/ t.sig = HLO)
           \/ /\ t.sig = s.sig /\ t.dispatched = s.dispatched
              /\ s.dispatched = s.sig \/ (t.suppress = s.suppress /\ Later)
    <2>1. CASE event.type = "localdescription"
      <3>1. t = RefreshCurrentOrPendingLocal(s, event.desc)
        BY <2>1
      <3>2. Kept(s, t) /\ SameRemote(s, t) /\ t.pl.type = s.pl.type
        BY <1>2, <1>4, <3>1, RefreshCurrentOrPendingKeeps
      <3> HIDE DEF t
      <3> QED
        BY <2>1, <3>2 DEF Kept, Firm, SameCandidates, SameNative, SameEvents, SameRemote
    <2>2. CASE event.type # "localdescription"
      <3> DEFINE state == event.state
      <3>1. t = HandleSignalingState(s, state)
        BY <2>2
      <3>2. CASE s.jsOffer
        <4>1. t = [s EXCEPT !.sig = HLO]
          BY <3>1, <3>2 DEF HandleSignalingState
        <4>2. t \in States
          BY <1>2, <4>1, SigKeeps, StateNames DEF Entered, Firm
        <4> HIDE DEF t
        <4>3. Exempt(s)
          BY <3>2 DEF Exempt
        <4>4. /\ t.sig = HLO /\ t.events = s.events /\ t.closed = s.closed
              /\ t.paired = s.paired /\ t.suppress = s.suppress /\ t.jsOffer = s.jsOffer
              /\ t.pl = s.pl /\ t.pr = s.pr
          BY <1>2, <4>1 DEF States
        <4> QED
          BY <4>2, <4>3, <4>4
      <3>3. CASE ~s.jsOffer /\ s.suppress = state
        <4>1. t = [s EXCEPT !.suppress = "none"]
          BY <3>1, <3>3 DEF HandleSignalingState
        <4>2. t \in States
          BY <1>2, <4>1, StateValues, StatesNamed
        <4>3. s.sig # "none"
          BY <1>2, StateFields DEF SignalingStates, HLO, HRO, HLP, HRP
        <4>4. Coming(s) => Later /\ s.suppress = "none"
          BY <3>3, <4>3 DEF Coming
        <4> QED
          BY <1>2, <3>3, <4>1, <4>2, <4>4 DEF States, Told
      <3>4. CASE ~s.jsOffer /\ s.suppress # state /\ state # DescriptionSignalingState(s)
        <4>1. t = s
          BY <3>1, <3>4 DEF HandleSignalingState
        <4>2. ~s.closed /\ ~Exempt(s) => Later
          BY <1>2, <3>4, SyncedUnlessExempt DEF Synced
        <4> QED
          BY <1>2, <4>1, <4>2 DEF Told
      <3>5. CASE ~s.jsOffer /\ s.suppress # state /\ state = DescriptionSignalingState(s)
        <4> DEFINE v == [s EXCEPT !.sig = state]
        <4>1. t = Dispatch(v)
          BY <3>1, <3>5 DEF HandleSignalingState
        <4>2. state \in SignalingStates
          BY <3>5, StateNames DEF DescriptionSignalingState, SignalingStates
        <4>3. v \in States
          BY <1>2, <4>2, SigKeeps DEF Entered, Firm
        <4>4. /\ SameLocal(s, v) /\ SameRemote(s, v) /\ v.events = s.events
              /\ v.closed = s.closed /\ v.paired = s.paired /\ v.suppress = s.suppress
              /\ v.jsOffer = s.jsOffer
          BY <1>2 DEF SameLocal, SameRemote, States
        <4> HIDE DEF v, t
        <4>5. /\ Firm(v, t) /\ t.suppress = v.suppress /\ t.sig = v.sig /\ t.dispatched = v.sig
              /\ SameLocal(v, t) /\ SameRemote(v, t)
          BY <4>1, <4>3, EnterKeeps, StateNames
        <4> QED
          BY <3>5, <4>4, <4>5
             DEF Firm, SameCandidates, SameNative, SameLocal, SameRemote
      <3> QED
        BY <3>2, <3>3, <3>4, <3>5
    <2> QED
      BY <2>1, <2>2
  <1> HIDE DEF t, Later
  <1>7. q = Tail(s.events) /\ q \in Queues
    BY <1>4, <1>6
  <1> HIDE DEF q
  <1>8. /\ u.closed = t.closed /\ u.paired = t.paired /\ u.suppress = t.suppress
        /\ u.jsOffer = t.jsOffer /\ u.pl = t.pl /\ u.pr = t.pr /\ u.sig = t.sig
        /\ u.dispatched = t.dispatched /\ u.events = Tail(s.events)
    BY <1>6, <1>7 DEF States
  <1> HIDE DEF u
  <1>9. Exempt(s) => Exempt(u)
    BY <1>6, <1>8 DEF Exempt
  <1>10. Told(u)
    BY <1>2, <1>5, <1>6, <1>8, <1>9 DEF Told
  <1>11. Restarting(u)
    BY <1>2, <1>6, <1>8 DEF Restarting, HLO
  <1>12. Loyal(s, u) /\ u.suppress \in {s.suppress, "none"}
    BY <1>6, <1>8 DEF Loyal
  <1>13. Kin
    BY <1>1, <1>2, KinSteps
  <1> QED
    BY <1>1, <1>10, <1>11, <1>12, <1>13, KinBeside

\* A peer that another one applies an answer for has no operation that suppresses events.
LEMMA EnsureTaskTells ==
    ASSUME Given, Announced, ~s.closed, s.paired \in {"idle", "busy"},
           NEW t \in States, Told(t), Restarting(t), t.suppress = s.suppress,
           NEW at \in {"done", "refresh"}, EnsureTask(t, at)
    PROVE  Announced'
  <1> DEFINE u == [t EXCEPT !.paired = "busy"]
             a == NewTask("ensure")
             n == [a EXCEPT !.at = at]
  <1>1. s' = u /\ tasks' = Append(tasks, n) /\ waiting' = waiting
    BY DEF EnsureTask
  <1>2. /\ u.closed = t.closed /\ u.sig = t.sig /\ u.dispatched = t.dispatched
        /\ u.events = t.events /\ u.suppress = t.suppress
        /\ u.jsOffer = t.jsOffer /\ u.pl = t.pl /\ u.pr = t.pr
    BY DEF States
  <1> HIDE DEF u
  <1>3. a \in TaskRecords /\ a.op = "ensure"
    BY NewTaskTyped DEF Operations
  <1> HIDE DEF a
  <1>4. n \in TaskRecords
    BY <1>3, TaskFields DEF Stages
  <1>5. n.op = "ensure" /\ n.at = at
    BY <1>3 DEF TaskRecords
  <1> HIDE DEF n
  <1>6. n \in Tasks
    BY <1>4, <1>5 DEF Tasks, Shape, SetOps
  <1>7. Kin
    BY <1>1, <1>5, <1>6, KinSteps, JoinedFacts DEF SetOps
  <1>8. Quiet(t, u)
    BY <1>2 DEF Quiet
  <1>9. Told(u) /\ Restarting(u) /\ Loyal(s, u)
    BY <1>8, QuietTold DEF Loyal
  <1> QED
    BY <1>1, <1>2, <1>7, <1>9, KinBeside

LEMMA EnsureTells == ASSUME Given, Announced, EnsureLocalAnswerApplied PROVE Announced'
  <1> DEFINE r == ApplyRestartAnswer(s, s.lastAnswer)
             n == NativeSetLocal(s, "answer")
             x == CommitAnswer(n, n.nl)
             y == SyncSignalingState(x)
             c == AddPendingCandidates(y)
             e == EnsureNative(s)
  <1>1. /\ s.paired \in {"idle", "busy"} /\ ~InProgress({"setRemote"})
        /\ \/ s.jsRemote /\ EnsureTask(r, "done")
           \/ NativeAcceptsLocal(s, "answer") /\ EnsureTask(c, "refresh")
           \/ s' = e /\ UNCHANGED <<tasks, waiting>>
    BY DEF EnsureLocalAnswerApplied, Given, Careful
  <1>2. /\ Phase(s) /\ s \in States /\ Created(s) /\ Consistent(s) /\ Sound
        /\ Told(s) /\ Restarting(s)
    BY JoinedFacts DEF Announced
  <1>3. ~s.closed /\ Joint(s)
    BY <1>1, <1>2 DEF Consistent, Gone
  <1>4. s.suppress = "none"
    <2>1. ASSUME NEW i \in 1 .. Len(tasks), Suppresses(tasks[i], s.suppress)
          PROVE  FALSE
      <3>1. tasks[i].op = "setLocal" /\ tasks[i].at = "clear"
        BY <1>1, <1>2, <2>1, ElementOfSeq
           DEF Suppresses, InProgress, SetOps, Sound, Typed, Tasks, Shape
      <3> QED
        BY <1>1, <1>3, <3>1 DEF Announced, Watched
    <2> QED
      BY <2>1 DEF Announced, Held
  <1>5. CASE s.jsRemote /\ EnsureTask(r, "done")
    <2>1. s.pr.type = "offer"
      BY <1>3, <1>5 DEF Joint, Restarts
    <2>2. ~s.jsOffer
      BY <1>2, <1>3, <2>1 DEF Phase, Exchanges
    <2>3. /\ r \in States /\ r.closed = s.closed /\ r.jsOffer = s.jsOffer /\ r.sig = "stable"
          /\ r.suppress = s.suppress /\ r.events = s.events
          /\ r.dispatched = "stable" \/ (s.sig = "stable" /\ SameEvents(s, r))
      BY <1>2, StateFields, ApplyRestartAnswerKeeps DEF Basic
    <2> HIDE DEF r
    <2>4. Entering(s, r)
      BY <2>3 DEF Entering, SameEvents
    <2>5. Told(r) /\ Restarting(r)
      BY <1>2, <1>3, <2>2, <2>3, <2>4, EntersTold DEF Restarting
    <2> QED
      BY <1>1, <1>3, <1>5, <2>3, <2>5, EnsureTaskTells
  <1>6. CASE NativeAcceptsLocal(s, "answer") /\ EnsureTask(c, "refresh")
    <2>1. s.nsig # "stable"
      BY <1>6 DEF NativeAcceptsLocal, HRO
    <2>2. /\ NativeStep(s, n) /\ n.nl \in Descriptions /\ Says(n, "stable")
      BY <1>2, <2>1, NativeSetLocalKeeps, NativeSays, StateFields DEF NativeStep
    <2> HIDE DEF n
    <2>3. /\ n \in States /\ n.closed = s.closed /\ n.jsOffer = s.jsOffer
          /\ SameEvents(s, n)
      BY <2>2 DEF NativeStep, SameExchange, SameEvents
    <2>4. Kept(n, x) /\ x.pl = NoDesc /\ x.pr = NoDesc
      BY <2>2, <2>3, CommitAnswerKeeps
    <2> HIDE DEF x
    <2>5. x \in States /\ Mute(n, x)
      BY <2>4, MuteSteps DEF Kept, Firm
    <2>6. y \in States /\ Mute(x, y) /\ Alike(x, y) /\ y.sig = Synced(x)
      BY <2>5, MuteSteps, SyncAlike DEF Alike
    <2> HIDE DEF y
    <2>7. c \in States /\ Mute(y, c) /\ Alike(y, c) /\ c.sig = y.sig
      BY <2>6, AddPendingCandidatesKeeps, MuteSteps, AlikeSteps DEF Alike
    <2> HIDE DEF c
    <2>8. Mute(n, c) /\ c.jsOffer = x.jsOffer
      BY <2>5, <2>6, <2>7, MuteSteps DEF Alike, SameRestarts
    <2>9. /\ ~c.closed /\ c.suppress = "none" /\ c.events = n.events
      BY <1>3, <1>4, <2>3, <2>8 DEF Mute, SameEvents
    <2>10. ~x.closed
      BY <1>3, <2>3, <2>5 DEF Mute
    <2>11. IF x.jsOffer THEN c.sig = HLO ELSE c.sig = "stable"
      BY <2>4, <2>6, <2>7, <2>10, DescriptionTypes DEF Synced, DescriptionSignalingState
    <2>12. Told(c) /\ Restarting(c)
      BY <2>2, <2>8, <2>9, <2>11, SaysComing DEF Told, Exempt, Restarting, HLO
    <2> QED
      BY <1>1, <1>3, <1>4, <1>6, <2>7, <2>9, <2>12, EnsureTaskTells
  <1>7. CASE s' = e /\ UNCHANGED <<tasks, waiting>>
    <2>1. Quiet(s, e) /\ e.paired = s.paired
      BY <1>2, EnsureNativeStep, EnsureNativeKeeps, QuietSteps DEF SameCandidates
    <2>2. Kin
      BY <1>2, <1>7, KinSteps
    <2> HIDE DEF e
    <2> QED
      BY <1>7, <2>1, <2>2, QuietBeside
  <1> QED
    BY <1>1, <1>5, <1>6, <1>7

-----------------------------------------------------------------------------
LEMMA InitAnnounced == Init => Announced
  <1> SUFFICES ASSUME Init PROVE Announced
    OBVIOUS
  <1>1. /\ s.sig = "stable" /\ s.dispatched = "stable" /\ s.suppress = "none"
        /\ s.jsOffer = FALSE
    <2>1. PICK ends : s = InitState(ends[1], ends[2])
      BY Zenon DEF Init
    <2> QED
      BY <2>1 DEF InitState
  <1>2. tasks = <<>> /\ waiting = {}
    BY DEF Init
  <1> QED
    BY <1>1, <1>2 DEF Announced, Told, Restarting, Held

LEMMA NextAnnounced == ASSUME Telling, Next PROVE Announced'
  <1> Given /\ Announced
    BY DEF Telling
  <1>1. CASE Application
    BY <1>1, CallCreateTells, CallSetLocalTells, CallSetRemoteTells, EnsureTells,
       CallAddIceCandidateTells, CallAddExchangedCandidateTells, RestartIceTells,
       CreateDataChannelTells, CloseTells, Zenon DEF Application
  <1>2. CASE SetLocalWork
    BY <1>2, SetLocalRejectedTells, SetLocalRollbackTells,
       SetLocalPranswerTells, SetLocalAppliedTells, SetLocalNoMediaTells,
       SetLocalRestartAnswerTells, SetLocalDataOnlyTells, SetLocalRestartOfferTells,
       SetLocalSyncTells, SetLocalNativeTells, SetLocalRefreshTells, Zenon DEF SetLocalWork
  <1>3. CASE SetRemoteWork
    BY <1>3, SetRemoteRejectedTells, SetRemotePranswerTells, SetRemoteRollbackLocalTells,
       SetRemoteRollbackTells, SetRemoteRestartOfferTells, SetRemoteDataOnlyOfferTells,
       SetRemoteNoMediaTells, SetRemoteReplaceTells, SetRemoteOfferTells,
       AwaitAnswererTells, SetRemoteRestartAnswerTells, SetRemoteDataOnlyAnswerTells,
       SetRemoteAnswerTells, Zenon DEF SetRemoteWork
  <1>4. CASE RunTask
    BY <1>2, <1>3, <1>4, CreateOfferTells, CreateAnswerTells, FinishTells,
       EnsureFinishesTells, AddIceCandidateEarlyTells, AddIceCandidateTells, Zenon
    DEF RunTask
  <1>5. CASE EventLoop
    BY <1>4, <1>5, AnswererTells, HandleNativeEventTells, RefreshTimerTells, Zenon
    DEF EventLoop
  <1>6. CASE PairedSettles \/ PairedLeaves
    BY <1>6, PairedTells
  <1> QED
    BY <1>1, <1>5, <1>6 DEF Next

\* When the application awaits each operation on descriptions before the next, and avoids
\* what the May operators forbid, then once everything has settled the last event that it
\* got of the state told it the state it is in: no native event is suppressed without
\* another in its place, and none is ignored but that of a state already left.
THEOREM StateIsAnnounced ==
    ASSUME Careful
    PROVE  Spec => []StateAnnounced
  <1> DEFINE Inv == JointInv /\ Announced
  <1>1. Init => Inv
    BY InitSInv, InitJoined, InitAnnounced DEF JointInv
  <1>2. Inv /\ [Next]_vars => Inv'
    <2> SUFFICES ASSUME JointInv, Announced, [Next]_vars PROVE JointInv' /\ Announced'
      OBVIOUS
    <2>1. JointInv'
      BY NextJointInv
    <2>2. CASE Next
      BY <2>1, <2>2, NextAnnounced DEF Telling, Given, JointInv
    <2>3. CASE UNCHANGED vars
      BY <2>1, <2>3 DEF vars, Announced, Held
    <2> QED
      BY <2>1, <2>2, <2>3
  <1>3. Inv => StateAnnounced
    BY DEF Announced, Told, Exempt, Coming, StateAnnounced, Quiescent, Pranswers
  <1> QED
    BY <1>1, <1>2, <1>3, PTL DEF Spec

=============================================================================
