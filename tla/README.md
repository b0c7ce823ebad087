# Samsung face HAL: TLA+ models and proofs

This directory models the AIDL face HAL of `src/biometrics/face/aidl`: an
adapter between the Android framework, which opens sessions and calls
`ISession` methods over AIDL, and Samsung's proprietary face service, which
speaks HIDL and reports through oneway callbacks. Paths below are relative to
`src/biometrics/face/aidl/`.

    framework --AIDL--> SamsungFace / SamsungSession --> HidlBackend --HIDL--> vendor HAL
        ^                (binder threads, 2)                |                     |
        |                                            begin/endOperation        oneway events
        |                                                   v                     |
        +---- ISessionCallback <---- HidlCallbackBridge (mMode, mCb) <-----------+
                                      (hwbinder thread, 1)
                                             | preview frames
                                             v
                                       FacePreviewTap --> IFacePreviewListener (FacePreviewView)

## Inventory

| component | state | operations | what makes it correct |
|---|---|---|---|
| `HidlCallbackBridge` | `mMode`, `mCb`, `mTap` under `mLock` | `beginOperation`, `endOperation`, `setPreviewTap`; ten handlers of vendor events | an event goes once, in order, to the session that holds the slot, with a call that fits the mode held *at the same moment*; frames only during an operation |
| `SamsungSession` | `mUserId`, `mCb`; no lock of its own | constructor, 12 `ISession` methods and variants, `close` | a call is answered or handed a cancellation signal; results reach only a session that asked; a closed session is forgotten; operations run for the session's own user |
| `CancellationSignal` | `mOnCancel` | `cancel` | the lambda runs at most once, and stops only its own operation |
| `HidlBackend` | `mSeh`, `mBase`, `mBridge`, `mCallbackRegistered` under `mLock` | `getSeh`, `beginOperation`, `endOperation`, `bridge`, `attachPreviewTap` | a service that is handed out was offered the callback; a failed registration is retried; one bridge, with its tap, for the life of the process; a vendor service that restarts is bound again |
| `SamsungFace` | the shared `HidlBackend` | `createSession`, `getSensorProps` | every session shares one backend |
| `FacePreviewTap` | `mListeners` under `mLock`, death cookies | `registerListener`, `unregisterListener`, `dispatchFrame`, `onListenerDied` | each frame once, in order, to those subscribed; a cookie lives as long as its link; the dead are removed and no bystander is |
| `FacePreviewView` (client) | `mTap`, `mListener` under `mBindLock` | `bindTap`, `unbindTap`, `renderFrame` | no subscription outlives its surface; every admitted frame is rendered, and covers the view |
| HAT codec | none | `hatToBytes`, `parseHat` | inverse on full tokens |
| `main` | thread pools | start-up order | the tap is attached before frames flow |

How they interact. Every session shares one `HidlBackend` and through it one
bridge; the bridge has a single slot `(mMode, mCb)` that the last operation to
begin has written. Operations are begun and ended by binder threads, and by
oneway cancellations. Vendor events are handled on the hwbinder thread. The
only synchronisation between the two is `mLock`, held for the read or the write of
the slot, never for the call on a callback.

What is hard here: a handler acts on a copy of the slot; an event outlives the
operation that caused it; a cancellation races the end of its operation and the
start of the next; a vendor call refuses half way; a binding or `setActiveUser`
fails and the session goes on; three paths remove a listener, and each must free one cookie
that a death notification may be about to read; a call of a client is taken after its death; either process dies between any two
steps. `PROJECT.json` lists each of these at its line, with
the properties that would catch it.

## Modules

`HidlCallbackBridge.tla` is the bridge: the slot, the queue of vendor events
and one action per handler. `Forward` is what `snapshot()` and `lockCb()` have in
common: one locked read of the slot, the handler's early return, and the call
it *will* make, kept in `pending`. `Deliver` makes the call, with no lock held. Any
step of any thread may come between. A handler's guard is the condition
of its early return (`mMode = "kEnroll"` for `onEnrollResult`, none for
`sehOnAuthenticated`, as in the code). Arguments are what the handlers tell
apart: nothing or something remaining, no face or a face with a token
`parseHat` refuses or accepts, a lockout duration of zero, of the maximum, or
another, a frame that passes the checks or not.

`EventRouter.tla` is the abstract specification of the bridge, without locks and threads:
each event is taken in one step, in order: routed to the holder of the slot at
that moment if it concerns the mode of that moment, and dropped only if it does not.

`BridgeRouting.tla` puts the bridge under the most general users (any session
begins or ends at any time, the vendor sends anything) and shows that it implements
the router. The refinement mapping counts a call as routed when the handler has
chosen it: `routed <- IF pending = None THEN log ELSE Append(log, pending)`.

`SamsungSession.tla` is the whole path. A binder thread `th[t]` runs a method from
one synchronisation point to the next, one step each: `getSeh` and the
checks after it (the action named after the method), the locked begin (`Begin`), the
vendor call (`...Hidl`), the locked end (`End`), the call on the session callback
(`Reply`). Among the state: `bound` is `HidlBackend::mSeh != nullptr`; `vop` and `vuser` are
the operation and the user of the vendor HAL; `sess` is the life of each
session; `signal` the cancellation signals handed out. `calls`, `unanswered` and `userSet`
are what the framework knows, used by the properties and by the discipline.
Sessions and their callbacks are one value, and a call carries a number that
vendor events repeat: the code has no such number, and no guard of the
bridge reads it; the properties use it to say which operation an event belongs to.

`HidlBackend.tla` is the connection to the vendor service, step by step: `ensureBoundLocked` before,
inside and after the call of `sehSetCallback` (`lock` is the thread inside it; every
other member of `HidlBackend` waits for it), `attachPreviewTap`, and the vendor service, which
comes, dies and comes back under another number. A transport error tears the binding down but
keeps the bridge; a refusal is not looked at.

`PreviewPath.tla` composes it with the bridge, and with the process around both: the main
thread attaches the tap and joins the pool; calls on binder threads bind, begin, call the
vendor service and end, as the methods of `SamsungSession.cpp` do; and a vendor call that fails
counts as a refusal where its `Return` is tested, ends the process, which starts afresh, where its value
is read all the same, and does either where the `Return` is dropped. `PreviewFrame` is `sehOnPreviewFrame` up to the
locked read of tap and mode, `FanOut` what it does after. `request` stands for the methods
that begin with `kNone`; the sessions are in full in `SamsungSession.tla`, which abstracts the
binding to its outcome.

`ListenerSet.tla` is the abstract specification of the tap: who is subscribed, and a frame that
is due, once, to each that was subscribed when it was published.

`FacePreviewTap.tla` is the tap: `registerListener` and `removeByBinder` are one step each, under
`mLock`; a dispatch is a copy, a call per listener, and a removal per failure. A death
notification is linked, taken by libbinder (from then on `unlinkToDeath` comes too
late), looked at by `onListenerDied`, and removes. `obits` are the listeners whose proxy has sent its
obituaries: `linkToDeath` on such a proxy is refused, its status is ignored, and `Add` pushes the
entry unlinked, unless the listener came back with a new proxy. Cookies have addresses and
memory that is fresh, live or freed. A comparison that reads a freed cookie may
match any entry: what the memory holds then is unknown.

`FacePreviewView.tla` composes the tap with its clients: views, with `bindTap` and
`unbindTap` split at the call into the service; other clients that call as they like, repeatedly and
on several threads, and whose last calls may still be taken after their death (`late`); clients that
die, and a service that dies and restarts. The refinement mapping to `ListenerSet` forgets
cookies and notifications: `subs` is the set of listeners with an entry, `due` those of the entries
copied and not yet served.

`HatCodec.tla` has `hatToBytes` and `parseHat` byte by byte, `FrameGeometry.tla` the frame checks on both
sides, the cast of the size, and the rotation and the matrix of the view over rationals.
`DataPaths.tla` calls them as the code does, one call a step.

The `*Proofs.tla` modules hold the proofs, the `MC*.tla` modules give the constants values.

### What is external

The vendor HAL is known from the calls the code makes and the events it
handles. It accepts or refuses a call; runs one operation, superseding the one
before silently or with an error; reports progress; ends an operation with an error, a last
enrollment report, or a match, which is one event or two (base and extended);
stops whatever it runs on `cancel` and reports that. It does not report an
operation it has finished. `Sent` names the optional events a run includes.

The framework calls one method at a time on a session (a binder call blocks its
caller) and never calls a closed session. `Disciplined = TRUE` adds what
`HidlCallbackBridge.h:27` and `HidlBackend.h:31` expect of it ("only one session is active at a
time"): it waits for the answer before the next call, closes a session before it
creates the next, and cancels only what it waits for. `Disciplined = FALSE` allows
anything the interface allows. `cancel` is oneway, so the framework goes on
while one runs, disciplined or not.

A failed HIDL `Return` whose value the code reads unchecked (`SamsungSession.cpp:104`, `:197`) makes
libhidl end the process; such a behaviour just stops in `SamsungSession`, and starts a new process in
`PreviewPath`. One that is dropped (`:207`, `:235`, `:254`, `:272`, `:312`, `:339`) ends the process or
only logs, as libhidl is configured: in `PreviewPath` either may happen, and in `SamsungSession` the call
then had no effect and the method goes on. In `PreviewPath` `hatToBytes`
is its verdict: a HAT that `enroll` refuses leads to the error answer.

libbinder delivers each death notification once, on a thread of its own, unless
`unlinkToDeath` came before it was taken for delivery; one asked for a binder that is dead
already is delivered too, unless the proxy has sent its obituaries before: then the link is
refused (`DEAD_OBJECT`). A call that a client made before it died is taken all the same. `cancel` of `ICancellationSignal` and
`onFrame` are oneway: binder runs oneway calls on one object one after the other, which is why the unlocked
test and move in `CancellationSignal.h:23-25` are not reached by two threads.

### Bounds

`MaxCalls` bounds the calls issued, `MaxQueue` the vendor events waiting, `MaxLog`
(`BridgeRouting`) the events sent in all. Reports after which an operation goes on, and
unsolicited events, leave one place in the queue, so that the bound never keeps
the vendor from ending an operation: without that, the liveness runs would blame
the bound. Two sessions and two calls are enough for every hazard listed: each is a
race of one operation with the next, or of one session with another.
In the runs of the tap, three listeners (two surfaces of a view, and another client) and a cookie each
let each removal path meet each other and a frame in progress meet all of them, and two lives of the service
let the view's `mTap` refer to an old one. `preview_tap` has one frame: what it leaves behind, registrations, removals and
deaths go on to meet, and that several arrive in order is the theorem `TapImplementsListenerSet`. In `preview_path`, two threads contend for
the binding, and two lives of the vendor service let its restart fall between any two steps; one frame in the
queue suffices as no frame is sent during a fan-out: the hwbinder thread handles one at a time.
The tokens of `data_paths` have one marked byte each, at every position; the frames combine every edge of
the two checks. The theorems drop all of these bounds.

`MaxCalls = 1` in the run over all requests is enough for its property, which is
about one request and the state of its session's constructor.

## Runs

All have `CHECK_DEADLOCK FALSE`: the framework may stop calling at any time, and the
bounds end every behaviour.

| run | configuration | what it shows |
|---|---|---|
| `bridge_routing` | 2 sessions, any begins and ends, 2 events of any kind | `ImplementsRouter`: the bridge refines the router. `RoutingTypeOK`: in particular no call is made on a null callback |
| `session_operations` | 2 sessions, 2 threads, undisciplined, 2 calls of enroll / authenticate, cancels, closes | `ResultMatchesOperation`, `NoSilentReturn`, `ClosedNotInstalled`, `SlotIsOfOperation`: what is refused gives the slot back, `NoNewCallToClosed`: a closed session gets at most the call already chosen |
| `session_requests` | 2 sessions, one with a refused userId, 2 threads, any one `ISession` method, every event, the vendor service present or not | `TypeOK`, `UserSetRequestsAnswered` |
| `session_scheduled` | 1 thread, disciplined, fair, 2 calls | `InstalledForDuration`, `ReportUnderway`, `StartsForItsUser`, `AuthenticateConcludes`, `UncancelledEnrollConcludes` |
| `enroll_cancelled` | 1 thread, disciplined, fair, 1 enroll | violated: `EnrollConcludes` |
| `ended_operation` | disciplined | violated: `EndedOpReachesNoOther` |
| `late_cancel` | 2 threads, disciplined | violated: `InstalledForDuration` |
| `preview_tap` | a view with two surfaces, another client, 1 frame, 2 lives of the service, fair | `ImplementsListenerSet`: the tap refines the set of listeners; `CookiesOwned`, `EntriesAreWatched`, `SubscribedIsBound`, `LossHasCause`, `DeadEventuallyRemoved` |
| `cookie_lifetime` | 2 frames, 2 lives | violated: `NoFreedCookieRead` |
| `preview_path` | 2 threads, 2 lives of the vendor service, any number of lives of this one | `HandedOutIsRegistered`, `TapStaysAttached`, `AtMostOneLateFrame`, `BoundWhileUsed`, `HandedOutIsKept`, `BoundInTheEnd` |
| `stray_frame` | the same | violated: `StrayDropped` |
| `data_paths` | 72 tokens, 74 byte vectors, 1944 frames, 12 views | `HatArrivesWhole`, `ReportedHatIsVendors`, `AdmittedIsRendered`, `PreviewCoversView` |

`session_operations` is run up to the exchange of sessions and threads: both are sets
that occur in the specification only as sets, and the run has no liveness property.

`InstalledForDuration` speaks of an operation from its acceptance until it is answered, or its last report is
handled if that comes first: an extended verdict that follows the answer is outside it.

`LossHasCause` and the refinement permit that a live listener is dropped after one failed `onFrame`, as the
code does; they show that nobody else is dropped with it. `TapStaysAttached` excepts a process that found no vendor
service when it attached the tap. `StartsForItsUser` speaks of sessions whose user was set; an operation of
another session is not excluded by anything in the code. `ReportUnderway` and `EntriesAreWatched` are the safety under two liveness properties: what must
arrive is never lost, whatever the fairness. `BoundWhileUsed` and `HandedOutIsKept` justify what
two modules take for granted: that `Begin` in `PreviewPath` has nothing to bind, and that `bound` in
`SamsungSession` is never reset.

One thread in `session_scheduled` means that a cancellation runs to its end
before the next call is issued. That is the difference to `late_cancel`, where a second thread runs
the cancellation beside the next operation, and the same property fails.

### Fairness

`FairSpec` assumes that a binder thread finishes the method it runs, that the
hwbinder thread handles the queue (`main.cpp:29-32` parks one in the pool), and
that the vendor HAL ends an operation it accepted: enroll is given a timeout of
75 s (`SamsungSession.cpp:185`), and an authentication ends in a match, an error or a
cancellation. Nothing is assumed of the framework: it need never call, cancel or close.
That authentication ends without being cancelled is an assumption about the
vendor service, not a fact of this code.

`FacePreviewView!FairSpec` assumes that libbinder delivers the notifications it accepted and that the calls
of a dead client come to an end, and nothing of views, frames or the service. `PreviewPath!FairSpec` assumes that
threads run, and, of `sehSetCallback` alone, strongly: a vendor service that stays up does not
fail it for ever. `BoundInTheEnd` has as hypotheses that the vendor service comes to stay and
that sessions keep being created; nothing else in the code tries the connection.

## What the code does not keep

Six statements of the comments are not kept; each of the first five has a run that TLC ends with a
counterexample, those of the sessions under a disciplined framework:

1. *A cancelled enrollment is never concluded.* The signal of `enroll` calls
   `cancel()` and then `endOperation()` (`SamsungSession.cpp:207-208`). The HAL's
   `onError(CANCELED)` finds an empty slot (`HidlCallbackBridge.cpp:219`). The signal of
   `authenticate` does not end the operation, and `AuthenticateConcludes` holds.
2. *An event of an ended operation reaches the next session.* `endOperation`
   clears the pointer so that it cannot (`HidlCallbackBridge.cpp:130-132`), but the extended verdict
   is forwarded to whoever holds the slot (`:277`). So is the late `onRemoved` that
   `SamsungSession.cpp:281-283` calls redundant.
3. *A late cancel ends the next operation*, whose callback was promised to be
   installed "for the duration" (`HidlBackend.h:43-44`).
4. *A death notification reads a freed cookie.* Removal unlinks and deletes (`FacePreviewTap.cpp:55-57`);
   a notification taken before reads the memory after. And with no race at all:
   `onListenerDied` passes `c->binder` by reference, and `removeByBinder` deletes `c` and goes on
   comparing. `FacePreviewTap.h:50-53` asks for the opposite. `CookiesOwned` and the refinement hold
   even so; `LossHasCause` excepts what follows such a read.
5. *Frames after an operation are fanned out.* The mode is not reset when an operation concludes, so the
   check of `HidlCallbackBridge.cpp:325-331` passes until the next begin, cancel or close. After
   a cancel or close, at most one frame is late.
6. *A dead listener may stay in the list.* The status of `AIBinder_linkToDeath` is dropped and the entry pushed
   (`FacePreviewTap.cpp:35-36`). A client's second `registerListener`, taken after `onListenerDied` has removed its entry,
   is refused the link; without a frame nothing removes that entry, although "a DeathRecipient cleans up listeners whose clients have
   died" (`FacePreviewTap.h:23-24`). It has no run of its own: `EntriesAreWatched` and `DeadEventuallyRemoved` in
   `preview_tap` except exactly these entries (`Unwatched`), and fail without the exception. A view, which brings a new
   listener to each bind, has none.

Noted while modelling, not made a run:

- Requests on a session without the service return and never answer, `invalidateAuthenticatorId`
  excepted, although the answer is asynchronous and the caller waits.
- The constructor skips `setActiveUser` (range, service missing) or only logs its refusal, and the session's
  operations are accepted all the same; `SamsungSession.cpp:79-82` calls it necessary "before any operation".
- `setFeature` reports success for a refusal; a match whose extended token is refused is
  reported as a success and then as a failure; `cancel` stops whatever the vendor HAL runs,
  whoever started it.
- If the vendor service is not up when `main` attaches the tap, there is no bridge to attach it to, and
  nothing repeats it (`missed`): that process shows no preview.
- A callback registration that the vendor service refuses with a status is taken for a good one
  (`HidlBackend.cpp:52-56`).
- A vendor service that restarts is found again only because a call on the old proxy ends this process
  (`BoundInTheEnd` and its mutant). An operation that it ran is never concluded.
- A live listener whose `onFrame` failed once is dropped and not told; a view tries to bind once for each
  surface, and is not told when the service dies.
- The comment at `HidlCallbackBridge.cpp:33-42` has all integers of the token in network byte order; the code
  and the comment at `:68-70` have three of them little-endian.

## Proofs

`BridgeRoutingProofs.tla`, for any sessions and any bounds:

| theorem | statement |
|---|---|
| `RoutingTypeCorrect` | `RoutingSpec => []RoutingTypeOK` |
| `BridgeImplementsRouter` | `RoutingSpec => ImplementsRouter` |

All nine handlers are first shown to take one kind of step (`HandlerStep`): take the head of the
queue and, if the slot is held with a mode the event concerns, choose a call that fits. Under the
mapping that step is `Route` or `Drop`, and `Deliver` is a stutter. The type invariant is
needed for one thing: a chosen call is a message, so it differs from "no message",
and the mapping counts it.

`SamsungSessionProofs.tla`, for any sets of sessions, threads, methods and events,
any bounds, and a framework disciplined or not:

| theorem | statement |
|---|---|
| `InductiveInvariant` | `Spec => []IInv` |
| `TypeCorrect` | `Spec => []TypeOK` |
| `ResultsMatch` | `Spec => []ResultMatchesOperation` |
| `ClosedIsForgotten` | `Spec => []ClosedNotInstalled` |
| `NoCallAfterClose` | `Spec => NoNewCallToClosed` |
| `RefusedGivesBack` | `Spec => []SlotIsOfOperation` |
| `NeverSilent` | `Spec => []NoSilentReturn` |

`SamsungSessionAnswerProofs.tla`, under the same conditions:

| theorem | statement |
|---|---|
| `RequestsAnswered` | `Spec => []UserSetRequestsAnswered` |

`SamsungSessionDisciplineProofs.tla`, for any sets and bounds:

| theorem | hypotheses | statement |
|---|---|---|
| `StartsForTheUser` | `Disciplined` | `Spec => StartsForItsUser` |
| `InstalledThroughout` | `Disciplined`, `Serial` | `Spec => []InstalledForDuration` |
| `ConclusionNeverLost` | `Disciplined`, `Serial` | `Spec => []ReportUnderway` |

`Serial` is: one binder thread, or a framework that never enrolls. With both two threads and enrollments the
last two statements are false, which the run `late_cancel` shows.

`FacePreviewViewProofs.tla`, for any clients, views, listeners, cookies, frames and lives of the service:

| theorem | statement |
|---|---|
| `Invariant` | `Spec => []IInv` |
| `Typed`, `NoCookieLeaks`, `AlwaysWatched`, `NoStaleSubscription` | `[]TypeOK`, `[]CookiesOwned`, `[]EntriesAreWatched`, `[]SubscribedIsBound` |
| `LossOnlyWithCause` | `Spec => LossHasCause` |
| `TapImplementsListenerSet` | `Spec => ImplementsListenerSet` |

`PreviewPathProofs.tla`, for any sessions, threads, queue and lives of the vendor service:

| theorem | statement |
|---|---|
| `PathInvariant` | `Spec => []IInv` |
| `PathTyped`, `BoundHasCallback`, `TapForLife`, `OneLateFrame`, `UsedWhileBound` | `[]TypeOK`, `[]HandedOutIsRegistered`, `[]TapStaysAttached`, `[]AtMostOneLateFrame`, `[]BoundWhileUsed` |
| `ServiceIsKept` | `Spec => HandedOutIsKept` |

`DataPathsProofs.tla`, for every token, byte vector, frame and view:

| theorem | statement |
|---|---|
| `TokensArriveWhole` | `Spec => []HatArrivesWhole` |
| `ReportedTokensAreVendors` | `Spec => []ReportedHatIsVendors` |
| `AdmittedFramesAreRendered` | `Spec => []AdmittedIsRendered` |
| `PreviewAlwaysCovers` | `Spec => []PreviewCoversView` |

The assumptions are those the modules name: `None` is no session and no message,
the bounds are natural numbers, `Method`, `InRange` and `Sent` are sets of the right things.

Why an invariant is needed. Of the three safety properties of `SamsungSessionProofs` none is inductive. That a closed session is
not installed depends on no thread being about to install it: so `IInv` says what
each thread can be running (`FrameOK`: a method of an open session, a
cancellation, the constructor of a new session, the close of a closing
one, which by its reply step has cleared the slot or lost it to another) and that two threads never
hold one session. That a result matches needs the slot to match first: the mode
is `kEnroll` only if the session in the slot issued an enroll, and a begin step
writes a mode and a callback that belong to one call. That no return is silent needs the
reply of an enroll or authenticate to be the error that answers it, and the call that a
thread runs to be the one `calls` has under its number. The proof takes the
conjuncts of `IInv` one at a time: lemmas first summarise what each step does to the
slot, to `pending`, to the threads and to the history; then each conjunct is
preserved by cases on the actions that touch its variables. `NoCallAfterClose` follows: only a handler chooses a call
(`OnlyHandlersChoose`), it chooses the callback in the slot, and that is of no closed session. `RefusedGivesBack` needs
one more invariant, `SlotHeld`: the thread that still asks for the operation in the slot is at its vendor call or at the end that
gives the slot back, never past it.

`AnswerInv` adds what the answers need on top of `IInv`: a user that was set, or is about to be, means
that the service is bound (so no `getSeh` comes back empty for that session); a session takes calls
only after its constructor, which sets the user before (so the user is not set behind a request that found
no service); and what a thread is about to say on a session callback is an answer to the method
it runs. A synchronous request then leaves `Running` only by its reply.

`UserInv` adds, under discipline: no two threads run calls, no two sessions are live, a
constructor runs when none is, and so the user that was set last is that of the live session. It
holds on any number of threads, because a cancellation sets no user.

`SerialInv` adds, under discipline and `Serial`: the framework waits for the last call at most
(`LastOnly`); what the vendor HAL runs, and each report on its way, belongs to a call of a method that is
so reported on (`FlightOK`); a method that is about to make its vendor call has the slot, with its
mode, and nothing of it is in flight yet (`MethodReady`); and a cancellation of an enrollment is that of the last call, with
no call beside it (`CancelSerial`). That last conjunct is the one that fails on two threads, when the
enrollment concludes beside its cancellation and the next operation begins before `endOperation`.
`ReportUnderway` then follows for each step of the hwbinder thread: the report at the head of the queue finds
the slot held by the caller, with the mode that lets it through, and becomes `pending`. TLC checked both
invariants, on one thread and on two without enrollments, before they were proved.

The tap's invariant adds three things to its properties: a dispatch serves a listener once
(needed for the refinement: what is taken from `due` must not be left there by a second entry),
a notification in progress is of a dead client (needed for `LossHasCause`), and a view that is about to call
has a listener. For `EntriesAreWatched` it adds that a listener a view has not tried yet is none of those the tap
has come to know (`Known`: those with an allocated or freed cookie or an obituary), so that a view's link is never refused
(`UntriedIsNew`). All three removal paths are one lemma, `EraseKeeps`: whatever set of entries
is erased, their cookies and no others are freed, and no link ends but theirs; a notification that is over
has erased its own entry, or its cookie was freed and has none. `SubscribedIsBound` is inductive; its proof shows for
each step of a view which entries can be left. That of the path adds that the vendor service never reuses a
number, that only the main thread attaches the tap and does nothing before, and that a frame
let through means that none was late: that is what makes one late frame the last. `BoundWhileUsed` holds together with the
type of `lock`: a thread inside `sehSetCallback` found no binding when it got there, so no thread was using one,
and a thread that goes on after `getSeh` has found one with nobody inside.
The codec's round trips are proved byte by byte from the ranges of the offsets; the geometry from
the two facts that scaling by the larger ratio covers both sides and that the four rotations
map the corners of the frame to corners.

Left to TLC: the four liveness properties (`AuthenticateConcludes`, `UncancelledEnrollConcludes`,
`DeadEventuallyRemoved`, `BoundInTheEnd`), because the prover handles neither fairness nor `ENABLED`; and the five
statements that runs refute. Every other property of the passing runs is a theorem.

## Not modelled

`getSensorProps`, `getEnrollmentConfig` and `onContextChanged` change no state; the
context and options variants delegate; `setPreviewSurface` has an empty body. Reading the shared memory, image
decoding and drawing are rendering; that all frames share one memory region, which a slow
listener may find overwritten, depends on the vendor HAL's writes, which are not in the
repository. Rounding of floats in the view's matrix is left out (`FrameGeometry` is exact). Logging,
the build files and the policy have no behaviour.

## Plan

Done: the callback bridge with its abstract router and the refinement proof; the sessions
over it with their inductive invariant; the binding and the process life cycle; the tap with its
abstract set of listeners, its clients and the refinement proof; the data paths; every safety and
action property proved. Left:

1. A refinement in place of the two properties that tie `SamsungSession` to `HidlBackend`: the binding as an
   abstract specification that the backend implements and the sessions use.
2. `SamsungSession` with a vendor service that dies during an operation, if the code comes to handle that.
