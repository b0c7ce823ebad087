-------------------------- MODULE PreviewPathProofs --------------------------
(***************************************************************************)
(* The binding, the tap and late frames, for any number of sessions and    *)
(* threads, any queue, and any number of lives of the vendor service.      *)
(***************************************************************************)
EXTENDS PreviewPath, TLAPS

Step == {"idle", "bind", "attach", "begin", "call", "end"}

\* Only the main thread attaches the tap, and does nothing else before.
Threads == /\ th \in [Thread -> [pc: Step, job: Job]]
           /\ open \in BOOLEAN
           /\ \A t \in Thread : th[t].job = "attach" => t = Main
           /\ \A t \in Thread : th[t].job = "attach" => th[t].pc \in {"bind", "attach"}
           /\ \A t \in Thread : th[t].pc = "attach" => th[t].job = "attach"

\* A vendor process never comes back under its old number.
Backend == /\ BackendTypeOK
           /\ vendor.up => vendor.life # 0
           /\ mSeh <= vendor.life
           /\ HandedOutIsRegistered

\* A frame that was let through belongs to an operation, and the first frame
\* that comes late is the last.
Frames == /\ BridgeTypeOK
          /\ signal \in Operation \cup {None}
          /\ fan \in Event \cup {None}
          /\ late \in 0..1
          /\ missed \in BOOLEAN
          /\ mMode # "kNone" => late = 0
          /\ fan # None => late = 0

IInv == Threads /\ Backend /\ Frames /\ TapStaysAttached /\ BoundWhileUsed

Using == {"begin", "call"}

-----------------------------------------------------------------------------
(* The threads.                                                            *)

LEMMA GotoKeeps ==
  ASSUME Threads, NEW t \in Thread, NEW pc \in Step, Goto(t, pc),
         pc = "attach" <=> th[t].job = "attach"
  PROVE  /\ Threads' /\ th'[t].pc = pc
         /\ \A u \in Thread : th'[u].job = th[u].job
         /\ \A u \in Thread : u # t => th'[u] = th[u]
<1>1. /\ th' \in [Thread -> [pc: Step, job: Job]]
      /\ th'[t].pc = pc /\ th'[t].job = th[t].job
      /\ \A u \in Thread : u # t => th'[u] = th[u]
  BY DEF Goto, Threads
<1>2. open' = open
  BY DEF Goto
<1> QED
  BY <1>1, <1>2 DEF Threads

LEMMA ReturnKeeps ==
  ASSUME Threads, NEW t \in Thread, Return(t)
  PROVE  /\ Threads'
         /\ \A u \in Thread : u # t => th'[u] = th[u]
         /\ th'[t].job = "none" /\ th'[t].pc = "idle"
<1>1. Idle \in [pc: Step, job: Job] /\ Idle.pc = "idle" /\ Idle.job = "none"
  BY DEF Idle, Step, Job
<1>2. /\ th' \in [Thread -> [pc: Step, job: Job]] /\ th'[t] = Idle
      /\ \A u \in Thread : u # t => th'[u] = th[u]
  BY <1>1 DEF Return, Threads
<1>3. open' \in BOOLEAN
  BY DEF Return, Threads
<1> QED
  BY <1>1, <1>2, <1>3 DEF Threads

\* Whatever a thread goes on with, the main thread is not done with the tap, and
\* no thread uses a service that was not found.
LEMMA ContinueKeeps ==
  ASSUME Threads, NEW t \in Thread, NEW found \in BOOLEAN, Continue(t, found)
  PROVE  /\ Threads'
         /\ \A u \in Thread : th'[u].job = "attach" <=> th[u].job = "attach"
         /\ found \/ \A u \in Thread : th'[u].pc \in Using => th[u].pc \in Using
<1>1. th[t].job \in Job
  BY DEF Threads
<1>2. CASE th[t].job = "attach"
  <2>1. Goto(t, "attach") /\ "attach" \in Step
    BY <1>2 DEF Continue, Step, Operation
  <2> QED
    BY <1>2, <2>1, GotoKeeps DEF Using
<1>3. CASE th[t].job # "attach"
  <2>1. \/ Return(t)
        \/ \E pc \in Step \ {"attach"} : Goto(t, pc) /\ (found \/ pc \notin Using)
    BY <1>1, <1>3 DEF Continue, Step, Operation, Job, Using
  <2>2. CASE Return(t)
    BY <1>3, <2>2, ReturnKeeps DEF Using
  <2>3. ASSUME NEW pc \in Step \ {"attach"}, Goto(t, pc), found \/ pc \notin Using
        PROVE  /\ Threads' /\ \A u \in Thread : th'[u].job = th[u].job
               /\ found \/ \A u \in Thread : th'[u].pc \in Using => th[u].pc \in Using
    BY <1>3, <2>3, GotoKeeps
  <2> QED
    BY <2>1, <2>2, <2>3
<1> QED
  BY <1>2, <1>3

LEMMA Restarted ==
  ASSUME th' = Starting, open' = FALSE
  PROVE  /\ Threads' /\ th'[Main].job = "attach"
         /\ \A u \in Thread : th'[u].pc \notin Using
BY PathAssumption DEF Threads, Starting, Idle, Step, Job, Using

-----------------------------------------------------------------------------
(* The backend.                                                            *)

LEMMA BackendUnchanged ==
  ASSUME Backend, UNCHANGED backendVars
  PROVE  Backend'
BY DEF Backend, backendVars, BackendTypeOK, HandedOutIsRegistered, Reachable

LEMMA FoundKeeps ==
  ASSUME Backend, NEW t \in Thread, Found(t)
  PROVE  Backend' /\ mTap' = mTap
<1>1. vendor.life # 0 /\ vendor.life \in 0..MaxLives /\ t # None
  BY BackendAssumption DEF Backend, BackendTypeOK, Found
<1>2. /\ vendor' = vendor /\ mSeh' = vendor.life /\ mBridge' = TRUE
      /\ mTap' = mTap /\ lock' = t
  BY DEF Found, MakeBridge
<1> QED
  BY <1>1, <1>2, BackendAssumption DEF Backend, BackendTypeOK, HandedOutIsRegistered

LEMMA RegisteredKeeps ==
  ASSUME Backend, NEW t \in Thread, Registered(t)
  PROVE  Backend' /\ mTap' = mTap
<1>1. PICK client \in {"bridge", "refused"} : vendor' = [vendor EXCEPT !.client = client]
  BY DEF Registered
<1>2. /\ vendor' \in [up: BOOLEAN, life: 0..MaxLives, op: {"none", "running", "over"},
                      client: {"none", "bridge", "refused"}]
      /\ vendor'.up = vendor.up /\ vendor'.life = vendor.life /\ vendor'.client # "none"
  BY <1>1 DEF Backend, BackendTypeOK
<1>3. mSeh' = mSeh /\ mBridge' = mBridge /\ mTap' = mTap /\ lock' = None
  BY DEF Registered
<1> QED
  BY <1>2, <1>3 DEF Backend, BackendTypeOK, HandedOutIsRegistered

LEMMA TornDownKeeps ==
  ASSUME Backend, NEW t \in Thread, TornDown(t)
  PROVE  Backend' /\ mTap' = mTap
<1>1. /\ vendor' = vendor /\ mSeh' = 0 /\ mBridge' = mBridge /\ mTap' = mTap
      /\ lock' = None
  BY DEF TornDown
<1> QED
  BY <1>1, BackendAssumption DEF Backend, BackendTypeOK, HandedOutIsRegistered, Reachable

LEMMA AttachKeeps ==
  ASSUME Backend, AttachPreviewTap
  PROVE  Backend' /\ mTap' = mBridge
BY DEF AttachPreviewTap, Backend, BackendTypeOK, HandedOutIsRegistered, Reachable

LEMMA ProcessEndsKeeps ==
  ASSUME Backend, ProcessEnds
  PROVE  Backend'
<1>1. /\ vendor' \in [up: BOOLEAN, life: 0..MaxLives, op: {"none", "running", "over"},
                      client: {"none", "bridge", "refused"}]
      /\ vendor'.up = vendor.up /\ vendor'.life = vendor.life
  BY DEF ProcessEnds, Backend, BackendTypeOK
<1>2. mSeh' = 0 /\ mBridge' = FALSE /\ mTap' = FALSE /\ lock' = None
  BY DEF ProcessEnds
<1>3. mSeh' \in 0..MaxLives /\ mSeh' <= vendor'.life
  BY <1>1, <1>2, BackendAssumption
<1>4. BackendTypeOK'
  BY <1>1, <1>2, <1>3 DEF BackendTypeOK
<1>5. (vendor'.up => vendor'.life # 0) /\ HandedOutIsRegistered'
  BY <1>1, <1>2 DEF Backend, HandedOutIsRegistered, Reachable
<1> QED
  BY <1>3, <1>4, <1>5 DEF Backend

\* The vendor service on its own: it starts, dies, or goes on with its operation.
LEMMA VendorKeeps ==
  ASSUME Backend,
         VendorStarts \/ VendorDies \/ (\E stage \in {"running", "over"} : Operates(stage))
  PROVE  Backend' /\ mTap' = mTap
<1>1. mSeh' = mSeh /\ mBridge' = mBridge /\ mTap' = mTap /\ lock' = lock
  BY DEF VendorStarts, VendorDies, Operates
<1>2. vendor \in [up: BOOLEAN, life: 0..MaxLives, op: {"none", "running", "over"},
                  client: {"none", "bridge", "refused"}]
  BY DEF Backend, BackendTypeOK
<1>3. CASE VendorStarts
  <2>1. vendor' = [up |-> TRUE, life |-> vendor.life + 1, op |-> "none", client |-> "none"]
        /\ vendor.life + 1 \in 0..MaxLives /\ vendor.life + 1 # 0
    BY <1>2, <1>3, BackendAssumption DEF VendorStarts
  <2>2. mSeh <= vendor.life /\ vendor.life \in Nat /\ mSeh \in Nat
    BY <1>2, BackendAssumption DEF Backend, BackendTypeOK
  <2> QED
    BY <1>1, <2>1, <2>2 DEF Backend, BackendTypeOK, HandedOutIsRegistered, Reachable
<1>4. CASE VendorDies
  <2>1. /\ vendor' \in [up: BOOLEAN, life: 0..MaxLives, op: {"none", "running", "over"},
                        client: {"none", "bridge", "refused"}]
        /\ ~vendor'.up /\ vendor'.life = vendor.life
    BY <1>2, <1>4 DEF VendorDies
  <2> QED
    BY <1>1, <2>1 DEF Backend, BackendTypeOK, HandedOutIsRegistered, Reachable
<1>5. CASE \E stage \in {"running", "over"} : Operates(stage)
  <2>1. /\ vendor' \in [up: BOOLEAN, life: 0..MaxLives, op: {"none", "running", "over"},
                        client: {"none", "bridge", "refused"}]
        /\ vendor'.up = vendor.up /\ vendor'.life = vendor.life
        /\ vendor'.client = vendor.client
    BY <1>2, <1>5 DEF Operates
  <2> QED
    BY <1>1, <2>1 DEF Backend, BackendTypeOK, HandedOutIsRegistered, Reachable
<1> QED
  BY <1>3, <1>4, <1>5

-----------------------------------------------------------------------------
(* The bridge and the frames.                                              *)

LEMMA FramesUnchanged ==
  ASSUME Frames, UNCHANGED bridgeVars, UNCHANGED <<fan, late>>,
         signal' \in Operation \cup {None}, missed' \in BOOLEAN
  PROVE  Frames'
BY DEF Frames, bridgeVars, BridgeTypeOK

LEMMA BeginKeeps ==
  ASSUME Frames, NEW mode \in OpMode, NEW s \in Session, BeginOperation(mode, s),
         late' = IF mMode' = "kNone" THEN late ELSE 0,
         UNCHANGED <<evq, pending, signal, fan, missed>>
  PROVE  Frames'
BY DEF Frames, BeginOperation, BridgeTypeOK

LEMMA EndKeeps ==
  ASSUME Frames, EndOperation, UNCHANGED <<evq, pending, signal, fan, late, missed>>
  PROVE  Frames'
BY DEF Frames, EndOperation, BridgeTypeOK, OpMode

LEMMA FreshFrames ==
  ASSUME mMode' = "kNone", mCb' = None, evq' = <<>>, pending' = None, signal' = None,
         fan' = None, late' = 0, missed' = FALSE
  PROVE  Frames'
<1>1. BridgeTypeOK'
  BY DEF BridgeTypeOK, OpMode
<1>2. late' \in 0..1 /\ signal' \in Operation \cup {None} /\ fan' \in Event \cup {None}
  OBVIOUS
<1>3. missed' \in BOOLEAN
  OBVIOUS
<1> QED
  BY <1>1, <1>2, <1>3 DEF Frames

LEMMA PreviewFrameKeeps ==
  ASSUME Frames, PreviewFrame
  PROVE  Frames'
<1>1. evq # <<>> /\ evq' = Tail(evq) /\ pending' = None /\ mMode' = mMode /\ mCb' = mCb
  BY DEF PreviewFrame, SehOnPreviewFrame, Forward, slotVars
<1>2. Head(evq) \in Event /\ evq' \in Seq(Event)
  BY <1>1 DEF Frames, BridgeTypeOK
<1>3. /\ fan' \in Event \cup {None} /\ (fan' # None => mMode # "kNone")
      /\ late' = late /\ missed' = missed /\ signal' = signal
  BY <1>2 DEF PreviewFrame, FansOut
<1> QED
  BY <1>1, <1>2, <1>3 DEF Frames, BridgeTypeOK

LEMMA FanOutKeeps ==
  ASSUME Frames, FanOut
  PROVE  Frames'
<1>1. /\ fan # None /\ fan' = None
      /\ late' = IF mMode = "kNone" /\ late < 2 THEN late + 1 ELSE late
      /\ UNCHANGED bridgeVars /\ signal' = signal /\ missed' = missed
  BY DEF FanOut
<1>2. late = 0
  BY <1>1 DEF Frames
<1>3. late' \in 0..1 /\ (mMode # "kNone" => late' = 0)
  BY <1>1, <1>2
<1> QED
  BY <1>1, <1>3 DEF Frames, BridgeTypeOK, bridgeVars

LEMMA VendorFrameKeeps ==
  ASSUME Frames, VendorFrame, UNCHANGED <<signal, fan, late, missed>>
  PROVE  Frames'
<1>1. "sehOnPreviewFrame" \in Handler
  BY DEF Handler
<1>2. PICK arg \in Args["sehOnPreviewFrame"], n \in {0, 1} :
        evq' = Append(evq, [on |-> "sehOnPreviewFrame", arg |-> arg, id |-> n])
  BY DEF VendorFrame
<1>3. arg \in Arg
  BY <1>1 DEF Arg
<1>4. n \in 0..MaxCalls
  BY PathAssumption, BridgeAssumption
<1>5. [on |-> "sehOnPreviewFrame", arg |-> arg, id |-> n] \in Event
  BY <1>1, <1>3, <1>4 DEF Event
<1>6. evq' \in Seq(Event)
  BY <1>2, <1>5 DEF Frames, BridgeTypeOK
<1>7. mMode' = mMode /\ mCb' = mCb /\ pending' = pending
  BY DEF VendorFrame
<1> QED
  BY <1>6, <1>7 DEF Frames, BridgeTypeOK

-----------------------------------------------------------------------------
(* Each action keeps the invariant.                                        *)

\* Nothing that matters to the tap happens: main is where it was with it.
LEMMA TapKept ==
  ASSUME TapStaysAttached, th'[Main].job # "attach" => th[Main].job # "attach",
         mTap' = mTap, missed' = missed
  PROVE  TapStaysAttached'
BY DEF TapStaysAttached

\* The service is bound when a thread goes on to use it, or is left as it is, or
\* nobody uses it.
LEMMA UseKept ==
  ASSUME BoundWhileUsed,
         \/ lock' = None /\ mSeh' # 0
         \/ /\ UNCHANGED <<lock, mSeh>>
            /\ \A u \in Thread : th'[u].pc \in Using => th[u].pc \in Using
         \/ \A u \in Thread : th'[u].pc \notin Using
  PROVE  BoundWhileUsed'
BY DEF BoundWhileUsed, Using

LEMMA CallKeeps ==
  ASSUME IInv, NEW t \in Thread, NEW job \in Job \ {"none", "attach"}, Call(t, job)
  PROVE  IInv'
<1>1. /\ th' = [th EXCEPT ![t] = [pc |-> "bind", job |-> job]]
      /\ open' = open /\ th[Main].job # "attach"
      /\ UNCHANGED bridgeVars /\ UNCHANGED backendVars /\ UNCHANGED <<fan, late, missed>>
  BY DEF Call
<1>2. [pc |-> "bind", job |-> job] \in [pc: Step, job: Job]
  BY DEF Step
<1>3. Threads'
  BY <1>1, <1>2 DEF IInv, Threads
<1>4. Backend' /\ mTap' = mTap
  BY <1>1, BackendUnchanged DEF IInv, backendVars
<1>5. signal' \in Operation \cup {None}
  BY DEF Call, IInv, Frames
<1>6. missed' \in BOOLEAN
  BY <1>1 DEF IInv, Frames
<1>7. Frames'
  BY <1>1, <1>5, <1>6, FramesUnchanged DEF IInv
<1>8. TapStaysAttached'
  BY <1>1, <1>4, TapKept DEF IInv
<1>9. \A u \in Thread : th'[u].pc \in Using => th[u].pc \in Using
  BY <1>1 DEF IInv, Threads, Using
<1>10. BoundWhileUsed'
  BY <1>1, <1>9, UseKept DEF IInv, backendVars
<1> QED
  BY <1>3, <1>4, <1>7, <1>8, <1>10 DEF IInv

LEMMA BindKeeps ==
  ASSUME IInv, NEW t \in Thread, Bind(t) \/ Register(t)
  PROVE  IInv'
<1>1. /\ UNCHANGED bridgeVars /\ UNCHANGED <<signal, fan, late, missed>>
  BY DEF Bind, Register
<1>2. Frames'
  BY <1>1, FramesUnchanged DEF IInv, Frames
<1>3. Backend' /\ mTap' = mTap
  <2>1. CASE BoundAlready \/ NotFound
    BY <2>1, BackendUnchanged DEF BoundAlready, NotFound, backendVars, IInv
  <2>2. CASE Found(t) \/ TornDown(t) \/ Registered(t)
    BY <2>2, FoundKeeps, TornDownKeeps, RegisteredKeeps DEF IInv
  <2> QED
    BY <2>1, <2>2 DEF Bind, Register
<1>4. Threads' /\ (th'[Main].job # "attach" => th[Main].job # "attach")
  <2>1. CASE \E found \in BOOLEAN : Continue(t, found)
    BY <2>1, ContinueKeeps, PathAssumption DEF IInv
  <2>2. CASE UNCHANGED <<th, open>>
    BY <2>2 DEF IInv, Threads
  <2> QED
    BY <2>1, <2>2 DEF Bind, Register
<1>5. TapStaysAttached'
  BY <1>1, <1>3, <1>4, TapKept DEF IInv
<1>6. BoundWhileUsed'
  <2>1. t # None /\ (lock # None => mSeh # 0)
    BY BackendAssumption DEF IInv, Backend, BackendTypeOK
  <2>2. mSeh = 0 \/ lock # None => \A u \in Thread : th[u].pc \notin Using
    BY DEF IInv, BoundWhileUsed, Using
  <2>3. CASE BoundAlready \/ Registered(t)
    <3>1. lock' = None /\ mSeh' # 0
      BY <2>1, <2>3 DEF BoundAlready, Registered, backendVars
    <3> QED
      BY <3>1, UseKept DEF IInv
  <2>4. CASE (NotFound \/ TornDown(t)) /\ Continue(t, FALSE)
    <3>1. \A u \in Thread : th'[u].pc \notin Using
      BY <2>1, <2>2, <2>4, ContinueKeeps DEF IInv, NotFound, TornDown
    <3> QED
      BY <3>1, UseKept DEF IInv
  <2>5. CASE Found(t) /\ UNCHANGED <<th, open>>
    <3>1. \A u \in Thread : th'[u].pc \notin Using
      BY <2>2, <2>5 DEF Found
    <3> QED
      BY <3>1, UseKept DEF IInv
  <2> QED
    BY <2>3, <2>4, <2>5 DEF Bind, Register
<1> QED
  BY <1>2, <1>3, <1>4, <1>5, <1>6 DEF IInv

LEMMA AttachTapKeeps ==
  ASSUME IInv, NEW t \in Thread, Attach(t)
  PROVE  IInv'
<1>1. /\ AttachPreviewTap /\ missed' = ~mBridge /\ Return(t)
      /\ UNCHANGED bridgeVars /\ UNCHANGED <<signal, fan, late>>
  BY DEF Attach
<1>2. Threads'
  BY <1>1, ReturnKeeps DEF IInv
<1>3. Backend' /\ mTap' = mBridge
  BY <1>1, AttachKeeps DEF IInv
<1>4. mBridge \in BOOLEAN
  BY DEF IInv, Backend, BackendTypeOK
<1>5. Frames'
  BY <1>1, <1>4, FramesUnchanged DEF IInv, Frames
<1>6. TapStaysAttached'
  BY <1>1, <1>3, <1>4 DEF TapStaysAttached
<1>7. \A u \in Thread : th'[u].pc \in Using => th[u].pc \in Using
  BY <1>1, ReturnKeeps DEF IInv, Using
<1>8. BoundWhileUsed'
  BY <1>1, <1>7, UseKept DEF IInv, AttachPreviewTap
<1> QED
  BY <1>2, <1>3, <1>5, <1>6, <1>8 DEF IInv

\* The thread that begins, ends or is refused an operation is not the one that
\* attaches the tap.
LEMMA BeginEndKeep ==
  ASSUME IInv, NEW t \in Thread, Begin(t) \/ End(t)
  PROVE  IInv'
<1>1. th[t].job # "attach"
  BY DEF Begin, End, IInv, Threads
<1>2. UNCHANGED backendVars /\ missed' = missed
  BY DEF Begin, End
<1>3. Backend' /\ mTap' = mTap
  BY <1>2, BackendUnchanged DEF IInv, backendVars
<1>4. CASE Begin(t)
  <2>1. Goto(t, "call") /\ "call" \in Step
    BY <1>4 DEF Begin, Step
  <2>2. /\ Threads' /\ th'[Main].job = th[Main].job
        /\ \A u \in Thread : th'[u].pc \in Using => th[u].pc \in Using
    <3>1. th[t].pc \in Using
      BY <1>4 DEF Begin, Using
    <3> QED
      BY <1>1, <2>1, <3>1, GotoKeeps, PathAssumption DEF IInv
  <2>3. PICK s \in Session :
          BeginOperation(CASE th[t].job = "enroll" -> "kEnroll"
                           [] th[t].job = "authenticate" -> "kAuthenticate"
                           [] OTHER -> "kNone", s)
    BY <1>4 DEF Begin
  <2>4. \E mode \in OpMode : BeginOperation(mode, s)
    BY <2>3 DEF OpMode
  <2>5. Frames'
    BY <1>4, <2>4, BeginKeeps DEF Begin, IInv
  <2> QED
    BY <1>2, <1>3, <2>2, <2>5, TapKept, UseKept DEF IInv, backendVars
<1>5. CASE End(t)
  <2>1. /\ Threads' /\ (th'[Main].job # "attach" => th[Main].job # "attach")
        /\ \A u \in Thread : th'[u].pc \in Using => th[u].pc \in Using
    BY <1>1, <1>5, ReturnKeeps, PathAssumption DEF End, IInv, Using
  <2>2. Frames'
    BY <1>5, EndKeeps DEF End, IInv
  <2> QED
    BY <1>2, <1>3, <2>1, <2>2, TapKept, UseKept DEF IInv, backendVars
<1> QED
  BY <1>4, <1>5

LEMMA VendorCallKeeps ==
  ASSUME IInv, NEW t \in Thread, VendorCall(t)
  PROVE  IInv'
<1>1. th[t].job # "attach" /\ th[t].job \in Job
  BY DEF VendorCall, IInv, Threads
<1>2. UNCHANGED bridgeVars /\ UNCHANGED <<fan, late, missed>>
  BY DEF VendorCall
<1>3. /\ Return(t) \/ Goto(t, "end")
      /\ UNCHANGED backendVars \/ Operates("running") \/ Operates("over")
      /\ signal' = signal \/ (signal' = th[t].job /\ th[t].job \in Operation)
  BY <1>1 DEF VendorCall, Operation, Job
<1>4. /\ Threads' /\ (th'[Main].job # "attach" => th[Main].job # "attach")
      /\ \A u \in Thread : th'[u].pc \in Using => th[u].pc \in Using
  BY <1>1, <1>3, ReturnKeeps, GotoKeeps, PathAssumption DEF IInv, Step, Using
<1>5. Backend' /\ mTap' = mTap
  <2>1. CASE UNCHANGED backendVars
    BY <2>1, BackendUnchanged DEF backendVars, IInv
  <2>2. CASE Operates("running") \/ Operates("over")
    BY <2>2, VendorKeeps DEF IInv
  <2> QED
    BY <1>3, <2>1, <2>2
<1>6. signal' \in Operation \cup {None} /\ missed' \in BOOLEAN
  BY <1>2, <1>3 DEF IInv, Frames
<1>7. Frames'
  BY <1>2, <1>6, FramesUnchanged DEF IInv
<1>8. UNCHANGED <<lock, mSeh>>
  BY <1>3 DEF Operates, backendVars
<1> QED
  BY <1>2, <1>4, <1>5, <1>7, <1>8, TapKept, UseKept DEF IInv

LEMMA VendorCallFailsKeeps ==
  ASSUME IInv, NEW t \in Thread, VendorCallFails(t)
  PROVE  IInv'
<1>1. th[t].job # "attach"
  BY DEF VendorCallFails, IInv, Threads
<1>2. CASE Restarts
  <2>1. /\ Threads' /\ th'[Main].job = "attach"
        /\ \A u \in Thread : th'[u].pc \notin Using
    BY <1>2, Restarted DEF Restarts
  <2>2. Backend'
    BY <1>2, ProcessEndsKeeps DEF Restarts, IInv
  <2>3. Frames'
    BY <1>2, FreshFrames DEF Restarts
  <2> QED
    BY <2>1, <2>2, <2>3, UseKept DEF IInv, TapStaysAttached
<1>3. CASE Refused(t)
  <2>1. /\ Return(t) \/ Goto(t, "end")
        /\ UNCHANGED bridgeVars /\ UNCHANGED backendVars
        /\ UNCHANGED <<signal, fan, late, missed>>
    BY <1>3 DEF Refused
  <2>2. /\ Threads' /\ (th'[Main].job # "attach" => th[Main].job # "attach")
        /\ \A u \in Thread : th'[u].pc \in Using => th[u].pc \in Using
    BY <1>1, <2>1, ReturnKeeps, GotoKeeps, PathAssumption DEF IInv, Step, Using
  <2>3. Backend' /\ mTap' = mTap
    BY <2>1, BackendUnchanged DEF IInv, backendVars
  <2>4. Frames'
    BY <2>1, FramesUnchanged DEF IInv, Frames
  <2> QED
    BY <2>1, <2>2, <2>3, <2>4, TapKept, UseKept DEF IInv, backendVars
<1> QED
  BY <1>2, <1>3 DEF VendorCallFails

LEMMA FrameStepsKeep ==
  ASSUME IInv, PreviewFrame \/ FanOut
  PROVE  IInv'
<1>1. UNCHANGED backendVars /\ UNCHANGED <<th, open, missed>>
  BY DEF PreviewFrame, FanOut
<1>2. Backend' /\ mTap' = mTap
  BY <1>1, BackendUnchanged DEF IInv, backendVars
<1>3. Threads'
  BY <1>1 DEF IInv, Threads
<1>4. Frames'
  BY PreviewFrameKeeps, FanOutKeeps DEF IInv
<1> QED
  BY <1>1, <1>2, <1>3, <1>4, TapKept, UseKept DEF IInv, backendVars

LEMMA VendorStepKeeps ==
  ASSUME IInv, VendorStep, UNCHANGED <<th, open, signal, fan, late, missed>>
  PROVE  IInv'
<1>1. Threads'
  BY DEF IInv, Threads
<1>2. BoundWhileUsed'
  <2>1. UNCHANGED <<lock, mSeh>>
    BY DEF VendorStep, VendorStarts, VendorDies, Operates, VendorFrame, backendVars
  <2> QED
    BY <2>1, UseKept DEF IInv
<1>3. CASE VendorFrame
  <2>1. Backend' /\ mTap' = mTap
    BY <1>3, BackendUnchanged DEF VendorFrame, backendVars, IInv
  <2>2. Frames'
    BY <1>3, VendorFrameKeeps DEF IInv
  <2> QED
    BY <1>1, <1>2, <2>1, <2>2, TapKept DEF IInv
<1>4. CASE ~VendorFrame
  <2>1. /\ VendorStarts \/ VendorDies \/ Operates("over")
        /\ UNCHANGED bridgeVars
    BY <1>4 DEF VendorStep
  <2>2. Backend' /\ mTap' = mTap
    BY <2>1, VendorKeeps DEF IInv
  <2>3. Frames'
    BY <2>1, FramesUnchanged DEF IInv, Frames
  <2> QED
    BY <1>1, <1>2, <2>2, <2>3, TapKept DEF IInv
<1> QED
  BY <1>3, <1>4

LEMMA Initially == Init => IInv
<1> SUFFICES ASSUME Init PROVE IInv
  OBVIOUS
<1>1. Threads /\ th[Main].job = "attach"
  BY PathAssumption DEF Init, Threads, Starting, Idle, Step, Job
<1>2. BackendTypeOK
  <2>1. 0 \in 0..MaxLives
    BY BackendAssumption
  <2> QED
    BY <2>1 DEF Init, BackendInit, Unbound, BackendTypeOK
<1>3. Backend
  BY <1>2, BackendAssumption DEF Init, BackendInit, Unbound, Backend, HandedOutIsRegistered,
     Reachable
<1>4. Frames
  <2>1. BridgeTypeOK /\ mMode = "kNone"
    BY DEF Init, BridgeInit, BridgeTypeOK, OpMode
  <2>2. late = 0 /\ late \in 0..1
    BY DEF Init
  <2>3. missed \in BOOLEAN
    BY DEF Init
  <2>4. signal \in Operation \cup {None} /\ fan \in Event \cup {None}
    BY DEF Init
  <2> QED
    BY <2>1, <2>2, <2>3, <2>4 DEF Frames
<1>5. BoundWhileUsed
  BY DEF Init, Starting, Idle, BoundWhileUsed
<1> QED
  BY <1>1, <1>3, <1>4, <1>5 DEF IInv, TapStaysAttached

LEMMA Inductive == IInv /\ [Next]_vars => IInv'
<1> SUFFICES ASSUME IInv, [Next]_vars PROVE IInv'
  OBVIOUS
<1>1. ASSUME NEW t \in Thread, CreateSession(t) \/ OtherCall(t)
      PROVE  IInv'
  <2>1. PICK job \in Job \ {"none", "attach"} : Call(t, job)
    BY <1>1 DEF CreateSession, OtherCall, Job
  <2> QED
    BY <2>1, CallKeeps
<1>2. ASSUME NEW t \in Thread, ThreadStep(t)
      PROVE  IInv'
  BY <1>2, BindKeeps, AttachTapKeeps, BeginEndKeep, VendorCallKeeps, VendorCallFailsKeeps
  DEF ThreadStep
<1>3. CASE PreviewFrame \/ FanOut
  BY <1>3, FrameStepsKeep
<1>4. CASE VendorStep /\ UNCHANGED <<th, open, signal, fan, late, missed>>
  BY <1>4, VendorStepKeeps
<1>5. CASE UNCHANGED vars
  <2>1. /\ UNCHANGED bridgeVars /\ UNCHANGED backendVars
        /\ UNCHANGED <<th, open, signal, fan, late, missed>>
    BY <1>5 DEF vars
  <2>2. Backend' /\ mTap' = mTap
    BY <2>1, BackendUnchanged DEF IInv, backendVars
  <2>3. Frames'
    BY <2>1, FramesUnchanged DEF IInv, Frames
  <2>4. Threads'
    BY <2>1 DEF IInv, Threads
  <2> QED
    BY <2>1, <2>2, <2>3, <2>4, TapKept, UseKept DEF IInv, backendVars
<1> QED
  BY <1>1, <1>2, <1>3, <1>4, <1>5 DEF Next

\* The invariant the others follow from.
THEOREM PathInvariant == Spec => []IInv
<1> QED
  BY Initially, Inductive, PTL DEF Spec

\* Every variable keeps its type: in particular a thread is inside sehSetCallback
\* only while a service is bound, and only a bridge is bound or has a tap.
THEOREM PathTyped == Spec => []TypeOK
<1>1. IInv => TypeOK
  BY DEF IInv, Threads, Backend, Frames, TypeOK, Step
<1> QED
  BY <1>1, PathInvariant, PTL

\* A vendor process that is bound has been offered the callback, across failed
\* registrations and restarts of both processes (HidlBackend.cpp:41-51).
THEOREM BoundHasCallback == Spec => []HandedOutIsRegistered
<1>1. IInv => HandedOutIsRegistered
  BY DEF IInv, Backend
<1> QED
  BY <1>1, PathInvariant, PTL

\* A tap that was attached stays attached until the process ends
\* (HidlBackend.cpp:26-29, 92-96).
THEOREM TapForLife == Spec => []TapStaysAttached
<1>1. IInv => TapStaysAttached
  BY DEF IInv
<1> QED
  BY <1>1, PathInvariant, PTL

\* At most one frame comes late (HidlCallbackBridge.cpp:320-331).
THEOREM OneLateFrame == Spec => []AtMostOneLateFrame
<1>1. IInv => AtMostOneLateFrame
  BY DEF IInv, Frames, AtMostOneLateFrame
<1> QED
  BY <1>1, PathInvariant, PTL

-----------------------------------------------------------------------------
(* The binding that requests use.                                          *)

\* A request finds the service bound from the answer of getSeh to its call on the
\* proxy, whatever the other threads do (HidlBackend.cpp:41-51, 71-78).
THEOREM UsedWhileBound == Spec => []BoundWhileUsed
<1>1. IInv => BoundWhileUsed
  BY DEF IInv
<1> QED
  BY <1>1, PathInvariant, PTL

LEMMA KeptByThread ==
  ASSUME NEW t \in Thread, ThreadStep(t), lock = None, mSeh # 0
  PROVE  (mSeh' = mSeh /\ lock' = None) \/ mBridge' = FALSE
<1>1. t # None
  BY BackendAssumption
<1>2. CASE Bind(t) \/ Register(t)
  <2>1. BoundAlready
    BY <1>1, <1>2 DEF Bind, Register, NotFound, Found, TornDown, Registered
  <2> QED
    BY <2>1 DEF BoundAlready, backendVars
<1>3. CASE Attach(t) \/ Begin(t) \/ End(t)
  BY <1>3 DEF Attach, AttachPreviewTap, Begin, End, backendVars
<1>4. CASE VendorCall(t)
  <2>1. UNCHANGED backendVars \/ Operates("running") \/ Operates("over")
    BY <1>4 DEF VendorCall
  <2> QED
    BY <2>1 DEF Operates, backendVars
<1>5. CASE VendorCallFails(t)
  BY <1>5 DEF VendorCallFails, Restarts, Refused, ProcessEnds, backendVars
<1> QED
  BY <1>2, <1>3, <1>4, <1>5 DEF ThreadStep

\* No call, and no death or return of the vendor service, replaces a service that
\* was handed out; only the end of the process does (HidlBackend.cpp:20).
THEOREM ServiceIsKept == Spec => HandedOutIsKept
<1>1. [Next]_vars =>
        [lock = None /\ mSeh # 0 => (mSeh' = mSeh /\ lock' = None) \/ mBridge' = FALSE]_vars
  <2> SUFFICES ASSUME Next, lock = None, mSeh # 0
               PROVE  (mSeh' = mSeh /\ lock' = None) \/ mBridge' = FALSE
    OBVIOUS
  <2>1. CASE \E t \in Thread : ThreadStep(t)
    BY <2>1, KeptByThread
  <2>2. CASE \E t \in Thread : CreateSession(t) \/ OtherCall(t)
    BY <2>2 DEF CreateSession, OtherCall, Call, backendVars
  <2>3. CASE PreviewFrame \/ FanOut
    BY <2>3 DEF PreviewFrame, FanOut, backendVars
  <2>4. CASE VendorStep
    BY <2>4 DEF VendorStep, VendorStarts, VendorDies, Operates, VendorFrame, backendVars
  <2> QED
    BY <2>1, <2>2, <2>3, <2>4 DEF Next
<1> QED
  BY <1>1, PTL DEF Spec, HandedOutIsKept
=============================================================================
