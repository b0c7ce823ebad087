----------------------------- MODULE PreviewPath -----------------------------
(***************************************************************************)
(* The service process as it lives and dies (main.cpp), the calls that go  *)
(* through HidlBackend (SamsungSession.cpp, reduced to one session), and   *)
(* the way of a preview frame from the vendor HAL to the tap.              *)
(*                                                                         *)
(* A vendor call fails when the process at the other end is gone.  Where   *)
(* the code only tests the Return, the call counts as refused.  Where it   *)
(* reads the value, for the log, libhidl ends this process and init starts *)
(* another (face-samsung.rc).  Where it drops the Return, libhidl may end  *)
(* the process or only complain: either may happen.                        *)
(***************************************************************************)
EXTENDS HidlBackend

CONSTANT Main        \* the main thread, which joins the pool at the end

ASSUME PathAssumption == Main \in Thread /\ Session # {} /\ MaxCalls >= 1

VARIABLES th,        \* what each thread runs
          open,      \* the framework has a session of this process
          signal,    \* the operation whose cancellation signal the framework has
          fan,       \* the frame sehOnPreviewFrame has let through, or None
          late,      \* history: frames fanned out since the mode is kNone
          missed     \* history: no bridge was there to attach the tap to

vars == <<bridgeVars, backendVars, th, open, signal, fan, late, missed>>

Operation == {"enroll", "authenticate"}
Job == Operation \cup {"none", "attach", "createSession", "request",
                       "cancelEnroll", "cancelAuthenticate"}

Idle == [pc |-> "idle", job |-> "none"]

TypeOK == /\ BridgeTypeOK
          /\ BackendTypeOK
          /\ th \in [Thread -> [pc: {"idle", "bind", "attach", "begin", "call", "end"},
                                job: Job]]
          /\ open \in BOOLEAN
          /\ signal \in Operation \cup {None}
          /\ fan \in Event \cup {None}
          /\ late \in 0..2
          /\ missed \in BOOLEAN

\* main has added the services; binder calls wait until it joins the pool.
Starting == [t \in Thread |-> IF t = Main THEN [pc |-> "bind", job |-> "attach"]
                                          ELSE Idle]

Init == /\ BridgeInit
        /\ BackendInit
        /\ th = Starting
        /\ open = FALSE
        /\ signal = None
        /\ fan = None
        /\ late = 0
        /\ missed = FALSE

-----------------------------------------------------------------------------
Goto(t, pc) == th' = [th EXCEPT ![t].pc = pc] /\ UNCHANGED open

\* createSession hands out the session, whatever came of setActiveUser.
Return(t) == /\ th' = [th EXCEPT ![t] = Idle]
             /\ open' = (open \/ th[t].job = "createSession")

\* The framework calls; it cancels an operation once, and the last one only.
\* request stands for enumerateEnrollments and removeEnrollments, which begin
\* with kNone and drop the Return.
Call(t, job) ==
  /\ th[Main].job # "attach" /\ th[t] = Idle
  /\ job \in Operation \cup {"request"} => open
  /\ job = "cancelEnroll" => signal = "enroll"
  /\ job = "cancelAuthenticate" => signal = "authenticate"
  /\ signal' = IF job \in {"cancelEnroll", "cancelAuthenticate"} THEN None ELSE signal
  /\ th' = [th EXCEPT ![t] = [pc |-> "bind", job |-> job]]
  /\ UNCHANGED <<bridgeVars, backendVars, open, fan, late, missed>>

CreateSession(t) == Call(t, "createSession")

OtherCall(t) == \E job \in Job \ {"none", "attach", "createSession"} : Call(t, job)

\* Mutant: the proxy is used without asking whether there is one.
ContinueUnchecked(t, found) ==
  CASE th[t].job = "attach" -> Goto(t, "attach")
    [] th[t].job \in Operation \cup {"request"} -> Goto(t, "begin")
    [] OTHER -> Goto(t, "call")

\* What follows getSeh, or attachPreviewTap's binding.
Continue(t, found) ==
  CASE th[t].job = "attach" -> Goto(t, "attach")
    [] found /\ th[t].job \in Operation \cup {"request"} -> Goto(t, "begin")
    [] found /\ th[t].job \notin Operation \cup {"attach", "request"} -> Goto(t, "call")
    [] ~found /\ th[t].job = "cancelEnroll" -> Goto(t, "end")
    [] OTHER -> Return(t)

Bind(t) == /\ th[t].pc = "bind"
           /\ \/ BoundAlready /\ Continue(t, TRUE)
              \/ NotFound /\ Continue(t, FALSE)
              \/ Found(t) /\ UNCHANGED <<th, open>>
              \/ TornDown(t) /\ Continue(t, FALSE)
           /\ UNCHANGED <<bridgeVars, signal, fan, late, missed>>

Register(t) == /\ th[t].pc = "bind"
               /\ Registered(t)
               /\ Continue(t, TRUE)
               /\ UNCHANGED <<bridgeVars, signal, fan, late, missed>>

Attach(t) == /\ th[t].pc = "attach"
             /\ AttachPreviewTap
             /\ missed' = ~mBridge
             /\ Return(t)
             /\ UNCHANGED <<bridgeVars, signal, fan, late>>

\* The service was found just before, so beginOperation has nothing to bind.
Begin(t) == /\ th[t].pc = "begin" /\ lock = None
            /\ \E s \in Session :
                 BeginOperation(CASE th[t].job = "enroll" -> "kEnroll"
                                  [] th[t].job = "authenticate" -> "kAuthenticate"
                                  [] OTHER -> "kNone", s)
            /\ late' = IF mMode' = "kNone" THEN late ELSE 0
            /\ Goto(t, "call")
            /\ UNCHANGED <<evq, pending, backendVars, signal, fan, missed>>

End(t) == /\ th[t].pc = "end" /\ lock = None
          /\ EndOperation
          /\ Return(t)
          /\ UNCHANGED <<evq, pending, backendVars, signal, fan, late, missed>>

\* The vendor call, when it gets there.
VendorCall(t) ==
  /\ th[t].pc = "call" /\ Reachable
  /\ CASE th[t].job \in Operation ->
            \/ Operates("running") /\ signal' = th[t].job /\ Return(t)
            \/ Goto(t, "end") /\ UNCHANGED <<backendVars, signal>>
       [] th[t].job = "cancelEnroll" ->
            Operates("over") /\ Goto(t, "end") /\ UNCHANGED signal
       [] th[t].job = "cancelAuthenticate" ->
            Operates("over") /\ Return(t) /\ UNCHANGED signal
       [] OTHER -> Return(t) /\ UNCHANGED <<backendVars, signal>>
  /\ UNCHANGED <<bridgeVars, fan, late, missed>>

\* Mutant: the constructor checks the Return before it reads the value.
ReadUncheckedButConstructor == {"enroll"}

\* The jobs that read the value of a failed Return.
ReadUnchecked == {"createSession", "enroll"}

\* The jobs that drop the Return.
Dropped == {"request", "cancelEnroll", "cancelAuthenticate"}

\* The process ends and its successor starts (external).
Restarts == /\ ProcessEnds
            /\ mMode' = "kNone" /\ mCb' = None /\ evq' = <<>> /\ pending' = None
            /\ th' = Starting
            /\ open' = FALSE /\ signal' = None
            /\ fan' = None /\ late' = 0 /\ missed' = FALSE

\* A failed call counts as refused.
Refused(t) ==
  /\ IF th[t].job \in Operation \cup {"cancelEnroll"} THEN Goto(t, "end") ELSE Return(t)
  /\ UNCHANGED <<bridgeVars, backendVars, signal, fan, late, missed>>

VendorCallFails(t) ==
  /\ th[t].pc = "call" /\ ~Reachable
  /\ \/ th[t].job \in ReadUnchecked \cup Dropped /\ Restarts
     \/ th[t].job \notin ReadUnchecked /\ Refused(t)

-----------------------------------------------------------------------------
(* The hwbinder thread.                                                    *)

\* Mutant: the mode is not looked at.
FansOutAnyMode(frame) == frame.arg = "good" /\ mTap

\* sehOnPreviewFrame after its locked read of mTap and mMode.
FansOut(frame) ==
  frame.arg = "good" /\ mMode \in {"kEnroll", "kAuthenticate"} /\ mTap

\* sehOnPreviewFrame.
PreviewFrame == /\ fan = None
                /\ SehOnPreviewFrame
                /\ fan' = IF FansOut(Head(evq)) THEN Head(evq) ELSE None
                /\ UNCHANGED <<backendVars, th, open, signal, late, missed>>

\* FacePreviewTap::dispatchFrame, with no lock held.
FanOut == /\ fan # None
          /\ fan' = None
          /\ late' = IF mMode = "kNone" /\ late < 2 THEN late + 1 ELSE late
          /\ UNCHANGED <<bridgeVars, backendVars, th, open, signal, missed>>

VendorStep == \/ VendorStarts /\ UNCHANGED bridgeVars
              \/ VendorDies /\ UNCHANGED bridgeVars
              \/ vendor.op = "running" /\ Operates("over") /\ UNCHANGED bridgeVars
              \/ fan = None /\ VendorFrame

ThreadStep(t) == \/ Bind(t)
                 \/ Register(t)
                 \/ Attach(t)
                 \/ Begin(t)
                 \/ End(t)
                 \/ VendorCall(t)
                 \/ VendorCallFails(t)

Next == \/ \E t \in Thread : CreateSession(t) \/ OtherCall(t) \/ ThreadStep(t)
        \/ PreviewFrame
        \/ FanOut
        \/ VendorStep /\ UNCHANGED <<th, open, signal, fan, late, missed>>

Spec == Init /\ [][Next]_vars

\* Threads run, and registering with a vendor service that stays up does not
\* fail for ever.
FairSpec == Spec /\ \A t \in Thread : WF_vars(ThreadStep(t)) /\ SF_vars(Register(t))

-----------------------------------------------------------------------------
\* Once an operation was ended at most one more frame is fanned out, the one whose
\* handler had read the mode before, until the next operation begins
\* (HidlCallbackBridge.cpp:320-331).
AtMostOneLateFrame == late <= 1

\* A service that found the vendor HAL when it started has its tap attached for
\* life, and every operation its preview, although registrations fail and are
\* repeated and the vendor service restarts (HidlBackend.cpp:37-39, 92-96).
TapStaysAttached == th[Main].job # "attach" => mTap \/ missed

\* A service that was handed out stays the one that is handed out until the
\* process ends, although the vendor service dies and comes back meanwhile: the
\* death goes unnoticed here, and no later call binds anew (HidlBackend.cpp:20).
HandedOutIsKept ==
  [][lock = None /\ mSeh # 0 => (mSeh' = mSeh /\ lock' = None) \/ mBridge' = FALSE]_vars

\* While a request uses the proxy that getSeh returned, the backend stays bound:
\* no other thread's registration is under way or can fail and tear it down
\* behind the request (HidlBackend.cpp:41-51), so that its beginOperation binds
\* nothing, and finds the bridge.
BoundWhileUsed ==
  \A t \in Thread : th[t].pc \in {"begin", "call"} => lock = None /\ mSeh # 0

\* If the vendor service comes to stay and sessions are created for ever, the
\* HAL is in the end bound to its present process: although nobody watches for
\* the death of the old one, setActiveUser fails on it, and the process starts
\* afresh (HidlBackend.cpp:20, SamsungSession.cpp:99-104).
BoundInTheEnd ==
  <>[]vendor.up /\ []<><<\E t \in Thread : CreateSession(t)>>_vars
    => <>[](mSeh = vendor.life)

-----------------------------------------------------------------------------
\* A frame the vendor HAL emits outside an enroll or authenticate ("warm-up, race
\* after cancellation") is dropped "rather than fanning it out to listeners"
\* (HidlCallbackBridge.cpp:325-328).
StrayDropped == fan # None => fan.id # 0
=============================================================================
