------------------------- MODULE HidlCallbackBridge -------------------------
(***************************************************************************)
(* The callback object the service registers with the vendor face HAL:     *)
(* biometrics/face/aidl/HidlCallbackBridge.{h,cpp}.                        *)
(*                                                                         *)
(* Vendor events are oneway calls on one binder object, so they wait in a  *)
(* FIFO queue and are handled one at a time.  A handler reads the slot     *)
(* (mMode, mCb) under mLock, releases the lock and only then calls the     *)
(* session callback: the choice of the call and the call itself are two    *)
(* steps here, and anything may run between them.                          *)
(*                                                                         *)
(* A session and its ISessionCallback are one value.  Events carry the     *)
(* number of the session call that caused them (0: none), which the code   *)
(* does not have; no action reads it, only the properties do.              *)
(***************************************************************************)
EXTENDS Naturals, Sequences

CONSTANTS Session,   \* the sessions the framework creates
          None,      \* nullptr, and "no message"
          MaxCalls,  \* bound on the session calls numbered by the history
          MaxQueue   \* bound on the vendor events waiting in the queue

ASSUME BridgeAssumption == /\ None \notin Session
                           /\ MaxCalls \in Nat
                           /\ MaxQueue \in Nat

VARIABLES mMode,     \* HidlCallbackBridge::mMode
          mCb,       \* HidlCallbackBridge::mCb
          evq,       \* vendor events sent and not yet handled (hwbinder)
          pending    \* the call a handler has chosen and not yet made

slotVars == <<mMode, mCb>>
bridgeVars == <<mMode, mCb, evq, pending>>

OpMode == {"kNone", "kEnroll", "kAuthenticate", "kDetectInteraction"}
Handler == {"onEnrollResult", "onAuthenticated", "onAcquired", "onError",
            "onRemoved", "onEnumerate", "onLockoutChanged",
            "sehOnPreviewUpdated", "sehOnAuthenticated", "sehOnPreviewFrame"}

\* What the handlers tell apart in their arguments: remaining = 0 or not;
\* faceId = 0, or a face with a token parseHat refuses or accepts; a lockout
\* duration of 0, of UINT64_MAX, or another; a frame whose geometry, size and
\* descriptor are good (FrameGeometry!Admitted says which) or not.
Args == [h \in Handler |->
           CASE h = "onEnrollResult" -> {"more", "last"}
             [] h \in {"onAuthenticated", "sehOnAuthenticated"} ->
                  {"noMatch", "shortToken", "fullToken"}
             [] h = "onLockoutChanged" -> {"zero", "max", "other"}
             [] h = "sehOnPreviewFrame" -> {"good", "bad"}
             [] OTHER -> {"any"}]
Arg == UNION {Args[h] : h \in Handler}

Event == [on: Handler, arg: Arg, id: 0..MaxCalls]

\* The ISessionCallback methods.  onEnrollmentProgress with remaining = 0 is
\* told apart as enrollmentComplete.
SessionCall == {"enrollmentProgress", "enrollmentComplete",
                "authenticationSucceeded", "authenticationFailed", "error",
                "enrollmentsRemoved", "enrollmentsEnumerated",
                "lockoutCleared", "lockoutPermanent", "lockoutTimed",
                "challengeGenerated", "challengeRevoked", "featuresRetrieved",
                "featureSet", "authenticatorIdRetrieved",
                "authenticatorIdInvalidated", "interactionDetected",
                "sessionClosed"}

Message == [to: Session, call: SessionCall, on: Handler, id: 0..MaxCalls]

ASSUME NoneIsNoMessage == None \notin Message

BridgeTypeOK == /\ mMode \in OpMode
                /\ mCb \in Session \cup {None}
                /\ evq \in Seq(Event)
                /\ pending \in Message \cup {None}

BridgeInit == /\ mMode = "kNone"
              /\ mCb = None
              /\ evq = <<>>
              /\ pending = None

-----------------------------------------------------------------------------
(* The session-side API: both bodies run under mLock.                      *)

\* Mutant: a mode left behind by an operation that ended is not overwritten.
BeginOperationKeepsMode(mode, cb) ==
  mMode' = (IF mMode = "kNone" THEN mode ELSE mMode) /\ mCb' = cb

BeginOperation(mode, cb) == mMode' = mode /\ mCb' = cb

\* Mutant: the mode is reset and the callback pointer is left behind.
EndOperationKeepsCb == mMode' = "kNone" /\ mCb' = mCb

EndOperation == mMode' = "kNone" /\ mCb' = None

-----------------------------------------------------------------------------
(* The handlers.                                                           *)

\* Mutant: the callback is called without the check for nullptr.
ForwardUnchecked(on, admitted, call) ==
  /\ pending = None
  /\ evq # <<>>
  /\ Head(evq).on = on
  /\ evq' = Tail(evq)
  /\ pending' = IF admitted
                  THEN [to |-> mCb, call |-> call, on |-> on, id |-> Head(evq).id]
                  ELSE None
  /\ UNCHANGED slotVars

\* snapshot() and lockCb(): one locked read of the slot, then the handler's
\* early return or the call it will make on the callback it read.
Forward(on, admitted, call) ==
  /\ pending = None
  /\ evq # <<>>
  /\ Head(evq).on = on
  /\ evq' = Tail(evq)
  /\ pending' = IF mCb # None /\ admitted
                  THEN [to |-> mCb, call |-> call, on |-> on, id |-> Head(evq).id]
                  ELSE None
  /\ UNCHANGED slotVars

\* Mutant: the mode of the operation in flight is not looked at.
OnEnrollResultAnyMode ==
  Forward("onEnrollResult", TRUE,
          IF Head(evq).arg = "last" THEN "enrollmentComplete"
                                    ELSE "enrollmentProgress")

\* Mutant: the last report, with nothing remaining, is dropped.
OnEnrollResultNotLast ==
  Forward("onEnrollResult", mMode = "kEnroll" /\ Head(evq).arg # "last",
          "enrollmentProgress")

OnEnrollResult ==
  Forward("onEnrollResult", mMode = "kEnroll",
          IF Head(evq).arg = "last" THEN "enrollmentComplete"
                                    ELSE "enrollmentProgress")

\* Mutant: a face whose token parseHat refuses is dropped.
OnAuthenticatedFullOnly ==
  Forward("onAuthenticated",
          mMode = "kAuthenticate" /\ Head(evq).arg # "shortToken",
          IF Head(evq).arg = "noMatch" THEN "authenticationFailed"
                                       ELSE "authenticationSucceeded")

\* A face without a full token still succeeds: the token is synthesised.
OnAuthenticated ==
  Forward("onAuthenticated", mMode = "kAuthenticate",
          IF Head(evq).arg = "noMatch" THEN "authenticationFailed"
                                       ELSE "authenticationSucceeded")

OnAcquired == Forward("onAcquired", FALSE, "error")

\* Mutant: an error is forwarded whatever the mode.
OnErrorAnyMode == Forward("onError", TRUE, "error")

OnError == Forward("onError", mMode # "kNone", "error")

OnRemoved == Forward("onRemoved", TRUE, "enrollmentsRemoved")

OnEnumerate == Forward("onEnumerate", TRUE, "enrollmentsEnumerated")

OnLockoutChanged ==
  Forward("onLockoutChanged", TRUE,
          CASE Head(evq).arg = "zero" -> "lockoutCleared"
            [] Head(evq).arg = "max" -> "lockoutPermanent"
            [] OTHER -> "lockoutTimed")

SehOnPreviewUpdated == Forward("sehOnPreviewUpdated", FALSE, "error")

\* No look at the mode: whoever holds the slot gets the verdict, and a face
\* whose token parseHat refuses is a failure here.
SehOnAuthenticated ==
  Forward("sehOnAuthenticated", TRUE,
          IF Head(evq).arg = "fullToken" THEN "authenticationSucceeded"
                                         ELSE "authenticationFailed")

\* No session callback: what becomes of the frame is PreviewPath's.
SehOnPreviewFrame == Forward("sehOnPreviewFrame", FALSE, "error")

Handle == \/ OnEnrollResult
          \/ OnAuthenticated
          \/ OnAcquired
          \/ OnError
          \/ OnRemoved
          \/ OnEnumerate
          \/ OnLockoutChanged
          \/ SehOnPreviewUpdated
          \/ SehOnAuthenticated
          \/ SehOnPreviewFrame

\* The call on the callback the handler read, with no lock held.
Deliver == /\ pending # None
           /\ pending' = None
           /\ UNCHANGED <<mMode, mCb, evq>>
=============================================================================
