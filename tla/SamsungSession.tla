--------------------------- MODULE SamsungSession ---------------------------
(***************************************************************************)
(* The face HAL as the framework sees it: the sessions                     *)
(* (biometrics/face/aidl/SamsungSession.cpp, createSession of              *)
(* SamsungFace.cpp, CancellationSignal.h) on the AIDL binder threads, the  *)
(* callback bridge on the hwbinder thread, and the vendor HAL.             *)
(*                                                                         *)
(* A method is a thread that runs from one synchronisation point to the    *)
(* next: HidlBackend::getSeh (with the checks that follow it), the locked  *)
(* begin or end of an operation, the call into the vendor HAL, the call on *)
(* the session callback.  Each is one step.                                *)
(*                                                                         *)
(* The vendor HAL and the framework are external and modelled from how the *)
(* code uses them.  A transport failure of a vendor call whose Return is   *)
(* read unchecked ends the process; such a behaviour simply stops here.    *)
(* One whose Return is dropped is an outcome of the step, like the         *)
(* failures the code handles.                                              *)
(***************************************************************************)
EXTENDS HidlCallbackBridge, FiniteSets

CONSTANTS Thread,      \* AIDL binder threads (main.cpp)
          Method,      \* the ISession methods the framework calls
          InRange,     \* sessions whose userId is in 0..kMaxUserId
          Disciplined, \* TRUE: the framework runs one operation at a time
          Sent         \* the unsolicited events the vendor HAL sends

AllMethods == {"enroll", "authenticate", "generateChallenge",
               "enumerateEnrollments", "removeEnrollments", "revokeChallenge",
               "getFeatures", "setFeature", "getAuthenticatorId",
               "invalidateAuthenticatorId", "resetLockout", "detectInteraction"}

ASSUME SessionAssumption == /\ Method \subseteq AllMethods
                            /\ InRange \subseteq Session
                            /\ Disciplined \in BOOLEAN
                            /\ Sent \subseteq Handler

VARIABLES bound,       \* HidlBackend::mSeh is not nullptr
          vop,         \* vendor: the call whose enroll/authenticate runs, or 0
          vuser,       \* vendor: the session whose user is active, or None
          sess,        \* each session: new, open, closing or closed
          calls,       \* history: the calls issued, in order
          unanswered,  \* framework: the calls it still waits for
          signal,      \* the ICancellationSignal of each call
          userSet,     \* history: sessions whose setActiveUser succeeded
          th           \* what each binder thread runs

vendorVars == <<vop, vuser>>
frameworkVars == <<sess, calls, unanswered, signal, userSet>>
vars == <<mMode, mCb, evq, pending, bound, vop, vuser, sess, calls, unanswered,
          signal, userSet, th>>

Id == 1..MaxCalls
PC == {"idle", "setActiveUser", "begin", "hidl", "end", "reply"}
Activity == AllMethods \cup {"none", "createSession", "cancel", "close"}

Frame == [pc: PC, m: Activity, s: Session \cup {None}, id: 0..MaxCalls,
          say: SessionCall]

Call == [m: AllMethods, s: Session]

Idle == [pc |-> "idle", m |-> "none", s |-> None, id |-> 0, say |-> "error"]

TypeOK ==
  /\ BridgeTypeOK
  /\ bound \in BOOLEAN
  /\ vop \in 0..MaxCalls
  /\ vuser \in Session \cup {None}
  /\ sess \in [Session -> {"new", "open", "closing", "closed"}]
  /\ calls \in Seq(Call)
  /\ Len(calls) <= MaxCalls
  /\ unanswered \subseteq Id
  /\ signal \in [Id -> {"none", "held", "used"}]
  /\ userSet \subseteq Session
  /\ th \in [Thread -> Frame]

Init ==
  /\ BridgeInit
  /\ bound = FALSE
  /\ vop = 0
  /\ vuser = None
  /\ sess = [s \in Session |-> "new"]
  /\ calls = <<>>
  /\ unanswered = {}
  /\ signal = [i \in Id |-> "none"]
  /\ userSet = {}
  /\ th = [t \in Thread |-> Idle]

-----------------------------------------------------------------------------
(* The framework (external): which calls it may issue, and which callback  *)
(* it takes as the answer to a call.                                       *)

Answers ==
  [m \in AllMethods |->
     CASE m = "enroll" -> {"enrollmentComplete", "error"}
       [] m = "authenticate" -> {"authenticationSucceeded", "error"}
       [] m = "generateChallenge" -> {"challengeGenerated", "error"}
       [] m = "enumerateEnrollments" -> {"enrollmentsEnumerated", "error"}
       [] m = "removeEnrollments" -> {"enrollmentsRemoved", "error"}
       [] m = "revokeChallenge" -> {"challengeRevoked", "error"}
       [] m = "getFeatures" -> {"featuresRetrieved", "error"}
       [] m = "setFeature" -> {"featureSet", "error"}
       [] m = "getAuthenticatorId" -> {"authenticatorIdRetrieved", "error"}
       [] m = "invalidateAuthenticatorId" -> {"authenticatorIdInvalidated", "error"}
       [] m = "resetLockout" -> {"lockoutCleared", "error"}
       [] m = "detectInteraction" -> {"interactionDetected", "error"}]

\* The framework receives call on the callback of session s.
Receive(s, call) ==
  unanswered' = {i \in unanswered : ~(calls[i].s = s /\ call \in Answers[calls[i].m])}

\* A binder call blocks its caller: no second call on a session that runs one.
\* A disciplined framework also waits for the answer before it goes on.
MayCall(s) ==
  /\ \A u \in Thread : th[u].s = s => th[u].m = "cancel"
  /\ Disciplined => /\ unanswered = {}
                    /\ \A u \in Thread : th[u].m \in {"none", "cancel"}

\* A disciplined framework closes a session before it creates the next.
MayCreate(s) ==
  /\ sess[s] = "new"
  /\ MayCall(s)
  /\ Disciplined => \A r \in Session : sess[r] \in {"new", "closed"}

-----------------------------------------------------------------------------
(* The steps the methods share.                                            *)

Run(t, m, s, id, pc, say) ==
  th' = [th EXCEPT ![t] = [pc |-> pc, m |-> m, s |-> s, id |-> id, say |-> say]]

Goto(t, pc, say) == th' = [th EXCEPT ![t].pc = pc, ![t].say = say]

Return(t) == th' = [th EXCEPT ![t] = Idle]

At(t, m, pc) == th[t].m = m /\ th[t].pc = pc

\* Mutant: a service that was found is looked up again and may be gone.
GetSehAfresh(found) == bound' = found

\* The vendor service is looked up until it is found, and kept from then on.
GetSeh(found) == (bound => found) /\ bound' = found

\* The framework issues method m on session s; the step that follows the call
\* id is the method's own.
Issue(t, s, m) ==
  /\ m \in Method
  /\ th[t] = Idle
  /\ sess[s] = "open"
  /\ MayCall(s)
  /\ Len(calls) < MaxCalls
  /\ calls' = Append(calls, [m |-> m, s |-> s])
  /\ unanswered' = unanswered \cup {Len(calls) + 1}
  /\ UNCHANGED <<sess, signal, userSet, bridgeVars, vendorVars>>

NewId == Len(calls) + 1

\* Mutant: the requests begin an operation of a mode that is no OpMode.
ModeOfUnset(m) == CASE m = "enroll" -> "kEnroll"
                    [] m = "authenticate" -> "kAuthenticate"
                    [] OTHER -> "unset"

ModeOf(m) == CASE m = "enroll" -> "kEnroll"
               [] m = "authenticate" -> "kAuthenticate"
               [] OTHER -> "kNone"

\* HidlBackend::beginOperation; the service is bound, so the bridge exists.
Begin(t) ==
  /\ th[t].pc = "begin"
  /\ BeginOperation(ModeOf(th[t].m), th[t].s)
  /\ Goto(t, "hidl", "error")
  /\ UNCHANGED <<evq, pending, bound, vendorVars, frameworkVars>>

\* HidlBackend::endOperation, at the end of a refused enroll or authenticate,
\* of the cancellation of an enroll, and at the start of close.
End(t) ==
  /\ th[t].pc = "end"
  /\ EndOperation
  /\ CASE th[t].m = "cancel" -> Return(t)
       [] th[t].m = "close" -> Goto(t, "reply", "sessionClosed")
       [] OTHER -> Goto(t, "reply", "error")
  /\ UNCHANGED <<evq, pending, bound, vendorVars, frameworkVars>>

\* The call on mCb a method ends with.
Reply(t) ==
  /\ th[t].pc = "reply"
  /\ Receive(th[t].s, th[t].say)
  /\ sess' = IF th[t].m = "close" THEN [sess EXCEPT ![th[t].s] = "closed"]
                                  ELSE sess
  /\ Return(t)
  /\ UNCHANGED <<bridgeVars, bound, vendorVars, calls, signal, userSet>>

-----------------------------------------------------------------------------
(* SamsungFace::createSession and the constructor of SamsungSession.       *)

CreateSession(t, s) ==
  /\ th[t] = Idle
  /\ MayCreate(s)
  /\ \/ /\ s \notin InRange
        /\ sess' = [sess EXCEPT ![s] = "open"]
        /\ UNCHANGED <<bound, th>>
     \/ /\ s \in InRange
        /\ GetSeh(FALSE)
        /\ sess' = [sess EXCEPT ![s] = "open"]
        /\ UNCHANGED th
     \/ /\ s \in InRange
        /\ GetSeh(TRUE)
        /\ Run(t, "createSession", s, 0, "setActiveUser", "error")
        /\ UNCHANGED sess
  /\ UNCHANGED <<bridgeVars, vendorVars, calls, unanswered, signal, userSet>>

\* Mutant: the active user is set once and taken for set from then on.
SetActiveUserOnce(t) ==
  /\ At(t, "createSession", "setActiveUser")
  /\ vuser' = IF vuser = None THEN th[t].s ELSE vuser
  /\ userSet' = userSet \cup {th[t].s}
  /\ sess' = [sess EXCEPT ![th[t].s] = "open"]
  /\ Return(t)
  /\ UNCHANGED <<bridgeVars, bound, vop, calls, unanswered, signal>>

\* A status other than OK is logged, and the session opens all the same.
SetActiveUser(t) ==
  /\ At(t, "createSession", "setActiveUser")
  /\ \/ vuser' = th[t].s /\ userSet' = userSet \cup {th[t].s}
     \/ UNCHANGED <<vuser, userSet>>
  /\ sess' = [sess EXCEPT ![th[t].s] = "open"]
  /\ Return(t)
  /\ UNCHANGED <<bridgeVars, bound, vop, calls, unanswered, signal>>

-----------------------------------------------------------------------------
(* enroll, authenticate and their cancellation.                            *)

\* The vendor HAL (external) starts the operation of call id.  One it was
\* running is superseded, silently or with an error.
VendorStart(id) ==
  /\ vop' = id
  /\ \/ evq' = evq
     \/ /\ vop # 0 /\ Len(evq) < MaxQueue
        /\ evq' = Append(evq, [on |-> "onError", arg |-> "any", id |-> vop])

\* Mutant: a refused call returns without an error on the callback.
StartOrRefuseSilently(t) ==
  \/ /\ VendorStart(th[t].id)
     /\ signal' = [signal EXCEPT ![th[t].id] = "held"]
     /\ Return(t)
  \/ /\ Return(t)
     /\ UNCHANGED <<vop, evq, signal>>

\* Mutant: a refused call reports the error and leaves the slot taken.
StartOrRefuseKeepsSlot(t) ==
  \/ /\ VendorStart(th[t].id)
     /\ signal' = [signal EXCEPT ![th[t].id] = "held"]
     /\ Return(t)
  \/ /\ Goto(t, "reply", "error")
     /\ UNCHANGED <<vop, evq, signal>>

\* A refused call ends the operation it began; an accepted one hands its
\* caller a cancellation signal.
StartOrRefuse(t) ==
  \/ /\ VendorStart(th[t].id)
     /\ signal' = [signal EXCEPT ![th[t].id] = "held"]
     /\ Return(t)
  \/ /\ Goto(t, "end", "error")
     /\ UNCHANGED <<vop, evq, signal>>

\* Without the service, or with a HAT that hatToBytes refuses, an error is
\* the answer and the slot is left alone.
Enroll(t, s) ==
  /\ Issue(t, s, "enroll")
  /\ \/ GetSeh(FALSE) /\ Run(t, "enroll", s, NewId, "reply", "error")
     \/ GetSeh(TRUE) /\ Run(t, "enroll", s, NewId, "reply", "error")
     \/ GetSeh(TRUE) /\ Run(t, "enroll", s, NewId, "begin", "error")

EnrollHidl(t) ==
  /\ At(t, "enroll", "hidl")
  /\ StartOrRefuse(t)
  /\ UNCHANGED <<slotVars, pending, bound, vuser, sess, calls, unanswered, userSet>>

Authenticate(t, s) ==
  /\ Issue(t, s, "authenticate")
  /\ \/ GetSeh(FALSE) /\ Run(t, "authenticate", s, NewId, "reply", "error")
     \/ GetSeh(TRUE) /\ Run(t, "authenticate", s, NewId, "begin", "error")

AuthenticateHidl(t) ==
  /\ At(t, "authenticate", "hidl")
  /\ StartOrRefuse(t)
  /\ UNCHANGED <<slotVars, pending, bound, vuser, sess, calls, unanswered, userSet>>

\* The lambda of a CancellationSignal runs once.  A disciplined framework
\* cancels only a call it still waits for.
Cancel(t, i) ==
  /\ th[t] = Idle
  /\ signal[i] = "held"
  /\ Disciplined => i \in unanswered
  /\ signal' = [signal EXCEPT ![i] = "used"]
  /\ Run(t, "cancel", calls[i].s, i, "hidl", "error")
  /\ UNCHANGED <<bridgeVars, bound, vendorVars, sess, calls, unanswered, userSet>>

\* The vendor HAL (external) stops what it runs, whoever started it, and
\* reports the cancellation; or the call fails, and its status is dropped.
VendorCancel ==
  \/ UNCHANGED <<vop, evq>>
  \/ /\ vop # 0
     /\ Len(evq) < MaxQueue
     /\ evq' = Append(evq, [on |-> "onError", arg |-> "any", id |-> vop])
     /\ vop' = 0

\* Mutant: the signal of an authenticate ends the operation too.
CancelHidlThenEnd(t) ==
  /\ At(t, "cancel", "hidl")
  /\ VendorCancel
  /\ Goto(t, "end", "error")
  /\ UNCHANGED <<slotVars, pending, bound, vuser, frameworkVars>>

\* Only the signal of an enroll goes on to end the operation.
CancelHidl(t) ==
  /\ At(t, "cancel", "hidl")
  /\ VendorCancel
  /\ IF calls[th[t].id].m = "enroll" THEN Goto(t, "end", "error") ELSE Return(t)
  /\ UNCHANGED <<slotVars, pending, bound, vuser, frameworkVars>>

-----------------------------------------------------------------------------
(* The other requests.  Without the service they return and say nothing.   *)

IssueBound(t, s, m, pc, say) ==
  /\ Issue(t, s, m)
  /\ \/ GetSeh(FALSE) /\ UNCHANGED th
     \/ GetSeh(TRUE) /\ Run(t, m, s, NewId, pc, say)

\* The vendor call of method m has returned, and one of says is the answer.
Answer(t, m, says) ==
  /\ At(t, m, "hidl")
  /\ \E say \in says : Goto(t, "reply", say)
  /\ UNCHANGED <<bridgeVars, bound, vendorVars, frameworkVars>>

\* The vendor HAL (external) takes a request it will report on, or refuses it;
\* the code looks at neither.
VendorTakes(on, id) ==
  \/ UNCHANGED evq
  \/ /\ Len(evq) + 1 < MaxQueue
     /\ evq' = Append(evq, [on |-> on, arg |-> "any", id |-> id])

GenerateChallenge(t, s) == IssueBound(t, s, "generateChallenge", "begin", "error")

GenerateChallengeHidl(t) ==
  Answer(t, "generateChallenge", {"challengeGenerated", "error"})

EnumerateEnrollments(t, s) ==
  IssueBound(t, s, "enumerateEnrollments", "begin", "error")

EnumerateHidl(t) ==
  /\ At(t, "enumerateEnrollments", "hidl")
  /\ VendorTakes("onEnumerate", th[t].id)
  /\ Return(t)
  /\ UNCHANGED <<slotVars, pending, bound, vendorVars, frameworkVars>>

\* One enrollment per user (SamsungFace.cpp:43): at most one id to remove.
RemoveEnrollments(t, s) == IssueBound(t, s, "removeEnrollments", "begin", "error")

\* With no ids there is no vendor call; in every case the ids are echoed.
RemoveHidl(t) ==
  /\ At(t, "removeEnrollments", "hidl")
  /\ VendorTakes("onRemoved", th[t].id)
  /\ Goto(t, "reply", "enrollmentsRemoved")
  /\ UNCHANGED <<slotVars, pending, bound, vendorVars, frameworkVars>>

RevokeChallenge(t, s) == IssueBound(t, s, "revokeChallenge", "hidl", "error")

\* The transport decides, not the status.
RevokeChallengeHidl(t) == Answer(t, "revokeChallenge", {"challengeRevoked", "error"})

\* A fixed answer: the vendor HAL is looked up and not asked.
GetFeatures(t, s) == IssueBound(t, s, "getFeatures", "reply", "featuresRetrieved")

SetFeature(t, s) == IssueBound(t, s, "setFeature", "hidl", "error")

\* A refusal is reported as success.
SetFeatureHidl(t) == Answer(t, "setFeature", {"featureSet"})

GetAuthenticatorId(t, s) == IssueBound(t, s, "getAuthenticatorId", "hidl", "error")

GetAuthenticatorIdHidl(t) ==
  Answer(t, "getAuthenticatorId", {"authenticatorIdRetrieved", "error"})

\* The one request that answers without the service too.
InvalidateAuthenticatorId(t, s) ==
  /\ Issue(t, s, "invalidateAuthenticatorId")
  /\ \/ /\ GetSeh(FALSE)
        /\ Run(t, "invalidateAuthenticatorId", s, NewId, "reply",
               "authenticatorIdInvalidated")
     \/ /\ GetSeh(TRUE)
        /\ Run(t, "invalidateAuthenticatorId", s, NewId, "hidl", "error")

InvalidateAuthenticatorIdHidl(t) ==
  Answer(t, "invalidateAuthenticatorId", {"authenticatorIdInvalidated"})

ResetLockout(t, s) == IssueBound(t, s, "resetLockout", "hidl", "error")

ResetLockoutHidl(t) == Answer(t, "resetLockout", {"lockoutCleared", "error"})

\* Answered at once; the vendor HAL has no such operation.
DetectInteraction(t, s) ==
  /\ Issue(t, s, "detectInteraction")
  /\ Run(t, "detectInteraction", s, NewId, "reply", "interactionDetected")
  /\ UNCHANGED bound

\* Mutant: close leaves the slot to the events that still come.
CloseKeepsSlot(t, s) ==
  /\ th[t] = Idle
  /\ sess[s] = "open"
  /\ MayCall(s)
  /\ sess' = [sess EXCEPT ![s] = "closing"]
  /\ Run(t, "close", s, 0, "reply", "sessionClosed")
  /\ UNCHANGED <<bridgeVars, bound, vendorVars, calls, unanswered, signal, userSet>>

Close(t, s) ==
  /\ th[t] = Idle
  /\ sess[s] = "open"
  /\ MayCall(s)
  /\ sess' = [sess EXCEPT ![s] = "closing"]
  /\ Run(t, "close", s, 0, "end", "error")
  /\ UNCHANGED <<bridgeVars, bound, vendorVars, calls, unanswered, signal, userSet>>

-----------------------------------------------------------------------------
(* The vendor HAL (external): reports of the operation it runs.            *)

Events(on, args, id) == {[on |-> on, arg |-> a, id |-> id] : a \in args}

\* Reports after which the operation goes on.  They and the lockout events leave
\* room in the bounded queue for the report that ends the operation.
VendorReport ==
  /\ vop # 0
  /\ Len(evq) + 1 < MaxQueue
  /\ \E e \in Events("onAcquired", {"any"}, vop)
           \cup Events("sehOnPreviewUpdated", {"any"}, vop)
           \cup Events("sehOnPreviewFrame", {"good"}, vop)
           \cup IF calls[vop].m = "enroll"
                  THEN Events("onEnrollResult", {"more"}, vop)
                  ELSE Events("onAuthenticated", {"noMatch"}, vop)
                         \cup Events("sehOnAuthenticated", {"noMatch"}, vop) :
       e.on \in Sent /\ evq' = Append(evq, e)
  /\ UNCHANGED <<slotVars, pending, bound, vop, vuser, frameworkVars, th>>

\* Reports that end it: an error, the last enrollment report, or a match.  The
\* extended event of a match is a second event, after the base one.
VendorFinish ==
  /\ vop # 0
  /\ LET match == {"shortToken", "fullToken"}
         error == Events("onError", {"any"}, vop)
         enrolled == Events("onEnrollResult", {"last"}, vop)
         base == Events("onAuthenticated", match, vop)
         extended == {e \in Events("sehOnAuthenticated", match, vop) : e.on \in Sent}
         reports == {<<e>> : e \in error}
                      \cup IF calls[vop].m = "enroll"
                             THEN {<<e>> : e \in enrolled}
                             ELSE {<<b>> : b \in base}
                                    \cup {<<b, x>> : b \in base, x \in extended}
     IN  \E r \in reports : /\ Len(evq) + Len(r) <= MaxQueue
                           /\ evq' = evq \o r
  /\ vop' = 0
  /\ UNCHANGED <<slotVars, pending, bound, vuser, frameworkVars, th>>

VendorLockout ==
  /\ bound
  /\ "onLockoutChanged" \in Sent
  /\ Len(evq) + 1 < MaxQueue
  /\ \E e \in Events("onLockoutChanged", {"zero", "max", "other"}, 0) :
       evq' = Append(evq, e)
  /\ UNCHANGED <<slotVars, pending, bound, vop, vuser, frameworkVars, th>>

-----------------------------------------------------------------------------
BridgeHandles ==
  Handle /\ UNCHANGED <<bound, vendorVars, frameworkVars, th>>

BridgeDelivers ==
  /\ Deliver
  /\ Receive(pending.to, pending.call)
  /\ UNCHANGED <<bound, vendorVars, sess, calls, signal, userSet, th>>

FrameworkCalls(t, s) ==
  \/ CreateSession(t, s)
  \/ Enroll(t, s)
  \/ Authenticate(t, s)
  \/ GenerateChallenge(t, s)
  \/ EnumerateEnrollments(t, s)
  \/ RemoveEnrollments(t, s)
  \/ RevokeChallenge(t, s)
  \/ GetFeatures(t, s)
  \/ SetFeature(t, s)
  \/ GetAuthenticatorId(t, s)
  \/ InvalidateAuthenticatorId(t, s)
  \/ ResetLockout(t, s)
  \/ DetectInteraction(t, s)
  \/ Close(t, s)

ThreadSteps(t) ==
  \/ SetActiveUser(t)
  \/ Begin(t)
  \/ EnrollHidl(t)
  \/ AuthenticateHidl(t)
  \/ GenerateChallengeHidl(t)
  \/ EnumerateHidl(t)
  \/ RemoveHidl(t)
  \/ RevokeChallengeHidl(t)
  \/ SetFeatureHidl(t)
  \/ GetAuthenticatorIdHidl(t)
  \/ InvalidateAuthenticatorIdHidl(t)
  \/ ResetLockoutHidl(t)
  \/ CancelHidl(t)
  \/ End(t)
  \/ Reply(t)

Next ==
  \/ \E t \in Thread, s \in Session : FrameworkCalls(t, s)
  \/ \E t \in Thread, i \in Id : Cancel(t, i)
  \/ \E t \in Thread : ThreadSteps(t)
  \/ BridgeHandles
  \/ BridgeDelivers
  \/ VendorReport
  \/ VendorFinish
  \/ VendorLockout

Spec == Init /\ [][Next]_vars

\* Binder threads run the call they took to its end; the hwbinder thread
\* handles the queue; the vendor HAL ends what it runs (the code gives enroll
\* a timeout of 75 s).  Nothing obliges the framework to do anything.
FairSpec == /\ Spec
            /\ \A t \in Thread : WF_vars(ThreadSteps(t))
            /\ WF_vars(BridgeHandles)
            /\ WF_vars(BridgeDelivers)
            /\ WF_vars(VendorFinish)

-----------------------------------------------------------------------------
(* Properties of every schedule.                                           *)

Issued(s, ms) == \E i \in DOMAIN calls : calls[i].s = s /\ calls[i].m \in ms

\* A thread runs the method of call i.
Running(i) == \E t \in Thread : th[t].id = i /\ th[t].m # "cancel"

\* An enrollment report reaches only a session that asked to enroll, the base
\* verdict only one that asked to authenticate, an error only one that asked for
\* either: the mode and the callback a handler reads belong together
\* (HidlCallbackBridge.cpp, snapshot), whatever begins and ends meanwhile.
ResultMatchesOperation ==
  pending # None =>
    /\ pending.on = "onEnrollResult" => Issued(pending.to, {"enroll"})
    /\ pending.on = "onAuthenticated" => Issued(pending.to, {"authenticate"})
    /\ pending.on = "onError" => Issued(pending.to, {"enroll", "authenticate"})

\* An enroll or authenticate that returned has either answered on its callback
\* or given its caller a cancellation signal: no error path is silent
\* (SamsungSession.cpp, enroll and authenticate).
NoSilentReturn ==
  \A i \in unanswered :
    calls[i].m \in {"enroll", "authenticate"} /\ ~Running(i) => signal[i] # "none"

\* The bridge does not hold the callback of a session that was closed, although
\* operations of other sessions and late cancellations run beside the close
\* (SamsungSession.cpp, close).
ClosedNotInstalled == \A s \in Session : sess[s] = "closed" => mCb # s

\* Once a session is closed no handler chooses a call on its callback: what it
\* may still be sent is the one call that a handler had chosen when the close
\* emptied the slot (HidlCallbackBridge.cpp, the handlers call with no lock held).
NoNewCallToClosed ==
  [][\A s \in Session :
       sess[s] = "closed" /\ pending' # None /\ pending'.to = s
         => pending' = pending]_vars

\* A slot with a mode is that of an operation the HAL accepted or a thread is
\* still asking it for: one that was refused has given the slot back before its
\* thread returns, whatever begins and ends beside it (SamsungSession.cpp, enroll
\* and authenticate, the endOperation of their error paths).
SlotIsOfOperation ==
  mMode # "kNone" =>
    \E i \in DOMAIN calls : /\ calls[i].s = mCb
                            /\ ModeOf(calls[i].m) = mMode
                            /\ signal[i] # "none" \/ Running(i)

\* The methods that answer before they return.
Synchronous == AllMethods \ {"enroll", "authenticate", "enumerateEnrollments"}

\* A session whose user was set has every synchronous request answered: the
\* service found when it was created is still there at each getSeh
\* (HidlBackend.cpp, ensureBoundLocked), so no request returns in silence.
UserSetRequestsAnswered ==
  \A i \in unanswered :
    calls[i].m \in Synchronous /\ calls[i].s \in userSet => Running(i)

-----------------------------------------------------------------------------
(* Properties of a framework that runs one operation at a time.            *)

InFlight(i) == vop = i \/ \E k \in DOMAIN evq : evq[k].id = i

Cancelled(i) == calls[i].m = "enroll" /\ signal[i] = "used"

\* From its acceptance until it is answered, or its last report is handled if
\* that is first, an operation has its callback and its mode in the bridge
\* (HidlBackend.h:43-44), unless it is an enroll that was cancelled.
InstalledForDuration ==
  \A i \in unanswered :
    InFlight(i) /\ ~Cancelled(i) => /\ mCb = calls[i].s
                                  /\ mMode = ModeOf(calls[i].m)

\* The reports that end an operation, and one on its way to the caller of i.
Concludes(e) == \/ e.on = "onError"
                \/ e.on = "onEnrollResult" /\ e.arg = "last"
                \/ e.on = "onAuthenticated" /\ e.arg # "noMatch"

Underway(i) ==
  \/ vop = i
  \/ \E k \in DOMAIN evq : evq[k].id = i /\ Concludes(evq[k])
  \/ /\ pending # None /\ pending.to = calls[i].s
     /\ pending.call \in Answers[calls[i].m]

\* The conclusion of an accepted operation is never lost on its way: until the
\* caller has it, the vendor HAL runs the operation, or the report that ends it
\* waits in the queue, or a handler has turned it into the answer
\* (HidlCallbackBridge.cpp, the early returns of the handlers).  Again but for
\* an enroll that was cancelled.
ReportUnderway ==
  \A i \in unanswered : signal[i] # "none" /\ ~Cancelled(i) => Underway(i)

\* When the vendor HAL starts an operation of a session whose user was set, the
\* user active in the HAL is still that one (SamsungSession.cpp, constructor).
StartsForItsUser ==
  [][vop' \notin {0, vop} /\ calls[vop'].s \in userSet
       => vuser = calls[vop'].s]_vars

Accepted(i, m) == i \in DOMAIN calls /\ calls[i].m = m /\ signal[i] # "none"

\* An authentication the HAL accepted is answered, cancelled or not: its
\* cancellation leaves the callback installed for the report
\* (SamsungSession.cpp, authenticate).
AuthenticateConcludes ==
  \A i \in Id : Accepted(i, "authenticate") ~> i \notin unanswered

\* An enrollment the HAL accepted is answered, unless it is cancelled.
UncancelledEnrollConcludes ==
  \A i \in Id : Accepted(i, "enroll") ~> i \notin unanswered \/ signal[i] = "used"

-----------------------------------------------------------------------------
(* Statements of the comments, which the code does not keep.               *)

\* The bridge "forwards every event to the currently-active" session
\* (HidlCallbackBridge.h:22-24): an accepted enrollment is answered, cancelled
\* or not.
EnrollConcludes ==
  \A i \in Id : Accepted(i, "enroll") ~> i \notin unanswered

\* An event of an ended operation is not delivered "to a different session
\* that just started" (HidlCallbackBridge.cpp:130-132).
EndedOpReachesNoOther ==
  pending # None /\ pending.id # 0 =>
    (sess[calls[pending.id].s] = "closed" => pending.to = calls[pending.id].s)
=============================================================================
