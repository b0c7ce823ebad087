------------------- MODULE SamsungSessionDisciplineProofs -------------------
(***************************************************************************)
(* What holds of SamsungSession under a disciplined framework, for any     *)
(* number of sessions, threads and calls: the vendor HAL starts an         *)
(* operation for its user, and, where no cancellation of an enroll runs    *)
(* beside the call that follows it, an operation keeps the slot and its    *)
(* conclusion is not lost.                                                 *)
(***************************************************************************)
EXTENDS SamsungSessionProofs

\* At most one thread runs a call, cancellations apart.
OneActive == \A t, u \in Thread : Holds(th[t]) /\ Holds(th[u]) => t = u

-----------------------------------------------------------------------------
(* One session and one user at a time.                                     *)

Live == {"open", "closing"}

OneLive == \A r, s \in Session : sess[r] \in Live /\ sess[s] \in Live => r = s

\* While a constructor sets the active user, no session is in use.
ConstructorAlone ==
  \A t \in Thread : th[t].m = "createSession" =>
    \A s \in Session : sess[s] \notin Live

\* The user of the session in use is the one active in the vendor HAL, if it
\* was set at all.
UserActive ==
  \A s \in userSet : /\ sess[s] # "new"
                     /\ sess[s] \in Live => vuser = s

UserInv == OneActive /\ OneLive /\ ConstructorAlone /\ UserActive

\* A thread that takes up a call other than a constructor when none runs, goes on
\* with the one it runs, or is done with it.
TakesTurn(t) ==
  /\ OthersStay(t)
  /\ \/ th'[t].m \in {"none", "cancel", th[t].m}
     \/ th'[t].m # "createSession" /\ \A u \in Thread : ~Holds(th[u])

LEMMA OneActiveKept ==
  ASSUME OneActive, NEW t \in Thread, OthersStay(t),
         \/ Holds(th'[t]) => Holds(th[t])
         \/ \A u \in Thread : ~Holds(th[u])
  PROVE  OneActive'
BY DEF OneActive, OthersStay

LEMMA TurnKeepsUser ==
  ASSUME UserInv, NEW t \in Thread, TakesTurn(t), UNCHANGED <<sess, userSet, vuser>>
  PROVE  UserInv'
<1>1. OneActive'
  BY OneActiveKept DEF UserInv, TakesTurn, Holds
<1>2. OneLive' /\ UserActive'
  BY DEF UserInv, OneLive, UserActive
<1>3. ConstructorAlone'
  BY DEF UserInv, ConstructorAlone, TakesTurn, OthersStay
<1>4. QED
  BY <1>1, <1>2, <1>3 DEF UserInv

\* The bridge, the vendor HAL, and a request that returns in silence.
LEMMA QuietKeepsUser ==
  ASSUME UserInv, UNCHANGED <<th, sess, userSet, vuser>>
  PROVE  UserInv'
BY DEF UserInv, OneActive, OneLive, ConstructorAlone, UserActive

\* A disciplined framework makes a call only when no other runs.
LEMMA CallsAlone ==
  ASSUME Disciplined, NEW s, MayCall(s)
  PROVE  /\ unanswered = {}
         /\ \A u \in Thread : ~Holds(th[u]) /\ th[u].m # "createSession"
BY DEF MayCall, Holds

LEMMA CreateKeepsUser ==
  ASSUME Disciplined, IInv, UserInv, NEW t \in Thread, NEW s \in Session,
         CreateSession(t, s)
  PROVE  UserInv'
<1>1. /\ th[t] = Idle /\ sess[s] = "new" /\ UNCHANGED <<userSet, vuser>>
      /\ \A r \in Session : sess[r] \notin Live
      /\ \A u \in Thread : ~Holds(th[u]) /\ th[u].m # "createSession"
      /\ TypeOK
  BY CallsAlone DEF CreateSession, MayCreate, Live, vendorVars, IInv, Core
<1>2. CASE th' = th /\ sess' = [sess EXCEPT ![s] = "open"]
  <2>1. \A r \in Session : sess'[r] = IF r = s THEN "open" ELSE sess[r]
    BY <1>1, <1>2 DEF TypeOK
  <2>2. OneActive' /\ OneLive' /\ ConstructorAlone'
    BY <1>1, <1>2, <2>1 DEF UserInv, OneActive, OneLive, ConstructorAlone
  <2>3. UserActive'
    BY <1>1, <2>1 DEF UserInv, UserActive, TypeOK, Live
  <2>4. QED
    BY <2>2, <2>3 DEF UserInv
<1>3. CASE Run(t, "createSession", s, 0, "setActiveUser", "error") /\ sess' = sess
  <2>1. th'[t].m = "createSession" /\ OthersStay(t)
    <3>1. /\ "createSession" \in Activity /\ "setActiveUser" \in PC
          /\ "error" \in SessionCall /\ 0 \in 0..MaxCalls
      BY BridgeAssumption DEF Activity, PC, SessionCall
    <3>2. QED
      BY <1>1, <1>3, <3>1, RunFrame DEF OthersStay
  <2>2. OneActive'
    BY <1>1, <2>1, OneActiveKept DEF UserInv
  <2>3. OneLive' /\ ConstructorAlone' /\ UserActive'
    BY <1>1, <1>3 DEF UserInv, OneLive, ConstructorAlone, UserActive
  <2>4. QED
    BY <2>2, <2>3 DEF UserInv
<1>4. QED
  BY <1>2, <1>3 DEF CreateSession

LEMMA SetKeepsUser ==
  ASSUME IInv, UserInv, NEW t \in Thread, SetActiveUser(t)
  PROVE  UserInv'
<1> DEFINE s == th[t].s
<1>1. ConstructorOK(th[t]) /\ TypeOK
  BY DEF SetActiveUser, At, IInv, Core, ThreadsOK, FrameOK, Idle, MethodOK, CancelOK,
         CloseOK, AllMethods
<1>2. /\ Return(t) /\ s \in Session /\ sess[s] = "new"
      /\ sess' = [sess EXCEPT ![s] = "open"]
      /\ (vuser' = s /\ userSet' = userSet \cup {s}) \/ UNCHANGED <<vuser, userSet>>
      /\ th[t].m = "createSession"
  BY <1>1 DEF SetActiveUser, At, ConstructorOK
<1>3. th'[t] = Idle /\ OthersStay(t)
  BY <1>1, <1>2, ReturnFrame DEF OthersStay
<1>4. \A r \in Session : /\ sess[r] \notin Live
                         /\ sess'[r] = IF r = s THEN "open" ELSE sess[r]
  BY <1>1, <1>2 DEF UserInv, ConstructorAlone, TypeOK
<1>5. OneActive'
  BY <1>3, OneActiveKept DEF UserInv, Holds, Idle
<1>6. OneLive'
  BY <1>4 DEF OneLive
<1>7. ConstructorAlone'
  BY <1>2, <1>3 DEF UserInv, OneActive, Holds, ConstructorAlone, OthersStay, Idle
<1>8. UserActive'
  <2> SUFFICES ASSUME NEW r \in userSet'
               PROVE  sess'[r] # "new" /\ (sess'[r] \in Live => vuser' = r)
    BY DEF UserActive
  <2>1. r \in Session
    BY <1>1, <1>2 DEF TypeOK
  <2>2. CASE r = s
    BY <1>2, <1>4, <2>2 DEF UserInv, UserActive
  <2>3. CASE r # s
    BY <1>2, <1>4, <2>1, <2>3 DEF UserInv, UserActive
  <2>4. QED
    BY <2>2, <2>3
<1>9. QED
  BY <1>5, <1>6, <1>7, <1>8 DEF UserInv

\* A session in use is closed, or stays in use.
LEMMA SessionKeepsUser ==
  ASSUME UserInv, NEW t \in Thread, TakesTurn(t), UNCHANGED <<userSet, vuser>>,
         TypeOK,
         NEW s \in Session, NEW state \in {"closing", "closed"}, sess[s] \in Live,
         sess' = [sess EXCEPT ![s] = state]
  PROVE  UserInv'
<1>1. \A r \in Session : sess'[r] = IF r = s THEN state ELSE sess[r]
  BY DEF TypeOK
<1>2. OneActive'
  BY OneActiveKept DEF UserInv, TakesTurn, Holds
<1>3. OneLive'
  BY <1>1 DEF UserInv, OneLive, Live
<1>4. ConstructorAlone'
  BY <1>1 DEF UserInv, ConstructorAlone, TakesTurn, OthersStay
<1>5. UserActive'
  BY <1>1 DEF UserInv, UserActive, TypeOK, Live
<1>6. QED
  BY <1>2, <1>3, <1>4, <1>5 DEF UserInv

LEMMA CloseFrame ==
  ASSUME TypeOK, NEW t \in Thread, NEW s \in Session, Close(t, s)
  PROVE  th'[t].m = "close" /\ OthersStay(t)
<1>1. "close" \in Activity /\ "end" \in PC /\ "error" \in SessionCall
        /\ 0 \in 0..MaxCalls
  BY BridgeAssumption DEF Activity, PC, SessionCall
<1>2. QED
  BY <1>1, RunFrame DEF Close, OthersStay

\* The methods begin by taking up a call, or return without a step.
Takes(t, s, m) ==
  /\ Issue(t, s, m)
  /\ th' = th \/ \E pc \in {"begin", "hidl", "reply"}, say \in SessionCall :
                  /\ Run(t, m, s, NewId, pc, say)
                  /\ pc = "hidl" => m \notin {"enroll", "authenticate",
                                   "enumerateEnrollments", "removeEnrollments"}

\* Every call of the framework takes up a method, creates a session or closes one.
LEMMA CallKinds ==
  ASSUME NEW t \in Thread, NEW s \in Session, FrameworkCalls(t, s)
  PROVE  \/ CreateSession(t, s)
         \/ Close(t, s)
         \/ \E m \in AllMethods : Takes(t, s, m)
<1> USE DEF Takes, SessionCall, AllMethods
<1>1. CASE Enroll(t, s)
  <2>1. Takes(t, s, "enroll")
    BY <1>1 DEF Enroll
  <2>2. QED
    BY <2>1
<1>2. CASE Authenticate(t, s)
  <2>1. Takes(t, s, "authenticate")
    BY <1>2 DEF Authenticate
  <2>2. QED
    BY <2>1
<1>3. ASSUME NEW m \in AllMethods, NEW pc \in {"begin", "hidl", "reply"},
             NEW say \in SessionCall, IssueBound(t, s, m, pc, say),
             pc = "hidl" => m \notin {"enroll", "authenticate",
                                     "enumerateEnrollments", "removeEnrollments"}
      PROVE  \E n \in AllMethods : Takes(t, s, n)
  <2>1. Takes(t, s, m)
    BY <1>3 DEF IssueBound
  <2>2. QED
    BY <2>1
<1>4. CASE InvalidateAuthenticatorId(t, s)
  <2>1. Takes(t, s, "invalidateAuthenticatorId")
    BY <1>4 DEF InvalidateAuthenticatorId
  <2>2. QED
    BY <2>1
<1>5. CASE DetectInteraction(t, s)
  <2>1. Takes(t, s, "detectInteraction")
    BY <1>5 DEF DetectInteraction
  <2>2. QED
    BY <2>1
<1>6. QED
  BY <1>1, <1>2, <1>3, <1>4, <1>5
     DEF FrameworkCalls, GenerateChallenge, EnumerateEnrollments, RemoveEnrollments,
         RevokeChallenge, GetFeatures, SetFeature, GetAuthenticatorId, ResetLockout

\* What taking up a method does to the threads.
LEMMA TakesFrame ==
  ASSUME TypeOK, NEW t \in Thread, NEW s \in Session, NEW m \in AllMethods,
         NEW pc \in {"begin", "hidl", "reply"}, NEW say \in SessionCall,
         Issue(t, s, m), Run(t, m, s, NewId, pc, say)
  PROVE  /\ th'[t].pc = pc /\ th'[t].m = m /\ th'[t].s = s
         /\ th'[t].id = Len(calls) + 1
         /\ OthersStay(t)
<1>1. calls \in Seq(Call) /\ Len(calls) < MaxCalls /\ MaxCalls \in Nat
  BY BridgeAssumption DEF TypeOK, Issue
<1>2. Len(calls) + 1 \in 0..MaxCalls
  BY <1>1
<1>3. m \in Activity /\ pc \in PC
  BY DEF Activity, PC
<1>4. QED
  BY <1>2, <1>3, RunFrame DEF NewId, OthersStay

LEMMA CallKeepsUser ==
  ASSUME Disciplined, IInv, UserInv, NEW t \in Thread, NEW s \in Session,
         FrameworkCalls(t, s)
  PROVE  UserInv'
<1>1. TypeOK
  BY DEF IInv, Core
<1>2. CASE Close(t, s)
  <2>1. /\ sess[s] \in Live /\ sess' = [sess EXCEPT ![s] = "closing"]
        /\ UNCHANGED <<userSet, vuser>> /\ MayCall(s)
    BY <1>2 DEF Close, Live, vendorVars
  <2>2. TakesTurn(t)
    BY <1>1, <1>2, <2>1, CloseFrame, CallsAlone DEF TakesTurn
  <2>3. QED
    BY <1>1, <2>1, <2>2, SessionKeepsUser
<1>3. ASSUME NEW m \in AllMethods, Takes(t, s, m) PROVE UserInv'
  <2>1. UNCHANGED <<sess, userSet, vuser>> /\ MayCall(s)
    BY <1>3 DEF Takes, Issue, vendorVars
  <2>2. CASE th' = th
    BY <2>1, <2>2, QuietKeepsUser
  <2>3. CASE \E pc \in {"begin", "hidl", "reply"}, say \in SessionCall :
               Run(t, m, s, NewId, pc, say)
    <3>1. th'[t].m = m /\ OthersStay(t)
      BY <1>1, <1>3, <2>3, TakesFrame DEF Takes
    <3>2. TakesTurn(t)
      BY <2>1, <3>1, CallsAlone DEF TakesTurn, AllMethods
    <3>3. QED
      BY <2>1, <3>2, TurnKeepsUser
  <2>4. QED
    BY <1>3, <2>2, <2>3 DEF Takes
<1>4. QED
  BY <1>2, <1>3, CallKinds, CreateKeepsUser

LEMMA CancelFrame ==
  ASSUME IInv, NEW t \in Thread, NEW i \in Id, Cancel(t, i)
  PROVE  /\ th'[t].m = "cancel" /\ th'[t].id = i /\ th'[t].pc = "hidl"
         /\ OthersStay(t)
         /\ i \in 1..Len(calls)
<1>1. i \in 1..Len(calls) /\ calls \in Seq(Call) /\ TypeOK
  BY DEF Cancel, IInv, Core, HistoryOK, TypeOK
<1>2. calls[i] \in Call
  BY <1>1
<1>3. /\ "cancel" \in Activity /\ "hidl" \in PC /\ "error" \in SessionCall
      /\ calls[i].s \in Session /\ i \in 0..MaxCalls
  BY <1>2 DEF Activity, PC, SessionCall, Call, Id
<1>4. QED
  BY <1>1, <1>3, RunFrame DEF Cancel, OthersStay

\* A thread within its method goes on or is done.
LEMMA StepTurn ==
  ASSUME TypeOK, NEW t \in Thread,
         Return(t) \/ \E pc \in PC, say \in SessionCall : Goto(t, pc, say)
  PROVE  TakesTurn(t)
<1>1. CASE Return(t)
  BY <1>1, ReturnFrame DEF TakesTurn, OthersStay, Idle
<1>2. CASE \E pc \in PC, say \in SessionCall : Goto(t, pc, say)
  BY <1>2, GotoFrame DEF TakesTurn, OthersStay
<1>3. QED
  BY <1>1, <1>2

LEMMA ThreadKeepsUser ==
  ASSUME IInv, UserInv, NEW t \in Thread, ThreadSteps(t)
  PROVE  UserInv'
<1>1. TypeOK
  BY DEF IInv, Core
<1>2. CASE Reply(t)
  <2>1. UNCHANGED <<userSet, vuser>> /\ Return(t)
    BY <1>2 DEF Reply, vendorVars
  <2>2. TakesTurn(t)
    BY <1>1, <2>1, StepTurn
  <2>3. CASE th[t].m = "close"
    <3>1. CloseOK(th[t])
      BY <2>3 DEF IInv, Core, ThreadsOK, FrameOK, Idle, MethodOK, CancelOK, CloseOK,
                  ConstructorOK, AllMethods
    <3>2. sess' = [sess EXCEPT ![th[t].s] = "closed"]
      BY <1>2, <2>3 DEF Reply
    <3>3. QED
      BY <1>1, <2>1, <2>2, <3>1, <3>2, SessionKeepsUser DEF CloseOK, Live
  <2>4. CASE th[t].m # "close"
    BY <1>2, <2>1, <2>2, <2>4, TurnKeepsUser DEF Reply
  <2>5. QED
    BY <2>3, <2>4
<1>3. CASE ~SetActiveUser(t) /\ ~Reply(t)
  <2>1. /\ UNCHANGED <<sess, userSet, vuser>>
        /\ Return(t) \/ \E pc \in PC, say \in SessionCall : Goto(t, pc, say)
    BY <1>3 DEF ThreadSteps, Begin, EnrollHidl, AuthenticateHidl, StartOrRefuse,
       GenerateChallengeHidl, EnumerateHidl, RemoveHidl, RevokeChallengeHidl,
       SetFeatureHidl, GetAuthenticatorIdHidl, InvalidateAuthenticatorIdHidl,
       ResetLockoutHidl, Answer, CancelHidl, End, vendorVars, frameworkVars, PC,
       SessionCall
  <2>2. QED
    BY <1>1, <2>1, StepTurn, TurnKeepsUser
<1>4. QED
  BY <1>2, <1>3, SetKeepsUser

LEMMA InitUser == Init => UserInv
BY DEF Init, UserInv, OneActive, OneLive, ConstructorAlone, UserActive, Live, Holds,
       Idle

LEMMA NextUser ==
  ASSUME Disciplined, IInv, UserInv, [Next]_vars
  PROVE  UserInv'
<1>1. CASE \/ UNCHANGED vars \/ BridgeHandles \/ BridgeDelivers
           \/ VendorReport \/ VendorFinish \/ VendorLockout
  <2>1. UNCHANGED <<th, sess, userSet, vuser>>
    BY <1>1 DEF vars, BridgeHandles, BridgeDelivers, VendorReport, VendorFinish,
                VendorLockout, frameworkVars, vendorVars
  <2>2. QED
    BY <2>1, QuietKeepsUser
<1>2. CASE \E t \in Thread, i \in Id : Cancel(t, i)
  <2> PICK t \in Thread, i \in Id : Cancel(t, i)
    BY <1>2
  <2>1. TakesTurn(t)
    BY CancelFrame DEF TakesTurn
  <2>2. QED
    BY <2>1, TurnKeepsUser DEF Cancel, vendorVars
<1>3. QED
  BY <1>1, <1>2, CallKeepsUser, ThreadKeepsUser DEF Next

\* Only the vendor call of an enroll or an authenticate starts an operation: the
\* one of the call, on the session that made it.
LEMMA StartsAreCalls ==
  ASSUME IInv, [Next]_vars, vop' \notin {0, vop}
  PROVE  \E t \in Thread : /\ th[t].m \in AllMethods
                           /\ vop' = th[t].id
<1>1. PICK t \in Thread : ThreadSteps(t)
  <2>1. ~UNCHANGED vars /\ ~BridgeHandles /\ ~BridgeDelivers /\ ~VendorReport
          /\ ~VendorFinish /\ ~VendorLockout
    BY DEF vars, BridgeHandles, BridgeDelivers, VendorReport, VendorFinish,
           VendorLockout, vendorVars
  <2>2. ASSUME NEW t \in Thread, NEW s \in Session, FrameworkCalls(t, s) PROVE FALSE
    BY <2>2, CallKinds DEF CreateSession, Close, Takes, Issue, vendorVars
  <2>3. ~ \E t \in Thread, i \in Id : Cancel(t, i)
    BY DEF Cancel, vendorVars
  <2>4. QED
    BY <2>1, <2>2, <2>3 DEF Next
<1>2. EnrollHidl(t) \/ AuthenticateHidl(t)
  BY <1>1 DEF ThreadSteps, SetActiveUser, Begin, GenerateChallengeHidl, EnumerateHidl,
     RemoveHidl, RevokeChallengeHidl, SetFeatureHidl, GetAuthenticatorIdHidl,
     InvalidateAuthenticatorIdHidl, ResetLockoutHidl, Answer, CancelHidl,
     VendorCancel, End, Reply, vendorVars
<1>3. QED
  BY <1>2 DEF EnrollHidl, AuthenticateHidl, At, StartOrRefuse, VendorStart, AllMethods

\* Under a disciplined framework the user active in the vendor HAL is that of the
\* session, if it was ever set, whenever the HAL starts an operation
\* (SamsungSession.cpp, constructor, enroll and authenticate).
THEOREM StartsForTheUser ==
  ASSUME Disciplined PROVE Spec => StartsForItsUser
<1>1. Init => IInv /\ UserInv
  BY InitIInv, InitUser
<1>2. IInv /\ UserInv /\ [Next]_vars => (IInv /\ UserInv)'
  BY NextIInv, NextUser
<1>3. IInv /\ UserInv /\ [Next]_vars =>
        [vop' \notin {0, vop} /\ calls[vop'].s \in userSet
           => vuser = calls[vop'].s]_vars
  <2> SUFFICES ASSUME IInv, UserInv, [Next]_vars, vop' \notin {0, vop},
                      calls[vop'].s \in userSet
               PROVE  vuser = calls[vop'].s
    OBVIOUS
  <2>1. PICK t \in Thread : th[t].m \in AllMethods /\ vop' = th[t].id
    BY StartsAreCalls
  <2>2. MethodOK(th[t])
    BY <2>1, MethodFrame DEF IInv, Core
  <2>3. QED
    BY <2>1, <2>2 DEF MethodOK, UserInv, UserActive, Live
<1>4. QED
  BY <1>1, <1>2, <1>3, PTL DEF Spec, StartsForItsUser

-----------------------------------------------------------------------------
(* One operation at a time: the inductive invariant.                       *)

\* No cancellation of an enroll runs beside the call that follows it: there is
\* one binder thread, or there are no enrolls.
Serial == (\A t, u \in Thread : t = u) \/ "enroll" \notin Method

\* The framework waits for the last call alone, and for none when it closes a
\* session or creates one.
LastOnly ==
  /\ unanswered \subseteq {Len(calls)}
  /\ \A t \in Thread : /\ th[t].m \in AllMethods => th[t].id = Len(calls)
                       /\ th[t].m \in {"close", "createSession"} => unanswered = {}

\* The events that wait in the queue.
Waiting == {evq[k] : k \in DOMAIN evq}

\* What the vendor HAL reports on was issued, by a method that is reported on.
EventFits(e) ==
  /\ e.id \in 0..Len(calls)
  /\ e.on = "onEnrollResult" => e.id # 0 /\ calls[e.id].m = "enroll"
  /\ e.on = "onAuthenticated" => e.id # 0 /\ calls[e.id].m = "authenticate"
  /\ e.on = "onError" => e.id # 0 /\ calls[e.id].m \in Operations

FlightOK == /\ vop \in 0..Len(calls)
            /\ vop # 0 => calls[vop].m \in Operations
            /\ \A e \in Waiting : EventFits(e)
            /\ \A i \in Id : signal[i] # "none" => calls[i].m \in Operations

Reported == Operations \cup {"enumerateEnrollments", "removeEnrollments"}

\* A method has no signal while it runs, is not in flight before its vendor call,
\* and has the slot when it makes it.
MethodReady ==
  \A t \in Thread : th[t].m \in AllMethods =>
    /\ signal[th[t].id] = "none"
    /\ th[t].pc # "reply" => ~InFlight(th[t].id)
    /\ th[t].m \in Reported /\ th[t].pc = "hidl" =>
         mCb = th[t].s /\ mMode = ModeOf(th[t].m)

\* A cancellation that will end the operation is that of the last call, and
\* no call runs beside it.
CancelSerial ==
  /\ \A i \in 1..Len(calls) : calls[i].m \in Method
  /\ \A t \in Thread : th[t].m = "cancel" =>
       /\ th[t].pc = "end" => calls[th[t].id].m = "enroll"
       /\ calls[th[t].id].m = "enroll" =>
            /\ th[t].id = Len(calls) /\ signal[th[t].id] = "used"
            /\ \A u \in Thread : ~Holds(th[u])

SerialInv == /\ OneActive
             /\ LastOnly
             /\ FlightOK
             /\ MethodReady
             /\ CancelSerial
             /\ InstalledForDuration
             /\ ReportUnderway

-----------------------------------------------------------------------------
(* Facts about the history and the queue.                                  *)

LEMMA HistoryFacts ==
  ASSUME IInv
  PROVE  /\ TypeOK /\ ThreadsOK /\ calls \in Seq(Call) /\ Len(calls) \in Nat
         /\ unanswered \subseteq 1..Len(calls)
         /\ \A i \in 1..Len(calls) : i \in Id /\ calls[i].s \in Session
         /\ evq \in Seq(Event)
<1>1. /\ TypeOK /\ ThreadsOK /\ calls \in Seq(Call) /\ evq \in Seq(Event)
      /\ Len(calls) <= MaxCalls /\ MaxCalls \in Nat
      /\ unanswered \subseteq 1..Len(calls)
  BY BridgeAssumption DEF IInv, Core, HistoryOK, TypeOK, BridgeTypeOK
<1>2. \A i \in 1..Len(calls) : calls[i] \in Call
  BY <1>1
<1>3. QED
  BY <1>1, <1>2 DEF Call, Id

LEMMA MethodFacts ==
  ASSUME IInv, NEW t \in Thread, th[t].m \in AllMethods
  PROVE  /\ th[t].id \in 1..Len(calls) /\ th[t].id \in Id /\ th[t].s \in Session
         /\ calls[th[t].id].m = th[t].m /\ calls[th[t].id].s = th[t].s
         /\ Holds(th[t])
BY MethodFrame, HistoryFacts DEF MethodOK, Holds, AllMethods

\* In flight is what the vendor HAL runs or an event that waits is about.
LEMMA FlightByWaiting ==
  ASSUME NEW i
  PROVE  /\ InFlight(i) <=> vop = i \/ \E e \in Waiting : e.id = i
         /\ InFlight(i)' <=> vop' = i \/ \E e \in Waiting' : e.id = i
BY DEF InFlight, Waiting

LEMMA UnderwayByWaiting ==
  ASSUME NEW i
  PROVE  /\ Underway(i) <=> \/ vop = i
                            \/ \E e \in Waiting : e.id = i /\ Concludes(e)
                            \/ /\ pending # None /\ pending.to = calls[i].s
                               /\ pending.call \in Answers[calls[i].m]
         /\ Underway(i)' <=> \/ vop' = i
                             \/ \E e \in Waiting' : e.id = i /\ Concludes(e)
                             \/ /\ pending' # None /\ pending'.to = calls'[i].s
                                /\ pending'.call \in Answers[calls'[i].m]
BY DEF Underway, Waiting

LEMMA WaitingAppends ==
  ASSUME NEW e \in Event, evq \in Seq(Event), evq' = Append(evq, e)
  PROVE  Waiting' = Waiting \cup {e}
<1>1. /\ Len(evq') = Len(evq) + 1 /\ Len(evq) \in Nat
      /\ DOMAIN evq = 1..Len(evq) /\ DOMAIN evq' = 1..Len(evq')
      /\ \A i \in 1..Len(evq) : evq'[i] = evq[i]
      /\ evq'[Len(evq) + 1] = e
  OBVIOUS
<1>2. Waiting' \subseteq Waiting \cup {e}
  BY <1>1 DEF Waiting
<1>3. Waiting \subseteq Waiting'
  BY <1>1 DEF Waiting
<1>4. e \in Waiting'
  BY <1>1 DEF Waiting
<1>5. QED
  BY <1>2, <1>3, <1>4

LEMMA WaitingConcatenates ==
  ASSUME NEW r \in Seq(Event), evq \in Seq(Event), evq' = evq \o r
  PROVE  Waiting' = Waiting \cup {r[k] : k \in DOMAIN r}
<1>1. /\ Len(evq') = Len(evq) + Len(r) /\ Len(evq) \in Nat /\ Len(r) \in Nat
      /\ DOMAIN evq = 1..Len(evq) /\ DOMAIN evq' = 1..Len(evq')
      /\ DOMAIN r = 1..Len(r)
      /\ \A i \in 1..Len(evq) : evq'[i] = evq[i]
      /\ \A i \in 1..Len(r) : evq'[Len(evq) + i] = r[i]
  OBVIOUS
<1>2. Waiting' \subseteq Waiting \cup {r[k] : k \in DOMAIN r}
  <2> SUFFICES ASSUME NEW k \in 1..Len(evq')
               PROVE  evq'[k] \in Waiting \cup {r[j] : j \in DOMAIN r}
    BY <1>1 DEF Waiting
  <2>1. CASE k \in 1..Len(evq)
    BY <1>1, <2>1 DEF Waiting
  <2>2. CASE k \notin 1..Len(evq)
    <3>1. k - Len(evq) \in 1..Len(r) /\ k = Len(evq) + (k - Len(evq))
      BY <1>1, <2>2
    <3>2. evq'[k] = r[k - Len(evq)]
      BY <1>1, <3>1
    <3>3. QED
      BY <1>1, <3>1, <3>2
  <2>3. QED
    BY <2>1, <2>2
<1>3. Waiting \subseteq Waiting'
  BY <1>1 DEF Waiting
<1>4. {r[k] : k \in DOMAIN r} \subseteq Waiting'
  <2> SUFFICES ASSUME NEW k \in 1..Len(r) PROVE r[k] \in Waiting'
    BY <1>1
  <2>1. Len(evq) + k \in 1..Len(evq') /\ evq'[Len(evq) + k] = r[k]
    BY <1>1
  <2>2. QED
    BY <1>1, <2>1 DEF Waiting
<1>5. QED
  BY <1>2, <1>3, <1>4

LEMMA WaitingShrinks ==
  ASSUME evq \in Seq(Event), evq # <<>>, evq' = Tail(evq)
  PROVE  Waiting = Waiting' \cup {Head(evq)}
<1>1. /\ Len(evq') = Len(evq) - 1 /\ Len(evq) \in Nat /\ Len(evq) # 0
      /\ DOMAIN evq = 1..Len(evq) /\ DOMAIN evq' = 1..Len(evq')
      /\ \A i \in 1..Len(evq') : evq'[i] = evq[i + 1]
      /\ Head(evq) = evq[1]
  OBVIOUS
<1>2. Waiting \subseteq Waiting' \cup {Head(evq)}
  <2> SUFFICES ASSUME NEW k \in 1..Len(evq), k # 1 PROVE evq[k] \in Waiting'
    BY <1>1 DEF Waiting
  <2>1. k - 1 \in 1..Len(evq') /\ evq'[k - 1] = evq[(k - 1) + 1] /\ (k - 1) + 1 = k
    BY <1>1
  <2>2. QED
    BY <1>1, <2>1 DEF Waiting
<1>3. Waiting' \subseteq Waiting
  <2> SUFFICES ASSUME NEW k \in 1..Len(evq') PROVE evq'[k] \in Waiting
    BY <1>1 DEF Waiting
  <2>1. k + 1 \in 1..Len(evq)
    BY <1>1
  <2>2. QED
    BY <1>1, <2>1 DEF Waiting
<1>4. Head(evq) \in Waiting
  BY <1>1 DEF Waiting
<1>5. QED
  BY <1>2, <1>3, <1>4

LEMMA FitsKept ==
  ASSUME CallsGrow, NEW e, EventFits(e)
  PROVE  EventFits(e)'
BY DEF EventFits, CallsGrow

\* What a cancellation runs beside.
LEMMA NoEnrollCancelled ==
  ASSUME IInv, SerialInv, Serial, NEW t \in Thread, th[t] = Idle,
         NEW u \in Thread, th[u].m = "cancel"
  PROVE  calls[th[u].id].m # "enroll" /\ th[u].id \in 1..Len(calls)
<1>1. u # t
  BY DEF Idle
<1>2. "enroll" \notin Method
  BY <1>1 DEF Serial
<1>3. CancelOK(th[u])
  BY HistoryFacts DEF ThreadsOK, FrameOK, Idle, MethodOK, CloseOK, ConstructorOK,
                      AllMethods
<1>4. QED
  BY <1>2, <1>3 DEF SerialInv, CancelSerial, CancelOK

LEMMA HolderKinds ==
  ASSUME IInv, NEW t \in Thread, Holds(th[t])
  PROVE  th[t].m \in AllMethods \cup {"close", "createSession"}
BY HistoryFacts DEF ThreadsOK, FrameOK, Idle, MethodOK, CancelOK, CloseOK,
                    ConstructorOK, Holds

-----------------------------------------------------------------------------
(* The kinds of steps.                                                     *)

\* Reports are queued, of an operation that goes on or ends with one that
\* concludes it; answers arrive; threads are done, or a cancellation goes on to
\* end the operation.
LEMMA Settles ==
  ASSUME IInv, SerialInv,
         UNCHANGED <<mMode, mCb, pending, calls, signal>>,
         unanswered' \subseteq unanswered,
         vop' \in {vop, 0},
         Waiting \subseteq Waiting',
         \A e \in Waiting' : e \in Waiting \/ (EventFits(e) /\ e.id \in {0, vop}),
         vop' # vop => \E e \in Waiting' : e.id = vop /\ Concludes(e),
         \A u \in Thread : \/ th'[u] = th[u]
                           \/ th'[u] = Idle
                           \/ /\ th[u].m = "cancel" /\ th'[u].m = "cancel"
                              /\ th'[u].id = th[u].id
                              /\ calls[th[u].id].m = "enroll"
  PROVE  SerialInv'
<1> USE DEF SerialInv
<1>1. \A u \in Thread : Holds(th'[u]) => th'[u] = th[u]
  BY DEF Holds, Idle
<1>2. \A u \in Thread : th'[u].m \in AllMethods => th'[u] = th[u]
  BY DEF Idle, AllMethods
<1>3. ASSUME NEW i, i # 0, InFlight(i)' PROVE InFlight(i)
  BY <1>3, FlightByWaiting
<1>4. OneActive'
  BY <1>1 DEF OneActive
<1>5. LastOnly'
  <2>1. \A u \in Thread : th'[u].m \in {"close", "createSession"} => th'[u] = th[u]
    BY DEF Idle
  <2>2. QED
    BY <1>2, <2>1 DEF LastOnly
<1>6. FlightOK'
  <2>1. 0 \in 0..Len(calls)
    BY HistoryFacts
  <2>2. ASSUME NEW e \in Waiting' PROVE EventFits(e)'
    BY <2>2, CallsUnchanged, FitsKept, HistoryFacts DEF FlightOK
  <2>3. QED
    BY <2>1, <2>2 DEF FlightOK
<1>7. MethodReady'
  <2> SUFFICES ASSUME NEW u \in Thread, th[u].m \in AllMethods, th'[u] = th[u]
               PROVE  /\ signal[th[u].id] = "none"
                      /\ th[u].pc # "reply" => ~InFlight(th[u].id)'
                      /\ th[u].m \in Reported /\ th[u].pc = "hidl" =>
                           mCb = th[u].s /\ mMode = ModeOf(th[u].m)
    BY <1>2 DEF MethodReady
  <2>1. th[u].id # 0
    BY MethodFacts
  <2>2. QED
    BY <1>3, <2>1 DEF MethodReady
<1>8. CancelSerial'
  <2>1. \A u \in Thread : Holds(th'[u]) => Holds(th[u])
    BY <1>1
  <2>2. ASSUME NEW u \in Thread, th'[u].m = "cancel"
        PROVE  /\ th[u].m = "cancel" /\ th'[u].id = th[u].id
               /\ th'[u].pc = "end" => calls[th[u].id].m = "enroll"
    BY <2>2 DEF CancelSerial, Idle
  <2>3. QED
    BY <2>1, <2>2 DEF CancelSerial
<1>9. InstalledForDuration'
  <2>1. \A i \in unanswered : i # 0
    BY HistoryFacts
  <2>2. QED
    BY <1>3, <2>1 DEF InstalledForDuration, Cancelled
<1>10. ReportUnderway'
  <2>1. ASSUME NEW i, Underway(i) PROVE Underway(i)'
    BY <2>1, UnderwayByWaiting
  <2>2. QED
    BY <2>1 DEF ReportUnderway, Cancelled
<1>11. QED
  BY <1>4, <1>5, <1>6, <1>7, <1>8, <1>9, <1>10

\* A thread goes on within its method, begins or ends the operation, and sends
\* the vendor HAL a request that it may report on.
LEMMA MethodSerial ==
  ASSUME IInv, SerialInv, NEW t \in Thread, OthersStay(t), th[t].m \in AllMethods,
         \/ th'[t] = Idle
         \/ /\ th'[t].m = th[t].m /\ th'[t].id = th[t].id /\ th'[t].s = th[t].s
            /\ th'[t].pc # "reply" => th[t].pc # "reply" /\ Waiting' = Waiting
            /\ th'[t].pc = "hidl" => mCb' = th[t].s /\ mMode' = ModeOf(th[t].m),
         \/ UNCHANGED <<mMode, mCb>>
         \/ th[t].pc # "reply" /\ Waiting' = Waiting,
         UNCHANGED <<calls, unanswered, signal, vop>>,
         pending' = pending,
         Waiting \subseteq Waiting',
         \A e \in Waiting' : \/ e \in Waiting
                             \/ /\ EventFits(e) /\ e.id = th[t].id
                                /\ th[t].pc = "hidl" /\ th[t].m \in Reported
  PROVE  SerialInv'
<1> USE DEF SerialInv
<1>1. /\ th[t].id \in 1..Len(calls) /\ th[t].id \in Id
      /\ calls[th[t].id].m = th[t].m /\ calls[th[t].id].s = th[t].s
      /\ Holds(th[t]) /\ th[t].id = Len(calls)
  BY MethodFacts DEF LastOnly
<1> PICK id \in Id : id = th[t].id
  BY <1>1
<1>2. \A u \in Thread \ {t} : th'[u] = th[u] /\ ~Holds(th[u])
  BY <1>1 DEF OneActive, OthersStay
<1>3. \A u \in Thread : Holds(th'[u]) => u = t
  BY <1>2
<1>4. \A u \in Thread : th'[u].m \in AllMethods => u = t
  BY <1>3 DEF Holds, AllMethods
<1>5. \A i \in unanswered : i = th[t].id
  BY <1>1 DEF LastOnly
<1>6. OneActive'
  BY <1>3 DEF OneActive
<1>7. LastOnly'
  <2>1. \A u \in Thread : th'[u].m \notin {"close", "createSession"}
    BY <1>3 DEF Holds, Idle, AllMethods
  <2>2. th'[t].m \in AllMethods => th'[t].id = th[t].id
    BY DEF Idle, AllMethods
  <2>3. QED
    BY <1>1, <1>4, <2>1, <2>2 DEF LastOnly
<1>8. FlightOK'
  <2>1. ASSUME NEW e \in Waiting' PROVE EventFits(e)'
    BY <2>1, CallsUnchanged, FitsKept, HistoryFacts DEF FlightOK
  <2>2. QED
    BY <2>1 DEF FlightOK
<1>9. MethodReady'
  <2> SUFFICES ASSUME th'[t].m \in AllMethods
               PROVE  /\ signal'[th'[t].id] = "none"
                      /\ th'[t].pc # "reply" => ~InFlight(th[t].id)'
                      /\ th'[t].pc = "hidl" =>
                           mCb' = th'[t].s /\ mMode' = ModeOf(th'[t].m)
    BY <1>4 DEF MethodReady
  <2>1. th'[t].m = th[t].m /\ th'[t].id = id /\ th'[t].s = th[t].s
          /\ th'[t] # Idle
    BY DEF Idle, AllMethods
  <2>2. ASSUME th'[t].pc # "reply" PROVE ~InFlight(id)'
    <3>1. th[t].pc # "reply" /\ Waiting' = Waiting
      BY <2>1, <2>2
    <3>2. ~InFlight(id)
      BY <3>1 DEF MethodReady
    <3>3. QED
      BY <3>1, <3>2, FlightByWaiting
  <2>3. ~InFlight(id)' => ~InFlight(th[t].id)'
    BY <2>1 DEF InFlight
  <2>4. signal'[th'[t].id] = "none"
    BY <2>1 DEF MethodReady
  <2>5. QED
    BY <2>1, <2>2, <2>3, <2>4
<1>10. CancelSerial'
  <2>1. \A u \in Thread : th'[u].m = "cancel" => u # t /\ th'[u] = th[u]
    BY <1>2 DEF Idle, AllMethods
  <2>2. \A u \in Thread : th[u].m = "cancel" => calls[th[u].id].m # "enroll"
    BY <1>1 DEF CancelSerial
  <2>3. QED
    BY <2>1, <2>2 DEF CancelSerial
<1>11. InstalledForDuration'
  <2> SUFFICES ASSUME id \in unanswered, InFlight(id)', ~Cancelled(id)
               PROVE  mCb' = calls[id].s /\ mMode' = ModeOf(calls[id].m)
    BY <1>5 DEF InstalledForDuration, Cancelled
  <2>1. CASE th[t].pc = "hidl" /\ th[t].m \in Reported /\ UNCHANGED <<mMode, mCb>>
    BY <1>1, <2>1 DEF MethodReady
  <2>2. CASE Waiting' = Waiting \/ ~(th[t].pc = "hidl" /\ th[t].m \in Reported)
    <3>1. InFlight(id)
      BY <2>2, FlightByWaiting
    <3>2. UNCHANGED <<mMode, mCb>>
      BY <3>1 DEF MethodReady
    <3>3. QED
      BY <3>1, <3>2 DEF InstalledForDuration
  <2>3. QED
    BY <2>1, <2>2
<1>12. ReportUnderway'
  BY <1>5 DEF ReportUnderway, MethodReady
<1>13. QED
  BY <1>6, <1>7, <1>8, <1>9, <1>10, <1>11, <1>12

\* The vendor HAL accepts an enroll or an authenticate.
LEMMA AcceptSerial ==
  ASSUME IInv, SerialInv, NEW t \in Thread, NEW m \in Operations, At(t, m, "hidl"),
         VendorStart(th[t].id), signal' = [signal EXCEPT ![th[t].id] = "held"],
         Return(t), UNCHANGED <<mMode, mCb, pending, calls, unanswered>>
  PROVE  SerialInv'
<1> USE DEF SerialInv
<1>1. th[t].m = m /\ m \in AllMethods /\ m \in Reported /\ th[t].pc = "hidl"
  BY DEF At, AllMethods, Operations, Reported
<1>2. /\ th[t].id \in 1..Len(calls) /\ th[t].id \in Id
      /\ calls[th[t].id].m = m /\ calls[th[t].id].s = th[t].s
      /\ Holds(th[t]) /\ th[t].id = Len(calls)
      /\ mCb = th[t].s /\ mMode = ModeOf(m)
  BY <1>1, MethodFacts DEF LastOnly, MethodReady
<1>3. th'[t] = Idle /\ OthersStay(t)
  BY HistoryFacts, ReturnFrame DEF OthersStay
<1>4. \A u \in Thread : ~Holds(th'[u])
  BY <1>2, <1>3 DEF OneActive, OthersStay, Holds, Idle
<1>5. \A u \in Thread : th'[u].m \notin AllMethods \cup {"close", "createSession"}
  BY <1>4 DEF Holds, AllMethods
<1>6. vop' = th[t].id /\ \A e \in Waiting' : EventFits(e)
  <2>1. \A e \in Waiting : EventFits(e)
    BY DEF FlightOK
  <2>2. CASE evq' = evq
    BY <2>1, <2>2 DEF VendorStart, Waiting
  <2>3. CASE /\ vop # 0
             /\ evq' = Append(evq, [on |-> "onError", arg |-> "any", id |-> vop])
    <3>1. vop \in 0..MaxCalls
      BY HistoryFacts DEF TypeOK
    <3>2. [on |-> "onError", arg |-> "any", id |-> vop] \in Event
      BY <3>1, EventTypes DEF Handler, Args
    <3>3. EventFits([on |-> "onError", arg |-> "any", id |-> vop])
      BY <2>3 DEF FlightOK, EventFits
    <3>4. QED
      BY <2>1, <2>3, <3>2, <3>3, WaitingAppends, HistoryFacts DEF VendorStart
  <2>4. QED
    BY <2>2, <2>3 DEF VendorStart
<1>7. OneActive' /\ LastOnly' /\ MethodReady'
  BY <1>4, <1>5 DEF OneActive, LastOnly, MethodReady
<1>8. FlightOK'
  <2>1. \A e \in Waiting' : EventFits(e)'
    BY <1>6, CallsUnchanged, FitsKept, HistoryFacts
  <2>2. \A i \in Id : signal'[i] # "none" => calls[i].m \in Operations
    BY <1>2, HistoryFacts DEF FlightOK, TypeOK
  <2>3. QED
    BY <1>2, <1>6, <2>1, <2>2 DEF FlightOK
<1>9. CancelSerial'
  <2>1. \A u \in Thread : th'[u].m = "cancel" => th'[u] = th[u]
    BY <1>3 DEF OthersStay, Idle
  <2>2. \A u \in Thread : th[u].m = "cancel" => calls[th[u].id].m # "enroll"
    BY <1>2 DEF CancelSerial
  <2>3. QED
    BY <2>1, <2>2 DEF CancelSerial
<1>10. InstalledForDuration' /\ ReportUnderway'
  BY <1>2, <1>6 DEF LastOnly, InstalledForDuration, ReportUnderway, Underway
<1>11. QED
  BY <1>7, <1>8, <1>9, <1>10

\* The lambda of a cancellation signal starts.
LEMMA CancelKeepsSerial ==
  ASSUME Disciplined, IInv, SerialInv, NEW t \in Thread, NEW i \in Id, Cancel(t, i)
  PROVE  SerialInv'
<1> USE DEF SerialInv
<1>1. /\ th'[t].m = "cancel" /\ th'[t].id = i /\ th'[t].pc = "hidl"
      /\ OthersStay(t) /\ i \in 1..Len(calls)
  BY CancelFrame
<1>2. /\ th[t] = Idle /\ signal[i] = "held" /\ i \in unanswered
      /\ signal' = [signal EXCEPT ![i] = "used"]
      /\ UNCHANGED <<mMode, mCb, evq, pending, vop, calls, unanswered>>
  BY DEF Cancel, bridgeVars, vendorVars
<1>3. \A j \in Id : signal'[j] = IF j = i THEN "used" ELSE signal[j]
  BY <1>2, HistoryFacts DEF TypeOK
<1>4. i = Len(calls) /\ Waiting' = Waiting
  BY <1>2 DEF LastOnly, Waiting
<1>5. ASSUME NEW u \in Thread, Holds(th[u]) PROVE FALSE
  <2>1. th[u].m \in AllMethods
    BY <1>2, <1>5, HolderKinds DEF LastOnly
  <2>2. signal[th[u].id] = "none" /\ th[u].id = i
    BY <1>4, <2>1 DEF MethodReady, LastOnly
  <2>3. QED
    BY <1>2, <2>2
<1>6. \A u \in Thread : ~Holds(th'[u])
  BY <1>1, <1>5 DEF OthersStay, Holds
<1>7. \A u \in Thread : th'[u].m \notin AllMethods \cup {"close", "createSession"}
  BY <1>6 DEF Holds, AllMethods
<1>8. OneActive' /\ LastOnly' /\ MethodReady'
  BY <1>2, <1>6, <1>7 DEF OneActive, LastOnly, MethodReady
<1>9. FlightOK'
  <2>1. \A e \in Waiting' : EventFits(e)'
    BY <1>2, <1>4, CallsUnchanged, FitsKept, HistoryFacts DEF FlightOK
  <2>2. QED
    BY <1>2, <1>3, <2>1 DEF FlightOK
<1>10. CancelSerial'
  <2>1. ASSUME NEW u \in Thread, th'[u].m = "cancel", u # t
        PROVE  /\ th'[u].pc = "end" => calls[th'[u].id].m = "enroll"
               /\ calls[th'[u].id].m = "enroll" =>
                    th'[u].id = Len(calls) /\ signal'[th'[u].id] = "used"
    <3>1. th'[u] = th[u]
      BY <1>1, <2>1 DEF OthersStay
    <3>2. QED
      BY <1>3, <1>4, <2>1, <3>1 DEF CancelSerial
  <2>2. signal'[i] = "used"
    BY <1>3
  <2>3. QED
    BY <1>1, <1>2, <1>4, <1>6, <2>1, <2>2 DEF CancelSerial
<1>11. \A j \in unanswered : Cancelled(j) => Cancelled(j)'
  BY <1>2, <1>3, HistoryFacts DEF Cancelled
<1>12. InstalledForDuration'
  BY <1>2, <1>11 DEF InstalledForDuration, InFlight
<1>13. ReportUnderway'
  BY <1>2, <1>3, <1>11, HistoryFacts DEF ReportUnderway, Underway
<1>14. QED
  BY <1>8, <1>9, <1>10, <1>12, <1>13

\* The framework issues a call.
LEMMA TakesSerial ==
  ASSUME Disciplined, Serial, IInv, SerialInv, NEW t \in Thread, NEW s \in Session,
         NEW m \in AllMethods, Takes(t, s, m)
  PROVE  SerialInv'
<1> USE DEF SerialInv
<1>1. /\ th[t] = Idle /\ m \in Method /\ Len(calls) < MaxCalls
      /\ calls' = Append(calls, [m |-> m, s |-> s])
      /\ unanswered' = {Len(calls) + 1}
      /\ \A u \in Thread : ~Holds(th[u]) /\ th[u].m # "createSession"
      /\ UNCHANGED <<mMode, mCb, evq, pending, vop, signal>>
  BY CallsAlone DEF Takes, Issue, bridgeVars, vendorVars
<1>2. /\ Len(calls') = Len(calls) + 1 /\ Len(calls) \in Nat /\ MaxCalls \in Nat
      /\ calls'[Len(calls) + 1] = [m |-> m, s |-> s]
      /\ CallsGrow /\ Len(calls) + 1 \in Id
  <2>1. [m |-> m, s |-> s] \in Call
    BY DEF Call
  <2>2. /\ calls' \in Seq(Call) /\ Len(calls') = Len(calls) + 1
        /\ calls'[Len(calls) + 1] = [m |-> m, s |-> s]
        /\ \A i \in 1..Len(calls) : calls'[i] = calls[i]
    BY <1>1, <2>1, HistoryFacts, AppendFacts
  <2>3. QED
    BY <1>1, <2>2, HistoryFacts, BridgeAssumption DEF CallsGrow, Id
<1>3. /\ OthersStay(t)
      /\ \/ th'[t] = Idle
         \/ /\ th'[t].m = m /\ th'[t].s = s /\ th'[t].id = Len(calls) + 1
            /\ th'[t].pc = "hidl" => m \notin Reported
  <2>1. CASE th' = th
    BY <1>1, <2>1 DEF OthersStay
  <2>2. CASE \E pc \in {"begin", "hidl", "reply"}, say \in SessionCall :
               /\ Run(t, m, s, NewId, pc, say)
               /\ pc = "hidl" => m \notin {"enroll", "authenticate",
                                "enumerateEnrollments", "removeEnrollments"}
    BY <2>2, TakesFrame, HistoryFacts DEF Takes, Reported, Operations
  <2>3. QED
    BY <2>1, <2>2 DEF Takes
<1>4. \A u \in Thread : Holds(th'[u]) => u = t /\ th'[u].m = m
  BY <1>1, <1>3 DEF OthersStay, Holds, Idle
<1>5. \A u \in Thread : th'[u].m \in AllMethods => u = t
  BY <1>4 DEF Holds, AllMethods
<1>6. signal[Len(calls) + 1] = "none"
  BY <1>2 DEF IInv, Core, HistoryOK
<1>7. \A e \in Waiting' : EventFits(e) /\ EventFits(e)'
  <2>1. Waiting' = Waiting
    BY <1>1 DEF Waiting
  <2>2. QED
    BY <1>2, <2>1, FitsKept DEF FlightOK
<1> PICK new \in Id : new = Len(calls) + 1
  BY <1>2
<1>8. ~InFlight(new)'
  <2>1. vop' \in 0..Len(calls) /\ \A e \in Waiting' : e.id \in 0..Len(calls)
    BY <1>1, <1>7 DEF FlightOK, EventFits
  <2>2. new \notin 0..Len(calls)
    BY <1>2
  <2>3. QED
    BY <2>1, <2>2, FlightByWaiting
<1>9. OneActive'
  BY <1>4 DEF OneActive
<1>10. LastOnly'
  <2>1. \A u \in Thread : th'[u].m \notin {"close", "createSession"}
    BY <1>4 DEF Holds, AllMethods
  <2>2. QED
    BY <1>1, <1>2, <1>3, <1>5, <2>1 DEF LastOnly, Idle, AllMethods
<1>11. FlightOK'
  <2>1. vop \in 0..Len(calls') /\ (vop # 0 => calls'[vop].m \in Operations)
    BY <1>2 DEF FlightOK, CallsGrow
  <2>2. \A i \in Id : signal[i] # "none" => calls'[i].m \in Operations
    BY <1>2 DEF FlightOK, CallsGrow, IInv, Core, HistoryOK
  <2>3. QED
    BY <1>1, <1>7, <2>1, <2>2 DEF FlightOK
<1>12. MethodReady'
  <2> SUFFICES ASSUME th'[t].m \in AllMethods
               PROVE  /\ signal'[th'[t].id] = "none"
                      /\ ~InFlight(th[t].id)'
                      /\ ~(th'[t].m \in Reported /\ th'[t].pc = "hidl")
    BY <1>5 DEF MethodReady
  <2>1. th'[t].m = m /\ th'[t].id = new /\ (th'[t].pc = "hidl" => m \notin Reported)
    BY <1>3 DEF Idle, AllMethods
  <2>2. ~InFlight(th[t].id)'
    BY <1>8, <2>1 DEF InFlight
  <2>3. QED
    BY <1>1, <1>6, <2>1, <2>2
<1>13. CancelSerial'
  <2>1. \A i \in 1..Len(calls') : calls'[i].m \in Method
    BY <1>1, <1>2 DEF CancelSerial, CallsGrow
  <2>2. ASSUME NEW u \in Thread, th'[u].m = "cancel"
        PROVE  th'[u].pc # "end" /\ calls'[th'[u].id].m # "enroll"
    <3>1. th'[u] = th[u]
      BY <1>3, <2>2 DEF OthersStay, Idle, AllMethods
    <3>2. calls[th[u].id].m # "enroll" /\ th[u].id \in 1..Len(calls)
      BY <1>1, <2>2, <3>1, NoEnrollCancelled
    <3>3. QED
      BY <1>2, <2>2, <3>1, <3>2 DEF CancelSerial, CallsGrow
  <2>3. QED
    BY <2>1, <2>2 DEF CancelSerial
<1>14. InstalledForDuration' /\ ReportUnderway'
  BY <1>1, <1>6, <1>8 DEF InstalledForDuration, ReportUnderway
<1>15. QED
  BY <1>9, <1>10, <1>11, <1>12, <1>13, <1>14

\* A session is created or closed.
LEMMA OpenSerial ==
  ASSUME Disciplined, Serial, IInv, SerialInv, NEW t \in Thread, NEW s, MayCall(s),
         th[t] = Idle, OthersStay(t), th'[t].m \in {"none", "createSession", "close"},
         UNCHANGED <<mMode, mCb, evq, pending, vop, calls, unanswered, signal>>
  PROVE  SerialInv'
<1> USE DEF SerialInv
<1>1. unanswered = {} /\ \A u \in Thread : ~Holds(th[u])
  BY CallsAlone
<1>2. \A u \in Thread : Holds(th'[u]) => u = t
  BY <1>1 DEF OthersStay
<1>3. \A u \in Thread : th'[u].m \notin AllMethods
  <2>1. \A u \in Thread : th'[u].m \in AllMethods => u = t
    BY <1>2 DEF Holds, AllMethods
  <2>2. QED
    BY <2>1 DEF AllMethods
<1>4. OneActive' /\ LastOnly' /\ MethodReady'
  BY <1>1, <1>2, <1>3 DEF OneActive, LastOnly, MethodReady
<1>5. FlightOK'
  BY DEF FlightOK, Waiting, EventFits
<1>6. CancelSerial'
  <2>1. \A u \in Thread : th'[u].m = "cancel" => th'[u] = th[u]
    BY DEF OthersStay
  <2>2. \A u \in Thread : th[u].m = "cancel" => calls[th[u].id].m # "enroll"
    BY NoEnrollCancelled
  <2>3. QED
    BY <2>1, <2>2 DEF CancelSerial
<1>7. InstalledForDuration' /\ ReportUnderway'
  BY <1>1 DEF InstalledForDuration, ReportUnderway
<1>8. QED
  BY <1>4, <1>5, <1>6, <1>7

-----------------------------------------------------------------------------
(* The bridge and the vendor HAL.                                          *)

\* A handler that reads the mode of its event turns one that concludes an
\* operation into the answer, on the callback it reads.
LEMMA HandlerAnswers ==
  ASSUME TypeOK, Handle
  PROVE  /\ pending = None /\ evq # <<>> /\ evq' = Tail(evq)
         /\ UNCHANGED <<mMode, mCb>>
         /\ /\ mCb # None
            /\ Concludes(Head(evq))
            /\ Head(evq).on = "onError" => mMode # "kNone"
            /\ Head(evq).on = "onEnrollResult" => mMode = "kEnroll"
            /\ Head(evq).on = "onAuthenticated" => mMode = "kAuthenticate"
            => /\ pending' # None /\ pending'.to = mCb
               /\ pending'.call = CASE Head(evq).on = "onError" -> "error"
                                    [] Head(evq).on = "onEnrollResult" -> "enrollmentComplete"
                                    [] OTHER -> "authenticationSucceeded"
<1> DEFINE e == Head(evq)
<1>1. /\ pending = None /\ evq # <<>> /\ evq' = Tail(evq)
      /\ UNCHANGED <<mMode, mCb>>
  BY DEF Handle, OnEnrollResult, OnAuthenticated, OnAcquired, OnError, OnRemoved,
         OnEnumerate, OnLockoutChanged, SehOnPreviewUpdated, SehOnAuthenticated,
         SehOnPreviewFrame, Forward, slotVars
<1>2. SUFFICES ASSUME mCb # None,
                      Concludes(e),
                      e.on = "onError" => mMode # "kNone",
                      e.on = "onEnrollResult" => mMode = "kEnroll",
                      e.on = "onAuthenticated" => mMode = "kAuthenticate"
               PROVE  /\ pending' # None /\ pending'.to = mCb
                      /\ pending'.call =
                           CASE e.on = "onError" -> "error"
                             [] e.on = "onEnrollResult" -> "enrollmentComplete"
                             [] OTHER -> "authenticationSucceeded"
  BY <1>1
<1>3. evq \in Seq(Event) /\ mCb \in Session
  BY <1>2 DEF TypeOK, BridgeTypeOK
<1>4. e \in Event
  BY <1>1, <1>3
<1>5. ASSUME NEW on \in Handler, NEW call \in SessionCall, Forward(on, TRUE, call)
      PROVE  pending' # None /\ pending'.to = mCb /\ pending'.call = call
  <2>1. pending' = [to |-> mCb, call |-> call, on |-> on, id |-> e.id]
    BY <1>2, <1>5 DEF Forward
  <2>2. [to |-> mCb, call |-> call, on |-> on, id |-> e.id] \in Message
    BY <1>3, <1>4 DEF Message, Event
  <2>3. QED
    BY <2>1, <2>2, NoneIsNoMessage
<1>6. e.on \in {"onError", "onEnrollResult", "onAuthenticated"}
  BY <1>2 DEF Concludes
<1>7. OnError \/ OnEnrollResult \/ OnAuthenticated
  BY <1>6 DEF Handle, OnAcquired, OnRemoved, OnEnumerate, OnLockoutChanged,
              SehOnPreviewUpdated, SehOnAuthenticated, SehOnPreviewFrame, Forward
<1>8. CASE OnError
  <2>1. e.on = "onError" /\ Forward("onError", TRUE, "error")
    BY <1>2, <1>8 DEF OnError, Forward
  <2>2. QED
    BY <1>5, <2>1 DEF Handler, SessionCall
<1>9. CASE OnEnrollResult
  <2>1. e.on = "onEnrollResult" /\ Forward("onEnrollResult", TRUE, "enrollmentComplete")
    BY <1>2, <1>9 DEF OnEnrollResult, Forward, Concludes
  <2>2. QED
    BY <1>5, <2>1 DEF Handler, SessionCall
<1>10. CASE OnAuthenticated
  <2>1. /\ e.on = "onAuthenticated"
        /\ Forward("onAuthenticated", TRUE, "authenticationSucceeded")
    BY <1>2, <1>10 DEF OnAuthenticated, Forward, Concludes
  <2>2. QED
    BY <1>5, <2>1 DEF Handler, SessionCall
<1>11. QED
  BY <1>7, <1>8, <1>9, <1>10

LEMMA HandlesSerial ==
  ASSUME IInv, SerialInv, BridgeHandles
  PROVE  SerialInv'
<1> USE DEF SerialInv
<1>1. /\ UNCHANGED <<mMode, mCb, vop, calls, unanswered, signal, th>>
      /\ pending = None /\ evq # <<>> /\ evq' = Tail(evq)
  BY HandlerAnswers, HistoryFacts DEF BridgeHandles, vendorVars, frameworkVars
<1>2. Waiting = Waiting' \cup {Head(evq)}
  BY <1>1, WaitingShrinks, HistoryFacts
<1>3. ASSUME NEW i, InFlight(i)' PROVE InFlight(i)
  BY <1>1, <1>2, <1>3, FlightByWaiting
<1>4. OneActive' /\ LastOnly' /\ CancelSerial'
  BY <1>1 DEF OneActive, LastOnly, CancelSerial
<1>5. FlightOK'
  BY <1>1, <1>2 DEF FlightOK, EventFits
<1>6. MethodReady' /\ InstalledForDuration'
  BY <1>1, <1>3 DEF MethodReady, InstalledForDuration, Cancelled
<1>7. ReportUnderway'
  <2> SUFFICES ASSUME NEW i \in unanswered, signal[i] # "none", ~Cancelled(i)
               PROVE  Underway(i)'
    BY <1>1 DEF ReportUnderway, Cancelled
  <2>1. i \in 1..Len(calls) /\ i \in Id /\ calls[i].m \in Operations
          /\ calls[i].s \in Session
    BY HistoryFacts DEF FlightOK
  <2>2. vop = i \/ \E e \in Waiting : e.id = i /\ Concludes(e)
    BY <1>1, UnderwayByWaiting DEF ReportUnderway
  <2>3. CASE vop = i \/ \E e \in Waiting' : e.id = i /\ Concludes(e)
    BY <1>1, <2>3, UnderwayByWaiting
  <2>4. CASE Head(evq).id = i /\ Concludes(Head(evq))
    <3> DEFINE e == Head(evq)
    <3>1. e \in Waiting /\ EventFits(e)
      BY <1>2 DEF FlightOK
    <3>2. mCb = calls[i].s /\ mMode = ModeOf(calls[i].m)
      BY <2>4, <3>1, FlightByWaiting DEF InstalledForDuration
    <3>3. mCb # None /\ mMode # "kNone"
      BY <2>1, <3>2, BridgeAssumption DEF ModeOf, Operations
    <3>4. /\ e.on = "onEnrollResult" => calls[i].m = "enroll" /\ mMode = "kEnroll"
          /\ e.on = "onAuthenticated" =>
               calls[i].m = "authenticate" /\ mMode = "kAuthenticate"
      BY <2>4, <3>1, <3>2 DEF EventFits, ModeOf
    <3>5. /\ pending' # None /\ pending'.to = mCb
          /\ pending'.call = CASE e.on = "onError" -> "error"
                               [] e.on = "onEnrollResult" -> "enrollmentComplete"
                               [] OTHER -> "authenticationSucceeded"
      BY <2>4, <3>3, <3>4, HandlerAnswers, HistoryFacts DEF BridgeHandles
    <3>6. pending'.call \in Answers[calls[i].m]
      BY <2>1, <2>4, <3>4, <3>5 DEF Concludes, Answers, AllMethods, Operations
    <3>7. QED
      BY <1>1, <3>2, <3>5, <3>6, UnderwayByWaiting
  <2>5. QED
    BY <1>2, <2>2, <2>3, <2>4
<1>8. QED
  BY <1>4, <1>5, <1>6, <1>7

LEMMA DeliversSerial ==
  ASSUME IInv, SerialInv, BridgeDelivers
  PROVE  SerialInv'
<1> USE DEF SerialInv
<1>1. /\ UNCHANGED <<mMode, mCb, evq, vop, calls, signal, th>>
      /\ unanswered' = {i \in unanswered : ~(/\ calls[i].s = pending.to
                                             /\ pending.call \in Answers[calls[i].m])}
  BY DEF BridgeDelivers, Deliver, Receive, vendorVars
<1>2. Waiting' = Waiting
  BY <1>1 DEF Waiting
<1>3. OneActive' /\ LastOnly' /\ CancelSerial'
  BY <1>1 DEF OneActive, LastOnly, CancelSerial
<1>4. FlightOK'
  BY <1>1, <1>2 DEF FlightOK, EventFits
<1>5. MethodReady' /\ InstalledForDuration'
  BY <1>1 DEF MethodReady, InstalledForDuration, InFlight, Cancelled
<1>6. ReportUnderway'
  BY <1>1 DEF ReportUnderway, Underway, Cancelled
<1>7. QED
  BY <1>3, <1>4, <1>5, <1>6

\* What the vendor HAL sends while it runs an operation.
LEMMA ReportFits ==
  ASSUME IInv, SerialInv, vop # 0,
         NEW on \in Handler, NEW args \in SUBSET Args[on],
         on = "onEnrollResult" => calls[vop].m = "enroll",
         on = "onAuthenticated" => calls[vop].m = "authenticate"
  PROVE  \A e \in Events(on, args, vop) : /\ e \in Event /\ EventFits(e) /\ e.id = vop
                                          /\ e.on = on /\ e.arg \in args
BY EventTypes, HistoryFacts DEF Events, EventFits, SerialInv, FlightOK, TypeOK

LEMMA ReportsSerial ==
  ASSUME IInv, SerialInv, VendorReport \/ VendorLockout
  PROVE  SerialInv'
<1>1. UNCHANGED <<mMode, mCb, pending, vop, calls, unanswered, signal, th>>
  BY DEF VendorReport, VendorLockout, slotVars, frameworkVars
<1>2. PICK e \in Event : /\ evq' = Append(evq, e)
                         /\ EventFits(e) /\ e.id \in {0, vop}
  <2>1. CASE VendorReport
    <3>1. vop # 0 /\ (calls[vop].m # "enroll" => calls[vop].m = "authenticate")
      BY <2>1 DEF VendorReport, SerialInv, FlightOK, Operations
    <3>2. ASSUME NEW on \in {"onAcquired", "sehOnPreviewUpdated"}
          PROVE  \A e \in Events(on, {"any"}, vop) :
                   e \in Event /\ EventFits(e) /\ e.id = vop
      BY <3>1, ReportFits DEF Handler, Args
    <3>3. \A e \in Events("sehOnPreviewFrame", {"good"}, vop) :
            e \in Event /\ EventFits(e) /\ e.id = vop
      BY <3>1, ReportFits DEF Handler, Args
    <3>4. calls[vop].m = "enroll" =>
            \A e \in Events("onEnrollResult", {"more"}, vop) :
              e \in Event /\ EventFits(e) /\ e.id = vop
      BY <3>1, ReportFits DEF Handler, Args
    <3>5. ASSUME calls[vop].m # "enroll",
                 NEW on \in {"onAuthenticated", "sehOnAuthenticated"}
          PROVE  \A e \in Events(on, {"noMatch"}, vop) :
                   e \in Event /\ EventFits(e) /\ e.id = vop
      BY <3>1, <3>5, ReportFits DEF Handler, Args
    <3>6. PICK e : /\ evq' = Append(evq, e)
                   /\ e \in Events("onAcquired", {"any"}, vop)
                        \cup Events("sehOnPreviewUpdated", {"any"}, vop)
                        \cup Events("sehOnPreviewFrame", {"good"}, vop)
                        \cup IF calls[vop].m = "enroll"
                               THEN Events("onEnrollResult", {"more"}, vop)
                               ELSE Events("onAuthenticated", {"noMatch"}, vop)
                                      \cup Events("sehOnAuthenticated", {"noMatch"}, vop)
      BY <2>1 DEF VendorReport
    <3>7. QED
      BY <3>2, <3>3, <3>4, <3>5, <3>6
  <2>2. CASE VendorLockout
    <3>1. 0 \in 0..MaxCalls /\ 0 \in 0..Len(calls)
      BY BridgeAssumption, HistoryFacts
    <3>2. \A e \in Events("onLockoutChanged", {"zero", "max", "other"}, 0) :
            e \in Event /\ EventFits(e) /\ e.id = 0
      BY <3>1, EventTypes DEF Events, EventFits, Handler, Args
    <3>3. QED
      BY <2>2, <3>2 DEF VendorLockout
  <2>3. QED
    BY <2>1, <2>2
<1>3. Waiting' = Waiting \cup {e}
  BY <1>2, WaitingAppends, HistoryFacts
<1>4. QED
  BY <1>1, <1>2, <1>3, Settles

LEMMA FinishSerial ==
  ASSUME IInv, SerialInv, VendorFinish
  PROVE  SerialInv'
<1> DEFINE match == {"shortToken", "fullToken"}
           Good(e) == e \in Event /\ EventFits(e) /\ e.id = vop
           reports == {<<e>> : e \in Events("onError", {"any"}, vop)}
                        \cup IF calls[vop].m = "enroll"
                          THEN {<<e>> : e \in Events("onEnrollResult", {"last"}, vop)}
                          ELSE {<<b>> : b \in Events("onAuthenticated", match, vop)}
                            \cup {<<b, x>> : b \in Events("onAuthenticated", match, vop),
                                  x \in {e \in Events("sehOnAuthenticated", match, vop) :
                                           e.on \in Sent}}
<1>1. /\ UNCHANGED <<mMode, mCb, pending, calls, unanswered, signal, th>>
      /\ vop # 0 /\ vop' = 0
      /\ calls[vop].m # "enroll" => calls[vop].m = "authenticate"
  BY DEF VendorFinish, slotVars, frameworkVars, SerialInv, FlightOK, Operations
<1>2. \A e \in Events("onError", {"any"}, vop) : Good(e) /\ Concludes(e)
  BY <1>1, ReportFits DEF Handler, Args, Concludes
<1>3. calls[vop].m = "enroll" =>
        \A e \in Events("onEnrollResult", {"last"}, vop) : Good(e) /\ Concludes(e)
  BY <1>1, ReportFits DEF Handler, Args, Concludes
<1>4. calls[vop].m # "enroll" =>
        \A e \in Events("onAuthenticated", match, vop) : Good(e) /\ Concludes(e)
  BY <1>1, ReportFits DEF Handler, Args, Concludes
<1>5. \A e \in Events("sehOnAuthenticated", match, vop) : Good(e)
  BY <1>1, ReportFits DEF Handler, Args
<1>6. PICK r \in reports : evq' = evq \o r
  BY DEF VendorFinish
<1>7. \/ \E e : r = <<e>> /\ Good(e) /\ Concludes(e)
      \/ \E b, x : r = <<b, x>> /\ Good(b) /\ Concludes(b) /\ Good(x)
  BY <1>2, <1>3, <1>4, <1>5, <1>6
<1>8. /\ Waiting \subseteq Waiting'
      /\ \A e \in Waiting' : e \in Waiting \/ Good(e)
      /\ \E e \in Waiting' : e.id = vop /\ Concludes(e)
  <2>1. CASE \E e : r = <<e>> /\ Good(e) /\ Concludes(e)
    <3>1. PICK e : r = <<e>> /\ Good(e) /\ Concludes(e)
      BY <2>1
    <3>2. evq' = evq \o <<e>>
      BY <1>6, <3>1
    <3>3. evq' = Append(evq, e)
      BY <3>1, <3>2, HistoryFacts
    <3>4. QED
      BY <3>1, <3>3, WaitingAppends, HistoryFacts
  <2>2. CASE \E b, x : r = <<b, x>> /\ Good(b) /\ Concludes(b) /\ Good(x)
    <3>1. PICK b, x : r = <<b, x>> /\ Good(b) /\ Concludes(b) /\ Good(x)
      BY <2>2
    <3>2. r \in Seq(Event) /\ {r[k] : k \in DOMAIN r} = {b, x}
      <4>1. <<b, x>> \in Seq(Event)
        BY <3>1
      <4>2. /\ DOMAIN <<b, x>> = {1, 2} /\ <<b, x>>[1] = b /\ <<b, x>>[2] = x
        OBVIOUS
      <4>3. QED
        BY <3>1, <4>1, <4>2
    <3>3. Waiting' = Waiting \cup {b, x}
      <4>1. Waiting' = Waiting \cup {r[k] : k \in DOMAIN r}
        <5>1. r \in Seq(Event) /\ evq \in Seq(Event) /\ evq' = evq \o r
          BY <1>6, <3>2, HistoryFacts
        <5> HIDE DEF reports
        <5>2. QED
          BY <5>1, WaitingConcatenates
      <4> DEFINE sent == {r[k] : k \in DOMAIN r}
      <4>2. Waiting' = Waiting \cup sent /\ sent = {b, x}
        BY <3>2, <4>1
      <4> HIDE DEF sent, reports, Good, match
      <4>3. QED
        BY <4>2
    <3>4. QED
      BY <3>1, <3>3
  <2>3. QED
    BY <1>7, <2>1, <2>2
<1>9. QED
  BY <1>1, <1>8, Settles

-----------------------------------------------------------------------------
(* The steps of Next.                                                      *)

LEMMA CallSerial ==
  ASSUME Disciplined, Serial, IInv, SerialInv, NEW t \in Thread, NEW s \in Session,
         FrameworkCalls(t, s)
  PROVE  SerialInv'
<1>1. CASE CreateSession(t, s)
  <2>1. /\ th[t] = Idle /\ MayCall(s)
        /\ UNCHANGED <<mMode, mCb, evq, pending, vop, calls, unanswered, signal>>
    BY <1>1 DEF CreateSession, MayCreate, bridgeVars, vendorVars
  <2>2. th'[t].m \in {"none", "createSession"} /\ OthersStay(t)
    <3>1. CASE th' = th
      BY <2>1, <3>1 DEF OthersStay, Idle
    <3>2. CASE Run(t, "createSession", s, 0, "setActiveUser", "error")
      <4>1. /\ "createSession" \in Activity /\ "setActiveUser" \in PC
            /\ "error" \in SessionCall /\ 0 \in 0..MaxCalls
        BY BridgeAssumption DEF Activity, PC, SessionCall
      <4>2. QED
        BY <3>2, <4>1, RunFrame, HistoryFacts DEF OthersStay
    <3>3. QED
      BY <1>1, <3>1, <3>2 DEF CreateSession
  <2>3. QED
    BY <2>1, <2>2, OpenSerial
<1>2. CASE Close(t, s)
  <2>1. /\ th[t] = Idle /\ MayCall(s)
        /\ UNCHANGED <<mMode, mCb, evq, pending, vop, calls, unanswered, signal>>
    BY <1>2 DEF Close, bridgeVars, vendorVars
  <2>2. th'[t].m = "close" /\ OthersStay(t)
    BY <1>2, CloseFrame, HistoryFacts
  <2>3. QED
    BY <2>1, <2>2, OpenSerial
<1>3. QED
  BY <1>1, <1>2, CallKinds, TakesSerial

\* A method that leaves the queue alone.
LEMMA QuietMethodSerial ==
  ASSUME IInv, SerialInv, NEW t \in Thread, th[t].m \in AllMethods,
         NEW pc \in {"hidl", "end", "reply"}, NEW say \in SessionCall,
         Goto(t, pc, say),
         pc # "reply" => th[t].pc # "reply",
         pc = "hidl" => mCb' = th[t].s /\ mMode' = ModeOf(th[t].m),
         UNCHANGED <<mMode, mCb>> \/ th[t].pc # "reply",
         UNCHANGED <<evq, pending, calls, unanswered, signal, vop>>
  PROVE  SerialInv'
<1>1. /\ th'[t].m = th[t].m /\ th'[t].id = th[t].id /\ th'[t].s = th[t].s
      /\ th'[t].pc = pc /\ OthersStay(t)
  BY GotoFrame, HistoryFacts DEF PC, OthersStay
<1>2. Waiting' = Waiting
  BY DEF Waiting
<1>3. QED
  BY <1>1, <1>2, MethodSerial

\* The vendor HAL takes a request it will report on.
LEMMA RequestSerial ==
  ASSUME IInv, SerialInv, NEW t \in Thread,
         NEW on \in {"onEnumerate", "onRemoved"}, VendorTakes(on, th[t].id),
         th[t].m \in Reported, th[t].pc = "hidl",
         Return(t) \/ Goto(t, "reply", "enrollmentsRemoved"),
         UNCHANGED <<mMode, mCb, pending, calls, unanswered, signal, vop>>
  PROVE  SerialInv'
<1> DEFINE e == [on |-> on, arg |-> "any", id |-> th[t].id]
<1>1. th[t].m \in AllMethods
  BY DEF Reported, Operations, AllMethods
<1>2. th[t].id \in 1..Len(calls) /\ th[t].id \in 0..MaxCalls
  BY <1>1, MethodFacts, HistoryFacts DEF TypeOK, Frame
<1>3. e \in Event /\ EventFits(e) /\ e.id = th[t].id
  BY <1>2, EventTypes DEF Handler, Args, EventFits
<1>4. Waiting' = Waiting \/ Waiting' = Waiting \cup {e}
  <2>1. evq' = evq => Waiting' = Waiting
    BY DEF Waiting
  <2>2. evq' = Append(evq, e) => Waiting' = Waiting \cup {e}
    BY <1>3, WaitingAppends, HistoryFacts
  <2>3. QED
    BY <2>1, <2>2 DEF VendorTakes
<1>5. /\ OthersStay(t)
      /\ \/ th'[t] = Idle
         \/ /\ th'[t].m = th[t].m /\ th'[t].id = th[t].id /\ th'[t].s = th[t].s
            /\ th'[t].pc = "reply"
  BY ReturnFrame, GotoFrame, HistoryFacts DEF PC, SessionCall, OthersStay
<1> HIDE DEF e
<1>6. QED
  BY <1>1, <1>3, <1>4, <1>5, MethodSerial

LEMMA CancelHidlSerial ==
  ASSUME IInv, SerialInv, NEW t \in Thread, CancelHidl(t)
  PROVE  SerialInv'
<1> DEFINE e == [on |-> "onError", arg |-> "any", id |-> vop]
<1>1. /\ UNCHANGED <<mMode, mCb, pending, calls, unanswered, signal>>
      /\ th[t].m = "cancel" /\ VendorCancel
  BY DEF CancelHidl, At, slotVars, frameworkVars
<1>2. vop # 0 => e \in Event /\ EventFits(e) /\ e.id = vop /\ Concludes(e)
  BY EventTypes, HistoryFacts
     DEF SerialInv, FlightOK, TypeOK, Handler, Args, EventFits, Concludes
<1>3. /\ vop' \in {vop, 0}
      /\ Waiting \subseteq Waiting'
      /\ \A f \in Waiting' : f \in Waiting \/ (EventFits(f) /\ f.id \in {0, vop})
      /\ vop' # vop => \E f \in Waiting' : f.id = vop /\ Concludes(f)
  <2>1. CASE UNCHANGED <<vop, evq>>
    BY <2>1 DEF Waiting
  <2>2. CASE vop # 0 /\ evq' = Append(evq, e) /\ vop' = 0
    <3>1. Waiting' = Waiting \cup {e}
      BY <1>2, <2>2, WaitingAppends, HistoryFacts
    <3>2. QED
      BY <1>2, <2>2, <3>1
  <2>3. QED
    BY <1>1, <2>1, <2>2 DEF VendorCancel
<1>4. \A u \in Thread : \/ th'[u] = th[u]
                        \/ th'[u] = Idle
                        \/ /\ th[u].m = "cancel" /\ th'[u].m = "cancel"
                           /\ th'[u].id = th[u].id
                           /\ calls[th[u].id].m = "enroll"
  <2>1. CASE Return(t)
    BY <2>1, ReturnFrame, HistoryFacts
  <2>2. CASE Goto(t, "end", "error") /\ calls[th[t].id].m = "enroll"
    BY <1>1, <2>2, GotoFrame, HistoryFacts DEF PC, SessionCall
  <2>3. QED
    BY <2>1, <2>2 DEF CancelHidl
<1>5. QED
  BY <1>1, <1>3, <1>4, Settles

LEMMA EndSerial ==
  ASSUME IInv, SerialInv, NEW t \in Thread, End(t)
  PROVE  SerialInv'
<1>1. /\ th[t].pc = "end" /\ Waiting' = Waiting
      /\ UNCHANGED <<evq, pending, vop, calls, unanswered, signal>>
  BY DEF End, vendorVars, frameworkVars, Waiting
<1>2. CASE th[t].m \in AllMethods
  BY <1>1, <1>2, QuietMethodSerial DEF End, AllMethods, SessionCall
<1>3. CASE th[t].m \notin AllMethods
  <2> USE DEF SerialInv
  <2>1. th[t].m \in {"cancel", "close"}
    BY <1>1, <1>3, HistoryFacts
       DEF ThreadsOK, FrameOK, Idle, MethodOK, CancelOK, CloseOK, ConstructorOK
  <2>2. /\ th[t].m = "cancel" => th'[t] = Idle
        /\ th[t].m = "close" => th'[t].m = "close"
        /\ OthersStay(t)
    BY <2>1, ReturnFrame, GotoFrame, HistoryFacts
       DEF End, PC, SessionCall, OthersStay
  <2>3. \A u \in Thread : th'[u].m = th[u].m \/ th'[u] = Idle
    BY <2>1, <2>2 DEF OthersStay
  <2>4. \A u \in Thread : th'[u].m \in AllMethods \cup {"cancel"} =>
                            th'[u] = th[u] /\ u # t
    BY <2>1, <2>2 DEF OthersStay, Idle, AllMethods
  <2>5. \A u \in Thread : th[u].m \notin AllMethods
    <3>1. th[t].m = "cancel" => \A u \in Thread : ~Holds(th[u])
      BY <1>1 DEF CancelSerial
    <3>2. th[t].m = "close" => Holds(th[t])
      BY DEF Holds
    <3>3. QED
      BY <1>3, <2>1, <3>1, <3>2 DEF OneActive, Holds, AllMethods
  <2>6. OneActive'
    BY <2>3 DEF OneActive, Holds, Idle
  <2>7. LastOnly'
    BY <1>1, <2>3, <2>4 DEF LastOnly, Idle
  <2>8. FlightOK'
    BY <1>1 DEF FlightOK, EventFits
  <2>9. MethodReady'
    BY <2>4, <2>5 DEF MethodReady
  <2>10. CancelSerial'
    <3>1. \A u \in Thread : Holds(th'[u]) => Holds(th[u])
      BY <2>3 DEF Holds, Idle
    <3>2. QED
      BY <1>1, <2>4, <3>1 DEF CancelSerial
  <2>11. InstalledForDuration'
    <3>1. \A i \in unanswered : Cancelled(i)
      BY <1>1, <2>1 DEF CancelSerial, LastOnly, Cancelled
    <3>2. QED
      BY <1>1, <3>1 DEF InstalledForDuration, Cancelled
  <2>12. ReportUnderway'
    BY <1>1 DEF ReportUnderway, Underway, Cancelled
  <2>13. QED
    BY <2>6, <2>7, <2>8, <2>9, <2>10, <2>11, <2>12
<1>4. QED
  BY <1>2, <1>3

LEMMA ThreadSerial ==
  ASSUME IInv, SerialInv, NEW t \in Thread, ThreadSteps(t)
  PROVE  SerialInv'
<1> USE DEF frameworkVars, vendorVars, bridgeVars, slotVars
<1>1. CASE SetActiveUser(t) \/ Reply(t)
  <2>1. /\ UNCHANGED <<mMode, mCb, evq, pending, vop, calls, signal>>
        /\ unanswered' \subseteq unanswered /\ Return(t)
    BY <1>1 DEF SetActiveUser, Reply, Receive
  <2>2. Waiting' = Waiting
    BY <2>1 DEF Waiting
  <2>3. \A u \in Thread : th'[u] = th[u] \/ th'[u] = Idle
    BY <2>1, ReturnFrame, HistoryFacts
  <2>4. QED
    BY <2>1, <2>2, <2>3, Settles
<1>2. CASE Begin(t)
  <2>1. th[t].m \in AllMethods
    BY <1>2, HistoryFacts
       DEF Begin, ThreadsOK, FrameOK, Idle, MethodOK, CancelOK, CloseOK, ConstructorOK
  <2>2. QED
    BY <1>2, <2>1, QuietMethodSerial DEF Begin, BeginOperation, SessionCall
<1>3. CASE EnrollHidl(t) \/ AuthenticateHidl(t)
  <2>1. PICK m \in Operations : At(t, m, "hidl")
    BY <1>3 DEF EnrollHidl, AuthenticateHidl, Operations
  <2>2. /\ StartOrRefuse(t)
        /\ UNCHANGED <<mMode, mCb, pending, calls, unanswered>>
    BY <1>3 DEF EnrollHidl, AuthenticateHidl
  <2>3. CASE Goto(t, "end", "error") /\ UNCHANGED <<vop, evq, signal>>
    BY <2>1, <2>2, <2>3, QuietMethodSerial DEF At, Operations, AllMethods, SessionCall
  <2>4. QED
    BY <2>1, <2>2, <2>3, AcceptSerial DEF StartOrRefuse
<1>4. ASSUME NEW m \in AllMethods, NEW says \in SUBSET SessionCall, Answer(t, m, says)
      PROVE  SerialInv'
  BY <1>4, QuietMethodSerial DEF Answer, At
<1>5. CASE \/ GenerateChallengeHidl(t) \/ RevokeChallengeHidl(t) \/ SetFeatureHidl(t)
           \/ GetAuthenticatorIdHidl(t) \/ InvalidateAuthenticatorIdHidl(t)
           \/ ResetLockoutHidl(t)
  <2>1. \E m \in AllMethods, says \in SUBSET SessionCall : Answer(t, m, says)
    BY <1>5 DEF GenerateChallengeHidl, RevokeChallengeHidl, SetFeatureHidl,
       GetAuthenticatorIdHidl, InvalidateAuthenticatorIdHidl, ResetLockoutHidl,
       SessionCall, AllMethods
  <2>2. QED
    BY <1>4, <2>1
<1>6. CASE EnumerateHidl(t)
  BY <1>6, RequestSerial DEF EnumerateHidl, At, Reported
<1>7. CASE RemoveHidl(t)
  BY <1>7, RequestSerial DEF RemoveHidl, At, Reported
<1>8. QED
  BY <1>1, <1>2, <1>3, <1>5, <1>6, <1>7, CancelHidlSerial, EndSerial DEF ThreadSteps

LEMMA InitSerial == Init => SerialInv
<1> SUFFICES ASSUME Init PROVE SerialInv
  OBVIOUS
<1>1. /\ \A t \in Thread : th[t] = Idle
      /\ unanswered = {} /\ vop = 0 /\ evq = <<>> /\ Len(calls) = 0
      /\ \A i \in Id : signal[i] = "none"
  BY DEF Init, BridgeInit
<1>2. OneActive /\ LastOnly /\ MethodReady /\ CancelSerial
  BY <1>1 DEF OneActive, Holds, LastOnly, MethodReady, CancelSerial, Idle, AllMethods
<1>3. FlightOK
  BY <1>1 DEF FlightOK, Waiting
<1>4. InstalledForDuration /\ ReportUnderway
  BY <1>1 DEF InstalledForDuration, ReportUnderway
<1>5. QED
  BY <1>2, <1>3, <1>4 DEF SerialInv

LEMMA NextSerial ==
  ASSUME Disciplined, Serial, IInv, SerialInv, [Next]_vars
  PROVE  SerialInv'
<1>1. CASE UNCHANGED vars
  <2>1. /\ UNCHANGED <<mMode, mCb, pending, calls, signal, unanswered, vop, th>>
        /\ Waiting' = Waiting
    BY <1>1 DEF vars, Waiting
  <2>2. QED
    BY <2>1, Settles
<1>2. QED
  BY <1>1, CallSerial, CancelKeepsSerial, ThreadSerial, HandlesSerial, DeliversSerial,
     ReportsSerial, FinishSerial DEF Next

-----------------------------------------------------------------------------
LEMMA SerialInvariant ==
  ASSUME Disciplined, Serial PROVE Spec => []SerialInv
<1>1. Init => IInv /\ SerialInv
  BY InitIInv, InitSerial
<1>2. IInv /\ SerialInv /\ [Next]_vars => (IInv /\ SerialInv)'
  BY NextIInv, NextSerial
<1>3. QED
  BY <1>1, <1>2, PTL DEF Spec

\* With one operation at a time, and no cancellation of an enroll beside the call
\* that follows it, an operation has its callback and its mode in the bridge until
\* its last report is handled (HidlBackend.h:43-44).
THEOREM InstalledThroughout ==
  ASSUME Disciplined, Serial PROVE Spec => []InstalledForDuration
<1>1. SerialInv => InstalledForDuration
  BY DEF SerialInv
<1>2. QED
  BY <1>1, SerialInvariant, PTL

\* Under the same discipline no handler drops the report that ends an operation
\* someone waits for (HidlCallbackBridge.cpp, the early returns of the handlers).
THEOREM ConclusionNeverLost ==
  ASSUME Disciplined, Serial PROVE Spec => []ReportUnderway
<1>1. SerialInv => ReportUnderway
  BY DEF SerialInv
<1>2. QED
  BY <1>1, SerialInvariant, PTL
=============================================================================
