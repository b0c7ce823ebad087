--------------------- MODULE SamsungSessionAnswerProofs ---------------------
(***************************************************************************)
(* That a session whose user was set answers every synchronous request,    *)
(* for any number of sessions, threads and calls, and any framework.       *)
(***************************************************************************)
EXTENDS SamsungSessionProofs

\* A user that was set, or is about to be, means that the service was found.
UserBound == /\ userSet # {} => bound
             /\ \A t \in Thread : th[t].m = "createSession" => bound

\* A session takes calls only after its constructor.
CalledAreCreated == \A i \in 1..Len(calls) : sess[calls[i].s] # "new"

\* What a synchronous request is about to say is an answer to it.
AnswerFits ==
  \A t \in Thread : th[t].m \in Synchronous /\ th[t].pc = "reply" =>
    th[t].say \in Answers[th[t].m]

AnswerInv == UserBound /\ CalledAreCreated /\ AnswerFits /\ UserSetRequestsAnswered

-----------------------------------------------------------------------------
(* Facts about the threads and the history.                                *)

LEMMA SynchronousMethods ==
  /\ Synchronous \subseteq AllMethods
  /\ Synchronous \cap Operations = {}
  /\ "enumerateEnrollments" \notin Synchronous
  /\ \A m \in Synchronous : "error" \in Answers[m]
BY DEF Synchronous, AllMethods, Operations, Answers

\* A call that runs goes on running when the thread that takes a step is not the
\* one that runs it, or keeps running it.
LEMMA RunningKept ==
  ASSUME NEW t \in Thread, OthersStay(t), NEW i, Running(i),
         i # th[t].id \/ (th'[t].id = i /\ th'[t].m # "cancel")
  PROVE  Running(i)'
BY DEF Running, OthersStay

\* The calls the framework waits for were issued.
LEMMA UnansweredIssued ==
  ASSUME IInv, NEW i \in unanswered
  PROVE  i \in 1..Len(calls) /\ i # 0 /\ calls[i] \in Call
BY DEF IInv, Core, HistoryOK, TypeOK

\* A step that leaves the history of calls alone, sets no user, loses no
\* service and makes no session new keeps the first two conjuncts.
LEMMA CreatedKept ==
  ASSUME IInv, AnswerInv, bound => bound', userSet' = userSet, calls' = calls,
         \A t \in Thread : th'[t].m = "createSession" => bound',
         \A s \in Session : sess'[s] = "new" => sess[s] = "new"
  PROVE  UserBound' /\ CalledAreCreated'
<1>1. \A i \in 1..Len(calls) : calls[i].s \in Session
  <2>1. calls \in Seq(Call)
    BY DEF IInv, Core, TypeOK
  <2>2. \A i \in 1..Len(calls) : calls[i] \in Call
    BY <2>1
  <2>3. QED
    BY <2>2 DEF Call
<1>2. QED
  BY <1>1 DEF AnswerInv, UserBound, CalledAreCreated

-----------------------------------------------------------------------------
(* The kinds of steps.                                                     *)

\* The bridge and the vendor HAL: no thread moves, and answers may arrive.
LEMMA QuietAnswers ==
  ASSUME AnswerInv, UNCHANGED <<calls, userSet, bound, sess, th>>,
         unanswered' \subseteq unanswered
  PROVE  AnswerInv'
BY DEF AnswerInv, UserBound, CalledAreCreated, AnswerFits, UserSetRequestsAnswered,
       Running

\* What the first steps of the methods have in common: only without the service
\* does a request return in silence.
FirstStep(t, s, m) ==
  /\ Issue(t, s, m)
  /\ bound => bound'
  /\ \/ ~bound /\ th' = th
     \/ \E pc \in {"begin", "hidl", "reply"}, say \in SessionCall :
          /\ Run(t, m, s, NewId, pc, say)
          /\ m \in Synchronous /\ pc = "reply" => say \in Answers[m]

LEMMA IssueAnswers ==
  ASSUME IInv, AnswerInv, NEW t \in Thread, NEW s \in Session, NEW m \in AllMethods,
         FirstStep(t, s, m)
  PROVE  AnswerInv'
<1>1. /\ TypeOK /\ calls \in Seq(Call) /\ [m |-> m, s |-> s] \in Call
      /\ calls' = Append(calls, [m |-> m, s |-> s])
      /\ Len(calls) < MaxCalls /\ MaxCalls \in Nat
      /\ unanswered' = unanswered \cup {Len(calls) + 1}
      /\ th[t] = Idle /\ sess[s] = "open"
      /\ sess' = sess /\ userSet' = userSet /\ (bound => bound')
  BY BridgeAssumption DEF FirstStep, Issue, IInv, Core, TypeOK, Call
<1>2. /\ Len(calls') = Len(calls) + 1 /\ Len(calls) \in Nat
      /\ calls'[Len(calls) + 1] = [m |-> m, s |-> s]
      /\ \A i \in 1..Len(calls) : calls'[i] = calls[i]
  BY <1>1, AppendFacts
<1>3. CalledAreCreated'
  <2> SUFFICES ASSUME NEW i \in 1..Len(calls') PROVE sess'[calls'[i].s] # "new"
    BY DEF CalledAreCreated
  <2>1. CASE i = Len(calls) + 1
    BY <1>1, <1>2, <2>1
  <2>2. CASE i \in 1..Len(calls)
    BY <1>1, <1>2, <2>2 DEF AnswerInv, CalledAreCreated
  <2>3. QED
    BY <1>2, <2>1, <2>2
<1>4. ASSUME NEW i \in unanswered, calls'[i].m \in Synchronous, calls'[i].s \in userSet
      PROVE  Running(i) /\ i # 0
  BY <1>2, <1>4, UnansweredIssued DEF AnswerInv, UserSetRequestsAnswered
<1>5. CASE ~bound /\ th' = th
  <2>1. userSet = {}
    BY <1>5 DEF AnswerInv, UserBound
  <2>2. UserBound' /\ AnswerFits'
    BY <1>1, <1>5, <2>1 DEF AnswerInv, UserBound, AnswerFits
  <2>3. UserSetRequestsAnswered'
    BY <1>1, <2>1 DEF UserSetRequestsAnswered
  <2>4. QED
    BY <1>3, <2>2, <2>3 DEF AnswerInv
<1>6. CASE \E pc \in {"begin", "hidl", "reply"}, say \in SessionCall :
             /\ Run(t, m, s, NewId, pc, say)
             /\ m \in Synchronous /\ pc = "reply" => say \in Answers[m]
  <2> PICK pc \in {"begin", "hidl", "reply"}, say \in SessionCall :
             /\ Run(t, m, s, NewId, pc, say)
             /\ m \in Synchronous /\ pc = "reply" => say \in Answers[m]
    BY <1>6
  <2>1. /\ th'[t].pc = pc /\ th'[t].say = say
        /\ th'[t].m = m /\ th'[t].s = s /\ th'[t].id = Len(calls) + 1
        /\ OthersStay(t)
    <3>1. m \in Activity /\ pc \in PC /\ Len(calls) + 1 \in 0..MaxCalls
      BY <1>1, <1>2 DEF Activity, PC
    <3>2. QED
      BY <1>1, <3>1, RunFrame DEF NewId, OthersStay
  <2>2. UserBound' /\ AnswerFits'
    BY <1>1, <2>1 DEF AnswerInv, UserBound, AnswerFits, OthersStay, AllMethods
  <2>3. UserSetRequestsAnswered'
    <3> SUFFICES ASSUME NEW i \in unanswered', calls'[i].m \in Synchronous,
                        calls'[i].s \in userSet
                 PROVE  Running(i)'
      BY <1>1 DEF UserSetRequestsAnswered
    <3>1. CASE i = Len(calls) + 1
      BY <2>1, <3>1 DEF Running, AllMethods
    <3>2. CASE i \in unanswered
      <4>1. Running(i) /\ i # 0
        BY <1>4, <3>2
      <4>2. th[t].id = 0
        BY <1>1 DEF Idle
      <4>3. QED
        BY <2>1, <4>1, <4>2, RunningKept
    <3>3. QED
      BY <1>1, <3>1, <3>2
  <2>4. QED
    BY <1>3, <2>2, <2>3 DEF AnswerInv
<1>7. QED
  BY <1>5, <1>6 DEF FirstStep

\* A thread moves on within its method.
LEMMA MoveAnswers ==
  ASSUME IInv, AnswerInv, NEW t \in Thread, OthersStay(t),
         th'[t].m = th[t].m, th'[t].id = th[t].id,
         th[t].m \in Synchronous /\ th'[t].pc = "reply" => th'[t].say \in Answers[th[t].m],
         UNCHANGED <<calls, unanswered, userSet, bound, sess>>
  PROVE  AnswerInv'
<1>1. \A u \in Thread : th'[u].m = th[u].m
  BY DEF OthersStay
<1>2. UserBound' /\ CalledAreCreated'
  BY <1>1, CreatedKept DEF AnswerInv, UserBound
<1>3. AnswerFits'
  BY DEF AnswerInv, AnswerFits, OthersStay
<1>4. UserSetRequestsAnswered'
  <2>1. ASSUME NEW i, Running(i) PROVE Running(i)'
    BY <2>1 DEF Running, OthersStay
  <2>2. QED
    BY <2>1 DEF AnswerInv, UserSetRequestsAnswered
<1>5. QED
  BY <1>2, <1>3, <1>4 DEF AnswerInv

\* A thread takes up a constructor, a close or a cancellation, or is done with
\* what was no synchronous request; a session may change its state but not be
\* made new.
LEMMA OtherAnswers ==
  ASSUME IInv, AnswerInv, NEW t \in Thread, OthersStay(t),
         th'[t].m \notin AllMethods,
         th'[t].m = "createSession" => bound',
         \/ th[t].m \notin Synchronous
         \/ th[t].id \notin unanswered',
         bound => bound',
         unanswered' \subseteq unanswered,
         \A s \in Session : sess'[s] = "new" => sess[s] = "new",
         UNCHANGED <<calls, userSet>>
  PROVE  AnswerInv'
<1>1. UserBound' /\ CalledAreCreated'
  <2>1. \A u \in Thread : th'[u].m = "createSession" => bound'
    BY DEF OthersStay, AnswerInv, UserBound
  <2>2. QED
    BY <2>1, CreatedKept
<1>2. AnswerFits'
  BY SynchronousMethods DEF AnswerInv, AnswerFits, OthersStay
<1>3. UserSetRequestsAnswered'
  <2> SUFFICES ASSUME NEW i \in unanswered', calls[i].m \in Synchronous,
                      calls[i].s \in userSet
               PROVE  Running(i)'
    BY DEF UserSetRequestsAnswered
  <2>1. Running(i) /\ i \in unanswered
    BY DEF AnswerInv, UserSetRequestsAnswered
  <2>2. PICK u \in Thread : th[u].id = i /\ th[u].m # "cancel"
    BY <2>1 DEF Running
  <2>3. i # 0
    BY <2>1, UnansweredIssued
  <2>4. MethodOK(th[u])
    BY <2>2, <2>3 DEF IInv, Core, ThreadsOK, FrameOK, Idle, CancelOK, CloseOK,
                      ConstructorOK
  <2>5. th[u].m \in Synchronous
    BY <2>2, <2>4 DEF MethodOK
  <2>6. u # t
    BY <2>2, <2>5
  <2>7. QED
    BY <2>2, <2>6 DEF Running, OthersStay
<1>4. QED
  BY <1>1, <1>2, <1>3 DEF AnswerInv

-----------------------------------------------------------------------------
(* The steps of Next.                                                      *)

LEMMA CallAnswers ==
  ASSUME IInv, AnswerInv, NEW t \in Thread, NEW s \in Session, FrameworkCalls(t, s)
  PROVE  AnswerInv'
<1> USE DEF GetSeh
<1>1. bound \in BOOLEAN /\ TypeOK
  BY DEF IInv, Core, TypeOK
<1>2. ASSUME NEW m \in AllMethods, FirstStep(t, s, m) PROVE AnswerInv'
  BY <1>2, IssueAnswers
<1>3. CASE Enroll(t, s)
  <2>1. FirstStep(t, s, "enroll")
    BY <1>3 DEF Enroll, FirstStep, Synchronous, SessionCall
  <2>2. QED
    BY <1>2, <2>1 DEF AllMethods
<1>4. CASE Authenticate(t, s)
  <2>1. FirstStep(t, s, "authenticate")
    BY <1>4 DEF Authenticate, FirstStep, Synchronous, SessionCall
  <2>2. QED
    BY <1>2, <2>1 DEF AllMethods
<1>5. ASSUME NEW m \in AllMethods, NEW pc \in {"begin", "hidl", "reply"},
             NEW say \in SessionCall, IssueBound(t, s, m, pc, say),
             pc = "reply" => say \in Answers[m]
      PROVE  AnswerInv'
  <2>1. FirstStep(t, s, m)
    BY <1>1, <1>5 DEF IssueBound, FirstStep
  <2>2. QED
    BY <1>2, <2>1
<1>6. "error" \in SessionCall /\ "featuresRetrieved" \in SessionCall
  BY DEF SessionCall
<1>7. CASE GetFeatures(t, s)
  <2>1. "featuresRetrieved" \in Answers["getFeatures"]
    BY DEF Answers, AllMethods
  <2>2. QED
    BY <1>5, <1>6, <1>7, <2>1 DEF GetFeatures, AllMethods
<1>8. CASE \/ GenerateChallenge(t, s) \/ EnumerateEnrollments(t, s)
           \/ RemoveEnrollments(t, s) \/ RevokeChallenge(t, s) \/ SetFeature(t, s)
           \/ GetAuthenticatorId(t, s) \/ ResetLockout(t, s)
  <2>1. \E m \in AllMethods, pc \in {"begin", "hidl"} : IssueBound(t, s, m, pc, "error")
    BY <1>8 DEF GenerateChallenge, EnumerateEnrollments, RemoveEnrollments,
       RevokeChallenge, SetFeature, GetAuthenticatorId, ResetLockout, AllMethods
  <2>2. QED
    BY <1>5, <1>6, <2>1
<1>9. CASE InvalidateAuthenticatorId(t, s)
  <2>1. "authenticatorIdInvalidated" \in Answers["invalidateAuthenticatorId"]
    BY DEF Answers, AllMethods
  <2>2. FirstStep(t, s, "invalidateAuthenticatorId")
    BY <1>1, <1>9, <2>1 DEF InvalidateAuthenticatorId, FirstStep, SessionCall
  <2>3. QED
    BY <1>2, <2>2 DEF AllMethods
<1>10. CASE DetectInteraction(t, s)
  <2>1. "interactionDetected" \in Answers["detectInteraction"]
    BY DEF Answers, AllMethods
  <2>2. FirstStep(t, s, "detectInteraction")
    BY <1>1, <1>10, <2>1 DEF DetectInteraction, FirstStep, SessionCall
  <2>3. QED
    BY <1>2, <2>2 DEF AllMethods
<1>11. CASE CreateSession(t, s)
  <2>1. /\ th[t] = Idle /\ sess[s] = "new"
        /\ UNCHANGED <<calls, unanswered, userSet>>
        /\ bound => bound'
        /\ \A r \in Session : sess'[r] = "new" => sess[r] = "new"
    BY <1>1, <1>11 DEF CreateSession, MayCreate, TypeOK
  <2>2. CASE th' = th
    BY <2>1, <2>2, OtherAnswers DEF OthersStay, Idle, AllMethods, Synchronous
  <2>3. CASE Run(t, "createSession", s, 0, "setActiveUser", "error") /\ bound'
    <3>1. th'[t].m = "createSession" /\ OthersStay(t)
      <4>1. /\ "createSession" \in Activity /\ "setActiveUser" \in PC
            /\ "error" \in SessionCall /\ 0 \in 0..MaxCalls
        BY BridgeAssumption DEF Activity, PC, SessionCall
      <4>2. QED
        BY <1>1, <2>3, <4>1, RunFrame DEF OthersStay
    <3>2. QED
      BY <2>1, <2>3, <3>1, OtherAnswers DEF Idle, AllMethods, Synchronous
  <2>4. QED
    BY <1>11, <2>2, <2>3 DEF CreateSession
<1>12. CASE Close(t, s)
  <2>1. /\ th[t] = Idle /\ UNCHANGED <<calls, unanswered, userSet, bound>>
        /\ \A r \in Session : sess'[r] = "new" => sess[r] = "new"
        /\ Run(t, "close", s, 0, "end", "error")
    BY <1>1, <1>12 DEF Close, TypeOK
  <2>2. th'[t].m = "close" /\ OthersStay(t)
    <3>1. /\ "close" \in Activity /\ "end" \in PC
          /\ "error" \in SessionCall /\ 0 \in 0..MaxCalls
      BY BridgeAssumption DEF Activity, PC, SessionCall
    <3>2. QED
      BY <1>1, <2>1, <3>1, RunFrame DEF OthersStay
  <2>3. QED
    BY <2>1, <2>2, OtherAnswers DEF Idle, AllMethods, Synchronous
<1>13. QED
  BY <1>3, <1>4, <1>7, <1>8, <1>9, <1>10, <1>11, <1>12 DEF FrameworkCalls

LEMMA CancelAnswers ==
  ASSUME IInv, AnswerInv, NEW t \in Thread, NEW i \in Id, Cancel(t, i)
  PROVE  AnswerInv'
<1>1. /\ th[t] = Idle /\ UNCHANGED <<calls, unanswered, userSet, bound, sess>>
      /\ signal[i] = "held" /\ Run(t, "cancel", calls[i].s, i, "hidl", "error")
  BY DEF Cancel
<1>2. calls[i].s \in Session /\ i \in 0..MaxCalls /\ TypeOK
  <2>1. i \in 1..Len(calls) /\ calls \in Seq(Call) /\ TypeOK
    BY <1>1 DEF IInv, Core, HistoryOK, TypeOK
  <2>2. calls[i] \in Call
    BY <2>1
  <2>3. QED
    BY <2>1, <2>2 DEF Call, Id
<1>3. th'[t].m = "cancel" /\ OthersStay(t)
  <2>1. "cancel" \in Activity /\ "hidl" \in PC /\ "error" \in SessionCall
    BY DEF Activity, PC, SessionCall
  <2>2. QED
    BY <1>1, <1>2, <2>1, RunFrame DEF OthersStay
<1>4. QED
  BY <1>1, <1>3, OtherAnswers DEF Idle, AllMethods, Synchronous

\* A method returns, or goes on to its reply.
LEMMA StepAnswers ==
  ASSUME IInv, AnswerInv, NEW t \in Thread,
         UNCHANGED <<calls, unanswered, userSet, bound, sess>>,
         \/ th[t].m \notin Synchronous /\ Return(t)
         \/ \E pc \in {"hidl", "end", "reply"}, say \in SessionCall :
              /\ Goto(t, pc, say)
              /\ th[t].m \in Synchronous /\ pc = "reply" => say \in Answers[th[t].m]
  PROVE  AnswerInv'
<1>1. TypeOK
  BY DEF IInv, Core
<1>2. CASE th[t].m \notin Synchronous /\ Return(t)
  <2>1. th'[t] = Idle /\ OthersStay(t)
    BY <1>1, <1>2, ReturnFrame DEF OthersStay
  <2>2. QED
    BY <1>2, <2>1, OtherAnswers DEF Idle, AllMethods
<1>3. CASE \E pc \in {"hidl", "end", "reply"}, say \in SessionCall :
             /\ Goto(t, pc, say)
             /\ th[t].m \in Synchronous /\ pc = "reply" => say \in Answers[th[t].m]
  <2> PICK pc \in {"hidl", "end", "reply"}, say \in SessionCall :
             /\ Goto(t, pc, say)
             /\ th[t].m \in Synchronous /\ pc = "reply" => say \in Answers[th[t].m]
    BY <1>3
  <2>1. pc \in PC
    BY DEF PC
  <2>2. /\ th'[t].m = th[t].m /\ th'[t].id = th[t].id
        /\ th'[t].pc = pc /\ th'[t].say = say /\ OthersStay(t)
    BY <1>1, <2>1, GotoFrame DEF OthersStay
  <2>3. QED
    BY <2>2, MoveAnswers
<1>4. QED
  BY <1>2, <1>3

LEMMA SetActiveUserAnswers ==
  ASSUME IInv, AnswerInv, NEW t \in Thread, SetActiveUser(t)
  PROVE  AnswerInv'
<1>1. ConstructorOK(th[t]) /\ bound /\ TypeOK
  BY DEF SetActiveUser, At, IInv, Core, ThreadsOK, FrameOK, Idle, MethodOK, CancelOK,
         CloseOK, AllMethods, AnswerInv, UserBound
<1>2. /\ UNCHANGED <<bound, calls, unanswered>>
      /\ sess' = [sess EXCEPT ![th[t].s] = "open"]
      /\ Return(t) /\ userSet' \subseteq userSet \cup {th[t].s}
  BY DEF SetActiveUser
<1>3. th'[t] = Idle /\ OthersStay(t)
  BY <1>1, <1>2, ReturnFrame DEF OthersStay
<1>4. UserBound'
  BY <1>1, <1>2 DEF UserBound
<1>5. CalledAreCreated'
  <2> SUFFICES ASSUME NEW i \in 1..Len(calls) PROVE sess'[calls[i].s] # "new"
    BY <1>2 DEF CalledAreCreated
  <2>1. sess[calls[i].s] # "new" /\ sess \in [Session -> {"new", "open", "closing", "closed"}]
    BY <1>1 DEF AnswerInv, CalledAreCreated, TypeOK
  <2>2. calls[i] \in Call
    BY <1>1 DEF TypeOK
  <2>3. calls[i].s \in Session
    BY <2>2 DEF Call
  <2>4. QED
    BY <1>2, <2>1, <2>3
<1>6. AnswerFits'
  BY <1>3, SynchronousMethods DEF AnswerInv, AnswerFits, OthersStay, Idle, AllMethods
<1>7. UserSetRequestsAnswered'
  <2> SUFFICES ASSUME NEW i \in unanswered, calls[i].m \in Synchronous,
                      calls[i].s \in userSet'
               PROVE  Running(i)'
    BY <1>2 DEF UserSetRequestsAnswered
  <2>1. i \in 1..Len(calls) /\ i # 0
    BY UnansweredIssued
  <2>2. calls[i].s # th[t].s
    BY <1>1, <2>1 DEF AnswerInv, CalledAreCreated, ConstructorOK
  <2>3. Running(i) /\ i # th[t].id
    BY <1>1, <1>2, <2>1, <2>2 DEF AnswerInv, UserSetRequestsAnswered, ConstructorOK
  <2>4. QED
    BY <1>3, <2>3, RunningKept
<1>8. QED
  BY <1>4, <1>5, <1>6, <1>7 DEF AnswerInv

LEMMA ReplyAnswers ==
  ASSUME IInv, AnswerInv, NEW t \in Thread, Reply(t)
  PROVE  AnswerInv'
<1>1. /\ UNCHANGED <<bound, calls, userSet>> /\ unanswered' \subseteq unanswered
      /\ Return(t) /\ th[t].pc = "reply" /\ TypeOK
  BY DEF Reply, Receive, IInv, Core
<1>2. th'[t] = Idle /\ OthersStay(t)
  BY <1>1, ReturnFrame DEF OthersStay
<1>3. \A s \in Session : sess'[s] = "new" => sess[s] = "new"
  BY <1>1 DEF Reply, TypeOK
<1>4. CASE th[t].m \in Synchronous
  <2>1. MethodOK(th[t])
    BY <1>4, MethodFrame, SynchronousMethods DEF IInv, Core
  <2>2. calls[th[t].id].s = th[t].s /\ calls[th[t].id].m = th[t].m
    BY <2>1 DEF MethodOK
  <2>3. th[t].say \in Answers[th[t].m]
    BY <1>1, <1>4 DEF AnswerInv, AnswerFits
  <2>4. th[t].id \notin unanswered'
    BY <2>2, <2>3 DEF Reply, Receive
  <2>5. QED
    BY <1>1, <1>2, <1>3, <2>4, OtherAnswers DEF Idle, AllMethods
<1>5. CASE th[t].m \notin Synchronous
  BY <1>1, <1>2, <1>3, <1>5, OtherAnswers DEF Idle, AllMethods
<1>6. QED
  BY <1>4, <1>5

LEMMA ThreadAnswers ==
  ASSUME IInv, AnswerInv, NEW t \in Thread, ThreadSteps(t)
  PROVE  AnswerInv'
<1> USE DEF frameworkVars, vendorVars
<1>1. "error" \in SessionCall /\ \A m \in Synchronous : "error" \in Answers[m]
  BY SynchronousMethods DEF SessionCall
<1>2. CASE Begin(t)
  BY <1>1, <1>2, StepAnswers DEF Begin
<1>3. CASE EnrollHidl(t) \/ AuthenticateHidl(t)
  BY <1>1, <1>3, StepAnswers
     DEF EnrollHidl, AuthenticateHidl, StartOrRefuse, At, Synchronous
<1>4. ASSUME NEW m \in AllMethods, NEW says \in SUBSET SessionCall, Answer(t, m, says),
             says \subseteq Answers[m]
      PROVE  AnswerInv'
  BY <1>4, StepAnswers DEF Answer, At
<1>5. CASE GenerateChallengeHidl(t)
  BY <1>4, <1>5 DEF GenerateChallengeHidl, SessionCall, Answers, AllMethods
<1>6. CASE RevokeChallengeHidl(t)
  BY <1>4, <1>6 DEF RevokeChallengeHidl, SessionCall, Answers, AllMethods
<1>7. CASE SetFeatureHidl(t)
  BY <1>4, <1>7 DEF SetFeatureHidl, SessionCall, Answers, AllMethods
<1>8. CASE GetAuthenticatorIdHidl(t)
  BY <1>4, <1>8 DEF GetAuthenticatorIdHidl, SessionCall, Answers, AllMethods
<1>9. CASE InvalidateAuthenticatorIdHidl(t)
  BY <1>4, <1>9 DEF InvalidateAuthenticatorIdHidl, SessionCall, Answers, AllMethods
<1>10. CASE ResetLockoutHidl(t)
  BY <1>4, <1>10 DEF ResetLockoutHidl, SessionCall, Answers, AllMethods
<1>11. CASE EnumerateHidl(t)
  BY <1>11, StepAnswers DEF EnumerateHidl, At, Synchronous
<1>12. CASE RemoveHidl(t)
  <2>1. "enrollmentsRemoved" \in SessionCall
        /\ "enrollmentsRemoved" \in Answers["removeEnrollments"]
    BY DEF SessionCall, Answers, AllMethods
  <2>2. QED
    BY <1>12, <2>1, StepAnswers DEF RemoveHidl, At
<1>13. CASE CancelHidl(t)
  BY <1>1, <1>13, StepAnswers DEF CancelHidl, At, Synchronous, AllMethods
<1>14. CASE End(t)
  <2>1. "sessionClosed" \in SessionCall /\ "close" \notin Synchronous
        /\ "cancel" \notin Synchronous
    BY DEF SessionCall, Synchronous, AllMethods
  <2>2. QED
    BY <1>1, <1>14, <2>1, StepAnswers DEF End
<1>15. QED
  BY <1>2, <1>3, <1>5, <1>6, <1>7, <1>8, <1>9, <1>10, <1>11, <1>12, <1>13, <1>14,
     SetActiveUserAnswers, ReplyAnswers DEF ThreadSteps

LEMMA InitAnswers == Init => AnswerInv
<1> SUFFICES ASSUME Init PROVE AnswerInv
  OBVIOUS
<1>1. \A t \in Thread : th[t] = Idle
  BY DEF Init
<1>2. UserBound /\ AnswerFits
  BY <1>1, SynchronousMethods DEF Init, UserBound, AnswerFits, Idle, AllMethods
<1>3. CalledAreCreated /\ UserSetRequestsAnswered
  BY DEF Init, CalledAreCreated, UserSetRequestsAnswered
<1>4. QED
  BY <1>2, <1>3 DEF AnswerInv

LEMMA NextAnswers == IInv /\ AnswerInv /\ [Next]_vars => AnswerInv'
<1> SUFFICES ASSUME IInv, AnswerInv, [Next]_vars PROVE AnswerInv'
  OBVIOUS
<1>1. CASE UNCHANGED vars \/ VendorReport \/ VendorFinish \/ VendorLockout
  BY <1>1, QuietAnswers
     DEF vars, VendorReport, VendorFinish, VendorLockout, frameworkVars
<1>2. CASE BridgeHandles
  BY <1>2, QuietAnswers DEF BridgeHandles, frameworkVars
<1>3. CASE BridgeDelivers
  BY <1>3, QuietAnswers DEF BridgeDelivers, Receive
<1>4. QED
  BY <1>1, <1>2, <1>3, CallAnswers, CancelAnswers, ThreadAnswers DEF Next

-----------------------------------------------------------------------------
\* A session whose user was set has every synchronous request answered, whatever
\* its callers, the bridge and the vendor HAL do meanwhile (HidlBackend.cpp:20,
\* SamsungSession.cpp, the requests).
THEOREM RequestsAnswered == Spec => []UserSetRequestsAnswered
<1>1. Init => IInv /\ AnswerInv
  BY InitIInv, InitAnswers
<1>2. IInv /\ AnswerInv /\ [Next]_vars => (IInv /\ AnswerInv)'
  BY NextIInv, NextAnswers
<1>3. AnswerInv => UserSetRequestsAnswered
  BY DEF AnswerInv
<1>4. QED
  BY <1>1, <1>2, <1>3, PTL DEF Spec
=============================================================================
