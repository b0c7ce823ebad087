------------------------ MODULE SamsungSessionProofs ------------------------
(***************************************************************************)
(* Invariance proofs about SamsungSession, for any number of sessions,     *)
(* threads and calls, any set of methods, and a framework that is or is    *)
(* not disciplined.                                                        *)
(***************************************************************************)
EXTENDS SamsungSession, TLAPS

Operations == {"enroll", "authenticate"}

-----------------------------------------------------------------------------
(* The inductive invariant.                                                *)

\* What a thread runs, by the method it took: a request of a session that is
\* open, a cancellation, a close that ends before it replies, a constructor.
MethodOK(r) ==
  /\ r.m \in AllMethods
  /\ r.pc \in {"begin", "hidl", "end", "reply"}
  /\ r.s \in Session /\ sess[r.s] = "open"
  /\ r.id \in 1..Len(calls)
  /\ calls[r.id].m = r.m /\ calls[r.id].s = r.s
  /\ r.m \in Operations /\ r.pc = "reply" => r.say = "error"

CancelOK(r) ==
  /\ r.m = "cancel"
  /\ r.pc \in {"hidl", "end"}
  /\ r.id \in 1..Len(calls)

CloseOK(r) ==
  /\ r.m = "close"
  /\ r.pc \in {"end", "reply"}
  /\ r.id = 0
  /\ r.s \in Session /\ sess[r.s] = "closing"
  /\ r.pc = "reply" => mCb # r.s

ConstructorOK(r) ==
  /\ r.m = "createSession"
  /\ r.pc = "setActiveUser"
  /\ r.id = 0
  /\ r.s \in Session /\ sess[r.s] = "new"

FrameOK(r) == \/ r = Idle
              \/ MethodOK(r)
              \/ CancelOK(r)
              \/ CloseOK(r)
              \/ ConstructorOK(r)

ThreadsOK == \A t \in Thread : FrameOK(th[t])

\* The methods that hold their session: all but a cancellation.
Holds(r) == r.m \notin {"none", "cancel"}

\* No two threads run a call of one session, cancellations apart.
OneCallPerSession ==
  \A t, u \in Thread :
    t # u /\ Holds(th[t]) /\ Holds(th[u]) => th[t].s # th[u].s

HistoryOK ==
  /\ unanswered \subseteq 1..Len(calls)
  /\ \A i \in Id : signal[i] # "none" => i \in 1..Len(calls)

\* The session in the slot issued an operation of the mode in the slot.
SlotMatches ==
  /\ mMode = "kEnroll" => mCb # None /\ Issued(mCb, {"enroll"})
  /\ mMode = "kAuthenticate" => mCb # None /\ Issued(mCb, {"authenticate"})
  /\ mMode # "kDetectInteraction"

Core == TypeOK /\ ThreadsOK /\ OneCallPerSession /\ HistoryOK

IInv == /\ Core
        /\ SlotMatches
        /\ ResultMatchesOperation
        /\ ClosedNotInstalled
        /\ NoSilentReturn

-----------------------------------------------------------------------------
(* Facts about the frames of the threads.                                  *)

LEMMA IdleIsFrame == Idle \in Frame
BY BridgeAssumption DEF Idle, Frame, PC, Activity, SessionCall

\* A thread takes a new frame and the others keep theirs.
LEMMA NewFrame ==
  ASSUME TypeOK, NEW t \in Thread, NEW r \in Frame, th' = [th EXCEPT ![t] = r]
  PROVE  /\ th' \in [Thread -> Frame]
         /\ th'[t] = r
         /\ \A u \in Thread \ {t} : th'[u] = th[u]
BY DEF TypeOK

\* Goto moves a thread within its method.
LEMMA GotoFrame ==
  ASSUME TypeOK, NEW t \in Thread, NEW pc \in PC, NEW say \in SessionCall,
         Goto(t, pc, say)
  PROVE  /\ th' \in [Thread -> Frame]
         /\ th'[t].pc = pc /\ th'[t].say = say
         /\ th'[t].m = th[t].m /\ th'[t].s = th[t].s /\ th'[t].id = th[t].id
         /\ \A u \in Thread \ {t} : th'[u] = th[u]
<1> DEFINE r == [th[t] EXCEPT !.pc = pc, !.say = say]
<1>1. th' = [th EXCEPT ![t] = r]
  BY DEF Goto, TypeOK, Frame
<1>2. th[t] \in Frame
  BY DEF TypeOK
<1>3. r \in Frame /\ r.pc = pc /\ r.say = say /\ r.m = th[t].m /\ r.s = th[t].s
        /\ r.id = th[t].id
  BY <1>2 DEF Frame
<1> HIDE DEF r
<1>4. QED
  BY <1>1, <1>3, NewFrame

LEMMA RunFrame ==
  ASSUME TypeOK, NEW t \in Thread, NEW m \in Activity, NEW s \in Session,
         NEW id \in 0..MaxCalls, NEW pc \in PC, NEW say \in SessionCall,
         Run(t, m, s, id, pc, say)
  PROVE  /\ th' \in [Thread -> Frame]
         /\ th'[t].pc = pc /\ th'[t].say = say
         /\ th'[t].m = m /\ th'[t].s = s /\ th'[t].id = id
         /\ \A u \in Thread \ {t} : th'[u] = th[u]
<1> DEFINE r == [pc |-> pc, m |-> m, s |-> s, id |-> id, say |-> say]
<1>1. r \in Frame /\ r.pc = pc /\ r.say = say /\ r.m = m /\ r.s = s /\ r.id = id
  BY DEF Frame
<1>2. th' = [th EXCEPT ![t] = r]
  BY DEF Run
<1> HIDE DEF r
<1>3. QED
  BY <1>1, <1>2, NewFrame

LEMMA ReturnFrame ==
  ASSUME TypeOK, NEW t \in Thread, Return(t)
  PROVE  /\ th' \in [Thread -> Frame]
         /\ th'[t] = Idle
         /\ \A u \in Thread \ {t} : th'[u] = th[u]
BY IdleIsFrame, NewFrame DEF Return

\* What Append does to the history of calls and to the queue.
LEMMA AppendFacts ==
  ASSUME NEW S, NEW q \in Seq(S), NEW e \in S
  PROVE  /\ Append(q, e) \in Seq(S)
         /\ Len(Append(q, e)) = Len(q) + 1
         /\ \A i \in 1..Len(q) : Append(q, e)[i] = q[i]
         /\ Append(q, e)[Len(q) + 1] = e
         /\ Len(q) \in Nat
         /\ DOMAIN q = 1..Len(q)
OBVIOUS

LEMMA EventQueued ==
  ASSUME NEW q \in Seq(Event), NEW e \in Event PROVE Append(q, e) \in Seq(Event)
OBVIOUS

-----------------------------------------------------------------------------
(* What a step of thread t leaves alone.                                   *)

\* The history of calls only grows.
CallsGrow == /\ Len(calls') \in Nat /\ Len(calls) <= Len(calls')
             /\ DOMAIN calls = 1..Len(calls) /\ DOMAIN calls' = 1..Len(calls')
             /\ \A i \in 1..Len(calls) : calls'[i] = calls[i]

OthersStay(t) == \A u \in Thread \ {t} : th'[u] = th[u]

LEMMA CallsUnchanged == ASSUME TypeOK, calls' = calls PROVE CallsGrow
BY DEF TypeOK, CallsGrow

\* A thread that takes no step is still in order, when the session it holds
\* keeps its state and the slot is emptied or given to another session.
LEMMA OthersOK ==
  ASSUME TypeOK, ThreadsOK, CallsGrow,
         NEW u \in Thread,
         th'[u] = th[u],
         Holds(th[u]) => sess'[th[u].s] = sess[th[u].s],
         th[u].m = "close" => mCb' = mCb \/ mCb' # th[u].s
  PROVE  FrameOK(th[u])'
<1>1. FrameOK(th[u])
  BY DEF ThreadsOK
<1>2. CASE th[u] = Idle
  BY <1>2 DEF FrameOK
<1>3. CASE MethodOK(th[u])
  BY <1>3 DEF FrameOK, MethodOK, CallsGrow, Holds, AllMethods
<1>4. CASE CancelOK(th[u])
  BY <1>4 DEF FrameOK, CancelOK, CallsGrow
<1>5. CASE CloseOK(th[u])
  BY <1>5 DEF FrameOK, CloseOK, Holds
<1>6. CASE ConstructorOK(th[u])
  BY <1>6 DEF FrameOK, ConstructorOK, Holds
<1>7. QED
  BY <1>1, <1>2, <1>3, <1>4, <1>5, <1>6 DEF FrameOK

\* A step keeps the sessions of the threads apart when the thread that takes it
\* lets its session go, keeps it, or takes one that nobody holds.
LEMMA OneCallKept ==
  ASSUME OneCallPerSession, NEW t \in Thread, OthersStay(t),
         \/ ~Holds(th'[t])
         \/ Holds(th[t]) /\ th'[t].s = th[t].s
         \/ \A u \in Thread \ {t} : Holds(th[u]) => th[u].s # th'[t].s
  PROVE  OneCallPerSession'
BY DEF OneCallPerSession, OthersStay, Holds

LEMMA IssuedKept ==
  ASSUME CallsGrow, NEW s, NEW ms, Issued(s, ms)
  PROVE  Issued(s, ms)'
BY DEF Issued, CallsGrow

\* The slot still matches when it is left alone or emptied.
LEMMA SlotKept ==
  ASSUME SlotMatches, CallsGrow,
         UNCHANGED slotVars \/ EndOperation
  PROVE  SlotMatches'
BY IssuedKept DEF SlotMatches, slotVars, EndOperation

\* The call a handler has chosen still matches when it is left alone.
LEMMA ResultKept ==
  ASSUME ResultMatchesOperation, CallsGrow, pending' = pending
  PROVE  ResultMatchesOperation'
BY IssuedKept DEF ResultMatchesOperation

-----------------------------------------------------------------------------
(* The framework issues a call.                                            *)

\* What the first steps of the methods have in common: the call is numbered,
\* and the method returns in silence only when it is neither enroll nor
\* authenticate.
IssueStep(t, s, m) ==
  /\ Issue(t, s, m)
  /\ bound' \in BOOLEAN
  /\ \/ m \notin Operations /\ th' = th
     \/ \E pc \in {"begin", "hidl", "reply"}, say \in SessionCall :
          /\ Run(t, m, s, NewId, pc, say)
          /\ m \in Operations /\ pc = "reply" => say = "error"

LEMMA IssueKeeps ==
  ASSUME IInv, NEW t \in Thread, NEW s \in Session, NEW m \in AllMethods,
         IssueStep(t, s, m)
  PROVE  IInv'
<1> USE DEF IInv, Core
<1>1. /\ calls \in Seq(Call) /\ [m |-> m, s |-> s] \in Call
      /\ calls' = Append(calls, [m |-> m, s |-> s])
      /\ Len(calls) < MaxCalls /\ MaxCalls \in Nat
      /\ unanswered' = unanswered \cup {Len(calls) + 1}
      /\ th[t] = Idle /\ sess[s] = "open" /\ MayCall(s)
      /\ bound' \in BOOLEAN
      /\ UNCHANGED <<sess, signal, userSet, bridgeVars, vendorVars>>
  BY BridgeAssumption DEF IssueStep, Issue, TypeOK, Call
<1>2. /\ calls' \in Seq(Call) /\ Len(calls') = Len(calls) + 1
      /\ Len(calls) \in Nat
      /\ calls'[Len(calls) + 1] = [m |-> m, s |-> s]
      /\ CallsGrow
  BY <1>1, AppendFacts DEF CallsGrow
<1>3. UNCHANGED <<mMode, mCb, evq, pending, vop, vuser, sess, signal, userSet>>
  BY <1>1 DEF bridgeVars, vendorVars
<1>4. \A u \in Thread : Holds(th[u]) => th[u].s # s
  BY <1>1 DEF MayCall, Holds
<1>5. HistoryOK' /\ unanswered' \subseteq Id
  <2>1. unanswered \subseteq 1..Len(calls) /\ (\A i \in Id : signal[i] # "none" => i \in 1..Len(calls))
    BY DEF HistoryOK
  <2>2. Len(calls) \in Nat /\ Len(calls') = Len(calls) + 1 /\ Len(calls) < MaxCalls
        /\ MaxCalls \in Nat /\ signal' = signal /\ unanswered' = unanswered \cup {Len(calls) + 1}
    BY <1>1, <1>2, <1>3
  <2>3. unanswered' \subseteq 1..Len(calls')
    <3> SUFFICES ASSUME NEW i \in unanswered' PROVE i \in 1..Len(calls')
      OBVIOUS
    <3>1. i \in unanswered \/ i = Len(calls) + 1
      BY <2>2
    <3>2. QED
      BY <2>1, <2>2, <3>1
  <2>4. \A i \in Id : signal'[i] # "none" => i \in 1..Len(calls')
    BY <2>1, <2>2
  <2>5. unanswered' \subseteq Id
    BY <2>2, <2>3 DEF Id
  <2>6. QED
    BY <2>3, <2>4, <2>5 DEF HistoryOK, Id
<1>6. SlotMatches' /\ ResultMatchesOperation' /\ ClosedNotInstalled'
  <2>1. SlotMatches'
    BY <1>2, <1>3, SlotKept DEF slotVars
  <2>2. ResultMatchesOperation'
    BY <1>2, <1>3, ResultKept
  <2>3. ClosedNotInstalled'
    BY <1>3 DEF ClosedNotInstalled
  <2>4. QED
    BY <2>1, <2>2, <2>3
<1>7. CASE m \notin Operations /\ th' = th
  <2>1. TypeOK'
    BY <1>1, <1>2, <1>3, <1>7, <1>5 DEF TypeOK, BridgeTypeOK, Id
  <2>2. ThreadsOK'
    BY <1>2, <1>3, <1>7, OthersOK DEF ThreadsOK
  <2>3. OneCallPerSession'
    BY <1>7 DEF OneCallPerSession, Holds
  <2>4. NoSilentReturn'
    <3> SUFFICES ASSUME NEW i \in unanswered', calls'[i].m \in Operations,
                        ~Running(i)'
                 PROVE  signal'[i] # "none"
      BY DEF NoSilentReturn, Operations
    <3>1. i \in unanswered /\ i \in 1..Len(calls)
      <4>1. calls'[Len(calls) + 1].m = m
        BY <1>2
      <4>2. i # Len(calls) + 1
        BY <4>1, <1>7
      <4>3. QED
        BY <1>1, <4>2 DEF HistoryOK
    <3>2. calls[i].m \in Operations /\ ~Running(i)
      BY <1>2, <1>7, <3>1 DEF CallsGrow, Running
    <3>3. QED
      BY <1>3, <3>1, <3>2 DEF NoSilentReturn, Operations
  <2>5. QED
    BY <1>5, <1>6, <2>1, <2>2, <2>3, <2>4
<1>8. CASE \E pc \in {"begin", "hidl", "reply"}, say \in SessionCall :
             /\ Run(t, m, s, NewId, pc, say)
             /\ m \in Operations /\ pc = "reply" => say = "error"
  <2> PICK pc \in {"begin", "hidl", "reply"}, say \in SessionCall :
             /\ Run(t, m, s, NewId, pc, say)
             /\ m \in Operations /\ pc = "reply" => say = "error"
    BY <1>8
  <2>1. /\ th' \in [Thread -> Frame]
        /\ th'[t].pc = pc /\ th'[t].say = say
        /\ th'[t].m = m /\ th'[t].s = s /\ th'[t].id = Len(calls) + 1
        /\ OthersStay(t)
    <3>1. m \in Activity /\ pc \in PC /\ Len(calls) + 1 \in 0..MaxCalls
      BY <1>1, <1>2 DEF Activity, PC
    <3>2. QED
      BY <3>1, RunFrame DEF NewId, OthersStay
  <2>2. TypeOK'
    BY <1>1, <1>2, <1>3, <2>1, <1>5 DEF TypeOK, BridgeTypeOK, Id
  <2>3. ThreadsOK'
    <3>1. MethodOK(th[t])'
      BY <1>1, <1>2, <1>3, <2>1 DEF MethodOK
    <3>2. \A u \in Thread \ {t} : FrameOK(th[u])'
      BY <1>2, <1>3, <2>1, OthersOK DEF OthersStay
    <3>3. QED
      BY <3>1, <3>2 DEF ThreadsOK, FrameOK
  <2>4. OneCallPerSession'
    BY <1>4, <2>1, OneCallKept
  <2>5. NoSilentReturn'
    <3> SUFFICES ASSUME NEW i \in unanswered', calls'[i].m \in Operations,
                        ~Running(i)'
                 PROVE  signal'[i] # "none"
      BY DEF NoSilentReturn, Operations
    <3>1. i # Len(calls) + 1
      BY <2>1 DEF Running, AllMethods
    <3>2. i \in unanswered /\ i \in 1..Len(calls)
      BY <1>1, <3>1 DEF HistoryOK
    <3>3. calls[i].m \in Operations /\ ~Running(i)
      BY <1>1, <1>2, <2>1, <3>2 DEF CallsGrow, Running, OthersStay, Idle
    <3>4. QED
      BY <1>3, <3>2, <3>3 DEF NoSilentReturn, Operations
  <2>6. QED
    BY <1>5, <1>6, <2>2, <2>3, <2>4, <2>5
<1>9. QED
  BY <1>7, <1>8 DEF IssueStep

-----------------------------------------------------------------------------
(* The steps of a method.                                                  *)

\* A thread that runs a method is in order as a method.
LEMMA MethodFrame ==
  ASSUME ThreadsOK, NEW t \in Thread, th[t].m \in AllMethods
  PROVE  MethodOK(th[t])
BY DEF ThreadsOK, FrameOK, Idle, CancelOK, CloseOK, ConstructorOK, AllMethods

\* A thread moves within its method; it may install its session or end.
LEMMA MethodMoves ==
  ASSUME IInv, TypeOK', SlotMatches', NEW t \in Thread, OthersStay(t),
         th[t].m \in AllMethods,
         th'[t].m = th[t].m, th'[t].s = th[t].s, th'[t].id = th[t].id,
         th'[t].pc \in {"begin", "hidl", "end", "reply"},
         th[t].m \in Operations /\ th'[t].pc = "reply" => th'[t].say = "error",
         mCb' \in {mCb, None, th[t].s},
         UNCHANGED <<pending, sess, calls, unanswered, signal>>
  PROVE  IInv'
<1> USE DEF IInv, Core
<1>1. CallsGrow
  BY CallsUnchanged
<1>2. MethodOK(th[t])
  BY MethodFrame
<1>3. ThreadsOK'
  <2>1. MethodOK(th[t])'
    BY <1>2 DEF MethodOK
  <2>2. ASSUME NEW u \in Thread \ {t} PROVE FrameOK(th[u])'
    <3>1. th[u].m = "close" => mCb' = mCb \/ mCb' # th[u].s
      <4> SUFFICES ASSUME th[u].m = "close", mCb' = th[u].s, mCb' # mCb
                   PROVE  FALSE
        OBVIOUS
      <4>1. CloseOK(th[u])
        BY DEF ThreadsOK, FrameOK, Idle, CancelOK, CloseOK, ConstructorOK,
               MethodOK, AllMethods
      <4>2. mCb' = th[t].s
        BY <4>1, BridgeAssumption DEF CloseOK
      <4>3. QED
        BY <1>2, <4>1, <4>2 DEF CloseOK, MethodOK
    <3>2. QED
      BY <1>1, <3>1, OthersOK DEF OthersStay
  <2>3. QED
    BY <2>1, <2>2 DEF ThreadsOK, FrameOK
<1>4. OneCallPerSession'
  BY OneCallKept DEF Holds, AllMethods
<1>5. HistoryOK' /\ ResultMatchesOperation'
  BY <1>1, ResultKept DEF HistoryOK
<1>6. ClosedNotInstalled'
  BY <1>2, BridgeAssumption DEF ClosedNotInstalled, MethodOK
<1>7. NoSilentReturn'
  <2>1. ASSUME NEW i, Running(i) PROVE \E u \in Thread : th'[u].id = i /\ th'[u].m # "cancel"
    BY <2>1 DEF Running, OthersStay
  <2>2. QED
    BY <2>1 DEF NoSilentReturn, Running
<1>8. QED
  BY <1>3, <1>4, <1>5, <1>6, <1>7

\* A method returns to the framework without a call on its callback.
LEMMA MethodReturns ==
  ASSUME IInv, TypeOK', NEW t \in Thread, Return(t), th[t].m \in AllMethods,
         \A i \in Id : signal'[i] # "none" <=>
                        \/ signal[i] # "none"
                        \/ i = th[t].id /\ th[t].m \in Operations,
         UNCHANGED <<mMode, mCb, pending, sess, calls, unanswered>>
  PROVE  IInv'
<1> USE DEF IInv, Core
<1>1. CallsGrow
  BY CallsUnchanged
<1>2. MethodOK(th[t])
  BY MethodFrame
<1>3. th'[t] = Idle /\ OthersStay(t)
  BY ReturnFrame DEF OthersStay
<1>4. ThreadsOK'
  <2>1. ASSUME NEW u \in Thread \ {t} PROVE FrameOK(th[u])'
    BY <1>1, <1>3, OthersOK DEF OthersStay
  <2>2. QED
    BY <1>3, <2>1 DEF ThreadsOK, FrameOK
<1>5. OneCallPerSession'
  BY <1>3, OneCallKept DEF Holds, Idle
<1>6. HistoryOK'
  BY <1>2 DEF HistoryOK, MethodOK
<1>7. SlotMatches' /\ ResultMatchesOperation' /\ ClosedNotInstalled'
  BY <1>1, SlotKept, ResultKept DEF slotVars, ClosedNotInstalled
<1>8. NoSilentReturn'
  <2> SUFFICES ASSUME NEW i \in unanswered, calls[i].m \in Operations,
                      ~Running(i)'
               PROVE  signal'[i] # "none"
    BY DEF NoSilentReturn, Operations
  <2>1. i \in Id
    BY DEF TypeOK
  <2>2. CASE Running(i)
    <3>1. i = th[t].id
      BY <1>3, <2>2 DEF Running, OthersStay
    <3>2. QED
      BY <1>2, <2>1, <3>1 DEF MethodOK
  <2>3. CASE ~Running(i)
    BY <2>1, <2>3 DEF NoSilentReturn, Operations
  <2>4. QED
    BY <2>2, <2>3
<1>9. QED
  BY <1>4, <1>5, <1>6, <1>7, <1>8

\* The queue and the vendor HAL move, and nothing else.
LEMMA QueueMoves ==
  ASSUME IInv, TypeOK',
         UNCHANGED <<mMode, mCb, pending, sess, calls, unanswered, signal, th>>
  PROVE  IInv'
BY DEF IInv, Core, ThreadsOK, FrameOK, MethodOK, CancelOK, CloseOK,
       ConstructorOK, OneCallPerSession, Holds, HistoryOK, SlotMatches, Issued,
       ResultMatchesOperation, ClosedNotInstalled, NoSilentReturn, Running

LEMMA BeginKeeps ==
  ASSUME IInv, NEW t \in Thread, Begin(t)
  PROVE  IInv'
<1> USE DEF IInv, Core
<1>1. th[t].m \in AllMethods
  BY DEF Begin, ThreadsOK, FrameOK, Idle, MethodOK, CancelOK, CloseOK, ConstructorOK
<1>2. MethodOK(th[t])
  BY <1>1, MethodFrame
<1>3. /\ mMode' = ModeOf(th[t].m) /\ mCb' = th[t].s
      /\ Goto(t, "hidl", "error")
      /\ UNCHANGED <<evq, pending, bound, vop, vuser, sess, calls, unanswered,
                     signal, userSet>>
  BY DEF Begin, BeginOperation, vendorVars, frameworkVars
<1>4. /\ th' \in [Thread -> Frame]
      /\ th'[t].pc = "hidl" /\ th'[t].say = "error"
      /\ th'[t].m = th[t].m /\ th'[t].s = th[t].s /\ th'[t].id = th[t].id
      /\ OthersStay(t)
  BY <1>3, GotoFrame DEF PC, SessionCall, OthersStay
<1>5. TypeOK'
  BY <1>2, <1>3, <1>4 DEF TypeOK, BridgeTypeOK, ModeOf, OpMode, MethodOK
<1>6. SlotMatches'
  BY <1>2, <1>3, BridgeAssumption DEF SlotMatches, ModeOf, MethodOK, Issued, TypeOK
<1>7. QED
  BY <1>1, <1>3, <1>4, <1>5, <1>6, MethodMoves

\* A request answers on its callback, whatever the vendor HAL will report.
LEMMA AnswerKeeps ==
  ASSUME IInv, NEW t \in Thread, NEW m \in AllMethods \ Operations,
         NEW say \in SessionCall, At(t, m, "hidl"), Goto(t, "reply", say),
         evq' \in Seq(Event),
         UNCHANGED <<slotVars, pending, bound, vendorVars, frameworkVars>>
  PROVE  IInv'
<1> USE DEF IInv, Core
<1>1. UNCHANGED <<mMode, mCb, pending, bound, vop, vuser, sess, calls, unanswered,
                  signal, userSet>>
  BY DEF slotVars, vendorVars, frameworkVars
<1>2. /\ th' \in [Thread -> Frame]
      /\ th'[t].pc = "reply" /\ th'[t].m = th[t].m /\ th'[t].s = th[t].s
      /\ th'[t].id = th[t].id
      /\ OthersStay(t)
  BY GotoFrame DEF PC, OthersStay
<1>3. TypeOK'
  BY <1>1, <1>2 DEF TypeOK, BridgeTypeOK
<1>4. SlotMatches'
  BY <1>1 DEF SlotMatches, Issued
<1>5. th[t].m \in AllMethods /\ th[t].m \notin Operations
  BY DEF At
<1>6. QED
  BY <1>1, <1>2, <1>3, <1>4, <1>5, MethodMoves

\* enroll or authenticate is accepted or refused.
LEMMA StartOrRefuseKeeps ==
  ASSUME IInv, NEW t \in Thread, NEW m \in Operations, At(t, m, "hidl"),
         StartOrRefuse(t),
         UNCHANGED <<slotVars, pending, bound, vuser, sess, calls, unanswered, userSet>>
  PROVE  IInv'
<1> USE DEF IInv, Core
<1>1. th[t].m \in AllMethods /\ th[t].m \in Operations
  BY DEF At, AllMethods, Operations
<1>2. MethodOK(th[t])
  BY <1>1, MethodFrame
<1>3. UNCHANGED <<mMode, mCb>>
  BY DEF slotVars
<1>4. CASE /\ VendorStart(th[t].id)
           /\ signal' = [signal EXCEPT ![th[t].id] = "held"]
           /\ Return(t)
  <2>1. th[t].id \in Id /\ th[t].id \in 0..MaxCalls
    BY <1>2 DEF MethodOK, TypeOK, Id, Frame
  <2>2. evq' \in Seq(Event) /\ vop' \in 0..MaxCalls
    <3>1. [on |-> "onError", arg |-> "any", id |-> vop] \in Event
      BY DEF TypeOK, Event, Handler, Arg, Args
    <3>2. evq \in Seq(Event)
      BY DEF TypeOK, BridgeTypeOK
    <3>3. vop' = th[t].id /\ (evq' = evq \/
            evq' = Append(evq, [on |-> "onError", arg |-> "any", id |-> vop]))
      BY <1>4 DEF VendorStart
    <3>4. Append(evq, [on |-> "onError", arg |-> "any", id |-> vop]) \in Seq(Event)
      BY <3>1, <3>2, EventQueued
    <3>5. QED
      BY <2>1, <3>2, <3>3, <3>4
  <2>3. /\ signal' \in [Id -> {"none", "held", "used"}]
        /\ \A i \in Id : signal'[i] # "none" <=>
                          \/ signal[i] # "none"
                          \/ i = th[t].id /\ th[t].m \in Operations
    BY <1>1, <1>4, <2>1 DEF TypeOK
  <2>4. TypeOK'
    BY <1>3, <1>4, <2>2, <2>3, ReturnFrame DEF TypeOK, BridgeTypeOK
  <2>5. QED
    BY <1>1, <1>3, <1>4, <2>3, <2>4, MethodReturns
<1>5. CASE Goto(t, "end", "error") /\ UNCHANGED <<vop, evq, signal>>
  <2>1. /\ th' \in [Thread -> Frame]
        /\ th'[t].pc = "end" /\ th'[t].m = th[t].m /\ th'[t].s = th[t].s
        /\ th'[t].id = th[t].id
        /\ OthersStay(t)
    BY <1>5, GotoFrame DEF PC, SessionCall, OthersStay
  <2>2. TypeOK'
    BY <1>3, <1>5, <2>1 DEF TypeOK, BridgeTypeOK
  <2>3. SlotMatches'
    BY <1>3 DEF SlotMatches, Issued
  <2>4. QED
    BY <1>1, <1>3, <1>5, <2>1, <2>2, <2>3, MethodMoves
<1>6. QED
  BY <1>4, <1>5 DEF StartOrRefuse

LEMMA EnumerateKeeps ==
  ASSUME IInv, NEW t \in Thread, At(t, "enumerateEnrollments", "hidl"),
         evq' \in Seq(Event), Return(t),
         UNCHANGED <<slotVars, pending, bound, vendorVars, frameworkVars>>
  PROVE  IInv'
<1> USE DEF IInv, Core
<1>1. UNCHANGED <<mMode, mCb, pending, bound, vop, vuser, sess, calls, unanswered,
                  signal, userSet>>
  BY DEF slotVars, vendorVars, frameworkVars
<1>2. TypeOK'
  BY <1>1, ReturnFrame DEF TypeOK, BridgeTypeOK
<1>3. th[t].m \in AllMethods /\ th[t].m \notin Operations
  BY DEF At, AllMethods, Operations
<1>4. QED
  BY <1>1, <1>2, <1>3, MethodReturns

\* The locked end of an operation, in whichever method it comes.
LEMMA EndKeeps ==
  ASSUME IInv, NEW t \in Thread, End(t)
  PROVE  IInv'
<1> USE DEF IInv, Core
<1>1. /\ mMode' = "kNone" /\ mCb' = None
      /\ UNCHANGED <<evq, pending, bound, vop, vuser, sess, calls, unanswered,
                     signal, userSet>>
  BY DEF End, EndOperation, vendorVars, frameworkVars
<1>2. CallsGrow
  BY <1>1, CallsUnchanged
<1>3. /\ SlotMatches' /\ ResultMatchesOperation' /\ HistoryOK'
      /\ ClosedNotInstalled'
  BY <1>1, <1>2, ResultKept, BridgeAssumption
     DEF SlotMatches, HistoryOK, ClosedNotInstalled
<1>4. ASSUME OthersStay(t) PROVE \A u \in Thread \ {t} : FrameOK(th[u])'
  <2> SUFFICES ASSUME NEW u \in Thread \ {t} PROVE FrameOK(th[u])'
    OBVIOUS
  <2>1. th[u].m = "close" => mCb' # th[u].s
    BY <1>1, BridgeAssumption
       DEF ThreadsOK, FrameOK, Idle, MethodOK, CancelOK, CloseOK, ConstructorOK,
           AllMethods
  <2>2. QED
    BY <1>1, <1>2, <1>4, <2>1, OthersOK DEF OthersStay
<1>5. CASE th[t].m = "cancel"
  <2>1. th' \in [Thread -> Frame] /\ th'[t] = Idle /\ OthersStay(t)
    BY <1>5, ReturnFrame DEF End, OthersStay
  <2>2. TypeOK'
    BY <1>1, <2>1 DEF TypeOK, BridgeTypeOK, OpMode
  <2>3. ThreadsOK'
    BY <1>4, <2>1 DEF ThreadsOK, FrameOK
  <2>4. OneCallPerSession'
    BY <2>1, OneCallKept DEF Holds, Idle
  <2>5. NoSilentReturn'
    BY <1>1, <1>5, <2>1 DEF NoSilentReturn, Running, OthersStay
  <2>6. QED
    BY <1>3, <2>2, <2>3, <2>4, <2>5
<1>6. CASE th[t].m = "close"
  <2>1. Goto(t, "reply", "sessionClosed")
    BY <1>6 DEF End
  <2>2. /\ th' \in [Thread -> Frame]
        /\ th'[t].pc = "reply" /\ th'[t].m = th[t].m /\ th'[t].s = th[t].s
        /\ th'[t].id = th[t].id
        /\ OthersStay(t)
    BY <2>1, GotoFrame DEF PC, SessionCall, OthersStay
  <2>3. TypeOK'
    BY <1>1, <2>2 DEF TypeOK, BridgeTypeOK, OpMode
  <2>4. CloseOK(th[t])
    BY <1>6 DEF ThreadsOK, FrameOK, Idle, MethodOK, CancelOK, CloseOK,
                ConstructorOK, AllMethods
  <2>5. CloseOK(th[t])'
    BY <1>1, <2>2, <2>4, BridgeAssumption DEF CloseOK
  <2>6. ThreadsOK'
    BY <1>4, <2>2, <2>5 DEF ThreadsOK, FrameOK
  <2>7. OneCallPerSession'
    BY <1>6, <2>2, OneCallKept DEF Holds
  <2>8. NoSilentReturn'
    BY <1>1, <2>2 DEF NoSilentReturn, Running, OthersStay
  <2>9. QED
    BY <1>3, <2>3, <2>6, <2>7, <2>8
<1>7. CASE th[t].m \notin {"cancel", "close"}
  <2>1. Goto(t, "reply", "error") /\ th[t].pc = "end"
    BY <1>7 DEF End
  <2>2. th[t].m \in AllMethods
    BY <1>7, <2>1 DEF ThreadsOK, FrameOK, Idle, MethodOK, CancelOK, CloseOK,
                      ConstructorOK
  <2>3. /\ th' \in [Thread -> Frame]
        /\ th'[t].pc = "reply" /\ th'[t].m = th[t].m /\ th'[t].s = th[t].s
        /\ th'[t].id = th[t].id /\ th'[t].say = "error"
        /\ OthersStay(t)
    BY <2>1, GotoFrame DEF PC, SessionCall, OthersStay
  <2>4. TypeOK'
    BY <1>1, <2>3 DEF TypeOK, BridgeTypeOK, OpMode
  <2>5. QED
    BY <1>1, <1>3, <2>2, <2>3, <2>4, MethodMoves
<1>8. QED
  BY <1>5, <1>6, <1>7

\* The call a method or a close ends with.
LEMMA ReplyKeeps ==
  ASSUME IInv, NEW t \in Thread, Reply(t)
  PROVE  IInv'
<1> USE DEF IInv, Core
<1>1. /\ UNCHANGED <<mMode, mCb, evq, pending, bound, vop, vuser, calls, signal,
                     userSet>>
      /\ unanswered' \subseteq unanswered
      /\ Return(t) /\ th[t].pc = "reply"
  BY DEF Reply, Receive, bridgeVars, vendorVars
<1>2. th' \in [Thread -> Frame] /\ th'[t] = Idle /\ OthersStay(t)
  BY <1>1, ReturnFrame DEF OthersStay
<1>3. CallsGrow
  BY <1>1, CallsUnchanged
<1>4. SlotMatches' /\ ResultMatchesOperation' /\ HistoryOK'
  BY <1>1, <1>3, SlotKept, ResultKept DEF slotVars, HistoryOK
<1>5. OneCallPerSession'
  BY <1>2, OneCallKept DEF Holds, Idle
<1>6. MethodOK(th[t]) \/ CloseOK(th[t])
  BY <1>1 DEF ThreadsOK, FrameOK, Idle, CancelOK, ConstructorOK
<1>7. \A s \in Session : s # th[t].s => sess'[s] = sess[s]
  BY <1>6 DEF Reply, TypeOK, MethodOK, CloseOK
<1>8. TypeOK'
  BY <1>1, <1>2 DEF TypeOK, BridgeTypeOK, Reply
<1>9. ThreadsOK'
  <2>1. ASSUME NEW u \in Thread \ {t} PROVE FrameOK(th[u])'
    <3>1. Holds(th[u]) => th[u].s \in Session /\ th[u].s # th[t].s
      BY <1>6 DEF ThreadsOK, FrameOK, Idle, MethodOK, CancelOK, CloseOK,
                  ConstructorOK, OneCallPerSession, Holds, AllMethods
    <3>2. QED
      BY <1>1, <1>2, <1>3, <1>7, <3>1, OthersOK DEF OthersStay
  <2>2. QED
    BY <1>2, <2>1 DEF ThreadsOK, FrameOK
<1>10. ClosedNotInstalled'
  <2>1. CASE MethodOK(th[t])
    <3>1. sess' = sess
      BY <2>1 DEF Reply, MethodOK, AllMethods
    <3>2. QED
      BY <1>1, <3>1 DEF ClosedNotInstalled
  <2>2. CASE CloseOK(th[t])
    BY <1>1, <1>7, <2>2 DEF ClosedNotInstalled, CloseOK
  <2>3. QED
    BY <1>6, <2>1, <2>2
<1>11. NoSilentReturn'
  <2> SUFFICES ASSUME NEW i \in unanswered', calls[i].m \in Operations,
                      ~Running(i)'
               PROVE  signal[i] # "none"
    BY <1>1 DEF NoSilentReturn, Operations
  <2>1. CASE ~Running(i)
    BY <1>1, <2>1 DEF NoSilentReturn, Operations
  <2>2. CASE Running(i)
    <3>1. i = th[t].id /\ i \in 1..Len(calls)
      BY <1>1, <1>2, <2>2 DEF Running, OthersStay, HistoryOK
    <3>2. MethodOK(th[t])
      BY <1>6, <3>1 DEF CloseOK
    <3>3. th[t].say = "error" /\ calls[i].s = th[t].s
      BY <1>1, <3>1, <3>2 DEF MethodOK
    <3>4. "error" \in Answers[calls[i].m]
      BY DEF Answers, Operations, AllMethods
    <3>5. QED
      BY <3>3, <3>4 DEF Reply, Receive
  <2>3. QED
    BY <2>1, <2>2
<1>12. QED
  BY <1>4, <1>5, <1>8, <1>9, <1>10, <1>11

-----------------------------------------------------------------------------
(* Sessions open and close; operations are cancelled.                      *)

LEMMA CreateSessionKeeps ==
  ASSUME IInv, NEW t \in Thread, NEW s \in Session, CreateSession(t, s)
  PROVE  IInv'
<1> USE DEF IInv, Core
<1>1. /\ UNCHANGED <<mMode, mCb, evq, pending, vop, vuser, calls, unanswered,
                     signal, userSet>>
      /\ sess[s] = "new" /\ th[t] = Idle
      /\ \A u \in Thread : th[u].s = s => th[u].m = "cancel"
  BY DEF CreateSession, MayCreate, MayCall, bridgeVars, vendorVars
<1>2. CallsGrow
  BY <1>1, CallsUnchanged
<1>3. SlotMatches' /\ ResultMatchesOperation' /\ HistoryOK'
  BY <1>1, <1>2, SlotKept, ResultKept DEF slotVars, HistoryOK
<1>4. CASE th' = th /\ sess' = [sess EXCEPT ![s] = "open"] /\ bound' \in BOOLEAN
  <2>1. TypeOK'
    BY <1>1, <1>4 DEF TypeOK, BridgeTypeOK
  <2>2. ASSUME NEW u \in Thread PROVE FrameOK(th[u])'
    <3>1. Holds(th[u]) => sess'[th[u].s] = sess[th[u].s]
      BY <1>1, <1>4 DEF TypeOK, Holds
    <3>2. QED
      BY <1>1, <1>2, <1>4, <3>1, OthersOK
  <2>3. ClosedNotInstalled'
    BY <1>1, <1>4 DEF ClosedNotInstalled, TypeOK
  <2>4. OneCallPerSession' /\ NoSilentReturn'
    BY <1>1, <1>4 DEF OneCallPerSession, Holds, NoSilentReturn, Running
  <2>5. QED
    BY <1>3, <2>1, <2>2, <2>3, <2>4 DEF ThreadsOK
<1>5. CASE /\ Run(t, "createSession", s, 0, "setActiveUser", "error")
           /\ sess' = sess /\ bound' \in BOOLEAN
  <2>1. /\ th' \in [Thread -> Frame]
        /\ th'[t].pc = "setActiveUser" /\ th'[t].m = "createSession"
        /\ th'[t].s = s /\ th'[t].id = 0
        /\ OthersStay(t)
    <3>1. /\ "createSession" \in Activity /\ "setActiveUser" \in PC
          /\ "error" \in SessionCall /\ 0 \in 0..MaxCalls
      BY BridgeAssumption DEF Activity, PC, SessionCall
    <3>2. QED
      BY <1>5, <3>1, RunFrame DEF OthersStay
  <2>2. TypeOK'
    BY <1>1, <1>5, <2>1 DEF TypeOK, BridgeTypeOK
  <2>3. ConstructorOK(th[t])'
    BY <1>1, <1>5, <2>1 DEF ConstructorOK
  <2>4. ASSUME NEW u \in Thread \ {t} PROVE FrameOK(th[u])'
    BY <1>1, <1>2, <1>5, <2>1, OthersOK DEF OthersStay
  <2>5. OneCallPerSession'
    BY <1>1, <2>1, OneCallKept DEF Holds
  <2>6. ClosedNotInstalled'
    BY <1>1, <1>5 DEF ClosedNotInstalled
  <2>7. NoSilentReturn'
    BY <1>1, <1>5, <2>1 DEF NoSilentReturn, Running, OthersStay, Idle, HistoryOK
  <2>8. QED
    BY <1>3, <2>2, <2>3, <2>4, <2>5, <2>6, <2>7 DEF ThreadsOK, FrameOK
<1>6. QED
  BY <1>4, <1>5 DEF CreateSession, GetSeh, TypeOK

LEMMA SetActiveUserKeeps ==
  ASSUME IInv, NEW t \in Thread, SetActiveUser(t)
  PROVE  IInv'
<1> USE DEF IInv, Core
<1>1. ConstructorOK(th[t])
  BY DEF SetActiveUser, At, ThreadsOK, FrameOK, Idle, MethodOK, CancelOK, CloseOK,
         AllMethods
<1>2. /\ UNCHANGED <<mMode, mCb, evq, pending, bound, vop, calls, unanswered, signal>>
      /\ sess' = [sess EXCEPT ![th[t].s] = "open"]
      /\ Return(t)
      /\ vuser' \in Session \cup {None} /\ userSet' \subseteq Session
  BY <1>1 DEF SetActiveUser, bridgeVars, TypeOK, ConstructorOK
<1>3. CallsGrow
  BY <1>2, CallsUnchanged
<1>4. th' \in [Thread -> Frame] /\ th'[t] = Idle /\ OthersStay(t)
  BY <1>2, ReturnFrame DEF OthersStay
<1>5. TypeOK'
  BY <1>2, <1>4 DEF TypeOK, BridgeTypeOK
<1>6. SlotMatches' /\ ResultMatchesOperation' /\ HistoryOK'
  BY <1>2, <1>3, SlotKept, ResultKept DEF slotVars, HistoryOK
<1>7. ASSUME NEW u \in Thread \ {t} PROVE FrameOK(th[u])'
  <2>1. Holds(th[u]) => th[u].s # th[t].s /\ th[u].s \in Session
    BY <1>1 DEF OneCallPerSession, Holds, ConstructorOK, ThreadsOK, FrameOK, Idle,
                MethodOK, CancelOK, CloseOK
  <2>2. Holds(th[u]) => sess'[th[u].s] = sess[th[u].s]
    BY <1>2, <2>1 DEF TypeOK
  <2>3. QED
    BY <1>2, <1>3, <1>4, <2>2, OthersOK DEF OthersStay
<1>8. ThreadsOK'
  BY <1>4, <1>7 DEF ThreadsOK, FrameOK
<1>9. OneCallPerSession'
  BY <1>4, OneCallKept DEF Holds, Idle
<1>10. ClosedNotInstalled'
  BY <1>1, <1>2 DEF ClosedNotInstalled, TypeOK, ConstructorOK
<1>11. NoSilentReturn'
  BY <1>1, <1>2, <1>4 DEF NoSilentReturn, Running, OthersStay, ConstructorOK, HistoryOK
<1>12. QED
  BY <1>5, <1>6, <1>8, <1>9, <1>10, <1>11

LEMMA CloseKeeps ==
  ASSUME IInv, NEW t \in Thread, NEW s \in Session, Close(t, s)
  PROVE  IInv'
<1> USE DEF IInv, Core
<1>1. /\ UNCHANGED <<mMode, mCb, evq, pending, bound, vop, vuser, calls,
                     unanswered, signal, userSet>>
      /\ th[t] = Idle
      /\ \A u \in Thread : th[u].s = s => th[u].m = "cancel"
      /\ sess' = [sess EXCEPT ![s] = "closing"]
      /\ Run(t, "close", s, 0, "end", "error")
  BY DEF Close, MayCall, bridgeVars, vendorVars
<1>2. CallsGrow
  BY <1>1, CallsUnchanged
<1>3. SlotMatches' /\ ResultMatchesOperation' /\ HistoryOK'
  BY <1>1, <1>2, SlotKept, ResultKept DEF slotVars, HistoryOK
<1>4. /\ th' \in [Thread -> Frame]
      /\ th'[t].pc = "end" /\ th'[t].m = "close" /\ th'[t].s = s /\ th'[t].id = 0
      /\ OthersStay(t)
  <2>1. /\ "close" \in Activity /\ "end" \in PC /\ "error" \in SessionCall
        /\ 0 \in 0..MaxCalls
    BY BridgeAssumption DEF Activity, PC, SessionCall
  <2>2. QED
    BY <1>1, <2>1, RunFrame DEF OthersStay
<1>5. TypeOK'
  BY <1>1, <1>4 DEF TypeOK, BridgeTypeOK
<1>6. CloseOK(th[t])'
  BY <1>1, <1>4 DEF CloseOK, TypeOK
<1>7. ASSUME NEW u \in Thread \ {t} PROVE FrameOK(th[u])'
  <2>1. Holds(th[u]) => sess'[th[u].s] = sess[th[u].s]
    BY <1>1 DEF TypeOK, Holds
  <2>2. QED
    BY <1>1, <1>2, <1>4, <2>1, OthersOK DEF OthersStay
<1>8. OneCallPerSession'
  BY <1>1, <1>4, OneCallKept DEF Holds
<1>9. ClosedNotInstalled'
  BY <1>1 DEF ClosedNotInstalled, TypeOK
<1>10. NoSilentReturn'
  BY <1>1, <1>4 DEF NoSilentReturn, Running, OthersStay, Idle, HistoryOK
<1>11. QED
  BY <1>3, <1>4, <1>5, <1>6, <1>7, <1>8, <1>9, <1>10 DEF ThreadsOK, FrameOK

LEMMA CancelKeeps ==
  ASSUME IInv, NEW t \in Thread, NEW i \in Id, Cancel(t, i)
  PROVE  IInv'
<1> USE DEF IInv, Core
<1>1. /\ UNCHANGED <<mMode, mCb, evq, pending, bound, vop, vuser, sess, calls,
                     unanswered, userSet>>
      /\ th[t] = Idle /\ signal[i] = "held"
      /\ signal' = [signal EXCEPT ![i] = "used"]
      /\ Run(t, "cancel", calls[i].s, i, "hidl", "error")
  BY DEF Cancel, bridgeVars, vendorVars
<1>2. CallsGrow
  BY <1>1, CallsUnchanged
<1>3. i \in 1..Len(calls) /\ i \in 0..MaxCalls /\ calls[i] \in Call
  BY <1>1 DEF HistoryOK, Id, TypeOK
<1>4. \A j \in Id : signal'[j] # "none" <=> signal[j] # "none"
  BY <1>1 DEF TypeOK
<1>5. SlotMatches' /\ ResultMatchesOperation' /\ HistoryOK' /\ ClosedNotInstalled'
  BY <1>1, <1>2, <1>4, SlotKept, ResultKept DEF slotVars, HistoryOK, ClosedNotInstalled
<1>6. /\ th' \in [Thread -> Frame]
      /\ th'[t].pc = "hidl" /\ th'[t].m = "cancel" /\ th'[t].id = i
      /\ OthersStay(t)
  <2>1. /\ "cancel" \in Activity /\ "hidl" \in PC /\ "error" \in SessionCall
        /\ calls[i].s \in Session
    BY <1>3 DEF Activity, PC, SessionCall, Call
  <2>2. QED
    BY <1>1, <1>3, <2>1, RunFrame DEF OthersStay
<1>7. TypeOK'
  BY <1>1, <1>6 DEF TypeOK, BridgeTypeOK
<1>8. CancelOK(th[t])'
  BY <1>1, <1>3, <1>6 DEF CancelOK
<1>9. ASSUME NEW u \in Thread \ {t} PROVE FrameOK(th[u])'
  BY <1>1, <1>2, <1>6, OthersOK DEF OthersStay
<1>10. OneCallPerSession'
  BY <1>6, OneCallKept DEF Holds
<1>11. NoSilentReturn'
  <2> SUFFICES ASSUME NEW j \in unanswered, calls[j].m \in Operations, ~Running(j)'
               PROVE  signal'[j] # "none"
    BY <1>1 DEF NoSilentReturn, Operations
  <2>1. ~Running(j) /\ j \in Id
    BY <1>1, <1>6 DEF Running, OthersStay, Idle, TypeOK, HistoryOK
  <2>2. QED
    BY <1>4, <2>1 DEF NoSilentReturn, Operations
<1>12. QED
  BY <1>5, <1>6, <1>7, <1>8, <1>9, <1>10, <1>11 DEF ThreadsOK, FrameOK

\* Every event of an operation is an event.
LEMMA EventTypes ==
  ASSUME NEW id \in 0..MaxCalls, NEW on \in Handler, NEW arg \in Args[on]
  PROVE  [on |-> on, arg |-> arg, id |-> id] \in Event
BY DEF Event, Arg

LEMMA CancelHidlKeeps ==
  ASSUME IInv, NEW t \in Thread, CancelHidl(t)
  PROVE  IInv'
<1> USE DEF IInv, Core
<1>1. /\ UNCHANGED <<mMode, mCb, pending, bound, vuser, sess, calls, unanswered,
                     signal, userSet>>
      /\ th[t].m = "cancel" /\ th[t].pc = "hidl"
      /\ VendorCancel
  BY DEF CancelHidl, At, slotVars, frameworkVars
<1>2. evq' \in Seq(Event) /\ vop' \in 0..MaxCalls
  <2>1. [on |-> "onError", arg |-> "any", id |-> vop] \in Event
    BY EventTypes DEF TypeOK, Handler, Args
  <2>2. evq \in Seq(Event) /\ vop \in 0..MaxCalls /\ 0 \in 0..MaxCalls
    BY BridgeAssumption DEF TypeOK, BridgeTypeOK
  <2>3. \/ evq' = evq /\ vop' = vop
        \/ vop' = 0 /\ evq' = Append(evq, [on |-> "onError", arg |-> "any", id |-> vop])
    BY <1>1 DEF VendorCancel
  <2>4. Append(evq, [on |-> "onError", arg |-> "any", id |-> vop]) \in Seq(Event)
    BY <2>1, <2>2, EventQueued
  <2>5. HIDE DEF IInv, Core
  <2>6. QED
    BY <2>2, <2>3, <2>4
<1>3. CallsGrow
  BY <1>1, CallsUnchanged
<1>4. SlotMatches' /\ ResultMatchesOperation' /\ HistoryOK' /\ ClosedNotInstalled'
  BY <1>1, <1>3, SlotKept, ResultKept DEF slotVars, HistoryOK, ClosedNotInstalled
<1>5. CancelOK(th[t])
  BY <1>1 DEF ThreadsOK, FrameOK, Idle, MethodOK, CloseOK, ConstructorOK, AllMethods
<1>6. /\ th' \in [Thread -> Frame] /\ OthersStay(t)
      /\ \/ th'[t] = Idle
         \/ th'[t].m = "cancel" /\ th'[t].pc = "end" /\ th'[t].id = th[t].id
  <2>1. CASE Return(t)
    BY <2>1, ReturnFrame DEF OthersStay
  <2>2. CASE Goto(t, "end", "error")
    <3>1. "end" \in PC /\ "error" \in SessionCall
      BY DEF PC, SessionCall
    <3>2. QED
      BY <1>1, <2>2, <3>1, GotoFrame DEF OthersStay
  <2>3. QED
    BY <2>1, <2>2 DEF CancelHidl
<1>7. TypeOK'
  BY <1>1, <1>2, <1>6 DEF TypeOK, BridgeTypeOK
<1>8. FrameOK(th[t])'
  BY <1>1, <1>5, <1>6 DEF FrameOK, CancelOK
<1>9. ASSUME NEW u \in Thread \ {t} PROVE FrameOK(th[u])'
  BY <1>1, <1>3, <1>6, OthersOK DEF OthersStay
<1>10. OneCallPerSession'
  BY <1>6, OneCallKept DEF Holds, Idle
<1>11. NoSilentReturn'
  BY <1>1, <1>6 DEF NoSilentReturn, Running, OthersStay
<1>12. QED
  BY <1>4, <1>7, <1>8, <1>9, <1>10, <1>11 DEF ThreadsOK

-----------------------------------------------------------------------------
(* The bridge and the vendor HAL.                                          *)

\* What every handler does: the call it chooses fits the mode it read.
LEMMA HandlerChooses ==
  ASSUME TypeOK, Handle
  PROVE  /\ UNCHANGED slotVars
         /\ evq' \in Seq(Event)
         /\ pending' \in Message \cup {None}
         /\ pending' # None =>
              /\ pending'.to = mCb /\ mCb # None
              /\ pending'.on = "onEnrollResult" => mMode = "kEnroll"
              /\ pending'.on = "onAuthenticated" => mMode = "kAuthenticate"
              /\ pending'.on = "onError" => mMode # "kNone"
<1>1. PICK on \in Handler, admitted \in BOOLEAN, call \in SessionCall :
        /\ Forward(on, admitted, call)
        /\ on = "onEnrollResult" /\ admitted => mMode = "kEnroll"
        /\ on = "onAuthenticated" /\ admitted => mMode = "kAuthenticate"
        /\ on = "onError" /\ admitted => mMode # "kNone"
  <2> USE DEF Handler, SessionCall
  <2>1. CASE OnEnrollResult
    BY <2>1 DEF OnEnrollResult
  <2>2. CASE OnAuthenticated
    BY <2>2 DEF OnAuthenticated
  <2>3. CASE OnAcquired
    BY <2>3 DEF OnAcquired
  <2>4. CASE OnError
    BY <2>4 DEF OnError
  <2>5. CASE OnRemoved
    BY <2>5 DEF OnRemoved
  <2>6. CASE OnEnumerate
    BY <2>6 DEF OnEnumerate
  <2>7. CASE OnLockoutChanged
    BY <2>7 DEF OnLockoutChanged
  <2>8. CASE SehOnPreviewUpdated
    BY <2>8 DEF SehOnPreviewUpdated
  <2>9. CASE SehOnAuthenticated
    BY <2>9 DEF SehOnAuthenticated
  <2>10. CASE SehOnPreviewFrame
    BY <2>10 DEF SehOnPreviewFrame
  <2>11. QED
    BY <2>1, <2>2, <2>3, <2>4, <2>5, <2>6, <2>7, <2>8, <2>9, <2>10 DEF Handle
<1>2. evq \in Seq(Event) /\ evq # <<>>
  BY <1>1 DEF Forward, TypeOK, BridgeTypeOK
<1>3. Head(evq) \in Event /\ Tail(evq) \in Seq(Event)
  BY <1>2
<1>4. [to |-> mCb, call |-> call, on |-> on, id |-> Head(evq).id] \in Message
        \/ mCb = None
  BY <1>1, <1>3 DEF TypeOK, BridgeTypeOK, Message, Event
<1>5. QED
  BY <1>1, <1>3, <1>4 DEF Forward

LEMMA BridgeHandlesKeeps ==
  ASSUME IInv, BridgeHandles
  PROVE  IInv'
<1> USE DEF IInv, Core
<1>1. UNCHANGED <<mMode, mCb, bound, vop, vuser, sess, calls, unanswered, signal,
                  userSet, th>>
  BY HandlerChooses DEF BridgeHandles, slotVars, vendorVars, frameworkVars
<1>2. TypeOK'
  BY <1>1, HandlerChooses DEF BridgeHandles, TypeOK, BridgeTypeOK
<1>3. ResultMatchesOperation'
  <2> SUFFICES ASSUME pending' # None
               PROVE  ResultMatchesOperation'
    BY DEF ResultMatchesOperation
  <2>1. /\ pending'.to = mCb
        /\ pending'.on = "onEnrollResult" => mMode = "kEnroll"
        /\ pending'.on = "onAuthenticated" => mMode = "kAuthenticate"
        /\ pending'.on = "onError" => mMode # "kNone"
    BY HandlerChooses DEF BridgeHandles
  <2>2. mMode # "kNone" => mMode \in {"kEnroll", "kAuthenticate"}
    BY DEF SlotMatches, TypeOK, BridgeTypeOK, OpMode
  <2>3. QED
    BY <1>1, <2>1, <2>2 DEF ResultMatchesOperation, SlotMatches, Issued
<1>4. QED
  BY <1>1, <1>2, <1>3
     DEF ThreadsOK, FrameOK, MethodOK, CancelOK, CloseOK, ConstructorOK,
         OneCallPerSession, Holds, HistoryOK, SlotMatches, Issued,
         ClosedNotInstalled, NoSilentReturn, Running

LEMMA BridgeDeliversKeeps ==
  ASSUME IInv, BridgeDelivers
  PROVE  IInv'
<1> USE DEF IInv, Core
<1>1. /\ UNCHANGED <<mMode, mCb, evq, bound, vop, vuser, sess, calls, signal,
                     userSet, th>>
      /\ pending' = None /\ unanswered' \subseteq unanswered
  BY DEF BridgeDelivers, Deliver, Receive, vendorVars
<1>2. TypeOK'
  BY <1>1 DEF TypeOK, BridgeTypeOK
<1>3. QED
  BY <1>1, <1>2
     DEF ThreadsOK, FrameOK, MethodOK, CancelOK, CloseOK, ConstructorOK,
         OneCallPerSession, Holds, HistoryOK, SlotMatches, Issued,
         ResultMatchesOperation, ClosedNotInstalled, NoSilentReturn, Running

\* The vendor HAL appends reports of a call to the queue.
LEMMA VendorKeeps ==
  ASSUME IInv, VendorReport \/ VendorFinish \/ VendorLockout
  PROVE  IInv'
<1> USE DEF IInv, Core
<1>1. /\ UNCHANGED <<mMode, mCb, pending, bound, vuser, sess, calls, unanswered,
                     signal, userSet, th>>
      /\ vop' \in {vop, 0}
  BY DEF VendorReport, VendorFinish, VendorLockout, slotVars, frameworkVars
<1>2. /\ evq \in Seq(Event) /\ vop \in 0..MaxCalls /\ 0 \in 0..MaxCalls
  BY BridgeAssumption DEF TypeOK, BridgeTypeOK
<1>3. evq' \in Seq(Event)
  <2>1. CASE VendorReport
    <3>1. ASSUME NEW on \in {"onAcquired", "sehOnPreviewUpdated"}
          PROVE  Events(on, {"any"}, vop) \subseteq Event
      BY <1>2, EventTypes DEF Events, Handler, Args
    <3>2. Events("onEnrollResult", {"more"}, vop) \subseteq Event
      BY <1>2, EventTypes DEF Events, Handler, Args
    <3>3. ASSUME NEW on \in {"onAuthenticated", "sehOnAuthenticated"}
          PROVE  Events(on, {"noMatch"}, vop) \subseteq Event
      BY <1>2, EventTypes DEF Events, Handler, Args
    <3>4. Events("sehOnPreviewFrame", {"good"}, vop) \subseteq Event
      BY <1>2, EventTypes DEF Events, Handler, Args
    <3>5. PICK e \in Event : evq' = Append(evq, e)
      BY <2>1, <3>1, <3>2, <3>3, <3>4 DEF VendorReport
    <3>6. QED
      BY <1>2, <3>5, EventQueued
  <2>2. CASE VendorFinish
    <3>1. Events("onError", {"any"}, vop) \subseteq Event
      BY <1>2, EventTypes DEF Events, Handler, Args
    <3>2. Events("onEnrollResult", {"last"}, vop) \subseteq Event
      BY <1>2, EventTypes DEF Events, Handler, Args
    <3>3. ASSUME NEW on \in {"onAuthenticated", "sehOnAuthenticated"}
          PROVE  Events(on, {"shortToken", "fullToken"}, vop) \subseteq Event
      BY <1>2, EventTypes DEF Events, Handler, Args
    <3>4. PICK r : evq' = evq \o r /\ r \in {<<e>> : e \in Event}
                                       \cup {<<b, x>> : b \in Event, x \in Event}
      BY <2>2, <3>1, <3>2, <3>3 DEF VendorFinish
    <3>5. r \in Seq(Event)
      <4>1. \A e \in Event : <<e>> \in Seq(Event)
        OBVIOUS
      <4>2. \A b, x \in Event : <<b, x>> \in Seq(Event)
        OBVIOUS
      <4>3. QED
        BY <3>4, <4>1, <4>2
    <3>6. QED
      BY <1>2, <3>4, <3>5
  <2>3. CASE VendorLockout
    <3>1. Events("onLockoutChanged", {"zero", "max", "other"}, 0) \subseteq Event
      BY <1>2, EventTypes DEF Events, Handler, Args
    <3>2. PICK e \in Event : evq' = Append(evq, e)
      BY <2>3, <3>1 DEF VendorLockout
    <3>3. QED
      BY <1>2, <3>2, EventQueued
  <2>4. QED
    BY <2>1, <2>2, <2>3
<1>4. TypeOK'
  BY <1>1, <1>2, <1>3 DEF TypeOK, BridgeTypeOK
<1>5. QED
  BY <1>1, <1>4, QueueMoves

-----------------------------------------------------------------------------
(* The steps of Next.                                                      *)

LEMMA CallKeeps ==
  ASSUME IInv, NEW t \in Thread, NEW s \in Session, FrameworkCalls(t, s)
  PROVE  IInv'
<1> USE DEF AllMethods, Operations, SessionCall, GetSeh
<1>1. bound \in BOOLEAN
  BY DEF IInv, Core, TypeOK
<1>2. CASE CreateSession(t, s)
  BY <1>2, CreateSessionKeeps
<1>3. CASE Enroll(t, s)
  <2>1. IssueStep(t, s, "enroll")
    BY <1>3 DEF Enroll, IssueStep
  <2>2. QED
    BY <2>1, IssueKeeps
<1>4. CASE Authenticate(t, s)
  <2>1. IssueStep(t, s, "authenticate")
    BY <1>4 DEF Authenticate, IssueStep
  <2>2. QED
    BY <2>1, IssueKeeps
<1>5. ASSUME NEW m \in AllMethods \ Operations,
             NEW pc \in {"begin", "hidl", "reply"}, NEW say \in SessionCall,
             IssueBound(t, s, m, pc, say)
      PROVE  IInv'
  <2>1. IssueStep(t, s, m)
    BY <1>5 DEF IssueBound, IssueStep
  <2>2. QED
    BY <2>1, IssueKeeps
<1>6. CASE InvalidateAuthenticatorId(t, s)
  <2>1. IssueStep(t, s, "invalidateAuthenticatorId")
    BY <1>6 DEF InvalidateAuthenticatorId, IssueStep
  <2>2. QED
    BY <2>1, IssueKeeps
<1>7. CASE DetectInteraction(t, s)
  <2>1. IssueStep(t, s, "detectInteraction")
    BY <1>1, <1>7 DEF DetectInteraction, IssueStep
  <2>2. QED
    BY <2>1, IssueKeeps
<1>8. CASE Close(t, s)
  BY <1>8, CloseKeeps
<1>9. QED
  BY <1>2, <1>3, <1>4, <1>5, <1>6, <1>7, <1>8
     DEF FrameworkCalls, GenerateChallenge, EnumerateEnrollments, RemoveEnrollments,
         RevokeChallenge, GetFeatures, SetFeature, GetAuthenticatorId, ResetLockout

LEMMA VendorTakesTypes ==
  ASSUME TypeOK, NEW on \in {"onEnumerate", "onRemoved"}, NEW id \in 0..MaxCalls,
         VendorTakes(on, id)
  PROVE  evq' \in Seq(Event)
<1>1. [on |-> on, arg |-> "any", id |-> id] \in Event
  BY EventTypes DEF Handler, Args
<1>2. evq \in Seq(Event)
  BY DEF TypeOK, BridgeTypeOK
<1>3. QED
  BY <1>1, <1>2, EventQueued DEF VendorTakes

LEMMA ThreadKeeps ==
  ASSUME IInv, NEW t \in Thread, ThreadSteps(t)
  PROVE  IInv'
<1> USE DEF AllMethods, Operations
<1>1. TypeOK /\ th[t].id \in 0..MaxCalls /\ evq \in Seq(Event)
  BY DEF IInv, Core, TypeOK, Frame, BridgeTypeOK
<1>2. CASE EnrollHidl(t) \/ AuthenticateHidl(t)
  BY <1>2, StartOrRefuseKeeps DEF EnrollHidl, AuthenticateHidl
<1>3. ASSUME NEW m \in AllMethods \ Operations, NEW says \in SUBSET SessionCall,
             Answer(t, m, says)
      PROVE  IInv'
  <2>1. UNCHANGED <<slotVars, pending, bound, vendorVars, frameworkVars, evq>>
    BY <1>3 DEF Answer, bridgeVars, slotVars
  <2>2. QED
    BY <1>1, <1>3, <2>1, AnswerKeeps DEF Answer
<1>4. CASE RemoveHidl(t)
  <2>1. evq' \in Seq(Event)
    BY <1>1, <1>4, VendorTakesTypes DEF RemoveHidl
  <2>2. "enrollmentsRemoved" \in SessionCall
    BY DEF SessionCall
  <2>3. QED
    BY <1>4, <2>1, <2>2, AnswerKeeps DEF RemoveHidl
<1>5. CASE EnumerateHidl(t)
  <2>1. evq' \in Seq(Event)
    BY <1>1, <1>5, VendorTakesTypes DEF EnumerateHidl
  <2>2. QED
    BY <1>5, <2>1, EnumerateKeeps DEF EnumerateHidl
<1>6. CASE GenerateChallengeHidl(t)
  BY <1>3, <1>6 DEF GenerateChallengeHidl, SessionCall
<1>7. CASE RevokeChallengeHidl(t)
  BY <1>3, <1>7 DEF RevokeChallengeHidl, SessionCall
<1>8. CASE SetFeatureHidl(t)
  BY <1>3, <1>8 DEF SetFeatureHidl, SessionCall
<1>9. CASE GetAuthenticatorIdHidl(t)
  BY <1>3, <1>9 DEF GetAuthenticatorIdHidl, SessionCall
<1>10. CASE InvalidateAuthenticatorIdHidl(t)
  BY <1>3, <1>10 DEF InvalidateAuthenticatorIdHidl, SessionCall
<1>11. CASE ResetLockoutHidl(t)
  BY <1>3, <1>11 DEF ResetLockoutHidl, SessionCall
<1>12. QED
  BY <1>2, <1>4, <1>5, <1>6, <1>7, <1>8, <1>9, <1>10, <1>11,
     SetActiveUserKeeps, BeginKeeps, CancelHidlKeeps, EndKeeps, ReplyKeeps
     DEF ThreadSteps

LEMMA InitIInv == Init => IInv
<1> SUFFICES ASSUME Init PROVE IInv
  OBVIOUS
<1>1. th \in [Thread -> Frame] /\ \A t \in Thread : th[t] = Idle
  BY IdleIsFrame DEF Init
<1>2. evq \in Seq(Event) /\ calls \in Seq(Call) /\ Len(calls) = 0
  BY DEF Init, BridgeInit
<1>3. TypeOK
  <2>1. BridgeTypeOK
    BY <1>2 DEF Init, BridgeInit, BridgeTypeOK, OpMode
  <2>2. Len(calls) <= MaxCalls /\ vop \in 0..MaxCalls
    BY <1>2, BridgeAssumption DEF Init
  <2>3. sess \in [Session -> {"new", "open", "closing", "closed"}]
    BY DEF Init
  <2>4. signal \in [Id -> {"none", "held", "used"}]
    BY DEF Init
  <2>5. QED
    BY <1>1, <1>2, <2>1, <2>2, <2>3, <2>4 DEF Init, TypeOK
<1>4. ThreadsOK /\ OneCallPerSession
  BY <1>1 DEF ThreadsOK, FrameOK, OneCallPerSession, Holds, Idle
<1>5. HistoryOK
  BY DEF Init, HistoryOK
<1>6. SlotMatches /\ ResultMatchesOperation /\ ClosedNotInstalled /\ NoSilentReturn
  BY DEF Init, BridgeInit, SlotMatches, ResultMatchesOperation, ClosedNotInstalled,
         NoSilentReturn
<1>7. QED
  BY <1>3, <1>4, <1>5, <1>6 DEF IInv, Core

LEMMA NextIInv == IInv /\ [Next]_vars => IInv'
<1> SUFFICES ASSUME IInv, [Next]_vars PROVE IInv'
  OBVIOUS
<1>1. CASE UNCHANGED vars
  <2>1. UNCHANGED <<mMode, mCb, evq, pending, bound, vop, vuser, sess, calls,
                    unanswered, signal, userSet, th>>
    BY <1>1 DEF vars
  <2>2. TypeOK'
    BY <2>1 DEF IInv, Core, TypeOK, BridgeTypeOK
  <2>3. QED
    BY <2>1, <2>2, QueueMoves
<1>2. CASE \E t \in Thread, s \in Session : FrameworkCalls(t, s)
  BY <1>2, CallKeeps
<1>3. CASE \E t \in Thread, i \in Id : Cancel(t, i)
  BY <1>3, CancelKeeps
<1>4. CASE \E t \in Thread : ThreadSteps(t)
  BY <1>4, ThreadKeeps
<1>5. QED
  BY <1>1, <1>2, <1>3, <1>4, BridgeHandlesKeeps, BridgeDeliversKeeps, VendorKeeps
     DEF Next

-----------------------------------------------------------------------------
(* The call a handler has chosen, and who chooses it.                      *)

\* Only a handler chooses a call; every other step leaves it or makes it.
LEMMA OnlyHandlersChoose ==
  ASSUME [Next]_vars
  PROVE  BridgeHandles \/ pending' \in {pending, None}
<1> USE DEF bridgeVars
<1>1. CASE UNCHANGED vars
  BY <1>1 DEF vars
<1>2. ASSUME NEW t \in Thread, NEW s \in Session, FrameworkCalls(t, s)
      PROVE  pending' = pending
  <2>1. CASE CreateSession(t, s)
    BY <2>1 DEF CreateSession
  <2>2. CASE Close(t, s)
    BY <2>2 DEF Close
  <2>3. CASE \E m \in AllMethods : Issue(t, s, m)
    BY <2>3 DEF Issue
  <2>4. QED
    BY <1>2, <2>1, <2>2, <2>3
       DEF FrameworkCalls, AllMethods, Enroll, Authenticate, IssueBound,
           GenerateChallenge, EnumerateEnrollments, RemoveEnrollments,
           RevokeChallenge, GetFeatures, SetFeature, GetAuthenticatorId,
           InvalidateAuthenticatorId, ResetLockout, DetectInteraction
<1>3. ASSUME NEW t \in Thread, ThreadSteps(t) PROVE pending' = pending
  BY <1>3 DEF ThreadSteps, SetActiveUser, Begin, EnrollHidl, AuthenticateHidl, Answer,
     GenerateChallengeHidl, EnumerateHidl, RemoveHidl, RevokeChallengeHidl,
     SetFeatureHidl, GetAuthenticatorIdHidl, InvalidateAuthenticatorIdHidl,
     ResetLockoutHidl, CancelHidl, End, Reply
<1>4. ASSUME NEW t \in Thread, NEW i \in Id, Cancel(t, i) PROVE pending' = pending
  BY <1>4 DEF Cancel
<1>5. CASE BridgeDelivers
  BY <1>5 DEF BridgeDelivers, Deliver
<1>6. CASE VendorReport \/ VendorFinish \/ VendorLockout
  BY <1>6 DEF VendorReport, VendorFinish, VendorLockout
<1>7. QED
  BY <1>1, <1>2, <1>3, <1>4, <1>5, <1>6 DEF Next

-----------------------------------------------------------------------------
(* The slot and the operation it is held for.                              *)

\* SlotIsOfOperation made inductive: the thread that still asks for the operation
\* is at its vendor call, or at the end that gives the slot back.
Asks(r) == r.m \in Operations /\ r.pc \in {"hidl", "end"}

AskedFor(i) == \E t \in Thread : th[t].id = i /\ Asks(th[t])

SlotHeld ==
  mMode # "kNone" =>
    \E i \in 1..Len(calls) : /\ calls[i].s = mCb
                             /\ ModeOf(calls[i].m) = mMode
                             /\ signal[i] # "none" \/ AskedFor(i)

\* A step that leaves the slot keeps the operation it is held for, when the
\* signals handed out stay and so do the threads that ask for one.
LEMMA HeldKept ==
  ASSUME TypeOK, SlotHeld, CallsGrow, UNCHANGED <<mMode, mCb>>,
         \A i \in 1..Len(calls) :
           signal[i] # "none" \/ AskedFor(i) => signal'[i] # "none" \/ AskedFor(i)'
  PROVE  SlotHeld'
<1> SUFFICES ASSUME mMode' # "kNone" PROVE SlotHeld'
  BY DEF SlotHeld
<1>1. PICK i \in 1..Len(calls) : /\ calls[i].s = mCb
                                 /\ ModeOf(calls[i].m) = mMode
                                 /\ signal[i] # "none" \/ AskedFor(i)
  BY DEF SlotHeld
<1>2. i \in 1..Len(calls') /\ calls'[i] = calls[i]
  BY DEF CallsGrow, TypeOK
<1>3. calls'[i].s = mCb' /\ ModeOf(calls'[i].m) = mMode'
  BY <1>1, <1>2
<1>4. signal'[i] # "none" \/ AskedFor(i)'
  BY <1>1
<1>5. QED
  BY <1>2, <1>3, <1>4 DEF SlotHeld

\* Such is a step of a thread that does not ask for an operation.
LEMMA HeldByOthers ==
  ASSUME TypeOK, SlotHeld, CallsGrow, NEW t \in Thread, OthersStay(t), ~Asks(th[t]),
         UNCHANGED <<mMode, mCb>>,
         \A i \in 1..Len(calls) : signal[i] # "none" => signal'[i] # "none"
  PROVE  SlotHeld'
<1>1. ASSUME NEW i \in 1..Len(calls), AskedFor(i) PROVE AskedFor(i)'
  BY <1>1 DEF AskedFor, OthersStay, Asks
<1>2. QED
  BY <1>1, HeldKept

LEMMA InId == ASSUME TypeOK, NEW i \in 1..Len(calls) PROVE i \in Id
<1>1. Len(calls) \in Nat /\ Len(calls) <= MaxCalls /\ MaxCalls \in Nat
  BY BridgeAssumption DEF TypeOK
<1>2. QED
  BY <1>1 DEF Id

LEMMA BeginHeld ==
  ASSUME IInv, NEW t \in Thread, Begin(t) PROVE SlotHeld'
<1>1. TypeOK /\ ThreadsOK
  BY DEF IInv, Core
<1>2. th[t].m \in AllMethods
  BY <1>1 DEF Begin, ThreadsOK, FrameOK, Idle, MethodOK, CancelOK, CloseOK, ConstructorOK
<1>3. MethodOK(th[t])
  BY <1>1, <1>2, MethodFrame
<1>4. /\ mMode' = ModeOf(th[t].m) /\ mCb' = th[t].s
      /\ Goto(t, "hidl", "error") /\ calls' = calls
  BY DEF Begin, BeginOperation, frameworkVars
<1>5. th'[t].pc = "hidl" /\ th'[t].m = th[t].m /\ th'[t].id = th[t].id
  BY <1>1, <1>4, GotoFrame DEF PC, SessionCall
<1>6. PICK i \in 1..Len(calls) : i = th[t].id
  BY <1>3 DEF MethodOK
<1>7. i \in 1..Len(calls') /\ calls'[i].s = mCb' /\ ModeOf(calls'[i].m) = mMode'
  BY <1>3, <1>4, <1>6 DEF MethodOK
<1>8. mMode' # "kNone" => AskedFor(i)'
  BY <1>4, <1>5, <1>6 DEF ModeOf, AskedFor, Asks, Operations
<1>9. QED
  BY <1>7, <1>8 DEF SlotHeld

LEMMA StartOrRefuseHeld ==
  ASSUME IInv, SlotHeld, NEW t \in Thread, EnrollHidl(t) \/ AuthenticateHidl(t)
  PROVE  SlotHeld'
<1>1. TypeOK /\ ThreadsOK
  BY DEF IInv, Core
<1>2. /\ th[t].m \in Operations /\ th[t].m \in AllMethods
      /\ StartOrRefuse(t) /\ UNCHANGED <<mMode, mCb, calls>>
  BY DEF EnrollHidl, AuthenticateHidl, At, Operations, AllMethods, slotVars
<1>3. MethodOK(th[t]) /\ CallsGrow
  BY <1>1, <1>2, MethodFrame, CallsUnchanged
<1>4. CASE signal' = [signal EXCEPT ![th[t].id] = "held"] /\ Return(t)
  <2>1. OthersStay(t)
    BY <1>1, <1>4, ReturnFrame DEF OthersStay
  <2>2. ASSUME NEW i \in 1..Len(calls)
        PROVE  signal'[i] = IF i = th[t].id THEN "held" ELSE signal[i]
    <3>1. i \in Id
      BY <1>1, InId
    <3>2. QED
      BY <1>1, <1>4, <3>1 DEF TypeOK
  <2>3. ASSUME NEW i \in 1..Len(calls), signal[i] # "none" \/ AskedFor(i)
        PROVE  signal'[i] # "none" \/ AskedFor(i)'
    BY <2>1, <2>2, <2>3 DEF AskedFor, OthersStay
  <2>4. QED
    BY <1>1, <1>2, <1>3, <2>3, HeldKept
<1>5. CASE Goto(t, "end", "error") /\ signal' = signal
  <2>1. /\ th'[t].pc = "end" /\ th'[t].m = th[t].m /\ th'[t].id = th[t].id
        /\ OthersStay(t)
    BY <1>1, <1>5, GotoFrame DEF PC, SessionCall, OthersStay
  <2>2. ASSUME NEW i \in 1..Len(calls), AskedFor(i) PROVE AskedFor(i)'
    BY <1>2, <2>1, <2>2 DEF AskedFor, Asks, OthersStay
  <2>3. QED
    BY <1>1, <1>2, <1>3, <1>5, <2>2, HeldKept
<1>6. QED
  BY <1>2, <1>4, <1>5 DEF StartOrRefuse

LEMMA CallHeld ==
  ASSUME IInv, SlotHeld, NEW t \in Thread, NEW s \in Session, FrameworkCalls(t, s)
  PROVE  SlotHeld'
<1>1. TypeOK
  BY DEF IInv, Core
<1>2. /\ th[t] = Idle /\ UNCHANGED <<mMode, mCb, signal>>
      /\ \/ calls' = calls
         \/ \E m \in AllMethods : calls' = Append(calls, [m |-> m, s |-> s])
      /\ th' = th \/ \E r : th' = [th EXCEPT ![t] = r]
  <2> USE DEF bridgeVars, Run
  <2>1. CASE CreateSession(t, s)
    BY <2>1 DEF CreateSession
  <2>2. CASE Close(t, s)
    BY <2>2 DEF Close
  <2>3. ASSUME NEW m \in AllMethods, Issue(t, s, m)
        PROVE  /\ th[t] = Idle /\ UNCHANGED <<mMode, mCb, signal>>
               /\ calls' = Append(calls, [m |-> m, s |-> s])
    BY <2>3 DEF Issue
  <2>4. CASE Enroll(t, s) \/ Authenticate(t, s) \/ DetectInteraction(t, s)
               \/ InvalidateAuthenticatorId(t, s)
    BY <2>3, <2>4 DEF Enroll, Authenticate, DetectInteraction,
                      InvalidateAuthenticatorId, AllMethods
  <2>5. ASSUME NEW m \in AllMethods, NEW pc, NEW say, IssueBound(t, s, m, pc, say)
        PROVE  /\ th[t] = Idle /\ UNCHANGED <<mMode, mCb, signal>>
               /\ calls' = Append(calls, [m |-> m, s |-> s])
               /\ th' = th \/ \E r : th' = [th EXCEPT ![t] = r]
    BY <2>3, <2>5 DEF IssueBound
  <2>6. QED
    BY <2>1, <2>2, <2>4, <2>5
       DEF FrameworkCalls, AllMethods, GenerateChallenge, EnumerateEnrollments,
           RemoveEnrollments, RevokeChallenge, GetFeatures, SetFeature,
           GetAuthenticatorId, ResetLockout
<1>3. CallsGrow
  <2>1. CASE calls' = calls
    BY <1>1, <2>1, CallsUnchanged
  <2>2. CASE \E m \in AllMethods : calls' = Append(calls, [m |-> m, s |-> s])
    <3>1. PICK c \in Call : calls' = Append(calls, c)
      BY <2>2 DEF Call
    <3>2. calls \in Seq(Call)
      BY <1>1 DEF TypeOK
    <3>3. QED
      BY <3>1, <3>2, AppendFacts DEF CallsGrow
  <2>3. QED
    BY <1>2, <2>1, <2>2
<1>4. OthersStay(t) /\ ~Asks(th[t])
  BY <1>1, <1>2 DEF OthersStay, Asks, Idle, Operations, TypeOK
<1>5. QED
  BY <1>1, <1>2, <1>3, <1>4, HeldByOthers

LEMMA CancelHeld ==
  ASSUME IInv, SlotHeld, NEW t \in Thread, NEW i \in Id, Cancel(t, i)
  PROVE  SlotHeld'
<1>1. TypeOK
  BY DEF IInv, Core
<1>2. /\ th[t] = Idle /\ UNCHANGED <<mMode, mCb, calls>>
      /\ signal' = [signal EXCEPT ![i] = "used"]
      /\ \E r : th' = [th EXCEPT ![t] = r]
  BY DEF Cancel, Run, bridgeVars
<1>3. OthersStay(t) /\ ~Asks(th[t]) /\ CallsGrow
  BY <1>1, <1>2, CallsUnchanged DEF OthersStay, Asks, Idle, Operations, TypeOK
<1>4. \A j \in 1..Len(calls) : signal[j] # "none" => signal'[j] # "none"
  <2>1. \A j \in 1..Len(calls) : j \in Id
    BY <1>1, InId
  <2>2. QED
    BY <1>1, <1>2, <2>1 DEF TypeOK
<1>5. QED
  BY <1>1, <1>2, <1>3, <1>4, HeldByOthers

LEMMA ThreadHeld ==
  ASSUME IInv, SlotHeld, NEW t \in Thread, ThreadSteps(t)
  PROVE  SlotHeld'
<1>1. TypeOK
  BY DEF IInv, Core
<1>2. CASE Begin(t)
  BY <1>2, BeginHeld
<1>3. CASE EnrollHidl(t) \/ AuthenticateHidl(t)
  BY <1>3, StartOrRefuseHeld
<1>4. CASE End(t)
  BY <1>4 DEF End, EndOperation, SlotHeld
<1>5. CASE ~(Begin(t) \/ EnrollHidl(t) \/ AuthenticateHidl(t) \/ End(t))
  <2>1. /\ UNCHANGED <<mMode, mCb, calls, signal>> /\ ~Asks(th[t])
        /\ Return(t) \/ \E pc \in PC : \E say : Goto(t, pc, say)
    BY <1>5 DEF ThreadSteps, SetActiveUser, Answer, GenerateChallengeHidl,
       EnumerateHidl, RemoveHidl, RevokeChallengeHidl, SetFeatureHidl,
       GetAuthenticatorIdHidl, InvalidateAuthenticatorIdHidl, ResetLockoutHidl,
       CancelHidl, Reply, At, Asks, Operations, PC, slotVars, bridgeVars, frameworkVars
  <2>2. OthersStay(t)
    BY <1>1, <2>1 DEF OthersStay, Return, Goto, TypeOK
  <2>3. QED
    BY <1>1, <2>1, <2>2, HeldByOthers, CallsUnchanged
<1>6. QED
  BY <1>2, <1>3, <1>4, <1>5

LEMMA NextHeld == IInv /\ SlotHeld /\ [Next]_vars => SlotHeld'
<1> SUFFICES ASSUME IInv, SlotHeld, [Next]_vars PROVE SlotHeld'
  OBVIOUS
<1>1. CASE UNCHANGED <<mMode, mCb, calls, signal, th>>
  BY <1>1 DEF SlotHeld, AskedFor
<1>2. CASE UNCHANGED vars \/ BridgeHandles \/ BridgeDelivers
             \/ VendorReport \/ VendorFinish \/ VendorLockout
  <2>1. UNCHANGED <<mMode, mCb, calls, signal, th>>
    BY <1>2, HandlerChooses
       DEF IInv, Core, vars, BridgeHandles, BridgeDelivers, Deliver, VendorReport,
           VendorFinish, VendorLockout, slotVars, frameworkVars
  <2>2. QED
    BY <1>1, <2>1
<1>3. QED
  BY <1>2, CallHeld, CancelHeld, ThreadHeld DEF Next

-----------------------------------------------------------------------------
(* The theorems.                                                           *)

\* The inductive invariant holds in every reachable state.
THEOREM InductiveInvariant == Spec => []IInv
BY InitIInv, NextIInv, PTL DEF Spec

\* Every variable keeps its type.
THEOREM TypeCorrect == Spec => []TypeOK
<1>1. IInv => TypeOK
  BY DEF IInv, Core
<1>2. QED
  BY <1>1, InductiveInvariant, PTL

\* Reports, base verdicts and errors reach only a session that asked for such an
\* operation (HidlCallbackBridge.cpp, the handlers that use snapshot).
THEOREM ResultsMatch == Spec => []ResultMatchesOperation
<1>1. IInv => ResultMatchesOperation
  BY DEF IInv
<1>2. QED
  BY <1>1, InductiveInvariant, PTL

\* The bridge holds no callback of a closed session (SamsungSession.cpp, close).
THEOREM ClosedIsForgotten == Spec => []ClosedNotInstalled
<1>1. IInv => ClosedNotInstalled
  BY DEF IInv
<1>2. QED
  BY <1>1, InductiveInvariant, PTL

\* A closed session is sent at most the one call that was chosen before it was
\* closed (HidlCallbackBridge.cpp, the handlers call with no lock held).
THEOREM NoCallAfterClose == Spec => NoNewCallToClosed
<1>1. ASSUME IInv, [Next]_vars, NEW s \in Session, sess[s] = "closed",
             pending' # None, pending'.to = s
      PROVE  pending' = pending
  <2>1. CASE BridgeHandles
    <3>1. pending'.to = mCb
      BY <1>1, <2>1, HandlerChooses DEF IInv, Core, BridgeHandles
    <3>2. mCb # s
      BY <1>1 DEF IInv, ClosedNotInstalled
    <3>3. QED
      BY <1>1, <3>1, <3>2
  <2>2. CASE pending' \in {pending, None}
    BY <1>1, <2>2
  <2>3. QED
    BY <1>1, <2>1, <2>2, OnlyHandlersChoose
<1>2. IInv /\ [Next]_vars =>
        [\A s \in Session :
           sess[s] = "closed" /\ pending' # None /\ pending'.to = s
             => pending' = pending]_vars
  BY <1>1
<1>3. QED
  BY <1>2, InductiveInvariant, PTL DEF Spec, NoNewCallToClosed

\* The slot is held only for an operation that was accepted or is still asked
\* for: a refused one gives it back (SamsungSession.cpp, enroll, authenticate).
THEOREM RefusedGivesBack == Spec => []SlotIsOfOperation
<1>1. Init => SlotHeld
  BY DEF Init, BridgeInit, SlotHeld
<1>2. IInv /\ SlotHeld => SlotIsOfOperation
  <2> SUFFICES ASSUME IInv, SlotHeld, mMode # "kNone" PROVE SlotIsOfOperation
    BY DEF SlotIsOfOperation
  <2>1. \A i : AskedFor(i) => Running(i)
    BY DEF AskedFor, Asks, Operations, Running
  <2>2. DOMAIN calls = 1..Len(calls)
    BY DEF IInv, Core, TypeOK
  <2>3. QED
    BY <2>1, <2>2 DEF SlotHeld, SlotIsOfOperation
<1>3. QED
  BY <1>1, <1>2, NextHeld, InductiveInvariant, PTL DEF Spec

\* No enroll or authenticate returns without an answer or a cancellation signal
\* (SamsungSession.cpp, enroll and authenticate).
THEOREM NeverSilent == Spec => []NoSilentReturn
<1>1. IInv => NoSilentReturn
  BY DEF IInv
<1>2. QED
  BY <1>1, InductiveInvariant, PTL
=============================================================================
