------------------------- MODULE BridgeRoutingProofs -------------------------
(***************************************************************************)
(* The callback bridge implements EventRouter, for any sessions, bounds    *)
(* and events: the step that matters is a handler's locked read, where the *)
(* router routes or drops; the call made later is a stutter.               *)
(***************************************************************************)
EXTENDS BridgeRouting, TLAPS

-----------------------------------------------------------------------------
(* What a handler's step is.                                               *)

\* A call that fits event on, chosen on the callback the handler read.
Chooses(on, call) ==
  /\ Router!Fits(call, on)
  /\ pending' = [to |-> mCb, call |-> call, on |-> on, id |-> Head(evq).id]

\* A handler takes the first event and, when a session holds the slot with a
\* mode the event concerns, chooses a call.
HandlerStep ==
  /\ pending = None
  /\ evq # <<>>
  /\ evq' = Tail(evq)
  /\ UNCHANGED slotVars
  /\ IF mCb # None /\ Router!Concerns(Head(evq).on, mMode)
       THEN \E call \in SessionCall : Chooses(Head(evq).on, call)
       ELSE pending' = None

\* A handler that admits what concerns the mode it read takes such a step.
LEMMA ForwardIsHandlerStep ==
  ASSUME NEW on, NEW admitted, NEW call \in SessionCall,
         admitted <=> Router!Concerns(on, mMode),
         admitted => Router!Fits(call, on),
         Forward(on, admitted, call)
  PROVE  HandlerStep
BY DEF Forward, HandlerStep, Chooses

LEMMA HandleIsHandlerStep == ASSUME Handle PROVE HandlerStep
<1> USE ForwardIsHandlerStep DEF SessionCall, Router!Fits, Router!Concerns
<1>1. CASE OnEnrollResult
  BY <1>1 DEF OnEnrollResult
<1>2. CASE OnAuthenticated
  BY <1>2 DEF OnAuthenticated
<1>3. CASE OnAcquired
  BY <1>3 DEF OnAcquired
<1>4. CASE OnError
  BY <1>4 DEF OnError
<1>5. CASE OnRemoved
  BY <1>5 DEF OnRemoved
<1>6. CASE OnEnumerate
  BY <1>6 DEF OnEnumerate
<1>7. CASE OnLockoutChanged
  BY <1>7 DEF OnLockoutChanged
<1>8. CASE SehOnPreviewUpdated
  BY <1>8 DEF SehOnPreviewUpdated
<1>9. CASE SehOnAuthenticated
  BY <1>9 DEF SehOnAuthenticated
<1>10. CASE SehOnPreviewFrame
  BY <1>10 DEF SehOnPreviewFrame
<1>11. QED
  BY <1>1, <1>2, <1>3, <1>4, <1>5, <1>6, <1>7, <1>8, <1>9, <1>10 DEF Handle

\* The first event of a queue, and the rest of it.
LEMMA QueueParts ==
  ASSUME NEW q \in Seq(Event), q # <<>>
  PROVE  /\ Head(q) \in Event
         /\ Tail(q) \in Seq(Event)
OBVIOUS

\* The call a handler chose is a message, and so is not "no message".
LEMMA ChosenIsMessage ==
  ASSUME BridgeTypeOK, evq # <<>>, mCb # None,
         NEW call \in SessionCall, Chooses(Head(evq).on, call)
  PROVE  pending' \in Message /\ pending' # None
<1>1. Head(evq) \in Event
  BY QueueParts DEF BridgeTypeOK
<1>2. Head(evq).on \in Handler /\ Head(evq).id \in 0..MaxCalls
  BY <1>1 DEF Event
<1>3. mCb \in Session
  BY DEF BridgeTypeOK, Chooses
<1>4. pending' \in Message
  BY <1>2, <1>3 DEF Chooses, Message
<1>5. QED
  BY <1>4, NoneIsNoMessage

-----------------------------------------------------------------------------
(* Type correctness.                                                       *)

LEMMA MessageLogged ==
  ASSUME NEW q \in Seq(Message), NEW m \in Message PROVE Append(q, m) \in Seq(Message)
OBVIOUS

LEMMA EventQueued ==
  ASSUME NEW q \in Seq(Event), NEW e \in Event PROVE Append(q, e) \in Seq(Event)
OBVIOUS

\* An event the vendor sends is an event of the router too.
LEMMA VendorSendsEvent ==
  ASSUME VendorSends
  PROVE  \E e \in Event : evq' = Append(evq, e)
<1>1. PICK on \in Handler, id \in 0..MaxCalls :
        \E arg \in Args[on] : evq' = Append(evq, [on |-> on, arg |-> arg, id |-> id])
  BY DEF VendorSends
<1>2. PICK arg \in Args[on] : evq' = Append(evq, [on |-> on, arg |-> arg, id |-> id])
  BY <1>1
<1>3. arg \in Arg
  BY DEF Arg
<1>4. [on |-> on, arg |-> arg, id |-> id] \in Event
  BY <1>3 DEF Event
<1>5. QED
  BY <1>2, <1>4

LEMMA RoutingTypeInit == RoutingInit => RoutingTypeOK
BY DEF RoutingInit, RoutingTypeOK, BridgeInit, BridgeTypeOK, OpMode

LEMMA RoutingTypeStep == RoutingTypeOK /\ [RoutingNext]_routingVars => RoutingTypeOK'
<1> SUFFICES ASSUME RoutingTypeOK, [RoutingNext]_routingVars PROVE RoutingTypeOK'
  OBVIOUS
<1> USE DEF RoutingTypeOK, BridgeTypeOK
<1>1. CASE SessionBegins
  BY <1>1 DEF SessionBegins, BeginOperation
<1>2. CASE SessionEnds
  BY <1>2 DEF SessionEnds, EndOperation, OpMode
<1>3. CASE VendorSends
  <2>1. UNCHANGED <<mMode, mCb, pending, log>>
    BY <1>3 DEF VendorSends
  <2>2. evq' \in Seq(Event)
    BY <1>3, VendorSendsEvent, EventQueued
  <2>3. QED
    BY <2>1, <2>2
<1>4. CASE HandleEvent
  <2>1. HandlerStep /\ log' = log
    BY <1>4, HandleIsHandlerStep DEF HandleEvent
  <2>2. UNCHANGED <<mMode, mCb>> /\ evq' \in Seq(Event)
    BY <2>1, QueueParts DEF HandlerStep, slotVars
  <2>3. pending' \in Message \cup {None}
    BY <2>1, ChosenIsMessage DEF HandlerStep
  <2>4. QED
    BY <2>1, <2>2, <2>3
<1>5. CASE MakeCall
  BY <1>5, MessageLogged DEF MakeCall, Deliver
<1>6. CASE UNCHANGED routingVars
  BY <1>6 DEF routingVars
<1>7. QED
  BY <1>1, <1>2, <1>3, <1>4, <1>5, <1>6 DEF RoutingNext

\* The bridge keeps its types, whoever begins and ends operations and whatever
\* the vendor HAL sends; in particular a call is made on a session's callback
\* and never on a null one (HidlCallbackBridge.cpp, the checks of the handlers).
THEOREM RoutingTypeCorrect == RoutingSpec => []RoutingTypeOK
BY RoutingTypeInit, RoutingTypeStep, PTL DEF RoutingSpec

-----------------------------------------------------------------------------
(* The refinement.                                                         *)

\* The calls routed so far, as the refinement mapping counts them.
Routed == IF pending = None THEN log ELSE Append(log, pending)

LEMMA RefinementInit == RoutingInit => Router!RouterInit
BY DEF RoutingInit, BridgeInit, Router!RouterInit, Router!Empty

\* The locked read of a handler is the step in which the router acts.
LEMMA HandlerRefines ==
  ASSUME RoutingTypeOK, HandleEvent
  PROVE  Router!Drop \/ Router!Route
<1>1. HandlerStep /\ log' = log
  BY HandleIsHandlerStep DEF HandleEvent
<1>2. /\ pending = None /\ evq # <<>> /\ evq' = Tail(evq)
      /\ UNCHANGED <<mMode, mCb>>
  BY <1>1 DEF HandlerStep, slotVars
<1>3. CASE ~(mCb # None /\ Router!Concerns(Head(evq).on, mMode))
  <2>1. pending' = None
    BY <1>1, <1>3 DEF HandlerStep
  <2>2. QED
    BY <1>1, <1>2, <1>3, <2>1 DEF Router!Drop, Router!Wanted
<1>4. CASE mCb # None /\ Router!Concerns(Head(evq).on, mMode)
  <2>1. PICK call \in SessionCall : Chooses(Head(evq).on, call)
    BY <1>1, <1>4 DEF HandlerStep
  <2>2. pending' # None
    BY <1>2, <1>4, <2>1, ChosenIsMessage DEF RoutingTypeOK
  <2>3. Routed = log /\ Routed' = Append(log, pending')
    BY <1>1, <1>2, <2>2 DEF Routed
  <2>4. /\ Router!Fits(call, Head(evq).on)
        /\ Routed' = Append(Routed, [to |-> mCb, call |-> call,
                                     on |-> Head(evq).on, id |-> Head(evq).id])
    BY <2>1, <2>3 DEF Chooses
  <2>5. QED
    BY <1>2, <1>4, <2>4 DEF Router!Route, Router!Wanted, Routed
<1>5. QED
  BY <1>3, <1>4

\* The call itself: it was routed when it was chosen.
LEMMA CallStutters ==
  ASSUME MakeCall
  PROVE  UNCHANGED Router!routerVars
BY DEF MakeCall, Deliver, Router!routerVars

LEMMA RefinementStep ==
  RoutingTypeOK /\ [RoutingNext]_routingVars
    => [Router!RouterNext]_(Router!routerVars)
<1> SUFFICES ASSUME RoutingTypeOK, [RoutingNext]_routingVars
             PROVE  Router!RouterNext \/ UNCHANGED Router!routerVars
  OBVIOUS
<1>1. CASE SessionBegins
  <2>1. PICK mode \in OpMode \ {"kDetectInteraction"}, s \in Session : BeginOperation(mode, s)
    BY <1>1 DEF SessionBegins
  <2>2. UNCHANGED <<evq, pending, log>>
    BY <1>1 DEF SessionBegins
  <2>3. Router!Install
    BY <2>1, <2>2 DEF Router!Install, BeginOperation
  <2>4. QED
    BY <2>3 DEF Router!RouterNext
<1>2. CASE SessionEnds
  <2>1. Router!Clear
    BY <1>2 DEF SessionEnds, EndOperation, Router!Clear, Router!Empty
  <2>2. QED
    BY <2>1 DEF Router!RouterNext
<1>3. CASE VendorSends
  <2>1. \E e \in [on: Handler, arg: Arg, id: 0..MaxCalls] : evq' = Append(evq, e)
    BY <1>3, VendorSendsEvent DEF Event
  <2>2. UNCHANGED <<mMode, mCb, pending, log>>
    BY <1>3 DEF VendorSends
  <2>3. Router!Arrive
    BY <2>1, <2>2 DEF Router!Arrive
  <2>4. QED
    BY <2>3 DEF Router!RouterNext
<1>4. CASE HandleEvent
  BY <1>4, HandlerRefines DEF Router!RouterNext
<1>5. CASE MakeCall
  BY <1>5, CallStutters
<1>6. CASE UNCHANGED routingVars
  BY <1>6 DEF routingVars, Router!routerVars
<1>7. QED
  BY <1>1, <1>2, <1>3, <1>4, <1>5, <1>6 DEF RoutingNext

\* The bridge implements the router: for any sessions and any schedule, each
\* vendor event is handed over once, in order, to the session that held the slot
\* with a mode it concerns, or dropped if there was none (HidlCallbackBridge.cpp,
\* snapshot and the handlers).
THEOREM BridgeImplementsRouter == RoutingSpec => ImplementsRouter
<1>1. RoutingSpec => []RoutingTypeOK
  BY RoutingTypeCorrect
<1>2. QED
  BY <1>1, RefinementInit, RefinementStep, PTL
     DEF RoutingSpec, ImplementsRouter, Router!RouterSpec
=============================================================================
