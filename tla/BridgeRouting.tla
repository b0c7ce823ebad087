---------------------------- MODULE BridgeRouting ----------------------------
(***************************************************************************)
(* The callback bridge on its own, under the most general users: sessions  *)
(* that begin and end operations at any moment, on any thread, and a       *)
(* vendor service that sends any event.  The history variable log records  *)
(* the calls made on session callbacks.  The bridge implements EventRouter. *)
(***************************************************************************)
EXTENDS HidlCallbackBridge

CONSTANT MaxLog      \* bound on the events sent while the log is this long

ASSUME RoutingAssumption == MaxLog \in Nat

VARIABLE log         \* history: the calls made, in order

routingVars == <<mMode, mCb, evq, pending, log>>

RoutingTypeOK == BridgeTypeOK /\ log \in Seq(Message)

RoutingInit == BridgeInit /\ log = <<>>

\* The modes the sessions pass: none asks for kDetectInteraction.
SessionBegins == /\ \E mode \in OpMode \ {"kDetectInteraction"}, s \in Session :
                      BeginOperation(mode, s)
                 /\ UNCHANGED <<evq, pending, log>>

SessionEnds == EndOperation /\ UNCHANGED <<evq, pending, log>>

VendorSends == /\ Len(evq) < MaxQueue
               /\ Len(evq) + Len(log) < MaxLog
               /\ \E on \in Handler, id \in 0..MaxCalls :
                    \E arg \in Args[on] :
                      evq' = Append(evq, [on |-> on, arg |-> arg, id |-> id])
               /\ UNCHANGED <<mMode, mCb, pending, log>>

HandleEvent == Handle /\ UNCHANGED log

MakeCall == Deliver /\ log' = Append(log, pending)

RoutingNext == \/ SessionBegins
               \/ SessionEnds
               \/ VendorSends
               \/ HandleEvent
               \/ MakeCall

RoutingSpec == RoutingInit /\ [][RoutingNext]_routingVars

-----------------------------------------------------------------------------
(* A call counts as routed when the handler has chosen it: the locked read *)
(* of the slot is the moment the router acts.                              *)
Router == INSTANCE EventRouter
            WITH Mode <- OpMode,
                 Call <- SessionCall,
                 slot <- [mode |-> mMode, cb |-> mCb],
                 inbound <- evq,
                 routed <- IF pending = None THEN log ELSE Append(log, pending)

\* Every vendor event that concerns the mode in the slot is handed over exactly
\* once, in arrival order, to the session that held the slot together with that
\* mode, and every other one is dropped, however begins and ends of operations
\* fall between a handler's locked read and its call (HidlCallbackBridge.cpp,
\* snapshot and the handlers).
ImplementsRouter == Router!RouterSpec
=============================================================================
