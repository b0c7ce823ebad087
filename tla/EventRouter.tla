----------------------------- MODULE EventRouter -----------------------------
(***************************************************************************)
(* What the callback bridge promises, with nothing said of locks and       *)
(* threads: one slot holds an operation mode and a session callback.       *)
(* Vendor events arrive in a queue and are taken in order, each in one     *)
(* step: routed to the session that holds the slot at that moment when it  *)
(* concerns the mode held at that same moment, and dropped otherwise.      *)
(***************************************************************************)
EXTENDS Naturals, Sequences

CONSTANTS Session, None, Mode, Handler, Arg, Call, MaxCalls

VARIABLES slot,      \* [mode, cb]
          inbound,   \* the vendor events not yet routed
          routed     \* every call made on a session callback, in order

routerVars == <<slot, inbound, routed>>

Empty == [mode |-> "kNone", cb |-> None]

\* An enrollment report concerns an enrollment, the base verdict an
\* authentication, an error any operation in flight.  Three events are
\* never for a session.
Concerns(on, mode) ==
  /\ on \notin {"onAcquired", "sehOnPreviewUpdated", "sehOnPreviewFrame"}
  /\ on = "onEnrollResult" => mode = "kEnroll"
  /\ on = "onAuthenticated" => mode = "kAuthenticate"
  /\ on = "onError" => mode # "kNone"

\* Reports, verdicts and errors come out as what they are.
Fits(call, on) ==
  /\ call \in {"enrollmentProgress", "enrollmentComplete"} <=> on = "onEnrollResult"
  /\ call \in {"authenticationSucceeded", "authenticationFailed"}
       <=> on \in {"onAuthenticated", "sehOnAuthenticated"}
  /\ call = "error" <=> on = "onError"

RouterInit == slot = Empty /\ inbound = <<>> /\ routed = <<>>

Install == /\ \E mode \in Mode, s \in Session : slot' = [mode |-> mode, cb |-> s]
           /\ UNCHANGED <<inbound, routed>>

Clear == slot' = Empty /\ UNCHANGED <<inbound, routed>>

Arrive == /\ \E e \in [on: Handler, arg: Arg, id: 0..MaxCalls] :
               inbound' = Append(inbound, e)
          /\ UNCHANGED <<slot, routed>>

Wanted == slot.cb # None /\ Concerns(Head(inbound).on, slot.mode)

Drop == /\ inbound # <<>>
        /\ ~Wanted
        /\ inbound' = Tail(inbound)
        /\ UNCHANGED <<slot, routed>>

Route == /\ inbound # <<>>
         /\ Wanted
         /\ \E call \in Call :
              /\ Fits(call, Head(inbound).on)
              /\ routed' = Append(routed, [to |-> slot.cb, call |-> call,
                                           on |-> Head(inbound).on,
                                           id |-> Head(inbound).id])
         /\ inbound' = Tail(inbound)
         /\ UNCHANGED slot

RouterNext == Install \/ Clear \/ Arrive \/ Drop \/ Route

RouterSpec == RouterInit /\ [][RouterNext]_routerVars
=============================================================================
