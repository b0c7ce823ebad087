----------------------------- MODULE ListenerSet -----------------------------
(***************************************************************************)
(* What the preview tap promises its listeners, with nothing said of death *)
(* notifications, locks and copies: a frame is due to those subscribed at  *)
(* the moment it is published, and each of them gets it once, in the order *)
(* of publication, or misses it.  A listener that leaves while the frame   *)
(* is on its way may still get it.                                         *)
(***************************************************************************)
EXTENDS Naturals, Sequences

CONSTANT Listener

VARIABLES subs,      \* the listeners subscribed
          frame,     \* the number of the last frame published
          due,       \* those who have neither got nor missed it
          got        \* what each listener got, in order

setVars == <<subs, frame, due, got>>

SetInit == subs = {} /\ frame = 0 /\ due = {} /\ got = [l \in Listener |-> <<>>]

Subscribe(l) == subs' = subs \cup {l} /\ UNCHANGED <<frame, due, got>>

\* Asked for by the listener, or because its frames cannot be handed over.
Leave(gone) == subs' = subs \ gone /\ UNCHANGED <<frame, due, got>>

Publish == /\ due = {}
           /\ frame' = frame + 1
           /\ due' = subs
           /\ UNCHANGED <<subs, got>>

Get(l) == /\ l \in due
          /\ due' = due \ {l}
          /\ got' = [got EXCEPT ![l] = Append(@, frame)]
          /\ UNCHANGED <<subs, frame>>

Miss(l) == l \in due /\ due' = due \ {l} /\ UNCHANGED <<subs, frame, got>>

\* The service dies: nobody is subscribed and the frame is lost.
Crash == subs' = {} /\ due' = {} /\ UNCHANGED <<frame, got>>

SetNext == \/ \E l \in Listener : Subscribe(l) \/ Get(l) \/ Miss(l)
           \/ \E gone \in SUBSET Listener : Leave(gone)
           \/ Publish
           \/ Crash

SetSpec == SetInit /\ [][SetNext]_setVars
=============================================================================
