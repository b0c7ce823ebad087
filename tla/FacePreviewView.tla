--------------------------- MODULE FacePreviewView ---------------------------
(***************************************************************************)
(* The tap with its clients: the views that show the preview               *)
(* (FacePreviewView.java, one per process), and others, which call it as   *)
(* they like: repeatedly, on several threads, and with calls still waiting *)
(* for mLock when they die.  bindTap and unbindTap run on the view's UI    *)
(* thread and block in one call to the tap each; a call ends with          *)
(* RemoteException when the service that mTap refers to is gone.           *)
(***************************************************************************)
EXTENDS FacePreviewTap

CONSTANTS View,        \* the clients that are views
          MaxLives     \* bound on the lives of the service

ASSUME ViewAssumption == View \subseteq Client /\ MaxLives \in Nat

VARIABLES view,        \* each view: its step, its listeners so far, its mTap
          late,        \* the dead clients, not views, with calls not yet taken
          up,          \* the service runs
          life         \* the number of its current or last process

viewVars == <<view, late, up, life>>
vars == <<tapVars, viewVars>>

\* mTap is not null from binding to unbinding.  A view without a surface has
\* not been shown or is gone from the screen; one that is unbound has a surface
\* and no tap.
Step == {"noSurface", "unbound", "binding", "bound", "unbinding"}

TypeOK == /\ TapTypeOK
          /\ view \in [View -> [pc: Step, n: Nat, life: 0..MaxLives]]
          /\ late \subseteq died \ View
          /\ up \in BOOLEAN
          /\ life \in 0..MaxLives

Init == /\ TapInit
        /\ view = [v \in View |-> [pc |-> "noSurface", n |-> 0, life |-> 0]]
        /\ late = {}
        /\ up = FALSE
        /\ life = 0

mListener(v) == <<v, view[v].n>>

\* mTap refers to the running service.
Connected(v) == up /\ view[v].life = life

Goto(v, pc) == view' = [view EXCEPT ![v].pc = pc]

\* bindTap: without the service nothing is tried again before the next surface.
OnSurfaceTextureAvailable(v) ==
  /\ v \notin died /\ view[v].pc = "noSurface"
  /\ IF up THEN /\ <<v, view[v].n + 1>> \in Listener
                /\ view' = [view EXCEPT ![v] = [pc |-> "binding", n |-> @.n + 1,
                                                life |-> life]]
           ELSE Goto(v, "unbound")
  /\ UNCHANGED <<tapVars, late, up, life>>

\* The tap takes the call, of a client that may have died since.
BindTap(v) == /\ view[v].pc = "binding" /\ Connected(v)
              /\ RegisterListener(mListener(v))
              /\ Goto(v, IF v \in died THEN "noSurface" ELSE "bound")
              /\ UNCHANGED <<late, up, life>>

BindTapFails(v) == /\ view[v].pc = "binding" /\ ~Connected(v)
                   /\ Goto(v, "unbound")
                   /\ UNCHANGED <<tapVars, late, up, life>>

\* Mutant: only a surface that has shown a frame is unbound.
SurfaceDestroyedIfShown(v) ==
  /\ v \notin died /\ view[v].pc \in {"unbound", "bound"}
  /\ Goto(v, IF view[v].pc = "bound" /\ got[mListener(v)] # <<>>
               THEN "unbinding" ELSE "noSurface")
  /\ UNCHANGED <<tapVars, late, up, life>>

OnSurfaceTextureDestroyed(v) ==
  /\ v \notin died /\ view[v].pc \in {"unbound", "bound"}
  /\ Goto(v, IF view[v].pc = "bound" THEN "unbinding" ELSE "noSurface")
  /\ UNCHANGED <<tapVars, late, up, life>>

UnbindTap(v) == /\ view[v].pc = "unbinding" /\ Connected(v)
                /\ UnregisterListener(mListener(v))
                /\ Goto(v, "noSurface")
                /\ UNCHANGED <<late, up, life>>

UnbindTapFails(v) == /\ view[v].pc = "unbinding" /\ ~Connected(v)
                     /\ Goto(v, "noSurface")
                     /\ UNCHANGED <<tapVars, late, up, life>>

\* The process of the service (external: init starts it again).
ServiceStarts == /\ ~up /\ life < MaxLives
                 /\ up' = TRUE
                 /\ life' = life + 1
                 /\ UNCHANGED <<tapVars, view, late>>

ServiceDies == /\ up
               /\ up' = FALSE
               /\ mListeners' = {} /\ cookie' = [c \in Cookie |-> Fresh]
               /\ obits' = {} /\ late' = {}
               /\ todo' = {} /\ dead' = {} /\ freedRead' = FALSE
               /\ UNCHANGED <<frame, got, died, view, life>>

\* Calls of clients that are not views (external): a call made before the death
\* of its client is still taken.
OtherCalls ==
  \E l \in Listener : /\ up /\ l[1] \notin View
                      /\ l[1] \in late \/ Alive(l)
                      /\ RegisterListener(l) \/ UnregisterListener(l)
                      /\ UNCHANGED viewVars

OtherDies(v) == /\ v \notin View \cup died
                /\ ClientDies(v)
                /\ late' = IF up THEN late \cup {v} ELSE late
                /\ UNCHANGED <<view, up, life>>

\* The last call of a dead client has been taken.
LateCallsEnd(v) == /\ v \in late
                   /\ late' = late \ {v}
                   /\ UNCHANGED <<tapVars, view, up, life>>

ViewStep(v) == BindTap(v) \/ BindTapFails(v) \/ UnbindTap(v) \/ UnbindTapFails(v)

\* With the process go its surface and mTap; a call it has made is still taken.
ViewDies(v) == /\ v \notin died
               /\ ClientDies(v)
               /\ IF view[v].pc \in {"binding", "unbinding"} THEN UNCHANGED view
                                                           ELSE Goto(v, "noSurface")
               /\ UNCHANGED <<late, up, life>>

ViewEvent(v) == \/ OnSurfaceTextureAvailable(v)
                \/ OnSurfaceTextureDestroyed(v)
                \/ ViewDies(v)

Notification(c) == ObituaryTaken(c) \/ OnListenerDied(c) \/ OnListenerDiedRemoves(c)

Obituary(c) == Notification(c) \/ ObituaryUnheard(c)

Dispatching == (\E e \in todo : DispatchOnFrame(e)) \/ (\E b \in dead : DispatchRemoves(b))

TapStep == /\ \/ up /\ DispatchFrame
              \/ Dispatching
              \/ \E c \in Cookie : Obituary(c)
           /\ UNCHANGED viewVars

Next == \/ \E v \in View : ViewStep(v) \/ ViewEvent(v)
        \/ OtherCalls
        \/ \E v \in Client : OtherDies(v) \/ LateCallsEnd(v)
        \/ TapStep
        \/ ServiceStarts
        \/ ServiceDies

Spec == Init /\ [][Next]_vars

\* libbinder delivers the death notifications it was asked for, and the calls of
\* a dead client come to an end.  Nothing obliges a view to be shown, the vendor
\* HAL to send a frame, or a process to live.
FairSpec == /\ Spec
            /\ \A c \in Cookie : WF_vars(Notification(c) /\ UNCHANGED viewVars)
            /\ \A v \in Client : WF_vars(LateCallsEnd(v))

-----------------------------------------------------------------------------
\* The allocated cookies are those of the entries, one each, made for the
\* listener of the entry, and a listener has one entry: none leaks and none
\* dangles, although death notifications, failed frames and the listeners
\* themselves all remove entries (FacePreviewTap.h:50-53).
CookiesOwned ==
  /\ \A c \in Cookie : cookie[c].mem = "live" <=> \E e \in mListeners : e.cookie = c
  /\ \A e \in mListeners : cookie[e.cookie].l = e.l
  /\ \A e, f \in mListeners : e.cookie = f.cookie \/ e.l = f.l => e = f

\* Every entry of a living client, and every entry of a view, has its death
\* watched: its link stands, or its obituary is on the way and will find it.  No
\* removal ends the watch over an entry it leaves, and no link is lost between a
\* registration and a death that may come before it.  Only a repeated call of
\* another client, taken after its obituary, leaves an entry unwatched
\* (FacePreviewTap.cpp, registerListener and onListenerDied).
EntriesAreWatched ==
  \A e \in mListeners :
    \/ cookie[e.cookie].link \in {"linked", "sent", "running"}
    \/ e.l[1] \notin View /\ ~Alive(e.l) /\ e.l \in obits

\* A subscription of a living view is that of the view as it is now: no bind,
\* unbind, lost service or restart leaves one behind, which would have the view
\* drawn on by frames it no longer asked for (FacePreviewView.java, unbindTap).
SubscribedIsBound ==
  \A e \in mListeners :
    e.l[1] \in View /\ Alive(e.l) => /\ view[e.l[1]].pc \in {"bound", "unbinding"}
                                     /\ e.l = mListener(e.l[1])
                                     /\ Connected(e.l[1])

\* A listener is dropped only when it asked, died, or could not be handed a
\* frame, or when the whole service ends: no removal takes a bystander along
\* (FacePreviewTap.cpp, removeByBinder).  A notification that read a freed cookie
\* promises nothing.
LossHasCause ==
  [][\A e \in mListeners \ mListeners' :
       ~Alive(e.l) \/ e.l \in dead \/ UnregisterListener(e.l) \/ freedRead' \/ ~up']_vars

ListenerSet == INSTANCE ListenerSet WITH subs <- {e.l : e \in mListeners},
                                         due <- {e.l : e \in todo}

\* Each frame reaches, once and in order, only those that were subscribed when
\* the list was copied, whoever registers, leaves, dies or is removed during the
\* dispatch (FacePreviewTap.cpp, dispatchFrame).
ImplementsListenerSet == ListenerSet!SetSpec

\* An entry whose link was refused.
Unwatched(e) ==
  e.l[1] \notin View /\ e.l \in obits /\ cookie[e.cookie].link = "none"

\* No client that died stays subscribed, once all that die have died: its death
\* notification, a failed frame or the end of the service removes it for good,
\* even one whose registration was taken after its death, unless its link was
\* refused (FacePreviewTap.cpp, onListenerDied).  Without this exception "a
\* DeathRecipient cleans up listeners whose clients have died"
\* (FacePreviewTap.h:23-24) does not hold.
DeadEventuallyRemoved == <>[](\A e \in mListeners : Alive(e.l) \/ Unwatched(e))

-----------------------------------------------------------------------------
\* The memory of a DeathCookie "must outlive the link", which the kernel holds
\* the pointer of (FacePreviewTap.h:51-52): no notification reads a freed one.
NoFreedCookieRead == ~freedRead
=============================================================================
