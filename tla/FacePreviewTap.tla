--------------------------- MODULE FacePreviewTap ---------------------------
(***************************************************************************)
(* The fan-out of preview frames: biometrics/face/aidl/FacePreviewTap.     *)
(*                                                                         *)
(* registerListener and removeByBinder run under mLock and are one step    *)
(* each.  Not under it: the reads of its cookie by a death notification    *)
(* (onListenerDied, and the comparisons of removeByBinder, which was       *)
(* handed a reference into the cookie), and a dispatch between the copy of *)
(* the list and the removal of the listeners it could not reach.           *)
(*                                                                         *)
(* The order of the vector is left out: any entry may follow any other.    *)
(***************************************************************************)
EXTENDS Naturals, Sequences

CONSTANTS Client,      \* the processes with listeners
          Listener,    \* <<v, n>>: the n-th listener client v makes
          Cookie,      \* the addresses of DeathCookies, none used twice
          MaxFrames    \* bound on the frames dispatched

ASSUME TapAssumption == Listener \subseteq Client \X Nat /\ MaxFrames \in Nat

VARIABLES mListeners,  \* the entries [l, cookie]
          cookie,      \* each cookie: its memory, its binder, its death link
          obits,       \* the listeners whose proxy has sent its obituaries
          todo,        \* dispatchFrame: the entries copied and not yet served
          dead,        \* dispatchFrame: the binders that failed
          frame,       \* the number of the frame dispatched last
          got,         \* history: the frames each listener got
          died,        \* the clients whose process died
          freedRead    \* history: the memory of a freed cookie was read

dispatchVars == <<todo, dead, frame, got>>
listVars == <<mListeners, cookie, obits>>
tapVars == <<listVars, dispatchVars, died, freedRead>>

Entry == [l: Listener, cookie: Cookie]

\* A link is sent when libbinder has taken the notification for delivery:
\* unlinkToDeath is too late from then on.  It runs once onListenerDied has
\* looked at the cookie.  No cookie is freed while it is linked.  A proxy that
\* has sent its obituaries takes no further link (external).
Fresh == [mem |-> "fresh", l |-> <<>>, link |-> "none"]
DeathCookie ==
  {Fresh} \cup [mem: {"live"}, l: Listener, link: {"none", "linked", "sent", "running"}]
          \cup [mem: {"freed"}, l: Listener, link: {"none", "sent", "running"}]

TapTypeOK == /\ mListeners \subseteq Entry
             /\ cookie \in [Cookie -> DeathCookie]
             /\ obits \subseteq Listener
             /\ todo \subseteq Entry
             /\ dead \subseteq Listener
             /\ frame \in 0..MaxFrames
             /\ got \in [Listener -> Seq(Nat)]
             /\ died \subseteq Client
             /\ freedRead \in BOOLEAN

Alive(l) == l[1] \notin died

\* The state of a new process.
NoListeners == /\ mListeners = {}
               /\ cookie = [c \in Cookie |-> Fresh]
               /\ obits = {}
               /\ todo = {}
               /\ dead = {}
               /\ freedRead = FALSE

TapInit == /\ NoListeners
           /\ frame = 0
           /\ got = [l \in Listener |-> <<>>]
           /\ died = {}

-----------------------------------------------------------------------------
FreshCookie == CHOOSE c \in Cookie : cookie[c] = Fresh

\* new DeathCookie, push_back; the link is what linkToDeath left.
Push(l, link) ==
  /\ \E c \in Cookie : cookie[c] = Fresh
  /\ mListeners' = mListeners \cup {[l |-> l, cookie |-> FreshCookie]}
  /\ cookie' = [cookie EXCEPT ![FreshCookie] =
                  [mem |-> "live", l |-> l, link |-> link]]

\* Mutant: linkToDeath is forgotten.
AddUnlinked(l) == Push(l, "none") /\ UNCHANGED obits

\* linkToDeath is refused (DEAD_OBJECT) by a proxy that has sent its obituaries;
\* its status is ignored and the entry is pushed unwatched.  A listener without
\* an entry may come with a new proxy, which accepts the link.
Add(l) == \/ Push(l, "linked") /\ obits' = obits \ {l}
          \/ l \in obits /\ Push(l, "none") /\ UNCHANGED obits

\* Mutant: a listener that is registered is registered once more.
RegisterTwice(l) == Add(l) /\ UNCHANGED <<dispatchVars, died, freedRead>>

RegisterListener(l) ==
  /\ IF \E e \in mListeners : e.l = l THEN UNCHANGED listVars ELSE Add(l)
  /\ UNCHANGED <<dispatchVars, died, freedRead>>

\* Mutant: listeners are told apart by their process, not by their binder.
OfClient(b) == {e \in mListeners : e.l[1] = b[1]}

Of(b) == {e \in mListeners : e.l = b}

\* Mutant: the cookie of an erased entry is not deleted.
EraseOnly(gone, ended) ==
  /\ mListeners' = mListeners \ gone
  /\ cookie' = [c \in Cookie |->
                  IF c \in ended THEN [cookie[c] EXCEPT !.link = "none"]
                                  ELSE cookie[c]]
  /\ UNCHANGED obits

\* Mutant: unlinkToDeath is forgotten.
EraseStillLinked(gone, ended) ==
  /\ mListeners' = mListeners \ gone
  /\ cookie' =
       [c \in Cookie |->
          [cookie[c] EXCEPT
             !.mem = IF \E e \in gone : e.cookie = c THEN "freed" ELSE @,
             !.link = IF c \in ended THEN "none" ELSE @]]
  /\ UNCHANGED obits

\* The loop body of removeByBinder for each entry in gone: unlinkToDeath,
\* delete, erase.  The notifications of the cookies in ended are over.
Erase(gone, ended) ==
  /\ mListeners' = mListeners \ gone
  /\ cookie' =
       [c \in Cookie |->
          LET k == cookie[c]
              own == \E e \in gone : e.cookie = c
          IN  [mem |-> IF own THEN "freed" ELSE k.mem, l |-> k.l,
               link |-> IF c \in ended \/ (own /\ k.link = "linked") THEN "none"
                        ELSE k.link]]
  /\ UNCHANGED obits

UnregisterListener(l) == Erase(Of(l), {}) /\ UNCHANGED <<dispatchVars, died, freedRead>>

-----------------------------------------------------------------------------
(* Death notifications.                                                    *)

\* A process dies (external); the proxy of one of its binders sends its
\* obituaries: libbinder takes the notification of the link for delivery.
ClientDies(v) == /\ died' = died \cup {v}
                 /\ UNCHANGED <<listVars, dispatchVars, freedRead>>

ObituaryTaken(c) == /\ cookie[c].link = "linked" /\ ~Alive(cookie[c].l)
                    /\ cookie' = [cookie EXCEPT ![c].link = "sent"]
                    /\ obits' = obits \cup {cookie[c].l}
                    /\ UNCHANGED <<mListeners, dispatchVars, died, freedRead>>

\* The link of c was undone when the kernel had already reported the death.
ObituaryUnheard(c) ==
  /\ cookie[c].mem = "freed" /\ ~Alive(cookie[c].l)
  /\ \A d \in Cookie : cookie[d].l = cookie[c].l => cookie[d].link # "linked"
  /\ obits' = obits \cup {cookie[c].l}
  /\ UNCHANGED <<mListeners, cookie, dispatchVars, died, freedRead>>

\* onListenerDied looks at c->tap.  In freed memory it may find anything, a
\* nullptr on which it returns included.
OnListenerDied(c) ==
  /\ cookie[c].link = "sent"
  /\ \/ cookie' = [cookie EXCEPT ![c].link = "running"]
     \/ cookie[c].mem = "freed" /\ cookie' = [cookie EXCEPT ![c].link = "none"]
  /\ freedRead' = (freedRead \/ cookie[c].mem = "freed")
  /\ UNCHANGED <<mListeners, obits, dispatchVars, died>>

\* removeByBinder(c->binder).  Every comparison reads the cookie: those that
\* follow the deletion of its own entry, or all if it was freed before, read
\* freed memory, and may match anything.
OnListenerDiedRemoves(c) ==
  /\ cookie[c].link = "running"
  /\ LET own == IF cookie[c].mem = "live" THEN Of(cookie[c].l) ELSE {}
     IN  \E after \in SUBSET (mListeners \ own) :
           /\ cookie[c].mem = "freed" => after = mListeners
           /\ \E matched \in SUBSET after : Erase(own \cup matched, {c})
           /\ freedRead' = (freedRead \/ after # {})
  /\ UNCHANGED <<dispatchVars, died>>

-----------------------------------------------------------------------------
(* dispatchFrame, on the hwbinder thread.                                  *)

\* The copy under mLock.
DispatchFrame == /\ todo = {} /\ dead = {}
                 /\ frame < MaxFrames
                 /\ frame' = frame + 1
                 /\ todo' = mListeners
                 /\ UNCHANGED <<listVars, dead, got, died, freedRead>>

\* dup fails and the listener is skipped; or onFrame is handed to the kernel; or
\* it fails, as it must once the process died, and may before.
DispatchOnFrame(e) ==
  /\ e \in todo
  /\ todo' = todo \ {e}
  /\ \/ UNCHANGED <<got, dead>>
     \/ Alive(e.l) /\ got' = [got EXCEPT ![e.l] = Append(@, frame)] /\ UNCHANGED dead
     \/ dead' = dead \cup {e.l} /\ UNCHANGED got
  /\ UNCHANGED <<listVars, frame, died, freedRead>>

DispatchRemoves(b) == /\ todo = {} /\ b \in dead
                      /\ dead' = dead \ {b}
                      /\ Erase(Of(b), {})
                      /\ UNCHANGED <<todo, frame, got, died, freedRead>>
=============================================================================
