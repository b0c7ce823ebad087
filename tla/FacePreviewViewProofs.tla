------------------------ MODULE FacePreviewViewProofs ------------------------
(***************************************************************************)
(* The tap and its clients, for any number of views, other clients,        *)
(* listeners, cookies, frames and lives of the service.                    *)
(***************************************************************************)
EXTENDS FacePreviewView, TLAPS

\* A dispatch serves a listener once.
ServedOnce == \A e, f \in todo : e.l = f.l => e = f

\* Obituaries are of the dead.
SentOfDead ==
  /\ \A c \in Cookie : cookie[c].link \in {"sent", "running"} => ~Alive(cookie[c].l)
  /\ \A l \in obits : ~Alive(l)

TapInv ==
  TapTypeOK /\ CookiesOwned /\ EntriesAreWatched /\ ServedOnce /\ SentOfDead

\* A view that calls the tap, or may, has a listener to call it with.
OwnListener ==
  \A v \in View :
    view[v].pc \in {"binding", "bound", "unbinding"} => mListener(v) \in Listener

Views == SubscribedIsBound /\ OwnListener

\* The listeners the tap has come to know: no other has an obituary to send.
Known == obits \cup {cookie[c].l : c \in {d \in Cookie : cookie[d].mem # "fresh"}}

\* A view makes a listener for each bind, which is new to the tap when it takes
\* the call: its link cannot be refused.
UntriedIsNew ==
  \A v \in View, n \in Nat :
    n > view[v].n \/ (n = view[v].n /\ view[v].pc = "binding") => <<v, n>> \notin Known

Core == TypeOK /\ TapInv /\ Views

IInv == Core /\ UntriedIsNew

-----------------------------------------------------------------------------
(* What the two operations on the list do.                                 *)

LEMMA FreshIsFresh ==
  ASSUME \E c \in Cookie : cookie[c] = Fresh
  PROVE  FreshCookie \in Cookie /\ cookie[FreshCookie] = Fresh
BY DEF FreshCookie

\* A listener that has no entry gets one, with a cookie of its own.
LEMMA AddKeeps ==
  ASSUME TapTypeOK, CookiesOwned, EntriesAreWatched, SentOfDead, died' = died,
         NEW l \in Listener, \A e \in mListeners : e.l # l,
         l[1] \in View => l \notin obits, Add(l)
  PROVE  /\ mListeners' \subseteq Entry /\ cookie' \in [Cookie -> DeathCookie]
         /\ obits' \subseteq Listener
         /\ CookiesOwned' /\ EntriesAreWatched' /\ SentOfDead'
<1> DEFINE c == FreshCookie
           new == [l |-> l, cookie |-> c]
<1>1. PICK link \in {"none", "linked"} :
        /\ Push(l, link)
        /\ \/ link = "linked" /\ obits' = obits \ {l}
           \/ l \in obits /\ obits' = obits /\ link = "none"
  BY DEF Add
<1>2. c \in Cookie /\ cookie[c] = Fresh
  BY <1>1, FreshIsFresh DEF Push
<1>3. /\ mListeners' = mListeners \cup {new}
      /\ cookie' = [cookie EXCEPT ![c] = [mem |-> "live", l |-> l, link |-> link]]
  BY <1>1 DEF Push
<1>4. new \in Entry /\ new.l = l /\ new.cookie = c
  BY <1>2 DEF Entry
<1> HIDE DEF c, new
<1>5. /\ cookie'[c] = [mem |-> "live", l |-> l, link |-> link]
      /\ \A d \in Cookie : d # c => cookie'[d] = cookie[d]
  BY <1>2, <1>3 DEF TapTypeOK
<1>6. mListeners' \subseteq Entry /\ obits' \subseteq Listener
  BY <1>1, <1>3, <1>4 DEF TapTypeOK
<1>7. cookie' \in [Cookie -> DeathCookie]
  <2>1. [mem |-> "live", l |-> l, link |-> link] \in DeathCookie
    BY DEF DeathCookie
  <2> QED
    BY <1>3, <2>1 DEF TapTypeOK
<1>8. \A e \in mListeners : e.cookie # c /\ e.cookie \in Cookie
  BY <1>2 DEF TapTypeOK, Entry, CookiesOwned, Fresh
<1>9. CookiesOwned'
  <2>1. ASSUME NEW d \in Cookie
        PROVE  cookie'[d].mem = "live" <=> \E e \in mListeners' : e.cookie = d
    BY <1>3, <1>4, <1>5, <1>8 DEF CookiesOwned
  <2>2. ASSUME NEW e \in mListeners' PROVE cookie'[e.cookie].l = e.l
    BY <1>3, <1>4, <1>5, <1>8 DEF CookiesOwned
  <2>3. ASSUME NEW e \in mListeners', NEW f \in mListeners',
               e.cookie = f.cookie \/ e.l = f.l
        PROVE  e = f
    BY <1>3, <1>4, <1>8, <2>3 DEF CookiesOwned
  <2> QED
    BY <2>1, <2>2, <2>3 DEF CookiesOwned
<1>10. SentOfDead'
  BY <1>1, <1>5 DEF SentOfDead, Alive
<1>11. EntriesAreWatched'
  <2>1. ASSUME NEW e \in mListeners
        PROVE  \/ cookie'[e.cookie].link \in {"linked", "sent", "running"}
               \/ e.l[1] \notin View /\ e.l[1] \in died' /\ e.l \in obits'
    BY <1>1, <1>5, <1>8 DEF EntriesAreWatched, Alive
  <2>2. \/ cookie'[new.cookie].link = "linked"
        \/ new.l[1] \notin View /\ new.l[1] \in died' /\ new.l \in obits'
    BY <1>1, <1>4, <1>5 DEF SentOfDead, Alive
  <2> QED
    BY <1>3, <2>1, <2>2 DEF EntriesAreWatched, Alive
<1> QED
  BY <1>6, <1>7, <1>9, <1>10, <1>11

\* Whatever entries are erased, their cookies and only theirs are freed and no
\* longer linked, when the notifications that are over had no other entry.
LEMMA EraseKeeps ==
  ASSUME TapTypeOK, CookiesOwned, EntriesAreWatched, SentOfDead, died' = died,
         NEW gone \in SUBSET mListeners, NEW ended \in SUBSET Cookie,
         \A e \in mListeners \ gone : e.cookie \notin ended,
         Erase(gone, ended)
  PROVE  /\ mListeners' \subseteq Entry /\ cookie' \in [Cookie -> DeathCookie]
         /\ obits' \subseteq Listener
         /\ CookiesOwned' /\ EntriesAreWatched' /\ SentOfDead'
<1>1. mListeners' = mListeners \ gone /\ obits' = obits
  BY DEF Erase
<1> DEFINE own(c) == \E e \in gone : e.cookie = c
<1>2. /\ cookie' = [c \in Cookie |-> cookie'[c]]
      /\ \A c \in Cookie :
           cookie'[c] = [mem |-> IF own(c) THEN "freed" ELSE cookie[c].mem,
                         l |-> cookie[c].l,
                         link |-> IF c \in ended \/ (own(c) /\ cookie[c].link = "linked")
                                  THEN "none" ELSE cookie[c].link]
  BY DEF Erase
<1>3. \A c \in Cookie : own(c) => cookie[c].mem = "live"
  BY DEF CookiesOwned
<1> HIDE DEF own
<1>4. mListeners' \subseteq Entry /\ obits' \subseteq Listener
  BY <1>1 DEF TapTypeOK
<1>5. ASSUME NEW c \in Cookie PROVE cookie'[c] \in DeathCookie
  <2>1. CASE cookie[c] = Fresh
    <3>1. ~own(c)
      BY <1>3, <2>1 DEF Fresh
    <3>2. cookie'[c] = [mem |-> "fresh", l |-> <<>>, link |-> "none"]
      BY <1>2, <2>1, <3>1 DEF Fresh
    <3> QED
      BY <3>2 DEF DeathCookie, Fresh
  <2>2. CASE cookie[c] \in [mem: {"live"}, l: Listener,
                           link: {"none", "linked", "sent", "running"}]
    <3>1. cookie'[c] \in [mem: {"live"}, l: Listener,
                         link: {"none", "linked", "sent", "running"}]
          \/ cookie'[c] \in [mem: {"freed"}, l: Listener,
                            link: {"none", "sent", "running"}]
      BY <1>2, <2>2
    <3> QED
      BY <3>1 DEF DeathCookie
  <2>3. CASE cookie[c] \in [mem: {"freed"}, l: Listener, link: {"none", "sent", "running"}]
    <3>1. cookie'[c] \in [mem: {"freed"}, l: Listener, link: {"none", "sent", "running"}]
      BY <1>2, <2>3
    <3> QED
      BY <3>1 DEF DeathCookie
  <2> QED
    BY <2>1, <2>2, <2>3 DEF TapTypeOK, DeathCookie
<1>6. cookie' \in [Cookie -> DeathCookie]
  BY <1>2, <1>5
<1>7. CookiesOwned'
  <2>1. ASSUME NEW c \in Cookie
        PROVE  cookie'[c].mem = "live" <=> \E e \in mListeners' : e.cookie = c
    <3>1. CASE own(c)
      BY <1>1, <1>2, <3>1 DEF own, CookiesOwned
    <3>2. CASE ~own(c)
      BY <1>1, <1>2, <3>2 DEF own, CookiesOwned
    <3> QED
      BY <3>1, <3>2
  <2>2. ASSUME NEW e \in mListeners' PROVE cookie'[e.cookie].l = e.l
    BY <1>1, <1>2 DEF CookiesOwned, TapTypeOK, Entry
  <2>3. ASSUME NEW e \in mListeners', NEW f \in mListeners',
               e.cookie = f.cookie \/ e.l = f.l
        PROVE  e = f
    BY <1>1, <2>3 DEF CookiesOwned
  <2> QED
    BY <2>1, <2>2, <2>3 DEF CookiesOwned
<1>8. SentOfDead'
  BY <1>1, <1>2 DEF SentOfDead, Alive
<1>9. EntriesAreWatched'
  <2>1. ASSUME NEW e \in mListeners'
        PROVE  \/ cookie'[e.cookie].link \in {"linked", "sent", "running"}
               \/ e.l[1] \notin View /\ e.l[1] \in died' /\ e.l \in obits'
    <3>1. e \in mListeners \ gone /\ e.cookie \in Cookie
      BY <1>1 DEF TapTypeOK, Entry
    <3>2. ~own(e.cookie) /\ e.cookie \notin ended
      BY <3>1 DEF own, CookiesOwned
    <3> QED
      BY <1>1, <1>2, <3>1, <3>2 DEF EntriesAreWatched, Alive
  <2> QED
    BY <2>1 DEF EntriesAreWatched, Alive
<1> QED
  BY <1>4, <1>6, <1>7, <1>8, <1>9

-----------------------------------------------------------------------------
(* The actions of the tap keep TapInv, and but for a registration none of   *)
(* them adds an entry.                                                     *)

LEMMA DispatchTyped ==
  ASSUME TapInv, UNCHANGED dispatchVars, UNCHANGED <<died, freedRead>>,
         mListeners' \subseteq Entry, cookie' \in [Cookie -> DeathCookie],
         obits' \subseteq Listener
  PROVE  TapTypeOK' /\ ServedOnce'
BY DEF TapInv, TapTypeOK, ServedOnce, dispatchVars

LEMMA RegisterKeeps ==
  ASSUME TapInv, NEW l \in Listener, l[1] \in View => l \notin obits, RegisterListener(l)
  PROVE  TapInv' /\ (\A e \in mListeners' : e \in mListeners \/ e.l = l)
<1>1. CASE \E e \in mListeners : e.l = l
  BY <1>1 DEF RegisterListener, TapInv, TapTypeOK, ServedOnce, CookiesOwned,
              EntriesAreWatched, SentOfDead,
              Alive, listVars, dispatchVars
<1>2. CASE ~\E e \in mListeners : e.l = l
  <2>1. Add(l) /\ UNCHANGED dispatchVars /\ UNCHANGED <<died, freedRead>>
    BY <1>2 DEF RegisterListener
  <2>2. /\ mListeners' \subseteq Entry /\ cookie' \in [Cookie -> DeathCookie]
        /\ obits' \subseteq Listener
        /\ CookiesOwned' /\ EntriesAreWatched' /\ SentOfDead'
    BY <1>2, <2>1, AddKeeps DEF TapInv
  <2>3. TapInv'
    BY <2>1, <2>2, DispatchTyped DEF TapInv
  <2> QED
    BY <2>1, <2>3 DEF Add, Push
<1> QED
  BY <1>1, <1>2

LEMMA UnregisterKeeps ==
  ASSUME TapInv, NEW l \in Listener, UnregisterListener(l)
  PROVE  TapInv' /\ mListeners' = mListeners \ Of(l)
<1>1. Erase(Of(l), {}) /\ UNCHANGED dispatchVars /\ UNCHANGED <<died, freedRead>>
  BY DEF UnregisterListener
<1> DEFINE gone == Of(l)
<1>2. gone \in SUBSET mListeners /\ Erase(gone, {}) /\ died' = died
  BY <1>1 DEF Of
<1> HIDE DEF gone
<1>3. /\ mListeners' \subseteq Entry /\ cookie' \in [Cookie -> DeathCookie]
      /\ obits' \subseteq Listener
      /\ CookiesOwned' /\ EntriesAreWatched' /\ SentOfDead'
  BY <1>2, EraseKeeps DEF TapInv
<1> QED
  BY <1>1, <1>3, DispatchTyped DEF TapInv, Erase

\* A notification in progress changes its cookie's link, and nothing else; it may
\* be over at once only for a cookie that was freed.
LEMMA LinkKeeps ==
  ASSUME TapInv, NEW c \in Cookie, NEW link \in {"none", "sent", "running"},
         link = "none" => cookie[c].mem = "freed",
         cookie[c].link \in {"linked", "sent"}, ~Alive(cookie[c].l),
         cookie' = [cookie EXCEPT ![c].link = link],
         obits' \in {obits, obits \cup {cookie[c].l}},
         mListeners' = mListeners, UNCHANGED dispatchVars, died' = died,
         freedRead' \in BOOLEAN
  PROVE  TapInv'
<1>1. /\ cookie'[c].mem = cookie[c].mem /\ cookie'[c].l = cookie[c].l
      /\ cookie'[c].link = link
      /\ \A d \in Cookie : d # c => cookie'[d] = cookie[d]
  BY DEF TapInv, TapTypeOK, DeathCookie, Fresh
<1>2. cookie'[c] \in DeathCookie
  <2>1. /\ cookie[c].mem \in {"live", "freed"} /\ cookie[c].l \in Listener
        /\ cookie'[c] = [mem |-> cookie[c].mem, l |-> cookie[c].l, link |-> link]
    BY DEF TapInv, TapTypeOK, DeathCookie, Fresh
  <2> QED
    BY <2>1 DEF DeathCookie
<1>3. cookie' \in [Cookie -> DeathCookie]
  BY <1>2 DEF TapInv, TapTypeOK
<1>4. CookiesOwned' /\ EntriesAreWatched'
  <2>1. CookiesOwned'
    BY <1>1 DEF TapInv, TapTypeOK, CookiesOwned, Entry
  <2>2. \A e \in mListeners : e.cookie \in Cookie /\ (e.cookie = c => link # "none")
    BY DEF TapInv, TapTypeOK, CookiesOwned, Entry
  <2> QED
    BY <1>1, <2>1, <2>2 DEF TapInv, EntriesAreWatched, Alive
<1>5. SentOfDead'
  BY <1>1 DEF TapInv, SentOfDead, Alive
<1>6. TapTypeOK' /\ ServedOnce'
  <2>1. cookie[c].l \in Listener
    BY DEF TapInv, TapTypeOK, DeathCookie, Fresh
  <2> QED
    BY <1>3, <2>1 DEF TapInv, TapTypeOK, ServedOnce, dispatchVars
<1> QED
  BY <1>4, <1>5, <1>6 DEF TapInv

LEMMA ObituaryKeeps ==
  ASSUME TapInv, NEW c \in Cookie, Obituary(c)
  PROVE  TapInv' /\ mListeners' \subseteq mListeners /\ died' = died
<1>1. CASE ObituaryTaken(c)
  <2>1. freedRead' \in BOOLEAN
    BY <1>1 DEF ObituaryTaken, TapInv, TapTypeOK
  <2> QED
    BY <1>1, <2>1, LinkKeeps DEF ObituaryTaken
<1>2. CASE OnListenerDied(c)
  <2>1. ~Alive(cookie[c].l) /\ cookie[c].link = "sent"
    BY <1>2 DEF OnListenerDied, TapInv, SentOfDead
  <2>2. freedRead' \in BOOLEAN
    BY <1>2 DEF OnListenerDied, TapInv, TapTypeOK
  <2>3. PICK link \in {"running", "none"} :
          /\ cookie' = [cookie EXCEPT ![c].link = link]
          /\ link = "none" => cookie[c].mem = "freed"
    BY <1>2 DEF OnListenerDied
  <2> QED
    BY <1>2, <2>1, <2>2, <2>3, LinkKeeps DEF OnListenerDied
<1>3. CASE OnListenerDiedRemoves(c)
  <2> DEFINE own == IF cookie[c].mem = "live" THEN Of(cookie[c].l) ELSE {}
  <2>1. PICK after \in SUBSET (mListeners \ own) :
          /\ \E matched \in SUBSET after : Erase(own \cup matched, {c})
          /\ freedRead' = (freedRead \/ after # {})
    BY <1>3 DEF OnListenerDiedRemoves
  <2>2. PICK matched \in SUBSET after : Erase(own \cup matched, {c})
    BY <2>1
  <2>3. /\ own \cup matched \in SUBSET mListeners
        /\ \A e \in mListeners \ (own \cup matched) : e.cookie \notin {c}
    BY DEF Of, TapInv, CookiesOwned
  <2>4. UNCHANGED dispatchVars /\ died' = died
    BY <1>3 DEF OnListenerDiedRemoves
  <2>5. /\ mListeners' \subseteq Entry /\ cookie' \in [Cookie -> DeathCookie]
        /\ obits' \subseteq Listener
        /\ CookiesOwned' /\ EntriesAreWatched' /\ SentOfDead'
    BY <2>2, <2>3, <2>4, EraseKeeps DEF TapInv
  <2>6. freedRead' \in BOOLEAN
    BY <2>1 DEF TapInv, TapTypeOK
  <2>7. TapTypeOK' /\ ServedOnce'
    BY <2>4, <2>5, <2>6 DEF TapInv, TapTypeOK, ServedOnce, dispatchVars
  <2> QED
    BY <2>2, <2>4, <2>5, <2>7 DEF TapInv, Erase
<1>4. CASE ObituaryUnheard(c)
  <2>1. cookie[c].l \in Listener /\ ~Alive(cookie[c].l)
    BY <1>4 DEF ObituaryUnheard, TapInv, TapTypeOK, DeathCookie, Fresh
  <2> QED
    BY <1>4, <2>1 DEF ObituaryUnheard, TapInv, TapTypeOK, CookiesOwned, EntriesAreWatched,
                      ServedOnce, SentOfDead, Alive, dispatchVars
<1> QED
  BY <1>1, <1>2, <1>3, <1>4 DEF Obituary, Notification

LEMMA DispatchKeeps ==
  ASSUME TapInv, DispatchFrame \/ Dispatching
  PROVE  TapInv' /\ mListeners' \subseteq mListeners /\ died' = died
<1>1. CASE DispatchFrame
  BY <1>1, TapAssumption DEF DispatchFrame, TapInv, TapTypeOK, ServedOnce, CookiesOwned,
     EntriesAreWatched, SentOfDead, Alive, listVars
<1>2. ASSUME NEW e \in todo, DispatchOnFrame(e)
      PROVE  TapInv' /\ mListeners' \subseteq mListeners /\ died' = died
  <2>1. e.l \in Listener
    BY DEF TapInv, TapTypeOK, Entry
  <2>2. frame \in Nat /\ got[e.l] \in Seq(Nat)
    BY <2>1, TapAssumption DEF TapInv, TapTypeOK
  <2>3. [got EXCEPT ![e.l] = Append(@, frame)] \in [Listener -> Seq(Nat)]
    BY <2>1, <2>2 DEF TapInv, TapTypeOK
  <2>4. /\ mListeners' = mListeners /\ cookie' = cookie /\ died' = died
        /\ frame' = frame /\ freedRead' = freedRead /\ todo' = todo \ {e}
        /\ got' \in [Listener -> Seq(Nat)] /\ dead' \subseteq Listener /\ obits' = obits
    BY <1>2, <2>1, <2>3 DEF DispatchOnFrame, listVars, TapInv, TapTypeOK
  <2> QED
    BY <2>4 DEF TapInv, TapTypeOK, ServedOnce, CookiesOwned, EntriesAreWatched,
           SentOfDead, Alive
<1>3. ASSUME NEW b \in dead, DispatchRemoves(b)
      PROVE  TapInv' /\ mListeners' \subseteq mListeners /\ died' = died
  <2>1. Erase(Of(b), {}) /\ UNCHANGED <<todo, frame, got, died, freedRead>>
        /\ dead' = dead \ {b}
    BY <1>3 DEF DispatchRemoves
  <2> DEFINE gone == Of(b)
  <2>2. gone \in SUBSET mListeners /\ Erase(gone, {}) /\ died' = died
    BY <2>1 DEF Of
  <2> HIDE DEF gone
  <2>3. /\ mListeners' \subseteq Entry /\ cookie' \in [Cookie -> DeathCookie]
        /\ obits' \subseteq Listener
        /\ CookiesOwned' /\ EntriesAreWatched' /\ SentOfDead'
    BY <2>2, EraseKeeps DEF TapInv
  <2>4. TapTypeOK' /\ ServedOnce'
    BY <2>1, <2>3 DEF TapInv, TapTypeOK, ServedOnce
  <2> QED
    BY <2>1, <2>3, <2>4 DEF TapInv, Erase
<1> QED
  BY <1>1, <1>2, <1>3 DEF Dispatching

LEMMA DyingKeeps ==
  ASSUME TapInv, NEW v \in Client, ClientDies(v)
  PROVE  TapInv' /\ mListeners' = mListeners /\ died \subseteq died'
BY DEF ClientDies, TapInv, TapTypeOK, ServedOnce, CookiesOwned, EntriesAreWatched,
           SentOfDead, Alive,
       listVars, dispatchVars

-----------------------------------------------------------------------------
(* The views.                                                              *)

ViewRecord == [pc: Step, n: Nat, life: 0..MaxLives]

\* With the views at rest, entries may come and go, but for those of views.
LEMMA RestingViews ==
  ASSUME Views, UNCHANGED <<view, up, life>>, died \subseteq died',
         \A e \in mListeners' : e \in mListeners \/ e.l[1] \notin View
  PROVE  Views'
BY DEF Views, SubscribedIsBound, OwnListener, Alive, mListener, Connected

\* One view moves, and no entry is left that its new state would not own.
LEMMA MovingView ==
  ASSUME TypeOK, Views, NEW v \in View, NEW r \in ViewRecord,
         view' = [view EXCEPT ![v] = r], up' = up, life' = life, died \subseteq died',
         r.pc \in {"binding", "bound", "unbinding"} => <<v, r.n>> \in Listener,
         \A e \in mListeners' : e \in mListeners \/ e.l = <<v, r.n>>,
         \A e \in mListeners' :
           e.l[1] = v => \/ v \in died'
                         \/ /\ e.l = <<v, r.n>> /\ r.pc \in {"bound", "unbinding"}
                            /\ up /\ r.life = life
  PROVE  Views' /\ view' \in [View -> ViewRecord]
<1>1. view \in [View -> ViewRecord]
  BY DEF TypeOK, ViewRecord
<1>2. /\ view' \in [View -> ViewRecord] /\ view'[v] = r
      /\ \A w \in View : w # v => view'[w] = view[w]
  BY <1>1
<1>3. ASSUME NEW e \in mListeners', e.l[1] \in View, e.l[1] \notin died'
      PROVE  /\ view'[e.l[1]].pc \in {"bound", "unbinding"}
             /\ e.l = <<e.l[1], view'[e.l[1]].n>>
             /\ up' /\ view'[e.l[1]].life = life'
  <2>1. CASE e.l[1] = v
    BY <1>2, <1>3, <2>1
  <2>2. CASE e.l[1] # v
    <3>1. e \in mListeners
      BY <2>2
    <3> QED
      BY <1>2, <1>3, <2>2, <3>1 DEF Views, SubscribedIsBound, Alive, mListener, Connected
  <2> QED
    BY <2>1, <2>2
<1>4. OwnListener'
  BY <1>2 DEF Views, OwnListener, mListener
<1> QED
  BY <1>2, <1>3, <1>4 DEF Views, SubscribedIsBound, Alive, mListener, Connected

\* What a call that changes the step alone makes of the record of a view.
LEMMA Gone ==
  ASSUME TypeOK, NEW v \in View, NEW pc \in Step, Goto(v, pc)
  PROVE  \E r \in ViewRecord : /\ r.pc = pc /\ r.n = view[v].n /\ r.life = view[v].life
                               /\ view' = [view EXCEPT ![v] = r]
<1> DEFINE r == [pc |-> pc, n |-> view[v].n, life |-> view[v].life]
<1>1. view \in [View -> ViewRecord]
  BY DEF TypeOK, ViewRecord
<1>2. r \in ViewRecord
  BY <1>1 DEF ViewRecord
<1>3. [view[v] EXCEPT !.pc = pc] = r
  BY <1>1 DEF ViewRecord
<1>4. view' = [view EXCEPT ![v] = r]
  BY <1>3 DEF Goto
<1> QED
  BY <1>2, <1>4

\* A view moves and leaves the tap and the service alone.
LEMMA TapAtRest ==
  ASSUME TapInv, UNCHANGED tapVars
  PROVE  TapInv'
BY DEF TapInv, TapTypeOK, CookiesOwned, EntriesAreWatched, ServedOnce, SentOfDead, Alive,
       tapVars, listVars, dispatchVars

LEMMA SurfaceAvailable ==
  ASSUME IInv, NEW v \in View, OnSurfaceTextureAvailable(v)
  PROVE  Core'
<1>1. TypeOK /\ Views /\ TapInv'
  BY TapAtRest DEF IInv, Core, OnSurfaceTextureAvailable
<1>2. \A e \in mListeners' : e \in mListeners /\ (e.l[1] = v => v \in died')
  BY <1>1 DEF OnSurfaceTextureAvailable, tapVars, listVars, Views, SubscribedIsBound, Alive
<1>3. \E r \in ViewRecord :
        /\ view' = [view EXCEPT ![v] = r]
        /\ r.pc \in {"binding", "bound", "unbinding"} => <<v, r.n>> \in Listener
  <2>1. CASE up
    <3>1. view[v].n \in Nat /\ life \in 0..MaxLives
      BY <1>1 DEF TypeOK
    <3>2. view' = [view EXCEPT ![v] = [pc |-> "binding", n |-> view[v].n + 1, life |-> life]]
      BY <2>1 DEF OnSurfaceTextureAvailable
    <3>3. [pc |-> "binding", n |-> view[v].n + 1, life |-> life] \in ViewRecord
      BY <3>1 DEF ViewRecord, Step
    <3>4. <<v, view[v].n + 1>> \in Listener
      BY <2>1 DEF OnSurfaceTextureAvailable
    <3> QED
      BY <3>2, <3>3, <3>4
  <2>2. CASE ~up
    <3>1. Goto(v, "unbound") /\ "unbound" \in Step
      BY <2>2 DEF OnSurfaceTextureAvailable, Step
    <3>2. PICK r \in ViewRecord : r.pc = "unbound" /\ view' = [view EXCEPT ![v] = r]
      BY <1>1, <3>1, Gone
    <3> QED
      BY <3>2
  <2> QED
    BY <2>1, <2>2
<1>4. up' = up /\ life' = life /\ died' = died /\ late' = late
  BY DEF OnSurfaceTextureAvailable, tapVars
<1>5. Views' /\ view' \in [View -> ViewRecord]
  BY <1>1, <1>2, <1>3, <1>4, MovingView
<1> QED
  BY <1>1, <1>4, <1>5 DEF IInv, Core, TypeOK, TapInv, ViewRecord

\* The calls of a view that change nothing but its step.
LEMMA StepAlone ==
  ASSUME IInv, NEW v \in View, NEW pc \in Step, Goto(v, pc), UNCHANGED tapVars,
         up' = up, life' = life, late' = late,
         pc \in {"bound", "unbinding"} => view[v].pc = pc \/ view[v].pc = "bound",
         pc # "binding",
         \A e \in mListeners : e.l[1] = v => v \in died \/ pc \in {"bound", "unbinding"}
  PROVE  Core'
<1>1. TypeOK /\ Views /\ TapInv'
  BY TapAtRest DEF IInv, Core
<1>2. PICK r \in ViewRecord : /\ r.pc = pc /\ r.n = view[v].n /\ r.life = view[v].life
                              /\ view' = [view EXCEPT ![v] = r]
  BY <1>1, Gone
<1>3. mListeners' = mListeners /\ died' = died
  BY DEF tapVars, listVars
<1>4. \A e \in mListeners :
        e.l[1] = v => \/ v \in died
                      \/ /\ e.l = <<v, r.n>> /\ r.pc \in {"bound", "unbinding"}
                         /\ up /\ r.life = life
  BY <1>1, <1>2 DEF Views, SubscribedIsBound, Alive, mListener, Connected
<1>5. r.pc \in {"binding", "bound", "unbinding"} => <<v, r.n>> \in Listener
  BY <1>1, <1>2 DEF Views, OwnListener, mListener
<1>6. view' = [view EXCEPT ![v] = r] /\ died \subseteq died'
  BY <1>2, <1>3
<1>7. /\ \A e \in mListeners' : e \in mListeners \/ e.l = <<v, r.n>>
      /\ \A e \in mListeners' :
           e.l[1] = v => \/ v \in died'
                         \/ /\ e.l = <<v, r.n>> /\ r.pc \in {"bound", "unbinding"}
                            /\ up /\ r.life = life
  BY <1>3, <1>4
<1>8. Views' /\ view' \in [View -> ViewRecord]
  BY <1>1, <1>5, <1>6, <1>7, MovingView
<1> QED
  BY <1>1, <1>3, <1>8 DEF IInv, Core, TypeOK, TapInv, ViewRecord

LEMMA ViewStepKeeps ==
  ASSUME IInv, NEW v \in View, ViewStep(v)
  PROVE  Core'
<1>1. TypeOK /\ Views /\ TapInv
  BY DEF IInv, Core
<1>2. CASE BindTap(v)
  <2>1. view[v].pc = "binding" /\ RegisterListener(mListener(v))
       /\ UNCHANGED <<late, up, life>>
    BY <1>2 DEF BindTap
  <2> DEFINE pc == IF v \in died THEN "noSurface" ELSE "bound"
  <2>2. PICK r \in ViewRecord : /\ r.pc = pc /\ r.n = view[v].n /\ r.life = view[v].life
                                /\ view' = [view EXCEPT ![v] = r]
    BY <1>1, <1>2, Gone DEF BindTap, Step
  <2>3. died' = died
    BY <2>1 DEF RegisterListener
  <2>4. mListener(v) \in Listener
    BY <1>1, <2>1 DEF Views, OwnListener
  <2>10. mListener(v) \notin obits
    BY <1>1, <2>1 DEF IInv, UntriedIsNew, TypeOK, mListener, Known
  <2>5. TapInv' /\ \A e \in mListeners' : e \in mListeners \/ e.l = <<v, r.n>>
    BY <1>1, <2>1, <2>2, <2>4, <2>10, RegisterKeeps DEF mListener
  <2>6. \A e \in mListeners : e.l[1] = v => v \in died
    BY <1>1, <2>1 DEF Views, SubscribedIsBound, Alive
  <2>7. up /\ r.life = life
    BY <1>2, <2>2 DEF BindTap, Connected
  <2>8. \A e \in mListeners' :
          e.l[1] = v => \/ v \in died'
                        \/ /\ e.l = <<v, r.n>> /\ r.pc \in {"bound", "unbinding"}
                           /\ up /\ r.life = life
    BY <2>2, <2>3, <2>5, <2>6, <2>7
  <2>9. Views' /\ view' \in [View -> ViewRecord]
    BY <1>1, <2>1, <2>2, <2>3, <2>4, <2>5, <2>8, MovingView DEF mListener
  <2> QED
    BY <1>1, <2>1, <2>3, <2>5, <2>9 DEF IInv, Core, TypeOK, TapInv, ViewRecord
<1>3. CASE BindTapFails(v)
  <2>1. \A e \in mListeners : e.l[1] = v => v \in died
    BY <1>1, <1>3 DEF BindTapFails, Views, SubscribedIsBound, Alive
  <2> QED
    BY <1>3, <2>1, StepAlone DEF BindTapFails, Step
<1>4. CASE UnbindTap(v)
  <2>1. UnregisterListener(mListener(v)) /\ UNCHANGED <<late, up, life>>
    BY <1>4 DEF UnbindTap
  <2>2. PICK r \in ViewRecord : r.pc = "noSurface" /\ view' = [view EXCEPT ![v] = r]
    BY <1>1, <1>4, Gone DEF UnbindTap, Step
  <2>3. died' = died
    BY <2>1 DEF UnregisterListener
  <2>4. mListener(v) \in Listener
    BY <1>1, <1>4 DEF UnbindTap, Views, OwnListener
  <2>5. TapInv' /\ mListeners' = mListeners \ Of(mListener(v))
    BY <1>1, <2>1, <2>4, UnregisterKeeps
  <2>6. \A e \in mListeners' : e \in mListeners /\ (e.l[1] = v => v \in died')
    BY <1>1, <2>3, <2>5 DEF Views, SubscribedIsBound, Alive, Of
  <2>7. Views' /\ view' \in [View -> ViewRecord]
    BY <1>1, <2>1, <2>2, <2>3, <2>6, MovingView
  <2> QED
    BY <1>1, <2>1, <2>3, <2>5, <2>7 DEF IInv, Core, TypeOK, TapInv, ViewRecord
<1>5. CASE UnbindTapFails(v)
  <2>1. \A e \in mListeners : e.l[1] = v => v \in died
    BY <1>1, <1>5 DEF UnbindTapFails, Views, SubscribedIsBound, Alive
  <2> QED
    BY <1>5, <2>1, StepAlone DEF UnbindTapFails, Step
<1> QED
  BY <1>2, <1>3, <1>4, <1>5 DEF ViewStep

LEMMA SurfaceDestroyed ==
  ASSUME IInv, NEW v \in View, OnSurfaceTextureDestroyed(v)
  PROVE  Core'
<1> DEFINE pc == IF view[v].pc = "bound" THEN "unbinding" ELSE "noSurface"
<1>1. \A e \in mListeners : e.l[1] = v => v \in died \/ pc \in {"bound", "unbinding"}
  BY DEF OnSurfaceTextureDestroyed, IInv, Core, Views, SubscribedIsBound, Alive
<1>2. Goto(v, pc) /\ UNCHANGED tapVars /\ UNCHANGED <<late, up, life>> /\ pc \in Step
  BY DEF OnSurfaceTextureDestroyed, Step
<1> QED
  BY <1>1, <1>2, StepAlone

LEMMA ViewDying ==
  ASSUME IInv, NEW v \in View, ViewDies(v)
  PROVE  Core'
<1>1. TypeOK /\ Views /\ TapInv
  BY DEF IInv, Core
<1>2. v \in Client /\ ClientDies(v) /\ UNCHANGED <<late, up, life>>
  BY ViewAssumption DEF ViewDies
<1>3. TapInv' /\ mListeners' = mListeners /\ died \subseteq died' /\ v \in died'
  BY <1>1, <1>2, DyingKeeps DEF ClientDies
<1>4. CASE UNCHANGED view
  BY <1>1, <1>2, <1>3, <1>4, RestingViews DEF viewVars, IInv, Core, TypeOK, TapInv
<1>5. CASE Goto(v, "noSurface")
  <2>1. PICK r \in ViewRecord : r.pc = "noSurface" /\ view' = [view EXCEPT ![v] = r]
    BY <1>1, <1>5, Gone DEF Step
  <2>2. Views' /\ view' \in [View -> ViewRecord]
    BY <1>1, <1>2, <1>3, <2>1, MovingView
  <2> QED
    BY <1>1, <1>2, <1>3, <2>2 DEF IInv, Core, TypeOK, TapInv, ViewRecord
<1> QED
  BY <1>4, <1>5 DEF ViewDies

\* The steps in which no view takes part, the start and the end of the service
\* left aside.
LEMMA OthersKeep ==
  ASSUME IInv, OtherCalls \/ (\E v \in Client : OtherDies(v) \/ LateCallsEnd(v)) \/ TapStep
  PROVE  Core'
<1>1. TypeOK /\ Views /\ TapInv
  BY DEF IInv, Core
<1>2. SUFFICES /\ TapInv' /\ UNCHANGED <<view, up, life>>
               /\ died \subseteq died' /\ late' \subseteq died' \ View
               /\ \A e \in mListeners' : e \in mListeners \/ e.l[1] \notin View
  BY <1>1, <1>2, RestingViews DEF IInv, Core, TypeOK, TapInv, viewVars
<1>3. CASE OtherCalls
  <2>1. PICK l \in Listener : /\ l[1] \notin View /\ UNCHANGED viewVars
                              /\ RegisterListener(l) \/ UnregisterListener(l)
    BY <1>3 DEF OtherCalls
  <2>2. CASE RegisterListener(l)
    BY <1>1, <2>1, <2>2, RegisterKeeps DEF RegisterListener, viewVars, TypeOK
  <2>3. CASE UnregisterListener(l)
    BY <1>1, <2>1, <2>3, UnregisterKeeps DEF UnregisterListener, viewVars, TypeOK
  <2> QED
    BY <2>1, <2>2, <2>3
<1>4. CASE \E v \in Client : OtherDies(v) \/ LateCallsEnd(v)
  <2>1. PICK v \in Client : OtherDies(v) \/ LateCallsEnd(v)
    BY <1>4
  <2>2. CASE OtherDies(v)
    <3>1. TapInv' /\ mListeners' = mListeners /\ died \subseteq died' /\ v \in died'
      BY <1>1, <2>2, DyingKeeps DEF OtherDies, ClientDies
    <3> QED
      BY <1>1, <2>2, <3>1 DEF OtherDies, TypeOK
  <2>3. CASE LateCallsEnd(v)
    BY <1>1, <2>3, TapAtRest DEF LateCallsEnd, TypeOK, tapVars, listVars
  <2> QED
    BY <2>1, <2>2, <2>3
<1>5. CASE TapStep
  <2>1. UNCHANGED viewVars
    BY <1>5 DEF TapStep
  <2>2. CASE \E c \in Cookie : Obituary(c)
    BY <1>1, <2>1, <2>2, ObituaryKeeps DEF viewVars, TypeOK
  <2>3. CASE DispatchFrame \/ Dispatching
    BY <1>1, <2>1, <2>3, DispatchKeeps DEF viewVars, TypeOK
  <2> QED
    BY <1>5, <2>2, <2>3 DEF TapStep
<1> QED
  BY <1>3, <1>4, <1>5

LEMMA ServiceKeeps ==
  ASSUME IInv, ServiceStarts \/ ServiceDies
  PROVE  Core'
<1>1. TypeOK /\ Views /\ TapInv
  BY DEF IInv, Core
<1>2. CASE ServiceStarts
  <2>1. life' \in 0..MaxLives /\ up' \in BOOLEAN /\ UNCHANGED <<view, late, died>>
    BY <1>1, <1>2, ViewAssumption DEF ServiceStarts, TypeOK, tapVars
  <2>2. TapInv'
    BY <1>1, <1>2, TapAtRest DEF ServiceStarts
  <2>3. \A e \in mListeners : e.l[1] \in View => e.l[1] \in died
    BY <1>1, <1>2 DEF ServiceStarts, Views, SubscribedIsBound, OwnListener, Connected, Alive
  <2>4. Views'
    BY <1>1, <1>2, <2>3 DEF ServiceStarts, tapVars, listVars, Views, SubscribedIsBound,
       OwnListener, mListener, Alive
  <2> QED
    BY <1>1, <2>1, <2>2, <2>4 DEF IInv, Core, TypeOK, TapInv
<1>3. CASE ServiceDies
  <2>1. TapInv'
    BY <1>1, <1>3 DEF ServiceDies, TapInv, TapTypeOK, CookiesOwned,
       EntriesAreWatched, ServedOnce, SentOfDead, DeathCookie, Fresh
  <2>2. Views'
    BY <1>1, <1>3 DEF ServiceDies, Views, SubscribedIsBound, OwnListener, mListener
  <2> QED
    BY <1>1, <1>3, <2>1, <2>2 DEF ServiceDies, Core, TypeOK, TapInv
<1> QED
  BY <1>2, <1>3

LEMMA Initially == Init => IInv
<1> SUFFICES ASSUME Init PROVE IInv
  OBVIOUS
<1>1. TapTypeOK
  <2>1. cookie \in [Cookie -> DeathCookie] /\ mListeners = {}
    BY DEF Init, TapInit, NoListeners, DeathCookie
  <2>2. got \in [Listener -> Seq(Nat)]
    BY DEF Init, TapInit
  <2>3. frame \in 0..MaxFrames
    BY TapAssumption DEF Init, TapInit
  <2> QED
    BY <2>1, <2>2, <2>3 DEF Init, TapInit, NoListeners, TapTypeOK
<1>2. TypeOK
  <2>1. 0 \in 0..MaxLives /\ "noSurface" \in Step
    BY ViewAssumption DEF Step
  <2> QED
    BY <1>1, <2>1 DEF Init, TypeOK
<1>3. CookiesOwned /\ EntriesAreWatched /\ ServedOnce /\ SentOfDead
  BY DEF Init, TapInit, NoListeners, CookiesOwned, EntriesAreWatched, ServedOnce,
     SentOfDead, Fresh
<1>4. Views
  BY DEF Init, TapInit, NoListeners, Views, SubscribedIsBound, OwnListener
<1>5. UntriedIsNew
  BY DEF Init, TapInit, NoListeners, UntriedIsNew, Known, Fresh
<1> QED
  BY <1>1, <1>2, <1>3, <1>4, <1>5 DEF IInv, Core, TapInv

LEMMA CoreKept == IInv /\ [Next]_vars => Core'
<1> SUFFICES ASSUME IInv, [Next]_vars PROVE Core'
  OBVIOUS
<1>1. CASE \E v \in View : ViewStep(v) \/ ViewEvent(v)
  BY <1>1, ViewStepKeeps, SurfaceAvailable, SurfaceDestroyed, ViewDying DEF ViewEvent
<1>2. CASE OtherCalls \/ (\E v \in Client : OtherDies(v) \/ LateCallsEnd(v)) \/ TapStep
  BY <1>2, OthersKeep
<1>3. CASE ServiceStarts \/ ServiceDies
  BY <1>3, ServiceKeeps
<1>4. CASE UNCHANGED vars
  <2>1. TapInv' /\ UNCHANGED viewVars /\ mListeners' = mListeners /\ died' = died
    BY <1>4, TapAtRest DEF vars, tapVars, listVars, IInv, Core
  <2> QED
    BY <2>1, RestingViews DEF IInv, Core, TypeOK, TapInv, viewVars
<1> QED
  BY <1>1, <1>2, <1>3, <1>4 DEF Next

-----------------------------------------------------------------------------
(* What the tap comes to know.                                             *)

\* A registration makes its listener known.
LEMMA RegisterKnows ==
  ASSUME TapInv, NEW l \in Listener, RegisterListener(l)
  PROVE  Known' \subseteq Known \cup {l}
<1>1. CASE \E e \in mListeners : e.l = l
  BY <1>1 DEF RegisterListener, listVars, Known
<1>2. CASE ~\E e \in mListeners : e.l = l
  <2>1. PICK link \in {"none", "linked"} : Push(l, link) /\ obits' \subseteq obits
    BY <1>2 DEF RegisterListener, Add
  <2> DEFINE c == FreshCookie
  <2>2. cookie' = [cookie EXCEPT ![c] = [mem |-> "live", l |-> l, link |-> link]]
    BY <2>1 DEF Push
  <2> HIDE DEF c
  <2>3. \A d \in Cookie : cookie'[d] = cookie[d] \/ cookie'[d].l = l
    BY <2>2 DEF TapInv, TapTypeOK
  <2> QED
    BY <2>1, <2>3 DEF Known
<1> QED
  BY <1>1, <1>2

\* A removal makes none known.
LEMMA EraseKnows ==
  ASSUME TapInv, NEW gone \in SUBSET mListeners, NEW ended, Erase(gone, ended)
  PROVE  Known' \subseteq Known
<1>1. obits' = obits
  BY DEF Erase
<1>2. \A c \in Cookie : /\ cookie'[c].l = cookie[c].l
                        /\ cookie'[c].mem = cookie[c].mem \/ cookie[c].mem = "live"
  BY DEF Erase, TapInv, CookiesOwned
<1> QED
  BY <1>1, <1>2 DEF Known

\* Nor does a death notification, or the end of a dispatch.
LEMMA TapStepKnows ==
  ASSUME TapInv, TapStep
  PROVE  Known' \subseteq Known
<1>1. CASE \E c \in Cookie : Obituary(c)
  <2>1. PICK c \in Cookie : Obituary(c)
    BY <1>1
  <2>2. CASE OnListenerDiedRemoves(c)
    <3>1. PICK gone \in SUBSET mListeners : Erase(gone, {c})
      BY <2>2 DEF OnListenerDiedRemoves, Of
    <3> QED
      BY <3>1, EraseKnows
  <2>3. CASE ObituaryTaken(c) \/ OnListenerDied(c) \/ ObituaryUnheard(c)
    <3>1. cookie[c].mem # "fresh"
      BY <2>3 DEF ObituaryTaken, OnListenerDied, ObituaryUnheard, TapInv, TapTypeOK,
                  DeathCookie, Fresh
    <3>2. obits' \subseteq obits \cup {cookie[c].l}
      BY <2>3 DEF ObituaryTaken, OnListenerDied, ObituaryUnheard
    <3>3. \A d \in Cookie : cookie'[d].mem = cookie[d].mem /\ cookie'[d].l = cookie[d].l
      <4>1. cookie' = cookie \/ \E link : cookie' = [cookie EXCEPT ![c].link = link]
        BY <2>3 DEF ObituaryTaken, OnListenerDied, ObituaryUnheard
      <4> QED
        BY <4>1 DEF TapInv, TapTypeOK, DeathCookie, Fresh
    <3> QED
      BY <3>1, <3>2, <3>3 DEF Known
  <2> QED
    BY <2>1, <2>2, <2>3 DEF Obituary, Notification
<1>2. CASE \E b \in dead : DispatchRemoves(b)
  BY <1>2, EraseKnows DEF DispatchRemoves, Of
<1>3. CASE DispatchFrame \/ \E e \in todo : DispatchOnFrame(e)
  BY <1>3 DEF DispatchFrame, DispatchOnFrame, listVars, Known
<1> QED
  BY <1>1, <1>2, <1>3 DEF TapStep, Dispatching

\* The listener of a bind is unknown to the tap until it takes the call.
LEMMA UntriedKept == IInv /\ [Next]_vars => UntriedIsNew'
<1> SUFFICES ASSUME IInv, [Next]_vars PROVE UntriedIsNew'
  OBVIOUS
<1>1. TypeOK /\ TapInv /\ Views
  BY DEF IInv, Core
<1>2. ASSUME UNCHANGED view, NEW l, Known' \subseteq Known \cup {l}, l[1] \notin View
      PROVE  UntriedIsNew'
  BY <1>2 DEF IInv, UntriedIsNew
<1>3. ASSUME UNCHANGED view, Known' \subseteq Known
      PROVE  UntriedIsNew'
  BY <1>3 DEF IInv, UntriedIsNew
<1>4. ASSUME NEW v \in View, NEW r \in ViewRecord, view' = [view EXCEPT ![v] = r],
             r.n \in Nat, r.n >= view[v].n,
             r.pc = "binding" => r.n > view[v].n,
             Known' \subseteq Known \cup {mListener(v)}
      PROVE  UntriedIsNew'
  <2>1. /\ view[v].n \in Nat /\ view'[v] = r
        /\ \A w \in View : w # v => view'[w] = view[w]
    BY <1>1, <1>4 DEF TypeOK
  <2>2. ASSUME NEW w \in View, NEW n \in Nat,
               n > view'[w].n \/ (n = view'[w].n /\ view'[w].pc = "binding")
        PROVE  <<w, n>> \notin Known'
    <3>1. CASE w = v
      <4>1. n > view[v].n
        BY <1>4, <2>1, <2>2, <3>1
      <4>2. <<v, n>> \notin Known /\ <<v, n>> # mListener(v)
        BY <2>1, <4>1 DEF IInv, UntriedIsNew, mListener
      <4> QED
        BY <1>4, <3>1, <4>2
    <3>2. CASE w # v
      BY <1>4, <2>1, <2>2, <3>2 DEF IInv, UntriedIsNew, mListener
    <3> QED
      BY <3>1, <3>2
  <2> QED
    BY <2>2 DEF UntriedIsNew
<1>5. CASE TapStep
  BY <1>1, <1>3, <1>5, TapStepKnows DEF TapStep, viewVars
<1>6. CASE OtherCalls
  <2>1. PICK l \in Listener : /\ l[1] \notin View /\ UNCHANGED viewVars
                              /\ RegisterListener(l) \/ UnregisterListener(l)
    BY <1>6 DEF OtherCalls
  <2>2. Known' \subseteq Known \cup {l}
    BY <1>1, <2>1, RegisterKnows, EraseKnows DEF UnregisterListener, Of
  <2> QED
    BY <1>2, <2>1, <2>2 DEF viewVars
<1>7. CASE (\E v \in Client : OtherDies(v) \/ LateCallsEnd(v)) \/ ServiceStarts
           \/ UNCHANGED vars
  <2>1. UNCHANGED listVars /\ UNCHANGED view
    BY <1>7 DEF OtherDies, ClientDies, LateCallsEnd, ServiceStarts, vars, tapVars, viewVars
  <2> QED
    BY <1>3, <2>1 DEF listVars, Known
<1>8. CASE ServiceDies
  <2>1. Known' = {} /\ UNCHANGED view
    BY <1>8 DEF ServiceDies, Known, Fresh
  <2> QED
    BY <1>3, <2>1
<1>9. ASSUME NEW v \in View, OnSurfaceTextureAvailable(v), up
      PROVE  UntriedIsNew'
  <2> DEFINE r == [pc |-> "binding", n |-> view[v].n + 1, life |-> life]
  <2>1. r \in ViewRecord /\ r.n > view[v].n /\ view[v].n \in Nat
    BY <1>1 DEF TypeOK, ViewRecord, Step
  <2>2. view' = [view EXCEPT ![v] = r] /\ UNCHANGED listVars
    BY <1>9 DEF OnSurfaceTextureAvailable, tapVars
  <2>3. r.pc = "binding" /\ r.n \in Nat /\ r.n >= view[v].n
    BY <2>1
  <2> HIDE DEF r
  <2> QED
    BY <1>4, <2>1, <2>2, <2>3 DEF listVars, Known
<1>10. ASSUME NEW v \in View, NEW pc \in Step \ {"binding"}, Goto(v, pc),
              Known' \subseteq Known \cup {mListener(v)}
       PROVE  UntriedIsNew'
  <2>1. PICK r \in ViewRecord : /\ r.pc = pc /\ r.n = view[v].n
                                /\ view' = [view EXCEPT ![v] = r]
    BY <1>1, <1>10, Gone
  <2>2. view[v].n \in Nat
    BY <1>1 DEF TypeOK
  <2>3. r.n \in Nat /\ r.n >= view[v].n /\ r.pc # "binding"
    BY <2>1, <2>2
  <2> QED
    BY <1>4, <1>10, <2>1, <2>3
<1>11. ASSUME NEW v \in View, ViewStep(v) \/ ViewEvent(v)
       PROVE  UntriedIsNew'
  <2>1. CASE BindTap(v)
    <3>1. mListener(v) \in Listener
      BY <1>1, <2>1 DEF BindTap, Views, OwnListener
    <3>2. Known' \subseteq Known \cup {mListener(v)}
      BY <1>1, <2>1, <3>1, RegisterKnows DEF BindTap
    <3> QED
      BY <1>10, <2>1, <3>2 DEF BindTap, Step
  <2>2. CASE UnbindTap(v)
    <3>1. Known' \subseteq Known
      BY <1>1, <2>2, EraseKnows DEF UnbindTap, UnregisterListener, Of
    <3> QED
      BY <1>10, <2>2, <3>1 DEF UnbindTap, Step
  <2>3. CASE \/ BindTapFails(v) \/ UnbindTapFails(v) \/ OnSurfaceTextureDestroyed(v)
             \/ ViewDies(v) \/ (OnSurfaceTextureAvailable(v) /\ ~up)
    <3>1. UNCHANGED listVars
      BY <2>3 DEF BindTapFails, UnbindTapFails, OnSurfaceTextureDestroyed, ViewDies,
                  ClientDies, OnSurfaceTextureAvailable, tapVars
    <3>2. Known' = Known
      BY <3>1 DEF listVars, Known
    <3>3. UNCHANGED view \/ \E pc \in Step \ {"binding"} : Goto(v, pc)
      BY <2>3 DEF BindTapFails, UnbindTapFails, OnSurfaceTextureDestroyed, ViewDies,
                  OnSurfaceTextureAvailable, Step
    <3> QED
      BY <1>3, <1>10, <3>2, <3>3
  <2> QED
    BY <1>9, <1>11, <2>1, <2>2, <2>3 DEF ViewStep, ViewEvent
<1> QED
  BY <1>5, <1>6, <1>7, <1>8, <1>11 DEF Next

LEMMA Inductive == IInv /\ [Next]_vars => IInv'
BY CoreKept, UntriedKept DEF IInv

\* The invariant the others follow from.
THEOREM Invariant == Spec => []IInv
<1> QED
  BY Initially, Inductive, PTL DEF Spec

\* Every variable keeps its type, whoever calls, dies or is restarted.
THEOREM Typed == Spec => []TypeOK
<1>1. IInv => TypeOK
  BY DEF IInv, Core
<1> QED
  BY <1>1, Invariant, PTL

\* No cookie leaks or dangles in the list: each removal path of
\* FacePreviewTap.cpp frees the cookies of what it erases, and of nothing else.
THEOREM NoCookieLeaks == Spec => []CookiesOwned
<1>1. IInv => CookiesOwned
  BY DEF IInv, Core, TapInv
<1> QED
  BY <1>1, Invariant, PTL

\* No entry of a living client or of a view escapes its death, even if a link is
\* refused: the tap is still linked to it, or has the obituary in hand.  The others
\* are of dead clients that are not views (FacePreviewTap.cpp, registerListener).
THEOREM AlwaysWatched == Spec => []EntriesAreWatched
<1>1. IInv => EntriesAreWatched
  BY DEF IInv, Core, TapInv
<1> QED
  BY <1>1, Invariant, PTL

\* Every subscription of a living view is its own current one, whatever order
\* surfaces, calls, deaths and restarts come in (FacePreviewView.java).
THEOREM NoStaleSubscription == Spec => []SubscribedIsBound
<1>1. IInv => SubscribedIsBound
  BY DEF IInv, Core, Views
<1> QED
  BY <1>1, Invariant, PTL

-----------------------------------------------------------------------------
(* No bystander is dropped.                                                *)

LEMMA OnlyWithCause ==
  ASSUME IInv, Next, NEW e \in mListeners, e \notin mListeners'
  PROVE  ~Alive(e.l) \/ e.l \in dead \/ UnregisterListener(e.l) \/ freedRead' \/ ~up'
<1>1. TapInv
  BY DEF IInv, Core
<1>2. ASSUME NEW l, UnregisterListener(l) PROVE UnregisterListener(e.l)
  <2>1. e.l = l
    BY <1>2 DEF UnregisterListener, Erase, Of
  <2> QED
    BY <1>2, <2>1
<1>3. ASSUME NEW l, RegisterListener(l) PROVE FALSE
  BY <1>3 DEF RegisterListener, listVars, Add, Push
<1>4. CASE \E v \in View : ViewStep(v)
  BY <1>2, <1>3, <1>4 DEF ViewStep, BindTap, BindTapFails, UnbindTap, UnbindTapFails,
                          tapVars, listVars
<1>5. CASE \E v \in View : ViewEvent(v)
  BY <1>5 DEF ViewEvent, OnSurfaceTextureAvailable, OnSurfaceTextureDestroyed, ViewDies,
              ClientDies, tapVars, listVars
<1>6. CASE OtherCalls
  BY <1>2, <1>3, <1>6 DEF OtherCalls
<1>7. CASE \E v \in Client : OtherDies(v) \/ LateCallsEnd(v)
  BY <1>7 DEF OtherDies, ClientDies, LateCallsEnd, tapVars, listVars
<1>8. CASE ServiceStarts \/ ServiceDies
  BY <1>8 DEF ServiceStarts, ServiceDies, tapVars, listVars
<1>9. CASE DispatchFrame \/ Dispatching
  BY <1>9 DEF DispatchFrame, Dispatching, DispatchOnFrame, DispatchRemoves, listVars,
              Erase, Of
<1>10. ASSUME NEW c \in Cookie, Obituary(c)
       PROVE  ~Alive(e.l) \/ freedRead'
  <2>1. OnListenerDiedRemoves(c)
    BY <1>10 DEF Obituary, Notification, ObituaryTaken, OnListenerDied, ObituaryUnheard
  <2> DEFINE own == IF cookie[c].mem = "live" THEN Of(cookie[c].l) ELSE {}
  <2>2. PICK after \in SUBSET (mListeners \ own) :
          /\ \E matched \in SUBSET after : Erase(own \cup matched, {c})
          /\ freedRead' = (freedRead \/ after # {})
    BY <2>1 DEF OnListenerDiedRemoves
  <2>3. CASE after # {}
    BY <2>2, <2>3
  <2>4. CASE after = {}
    <3>1. e \in own
      BY <2>2, <2>4 DEF Erase
    <3>2. e.l = cookie[c].l
      BY <3>1 DEF Of
    <3> QED
      BY <1>1, <2>1, <3>2 DEF OnListenerDiedRemoves, TapInv, SentOfDead
  <2> QED
    BY <2>3, <2>4
<1> QED
  BY <1>4, <1>5, <1>6, <1>7, <1>8, <1>9, <1>10 DEF Next, TapStep

\* A listener is dropped only for a cause of its own, or of the service, or
\* after a read of freed memory (FacePreviewTap.cpp, removeByBinder).
THEOREM LossOnlyWithCause == Spec => LossHasCause
<1>1. IInv /\ [Next]_vars =>
        [\A e \in mListeners \ mListeners' :
           ~Alive(e.l) \/ e.l \in dead \/ UnregisterListener(e.l) \/ freedRead' \/ ~up']_vars
  BY OnlyWithCause
<1> QED
  BY <1>1, Invariant, PTL DEF Spec, LossHasCause

-----------------------------------------------------------------------------
(* The tap implements the set of listeners.                                *)

subs == {e.l : e \in mListeners}
due == {e.l : e \in todo}

LEMMA RegisterSubscribes ==
  ASSUME NEW l \in Listener, RegisterListener(l)
  PROVE  ListenerSet!Subscribe(l)
<1>1. CASE \E e \in mListeners : e.l = l
  BY <1>1 DEF RegisterListener, ListenerSet!Subscribe, listVars, dispatchVars
<1>2. CASE ~\E e \in mListeners : e.l = l
  <2>1. PICK new : new.l = l /\ mListeners' = mListeners \cup {new}
    BY <1>2 DEF RegisterListener, Add, Push
  <2>2. subs' = subs \cup {l}
    BY <2>1 DEF subs
  <2> QED
    BY <1>2, <2>2 DEF RegisterListener, ListenerSet!Subscribe, dispatchVars, subs
<1> QED
  BY <1>1, <1>2

LEMMA EraseLeaves ==
  ASSUME TapInv, NEW gone \in SUBSET mListeners, NEW ended, Erase(gone, ended),
         UNCHANGED <<frame, todo, got>>
  PROVE  \E out \in SUBSET Listener : ListenerSet!Leave(out)
<1> DEFINE out == {e.l : e \in gone}
<1>1. out \in SUBSET Listener
  BY DEF TapInv, TapTypeOK, Entry
<1>2. subs' = subs \ out
  <2>1. mListeners' = mListeners \ gone
    BY DEF Erase
  <2>2. \A e, f \in mListeners : e.l = f.l => e = f
    BY DEF TapInv, CookiesOwned
  <2> QED
    BY <2>1, <2>2 DEF subs
<1>3. ListenerSet!Leave(out)
  BY <1>2 DEF ListenerSet!Leave, subs
<1> QED
  BY <1>1, <1>3

LEMMA UnregisterLeaves ==
  ASSUME TapInv, NEW l \in Listener, UnregisterListener(l)
  PROVE  \E out \in SUBSET Listener : ListenerSet!Leave(out)
BY EraseLeaves DEF UnregisterListener, Of, dispatchVars

LEMMA DispatchPublishes ==
  ASSUME TapInv, DispatchFrame
  PROVE  ListenerSet!Publish
BY DEF DispatchFrame, listVars, ListenerSet!Publish

\* Nothing the set of listeners can tell.
LEMMA Hidden ==
  ASSUME UNCHANGED <<mListeners, todo, frame, got>>
  PROVE  UNCHANGED ListenerSet!setVars
BY DEF ListenerSet!setVars

LEMMA OnFrameGets ==
  ASSUME TapInv, NEW e \in todo, DispatchOnFrame(e)
  PROVE  \E l \in Listener : ListenerSet!Get(l) \/ ListenerSet!Miss(l)
<1>1. e.l \in Listener /\ e.l \in due
  BY DEF TapInv, TapTypeOK, Entry, due
<1>2. due' = due \ {e.l}
  BY DEF DispatchOnFrame, TapInv, ServedOnce, due
<1>3. /\ UNCHANGED <<mListeners, frame>>
      /\ got' = got \/ got' = [got EXCEPT ![e.l] = Append(@, frame)]
  BY DEF DispatchOnFrame, listVars
<1>4. ListenerSet!Get(e.l) \/ ListenerSet!Miss(e.l)
  BY <1>1, <1>2, <1>3 DEF ListenerSet!Get, ListenerSet!Miss, due
<1> QED
  BY <1>1, <1>4

LEMMA StepImplements ==
  ASSUME IInv, [Next]_vars
  PROVE  [ListenerSet!SetNext]_ListenerSet!setVars
<1>1. TapInv
  BY DEF IInv, Core
<1>2. ASSUME NEW l \in Listener, RegisterListener(l) \/ UnregisterListener(l)
      PROVE  ListenerSet!SetNext
  BY <1>1, <1>2, RegisterSubscribes, UnregisterLeaves DEF ListenerSet!SetNext
<1>3. CASE \E v \in View : ViewStep(v)
  <2>1. PICK v \in View : ViewStep(v)
    BY <1>3
  <2>2. CASE BindTap(v)
    <3>1. mListener(v) \in Listener
      BY <2>2 DEF BindTap, IInv, Core, Views, OwnListener
    <3> QED
      BY <1>2, <2>2, <3>1 DEF BindTap
  <2>3. CASE UnbindTap(v)
    <3>1. mListener(v) \in Listener
      BY <2>3 DEF UnbindTap, IInv, Core, Views, OwnListener
    <3> QED
      BY <1>2, <2>3, <3>1 DEF UnbindTap
  <2>4. CASE BindTapFails(v) \/ UnbindTapFails(v)
    BY <2>4, Hidden DEF BindTapFails, UnbindTapFails, tapVars, listVars, dispatchVars
  <2> QED
    BY <2>1, <2>2, <2>3, <2>4 DEF ViewStep
<1>4. CASE \/ \E v \in View : ViewEvent(v)
           \/ \E v \in Client : OtherDies(v) \/ LateCallsEnd(v)
           \/ ServiceStarts
  BY <1>4, Hidden DEF ViewEvent, OnSurfaceTextureAvailable, OnSurfaceTextureDestroyed,
                      ViewDies, OtherDies, LateCallsEnd, ClientDies, ServiceStarts, tapVars, listVars,
                      dispatchVars
<1>5. CASE OtherCalls
  BY <1>2, <1>5 DEF OtherCalls
<1>6. CASE ServiceDies
  <2>1. ListenerSet!Crash
    BY <1>6 DEF ServiceDies, ListenerSet!Crash
  <2> QED
    BY <2>1 DEF ListenerSet!SetNext
<1>7. CASE DispatchFrame
  BY <1>1, <1>7, DispatchPublishes DEF ListenerSet!SetNext
<1>8. ASSUME NEW e \in todo, DispatchOnFrame(e)
      PROVE  ListenerSet!SetNext
  BY <1>1, <1>8, OnFrameGets DEF ListenerSet!SetNext
<1>9. ASSUME NEW b \in dead, DispatchRemoves(b)
      PROVE  ListenerSet!SetNext
  <2>1. Erase(Of(b), {}) /\ UNCHANGED <<frame, todo, got>>
    BY <1>9 DEF DispatchRemoves
  <2>2. \E out \in SUBSET Listener : ListenerSet!Leave(out)
    BY <1>1, <2>1, EraseLeaves DEF Of
  <2> QED
    BY <2>2 DEF ListenerSet!SetNext
<1>10. ASSUME NEW c \in Cookie, Obituary(c)
       PROVE  ListenerSet!SetNext \/ UNCHANGED ListenerSet!setVars
  <2>1. CASE ObituaryTaken(c) \/ OnListenerDied(c) \/ ObituaryUnheard(c)
    BY <2>1, Hidden DEF ObituaryTaken, OnListenerDied, ObituaryUnheard, dispatchVars
  <2>2. CASE OnListenerDiedRemoves(c)
    <3>1. PICK gone \in SUBSET mListeners : Erase(gone, {c})
      BY <2>2 DEF OnListenerDiedRemoves, Of
    <3>2. UNCHANGED <<frame, todo, got>>
      BY <2>2 DEF OnListenerDiedRemoves, dispatchVars
    <3>3. \E out \in SUBSET Listener : ListenerSet!Leave(out)
      BY <1>1, <3>1, <3>2, EraseLeaves
    <3> QED
      BY <3>3 DEF ListenerSet!SetNext
  <2> QED
    BY <1>10, <2>1, <2>2 DEF Obituary, Notification
<1>11. CASE UNCHANGED vars
  BY <1>11, Hidden DEF vars, tapVars, listVars, dispatchVars
<1> QED
  BY <1>3, <1>4, <1>5, <1>6, <1>7, <1>8, <1>9, <1>10, <1>11 DEF Next, TapStep, Dispatching

\* The tap keeps the promise of ListenerSet: each frame once, in order, to those
\* subscribed when the list was copied (FacePreviewTap.cpp, dispatchFrame).
THEOREM TapImplementsListenerSet == Spec => ImplementsListenerSet
<1>1. Init => ListenerSet!SetInit
  BY DEF Init, TapInit, NoListeners, ListenerSet!SetInit
<1>2. IInv /\ [Next]_vars => [ListenerSet!SetNext]_ListenerSet!setVars
  BY StepImplements
<1> QED
  BY <1>1, <1>2, Invariant, PTL DEF Spec, ImplementsListenerSet, ListenerSet!SetSpec
=============================================================================
