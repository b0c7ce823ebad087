----------------------------- MODULE HidlBackend -----------------------------
(***************************************************************************)
(* The connection to the vendor HAL: biometrics/face/aidl/HidlBackend, and *)
(* the life of the vendor service at its other end.                        *)
(*                                                                         *)
(* Every member runs under mLock, which is held across sehSetCallback:     *)
(* lock names the thread inside that call.  mBase always equals mSeh.      *)
(***************************************************************************)
EXTENDS HidlCallbackBridge

CONSTANTS Thread,    \* main and the AIDL binder threads
          MaxLives   \* bound on the lives of the vendor service

ASSUME BackendAssumption == None \notin Thread /\ MaxLives \in Nat

VARIABLES vendor,    \* the vendor service: whether it is up, the number of its
                     \* process, what that holds in its client-callback slot,
                     \* and how far its operation is
          mSeh,      \* the vendor process the proxy refers to; 0: nullptr
          mBridge,   \* the bridge was made
          mTap,      \* HidlCallbackBridge::mTap is set
          lock       \* who is inside sehSetCallback, or None

backendVars == <<vendor, mSeh, mBridge, mTap, lock>>

BackendTypeOK ==
  /\ vendor \in [up: BOOLEAN, life: 0..MaxLives, op: {"none", "running", "over"},
                 client: {"none", "bridge", "refused"}]
  /\ mSeh \in 0..MaxLives
  /\ mBridge \in BOOLEAN
  /\ mTap \in BOOLEAN
  /\ lock \in Thread \cup {None}
  /\ lock # None => mSeh # 0
  /\ mSeh # 0 \/ mTap => mBridge

\* The members of a new HidlBackend.
Unbound == mSeh = 0 /\ mBridge = FALSE /\ mTap = FALSE /\ lock = None

BackendInit ==
  /\ Unbound
  /\ vendor = [up |-> FALSE, life |-> 0, op |-> "none", client |-> "none"]

\* A call on the proxy reaches the vendor service.
Reachable == vendor.up /\ mSeh = vendor.life

-----------------------------------------------------------------------------
(* ensureBoundLocked.                                                      *)

\* It has nothing to do, or getService finds nothing.
BoundAlready == lock = None /\ mSeh # 0 /\ UNCHANGED backendVars

NotFound == lock = None /\ mSeh = 0 /\ ~vendor.up /\ UNCHANGED backendVars

\* Mutant: each binding makes a bridge, and the tap stays with the one before.
NewBridge == mBridge' = TRUE /\ mTap' = FALSE

\* Mutant: the callback that is registered was never made.
NoBridge == UNCHANGED <<mBridge, mTap>>

\* The bridge is made once.
MakeBridge == mBridge' = TRUE /\ mTap' = mTap

\* Mutant: the service is looked up although one is bound.
FoundAgain(t) == /\ lock = None /\ vendor.up
                 /\ mSeh' = vendor.life
                 /\ MakeBridge
                 /\ lock' = t
                 /\ UNCHANGED vendor

\* getService finds the service, and sehSetCallback is called.
Found(t) == /\ lock = None /\ mSeh = 0 /\ vendor.up
            /\ mSeh' = vendor.life
            /\ MakeBridge
            /\ lock' = t
            /\ UNCHANGED vendor

\* The vendor service (external) takes the callback, or refuses it with a status
\* the code does not look at.
Registered(t) == /\ lock = t /\ Reachable
                 /\ \E client \in {"bridge", "refused"} :
                      vendor' = [vendor EXCEPT !.client = client]
                 /\ lock' = None
                 /\ UNCHANGED <<mSeh, mBridge, mTap>>

\* Mutant: the service stays bound although it has no callback.
KeptOnError(t) == lock = t /\ lock' = None /\ UNCHANGED <<vendor, mSeh, mBridge, mTap>>

\* A transport error: all is torn down but the bridge.
TornDown(t) == /\ lock = t
               /\ mSeh' = 0
               /\ lock' = None
               /\ UNCHANGED <<vendor, mBridge, mTap>>

-----------------------------------------------------------------------------
AttachPreviewTap == /\ lock = None
                    /\ mTap' = mBridge
                    /\ UNCHANGED <<vendor, mSeh, mBridge, lock>>

\* The process ends, and with it the callback the vendor service holds.
ProcessEnds == /\ mSeh' = 0 /\ mBridge' = FALSE /\ mTap' = FALSE /\ lock' = None
               /\ vendor' = [vendor EXCEPT !.client = "none"]

-----------------------------------------------------------------------------
(* The vendor service (external).                                          *)

VendorStarts == /\ ~vendor.up /\ vendor.life < MaxLives
                /\ vendor' = [up |-> TRUE, life |-> vendor.life + 1, op |-> "none",
                              client |-> "none"]
                /\ UNCHANGED <<mSeh, mBridge, mTap, lock>>

VendorDies == /\ vendor.up
              /\ vendor' = [vendor EXCEPT !.up = FALSE, !.op = "none", !.client = "none"]
              /\ UNCHANGED <<mSeh, mBridge, mTap, lock>>

Operates(stage) == /\ vendor' = [vendor EXCEPT !.op = stage]
                   /\ UNCHANGED <<mSeh, mBridge, mTap, lock>>

\* A preview frame; number 0 when the operation that ran is over.
VendorFrame == /\ vendor.client = "bridge" /\ Len(evq) < MaxQueue
               /\ \E arg \in Args["sehOnPreviewFrame"] :
                    evq' = Append(evq, [on |-> "sehOnPreviewFrame", arg |-> arg,
                                        id |-> IF vendor.op = "over" THEN 0 ELSE 1])
               /\ UNCHANGED <<mMode, mCb, pending, backendVars>>

-----------------------------------------------------------------------------
\* The service that is handed out has been offered the callback: a vendor
\* process that is up and bound is not left without it, whether a registration
\* fails half way, the vendor service restarts or this process does, "otherwise
\* every subsequent vendor event is silently dropped" (HidlBackend.cpp:45-47).
HandedOutIsRegistered == lock = None /\ Reachable => vendor.client # "none"
=============================================================================
