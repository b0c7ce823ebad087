------------------------------ MODULE DataPaths ------------------------------
(***************************************************************************)
(* What the service and the preview client compute on the data that passes *)
(* through: tokens to and from the vendor HAL, and preview frames.  Each   *)
(* step is one call; step keeps its argument and its result.               *)
(***************************************************************************)
EXTENDS HatCodec, FrameGeometry

CONSTANTS Hats,      \* the tokens the framework passes
          Tokens,    \* the byte vectors the vendor HAL reports
          Frames,    \* the frames it sends
          Views      \* the views: [vw, vh, turn]

ASSUME DataAssumption ==
  /\ Hats \subseteq Hat
  /\ Tokens \subseteq Bytes
  /\ Frames \subseteq Frame
  /\ None \notin [left: Int, right: Int, top: Int, bottom: Int, unit: Int]
  /\ Views \subseteq [vw: Nat \ {0}, vh: Nat \ {0}, turn: {0, 90, 180, 270}]

VARIABLE step

Start == [op |-> "start", arg |-> None, res |-> None]

Init == step = Start

Did(op, arg, res) == step' = [op |-> op, arg |-> arg, res |-> res]

\* enroll does not call the vendor HAL with an empty vector.
Enroll(hat) ==
  Did("enroll", hat, IF HatToBytes(hat) = <<>> THEN None ELSE HatToBytes(hat))

\* setFeature and resetLockout call it all the same.
PassToken(hat) == Did("passToken", hat, HatToBytes(hat))

\* The vendor HAL reports a vector of its own, or the one it was given.
Reported == Tokens \cup (IF step.op \in {"enroll", "passToken"} /\ step.res # None
                           THEN {step.res} ELSE {})

OnAuthenticated == \E token \in Reported :
                     Did("onAuthenticated", token, OnAuthenticatedHat(token))

SehOnAuthenticated == \E token \in Reported :
                        Did("sehOnAuthenticated", token, SehOnAuthenticatedHat(token))

\* The frame as dispatchFrame gets it, or None.
SehOnPreviewFrame(f) ==
  Did("sehOnPreviewFrame", f,
      IF Admitted(f) THEN [size |-> Int32Size(f), w |-> f.w, h |-> f.h] ELSE None)

\* The view gets the frame that was dispatched.
RenderFrame(v) ==
  /\ step.op = "sehOnPreviewFrame" /\ step.res # None
  /\ LET f == step.res
     IN Did("renderFrame", v,
            IF Renders(f.size, f.w, f.h)
              THEN Placement(f.w, f.h, v.vw, v.vh, v.turn) ELSE None)

Next == \/ \E hat \in Hats : Enroll(hat) \/ PassToken(hat)
        \/ OnAuthenticated
        \/ SehOnAuthenticated
        \/ \E f \in Frames : SehOnPreviewFrame(f)
        \/ \E v \in Views : RenderFrame(v)

Spec == Init /\ [][Next]_step

-----------------------------------------------------------------------------
\* A token that is sent says what the framework's said, field by field, and one
\* with a MAC of another length is not sent at all (SamsungSession.cpp:33-47): what
\* parseHat would read from the bytes is the token, whatever the values.
HatArrivesWhole ==
  step.op \in {"enroll", "passToken"} /\ step.res # None =>
    IF Len(step.arg.mac) = 32
      THEN ParseHat(step.res) = step.arg
      ELSE step.op = "passToken" /\ step.res = <<>>

\* A token the framework is told of is the vendor HAL's to the last byte but for
\* its type, which is NONE; the default one replaces what is not a token, and for
\* onAuthenticated alone (HidlCallbackBridge.cpp:184-205, 283-291).
ReportedHatIsVendors ==
  step.op \in {"onAuthenticated", "sehOnAuthenticated"} /\ step.res # None =>
    /\ step.res.authenticatorType = NoType
    /\ IF Len(step.arg) = 69 /\ step.arg[1] = 0
         THEN HatToBytes([step.res EXCEPT !.authenticatorType = ReadBE32(step.arg, 25)])
                = step.arg
         ELSE step.op = "onAuthenticated" /\ step.res = DefaultHat

\* The view renders every frame the bridge hands on: the size survives the cast
\* to int32, and the two checks agree (HidlCallbackBridge.cpp:300-317,
\* FacePreviewView.java:155-165).
AdmittedIsRendered ==
  /\ step.op = "sehOnPreviewFrame" /\ step.res # None => step.res.size = step.arg.lo
  /\ step.op = "renderFrame" => step.res # None

\* The preview fills the view, centred, and is cut off in one dimension at most,
\* whatever the rotation of the display (FacePreviewView.java:205-230).
PreviewCoversView ==
  step.op = "renderFrame" /\ step.res # None =>
    LET r == step.res
        vw == step.arg.vw * r.unit
        vh == step.arg.vh * r.unit
    IN /\ r.left <= 0 /\ r.right >= vw /\ r.left + r.right = vw
       /\ r.top <= 0 /\ r.bottom >= vh /\ r.top + r.bottom = vh
       /\ r.left = 0 \/ r.top = 0
=============================================================================
