---------------------------- MODULE FrameGeometry ----------------------------
(***************************************************************************)
(* The arithmetic of a preview frame: the check of sehOnPreviewFrame       *)
(* (HidlCallbackBridge.cpp), the check of the view on the same frame, and  *)
(* where the view draws it (FacePreviewView.java).                         *)
(*                                                                         *)
(* The 64-bit size of the shared memory is hi * 2^31 + lo.  Floats are     *)
(* rationals: a coordinate is kept times 2 * Den, without rounding.        *)
(***************************************************************************)
EXTENDS Integers

Int32Max == 32767 * 65536 + 65535
Frame == [w: Int, h: Int, hi: Nat, lo: 0..Int32Max]

Nv21Min(w, h) == (w * h * 3) \div 2

\* Mutant: the lower bound alone.
AdmittedUnbounded(f) ==
  /\ f.w > 0 /\ f.h > 0 /\ f.w <= 4096 /\ f.h <= 4096
  /\ f.hi > 0 \/ f.lo >= Nv21Min(f.w, f.h)

\* The bridge hands the frame on.
Admitted(f) ==
  /\ f.w > 0 /\ f.h > 0 /\ f.w <= 4096 /\ f.h <= 4096
  /\ f.hi = 0 /\ f.lo <= 16 * 1024 * 1024 /\ f.lo >= Nv21Min(f.w, f.h)

\* static_cast<int32_t>(size): bit 31 of the size is bit 0 of hi.
Int32Size(f) == IF f.hi % 2 = 0 THEN f.lo ELSE (f.lo - Int32Max) - 1

\* The view renders onFrame(size, w, h).
Renders(size, w, h) ==
  /\ w > 0 /\ h > 0 /\ w <= 4096 /\ h <= 4096
  /\ size > 0 /\ size <= 16 * 1024 * 1024 /\ size >= Nv21Min(w, h)

-----------------------------------------------------------------------------
(* renderFrame's matrix, for a w x h frame in a vw x vh view on a display  *)
(* turned by turn degrees.                                                 *)

Rotation(turn) == (270 + turn) % 360
Swapped(turn) == Rotation(turn) % 180 # 0

\* The width and the height of the rotated frame.
SrcW(w, h, turn) == IF Swapped(turn) THEN h ELSE w
SrcH(w, h, turn) == IF Swapped(turn) THEN w ELSE h

\* scale = Num / Den, and the comparison of the aspects.
WiderThanView(w, h, vw, vh, turn) ==
  SrcW(w, h, turn) * vh > vw * SrcH(w, h, turn)
Num(w, h, vw, vh, turn) == IF WiderThanView(w, h, vw, vh, turn) THEN vh ELSE vw
Den(w, h, vw, vh, turn) ==
  IF WiderThanView(w, h, vw, vh, turn) THEN SrcH(w, h, turn) ELSE SrcW(w, h, turn)

\* postRotate about (cx, cy), clockwise as the y axis points down.
Rotate(p, cx, cy, deg) ==
  CASE deg = 0 -> p
    [] deg = 90 -> <<cx - (p[2] - cy), cy + (p[1] - cx)>>
    [] deg = 180 -> <<2 * cx - p[1], 2 * cy - p[2]>>
    [] deg = 270 -> <<cx + (p[2] - cy), cy - (p[1] - cx)>>

\* Mutant: the rotated frame is not brought back to the origin.
UnswapNothing(p, w, h, turn) == p

\* The translation of a frame on its side, in half pixels.
Unswap(p, w, h, turn) ==
  IF Swapped(turn) THEN <<p[1] + (h - w), p[2] + (w - h)>> ELSE p

\* Where the point p of the bitmap is drawn.
Drawn(p, w, h, vw, vh, turn) ==
  LET half == Unswap(Rotate(<<2 * p[1], 2 * p[2]>>, w, h, Rotation(turn)), w, h, turn)
      num == Num(w, h, vw, vh, turn)
      den == Den(w, h, vw, vh, turn)
  IN <<half[1] * num + (vw * den - SrcW(w, h, turn) * num),
       half[2] * num + (vh * den - SrcH(w, h, turn) * num)>>

\* The rectangle of the drawn bitmap, in units of 1 / (2 * Den).
Placement(w, h, vw, vh, turn) ==
  LET a == Drawn(<<0, 0>>, w, h, vw, vh, turn)
      b == Drawn(<<w, h>>, w, h, vw, vh, turn)
      Low(i) == IF a[i] <= b[i] THEN a[i] ELSE b[i]
      High(i) == IF a[i] <= b[i] THEN b[i] ELSE a[i]
  IN [left |-> Low(1), right |-> High(1), top |-> Low(2), bottom |-> High(2),
      unit |-> 2 * Den(w, h, vw, vh, turn)]
=============================================================================
