----------------------------- MODULE MCDataPaths -----------------------------
(* Tokens with one byte marked, tokens whose bytes all differ, wrong lengths *)
(* and versions; frames at the edges of the checks; three views.             *)
EXTENDS DataPaths, TLC

\* The token whose byte number at, of 36, is b; the bytes of spread differ.
Hatted(byte(_), n) ==
  [challenge |-> [k \in 0..7 |-> byte(k)], userId |-> [k \in 0..7 |-> byte(8 + k)],
   authenticatorId |-> [k \in 0..7 |-> byte(16 + k)],
   authenticatorType |-> [k \in 0..3 |-> byte(24 + k)],
   timestamp |-> [k \in 0..7 |-> byte(28 + k)],
   mac |-> [k \in 1..n |-> byte(35 + k)]]

MCHats == {Hatted(LAMBDA k : IF k = at THEN 255 ELSE 0, 32) : at \in 0..67}
          \cup {Hatted(LAMBDA k : 10 + k, n) : n \in {0, 31, 32, 33}}

MCTokens == {[i \in 1..n |-> IF i = 1 THEN 0 ELSE 100 + i] : n \in {0, 1, 68, 69, 70}}
            \cup {[i \in 1..69 |-> IF i = at THEN 128 ELSE 0] : at \in 1..69}

Dim == {-1, 0, 1, 2, 3, 480, 640, 4096, 4097}
MCFrames ==
  {[w |-> w, h |-> h, hi |-> hi, lo |-> lo] :
     w \in Dim, h \in Dim, hi \in {0, 1, 2},
     lo \in {0, 1, 5, 460799, 460800, 16777216, 16777217, Int32Max}}

MCViews == {[vw |-> d[1], vh |-> d[2], turn |-> turn] :
              d \in {<<720, 1280>>, <<1280, 720>>, <<333, 333>>},
              turn \in {0, 90, 180, 270}}
=============================================================================
