---------------------------- MODULE MCPreviewPath ----------------------------
(* One session; the main thread and one more.                              *)
EXTENDS PreviewPath, TLC

CONSTANTS s1, t1, t2

MCSession == {s1}
MCThread == {t1, t2}
=============================================================================
