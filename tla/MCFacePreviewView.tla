-------------------------- MODULE MCFacePreviewView --------------------------
(* A view that binds up to twice and another client with one listener.     *)
EXTENDS FacePreviewView, TLC

CONSTANTS v1, c2

MCClient == {v1, c2}
MCView == {v1}
MCListener == {<<v1, 1>>, <<v1, 2>>, <<c2, 1>>}
MCCookie == 1..3
=============================================================================
