--------------------------- MODULE MCBridgeRouting ---------------------------
(* Two sessions, events caused by call 1 or by none, at most two queued.   *)
EXTENDS BridgeRouting, TLC

CONSTANTS s1, s2

MCSession == {s1, s2}
=============================================================================
