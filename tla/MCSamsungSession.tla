-------------------------- MODULE MCSamsungSession --------------------------
(* Two sessions of two users, one of which may have a userId the           *)
(* constructor refuses; one binder thread or two.                          *)
EXTENDS SamsungSession, TLC

CONSTANTS s1, s2, t1, t2

MCSessions == {s1, s2}
MCOneThread == {t1}
MCTwoThreads == {t1, t2}
MCOnlyFirst == {s1}

MCOperations == {"enroll", "authenticate"}
MCRequests == AllMethods \ {"enroll", "authenticate"}
MCReported == {"enroll", "authenticate", "enumerateEnrollments", "removeEnrollments"}
MCEnroll == {"enroll"}
MCAuthenticate == {"authenticate"}

MCAllEvents == Handler
MCVerdicts == {"onEnrollResult", "sehOnAuthenticated"}
MCProgress == {"onEnrollResult", "onAuthenticated"}
MCNone == {}

\* Sessions and threads are interchangeable: only sets of them appear.
MCSymmetry == Permutations(MCSessions) \cup Permutations(MCTwoThreads)
=============================================================================
