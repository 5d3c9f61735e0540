------------------------- MODULE MCThreadsafeQueue -------------------------
(* Three threads, each of which may push and pop, and three values: two    *)
(* poppers can compete for the node a pusher is writing.                   *)
EXTENDS ThreadsafeQueue, TLC

CONSTANTS t1, t2, t3, v1, v2, v3

MCThreads == {t1, t2, t3}
MCValues  == {v1, v2, v3}
MCSymmetry == Permutations(MCThreads) \cup Permutations(MCValues)
=============================================================================
