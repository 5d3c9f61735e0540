------------------------- MODULE MCSortedGenerator -------------------------
(* Calls of both generators: small matrices with every number of edges up  *)
(* to MaxEdges, and larger ones on which edgeOverflow ends the division    *)
(* sooner or later, some of them with numbers of edges that noise may      *)
(* round either way.                                                       *)
EXTENDS SortedGenerator

CONSTANT MaxEdges

MCShare == [p \in 0 .. 2 |-> IF p = 0 THEN 450 ELSE 220]

Call(sorted, n, v, w, capacity, directed, duplicates) ==
  [sorted |-> sorted, nEdges |-> n, nVertices |-> v, nCPUWorkerThreads |-> w,
   standardCapacity |-> capacity, directedGraph |-> directed,
   allowEdgeToSelf |-> FALSE, allowDuplicateEdges |-> duplicates]

Small == {Call(sorted, n, v, w, IF sorted THEN 7 ELSE 2, directed, duplicates) :
            sorted, directed, duplicates \in BOOLEAN,
            n \in 0 .. MaxEdges, v \in {3, 4}, w \in {1, 3}}

\* Two vertices: squares without width at once.
Smallest == {Call(sorted, n, 1, 3, 7, directed, TRUE) :
               sorted, directed \in BOOLEAN, n \in 0 .. 3}

Large == {Call(sorted, n, v, w, 100, TRUE, TRUE) :
            sorted \in BOOLEAN, n \in {11, 20, 40, 85}, v \in {8, 11, 16}, w \in {3, 5}}

\* Columns that are within the capacity only after a second pass.
TwoPasses == {Call(TRUE, n, 8, 2, 5, directed, TRUE) : n \in {9, 11}, directed \in BOOLEAN}

MCCalls == Small \cup Smallest \cup Large \cup TwoPasses
=============================================================================
