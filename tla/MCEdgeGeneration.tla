-------------------------- MODULE MCEdgeGeneration --------------------------
(* Graphs of up to five vertices: those generate_graph_in_vector makes, and *)
(* calls of both generators with every combination of flags, on matrices    *)
(* that are divided for threads, for capacity, or not at all.  The sorted   *)
(* generator has a column for every thread, too few of them, or one alone.  *)
EXTENDS EdgeGeneration

MCShare == [p \in 0 .. 2 |-> IF p = 0 THEN 450 ELSE 220]

Entry == {generate_graph_in_vector(n, v) : n \in 1 .. 3, v \in 3 .. 4}
           \cup {generate_graph_in_vector(5, 5)}

Call(sorted, size, directed, self, duplicates) ==
  [sorted |-> sorted, nEdges |-> size[1], nVertices |-> size[2],
   nCPUWorkerThreads |-> 2, standardCapacity |-> size[3], directedGraph |-> directed,
   allowEdgeToSelf |-> self, allowDuplicateEdges |-> duplicates]

\* Number of edges, number of vertices and capacity.
Direct ==
  {Call(sorted, size, directed, self, duplicates) :
     sorted, directed, self, duplicates \in BOOLEAN,
     size \in {<<0, 3, 4>>, <<3, 3, 4>>, <<4, 1, 4>>, <<4, 1, 3>>, <<5, 2, 4>>}}
  \cup {Call(sorted, <<5, 4, 5>>, directed, FALSE, FALSE) : sorted, directed \in BOOLEAN}

\* Two columns for three threads: the second is lost.
TooFewColumns ==
  {[Call(TRUE, <<3, 4, 3>>, directed, FALSE, duplicates) EXCEPT !.nCPUWorkerThreads = 3] :
     directed, duplicates \in BOOLEAN}

MCCalls == Entry \cup Direct \cup TooFewColumns
=============================================================================
