-------------------------- MODULE MCSortMergeQuery --------------------------
(* Databases of four slots with every multiset of the edges below - two    *)
(* triangles through the nodes 0 and 2, an edge that joins but closes no   *)
(* triangle, an edge with a label no query asks for, free slots -, two     *)
(* separate triangles in six slots, and triangles with two or three edges  *)
(* of one label.  The order of the slots is free to be fixed, as the query *)
(* sorts copies of them.                                                   *)
EXTENDS SortMergeQuery, Sequences

E(f, t, l) == [fromNode |-> f, toNode |-> t, edgeLabel |-> l]

Pool == <<Empty, E(0, 1, 0), E(1, 2, 1), E(2, 0, 2), E(0, 3, 0), E(3, 2, 1), E(2, 1, 0), E(1, 0, 5)>>

Picks == {f \in [1 .. 4 -> 1 .. Len(Pool)] : \A i \in 1 .. 3 : f[i] <= f[i + 1]}

TwoTriangles == <<E(0, 1, 0), E(1, 2, 1), E(2, 0, 2), E(3, 4, 0), E(4, 5, 1), E(5, 3, 2)>>

\* More pairs than slots when all three labels are the same.
Doubled == <<E(0, 1, 0), E(0, 1, 0), E(1, 0, 0), E(1, 0, 0)>>

OneLabel == <<E(0, 1, 0), E(1, 2, 0), E(2, 0, 0), E(0, 2, 5)>>

TwoAlike == <<E(0, 1, 0), E(1, 2, 0), E(2, 0, 1), Empty>>

MCDatabases ==
  {[i \in 0 .. 3 |-> Pool[f[i + 1]]] : f \in Picks}
    \cup {[i \in 0 .. 5 |-> TwoTriangles[i + 1]]}
    \cup {[i \in 0 .. 3 |-> s[i + 1]] : s \in {OneLabel, TwoAlike, Doubled}}

MCQueries == {<<0, 1, 2>>, <<0, 0, 1>>, <<0, 0, 0>>}
=============================================================================
