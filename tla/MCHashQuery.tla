---------------------------- MODULE MCHashQuery ----------------------------
(* Tables as the insertions of HashStore fill them: stores declared for    *)
(* two and four edges, filled with every multiset of edges below in this   *)
(* order (triangles that share nodes and edges, an edge that joins but     *)
(* closes no triangle, an edge with a label no query asks for), and one    *)
(* declared for six with two separate triangles.  Even sizes: the arrays   *)
(* need no padding.                                                        *)
EXTENDS HashQuery, Sequences, SequencesExt

Inserted(table, e) ==
  LET length == Cardinality(DOMAIN table)
      slot(quad) == (e.fromNode * 5 + e.toNode * 7 + e.edgeLabel * 11 + quad) % length
      hits == {quad \in 1 .. length - 1 : table[slot(quad)] = Empty}
  IN  IF hits = {} THEN table ELSE [table EXCEPT ![slot(Min(hits))] = e]

Load(declared, edges) == FoldLeft(Inserted, [i \in 0 .. 2 * declared - 1 |-> Empty], edges)

E(f, t, l) == [fromNode |-> f, toNode |-> t, edgeLabel |-> l]

Pool == <<E(0, 1, 0), E(1, 2, 1), E(2, 0, 2), E(0, 3, 0), E(3, 2, 1), E(2, 1, 0), E(1, 0, 5),
          E(1, 3, 1), E(3, 0, 2)>>

Picks(k) == {f \in [1 .. k -> 1 .. Len(Pool)] : \A i \in 1 .. k - 1 : f[i] <= f[i + 1]}

Triangle == <<E(0, 1, 0), E(1, 2, 1), E(2, 0, 2)>>
TwoTriangles == Triangle \o <<E(3, 4, 0), E(4, 5, 1), E(5, 3, 2)>>
OneLabel == <<E(0, 1, 0), E(1, 2, 0), E(2, 0, 0), E(0, 2, 5)>>

MCDatabases ==
  {Load(2, [i \in 1 .. 2 |-> Pool[f[i]]]) : f \in Picks(2)}
    \cup {Load(4, [i \in 1 .. 4 |-> Pool[f[i]]]) : f \in Picks(4)}
    \cup {Load(6, TwoTriangles), Load(4, OneLabel)}

\* The theorems of HashQueryProofs are about tables like these.
ASSUME MCAssumption == Unpadded(MCDatabases) /\ NoneFull(MCDatabases)

MCQueries  == {<<0, 1, 2>>, <<0, 0, 0>>}

\* The single triangle of the tests, in a store declared for seven edges.
OddDatabases == {Load(7, Triangle)}

OneQuery == {<<0, 1, 2>>}
=============================================================================
