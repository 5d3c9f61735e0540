----------------------------- MODULE HashQuery -----------------------------
(***************************************************************************)
(* HashjoinRunQuery: copies the edges of each label into a hash array,     *)
(* pairs first with second edges, closes pairs with third edges, counts.   *)
(* One action per turn of an outer loop, and of the pairing's inner one.   *)
(*                                                                         *)
(* The arrays are on the stack and a free slot hashes to a negative index, *)
(* so the code reads and writes below the arrays it means.  What is there  *)
(* is modelled: the arrays lie below one another in the order in which     *)
(* they are declared, each aligned to 16 bytes, as gcc lays them out.      *)
(* Memory is a sequence of ints, an edge is three of them.                 *)
(***************************************************************************)
EXTENDS Integers, FiniteSets, FiniteSetsExt

CONSTANTS
  Databases,   \* tables to query, functions from 0 .. length - 1
  Queries,     \* triples of labels
  Garbage      \* what the padding between two arrays may contain

NoLabel == -1
Empty   == [fromNode |-> -1, toNode |-> -1, edgeLabel |-> NoLabel]

\* What the callers insert and ask for: node numbers and labels that no hash
\* overflows, in a table that has slots.
ASSUME DatabasesAssumption ==
  \A table \in Databases :
    /\ IsFiniteSet(DOMAIN table) /\ DOMAIN table # {}
    /\ table \in [0 .. Cardinality(DOMAIN table) - 1 ->
                    [fromNode : Nat, toNode : Nat, edgeLabel : Nat] \cup {Empty}]

ASSUME QueriesAssumption == Queries \subseteq [1 .. 3 -> Nat]

ASSUME GarbageAssumption == Garbage \subseteq Int

\* Sizes for which the arrays need no padding: those of tables that are
\* declared for an even number of edges.  And tables that have not filled up.
Unpadded(databases) == \A table \in databases : Cardinality(DOMAIN table) % 4 = 0
NoneFull(databases) == \A table \in databases : \E i \in DOMAIN table : table[i] = Empty

VARIABLES
  db,       \* the table, which the query only reads
  labels,   \* edgeLabel1, edgeLabel2, edgeLabel3
  mem,      \* the stack from the bottom of valids3 to the top of edge1matches
  phase,    \* 1, 2, 3: copying that label; 4: pairing; 5: closing; 6: counting; 7: done
  iter,     \* counter of the outer loop
  linear_proberE2M,   \* counter of the inner loop of the pairing
  already_inserted,   \* whether the edge of edge1matches is in valids1 already
  result    \* the count returned

vars == <<db, labels, mem, phase, iter, linear_proberE2M, already_inserted, result>>

hashTableSize == Cardinality(DOMAIN db)
Slots == 0 .. hashTableSize - 1

\* The arrays, from the lowest address to the highest.
valids3 == 0
valids2 == 1
valids1 == 2
Matches(k) == 6 - k   \* edge1matches, edge2matches, edge3matches
Arrays == 0 .. 5

\* 4 ints are 16 bytes.
PaddingFor(ints) == (-ints) % 4
Stride == 3 * hashTableSize + PaddingFor(3 * hashTableSize)
Memory == 0 .. 6 * Stride - 1
Padding == {a \in Memory : a % Stride >= 3 * hashTableSize}

\* The edge at index i of an array; i may be negative.
At(array, i) == array * Stride + 3 * i
Read(m, array, i) ==
  LET a == At(array, i)
  IN  [fromNode |-> m[a], toNode |-> m[a + 1], edgeLabel |-> m[a + 2]]
Write(m, array, i, e) ==
  LET a == At(array, i)
  IN  [m EXCEPT ![a] = e.fromNode, ![a + 1] = e.toNode, ![a + 2] = e.edgeLabel]

\* % truncates towards zero.
CRem(x, n) == IF x >= 0 THEN x % n ELSE -((-x) % n)
toHash(node)   == CRem(node * 7, hashTableSize)
fromHash(node) == CRem(node * 5, hashTableSize)
Probe(hash, lp) == CRem(hash + lp, hashTableSize)

\* The probes from number first on that find a free edge, and putting e there.
Free(m, array, hash, first, field) ==
  {lp \in first .. hashTableSize - 1 : Read(m, array, Probe(hash, lp))[field] = -1}
Insert(m, array, hash, first, field, e) ==
  LET free == Free(m, array, hash, first, field)
  IN  IF free = {} THEN m ELSE Write(m, array, Probe(hash, Min(free)), e)

Init ==
  /\ db \in Databases
  /\ labels \in Queries
  /\ \E garbage \in [Padding -> Garbage] :
       mem = [a \in Memory |-> IF a \in Padding THEN garbage[a] ELSE -1]
  /\ phase = 1
  /\ iter = 0
  /\ linear_proberE2M = 0 /\ already_inserted = FALSE
  /\ result = -1

\* Mistaken form: the loop has a turn too many.
TurnTooMany ==
  IF iter < hashTableSize
  THEN iter' = iter + 1 /\ UNCHANGED phase
  ELSE iter' = 0 /\ phase' = phase + 1

\* The counter of the outer loop, and the next loop when it is through.
Turn ==
  IF iter + 1 < hashTableSize
  THEN iter' = iter + 1 /\ UNCHANGED phase
  ELSE iter' = 0 /\ phase' = phase + 1

\* All edges of a label have one home, which the insertion never probes.
Copy ==
  /\ phase \in 1 .. 3
  /\ LET hash == IF phase = 1 THEN toHash(labels[1]) ELSE fromHash(labels[phase])
     IN  mem' = IF db[iter].edgeLabel = labels[phase]
                THEN Insert(mem, Matches(phase), hash, 1, "edgeLabel", db[iter])
                ELSE mem
  /\ Turn
  /\ UNCHANGED <<db, labels, linear_proberE2M, already_inserted, result>>

\* edge1matches[iter], and the edge of edge2matches it is compared with.  The
\* loop does not skip the free slots of edge1matches.
Edge1 == Read(mem, Matches(1), iter)
Edge2 == Read(mem, Matches(2), Probe(fromHash(Edge1.toNode), linear_proberE2M))

\* Mistaken form: only the first second edge is paired.
JoinsFirstOnly == Edge2.fromNode = Edge1.toNode /\ ~already_inserted

Joins == Edge2.fromNode = Edge1.toNode

\* The first edge goes to valids1 unless it is there already.
HasRoom1 == Free(mem, valids1, toHash(Edge1.toNode), 0, "edgeLabel") # {}
WithFirst ==
  IF already_inserted THEN mem
  ELSE Insert(mem, valids1, toHash(Edge1.toNode), 0, "edgeLabel", Edge1)

\* Mistaken form: the pair is labelled anew.
PairLabelledAnew ==
  Insert(WithFirst, valids2, fromHash(Edge1.fromNode), 0, "edgeLabel",
         [Edge2 EXCEPT !.edgeLabel = labels[2]])

\* The second edge goes to valids2 with each first edge it continues.
WithPair == Insert(WithFirst, valids2, fromHash(Edge1.fromNode), 0, "edgeLabel", Edge2)

Pair ==
  /\ phase = 4
  /\ mem' = IF Joins THEN WithPair ELSE mem
  /\ \/ /\ linear_proberE2M + 1 < hashTableSize
        /\ linear_proberE2M' = linear_proberE2M + 1
        /\ already_inserted' = (already_inserted \/ (Joins /\ HasRoom1))
        /\ UNCHANGED <<phase, iter>>
     \/ /\ linear_proberE2M + 1 = hashTableSize
        /\ linear_proberE2M' = 0 /\ already_inserted' = FALSE
        /\ Turn
  /\ UNCHANGED <<db, labels, result>>

\* edge3matches[iter].
Edge3 == Read(mem, Matches(3), iter)

\* Mistaken form: a free slot closes like an edge.
ClosesFreeSlots(edge3) ==
  /\ \E i \in Slots : Read(mem, valids1, Probe(toHash(edge3.toNode), i)).fromNode = edge3.toNode
  /\ \E i \in Slots : Read(mem, valids2, Probe(fromHash(edge3.fromNode), i)).toNode = edge3.fromNode

\* Mistaken form: the ends of the third edge are swapped.
ClosesSwapped(edge3) ==
  /\ edge3.toNode # -1
  /\ \E i \in Slots : Read(mem, valids1, i).fromNode = edge3.fromNode
  /\ \E i \in Slots : Read(mem, valids2, i).toNode = edge3.toNode

\* The two probes look for a first and a second edge, not for a pair of them.
Closes(edge3) ==
  /\ edge3.toNode # -1
  /\ \E i \in Slots : Read(mem, valids1, Probe(toHash(edge3.toNode), i)).fromNode = edge3.toNode
  /\ \E i \in Slots : Read(mem, valids2, Probe(fromHash(edge3.fromNode), i)).toNode = edge3.fromNode

Close ==
  /\ phase = 5
  /\ mem' = IF Closes(Edge3)
            THEN Insert(mem, valids3, toHash(Edge3.toNode), 0, "fromNode", Edge3)
            ELSE mem
  /\ Turn
  /\ UNCHANGED <<db, labels, linear_proberE2M, already_inserted, result>>

Labelled(array) == Cardinality({i \in Slots : Read(mem, array, i).edgeLabel # NoLabel})

Count ==
  /\ phase = 6
  /\ phase' = 7
  /\ LET counts == {Labelled(valids1), Labelled(valids2), Labelled(valids3)}
     IN  result' = IF 0 \in counts THEN 0 ELSE Max(counts)
  /\ UNCHANGED <<db, labels, mem, iter, linear_proberE2M, already_inserted>>

Returned == phase = 7 /\ UNCHANGED vars

Next == Copy \/ Pair \/ Close \/ Count \/ Returned

Spec == Init /\ [][Next]_vars

-----------------------------------------------------------------------------
TypeOK ==
  /\ mem \in [Memory -> Int]
  /\ phase \in 1 .. 7
  /\ iter \in Slots /\ linear_proberE2M \in Slots
  /\ already_inserted \in BOOLEAN
  /\ result \in -1 .. hashTableSize

\* The edges that a turn of the pairing or of the closing may read or write.
Reach(array, hash) == {At(array, Probe(hash, lp)) : lp \in Slots}
Touched ==
  CASE phase = 4 -> Reach(Matches(2), fromHash(Edge1.toNode))
                      \cup Reach(valids1, toHash(Edge1.toNode))
                      \cup Reach(valids2, fromHash(Edge1.fromNode))
    [] phase = 5 -> Reach(valids1, toHash(Edge3.toNode))
                      \cup Reach(valids2, fromHash(Edge3.fromNode))
                      \cup IF Closes(Edge3) THEN Reach(valids3, toHash(Edge3.toNode)) ELSE {}
    [] OTHER -> {}

(***************************************************************************)
(* A free slot makes the query leave the array it means, but never the six *)
(* arrays: the pairing writes no array with none below it, and the closing *)
(* writes the lowest one for edges in use only.                            *)
(***************************************************************************)
StaysInArrays == \A a \in Touched : {a, a + 1, a + 2} \subseteq Memory

\* What the query is to count: triples of edges that close a triangle.
With(k) == {i \in Slots : db[i].edgeLabel = labels[k]}
Pairs == {p \in With(1) \X With(2) : db[p[1]].toNode = db[p[2]].fromNode}
Triangles ==
  {t \in Pairs \X With(3) :
     /\ db[t[1][2]].toNode = db[t[2]].fromNode
     /\ db[t[2]].toNode = db[t[1][1]].fromNode}

(***************************************************************************)
(* The query returns the number of triangles found.                        *)
(***************************************************************************)
CountsTriangles == phase = 7 => result = Cardinality(Triangles)

\* Every edge the query looks at lies in one triangle, which meets no other.
Matching == With(1) \cup With(2) \cup With(3)
DisjointTriangles ==
  /\ \A i, j \in Matching : i # j => /\ db[i].fromNode # db[j].fromNode
                                     /\ db[i].toNode # db[j].toNode
  /\ \A i \in Matching : \E t \in Triangles : i \in {t[1][1], t[1][2], t[2]}

(***************************************************************************)
(* On triangles without a common node, among edges with other labels, the  *)
(* query counts right, in whatever slots insertions left the edges.        *)
(***************************************************************************)
CountsDisjointTriangles ==
  phase = 7 /\ DisjointTriangles => result = Cardinality(Triangles)

(***************************************************************************)
(* No triangle is missed for a full array: the query answers 0 only when   *)
(* there is none, as long as valids2 has room for all pairs of a first and *)
(* a second edge and an array has room for all edges of a label.  Pairs    *)
(* may be quadratic in number: beyond that room the code drops them.       *)
(***************************************************************************)
ZeroMeansNoneWithRoom ==
  /\ Cardinality(Pairs) <= hashTableSize
  /\ \A k \in 1 .. 3 : Cardinality(With(k)) < hashTableSize
  => (phase = 7 /\ result = 0 => Triangles = {})

(***************************************************************************)
(* A free slot of edge1matches, whose negative hash makes the pairing read *)
(* and write below its arrays, joins nothing and changes nothing.          *)
(***************************************************************************)
FreeSlotsJoinNothing ==
  [][phase = 4 /\ Edge1 = Empty => UNCHANGED mem]_vars

=============================================================================
