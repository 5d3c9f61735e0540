--------------------------- MODULE SortMergeQuery ---------------------------
(***************************************************************************)
(* SortMergeJoinRunQuery: three merge joins over copies of the slot array  *)
(* and a count.  One action per turn of a merge loop.  The result depends  *)
(* on two things the code leaves open: the order in which qsort puts edges *)
(* with equal keys, and what lies in memory just behind a full array, with *)
(* which the tests for a repeated key compare.                             *)
(***************************************************************************)
EXTENDS Integers, FiniteSets, Functions

CONSTANTS
  Databases,   \* slot arrays to query, functions from 0 .. length - 1
  Queries      \* triples of labels

NoLabel == -1
Empty   == [fromNode |-> -1, toNode |-> -1, edgeLabel |-> NoLabel]

\* What the callers insert and ask for: node numbers and labels from 0 on.
ASSUME DatabasesAssumption ==
  \A slots \in Databases :
    /\ IsFiniteSet(DOMAIN slots)
    /\ slots \in [0 .. Cardinality(DOMAIN slots) - 1 ->
                    [fromNode : Nat, toNode : Nat, edgeLabel : Nat] \cup {Empty}]

ASSUME QueriesAssumption == Queries \subseteq [1 .. 3 -> Nat]

VARIABLES
  db,         \* the slot array, which the query only reads
  labels,     \* edgeLabel1, edgeLabel2, edgeLabel3
  join,       \* the join in progress, 4 when they are done, 5 after the count
  matches,    \* edge1matches, edge2matches, edge3matches
  valids,     \* valids1, valids2, valids3, valids3_FINAL
  leftIter, rightIter, validIter,
  overrun,    \* a write behind the end of an array: undefined from here on
  result      \* numTriangles

n     == Cardinality(DOMAIN db)   \* totNoEdges
Slots == 0 .. n - 1
Blank == [i \in Slots |-> Empty]

vars == <<db, labels, join, matches, valids, leftIter, rightIter, validIter, overrun, result>>

\* The two inputs of a join: joined on left.toNode = right.fromNode.
Left  == CASE join = 1 -> matches[1] [] join = 2 -> valids[2] [] join = 3 -> valids[3]
Right == CASE join = 1 -> matches[2] [] join = 2 -> matches[3] [] join = 3 -> valids[1]

\* The arrays whose next element tells whether a key repeats.
LeftAhead  == IF join = 1 THEN matches[1] ELSE valids[2]
RightAhead == IF join = 1 THEN matches[2] ELSE matches[3]

\* Mistaken filter: edges with another label are copied as well.
FilterKeepsAll(array, label) == array

Filter(array, label) ==
  [i \in DOMAIN array |-> IF array[i].edgeLabel = label THEN array[i] ELSE Empty]

\* Everything qsort may make of an array: equal keys come in any order.
Reorderings(array) ==
  {[i \in DOMAIN array |-> array[p[i]]] : p \in Bijection(DOMAIN array, DOMAIN array)}
SortedByTo(array) ==
  {a \in Reorderings(array) : \A i \in DOMAIN a \ {0} : a[i - 1].toNode <= a[i].toNode}
SortedByFrom(array) ==
  {a \in Reorderings(array) : \A i \in DOMAIN a \ {0} : a[i - 1].fromNode <= a[i].fromNode}

Init ==
  /\ db \in Databases
  /\ labels \in Queries
  /\ join = 1
  /\ \E m1 \in SortedByTo(Filter(db, labels[1])), m2 \in SortedByFrom(Filter(db, labels[2])) :
       matches = <<m1, m2, Filter(db, labels[3])>>
  /\ valids = <<Blank, Blank, Blank, Blank>>
  /\ leftIter = 0 /\ rightIter = 0 /\ validIter = 0
  /\ overrun = FALSE
  /\ result = -1

InJoin == join <= 3 /\ leftIter < n /\ rightIter < n /\ ~overrun

SkipsLeft  == \/ Left[leftIter].toNode = -1
              \/ /\ Right[rightIter].fromNode # -1
                 /\ Left[leftIter].toNode < Right[rightIter].fromNode
SkipsRight == /\ Left[leftIter].toNode # -1
              /\ \/ Right[rightIter].fromNode = -1
                 \/ Right[rightIter].fromNode < Left[leftIter].toNode

\* Mistaken form: an edge of the right side that joins nothing is not skipped.
SkipForgetsRight ==
  /\ InJoin
  /\ SkipsLeft /\ leftIter' = leftIter + 1
  /\ UNCHANGED <<db, labels, join, matches, valids, rightIter, validIter, overrun, result>>

Skip ==
  /\ InJoin
  /\ \/ SkipsLeft /\ leftIter' = leftIter + 1 /\ UNCHANGED rightIter
     \/ SkipsRight /\ rightIter' = rightIter + 1 /\ UNCHANGED leftIter
  /\ UNCHANGED <<db, labels, join, matches, valids, validIter, overrun, result>>

\* Outcomes of comparing the key at place i with the one behind it.
LeftRepeats  == IF leftIter + 1 < n THEN {LeftAhead[leftIter + 1].toNode = Left[leftIter].toNode}
                                    ELSE BOOLEAN
RightRepeats == IF rightIter + 1 < n THEN {RightAhead[rightIter + 1].fromNode = Right[rightIter].fromNode}
                                     ELSE BOOLEAN

Output ==
  CASE join = 1 -> [valids EXCEPT ![1][validIter] = matches[1][leftIter],
                                  ![2][validIter] = matches[2][leftIter]]
    [] join = 2 -> [valids EXCEPT ![3][validIter] = matches[3][rightIter]]
    [] join = 3 -> [valids EXCEPT ![4][validIter] = valids[3][rightIter]]

\* Mistaken bound: the cursor of the output may reach its length.
MatchOffByOne ==
  /\ InJoin
  /\ ~SkipsLeft /\ ~SkipsRight
  /\ validIter <= n
  /\ valids' = Output
  /\ validIter' = validIter + 1
  /\ \E leftAgain \in LeftRepeats, rightAgain \in RightRepeats :
       /\ leftIter' = IF leftAgain \/ ~rightAgain THEN leftIter + 1 ELSE leftIter
       /\ rightIter' = IF leftAgain THEN rightIter ELSE rightIter + 1
  /\ UNCHANGED <<db, labels, join, matches, overrun, result>>

Match ==
  /\ InJoin
  /\ ~SkipsLeft /\ ~SkipsRight
  /\ validIter < n
  /\ valids' = Output
  /\ validIter' = validIter + 1
  /\ \E leftAgain \in LeftRepeats, rightAgain \in RightRepeats :
       /\ leftIter' = IF leftAgain \/ ~rightAgain THEN leftIter + 1 ELSE leftIter
       /\ rightIter' = IF leftAgain THEN rightIter ELSE rightIter + 1
  /\ UNCHANGED <<db, labels, join, matches, overrun, result>>

Overrun ==
  /\ InJoin
  /\ ~SkipsLeft /\ ~SkipsRight
  /\ validIter >= n
  /\ overrun' = TRUE
  /\ UNCHANGED <<db, labels, join, matches, valids, leftIter, rightIter, validIter, result>>

NextJoin ==
  /\ join <= 3 /\ ~InJoin /\ ~overrun
  /\ join' = join + 1
  /\ \/ /\ join = 1
        /\ \E v2 \in SortedByTo(valids[2]), m3 \in SortedByFrom(matches[3]) :
             valids' = [valids EXCEPT ![2] = v2] /\ matches' = [matches EXCEPT ![3] = m3]
     \/ /\ join = 2
        /\ \E v3 \in SortedByTo(valids[3]), v1 \in SortedByFrom(valids[1]) :
             valids' = [valids EXCEPT ![3] = v3, ![1] = v1]
        /\ UNCHANGED matches
     \/ join = 3 /\ UNCHANGED <<valids, matches>>
  /\ leftIter' = 0 /\ rightIter' = 0 /\ validIter' = 0
  /\ UNCHANGED <<db, labels, overrun, result>>

Labelled(array) == Cardinality({i \in Slots : array[i].edgeLabel # NoLabel})

Count ==
  /\ join = 4
  /\ join' = 5
  /\ LET counts == {Labelled(valids[k]) : k \in {1, 2, 4}}
     IN  result' = CHOOSE c \in counts : \A d \in counts : c <= d
  /\ UNCHANGED <<db, labels, matches, valids, leftIter, rightIter, validIter, overrun>>

\* numTriangles is returned, or the process has written over its stack.
Ended == (join = 5 \/ overrun) /\ UNCHANGED vars

Next == Skip \/ Match \/ Overrun \/ NextJoin \/ Count \/ Ended

Spec == Init /\ [][Next]_vars

\* The query is a sequential program: it goes on as long as it can.
FairSpec == Spec /\ WF_vars(Next)

-----------------------------------------------------------------------------
Elements == {db[i] : i \in Slots} \cup {Empty}

TypeOK ==
  /\ join \in 1 .. 5
  /\ \A k \in 1 .. 3 : matches[k] \in [Slots -> Elements]
  /\ \A k \in 1 .. 4 : valids[k] \in [Slots -> Elements]
  /\ leftIter \in 0 .. n /\ rightIter \in 0 .. n /\ validIter \in 0 .. n
  /\ overrun \in BOOLEAN
  /\ result \in -1 .. n

\* What the query is to count: triples of edges that close a triangle.
Triangles ==
  {t \in Slots \X Slots \X Slots :
     /\ \A k \in 1 .. 3 : db[t[k]].edgeLabel = labels[k]
     /\ db[t[1]].toNode = db[t[2]].fromNode
     /\ db[t[2]].toNode = db[t[3]].fromNode
     /\ db[t[3]].toNode = db[t[1]].fromNode}

(***************************************************************************)
(* The query returns the number of triangles found.                        *)
(***************************************************************************)
CountsTriangles == join = 5 => result = Cardinality(Triangles)

\* Every edge the query looks at lies in one triangle, which meets no other.
Matching == {i \in Slots : \E k \in 1 .. 3 : db[i].edgeLabel = labels[k]}
DisjointTriangles ==
  /\ \A i, j \in Matching : i # j => /\ db[i].fromNode # db[j].fromNode
                                     /\ db[i].toNode # db[j].toNode
  /\ \A i \in Matching : \E t \in Triangles : i \in {t[1], t[2], t[3]}

LabelsAlike == \A j, k \in 1 .. 3 : labels[j] = labels[k]
LabelsDiffer == \A j, k \in 1 .. 3 : j # k => labels[j] # labels[k]

(***************************************************************************)
(* On triangles without a common node, among edges with other labels and   *)
(* free slots, the three merges count right, whatever qsort does with      *)
(* equal keys and whatever lies behind the arrays - for three different    *)
(* labels or three times the same.  Only then do the sorted sides of a     *)
(* merge agree place by place, so that it is no harm that two of the       *)
(* merges write an edge of one side from where the other side's cursor is. *)
(***************************************************************************)
CountsDisjointTriangles ==
  join = 5 /\ DisjointTriangles /\ (LabelsAlike \/ LabelsDiffer)
  => result = Cardinality(Triangles)

(***************************************************************************)
(* With three different labels the first two merges write no more pairs    *)
(* than the arrays hold, though a repeated key makes a merge write more    *)
(* pairs than it has left or right edges.                                  *)
(***************************************************************************)
OverrunsLastJoinOnly == overrun /\ LabelsDiffer => join = 3

(***************************************************************************)
(* Every turn of a merge loop advances a cursor: the query returns, unless *)
(* it has run over an array.                                               *)
(***************************************************************************)
QueryEnds == <>(join = 5 \/ overrun)

=============================================================================
