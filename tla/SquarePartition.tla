-------------------------- MODULE SquarePartition --------------------------
(***************************************************************************)
(* How both graph generators divide the adjacency matrix into squares,     *)
(* each with a number of edges to generate.  A first loop shatters until   *)
(* squares (columns of squares, in the sorted generator) are no larger     *)
(* than the capacity, a second one until there are enough of them for the  *)
(* threads.  The unsorted generator shatters one square per turn, the      *)
(* sorted one all of them, and then sorts.                                 *)
(*                                                                         *)
(* A share is a fraction of Whole.  The noise ShatterSquare adds to the    *)
(* shares is any value in [-Noise, Noise]; the level of a square is left   *)
(* out (it is never read), and so is the noise of the cuts (not used).     *)
(***************************************************************************)
EXTENDS Integers, FiniteSets, SequencesExt

CONSTANTS
  Calls,    \* the calls of the generators: parameters, and which one it is
  Whole,    \* the unit of shares
  Share,    \* RMAT_a, RMAT_b, RMAT_c
  Noise

ASSUME CallsAssumption ==
  Calls \subseteq [sorted : BOOLEAN, nEdges : Nat, nVertices : Nat,
                   nCPUWorkerThreads : Nat \ {0}, standardCapacity : Nat,
                   directedGraph : BOOLEAN, allowEdgeToSelf : BOOLEAN,
                   allowDuplicateEdges : BOOLEAN]

\* The shares leave something for the last part, whatever the noise.
ASSUME ShareAssumption ==
  /\ Whole \in Nat \ {0} /\ Noise \in Nat
  /\ Share \in [0 .. 2 -> Nat] /\ \A p \in 0 .. 2 : Share[p] >= Noise
  /\ Share[0] + Share[1] + Share[2] + 3 * Noise <= Whole

\* No part gets most of the edges: the first one has at least a quarter of them,
\* and none of the three more than three quarters (0.45, 0.22 and 0.22 in the
\* code, with noise of half a percent).
ASSUME PartsAssumption ==
  /\ 4 * (Share[0] - Noise) >= Whole
  /\ \A p \in 0 .. 2 : 4 * (Share[p] + Noise) <= 3 * Whole

VARIABLES
  call,      \* the call under way
  squares,
  stage,     \* of the partition: the loop it is in
  nLeft      \* squares the pass under way still has to shatter

partitionVars == <<call, squares, stage, nLeft>>

Max0(n) == IF n > 0 THEN n ELSE 0

\* The edges of the squares at some places of a sequence, and of all of them.
SumAt(sqs, places) == MapThenSumSet(LAMBDA i : sqs[i].n, places)
SumOf(sqs) == SumAt(sqs, DOMAIN sqs)

(***************************************************************************)
(* Shattering                                                              *)
(***************************************************************************)
\* Mistaken form: the halves leave a line of the matrix out.
GapHalf(lo, hi, upper) ==
  LET middle == (lo + hi) \div 2 IN IF upper = 1 THEN <<middle + 1, hi>> ELSE <<lo, middle>>

Half(lo, hi, upper) ==
  LET middle == (lo + hi) \div 2 IN IF upper = 1 THEN <<middle, hi>> ELSE <<lo, middle>>

\* Part p of a square: 0 and 1 above 2 and 3, 0 and 2 left of 1 and 3.
Get_part(s, p, n) ==
  LET h == IF p \in {1, 3} THEN 1 ELSE 0    x == Half(s.xs, s.xe, h)
      v == IF p \in {2, 3} THEN 1 ELSE 0    y == Half(s.ys, s.ye, v)
  IN  [xs |-> x[1], xe |-> x[2], ys |-> y[1], ye |-> y[2],
       n |-> n, h |-> 2 * s.h + h, v |-> 2 * s.v + v]

\* What rounding down a share of n, with some noise, may give.
PartEdges(n, p) ==
  ((Share[p] - Noise) * n) \div Whole .. ((Share[p] + Noise) * n) \div Whole

\* Mistaken form: the edges of the part thrown away are lost.
ThrowAway(parts) == <<parts[1], parts[3], parts[4]>>

\* Part b, right of the diagonal, is thrown away, part c gets its edges.
MergeBIntoC(parts) == <<parts[1], [parts[3] EXCEPT !.n = @ + parts[2].n], parts[4]>>

\* The last part gets the edges the others leave.
Parts(s, a, b, c, directed) ==
  LET parts == <<Get_part(s, 0, a), Get_part(s, 1, b), Get_part(s, 2, c),
                 Get_part(s, 3, s.n - a - b - c)>>
  IN  IF ~directed /\ s.xe = s.ye THEN MergeBIntoC(parts) ELSE parts

\* The results of shattering the square at an index: it is taken out, its
\* parts go to the end.
ShatterSquare(sqs, index, directed) ==
  {RemoveAt(sqs, index) \o Parts(sqs[index], a, b, c, directed) :
     a \in PartEdges(sqs[index].n, 0), b \in PartEdges(sqs[index].n, 1),
     c \in PartEdges(sqs[index].n, 2)}

(***************************************************************************)
(* The tests of the loops.  In the sorted generator the squares are in     *)
(* order of columns when they are tested, and equal coordinates adjacent.  *)
(***************************************************************************)
Eligible_RNG_Rec(s) == s.n <= call.standardCapacity

Eligible_RNG_Squares ==
  \A x \in {s.xe : s \in Range(squares)} :
    SumAt(squares, {i \in DOMAIN squares : squares[i].xe = x}) <= call.standardCapacity

\* The count starts from a column that ends at 0, which is therefore not counted.
Get_N_Columns == Cardinality({s.xe : s \in Range(squares)} \ {0})

\* Mistaken form: a square is full only when it has as many edges as cells.
edgeOverflowLate == \E s \in Range(squares) : s.n >= (s.xe - s.xs) * (s.ye - s.ys)

edgeOverflow == \E s \in Range(squares) : 3 * s.n >= (s.xe - s.xs) * (s.ye - s.ys)

\* Mistaken form: only the square that would be shattered is tested.
TooLargeAtFront ==
  IF call.sorted THEN ~Eligible_RNG_Squares ELSE ~Eligible_RNG_Rec(squares[1])

TooLarge ==
  IF call.sorted THEN ~Eligible_RNG_Squares
  ELSE \E s \in Range(squares) : ~Eligible_RNG_Rec(s)

TooFew ==
  /\ (IF call.sorted THEN Get_N_Columns ELSE Len(squares)) < call.nCPUWorkerThreads
  /\ ~edgeOverflow

GoesOn == (stage = "range" /\ TooLarge) \/ (stage = "spread" /\ TooFew)

\* The index of the first square with the most edges.
Biggest == Min({i \in DOMAIN squares : \A j \in DOMAIN squares : squares[j].n <= squares[i].n})

\* std::sort.  Of two elements neither of which is less than the other, the one
\* to the front stays there.  rank is how many elements go before one.
SortedBy(seq, less(_, _)) ==
  LET rank == [k \in DOMAIN seq |-> Cardinality({j \in DOMAIN seq :
                 less(seq[j], seq[k]) \/ (j < k /\ ~less(seq[k], seq[j]))})]
  IN  [i \in DOMAIN seq |-> seq[CHOOSE k \in DOMAIN seq : rank[k] = i - 1]]

\* Squares are sorted by their place; no two have the same one.
GoesBefore(s, t) == s.h < t.h \/ (s.h = t.h /\ s.v < t.v)
Sorted(sqs) == SortedBy(sqs, GoesBefore)

(***************************************************************************)
(* The loops                                                               *)
(***************************************************************************)
PartitionInit ==
  /\ call \in Calls
  /\ squares = <<[xs |-> 0, xe |-> call.nVertices, ys |-> 0, ye |-> call.nVertices,
                  n |-> call.nEdges, h |-> 0, v |-> 0]>>
  /\ stage = "range"
  /\ nLeft = 0

Shatter(index, finish(_)) ==
  /\ \E sqs \in ShatterSquare(squares, index, call.directedGraph) : squares' = finish(sqs)
  /\ UNCHANGED <<call, stage>>

\* recIdx is never incremented: the loop breaks at the first square that is
\* too large, wherever it is, and shatters the one at the front.
ShatterFirst ==
  /\ ~call.sorted /\ stage = "range" /\ GoesOn
  /\ Shatter(1, LAMBDA sqs : sqs)
  /\ UNCHANGED nLeft

ShatterBiggest ==
  /\ ~call.sorted /\ stage = "spread" /\ GoesOn
  /\ Shatter(Biggest, LAMBDA sqs : sqs)
  /\ UNCHANGED nLeft

\* Mistaken form: one turn too many.
PassTooLong ==
  /\ call.sorted /\ nLeft = 0 /\ GoesOn
  /\ nLeft' = Len(squares) + 1
  /\ UNCHANGED <<call, squares, stage>>

BeginPass ==
  /\ call.sorted /\ nLeft = 0 /\ GoesOn
  /\ nLeft' = Len(squares)
  /\ UNCHANGED <<call, squares, stage>>

\* One turn of a pass; the last one sorts.
ShatterNext ==
  /\ nLeft > 0
  /\ nLeft' = nLeft - 1
  /\ Shatter(1, LAMBDA sqs : IF nLeft = 1 THEN Sorted(sqs) ELSE sqs)

\* Mistaken form: allRecsAreInRange is not set anew once it is false.
StayInRangeLoop ==
  /\ nLeft = 0 /\ stage # "partitioned" /\ ~GoesOn
  /\ stage' = IF stage = "range" THEN (IF Len(squares) > 1 THEN "range" ELSE "spread")
              ELSE "partitioned"
  /\ UNCHANGED <<call, squares, nLeft>>

LeaveLoop ==
  /\ nLeft = 0 /\ stage # "partitioned" /\ ~GoesOn
  /\ stage' = IF stage = "range" THEN "spread" ELSE "partitioned"
  /\ UNCHANGED <<call, squares, nLeft>>

PartitionStep == ShatterFirst \/ ShatterBiggest \/ BeginPass \/ ShatterNext \/ LeaveLoop

(***************************************************************************)
(* What becomes of the squares                                             *)
(***************************************************************************)
\* The places of the squares of the c-th column from the left.
rectagnleVecs(sqs, c) ==
  LET starts == {s.xs : s \in Range(sqs)}
  IN  {i \in DOMAIN sqs : Cardinality({x \in starts : x < sqs[i].xs}) = c - 1}

nColumns == Cardinality({s.xs : s \in Range(squares)})

\* How many of its columns the sorted generator writes, the leftmost ones: all
\* of them, or, if they are fewer than the threads, those that are left when
\* one is lost for every thread without a column (SortedGenerator shows it).
nWritten ==
  IF nColumns >= call.nCPUWorkerThreads THEN nColumns
  ELSE Max0(2 * nColumns - call.nCPUWorkerThreads)

\* Mistaken form: squares on the diagonal are not tested either.
AcceptsOnDiagonal(s, e) ==
  /\ e[1] = e[2] => call.allowEdgeToSelf
  /\ e[1] > e[2] => call.directedGraph \/ s.h <= s.v

\* Whether generate_edges accepts an edge in a square.
Accepts(s, e) ==
  /\ e[1] = e[2] => call.allowEdgeToSelf
  /\ e[1] > e[2] => call.directedGraph \/ s.h < s.v

-----------------------------------------------------------------------------
SquareType == [xs : Nat, xe : Nat, ys : Nat, ye : Nat, n : Nat, h : Nat, v : Nat]

PartitionTypeOK ==
  /\ call \in Calls
  /\ squares \in Seq(SquareType)
  /\ stage \in {"range", "spread", "partitioned"}
  /\ nLeft \in 0 .. Len(squares)

(***************************************************************************)
(* Rounding, noise and parts thrown away neither lose nor add an edge.     *)
(***************************************************************************)
EdgesConserved == SumOf(squares) = call.nEdges

(***************************************************************************)
(* The squares do not overlap (but for their border, which an edge may be  *)
(* on), and they leave nothing of the matrix out; of the matrix of an      *)
(* undirected graph, nothing of the triangle that is generated.            *)
(***************************************************************************)
TilesMatrix ==
  \A x, y \in 0 .. call.nVertices - 1 :
    LET holders == {i \in DOMAIN squares : /\ squares[i].xs <= x /\ x < squares[i].xe
                                           /\ squares[i].ys <= y /\ y < squares[i].ye}
    IN  /\ Cardinality(holders) <= 1
        /\ call.directedGraph \/ x <= y => holders # {}

(***************************************************************************)
(* What a thread generates at a time, a square or a column, has no more    *)
(* edges than the capacity: the second loop, which does not test it, does  *)
(* not undo what the first one achieved.  The test adds up the squares     *)
(* that end at the same line and the threads get those that start at the   *)
(* same one; a column to the threads, therefore, that starts with squares  *)
(* without width is two to the test, and may have twice the capacity.      *)
(***************************************************************************)
PiecesBounded ==
  stage # "range" /\ nLeft = 0 =>
    IF call.sorted
    THEN \A x \in {s.xs : s \in Range(squares)} :
           LET column == {i \in DOMAIN squares : squares[i].xs = x}
               tested == IF \E i \in column : squares[i].xe = x THEN 2 ELSE 1
           IN  SumAt(squares, column) <= tested * call.standardCapacity
    ELSE \A s \in Range(squares) : Eligible_RNG_Rec(s)

\* The places for an edge in a square, to the ends of both sides.
Within(s) == (s.xs .. s.xe) \X (s.ys .. s.ye)
Cells(s) == {e \in Within(s) : Accepts(s, e)}

(***************************************************************************)
(* edgeOverflow keeps every square of a directed graph larger than its     *)
(* number of edges, so that duplicates can be replaced, provided that it   *)
(* is asked: the first loop, which is for the capacity, does not ask.      *)
(***************************************************************************)
NoneOverfull ==
  (/\ call.directedGraph
   /\ call.nEdges <= call.standardCapacity
   /\ 3 * call.nEdges < call.nVertices * call.nVertices)
  => \A s \in Range(squares) : s.n <= Cardinality(Cells(s))
=============================================================================
