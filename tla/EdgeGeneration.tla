--------------------------- MODULE EdgeGeneration ---------------------------
(***************************************************************************)
(* The edges themselves: generate_edges draws the edges of a square,       *)
(* fill_up_edge_vector (unsorted generator, a square at a time) and        *)
(* EachThreadGeneratesEdges (sorted generator, a column at a time) replace *)
(* duplicates until there are none.  A piece is what one vector holds, a   *)
(* square or a column.  Pieces share nothing while they are generated, so  *)
(* they are generated one after the other here; the threads are those of   *)
(* GraphPipeline and SortedGenerator, and so is what becomes of a vector:  *)
(* it is delivered, but for columns of which there are too few.            *)
(*                                                                         *)
(* The order of the edges in a vector matters only after a sort: the edges *)
(* of a square are always kept sorted.                                     *)
(***************************************************************************)
EXTENDS SquarePartition

CONSTANTS
  SmallGraph,             \* 10000 in the code
  hardware_concurrency,
  totalSystemRAM          \* in bytes

EdgeSize == 8             \* sizeof(Edge): two unsigned ints

\* The call generate_graph_in_vector makes, half of the memory for the edges.
generate_graph_in_vector(nEdges, nVertices) ==
  LET workers == IF nEdges < SmallGraph \/ hardware_concurrency < 2 THEN 1
                 ELSE hardware_concurrency - 1
  IN  [sorted |-> FALSE, nEdges |-> nEdges, nVertices |-> nVertices - 1,
       nCPUWorkerThreads |-> workers,
       standardCapacity |-> (totalSystemRAM \div 2) \div (2 * workers * EdgeSize),
       directedGraph |-> TRUE, allowEdgeToSelf |-> FALSE, allowDuplicateEdges |-> FALSE]

VARIABLES
  piece,      \* number of the piece being generated
  rec,        \* number of the square in it
  drawn,      \* whether its edges have been drawn
  edgesVec,
  graph,      \* the edges delivered: the vectors of the pieces before, but for
              \* those that are lost, one after the other
  failed      \* an exception or an access below the vector ended the program

edgeVars == <<piece, rec, drawn, edgesVec, graph, failed>>
generationVars == <<partitionVars, edgeVars>>

InitEdges ==
  /\ PartitionInit
  /\ piece = 1 /\ rec = 1
  /\ drawn = FALSE
  /\ edgesVec = << >>
  /\ graph = << >>
  /\ failed = FALSE

PartitionFirst == PartitionStep /\ UNCHANGED edgeVars

nPieces == IF call.sorted THEN nColumns ELSE Len(squares)

\* Only the columns written reach the file; the unsorted generator's caller
\* gets every square.
nDelivered == IF call.sorted THEN nWritten ELSE nPieces
Deliver(vec) == graph' = IF piece <= nDelivered THEN graph \o vec ELSE graph

\* The places of its squares, and the place of the one whose turn it is.
Piece == IF call.sorted THEN rectagnleVecs(squares, piece) ELSE {piece}
Here == CHOOSE i \in Piece : Cardinality({j \in Piece : j < i}) = rec - 1
Square == squares[Here]

Before(d, e) == d[1] < e[1] \/ (d[1] = e[1] /\ d[2] < e[2])
Ascending(vec) == \A i, j \in DOMAIN vec : i < j => ~Before(vec[j], vec[i])
SortEdges(vec) == SortedBy(vec, Before)

(***************************************************************************)
(* generate_edges                                                          *)
(***************************************************************************)
\* Into how many parts an interval of length d is halved down to less than 1.
Halvings(d) == {D \in d + 1 .. 2 * d + 1 : \E k \in 0 .. d : D = 2 ^ k}

\* Mistaken form: every index is rounded up.
IndexRoundedUp(lo, hi) ==
  UNION {{lo + ((2 * j + 1) * (hi - lo)) \div (2 * D) + 1 : j \in 0 .. D - 1} : D \in Halvings(hi - lo)}

\* Mistaken form: the ends are added, but not halved.
IndexNotHalved(lo, hi) ==
  UNION {{2 * lo + (2 * (2 * j + 1) * (hi - lo) + D) \div (2 * D) : j \in 0 .. D - 1} : D \in Halvings(hi - lo)}

\* What genEdgeIndex_FP may return: the middle of a part, to the nearest index.
genEdgeIndex_FP(lo, hi) ==
  UNION {{lo + ((2 * j + 1) * (hi - lo) + D) \div (2 * D) : j \in 0 .. D - 1} : D \in Halvings(hi - lo)}

Draws ==
  {e \in genEdgeIndex_FP(Square.xs, Square.xe) \X genEdgeIndex_FP(Square.ys, Square.ye) :
     Accepts(Square, e)}

Generating == stage = "partitioned" /\ piece <= nPieces /\ ~failed

\* Mistaken form: the vector keeps the edges of the last square only.
DrawOverwrites ==
  /\ Generating /\ ~drawn
  /\ \E new \in [1 .. Square.n -> Draws] : Ascending(new) /\ edgesVec' = new
  /\ drawn' = TRUE
  /\ UNCHANGED <<partitionVars, piece, rec, graph, failed>>

Draw ==
  /\ Generating /\ ~drawn
  /\ \E new \in [1 .. Square.n -> Draws] :
       /\ Ascending(new)
       /\ edgesVec' = edgesVec \o new
  /\ drawn' = TRUE
  /\ UNCHANGED <<partitionVars, piece, rec, graph, failed>>

\* No edge is ever accepted: generate_edges goes on drawing.
Spin ==
  /\ Generating /\ ~drawn
  /\ Square.n > 0 /\ Draws = {}
  /\ UNCHANGED generationVars

(***************************************************************************)
(* Duplicates: the code searches the vector of a square, and the end of    *)
(* the vector of a column.                                                 *)
(***************************************************************************)
\* Mistaken form: the last pair is not compared.
RepeatsButLast ==
  IF call.sorted THEN {i \in Len(edgesVec) - Square.n + 2 .. Len(edgesVec) - 1 : edgesVec[i] = edgesVec[i - 1]}
  ELSE {i \in 1 .. Len(edgesVec) - 2 : edgesVec[i] = edgesVec[i + 1]}

Repeats ==
  IF call.sorted THEN {i \in Len(edgesVec) - Square.n + 2 .. Len(edgesVec) : edgesVec[i] = edgesVec[i - 1]}
  ELSE {i \in 1 .. Len(edgesVec) - 1 : edgesVec[i] = edgesVec[i + 1]}

Redraw ==
  /\ Generating /\ drawn /\ ~call.allowDuplicateEdges
  /\ Repeats # {}
  /\ \E new \in [Repeats -> Draws] :
       LET vec == [i \in DOMAIN edgesVec |-> IF i \in Repeats THEN new[i] ELSE edgesVec[i]]
           base == Len(vec) - Square.n
       IN  edgesVec' = SubSeq(vec, 1, base) \o SortEdges(SubSeq(vec, base + 1, Len(vec)))
  /\ UNCHANGED <<partitionVars, piece, rec, drawn, graph, failed>>

\* Edges drawn anew are fewer duplicates than before.
FreshRedraw == Redraw /\ Cardinality(Repeats') < Cardinality(Repeats)

\* The search of a square without edges throws; that of a column without any
\* may read below its vector (SortedGenerator says when).
Fails ==
  /\ Generating /\ drawn /\ ~call.allowDuplicateEdges
  /\ SumAt(squares, Piece) = 0
  /\ failed' = TRUE
  /\ UNCHANGED <<partitionVars, piece, rec, drawn, edgesVec, graph>>

\* Mistaken form: the vector of a column is not sorted as a whole.
FinishUnsorted ==
  /\ Deliver(edgesVec)
  /\ piece' = piece + 1 /\ rec' = 1
  /\ edgesVec' = << >>

FinishPiece ==
  /\ Deliver(SortEdges(edgesVec))
  /\ piece' = piece + 1 /\ rec' = 1
  /\ edgesVec' = << >>

NextSquare ==
  /\ Generating /\ drawn
  /\ call.allowDuplicateEdges \/ (Repeats = {} /\ (call.sorted \/ Square.n > 0))
  /\ drawn' = FALSE
  /\ IF rec < Cardinality(Piece)
     THEN rec' = rec + 1 /\ UNCHANGED <<piece, edgesVec, graph>>
     ELSE FinishPiece
  /\ UNCHANGED <<partitionVars, failed>>

OverEdges == failed \/ (stage = "partitioned" /\ piece > nPieces)

EndedEdges == OverEdges /\ UNCHANGED generationVars

Step == PartitionFirst \/ Draw \/ Redraw \/ Fails \/ NextSquare

NextEdges == Step \/ Spin \/ EndedEdges

SpecEdges == InitEdges /\ [][NextEdges]_generationVars

\* Numbers are random: draws that replace a duplicate do not fail for ever.
FairSpecEdges == SpecEdges /\ WF_generationVars(Step) /\ SF_generationVars(FreshRedraw)

-----------------------------------------------------------------------------
Vertices == 0 .. call.nVertices

TypeOKEdges ==
  /\ PartitionTypeOK
  /\ piece \in 1 .. nPieces + 1 /\ rec \in Nat
  /\ drawn \in BOOLEAN
  /\ edgesVec \in Seq(Vertices \X Vertices)
  /\ graph \in Seq(Vertices \X Vertices)
  /\ failed \in BOOLEAN

(***************************************************************************)
(* A graph has as many edges as were asked for, unless the sorted          *)
(* generator has fewer columns than threads: then it has those asked for   *)
(* in the columns written.  Within what is delivered, partition,           *)
(* replacement and sorting neither lose nor add an edge.                   *)
(***************************************************************************)
LosesOnlyColumns ==
  OverEdges /\ ~failed =>
    IF call.sorted /\ nColumns < call.nCPUWorkerThreads
    THEN Len(graph) = SumAt(squares, UNION {rectagnleVecs(squares, c) : c \in 1 .. nWritten})
    ELSE Len(graph) = call.nEdges

(***************************************************************************)
(* Without duplicates allowed, an edge is in the graph at most once for    *)
(* each square it lies in: inside of a square it is unique, on the border  *)
(* of several squares, each of which may draw it, it need not be.          *)
(***************************************************************************)
DuplicatesOnBorders ==
  ~call.allowDuplicateEdges =>
    \A e \in Range(graph) :
      Cardinality({i \in DOMAIN graph : graph[i] = e})
        <= Cardinality({i \in DOMAIN squares : e \in Within(squares[i])})

(***************************************************************************)
(* An undirected graph has edges on one side of the diagonal only, though  *)
(* edges are tested in the squares on the diagonal alone.                  *)
(***************************************************************************)
UndirectedIsTriangle ==
  ~call.directedGraph => \A e \in Range(graph) : e[1] <= e[2]

(***************************************************************************)
(* The sorted generator's output ascends, but for edges whose source is    *)
(* the last vertex of one column and the first of the next.                *)
(***************************************************************************)
SortedUpToBorders ==
  call.sorted =>
    \A i \in 1 .. Len(graph) - 1 :
      Before(graph[i + 1], graph[i]) =>
        graph[i][1] = graph[i + 1][1] /\ graph[i][1] \in {s.xe : s \in Range(squares)}

(***************************************************************************)
(* The replacement of duplicates ends, unless a square is asked for more   *)
(* edges than it has places for.                                           *)
(***************************************************************************)
Overfull == stage = "partitioned" /\ piece <= nPieces /\ Square.n > Cardinality(Cells(Square))

FillsUnlessOverfull == <>OverEdges \/ <>[]Overfull
=============================================================================
