------------------------ MODULE SortMergeQueryProofs ------------------------
(***************************************************************************)
(* Proofs about the sort-merge query, for every database and every query.  *)
(* Shape says what the arrays hold; RoomInv bounds what the first two      *)
(* merges write by the elements their cursors have passed; CountInv says   *)
(* which edges the arrays hold in each merge, and where the cursors are,   *)
(* when the triangles are disjoint.  The last rests on a fact about        *)
(* sorting: two sorted arrays with the same keys, each of them once, have  *)
(* the same key in every place.                                            *)
(***************************************************************************)
EXTENDS SortMergeQuery, DataProofs

\* An edge that is in use.
Edge == [fromNode : Nat, toNode : Nat, edgeLabel : Nat]

\* What the state consists of at every point.
Shape ==
  /\ db \in Databases
  /\ labels \in Queries
  /\ join \in 1 .. 5
  /\ matches \in [1 .. 3 -> [Slots -> Elements]]
  /\ valids \in [1 .. 4 -> [Slots -> Elements]]
  /\ leftIter \in 0 .. n /\ rightIter \in 0 .. n /\ validIter \in 0 .. n
  /\ overrun \in BOOLEAN
  /\ result \in -1 .. n

-----------------------------------------------------------------------------
\* The slots of a database, and what may be in them.
LEMMA SlotFacts ==
  ASSUME db \in Databases
  PROVE  /\ n \in Nat /\ IsFiniteSet(Slots) /\ Cardinality(Slots) = n
         /\ DOMAIN db = Slots
         /\ \A i \in Slots : db[i] \in Edge \cup {Empty} /\ db[i] \in Elements
         /\ Empty \in Elements /\ \A e \in Elements : e \in Edge \cup {Empty}
         /\ Blank \in [Slots -> Elements]
<1>1. IsFiniteSet(DOMAIN db) /\ db \in [0 .. n - 1 -> Edge \cup {Empty}]
  BY DatabasesAssumption DEF n, Edge
<1>2. n \in Nat
  BY <1>1, FS_CardinalityType DEF n
<1>3. DOMAIN db = Slots /\ IsFiniteSet(Slots) /\ Cardinality(Slots) = n
  BY <1>1 DEF Slots, n
<1>. QED BY <1>1, <1>2, <1>3 DEF Elements, Slots, Blank

\* The database is only read.
LEMMA Frame ==
  ASSUME db' = db
  PROVE  n' = n /\ Slots' = Slots /\ Elements' = Elements /\ Blank' = Blank
BY DEF n, Slots, Elements, Blank

\* Sorting permutes.
LEMMA ReorderFacts ==
  ASSUME NEW E, NEW a \in [Slots -> E], NEW b \in Reorderings(a)
  PROVE  /\ b \in [Slots -> E]
         /\ \E p \in Bijection(Slots, Slots) : \A i \in Slots : b[i] = a[p[i]]
<1>1. PICK p \in Bijection(Slots, Slots) : b = [i \in Slots |-> a[p[i]]]
  BY DEF Reorderings
<1>2. p \in [Slots -> Slots]
  BY DEF Bijection, Injection
<1>. QED BY <1>1, <1>2

\* What qsort yields is a permutation in order.
LEMMA SortedFacts ==
  ASSUME NEW E, NEW a \in [Slots -> E]
  PROVE  /\ \A b \in SortedByTo(a) : b \in Reorderings(a) /\ b \in [Slots -> E]
         /\ \A b \in SortedByFrom(a) : b \in Reorderings(a) /\ b \in [Slots -> E]
BY ReorderFacts DEF SortedByTo, SortedByFrom

\* A filtered array holds elements of the database.
LEMMA FilterFacts ==
  ASSUME db \in Databases, NEW k
  PROVE  Filter(db, labels[k]) \in [Slots -> Elements]
BY SlotFacts DEF Filter

\* The query begins in good shape.
LEMMA InitShape ==
  Init => Shape
<1>. SUFFICES ASSUME Init PROVE Shape
  OBVIOUS
<1>1. /\ db \in Databases /\ labels \in Queries /\ join = 1 /\ valids = <<Blank, Blank, Blank, Blank>>
      /\ leftIter = 0 /\ rightIter = 0 /\ validIter = 0 /\ overrun = FALSE /\ result = -1
  BY DEF Init
<1>2. n \in Nat /\ Blank \in [Slots -> Elements]
  BY <1>1, SlotFacts
<1>3. PICK m1 \in SortedByTo(Filter(db, labels[1])), m2 \in SortedByFrom(Filter(db, labels[2])) :
         matches = <<m1, m2, Filter(db, labels[3])>>
  BY DEF Init
<1>4. /\ m1 \in [Slots -> Elements] /\ m2 \in [Slots -> Elements]
      /\ Filter(db, labels[3]) \in [Slots -> Elements]
  BY <1>1, FilterFacts, SortedFacts
<1>5. matches \in [1 .. 3 -> [Slots -> Elements]]
  BY <1>3, <1>4
<1>6. valids \in [1 .. 4 -> [Slots -> Elements]]
  BY <1>1, <1>2
<1>7. 0 \in 0 .. n /\ -1 \in -1 .. n /\ 1 \in 1 .. 5
  BY <1>2
<1>. QED BY <1>1, <1>5, <1>6, <1>7, Zenon DEF Shape

\* The edge or the two edges a match writes.
LEMMA OutputFacts ==
  ASSUME Shape, InJoin, validIter < n
  PROVE  /\ join \in 1 .. 3
         /\ validIter \in Slots /\ leftIter \in Slots /\ rightIter \in Slots
         /\ Output \in [1 .. 4 -> [Slots -> Elements]]
         /\ join = 1 => /\ Output[1] = [valids[1] EXCEPT ![validIter] = matches[1][leftIter]]
                        /\ Output[2] = [valids[2] EXCEPT ![validIter] = matches[2][leftIter]]
                        /\ Output[3] = valids[3] /\ Output[4] = valids[4]
         /\ join = 2 => /\ Output[3] = [valids[3] EXCEPT ![validIter] = matches[3][rightIter]]
                        /\ Output[1] = valids[1] /\ Output[2] = valids[2] /\ Output[4] = valids[4]
         /\ join = 3 => /\ Output[4] = [valids[4] EXCEPT ![validIter] = valids[3][rightIter]]
                        /\ Output[1] = valids[1] /\ Output[2] = valids[2] /\ Output[3] = valids[3]
<1>1. n \in Nat
  BY SlotFacts DEF Shape
<1>2. join \in 1 .. 3 /\ validIter \in Slots /\ leftIter \in Slots /\ rightIter \in Slots
  BY <1>1 DEF Shape, InJoin, Slots
<1>3. /\ valids \in [1 .. 4 -> [Slots -> Elements]]
      /\ matches[1][leftIter] \in Elements /\ matches[2][leftIter] \in Elements
      /\ matches[3][rightIter] \in Elements /\ valids[3][rightIter] \in Elements
  BY <1>2 DEF Shape
<1>4. CASE join = 1
  <2>1. Output = [valids EXCEPT ![1][validIter] = matches[1][leftIter],
                                ![2][validIter] = matches[2][leftIter]]
    BY <1>4 DEF Output
  <2>. QED BY <1>2, <1>3, <1>4, <2>1
<1>5. CASE join = 2
  <2>1. Output = [valids EXCEPT ![3][validIter] = matches[3][rightIter]]
    BY <1>5 DEF Output
  <2>. QED BY <1>2, <1>3, <1>5, <2>1
<1>6. CASE join = 3
  <2>1. Output = [valids EXCEPT ![4][validIter] = valids[3][rightIter]]
    BY <1>6 DEF Output
  <2>. QED BY <1>2, <1>3, <1>6, <2>1
<1>. QED BY <1>2, <1>4, <1>5, <1>6

\* The number of labelled elements of an array.
LEMMA LabelledFacts ==
  ASSUME db \in Databases, NEW a
  PROVE  Labelled(a) \in 0 .. n
<1>1. {i \in Slots : a[i].edgeLabel # NoLabel} \in SUBSET Slots
  OBVIOUS
<1>2. /\ IsFiniteSet({i \in Slots : a[i].edgeLabel # NoLabel})
      /\ Cardinality({i \in Slots : a[i].edgeLabel # NoLabel}) <= n
  BY <1>1, SlotFacts, FS_Subset
<1>. QED BY <1>2, FS_CardinalityType, SlotFacts DEF Labelled

\* The result is the least of the three counts.
LEMMA CountFacts ==
  ASSUME Shape, Count
  PROVE  /\ result' \in {Labelled(valids[1]), Labelled(valids[2]), Labelled(valids[4])}
         /\ result' \in 0 .. n
<1>. DEFINE counts == {Labelled(valids[k]) : k \in {1, 2, 4}}
<1>1. result' = CHOOSE c \in counts : \A d \in counts : c <= d
  BY DEF Count
<1>2. /\ counts = {Labelled(valids[1]), Labelled(valids[2]), Labelled(valids[4])}
      /\ \A c \in counts : c \in 0 .. n
  BY LabelledFacts DEF Shape
<1>3. n \in Nat
  BY SlotFacts DEF Shape
<1>4. counts \subseteq Nat /\ counts # {}
  BY <1>2, <1>3
<1>. HIDE DEF counts
<1>5. \E c \in counts : \A d \in counts : c <= d
  BY <1>4, LeastOf
<1>. QED BY <1>1, <1>2, <1>5

\* Every step keeps the shape.
LEMMA StepKeepsShape ==
  ASSUME Shape, [Next]_vars
  PROVE  Shape'
<1>1. n \in Nat
  BY SlotFacts DEF Shape
<1>2. CASE Skip
  BY <1>1, <1>2, Frame DEF Skip, Shape, InJoin
<1>3. CASE Match
  <2>1. /\ InJoin /\ validIter < n /\ valids' = Output /\ validIter' = validIter + 1
        /\ leftIter' \in {leftIter, leftIter + 1} /\ rightIter' \in {rightIter, rightIter + 1}
        /\ UNCHANGED <<db, labels, join, matches, overrun, result>>
    BY <1>3 DEF Match
  <2>2. Output \in [1 .. 4 -> [Slots -> Elements]] /\ leftIter \in Slots /\ rightIter \in Slots
        /\ validIter \in Slots
    BY <2>1, OutputFacts
  <2>3. leftIter' \in 0 .. n /\ rightIter' \in 0 .. n /\ validIter' \in 0 .. n
    BY <1>1, <2>1, <2>2 DEF Slots
  <2>. QED BY <2>1, <2>2, <2>3, Frame DEF Shape
<1>4. CASE Overrun
  BY <1>1, <1>4, Frame DEF Overrun, Shape
<1>5. CASE NextJoin
  <2>1. /\ join' \in 1 .. 5 /\ leftIter' = 0 /\ rightIter' = 0 /\ validIter' = 0
        /\ UNCHANGED <<db, labels, overrun, result>>
    BY <1>5 DEF NextJoin, Shape
  <2>2. valids' \in [1 .. 4 -> [Slots -> Elements]] /\ matches' \in [1 .. 3 -> [Slots -> Elements]]
    <3>1. CASE join = 1
      <4>1. PICK v2 \in SortedByTo(valids[2]), m3 \in SortedByFrom(matches[3]) :
              valids' = [valids EXCEPT ![2] = v2] /\ matches' = [matches EXCEPT ![3] = m3]
        BY <1>5, <3>1 DEF NextJoin
      <4>2. valids[2] \in [Slots -> Elements] /\ matches[3] \in [Slots -> Elements]
        BY DEF Shape
      <4>3. v2 \in [Slots -> Elements] /\ m3 \in [Slots -> Elements]
        BY <4>2, SortedFacts
      <4>. QED BY <4>1, <4>3 DEF Shape
    <3>2. CASE join = 2
      <4>1. PICK v3 \in SortedByTo(valids[3]), v1 \in SortedByFrom(valids[1]) :
              valids' = [valids EXCEPT ![3] = v3, ![1] = v1]
        BY <1>5, <3>2 DEF NextJoin
      <4>2. valids[3] \in [Slots -> Elements] /\ valids[1] \in [Slots -> Elements]
        BY DEF Shape
      <4>3. v3 \in [Slots -> Elements] /\ v1 \in [Slots -> Elements]
        BY <4>2, SortedFacts
      <4>4. matches' = matches
        BY <1>5, <3>2 DEF NextJoin
      <4>. QED BY <4>1, <4>3, <4>4 DEF Shape
    <3>3. CASE join = 3
      BY <1>5, <3>3 DEF NextJoin, Shape
    <3>. QED BY <1>5, <3>1, <3>2, <3>3 DEF NextJoin, Shape
  <2>. QED BY <1>1, <2>1, <2>2, Frame DEF Shape
<1>6. CASE Count
  <2>1. result' \in 0 .. n
    BY <1>6, CountFacts
  <2>. QED BY <1>1, <1>6, <2>1, Frame DEF Count, Shape
<1>7. CASE UNCHANGED vars
  BY <1>7, Frame DEF vars, Shape
<1>. QED BY <1>2, <1>3, <1>4, <1>5, <1>6, <1>7 DEF Next, Ended

-----------------------------------------------------------------------------
\* The sides of a merge, and the key of each at the cursors.
LEMMA SideFacts ==
  ASSUME Shape, InJoin
  PROVE  /\ join \in 1 .. 3 /\ leftIter \in Slots /\ rightIter \in Slots
         /\ Left \in [Slots -> Elements] /\ Right \in [Slots -> Elements]
         /\ Left[leftIter].toNode \in Int /\ Right[rightIter].fromNode \in Int
         /\ join = 1 => Left = matches[1] /\ Right = matches[2]
         /\ join = 2 => Left = valids[2] /\ Right = matches[3]
         /\ join = 3 => Left = valids[3] /\ Right = valids[1]
<1>1. n \in Nat /\ \A e \in Elements : e \in Edge \cup {Empty}
  BY SlotFacts DEF Shape
<1>2. join \in 1 .. 3 /\ leftIter \in Slots /\ rightIter \in Slots
  BY <1>1 DEF Shape, InJoin, Slots
<1>3. /\ join = 1 => Left = matches[1] /\ Right = matches[2]
      /\ join = 2 => Left = valids[2] /\ Right = matches[3]
      /\ join = 3 => Left = valids[3] /\ Right = valids[1]
  BY DEF Left, Right
<1>4. Left \in [Slots -> Elements] /\ Right \in [Slots -> Elements]
  BY <1>2, <1>3 DEF Shape
<1>5. Left[leftIter] \in Edge \cup {Empty} /\ Right[rightIter] \in Edge \cup {Empty}
  BY <1>1, <1>2, <1>4
<1>6. Left[leftIter].toNode \in Int /\ Right[rightIter].fromNode \in Int
  BY <1>5 DEF Edge, Empty
<1>. QED BY <1>2, <1>3, <1>4, <1>6

\* What a turn of a merge loop does to the cursors.
LEMMA SkipFacts ==
  ASSUME Shape, Skip
  PROVE  /\ InJoin /\ UNCHANGED <<db, labels, join, matches, valids, validIter, overrun, result>>
         /\ \/ leftIter' = leftIter + 1 /\ rightIter' = rightIter /\ SkipsLeft
            \/ leftIter' = leftIter /\ rightIter' = rightIter + 1 /\ SkipsRight
BY DEF Skip

\* A match is between two edges, and passes at least one.
LEMMA MatchFacts ==
  ASSUME Shape, InJoin, ~SkipsLeft, ~SkipsRight
  PROVE  /\ Left[leftIter].toNode # -1 /\ Left[leftIter].toNode = Right[rightIter].fromNode
         /\ Left[leftIter] # Empty /\ Right[rightIter] # Empty
         /\ Match => /\ validIter < n /\ valids' = Output /\ validIter' = validIter + 1
                     /\ UNCHANGED <<db, labels, join, matches, overrun, result>>
                     /\ \/ leftIter' = leftIter + 1 /\ rightIter' = rightIter
                        \/ leftIter' = leftIter /\ rightIter' = rightIter + 1
                        \/ leftIter' = leftIter + 1 /\ rightIter' = rightIter + 1
<1>1. Left[leftIter].toNode \in Int /\ Right[rightIter].fromNode \in Int
  BY SideFacts
<1>2. /\ Left[leftIter].toNode # -1 /\ Right[rightIter].fromNode # -1
      /\ Left[leftIter].toNode = Right[rightIter].fromNode
  BY <1>1 DEF SkipsLeft, SkipsRight
<1>3. Left[leftIter] # Empty /\ Right[rightIter] # Empty
  BY <1>2 DEF Empty
<1>4. ASSUME Match
      PROVE  /\ validIter < n /\ valids' = Output /\ validIter' = validIter + 1
             /\ UNCHANGED <<db, labels, join, matches, overrun, result>>
             /\ \/ leftIter' = leftIter + 1 /\ rightIter' = rightIter
                \/ leftIter' = leftIter /\ rightIter' = rightIter + 1
                \/ leftIter' = leftIter + 1 /\ rightIter' = rightIter + 1
  BY <1>4 DEF Match
<1>. QED BY <1>2, <1>3, <1>4

-----------------------------------------------------------------------------
\* The elements of an array up to a place, and how many they are.
Real(a, m) == {i \in Slots : i < m /\ a[i] # Empty}
Before(a, m) == Cardinality(Real(a, m))

\* With three different labels the three filtered arrays have no more edges
\* together than there are slots, and a match uses up one that it counts.
RoomInv ==
  LabelsDiffer =>
    /\ overrun => join = 3
    /\ join = 1 =>
         /\ Before(matches[1], n) + Before(matches[2], n) + Before(matches[3], n) <= n
         /\ validIter <= Before(matches[1], leftIter) + Before(matches[2], rightIter)
         /\ \A i \in Slots : i >= validIter => valids[2][i] = Empty
    /\ join = 2 =>
         /\ Before(valids[2], n) + Before(matches[3], n) <= n
         /\ validIter <= Before(valids[2], leftIter) + Before(matches[3], rightIter)

\* How many elements there are up to the next place.
LEMMA BeforeFacts ==
  ASSUME db \in Databases, NEW a
  PROVE  /\ \A m \in 0 .. n : Before(a, m) \in Nat /\ Before(a, m) <= Before(a, n)
         /\ Before(a, 0) = 0
         /\ \A i \in Slots : Before(a, i + 1) = IF a[i] # Empty THEN Before(a, i) + 1 ELSE Before(a, i)
<1>1. n \in Nat /\ IsFiniteSet(Slots) /\ Slots = 0 .. n - 1
  BY SlotFacts DEF Slots
<1>2. ASSUME NEW m \in 0 .. n
      PROVE  IsFiniteSet(Real(a, m)) /\ Before(a, m) \in Nat /\ Before(a, m) <= Before(a, n)
  <2>1. Real(a, m) \in SUBSET Real(a, n) /\ Real(a, n) \in SUBSET Slots
    BY <1>1 DEF Real
  <2>. QED BY <1>1, <2>1, FS_Subset, FS_CardinalityType DEF Before
<1>3. Real(a, 0) = {}
  BY <1>1 DEF Real
<1>4. ASSUME NEW i \in Slots
      PROVE  Before(a, i + 1) = IF a[i] # Empty THEN Before(a, i) + 1 ELSE Before(a, i)
  <2>1. i \in 0 .. n /\ i \in Int
    BY <1>1
  <2>2. CASE a[i] # Empty
    <3>1. Real(a, i + 1) = Real(a, i) \cup {i} /\ i \notin Real(a, i)
      BY <1>1, <2>2 DEF Real
    <3>. QED BY <1>2, <2>1, <2>2, <3>1, FS_AddElement DEF Before
  <2>3. CASE a[i] = Empty
    <3>1. Real(a, i + 1) = Real(a, i)
      BY <1>1, <2>3 DEF Real
    <3>. QED BY <2>3, <3>1 DEF Before
  <2>. QED BY <2>2, <2>3
<1>. QED BY <1>2, <1>3, <1>4, FS_EmptySet DEF Before

\* qsort neither adds nor drops an element.
LEMMA ReorderKeepsCount ==
  ASSUME db \in Databases, NEW E, NEW a \in [Slots -> E], NEW b \in Reorderings(a)
  PROVE  Before(b, n) = Before(a, n)
<1>1. n \in Nat /\ IsFiniteSet(Slots) /\ Slots = 0 .. n - 1
  BY SlotFacts DEF Slots
<1>2. PICK p \in Bijection(Slots, Slots) : \A i \in Slots : b[i] = a[p[i]]
  <2>1. DOMAIN a = Slots
    OBVIOUS
  <2>2. PICK p \in Bijection(DOMAIN a, DOMAIN a) : b = [i \in DOMAIN a |-> a[p[i]]]
    BY DEF Reorderings
  <2>. QED BY <2>1, <2>2
<1>3. /\ \A i \in Slots : p[i] \in Slots
      /\ \A i, j \in Slots : p[i] = p[j] => i = j
      /\ \A j \in Slots : \E i \in Slots : p[i] = j
  BY DEF Bijection, Injection, Surjection, IsInjective
<1>4. \A i \in Slots : i < n
  BY <1>1
<1>. DEFINE S == Real(b, n)
            T == Real(a, n)
            f == [i \in S |-> p[i]]
<1>5. f \in Bijection(S, T)
  <2>1. f \in [S -> T] /\ \A i, j \in S : f[i] = f[j] => i = j
    BY <1>2, <1>3, <1>4 DEF Real
  <2>2. \A j \in T : \E i \in S : f[i] = j
    BY <1>2, <1>3, <1>4 DEF Real
  <2>. QED BY <2>1, <2>2 DEF Bijection, Injection, Surjection, IsInjective
<1>6. S \in SUBSET Slots /\ IsFiniteSet(S)
  BY <1>1, FS_Subset DEF Real
<1>. QED BY <1>5, <1>6, FS_Bijection DEF ExistsBijection, Before

\* An array that is empty from a place on has no more elements than places.
LEMMA PrefixCount ==
  ASSUME db \in Databases, NEW a, NEW m \in 0 .. n, \A i \in Slots : i >= m => a[i] = Empty
  PROVE  Before(a, n) <= m
<1>1. n \in Nat /\ Slots = 0 .. n - 1
  BY SlotFacts DEF Slots
<1>2. Real(a, n) \in SUBSET (0 .. m - 1)
  BY <1>1 DEF Real
<1>3. IsFiniteSet(0 .. m - 1) /\ Cardinality(0 .. m - 1) = m
  <2>1. 0 \in Int /\ m - 1 \in Int /\ (m - 1) - 0 + 1 = m /\ (0 > m - 1 => m = 0)
    BY <1>1
  <2>2. /\ IsFiniteSet(0 .. m - 1)
        /\ Cardinality(0 .. m - 1) = IF 0 > m - 1 THEN 0 ELSE (m - 1) - 0 + 1
    BY <2>1, FS_Interval, Zenon
  <2>. QED BY <1>1, <2>1, <2>2
<1>. QED BY <1>2, <1>3, FS_Subset DEF Before

\* Edges with different labels are in different slots.
LEMMA FiltersShareSlots ==
  ASSUME db \in Databases, LabelsDiffer
  PROVE  Before(Filter(db, labels[1]), n) + Before(Filter(db, labels[2]), n)
           + Before(Filter(db, labels[3]), n) <= n
<1>. DEFINE R(k) == Real(Filter(db, labels[k]), n)
<1>1. /\ n \in Nat /\ IsFiniteSet(Slots) /\ Cardinality(Slots) = n /\ DOMAIN db = Slots
  BY SlotFacts
<1>2. \A k \in 1 .. 3 : R(k) \in SUBSET Slots /\ \A i \in R(k) : db[i].edgeLabel = labels[k]
  BY <1>1 DEF Real, Filter
<1>3. labels[1] # labels[2] /\ labels[2] # labels[3] /\ labels[1] # labels[3]
  BY DEF LabelsDiffer
<1>. HIDE DEF R
<1>4. /\ R(1) \cap R(2) = {} /\ (R(1) \cup R(2)) \cap R(3) = {}
      /\ R(1) \cup R(2) \cup R(3) \in SUBSET Slots
  BY <1>2, <1>3
<1>5. \A k \in 1 .. 3 : IsFiniteSet(R(k)) /\ Cardinality(R(k)) \in Nat
  BY <1>1, <1>2, FS_Subset, FS_CardinalityType
<1>6. ASSUME NEW S, NEW T, IsFiniteSet(S), IsFiniteSet(T), S \cap T = {}
      PROVE  IsFiniteSet(S \cup T) /\ Cardinality(S \cup T) = Cardinality(S) + Cardinality(T)
  <2>1. Cardinality(S \cap T) = 0 /\ Cardinality(S) \in Nat /\ Cardinality(T) \in Nat
    BY <1>6, FS_EmptySet, FS_CardinalityType
  <2>2. /\ IsFiniteSet(S \cup T)
        /\ Cardinality(S \cup T) = Cardinality(S) + Cardinality(T) - Cardinality(S \cap T)
    BY <1>6, FS_Union
  <2>. QED BY <2>1, <2>2
<1>7. Cardinality(R(1) \cup R(2) \cup R(3)) = Cardinality(R(1)) + Cardinality(R(2)) + Cardinality(R(3))
  <2>1. IsFiniteSet(R(1)) /\ IsFiniteSet(R(2)) /\ IsFiniteSet(R(3))
    BY <1>5
  <2>2. /\ IsFiniteSet(R(1) \cup R(2))
        /\ Cardinality(R(1) \cup R(2)) = Cardinality(R(1)) + Cardinality(R(2))
    BY <1>4, <1>6, <2>1
  <2>. QED BY <1>4, <1>6, <2>1, <2>2
<1>8. Cardinality(R(1) \cup R(2) \cup R(3)) <= n
  BY <1>1, <1>4, FS_Subset
<1>. QED BY <1>7, <1>8 DEF R, Before

\* There is room at the beginning.
LEMMA InitRoom ==
  Init => RoomInv
<1>. SUFFICES ASSUME Init, LabelsDiffer
              PROVE  /\ ~overrun /\ join = 1
                     /\ Before(matches[1], n) + Before(matches[2], n) + Before(matches[3], n) <= n
                     /\ validIter <= Before(matches[1], leftIter) + Before(matches[2], rightIter)
                     /\ \A i \in Slots : i >= validIter => valids[2][i] = Empty
  BY DEF RoomInv
<1>1. /\ db \in Databases /\ labels \in Queries /\ join = 1 /\ valids = <<Blank, Blank, Blank, Blank>>
      /\ leftIter = 0 /\ rightIter = 0 /\ validIter = 0 /\ overrun = FALSE
  BY DEF Init
<1>. DEFINE F(k) == Filter(db, labels[k])
<1>2. PICK m1 \in SortedByTo(F(1)), m2 \in SortedByFrom(F(2)) : matches = <<m1, m2, F(3)>>
  BY DEF Init
<1>3. \A k \in 1 .. 3 : F(k) \in [Slots -> Elements]
  BY <1>1, FilterFacts
<1>4. Before(F(1), n) + Before(F(2), n) + Before(F(3), n) <= n
  BY <1>1, FiltersShareSlots
<1>. HIDE DEF F
<1>5. /\ F(1) \in [Slots -> Elements] /\ F(2) \in [Slots -> Elements]
      /\ m1 \in Reorderings(F(1)) /\ m2 \in Reorderings(F(2))
  BY <1>2, <1>3 DEF SortedByTo, SortedByFrom
<1>6. Before(m1, n) = Before(F(1), n) /\ Before(m2, n) = Before(F(2), n)
  BY <1>1, <1>5, ReorderKeepsCount
<1>7. Before(matches[1], 0) = 0 /\ Before(matches[2], 0) = 0
  BY <1>1, BeforeFacts
<1>. QED BY <1>1, <1>2, <1>4, <1>6, <1>7 DEF Blank

\* The counts after a step are counts in the arrays after the step.
LEMMA FrameBefore ==
  ASSUME db' = db
  PROVE  /\ Before(matches[1], n)' = Before(matches'[1], n)
         /\ Before(matches[2], n)' = Before(matches'[2], n)
         /\ Before(matches[3], n)' = Before(matches'[3], n)
         /\ Before(valids[2], n)' = Before(valids'[2], n)
         /\ Before(matches[1], leftIter)' = Before(matches'[1], leftIter')
         /\ Before(matches[2], rightIter)' = Before(matches'[2], rightIter')
         /\ Before(valids[2], leftIter)' = Before(valids'[2], leftIter')
         /\ Before(matches[3], rightIter)' = Before(matches'[3], rightIter')
BY Frame DEF Before, Real

\* The room the first two merges have, in terms of their two sides.
LEMMA RoomOfSides ==
  ASSUME Shape, RoomInv, LabelsDiffer, InJoin, join # 3
  PROVE  /\ Before(Left, n) + Before(Right, n) <= n
         /\ validIter <= Before(Left, leftIter) + Before(Right, rightIter)
         /\ Before(Left, leftIter) \in Nat /\ Before(Right, rightIter) \in Nat
         /\ Before(Left, leftIter + 1) <= Before(Left, n)
         /\ Before(Right, rightIter + 1) <= Before(Right, n)
         /\ Before(Left, n) \in Nat /\ Before(Right, n) \in Nat
         /\ Before(Left, leftIter + 1) = IF Left[leftIter] # Empty THEN Before(Left, leftIter) + 1
                                                                   ELSE Before(Left, leftIter)
         /\ Before(Right, rightIter + 1) = IF Right[rightIter] # Empty THEN Before(Right, rightIter) + 1
                                                                       ELSE Before(Right, rightIter)
<1>1. db \in Databases /\ n \in Nat /\ Slots = 0 .. n - 1
  BY SlotFacts DEF Shape, Slots
<1>2. join \in {1, 2} /\ leftIter \in Slots /\ rightIter \in Slots
  BY SideFacts
<1>3. leftIter \in 0 .. n /\ rightIter \in 0 .. n /\ leftIter + 1 \in 0 .. n /\ rightIter + 1 \in 0 .. n
      /\ n \in 0 .. n
  BY <1>1, <1>2
<1>4. /\ Before(Left, leftIter) \in Nat /\ Before(Right, rightIter) \in Nat
      /\ Before(Left, leftIter + 1) <= Before(Left, n)
      /\ Before(Right, rightIter + 1) <= Before(Right, n)
      /\ Before(Left, n) \in Nat /\ Before(Right, n) \in Nat
  BY <1>1, <1>3, BeforeFacts
<1>5. /\ Before(Left, leftIter + 1) = IF Left[leftIter] # Empty THEN Before(Left, leftIter) + 1
                                                                ELSE Before(Left, leftIter)
      /\ Before(Right, rightIter + 1) = IF Right[rightIter] # Empty THEN Before(Right, rightIter) + 1
                                                                    ELSE Before(Right, rightIter)
  BY <1>1, <1>2, BeforeFacts
<1>6. /\ Before(Left, n) + Before(Right, n) <= n
      /\ validIter <= Before(Left, leftIter) + Before(Right, rightIter)
  <2>1. CASE join = 1
    <3>1. Left = matches[1] /\ Right = matches[2]
      BY <2>1 DEF Left, Right
    <3>2. /\ Before(matches[1], n) + Before(matches[2], n) + Before(matches[3], n) <= n
          /\ validIter <= Before(matches[1], leftIter) + Before(matches[2], rightIter)
      BY <2>1 DEF RoomInv
    <3>3. Before(matches[3], n) \in Nat
      BY <1>1, <1>3, BeforeFacts
    <3>. QED BY <1>1, <1>4, <3>1, <3>2, <3>3
  <2>2. CASE join = 2
    <3>1. Left = valids[2] /\ Right = matches[3]
      BY <2>2 DEF Left, Right
    <3>. QED BY <2>2, <3>1 DEF RoomInv
  <2>. QED BY <1>2, <2>1, <2>2
<1>. QED BY <1>4, <1>5, <1>6

\* A match uses up one of the elements that are counted.
LEMMA StepKeepsRoom ==
  ASSUME Shape, Shape', RoomInv, [Next]_vars
  PROVE  RoomInv'
<1>1. db \in Databases /\ n \in Nat /\ Slots = 0 .. n - 1 /\ validIter \in 0 .. n
  BY SlotFacts DEF Shape, Slots
<1>2. db' = db /\ labels' = labels
  BY DEF Next, Skip, Match, Overrun, NextJoin, Count, Ended, vars
<1>. SUFFICES ASSUME LabelsDiffer
             PROVE  RoomInv'
  BY <1>2 DEF LabelsDiffer, RoomInv
<1>4. n' = n /\ Slots' = Slots
  BY <1>2, Frame
<1>5. CASE Skip
  <2>1. /\ InJoin /\ UNCHANGED <<db, labels, join, matches, valids, validIter, overrun, result>>
        /\ \/ leftIter' = leftIter + 1 /\ rightIter' = rightIter
           \/ leftIter' = leftIter /\ rightIter' = rightIter + 1
    BY <1>5, SkipFacts
  <2>2. join \in 1 .. 3 /\ ~overrun
    BY <2>1 DEF InJoin, Shape
  <2>3. CASE join = 3
    BY <2>1, <2>2, <2>3 DEF RoomInv
  <2>4. CASE join # 3
    <3>1. validIter <= Before(Left, leftIter') + Before(Right, rightIter')
      BY <1>1, <2>1, <2>4, RoomOfSides
    <3>2. CASE join = 1
      <4>1. Left = matches[1] /\ Right = matches[2]
        BY <3>2 DEF Left, Right
      <4>2. /\ Before(matches[1], n) + Before(matches[2], n) + Before(matches[3], n) <= n
            /\ \A i \in Slots : i >= validIter => valids[2][i] = Empty
        BY <3>2 DEF RoomInv
      <4>. QED BY <1>2, <1>4, <2>1, <2>2, <3>1, <3>2, <4>1, <4>2, FrameBefore DEF RoomInv
    <3>3. CASE join = 2
      <4>1. Left = valids[2] /\ Right = matches[3]
        BY <3>3 DEF Left, Right
      <4>2. Before(valids[2], n) + Before(matches[3], n) <= n
        BY <3>3 DEF RoomInv
      <4>. QED BY <1>2, <1>4, <2>1, <2>2, <3>1, <3>3, <4>1, <4>2, FrameBefore DEF RoomInv
    <3>. QED BY <2>2, <2>4, <3>2, <3>3
  <2>. QED BY <2>3, <2>4
<1>6. CASE Match
  <2>1. InJoin /\ ~SkipsLeft /\ ~SkipsRight /\ validIter < n
    BY <1>6 DEF Match
  <2>2. /\ Left[leftIter] # Empty /\ Right[rightIter] # Empty
        /\ valids' = Output /\ validIter' = validIter + 1
        /\ UNCHANGED <<db, labels, join, matches, overrun, result>>
        /\ \/ leftIter' = leftIter + 1 /\ rightIter' = rightIter
           \/ leftIter' = leftIter /\ rightIter' = rightIter + 1
           \/ leftIter' = leftIter + 1 /\ rightIter' = rightIter + 1
    BY <1>6, <2>1, MatchFacts
  <2>3. join \in 1 .. 3 /\ ~overrun
    BY <2>1 DEF InJoin, Shape
  <2>4. CASE join = 3
    BY <2>2, <2>3, <2>4 DEF RoomInv
  <2>5. CASE join # 3
    <3>1. validIter' <= Before(Left, leftIter') + Before(Right, rightIter')
      BY <1>1, <2>1, <2>2, <2>5, RoomOfSides
    <3>2. CASE join = 1
      <4>1. Left = matches[1] /\ Right = matches[2]
        BY <3>2 DEF Left, Right
      <4>2. /\ Before(matches[1], n) + Before(matches[2], n) + Before(matches[3], n) <= n
            /\ \A i \in Slots : i >= validIter => valids[2][i] = Empty
        BY <3>2 DEF RoomInv
      <4>3. /\ valids'[2] = [valids[2] EXCEPT ![validIter] = matches[2][leftIter]]
            /\ valids[2] \in [Slots -> Elements]
        BY <2>1, <2>2, <3>2, OutputFacts DEF Shape
      <4>4. \A i \in Slots : i >= validIter + 1 => valids'[2][i] = Empty
        BY <1>1, <4>2, <4>3
      <4>. QED BY <1>2, <1>4, <2>2, <2>3, <3>1, <3>2, <4>1, <4>2, <4>4, FrameBefore DEF RoomInv
    <3>3. CASE join = 2
      <4>1. Left = valids[2] /\ Right = matches[3]
        BY <3>3 DEF Left, Right
      <4>2. Before(valids[2], n) + Before(matches[3], n) <= n
        BY <3>3 DEF RoomInv
      <4>3. valids'[2] = valids[2]
        BY <2>1, <2>2, <3>3, OutputFacts
      <4>. QED BY <1>2, <1>4, <2>2, <2>3, <3>1, <3>3, <4>1, <4>2, <4>3, FrameBefore DEF RoomInv
    <3>. QED BY <2>3, <2>5, <3>2, <3>3
  <2>. QED BY <2>4, <2>5
<1>7. CASE Overrun
  <2>1. InJoin /\ ~SkipsLeft /\ ~SkipsRight /\ validIter >= n
    BY <1>7 DEF Overrun
  <2>2. Left[leftIter] # Empty /\ Right[rightIter] # Empty
    BY <2>1, MatchFacts
  <2>3. ASSUME join # 3 PROVE FALSE
    BY <1>1, <2>1, <2>2, <2>3, RoomOfSides
  <2>4. join' = join
    BY <1>7 DEF Overrun
  <2>. QED BY <2>3, <2>4 DEF RoomInv
<1>8. CASE NextJoin
  <2>1. /\ join \in 1 .. 3 /\ join' = join + 1 /\ ~overrun'
        /\ leftIter' = 0 /\ rightIter' = 0 /\ validIter' = 0
    BY <1>8 DEF NextJoin, Shape
  <2>2. CASE join = 1
    <3>1. PICK v2 \in SortedByTo(valids[2]), m3 \in SortedByFrom(matches[3]) :
            valids' = [valids EXCEPT ![2] = v2] /\ matches' = [matches EXCEPT ![3] = m3]
      BY <1>8, <2>2 DEF NextJoin
    <3>2. valids[2] \in [Slots -> Elements] /\ matches[3] \in [Slots -> Elements]
      BY DEF Shape
    <3>3. v2 \in Reorderings(valids[2]) /\ m3 \in Reorderings(matches[3])
      BY DEF SortedByTo, SortedByFrom
    <3>4. Before(v2, n) = Before(valids[2], n) /\ Before(m3, n) = Before(matches[3], n)
      BY <1>1, <3>2, <3>3, ReorderKeepsCount
    <3>5. /\ Before(matches[1], n) + Before(matches[2], n) + Before(matches[3], n) <= n
          /\ validIter <= Before(matches[1], leftIter) + Before(matches[2], rightIter)
          /\ \A i \in Slots : i >= validIter => valids[2][i] = Empty
      BY <2>2 DEF RoomInv
    <3>6. Before(valids[2], n) <= validIter
      BY <1>1, <3>5, PrefixCount
    <3>7. /\ n \in 0 .. n /\ leftIter \in 0 .. n /\ rightIter \in 0 .. n
      BY <1>1 DEF Shape
    <3>8. /\ Before(matches[1], leftIter) \in Nat /\ Before(matches[2], rightIter) \in Nat
          /\ Before(matches[1], leftIter) <= Before(matches[1], n)
          /\ Before(matches[2], rightIter) <= Before(matches[2], n)
          /\ Before(matches[1], n) \in Nat /\ Before(matches[2], n) \in Nat
          /\ Before(matches[3], n) \in Nat
          /\ Before(valids[2], n) \in Nat /\ Before(v2, 0) = 0 /\ Before(m3, 0) = 0
      BY <1>1, <3>7, BeforeFacts
    <3>9. Before(v2, n) + Before(m3, n) <= n
      BY <1>1, <3>4, <3>5, <3>6, <3>8
    <3>10. valids'[2] = v2 /\ matches'[3] = m3
      BY <3>1 DEF Shape
    <3>11. join' = 2
      BY <2>1, <2>2
    <3>12. /\ Before(valids[2], n)' = Before(v2, n) /\ Before(matches[3], n)' = Before(m3, n)
           /\ Before(valids[2], leftIter)' = 0 /\ Before(matches[3], rightIter)' = 0
      BY <1>2, <2>1, <3>8, <3>10, FrameBefore
    <3>. QED BY <1>1, <1>4, <2>1, <3>9, <3>11, <3>12 DEF RoomInv
  <2>3. CASE join # 1
    BY <2>1, <2>3 DEF RoomInv
  <2>. QED BY <2>2, <2>3
<1>9. CASE Count
  BY <1>9 DEF Count, RoomInv
<1>10. CASE UNCHANGED vars
  BY <1>10, <1>4, FrameBefore DEF vars, RoomInv, LabelsDiffer
<1>. QED BY <1>5, <1>6, <1>7, <1>8, <1>9, <1>10 DEF Next, Ended

\* Shape and room are kept from the beginning.
LEMMA Invariance ==
  Spec => [](Shape /\ RoomInv)
<1>1. Init => Shape /\ RoomInv
  BY InitShape, InitRoom
<1>2. Shape /\ RoomInv /\ [Next]_vars => (Shape /\ RoomInv)'
  BY StepKeepsShape, StepKeepsRoom
<1>. QED BY <1>1, <1>2, PTL DEF Spec

(***************************************************************************)
(* The arrays keep their lengths and hold what the database holds, and no  *)
(* cursor leaves them.                                                     *)
(***************************************************************************)
THEOREM TypeCorrect == Spec => []TypeOK
<1>1. Shape => TypeOK
  BY DEF Shape, TypeOK
<1>. QED BY <1>1, Invariance, PTL

(***************************************************************************)
(* With three different labels only the last merge can write behind the    *)
(* end of an array, for every database and whatever qsort does with equal  *)
(* keys.                                                                   *)
(***************************************************************************)
THEOREM OverrunsOnlyInLastJoin == Spec => []OverrunsLastJoinOnly
<1>1. RoomInv => OverrunsLastJoinOnly
  BY DEF RoomInv, OverrunsLastJoinOnly
<1>. QED BY <1>1, Invariance, PTL

-----------------------------------------------------------------------------
\* The databases and queries that CountsDisjointTriangles is about.
Good == DisjointTriangles /\ (LabelsAlike \/ LabelsDiffer)

T == Cardinality(Triangles)

\* The slots with the k-th label, and the edges in them.
Asked(k)  == {i \in Slots : db[i].edgeLabel = labels[k]}
Wanted(k) == {db[i] : i \in Asked(k)}

\* The corners of a triangle are asked for and fit together.
LEMMA TriangleFacts ==
  ASSUME NEW t \in Triangles
  PROVE  /\ t = <<t[1], t[2], t[3]>>
         /\ t[1] \in Asked(1) /\ t[2] \in Asked(2) /\ t[3] \in Asked(3)
         /\ db[t[1]].toNode = db[t[2]].fromNode
         /\ db[t[2]].toNode = db[t[3]].fromNode
         /\ db[t[3]].toNode = db[t[1]].fromNode
BY DEF Triangles, Asked

\* What is asked for is what the triangles are to be made of.
LEMMA AskedFacts ==
  ASSUME Good, NEW j \in 1 .. 3, NEW k \in 1 .. 3, NEW h \in Asked(j), NEW i \in Asked(k)
  PROVE  /\ h \in Matching /\ h \in Slots
         /\ (db[h].fromNode = db[i].fromNode \/ db[h].toNode = db[i].toNode) => h = i
BY DEF Good, DisjointTriangles, Matching, Asked

\* Every slot with a label is the corner of that label of some triangle.
LEMMA CornerOf ==
  ASSUME Good, NEW k \in 1 .. 3, NEW i \in Asked(k)
  PROVE  \E t \in Triangles : t[k] = i
<1>1. i \in Matching
  BY AskedFacts
<1>2. PICK t \in Triangles : i \in {t[1], t[2], t[3]}
  BY <1>1 DEF Good, DisjointTriangles
<1>3. t = <<t[1], t[2], t[3]>> /\ t[1] \in Asked(1) /\ t[2] \in Asked(2) /\ t[3] \in Asked(3)
  BY TriangleFacts
<1>4. CASE LabelsDiffer
  <2>1. \A j \in 1 .. 3 : j # k => labels[j] # labels[k]
    BY <1>4 DEF LabelsDiffer
  <2>2. \A j \in 1 .. 3 : i \in Asked(j) => j = k
    BY <2>1 DEF Asked
  <2>3. \/ i = t[1] /\ k = 1
        \/ i = t[2] /\ k = 2
        \/ i = t[3] /\ k = 3
    BY <1>2, <1>3, <2>2
  <2>. QED BY <2>3
<1>5. CASE LabelsAlike
  <2>1. labels[1] = labels[2] /\ labels[2] = labels[3]
    BY <1>5 DEF LabelsAlike
  <2>2. <<t[2], t[3], t[1]>> \in Triangles /\ <<t[3], t[1], t[2]>> \in Triangles
    BY <2>1 DEF Triangles
  <2>3. CASE k = 1
    BY <1>2, <2>2, <2>3
  <2>4. CASE k = 2
    BY <1>2, <2>2, <2>4
  <2>5. CASE k = 3
    BY <1>2, <2>2, <2>5
  <2>. QED BY <2>3, <2>4, <2>5
<1>. QED BY <1>4, <1>5 DEF Good

\* A triangle is known by any of its corners.
LEMMA OneCorner ==
  ASSUME Good, NEW k \in 1 .. 3, NEW t \in Triangles, NEW u \in Triangles, t[k] = u[k]
  PROVE  t = u
<1>1. /\ t = <<t[1], t[2], t[3]>> /\ u = <<u[1], u[2], u[3]>>
      /\ t[1] \in Asked(1) /\ t[2] \in Asked(2) /\ t[3] \in Asked(3)
      /\ u[1] \in Asked(1) /\ u[2] \in Asked(2) /\ u[3] \in Asked(3)
      /\ db[t[1]].toNode = db[t[2]].fromNode /\ db[u[1]].toNode = db[u[2]].fromNode
      /\ db[t[2]].toNode = db[t[3]].fromNode /\ db[u[2]].toNode = db[u[3]].fromNode
      /\ db[t[3]].toNode = db[t[1]].fromNode /\ db[u[3]].toNode = db[u[1]].fromNode
  BY TriangleFacts
<1>2. t[1] = u[1] => t[2] = u[2]
  BY <1>1, AskedFacts
<1>3. t[2] = u[2] => t[3] = u[3]
  BY <1>1, AskedFacts
<1>4. t[3] = u[3] => t[1] = u[1]
  BY <1>1, AskedFacts
<1>5. t[1] = u[1] /\ t[2] = u[2] /\ t[3] = u[3]
  BY <1>2, <1>3, <1>4
<1>. QED BY <1>1, <1>5

\* There are as many triangles as slots with any one of the labels.
LEMMA AskedCount ==
  ASSUME db \in Databases, Good, NEW k \in 1 .. 3
  PROVE  /\ IsFiniteSet(Asked(k)) /\ Cardinality(Asked(k)) = T
         /\ T \in Nat /\ T <= n
<1>1. IsFiniteSet(Slots) /\ Cardinality(Slots) = n /\ n \in Nat /\ Asked(k) \in SUBSET Slots
  BY SlotFacts DEF Asked
<1>2. IsFiniteSet(Asked(k)) /\ Cardinality(Asked(k)) \in Nat /\ Cardinality(Asked(k)) <= n
  BY <1>1, FS_Subset, FS_CardinalityType
<1>. DEFINE g == [i \in Asked(k) |-> CHOOSE t \in Triangles : t[k] = i]
<1>3. \A i \in Asked(k) : g[i] \in Triangles /\ g[i][k] = i
  BY CornerOf
<1>4. \A t \in Triangles : t[k] \in Asked(k)
  BY TriangleFacts
<1>5. \A t \in Triangles : g[t[k]] = t
  BY <1>3, <1>4, OneCorner
<1>6. g \in [Asked(k) -> Triangles]
  BY <1>3
<1>. HIDE DEF g
<1>7. g \in Bijection(Asked(k), Triangles)
  BY <1>3, <1>4, <1>5, <1>6 DEF Bijection, Injection, Surjection, IsInjective
<1>. QED BY <1>2, <1>7, FS_Bijection DEF ExistsBijection, T

\* The nodes that edges lead to and come from.
Tos(S)   == {e.toNode : e \in S}
Froms(S) == {e.fromNode : e \in S}

\* There are as many edges with each label as triangles, told apart by their
\* nodes, and those with one label lead to where those with the next begin.
LEMMA WantedFacts ==
  ASSUME Shape, Good
  PROVE  /\ \A k \in 1 .. 3 : /\ Wanted(k) \subseteq Edge /\ IsFiniteSet(Wanted(k))
                              /\ Cardinality(Wanted(k)) = T
         /\ T \in Nat /\ T <= n
         /\ \A j, k \in 1 .. 3 : \A e \in Wanted(j), f \in Wanted(k) :
              e.fromNode = f.fromNode \/ e.toNode = f.toNode => e = f
         /\ Tos(Wanted(1)) = Froms(Wanted(2))
         /\ Tos(Wanted(2)) = Froms(Wanted(3))
         /\ Tos(Wanted(3)) = Froms(Wanted(1))
         /\ \A j, k \in 1 .. 3 : Wanted(j) = Wanted(k) \/ Wanted(j) \cap Wanted(k) = {}
<1>1. db \in Databases /\ labels \in [1 .. 3 -> Nat]
  BY QueriesAssumption DEF Shape
<1>2. ASSUME NEW k \in 1 .. 3, NEW i \in Asked(k)
      PROVE  i \in Slots /\ db[i] \in Edge /\ db[i].edgeLabel = labels[k]
  <2>1. i \in Slots /\ db[i].edgeLabel = labels[k] /\ labels[k] \in Nat
    BY <1>1 DEF Asked
  <2>2. db[i] \in Edge \cup {Empty}
    BY <1>1, <2>1, SlotFacts
  <2>. QED BY <2>1, <2>2 DEF Empty, NoLabel
<1>3. \A j, k \in 1 .. 3 : \A h \in Asked(j), i \in Asked(k) :
        db[h].fromNode = db[i].fromNode \/ db[h].toNode = db[i].toNode => h = i
  BY AskedFacts
<1>4. ASSUME NEW k \in 1 .. 3
      PROVE  /\ Wanted(k) \subseteq Edge /\ IsFiniteSet(Wanted(k)) /\ Cardinality(Wanted(k)) = T
             /\ T \in Nat /\ T <= n
  <2>1. IsFiniteSet(Asked(k)) /\ Cardinality(Asked(k)) = T /\ T \in Nat /\ T <= n
    BY <1>1, AskedCount
  <2>. DEFINE g == [i \in Asked(k) |-> db[i]]
  <2>2. g \in Bijection(Asked(k), Wanted(k))
    <3>1. g \in [Asked(k) -> Wanted(k)] /\ \A e \in Wanted(k) : \E i \in Asked(k) : g[i] = e
      BY DEF Wanted
    <3>2. \A h, i \in Asked(k) : g[h] = g[i] => h = i
      BY <1>3
    <3>. HIDE DEF g
    <3>. QED BY <3>1, <3>2 DEF Bijection, Injection, Surjection, IsInjective
  <2>3. IsFiniteSet(Wanted(k)) /\ Cardinality(Wanted(k)) = T
    BY <2>1, <2>2, FS_Bijection DEF ExistsBijection
  <2>. QED BY <1>2, <2>1, <2>3 DEF Wanted
<1>5. \A j, k \in 1 .. 3 : \A e \in Wanted(j), f \in Wanted(k) :
        e.fromNode = f.fromNode \/ e.toNode = f.toNode => e = f
  BY <1>3 DEF Wanted
<1>6. ASSUME NEW j \in 1 .. 3, NEW k \in 1 .. 3,
             \A t \in Triangles : db[t[j]].toNode = db[t[k]].fromNode
      PROVE  Tos(Wanted(j)) = Froms(Wanted(k))
  <2>1. \A t \in Triangles : t[j] \in Asked(j) /\ t[k] \in Asked(k)
    BY TriangleFacts
  <2>2. ASSUME NEW i \in Asked(j) PROVE \E h \in Asked(k) : db[h].fromNode = db[i].toNode
    BY <1>6, <2>1, CornerOf
  <2>3. ASSUME NEW h \in Asked(k) PROVE \E i \in Asked(j) : db[h].fromNode = db[i].toNode
    BY <1>6, <2>1, CornerOf
  <2>4. /\ Tos(Wanted(j)) = {db[i].toNode : i \in Asked(j)}
        /\ Froms(Wanted(k)) = {db[h].fromNode : h \in Asked(k)}
    BY DEF Tos, Froms, Wanted
  <2>5. {db[i].toNode : i \in Asked(j)} = {db[h].fromNode : h \in Asked(k)}
    <3>1. ASSUME NEW i \in Asked(j) PROVE db[i].toNode \in {db[h].fromNode : h \in Asked(k)}
      <4>1. PICK h \in Asked(k) : db[h].fromNode = db[i].toNode
        BY <2>2
      <4>. QED BY <4>1
    <3>2. ASSUME NEW h \in Asked(k) PROVE db[h].fromNode \in {db[i].toNode : i \in Asked(j)}
      <4>1. PICK i \in Asked(j) : db[h].fromNode = db[i].toNode
        BY <2>3
      <4>. QED BY <4>1
    <3>. QED BY <3>1, <3>2
  <2>. QED BY <2>4, <2>5, Zenon
<1>7. \A t \in Triangles : /\ db[t[1]].toNode = db[t[2]].fromNode
                           /\ db[t[2]].toNode = db[t[3]].fromNode
                           /\ db[t[3]].toNode = db[t[1]].fromNode
  BY TriangleFacts
<1>8. /\ Tos(Wanted(1)) = Froms(Wanted(2)) /\ Tos(Wanted(2)) = Froms(Wanted(3))
      /\ Tos(Wanted(3)) = Froms(Wanted(1))
  BY <1>6, <1>7
<1>9. ASSUME NEW j \in 1 .. 3, NEW k \in 1 .. 3
      PROVE  Wanted(j) = Wanted(k) \/ Wanted(j) \cap Wanted(k) = {}
  <2>1. CASE labels[j] = labels[k]
    BY <2>1 DEF Wanted, Asked
  <2>2. CASE labels[j] # labels[k]
    BY <1>2, <2>2 DEF Wanted
  <2>. QED BY <2>1, <2>2
<1>. QED BY <1>4, <1>5, <1>8, <1>9

-----------------------------------------------------------------------------
\* The keys of a sorted array that holds the keys K once and free slots.
Column(A, K) ==
  /\ A \in [Slots -> Int]
  /\ \A i \in Slots : A[i] = -1 \/ A[i] \in K
  /\ \A v \in K : \E i \in Slots : A[i] = v
  /\ \A i, j \in Slots : A[i] = A[j] /\ A[i] # -1 => i = j
  /\ \A i \in Slots \ {0} : A[i - 1] <= A[i]

\* Neighbours in order are an array in order.
LEMMA ColumnSorted ==
  ASSUME db \in Databases, NEW A \in [Slots -> Int], \A i \in Slots \ {0} : A[i - 1] <= A[i],
         NEW i \in Slots, NEW j \in Slots, i <= j
  PROVE  A[i] <= A[j]
<1>1. n \in Nat /\ Slots = 0 .. n - 1
  BY SlotFacts DEF Slots
<1>. DEFINE D == {d \in Nat : i + d \in Slots /\ ~ (A[i] <= A[i + d])}
<1>2. ASSUME D # {} PROVE FALSE
  <2>1. PICK m \in D : \A d \in D : m <= d
    BY <1>2, LeastOf
  <2>2. m # 0
    BY <1>1, <2>1
  <2>3. m - 1 \in Nat /\ i + (m - 1) \in Slots /\ i + m \in Slots \ {0}
    BY <1>1, <2>1, <2>2
  <2>4. ~ (m <= m - 1)
    BY <2>1
  <2>5. A[i] <= A[i + (m - 1)]
    BY <2>1, <2>3, <2>4
  <2>6. (i + m) - 1 = i + (m - 1)
    BY <1>1, <2>1
  <2>7. A[i + (m - 1)] <= A[i + m]
    BY <2>3, <2>6
  <2>8. A[i] \in Int /\ A[i + (m - 1)] \in Int /\ A[i + m] \in Int
    BY <2>3
  <2>. QED BY <2>1, <2>5, <2>7, <2>8
<1>3. j - i \in Nat /\ i + (j - i) = j
  BY <1>1
<1>. QED BY <1>2, <1>3

\* Two sorted columns of the same keys are the same.
LEMMA ColumnsAgree ==
  ASSUME db \in Databases, NEW K, K \subseteq Nat, NEW A, NEW B, Column(A, K), Column(B, K)
  PROVE  A = B
<1>1. n \in Nat /\ Slots = 0 .. n - 1
  BY SlotFacts DEF Slots
<1>2. ASSUME NEW X, NEW Y, Column(X, K), Column(Y, K), NEW j \in Slots,
             \A i \in Slots : i > j => X[i] = Y[i], X[j] < Y[j]
      PROVE  FALSE
  <2>1. X \in [Slots -> Int] /\ Y \in [Slots -> Int] /\ \A i \in Slots \ {0} : X[i - 1] <= X[i]
    BY <1>2 DEF Column
  <2>2. X[j] \in Int /\ Y[j] \in Int /\ X[j] >= -1 /\ Y[j] # -1 /\ Y[j] \in K
    BY <1>2, <2>1 DEF Column
  <2>3. PICK i \in Slots : X[i] = Y[j]
    BY <1>2, <2>2 DEF Column
  <2>4. i > j
    <3>1. i <= j => X[i] <= X[j]
      BY <2>1, ColumnSorted
    <3>. QED BY <1>1, <1>2, <2>2, <2>3, <3>1
  <2>5. Y[i] = Y[j]
    BY <1>2, <2>3, <2>4
  <2>6. i = j
    BY <1>2, <2>2, <2>5 DEF Column
  <2>. QED BY <1>1, <2>4, <2>6
<1>. DEFINE D == {d \in Nat : (n - 1) - d \in Slots /\ A[(n - 1) - d] # B[(n - 1) - d]}
<1>3. ASSUME D # {} PROVE FALSE
  <2>1. PICK m \in D : \A d \in D : m <= d
    BY <1>3, LeastOf
  <2>. DEFINE j == (n - 1) - m
  <2>2. j \in Slots /\ A[j] # B[j] /\ m \in Nat
    BY <2>1
  <2>3. ASSUME NEW i \in Slots, i > j PROVE A[i] = B[i]
    <3>1. (n - 1) - i \in Nat /\ (n - 1) - ((n - 1) - i) = i /\ ~ (m <= (n - 1) - i)
      BY <1>1, <2>2, <2>3
    <3>2. (n - 1) - i \notin D
      BY <2>1, <3>1
    <3>. QED BY <3>1, <3>2
  <2>. HIDE DEF j
  <2>4. A[j] \in Int /\ B[j] \in Int
    BY <2>2 DEF Column
  <2>5. A[j] < B[j] \/ B[j] < A[j]
    BY <2>2, <2>4
  <2>6. CASE A[j] < B[j]
    BY <1>2, <2>2, <2>3, <2>6
  <2>7. CASE B[j] < A[j]
    BY <1>2, <2>2, <2>3, <2>7
  <2>. QED BY <2>5, <2>6, <2>7
<1>4. ASSUME NEW i \in Slots PROVE A[i] = B[i]
  <2>1. (n - 1) - i \in Nat /\ (n - 1) - ((n - 1) - i) = i
    BY <1>1
  <2>. QED BY <1>3, <2>1
<1>5. A \in [Slots -> Int] /\ B \in [Slots -> Int]
  BY DEF Column
<1>. QED BY <1>4, <1>5

\* The free slots of a sorted column come first.
LEMMA ColumnPlaces ==
  ASSUME db \in Databases, NEW K, K \subseteq Nat, IsFiniteSet(K), NEW A, Column(A, K)
  PROVE  \A i \in Slots : A[i] = -1 <=> i < n - Cardinality(K)
<1>1. n \in Nat /\ Slots = 0 .. n - 1 /\ Cardinality(K) \in Nat /\ IsFiniteSet(Slots)
  BY SlotFacts, FS_CardinalityType DEF Slots
<1>. DEFINE U == {i \in Slots : A[i] # -1}
            g == [i \in U |-> A[i]]
<1>2. g \in Bijection(U, K)
  <2>1. g \in [U -> K] /\ \A i, j \in U : g[i] = g[j] => i = j
    BY DEF Column
  <2>2. \A v \in K : \E i \in U : g[i] = v
    BY DEF Column
  <2>. HIDE DEF g, U
  <2>. QED BY <2>1, <2>2 DEF Bijection, Injection, Surjection, IsInjective
<1>3. U \in SUBSET Slots /\ IsFiniteSet(U)
  BY <1>1, FS_Subset
<1>4. Cardinality(U) = Cardinality(K)
  BY <1>2, <1>3, FS_Bijection DEF ExistsBijection
<1>5. CASE U = {}
  <2>1. Cardinality(K) = 0
    BY <1>4, <1>5, FS_EmptySet
  <2>. QED BY <1>1, <1>5, <2>1
<1>6. CASE U # {}
  <2>1. U \subseteq Nat
    BY <1>1
  <2>2. PICK m \in U : \A i \in U : m <= i
    BY <1>6, <2>1, LeastOf
  <2>3. m \in 0 .. n - 1 /\ A[m] # -1
    BY <1>1, <2>2
  <2>4. ASSUME NEW i \in Slots, m <= i PROVE i \in U
    <3>1. A[m] <= A[i] /\ A[m] \in Nat /\ A[i] \in Int
      BY <1>1, <2>3, <2>4, ColumnSorted DEF Column
    <3>. QED BY <3>1
  <2>5. U = m .. n - 1
    BY <1>1, <2>2, <2>3, <2>4
  <2>. HIDE DEF U
  <2>6. Cardinality(U) = n - m
    <3>1. m \in Int /\ n - 1 \in Int /\ ~ (m > n - 1) /\ ((n - 1) - m) + 1 = n - m
      BY <1>1, <2>3
    <3>2. Cardinality(m .. n - 1) = IF m > n - 1 THEN 0 ELSE (n - 1) - m + 1
      BY <3>1, FS_Interval, Zenon
    <3>. QED BY <2>5, <3>1, <3>2
  <2>7. n - Cardinality(K) = m
    BY <1>1, <1>4, <2>3, <2>6
  <2>8. \A i \in Slots : i \in U <=> ~ (i < m)
    BY <1>1, <2>3, <2>5
  <2>. QED BY <2>7, <2>8 DEF U
<1>. QED BY <1>5, <1>6

-----------------------------------------------------------------------------
\* An array that holds every edge of S in one slot, and is free otherwise.
Holds(a, S) ==
  /\ a \in [Slots -> S \cup {Empty}]
  /\ \A e \in S : \E i \in Slots : a[i] = e
  /\ \A i, j \in Slots : a[i] = a[j] /\ a[i] # Empty => i = j

InOrderTo(a)   == \A i \in Slots \ {0} : a[i - 1].toNode <= a[i].toNode
InOrderFrom(a) == \A i \in Slots \ {0} : a[i - 1].fromNode <= a[i].fromNode

\* Edges that are told apart by either of their nodes.
Apart(S, R) ==
  \A e \in S, f \in R : e.fromNode = f.fromNode \/ e.toNode = f.toNode => e = f

ToColumn(a)   == [i \in Slots |-> a[i].toNode]
FromColumn(a) == [i \in Slots |-> a[i].fromNode]

\* qsort yields the same edges, in order.
LEMMA SortedHolds ==
  ASSUME db \in Databases, NEW S, NEW a, Holds(a, S)
  PROVE  /\ \A b \in SortedByTo(a) : Holds(b, S) /\ InOrderTo(b)
         /\ \A b \in SortedByFrom(a) : Holds(b, S) /\ InOrderFrom(b)
<1>1. a \in [Slots -> S \cup {Empty}] /\ DOMAIN a = Slots
  BY DEF Holds
<1>2. ASSUME NEW b \in Reorderings(a) PROVE Holds(b, S) /\ DOMAIN b = Slots
  <2>1. PICK p \in Bijection(DOMAIN a, DOMAIN a) : b = [i \in DOMAIN a |-> a[p[i]]]
    BY DEF Reorderings
  <2>2. /\ \A i \in Slots : p[i] \in Slots
        /\ \A i, j \in Slots : p[i] = p[j] => i = j
        /\ \A j \in Slots : \E i \in Slots : p[i] = j
    BY <1>1, <2>1 DEF Bijection, Injection, Surjection, IsInjective
  <2>3. DOMAIN b = Slots /\ \A i \in Slots : b[i] = a[p[i]]
    BY <1>1, <2>1
  <2>4. b \in [Slots -> S \cup {Empty}]
    BY <1>1, <2>1, <2>2
  <2>5. \A e \in S : \E i \in Slots : b[i] = e
    <3>1. TAKE e \in S
    <3>2. PICK j \in Slots : a[j] = e
      BY DEF Holds
    <3>3. PICK i \in Slots : p[i] = j
      BY <2>2
    <3>. QED BY <2>3, <3>2, <3>3
  <2>6. \A i, j \in Slots : b[i] = b[j] /\ b[i] # Empty => i = j
    BY <2>2, <2>3 DEF Holds
  <2>. QED BY <2>3, <2>4, <2>5, <2>6 DEF Holds
<1>. QED BY <1>2 DEF SortedByTo, SortedByFrom, InOrderTo, InOrderFrom

\* The filter keeps the edges with the label, each where it was.
LEMMA FilterHolds ==
  ASSUME Shape, Good, NEW k \in 1 .. 3
  PROVE  Holds(Filter(db, labels[k]), Wanted(k))
<1>1. DOMAIN db = Slots /\ Wanted(k) \subseteq Edge
  BY SlotFacts, WantedFacts DEF Shape
<1>. DEFINE a == Filter(db, labels[k])
<1>2. a = [i \in Slots |-> IF i \in Asked(k) THEN db[i] ELSE Empty]
  BY <1>1 DEF Filter, Asked
<1>. HIDE DEF a
<1>3. \A i \in Slots : a[i] = IF i \in Asked(k) THEN db[i] ELSE Empty
  BY <1>2
<1>4. a \in [Slots -> Wanted(k) \cup {Empty}]
  BY <1>2 DEF Wanted
<1>5. \A e \in Wanted(k) : \E i \in Slots : a[i] = e
  BY <1>3 DEF Wanted, Asked
<1>6. \A i, j \in Slots : a[i] = a[j] /\ a[i] # Empty => i = j
  <2>1. TAKE i, j \in Slots
  <2>2. HAVE a[i] = a[j] /\ a[i] # Empty
  <2>3. i \in Asked(k) /\ j \in Asked(k) /\ db[i] = db[j]
    BY <1>3, <2>2
  <2>. QED BY <2>3, AskedFacts
<1>. QED BY <1>4, <1>5, <1>6 DEF a, Holds

\* The labels of the elements tell which slots are taken.
LEMMA HoldsLabelled ==
  ASSUME db \in Databases, NEW S, S \subseteq Edge, NEW a, Holds(a, S)
  PROVE  Labelled(a) = Cardinality(S)
<1>1. IsFiniteSet(Slots)
  BY SlotFacts
<1>. DEFINE U == {i \in Slots : a[i].edgeLabel # NoLabel}
            g == [i \in U |-> a[i]]
<1>2. \A i \in Slots : a[i] \in S \cup {Empty}
  BY DEF Holds
<1>3. \A i \in Slots : i \in U <=> a[i] # Empty
  <2>1. \A e \in S : e # Empty /\ e.edgeLabel # NoLabel
    BY DEF Edge, Empty, NoLabel
  <2>2. Empty.edgeLabel = NoLabel
    BY DEF Empty
  <2>. QED BY <1>2, <2>1, <2>2
<1>4. \A e \in S : e # Empty
  BY DEF Edge, Empty, NoLabel
<1>5. U \in SUBSET Slots /\ IsFiniteSet(U)
  BY <1>1, FS_Subset
<1>. HIDE DEF U
<1>6. g \in [U -> S] /\ \A i \in U : g[i] = a[i]
  BY <1>2, <1>3, <1>5
<1>. HIDE DEF g
<1>7. \A i, j \in U : g[i] = g[j] => i = j
  BY <1>3, <1>5, <1>6 DEF Holds
<1>8. \A e \in S : \E i \in U : g[i] = e
  BY <1>3, <1>4, <1>6 DEF Holds
<1>9. g \in Bijection(U, S)
  BY <1>6, <1>7, <1>8 DEF Bijection, Injection, Surjection, IsInjective
<1>10. Cardinality(U) = Cardinality(S)
  BY <1>5, <1>9, FS_Bijection DEF ExistsBijection
<1>. QED BY <1>10 DEF U, Labelled

\* The keys of a sorted array that holds edges told apart by their nodes.
LEMMA ColumnOfTo ==
  ASSUME db \in Databases, NEW S, S \subseteq Edge, NEW a, Holds(a, S), Apart(S, S)
  PROVE  /\ \A i \in Slots : /\ ToColumn(a)[i] = a[i].toNode
                             /\ a[i] = Empty <=> a[i].toNode = -1
                             /\ a[i] # Empty => a[i] \in S /\ a[i].toNode \in Nat
         /\ Tos(S) \subseteq Nat
         /\ InOrderTo(a) => Column(ToColumn(a), Tos(S))
<1>1. /\ Slots = 0 .. n - 1 /\ n \in Nat
      /\ a \in [Slots -> S \cup {Empty}]
      /\ \A e \in S : \E i \in Slots : a[i] = e
      /\ \A i, j \in Slots : a[i] = a[j] /\ a[i] # Empty => i = j
  BY SlotFacts DEF Holds, Slots
<1>2. \A e \in S : e.toNode \in Nat /\ e # Empty
  BY DEF Edge, Empty, NoLabel
<1>3. Empty.toNode = -1
  BY DEF Empty
<1>4. \A i \in Slots : /\ ToColumn(a)[i] = a[i].toNode
                       /\ a[i] = Empty <=> a[i].toNode = -1
                       /\ a[i] # Empty => a[i] \in S /\ a[i].toNode \in Nat
  BY <1>1, <1>2, <1>3 DEF ToColumn
<1>5. Tos(S) \subseteq Nat
  BY <1>2 DEF Tos
<1>6. ASSUME InOrderTo(a) PROVE Column(ToColumn(a), Tos(S))
  <2>. DEFINE A == ToColumn(a)
  <2>1. A = [i \in Slots |-> a[i].toNode]
    BY DEF ToColumn
  <2>. HIDE DEF A
  <2>2. \A i \in Slots : a[i].toNode \in Int
    BY <1>4
  <2>3. A \in [Slots -> Int]
    BY <2>1, <2>2
  <2>4. \A i \in Slots : A[i] = a[i].toNode
    BY <2>1
  <2>5. \A i \in Slots : A[i] = -1 \/ A[i] \in Tos(S)
    BY <1>4, <2>4 DEF Tos
  <2>6. \A v \in Tos(S) : \E i \in Slots : A[i] = v
    BY <1>1, <2>4 DEF Tos
  <2>7. \A i, j \in Slots : A[i] = A[j] /\ A[i] # -1 => i = j
    <3>1. TAKE i, j \in Slots
    <3>2. HAVE A[i] = A[j] /\ A[i] # -1
    <3>3. a[i] \in S /\ a[j] \in S /\ a[i].toNode = a[j].toNode /\ a[i] # Empty
      BY <1>4, <2>4, <3>2
    <3>4. a[i] = a[j]
      BY <3>3 DEF Apart
    <3>. QED BY <1>1, <3>3, <3>4
  <2>8. \A i \in Slots \ {0} : A[i - 1] <= A[i]
    <3>1. \A i \in Slots \ {0} : i - 1 \in Slots
      BY <1>1
    <3>. QED BY <1>6, <2>4, <3>1 DEF InOrderTo
  <2>9. Column(A, Tos(S))
    BY <2>3, <2>5, <2>6, <2>7, <2>8 DEF Column
  <2>. QED BY <2>9 DEF A
<1>. QED BY <1>4, <1>5, <1>6

\* The same for the other node.
LEMMA ColumnOfFrom ==
  ASSUME db \in Databases, NEW S, S \subseteq Edge, NEW a, Holds(a, S), Apart(S, S)
  PROVE  /\ \A i \in Slots : /\ FromColumn(a)[i] = a[i].fromNode
                             /\ a[i] = Empty <=> a[i].fromNode = -1
                             /\ a[i] # Empty => a[i] \in S /\ a[i].fromNode \in Nat
         /\ Froms(S) \subseteq Nat
         /\ InOrderFrom(a) => Column(FromColumn(a), Froms(S))
<1>1. /\ Slots = 0 .. n - 1 /\ n \in Nat
      /\ a \in [Slots -> S \cup {Empty}]
      /\ \A e \in S : \E i \in Slots : a[i] = e
      /\ \A i, j \in Slots : a[i] = a[j] /\ a[i] # Empty => i = j
  BY SlotFacts DEF Holds, Slots
<1>2. \A e \in S : e.fromNode \in Nat /\ e # Empty
  BY DEF Edge, Empty, NoLabel
<1>3. Empty.fromNode = -1
  BY DEF Empty
<1>4. \A i \in Slots : /\ FromColumn(a)[i] = a[i].fromNode
                       /\ a[i] = Empty <=> a[i].fromNode = -1
                       /\ a[i] # Empty => a[i] \in S /\ a[i].fromNode \in Nat
  BY <1>1, <1>2, <1>3 DEF FromColumn
<1>5. Froms(S) \subseteq Nat
  BY <1>2 DEF Froms
<1>6. ASSUME InOrderFrom(a) PROVE Column(FromColumn(a), Froms(S))
  <2>. DEFINE A == FromColumn(a)
  <2>1. A = [i \in Slots |-> a[i].fromNode]
    BY DEF FromColumn
  <2>. HIDE DEF A
  <2>2. \A i \in Slots : a[i].fromNode \in Int
    BY <1>4
  <2>3. A \in [Slots -> Int]
    BY <2>1, <2>2
  <2>4. \A i \in Slots : A[i] = a[i].fromNode
    BY <2>1
  <2>5. \A i \in Slots : A[i] = -1 \/ A[i] \in Froms(S)
    BY <1>4, <2>4 DEF Froms
  <2>6. \A v \in Froms(S) : \E i \in Slots : A[i] = v
    BY <1>1, <2>4 DEF Froms
  <2>7. \A i, j \in Slots : A[i] = A[j] /\ A[i] # -1 => i = j
    <3>1. TAKE i, j \in Slots
    <3>2. HAVE A[i] = A[j] /\ A[i] # -1
    <3>3. a[i] \in S /\ a[j] \in S /\ a[i].fromNode = a[j].fromNode /\ a[i] # Empty
      BY <1>4, <2>4, <3>2
    <3>4. a[i] = a[j]
      BY <3>3 DEF Apart
    <3>. QED BY <1>1, <3>3, <3>4
  <2>8. \A i \in Slots \ {0} : A[i - 1] <= A[i]
    <3>1. \A i \in Slots \ {0} : i - 1 \in Slots
      BY <1>1
    <3>. QED BY <1>6, <2>4, <3>1 DEF InOrderFrom
  <2>9. Column(A, Froms(S))
    BY <2>3, <2>5, <2>6, <2>7, <2>8 DEF Column
  <2>. QED BY <2>9 DEF A
<1>. QED BY <1>4, <1>5, <1>6

\* The sides of a merge that have the same keys agree place by place.
LEMMA SidesAgree ==
  ASSUME db \in Databases, NEW S, NEW R, S \subseteq Edge, R \subseteq Edge,
         IsFiniteSet(S), Cardinality(R) = Cardinality(S), Apart(S, S), Apart(R, R),
         Tos(S) = Froms(R),
         NEW a, NEW b, Holds(a, S), Holds(b, R), InOrderTo(a), InOrderFrom(b)
  PROVE  \A i \in Slots :
           /\ i < n - Cardinality(S) => a[i] = Empty /\ b[i] = Empty
           /\ ~ (i < n - Cardinality(S)) =>
                /\ a[i] # Empty /\ b[i] # Empty
                /\ a[i].toNode = b[i].fromNode
<1>1. /\ Column(ToColumn(a), Tos(S)) /\ Tos(S) \subseteq Nat
      /\ \A i \in Slots : ToColumn(a)[i] = a[i].toNode /\ (a[i] = Empty <=> a[i].toNode = -1)
  BY ColumnOfTo
<1>2. /\ Column(FromColumn(b), Tos(S))
      /\ \A i \in Slots : FromColumn(b)[i] = b[i].fromNode /\ (b[i] = Empty <=> b[i].fromNode = -1)
  BY ColumnOfFrom
<1>3. ToColumn(a) = FromColumn(b)
  BY <1>1, <1>2, ColumnsAgree
<1>4. IsFiniteSet(Tos(S)) /\ Cardinality(Tos(S)) = Cardinality(S)
  <2>. DEFINE g == [e \in S |-> e.toNode]
  <2>1. g \in [S -> Tos(S)] /\ \A v \in Tos(S) : \E e \in S : g[e] = v
    BY DEF Tos
  <2>2. \A e, f \in S : g[e] = g[f] => e = f
    BY DEF Apart
  <2>. HIDE DEF g
  <2>3. g \in Bijection(S, Tos(S))
    BY <2>1, <2>2 DEF Bijection, Injection, Surjection, IsInjective
  <2>. QED BY <2>3, FS_Bijection DEF ExistsBijection
<1>5. \A i \in Slots : ToColumn(a)[i] = -1 <=> i < n - Cardinality(S)
  BY <1>1, <1>4, ColumnPlaces
<1>. QED BY <1>1, <1>2, <1>3, <1>5

\* The element behind a taken place of another array that has the same edges
\* or none in common never has the key of that place.
LEMMA AheadTo ==
  ASSUME db \in Databases, NEW S, NEW R, S \subseteq Edge, R \subseteq Edge,
         Apart(S, S), Apart(R, R), Apart(S, R), S = R \/ S \cap R = {},
         NEW a, NEW b, Holds(a, S), Holds(b, R), InOrderTo(a), InOrderTo(b),
         NEW i \in Slots, i + 1 \in Slots, a[i] # Empty
  PROVE  b[i + 1].toNode # a[i].toNode
<1>1. /\ a[i] \in S /\ a[i].toNode \in Nat /\ Column(ToColumn(a), Tos(S)) /\ Tos(S) \subseteq Nat
      /\ ToColumn(a)[i] = a[i].toNode /\ ToColumn(a)[i + 1] = a[i + 1].toNode
  BY ColumnOfTo
<1>2. /\ Column(ToColumn(b), Tos(R)) /\ ToColumn(b)[i + 1] = b[i + 1].toNode
      /\ b[i + 1] # Empty => b[i + 1] \in R
      /\ b[i + 1] = Empty => b[i + 1].toNode = -1
  BY ColumnOfTo
<1>3. n \in Nat /\ Slots = 0 .. n - 1 /\ i # i + 1
  BY SlotFacts DEF Slots
<1>4. CASE S = R
  <2>1. ToColumn(a) = ToColumn(b)
    BY <1>1, <1>2, <1>4, ColumnsAgree
  <2>2. ToColumn(a)[i] # ToColumn(a)[i + 1]
    BY <1>1, <1>3 DEF Column
  <2>. QED BY <1>1, <1>2, <2>1, <2>2
<1>5. CASE S \cap R = {}
  <2>1. b[i + 1] \in R => b[i + 1].toNode # a[i].toNode
    BY <1>1, <1>5 DEF Apart
  <2>. QED BY <1>1, <1>2, <2>1
<1>. QED BY <1>4, <1>5

\* The same for the other node.
LEMMA AheadFrom ==
  ASSUME db \in Databases, NEW S, NEW R, S \subseteq Edge, R \subseteq Edge,
         Apart(S, S), Apart(R, R), Apart(S, R), S = R \/ S \cap R = {},
         NEW a, NEW b, Holds(a, S), Holds(b, R), InOrderFrom(a), InOrderFrom(b),
         NEW i \in Slots, i + 1 \in Slots, a[i] # Empty
  PROVE  b[i + 1].fromNode # a[i].fromNode
<1>1. /\ a[i] \in S /\ a[i].fromNode \in Nat
      /\ Column(FromColumn(a), Froms(S)) /\ Froms(S) \subseteq Nat
      /\ FromColumn(a)[i] = a[i].fromNode /\ FromColumn(a)[i + 1] = a[i + 1].fromNode
  BY ColumnOfFrom
<1>2. /\ Column(FromColumn(b), Froms(R)) /\ FromColumn(b)[i + 1] = b[i + 1].fromNode
      /\ b[i + 1] # Empty => b[i + 1] \in R
      /\ b[i + 1] = Empty => b[i + 1].fromNode = -1
  BY ColumnOfFrom
<1>3. n \in Nat /\ Slots = 0 .. n - 1 /\ i # i + 1
  BY SlotFacts DEF Slots
<1>4. CASE S = R
  <2>1. FromColumn(a) = FromColumn(b)
    BY <1>1, <1>2, <1>4, ColumnsAgree
  <2>2. FromColumn(a)[i] # FromColumn(a)[i + 1]
    BY <1>1, <1>3 DEF Column
  <2>. QED BY <1>1, <1>2, <2>1, <2>2
<1>5. CASE S \cap R = {}
  <2>1. b[i + 1] \in R => b[i + 1].fromNode # a[i].fromNode
    BY <1>1, <1>5 DEF Apart
  <2>. QED BY <1>1, <1>2, <2>1
<1>. QED BY <1>4, <1>5

-----------------------------------------------------------------------------
\* The first v elements of an output are those of its source behind the free
\* slots.
Copied(out, src, v) ==
  \A i \in Slots : out[i] = IF i < v THEN src[(n - T) + i] ELSE Empty

\* What the arrays hold during each merge.
ArraysInv ==
  /\ join = 1 => /\ \A k \in 1 .. 3 : Holds(matches[k], Wanted(k))
                 /\ InOrderTo(matches[1]) /\ InOrderFrom(matches[2])
                 /\ Copied(valids[1], matches[1], validIter)
                 /\ Copied(valids[2], matches[2], validIter)
                 /\ valids[3] = Blank /\ valids[4] = Blank
  /\ join \in {2, 3} => /\ Holds(valids[1], Wanted(1))
                        /\ Holds(valids[2], Wanted(2)) /\ InOrderTo(valids[2])
                        /\ Holds(matches[3], Wanted(3)) /\ InOrderFrom(matches[3])
  /\ join = 2 => Copied(valids[3], matches[3], validIter) /\ valids[4] = Blank
  /\ join = 3 => /\ InOrderFrom(valids[1])
                 /\ Holds(valids[3], Wanted(3)) /\ InOrderTo(valids[3])
                 /\ Copied(valids[4], valids[3], validIter)
  /\ join = 4 => /\ Holds(valids[1], Wanted(1)) /\ Holds(valids[2], Wanted(2))
                 /\ Holds(valids[4], Wanted(3))
  /\ join = 5 => result = T

\* The left cursor passes the free slots, then the right one, then both go
\* side by side until one of them leaves its array.
Cursors(left, right, v) ==
  \/ left <= n - T /\ right = 0 /\ v = 0
  \/ left = n - T /\ right <= n - T /\ v = 0
  \/ left >= n - T /\ right = left /\ v = left - (n - T)
  \/ (left = n \/ right = n) /\ v = T

CountInv ==
  Good => /\ ~overrun
          /\ ArraysInv
          /\ join <= 3 => Cursors(leftIter, rightIter, validIter)

\* During a merge the sides agree place by place, and no test for a repeated
\* key within the arrays succeeds.
LEMMA MergeFacts ==
  ASSUME Shape, Good, ArraysInv, join \in 1 .. 3
  PROVE  /\ \A i \in Slots :
              /\ i < n - T => Left[i] = Empty /\ Right[i] = Empty
              /\ ~ (i < n - T) => /\ Left[i] # Empty /\ Right[i] # Empty
                                  /\ Left[i].toNode = Right[i].fromNode
         /\ \A i \in Slots : i + 1 \in Slots /\ ~ (i < n - T) =>
              /\ LeftAhead[i + 1].toNode # Left[i].toNode
              /\ RightAhead[i + 1].fromNode # Right[i].fromNode
<1>1. /\ db \in Databases
      /\ \A k \in 1 .. 3 : /\ Wanted(k) \subseteq Edge /\ IsFiniteSet(Wanted(k))
                           /\ Cardinality(Wanted(k)) = T
      /\ \A j, k \in 1 .. 3 : Apart(Wanted(j), Wanted(k))
      /\ Tos(Wanted(1)) = Froms(Wanted(2)) /\ Tos(Wanted(2)) = Froms(Wanted(3))
      /\ Tos(Wanted(3)) = Froms(Wanted(1))
      /\ \A j, k \in 1 .. 3 : Wanted(j) = Wanted(k) \/ Wanted(j) \cap Wanted(k) = {}
  BY WantedFacts DEF Apart, Shape
<1>. DEFINE Agree(a, b) ==
              \A i \in Slots : /\ i < n - T => a[i] = Empty /\ b[i] = Empty
                               /\ ~ (i < n - T) => /\ a[i] # Empty /\ b[i] # Empty
                                                   /\ a[i].toNode = b[i].fromNode
            Differ(a, b, c, d) ==
              \A i \in Slots : i + 1 \in Slots /\ ~ (i < n - T) =>
                b[i + 1].toNode # a[i].toNode /\ d[i + 1].fromNode # c[i].fromNode
<1>2. ASSUME NEW j \in 1 .. 3, NEW k \in 1 .. 3, Tos(Wanted(j)) = Froms(Wanted(k)),
             NEW a, NEW b, Holds(a, Wanted(j)), Holds(b, Wanted(k)), InOrderTo(a), InOrderFrom(b)
      PROVE  Agree(a, b)
  <2>1. /\ Wanted(j) \subseteq Edge /\ Wanted(k) \subseteq Edge /\ IsFiniteSet(Wanted(j))
        /\ Cardinality(Wanted(k)) = Cardinality(Wanted(j)) /\ Cardinality(Wanted(j)) = T
        /\ Apart(Wanted(j), Wanted(j)) /\ Apart(Wanted(k), Wanted(k))
    BY <1>1
  <2>2. \A i \in Slots :
           /\ i < n - Cardinality(Wanted(j)) => a[i] = Empty /\ b[i] = Empty
           /\ ~ (i < n - Cardinality(Wanted(j))) => /\ a[i] # Empty /\ b[i] # Empty
                                                    /\ a[i].toNode = b[i].fromNode
    BY <1>1, <1>2, <2>1, SidesAgree
  <2>. QED BY <2>1, <2>2
<1>3. ASSUME NEW j \in 1 .. 3, NEW k \in 1 .. 3, NEW a, NEW b,
             Holds(a, Wanted(j)), Holds(b, Wanted(k)), InOrderTo(a), InOrderTo(b), NEW i \in Slots, i + 1 \in Slots, a[i] # Empty
      PROVE  b[i + 1].toNode # a[i].toNode
  <2>1. /\ Wanted(j) \subseteq Edge /\ Wanted(k) \subseteq Edge
        /\ Apart(Wanted(j), Wanted(j)) /\ Apart(Wanted(k), Wanted(k)) /\ Apart(Wanted(j), Wanted(k))
        /\ Wanted(j) = Wanted(k) \/ Wanted(j) \cap Wanted(k) = {}
    BY <1>1
  <2>. QED BY <1>1, <1>3, <2>1, AheadTo
<1>4. ASSUME NEW j \in 1 .. 3, NEW k \in 1 .. 3, NEW a, NEW b,
             Holds(a, Wanted(j)), Holds(b, Wanted(k)), InOrderFrom(a), InOrderFrom(b), NEW i \in Slots, i + 1 \in Slots, a[i] # Empty
      PROVE  b[i + 1].fromNode # a[i].fromNode
  <2>1. /\ Wanted(j) \subseteq Edge /\ Wanted(k) \subseteq Edge
        /\ Apart(Wanted(j), Wanted(j)) /\ Apart(Wanted(k), Wanted(k)) /\ Apart(Wanted(j), Wanted(k))
        /\ Wanted(j) = Wanted(k) \/ Wanted(j) \cap Wanted(k) = {}
    BY <1>1
  <2>. QED BY <1>1, <1>4, <2>1, AheadFrom
<1>5. CASE join = 1
  <2>1. Left = matches[1] /\ Right = matches[2] /\ LeftAhead = matches[1] /\ RightAhead = matches[2]
    BY <1>5 DEF Left, Right, LeftAhead, RightAhead
  <2>2. /\ Holds(matches[1], Wanted(1)) /\ Holds(matches[2], Wanted(2))
        /\ InOrderTo(matches[1]) /\ InOrderFrom(matches[2])
    BY <1>5 DEF ArraysInv
  <2>3. Agree(matches[1], matches[2])
    BY <1>1, <1>2, <2>2
  <2>4. Differ(matches[1], matches[1], matches[2], matches[2])
    BY <1>3, <1>4, <2>2, <2>3
  <2>. QED BY <2>1, <2>3, <2>4
<1>6. CASE join = 2
  <2>1. Left = valids[2] /\ Right = matches[3] /\ LeftAhead = valids[2] /\ RightAhead = matches[3]
    BY <1>6 DEF Left, Right, LeftAhead, RightAhead
  <2>2. /\ Holds(valids[2], Wanted(2)) /\ Holds(matches[3], Wanted(3))
        /\ InOrderTo(valids[2]) /\ InOrderFrom(matches[3])
    BY <1>6 DEF ArraysInv
  <2>3. Agree(valids[2], matches[3])
    BY <1>1, <1>2, <2>2
  <2>4. Differ(valids[2], valids[2], matches[3], matches[3])
    BY <1>3, <1>4, <2>2, <2>3
  <2>. QED BY <2>1, <2>3, <2>4
<1>7. CASE join = 3
  <2>1. Left = valids[3] /\ Right = valids[1] /\ LeftAhead = valids[2] /\ RightAhead = matches[3]
    BY <1>7 DEF Left, Right, LeftAhead, RightAhead
  <2>2. /\ Holds(valids[3], Wanted(3)) /\ Holds(valids[1], Wanted(1))
        /\ InOrderTo(valids[3]) /\ InOrderFrom(valids[1])
        /\ Holds(valids[2], Wanted(2)) /\ Holds(matches[3], Wanted(3))
        /\ InOrderTo(valids[2]) /\ InOrderFrom(matches[3])
    BY <1>7 DEF ArraysInv
  <2>3. Agree(valids[3], valids[1])
    BY <1>1, <1>2, <2>2
  <2>4. Differ(valids[3], valids[2], valids[1], matches[3])
    BY <1>3, <1>4, <2>2, <2>3
  <2>. QED BY <2>1, <2>3, <2>4
<1>. QED BY <1>5, <1>6, <1>7

\* Nothing is copied at first; a match copies the next element; when all are
\* copied the output holds what its source holds.
LEMMA CopiedFacts ==
  ASSUME Shape, Good, NEW src \in [Slots -> Elements]
  PROVE  /\ Copied(Blank, src, 0)
         /\ \A out \in [Slots -> Elements] : \A i \in Slots :
              ~ (i < n - T) /\ Copied(out, src, i - (n - T)) =>
                Copied([out EXCEPT ![i - (n - T)] = src[i]], src, i - (n - T) + 1)
         /\ \A out \in [Slots -> Elements], S \in SUBSET Edge :
              /\ Copied(out, src, T) /\ Holds(src, S)
              /\ \A i \in Slots : i < n - T => src[i] = Empty
              => Holds(out, S)
<1>1. n \in Nat /\ Slots = 0 .. n - 1 /\ T \in Nat /\ T <= n
  BY SlotFacts, WantedFacts DEF Shape, Slots
<1>2. Copied(Blank, src, 0)
  BY <1>1 DEF Copied, Blank
<1>3. ASSUME NEW out \in [Slots -> Elements], NEW i \in Slots,
             ~ (i < n - T), Copied(out, src, i - (n - T))
      PROVE  Copied([out EXCEPT ![i - (n - T)] = src[i]], src, i - (n - T) + 1)
  <2>. DEFINE v == i - (n - T)
              new == [out EXCEPT ![v] = src[i]]
  <2>1. v \in Slots /\ (n - T) + v = i
    BY <1>1, <1>3
  <2>2. \A j \in Slots : out[j] = IF j < v THEN src[(n - T) + j] ELSE Empty
    BY <1>3 DEF Copied
  <2>3. \A j \in Slots : new[j] = IF j = v THEN src[i] ELSE out[j]
    BY <2>1
  <2>. HIDE DEF v, new
  <2>4. \A j \in Slots : j < v + 1 <=> j < v \/ j = v
    BY <1>1, <2>1
  <2>5. \A j \in Slots : j < v => j # v
    BY <1>1, <2>1
  <2>6. ASSUME NEW j \in Slots
        PROVE  new[j] = IF j < v + 1 THEN src[(n - T) + j] ELSE Empty
    <3>1. CASE j = v
      BY <2>1, <2>3, <2>4, <3>1
    <3>2. CASE j # v
      BY <2>2, <2>3, <2>4, <3>2
    <3>. QED BY <3>1, <3>2
  <2>7. Copied(new, src, v + 1)
    BY <2>6 DEF Copied
  <2>. QED BY <2>7 DEF v, new
<1>4. ASSUME NEW out \in [Slots -> Elements], NEW S \in SUBSET Edge,
             Copied(out, src, T), Holds(src, S), \A i \in Slots : i < n - T => src[i] = Empty
      PROVE  Holds(out, S)
  <2>1. \A i \in Slots : out[i] = IF i < T THEN src[(n - T) + i] ELSE Empty
    BY <1>4 DEF Copied
  <2>2. /\ \A i \in Slots : src[i] \in S \cup {Empty}
        /\ \A e \in S : \E i \in Slots : src[i] = e
        /\ \A i, j \in Slots : src[i] = src[j] /\ src[i] # Empty => i = j
    BY <1>4 DEF Holds
  <2>3. \A i \in Slots : i < T => (n - T) + i \in Slots
    BY <1>1
  <2>4. out \in [Slots -> S \cup {Empty}]
    BY <2>1, <2>2, <2>3
  <2>5. ASSUME NEW e \in S PROVE \E i \in Slots : out[i] = e
    <3>1. PICK j \in Slots : src[j] = e
      BY <2>2
    <3>2. e # Empty
      BY DEF Edge, Empty, NoLabel
    <3>3. ~ (j < n - T)
      BY <1>4, <3>1, <3>2
    <3>4. j - (n - T) \in Slots /\ j - (n - T) < T /\ (n - T) + (j - (n - T)) = j
      BY <1>1, <3>3
    <3>. QED BY <2>1, <3>1, <3>4
  <2>6. ASSUME NEW i \in Slots, NEW j \in Slots, out[i] = out[j], out[i] # Empty PROVE i = j
    <3>1. i < T /\ j < T
      BY <2>1, <2>6
    <3>2. (n - T) + i = (n - T) + j
      BY <2>1, <2>2, <2>3, <2>6, <3>1
    <3>. QED BY <1>1, <3>2
  <2>. QED BY <2>4, <2>5, <2>6 DEF Holds
<1>. QED BY <1>2, <1>3, <1>4

\* The database and the labels fix what is counted, so that CountInv after a
\* step is about the arrays after the step only.
LEMMA FrameCount ==
  ASSUME db' = db, labels' = labels
  PROVE  /\ Good' <=> Good
         /\ T' = T
         /\ Cursors(leftIter, rightIter, validIter)' <=> Cursors(leftIter', rightIter', validIter')
         /\ (\A k \in 1 .. 3 : Holds(matches[k], Wanted(k)))'
              <=> \A k \in 1 .. 3 : Holds(matches'[k], Wanted(k))
         /\ Holds(matches[3], Wanted(3))' <=> Holds(matches'[3], Wanted(3))
         /\ Holds(valids[1], Wanted(1))' <=> Holds(valids'[1], Wanted(1))
         /\ Holds(valids[2], Wanted(2))' <=> Holds(valids'[2], Wanted(2))
         /\ Holds(valids[3], Wanted(3))' <=> Holds(valids'[3], Wanted(3))
         /\ Holds(valids[4], Wanted(3))' <=> Holds(valids'[4], Wanted(3))
         /\ InOrderTo(matches[1])' <=> InOrderTo(matches'[1])
         /\ InOrderFrom(matches[2])' <=> InOrderFrom(matches'[2])
         /\ InOrderFrom(matches[3])' <=> InOrderFrom(matches'[3])
         /\ InOrderFrom(valids[1])' <=> InOrderFrom(valids'[1])
         /\ InOrderTo(valids[2])' <=> InOrderTo(valids'[2])
         /\ InOrderTo(valids[3])' <=> InOrderTo(valids'[3])
         /\ Copied(valids[1], matches[1], validIter)' <=> Copied(valids'[1], matches'[1], validIter')
         /\ Copied(valids[2], matches[2], validIter)' <=> Copied(valids'[2], matches'[2], validIter')
         /\ Copied(valids[3], matches[3], validIter)' <=> Copied(valids'[3], matches'[3], validIter')
         /\ Copied(valids[4], valids[3], validIter)' <=> Copied(valids'[4], valids'[3], validIter')
<1>1. n' = n /\ Slots' = Slots
  BY Frame
<1>2. Triangles' = Triangles
  BY <1>1 DEF Triangles
<1>3. Matching' = Matching
  BY <1>1 DEF Matching
<1>4. T' = T
  BY <1>2 DEF T
<1>5. Good' <=> Good
  BY <1>2, <1>3 DEF Good, DisjointTriangles, LabelsAlike, LabelsDiffer
<1>6. \A k \in 1 .. 3 : Wanted(k)' = Wanted(k)
  BY <1>1 DEF Wanted, Asked
<1>7. Wanted(1)' = Wanted(1) /\ Wanted(2)' = Wanted(2) /\ Wanted(3)' = Wanted(3)
  BY <1>1 DEF Wanted, Asked
<1>8. Cursors(leftIter, rightIter, validIter)' <=> Cursors(leftIter', rightIter', validIter')
  BY <1>1, <1>4 DEF Cursors
<1>9. /\ Copied(valids[1], matches[1], validIter)' <=> Copied(valids'[1], matches'[1], validIter')
      /\ Copied(valids[2], matches[2], validIter)' <=> Copied(valids'[2], matches'[2], validIter')
      /\ Copied(valids[3], matches[3], validIter)' <=> Copied(valids'[3], matches'[3], validIter')
      /\ Copied(valids[4], valids[3], validIter)' <=> Copied(valids'[4], valids'[3], validIter')
  BY <1>1, <1>4 DEF Copied
<1>10. /\ InOrderTo(matches[1])' <=> InOrderTo(matches'[1])
       /\ InOrderFrom(matches[2])' <=> InOrderFrom(matches'[2])
       /\ InOrderFrom(matches[3])' <=> InOrderFrom(matches'[3])
       /\ InOrderFrom(valids[1])' <=> InOrderFrom(valids'[1])
       /\ InOrderTo(valids[2])' <=> InOrderTo(valids'[2])
       /\ InOrderTo(valids[3])' <=> InOrderTo(valids'[3])
  BY <1>1 DEF InOrderTo, InOrderFrom
<1>11. /\ Holds(matches[3], Wanted(3))' <=> Holds(matches'[3], Wanted(3))
       /\ Holds(valids[1], Wanted(1))' <=> Holds(valids'[1], Wanted(1))
       /\ Holds(valids[2], Wanted(2))' <=> Holds(valids'[2], Wanted(2))
       /\ Holds(valids[3], Wanted(3))' <=> Holds(valids'[3], Wanted(3))
       /\ Holds(valids[4], Wanted(3))' <=> Holds(valids'[4], Wanted(3))
  BY <1>1, <1>7 DEF Holds
<1>12. (\A k \in 1 .. 3 : Holds(matches[k], Wanted(k)))'
         <=> \A k \in 1 .. 3 : Holds(matches'[k], Wanted(k))
  BY <1>1, <1>6 DEF Holds
<1>. QED BY <1>4, <1>5, <1>8, <1>9, <1>10, <1>11, <1>12

\* At first nothing is joined, and the filtered arrays hold what is asked for.
LEMMA InitCount ==
  Init => CountInv
<1>. SUFFICES ASSUME Init, Good
              PROVE  ~overrun /\ ArraysInv /\ Cursors(leftIter, rightIter, validIter)
  BY DEF CountInv
<1>1. /\ join = 1 /\ valids = <<Blank, Blank, Blank, Blank>>
      /\ leftIter = 0 /\ rightIter = 0 /\ validIter = 0 /\ overrun = FALSE
  BY DEF Init
<1>2. Shape /\ db \in Databases
  BY InitShape DEF Shape
<1>. DEFINE F(k) == Filter(db, labels[k])
<1>3. PICK m1 \in SortedByTo(F(1)), m2 \in SortedByFrom(F(2)) : matches = <<m1, m2, F(3)>>
  BY DEF Init
<1>4. Holds(F(1), Wanted(1)) /\ Holds(F(2), Wanted(2)) /\ Holds(F(3), Wanted(3))
  BY <1>2, FilterHolds
<1>. HIDE DEF F
<1>5. /\ Holds(m1, Wanted(1)) /\ InOrderTo(m1)
      /\ Holds(m2, Wanted(2)) /\ InOrderFrom(m2)
  BY <1>2, <1>4, SortedHolds
<1>6. \A k \in 1 .. 3 : Holds(matches[k], Wanted(k))
  BY <1>3, <1>4, <1>5
<1>7. matches[1] \in [Slots -> Elements] /\ matches[2] \in [Slots -> Elements]
  BY <1>2 DEF Shape
<1>8. Copied(Blank, matches[1], 0) /\ Copied(Blank, matches[2], 0)
  BY <1>2, <1>7, CopiedFacts
<1>9. ArraysInv
  BY <1>1, <1>3, <1>5, <1>6, <1>8 DEF ArraysInv
<1>10. n \in Nat /\ T \in Nat /\ T <= n
  BY <1>2, SlotFacts, WantedFacts
<1>11. Cursors(leftIter, rightIter, validIter)
  BY <1>1, <1>10 DEF Cursors
<1>. QED BY <1>1, <1>9, <1>11

\* The next element goes to the outputs.
LEMMA MatchKeepsArrays ==
  ASSUME Shape, Good, ArraysInv, InJoin, join' = join, matches' = matches, valids' = Output,
         db' = db, labels' = labels, ~ (leftIter < n - T), rightIter = leftIter,
         validIter = leftIter - (n - T), validIter' = validIter + 1, validIter < n
  PROVE  ArraysInv'
<1>1. leftIter \in Slots /\ join \in 1 .. 3 /\ valids' \in [1 .. 4 -> [Slots -> Elements]]
  BY OutputFacts
<1>2. /\ matches[1] \in [Slots -> Elements] /\ matches[2] \in [Slots -> Elements]
      /\ matches[3] \in [Slots -> Elements] /\ valids[3] \in [Slots -> Elements]
      /\ valids[1] \in [Slots -> Elements] /\ valids[2] \in [Slots -> Elements]
      /\ valids[4] \in [Slots -> Elements]
  BY DEF Shape
<1>3. ASSUME NEW src \in [Slots -> Elements], NEW out \in [Slots -> Elements],
             Copied(out, src, validIter)
      PROVE  Copied([out EXCEPT ![validIter] = src[leftIter]], src, validIter')
  BY <1>1, <1>3, CopiedFacts
<1>4. CASE join = 1
  <2>1. /\ valids'[1] = [valids[1] EXCEPT ![validIter] = matches[1][leftIter]]
        /\ valids'[2] = [valids[2] EXCEPT ![validIter] = matches[2][leftIter]]
        /\ valids'[3] = valids[3] /\ valids'[4] = valids[4]
    BY <1>4, OutputFacts
  <2>2. /\ \A k \in 1 .. 3 : Holds(matches[k], Wanted(k))
        /\ InOrderTo(matches[1]) /\ InOrderFrom(matches[2])
        /\ Copied(valids[1], matches[1], validIter)
        /\ Copied(valids[2], matches[2], validIter)
        /\ valids[3] = Blank /\ valids[4] = Blank
    BY <1>4 DEF ArraysInv
  <2>3. Copied(valids'[1], matches[1], validIter') /\ Copied(valids'[2], matches[2], validIter')
    BY <1>2, <1>3, <2>1, <2>2
  <2>4. Blank' = Blank
    BY Frame
  <2>. QED BY <1>4, <2>1, <2>2, <2>3, <2>4, FrameCount DEF ArraysInv
<1>5. CASE join = 2
  <2>1. /\ valids'[3] = [valids[3] EXCEPT ![validIter] = matches[3][leftIter]]
        /\ valids'[1] = valids[1] /\ valids'[2] = valids[2] /\ valids'[4] = valids[4]
    BY <1>5, OutputFacts
  <2>2. /\ Holds(valids[1], Wanted(1))
        /\ Holds(valids[2], Wanted(2)) /\ InOrderTo(valids[2])
        /\ Holds(matches[3], Wanted(3)) /\ InOrderFrom(matches[3])
        /\ Copied(valids[3], matches[3], validIter) /\ valids[4] = Blank
    BY <1>5 DEF ArraysInv
  <2>3. Copied(valids'[3], matches[3], validIter')
    BY <1>2, <1>3, <2>1, <2>2
  <2>4. Blank' = Blank
    BY Frame
  <2>. QED BY <1>5, <2>1, <2>2, <2>3, <2>4, FrameCount DEF ArraysInv
<1>6. CASE join = 3
  <2>1. /\ valids'[4] = [valids[4] EXCEPT ![validIter] = valids[3][leftIter]]
        /\ valids'[1] = valids[1] /\ valids'[2] = valids[2] /\ valids'[3] = valids[3]
    BY <1>6, OutputFacts
  <2>2. /\ Holds(valids[1], Wanted(1)) /\ InOrderFrom(valids[1])
        /\ Holds(valids[2], Wanted(2)) /\ InOrderTo(valids[2])
        /\ Holds(matches[3], Wanted(3)) /\ InOrderFrom(matches[3])
        /\ Holds(valids[3], Wanted(3)) /\ InOrderTo(valids[3])
        /\ Copied(valids[4], valids[3], validIter)
    BY <1>6 DEF ArraysInv
  <2>3. Copied(valids'[4], valids[3], validIter')
    BY <1>2, <1>3, <2>1, <2>2
  <2>. QED BY <1>6, <2>1, <2>2, <2>3, FrameCount DEF ArraysInv
<1>. QED BY <1>1, <1>4, <1>5, <1>6

\* When a merge is left, its outputs hold all that is asked for.
LEMMA NextJoinKeepsArrays ==
  ASSUME Shape, Good, ArraysInv, NextJoin, validIter = T
  PROVE  ArraysInv'
<1>1. /\ join \in 1 .. 3 /\ join' = join + 1 /\ validIter' = 0
      /\ db' = db /\ labels' = labels /\ db \in Databases
  BY DEF NextJoin, Shape
<1>2. /\ matches[1] \in [Slots -> Elements] /\ matches[2] \in [Slots -> Elements]
      /\ matches[3] \in [Slots -> Elements] /\ valids[3] \in [Slots -> Elements]
      /\ valids[1] \in [Slots -> Elements] /\ valids[2] \in [Slots -> Elements]
      /\ valids[4] \in [Slots -> Elements]
  BY DEF Shape
<1>3. Wanted(1) \in SUBSET Edge /\ Wanted(2) \in SUBSET Edge /\ Wanted(3) \in SUBSET Edge
  BY WantedFacts
<1>4. ASSUME NEW src \in [Slots -> Elements], NEW out \in [Slots -> Elements], NEW S \in SUBSET Edge,
             Copied(out, src, validIter), Holds(src, S), \A i \in Slots : i < n - T => src[i] = Empty
      PROVE  Holds(out, S)
  BY <1>4, CopiedFacts
<1>5. \A i \in Slots : i < n - T => Left[i] = Empty /\ Right[i] = Empty
  BY <1>1, MergeFacts
<1>6. \A src \in [Slots -> Elements] : Copied(Blank, src, 0)
  BY CopiedFacts
<1>7. CASE join = 1
  <2>1. PICK v2 \in SortedByTo(valids[2]), m3 \in SortedByFrom(matches[3]) :
          valids' = [valids EXCEPT ![2] = v2] /\ matches' = [matches EXCEPT ![3] = m3]
    BY <1>7 DEF NextJoin
  <2>2. valids'[1] = valids[1] /\ valids'[2] = v2 /\ matches'[3] = m3
        /\ valids'[3] = valids[3] /\ valids'[4] = valids[4]
    BY <2>1 DEF Shape
  <2>3. /\ Holds(matches[1], Wanted(1)) /\ Holds(matches[2], Wanted(2)) /\ Holds(matches[3], Wanted(3))
        /\ Copied(valids[1], matches[1], validIter) /\ Copied(valids[2], matches[2], validIter)
        /\ valids[3] = Blank /\ valids[4] = Blank
    BY <1>7 DEF ArraysInv
  <2>4. Left = matches[1] /\ Right = matches[2]
    BY <1>7 DEF Left, Right
  <2>5. Holds(valids[1], Wanted(1)) /\ Holds(valids[2], Wanted(2))
    BY <1>2, <1>3, <1>4, <1>5, <2>3, <2>4
  <2>6. Holds(v2, Wanted(2)) /\ InOrderTo(v2) /\ Holds(m3, Wanted(3)) /\ InOrderFrom(m3)
    BY <1>1, <2>3, <2>5, SortedHolds
  <2>7. Copied(Blank, m3, 0)
    <3>1. m3 \in [Slots -> Elements]
      BY <1>2, SortedFacts
    <3>. QED BY <1>6, <3>1
  <2>8. Blank' = Blank /\ join' = 2
    BY <1>1, <1>7, Frame
  <2>. QED BY <1>1, <2>2, <2>3, <2>5, <2>6, <2>7, <2>8, FrameCount DEF ArraysInv
<1>8. CASE join = 2
  <2>1. PICK v3 \in SortedByTo(valids[3]), v1 \in SortedByFrom(valids[1]) :
          valids' = [valids EXCEPT ![3] = v3, ![1] = v1]
    BY <1>8 DEF NextJoin
  <2>2. valids'[1] = v1 /\ valids'[2] = valids[2] /\ valids'[3] = v3 /\ valids'[4] = valids[4]
        /\ matches' = matches
    BY <1>8, <2>1 DEF NextJoin, Shape
  <2>3. /\ Holds(valids[1], Wanted(1))
        /\ Holds(valids[2], Wanted(2)) /\ InOrderTo(valids[2])
        /\ Holds(matches[3], Wanted(3)) /\ InOrderFrom(matches[3])
        /\ Copied(valids[3], matches[3], validIter) /\ valids[4] = Blank
    BY <1>8 DEF ArraysInv
  <2>4. Right = matches[3]
    BY <1>8 DEF Right
  <2>5. Holds(valids[3], Wanted(3))
    BY <1>2, <1>3, <1>4, <1>5, <2>3, <2>4
  <2>6. Holds(v3, Wanted(3)) /\ InOrderTo(v3) /\ Holds(v1, Wanted(1)) /\ InOrderFrom(v1)
    BY <1>1, <2>3, <2>5, SortedHolds
  <2>7. Copied(Blank, v3, 0)
    <3>1. v3 \in [Slots -> Elements]
      BY <1>2, SortedFacts
    <3>. QED BY <1>6, <3>1
  <2>8. join' = 3
    BY <1>1, <1>8
  <2>. QED BY <1>1, <2>2, <2>3, <2>6, <2>7, <2>8, FrameCount DEF ArraysInv
<1>9. CASE join = 3
  <2>1. valids' = valids /\ join' = 4
    BY <1>1, <1>9 DEF NextJoin
  <2>2. /\ Holds(valids[1], Wanted(1)) /\ Holds(valids[2], Wanted(2)) /\ Holds(valids[3], Wanted(3))
        /\ Copied(valids[4], valids[3], validIter)
    BY <1>9 DEF ArraysInv
  <2>3. Left = valids[3]
    BY <1>9 DEF Left
  <2>4. Holds(valids[4], Wanted(3))
    BY <1>2, <1>3, <1>4, <1>5, <2>2, <2>3
  <2>. QED BY <1>1, <2>1, <2>2, <2>4, FrameCount DEF ArraysInv
<1>. QED BY <1>1, <1>7, <1>8, <1>9

\* Where the cursors are when two keys match.
LEMMA CursorsAtMatch ==
  ASSUME Shape, Good, CountInv, InJoin, ~SkipsLeft, ~SkipsRight
  PROVE  /\ ~ (leftIter < n - T) /\ rightIter = leftIter /\ validIter = leftIter - (n - T)
         /\ validIter < n
         /\ leftIter + 1 < n => LeftRepeats = {FALSE} /\ RightRepeats = {FALSE}
<1>1. /\ n \in Nat /\ T \in Nat /\ T <= n /\ Slots = 0 .. n - 1
      /\ leftIter \in Slots /\ rightIter \in Slots /\ join \in 1 .. 3
      /\ leftIter < n /\ rightIter < n
  BY SlotFacts, WantedFacts, SideFacts DEF Shape, Slots, InJoin
<1>2. ArraysInv /\ Cursors(leftIter, rightIter, validIter)
  BY <1>1 DEF CountInv
<1>3. Left[leftIter] # Empty /\ Right[rightIter] # Empty
  BY MatchFacts
<1>4. ~ (leftIter < n - T) /\ ~ (rightIter < n - T)
  BY <1>1, <1>2, <1>3, MergeFacts
<1>5. rightIter = leftIter /\ validIter = leftIter - (n - T)
  BY <1>1, <1>2, <1>4 DEF Cursors
<1>6. validIter < n
  BY <1>1, <1>4, <1>5
<1>7. ASSUME leftIter + 1 < n PROVE LeftRepeats = {FALSE} /\ RightRepeats = {FALSE}
  <2>1. leftIter + 1 \in Slots
    BY <1>1, <1>7
  <2>2. /\ LeftAhead[leftIter + 1].toNode # Left[leftIter].toNode
        /\ RightAhead[leftIter + 1].fromNode # Right[leftIter].fromNode
    BY <1>1, <1>2, <1>4, <2>1, MergeFacts
  <2>. QED BY <1>5, <1>7, <2>2 DEF LeftRepeats, RightRepeats
<1>. QED BY <1>4, <1>5, <1>6, <1>7

\* A merge advances both cursors over the same keys, and copies each edge once.
LEMMA StepKeepsCount ==
  ASSUME Shape, CountInv, [Next]_vars
  PROVE  CountInv'
<1>1. db' = db /\ labels' = labels
  BY DEF Next, Skip, Match, Overrun, NextJoin, Count, Ended, vars
<1>. SUFFICES ASSUME Good
              PROVE  /\ ~overrun' /\ ArraysInv'
                     /\ join' <= 3 => Cursors(leftIter', rightIter', validIter')
  BY <1>1, FrameCount DEF CountInv
<1>2. /\ n \in Nat /\ T \in Nat /\ T <= n /\ db \in Databases
      /\ leftIter \in 0 .. n /\ rightIter \in 0 .. n /\ validIter \in 0 .. n
  BY SlotFacts, WantedFacts DEF Shape
<1>3. ~overrun /\ ArraysInv /\ (join <= 3 => Cursors(leftIter, rightIter, validIter))
  BY DEF CountInv
<1>4. CASE Skip
  <2>1. /\ InJoin /\ UNCHANGED <<db, labels, join, matches, valids, validIter, overrun, result>>
        /\ \/ leftIter' = leftIter + 1 /\ rightIter' = rightIter /\ SkipsLeft
           \/ leftIter' = leftIter /\ rightIter' = rightIter + 1 /\ SkipsRight
    BY <1>4, SkipFacts
  <2>2. /\ join \in 1 .. 3 /\ leftIter \in Slots /\ rightIter \in Slots
        /\ leftIter < n /\ rightIter < n
    BY <2>1, SideFacts DEF InJoin
  <2>3. Cursors(leftIter, rightIter, validIter)
    BY <1>3, <2>2
  <2>4. leftIter < n - T => leftIter' = leftIter + 1 /\ rightIter' = rightIter
    <3>1. leftIter < n - T => Left[leftIter] = Empty
      BY <1>3, <2>2, MergeFacts
    <3>2. Empty.toNode = -1
      BY DEF Empty
    <3>. QED BY <2>1, <3>1, <3>2 DEF SkipsRight
  <2>5. ~ (leftIter < n - T) /\ rightIter < n - T => leftIter' = leftIter /\ rightIter' = rightIter + 1
    <3>1. ASSUME ~ (leftIter < n - T), rightIter < n - T
          PROVE  Left[leftIter].toNode # -1 /\ Right[rightIter].fromNode = -1
      <4>1. Left[leftIter] # Empty /\ Right[rightIter] = Empty
        BY <1>3, <2>2, <3>1, MergeFacts
      <4>2. Left \in [Slots -> Elements] /\ \A e \in Elements : e \in Edge \cup {Empty}
        BY <1>2, <2>1, SideFacts, SlotFacts
      <4>3. Left[leftIter] \in Edge
        BY <2>2, <4>1, <4>2
      <4>. QED BY <4>1, <4>3 DEF Edge, Empty
    <3>. QED BY <2>1, <3>1 DEF SkipsLeft
  <2>6. leftIter < n - T \/ rightIter < n - T
    <3>1. ASSUME ~ (leftIter < n - T), ~ (rightIter < n - T) PROVE FALSE
      <4>1. rightIter = leftIter
        BY <1>2, <2>2, <2>3, <3>1 DEF Cursors
      <4>2. /\ Left[leftIter].toNode = Right[leftIter].fromNode
            /\ Left[leftIter] # Empty
        BY <1>3, <2>2, <3>1, MergeFacts
      <4>3. Left \in [Slots -> Elements] /\ \A e \in Elements : e \in Edge \cup {Empty}
        BY <1>2, <2>1, SideFacts, SlotFacts
      <4>4. Left[leftIter] \in Edge
        BY <2>2, <4>2, <4>3
      <4>5. Left[leftIter].toNode \in Nat
        BY <4>4 DEF Edge
      <4>. QED BY <2>1, <4>1, <4>2, <4>5 DEF SkipsLeft, SkipsRight
    <3>. QED BY <3>1
  <2>7. Cursors(leftIter', rightIter', validIter)
    BY <1>2, <2>2, <2>3, <2>4, <2>5, <2>6 DEF Cursors
  <2>8. ArraysInv'
    <3>1. Blank' = Blank
      BY <1>1, Frame
    <3>. QED BY <1>1, <1>3, <2>1, <2>2, <3>1, FrameCount DEF ArraysInv
  <2>. QED BY <1>3, <2>1, <2>7, <2>8
<1>5. CASE Match
  <2>1. InJoin /\ ~SkipsLeft /\ ~SkipsRight
    BY <1>5 DEF Match
  <2>2. /\ ~ (leftIter < n - T) /\ rightIter = leftIter /\ validIter = leftIter - (n - T)
        /\ validIter < n
        /\ leftIter + 1 < n => LeftRepeats = {FALSE} /\ RightRepeats = {FALSE}
    BY <2>1, CursorsAtMatch
  <2>3. /\ valids' = Output /\ validIter' = validIter + 1
        /\ UNCHANGED <<db, labels, join, matches, overrun, result>>
        /\ \/ leftIter' = leftIter + 1 /\ rightIter' = rightIter
           \/ leftIter' = leftIter /\ rightIter' = rightIter + 1
           \/ leftIter' = leftIter + 1 /\ rightIter' = rightIter + 1
    BY <1>5, <2>1, MatchFacts
  <2>4. ArraysInv'
    BY <1>1, <1>3, <2>1, <2>2, <2>3, MatchKeepsArrays
  <2>5. Cursors(leftIter', rightIter', validIter')
    <3>1. leftIter < n
      BY <2>1 DEF InJoin
    <3>2. CASE leftIter + 1 < n
      <4>1. leftIter' = leftIter + 1 /\ rightIter' = rightIter + 1
        BY <1>5, <2>2, <3>2 DEF Match
      <4>. QED BY <1>2, <2>2, <2>3, <4>1 DEF Cursors
    <3>3. CASE ~ (leftIter + 1 < n)
      <4>1. leftIter + 1 = n /\ validIter' = T
        BY <1>2, <2>2, <2>3, <3>1, <3>3
      <4>. QED BY <2>2, <2>3, <4>1 DEF Cursors
    <3>. QED BY <3>2, <3>3
  <2>. QED BY <1>3, <2>3, <2>4, <2>5
<1>6. CASE Overrun
  <2>1. InJoin /\ ~SkipsLeft /\ ~SkipsRight /\ validIter >= n
    BY <1>6 DEF Overrun
  <2>2. validIter < n
    BY <2>1, CursorsAtMatch
  <2>. QED BY <1>2, <2>1, <2>2
<1>7. CASE NextJoin
  <2>1. /\ join \in 1 .. 3 /\ ~InJoin /\ ~overrun /\ overrun' = overrun
        /\ leftIter' = 0 /\ rightIter' = 0 /\ validIter' = 0
    BY <1>7 DEF NextJoin, Shape
  <2>2. leftIter = n \/ rightIter = n
    BY <1>2, <2>1 DEF InJoin
  <2>3. validIter = T
    BY <1>2, <1>3, <2>1, <2>2 DEF Cursors
  <2>4. ArraysInv'
    BY <1>3, <1>7, <2>3, NextJoinKeepsArrays
  <2>5. Cursors(leftIter', rightIter', validIter')
    BY <1>2, <2>1 DEF Cursors
  <2>. QED BY <2>1, <2>4, <2>5
<1>8. CASE Count
  <2>1. /\ join = 4 /\ join' = 5 /\ overrun' = overrun
        /\ result' \in {Labelled(valids[1]), Labelled(valids[2]), Labelled(valids[4])}
    BY <1>8, CountFacts DEF Count
  <2>2. /\ Holds(valids[1], Wanted(1)) /\ Holds(valids[2], Wanted(2))
        /\ Holds(valids[4], Wanted(3))
    BY <1>3, <2>1 DEF ArraysInv
  <2>3. \A k \in 1 .. 3 : Wanted(k) \subseteq Edge /\ Cardinality(Wanted(k)) = T
    BY WantedFacts
  <2>4. Labelled(valids[1]) = T /\ Labelled(valids[2]) = T /\ Labelled(valids[4]) = T
    BY <1>2, <2>2, <2>3, HoldsLabelled
  <2>5. ArraysInv'
    BY <1>1, <2>1, <2>4, FrameCount DEF ArraysInv
  <2>. QED BY <1>3, <2>1, <2>5
<1>9. CASE UNCHANGED vars
  <2>1. UNCHANGED vars
    BY <1>9
  <2>2. ArraysInv'
    <3>1. Blank' = Blank
      BY <1>1, Frame
    <3>. QED BY <1>1, <1>3, <2>1, <3>1, FrameCount DEF ArraysInv, vars
  <2>. QED BY <1>3, <2>1, <2>2 DEF vars
<1>. QED BY <1>4, <1>5, <1>6, <1>7, <1>8, <1>9 DEF Next, Ended

(***************************************************************************)
(* For every database, every order qsort leaves equal keys in and whatever *)
(* lies behind the arrays, the query counts disjoint triangles right, with *)
(* three different labels or three times the same.                         *)
(***************************************************************************)
THEOREM DisjointTrianglesAreCounted == Spec => []CountsDisjointTriangles
<1>1. Init => Shape /\ CountInv
  BY InitShape, InitCount
<1>2. Shape /\ CountInv /\ [Next]_vars => (Shape /\ CountInv)'
  BY StepKeepsShape, StepKeepsCount
<1>3. CountInv => CountsDisjointTriangles
  BY DEF CountInv, ArraysInv, CountsDisjointTriangles, Good, T
<1>. QED BY <1>1, <1>2, <1>3, PTL DEF Spec

=============================================================================
