-------------------------- MODULE HashQueryProofs --------------------------
(***************************************************************************)
(* Proofs about the hash query, for every database and every query.        *)
(*                                                                         *)
(* Layout: where arrays, slots and probes are in the memory, and what an   *)
(* insertion writes.  Shape says what the state consists of whatever the   *)
(* padding contains; AllCells that without padding the memory is nothing   *)
(* but edges and free slots, so that a negative index means a slot of the  *)
(* array below.  Arranged says, while there is room, which edges each      *)
(* array holds when the loops have come so far: those of its label that    *)
(* have been copied, the pairs the pairing has passed and their first      *)
(* edges, the third edges that close one.  It says so up to the slots they *)
(* are in (Holds), for these depend on everything inserted before.         *)
(* Answered ties the result to the counts of the three arrays.             *)
(***************************************************************************)
EXTENDS HashQuery, DataProofs

n == hashTableSize

\* An edge that is in use, and what a slot of the arrays holds.
Edge == [fromNode : Nat, toNode : Nat, edgeLabel : Nat]
Cells == Edge \cup {Empty}

\* Three ints that need not be an edge.
IntEdge == [fromNode : Int, toNode : Int, edgeLabel : Int]

\* The indexes that a probe may yield, the negative ones too.
Indexes == -(n - 1) .. n - 1

-----------------------------------------------------------------------------
\* The slots of a database, and what may be in them.
LEMMA SlotFacts ==
  ASSUME db \in Databases
  PROVE  /\ n \in Nat /\ n >= 1 /\ Slots = 0 .. n - 1
         /\ IsFiniteSet(Slots) /\ Cardinality(Slots) = n
         /\ DOMAIN db = Slots
         /\ \A i \in Slots : db[i] \in Cells
<1>1. /\ IsFiniteSet(DOMAIN db) /\ DOMAIN db # {}
      /\ db \in [0 .. n - 1 -> Cells]
  BY DatabasesAssumption DEF n, hashTableSize, Edge, Cells
<1>2. n \in Nat /\ n # 0
  BY <1>1, FS_CardinalityType, FS_EmptySet DEF n, hashTableSize
<1>3. DOMAIN db = Slots /\ Slots = 0 .. n - 1 /\ Cardinality(Slots) = n
  BY <1>1 DEF Slots, n, hashTableSize
<1>. QED BY <1>1, <1>2, <1>3

\* Two arrays that lie apart are at least a stride from one another.
LEMMA StrideFacts ==
  ASSUME db \in Databases
  PROVE  /\ Stride \in Nat /\ Stride >= 3 * n /\ Stride >= 3
         /\ Memory = 0 .. 6 * Stride - 1
<1>1. n \in Nat /\ n >= 1
  BY SlotFacts
<1>2. PaddingFor(3 * n) \in 0 .. 3
  BY <1>1 DEF PaddingFor
<1>3. Stride = 3 * n + PaddingFor(3 * n)
  BY DEF Stride, n
<1>. QED BY <1>1, <1>2, <1>3 DEF Memory

\* The remainder of a division that truncates.
LEMMA RemFacts ==
  ASSUME NEW x \in Int, NEW y \in Nat, y >= 1
  PROVE  /\ CRem(x, y) \in -(y - 1) .. y - 1
         /\ x >= 0 => CRem(x, y) \in 0 .. y - 1 /\ CRem(x, y) = x % y
<1>1. CASE x >= 0
  <2>1. x % y \in 0 .. y - 1
    BY <1>1
  <2>. QED BY <1>1, <2>1 DEF CRem
<1>2. CASE x < 0
  <2>1. -x \in Nat /\ (-x) % y \in 0 .. y - 1
    BY <1>2
  <2>2. CRem(x, y) = - ((-x) % y)
    BY <1>2 DEF CRem
  <2>. QED BY <1>2, <2>1, <2>2
<1>. QED BY <1>1, <1>2

\* Hashes and probes are indexes, and those of a node or a label are slots.
LEMMA HashFacts ==
  ASSUME db \in Databases
  PROVE  /\ Slots \subseteq Indexes
         /\ \A x \in Int : toHash(x) \in Indexes /\ fromHash(x) \in Indexes
         /\ \A x \in Nat : toHash(x) \in Slots /\ fromHash(x) \in Slots
         /\ \A h \in Indexes, lp \in Slots : Probe(h, lp) \in Indexes
         /\ \A h \in Slots, lp \in Slots : Probe(h, lp) \in Slots
<1>1. n \in Nat /\ n >= 1 /\ Slots = 0 .. n - 1 /\ n = hashTableSize
  BY SlotFacts DEF n
<1>2. Slots \subseteq Indexes
  BY <1>1 DEF Indexes
<1>3. ASSUME NEW x \in Int
      PROVE  /\ toHash(x) \in Indexes /\ fromHash(x) \in Indexes
             /\ x >= 0 => toHash(x) \in Slots /\ fromHash(x) \in Slots
  <2>1. x * 7 \in Int /\ x * 5 \in Int /\ (x >= 0 => x * 7 >= 0 /\ x * 5 >= 0)
    OBVIOUS
  <2>. QED BY <1>1, <2>1, RemFacts DEF toHash, fromHash, Indexes
<1>4. ASSUME NEW h \in Indexes, NEW lp \in Slots
      PROVE  Probe(h, lp) \in Indexes /\ (h >= 0 => Probe(h, lp) \in Slots)
  <2>1. h + lp \in Int /\ (h >= 0 => h + lp >= 0)
    BY <1>1 DEF Indexes
  <2>. QED BY <1>1, <2>1, RemFacts DEF Probe, Indexes
<1>5. \A h \in Slots : h \in Indexes /\ h >= 0
  BY <1>1, <1>2
<1>6. \A x \in Nat : x \in Int /\ x >= 0
  OBVIOUS
<1>. QED BY <1>2, <1>3, <1>4, <1>5, <1>6

\* Where the edges lie: an index below 0 is in the memory too, unless the array
\* is the lowest.
LEMMA AddressFacts ==
  ASSUME db \in Databases, NEW a \in Arrays, NEW i \in Indexes, a = 0 => i >= 0
  PROVE  /\ At(a, i) \in Int
         /\ At(a, i) \in Memory /\ At(a, i) + 1 \in Memory /\ At(a, i) + 2 \in Memory
<1>1. /\ n \in Nat /\ n >= 1 /\ Stride \in Nat /\ Stride >= 3 * n
      /\ Memory = 0 .. 6 * Stride - 1 /\ i \in Int /\ i >= -(n - 1) /\ i <= n - 1
  BY SlotFacts, StrideFacts DEF Indexes
<1>2. a = 0 \/ a = 1 \/ a = 2 \/ a = 3 \/ a = 4 \/ a = 5
  BY DEF Arrays
<1>. QED BY <1>1, <1>2 DEF At

\* A higher array begins above all that is written to a lower one.
LEMMA ArraysApart ==
  ASSUME db \in Databases, NEW a \in Arrays, NEW i \in Indexes,
         NEW b \in Arrays, NEW j \in Slots, a < b
  PROVE  At(a, i) + 2 < At(b, j)
<1>1. /\ n \in Nat /\ n >= 1 /\ Stride \in Nat /\ Stride >= 3 * n
      /\ i \in Int /\ i <= n - 1 /\ j \in Int /\ j >= 0
  BY SlotFacts, StrideFacts DEF Indexes
<1>2. a = 0 \/ a = 1 \/ a = 2 \/ a = 3 \/ a = 4 \/ a = 5
  BY DEF Arrays
<1>3. b = 0 \/ b = 1 \/ b = 2 \/ b = 3 \/ b = 4 \/ b = 5
  BY DEF Arrays
<1>. QED BY <1>1, <1>2, <1>3 DEF At

\* What a write changes.
LEMMA WriteFacts ==
  ASSUME db \in Databases, NEW m \in [Memory -> Int],
         NEW a \in Arrays, NEW i \in Indexes, a = 0 => i >= 0,
         NEW e \in IntEdge
  PROVE  /\ Write(m, a, i, e) \in [Memory -> Int]
         /\ Read(Write(m, a, i, e), a, i) = e
         /\ \A b \in Arrays, j \in Slots :
              b > a \/ (i >= 0 /\ <<b, j>> # <<a, i>>) =>
                Read(Write(m, a, i, e), b, j) = Read(m, b, j)
<1>. DEFINE w == Write(m, a, i, e)
            x == At(a, i)
<1>1. x \in Int /\ x \in Memory /\ x + 1 \in Memory /\ x + 2 \in Memory
  BY AddressFacts
<1>2. w = [m EXCEPT ![x] = e.fromNode, ![x + 1] = e.toNode, ![x + 2] = e.edgeLabel]
  BY DEF Write
<1>. HIDE DEF w, x
<1>3. w \in [Memory -> Int]
  <2>1. e.fromNode \in Int /\ e.toNode \in Int /\ e.edgeLabel \in Int
    BY DEF IntEdge
  <2>. QED BY <1>2, <2>1
<1>4. w[x] = e.fromNode /\ w[x + 1] = e.toNode /\ w[x + 2] = e.edgeLabel
  BY <1>1, <1>2
<1>5. Read(w, a, i) = e
  <2>1. e = [fromNode |-> e.fromNode, toNode |-> e.toNode, edgeLabel |-> e.edgeLabel]
    BY DEF IntEdge
  <2>. QED BY <1>4, <2>1 DEF Read, x
<1>6. ASSUME NEW y \in Memory, y # x, y # x + 1, y # x + 2
      PROVE  w[y] = m[y]
  BY <1>1, <1>2, <1>6
<1>7. ASSUME NEW b \in Arrays, NEW j \in Slots, b > a \/ (i >= 0 /\ <<b, j>> # <<a, i>>)
      PROVE  Read(w, b, j) = Read(m, b, j)
  <2>. DEFINE y == At(b, j)
  <2>1. j \in Indexes /\ j >= 0
    BY HashFacts, SlotFacts
  <2>2. y \in Int /\ y \in Memory /\ y + 1 \in Memory /\ y + 2 \in Memory
    BY <2>1, AddressFacts
  <2>3. x + 2 < y \/ y + 2 < x
    <3>1. CASE b > a
      BY <1>1, <2>2, <3>1, ArraysApart DEF x, Arrays
    <3>2. CASE b < a
      <4>1. i >= 0 /\ i \in Slots
        BY <1>7, <3>2, SlotFacts DEF Arrays, Indexes
      <4>. QED BY <1>1, <2>1, <2>2, <3>2, <4>1, ArraysApart DEF x, Arrays
    <3>3. CASE b = a
      <4>1. i # j /\ i \in Int /\ j \in Int
        BY <1>7, <3>3, SlotFacts DEF Arrays, Indexes
      <4>2. x = a * Stride + 3 * i /\ y = a * Stride + 3 * j /\ a * Stride \in Int
        BY <3>3, StrideFacts DEF At, x, Arrays
      <4>. QED BY <4>1, <4>2
    <3>. QED BY <3>1, <3>2, <3>3 DEF Arrays
  <2>. HIDE DEF y
  <2>4. w[y] = m[y] /\ w[y + 1] = m[y + 1] /\ w[y + 2] = m[y + 2]
    BY <1>1, <1>6, <2>2, <2>3
  <2>. QED BY <2>4 DEF Read, y
<1>. QED BY <1>3, <1>5, <1>7 DEF w

\* The probes from a home run through all slots, and through each of them once.
LEMMA ProbeFacts ==
  ASSUME db \in Databases, NEW h \in Slots
  PROVE  /\ \A q \in Slots : Probe(h, q) = IF h + q < n THEN h + q ELSE h + q - n
         /\ \A q, r \in Slots : Probe(h, q) = Probe(h, r) => q = r
         /\ \A j \in Slots : \E q \in Slots : Probe(h, q) = j /\ (q = 0 <=> j = h)
<1>1. n \in Nat /\ n >= 1 /\ Slots = 0 .. n - 1
  BY SlotFacts
<1>2. ASSUME NEW q \in Slots
      PROVE  Probe(h, q) = IF h + q < n THEN h + q ELSE h + q - n
  <2>1. h + q \in Nat /\ h + q < n + n
    BY <1>1
  <2>2. Probe(h, q) = (h + q) % n
    BY <1>1, <2>1, RemFacts DEF Probe, n
  <2>3. PICK x \in Nat, y \in Nat : x = h + q /\ y = n
    BY <1>1, <2>1
  <2>4. x % y = IF x < y THEN x ELSE x - y
    <3>. y >= 1 /\ x < y + y
      BY <1>1, <2>1, <2>3
    <3>. QED OBVIOUS
  <2>5. (h + q) % n = x % y
    BY <2>3
  <2>6. (IF x < y THEN x ELSE x - y) = IF h + q < n THEN h + q ELSE h + q - n
    BY <1>1, <2>1, <2>3
  <2>. QED BY <2>2, <2>4, <2>5, <2>6
<1>3. ASSUME NEW q \in Slots, NEW r \in Slots, Probe(h, q) = Probe(h, r)
      PROVE  q = r
  BY <1>1, <1>2, <1>3
<1>4. ASSUME NEW j \in Slots
      PROVE  \E q \in Slots : Probe(h, q) = j /\ (q = 0 <=> j = h)
  <2>1. CASE j >= h
    <3>1. j - h \in Slots /\ Probe(h, j - h) = j /\ (j - h = 0 <=> j = h)
      BY <1>1, <1>2, <2>1
    <3>. QED BY <3>1
  <2>2. CASE j < h
    <3>1. j - h + n \in Slots /\ Probe(h, j - h + n) = j /\ j - h + n # 0
      BY <1>1, <1>2, <2>2
    <3>. QED BY <2>2, <3>1, <1>1
  <2>. QED BY <1>1, <2>1, <2>2
<1>. QED BY <1>2, <1>3, <1>4

\* The least of some numbers is one of them.
LEMMA MinFacts ==
  ASSUME NEW S, S \subseteq Nat, S # {}
  PROVE  Min(S) \in S
<1>1. \E x \in S : \A y \in S : x <= y
  BY LeastOf
<1>. QED BY <1>1 DEF Min

\* Where an insertion writes, if it does.
LEMMA InsertFacts ==
  ASSUME db \in Databases, NEW m, NEW a \in Arrays, NEW h \in Indexes, a = 0 => h >= 0,
         NEW first \in {0, 1}, NEW field, NEW e
  PROVE  \/ /\ Free(m, a, h, first, field) = {}
            /\ Insert(m, a, h, first, field, e) = m
            /\ h >= 0 => \A j \in Slots : Read(m, a, j)[field] # -1 \/ (first = 1 /\ j = h)
         \/ /\ Free(m, a, h, first, field) # {}
            /\ \E p \in Indexes :
                 /\ a = 0 => p >= 0
                 /\ h >= 0 => p \in Slots /\ (first = 1 => p # h)
                 /\ Read(m, a, p)[field] = -1
                 /\ Insert(m, a, h, first, field, e) = Write(m, a, p, e)
<1>. DEFINE F == Free(m, a, h, first, field)
<1>1. n \in Nat /\ n >= 1 /\ Slots = 0 .. n - 1 /\ first .. hashTableSize - 1 \subseteq Slots
  BY SlotFacts DEF n
<1>2. h >= 0 => h \in Slots
  BY <1>1 DEF Indexes
<1>3. CASE F = {}
  <2>1. Insert(m, a, h, first, field, e) = m
    BY <1>3 DEF Insert
  <2>2. ASSUME h >= 0, NEW j \in Slots
        PROVE  Read(m, a, j)[field] # -1 \/ (first = 1 /\ j = h)
    <3>1. PICK q \in Slots : Probe(h, q) = j /\ (q = 0 <=> j = h)
      BY <1>2, <2>2, ProbeFacts
    <3>2. q \in first .. hashTableSize - 1 \/ (first = 1 /\ j = h)
      BY <1>1, <3>1 DEF n
    <3>. QED BY <1>3, <3>1, <3>2 DEF Free
  <2>. QED BY <1>3, <2>1, <2>2
<1>4. CASE F # {}
  <2>1. F \subseteq Nat
    BY <1>1 DEF Free
  <2>2. Min(F) \in F
    BY <1>4, <2>1, MinFacts
  <2>. DEFINE q == Min(F)
              p == Probe(h, q)
  <2>3. q \in first .. hashTableSize - 1 /\ q \in Slots /\ Read(m, a, p)[field] = -1
    BY <1>1, <2>2 DEF Free
  <2>4. Insert(m, a, h, first, field, e) = Write(m, a, p, e)
    BY <1>4 DEF Insert
  <2>. HIDE DEF q, F
  <2>5. p \in Indexes /\ (h >= 0 => p \in Slots)
    BY <1>2, <2>3, HashFacts
  <2>6. h >= 0 /\ first = 1 => p # h
    <3>. SUFFICES ASSUME h >= 0, first = 1, p = h PROVE FALSE
      OBVIOUS
    <3>1. h \in Slots /\ q >= 1
      BY <1>1, <1>2, <2>3
    <3>2. p = IF h + q < n THEN h + q ELSE h + q - n
      BY <2>3, <3>1, ProbeFacts
    <3>. QED BY <1>1, <2>3, <3>1, <3>2
  <2>7. a = 0 => p >= 0
    BY <1>1, <2>5
  <2>. QED BY <1>4, <2>3, <2>4, <2>5, <2>6, <2>7 DEF F
<1>. QED BY <1>3, <1>4

\* What an insertion keeps: the higher arrays, and all others when the home is
\* a slot.
LEMMA InsertKeeps ==
  ASSUME db \in Databases, NEW m \in [Memory -> Int],
         NEW a \in Arrays, NEW h \in Indexes, a = 0 => h >= 0,
         NEW first \in {0, 1}, NEW field, NEW e \in IntEdge
  PROVE  /\ Insert(m, a, h, first, field, e) \in [Memory -> Int]
         /\ \A b \in Arrays, j \in Slots :
              b > a \/ (h >= 0 /\ b # a) =>
                Read(Insert(m, a, h, first, field, e), b, j) = Read(m, b, j)
         /\ h >= 0 => \A j \in Slots :
              Read(Insert(m, a, h, first, field, e), a, j) \in {Read(m, a, j), e}
<1>. DEFINE w == Insert(m, a, h, first, field, e)
<1>0. \/ w = m
      \/ \E p \in Indexes :
           /\ a = 0 => p >= 0
           /\ h >= 0 => p \in Slots
           /\ w = Write(m, a, p, e)
  <2>. HIDE DEF w
  <2>. QED BY InsertFacts DEF w
<1>1. CASE w = m
  BY <1>1
<1>2. CASE w # m
  <2>1. PICK p \in Indexes :
          /\ a = 0 => p >= 0
          /\ h >= 0 => p \in Slots
          /\ w = Write(m, a, p, e)
    BY <1>0, <1>2
  <2>2. p \in Slots => p >= 0
    BY SlotFacts
  <2>. HIDE DEF w
  <2>3. /\ w \in [Memory -> Int]
        /\ Read(w, a, p) = e
        /\ \A b \in Arrays, j \in Slots :
              b > a \/ (p >= 0 /\ <<b, j>> # <<a, p>>) => Read(w, b, j) = Read(m, b, j)
    BY <2>1, WriteFacts
  <2>4. \A b \in Arrays, j \in Slots :
           b > a \/ (h >= 0 /\ b # a) => Read(w, b, j) = Read(m, b, j)
    BY <2>1, <2>2, <2>3
  <2>5. h >= 0 => \A j \in Slots : Read(w, a, j) \in {Read(m, a, j), e}
    BY <2>1, <2>2, <2>3
  <2>. QED BY <2>3, <2>4, <2>5 DEF w
<1>. QED BY <1>1, <1>2

-----------------------------------------------------------------------------
\* What the state consists of at every point: whatever the pairing writes below
\* its arrays, the three it reads from hold edges of the table.
Shape ==
  /\ db \in Databases
  /\ labels \in Queries
  /\ mem \in [Memory -> Int]
  /\ phase \in 1 .. 7
  /\ iter \in Slots /\ linear_proberE2M \in Slots
  /\ already_inserted \in BOOLEAN
  /\ result \in -1 .. n
  /\ \A a \in 3 .. 5, j \in Slots : Read(mem, a, j) \in Cells

\* The table is only read.
LEMMA Frame ==
  ASSUME db' = db
  PROVE  /\ n' = n /\ Slots' = Slots /\ Memory' = Memory
         /\ \A a, i : Read(mem, a, i)' = Read(mem', a, i)
BY DEF n, hashTableSize, Slots, Memory, Stride, Read, At

\* The records that are written.
LEMMA CellFacts ==
  /\ \A e \in Cells : e \in IntEdge
  /\ Edge \subseteq Cells /\ Empty \in Cells /\ Empty \notin Edge
  /\ Empty.fromNode = -1 /\ Empty.toNode = -1 /\ Empty.edgeLabel = -1
  /\ \A e \in Edge : /\ e.fromNode \in Nat /\ e.toNode \in Nat /\ e.edgeLabel \in Nat
                     /\ e.fromNode # -1 /\ e.toNode # -1 /\ e.edgeLabel # -1
BY DEF Cells, Edge, Empty, IntEdge, NoLabel

\* A read yields a record of ints.
LEMMA ReadFacts ==
  ASSUME db \in Databases, NEW m \in [Memory -> Int], NEW a \in Arrays,
         NEW i \in Indexes, a = 0 => i >= 0
  PROVE  Read(m, a, i) \in IntEdge
BY AddressFacts DEF Read, IntEdge

\* The labels asked for are no free label.
LEMMA LabelFacts ==
  ASSUME labels \in Queries
  PROVE  /\ \A k \in 1 .. 3 : labels[k] \in Nat
BY QueriesAssumption

\* All slots of all arrays are free in the beginning.
LEMMA InitFree ==
  ASSUME Init
  PROVE  \A a \in Arrays, j \in Slots : Read(mem, a, j) = Empty
<1>. SUFFICES ASSUME NEW a \in Arrays, NEW j \in Slots
              PROVE  Read(mem, a, j) = Empty
  OBVIOUS
<1>0. db \in Databases
  BY DEF Init
<1>1. /\ n \in Nat /\ n >= 1 /\ Slots = 0 .. n - 1
      /\ Stride \in Nat /\ Stride >= 3 * n
  BY <1>0, SlotFacts, StrideFacts
<1>2. ASSUME NEW r \in 0 .. 2
      PROVE  At(a, j) + r \in Memory /\ At(a, j) + r \notin Padding
  <2>1. At(a, j) + r \in Memory
    <3>1. j \in Indexes /\ j >= 0
      BY <1>0, <1>1, HashFacts
    <3>2. /\ At(a, j) \in Int
          /\ At(a, j) \in Memory /\ At(a, j) + 1 \in Memory /\ At(a, j) + 2 \in Memory
      BY <1>0, <3>1, AddressFacts
    <3>3. r = 0 \/ r = 1 \/ r = 2
      OBVIOUS
    <3>4. At(a, j) + 0 = At(a, j)
      BY <3>2
    <3>. QED BY <3>2, <3>3, <3>4
  <2>2. 3 * j + r \in Nat /\ 3 * j + r < 3 * n
    BY <1>1
  <2>3. PICK y \in Nat, s \in Nat : y = 3 * j + r /\ s = Stride /\ y < s
    BY <1>1, <2>2
  <2>4. (a * s + y) % s = y
    <3>1. a = 0 \/ a = 1 \/ a = 2 \/ a = 3 \/ a = 4 \/ a = 5
      BY DEF Arrays
    <3>. QED BY <3>1, <2>3
  <2>5. At(a, j) + r = a * s + y
    BY <2>3, <1>1 DEF At, Arrays
  <2>6. (At(a, j) + r) % Stride < 3 * hashTableSize
    BY <2>2, <2>3, <2>4, <2>5 DEF n
  <2>7. (At(a, j) + r) % Stride \in Int /\ 3 * hashTableSize \in Int
    BY <1>1, <2>2, <2>3, <2>4, <2>5 DEF n
  <2>. QED BY <2>1, <2>6, <2>7 DEF Padding
<1>3. \A x \in Memory : x \notin Padding => mem[x] = -1
  BY DEF Init
<1>4. At(a, j) \in Int
  BY <1>0, AddressFacts, HashFacts, SlotFacts
<1>5. mem[At(a, j)] = -1 /\ mem[At(a, j) + 1] = -1 /\ mem[At(a, j) + 2] = -1
  <2>1. At(a, j) + 0 = At(a, j)
    BY <1>4
  <2>2. At(a, j) \in Memory /\ At(a, j) \notin Padding
    BY <1>2, <2>1
  <2>. QED BY <1>2, <1>3, <2>2
<1>. QED BY <1>5 DEF Read, Empty, NoLabel

\* The query begins in good shape.
LEMMA InitShape ==
  Init => Shape
<1>. SUFFICES ASSUME Init PROVE Shape
  OBVIOUS
<1>1. /\ db \in Databases /\ labels \in Queries /\ phase = 1 /\ iter = 0
      /\ linear_proberE2M = 0 /\ already_inserted = FALSE /\ result = -1
  BY DEF Init
<1>2. n \in Nat /\ n >= 1 /\ Slots = 0 .. n - 1
  BY <1>1, SlotFacts
<1>3. PICK garbage \in [Padding -> Garbage] :
        mem = [a \in Memory |-> IF a \in Padding THEN garbage[a] ELSE -1]
  BY DEF Init
<1>4. mem \in [Memory -> Int]
  <2>1. \A a \in Padding : garbage[a] \in Int
    BY GarbageAssumption
  <2>. QED BY <1>3, <2>1
<1>5. \A a \in 3 .. 5, j \in Slots : Read(mem, a, j) \in Cells
  BY InitFree, CellFacts DEF Arrays
<1>6. 0 \in Slots /\ -1 \in -1 .. n /\ 1 \in 1 .. 7
  BY <1>2
<1>. QED BY <1>1, <1>4, <1>5, <1>6, Zenon DEF Shape

\* The arrays by their numbers.
LEMMA ArrayFacts ==
  /\ Matches(1) = 5 /\ Matches(2) = 4 /\ Matches(3) = 3
  /\ valids1 = 2 /\ valids2 = 1 /\ valids3 = 0
  /\ \A k \in 1 .. 3 : Matches(k) \in 3 .. 5
  /\ 3 .. 5 \subseteq Arrays /\ 0 \in Arrays /\ 1 \in Arrays /\ 2 \in Arrays
BY DEF Matches, valids1, valids2, valids3, Arrays

\* The counters after a turn of an outer loop.
LEMMA TurnFacts ==
  ASSUME Shape, Turn
  PROVE  /\ iter' \in Slots
         /\ \/ phase' = phase /\ iter' = iter + 1 /\ iter + 1 < n
            \/ phase' = phase + 1 /\ iter' = 0 /\ iter = n - 1
<1>1. n \in Nat /\ n >= 1 /\ Slots = 0 .. n - 1 /\ iter \in Slots
  BY SlotFacts DEF Shape
<1>. QED BY <1>1 DEF Turn, n

\* What a turn of a copying loop writes.
LEMMA CopyFacts ==
  ASSUME Shape, Copy
  PROVE  /\ phase \in 1 .. 3 /\ Turn
         /\ UNCHANGED <<db, labels, linear_proberE2M, already_inserted, result>>
         /\ \E hash \in Slots :
              /\ hash = (IF phase = 1 THEN toHash(labels[1]) ELSE fromHash(labels[phase]))
              /\ mem' = IF db[iter].edgeLabel = labels[phase]
                        THEN Insert(mem, Matches(phase), hash, 1, "edgeLabel", db[iter])
                        ELSE mem
         /\ db[iter].edgeLabel = labels[phase] => db[iter] \in Edge
         /\ mem' \in [Memory -> Int]
         /\ \A b \in Arrays, j \in Slots : b # Matches(phase) => Read(mem', b, j) = Read(mem, b, j)
         /\ \A j \in Slots : Read(mem', Matches(phase), j) \in Cells
<1>1. /\ phase \in 1 .. 3 /\ Turn
      /\ UNCHANGED <<db, labels, linear_proberE2M, already_inserted, result>>
  BY DEF Copy
<1>. DEFINE hash == IF phase = 1 THEN toHash(labels[1]) ELSE fromHash(labels[phase])
<1>2. mem' = IF db[iter].edgeLabel = labels[phase]
             THEN Insert(mem, Matches(phase), hash, 1, "edgeLabel", db[iter])
             ELSE mem
  BY DEF Copy
<1>3. hash \in Slots
  <2>1. labels[1] \in Nat /\ labels[phase] \in Nat
    BY <1>1, LabelFacts DEF Shape
  <2>. QED BY <2>1, HashFacts DEF Shape
<1>4. db[iter] \in Cells /\ (db[iter].edgeLabel = labels[phase] => db[iter] \in Edge)
  <2>1. labels[phase] \in Nat
    BY <1>1, LabelFacts DEF Shape
  <2>2. db[iter] \in Cells
    BY SlotFacts DEF Shape
  <2>. QED BY <2>1, <2>2, CellFacts DEF Cells
<1>5. Matches(phase) \in 3 .. 5 /\ Matches(phase) \in Arrays
  BY <1>1, ArrayFacts
<1>. HIDE DEF hash
<1>6. CASE db[iter].edgeLabel = labels[phase]
  <2>1. /\ hash \in Indexes /\ hash >= 0 /\ db[iter] \in IntEdge
        /\ mem \in [Memory -> Int] /\ db \in Databases
    BY <1>3, <1>4, HashFacts, SlotFacts, CellFacts DEF Shape
  <2>. DEFINE w == Insert(mem, Matches(phase), hash, 1, "edgeLabel", db[iter])
  <2>2. /\ w \in [Memory -> Int]
        /\ \A b \in Arrays, j \in Slots : b # Matches(phase) => Read(w, b, j) = Read(mem, b, j)
        /\ \A j \in Slots : Read(w, Matches(phase), j) \in {Read(mem, Matches(phase), j), db[iter]}
    BY <1>5, <2>1, InsertKeeps
  <2>3. mem' = w
    BY <1>2, <1>6
  <2>. HIDE DEF w
  <2>4. \A j \in Slots : Read(mem, Matches(phase), j) \in Cells
    BY <1>5 DEF Shape
  <2>5. \A j \in Slots : Read(mem', Matches(phase), j) \in Cells
    BY <1>4, <2>2, <2>3, <2>4
  <2>. QED BY <1>1, <1>2, <1>3, <1>4, <2>2, <2>3, <2>5 DEF hash
<1>7. CASE db[iter].edgeLabel # labels[phase]
  <2>1. mem' = mem
    BY <1>2, <1>7
  <2>2. \A j \in Slots : Read(mem, Matches(phase), j) \in Cells
    BY <1>5 DEF Shape
  <2>. QED BY <1>1, <1>2, <1>3, <1>4, <2>1, <2>2 DEF Shape, hash
<1>. QED BY <1>6, <1>7

\* What the pairing reads and writes.
LEMMA PairFacts ==
  ASSUME Shape, phase = 4
  PROVE  /\ Edge1 = Read(mem, 5, iter) /\ Edge1 \in Cells /\ Edge2 \in IntEdge
         /\ toHash(Edge1.toNode) \in Indexes /\ fromHash(Edge1.fromNode) \in Indexes
         /\ fromHash(Edge1.toNode) \in Indexes
         /\ Edge1 # Empty => /\ Edge1 \in Edge /\ Edge2 \in Cells
                             /\ toHash(Edge1.toNode) \in Slots
                             /\ fromHash(Edge1.fromNode) \in Slots
                             /\ fromHash(Edge1.toNode) \in Slots
                             /\ Edge2 = Read(mem, 4, Probe(fromHash(Edge1.toNode), linear_proberE2M))
                             /\ Probe(fromHash(Edge1.toNode), linear_proberE2M) \in Slots
         /\ WithFirst \in [Memory -> Int] /\ WithPair \in [Memory -> Int]
         /\ \A b \in 3 .. 5, j \in Slots : /\ Read(WithFirst, b, j) = Read(mem, b, j)
                                           /\ Read(WithPair, b, j) = Read(mem, b, j)
<1>1. /\ db \in Databases /\ mem \in [Memory -> Int] /\ iter \in Slots /\ linear_proberE2M \in Slots
      /\ \A a \in 3 .. 5, j \in Slots : Read(mem, a, j) \in Cells
  BY DEF Shape
<1>2. Edge1 = Read(mem, 5, iter) /\ Edge1 \in Cells
  BY <1>1, ArrayFacts DEF Edge1
<1>3. Edge1.fromNode \in Int /\ Edge1.toNode \in Int
  BY <1>2, CellFacts DEF IntEdge
<1>4. /\ toHash(Edge1.toNode) \in Indexes /\ fromHash(Edge1.fromNode) \in Indexes
      /\ fromHash(Edge1.toNode) \in Indexes
  BY <1>1, <1>3, HashFacts
<1>5. Edge2 = Read(mem, 4, Probe(fromHash(Edge1.toNode), linear_proberE2M))
  BY ArrayFacts DEF Edge2
<1>6. Probe(fromHash(Edge1.toNode), linear_proberE2M) \in Indexes
  BY <1>1, <1>4, HashFacts
<1>7. Edge2 \in IntEdge
  BY <1>1, <1>5, <1>6, ReadFacts, ArrayFacts
<1>8. ASSUME Edge1 # Empty
      PROVE  /\ Edge1 \in Edge /\ Edge2 \in Cells
             /\ toHash(Edge1.toNode) \in Slots
             /\ fromHash(Edge1.fromNode) \in Slots
             /\ fromHash(Edge1.toNode) \in Slots
             /\ Probe(fromHash(Edge1.toNode), linear_proberE2M) \in Slots
  <2>1. Edge1 \in Edge
    BY <1>2, <1>8 DEF Cells
  <2>2. Edge1.fromNode \in Nat /\ Edge1.toNode \in Nat
    BY <2>1, CellFacts
  <2>3. /\ toHash(Edge1.toNode) \in Slots /\ fromHash(Edge1.fromNode) \in Slots
        /\ fromHash(Edge1.toNode) \in Slots
    BY <1>1, <2>2, HashFacts
  <2>4. Probe(fromHash(Edge1.toNode), linear_proberE2M) \in Slots
    BY <1>1, <2>3, HashFacts
  <2>. QED BY <1>1, <1>5, <2>1, <2>3, <2>4
<1>9. /\ WithFirst \in [Memory -> Int]
      /\ \A b \in 3 .. 5, j \in Slots : Read(WithFirst, b, j) = Read(mem, b, j)
  <2>1. Edge1 \in IntEdge
    BY <1>2, CellFacts
  <2>2. CASE already_inserted
    BY <1>1, <2>2 DEF WithFirst
  <2>3. CASE ~already_inserted
    <3>1. WithFirst = Insert(mem, 2, toHash(Edge1.toNode), 0, "edgeLabel", Edge1)
      BY <2>3, ArrayFacts DEF WithFirst
    <3>2. \A b \in 3 .. 5 : b \in Arrays /\ b > 2
      BY DEF Arrays
    <3>. QED BY <1>1, <1>4, <2>1, <3>1, <3>2, InsertKeeps, ArrayFacts
  <2>. QED BY <2>2, <2>3
<1>10. /\ WithPair \in [Memory -> Int]
       /\ \A b \in 3 .. 5, j \in Slots : Read(WithPair, b, j) = Read(mem, b, j)
  <2>1. WithPair = Insert(WithFirst, 1, fromHash(Edge1.fromNode), 0, "edgeLabel", Edge2)
    BY ArrayFacts DEF WithPair
  <2>2. \A b \in 3 .. 5 : b \in Arrays /\ b > 1
    BY DEF Arrays
  <2>3. /\ WithPair \in [Memory -> Int]
        /\ \A b \in 3 .. 5, j \in Slots : Read(WithPair, b, j) = Read(WithFirst, b, j)
    BY <1>1, <1>4, <1>7, <1>9, <2>1, <2>2, InsertKeeps, ArrayFacts
  <2>. QED BY <1>9, <2>3
<1>. QED BY <1>2, <1>4, <1>5, <1>7, <1>8, <1>9, <1>10

\* The edge that may close pairs: one with a node to go to is in use.
LEMMA Edge3Facts ==
  ASSUME Shape
  PROVE  /\ Edge3 = Read(mem, 3, iter) /\ Edge3 \in Cells
         /\ toHash(Edge3.toNode) \in Indexes /\ fromHash(Edge3.fromNode) \in Indexes
         /\ Closes(Edge3) => Edge3 # Empty
         /\ Edge3 # Empty => /\ Edge3 \in Edge
                             /\ toHash(Edge3.toNode) \in Slots
                             /\ fromHash(Edge3.fromNode) \in Slots
<1>1. db \in Databases /\ Edge3 = Read(mem, 3, iter) /\ Edge3 \in Cells
  BY ArrayFacts DEF Shape, Edge3
<1>2. Edge3.fromNode \in Int /\ Edge3.toNode \in Int
  BY <1>1, CellFacts DEF IntEdge
<1>3. toHash(Edge3.toNode) \in Indexes /\ fromHash(Edge3.fromNode) \in Indexes
  BY <1>1, <1>2, HashFacts
<1>4. Closes(Edge3) => Edge3 # Empty
  BY CellFacts DEF Closes
<1>5. ASSUME Edge3 # Empty
      PROVE  /\ Edge3 \in Edge
             /\ toHash(Edge3.toNode) \in Slots /\ fromHash(Edge3.fromNode) \in Slots
  <2>1. Edge3 \in Edge
    BY <1>1, <1>5 DEF Cells
  <2>2. Edge3.fromNode \in Nat /\ Edge3.toNode \in Nat
    BY <2>1, CellFacts
  <2>. QED BY <1>1, <2>1, <2>2, HashFacts
<1>. QED BY <1>1, <1>3, <1>4, <1>5

\* What a turn of the closing loop writes.
LEMMA CloseFacts ==
  ASSUME Shape, Close
  PROVE  /\ phase = 5 /\ Turn
         /\ UNCHANGED <<db, labels, linear_proberE2M, already_inserted, result>>
         /\ Closes(Edge3) => mem' = Insert(mem, 0, toHash(Edge3.toNode), 0, "fromNode", Edge3)
         /\ ~Closes(Edge3) => mem' = mem
         /\ mem' \in [Memory -> Int]
         /\ \A b \in Arrays, j \in Slots : b # 0 => Read(mem', b, j) = Read(mem, b, j)
<1>1. /\ phase = 5 /\ Turn
      /\ UNCHANGED <<db, labels, linear_proberE2M, already_inserted, result>>
      /\ mem' = IF Closes(Edge3)
                THEN Insert(mem, 0, toHash(Edge3.toNode), 0, "fromNode", Edge3)
                ELSE mem
  BY ArrayFacts DEF Close
<1>2. db \in Databases /\ mem \in [Memory -> Int]
  BY DEF Shape
<1>3. CASE Closes(Edge3)
  <2>1. /\ toHash(Edge3.toNode) \in Indexes /\ toHash(Edge3.toNode) >= 0 /\ Edge3 \in IntEdge
    BY <1>2, <1>3, Edge3Facts, SlotFacts, CellFacts
  <2>. DEFINE w == Insert(mem, 0, toHash(Edge3.toNode), 0, "fromNode", Edge3)
  <2>2. /\ w \in [Memory -> Int]
        /\ \A b \in Arrays, j \in Slots : b # 0 => Read(w, b, j) = Read(mem, b, j)
    BY <1>2, <2>1, InsertKeeps, ArrayFacts
  <2>3. mem' = w
    BY <1>1, <1>3
  <2>. HIDE DEF w
  <2>4. /\ mem' \in [Memory -> Int]
        /\ \A b \in Arrays, j \in Slots : b # 0 => Read(mem', b, j) = Read(mem, b, j)
    BY <2>2, <2>3
  <2>. QED BY <1>1, <1>3, <2>3, <2>4 DEF w
<1>4. CASE ~Closes(Edge3)
  BY <1>1, <1>2, <1>4
<1>. QED BY <1>3, <1>4

\* The number of labelled edges of an array.
LEMMA LabelledFacts ==
  ASSUME db \in Databases, NEW a
  PROVE  Labelled(a) \in 0 .. n
<1>1. {i \in Slots : Read(mem, a, i).edgeLabel # NoLabel} \in SUBSET Slots
  OBVIOUS
<1>2. /\ IsFiniteSet({i \in Slots : Read(mem, a, i).edgeLabel # NoLabel})
      /\ Cardinality({i \in Slots : Read(mem, a, i).edgeLabel # NoLabel}) <= n
  BY <1>1, SlotFacts, FS_Subset
<1>. QED BY <1>2, FS_CardinalityType, SlotFacts DEF Labelled

\* The result is 0 when an array is empty, and else the largest of the counts.
LEMMA CountFacts ==
  ASSUME Shape, Count
  PROVE  LET counts == {Labelled(valids1), Labelled(valids2), Labelled(valids3)}
         IN  /\ result' \in counts /\ result' \in 0 .. n
             /\ 0 \in counts => result' = 0
             /\ 0 \notin counts => result' # 0
<1>. DEFINE counts == {Labelled(valids1), Labelled(valids2), Labelled(valids3)}
<1>1. n \in Nat /\ \A c \in counts : c \in 0 .. n
  BY LabelledFacts, SlotFacts DEF Shape
<1>2. result' = IF 0 \in counts THEN 0 ELSE Max(counts)
  BY DEF Count
<1>3. Max(counts) \in counts
  <2>1. PICK x, y, z : x = Labelled(valids1) /\ y = Labelled(valids2) /\ z = Labelled(valids3)
    OBVIOUS
  <2>2. x \in Int /\ y \in Int /\ z \in Int /\ counts = {x, y, z}
    BY <1>1, <2>1
  <2>. HIDE DEF counts
  <2>3. \E c \in counts : \A d \in counts : d <= c
    <3>1. CASE x >= y /\ x >= z
      BY <2>2, <3>1
    <3>2. CASE y >= x /\ y >= z
      BY <2>2, <3>2
    <3>3. CASE z >= x /\ z >= y
      BY <2>2, <3>3
    <3>. QED BY <2>2, <3>1, <3>2, <3>3
  <2>4. \E c \in counts : \A d \in counts : c >= d
    BY <2>2, <2>3
  <2>. QED BY <2>4 DEF Max
<1>. HIDE DEF counts
<1>. QED BY <1>1, <1>2, <1>3 DEF counts

\* Every step keeps the shape.
LEMMA StepKeepsShape ==
  ASSUME Shape, [Next]_vars
  PROVE  Shape'
<1>1. n \in Nat /\ n >= 1 /\ Slots = 0 .. n - 1
  BY SlotFacts DEF Shape
<1>2. CASE Copy
  <2>1. /\ phase \in 1 .. 3 /\ Turn
        /\ UNCHANGED <<db, labels, linear_proberE2M, already_inserted, result>>
        /\ mem' \in [Memory -> Int]
        /\ \A b \in Arrays, j \in Slots : b # Matches(phase) => Read(mem', b, j) = Read(mem, b, j)
        /\ \A j \in Slots : Read(mem', Matches(phase), j) \in Cells
    BY <1>2, CopyFacts
  <2>2. iter' \in Slots /\ phase' \in 1 .. 7
    BY <2>1, TurnFacts
  <2>3. \A a \in 3 .. 5, j \in Slots : Read(mem', a, j) \in Cells
    BY <2>1, ArrayFacts DEF Shape
  <2>. QED BY <2>1, <2>2, <2>3, Frame DEF Shape
<1>3. CASE Pair
  <2>1. /\ phase = 4 /\ UNCHANGED <<db, labels, result>>
        /\ mem' = IF Joins THEN WithPair ELSE mem
    BY <1>3 DEF Pair
  <2>2. /\ mem' \in [Memory -> Int]
        /\ \A a \in 3 .. 5, j \in Slots : Read(mem', a, j) \in Cells
    BY <2>1, PairFacts DEF Shape
  <2>3. /\ iter' \in Slots /\ phase' \in 1 .. 7
        /\ linear_proberE2M' \in Slots /\ already_inserted' \in BOOLEAN
    <3>1. CASE /\ linear_proberE2M + 1 < hashTableSize
               /\ linear_proberE2M' = linear_proberE2M + 1
               /\ already_inserted' = (already_inserted \/ (Joins /\ HasRoom1))
               /\ UNCHANGED <<phase, iter>>
      BY <1>1, <2>1, <3>1 DEF Shape, n
    <3>2. CASE linear_proberE2M' = 0 /\ already_inserted' = FALSE /\ Turn
      <4>1. iter' \in Slots /\ phase' \in 1 .. 7
        BY <2>1, <3>2, TurnFacts
      <4>2. 0 \in Slots /\ FALSE \in BOOLEAN
        BY <1>1
      <4>. QED BY <3>2, <4>1, <4>2
    <3>. QED BY <1>3, <3>1, <3>2 DEF Pair
  <2>. QED BY <2>1, <2>2, <2>3, Frame DEF Shape
<1>4. CASE Close
  <2>1. /\ phase = 5 /\ Turn
        /\ UNCHANGED <<db, labels, linear_proberE2M, already_inserted, result>>
        /\ mem' \in [Memory -> Int]
        /\ \A b \in Arrays, j \in Slots : b # 0 => Read(mem', b, j) = Read(mem, b, j)
    BY <1>4, CloseFacts
  <2>2. iter' \in Slots /\ phase' \in 1 .. 7
    BY <2>1, TurnFacts
  <2>3. \A a \in 3 .. 5, j \in Slots : Read(mem', a, j) \in Cells
    BY <2>1, ArrayFacts DEF Shape
  <2>. QED BY <2>1, <2>2, <2>3, Frame DEF Shape
<1>5. CASE Count
  <2>1. result' \in 0 .. n
    BY <1>5, CountFacts
  <2>2. /\ phase' = 7
        /\ UNCHANGED <<db, labels, mem, iter, linear_proberE2M, already_inserted>>
    BY <1>5 DEF Count
  <2>. QED BY <1>1, <2>1, <2>2, Frame DEF Shape
<1>6. CASE UNCHANGED vars
  BY <1>6, Frame DEF vars, Shape
<1>. QED BY <1>2, <1>3, <1>4, <1>5, <1>6 DEF Next, Returned

\* The shape holds at every point.
LEMMA ShapeInvariance ==
  Spec => []Shape
<1>. QED BY InitShape, StepKeepsShape, PTL DEF Spec

(***************************************************************************)
(* TypeOK of HashQuery, whatever the sizes, the labels and the padding:    *)
(* the memory holds ints, the counters stay within the table, and the      *)
(* answer is at most its length.                                           *)
(***************************************************************************)
THEOREM TypeCorrect ==
  Spec => []TypeOK
<1>1. Shape => TypeOK
  BY DEF Shape, TypeOK, n
<1>. QED BY <1>1, ShapeInvariance, PTL

\* The edges that the probes from a home may reach lie in the memory.
LEMMA ReachFacts ==
  ASSUME db \in Databases, NEW a \in Arrays, NEW h \in Indexes, a = 0 => h >= 0
  PROVE  \A x \in Reach(a, h) : {x, x + 1, x + 2} \subseteq Memory
<1>. SUFFICES ASSUME NEW lp \in Slots
              PROVE  LET x == At(a, Probe(h, lp)) IN {x, x + 1, x + 2} \subseteq Memory
  BY DEF Reach
<1>1. Probe(h, lp) \in Indexes
  BY HashFacts
<1>2. a = 0 => Probe(h, lp) >= 0
  <2>. SUFFICES ASSUME a = 0 PROVE Probe(h, lp) >= 0
    OBVIOUS
  <2>1. h \in Slots
    BY SlotFacts DEF Indexes
  <2>. QED BY <2>1, HashFacts, SlotFacts
<1>. QED BY <1>1, <1>2, AddressFacts

(***************************************************************************)
(* Whatever the sizes, the labels and the padding, each edge that a turn   *)
(* reads or writes lies in the six arrays, though a free slot hashes to an *)
(* index below 0.  It needs that the three arrays the turns go by hold     *)
(* edges and free slots and nothing else, whatever is written below the    *)
(* others: only then is a third edge with a node to go to one in use.      *)
(***************************************************************************)
THEOREM NeverOutsideTheArrays ==
  Spec => []StaysInArrays
<1>1. ASSUME Shape PROVE StaysInArrays
  <2>. SUFFICES ASSUME NEW x \in Touched PROVE {x, x + 1, x + 2} \subseteq Memory
    BY DEF StaysInArrays
  <2>1. db \in Databases
    BY <1>1 DEF Shape
  <2>2. CASE phase = 4
    <3>1. x \in Reach(4, fromHash(Edge1.toNode)) \cup Reach(2, toHash(Edge1.toNode))
                  \cup Reach(1, fromHash(Edge1.fromNode))
      BY <2>2, ArrayFacts DEF Touched
    <3>2. /\ toHash(Edge1.toNode) \in Indexes /\ fromHash(Edge1.fromNode) \in Indexes
          /\ fromHash(Edge1.toNode) \in Indexes
      BY <1>1, <2>2, PairFacts
    <3>. QED BY <2>1, <3>1, <3>2, ReachFacts DEF Arrays
  <2>3. CASE phase = 5
    <3>1. x \in Reach(2, toHash(Edge3.toNode)) \cup Reach(1, fromHash(Edge3.fromNode))
                  \cup (IF Closes(Edge3) THEN Reach(0, toHash(Edge3.toNode)) ELSE {})
      BY <2>3, ArrayFacts DEF Touched
    <3>2. /\ toHash(Edge3.toNode) \in Indexes /\ fromHash(Edge3.fromNode) \in Indexes
          /\ Closes(Edge3) => toHash(Edge3.toNode) >= 0
      BY <1>1, <2>1, Edge3Facts, SlotFacts
    <3>. QED BY <2>1, <3>1, <3>2, ReachFacts DEF Arrays
  <2>. QED BY <2>2, <2>3 DEF Touched
<1>. QED BY <1>1, ShapeInvariance, PTL

-----------------------------------------------------------------------------
\* When the arrays need no padding, the memory is nothing but edges.
AllCells == \A a \in Arrays, j \in Slots : Read(mem, a, j) \in Cells

\* An index below 0 means an edge of the array below.
LEMMA BelowFacts ==
  ASSUME Unpadded(Databases), db \in Databases
  PROVE  /\ Stride = 3 * n
         /\ \A m : \A a \in 1 .. 5, i \in Indexes :
              i < 0 => n + i \in Slots /\ Read(m, a, i) = Read(m, a - 1, n + i)
<1>1. n \in Nat /\ n >= 1 /\ Slots = 0 .. n - 1 /\ n = hashTableSize /\ n % 4 = 0
  BY SlotFacts DEF Unpadded, n, hashTableSize
<1>2. (-(3 * n)) % 4 = 0
  BY <1>1
<1>3. Stride = 3 * n
  BY <1>1, <1>2 DEF Stride, PaddingFor
<1>4. ASSUME NEW m, NEW a \in 1 .. 5, NEW i \in Indexes, i < 0
      PROVE  n + i \in Slots /\ Read(m, a, i) = Read(m, a - 1, n + i)
  <2>1. n + i \in Slots /\ i \in Int
    BY <1>1, <1>4 DEF Indexes
  <2>2. At(a, i) = At(a - 1, n + i)
    <3>1. a = 1 \/ a = 2 \/ a = 3 \/ a = 4 \/ a = 5
      OBVIOUS
    <3>. QED BY <1>1, <1>3, <2>1, <3>1 DEF At
  <2>. QED BY <2>1, <2>2 DEF Read
<1>. QED BY <1>3, <1>4

\* What a probe finds, wherever it looks.
LEMMA AnyCell ==
  ASSUME Unpadded(Databases), Shape, AllCells, NEW a \in Arrays, NEW i \in Indexes, a = 0 => i >= 0
  PROVE  Read(mem, a, i) \in Cells
<1>1. db \in Databases
  BY DEF Shape
<1>2. i \in Int
  BY <1>1, SlotFacts DEF Indexes
<1>3. CASE i >= 0
  <2>1. i \in Slots
    BY <1>1, <1>3, SlotFacts DEF Indexes
  <2>. QED BY <2>1 DEF AllCells
<1>4. CASE i < 0
  <2>1. a # 0
    BY <1>2, <1>4
  <2>2. a \in 1 .. 5 /\ a - 1 \in Arrays
    BY <2>1 DEF Arrays
  <2>3. n + i \in Slots /\ Read(mem, a, i) = Read(mem, a - 1, n + i)
    BY <1>1, <1>4, <2>2, BelowFacts
  <2>. QED BY <2>2, <2>3 DEF AllCells
<1>. QED BY <1>2, <1>3, <1>4

\* Making a free slot free again changes nothing.
LEMMA FreeAgain ==
  ASSUME Unpadded(Databases), Shape, AllCells, NEW a \in Arrays, NEW h \in Indexes, a = 0 => h >= 0
  PROVE  Insert(mem, a, h, 0, "edgeLabel", Empty) = mem
<1>. DEFINE w == Insert(mem, a, h, 0, "edgeLabel", Empty)
<1>1. db \in Databases /\ mem \in [Memory -> Int]
  BY DEF Shape
<1>2. \/ w = mem
      \/ \E p \in Indexes : /\ a = 0 => p >= 0
                            /\ Read(mem, a, p)["edgeLabel"] = -1
                            /\ w = Write(mem, a, p, Empty)
  <2>. HIDE DEF w
  <2>. QED BY <1>1, InsertFacts DEF w
<1>3. ASSUME NEW p \in Indexes, a = 0 => p >= 0, Read(mem, a, p)["edgeLabel"] = -1
      PROVE  Write(mem, a, p, Empty) = mem
  <2>1. Read(mem, a, p) = Empty
    <3>1. Read(mem, a, p) \in Cells
      BY <1>3, AnyCell
    <3>2. Read(mem, a, p).edgeLabel = -1
      BY <1>3
    <3>. QED BY <3>1, <3>2, CellFacts DEF Cells
  <2>. DEFINE x == At(a, p)
  <2>2. mem[x] = -1 /\ mem[x + 1] = -1 /\ mem[x + 2] = -1
    BY <2>1 DEF Read, Empty, NoLabel
  <2>3. Write(mem, a, p, Empty) = [mem EXCEPT ![x] = -1, ![x + 1] = -1, ![x + 2] = -1]
    BY CellFacts DEF Write
  <2>. HIDE DEF x
  <2>. QED BY <1>1, <2>2, <2>3
<1>. HIDE DEF w
<1>4. w = mem
  BY <1>2, <1>3
<1>. QED BY <1>4 DEF w

\* A free slot of edge1matches joins free slots only, and writes free slots
\* over free slots.
LEMMA FreeSlotTurn ==
  ASSUME Unpadded(Databases), Shape, AllCells, phase = 4, Edge1 = Empty, Joins
  PROVE  WithPair = mem
<1>1. /\ Edge2 = Read(mem, 4, Probe(fromHash(Edge1.toNode), linear_proberE2M))
      /\ toHash(Edge1.toNode) \in Indexes /\ fromHash(Edge1.fromNode) \in Indexes
      /\ fromHash(Edge1.toNode) \in Indexes /\ linear_proberE2M \in Slots /\ db \in Databases
  BY PairFacts, ArrayFacts DEF Edge2, Shape
<1>2. Probe(fromHash(Edge1.toNode), linear_proberE2M) \in Indexes
  BY <1>1, HashFacts
<1>3. Edge2 \in Cells
  BY <1>1, <1>2, AnyCell DEF Arrays
<1>4. Edge2 = Empty
  <2>1. Edge2.fromNode = -1
    BY CellFacts DEF Joins
  <2>. QED BY <1>3, <2>1, CellFacts DEF Cells
<1>5. WithFirst = mem
  <2>1. CASE already_inserted
    BY <2>1 DEF WithFirst
  <2>2. CASE ~already_inserted
    <3>1. WithFirst = Insert(mem, 2, toHash(Edge1.toNode), 0, "edgeLabel", Empty)
      BY <2>2, ArrayFacts DEF WithFirst
    <3>. QED BY <1>1, <3>1, FreeAgain, ArrayFacts
  <2>. QED BY <2>1, <2>2
<1>6. WithPair = Insert(mem, 1, fromHash(Edge1.fromNode), 0, "edgeLabel", Empty)
  BY <1>4, <1>5, ArrayFacts DEF WithPair
<1>. QED BY <1>1, <1>6, FreeAgain, ArrayFacts

\* An edge in use is written where slots are meant.
LEMMA UsedSlotTurn ==
  ASSUME Shape, AllCells, phase = 4, Edge1 # Empty
  PROVE  /\ \A a \in Arrays, j \in Slots : Read(WithFirst, a, j) \in Cells
         /\ \A a \in Arrays, j \in Slots : a # 2 => Read(WithFirst, a, j) = Read(mem, a, j)
         /\ \A a \in Arrays, j \in Slots : Read(WithPair, a, j) \in Cells
         /\ \A a \in Arrays, j \in Slots : a # 1 => Read(WithPair, a, j) = Read(WithFirst, a, j)
<1>1. db \in Databases /\ mem \in [Memory -> Int]
  BY DEF Shape
<1>2. /\ Edge1 \in Cells /\ Edge1 \in IntEdge /\ Edge2 \in Cells /\ Edge2 \in IntEdge
      /\ toHash(Edge1.toNode) \in Indexes /\ toHash(Edge1.toNode) >= 0
      /\ fromHash(Edge1.fromNode) \in Indexes /\ fromHash(Edge1.fromNode) >= 0
      /\ WithFirst \in [Memory -> Int]
  BY <1>1, PairFacts, SlotFacts, CellFacts
<1>3. /\ \A a \in Arrays, j \in Slots : Read(WithFirst, a, j) \in Cells
      /\ \A a \in Arrays, j \in Slots : a # 2 => Read(WithFirst, a, j) = Read(mem, a, j)
  <2>1. CASE already_inserted
    BY <2>1 DEF WithFirst, AllCells
  <2>2. CASE ~already_inserted
    <3>1. WithFirst = Insert(mem, 2, toHash(Edge1.toNode), 0, "edgeLabel", Edge1)
      BY <2>2, ArrayFacts DEF WithFirst
    <3>2. /\ \A a \in Arrays, j \in Slots : a # 2 => Read(WithFirst, a, j) = Read(mem, a, j)
          /\ \A j \in Slots : Read(WithFirst, 2, j) \in {Read(mem, 2, j), Edge1}
      BY <1>1, <1>2, <3>1, InsertKeeps, ArrayFacts
    <3>. QED BY <1>2, <3>2, ArrayFacts DEF AllCells
  <2>. QED BY <2>1, <2>2
<1>4. WithPair = Insert(WithFirst, 1, fromHash(Edge1.fromNode), 0, "edgeLabel", Edge2)
  BY ArrayFacts DEF WithPair
<1>5. /\ \A a \in Arrays, j \in Slots : a # 1 => Read(WithPair, a, j) = Read(WithFirst, a, j)
      /\ \A j \in Slots : Read(WithPair, 1, j) \in {Read(WithFirst, 1, j), Edge2}
  BY <1>1, <1>2, <1>4, InsertKeeps, ArrayFacts
<1>. QED BY <1>2, <1>3, <1>5, ArrayFacts

\* Every step leaves edges and free slots only.
LEMMA StepKeepsCells ==
  ASSUME Unpadded(Databases), Shape, AllCells, [Next]_vars
  PROVE  AllCells'
<1>. SUFFICES ASSUME db' = db, NEW a \in Arrays, NEW j \in Slots
              PROVE  Read(mem', a, j) \in Cells
  <2>1. db' = db
    BY DEF Next, Copy, Pair, Close, Count, Returned, vars
  <2>. QED BY <2>1, Frame DEF AllCells, Cells, Edge, Arrays
<1>1. CASE Copy
  BY <1>1, CopyFacts DEF AllCells
<1>2. CASE Pair
  <2>1. phase = 4 /\ mem' = IF Joins THEN WithPair ELSE mem
    BY <1>2 DEF Pair
  <2>2. CASE Joins /\ Edge1 = Empty
    BY <2>1, <2>2, FreeSlotTurn DEF AllCells
  <2>3. CASE Joins /\ Edge1 # Empty
    BY <2>1, <2>3, UsedSlotTurn
  <2>4. CASE ~Joins
    BY <2>1, <2>4 DEF AllCells
  <2>. QED BY <2>2, <2>3, <2>4
<1>3. CASE Close
  <2>1. CASE Closes(Edge3)
    <3>1. /\ mem' = Insert(mem, 0, toHash(Edge3.toNode), 0, "fromNode", Edge3)
          /\ \A b \in Arrays, i \in Slots : b # 0 => Read(mem', b, i) = Read(mem, b, i)
      BY <1>3, <2>1, CloseFacts
    <3>2. /\ toHash(Edge3.toNode) \in Indexes /\ toHash(Edge3.toNode) >= 0
          /\ Edge3 \in IntEdge /\ Edge3 \in Cells
          /\ db \in Databases /\ mem \in [Memory -> Int]
      BY <2>1, Edge3Facts, SlotFacts, CellFacts DEF Shape
    <3>3. \A i \in Slots : Read(mem', 0, i) \in {Read(mem, 0, i), Edge3}
      BY <3>1, <3>2, InsertKeeps, ArrayFacts
    <3>. QED BY <3>1, <3>2, <3>3 DEF AllCells
  <2>2. CASE ~Closes(Edge3)
    BY <1>3, <2>2, CloseFacts DEF AllCells
  <2>. QED BY <2>1, <2>2
<1>4. CASE Count
  BY <1>4 DEF Count, AllCells
<1>5. CASE UNCHANGED vars
  BY <1>5 DEF vars, AllCells
<1>. QED BY <1>1, <1>2, <1>3, <1>4, <1>5 DEF Next, Returned

\* Without padding the memory holds edges and free slots at every point.
LEMMA CellsInvariance ==
  ASSUME Unpadded(Databases)
  PROVE  Spec => [](Shape /\ AllCells)
<1>1. Init => AllCells
  BY InitFree, CellFacts DEF AllCells
<1>. QED BY <1>1, InitShape, StepKeepsShape, StepKeepsCells, PTL DEF Spec

(***************************************************************************)
(* FreeSlotsJoinNothing of HashQuery: in a table declared for an even      *)
(* number of edges the pairing may take a free slot for an edge, read and  *)
(* write below its arrays, and do no harm.  What it reads there is an edge *)
(* of the next array, so the two nodes it compares are both -1 only for a  *)
(* slot that is free too, and what it writes there was there before.       *)
(***************************************************************************)
THEOREM FreeSlotsAreHarmless ==
  Unpadded(Databases) => (Spec => FreeSlotsJoinNothing)
<1>. SUFFICES ASSUME Unpadded(Databases) PROVE Spec => FreeSlotsJoinNothing
  OBVIOUS
<1>1. ASSUME Shape, AllCells, [Next]_vars
      PROVE  [phase = 4 /\ Edge1 = Empty => UNCHANGED mem]_vars
  <2>. SUFFICES ASSUME Next, phase = 4, Edge1 = Empty PROVE mem' = mem
    BY <1>1
  <2>1. CASE Pair
    BY <1>1, <2>1, FreeSlotTurn DEF Pair
  <2>2. CASE UNCHANGED vars
    BY <2>2 DEF vars
  <2>. QED BY <2>1, <2>2 DEF Next, Copy, Close, Count, Returned
<1>. QED BY <1>1, CellsInvariance, PTL DEF Spec, FreeSlotsJoinNothing

-----------------------------------------------------------------------------
\* An array holds the edges of val, each in a slot of its own, f, and else free
\* slots.
Places(m, a, val, f) ==
  /\ f \in [DOMAIN val -> Slots]
  /\ \A x, y \in DOMAIN val : f[x] = f[y] => x = y
  /\ \A x \in DOMAIN val : Read(m, a, f[x]) = val[x]
  /\ \A j \in Slots : Read(m, a, j) = Empty \/ \E x \in DOMAIN val : j = f[x]

Holds(m, a, val) == \E f : Places(m, a, val, f)

\* A function from a finite set: onto a set makes that set no larger, without
\* equal values makes it no smaller.
LEMMA ImageCount ==
  ASSUME NEW S, NEW T, NEW f, IsFiniteSet(S), \A y \in T : \E x \in S : f[x] = y
  PROVE  IsFiniteSet(T) /\ Cardinality(T) <= Cardinality(S)
<1>. DEFINE R == {x \in S : f[x] \in T}
            g == [x \in R |-> f[x]]
<1>1. IsFiniteSet(R) /\ Cardinality(R) <= Cardinality(S)
  BY FS_Subset
<1>2. g \in Surjection(R, T)
  BY DEF Surjection
<1>. HIDE DEF R, g
<1>3. IsFiniteSet(T) /\ Cardinality(T) <= Cardinality(R)
  BY <1>1, <1>2, FS_Surjection
<1>. QED BY <1>1, <1>3, FS_CardinalityType

\* As many values as there are elements, when no two are equal.
LEMMA InjectionCount ==
  ASSUME NEW S, NEW T, NEW f, IsFiniteSet(T),
         \A x \in S : f[x] \in T, \A x, y \in S : f[x] = f[y] => x = y
  PROVE  IsFiniteSet(S) /\ Cardinality(S) <= Cardinality(T)
<1>. DEFINE g == [x \in S |-> f[x]]
<1>1. g \in Injection(S, T)
  BY DEF Injection, IsInjective
<1>. HIDE DEF g
<1>. QED BY <1>1, FS_Injection

\* The values are counted by their slots.
LEMMA HoldsCount ==
  ASSUME db \in Databases, NEW m, NEW a, NEW S, NEW val \in [S -> Edge], Holds(m, a, val)
  PROVE  /\ IsFiniteSet(S)
         /\ Cardinality({j \in Slots : Read(m, a, j).edgeLabel # NoLabel}) = Cardinality(S)
<1>. DEFINE U == {j \in Slots : Read(m, a, j).edgeLabel # NoLabel}
<1>1. PICK f : /\ f \in [S -> Slots]
               /\ \A x, y \in S : f[x] = f[y] => x = y
               /\ \A x \in S : Read(m, a, f[x]) = val[x]
               /\ \A j \in Slots : Read(m, a, j) = Empty \/ \E x \in S : j = f[x]
  BY DEF Holds, Places
<1>2. IsFiniteSet(U)
  BY SlotFacts, FS_Subset
<1>3. \A x \in S : f[x] \in U
  BY <1>1, CellFacts DEF NoLabel
<1>4. \A j \in U : \E x \in S : f[x] = j
  BY <1>1, CellFacts DEF NoLabel
<1>. HIDE DEF U
<1>5. IsFiniteSet(S) /\ Cardinality(S) <= Cardinality(U)
  BY <1>1, <1>2, <1>3, InjectionCount
<1>6. Cardinality(U) <= Cardinality(S)
  BY <1>4, <1>5, ImageCount
<1>. QED BY <1>2, <1>5, <1>6, FS_CardinalityType DEF U

\* It is a matter of the values and of what can be read.
LEMMA HoldsFrame ==
  ASSUME NEW m, NEW w, NEW a, NEW val, Holds(m, a, val),
         NEW v, DOMAIN v = DOMAIN val, \A x \in DOMAIN val : v[x] = val[x],
         \A j \in Slots : Read(w, a, j) = Read(m, a, j)
  PROVE  Holds(w, a, v)
<1>1. PICK f : Places(m, a, val, f)
  BY DEF Holds
<1>2. Places(w, a, v, f)
  BY <1>1 DEF Places
<1>. QED BY <1>2 DEF Holds

\* An array of free slots holds nothing.
LEMMA HoldsNothing ==
  ASSUME NEW m, NEW a, NEW val, DOMAIN val = {}, \A j \in Slots : Read(m, a, j) = Empty
  PROVE  Holds(m, a, val)
<1>1. Places(m, a, val, [x \in {} |-> 0])
  BY DEF Places
<1>. QED BY <1>1 DEF Holds

\* With one value more.
More(val, x, e) == [y \in (DOMAIN val) \cup {x} |-> IF y = x THEN e ELSE val[y]]

\* As long as there is room, an insertion puts one edge more into the array.
LEMMA HoldsInsert ==
  ASSUME db \in Databases, NEW m \in [Memory -> Int], NEW a \in Arrays, NEW h \in Slots,
         NEW first \in {0, 1}, first = 1 => Read(m, a, h) = Empty,
         NEW field \in {"fromNode", "edgeLabel"},
         NEW S, NEW val \in [S -> Edge], Holds(m, a, val), Cardinality(S) < n - first,
         NEW x, x \notin S, NEW e \in Edge
  PROVE  /\ Free(m, a, h, first, field) # {}
         /\ Holds(Insert(m, a, h, first, field, e), a, More(val, x, e))
         /\ first = 1 => Read(Insert(m, a, h, first, field, e), a, h) = Empty
<1>. DEFINE w == Insert(m, a, h, first, field, e)
<1>1. PICK f : /\ f \in [S -> Slots]
               /\ \A y, z \in S : f[y] = f[z] => y = z
               /\ \A y \in S : Read(m, a, f[y]) = val[y]
               /\ \A j \in Slots : Read(m, a, j) = Empty \/ \E y \in S : j = f[y]
  BY DEF Holds, Places
<1>2. IsFiniteSet(S)
  BY HoldsCount
<1>3. n \in Nat /\ h \in Indexes /\ h >= 0 /\ IsFiniteSet(Slots) /\ Cardinality(Slots) = n
  BY SlotFacts, HashFacts
<1>4. \E j \in Slots : Read(m, a, j) = Empty /\ (first = 1 => j # h)
  <2>. SUFFICES ASSUME \A j \in Slots : Read(m, a, j) = Empty => first = 1 /\ j = h PROVE FALSE
    OBVIOUS
  <2>. DEFINE T == IF first = 1 THEN Slots \ {h} ELSE Slots
  <2>1. \A j \in T : \E y \in S : f[y] = j
    BY <1>1
  <2>2. Cardinality(T) = n - first
    <3>1. Cardinality(Slots \ {h}) = n - 1
      BY <1>3, FS_RemoveElement
    <3>2. n - 0 = n
      BY <1>3
    <3>. QED BY <1>3, <3>1, <3>2
  <2>. HIDE DEF T
  <2>3. Cardinality(T) <= Cardinality(S)
    BY <1>2, <2>1, ImageCount
  <2>. QED BY <1>2, <1>3, <2>2, <2>3, FS_CardinalityType
<1>5. \A j \in Slots : Read(m, a, j)[field] = -1 <=> Read(m, a, j) = Empty
  <2>1. \A j \in Slots : Read(m, a, j) = Empty \/ Read(m, a, j) \in Edge
    BY <1>1
  <2>2. Empty[field] = -1 /\ \A d \in Edge : d[field] # -1
    BY DEF Empty, Edge, NoLabel
  <2>. QED BY <2>1, <2>2
<1>6. \E p \in Indexes :
        /\ p \in Slots /\ (first = 1 => p # h)
        /\ Read(m, a, p)[field] = -1
        /\ w = Write(m, a, p, e)
  <2>1. ~ \A j \in Slots : Read(m, a, j)[field] # -1 \/ (first = 1 /\ j = h)
    BY <1>4, <1>5
  <2>. HIDE DEF w
  <2>2. \/ \A j \in Slots : Read(m, a, j)[field] # -1 \/ (first = 1 /\ j = h)
        \/ \E p \in Indexes :
             /\ p \in Slots /\ (first = 1 => p # h)
             /\ Read(m, a, p)[field] = -1
             /\ w = Write(m, a, p, e)
    BY <1>3, InsertFacts DEF w
  <2>. QED BY <2>1, <2>2
<1>. HIDE DEF w
<1>7. PICK p \in Slots : /\ first = 1 => p # h
                         /\ Read(m, a, p) = Empty
                         /\ w = Write(m, a, p, e)
  BY <1>5, <1>6
<1>8. /\ Read(w, a, p) = e
      /\ \A j \in Slots : j # p => Read(w, a, j) = Read(m, a, j)
  <2>1. p \in Indexes /\ p >= 0 /\ e \in IntEdge
    BY SlotFacts, HashFacts, CellFacts
  <2>. QED BY <1>7, <2>1, WriteFacts
<1>9. \A y \in S : f[y] # p /\ f[y] \in Slots
  BY <1>1, <1>7, CellFacts
<1>. DEFINE v == More(val, x, e)
            g == [y \in S \cup {x} |-> IF y = x THEN p ELSE f[y]]
<1>10. DOMAIN v = S \cup {x} /\ v[x] = e /\ \A y \in S : v[y] = val[y]
  BY DEF More
<1>11. g \in [S \cup {x} -> Slots] /\ g[x] = p /\ \A y \in S : g[y] = f[y]
  BY <1>9
<1>. HIDE DEF v, g
<1>12. Places(w, a, v, g)
  <2>1. \A y, z \in S \cup {x} : g[y] = g[z] => y = z
    BY <1>1, <1>9, <1>11
  <2>2. \A y \in S \cup {x} : Read(w, a, g[y]) = v[y]
    BY <1>1, <1>8, <1>9, <1>10, <1>11
  <2>3. ASSUME NEW j \in Slots
        PROVE  Read(w, a, j) = Empty \/ \E y \in S \cup {x} : j = g[y]
    BY <1>1, <1>8, <1>11
  <2>. QED BY <1>10, <1>11, <2>1, <2>2, <2>3 DEF Places
<1>13. first = 1 => Read(w, a, h) = Empty
  BY <1>7, <1>8
<1>14. Free(m, a, h, first, field) # {}
  <2>1. ~ \A j \in Slots : Read(m, a, j)[field] # -1 \/ (first = 1 /\ j = h)
    BY <1>4, <1>5
  <2>. QED BY <1>3, <2>1, InsertFacts
<1>. QED BY <1>12, <1>13, <1>14 DEF Holds, v, w

-----------------------------------------------------------------------------
\* The room ZeroMeansNoneWithRoom asks for.
Room ==
  /\ Cardinality(Pairs) <= n
  /\ \A k \in 1 .. 3 : Cardinality(With(k)) < n

\* The edges of a label that the copying has passed, and their home.
Passed(k) == {i \in With(k) : k < phase \/ (k = phase /\ i < iter)}
Home(k) == IF k = 1 THEN toHash(labels[1]) ELSE fromHash(labels[k])

\* An edge of edge1matches, one that it is compared with, and whether they join.
First(c) == Read(mem, 5, c)
Second(c, q) == Read(mem, 4, Probe(fromHash(First(c).toNode), q))
IsPair(c, q) == First(c) # Empty /\ Second(c, q).fromNode = First(c).toNode

\* The pairs that the pairing has passed, and their first edges.
Turned(c, q) ==
  phase > 4 \/ (phase = 4 /\ (c < iter \/ (c = iter /\ q < linear_proberE2M)))
PairsDone == {p \in Slots \X Slots : Turned(p[1], p[2]) /\ IsPair(p[1], p[2])}
FirstsDone == {c \in Slots : \E q \in Slots : Turned(c, q) /\ IsPair(c, q)}

\* The third edges that the closing has passed and that close a pair.
ThirdsDone ==
  {c \in Slots : (phase > 5 \/ (phase = 5 /\ c < iter)) /\ Closes(Read(mem, 3, c))}

\* Each array holds what has been passed, each edge once.
Copied ==
  \A k \in 1 .. 3 :
    /\ Holds(mem, Matches(k), [i \in Passed(k) |-> db[i]])
    /\ phase <= 3 => Read(mem, Matches(k), Home(k)) = Empty

Paired ==
  /\ Holds(mem, 2, [c \in FirstsDone |-> First(c)])
  /\ Holds(mem, 1, [p \in PairsDone |-> Second(p[1], p[2])])
  /\ phase = 4 /\ Edge1 # Empty => (already_inserted <=> iter \in FirstsDone)
  /\ phase # 4 => linear_proberE2M = 0 /\ ~already_inserted

Closed == Holds(mem, 0, [c \in ThirdsDone |-> Read(mem, 3, c)])

Arranged == Room => Copied /\ Paired /\ Closed

\* What does not change with the memory.
LEMMA FrameData ==
  ASSUME db' = db, labels' = labels
  PROVE  /\ \A k : With(k)' = With(k) /\ Home(k)' = Home(k)
         /\ Pairs' = Pairs
         /\ Room' <=> Room
         /\ \A h, q : Probe(h, q)' = Probe(h, q)
         /\ \A x : toHash(x)' = toHash(x) /\ fromHash(x)' = fromHash(x)
<1>1. n' = n /\ Slots' = Slots /\ hashTableSize' = hashTableSize
  BY Frame DEF n
<1>2. \A k : With(k)' = With(k)
  BY <1>1 DEF With
<1>3. Pairs' = Pairs
  BY <1>1 DEF Pairs, With
<1>4. \A x : toHash(x)' = toHash(x) /\ fromHash(x)' = fromHash(x)
  BY <1>1 DEF toHash, fromHash
<1>5. \A h, q : Probe(h, q)' = Probe(h, q)
  BY <1>1 DEF Probe
<1>6. \A k : Home(k)' = Home(k)
  BY <1>1 DEF Home, toHash, fromHash
<1>7. Room' <=> Room
  BY <1>1, <1>2, <1>3 DEF Room
<1>. QED BY <1>2, <1>3, <1>4, <1>5, <1>6, <1>7

\* The slots of an array in the next state.
LEMMA FrameHolds ==
  ASSUME db' = db, labels' = labels
  PROVE  /\ Copied' <=> \A k \in 1 .. 3 :
                          /\ Holds(mem', Matches(k), [i \in Passed(k)' |-> db[i]])
                          /\ phase' <= 3 => Read(mem', Matches(k), Home(k)) = Empty
         /\ Holds(mem, 2, [c \in FirstsDone |-> First(c)])'
              <=> Holds(mem', 2, [c \in FirstsDone' |-> First(c)'])
         /\ Holds(mem, 1, [p \in PairsDone |-> Second(p[1], p[2])])'
              <=> Holds(mem', 1, [p \in PairsDone' |-> Second(p[1], p[2])'])
         /\ Closed' <=> Holds(mem', 0, [c \in ThirdsDone' |-> Read(mem', 3, c)])
<1>1. /\ n' = n /\ Slots' = Slots /\ \A a, i : Read(mem, a, i)' = Read(mem', a, i)
      /\ \A k : Home(k)' = Home(k)
  BY Frame, FrameData
<1>2. Copied' <=> \A k \in 1 .. 3 :
                    /\ Holds(mem', Matches(k), [i \in Passed(k)' |-> db[i]])
                    /\ phase' <= 3 => Read(mem', Matches(k), Home(k)) = Empty
  BY <1>1 DEF Copied, Holds, Places, Matches
<1>3. Holds(mem, 2, [c \in FirstsDone |-> First(c)])'
        <=> Holds(mem', 2, [c \in FirstsDone' |-> First(c)'])
  BY <1>1 DEF Holds, Places
<1>4. Holds(mem, 1, [p \in PairsDone |-> Second(p[1], p[2])])'
        <=> Holds(mem', 1, [p \in PairsDone' |-> Second(p[1], p[2])'])
  BY <1>1 DEF Holds, Places
<1>5. Closed' <=> Holds(mem', 0, [c \in ThirdsDone' |-> Read(mem', 3, c)])
  BY <1>1 DEF Closed, Holds, Places
<1>. QED BY <1>2, <1>3, <1>4, <1>5

\* The edges of a label, and what can be said of them.
LEMMA WithFacts ==
  ASSUME Shape, NEW k \in 1 .. 3
  PROVE  /\ With(k) \in SUBSET Slots /\ IsFiniteSet(With(k)) /\ Cardinality(With(k)) \in Nat
         /\ \A i \in With(k) : db[i] \in Edge
         /\ Passed(k) \in SUBSET With(k)
         /\ phase > 3 => Passed(k) = With(k)
<1>1. db \in Databases /\ labels[k] \in Nat /\ phase \in Nat
  BY LabelFacts DEF Shape
<1>2. With(k) \in SUBSET Slots /\ IsFiniteSet(With(k)) /\ Cardinality(With(k)) \in Nat
  <2>1. With(k) \in SUBSET Slots
    BY DEF With
  <2>. QED BY <1>1, <2>1, SlotFacts, FS_Subset, FS_CardinalityType
<1>3. ASSUME NEW i \in With(k) PROVE db[i] \in Edge
  <2>1. db[i].edgeLabel \in Nat /\ db[i] \in Cells
    BY <1>1, <1>3, SlotFacts DEF With
  <2>. QED BY <2>1, CellFacts DEF Cells
<1>4. Passed(k) \in SUBSET With(k) /\ (phase > 3 => Passed(k) = With(k))
  BY <1>1 DEF Passed
<1>. QED BY <1>2, <1>3, <1>4

\* A turn passes one edge.
LEMMA PassedTurn ==
  ASSUME Shape, phase \in 1 .. 3, Turn, UNCHANGED <<db, labels>>, NEW k \in 1 .. 3
  PROVE  /\ Passed(k)' = Passed(k) \cup (IF k = phase /\ iter \in With(k) THEN {iter} ELSE {})
         /\ iter \notin Passed(phase)
<1>1. /\ n \in Nat /\ n >= 1 /\ Slots = 0 .. n - 1 /\ iter \in Slots /\ With(k) \in SUBSET Slots
  BY SlotFacts, WithFacts DEF Shape
<1>2. Passed(k)' = {i \in With(k) : k < phase' \/ (k = phase' /\ i < iter')}
  BY FrameData DEF Passed
<1>3. \/ phase' = phase /\ iter' = iter + 1
      \/ phase' = phase + 1 /\ iter' = 0 /\ iter = n - 1
  BY TurnFacts
<1>4. ASSUME NEW i \in With(k)
      PROVE  (k < phase' \/ (k = phase' /\ i < iter'))
               <=> (k < phase \/ (k = phase /\ i < iter) \/ (k = phase /\ i = iter))
  <2>1. i \in Int /\ i >= 0 /\ i <= n - 1 /\ iter \in Int
    BY <1>1
  <2>. QED BY <1>1, <1>3, <2>1
<1>5. Passed(k)' = Passed(k) \cup (IF k = phase /\ iter \in With(k) THEN {iter} ELSE {})
  BY <1>2, <1>4 DEF Passed
<1>6. iter \notin Passed(phase)
  BY <1>1 DEF Passed
<1>. QED BY <1>5, <1>6

\* Before the pairing and before the closing there is nothing to hold.
LEMMA NothingYet ==
  ASSUME Shape
  PROVE  /\ phase <= 3 => FirstsDone = {} /\ PairsDone = {}
         /\ phase = 4 /\ iter = 0 /\ linear_proberE2M = 0 => FirstsDone = {} /\ PairsDone = {}
         /\ phase <= 4 \/ (phase = 5 /\ iter = 0) => ThirdsDone = {}
<1>1. phase \in Nat /\ Slots \subseteq Nat
  BY SlotFacts DEF Shape
<1>2. ASSUME phase <= 3 \/ (phase = 4 /\ iter = 0 /\ linear_proberE2M = 0)
      PROVE  \A c, q \in Slots : ~Turned(c, q)
  BY <1>1, <1>2 DEF Turned
<1>3. (\A c, q \in Slots : ~Turned(c, q)) => FirstsDone = {} /\ PairsDone = {}
  BY DEF FirstsDone, PairsDone
<1>4. ASSUME phase <= 4 \/ (phase = 5 /\ iter = 0)
      PROVE  ThirdsDone = {}
  <2>1. \A c \in Slots : ~(phase > 5 \/ (phase = 5 /\ c < iter))
    BY <1>1, <1>4
  <2>. QED BY <2>1 DEF ThirdsDone
<1>. QED BY <1>2, <1>3, <1>4

\* The arrays are arranged in the beginning.
LEMMA InitArranged ==
  Init => Copied /\ Paired /\ Closed
<1>. SUFFICES ASSUME Init PROVE Copied /\ Paired /\ Closed
  OBVIOUS
<1>1. Shape /\ phase = 1 /\ iter = 0 /\ linear_proberE2M = 0 /\ ~already_inserted
  BY InitShape DEF Init
<1>2. \A a \in Arrays, j \in Slots : Read(mem, a, j) = Empty
  BY InitFree
<1>3. FirstsDone = {} /\ PairsDone = {} /\ ThirdsDone = {}
  BY <1>1, NothingYet
<1>4. ASSUME NEW k \in 1 .. 3
      PROVE  /\ Holds(mem, Matches(k), [i \in Passed(k) |-> db[i]])
             /\ Read(mem, Matches(k), Home(k)) = Empty
  <2>1. Passed(k) = {}
    <3>1. With(k) \subseteq Nat
      BY <1>1, WithFacts, SlotFacts DEF Shape
    <3>. QED BY <1>1, <3>1 DEF Passed
  <2>2. Home(k) \in Slots
    BY <1>1, LabelFacts, HashFacts DEF Home, Shape
  <2>. QED BY <1>2, <2>1, <2>2, ArrayFacts, HoldsNothing
<1>5. /\ Holds(mem, 2, [c \in FirstsDone |-> First(c)])
      /\ Holds(mem, 1, [p \in PairsDone |-> Second(p[1], p[2])])
      /\ Holds(mem, 0, [c \in ThirdsDone |-> Read(mem, 3, c)])
  BY <1>2, <1>3, HoldsNothing, ArrayFacts
<1>. QED BY <1>1, <1>4, <1>5 DEF Copied, Paired, Closed

\* Copying an edge leaves the arrays arranged.
LEMMA CopyKeeps ==
  ASSUME Shape, Room, Copied, Paired, Closed, Copy, Shape'
  PROVE  (Copied /\ Paired /\ Closed)'
<1>1. /\ db \in Databases /\ mem \in [Memory -> Int]
      /\ db' = db /\ labels' = labels /\ phase \in 1 .. 3 /\ Turn
      /\ linear_proberE2M' = linear_proberE2M /\ already_inserted' = already_inserted
      /\ iter \in Slots
      /\ \A b \in Arrays, j \in Slots : b # Matches(phase) => Read(mem', b, j) = Read(mem, b, j)
  BY CopyFacts DEF Shape
<1>2. ASSUME NEW k \in 1 .. 3
      PROVE  /\ Holds(mem', Matches(k), [i \in Passed(k)' |-> db[i]])
             /\ phase' <= 3 => Read(mem', Matches(k), Home(k)) = Empty
  <2>. DEFINE val == [i \in Passed(k) |-> db[i]]
              new == [i \in Passed(k)' |-> db[i]]
  <2>1. /\ Holds(mem, Matches(k), val)
        /\ Read(mem, Matches(k), Home(k)) = Empty
    BY <1>1 DEF Copied
  <2>2. /\ Passed(k)' = Passed(k) \cup (IF k = phase /\ iter \in With(k) THEN {iter} ELSE {})
        /\ iter \notin Passed(phase)
    BY <1>1, PassedTurn
  <2>3. Home(k) \in Slots /\ Matches(k) \in Arrays
    BY LabelFacts, HashFacts, ArrayFacts DEF Home, Shape
  <2>4. CASE k # phase
    <3>1. Matches(k) # Matches(phase)
      BY <1>1, <2>4 DEF Matches
    <3>2. \A j \in Slots : Read(mem', Matches(k), j) = Read(mem, Matches(k), j)
      BY <1>1, <2>3, <3>1
    <3>3. DOMAIN new = DOMAIN val /\ \A i \in DOMAIN val : new[i] = val[i]
      BY <2>2, <2>4
    <3>. HIDE DEF val, new
    <3>4. Holds(mem', Matches(k), new)
      BY <2>1, <3>2, <3>3, HoldsFrame
    <3>. QED BY <2>1, <2>3, <3>2, <3>4 DEF new
  <2>5. CASE k = phase /\ iter \notin With(k)
    <3>1. mem' = mem
      BY <1>1, <2>5, CopyFacts, SlotFacts DEF With
    <3>2. DOMAIN new = DOMAIN val /\ \A i \in DOMAIN val : new[i] = val[i]
      BY <2>2, <2>5
    <3>. HIDE DEF val, new
    <3>3. Holds(mem', Matches(k), new)
      BY <2>1, <3>1, <3>2, HoldsFrame
    <3>. QED BY <2>1, <3>1, <3>3 DEF new
  <2>6. CASE k = phase /\ iter \in With(k)
    <3>1. /\ db[iter].edgeLabel = labels[phase] /\ db[iter] \in Edge
          /\ mem' = Insert(mem, Matches(k), Home(k), 1, "edgeLabel", db[iter])
      BY <1>1, <2>6, CopyFacts DEF With, Home
    <3>2. Cardinality(Passed(k)) < n - 1
      <4>1. /\ IsFiniteSet(With(k)) /\ Cardinality(With(k)) < n /\ n \in Nat
            /\ Cardinality(With(k)) \in Nat
        BY WithFacts, SlotFacts DEF Room, Shape
      <4>2. Passed(k) \in SUBSET (With(k) \ {iter})
        BY <2>2, <2>6, WithFacts
      <4>3. /\ Cardinality(With(k) \ {iter}) = Cardinality(With(k)) - 1
            /\ IsFiniteSet(With(k) \ {iter})
        BY <2>6, <4>1, FS_RemoveElement
      <4>4. /\ Cardinality(Passed(k)) <= Cardinality(With(k) \ {iter})
            /\ Cardinality(Passed(k)) \in Nat
        BY <4>2, <4>3, FS_Subset, FS_CardinalityType
      <4>. QED BY <4>1, <4>3, <4>4
    <3>3. val \in [Passed(k) -> Edge]
      BY WithFacts
    <3>4. iter \notin Passed(k)
      BY <2>2, <2>6
    <3>5. /\ DOMAIN new = DOMAIN More(val, iter, db[iter])
          /\ \A i \in DOMAIN new : new[i] = More(val, iter, db[iter])[i]
      BY <2>2, <2>6 DEF More
    <3>. HIDE DEF val, new
    <3>6. /\ Holds(mem', Matches(k), More(val, iter, db[iter]))
          /\ Read(mem', Matches(k), Home(k)) = Empty
      BY <1>1, <2>1, <2>3, <3>1, <3>2, <3>3, <3>4, HoldsInsert
    <3>7. Holds(mem', Matches(k), new)
      BY <3>5, <3>6, HoldsFrame
    <3>. QED BY <3>6, <3>7 DEF new
  <2>. QED BY <2>4, <2>5, <2>6
<1>3. Copied'
  BY <1>1, <1>2, FrameHolds
<1>4. phase' <= 3 \/ (phase' = 4 /\ iter' = 0 /\ linear_proberE2M' = 0)
  BY <1>1, TurnFacts DEF Paired
<1>5. /\ FirstsDone = {} /\ PairsDone = {} /\ ThirdsDone = {}
  BY <1>1, NothingYet
<1>6. /\ FirstsDone' = {} /\ PairsDone' = {} /\ ThirdsDone' = {}
  <2>1. (/\ phase <= 3 => FirstsDone = {} /\ PairsDone = {}
         /\ phase = 4 /\ iter = 0 /\ linear_proberE2M = 0 => FirstsDone = {} /\ PairsDone = {}
         /\ phase <= 4 \/ (phase = 5 /\ iter = 0) => ThirdsDone = {})'
    BY NothingYet, PTL
  <2>2. phase' \in Nat
    BY DEF Shape
  <2>. QED BY <1>4, <2>1, <2>2
<1>7. \A a \in 0 .. 2, j \in Slots : Read(mem', a, j) = Read(mem, a, j)
  BY <1>1, ArrayFacts
<1>8. /\ Holds(mem', 2, [c \in FirstsDone' |-> First(c)'])
      /\ Holds(mem', 1, [p \in PairsDone' |-> Second(p[1], p[2])'])
      /\ Holds(mem', 0, [c \in ThirdsDone' |-> Read(mem', 3, c)])
  <2>1. /\ Holds(mem, 2, [c \in FirstsDone |-> First(c)])
        /\ Holds(mem, 1, [p \in PairsDone |-> Second(p[1], p[2])])
        /\ Holds(mem, 0, [c \in ThirdsDone |-> Read(mem, 3, c)])
    BY DEF Paired, Closed
  <2>. QED BY <1>5, <1>6, <1>7, <2>1, HoldsFrame
<1>9. /\ phase # 4 /\ linear_proberE2M = 0 /\ ~already_inserted
  BY <1>1 DEF Paired
<1>10. Paired'
  BY <1>1, <1>6, <1>8, <1>9, FrameHolds DEF Paired
<1>11. Closed'
  BY <1>1, <1>8, FrameHolds
<1>. QED BY <1>3, <1>10, <1>11

\* Two sets whose elements correspond to one another one by one.
LEMMA Correspondence ==
  ASSUME NEW S, NEW T, NEW R, IsFiniteSet(T),
         \A x \in S : \E y \in T : <<x, y>> \in R,
         \A y \in T : \E x \in S : <<x, y>> \in R,
         \A x \in S, z \in S, y \in T : <<x, y>> \in R /\ <<z, y>> \in R => x = z,
         \A x \in S, y \in T, z \in T : <<x, y>> \in R /\ <<x, z>> \in R => y = z
  PROVE  IsFiniteSet(S) /\ Cardinality(S) = Cardinality(T)
<1>. DEFINE f == [x \in S |-> CHOOSE y \in T : <<x, y>> \in R]
<1>1. \A x \in S : f[x] \in T /\ <<x, f[x]>> \in R
  OBVIOUS
<1>. HIDE DEF f
<1>2. IsFiniteSet(S) /\ Cardinality(S) <= Cardinality(T)
  BY <1>1, InjectionCount
<1>3. Cardinality(T) <= Cardinality(S)
  <2>1. \A y \in T : \E x \in S : f[x] = y
    BY <1>1
  <2>. QED BY <1>2, <2>1, ImageCount
<1>. QED BY <1>2, <1>3, FS_CardinalityType

\* After the copying each array of matches holds all edges of its label.
LEMMA MatchesFacts ==
  ASSUME Shape, Copied, phase > 3, NEW k \in 1 .. 3
  PROVE  \E f : /\ f \in [With(k) -> Slots]
                /\ \A i, j \in With(k) : f[i] = f[j] => i = j
                /\ \A i \in With(k) : Read(mem, Matches(k), f[i]) = db[i]
                /\ \A j \in Slots : \/ Read(mem, Matches(k), j) = Empty
                                    \/ \E i \in With(k) : j = f[i]
<1>1. Passed(k) = With(k)
  BY WithFacts
<1>2. Holds(mem, Matches(k), [i \in With(k) |-> db[i]])
  BY <1>1 DEF Copied
<1>. QED BY <1>2 DEF Holds, Places

\* All pairs that the pairing finds in the arrays.
AllPairs == {p \in Slots \X Slots : IsPair(p[1], p[2])}

\* What a pair consists of.
LEMMA IsPairFacts ==
  ASSUME Shape, NEW c \in Slots, NEW q \in Slots, IsPair(c, q)
  PROVE  /\ First(c) \in Edge /\ Second(c, q) \in Edge
         /\ fromHash(First(c).toNode) \in Slots
         /\ Probe(fromHash(First(c).toNode), q) \in Slots
<1>1. db \in Databases /\ First(c) \in Edge /\ Second(c, q).fromNode = First(c).toNode
  BY CellFacts DEF Shape, IsPair, First, Cells
<1>2. First(c).toNode \in Nat
  BY <1>1, CellFacts
<1>3. fromHash(First(c).toNode) \in Slots /\ Probe(fromHash(First(c).toNode), q) \in Slots
  BY <1>1, <1>2, HashFacts
<1>4. Second(c, q) \in Cells /\ Second(c, q) # Empty
  BY <1>1, <1>2, <1>3, CellFacts DEF Shape, Second
<1>. QED BY <1>1, <1>3, <1>4 DEF Cells

\* The pairs found are those of the table: a probe sequence from the home of the
\* node meets each second edge once.
LEMMA PairsCount ==
  ASSUME Shape, Copied, phase > 3
  PROVE  /\ IsFiniteSet(AllPairs) /\ Cardinality(AllPairs) = Cardinality(Pairs)
         /\ IsFiniteSet(Pairs)
         /\ \A p \in AllPairs : \E t \in Pairs :
              First(p[1]) = db[t[1]] /\ Second(p[1], p[2]) = db[t[2]]
         /\ \A t \in Pairs : \E p \in AllPairs :
              First(p[1]) = db[t[1]] /\ Second(p[1], p[2]) = db[t[2]]
<1>. DEFINE P(c, q) == Probe(fromHash(First(c).toNode), q)
<1>1. db \in Databases /\ 1 \in 1 .. 3 /\ 2 \in 1 .. 3 /\ Matches(1) = 5 /\ Matches(2) = 4
  BY ArrayFacts DEF Shape
<1>2. PICK f1 : /\ f1 \in [With(1) -> Slots]
                /\ \A i, j \in With(1) : f1[i] = f1[j] => i = j
                /\ \A i \in With(1) : Read(mem, 5, f1[i]) = db[i]
                /\ \A j \in Slots : Read(mem, 5, j) = Empty \/ \E i \in With(1) : j = f1[i]
  BY <1>1, MatchesFacts
<1>3. PICK f2 : /\ f2 \in [With(2) -> Slots]
                /\ \A i, j \in With(2) : f2[i] = f2[j] => i = j
                /\ \A i \in With(2) : Read(mem, 4, f2[i]) = db[i]
                /\ \A j \in Slots : Read(mem, 4, j) = Empty \/ \E i \in With(2) : j = f2[i]
  BY <1>1, MatchesFacts
<1>. DEFINE R == {r \in AllPairs \X Pairs : /\ f1[r[2][1]] = r[1][1]
                                            /\ f2[r[2][2]] = P(r[1][1], r[1][2])}
<1>4. ASSUME NEW p \in AllPairs
      PROVE  \E t \in Pairs : /\ First(p[1]) = db[t[1]] /\ Second(p[1], p[2]) = db[t[2]]
                              /\ <<p, t>> \in R
  <2>1. p[1] \in Slots /\ p[2] \in Slots /\ IsPair(p[1], p[2])
    BY DEF AllPairs
  <2>2. /\ First(p[1]) \in Edge /\ Second(p[1], p[2]) \in Edge /\ P(p[1], p[2]) \in Slots
        /\ Second(p[1], p[2]).fromNode = First(p[1]).toNode
    BY <2>1, IsPairFacts DEF IsPair
  <2>3. PICK i \in With(1) : p[1] = f1[i] /\ First(p[1]) = db[i]
    BY <1>2, <2>1, <2>2, CellFacts DEF First
  <2>4. PICK j \in With(2) : P(p[1], p[2]) = f2[j] /\ Second(p[1], p[2]) = db[j]
    BY <1>3, <2>1, <2>2, CellFacts DEF Second
  <2>5. <<i, j>> \in Pairs
    BY <2>2, <2>3, <2>4 DEF Pairs
  <2>. QED BY <2>3, <2>4, <2>5
<1>5. ASSUME NEW t \in Pairs
      PROVE  \E p \in AllPairs : /\ First(p[1]) = db[t[1]] /\ Second(p[1], p[2]) = db[t[2]]
                                 /\ <<p, t>> \in R
  <2>1. t[1] \in With(1) /\ t[2] \in With(2) /\ db[t[1]].toNode = db[t[2]].fromNode
    BY DEF Pairs
  <2>2. db[t[1]] \in Edge
    BY <1>1, <2>1, WithFacts
  <2>. DEFINE c == f1[t[1]]
  <2>3. c \in Slots /\ First(c) = db[t[1]] /\ f2[t[2]] \in Slots
    BY <1>2, <1>3, <2>1 DEF First
  <2>4. fromHash(First(c).toNode) \in Slots
    <3>1. db[t[1]].toNode \in Nat
      BY <2>2, CellFacts
    <3>. QED BY <1>1, <2>3, <3>1, HashFacts
  <2>. HIDE DEF c
  <2>5. PICK q \in Slots : P(c, q) = f2[t[2]]
    <3>1. \A h \in Slots, j \in Slots : \E q \in Slots : Probe(h, q) = j
      BY <1>1, ProbeFacts
    <3>. QED BY <2>3, <2>4, <3>1
  <2>6. Second(c, q) = db[t[2]]
    BY <1>3, <2>1, <2>5 DEF Second
  <2>7. IsPair(c, q)
    BY <2>1, <2>2, <2>3, <2>6, CellFacts DEF IsPair
  <2>8. <<c, q>> \in AllPairs
    BY <2>3, <2>7 DEF AllPairs
  <2>. QED BY <2>3, <2>5, <2>6, <2>8 DEF c
<1>6. ASSUME NEW p \in AllPairs, NEW r \in AllPairs, NEW t \in Pairs, <<p, t>> \in R, <<r, t>> \in R
      PROVE  p = r
  <2>1. /\ p[1] = r[1] /\ P(p[1], p[2]) = P(p[1], r[2])
        /\ p = <<p[1], p[2]>> /\ r = <<r[1], r[2]>>
    BY <1>6 DEF AllPairs
  <2>2. fromHash(First(p[1]).toNode) \in Slots /\ p[2] \in Slots /\ r[2] \in Slots
    BY IsPairFacts DEF AllPairs
  <2>3. p[2] = r[2]
    BY <1>1, <2>1, <2>2, ProbeFacts
  <2>. QED BY <2>1, <2>3
<1>7. ASSUME NEW p \in AllPairs, NEW t \in Pairs, NEW u \in Pairs, <<p, t>> \in R, <<p, u>> \in R
      PROVE  t = u
  <2>1. f1[t[1]] = f1[u[1]] /\ f2[t[2]] = f2[u[2]]
    BY <1>7
  <2>2. /\ t = <<t[1], t[2]>> /\ u = <<u[1], u[2]>>
        /\ t[1] \in With(1) /\ u[1] \in With(1) /\ t[2] \in With(2) /\ u[2] \in With(2)
    BY DEF Pairs
  <2>. QED BY <1>2, <1>3, <2>1, <2>2
<1>8. IsFiniteSet(Pairs)
  <2>1. IsFiniteSet(With(1) \X With(2))
    BY <1>1, WithFacts, FS_Product
  <2>. QED BY <2>1, FS_Subset DEF Pairs
<1>. HIDE DEF R
<1>9. IsFiniteSet(AllPairs) /\ Cardinality(AllPairs) = Cardinality(Pairs)
  <2>1. /\ \A p \in AllPairs : \E t \in Pairs : <<p, t>> \in R
        /\ \A t \in Pairs : \E p \in AllPairs : <<p, t>> \in R
    BY <1>4, <1>5
  <2>2. \A p \in AllPairs, r \in AllPairs, t \in Pairs : <<p, t>> \in R /\ <<r, t>> \in R => p = r
    BY <1>6
  <2>3. \A p \in AllPairs, t \in Pairs, u \in Pairs : <<p, t>> \in R /\ <<p, u>> \in R => t = u
    BY <1>7
  <2>. QED BY <1>8, <2>1, <2>2, <2>3, Correspondence
<1>. QED BY <1>4, <1>5, <1>8, <1>9

\* There are fewer edges of a label than slots.
LEMMA MatchesCount ==
  ASSUME Shape, Copied, phase > 3, Room, NEW k \in 1 .. 3,
         NEW S, S \subseteq {j \in Slots : Read(mem, Matches(k), j) # Empty}
  PROVE  IsFiniteSet(S) /\ Cardinality(S) < n
<1>1. PICK f : \A j \in Slots : \/ Read(mem, Matches(k), j) = Empty
                                \/ \E i \in With(k) : j = f[i]
  BY MatchesFacts
<1>2. IsFiniteSet(With(k)) /\ Cardinality(With(k)) < n /\ Cardinality(With(k)) \in Nat /\ n \in Nat
  BY WithFacts, SlotFacts DEF Room, Shape
<1>3. \A j \in S : \E i \in With(k) : f[i] = j
  BY <1>1
<1>4. IsFiniteSet(S) /\ Cardinality(S) <= Cardinality(With(k))
  BY <1>2, <1>3, ImageCount
<1>. QED BY <1>2, <1>4, FS_CardinalityType

\* What is paired does not change when the matches do not.
LEMMA FramePairs ==
  ASSUME Shape, UNCHANGED <<db, labels>>,
         \A a \in 3 .. 5, j \in Slots : Read(mem', a, j) = Read(mem, a, j),
         NEW c \in Slots, NEW q \in Slots
  PROVE  /\ First(c)' = First(c)
         /\ IsPair(c, q)' <=> IsPair(c, q)
         /\ IsPair(c, q) => Second(c, q)' = Second(c, q)
<1>1. \A a, i : Read(mem, a, i)' = Read(mem', a, i)
  BY Frame
<1>2. First(c)' = First(c)
  BY <1>1 DEF First
<1>3. Second(c, q)' = Read(mem', 4, Probe(fromHash(First(c).toNode), q))
  <2>1. Second(c, q)' = Read(mem', 4, Probe(fromHash(First(c)'.toNode), q))
    BY <1>1, Frame DEF Second, Probe, fromHash, n
  <2>. QED BY <1>2, <2>1
<1>4. CASE First(c) = Empty
  BY <1>2, <1>4 DEF IsPair
<1>5. CASE First(c) # Empty
  <2>1. First(c) \in Edge /\ db \in Databases
    BY <1>5 DEF Shape, First, Cells
  <2>2. First(c).toNode \in Nat
    BY <2>1, CellFacts
  <2>3. Probe(fromHash(First(c).toNode), q) \in Slots
    BY <2>1, <2>2, HashFacts
  <2>4. Second(c, q)' = Second(c, q)
    BY <1>3, <2>3 DEF Second
  <2>. QED BY <1>2, <2>4 DEF IsPair
<1>. QED BY <1>2, <1>4, <1>5

\* A turn of the inner loop passes one pair.
LEMMA TurnedTurn ==
  ASSUME Shape, Pair, NEW c \in Slots, NEW q \in Slots
  PROVE  /\ Turned(c, q)' <=> Turned(c, q) \/ (c = iter /\ q = linear_proberE2M)
         /\ ~Turned(iter, linear_proberE2M)
         /\ Turned(c, q) => c <= iter
<1>1. /\ n \in Nat /\ n >= 1 /\ Slots = 0 .. n - 1 /\ iter \in Slots /\ linear_proberE2M \in Slots
      /\ hashTableSize = n /\ phase = 4
  BY SlotFacts DEF Shape, n, Pair
<1>2. /\ c \in Int /\ c >= 0 /\ c <= n - 1 /\ q \in Int /\ q >= 0 /\ q <= n - 1
      /\ iter \in Int /\ linear_proberE2M \in Int
  BY <1>1
<1>3. CASE /\ linear_proberE2M + 1 < hashTableSize
           /\ linear_proberE2M' = linear_proberE2M + 1
           /\ UNCHANGED <<phase, iter>>
  BY <1>1, <1>2, <1>3 DEF Turned
<1>4. CASE /\ linear_proberE2M + 1 = hashTableSize
           /\ linear_proberE2M' = 0 /\ Turn
  <2>1. \/ phase' = phase /\ iter' = iter + 1
        \/ phase' = phase + 1 /\ iter' = 0 /\ iter = n - 1
    BY <1>4, TurnFacts
  <2>2. CASE phase' = phase /\ iter' = iter + 1
    BY <1>1, <1>2, <1>4, <2>2 DEF Turned
  <2>3. CASE phase' = phase + 1 /\ iter = n - 1
    BY <1>1, <1>2, <1>4, <2>3 DEF Turned
  <2>. QED BY <2>1, <2>2, <2>3
<1>. QED BY <1>3, <1>4 DEF Pair

\* What the pairing has passed after a turn.
LEMMA DoneTurn ==
  ASSUME Unpadded(Databases), Shape, AllCells, Pair
  PROVE  /\ UNCHANGED <<db, labels>>
         /\ \A a \in 3 .. 5, j \in Slots : Read(mem', a, j) = Read(mem, a, j)
         /\ IsPair(iter, linear_proberE2M) <=> Edge1 # Empty /\ Joins
         /\ PairsDone' = PairsDone \cup (IF Edge1 # Empty /\ Joins
                                         THEN {<<iter, linear_proberE2M>>} ELSE {})
         /\ FirstsDone' = FirstsDone \cup (IF Edge1 # Empty /\ Joins THEN {iter} ELSE {})
         /\ <<iter, linear_proberE2M>> \notin PairsDone
         /\ \A c \in FirstsDone : c <= iter
<1>1. /\ phase = 4 /\ UNCHANGED <<db, labels>> /\ iter \in Slots /\ linear_proberE2M \in Slots
      /\ mem' = IF Joins THEN WithPair ELSE mem
  BY DEF Pair, Shape
<1>2. \A a \in 3 .. 5, j \in Slots : Read(mem', a, j) = Read(mem, a, j)
  BY <1>1, PairFacts
<1>3. IsPair(iter, linear_proberE2M) <=> Edge1 # Empty /\ Joins
  BY ArrayFacts DEF IsPair, First, Second, Edge1, Edge2, Joins
<1>4. ASSUME NEW c \in Slots, NEW q \in Slots
      PROVE  /\ Turned(c, q)' /\ IsPair(c, q)'
                  <=> \/ Turned(c, q) /\ IsPair(c, q)
                      \/ c = iter /\ q = linear_proberE2M /\ Edge1 # Empty /\ Joins
  <2>1. IsPair(c, q)' <=> IsPair(c, q)
    BY <1>1, <1>2, FramePairs
  <2>2. Turned(c, q)' <=> Turned(c, q) \/ (c = iter /\ q = linear_proberE2M)
    BY TurnedTurn
  <2>. QED BY <1>3, <2>1, <2>2
<1>5. Slots' = Slots
  BY <1>1, Frame
<1>6. PairsDone' = PairsDone \cup (IF Edge1 # Empty /\ Joins
                                   THEN {<<iter, linear_proberE2M>>} ELSE {})
  <2>1. PairsDone' = {p \in Slots \X Slots : Turned(p[1], p[2])' /\ IsPair(p[1], p[2])'}
    BY <1>5 DEF PairsDone
  <2>2. ASSUME NEW p \in Slots \X Slots
        PROVE  Turned(p[1], p[2])' /\ IsPair(p[1], p[2])'
                  <=> \/ Turned(p[1], p[2]) /\ IsPair(p[1], p[2])
                      \/ p = <<iter, linear_proberE2M>> /\ Edge1 # Empty /\ Joins
    BY <1>4
  <2>. QED BY <1>1, <2>1, <2>2 DEF PairsDone
<1>7. FirstsDone' = FirstsDone \cup (IF Edge1 # Empty /\ Joins THEN {iter} ELSE {})
  <2>1. FirstsDone' = {c \in Slots : \E q \in Slots : Turned(c, q)' /\ IsPair(c, q)'}
    BY <1>5 DEF FirstsDone
  <2>. QED BY <1>1, <1>4, <2>1 DEF FirstsDone
<1>8. <<iter, linear_proberE2M>> \notin PairsDone /\ \A c \in FirstsDone : c <= iter
  BY <1>1, TurnedTurn DEF PairsDone, FirstsDone
<1>. QED BY <1>1, <1>2, <1>3, <1>6, <1>7, <1>8

\* A pair that is found is put into valids2, and its first edge into valids1
\* unless it is there; there is room for both.
LEMMA JoinedTurn ==
  ASSUME Unpadded(Databases), Shape, AllCells, Room, Copied, Paired, Pair, Edge1 # Empty, Joins
  PROVE  /\ already_inserted \/ HasRoom1
         /\ Holds(WithPair, 2, [c \in FirstsDone \cup {iter} |-> First(c)])
         /\ Holds(WithPair, 1, [p \in PairsDone \cup {<<iter, linear_proberE2M>>} |->
                                  Second(p[1], p[2])])
<1>. DEFINE pair == <<iter, linear_proberE2M>>
            firsts == [c \in FirstsDone |-> First(c)]
            pairs == [p \in PairsDone |-> Second(p[1], p[2])]
<1>1. /\ phase = 4 /\ iter \in Slots /\ linear_proberE2M \in Slots /\ db \in Databases
      /\ mem \in [Memory -> Int]
  BY DEF Pair, Shape
<1>2. /\ IsPair(iter, linear_proberE2M) /\ pair \notin PairsDone
      /\ First(iter) = Edge1 /\ Second(iter, linear_proberE2M) = Edge2
  BY <1>1, DoneTurn, ArrayFacts DEF First, Second, Edge1, Edge2
<1>3. /\ Edge1 \in Edge /\ Edge2 \in Edge /\ toHash(Edge1.toNode) \in Slots
      /\ fromHash(Edge1.fromNode) \in Slots /\ WithFirst \in [Memory -> Int]
  BY <1>1, <1>2, IsPairFacts, PairFacts
<1>4. /\ firsts \in [FirstsDone -> Edge] /\ pairs \in [PairsDone -> Edge]
      /\ Holds(mem, 2, firsts) /\ Holds(mem, 1, pairs)
      /\ already_inserted <=> iter \in FirstsDone
  <2>1. \A c \in FirstsDone : First(c) \in Edge
    BY IsPairFacts DEF FirstsDone
  <2>2. \A p \in PairsDone : Second(p[1], p[2]) \in Edge
    BY IsPairFacts DEF PairsDone
  <2>. QED BY <1>1, <2>1, <2>2 DEF Paired
<1>5. IsFiniteSet(FirstsDone) /\ Cardinality(FirstsDone) < n
  <2>1. FirstsDone \subseteq {j \in Slots : Read(mem, Matches(1), j) # Empty}
    BY ArrayFacts DEF FirstsDone, IsPair, First
  <2>. QED BY <1>1, <2>1, MatchesCount
<1>6. IsFiniteSet(PairsDone) /\ Cardinality(PairsDone) < n
  <2>1. PairsDone \cup {pair} \subseteq AllPairs
    BY <1>1, <1>2 DEF PairsDone, AllPairs
  <2>2. /\ IsFiniteSet(AllPairs) /\ Cardinality(AllPairs) = Cardinality(Pairs)
        /\ Cardinality(Pairs) <= n /\ n \in Nat
    BY <1>1, PairsCount, SlotFacts DEF Room
  <2>3. IsFiniteSet(PairsDone) /\ PairsDone \subseteq AllPairs
    BY <2>1, <2>2, FS_Subset
  <2>4. Cardinality(PairsDone \cup {pair}) = Cardinality(PairsDone) + 1
    BY <1>2, <2>3, FS_AddElement
  <2>5. Cardinality(PairsDone \cup {pair}) <= Cardinality(AllPairs)
    BY <2>1, <2>2, FS_Subset
  <2>6. Cardinality(PairsDone) \in Nat /\ Cardinality(AllPairs) \in Nat
    BY <2>2, <2>3, FS_CardinalityType
  <2>. QED BY <2>2, <2>3, <2>4, <2>5, <2>6
<1>. HIDE DEF pair
<1>7. /\ already_inserted \/ HasRoom1
      /\ Holds(WithFirst, 2, [c \in FirstsDone \cup {iter} |-> First(c)])
  <2>. DEFINE new == [c \in FirstsDone \cup {iter} |-> First(c)]
  <2>1. CASE already_inserted
    <3>1. WithFirst = mem
      BY <2>1 DEF WithFirst
    <3>2. DOMAIN new = DOMAIN firsts /\ \A c \in DOMAIN firsts : new[c] = firsts[c]
      BY <1>4, <2>1
    <3>. HIDE DEF new, firsts
    <3>3. Holds(WithFirst, 2, new)
      BY <1>4, <3>1, <3>2, HoldsFrame
    <3>. QED BY <2>1, <3>3 DEF new
  <2>2. CASE ~already_inserted
    <3>1. WithFirst = Insert(mem, 2, toHash(Edge1.toNode), 0, "edgeLabel", Edge1)
      BY <2>2, ArrayFacts DEF WithFirst
    <3>2. iter \notin FirstsDone
      BY <1>4, <2>2
    <3>3. /\ DOMAIN new = DOMAIN More(firsts, iter, Edge1)
          /\ \A c \in DOMAIN new : new[c] = More(firsts, iter, Edge1)[c]
      BY <1>2 DEF More
    <3>. HIDE DEF new, firsts
    <3>4. Cardinality(FirstsDone) < n - 0
      BY <1>1, <1>5, SlotFacts
    <3>5. /\ Free(mem, 2, toHash(Edge1.toNode), 0, "edgeLabel") # {}
          /\ Holds(Insert(mem, 2, toHash(Edge1.toNode), 0, "edgeLabel", Edge1), 2,
                   More(firsts, iter, Edge1))
      BY <1>1, <1>3, <1>4, <3>2, <3>4, HoldsInsert, ArrayFacts
    <3>6. HasRoom1
      BY <3>5, ArrayFacts DEF HasRoom1
    <3>7. Holds(WithFirst, 2, new)
      BY <3>1, <3>3, <3>5, HoldsFrame
    <3>. QED BY <3>6, <3>7 DEF new
  <2>. QED BY <2>1, <2>2
<1>8. /\ \A j \in Slots : Read(WithFirst, 1, j) = Read(mem, 1, j)
      /\ \A j \in Slots : Read(WithPair, 2, j) = Read(WithFirst, 2, j)
  BY <1>1, UsedSlotTurn, ArrayFacts
<1>9. Holds(WithPair, 2, [c \in FirstsDone \cup {iter} |-> First(c)])
  BY <1>7, <1>8, HoldsFrame
<1>10. Holds(WithPair, 1, [p \in PairsDone \cup {pair} |-> Second(p[1], p[2])])
  <2>. DEFINE new == [p \in PairsDone \cup {pair} |-> Second(p[1], p[2])]
  <2>1. WithPair = Insert(WithFirst, 1, fromHash(Edge1.fromNode), 0, "edgeLabel", Edge2)
    BY ArrayFacts DEF WithPair
  <2>2. Second(pair[1], pair[2]) = Edge2
    BY <1>2 DEF pair
  <2>3. /\ DOMAIN new = DOMAIN More(pairs, pair, Edge2)
        /\ \A p \in DOMAIN new : new[p] = More(pairs, pair, Edge2)[p]
    BY <2>2 DEF More
  <2>4. Holds(WithFirst, 1, pairs)
    <3>. HIDE DEF pairs
    <3>. QED BY <1>4, <1>8, HoldsFrame
  <2>. HIDE DEF new, pairs
  <2>5. Cardinality(PairsDone) < n - 0
    BY <1>1, <1>6, SlotFacts
  <2>6. Holds(Insert(WithFirst, 1, fromHash(Edge1.fromNode), 0, "edgeLabel", Edge2), 1,
              More(pairs, pair, Edge2))
    BY <1>1, <1>2, <1>3, <1>4, <2>4, <2>5, HoldsInsert, ArrayFacts
  <2>7. Holds(WithPair, 1, new)
    BY <2>1, <2>3, <2>6, HoldsFrame
  <2>. QED BY <2>7 DEF new
<1>. QED BY <1>7, <1>9, <1>10 DEF pair

\* A turn of the pairing leaves the arrays arranged.
LEMMA PairKeeps ==
  ASSUME Unpadded(Databases), Shape, AllCells, Room, Copied, Paired, Closed, Pair, Shape'
  PROVE  (Copied /\ Paired /\ Closed)'
<1>1. /\ phase = 4 /\ UNCHANGED <<db, labels>> /\ iter \in Slots /\ linear_proberE2M \in Slots
      /\ mem' = IF Joins THEN WithPair ELSE mem
      /\ db \in Databases
  BY DEF Pair, Shape
<1>2. \/ /\ linear_proberE2M + 1 < hashTableSize
         /\ linear_proberE2M' = linear_proberE2M + 1
         /\ already_inserted' = (already_inserted \/ (Joins /\ HasRoom1))
         /\ phase' = 4 /\ iter' = iter
      \/ /\ linear_proberE2M' = 0 /\ already_inserted' = FALSE
         /\ \/ phase' = 4 /\ iter' = iter + 1
            \/ phase' = 5 /\ iter' = 0
  <2>1. CASE /\ linear_proberE2M + 1 < hashTableSize
             /\ linear_proberE2M' = linear_proberE2M + 1
             /\ already_inserted' = (already_inserted \/ (Joins /\ HasRoom1))
             /\ UNCHANGED <<phase, iter>>
    BY <1>1, <2>1
  <2>2. CASE linear_proberE2M' = 0 /\ already_inserted' = FALSE /\ Turn
    BY <1>1, <2>2, TurnFacts
  <2>. QED BY <2>1, <2>2 DEF Pair
<1>3. Copied'
  <2>1. ASSUME NEW k \in 1 .. 3
        PROVE  Holds(mem', Matches(k), [i \in Passed(k)' |-> db[i]])
    <3>1. Passed(k) = With(k)
      BY <1>1, WithFacts
    <3>2. Passed(k)' = With(k)
      <4>1. Passed(k)' = {i \in With(k) : k < phase' \/ (k = phase' /\ i < iter')}
        BY <1>1, FrameData DEF Passed
      <4>2. k < phase'
        BY <1>2
      <4>. QED BY <4>1, <4>2
    <3>3. Holds(mem, Matches(k), [i \in With(k) |-> db[i]])
      BY <3>1 DEF Copied
    <3>4. \A j \in Slots : Read(mem', Matches(k), j) = Read(mem, Matches(k), j)
      BY DoneTurn, ArrayFacts
    <3>5. Holds(mem', Matches(k), [i \in With(k) |-> db[i]])
      BY <3>3, <3>4, HoldsFrame
    <3>. QED BY <3>2, <3>5
  <2>2. ~(phase' <= 3)
    BY <1>2
  <2>. QED BY <1>1, <2>1, <2>2, FrameHolds
<1>4. /\ Holds(mem', 2, [c \in FirstsDone' |-> First(c)])
      /\ Holds(mem', 1, [p \in PairsDone' |-> Second(p[1], p[2])])
  <2>1. CASE Edge1 # Empty /\ Joins
    <3>1. /\ PairsDone' = PairsDone \cup {<<iter, linear_proberE2M>>}
          /\ FirstsDone' = FirstsDone \cup {iter}
      BY <2>1, DoneTurn
    <3>2. mem' = WithPair
      BY <1>1, <2>1
    <3>. QED BY <2>1, <3>1, <3>2, JoinedTurn
  <2>2. CASE ~(Edge1 # Empty /\ Joins)
    <3>1. mem' = mem
      BY <1>1, <2>2, FreeSlotTurn
    <3>2. PairsDone' = PairsDone /\ FirstsDone' = FirstsDone
      BY <2>2, DoneTurn
    <3>. QED BY <3>1, <3>2 DEF Paired
  <2>. QED BY <2>1, <2>2
<1>5. /\ Holds(mem', 2, [c \in FirstsDone' |-> First(c)'])
      /\ Holds(mem', 1, [p \in PairsDone' |-> Second(p[1], p[2])'])
  <2>1. Slots' = Slots
    BY <1>1, Frame
  <2>2. \A c \in FirstsDone' : First(c)' = First(c)
    <3>1. FirstsDone' \subseteq Slots
      BY <2>1 DEF FirstsDone
    <3>. QED BY <1>1, <3>1, DoneTurn, FramePairs
  <2>3. \A p \in PairsDone' : Second(p[1], p[2])' = Second(p[1], p[2])
    <3>1. ASSUME NEW p \in PairsDone'
          PROVE  p[1] \in Slots /\ p[2] \in Slots /\ IsPair(p[1], p[2])'
      BY <2>1 DEF PairsDone
    <3>. QED BY <1>1, <3>1, DoneTurn, FramePairs
  <2>4. [c \in FirstsDone' |-> First(c)'] = [c \in FirstsDone' |-> First(c)]
    BY <2>2
  <2>5. [p \in PairsDone' |-> Second(p[1], p[2])'] = [p \in PairsDone' |-> Second(p[1], p[2])]
    BY <2>3
  <2>. QED BY <1>4, <2>4, <2>5
<1>6. phase' = 4 /\ Edge1' # Empty => (already_inserted' <=> iter' \in FirstsDone')
  <2>. SUFFICES ASSUME phase' = 4, Edge1' # Empty
                PROVE  already_inserted' <=> iter' \in FirstsDone'
    OBVIOUS
  <2>0. FirstsDone' = FirstsDone \cup (IF Edge1 # Empty /\ Joins THEN {iter} ELSE {})
    BY DoneTurn
  <2>1. CASE iter' = iter
    <3>1. already_inserted' = (already_inserted \/ (Joins /\ HasRoom1))
      BY <1>1, <1>2, <2>1, SlotFacts
    <3>2. Edge1' = Edge1
      <4>1. Edge1' = Read(mem', 5, iter)
        BY <1>1, <2>1, Frame, ArrayFacts DEF Edge1, Matches
      <4>. QED BY <1>1, <4>1, DoneTurn, ArrayFacts DEF Edge1
    <3>3. Edge1 # Empty /\ (already_inserted <=> iter \in FirstsDone)
      BY <1>1, <3>2 DEF Paired
    <3>4. CASE Joins
      BY <2>0, <2>1, <3>1, <3>3, <3>4, JoinedTurn
    <3>5. CASE ~Joins
      BY <2>0, <2>1, <3>1, <3>3, <3>5
    <3>. QED BY <3>4, <3>5
  <2>2. CASE iter' = iter + 1
    <3>1. already_inserted' = FALSE
      BY <1>1, <1>2, <2>2, SlotFacts
    <3>2. \A c \in FirstsDone' : c <= iter
      BY <1>1, <2>0, DoneTurn, SlotFacts
    <3>3. ~(iter' <= iter)
      BY <1>1, <2>2, SlotFacts
    <3>. QED BY <3>1, <3>2, <3>3
  <2>. QED BY <1>2, <2>1, <2>2
<1>7. phase' # 4 => linear_proberE2M' = 0 /\ ~already_inserted'
  BY <1>2
<1>8. Paired'
  BY <1>1, <1>5, <1>6, <1>7, FrameHolds DEF Paired
<1>9. Closed'
  <2>1. ThirdsDone = {} /\ ThirdsDone' = {}
    <3>1. (phase <= 4 \/ (phase = 5 /\ iter = 0) => ThirdsDone = {})'
      BY NothingYet, PTL
    <3>. QED BY <1>1, <1>2, <3>1, NothingYet
  <2>2. \A j \in Slots : Read(mem', 0, j) = Read(mem, 0, j)
    <3>1. CASE Edge1 # Empty /\ Joins
      BY <1>1, <3>1, UsedSlotTurn, ArrayFacts
    <3>2. CASE ~(Edge1 # Empty /\ Joins)
      BY <1>1, <3>2, FreeSlotTurn
    <3>. QED BY <3>1, <3>2
  <2>3. Holds(mem, 0, [c \in ThirdsDone |-> Read(mem, 3, c)])
    BY DEF Closed
  <2>4. Holds(mem', 0, [c \in ThirdsDone' |-> Read(mem', 3, c)])
    BY <2>1, <2>2, <2>3, HoldsFrame
  <2>. QED BY <1>1, <2>4, FrameHolds
<1>. QED BY <1>3, <1>8, <1>9

-----------------------------------------------------------------------------
\* A third edge, and whether a first edge and a second one are somewhere in
\* valids1 and valids2 to close a triangle with it.
Third(c) == Read(mem, 3, c)
IsClosed(c) ==
  /\ Third(c) # Empty
  /\ \E i \in Slots : Read(mem, 2, i).fromNode = Third(c).toNode
  /\ \E i \in Slots : Read(mem, 1, i).toNode = Third(c).fromNode

\* Probing from their homes finds them wherever they are.
LEMMA ClosesFacts ==
  ASSUME Shape
  PROVE  \A c \in Slots : Closes(Third(c)) <=> IsClosed(c)
<1>. SUFFICES ASSUME NEW c \in Slots PROVE Closes(Third(c)) <=> IsClosed(c)
  OBVIOUS
<1>1. db \in Databases /\ Third(c) \in Cells
  BY DEF Shape, Third
<1>2. CASE Third(c) = Empty
  BY <1>2, CellFacts DEF Closes, IsClosed
<1>3. CASE Third(c) # Empty
  <2>1. Third(c) \in Edge
    BY <1>1, <1>3 DEF Cells
  <2>2. /\ Third(c).fromNode \in Nat /\ Third(c).toNode \in Nat /\ Third(c).toNode # -1
    BY <2>1, CellFacts
  <2>. DEFINE h1 == toHash(Third(c).toNode)
              h2 == fromHash(Third(c).fromNode)
  <2>3. h1 \in Slots /\ h2 \in Slots
    BY <1>1, <2>2, HashFacts
  <2>. HIDE DEF h1, h2
  <2>4. \A h \in {h1, h2} : /\ \A q \in Slots : Probe(h, q) \in Slots
                            /\ \A j \in Slots : \E q \in Slots : Probe(h, q) = j
    <3>1. ASSUME NEW h \in Slots
          PROVE  /\ \A q \in Slots : Probe(h, q) \in Slots
                 /\ \A j \in Slots : \E q \in Slots : Probe(h, q) = j
      <4>1. \A q \in Slots : Probe(h, q) \in Slots
        BY <1>1, HashFacts
      <4>2. \A j \in Slots : \E q \in Slots : Probe(h, q) = j
        BY <1>1, ProbeFacts
      <4>. QED BY <4>1, <4>2
    <3>. QED BY <2>3, <3>1
  <2>5. (\E i \in Slots : Read(mem, 2, Probe(h1, i)).fromNode = Third(c).toNode)
          <=> \E i \in Slots : Read(mem, 2, i).fromNode = Third(c).toNode
    BY <2>4
  <2>6. (\E i \in Slots : Read(mem, 1, Probe(h2, i)).toNode = Third(c).fromNode)
          <=> \E i \in Slots : Read(mem, 1, i).toNode = Third(c).fromNode
    BY <2>4
  <2>. QED BY <1>3, <2>2, <2>5, <2>6, ArrayFacts DEF h1, h2, Closes, IsClosed
<1>. QED BY <1>2, <1>3

\* What the closing has passed after a turn.
LEMMA ThirdsTurn ==
  ASSUME Shape, Close, Shape'
  PROVE  /\ ThirdsDone' = ThirdsDone \cup (IF Closes(Edge3) THEN {iter} ELSE {})
         /\ iter \notin ThirdsDone
         /\ \A c \in Slots : Third(c)' = Third(c)
<1>1. /\ phase = 5 /\ Turn /\ UNCHANGED <<db, labels>> /\ iter \in Slots
      /\ \A b \in Arrays, j \in Slots : b # 0 => Read(mem', b, j) = Read(mem, b, j)
  BY CloseFacts DEF Shape
<1>2. n \in Nat /\ n >= 1 /\ Slots = 0 .. n - 1 /\ Slots' = Slots
  BY <1>1, SlotFacts, Frame DEF Shape
<1>3. /\ \A c \in Slots : Closes(Third(c)) <=> IsClosed(c)
      /\ (\A c \in Slots : Closes(Third(c)) <=> IsClosed(c))'
  BY ClosesFacts, PTL
<1>4. \A c \in Slots : Third(c)' = Third(c)
  BY <1>1, Frame, ArrayFacts DEF Third
<1>5. \A c \in Slots : IsClosed(c)' <=> IsClosed(c)
  BY <1>1, <1>2, <1>4, Frame, ArrayFacts DEF IsClosed, Empty
<1>6. \A c \in Slots : Closes(Third(c))' <=> Closes(Third(c))
  BY <1>2, <1>3, <1>5
<1>7. \/ phase' = phase /\ iter' = iter + 1
      \/ phase' = phase + 1 /\ iter' = 0 /\ iter = n - 1
  BY <1>1, TurnFacts
<1>8. ASSUME NEW c \in Slots
      PROVE  (phase' > 5 \/ (phase' = 5 /\ c < iter')) <=> (c < iter \/ c = iter)
  <2>1. c \in Int /\ c >= 0 /\ c <= n - 1 /\ iter \in Int
    BY <1>1, <1>2
  <2>. QED BY <1>1, <1>2, <1>7, <2>1
<1>9. ThirdsDone = {c \in Slots : c < iter /\ Closes(Third(c))}
  BY <1>1 DEF ThirdsDone, Third
<1>10. ThirdsDone' = {c \in Slots : (c < iter \/ c = iter) /\ Closes(Third(c))}
  <2>1. ThirdsDone' = {c \in Slots : (phase' > 5 \/ (phase' = 5 /\ c < iter')) /\ Closes(Third(c))'}
    BY <1>2 DEF ThirdsDone, Third
  <2>. HIDE DEF Third
  <2>. QED BY <1>6, <1>8, <2>1
<1>11. Edge3 = Third(iter)
  BY ArrayFacts DEF Edge3, Third
<1>12. ThirdsDone' = ThirdsDone \cup (IF Closes(Edge3) THEN {iter} ELSE {})
  BY <1>1, <1>9, <1>10, <1>11
<1>13. iter \notin ThirdsDone
  BY <1>1, <1>2, <1>9
<1>. QED BY <1>4, <1>12, <1>13

\* After the pairing what it found stays, as long as nobody writes there.
LEMMA PairedStays ==
  ASSUME Shape, Copied, Paired, phase > 4, phase' > 4, phase' \in Nat,
         UNCHANGED <<db, labels, linear_proberE2M, already_inserted>>,
         \A a \in 1 .. 5, j \in Slots : Read(mem', a, j) = Read(mem, a, j)
  PROVE  Copied' /\ Paired'
<1>1. phase \in Nat /\ Slots' = Slots
  BY Frame DEF Shape
<1>2. Copied'
  <2>1. ASSUME NEW k \in 1 .. 3
        PROVE  Holds(mem', Matches(k), [i \in Passed(k)' |-> db[i]])
    <3>1. Passed(k) = With(k)
      BY <1>1, WithFacts
    <3>2. Passed(k)' = With(k)
      <4>1. Passed(k)' = {i \in With(k) : k < phase' \/ (k = phase' /\ i < iter')}
        BY FrameData DEF Passed
      <4>. QED BY <4>1
    <3>3. Holds(mem, Matches(k), [i \in With(k) |-> db[i]])
      BY <3>1 DEF Copied
    <3>4. \A j \in Slots : Read(mem', Matches(k), j) = Read(mem, Matches(k), j)
      BY ArrayFacts
    <3>5. Holds(mem', Matches(k), [i \in With(k) |-> db[i]])
      BY <3>3, <3>4, HoldsFrame
    <3>. QED BY <3>2, <3>5
  <2>. QED BY <2>1, FrameHolds
<1>3. ASSUME NEW c \in Slots, NEW q \in Slots
      PROVE  /\ Turned(c, q) /\ Turned(c, q)'
             /\ First(c)' = First(c) /\ (IsPair(c, q)' <=> IsPair(c, q))
             /\ IsPair(c, q) => Second(c, q)' = Second(c, q)
  BY FramePairs DEF Turned
<1>4. PairsDone' = PairsDone
  BY <1>1, <1>3 DEF PairsDone
<1>5. FirstsDone' = FirstsDone
  BY <1>1, <1>3 DEF FirstsDone
<1>6. Holds(mem', 2, [c \in FirstsDone' |-> First(c)'])
  <2>. DEFINE val == [c \in FirstsDone |-> First(c)]
              new == [c \in FirstsDone' |-> First(c)']
  <2>1. Holds(mem, 2, val)
    BY DEF Paired
  <2>2. DOMAIN new = DOMAIN val /\ \A c \in DOMAIN val : new[c] = val[c]
    <3>1. \A c \in FirstsDone : First(c)' = First(c)
      BY <1>3 DEF FirstsDone
    <3>. QED BY <1>5, <3>1
  <2>. HIDE DEF val, new
  <2>3. Holds(mem', 2, new)
    BY <2>1, <2>2, HoldsFrame
  <2>. QED BY <2>3 DEF new
<1>7. Holds(mem', 1, [p \in PairsDone' |-> Second(p[1], p[2])'])
  <2>. DEFINE val == [p \in PairsDone |-> Second(p[1], p[2])]
              new == [p \in PairsDone' |-> Second(p[1], p[2])']
  <2>1. Holds(mem, 1, val)
    BY DEF Paired
  <2>2. DOMAIN new = DOMAIN val /\ \A p \in DOMAIN val : new[p] = val[p]
    <3>1. \A p \in PairsDone : Second(p[1], p[2])' = Second(p[1], p[2])
      BY <1>3 DEF PairsDone
    <3>. QED BY <1>4, <3>1
  <2>. HIDE DEF val, new
  <2>3. Holds(mem', 1, new)
    BY <2>1, <2>2, HoldsFrame
  <2>. QED BY <2>3 DEF new
<1>8. Paired'
  <2>1. phase # 4 /\ phase' # 4
    OBVIOUS
  <2>. QED BY <1>6, <1>7, <2>1, FrameHolds DEF Paired
<1>. QED BY <1>2, <1>8

\* A turn of the closing leaves the arrays arranged.
LEMMA CloseKeeps ==
  ASSUME Shape, Room, Copied, Paired, Closed, Close, Shape'
  PROVE  (Copied /\ Paired /\ Closed)'
<1>1. /\ phase = 5 /\ Turn /\ UNCHANGED <<db, labels, linear_proberE2M, already_inserted>>
      /\ db \in Databases /\ mem \in [Memory -> Int] /\ iter \in Slots
      /\ Closes(Edge3) => mem' = Insert(mem, 0, toHash(Edge3.toNode), 0, "fromNode", Edge3)
      /\ ~Closes(Edge3) => mem' = mem
      /\ \A b \in Arrays, j \in Slots : b # 0 => Read(mem', b, j) = Read(mem, b, j)
  BY CloseFacts DEF Shape
<1>2. phase' \in {5, 6}
  BY <1>1, TurnFacts
<1>3. \A a \in 1 .. 5, j \in Slots : Read(mem', a, j) = Read(mem, a, j)
  BY <1>1, ArrayFacts DEF Arrays
<1>4. Copied' /\ Paired'
  BY <1>1, <1>2, <1>3, PairedStays
<1>. DEFINE val == [c \in ThirdsDone |-> Third(c)]
            new == [c \in ThirdsDone' |-> Third(c)']
<1>5. /\ ThirdsDone' = ThirdsDone \cup (IF Closes(Edge3) THEN {iter} ELSE {})
      /\ iter \notin ThirdsDone /\ ThirdsDone \subseteq Slots
      /\ \A c \in Slots : Third(c)' = Third(c)
  BY ThirdsTurn DEF ThirdsDone
<1>6. Holds(mem, 0, val) /\ Edge3 = Third(iter)
  BY ArrayFacts DEF Closed, Edge3, Third
<1>7. Holds(mem', 0, new)
  <2>1. CASE Closes(Edge3)
    <3>1. /\ Edge3 \in Edge /\ toHash(Edge3.toNode) \in Slots
      BY <2>1, Edge3Facts
    <3>2. \A c \in ThirdsDone : Third(c) # Empty
      BY <1>5, ClosesFacts DEF ThirdsDone, Third, IsClosed
    <3>3. val \in [ThirdsDone -> Edge]
      BY <1>5, <3>2 DEF Shape, Third, Cells
    <3>4. IsFiniteSet(ThirdsDone) /\ Cardinality(ThirdsDone) < n
      <4>1. ThirdsDone \subseteq {j \in Slots : Read(mem, Matches(3), j) # Empty}
        BY <1>5, <3>2, ArrayFacts DEF Third
      <4>. QED BY <1>1, <4>1, MatchesCount
    <3>5. Cardinality(ThirdsDone) < n - 0
      BY <1>1, <3>4, SlotFacts
    <3>6. /\ DOMAIN new = DOMAIN More(val, iter, Edge3)
          /\ \A c \in DOMAIN new : new[c] = More(val, iter, Edge3)[c]
      <4>1. ThirdsDone' = ThirdsDone \cup {iter}
        BY <1>5, <2>1
      <4>. QED BY <1>1, <1>5, <1>6, <4>1 DEF More
    <3>. HIDE DEF val, new
    <3>7. Holds(Insert(mem, 0, toHash(Edge3.toNode), 0, "fromNode", Edge3), 0,
                More(val, iter, Edge3))
      BY <1>1, <1>5, <1>6, <3>1, <3>3, <3>5, HoldsInsert, ArrayFacts
    <3>8. Holds(mem', 0, More(val, iter, Edge3))
      BY <1>1, <2>1, <3>7
    <3>. QED BY <3>6, <3>8, HoldsFrame
  <2>2. CASE ~Closes(Edge3)
    <3>1. DOMAIN new = DOMAIN val /\ \A c \in DOMAIN val : new[c] = val[c]
      BY <1>5, <2>2
    <3>2. mem' = mem
      BY <1>1, <2>2
    <3>. HIDE DEF val, new
    <3>. QED BY <1>6, <3>1, <3>2, HoldsFrame
  <2>. QED BY <2>1, <2>2
<1>8. Closed'
  <2>1. new = [c \in ThirdsDone' |-> Read(mem', 3, c)]
    BY <1>1, Frame DEF Third
  <2>. HIDE DEF new
  <2>. QED BY <1>1, <1>7, <2>1, FrameHolds
<1>. QED BY <1>4, <1>8

\* So does counting, or doing nothing.
LEMMA QuietKeeps ==
  ASSUME Shape, Copied, Paired, Closed, Shape',
         UNCHANGED <<db, labels, mem, iter, linear_proberE2M, already_inserted>>,
         phase' = phase \/ (phase = 6 /\ phase' = 7)
  PROVE  (Copied /\ Paired /\ Closed)'
<1>1. /\ Slots' = Slots /\ phase \in Nat /\ phase' \in Nat
      /\ \A a, i : Read(mem, a, i)' = Read(mem, a, i)
  BY Frame DEF Shape
<1>2. \A c \in Slots : First(c)' = First(c) /\ Third(c)' = Third(c)
  BY <1>1 DEF First, Third
<1>3. Copied' /\ Paired'
  <2>1. CASE phase > 4
    BY <1>1, <2>1, PairedStays
  <2>2. CASE phase <= 4
    <3>1. phase' = phase
      BY <2>2
    <3>2. \A k \in 1 .. 3 : Passed(k)' = Passed(k)
      BY <3>1, FrameData DEF Passed
    <3>3. Copied'
      <4>1. \A k \in 1 .. 3 : /\ Holds(mem, Matches(k), [i \in Passed(k)' |-> db[i]])
                              /\ phase <= 3 => Read(mem, Matches(k), Home(k)) = Empty
        BY <3>2 DEF Copied
      <4>. QED BY <3>1, <4>1, FrameHolds
    <3>4. ASSUME NEW c \in Slots, NEW q \in Slots
          PROVE  /\ Turned(c, q)' <=> Turned(c, q)
                 /\ IsPair(c, q)' <=> IsPair(c, q)
                 /\ IsPair(c, q) => Second(c, q)' = Second(c, q)
      BY <3>1, FramePairs DEF Turned
    <3>5. PairsDone' = PairsDone /\ FirstsDone' = FirstsDone
      BY <1>1, <3>4 DEF PairsDone, FirstsDone
    <3>6. [c \in FirstsDone' |-> First(c)'] = [c \in FirstsDone |-> First(c)]
      BY <1>2, <3>5 DEF FirstsDone
    <3>7. [p \in PairsDone' |-> Second(p[1], p[2])'] = [p \in PairsDone |-> Second(p[1], p[2])]
      BY <3>4, <3>5 DEF PairsDone
    <3>8. Edge1' = Edge1
      BY <1>1 DEF Edge1, Matches
    <3>9. /\ Holds(mem, 2, [c \in FirstsDone |-> First(c)])
          /\ Holds(mem, 1, [p \in PairsDone |-> Second(p[1], p[2])])
          /\ phase = 4 /\ Edge1 # Empty => (already_inserted <=> iter \in FirstsDone)
          /\ phase # 4 => linear_proberE2M = 0 /\ ~already_inserted
      BY DEF Paired
    <3>10. /\ Holds(mem', 2, [c \in FirstsDone' |-> First(c)'])
           /\ Holds(mem', 1, [p \in PairsDone' |-> Second(p[1], p[2])'])
      BY <3>6, <3>7, <3>9
    <3>11. Paired'
      BY <3>1, <3>5, <3>8, <3>9, <3>10, FrameHolds DEF Paired, Empty
    <3>. QED BY <3>3, <3>11
  <2>. QED BY <1>1, <2>1, <2>2
<1>4. Closed'
  <2>1. /\ \A c \in Slots : Closes(Third(c)) <=> IsClosed(c)
        /\ (\A c \in Slots : Closes(Third(c)) <=> IsClosed(c))'
    BY ClosesFacts, PTL
  <2>2. \A c \in Slots : IsClosed(c)' <=> IsClosed(c)
    BY <1>1, <1>2 DEF IsClosed, Empty
  <2>3. \A c \in Slots : Closes(Third(c))' <=> Closes(Third(c))
    BY <1>1, <2>1, <2>2
  <2>4. ThirdsDone' = {c \in Slots : (phase' > 5 \/ (phase' = 5 /\ c < iter)) /\ Closes(Third(c))'}
    BY <1>1 DEF ThirdsDone, Third
  <2>5. ThirdsDone = {c \in Slots : (phase > 5 \/ (phase = 5 /\ c < iter)) /\ Closes(Third(c))}
    BY DEF ThirdsDone, Third
  <2>6. ThirdsDone' = ThirdsDone
    <3>. HIDE DEF Third
    <3>. QED BY <2>3, <2>4, <2>5
  <2>7. [c \in ThirdsDone' |-> Read(mem', 3, c)] = [c \in ThirdsDone |-> Read(mem, 3, c)]
    BY <2>6
  <2>8. Holds(mem', 0, [c \in ThirdsDone' |-> Read(mem', 3, c)])
    BY <2>7 DEF Closed
  <2>. QED BY <2>8, FrameHolds
<1>. QED BY <1>3, <1>4

\* Every step leaves the arrays arranged.
LEMMA StepKeepsArranged ==
  ASSUME Unpadded(Databases), Shape, AllCells, Arranged, [Next]_vars, Shape'
  PROVE  Arranged'
<1>1. db' = db /\ labels' = labels
  BY DEF Next, Copy, Pair, Close, Count, Returned, vars
<1>2. SUFFICES ASSUME Room PROVE (Copied /\ Paired /\ Closed)'
  BY <1>1, FrameData DEF Arranged
<1>3. Copied /\ Paired /\ Closed
  BY <1>2 DEF Arranged
<1>4. CASE Copy
  BY <1>2, <1>3, <1>4, CopyKeeps
<1>5. CASE Pair
  BY <1>2, <1>3, <1>5, PairKeeps
<1>6. CASE Close
  BY <1>2, <1>3, <1>6, CloseKeeps
<1>7. CASE Count
  BY <1>3, <1>7, QuietKeeps DEF Count
<1>8. CASE UNCHANGED vars
  BY <1>3, <1>8, QuietKeeps DEF vars
<1>. QED BY <1>4, <1>5, <1>6, <1>7, <1>8 DEF Next, Returned

\* When all edges have been passed, the arrays of valid edges count the first
\* edges, the pairs and the third edges found.
LEMMA LabelledCounts ==
  ASSUME Shape, Paired, Closed, phase > 5
  PROVE  /\ IsFiniteSet(FirstsDone) /\ Labelled(valids1) = Cardinality(FirstsDone)
         /\ IsFiniteSet(PairsDone) /\ Labelled(valids2) = Cardinality(PairsDone)
         /\ IsFiniteSet(ThirdsDone) /\ Labelled(valids3) = Cardinality(ThirdsDone)
         /\ PairsDone = AllPairs
         /\ FirstsDone = {c \in Slots : \E q \in Slots : IsPair(c, q)}
         /\ ThirdsDone = {c \in Slots : IsClosed(c)}
<1>1. db \in Databases
  BY DEF Shape
<1>2. \A c \in FirstsDone : First(c) \in Edge
  BY IsPairFacts DEF FirstsDone
<1>3. \A p \in PairsDone : Second(p[1], p[2]) \in Edge
  BY IsPairFacts DEF PairsDone
<1>4. ThirdsDone = {c \in Slots : IsClosed(c)}
  <2>1. ThirdsDone = {c \in Slots : Closes(Third(c))}
    BY DEF ThirdsDone, Third
  <2>. HIDE DEF Third
  <2>. QED BY <2>1, ClosesFacts
<1>5. \A c \in ThirdsDone : Third(c) \in Edge
  BY <1>4 DEF IsClosed, Third, Shape, Cells
<1>6. /\ Holds(mem, 2, [c \in FirstsDone |-> First(c)])
      /\ [c \in FirstsDone |-> First(c)] \in [FirstsDone -> Edge]
  BY <1>2 DEF Paired
<1>7. /\ Holds(mem, 1, [p \in PairsDone |-> Second(p[1], p[2])])
      /\ [p \in PairsDone |-> Second(p[1], p[2])] \in [PairsDone -> Edge]
  BY <1>3 DEF Paired
<1>8. /\ Holds(mem, 0, [c \in ThirdsDone |-> Third(c)])
      /\ [c \in ThirdsDone |-> Third(c)] \in [ThirdsDone -> Edge]
  BY <1>5 DEF Closed, Third
<1>9. IsFiniteSet(FirstsDone) /\ Labelled(valids1) = Cardinality(FirstsDone)
  BY <1>1, <1>6, HoldsCount, ArrayFacts DEF Labelled
<1>10. IsFiniteSet(PairsDone) /\ Labelled(valids2) = Cardinality(PairsDone)
  BY <1>1, <1>7, HoldsCount, ArrayFacts DEF Labelled
<1>11. IsFiniteSet(ThirdsDone) /\ Labelled(valids3) = Cardinality(ThirdsDone)
  BY <1>1, <1>8, HoldsCount, ArrayFacts DEF Labelled
<1>12. PairsDone = AllPairs /\ FirstsDone = {c \in Slots : \E q \in Slots : IsPair(c, q)}
  <2>1. \A c, q : Turned(c, q)
    BY DEF Turned, Shape
  <2>. QED BY <2>1 DEF PairsDone, AllPairs, FirstsDone
<1>. QED BY <1>4, <1>9, <1>10, <1>11, <1>12

\* The answer is taken from the three counts.
Answered ==
  phase = 7 =>
    LET counts == {Labelled(valids1), Labelled(valids2), Labelled(valids3)}
    IN  /\ result \in counts
        /\ 0 \in counts => result = 0
        /\ 0 \notin counts => result # 0

\* It is given once, and the arrays do not change any more.
LEMMA StepKeepsAnswered ==
  ASSUME Shape, Answered, [Next]_vars
  PROVE  Answered'
<1>. SUFFICES ASSUME phase' = 7 PROVE Answered'
  BY DEF Answered
<1>1. (phase = 7 /\ result' = result /\ UNCHANGED <<db, mem>>) \/ Count
  <2>1. ~Copy
    <3>. SUFFICES ASSUME Copy PROVE FALSE
      OBVIOUS
    <3>. QED BY CopyFacts, TurnFacts
  <2>2. ~Pair
    <3>. SUFFICES ASSUME Pair PROVE FALSE
      OBVIOUS
    <3>1. phase = 4 /\ (phase' = phase \/ Turn)
      BY DEF Pair
    <3>. QED BY <3>1, TurnFacts
  <2>3. ~Close
    <3>. SUFFICES ASSUME Close PROVE FALSE
      OBVIOUS
    <3>. QED BY CloseFacts, TurnFacts
  <2>. QED BY <2>1, <2>2, <2>3 DEF Next, Returned, vars
<1>2. UNCHANGED <<db, mem>>
  BY <1>1 DEF Count
<1>3. \A a : Labelled(a)' = Labelled(a)
  BY <1>2, Frame DEF Labelled, NoLabel
<1>4. valids1' = valids1 /\ valids2' = valids2 /\ valids3' = valids3
  BY DEF valids1, valids2, valids3
<1>5. CASE phase = 7 /\ result' = result
  BY <1>3, <1>4, <1>5 DEF Answered
<1>6. CASE Count
  BY <1>3, <1>4, <1>6, CountFacts DEF Answered
<1>. QED BY <1>1, <1>5, <1>6

\* All of it at every point.
LEMMA ArrangedInvariance ==
  ASSUME Unpadded(Databases)
  PROVE  Spec => [](Shape /\ AllCells /\ Arranged /\ Answered)
<1>. DEFINE IInv == Shape /\ AllCells /\ Arranged /\ Answered
<1>1. Init => IInv
  <2>1. Init => AllCells
    BY InitFree, CellFacts DEF AllCells
  <2>2. Init => Answered
    BY DEF Init, Answered
  <2>. QED BY <2>1, <2>2, InitShape, InitArranged DEF Arranged
<1>2. IInv /\ [Next]_vars => IInv'
  BY StepKeepsShape, StepKeepsCells, StepKeepsArranged, StepKeepsAnswered
<1>. QED BY <1>1, <1>2, PTL DEF Spec

\* What the answer counts.
LEMMA AnswerFacts ==
  ASSUME Shape, Arranged, Answered, phase = 7, Room
  PROVE  LET counts == {Cardinality(FirstsDone), Cardinality(AllPairs), Cardinality(ThirdsDone)}
         IN  /\ result \in counts
             /\ 0 \in counts => result = 0
             /\ 0 \notin counts => result # 0
<1>1. Paired /\ Closed
  BY DEF Arranged
<1>2. /\ Labelled(valids1) = Cardinality(FirstsDone)
      /\ Labelled(valids2) = Cardinality(AllPairs)
      /\ Labelled(valids3) = Cardinality(ThirdsDone)
  BY <1>1, LabelledCounts
<1>. QED BY <1>2 DEF Answered

\* A third edge is closed exactly when it continues the second edge of one pair
\* and is continued by the first edge of one, not necessarily the same.
LEMMA ClosedFacts ==
  ASSUME Shape, Arranged, phase = 7, Room, NEW c \in Slots
  PROVE  IsClosed(c) <=> /\ Third(c) # Empty
                         /\ \E p \in AllPairs : First(p[1]).fromNode = Third(c).toNode
                         /\ \E p \in AllPairs : Second(p[1], p[2]).toNode = Third(c).fromNode
<1>1. Copied /\ Paired /\ Closed
  BY DEF Arranged
<1>2. /\ PairsDone = AllPairs
      /\ FirstsDone = {d \in Slots : \E q \in Slots : IsPair(d, q)}
  BY <1>1, LabelledCounts
<1>3. PICK f : Places(mem, 2, [d \in FirstsDone |-> First(d)], f)
  BY <1>1 DEF Paired, Holds
<1>4. PICK g : Places(mem, 1, [p \in PairsDone |-> Second(p[1], p[2])], g)
  BY <1>1 DEF Paired, Holds
<1>5. /\ \A d \in FirstsDone : f[d] \in Slots /\ Read(mem, 2, f[d]) = First(d)
      /\ \A j \in Slots : \/ Read(mem, 2, j) = Empty
                          \/ \E d \in FirstsDone : Read(mem, 2, j) = First(d)
  BY <1>3 DEF Places
<1>6. /\ \A p \in AllPairs : g[p] \in Slots /\ Read(mem, 1, g[p]) = Second(p[1], p[2])
      /\ \A j \in Slots : \/ Read(mem, 1, j) = Empty
                          \/ \E p \in AllPairs : Read(mem, 1, j) = Second(p[1], p[2])
  BY <1>2, <1>4 DEF Places
<1>7. \A p \in AllPairs : p[1] \in FirstsDone
  BY <1>2 DEF AllPairs
<1>8. \A d \in FirstsDone : \E p \in AllPairs : p[1] = d
  <2>1. ASSUME NEW d \in FirstsDone PROVE \E p \in AllPairs : p[1] = d
    <3>1. PICK q \in Slots : d \in Slots /\ IsPair(d, q)
      BY <1>2
    <3>2. <<d, q>> \in AllPairs
      BY <3>1 DEF AllPairs
    <3>. QED BY <3>2
  <2>. QED BY <2>1
<1>9. CASE Third(c) = Empty
  BY <1>9 DEF IsClosed
<1>10. CASE Third(c) # Empty
  <2>1. Third(c).fromNode # -1 /\ Third(c).toNode # -1
    <3>1. Third(c) \in Edge
      BY <1>10 DEF Shape, Third, Cells
    <3>. QED BY <3>1, CellFacts
  <2>2. (\E i \in Slots : Read(mem, 2, i).fromNode = Third(c).toNode)
           <=> \E p \in AllPairs : First(p[1]).fromNode = Third(c).toNode
    BY <1>5, <1>7, <1>8, <2>1, CellFacts
  <2>3. (\E i \in Slots : Read(mem, 1, i).toNode = Third(c).fromNode)
           <=> \E p \in AllPairs : Second(p[1], p[2]).toNode = Third(c).fromNode
    BY <1>6, <2>1, CellFacts
  <2>. QED BY <1>10, <2>2, <2>3 DEF IsClosed
<1>. QED BY <1>9, <1>10

(***************************************************************************)
(* ZeroMeansNoneWithRoom of HashQuery: the answer 0 means that there is no *)
(* triangle, whatever the other edges are and wherever insertions and      *)
(* deletions have left them, as long as the pairs fit into valids2 and a   *)
(* slot stays free among the edges of a label.  The edges of a triangle    *)
(* are in the arrays of matches, its pair is found by the pairing, and the *)
(* probes for it find it, so that none of the three arrays stays empty.    *)
(***************************************************************************)
THEOREM NoTriangleIsMissed ==
  Unpadded(Databases) => (Spec => []ZeroMeansNoneWithRoom)
<1>. SUFFICES ASSUME Unpadded(Databases) PROVE Spec => []ZeroMeansNoneWithRoom
  OBVIOUS
<1>1. ASSUME Shape, AllCells, Arranged, Answered
      PROVE  ZeroMeansNoneWithRoom
  <2>. SUFFICES ASSUME Room, phase = 7, result = 0, NEW t \in Triangles
                PROVE  FALSE
    BY DEF ZeroMeansNoneWithRoom, Room, n
  <2>1. /\ t[1] \in Pairs /\ t[2] \in With(3)
        /\ db[t[1][2]].toNode = db[t[2]].fromNode /\ db[t[2]].toNode = db[t[1][1]].fromNode
    BY DEF Triangles
  <2>2. Copied /\ Paired /\ Closed /\ phase > 3 /\ phase > 5
    BY <1>1 DEF Arranged
  <2>3. PICK p \in AllPairs : First(p[1]) = db[t[1][1]] /\ Second(p[1], p[2]) = db[t[1][2]]
    BY <1>1, <2>1, <2>2, PairsCount
  <2>4. PICK c \in Slots : Third(c) = db[t[2]]
    <3>1. 3 \in 1 .. 3 /\ Matches(3) = 3
      BY ArrayFacts
    <3>. QED BY <1>1, <2>1, <2>2, <3>1, MatchesFacts DEF Third
  <2>5. Third(c) # Empty
    <3>1. db[t[2]] \in Edge
      BY <1>1, <2>1, WithFacts
    <3>. QED BY <2>4, <3>1, CellFacts
  <2>6. IsClosed(c)
    BY <1>1, <2>1, <2>3, <2>4, <2>5, ClosedFacts
  <2>7. /\ IsFiniteSet(FirstsDone) /\ IsFiniteSet(AllPairs) /\ IsFiniteSet(ThirdsDone)
        /\ p[1] \in FirstsDone /\ c \in ThirdsDone
    BY <1>1, <2>2, <2>3, <2>6, LabelledCounts DEF AllPairs
  <2>8. Cardinality(FirstsDone) # 0 /\ Cardinality(AllPairs) # 0 /\ Cardinality(ThirdsDone) # 0
    BY <2>3, <2>7, FS_EmptySet
  <2>. QED BY <1>1, <2>8, AnswerFacts
<1>. QED BY <1>1, ArrangedInvariance, PTL

-----------------------------------------------------------------------------
\* What triangles without a common node have in common.  An edge may have any
\* place in its triangle: when a pair begins with the second or the third edge
\* of one, the three labels are the same and the triangle may be turned.
LEMMA DisjointFacts ==
  ASSUME DisjointTriangles
  PROVE  /\ \A p \in Pairs : \E k \in With(3) : <<p, k>> \in Triangles
         /\ \A p \in Pairs, r \in Pairs : p[1] = r[1] => p = r
         /\ \A t \in Triangles, u \in Triangles : t[1] = u[1] \/ t[2] = u[2] => t = u
         /\ \A t \in Triangles, k \in With(3) :
              db[k].toNode = db[t[1][1]].fromNode => k = t[2]
<1>1. \A i, j \in Matching : /\ db[i].fromNode = db[j].fromNode => i = j
                             /\ db[i].toNode = db[j].toNode => i = j
  BY DEF DisjointTriangles
<1>2. With(1) \subseteq Matching /\ With(2) \subseteq Matching /\ With(3) \subseteq Matching
  BY DEF Matching
<1>3. ASSUME NEW p \in Pairs
      PROVE  /\ p = <<p[1], p[2]>> /\ p[1] \in With(1) /\ p[2] \in With(2)
             /\ db[p[1]].toNode = db[p[2]].fromNode
  BY DEF Pairs
<1>4. ASSUME NEW t \in Triangles
      PROVE  /\ t = <<t[1], t[2]>> /\ t[1] \in Pairs /\ t[2] \in With(3)
             /\ db[t[1][2]].toNode = db[t[2]].fromNode
             /\ db[t[2]].toNode = db[t[1][1]].fromNode
  BY DEF Triangles
<1>5. ASSUME NEW p \in Pairs PROVE \E k \in With(3) : <<p, k>> \in Triangles
  <2>. DEFINE i == p[1]
              j == p[2]
  <2>1. i \in With(1) /\ j \in With(2) /\ i \in Matching /\ j \in Matching
        /\ db[i].toNode = db[j].fromNode
    BY <1>2, <1>3
  <2>2. PICK t \in Triangles : i \in {t[1][1], t[1][2], t[2]}
    BY <2>1 DEF DisjointTriangles
  <2>. DEFINE a == t[1][1]
              b == t[1][2]
              c == t[2]
  <2>3. /\ a \in With(1) /\ b \in With(2) /\ c \in With(3)
        /\ a \in Matching /\ b \in Matching /\ c \in Matching
        /\ db[a].toNode = db[b].fromNode /\ db[b].toNode = db[c].fromNode
        /\ db[c].toNode = db[a].fromNode
    BY <1>2, <1>3, <1>4
  <2>. HIDE DEF i, j, a, b, c
  <2>4. \E k \in With(3) : db[j].toNode = db[k].fromNode /\ db[k].toNode = db[i].fromNode
    <3>1. CASE i = a
      BY <1>1, <2>1, <2>3, <3>1
    <3>2. CASE i = b
      <4>1. c = j
        BY <1>1, <2>1, <2>3, <3>2
      <4>2. labels[1] = labels[2] /\ labels[2] = labels[3]
        BY <2>1, <2>3, <3>2, <4>1 DEF With
      <4>3. a \in With(3)
        BY <2>3, <4>2 DEF With
      <4>. QED BY <2>3, <3>2, <4>1, <4>3
    <3>3. CASE i = c
      <4>1. a = j
        BY <1>1, <2>1, <2>3, <3>3
      <4>2. labels[1] = labels[3] /\ labels[1] = labels[2]
        BY <2>1, <2>3, <3>3, <4>1 DEF With
      <4>3. b \in With(3)
        BY <2>3, <4>2 DEF With
      <4>. QED BY <2>3, <3>3, <4>1, <4>3
    <3>. QED BY <2>2, <3>1, <3>2, <3>3 DEF a, b, c
  <2>. QED BY <2>4 DEF Triangles, i, j
<1>6. ASSUME NEW p \in Pairs, NEW r \in Pairs, p[1] = r[1] PROVE p = r
  <2>1. p[2] = r[2]
    BY <1>1, <1>2, <1>3, <1>6
  <2>. QED BY <1>3, <1>6, <2>1
<1>7. ASSUME NEW t \in Triangles, NEW k \in With(3), db[k].toNode = db[t[1][1]].fromNode
      PROVE  k = t[2]
  BY <1>1, <1>2, <1>4, <1>7
<1>8. ASSUME NEW t \in Triangles, NEW u \in Triangles, t[1] = u[1] \/ t[2] = u[2] PROVE t = u
  <2>1. CASE t[1] = u[1]
    <3>1. t[2] = u[2]
      BY <1>4, <1>7, <2>1
    <3>. QED BY <1>4, <2>1, <3>1
  <2>2. CASE t[2] = u[2]
    <3>1. t[1][1] \in Matching /\ u[1][1] \in Matching
      BY <1>2, <1>3, <1>4
    <3>2. db[t[1][1]].fromNode = db[u[1][1]].fromNode
      BY <1>4, <2>2
    <3>3. t[1][1] = u[1][1]
      BY <1>1, <3>1, <3>2
    <3>4. t[1] = u[1]
      BY <1>4, <1>6, <3>3
    <3>. QED BY <1>4, <2>2, <3>4
  <2>. QED BY <1>8, <2>1, <2>2
<1>. QED BY <1>5, <1>6, <1>7, <1>8

\* There is room for what such triangles consist of.
LEMMA DisjointRoom ==
  ASSUME NoneFull(Databases), Shape, DisjointTriangles
  PROVE  Room
<1>1. /\ db \in Databases /\ n \in Nat /\ Slots = DOMAIN db
      /\ IsFiniteSet(Slots) /\ Cardinality(Slots) = n
  BY SlotFacts DEF Shape, n
<1>2. ASSUME NEW k \in 1 .. 3
      PROVE  IsFiniteSet(With(k)) /\ Cardinality(With(k)) < n
  <2>1. PICK s \in Slots : db[s] = Empty
    BY <1>1 DEF NoneFull
  <2>2. s \notin With(k)
    BY <2>1, WithFacts, CellFacts
  <2>3. With(k) \subseteq Slots \ {s}
    BY <2>2, WithFacts
  <2>4. IsFiniteSet(Slots \ {s}) /\ Cardinality(Slots \ {s}) = n - 1
    BY <1>1, FS_RemoveElement
  <2>5. IsFiniteSet(With(k)) /\ Cardinality(With(k)) <= n - 1
    BY <2>3, <2>4, FS_Subset
  <2>. QED BY <1>1, <2>5, FS_CardinalityType
<1>3. Cardinality(Pairs) <= n
  <2>1. \A p \in Pairs : p[1] \in With(1)
    BY DEF Pairs
  <2>2. \A p, r \in Pairs : p[1] = r[1] => p = r
    BY DisjointFacts
  <2>. DEFINE f == [p \in Pairs |-> p[1]]
  <2>3. /\ \A p \in Pairs : f[p] \in With(1)
        /\ \A p, r \in Pairs : f[p] = f[r] => p = r
    BY <2>1, <2>2
  <2>. HIDE DEF f
  <2>4. IsFiniteSet(With(1)) /\ Cardinality(With(1)) < n
    BY <1>2
  <2>5. IsFiniteSet(Pairs) /\ Cardinality(Pairs) <= Cardinality(With(1))
    BY <2>3, <2>4, InjectionCount
  <2>. QED BY <1>1, <2>4, <2>5, FS_CardinalityType
<1>. QED BY <1>2, <1>3 DEF Room

\* Each triangle has one pair, one first edge and one third edge of its own.
LEMMA DisjointCounts ==
  ASSUME Shape, Arranged, Room, phase = 7, DisjointTriangles
  PROVE  /\ Cardinality(AllPairs) = Cardinality(Triangles)
         /\ Cardinality(FirstsDone) = Cardinality(Triangles)
         /\ Cardinality(ThirdsDone) = Cardinality(Triangles)
<1>1. Copied /\ Paired /\ Closed /\ phase > 3 /\ phase > 5
  BY DEF Arranged
<1>2. /\ \A p \in Pairs : \E k \in With(3) : <<p, k>> \in Triangles
      /\ \A p \in Pairs, r \in Pairs : p[1] = r[1] => p = r
      /\ \A t \in Triangles, u \in Triangles : t[1] = u[1] \/ t[2] = u[2] => t = u
      /\ \A t \in Triangles, k \in With(3) : db[k].toNode = db[t[1][1]].fromNode => k = t[2]
  BY DisjointFacts
<1>3. ASSUME NEW t \in Triangles
      PROVE  /\ t[1] \in Pairs /\ t[2] \in With(3)
             /\ db[t[1][2]].toNode = db[t[2]].fromNode
             /\ db[t[2]].toNode = db[t[1][1]].fromNode
  BY DEF Triangles
<1>4. IsFiniteSet(Pairs) /\ IsFiniteSet(AllPairs) /\ Cardinality(AllPairs) = Cardinality(Pairs)
  BY <1>1, PairsCount
<1>5. IsFiniteSet(Triangles) /\ Cardinality(Triangles) = Cardinality(Pairs)
  <2>. DEFINE R == {r \in Triangles \X Pairs : r[1][1] = r[2]}
  <2>1. \A t \in Triangles : \E p \in Pairs : <<t, p>> \in R
    BY <1>3
  <2>2. \A p \in Pairs : \E t \in Triangles : <<t, p>> \in R
    <3>1. ASSUME NEW p \in Pairs PROVE \E t \in Triangles : <<t, p>> \in R
      <4>1. PICK k \in With(3) : <<p, k>> \in Triangles
        BY <1>2
      <4>. QED BY <4>1
    <3>. QED BY <3>1
  <2>3. \A t \in Triangles, u \in Triangles, p \in Pairs : <<t, p>> \in R /\ <<u, p>> \in R => t = u
    BY <1>2
  <2>4. \A t \in Triangles, p \in Pairs, r \in Pairs : <<t, p>> \in R /\ <<t, r>> \in R => p = r
    OBVIOUS
  <2>. HIDE DEF R
  <2>. QED BY <1>4, <2>1, <2>2, <2>3, <2>4, Correspondence
<1>6. PICK f1 : /\ f1 \in [With(1) -> Slots]
                /\ \A i, j \in With(1) : f1[i] = f1[j] => i = j
                /\ \A i \in With(1) : Read(mem, 5, f1[i]) = db[i]
                /\ \A j \in Slots : Read(mem, 5, j) = Empty \/ \E i \in With(1) : j = f1[i]
  BY <1>1, MatchesFacts, ArrayFacts
<1>7. PICK f3 : /\ f3 \in [With(3) -> Slots]
                /\ \A i, j \in With(3) : f3[i] = f3[j] => i = j
                /\ \A i \in With(3) : Read(mem, 3, f3[i]) = db[i]
                /\ \A j \in Slots : Read(mem, 3, j) = Empty \/ \E i \in With(3) : j = f3[i]
  BY <1>1, MatchesFacts, ArrayFacts
<1>8. /\ \A p \in AllPairs : \E t \in Pairs :
           First(p[1]) = db[t[1]] /\ Second(p[1], p[2]) = db[t[2]]
      /\ \A t \in Pairs : \E p \in AllPairs :
           First(p[1]) = db[t[1]] /\ Second(p[1], p[2]) = db[t[2]]
  BY <1>1, PairsCount
<1>9. /\ IsFiniteSet(FirstsDone) /\ IsFiniteSet(ThirdsDone)
      /\ FirstsDone = {c \in Slots : \E q \in Slots : IsPair(c, q)}
      /\ ThirdsDone = {c \in Slots : IsClosed(c)}
  BY <1>1, LabelledCounts
<1>10. Cardinality(FirstsDone) = Cardinality(Triangles)
  <2>1. Cardinality(FirstsDone) <= Cardinality(AllPairs)
    <3>. DEFINE f == [p \in AllPairs |-> p[1]]
    <3>1. ASSUME NEW c \in FirstsDone PROVE \E p \in AllPairs : f[p] = c
      <4>1. PICK q \in Slots : c \in Slots /\ IsPair(c, q)
        BY <1>9
      <4>2. <<c, q>> \in AllPairs
        BY <4>1 DEF AllPairs
      <4>. QED BY <4>2
    <3>. HIDE DEF f
    <3>. QED BY <1>4, <3>1, ImageCount
  <2>2. Cardinality(Pairs) <= Cardinality(FirstsDone)
    <3>. DEFINE f == [t \in Pairs |-> f1[t[1]]]
    <3>1. ASSUME NEW t \in Pairs PROVE f[t] \in FirstsDone
      <4>1. PICK p \in AllPairs : First(p[1]) = db[t[1]]
        BY <1>8
      <4>2. p[1] \in Slots /\ p[2] \in Slots /\ IsPair(p[1], p[2])
        BY DEF AllPairs
      <4>3. PICK i \in With(1) : p[1] = f1[i] /\ First(p[1]) = db[i]
        BY <1>6, <4>2 DEF First, IsPair
      <4>4. t[1] \in With(1)
        BY DEF Pairs
      <4>5. i = t[1]
        <5>1. i \in Matching /\ t[1] \in Matching
          BY <4>4 DEF Matching
        <5>. QED BY <4>1, <4>3, <5>1 DEF DisjointTriangles
      <4>. QED BY <1>9, <4>2, <4>3, <4>5
    <3>2. ASSUME NEW t \in Pairs, NEW u \in Pairs, f[t] = f[u] PROVE t = u
      <4>1. t[1] \in With(1) /\ u[1] \in With(1)
        BY DEF Pairs
      <4>2. t[1] = u[1]
        BY <1>6, <3>2, <4>1
      <4>. QED BY <1>2, <4>2
    <3>. HIDE DEF f
    <3>. QED BY <1>9, <3>1, <3>2, InjectionCount
  <2>. QED BY <1>4, <1>5, <1>9, <2>1, <2>2, FS_CardinalityType
<1>11. Cardinality(ThirdsDone) = Cardinality(Triangles)
  <2>. DEFINE R == {r \in ThirdsDone \X Triangles : f3[r[2][2]] = r[1]}
  <2>1. ASSUME NEW c \in ThirdsDone PROVE \E t \in Triangles : <<c, t>> \in R
    <3>1. PICK p \in AllPairs : /\ c \in Slots /\ Third(c) # Empty
                                /\ First(p[1]).fromNode = Third(c).toNode
      BY <1>9, ClosedFacts
    <3>2. PICK k \in With(3) : c = f3[k] /\ Third(c) = db[k]
      BY <1>7, <3>1 DEF Third
    <3>3. PICK r \in Pairs : First(p[1]) = db[r[1]]
      BY <1>8
    <3>4. PICK j \in With(3) : <<r, j>> \in Triangles
      BY <1>2
    <3>5. k = j
      BY <1>2, <3>1, <3>2, <3>3, <3>4
    <3>. QED BY <3>2, <3>4, <3>5
  <2>2. ASSUME NEW t \in Triangles PROVE \E c \in ThirdsDone : <<c, t>> \in R
    <3>. DEFINE c == f3[t[2]]
    <3>1. c \in Slots /\ Third(c) = db[t[2]]
      BY <1>3, <1>7 DEF Third
    <3>2. Third(c) # Empty
      <4>1. db[t[2]] \in Edge
        BY <1>3, WithFacts
      <4>. QED BY <3>1, <4>1, CellFacts
    <3>. HIDE DEF c
    <3>3. PICK p \in AllPairs : First(p[1]) = db[t[1][1]] /\ Second(p[1], p[2]) = db[t[1][2]]
      BY <1>3, <1>8
    <3>4. IsClosed(c)
      BY <1>3, <3>1, <3>2, <3>3, ClosedFacts
    <3>. QED BY <1>9, <3>1, <3>4 DEF c
  <2>3. ASSUME NEW c \in ThirdsDone, NEW d \in ThirdsDone, NEW t \in Triangles,
               <<c, t>> \in R, <<d, t>> \in R
        PROVE  c = d
    BY <2>3
  <2>4. ASSUME NEW c \in ThirdsDone, NEW t \in Triangles, NEW u \in Triangles,
               <<c, t>> \in R, <<c, u>> \in R
        PROVE  t = u
    <3>1. f3[t[2]] = f3[u[2]]
      BY <2>4
    <3>2. t[2] = u[2]
      BY <1>3, <1>7, <3>1
    <3>. QED BY <1>2, <3>2
  <2>. HIDE DEF R
  <2>5. IsFiniteSet(Triangles)
    BY <1>5
  <2>. QED BY <2>1, <2>2, <2>3, <2>4, <2>5, Correspondence
<1>. QED BY <1>4, <1>5, <1>10, <1>11

(***************************************************************************)
(* CountsDisjointTriangles of HashQuery: in a table declared for an even   *)
(* number of edges and not full, triangles without a common node are       *)
(* counted right, however many, wherever they are, among edges with other  *)
(* labels and for every three labels, the same ones too.  All three arrays *)
(* then hold one edge for each triangle, so that it does not matter that   *)
(* the query takes the largest of the three counts.                        *)
(***************************************************************************)
THEOREM DisjointTrianglesAreCounted ==
  Unpadded(Databases) /\ NoneFull(Databases) => (Spec => []CountsDisjointTriangles)
<1>. SUFFICES ASSUME Unpadded(Databases), NoneFull(Databases)
              PROVE  Spec => []CountsDisjointTriangles
  OBVIOUS
<1>1. ASSUME Shape, Arranged, Answered
      PROVE  CountsDisjointTriangles
  <2>. SUFFICES ASSUME phase = 7, DisjointTriangles
                PROVE  result = Cardinality(Triangles)
    BY DEF CountsDisjointTriangles
  <2>1. Room
    BY <1>1, DisjointRoom
  <2>2. /\ Cardinality(FirstsDone) = Cardinality(Triangles)
        /\ Cardinality(AllPairs) = Cardinality(Triangles)
        /\ Cardinality(ThirdsDone) = Cardinality(Triangles)
    BY <1>1, <2>1, DisjointCounts
  <2>. QED BY <1>1, <2>1, <2>2, AnswerFacts
<1>. QED BY <1>1, ArrangedInvariance, PTL

=============================================================================
