----------------------- MODULE SquarePartitionProofs -----------------------
(***************************************************************************)
(* The partition of the matrix, for every number of vertices, edges and    *)
(* threads, every capacity, all shares and every noise.                    *)
(*                                                                         *)
(* Two facts about the sequence of squares are kept through every step:    *)
(* the sum of their edges, for which the parts of a square have its edges  *)
(* and sorting is a permutation; and that they tile the matrix.  The       *)
(* second is not inductive alone: that the part thrown away lies above the *)
(* diagonal holds only of a square whose sides are the same interval, so   *)
(* the invariant says of all squares that their sides are the same         *)
(* interval or two that do not overlap.                                    *)
(*                                                                         *)
(* The capacity needs more when columns are generated.  In the middle of a *)
(* pass some squares of a column are divided and some are not, so that the *)
(* sum over those with the same interval says nothing.  CapacityInv speaks *)
(* of the columns the pass began with: there are bounds X[0] <= X[1] <= ...*)
(* such that a square not yet shattered has an interval of X and a part of *)
(* a shattered one has half of one, and the edges within each interval are *)
(* no more than the capacity.  Intervals without width start where others  *)
(* do: together, those that start at a line have at most twice the         *)
(* capacity.  The end of the pass takes X to its halves.                   *)
(*                                                                         *)
(* That a square has room for its edges is kept with the help of a pass    *)
(* not yet ended: edgeOverflow, asked when it begins, leaves the squares   *)
(* to be shattered slack, and a part gets no more than three quarters of   *)
(* the edges of one of these but at least half of each side, rounded down. *)
(***************************************************************************)
EXTENDS SquarePartition, DataProofs

\* The parts drawn for three of four parts leave something for the last.
LEMMA PartsLeaveRest ==
  ASSUME NEW n \in Nat, NEW a \in PartEdges(n, 0), NEW b \in PartEdges(n, 1), NEW c \in PartEdges(n, 2)
  PROVE  a \in Nat /\ b \in Nat /\ c \in Nat /\ a + b + c <= n
<1>. DEFINE A == Share[0] + Noise
            B == Share[1] + Noise
            C == Share[2] + Noise
            p == (A * n) \div Whole
            q == (B * n) \div Whole
            r == (C * n) \div Whole
<1>1. /\ A \in Nat /\ B \in Nat /\ C \in Nat /\ Whole \in Nat \ {0} /\ A + B + C <= Whole
      /\ \A i \in 0 .. 2 : Share[i] - Noise \in Nat
  BY ShareAssumption
<1>. HIDE DEF A, B, C
<1>2. A * n \in Nat /\ B * n \in Nat /\ C * n \in Nat
  BY <1>1
<1>3. /\ p \in Int /\ q \in Int /\ r \in Int
      /\ Whole * p <= A * n /\ Whole * q <= B * n /\ Whole * r <= C * n
  BY <1>1, <1>2, DivBounds
<1>4. a <= p /\ b <= q /\ c <= r /\ a \in Int /\ b \in Int /\ c \in Int
  BY DEF PartEdges, A, B, C
<1>5. \A i \in 0 .. 2 : (Share[i] - Noise) * n \in Nat
  BY <1>1
<1>6. \A i \in 0 .. 2 : ((Share[i] - Noise) * n) \div Whole >= 0
  BY <1>1, <1>5, DivBounds
<1>7. a >= 0 /\ b >= 0 /\ c >= 0
  BY <1>6, <1>1 DEF PartEdges
<1>. HIDE DEF p, q, r
<1>8. Whole * (p + q + r) <= (A + B + C) * n
  BY <1>1, <1>2, <1>3
<1>9. (A + B + C) * n <= Whole * n
  BY <1>1, ProductMonotone
<1>10. p + q + r <= n
  <2>. SUFFICES ASSUME p + q + r >= n + 1 PROVE FALSE
    BY <1>3
  <2>1. Whole * (n + 1) <= Whole * (p + q + r)
    BY <1>1, <1>3, ProductMonotone
  <2>2. Whole * (n + 1) = Whole * n + Whole
    BY <1>1
  <2>3. Whole * n \in Int /\ (A + B + C) * n \in Int /\ Whole * (p + q + r) \in Int
    BY <1>1, <1>3
  <2>. QED BY <1>1, <1>8, <1>9, <2>1, <2>2, <2>3
<1>. QED BY <1>3, <1>4, <1>7, <1>10

\* Both sides of a square are the same interval or two without a common line:
\* they stem from the same halving of 0 .. nVertices.
Sides(s) ==
  /\ s.xs <= s.xe /\ s.ys <= s.ye
  /\ (s.xs = s.ys /\ s.xe = s.ye) \/ s.xe <= s.ys \/ s.ye <= s.xs

\* A cell belongs to a square up to, not including, its ends.
Covers(s, x, y) == s.xs <= x /\ x < s.xe /\ s.ys <= y /\ y < s.ye

\* No cell belongs to two squares of a sequence.
Disjoint(sqs) ==
  \A i, j \in 1 .. Len(sqs), x, y \in Nat :
    Covers(sqs[i], x, y) /\ Covers(sqs[j], x, y) => i = j

\* The four parts of a square, by their sides.
LEMMA PartSides ==
  ASSUME NEW s \in SquareType, Sides(s)
  PROVE  \E mx, my \in Nat :
           /\ s.xs <= mx /\ mx <= s.xe /\ s.ys <= my /\ my <= s.ye
           /\ s.xs = s.ys /\ s.xe = s.ye => mx = my
           /\ \A p \in 0 .. 3, m \in Nat :
                /\ Get_part(s, p, m) \in SquareType /\ Get_part(s, p, m).n = m
                /\ Get_part(s, p, m).xs = IF p \in {1, 3} THEN mx ELSE s.xs
                /\ Get_part(s, p, m).xe = IF p \in {1, 3} THEN s.xe ELSE mx
                /\ Get_part(s, p, m).ys = IF p \in {2, 3} THEN my ELSE s.ys
                /\ Get_part(s, p, m).ye = IF p \in {2, 3} THEN s.ye ELSE my
<1>. DEFINE mx == (s.xs + s.xe) \div 2
            my == (s.ys + s.ye) \div 2
<1>1. /\ s.xs \in Nat /\ s.xe \in Nat /\ s.ys \in Nat /\ s.ye \in Nat
      /\ s.h \in Nat /\ s.v \in Nat /\ s.xs <= s.xe /\ s.ys <= s.ye
  BY DEF SquareType, Sides
<1>2. /\ mx \in Nat /\ s.xs <= mx /\ mx <= s.xe
      /\ my \in Nat /\ s.ys <= my /\ my <= s.ye
  BY <1>1
<1>3. s.xs = s.ys /\ s.xe = s.ye => mx = my
  OBVIOUS
<1>. HIDE DEF mx, my
<1>4. ASSUME NEW p \in 0 .. 3, NEW m \in Nat
      PROVE  Get_part(s, p, m) =
               [xs |-> IF p \in {1, 3} THEN mx ELSE s.xs, xe |-> IF p \in {1, 3} THEN s.xe ELSE mx,
                ys |-> IF p \in {2, 3} THEN my ELSE s.ys, ye |-> IF p \in {2, 3} THEN s.ye ELSE my,
                n |-> m, h |-> 2 * s.h + (IF p \in {1, 3} THEN 1 ELSE 0),
                v |-> 2 * s.v + (IF p \in {2, 3} THEN 1 ELSE 0)]
  BY DEF Get_part, Half, mx, my
<1>5. ASSUME NEW p \in 0 .. 3, NEW m \in Nat PROVE Get_part(s, p, m) \in SquareType
  <2>1. /\ 2 * s.h + (IF p \in {1, 3} THEN 1 ELSE 0) \in Nat
        /\ 2 * s.v + (IF p \in {2, 3} THEN 1 ELSE 0) \in Nat
    BY <1>1
  <2>. QED BY <1>1, <1>2, <1>4, <2>1 DEF SquareType
<1>6. \A p \in 0 .. 3, m \in Nat :
        /\ Get_part(s, p, m).n = m
        /\ Get_part(s, p, m).xs = IF p \in {1, 3} THEN mx ELSE s.xs
        /\ Get_part(s, p, m).xe = IF p \in {1, 3} THEN s.xe ELSE mx
        /\ Get_part(s, p, m).ys = IF p \in {2, 3} THEN my ELSE s.ys
        /\ Get_part(s, p, m).ye = IF p \in {2, 3} THEN s.ye ELSE my
  BY <1>4
<1>. QED BY <1>2, <1>3, <1>5, <1>6

\* What may be said of the squares that replace one: they lie in it, share no
\* cell and leave none out but above the diagonal of an undirected matrix.
Tiles(parts, s, directed) ==
  /\ \A i \in 1 .. Len(parts) :
       /\ Sides(parts[i])
       /\ \A x, y \in Nat : Covers(parts[i], x, y) => Covers(s, x, y)
  /\ Disjoint(parts)
  /\ \A x, y \in Nat : Covers(s, x, y) /\ (directed \/ x <= y) =>
       \E i \in 1 .. Len(parts) : Covers(parts[i], x, y)

LEMMA PartsTile ==
  ASSUME NEW s \in SquareType, Sides(s), NEW directed \in BOOLEAN,
         NEW a \in Nat, NEW b \in Nat, NEW c \in Nat, a + b + c <= s.n
  PROVE  /\ Parts(s, a, b, c, directed) \in Seq(SquareType)
         /\ Tiles(Parts(s, a, b, c, directed), s, directed)
<1>. DEFINE d == s.n - a - b - c
            A == Get_part(s, 0, a)
            B == Get_part(s, 1, b)
            C == Get_part(s, 2, c)
            D == Get_part(s, 3, d)
            CB == [C EXCEPT !.n = @ + b]
<1>1. s.n \in Nat /\ d \in Nat /\ s.xs \in Nat /\ s.xe \in Nat /\ s.ys \in Nat /\ s.ye \in Nat
  BY DEF SquareType
<1>. HIDE DEF d
<1>2. PICK mx \in Nat, my \in Nat :
           /\ s.xs <= mx /\ mx <= s.xe /\ s.ys <= my /\ my <= s.ye
           /\ s.xs = s.ys /\ s.xe = s.ye => mx = my
           /\ \A p \in 0 .. 3, m \in Nat :
                /\ Get_part(s, p, m) \in SquareType /\ Get_part(s, p, m).n = m
                /\ Get_part(s, p, m).xs = IF p \in {1, 3} THEN mx ELSE s.xs
                /\ Get_part(s, p, m).xe = IF p \in {1, 3} THEN s.xe ELSE mx
                /\ Get_part(s, p, m).ys = IF p \in {2, 3} THEN my ELSE s.ys
                /\ Get_part(s, p, m).ye = IF p \in {2, 3} THEN s.ye ELSE my
  BY PartSides
<1>3. /\ A \in SquareType /\ A.n = a /\ A.xs = s.xs /\ A.xe = mx /\ A.ys = s.ys /\ A.ye = my
      /\ B \in SquareType /\ B.n = b /\ B.xs = mx /\ B.xe = s.xe /\ B.ys = s.ys /\ B.ye = my
      /\ C \in SquareType /\ C.n = c /\ C.xs = s.xs /\ C.xe = mx /\ C.ys = my /\ C.ye = s.ye
      /\ D \in SquareType /\ D.n = d /\ D.xs = mx /\ D.xe = s.xe /\ D.ys = my /\ D.ye = s.ye
  BY <1>1, <1>2
<1>. HIDE DEF A, B, C, D
<1>4. /\ CB \in SquareType /\ CB.n = c + b /\ CB.xs = C.xs /\ CB.xe = C.xe
      /\ CB.ys = C.ys /\ CB.ye = C.ye
  BY <1>3 DEF SquareType
<1>. HIDE DEF CB
<1>5. Sides(A) /\ Sides(B) /\ Sides(C) /\ Sides(D) /\ Sides(CB)
  BY <1>1, <1>2, <1>3, <1>4 DEF Sides
<1>6. ASSUME NEW x \in Nat, NEW y \in Nat
      PROVE  /\ Covers(A, x, y) \/ Covers(B, x, y) \/ Covers(C, x, y) \/ Covers(D, x, y)
                  <=> Covers(s, x, y)
             /\ Covers(CB, x, y) <=> Covers(C, x, y)
             /\ Covers(A, x, y) => ~Covers(B, x, y) /\ ~Covers(C, x, y) /\ ~Covers(D, x, y)
             /\ Covers(B, x, y) => ~Covers(C, x, y) /\ ~Covers(D, x, y)
             /\ Covers(C, x, y) => ~Covers(D, x, y)
  BY <1>1, <1>2, <1>3, <1>4 DEF Covers
<1>7. ASSUME s.xe = s.ye, NEW x \in Nat, NEW y \in Nat, Covers(B, x, y) PROVE ~(x <= y)
  BY <1>1, <1>2, <1>3, <1>7 DEF Covers, Sides
<1>8. CASE ~directed /\ s.xe = s.ye
  <2>1. Parts(s, a, b, c, directed) = <<A, CB, D>>
    BY <1>3, <1>8 DEF Parts, MergeBIntoC, A, B, C, D, CB, d
  <2>2. <<A, CB, D>> \in Seq(SquareType) /\ Len(<<A, CB, D>>) = 3
    BY <1>3, <1>4
  <2>3. Disjoint(<<A, CB, D>>)
    BY <1>6 DEF Disjoint
  <2>4. ASSUME NEW x \in Nat, NEW y \in Nat, Covers(s, x, y), directed \/ x <= y
        PROVE  Covers(A, x, y) \/ Covers(CB, x, y) \/ Covers(D, x, y)
    BY <1>6, <1>7, <1>8, <2>4
  <2>5. Tiles(<<A, CB, D>>, s, directed)
    <3>. DEFINE P == <<A, CB, D>>
    <3>1. Len(P) = 3 /\ P[1] = A /\ P[2] = CB /\ P[3] = D
      OBVIOUS
    <3>2. 1 .. Len(P) = {1, 2, 3}
      BY <3>1
    <3>. HIDE DEF P
    <3>3. \A i \in 1 .. Len(P) : Sides(P[i]) /\ \A x, y \in Nat : Covers(P[i], x, y) => Covers(s, x, y)
      BY <1>5, <1>6, <3>1, <3>2
    <3>4. \A x, y \in Nat : Covers(s, x, y) /\ (directed \/ x <= y) =>
            \E i \in 1 .. Len(P) : Covers(P[i], x, y)
      BY <2>4, <3>1, <3>2
    <3>. QED BY <2>3, <3>3, <3>4 DEF Tiles, P
  <2>. QED BY <2>1, <2>2, <2>5
<1>9. CASE directed \/ s.xe # s.ye
  <2>1. Parts(s, a, b, c, directed) = <<A, B, C, D>>
    BY <1>3, <1>9 DEF Parts, A, B, C, D, d
  <2>2. <<A, B, C, D>> \in Seq(SquareType)
    BY <1>3
  <2>3. Disjoint(<<A, B, C, D>>)
    BY <1>6 DEF Disjoint
  <2>5. Tiles(<<A, B, C, D>>, s, directed)
    <3>. DEFINE P == <<A, B, C, D>>
    <3>1. Len(P) = 4 /\ P[1] = A /\ P[2] = B /\ P[3] = C /\ P[4] = D
      OBVIOUS
    <3>2. 1 .. Len(P) = {1, 2, 3, 4}
      BY <3>1
    <3>. HIDE DEF P
    <3>3. \A i \in 1 .. Len(P) : Sides(P[i]) /\ \A x, y \in Nat : Covers(P[i], x, y) => Covers(s, x, y)
      BY <1>5, <1>6, <3>1, <3>2
    <3>4. \A x, y \in Nat : Covers(s, x, y) /\ (directed \/ x <= y) =>
            \E i \in 1 .. Len(P) : Covers(P[i], x, y)
      BY <1>6, <3>1, <3>2
    <3>. QED BY <2>3, <3>3, <3>4 DEF Tiles, P
  <2>. QED BY <2>1, <2>2, <2>5
<1>. QED BY <1>8, <1>9

-----------------------------------------------------------------------------
\* Taking an element out of a sequence moves those behind it to the front.
LEMMA RemoveAtFacts ==
  ASSUME NEW S, NEW sqs \in Seq(S), NEW k \in 1 .. Len(sqs)
  PROVE  /\ RemoveAt(sqs, k) \in Seq(S) /\ Len(RemoveAt(sqs, k)) = Len(sqs) - 1
         /\ \A i \in 1 .. Len(sqs) - 1 :
              RemoveAt(sqs, k)[i] = IF i < k THEN sqs[i] ELSE sqs[i + 1]
<1>. DEFINE front == SubSeq(sqs, 1, k - 1)
            back  == SubSeq(sqs, k + 1, Len(sqs))
<1>1. Len(sqs) \in Nat /\ k \in Nat /\ \A i \in 1 .. Len(sqs) : sqs[i] \in S
  BY LenProperties
<1>2. /\ front \in Seq(S) /\ Len(front) = k - 1
      /\ \A i \in 1 .. k - 1 : front[i] = sqs[i]
  <2>1. 1 \in Int /\ k - 1 \in Int /\ \A i \in 1 .. k - 1 : sqs[i] \in S
    BY <1>1
  <2>2. /\ front \in Seq(S) /\ Len(front) = IF 1 <= k - 1 THEN (k - 1) - 1 + 1 ELSE 0
        /\ \A i \in 1 .. (k - 1) - 1 + 1 : front[i] = sqs[1 + i - 1]
    BY <2>1, SubSeqProperties
  <2>. HIDE DEF front
  <2>. QED BY <1>1, <2>2
<1>3. /\ back \in Seq(S) /\ Len(back) = Len(sqs) - k
      /\ \A i \in 1 .. Len(sqs) - k : back[i] = sqs[k + i]
  <2>1. k + 1 \in Int /\ Len(sqs) \in Int /\ \A i \in k + 1 .. Len(sqs) : sqs[i] \in S
    BY <1>1
  <2>2. /\ back \in Seq(S) /\ Len(back) = IF k + 1 <= Len(sqs) THEN Len(sqs) - (k + 1) + 1 ELSE 0
        /\ \A i \in 1 .. Len(sqs) - (k + 1) + 1 : back[i] = sqs[(k + 1) + i - 1]
    BY <2>1, SubSeqProperties
  <2>. HIDE DEF back
  <2>. QED BY <1>1, <2>2
<1>. HIDE DEF front, back
<1>4. /\ front \o back \in Seq(S) /\ Len(front \o back) = Len(front) + Len(back)
      /\ \A i \in 1 .. Len(front) + Len(back) :
           (front \o back)[i] = IF i <= Len(front) THEN front[i] ELSE back[i - Len(front)]
  BY <1>2, <1>3, ConcatProperties
<1>5. RemoveAt(sqs, k) = front \o back
  BY DEF RemoveAt, front, back
<1>6. ASSUME NEW i \in 1 .. Len(sqs) - 1
      PROVE  (front \o back)[i] = IF i < k THEN sqs[i] ELSE sqs[i + 1]
  <2>1. i \in 1 .. Len(front) + Len(back)
    BY <1>1, <1>2, <1>3
  <2>2. CASE i < k
    BY <1>1, <1>2, <1>4, <2>1, <2>2
  <2>3. CASE ~(i < k)
    <3>1. i - Len(front) \in 1 .. Len(sqs) - k /\ ~(i <= Len(front)) /\ k + (i - Len(front)) = i + 1
      BY <1>1, <1>2, <2>3
    <3>. QED BY <1>3, <1>4, <2>1, <2>3, <3>1
  <2>. QED BY <2>2, <2>3
<1>7. Len(front) + Len(back) = Len(sqs) - 1
  BY <1>1, <1>2, <1>3
<1>. QED BY <1>4, <1>5, <1>6, <1>7

\* Whether each square of a matrix is in place.
Tiled(sqs, directed, nV) ==
  /\ \A i \in 1 .. Len(sqs) : Sides(sqs[i])
  /\ Disjoint(sqs)
  /\ \A x, y \in 0 .. nV - 1 :
       directed \/ x <= y => \E i \in 1 .. Len(sqs) : Covers(sqs[i], x, y)

\* Squares in place stay so when one of them is replaced by its parts.
LEMMA ReplaceTiles ==
  ASSUME NEW sqs \in Seq(SquareType), NEW k \in 1 .. Len(sqs), NEW parts \in Seq(SquareType),
         NEW directed \in BOOLEAN, NEW nV \in Nat,
         Tiled(sqs, directed, nV), Tiles(parts, sqs[k], directed)
  PROVE  /\ RemoveAt(sqs, k) \o parts \in Seq(SquareType)
         /\ Len(RemoveAt(sqs, k) \o parts) = Len(sqs) - 1 + Len(parts)
         /\ Tiled(RemoveAt(sqs, k) \o parts, directed, nV)
<1>. DEFINE rest == RemoveAt(sqs, k)
            new == rest \o parts
            L == Len(sqs) - 1
            old(i) == IF i < k THEN i ELSE i + 1
<1>1. Len(sqs) \in Nat /\ k \in Nat /\ L \in Nat /\ Len(parts) \in Nat
  BY LenProperties
<1>2. /\ rest \in Seq(SquareType) /\ Len(rest) = L
      /\ \A i \in 1 .. L : rest[i] = sqs[old(i)]
  BY RemoveAtFacts
<1>. HIDE DEF rest
<1>3. /\ new \in Seq(SquareType) /\ Len(new) = L + Len(parts)
      /\ \A i \in 1 .. L + Len(parts) : new[i] = IF i <= L THEN rest[i] ELSE parts[i - L]
  <2>1. /\ new \in Seq(SquareType) /\ Len(new) = Len(rest) + Len(parts)
        /\ \A i \in 1 .. Len(rest) + Len(parts) :
             new[i] = IF i <= Len(rest) THEN rest[i] ELSE parts[i - Len(rest)]
    BY <1>2, ConcatProperties
  <2>. QED BY <1>2, <2>1
<1>. HIDE DEF new
<1>4. ASSUME NEW i \in 1 .. L
      PROVE  new[i] = sqs[old(i)] /\ old(i) \in 1 .. Len(sqs) /\ old(i) # k /\ i \in 1 .. Len(new)
  <2>1. i <= L /\ i \in 1 .. L + Len(parts)
    BY <1>1
  <2>2. new[i] = rest[i]
    BY <1>3, <2>1
  <2>3. old(i) \in 1 .. Len(sqs) /\ old(i) # k
    BY <1>1
  <2>. QED BY <1>2, <1>3, <2>1, <2>2, <2>3
<1>5. ASSUME NEW j \in 1 .. Len(parts) PROVE L + j \in 1 .. Len(new) /\ new[L + j] = parts[j]
  <2>1. L + j \in 1 .. L + Len(parts) /\ ~(L + j <= L) /\ (L + j) - L = j
    BY <1>1
  <2>. QED BY <1>3, <2>1
<1>6. ASSUME NEW i \in 1 .. Len(new)
      PROVE  i \in 1 .. L \/ (i - L \in 1 .. Len(parts) /\ L + (i - L) = i)
  BY <1>1, <1>3
<1>7. ASSUME NEW i \in 1 .. L, NEW j \in 1 .. L, old(i) = old(j) PROVE i = j
  BY <1>1, <1>7
<1>8. ASSUME NEW j \in 1 .. Len(sqs), j # k PROVE \E i \in 1 .. L : old(i) = j
  <2>1. CASE j < k
    <3>1. j \in 1 .. L /\ old(j) = j
      BY <1>1, <2>1
    <3>. QED BY <3>1
  <2>2. CASE j > k
    <3>1. j - 1 \in 1 .. L /\ old(j - 1) = j
      BY <1>1, <2>2
    <3>. QED BY <3>1
  <2>. QED BY <1>1, <1>8, <2>1, <2>2
<1>. HIDE DEF old
<1>9. ASSUME NEW i \in 1 .. Len(new) PROVE Sides(new[i])
  <2>1. CASE i \in 1 .. L
    BY <1>4, <2>1 DEF Tiled
  <2>2. CASE i - L \in 1 .. Len(parts) /\ L + (i - L) = i
    BY <1>5, <2>2 DEF Tiles
  <2>. QED BY <1>6, <2>1, <2>2
<1>10. ASSUME NEW i \in 1 .. Len(new), NEW j \in 1 .. Len(new), NEW x \in Nat, NEW y \in Nat,
              Covers(new[i], x, y), Covers(new[j], x, y)
       PROVE  i = j
  <2>. HIDE DEF L
  <2>1. CASE i \in 1 .. L /\ j \in 1 .. L
    <3>1. old(i) = old(j)
      BY <1>4, <1>10, <2>1 DEF Tiled, Disjoint
    <3>. QED BY <1>7, <2>1, <3>1
  <2>2. ASSUME NEW u \in 1 .. L, NEW v \in 1 .. Len(parts),
               Covers(new[u], x, y), Covers(parts[v], x, y)
        PROVE  FALSE
    <3>1. Covers(sqs[old(u)], x, y) /\ Covers(sqs[k], x, y)
      BY <1>4, <2>2 DEF Tiles
    <3>. QED BY <1>4, <3>1 DEF Tiled, Disjoint
  <2>3. CASE i - L \in 1 .. Len(parts) /\ L + (i - L) = i /\ j - L \in 1 .. Len(parts) /\ L + (j - L) = j
    <3>1. Covers(parts[i - L], x, y) /\ Covers(parts[j - L], x, y)
      BY <1>5, <1>10, <2>3
    <3>2. i - L = j - L
      BY <2>3, <3>1 DEF Tiles, Disjoint
    <3>. QED BY <2>3, <3>2
  <2>4. CASE i \in 1 .. L /\ j - L \in 1 .. Len(parts) /\ L + (j - L) = j
    <3>1. Covers(parts[j - L], x, y)
      BY <1>5, <1>10, <2>4
    <3>. QED BY <1>10, <2>2, <2>4, <3>1
  <2>5. CASE j \in 1 .. L /\ i - L \in 1 .. Len(parts) /\ L + (i - L) = i
    <3>1. Covers(parts[i - L], x, y)
      BY <1>5, <1>10, <2>5
    <3>. QED BY <1>10, <2>2, <2>5, <3>1
  <2>. QED BY <1>6, <2>1, <2>3, <2>4, <2>5
<1>11. ASSUME NEW x \in 0 .. nV - 1, NEW y \in 0 .. nV - 1, directed \/ x <= y
       PROVE  \E i \in 1 .. Len(new) : Covers(new[i], x, y)
  <2>1. PICK j \in 1 .. Len(sqs) : Covers(sqs[j], x, y)
    BY <1>11 DEF Tiled
  <2>2. CASE j # k
    BY <1>4, <1>8, <2>1, <2>2
  <2>3. CASE j = k
    <3>1. x \in Nat /\ y \in Nat
      OBVIOUS
    <3>2. PICK i \in 1 .. Len(parts) : Covers(parts[i], x, y)
      BY <1>11, <2>1, <2>3, <3>1 DEF Tiles
    <3>. QED BY <1>5, <3>2
  <2>. QED BY <2>2, <2>3
<1>12. Tiled(new, directed, nV)
  BY <1>9, <1>10, <1>11 DEF Tiled, Disjoint
<1>. QED BY <1>3, <1>12 DEF new, rest

-----------------------------------------------------------------------------
Weights(sqs) == [i \in 1 .. Len(sqs) |-> sqs[i].n]

\* The number of edges of some squares, as a sum with laws.
LEMMA SumAtIsSum ==
  ASSUME NEW sqs \in Seq(SquareType), NEW I \in SUBSET (1 .. Len(sqs))
  PROVE  /\ IsFiniteSet(I)
         /\ \A i \in I : Weights(sqs)[i] = sqs[i].n /\ sqs[i].n \in Nat
         /\ SumAt(sqs, I) = Sum(Weights(sqs), I)
<1>. DEFINE w == Weights(sqs)
            c == [T \in SUBSET I |-> CHOOSE x \in T : TRUE]
            Iter(G) == G = [T \in SUBSET I |->
               IF T = {} THEN 0
               ELSE sqs[CHOOSE x \in T : TRUE].n + G[T \ {CHOOSE x \in T : TRUE}]]
<1>1. Len(sqs) \in Nat /\ sqs \in [1 .. Len(sqs) -> SquareType]
  BY LenProperties
<1>2. IsFiniteSet(I)
  <2>1. IsFiniteSet(1 .. Len(sqs))
    BY <1>1, FS_Interval
  <2>. QED BY <2>1, FS_Subset
<1>3. \A i \in I : w[i] = sqs[i].n /\ w[i] \in Nat
  BY <1>1 DEF SquareType, Weights
<1>4. Chooses(c, I)
  BY DEF Chooses
<1>5. SumAt(sqs, I) = (CHOOSE G : Iter(G))[I]
  BY DEF SumAt, MapThenSumSet, MapThenFoldSet
<1>. HIDE DEF w
<1>6. PICK F \in [SUBSET I -> Nat] : Adds(F, w, c, SUBSET I)
  <2>. HIDE DEF c
  <2>. QED BY <1>2, <1>3, <1>4, SumExists
<1>7. ASSUME NEW T \in SUBSET I, T # {}
      PROVE  (CHOOSE x \in T : TRUE) \in I /\ c[T] = CHOOSE x \in T : TRUE
  BY <1>7
<1>8. Iter(F)
  BY <1>3, <1>6, <1>7 DEF Adds
<1>. HIDE DEF Iter
<1>9. PICK G : Iter(G) /\ G = CHOOSE H : Iter(H)
  BY <1>8
<1>10. Adds(G, w, c, SUBSET I)
  <2>1. \A T \in SUBSET I :
          G[T] = IF T = {} THEN 0
                 ELSE sqs[CHOOSE x \in T : TRUE].n + G[T \ {CHOOSE x \in T : TRUE}]
    BY <1>9 DEF Iter
  <2>2. \A T \in SUBSET I :
          T # {} => /\ sqs[CHOOSE x \in T : TRUE].n = w[c[T]]
                    /\ T \ {CHOOSE x \in T : TRUE} = T \ {c[T]}
    BY <1>3, <1>7
  <2>. HIDE DEF c
  <2>. QED BY <2>1, <2>2 DEF Adds
<1>11. Sum(w, I) = G[I]
  <2>. HIDE DEF c
  <2>. QED BY <1>2, <1>3, <1>4, <1>10, SumIsSolution
<1>. QED BY <1>2, <1>3, <1>5, <1>9, <1>11 DEF w

\* That of all squares of a sequence.
LEMMA SumOfIsSum ==
  ASSUME NEW sqs \in Seq(SquareType)
  PROVE  /\ Len(sqs) \in Nat /\ IsFiniteSet(1 .. Len(sqs))
         /\ \A i \in 1 .. Len(sqs) : Weights(sqs)[i] = sqs[i].n /\ sqs[i].n \in Nat
         /\ SumOf(sqs) = Sum(Weights(sqs), 1 .. Len(sqs))
<1>1. Len(sqs) \in Nat /\ DOMAIN sqs = 1 .. Len(sqs)
  BY LenProperties
<1>. QED BY <1>1, SumAtIsSum DEF SumOf

\* Squares that correspond one to one have the same number of edges.
LEMMA SumOfRenamed ==
  ASSUME NEW sqs \in Seq(SquareType), NEW new \in Seq(SquareType),
         NEW p \in Bijection(1 .. Len(new), 1 .. Len(sqs)),
         \A i \in 1 .. Len(new) : new[i] = sqs[p[i]]
  PROVE  SumOf(new) = SumOf(sqs)
<1>. DEFINE w == Weights(sqs)
            v == [i \in 1 .. Len(new) |-> w[p[i]]]
<1>1. /\ Len(sqs) \in Nat /\ IsFiniteSet(1 .. Len(sqs))
      /\ \A i \in 1 .. Len(sqs) : w[i] = sqs[i].n /\ sqs[i].n \in Nat
      /\ SumOf(sqs) = Sum(w, 1 .. Len(sqs))
  BY SumOfIsSum
<1>2. /\ Len(new) \in Nat /\ IsFiniteSet(1 .. Len(new))
      /\ \A i \in 1 .. Len(new) : Weights(new)[i] = new[i].n /\ new[i].n \in Nat
      /\ SumOf(new) = Sum(Weights(new), 1 .. Len(new))
  BY SumOfIsSum
<1>. HIDE DEF w
<1>3. \A i \in 1 .. Len(new) : p[i] \in 1 .. Len(sqs)
  BY DEF Bijection, Injection
<1>4. \A i \in 1 .. Len(new) : v[i] = Weights(new)[i] /\ Weights(new)[i] \in Nat
  BY <1>1, <1>2, <1>3
<1>5. Sum(v, 1 .. Len(new)) = Sum(w, 1 .. Len(sqs))
  BY <1>1, <1>2, SumRenamed
<1>. HIDE DEF v
<1>6. Sum(v, 1 .. Len(new)) = Sum(Weights(new), 1 .. Len(new))
  BY <1>2, <1>4, SumOfEqual
<1>. QED BY <1>1, <1>2, <1>5, <1>6

\* What the squares of two sequences in a row have is what each of them has.
LEMMA SumOfConcat ==
  ASSUME NEW s \in Seq(SquareType), NEW t \in Seq(SquareType)
  PROVE  SumOf(s \o t) = SumOf(s) + SumOf(t)
<1>. DEFINE L == Len(s)
            M == Len(t)
            u == s \o t
            w == Weights(u)
            T == L + 1 .. L + M
            p == [i \in 1 .. M |-> L + i]
            q == [i \in 1 .. M |-> w[p[i]]]
<1>1. /\ L \in Nat /\ IsFiniteSet(1 .. L)
      /\ \A i \in 1 .. L : Weights(s)[i] = s[i].n /\ s[i].n \in Nat
      /\ SumOf(s) = Sum(Weights(s), 1 .. L)
  BY SumOfIsSum
<1>2. /\ M \in Nat /\ IsFiniteSet(1 .. M)
      /\ \A i \in 1 .. M : Weights(t)[i] = t[i].n /\ t[i].n \in Nat
      /\ SumOf(t) = Sum(Weights(t), 1 .. M)
  BY SumOfIsSum
<1>3. /\ u \in Seq(SquareType) /\ Len(u) = L + M
      /\ \A i \in 1 .. L + M : u[i] = IF i <= L THEN s[i] ELSE t[i - L]
  BY ConcatProperties
<1>. HIDE DEF u
<1>4. /\ IsFiniteSet(1 .. L + M)
      /\ \A i \in 1 .. L + M : w[i] = u[i].n /\ u[i].n \in Nat
      /\ SumOf(u) = Sum(w, 1 .. L + M)
  BY <1>3, SumOfIsSum
<1>. HIDE DEF w, L, M
<1>5. T \in SUBSET (1 .. L + M) /\ (1 .. L + M) \ T = 1 .. L
  BY <1>1, <1>2
<1>6. Sum(w, 1 .. L + M) = Sum(w, 1 .. L) + Sum(w, T)
  <2>. DEFINE S == 1 .. L + M
  <2>1. IsFiniteSet(S) /\ (\A i \in S : w[i] \in Nat) /\ T \in SUBSET S /\ S \ T = 1 .. L
    BY <1>4, <1>5
  <2>. HIDE DEF S, T
  <2>2. Sum(w, S) = Sum(w, S \ T) + Sum(w, T)
    BY <2>1, SumOfUnion
  <2>. QED BY <2>1, <2>2 DEF S
<1>7. Sum(w, 1 .. L) = Sum(Weights(s), 1 .. L)
  <2>1. \A i \in 1 .. L : w[i] = Weights(s)[i] /\ Weights(s)[i] \in Nat
    <3>. SUFFICES ASSUME NEW i \in 1 .. L PROVE w[i] = Weights(s)[i] /\ Weights(s)[i] \in Nat
      OBVIOUS
    <3>1. i \in 1 .. L + M /\ i <= L
      BY <1>1, <1>2
    <3>. QED BY <1>1, <1>3, <1>4, <3>1
  <2>. QED BY <1>1, <2>1, SumOfEqual
<1>8. p \in Bijection(1 .. M, T)
  <2>1. p \in [1 .. M -> T]
    BY <1>1, <1>2
  <2>2. \A i \in 1 .. M, j \in 1 .. M : p[i] = p[j] => i = j
    BY <1>1, <1>2
  <2>3. \A k \in T : k - L \in 1 .. M /\ p[k - L] = k
    BY <1>1, <1>2
  <2>4. \A k \in T : \E i \in 1 .. M : p[i] = k
    BY <2>3
  <2>. HIDE DEF p, T
  <2>. QED BY <2>1, <2>2, <2>4 DEF Bijection, Injection, Surjection, IsInjective
<1>9. Sum(q, 1 .. M) = Sum(w, T)
  <2>1. \A i \in T : w[i] \in Nat
    BY <1>4, <1>5
  <2>. HIDE DEF p, T
  <2>. QED BY <1>2, <1>8, <2>1, SumRenamed
<1>10. Sum(q, 1 .. M) = Sum(Weights(t), 1 .. M)
  <2>1. \A i \in 1 .. M : q[i] = Weights(t)[i] /\ Weights(t)[i] \in Nat
    <3>. SUFFICES ASSUME NEW i \in 1 .. M PROVE q[i] = Weights(t)[i] /\ Weights(t)[i] \in Nat
      OBVIOUS
    <3>1. L + i \in 1 .. L + M /\ ~(L + i <= L) /\ (L + i) - L = i /\ q[i] = w[L + i]
      BY <1>1, <1>2
    <3>. QED BY <1>2, <1>3, <1>4, <3>1
  <2>. HIDE DEF q
  <2>. QED BY <1>2, <2>1, SumOfEqual
<1>. QED BY <1>1, <1>2, <1>4, <1>6, <1>7, <1>9, <1>10 DEF u

\* The squares without one of them have its edges less.
LEMMA SumOfRemoveAt ==
  ASSUME NEW sqs \in Seq(SquareType), NEW k \in 1 .. Len(sqs)
  PROVE  SumOf(sqs) = SumOf(RemoveAt(sqs, k)) + sqs[k].n /\ SumOf(RemoveAt(sqs, k)) \in Nat
<1>. DEFINE r == RemoveAt(sqs, k)
            w == Weights(sqs)
            S == 1 .. Len(sqs)
            M == Len(r)
            p == [i \in 1 .. M |-> IF i < k THEN i ELSE i + 1]
            q == [i \in 1 .. M |-> w[p[i]]]
<1>1. /\ Len(sqs) \in Nat /\ IsFiniteSet(S)
      /\ \A i \in S : w[i] = sqs[i].n /\ sqs[i].n \in Nat
      /\ SumOf(sqs) = Sum(w, S)
  BY SumOfIsSum
<1>2. /\ r \in Seq(SquareType) /\ M = Len(sqs) - 1 /\ M \in Nat
      /\ \A i \in 1 .. Len(sqs) - 1 : r[i] = IF i < k THEN sqs[i] ELSE sqs[i + 1]
  BY <1>1, RemoveAtFacts
<1>. HIDE DEF r
<1>3. /\ IsFiniteSet(1 .. M)
      /\ \A i \in 1 .. M : Weights(r)[i] = r[i].n /\ r[i].n \in Nat
      /\ SumOf(r) = Sum(Weights(r), 1 .. M)
  BY <1>2, SumOfIsSum
<1>. HIDE DEF w, M
<1>4. \A i \in S : w[i] \in Nat
  BY <1>1
<1>5. Sum(w, S) = Sum(w, S \ {k}) + w[k]
  <2>. HIDE DEF S
  <2>1. k \in S
    BY DEF S
  <2>. QED BY <1>1, <1>4, <2>1, SumLaws
<1>6. p \in Bijection(1 .. M, S \ {k})
  <2>1. p \in [1 .. M -> S \ {k}]
    BY <1>1, <1>2
  <2>2. \A i \in 1 .. M, j \in 1 .. M : p[i] = p[j] => i = j
    BY <1>1, <1>2
  <2>3. ASSUME NEW j \in S \ {k} PROVE \E i \in 1 .. M : p[i] = j
    <3>1. CASE j < k
      <4>1. j \in 1 .. M /\ p[j] = j
        BY <1>1, <1>2, <3>1
      <4>. QED BY <4>1
    <3>2. CASE ~(j < k)
      <4>1. j - 1 \in 1 .. M /\ p[j - 1] = j
        BY <1>1, <1>2, <3>2
      <4>. QED BY <4>1
    <3>. QED BY <3>1, <3>2
  <2>. HIDE DEF p
  <2>. QED BY <2>1, <2>2, <2>3 DEF Bijection, Injection, Surjection, IsInjective
<1>7. Sum(q, 1 .. M) = Sum(w, S \ {k})
  <2>1. \A i \in S \ {k} : w[i] \in Nat
    BY <1>4
  <2>. HIDE DEF p, S
  <2>. QED BY <1>3, <1>6, <2>1, SumRenamed
<1>8. Sum(q, 1 .. M) = Sum(Weights(r), 1 .. M)
  <2>1. \A i \in 1 .. M : q[i] = Weights(r)[i] /\ Weights(r)[i] \in Nat
    <3>. SUFFICES ASSUME NEW i \in 1 .. M PROVE q[i] = Weights(r)[i] /\ Weights(r)[i] \in Nat
      OBVIOUS
    <3>1. p[i] \in S /\ r[i] = sqs[p[i]] /\ q[i] = w[p[i]]
      BY <1>1, <1>2
    <3>. HIDE DEF p, q
    <3>. QED BY <1>1, <1>3, <3>1
  <2>. HIDE DEF q
  <2>. QED BY <1>3, <2>1, SumOfEqual
<1>9. SumOf(r) \in Nat
  <2>1. \A i \in 1 .. M : Weights(r)[i] \in Nat
    BY <1>3
  <2>. QED BY <1>3, <2>1, SumLaws
<1>. QED BY <1>1, <1>3, <1>5, <1>7, <1>8, <1>9 DEF r

\* The edges of one square, and of squares with one more at the end.
LEMMA SumOfAppend ==
  ASSUME NEW s \in Seq(SquareType), NEW e \in SquareType
  PROVE  /\ Append(s, e) \in Seq(SquareType)
         /\ SumOf(Append(s, e)) = SumOf(s) + e.n
         /\ SumOf(s) \in Nat
<1>. DEFINE t == <<e>>
            w == Weights(t)
<1>1. t \in Seq(SquareType) /\ Len(t) = 1 /\ t[1] = e /\ Append(s, e) = s \o t
  OBVIOUS
<1>. HIDE DEF t
<1>2. /\ IsFiniteSet(1 .. Len(t)) /\ SumOf(t) = Sum(w, 1 .. Len(t))
      /\ \A i \in 1 .. Len(t) : w[i] = t[i].n /\ t[i].n \in Nat
  BY <1>1, SumOfIsSum
<1>. HIDE DEF w
<1>3. 1 .. Len(t) = {1} /\ w[1] = e.n /\ e.n \in Nat
  BY <1>1, <1>2
<1>4. Sum(w, {1}) = Sum(w, {1} \ {1}) + w[1]
  BY <1>2, <1>3, SumLaws
<1>5. Sum(w, {1} \ {1}) = 0
  <2>1. {1} \ {1} = {} /\ IsFiniteSet({})
    BY FS_EmptySet
  <2>. QED BY <2>1, SumLaws
<1>6. SumOf(t) = e.n
  <2>1. SumOf(t) = Sum(w, {1})
    BY <1>2, <1>3
  <2>2. Sum(w, {1}) = 0 + e.n
    BY <1>3, <1>4, <1>5
  <2>. QED BY <1>3, <2>1, <2>2
<1>7. SumOf(s) \in Nat
  <2>1. /\ IsFiniteSet(1 .. Len(s)) /\ SumOf(s) = Sum(Weights(s), 1 .. Len(s))
        /\ \A i \in 1 .. Len(s) : Weights(s)[i] \in Nat
    BY SumOfIsSum
  <2>. QED BY <2>1, SumLaws
<1>8. SumOf(s \o t) = SumOf(s) + SumOf(t)
  BY <1>1, SumOfConcat
<1>9. s \o t \in Seq(SquareType)
  BY <1>1, ConcatProperties
<1>. QED BY <1>1, <1>6, <1>7, <1>8, <1>9

\* No square, no edge.
LEMMA SumOfNone == SumOf(<< >>) = 0 /\ << >> \in Seq(SquareType)
<1>. DEFINE t == << >>
            w == Weights(t)
<1>1. t \in Seq(SquareType) /\ 1 .. Len(t) = {}
  OBVIOUS
<1>. HIDE DEF t
<1>2. IsFiniteSet(1 .. Len(t)) /\ SumOf(t) = Sum(w, 1 .. Len(t))
  BY <1>1, SumOfIsSum
<1>. HIDE DEF w
<1>. QED BY <1>1, <1>2, SumLaws DEF t

\* The squares a matrix starts with.
LEMMA SumOfFirst ==
  ASSUME NEW s \in SquareType
  PROVE  SumOf(<<s>>) = s.n
<1>1. <<s>> = Append(<< >>, s) /\ s.n \in Nat
  BY DEF SquareType
<1>2. SumOf(Append(<< >>, s)) = SumOf(<< >>) + s.n
  BY SumOfNone, SumOfAppend
<1>. QED BY <1>1, <1>2, SumOfNone

\* The parts of a square have its edges.
LEMMA SumOfParts ==
  ASSUME NEW s \in SquareType, Sides(s), NEW directed \in BOOLEAN,
         NEW a \in Nat, NEW b \in Nat, NEW c \in Nat, a + b + c <= s.n
  PROVE  SumOf(Parts(s, a, b, c, directed)) = s.n
<1>. DEFINE d == s.n - a - b - c
            A == Get_part(s, 0, a)
            B == Get_part(s, 1, b)
            C == Get_part(s, 2, c)
            D == Get_part(s, 3, d)
            CB == [C EXCEPT !.n = @ + b]
<1>1. s.n \in Nat /\ d \in Nat /\ a + b + c + d = s.n
  BY DEF SquareType
<1>. HIDE DEF d
<1>2. \A p \in 0 .. 3, m \in Nat : Get_part(s, p, m) \in SquareType /\ Get_part(s, p, m).n = m
  BY PartSides
<1>3. /\ A \in SquareType /\ A.n = a /\ B \in SquareType /\ B.n = b
      /\ C \in SquareType /\ C.n = c /\ D \in SquareType /\ D.n = d
  BY <1>1, <1>2
<1>. HIDE DEF A, B, C, D
<1>4. CB \in SquareType /\ CB.n = c + b
  BY <1>3 DEF SquareType
<1>. HIDE DEF CB
<1>5. CASE ~directed /\ s.xe = s.ye
  <2>1. Parts(s, a, b, c, directed) = <<A, CB, D>>
    BY <1>3, <1>5 DEF Parts, MergeBIntoC, A, B, C, D, CB, d
  <2>2. <<A>> \in Seq(SquareType) /\ SumOf(<<A>>) = a
    BY <1>3, SumOfFirst
  <2>3. <<A, CB>> \in Seq(SquareType) /\ SumOf(<<A, CB>>) = a + (c + b)
    <3>1. <<A, CB>> = Append(<<A>>, CB)
      OBVIOUS
    <3>. QED BY <1>4, <2>2, <3>1, SumOfAppend
  <2>4. SumOf(<<A, CB, D>>) = a + (c + b) + d
    <3>1. <<A, CB, D>> = Append(<<A, CB>>, D)
      OBVIOUS
    <3>. QED BY <1>3, <2>3, <3>1, SumOfAppend
  <2>. QED BY <1>1, <2>1, <2>4
<1>6. CASE directed \/ s.xe # s.ye
  <2>1. Parts(s, a, b, c, directed) = <<A, B, C, D>>
    BY <1>3, <1>6 DEF Parts, A, B, C, D, d
  <2>2. <<A>> \in Seq(SquareType) /\ SumOf(<<A>>) = a
    BY <1>3, SumOfFirst
  <2>3. <<A, B>> \in Seq(SquareType) /\ SumOf(<<A, B>>) = a + b
    <3>1. <<A, B>> = Append(<<A>>, B)
      OBVIOUS
    <3>. QED BY <1>3, <2>2, <3>1, SumOfAppend
  <2>4. <<A, B, C>> \in Seq(SquareType) /\ SumOf(<<A, B, C>>) = a + b + c
    <3>1. <<A, B, C>> = Append(<<A, B>>, C)
      OBVIOUS
    <3>. QED BY <1>3, <2>3, <3>1, SumOfAppend
  <2>5. SumOf(<<A, B, C, D>>) = a + b + c + d
    <3>1. <<A, B, C, D>> = Append(<<A, B, C>>, D)
      OBVIOUS
    <3>. QED BY <1>3, <2>4, <3>1, SumOfAppend
  <2>. QED BY <1>1, <2>1, <2>5
<1>. QED BY <1>5, <1>6

-----------------------------------------------------------------------------
\* The squares at some places, the others without edges: what is known of the
\* sum of a sequence says something of the sum at some places.
Masked(sqs, I) ==
  [i \in 1 .. Len(sqs) |-> IF i \in I THEN sqs[i] ELSE [sqs[i] EXCEPT !.n = 0]]

LEMMA MaskedFacts ==
  ASSUME NEW sqs \in Seq(SquareType), NEW I \in SUBSET (1 .. Len(sqs))
  PROVE  /\ Masked(sqs, I) \in Seq(SquareType) /\ Len(Masked(sqs, I)) = Len(sqs)
         /\ \A i \in 1 .. Len(sqs) : Masked(sqs, I)[i].n = IF i \in I THEN sqs[i].n ELSE 0
<1>1. Len(sqs) \in Nat /\ \A i \in 1 .. Len(sqs) : sqs[i] \in SquareType
  BY LenProperties
<1>2. \A i \in 1 .. Len(sqs) :
        [sqs[i] EXCEPT !.n = 0] \in SquareType /\ [sqs[i] EXCEPT !.n = 0].n = 0
  BY <1>1 DEF SquareType
<1>3. \A i \in 1 .. Len(sqs) :
        (IF i \in I THEN sqs[i] ELSE [sqs[i] EXCEPT !.n = 0]) \in SquareType
  BY <1>1, <1>2
<1>. QED BY <1>1, <1>2, <1>3 DEF Masked

\* The edges at some places, as those of a sequence; more places, more edges.
LEMMA SumAtMasked ==
  ASSUME NEW sqs \in Seq(SquareType), NEW I \in SUBSET (1 .. Len(sqs))
  PROVE  SumAt(sqs, I) = SumOf(Masked(sqs, I)) /\ SumAt(sqs, I) \in Nat
<1>. DEFINE D == 1 .. Len(sqs)
            u == Masked(sqs, I)
            w == Weights(u)
<1>1. /\ IsFiniteSet(I) /\ SumAt(sqs, I) = Sum(Weights(sqs), I)
      /\ \A i \in I : Weights(sqs)[i] = sqs[i].n /\ sqs[i].n \in Nat
  BY SumAtIsSum
<1>2. /\ u \in Seq(SquareType) /\ Len(u) = Len(sqs)
      /\ \A i \in D : u[i].n = IF i \in I THEN sqs[i].n ELSE 0
  <2>1. u \in Seq(SquareType) /\ Len(u) = Len(sqs)
    BY MaskedFacts
  <2>2. ASSUME NEW i \in D PROVE u[i].n = IF i \in I THEN sqs[i].n ELSE 0
    BY MaskedFacts
  <2>. QED BY <2>1, <2>2
<1>. HIDE DEF u
<1>3. /\ IsFiniteSet(D) /\ SumOf(u) = Sum(w, D)
      /\ \A i \in D : w[i] = u[i].n /\ u[i].n \in Nat
  BY <1>2, SumOfIsSum
<1>. HIDE DEF w
<1>4. \A i \in D : w[i] \in Nat
  BY <1>3
<1>5. Sum(w, D) = Sum(w, D \ I) + Sum(w, I)
  <2>1. IsFiniteSet(D) /\ (\A i \in D : w[i] \in Nat) /\ I \in SUBSET D
    BY <1>3, <1>4
  <2>. HIDE DEF D
  <2>. QED BY <2>1, SumOfUnion
<1>6. Sum(w, D \ I) = 0
  <2>1. IsFiniteSet(D \ I)
    BY <1>3, FS_Subset
  <2>2. \A i \in D \ I : w[i] = 0
    BY <1>2, <1>3
  <2>. QED BY <2>1, <2>2, SumOfZeros
<1>7. Sum(w, I) = Sum(Weights(sqs), I)
  <2>1. \A i \in I : w[i] = Weights(sqs)[i] /\ Weights(sqs)[i] \in Nat
    BY <1>1, <1>2, <1>3
  <2>. QED BY <1>1, <2>1, SumOfEqual
<1>8. Sum(w, I) \in Nat
  <2>1. \A i \in I : w[i] \in Nat
    BY <1>4
  <2>. QED BY <1>1, <2>1, SumLaws
<1>. QED BY <1>1, <1>3, <1>5, <1>6, <1>7, <1>8 DEF u

\* The edges of some of the squares, and of the others.
LEMMA SumAtSplit ==
  ASSUME NEW sqs \in Seq(SquareType), NEW J \in SUBSET (1 .. Len(sqs)), NEW I \in SUBSET J
  PROVE  /\ SumAt(sqs, J) = SumAt(sqs, J \ I) + SumAt(sqs, I)
         /\ SumAt(sqs, J \ I) \in Nat /\ SumAt(sqs, I) \in Nat
<1>. DEFINE w == Weights(sqs)
<1>1. /\ IsFiniteSet(J) /\ SumAt(sqs, J) = Sum(w, J)
      /\ \A i \in J : w[i] = sqs[i].n /\ sqs[i].n \in Nat
  BY SumAtIsSum
<1>2. I \in SUBSET (1 .. Len(sqs)) /\ J \ I \in SUBSET (1 .. Len(sqs))
  OBVIOUS
<1>3. SumAt(sqs, I) = Sum(w, I) /\ SumAt(sqs, J \ I) = Sum(w, J \ I)
  BY <1>2, SumAtIsSum
<1>4. SumAt(sqs, I) \in Nat /\ SumAt(sqs, J \ I) \in Nat
  BY <1>2, SumAtMasked
<1>. HIDE DEF w
<1>5. \A i \in J : w[i] \in Nat
  BY <1>1
<1>6. Sum(w, J) = Sum(w, J \ I) + Sum(w, I)
  <2>1. IsFiniteSet(J) /\ (\A i \in J : w[i] \in Nat) /\ I \in SUBSET J
    BY <1>1, <1>5
  <2>. QED BY <2>1, SumOfUnion
<1>. QED BY <1>1, <1>3, <1>4, <1>6

\* Fewer squares have no more edges.
LEMMA SumAtSubset ==
  ASSUME NEW sqs \in Seq(SquareType), NEW J \in SUBSET (1 .. Len(sqs)), NEW I \in SUBSET J
  PROVE  SumAt(sqs, I) <= SumAt(sqs, J)
<1>. DEFINE r == SumAt(sqs, J \ I)
<1>1. SumAt(sqs, J) = r + SumAt(sqs, I) /\ r \in Nat /\ SumAt(sqs, I) \in Nat
  BY SumAtSplit
<1>. HIDE DEF r
<1>. QED BY <1>1

\* None at no place, all at all places.
LEMMA SumAtEnds ==
  ASSUME NEW sqs \in Seq(SquareType)
  PROVE  SumAt(sqs, {}) = 0 /\ SumAt(sqs, 1 .. Len(sqs)) = SumOf(sqs)
<1>1. {} \in SUBSET (1 .. Len(sqs))
  OBVIOUS
<1>2. IsFiniteSet({}) /\ SumAt(sqs, {}) = Sum(Weights(sqs), {})
  BY <1>1, SumAtIsSum
<1>3. SumAt(sqs, {}) = 0
  <2>. DEFINE w == Weights(sqs)
  <2>. HIDE DEF w
  <2>1. Sum(w, {}) = 0
    BY <1>2, SumLaws
  <2>. QED BY <1>2, <2>1 DEF w
<1>4. DOMAIN sqs = 1 .. Len(sqs)
  BY LenProperties
<1>. QED BY <1>3, <1>4 DEF SumOf

\* The edges of one square.
LEMMA SumAtSingle ==
  ASSUME NEW sqs \in Seq(SquareType), NEW h \in 1 .. Len(sqs)
  PROVE  SumAt(sqs, {h}) = sqs[h].n /\ sqs[h].n \in Nat
<1>. DEFINE w == Weights(sqs)
            J == {h}
<1>1. J \in SUBSET (1 .. Len(sqs)) /\ h \in J /\ J \ {h} = {}
  OBVIOUS
<1>. HIDE DEF J
<1>2. /\ IsFiniteSet(J) /\ SumAt(sqs, J) = Sum(w, J)
      /\ \A i \in J : w[i] = sqs[i].n /\ sqs[i].n \in Nat
  BY <1>1, SumAtIsSum
<1>. HIDE DEF w
<1>3. \A i \in J : w[i] \in Nat
  BY <1>2
<1>4. Sum(w, J) = Sum(w, J \ {h}) + w[h]
  BY <1>1, <1>2, <1>3, SumLaws
<1>5. Sum(w, {}) = 0
  <2>1. IsFiniteSet({}) /\ \A x \in {} : w[x] \in Nat
    BY FS_EmptySet
  <2>. QED BY <2>1, SumLaws
<1>6. w[h] = sqs[h].n /\ sqs[h].n \in Nat
  BY <1>1, <1>2
<1>7. SumAt(sqs, J) = 0 + sqs[h].n
  BY <1>1, <1>2, <1>4, <1>5, <1>6
<1>8. SumAt(sqs, J) = sqs[h].n
  BY <1>6, <1>7
<1>. QED BY <1>6, <1>8 DEF J

-----------------------------------------------------------------------------
\* Whether the square at j goes before that at k: by their places, and those
\* with the same place as they stand.
Ahead(sqs, j, k) ==
  GoesBefore(sqs[j], sqs[k]) \/ (j < k /\ ~GoesBefore(sqs[k], sqs[j]))

\* It is a strict total order.
LEMMA AheadIsOrder ==
  ASSUME NEW sqs \in Seq(SquareType),
         NEW i \in 1 .. Len(sqs), NEW j \in 1 .. Len(sqs), NEW k \in 1 .. Len(sqs)
  PROVE  /\ ~Ahead(sqs, k, k)
         /\ j # k => Ahead(sqs, j, k) \/ Ahead(sqs, k, j)
         /\ Ahead(sqs, i, j) /\ Ahead(sqs, j, k) => Ahead(sqs, i, k)
<1>. sqs[i] \in SquareType /\ sqs[j] \in SquareType /\ sqs[k] \in SquareType
  BY LenProperties
<1>1. /\ sqs[i].h \in Nat /\ sqs[i].v \in Nat /\ sqs[j].h \in Nat /\ sqs[j].v \in Nat
      /\ sqs[k].h \in Nat /\ sqs[k].v \in Nat
  BY DEF SquareType
<1>. QED BY <1>1 DEF Ahead, GoesBefore

\* Sorting only moves squares.
LEMMA SortedPermutes ==
  ASSUME NEW sqs \in Seq(SquareType)
  PROVE  /\ Sorted(sqs) \in Seq(SquareType) /\ Len(Sorted(sqs)) = Len(sqs)
         /\ \E p \in Bijection(1 .. Len(sqs), 1 .. Len(sqs)) :
              \A i \in 1 .. Len(sqs) : Sorted(sqs)[i] = sqs[p[i]]
<1>. DEFINE D == 1 .. Len(sqs)
            R == {q \in D \X D : Ahead(sqs, q[1], q[2])}
<1>1. DOMAIN sqs = D
  BY LenProperties
<1>2. StrictOrder(R, D)
  <2>1. \A j \in D, k \in D : <<j, k>> \in R <=> Ahead(sqs, j, k)
    OBVIOUS
  <2>. HIDE DEF R
  <2>2. \A x \in D : <<x, x>> \notin R
    BY <2>1, AheadIsOrder
  <2>3. \A x \in D, y \in D : x # y => <<x, y>> \in R \/ <<y, x>> \in R
    BY <2>1, AheadIsOrder
  <2>4. \A x \in D, y \in D, z \in D : <<x, y>> \in R /\ <<y, z>> \in R => <<x, z>> \in R
    BY <2>1, AheadIsOrder
  <2>. QED BY <2>2, <2>3, <2>4 DEF StrictOrder
<1>3. Sorted(sqs) = Rearranged(sqs, R)
  <2>1. \A k \in D : {j \in D : <<j, k>> \in R} = {j \in D : Ahead(sqs, j, k)}
    OBVIOUS
  <2>. HIDE DEF R
  <2>2. \A k \in D : RankIn(D, R, k) = Cardinality({j \in D : Ahead(sqs, j, k)})
    BY <2>1 DEF RankIn
  <2>3. Ranks(sqs, R) = [k \in D |-> Cardinality({j \in D : Ahead(sqs, j, k)})]
    BY <2>2 DEF Ranks
  <2>. QED BY <1>1, <2>3 DEF Rearranged, Sorted, SortedBy, Ahead
<1>. HIDE DEF R
<1>. QED BY <1>2, <1>3, RearrangedFacts

\* So it keeps the number of edges and the squares in place.
LEMMA SortedKeeps ==
  ASSUME NEW sqs \in Seq(SquareType), NEW directed \in BOOLEAN, NEW nV \in Nat
  PROVE  /\ SumOf(Sorted(sqs)) = SumOf(sqs)
         /\ Tiled(sqs, directed, nV) => Tiled(Sorted(sqs), directed, nV)
<1>. DEFINE new == Sorted(sqs)
            D == 1 .. Len(sqs)
<1>1. new \in Seq(SquareType) /\ Len(new) = Len(sqs)
  BY SortedPermutes
<1>2. PICK p \in Bijection(D, D) : \A i \in D : new[i] = sqs[p[i]]
  BY SortedPermutes
<1>. HIDE DEF new
<1>3. SumOf(new) = SumOf(sqs)
  BY <1>1, <1>2, SumOfRenamed
<1>4. /\ \A i \in D : p[i] \in D
      /\ \A i \in D, j \in D : p[i] = p[j] => i = j
      /\ \A k \in D : \E i \in D : p[i] = k
  BY DEF Bijection, Injection, Surjection, IsInjective
<1>5. ASSUME Tiled(sqs, directed, nV) PROVE Tiled(new, directed, nV)
  <2>1. \A i \in D : Sides(new[i])
    BY <1>2, <1>4, <1>5 DEF Tiled
  <2>2. ASSUME NEW i \in D, NEW j \in D, NEW x \in Nat, NEW y \in Nat,
               Covers(new[i], x, y), Covers(new[j], x, y)
        PROVE  i = j
    <3>1. /\ Covers(sqs[p[i]], x, y) /\ Covers(sqs[p[j]], x, y)
          /\ p[i] \in D /\ p[j] \in D
      BY <1>2, <1>4, <2>2
    <3>2. p[i] = p[j]
      BY <1>5, <3>1 DEF Tiled, Disjoint
    <3>. QED BY <1>4, <3>2
  <2>3. ASSUME NEW x \in 0 .. nV - 1, NEW y \in 0 .. nV - 1, directed \/ x <= y
        PROVE  \E i \in D : Covers(new[i], x, y)
    <3>1. PICK k \in D : Covers(sqs[k], x, y)
      BY <1>5, <2>3 DEF Tiled
    <3>. QED BY <1>2, <1>4, <3>1
  <2>. QED BY <1>1, <2>1, <2>2, <2>3 DEF Tiled, Disjoint
<1>. QED BY <1>3, <1>5 DEF new

\* There are three or four parts.
LEMMA PartsCount ==
  ASSUME NEW s, NEW a, NEW b, NEW c, NEW directed
  PROVE  Len(Parts(s, a, b, c, directed)) \in {3, 4}
BY DEF Parts, MergeBIntoC

\* Shattering a square keeps the number of edges and leaves every square in
\* place.
LEMMA ShatterKeeps ==
  ASSUME NEW sqs \in Seq(SquareType), NEW k \in 1 .. Len(sqs),
         NEW directed \in BOOLEAN, NEW nV \in Nat, Tiled(sqs, directed, nV),
         NEW new \in ShatterSquare(sqs, k, directed)
  PROVE  /\ new \in Seq(SquareType) /\ Len(sqs) \in Nat /\ Len(new) \in Nat
         /\ Len(new) >= Len(sqs) + 2
         /\ SumOf(new) = SumOf(sqs)
         /\ Tiled(new, directed, nV)
<1>. DEFINE s == sqs[k]
<1>1. PICK a \in PartEdges(s.n, 0), b \in PartEdges(s.n, 1), c \in PartEdges(s.n, 2) :
        new = RemoveAt(sqs, k) \o Parts(s, a, b, c, directed)
  BY DEF ShatterSquare
<1>2. s \in SquareType /\ s.n \in Nat /\ Sides(s) /\ Len(sqs) \in Nat
  <2>1. s \in SquareType /\ Len(sqs) \in Nat
    BY LenProperties
  <2>2. Sides(s)
    BY DEF Tiled
  <2>. QED BY <2>1, <2>2 DEF SquareType
<1>. HIDE DEF s
<1>3. a \in Nat /\ b \in Nat /\ c \in Nat /\ a + b + c <= s.n
  BY <1>2, PartsLeaveRest
<1>. DEFINE parts == Parts(s, a, b, c, directed)
<1>4. parts \in Seq(SquareType) /\ Tiles(parts, s, directed)
  BY <1>2, <1>3, PartsTile
<1>5. SumOf(parts) = s.n
  BY <1>2, <1>3, SumOfParts
<1>6. Len(parts) \in {3, 4}
  BY PartsCount
<1>. HIDE DEF parts
<1>7. /\ new \in Seq(SquareType) /\ Len(new) = Len(sqs) - 1 + Len(parts)
      /\ Tiled(new, directed, nV)
  BY <1>1, <1>4, ReplaceTiles DEF s, parts
<1>8. SumOf(new) = SumOf(RemoveAt(sqs, k)) + SumOf(parts)
  BY <1>1, <1>4, RemoveAtFacts, SumOfConcat DEF parts
<1>9. SumOf(sqs) = SumOf(RemoveAt(sqs, k)) + s.n
  BY SumOfRemoveAt DEF s
<1>10. Len(new) \in Nat /\ Len(new) >= Len(sqs) + 2
  <2>1. Len(new) = Len(sqs) - 1 + Len(parts)
    BY <1>7
  <2>2. Len(parts) = 3 \/ Len(parts) = 4
    BY <1>6
  <2>3. ASSUME NEW l \in Nat, NEW m \in {3, 4}, NEW n, n = l - 1 + m
        PROVE  n \in Nat /\ n >= l + 2
    BY <2>3
  <2>. HIDE DEF parts
  <2>. QED BY <1>2, <1>6, <2>1, <2>3
<1>. QED BY <1>2, <1>5, <1>7, <1>8, <1>9, <1>10

\* There is a square with the most edges.
LEMMA BiggestIsOne ==
  ASSUME squares \in Seq(SquareType), squares # << >>
  PROVE  Biggest \in 1 .. Len(squares)
<1>. DEFINE D == DOMAIN squares
            B == {n \in Nat : \A j \in D : squares[j].n <= n}
            M == {i \in D : \A j \in D : squares[j].n <= squares[i].n}
<1>1. /\ Len(squares) \in Nat /\ D = 1 .. Len(squares) /\ 1 \in D
      /\ IsFiniteSet(D)
      /\ \A j \in D : Weights(squares)[j] = squares[j].n /\ squares[j].n \in Nat
  BY SumOfIsSum, LenProperties, EmptySeq
<1>2. Sum(Weights(squares), D) \in B
  <2>1. \A j \in D : Weights(squares)[j] \in Nat
    BY <1>1
  <2>. HIDE DEF D
  <2>2. Sum(Weights(squares), D) \in Nat
    BY <1>1, <2>1, SumLaws
  <2>3. \A j \in D : Weights(squares)[j] <= Sum(Weights(squares), D)
    BY <1>1, <2>1, SumBoundsEach
  <2>. QED BY <1>1, <2>2, <2>3
<1>3. PICK m \in B : \A n \in B : m <= n
  BY <1>2, LeastOf
<1>4. PICK i \in D : squares[i].n = m
  <2>. SUFFICES ASSUME \A i \in D : squares[i].n # m PROVE FALSE
    OBVIOUS
  <2>1. \A j \in D : squares[j].n <= m - 1
    BY <1>1, <1>3
  <2>2. m - 1 \in Nat
    BY <1>1, <2>1
  <2>3. m - 1 \in B
    BY <2>1, <2>2
  <2>4. m \in Nat
    OBVIOUS
  <2>. HIDE DEF B
  <2>. QED BY <1>3, <2>3, <2>4
<1>5. i \in M
  BY <1>4
<1>6. M \subseteq Nat
  BY <1>1
<1>7. \E k \in M : \A j \in M : k <= j
  BY <1>5, <1>6, LeastOf
<1>8. Biggest \in M
  BY <1>7 DEF Biggest, Min
<1>. QED BY <1>1, <1>8

-----------------------------------------------------------------------------
\* What holds throughout the partition.
PartitionInv ==
  /\ PartitionTypeOK
  /\ squares # << >>
  /\ stage = "partitioned" => nLeft = 0
  /\ call.sorted \/ nLeft = 0
  /\ EdgesConserved
  /\ Tiled(squares, call.directedGraph, call.nVertices)

\* The one square of the matrix has all edges and all cells.
LEMMA PartitionInitInv ==
  PartitionInit => PartitionInv
<1>. SUFFICES ASSUME PartitionInit PROVE PartitionInv
  OBVIOUS
<1>1. /\ call \in Calls /\ call.nVertices \in Nat /\ call.nEdges \in Nat
      /\ call.directedGraph \in BOOLEAN
  BY CallsAssumption DEF PartitionInit
<1>. DEFINE s == [xs |-> 0, xe |-> call.nVertices, ys |-> 0, ye |-> call.nVertices,
                  n |-> call.nEdges, h |-> 0, v |-> 0]
<1>2. squares = <<s>> /\ s \in SquareType /\ s.n = call.nEdges
  BY <1>1 DEF PartitionInit, SquareType
<1>3. Sides(s) /\ \A x, y \in 0 .. call.nVertices - 1 : Covers(s, x, y)
  BY <1>1 DEF Sides, Covers
<1>. HIDE DEF s
<1>4. squares \in Seq(SquareType) /\ Len(squares) = 1 /\ squares[1] = s /\ squares # << >>
  BY <1>2
<1>5. EdgesConserved
  BY <1>2, SumOfFirst DEF EdgesConserved
<1>6. Tiled(squares, call.directedGraph, call.nVertices)
  BY <1>3, <1>4 DEF Tiled, Disjoint
<1>7. PartitionTypeOK
  BY <1>1, <1>4 DEF PartitionTypeOK, PartitionInit
<1>. QED BY <1>4, <1>5, <1>6, <1>7 DEF PartitionInv, PartitionInit

\* Each step of the partition keeps it.
LEMMA PartitionStepInv ==
  PartitionInv /\ PartitionStep => PartitionInv'
<1>. SUFFICES ASSUME PartitionInv, PartitionStep PROVE PartitionInv'
  OBVIOUS
<1>. USE DEF PartitionInv, PartitionTypeOK, EdgesConserved
<1>1. /\ call.directedGraph \in BOOLEAN /\ call.nVertices \in Nat
      /\ Len(squares) \in Nat /\ Len(squares) >= 1 /\ nLeft \in Nat
      /\ call' = call
  BY CallsAssumption, LenProperties, EmptySeq
     DEF PartitionStep, ShatterFirst, ShatterBiggest, BeginPass, ShatterNext, LeaveLoop, Shatter
<1>2. ASSUME NEW k \in 1 .. Len(squares),
             NEW new \in ShatterSquare(squares, k, call.directedGraph)
      PROVE  /\ new \in Seq(SquareType) /\ Len(new) \in Nat /\ Len(new) >= Len(squares) + 2
             /\ SumOf(new) = SumOf(squares)
             /\ Tiled(new, call.directedGraph, call.nVertices)
  BY <1>1, ShatterKeeps
<1>3. 1 \in 1 .. Len(squares)
  BY <1>1
<1>4. ASSUME NEW new \in Seq(SquareType), Len(new) >= 1 PROVE new # << >>
  BY <1>4, EmptySeq
<1>5. CASE ShatterFirst
  <2>1. PICK new \in ShatterSquare(squares, 1, call.directedGraph) : squares' = new
    BY <1>5 DEF ShatterFirst, Shatter
  <2>2. nLeft' = nLeft /\ stage' = stage
    BY <1>5 DEF ShatterFirst, Shatter
  <2>. QED BY <1>1, <1>2, <1>3, <1>4, <2>1, <2>2
<1>6. CASE ShatterBiggest
  <2>1. PICK new \in ShatterSquare(squares, Biggest, call.directedGraph) : squares' = new
    BY <1>6 DEF ShatterBiggest, Shatter
  <2>2. nLeft' = nLeft /\ stage' = stage
    BY <1>6 DEF ShatterBiggest, Shatter
  <2>3. Biggest \in 1 .. Len(squares)
    BY BiggestIsOne
  <2>. QED BY <1>1, <1>2, <1>4, <2>1, <2>2, <2>3
<1>7. CASE BeginPass
  <2>1. /\ call.sorted /\ nLeft' = Len(squares) /\ squares' = squares /\ stage' = stage
        /\ stage # "partitioned"
    BY <1>7 DEF BeginPass, GoesOn
  <2>. QED BY <1>1, <2>1
<1>8. CASE ShatterNext
  <2>1. PICK sqs \in ShatterSquare(squares, 1, call.directedGraph) :
               squares' = IF nLeft = 1 THEN Sorted(sqs) ELSE sqs
    BY <1>8 DEF ShatterNext, Shatter
  <2>2. nLeft > 0 /\ nLeft' = nLeft - 1 /\ stage' = stage
    BY <1>8 DEF ShatterNext, Shatter
  <2>3. /\ sqs \in Seq(SquareType) /\ Len(sqs) \in Nat /\ Len(sqs) >= Len(squares) + 2
        /\ SumOf(sqs) = SumOf(squares)
        /\ Tiled(sqs, call.directedGraph, call.nVertices)
    BY <1>2, <1>3
  <2>4. /\ Sorted(sqs) \in Seq(SquareType) /\ Len(Sorted(sqs)) = Len(sqs)
        /\ SumOf(Sorted(sqs)) = SumOf(squares)
        /\ Tiled(Sorted(sqs), call.directedGraph, call.nVertices)
    BY <1>1, <2>3, SortedPermutes, SortedKeeps
  <2>5. /\ squares' \in Seq(SquareType) /\ Len(squares') = Len(sqs)
        /\ SumOf(squares') = SumOf(squares)
        /\ Tiled(squares', call.directedGraph, call.nVertices)
    BY <2>1, <2>3, <2>4
  <2>. QED BY <1>1, <1>4, <2>2, <2>3, <2>5
<1>9. CASE LeaveLoop
  <2>1. nLeft = 0 /\ nLeft' = nLeft /\ squares' = squares /\ stage' \in {"spread", "partitioned"}
    BY <1>9 DEF LeaveLoop
  <2>. QED BY <1>1, <2>1
<1>. QED BY <1>5, <1>6, <1>7, <1>8, <1>9 DEF PartitionStep

\* Steps that are not of the partition leave what it knows alone.
LEMMA PartitionStutterInv ==
  PartitionInv /\ UNCHANGED partitionVars => PartitionInv'
BY DEF PartitionInv, PartitionTypeOK, EdgesConserved, partitionVars, Tiled, Disjoint, Sides, Covers

\* Squares in place do not overlap and leave nothing out.
LEMMA PartitionTiles ==
  PartitionInv => TilesMatrix
<1>. SUFFICES ASSUME PartitionInv,
                     NEW x \in 0 .. call.nVertices - 1, NEW y \in 0 .. call.nVertices - 1
              PROVE  LET holders == {i \in DOMAIN squares :
                                        /\ squares[i].xs <= x /\ x < squares[i].xe
                                        /\ squares[i].ys <= y /\ y < squares[i].ye}
                     IN  /\ Cardinality(holders) <= 1
                         /\ call.directedGraph \/ x <= y => holders # {}
  BY DEF TilesMatrix
<1>. DEFINE holders == {i \in DOMAIN squares : Covers(squares[i], x, y)}
<1>1. DOMAIN squares = 1 .. Len(squares) /\ x \in Nat /\ y \in Nat
  BY LenProperties DEF PartitionInv, PartitionTypeOK
<1>2. call.directedGraph \/ x <= y => holders # {}
  BY <1>1 DEF PartitionInv, Tiled
<1>3. \A i, j \in holders : i = j
  BY <1>1 DEF PartitionInv, Tiled, Disjoint
<1>4. Cardinality(holders) <= 1
  <2>1. CASE holders = {}
    <3>1. Cardinality(holders) = 0
      BY <2>1, FS_EmptySet
    <3>. QED BY <3>1
  <2>2. CASE holders # {}
    <3>1. PICK i : holders = {i}
      BY <1>3, <2>2
    <3>2. Cardinality({i}) = 1
      BY FS_Singleton
    <3>. HIDE DEF holders
    <3>. QED BY <3>1, <3>2
  <2>. QED BY <2>1, <2>2
<1>. QED BY <1>2, <1>4 DEF Covers

\* There are finitely many columns.
LEMMA ColumnsFinite ==
  ASSUME NEW sqs \in Seq(SquareType)
  PROVE  Cardinality({s.xs : s \in Range(sqs)}) \in Nat
<1>. DEFINE D == 1 .. Len(sqs)
            X == {s.xs : s \in Range(sqs)}
            f == [i \in D |-> sqs[i].xs]
<1>1. IsFiniteSet(D) /\ DOMAIN sqs = D
  BY SumOfIsSum, LenProperties
<1>2. X = {f[i] : i \in D}
  BY <1>1 DEF Range
<1>3. f \in Surjection(D, X)
  BY <1>2 DEF Surjection
<1>4. IsFiniteSet(X) /\ Cardinality(X) \in Nat
  <2>. HIDE DEF f, X, D
  <2>. QED BY <1>1, <1>3, FS_Surjection, FS_CardinalityType
<1>. QED BY <1>4

-----------------------------------------------------------------------------
\* During a pass m squares wait in front to be shattered, behind them are parts.
\* The column of a square is that of the pass before: its own as long as it
\* waits, that of the square it is a part of afterwards.
Column(sqs, m, i) == IF i <= m THEN sqs[i].h ELSE sqs[i].h \div 2
Places(sqs, m, C) == {i \in 1 .. Len(sqs) : Column(sqs, m, i) \in C}

\* X[c] is where column c starts, and column c - 1 ends.
Rising(X) == X \in [Nat -> Nat] /\ \A a, b \in Nat : a <= b => X[a] <= X[b]
StartAt(X, y) == {c \in Nat : X[c] = y}
InColumns(sqs, m, X) ==
  \A i \in 1 .. Len(sqs) :
    LET s == sqs[i]
    IN  <<s.xs, s.xe>> = IF i <= m THEN <<X[s.h], X[s.h + 1]>>
                         ELSE Half(X[s.h \div 2], X[s.h \div 2 + 1], s.h % 2)

\* Where the columns start when all have been divided.
Halved(X) ==
  [c \in Nat |-> IF c % 2 = 0 THEN X[c \div 2] ELSE (X[c \div 2] + X[c \div 2 + 1]) \div 2]

\* Halves of columns are columns of the halved ones.
LEMMA HalvesAreColumns ==
  ASSUME NEW X, Rising(X)
  PROVE  /\ Rising(Halved(X))
         /\ \A h \in Nat : Half(X[h \div 2], X[h \div 2 + 1], h % 2) = <<Halved(X)[h], Halved(X)[h + 1]>>
<1>. DEFINE Y == Halved(X)
            mid(g) == (X[g] + X[g + 1]) \div 2
<1>1. /\ X \in [Nat -> Nat] /\ \A a, b \in Nat : a <= b => X[a] <= X[b]
      /\ \A g \in Nat : X[g] \in Nat
  BY DEF Rising
<1>2. \A g \in Nat : mid(g) \in Nat /\ X[g] <= mid(g) /\ mid(g) <= X[g + 1]
  <2>. SUFFICES ASSUME NEW g \in Nat
                PROVE  mid(g) \in Nat /\ X[g] <= mid(g) /\ mid(g) <= X[g + 1]
    OBVIOUS
  <2>1. g + 1 \in Nat /\ X[g] \in Nat /\ X[g + 1] \in Nat /\ X[g] <= X[g + 1]
    BY <1>1
  <2>2. \A lo, hi \in Nat : lo <= hi => /\ (lo + hi) \div 2 \in Nat
                                        /\ lo <= (lo + hi) \div 2 /\ (lo + hi) \div 2 <= hi
    OBVIOUS
  <2>. QED BY <2>1, <2>2
<1>3. \A h \in Nat : Y[h] = IF h % 2 = 0 THEN X[h \div 2] ELSE mid(h \div 2)
  BY DEF Halved
<1>4. \A h \in Nat : h \div 2 \in Nat /\ h % 2 \in {0, 1} /\ h = 2 * (h \div 2) + (h % 2)
  OBVIOUS
<1>. HIDE DEF Y, mid
<1>5. \A h \in Nat : Y[h] \in Nat /\ X[h \div 2] <= Y[h] /\ Y[h] <= X[h \div 2 + 1]
  <2>. SUFFICES ASSUME NEW h \in Nat
                PROVE  Y[h] \in Nat /\ X[h \div 2] <= Y[h] /\ Y[h] <= X[h \div 2 + 1]
    OBVIOUS
  <2>1. PICK g \in Nat : g = h \div 2
    BY <1>4
  <2>2. Y[h] = X[g] \/ Y[h] = mid(g)
    BY <1>3, <2>1
  <2>3. g + 1 \in Nat /\ g <= g + 1 /\ X[g] \in Nat /\ X[g + 1] \in Nat /\ X[g] <= X[g + 1]
    BY <1>1
  <2>. QED BY <1>2, <2>1, <2>2, <2>3
<1>6. ASSUME NEW a \in Nat, NEW b \in Nat, a <= b PROVE Y[a] <= Y[b]
  <2>1. PICK f \in Nat, g \in Nat : f = a \div 2 /\ g = b \div 2
    BY <1>4
  <2>2. /\ Y[a] \in Nat /\ X[f] <= Y[a] /\ Y[a] <= X[f + 1]
        /\ Y[b] \in Nat /\ X[g] <= Y[b] /\ Y[b] <= X[g + 1]
    BY <1>5, <2>1
  <2>3. /\ a % 2 \in {0, 1} /\ a = 2 * f + (a % 2) /\ b % 2 \in {0, 1} /\ b = 2 * g + (b % 2)
    BY <1>4, <2>1
  <2>4. CASE f = g
    <3>1. a % 2 = 0 \/ a % 2 = b % 2
      BY <1>6, <2>3, <2>4
    <3>2. CASE a % 2 = 0
      BY <1>3, <2>1, <2>2, <2>4, <3>2
    <3>3. CASE a % 2 = b % 2
      <4>1. Y[a] = Y[b]
        BY <1>3, <2>1, <2>4, <3>3
      <4>. QED BY <2>2, <4>1
    <3>. QED BY <3>1, <3>2, <3>3
  <2>5. CASE f # g
    <3>1. f + 1 \in Nat /\ f + 1 <= g
      BY <1>6, <2>3, <2>5
    <3>2. X[f + 1] <= X[g] /\ X[f + 1] \in Nat /\ X[g] \in Nat
      BY <1>1, <3>1
    <3>. QED BY <2>2, <3>2
  <2>. QED BY <2>4, <2>5
<1>7. ASSUME NEW h \in Nat
      PROVE  Half(X[h \div 2], X[h \div 2 + 1], h % 2) = <<Y[h], Y[h + 1]>>
  <2>1. PICK g \in Nat : g = h \div 2
    BY <1>4
  <2>2. CASE h % 2 = 0
    <3>1. h + 1 \in Nat /\ (h + 1) % 2 = 1 /\ (h + 1) \div 2 = g
      BY <1>4, <2>1, <2>2
    <3>2. Y[h] = X[g] /\ Y[h + 1] = mid(g)
      BY <1>3, <2>1, <2>2, <3>1
    <3>3. Half(X[g], X[g + 1], 0) = <<X[g], mid(g)>>
      BY DEF Half, mid
    <3>. QED BY <2>1, <2>2, <3>2, <3>3
  <2>3. CASE h % 2 = 1
    <3>1. h + 1 \in Nat /\ (h + 1) % 2 = 0 /\ (h + 1) \div 2 = g + 1
      BY <1>4, <2>1, <2>3
    <3>2. Y[h] = mid(g) /\ Y[h + 1] = X[g + 1]
      BY <1>3, <2>1, <2>3, <3>1
    <3>3. Half(X[g], X[g + 1], 1) = <<mid(g), X[g + 1]>>
      BY DEF Half, mid
    <3>. QED BY <2>1, <2>3, <3>2, <3>3
  <2>. QED BY <1>4, <2>2, <2>3
<1>8. Y \in [Nat -> Nat]
  <2>1. Y = [h \in Nat |-> Y[h]]
    BY DEF Y, Halved
  <2>. QED BY <1>5, <2>1
<1>. QED BY <1>6, <1>7, <1>8 DEF Y, Rising

\* The parts of a square: their column, and that they are halves of its own.
LEMMA PartsColumns ==
  ASSUME NEW s \in SquareType, NEW a, NEW b, NEW c, NEW directed,
         NEW j \in 1 .. Len(Parts(s, a, b, c, directed))
  PROVE  LET t == Parts(s, a, b, c, directed)[j]
         IN  /\ t.h \in Nat /\ t.h \div 2 = s.h /\ t.h % 2 \in {0, 1}
             /\ <<t.xs, t.xe>> = Half(s.xs, s.xe, t.h % 2)
<1>. DEFINE d == s.n - a - b - c
            Good(t) == /\ t.h \in Nat /\ t.h \div 2 = s.h /\ t.h % 2 \in {0, 1}
                       /\ <<t.xs, t.xe>> = Half(s.xs, s.xe, t.h % 2)
<1>. HIDE DEF d
<1>1. ASSUME NEW p \in 0 .. 3, NEW n PROVE Good(Get_part(s, p, n))
  <2>. DEFINE u == IF p \in {1, 3} THEN 1 ELSE 0
              t == Get_part(s, p, n)
  <2>1. t.h = 2 * s.h + u /\ t.xs = Half(s.xs, s.xe, u)[1] /\ t.xe = Half(s.xs, s.xe, u)[2]
    BY DEF Get_part
  <2>2. u \in {0, 1} /\ s.h \in Nat
    BY DEF SquareType
  <2>. HIDE DEF u, t
  <2>3. t.h \in Nat /\ t.h \div 2 = s.h /\ t.h % 2 = u
    BY <2>1, <2>2
  <2>4. \E x, y : Half(s.xs, s.xe, u) = <<x, y>>
    BY DEF Half
  <2>5. <<t.xs, t.xe>> = Half(s.xs, s.xe, u)
    BY <2>1, <2>4
  <2>. QED BY <2>2, <2>3, <2>5 DEF t
<1>2. ASSUME NEW n, NEW m PROVE Good([Get_part(s, 2, n) EXCEPT !.n = m])
  <2>1. /\ [Get_part(s, 2, n) EXCEPT !.n = m].h = Get_part(s, 2, n).h
        /\ [Get_part(s, 2, n) EXCEPT !.n = m].xs = Get_part(s, 2, n).xs
        /\ [Get_part(s, 2, n) EXCEPT !.n = m].xe = Get_part(s, 2, n).xe
    BY DEF Get_part
  <2>2. Good(Get_part(s, 2, n))
    BY <1>1
  <2>. QED BY <2>1, <2>2
<1>. HIDE DEF Good
<1>. DEFINE A == Get_part(s, 0, a)
            B == Get_part(s, 1, b)
            C == Get_part(s, 2, c)
            D == Get_part(s, 3, d)
            CB == [C EXCEPT !.n = @ + B.n]
            parts == Parts(s, a, b, c, directed)
<1>3. Good(A) /\ Good(B) /\ Good(C) /\ Good(D)
  BY <1>1
<1>4. Good(CB)
  BY <1>2
<1>. HIDE DEF A, B, C, D, CB
<1>5. parts = IF ~directed /\ s.xe = s.ye THEN <<A, CB, D>> ELSE <<A, B, C, D>>
  BY DEF Parts, MergeBIntoC, A, B, C, D, CB, d
<1>6. Good(parts[j])
  <2>1. CASE parts = <<A, CB, D>>
    <3>. HIDE DEF parts
    <3>. QED BY <1>3, <1>4, <2>1 DEF parts
  <2>2. CASE parts = <<A, B, C, D>>
    <3>. HIDE DEF parts
    <3>. QED BY <1>3, <2>2 DEF parts
  <2>. QED BY <1>5, <2>1, <2>2
<1>. QED BY <1>6 DEF Good

\* A pass shatters the square in front: its parts are in its column, which has
\* the same edges then, and they are halves of what it spans.
LEMMA ShatterKeepsColumns ==
  ASSUME NEW sqs \in Seq(SquareType), NEW m \in 1 .. Len(sqs), NEW parts \in Seq(SquareType),
         SumOf(parts) = sqs[1].n,
         \A j \in 1 .. Len(parts) :
           LET t == parts[j]
           IN  /\ t.h \in Nat /\ t.h \div 2 = sqs[1].h /\ t.h % 2 \in {0, 1}
               /\ <<t.xs, t.xe>> = Half(sqs[1].xs, sqs[1].xe, t.h % 2)
  PROVE  LET new == RemoveAt(sqs, 1) \o parts
         IN  /\ \A C : SumAt(new, Places(new, m - 1, C)) = SumAt(sqs, Places(sqs, m, C))
             /\ \A X : InColumns(sqs, m, X) => InColumns(new, m - 1, X)
<1>. DEFINE L == Len(sqs)
            P == Len(parts)
            rest == RemoveAt(sqs, 1)
            new == rest \o parts
            s == sqs[1]
<1>1. L \in Nat /\ P \in Nat /\ 1 \in 1 .. L /\ m \in Nat /\ s \in SquareType /\ s.n \in Nat
  <2>1. L \in Nat /\ P \in Nat /\ 1 \in 1 .. L
    BY LenProperties
  <2>2. s \in SquareType /\ m \in Nat
    BY <2>1
  <2>. HIDE DEF s
  <2>3. s.n \in Nat
    BY <2>2 DEF SquareType
  <2>. QED BY <2>1, <2>2, <2>3
<1>2. /\ rest \in Seq(SquareType) /\ Len(rest) = L - 1
      /\ \A i \in 1 .. L - 1 : rest[i] = sqs[i + 1]
  BY <1>1, RemoveAtFacts
<1>. HIDE DEF rest
<1>3. /\ new \in Seq(SquareType) /\ Len(new) = (L - 1) + P
      /\ \A i \in 1 .. (L - 1) + P : new[i] = IF i <= L - 1 THEN sqs[i + 1] ELSE parts[i - (L - 1)]
  <2>1. /\ new \in Seq(SquareType) /\ Len(new) = (L - 1) + P
        /\ \A i \in 1 .. (L - 1) + P : new[i] = IF i <= L - 1 THEN rest[i] ELSE parts[i - (L - 1)]
    <3>. HIDE DEF L, P
    <3>1. /\ new \in Seq(SquareType) /\ Len(new) = Len(rest) + Len(parts)
          /\ \A i \in 1 .. Len(rest) + Len(parts) :
               new[i] = IF i <= Len(rest) THEN rest[i] ELSE parts[i - Len(rest)]
      BY <1>2, ConcatProperties
    <3>. QED BY <1>2, <3>1 DEF P
  <2>. QED BY <1>1, <1>2, <2>1
<1>. HIDE DEF new
<1>4. ASSUME NEW i \in 1 .. (L - 1) + P
      PROVE  /\ i <= L - 1 => /\ i + 1 \in 1 .. L /\ new[i] = sqs[i + 1]
                              /\ i <= m - 1 <=> i + 1 <= m
                              /\ Column(new, m - 1, i) = Column(sqs, m, i + 1)
             /\ i > L - 1 => /\ i - (L - 1) \in 1 .. P /\ new[i] = parts[i - (L - 1)]
                             /\ ~(i <= m - 1)
                             /\ Column(new, m - 1, i) = s.h
  <2>1. CASE i <= L - 1
    <3>1. i + 1 \in 1 .. L /\ new[i] = sqs[i + 1] /\ (i <= m - 1 <=> i + 1 <= m)
      BY <1>1, <1>3, <2>1
    <3>. QED BY <1>1, <2>1, <3>1 DEF Column
  <2>2. CASE i > L - 1
    <3>1. i - (L - 1) \in 1 .. P /\ new[i] = parts[i - (L - 1)] /\ ~(i <= m - 1) /\ ~(i <= L - 1)
      <4>1. m <= L
        OBVIOUS
      <4>. HIDE DEF L, P
      <4>2. i - (L - 1) \in 1 .. P /\ ~(i <= m - 1) /\ ~(i <= L - 1)
        BY <1>1, <2>2, <4>1
      <4>. QED BY <1>3, <4>2
    <3>2. parts[i - (L - 1)].h \div 2 = s.h
      BY <3>1
    <3>. QED BY <3>1, <3>2 DEF Column
  <2>. QED BY <1>1, <2>1, <2>2
<1>5. ASSUME NEW C
      PROVE  SumAt(new, Places(new, m - 1, C)) = SumAt(sqs, Places(sqs, m, C))
  <2>. DEFINE I == Places(sqs, m, C)
              J == Places(new, m - 1, C)
              Q == IF s.h \in C THEN 1 .. P ELSE {}
              u == Masked(sqs, I)
              v == Masked(new, J)
              p == Masked(parts, Q)
              r == RemoveAt(u, 1)
  <2>1. /\ I \in SUBSET (1 .. L) /\ J \in SUBSET (1 .. Len(new)) /\ Q \in SUBSET (1 .. P)
    BY DEF Places
  <2>2. /\ u \in Seq(SquareType) /\ Len(u) = L /\ SumOf(u) = SumAt(sqs, I)
        /\ v \in Seq(SquareType) /\ Len(v) = (L - 1) + P /\ SumOf(v) = SumAt(new, J)
        /\ p \in Seq(SquareType) /\ Len(p) = P /\ SumOf(p) = SumAt(parts, Q)
    <3>1. u \in Seq(SquareType) /\ Len(u) = L /\ SumOf(u) = SumAt(sqs, I)
      BY <2>1, MaskedFacts, SumAtMasked
    <3>2. v \in Seq(SquareType) /\ Len(v) = (L - 1) + P /\ SumOf(v) = SumAt(new, J)
      <4>. HIDE DEF J, L, P
      <4>. QED BY <1>3, <2>1, MaskedFacts, SumAtMasked
    <3>3. p \in Seq(SquareType) /\ Len(p) = P /\ SumOf(p) = SumAt(parts, Q)
      <4>. HIDE DEF Q
      <4>. QED BY <2>1, MaskedFacts, SumAtMasked
    <3>. QED BY <3>1, <3>2, <3>3
  <2>3. u[1].n = IF s.h \in C THEN s.n ELSE 0
    <3>1. u[1].n = IF 1 \in I THEN s.n ELSE 0
      BY <1>1, <2>1, MaskedFacts
    <3>2. 1 \in I <=> s.h \in C
      BY <1>1 DEF Places, Column
    <3>. QED BY <3>1, <3>2
  <2>4. SumOf(p) = IF s.h \in C THEN s.n ELSE 0
    BY <2>2, SumAtEnds
  <2>5. /\ r \in Seq(SquareType) /\ Len(r) = L - 1 /\ \A i \in 1 .. L - 1 : r[i] = u[i + 1]
        /\ SumOf(u) = SumOf(r) + u[1].n
    <3>. HIDE DEF u
    <3>. QED BY <1>1, <2>2, RemoveAtFacts, SumOfRemoveAt
  <2>6. v = r \o p
    <3>. DEFINE x == r \o p
    <3>1. /\ x \in Seq(SquareType) /\ Len(x) = (L - 1) + P
          /\ \A i \in 1 .. (L - 1) + P : x[i] = IF i <= L - 1 THEN r[i] ELSE p[i - (L - 1)]
      <4>. HIDE DEF r, p, u, v, I, J, Q
      <4>1. /\ x \in Seq(SquareType) /\ Len(x) = Len(r) + Len(p)
            /\ \A i \in 1 .. Len(r) + Len(p) : x[i] = IF i <= Len(r) THEN r[i] ELSE p[i - Len(r)]
        BY <2>2, <2>5, ConcatProperties
      <4>. HIDE DEF x, L, P
      <4>. QED BY <2>2, <2>5, <4>1
    <3>2. ASSUME NEW i \in 1 .. (L - 1) + P PROVE v[i] = x[i]
      <4>1. v[i] = IF i \in J THEN new[i] ELSE [new[i] EXCEPT !.n = 0]
        BY <1>3 DEF Masked
      <4>2. CASE i <= L - 1
        <5>1. /\ i + 1 \in 1 .. L /\ new[i] = sqs[i + 1]
              /\ Column(new, m - 1, i) = Column(sqs, m, i + 1)
          BY <1>4, <4>2
        <5>2. i \in J <=> i + 1 \in I
          BY <1>3, <5>1 DEF Places
        <5>3. u[i + 1] = IF i + 1 \in I THEN sqs[i + 1] ELSE [sqs[i + 1] EXCEPT !.n = 0]
          BY <5>1 DEF Masked
        <5>4. x[i] = u[i + 1]
          <6>. HIDE DEF x, u
          <6>1. i \in 1 .. L - 1
            BY <1>1, <4>2
          <6>. QED BY <2>5, <3>1, <4>2, <6>1
        <5>. HIDE DEF u, v, x, I, J
        <5>. QED BY <4>1, <5>1, <5>2, <5>3, <5>4
      <4>3. CASE i > L - 1
        <5>1. /\ i - (L - 1) \in 1 .. P /\ new[i] = parts[i - (L - 1)]
              /\ Column(new, m - 1, i) = s.h
          BY <1>4, <4>3
        <5>2. i \in J <=> i - (L - 1) \in Q
          BY <1>3, <5>1 DEF Places
        <5>3. p[i - (L - 1)] = IF i - (L - 1) \in Q THEN parts[i - (L - 1)]
                               ELSE [parts[i - (L - 1)] EXCEPT !.n = 0]
          BY <5>1 DEF Masked
        <5>4. x[i] = p[i - (L - 1)]
          <6>. HIDE DEF x, p
          <6>1. ~(i <= L - 1)
            BY <1>1, <4>3
          <6>. QED BY <3>1, <6>1
        <5>. HIDE DEF p, v, x, Q, J
        <5>. QED BY <4>1, <5>1, <5>2, <5>3, <5>4
      <4>4. i <= L - 1 \/ i > L - 1
        BY <1>1
      <4>. QED BY <4>2, <4>3, <4>4
    <3>. HIDE DEF v, x
    <3>3. v = [i \in 1 .. (L - 1) + P |-> v[i]] /\ x = [i \in 1 .. (L - 1) + P |-> x[i]]
      BY <2>2, <3>1
    <3>. QED BY <3>2, <3>3 DEF x
  <2>7. SumOf(v) = SumOf(r) + SumOf(p)
    <3>. HIDE DEF r, p, v
    <3>. QED BY <2>2, <2>5, <2>6, SumOfConcat
  <2>8. SumOf(r) \in Nat
    <3>. HIDE DEF u
    <3>. QED BY <1>1, <2>2, SumOfRemoveAt
  <2>. HIDE DEF u, v, p, r, I, J, Q
  <2>9. SumOf(u) = SumOf(v)
    BY <1>1, <2>3, <2>4, <2>5, <2>7, <2>8
  <2>. QED BY <2>2, <2>9 DEF I, J
<1>6. ASSUME NEW X, InColumns(sqs, m, X) PROVE InColumns(new, m - 1, X)
  <2>. DEFINE Span(t) == <<t.xs, t.xe>>
  <2>1. \A i \in 1 .. L :
          Span(sqs[i]) = IF i <= m THEN <<X[sqs[i].h], X[sqs[i].h + 1]>>
                         ELSE Half(X[sqs[i].h \div 2], X[sqs[i].h \div 2 + 1], sqs[i].h % 2)
    BY <1>6 DEF InColumns
  <2>2. Span(s) = <<X[s.h], X[s.h + 1]>>
    <3>1. 1 <= m
      OBVIOUS
    <3>. QED BY <1>1, <2>1, <3>1
  <2>3. s.xs = X[s.h] /\ s.xe = X[s.h + 1]
    BY <2>2
  <2>4. \A j \in 1 .. P : Span(parts[j]) =
          Half(X[parts[j].h \div 2], X[parts[j].h \div 2 + 1], parts[j].h % 2)
    <3>. SUFFICES ASSUME NEW j \in 1 .. P
                  PROVE  Span(parts[j]) = Half(X[parts[j].h \div 2], X[parts[j].h \div 2 + 1], parts[j].h % 2)
      OBVIOUS
    <3>1. /\ parts[j].h \div 2 = s.h
          /\ Span(parts[j]) = Half(s.xs, s.xe, parts[j].h % 2)
      OBVIOUS
    <3>. HIDE DEF Span
    <3>. QED BY <2>3, <3>1
  <2>. HIDE DEF Span
  <2>5. ASSUME NEW i \in 1 .. Len(new)
        PROVE  Span(new[i]) = IF i <= m - 1 THEN <<X[new[i].h], X[new[i].h + 1]>>
                              ELSE Half(X[new[i].h \div 2], X[new[i].h \div 2 + 1], new[i].h % 2)
    <3>1. i \in 1 .. (L - 1) + P
      BY <1>3
    <3>2. CASE i <= L - 1
      <4>1. i + 1 \in 1 .. L /\ new[i] = sqs[i + 1] /\ (i <= m - 1 <=> i + 1 <= m)
        BY <1>4, <3>1, <3>2
      <4>. QED BY <2>1, <4>1
    <3>3. CASE i > L - 1
      <4>1. i - (L - 1) \in 1 .. P /\ new[i] = parts[i - (L - 1)] /\ ~(i <= m - 1)
        BY <1>4, <3>1, <3>3
      <4>. QED BY <2>4, <4>1
    <3>. QED BY <1>1, <3>1, <3>2, <3>3
  <2>. QED BY <2>5 DEF InColumns, Span
<1>. QED BY <1>5, <1>6 DEF new, rest

\* What replaces a square: parts in its column that have its edges.
LEMMA ShatteredInto ==
  ASSUME NEW sqs \in Seq(SquareType), NEW k \in 1 .. Len(sqs), Sides(sqs[k]),
         NEW directed \in BOOLEAN, NEW new \in ShatterSquare(sqs, k, directed)
  PROVE  \E parts \in Seq(SquareType) :
           /\ new = RemoveAt(sqs, k) \o parts
           /\ SumOf(parts) = sqs[k].n
           /\ \A j \in 1 .. Len(parts) :
                LET t == parts[j]
                IN  /\ t.n \in Nat /\ t.n <= sqs[k].n
                    /\ t.h \in Nat /\ t.h \div 2 = sqs[k].h /\ t.h % 2 \in {0, 1}
                    /\ <<t.xs, t.xe>> = Half(sqs[k].xs, sqs[k].xe, t.h % 2)
<1>. DEFINE s == sqs[k]
<1>1. PICK a \in PartEdges(s.n, 0), b \in PartEdges(s.n, 1), c \in PartEdges(s.n, 2) :
        new = RemoveAt(sqs, k) \o Parts(s, a, b, c, directed)
  BY DEF ShatterSquare
<1>2. s \in SquareType /\ s.n \in Nat /\ Sides(s)
  <2>1. s \in SquareType
    BY LenProperties
  <2>. QED BY <2>1 DEF SquareType
<1>. DEFINE parts == Parts(s, a, b, c, directed)
<1>3. a \in Nat /\ b \in Nat /\ c \in Nat /\ a + b + c <= s.n
  <2>. HIDE DEF s
  <2>. QED BY <1>2, PartsLeaveRest
<1>4. parts \in Seq(SquareType) /\ SumOf(parts) = s.n
  <2>. HIDE DEF s
  <2>. QED BY <1>2, <1>3, PartsTile, SumOfParts
<1>5. ASSUME NEW j \in 1 .. Len(parts)
      PROVE  LET t == parts[j]
             IN  /\ t.h \in Nat /\ t.h \div 2 = s.h /\ t.h % 2 \in {0, 1}
                 /\ <<t.xs, t.xe>> = Half(s.xs, s.xe, t.h % 2)
  <2>. HIDE DEF s
  <2>. QED BY <1>2, PartsColumns
<1>. HIDE DEF parts
<1>6. ASSUME NEW j \in 1 .. Len(parts) PROVE parts[j].n \in Nat /\ parts[j].n <= s.n
  <2>. DEFINE w == Weights(parts)
              D == 1 .. Len(parts)
  <2>1. /\ IsFiniteSet(D) /\ SumOf(parts) = Sum(w, D)
        /\ \A i \in D : w[i] = parts[i].n /\ parts[i].n \in Nat
    BY <1>4, SumOfIsSum
  <2>2. j \in D /\ \A i \in D : w[i] \in Nat
    BY <2>1
  <2>. HIDE DEF w, D
  <2>3. w[j] <= Sum(w, D)
    BY <2>1, <2>2, SumBoundsEach
  <2>. QED BY <1>4, <2>1, <2>2, <2>3
<1>. HIDE DEF s
<1>7. new = RemoveAt(sqs, k) \o parts
  BY <1>1 DEF parts
<1>8. \A j \in 1 .. Len(parts) :
                LET t == parts[j]
                IN  /\ t.n \in Nat /\ t.n <= s.n
                    /\ t.h \in Nat /\ t.h \div 2 = s.h /\ t.h % 2 \in {0, 1}
                    /\ <<t.xs, t.xe>> = Half(s.xs, s.xe, t.h % 2)
  BY <1>5, <1>6
<1>. QED BY <1>4, <1>7, <1>8 DEF s

\* No column has more edges than the capacity, and those that start at the same
\* line have not more than two.
Capped(sqs, m, X, cap) ==
  /\ \A c \in Nat : SumAt(sqs, Places(sqs, m, {c})) <= cap
  /\ \A y \in Nat : SumAt(sqs, Places(sqs, m, StartAt(X, y))) <= 2 * cap

\* The halves of columns that start at a line are of columns that start there;
\* or, where the line lies inside of a column, of that one.
FromThere(X, y) == \A h \in Nat : Halved(X)[h] = y => X[h \div 2] = y
FromInside(X, y, c) == \A h \in Nat : Halved(X)[h] = y => h \div 2 = c

LEMMA HalvedStarts ==
  ASSUME NEW X, Rising(X), NEW y \in Nat
  PROVE  FromThere(X, y) \/ \E c \in Nat : FromInside(X, y, c)
<1>. DEFINE Y == Halved(X)
            mid(g) == (X[g] + X[g + 1]) \div 2
<1>1. /\ \A a, b \in Nat : a <= b => X[a] <= X[b]
      /\ \A g \in Nat : X[g] \in Nat
  BY DEF Rising
<1>2. \A g \in Nat : /\ mid(g) \in Nat /\ X[g] <= mid(g) /\ mid(g) <= X[g + 1]
                     /\ X[g] < X[g + 1] => mid(g) < X[g + 1]
  <2>. SUFFICES ASSUME NEW g \in Nat
                PROVE  /\ mid(g) \in Nat /\ X[g] <= mid(g) /\ mid(g) <= X[g + 1]
                       /\ X[g] < X[g + 1] => mid(g) < X[g + 1]
    OBVIOUS
  <2>1. g + 1 \in Nat /\ X[g] \in Nat /\ X[g + 1] \in Nat /\ X[g] <= X[g + 1]
    BY <1>1
  <2>2. \A lo, hi \in Nat : lo <= hi => /\ (lo + hi) \div 2 \in Nat
                                        /\ lo <= (lo + hi) \div 2 /\ (lo + hi) \div 2 <= hi
                                        /\ lo < hi => (lo + hi) \div 2 < hi
    OBVIOUS
  <2>. QED BY <2>1, <2>2
<1>3. \A h \in Nat : Y[h] = IF h % 2 = 0 THEN X[h \div 2] ELSE mid(h \div 2)
  BY DEF Halved
<1>4. \A h \in Nat : h \div 2 \in Nat /\ h \div 2 + 1 \in Nat
  OBVIOUS
<1>. HIDE DEF Y, mid
<1>5. CASE \E c \in Nat : X[c] < y /\ y < X[c + 1]
  <2>1. PICK c \in Nat : X[c] < y /\ y < X[c + 1]
    BY <1>5
  <2>2. ASSUME NEW h \in Nat, Y[h] = y PROVE h \div 2 = c
    <3>1. PICK g \in Nat : g = h \div 2
      BY <1>4
    <3>2. /\ X[g] <= y /\ y <= X[g + 1] /\ g + 1 \in Nat /\ c + 1 \in Nat
          /\ X[g] \in Nat /\ X[g + 1] \in Nat /\ X[c] \in Nat /\ X[c + 1] \in Nat
      <4>1. /\ g + 1 \in Nat /\ c + 1 \in Nat
            /\ X[g] \in Nat /\ X[g + 1] \in Nat /\ X[c] \in Nat /\ X[c + 1] \in Nat
        BY <1>1
      <4>2. X[g] <= mid(g) /\ mid(g) <= X[g + 1] /\ mid(g) \in Nat
        BY <1>2
      <4>3. y = X[g] \/ y = mid(g)
        BY <1>3, <2>2, <3>1
      <4>. QED BY <4>1, <4>2, <4>3
    <3>3. ~(g + 1 <= c)
      <4>1. g + 1 <= c => X[g + 1] <= X[c]
        BY <1>1, <3>2
      <4>. QED BY <2>1, <3>2, <4>1
    <3>4. ~(c + 1 <= g)
      <4>1. c + 1 <= g => X[c + 1] <= X[g]
        BY <1>1, <3>2
      <4>. QED BY <2>1, <3>2, <4>1
    <3>5. g = c
      BY <3>3, <3>4
    <3>. QED BY <3>1, <3>5
  <2>. QED BY <2>2 DEF Y, FromInside
<1>6. CASE \A c \in Nat : ~(X[c] < y /\ y < X[c + 1])
  <2>1. ASSUME NEW h \in Nat, Y[h] = y PROVE X[h \div 2] = y
    <3>1. PICK g \in Nat : g = h \div 2
      BY <1>4
    <3>2. /\ g + 1 \in Nat /\ X[g] \in Nat /\ X[g + 1] \in Nat /\ mid(g) \in Nat
          /\ X[g] <= mid(g) /\ mid(g) <= X[g + 1]
          /\ X[g] < X[g + 1] => mid(g) < X[g + 1]
          /\ ~(X[g] < y /\ y < X[g + 1])
      BY <1>1, <1>2, <1>6
    <3>3. y = X[g] \/ y = mid(g)
      BY <1>3, <2>1, <3>1
    <3>4. X[g] = y
      BY <3>2, <3>3
    <3>. QED BY <3>1, <3>4
  <2>. QED BY <2>1 DEF Y, FromThere
<1>. QED BY <1>5, <1>6

\* When a pass is over, its parts are squares of the columns it has halved, none
\* of which has more edges than what it is a half of; nor have those that start
\* at the same line more than the columns before.
LEMMA PassHalvesColumns ==
  ASSUME NEW sqs \in Seq(SquareType), NEW X, Rising(X), InColumns(sqs, 0, X)
  PROVE  /\ InColumns(sqs, Len(sqs), Halved(X))
         /\ \A cap \in Nat : Capped(sqs, 0, X, cap) => Capped(sqs, Len(sqs), Halved(X), cap)
<1>1. Len(sqs) \in Nat /\ \A i \in 1 .. Len(sqs) : sqs[i].h \in Nat
  <2>1. Len(sqs) \in Nat /\ \A i \in 1 .. Len(sqs) : sqs[i] \in SquareType
    BY LenProperties
  <2>. QED BY <2>1 DEF SquareType
<1>2. InColumns(sqs, Len(sqs), Halved(X))
  <2>. SUFFICES ASSUME NEW i \in 1 .. Len(sqs)
                PROVE  <<sqs[i].xs, sqs[i].xe>> = <<Halved(X)[sqs[i].h], Halved(X)[sqs[i].h + 1]>>
    BY <1>1 DEF InColumns
  <2>1. <<sqs[i].xs, sqs[i].xe>> = Half(X[sqs[i].h \div 2], X[sqs[i].h \div 2 + 1], sqs[i].h % 2)
    <3>1. ~(i <= 0)
      OBVIOUS
    <3>. QED BY <3>1 DEF InColumns
  <2>. QED BY <1>1, <2>1, HalvesAreColumns
<1>3. ASSUME NEW C, NEW D, \A h \in Nat : h \in C => h \div 2 \in D
      PROVE  /\ SumAt(sqs, Places(sqs, Len(sqs), C)) <= SumAt(sqs, Places(sqs, 0, D))
             /\ SumAt(sqs, Places(sqs, Len(sqs), C)) \in Nat /\ SumAt(sqs, Places(sqs, 0, D)) \in Nat
  <2>. DEFINE I == Places(sqs, Len(sqs), C)
              J == Places(sqs, 0, D)
  <2>1. I \subseteq J
    BY <1>1, <1>3 DEF Places, Column
  <2>2. I \in SUBSET (1 .. Len(sqs)) /\ J \in SUBSET (1 .. Len(sqs))
    BY DEF Places
  <2>. HIDE DEF I, J
  <2>3. SumAt(sqs, I) <= SumAt(sqs, J)
    BY <2>1, <2>2, SumAtSubset
  <2>4. SumAt(sqs, I) \in Nat /\ SumAt(sqs, J) \in Nat
    BY <2>2, SumAtMasked
  <2>. QED BY <2>3, <2>4 DEF I, J
<1>4. ASSUME NEW cap \in Nat, Capped(sqs, 0, X, cap) PROVE Capped(sqs, Len(sqs), Halved(X), cap)
  <2>1. ASSUME NEW c \in Nat PROVE SumAt(sqs, Places(sqs, Len(sqs), {c})) <= cap
    <3>1. /\ c \div 2 \in Nat
          /\ \A h \in Nat : h \in {c} => h \div 2 \in {c \div 2}
      OBVIOUS
    <3>2. SumAt(sqs, Places(sqs, 0, {c \div 2})) <= cap
      BY <1>4, <3>1 DEF Capped
    <3>. QED BY <1>3, <3>1, <3>2
  <2>2. ASSUME NEW y \in Nat PROVE SumAt(sqs, Places(sqs, Len(sqs), StartAt(Halved(X), y))) <= 2 * cap
    <3>. DEFINE S == StartAt(Halved(X), y)
    <3>1. CASE FromThere(X, y)
      <4>1. \A h \in Nat : h \in S => h \div 2 \in StartAt(X, y)
        BY <3>1 DEF StartAt, FromThere
      <4>2. SumAt(sqs, Places(sqs, 0, StartAt(X, y))) <= 2 * cap
        BY <1>4 DEF Capped
      <4>. HIDE DEF S
      <4>3. /\ SumAt(sqs, Places(sqs, Len(sqs), S)) <= SumAt(sqs, Places(sqs, 0, StartAt(X, y)))
            /\ SumAt(sqs, Places(sqs, Len(sqs), S)) \in Nat
            /\ SumAt(sqs, Places(sqs, 0, StartAt(X, y))) \in Nat
        BY <1>3, <4>1
      <4>. QED BY <4>2, <4>3 DEF S
    <3>2. CASE \E c \in Nat : FromInside(X, y, c)
      <4>1. PICK c \in Nat : FromInside(X, y, c)
        BY <3>2
      <4>2. \A h \in Nat : h \in S => h \div 2 \in {c}
        BY <4>1 DEF StartAt, FromInside
      <4>3. SumAt(sqs, Places(sqs, 0, {c})) <= cap
        BY <1>4 DEF Capped
      <4>. HIDE DEF S
      <4>4. /\ SumAt(sqs, Places(sqs, Len(sqs), S)) <= SumAt(sqs, Places(sqs, 0, {c}))
            /\ SumAt(sqs, Places(sqs, Len(sqs), S)) \in Nat
            /\ SumAt(sqs, Places(sqs, 0, {c})) \in Nat
        BY <1>3, <4>2
      <4>. QED BY <4>3, <4>4 DEF S
    <3>. QED BY <3>1, <3>2, HalvedStarts
  <2>. QED BY <2>1, <2>2 DEF Capped
<1>. QED BY <1>2, <1>4

\* What the test of the first loop says of the columns: of those that start at
\* the same line, all but one end there too.
LEMMA TestedColumns ==
  ASSUME NEW sqs \in Seq(SquareType), NEW X, Rising(X), InColumns(sqs, Len(sqs), X), NEW cap \in Nat,
         \A x \in Nat : SumAt(sqs, {i \in 1 .. Len(sqs) : sqs[i].xe = x}) <= cap
  PROVE  Capped(sqs, Len(sqs), X, cap)
<1>. DEFINE L == Len(sqs)
            End(x) == {i \in 1 .. L : sqs[i].xe = x}
<1>1. /\ L \in Nat /\ \A i \in 1 .. L : sqs[i].h \in Nat
      /\ \A a, b \in Nat : a <= b => X[a] <= X[b]
      /\ \A c \in Nat : X[c] \in Nat
  <2>1. L \in Nat /\ \A i \in 1 .. L : sqs[i] \in SquareType
    BY LenProperties
  <2>. QED BY <2>1 DEF SquareType, Rising
<1>2. \A i \in 1 .. L : sqs[i].xe = X[sqs[i].h + 1]
  <2>. SUFFICES ASSUME NEW i \in 1 .. L PROVE sqs[i].xe = X[sqs[i].h + 1]
    OBVIOUS
  <2>1. i <= L
    BY <1>1
  <2>2. <<sqs[i].xs, sqs[i].xe>> = <<X[sqs[i].h], X[sqs[i].h + 1]>>
    BY <2>1 DEF InColumns
  <2>. QED BY <2>2
<1>3. \A C, i : i \in Places(sqs, L, C) <=> i \in 1 .. L /\ sqs[i].h \in C
  BY <1>1 DEF Places, Column
<1>4. ASSUME NEW I \in SUBSET (1 .. L), NEW x \in Nat, I \subseteq End(x)
      PROVE  SumAt(sqs, I) <= cap /\ SumAt(sqs, I) \in Nat
  <2>1. End(x) \in SUBSET (1 .. L) /\ SumAt(sqs, End(x)) <= cap
    OBVIOUS
  <2>. HIDE DEF End
  <2>2. SumAt(sqs, I) <= SumAt(sqs, End(x)) /\ SumAt(sqs, I) \in Nat /\ SumAt(sqs, End(x)) \in Nat
    BY <1>4, <2>1, SumAtSubset, SumAtMasked
  <2>. QED BY <2>1, <2>2
<1>5. ASSUME NEW c \in Nat PROVE SumAt(sqs, Places(sqs, L, {c})) <= cap
  <2>1. Places(sqs, L, {c}) \in SUBSET (1 .. L) /\ Places(sqs, L, {c}) \subseteq End(X[c + 1])
    BY <1>2, <1>3
  <2>2. X[c + 1] \in Nat
    BY <1>1
  <2>. QED BY <1>4, <2>1, <2>2
<1>6. ASSUME NEW y \in Nat PROVE SumAt(sqs, Places(sqs, L, StartAt(X, y))) <= 2 * cap
  <2>. DEFINE J == Places(sqs, L, StartAt(X, y))
              I == {i \in J : sqs[i].xe = y}
  <2>1. /\ \A i \in J : i \in 1 .. L /\ sqs[i].h \in Nat /\ X[sqs[i].h] = y /\ sqs[i].xe = X[sqs[i].h + 1]
        /\ J \in SUBSET (1 .. L) /\ I \in SUBSET J
    BY <1>1, <1>2, <1>3 DEF StartAt
  <2>2. I \in SUBSET (1 .. L) /\ I \subseteq End(y)
    BY <2>1
  <2>3. \A i, j \in J \ I : sqs[i].xe = sqs[j].xe
    <3>1. ASSUME NEW i \in J \ I, NEW j \in J \ I, sqs[i].h < sqs[j].h PROVE FALSE
      <4>1. /\ sqs[i].h \in Nat /\ sqs[j].h \in Nat /\ X[sqs[i].h] = y /\ X[sqs[j].h] = y
            /\ sqs[i].xe = X[sqs[i].h + 1] /\ sqs[i].xe # y
        BY <2>1
      <4>2. sqs[i].h + 1 \in Nat /\ sqs[i].h <= sqs[i].h + 1 /\ sqs[i].h + 1 <= sqs[j].h
        BY <3>1, <4>1
      <4>3. X[sqs[i].h] <= X[sqs[i].h + 1] /\ X[sqs[i].h + 1] <= X[sqs[j].h] /\ X[sqs[i].h + 1] \in Nat
        BY <1>1, <4>1, <4>2
      <4>. QED BY <4>1, <4>3
    <3>2. ASSUME NEW i \in J \ I, NEW j \in J \ I PROVE sqs[i].h = sqs[j].h
      <4>1. ~(sqs[i].h < sqs[j].h) /\ ~(sqs[j].h < sqs[i].h)
        BY <3>1
      <4>2. sqs[i].h \in Nat /\ sqs[j].h \in Nat
        BY <2>1
      <4>. QED BY <4>1, <4>2
    <3>. QED BY <2>1, <3>2
  <2>4. SumAt(sqs, J \ I) <= cap
    <3>1. CASE J \ I = {}
      <4>1. SumAt(sqs, J \ I) = 0
        BY <3>1, SumAtEnds
      <4>. QED BY <4>1
    <3>2. CASE J \ I # {}
      <4>1. PICK j \in J \ I : TRUE
        BY <3>2
      <4>2. sqs[j].xe \in Nat
        BY <1>1, <2>1
      <4>3. J \ I \in SUBSET (1 .. L) /\ J \ I \subseteq End(sqs[j].xe)
        BY <2>1, <2>3
      <4>. HIDE DEF I, J, End
      <4>. QED BY <1>4, <4>2, <4>3
    <3>. QED BY <3>1, <3>2
  <2>5. SumAt(sqs, I) <= cap
    <3>. HIDE DEF I, J, End
    <3>. QED BY <1>4, <2>2
  <2>. HIDE DEF I, J, End
  <2>6. /\ SumAt(sqs, J) = SumAt(sqs, J \ I) + SumAt(sqs, I)
        /\ SumAt(sqs, J \ I) \in Nat /\ SumAt(sqs, I) \in Nat
    BY <2>1, SumAtSplit
  <2>7. SumAt(sqs, J) <= 2 * cap
    BY <2>4, <2>5, <2>6
  <2>. QED BY <2>7 DEF J
<1>. QED BY <1>5, <1>6 DEF Capped

\* Sorting changes nothing about columns between two passes.
LEMMA SortedKeepsColumns ==
  ASSUME NEW sqs \in Seq(SquareType)
  PROVE  /\ \A X : InColumns(sqs, Len(sqs), X) => InColumns(Sorted(sqs), Len(Sorted(sqs)), X)
         /\ \A C : SumAt(Sorted(sqs), Places(Sorted(sqs), Len(Sorted(sqs)), C))
                     = SumAt(sqs, Places(sqs, Len(sqs), C))
<1>. DEFINE new == Sorted(sqs)
            L == Len(sqs)
<1>1. /\ new \in Seq(SquareType) /\ Len(new) = L /\ L \in Nat
      /\ \E p \in Bijection(1 .. L, 1 .. L) : \A i \in 1 .. L : new[i] = sqs[p[i]]
  BY SortedPermutes, LenProperties
<1>. HIDE DEF new
<1>2. PICK p \in Bijection(1 .. L, 1 .. L) : \A i \in 1 .. L : new[i] = sqs[p[i]]
  BY <1>1
<1>3. \A i \in 1 .. L : p[i] \in 1 .. L
  BY DEF Bijection, Injection
<1>4. ASSUME NEW X, InColumns(sqs, L, X) PROVE InColumns(new, Len(new), X)
  <2>. SUFFICES ASSUME NEW i \in 1 .. L
                PROVE  <<new[i].xs, new[i].xe>> = <<X[new[i].h], X[new[i].h + 1]>>
    BY <1>1 DEF InColumns
  <2>1. p[i] \in 1 .. L /\ p[i] <= L /\ new[i] = sqs[p[i]]
    BY <1>1, <1>2, <1>3
  <2>. QED BY <1>4, <2>1 DEF InColumns
<1>5. ASSUME NEW C PROVE SumAt(new, Places(new, Len(new), C)) = SumAt(sqs, Places(sqs, L, C))
  <2>. DEFINE I == Places(sqs, L, C)
              J == Places(new, L, C)
              u == Masked(sqs, I)
              v == Masked(new, J)
  <2>1. I \in SUBSET (1 .. L) /\ J \in SUBSET (1 .. L)
    BY <1>1 DEF Places
  <2>2. u \in Seq(SquareType) /\ Len(u) = L /\ SumAt(sqs, I) = SumOf(u)
    <3>. HIDE DEF I
    <3>. QED BY <2>1, MaskedFacts, SumAtMasked
  <2>3. v \in Seq(SquareType) /\ Len(v) = L /\ SumAt(new, J) = SumOf(v)
    <3>. HIDE DEF J
    <3>. QED BY <1>1, <2>1, MaskedFacts, SumAtMasked
  <2>4. ASSUME NEW i \in 1 .. L PROVE v[i] = u[p[i]]
    <3>1. p[i] \in 1 .. L /\ p[i] <= L /\ i <= L /\ new[i] = sqs[p[i]]
      BY <1>1, <1>2, <1>3
    <3>2. i \in J <=> p[i] \in I
      BY <1>1, <3>1 DEF Places, Column
    <3>3. v[i] = IF i \in J THEN new[i] ELSE [new[i] EXCEPT !.n = 0]
      BY <1>1 DEF Masked
    <3>4. u[p[i]] = IF p[i] \in I THEN sqs[p[i]] ELSE [sqs[p[i]] EXCEPT !.n = 0]
      BY <3>1 DEF Masked
    <3>. HIDE DEF u, v, I, J
    <3>. QED BY <3>1, <3>2, <3>3, <3>4
  <2>. HIDE DEF u, v, I, J
  <2>5. SumOf(v) = SumOf(u)
    <3>1. p \in Bijection(1 .. Len(v), 1 .. Len(u)) /\ \A i \in 1 .. Len(v) : v[i] = u[p[i]]
      BY <2>2, <2>3, <2>4
    <3>. QED BY <2>2, <2>3, <3>1, SumOfRenamed
  <2>. QED BY <1>1, <2>2, <2>3, <2>5 DEF I, J
<1>. QED BY <1>4, <1>5 DEF new

-----------------------------------------------------------------------------
\* What keeps pieces within the capacity after the first loop: in the sorted
\* generator, the columns of the pass before, which are intervals of the matrix.
Waiting == IF nLeft = 0 THEN Len(squares) ELSE nLeft

CapacityInv ==
  /\ ~call.sorted /\ stage # "range" =>
       \A i \in 1 .. Len(squares) : squares[i].n <= call.standardCapacity
  /\ call.sorted =>
       \E X : /\ Rising(X) /\ InColumns(squares, Waiting, X)
              /\ stage # "range" => Capped(squares, Waiting, X, call.standardCapacity)

\* A step of the partition leaves the call alone.
LEMMA PartitionKeepsCall ==
  ASSUME PartitionStep
  PROVE  call' = call
BY DEF PartitionStep, ShatterFirst, ShatterBiggest, BeginPass, ShatterNext, LeaveLoop, Shatter

\* One square is one column.
LEMMA CapacityInitInv ==
  PartitionInit => CapacityInv
<1>. SUFFICES ASSUME PartitionInit PROVE CapacityInv
  OBVIOUS
<1>1. stage = "range" /\ nLeft = 0 /\ call.nVertices \in Nat
  BY CallsAssumption DEF PartitionInit
<1>2. /\ Len(squares) = 1 /\ squares[1].xs = 0 /\ squares[1].xe = call.nVertices /\ squares[1].h = 0
  BY DEF PartitionInit
<1>. DEFINE X == [c \in Nat |-> IF c = 0 THEN 0 ELSE call.nVertices]
<1>3. Rising(X)
  BY <1>1 DEF Rising
<1>4. X[0] = 0 /\ X[0 + 1] = call.nVertices
  OBVIOUS
<1>. HIDE DEF X
<1>5. InColumns(squares, 1, X)
  BY <1>2, <1>4 DEF InColumns
<1>. QED BY <1>1, <1>2, <1>3, <1>5 DEF CapacityInv, Waiting

\* Shattering makes no square larger, and a pass divides each of its columns.
LEMMA CapacityStepInv ==
  PartitionInv /\ CapacityInv /\ PartitionStep => CapacityInv'
<1>. SUFFICES ASSUME PartitionInv, CapacityInv, PartitionStep PROVE CapacityInv'
  OBVIOUS
<1>. DEFINE L == Len(squares)
            cap == call.standardCapacity
<1>1. /\ call.directedGraph \in BOOLEAN /\ cap \in Nat /\ squares \in Seq(SquareType)
      /\ L \in Nat /\ L >= 1 /\ nLeft \in 0 .. L /\ DOMAIN squares = 1 .. L
      /\ \A i \in 1 .. L : squares[i] \in SquareType /\ Sides(squares[i])
  <2>1. L \in Nat /\ L >= 1 /\ DOMAIN squares = 1 .. L /\ \A i \in 1 .. L : squares[i] \in SquareType
    BY LenProperties, EmptySeq DEF PartitionInv, PartitionTypeOK
  <2>. QED BY <2>1, CallsAssumption DEF PartitionInv, PartitionTypeOK, Tiled
<1>2. /\ call' = call
      /\ call.sorted \/ nLeft = 0
  BY PartitionKeepsCall DEF PartitionInv
<1>3. /\ ~call.sorted /\ stage # "range" => \A i \in 1 .. L : squares[i].n <= cap
      /\ call.sorted => \E X : /\ Rising(X) /\ InColumns(squares, Waiting, X)
                               /\ stage # "range" => Capped(squares, Waiting, X, cap)
  BY DEF CapacityInv
<1>4. CASE ShatterFirst
  BY <1>2, <1>4 DEF ShatterFirst, Shatter, CapacityInv
<1>5. CASE ShatterBiggest
  <2>1. ~call.sorted /\ stage # "range"
    BY <1>5 DEF ShatterBiggest
  <2>2. PICK new \in ShatterSquare(squares, Biggest, call.directedGraph) : squares' = new
    BY <1>5 DEF ShatterBiggest, Shatter
  <2>3. PICK k \in 1 .. L : k = Biggest
    BY BiggestIsOne DEF PartitionInv, PartitionTypeOK
  <2>4. PICK parts \in Seq(SquareType) :
          /\ new = RemoveAt(squares, k) \o parts
          /\ \A j \in 1 .. Len(parts) : parts[j].n \in Nat /\ parts[j].n <= squares[k].n
    BY <1>1, <2>2, <2>3, ShatteredInto
  <2>. DEFINE rest == RemoveAt(squares, k)
              P == Len(parts)
  <2>5. /\ rest \in Seq(SquareType) /\ Len(rest) = L - 1
        /\ \A i \in 1 .. L - 1 : rest[i] = IF i < k THEN squares[i] ELSE squares[i + 1]
    BY <1>1, RemoveAtFacts
  <2>6. new = rest \o parts
    BY <2>4
  <2>. HIDE DEF rest
  <2>7. /\ Len(new) = Len(rest) + P /\ P \in Nat
        /\ \A i \in 1 .. Len(rest) + P : new[i] = IF i <= Len(rest) THEN rest[i] ELSE parts[i - Len(rest)]
    BY <2>5, <2>6, ConcatProperties, LenProperties
  <2>8. \A i \in 1 .. L : squares[i].n \in Nat /\ squares[i].n <= cap
    BY <1>1, <1>3, <2>1 DEF SquareType
  <2>. HIDE DEF L, P, cap
  <2>9. ASSUME NEW i \in 1 .. Len(new) PROVE new[i].n <= cap
    <3>1. CASE i <= L - 1
      <4>1. i \in 1 .. L - 1 /\ i \in 1 .. L /\ i + 1 \in 1 .. L
        BY <1>1, <3>1
      <4>2. new[i] = rest[i] /\ (rest[i] = squares[i] \/ rest[i] = squares[i + 1])
        BY <2>5, <2>7, <3>1, <4>1
      <4>. QED BY <2>8, <4>1, <4>2
    <3>2. CASE i > L - 1
      <4>1. i - (L - 1) \in 1 .. P /\ ~(i <= L - 1)
        BY <1>1, <2>5, <2>7, <3>2
      <4>2. new[i] = parts[i - (L - 1)]
        BY <2>5, <2>7, <4>1
      <4>3. new[i].n \in Nat /\ new[i].n <= squares[k].n
        BY <2>4, <4>1, <4>2 DEF P
      <4>. QED BY <1>1, <2>8, <4>3
    <3>. QED BY <1>1, <3>1, <3>2
  <2>. QED BY <1>2, <2>1, <2>2, <2>9 DEF CapacityInv, cap
<1>6. CASE BeginPass
  <2>1. call.sorted /\ nLeft = 0 /\ nLeft' = L /\ squares' = squares /\ stage' = stage
    BY <1>6 DEF BeginPass
  <2>2. Waiting' = Waiting
    BY <1>1, <2>1 DEF Waiting
  <2>. QED BY <1>2, <1>3, <2>1, <2>2 DEF CapacityInv
<1>7. CASE ShatterNext
  <2>1. PICK sqs \in ShatterSquare(squares, 1, call.directedGraph) :
               squares' = IF nLeft = 1 THEN Sorted(sqs) ELSE sqs
    BY <1>7 DEF ShatterNext, Shatter
  <2>2. nLeft > 0 /\ nLeft' = nLeft - 1 /\ stage' = stage /\ call.sorted
    BY <1>1, <1>2, <1>7 DEF ShatterNext, Shatter
  <2>3. 1 \in 1 .. L /\ nLeft \in 1 .. L /\ Waiting = nLeft
    <3>. HIDE DEF L
    <3>1. 1 \in 1 .. L /\ nLeft \in 1 .. L /\ nLeft # 0
      BY <1>1, <2>2
    <3>. QED BY <3>1 DEF Waiting
  <2>4. PICK parts \in Seq(SquareType) :
          /\ sqs = RemoveAt(squares, 1) \o parts
          /\ SumOf(parts) = squares[1].n
          /\ \A j \in 1 .. Len(parts) :
               LET t == parts[j]
               IN  /\ t.h \in Nat /\ t.h \div 2 = squares[1].h /\ t.h % 2 \in {0, 1}
                   /\ <<t.xs, t.xe>> = Half(squares[1].xs, squares[1].xe, t.h % 2)
    BY <1>1, <2>1, <2>3, ShatteredInto
  <2>5. sqs \in Seq(SquareType)
    BY <1>1, <2>1, <2>3, ShatterKeeps, CallsAssumption DEF PartitionInv, PartitionTypeOK
  <2>6. /\ \A C : SumAt(sqs, Places(sqs, nLeft - 1, C)) = SumAt(squares, Places(squares, nLeft, C))
        /\ \A X : InColumns(squares, nLeft, X) => InColumns(sqs, nLeft - 1, X)
    BY <1>1, <2>3, <2>4, ShatterKeepsColumns
  <2>7. PICK X : /\ Rising(X) /\ InColumns(squares, nLeft, X)
                 /\ stage # "range" => Capped(squares, nLeft, X, cap)
    <3>1. \E X : /\ Rising(X) /\ InColumns(squares, Waiting, X)
                 /\ stage # "range" => Capped(squares, Waiting, X, cap)
      BY <1>3, <2>2
    <3>. HIDE DEF L, cap
    <3>. QED BY <2>3, <3>1
  <2>8. /\ InColumns(sqs, nLeft - 1, X)
        /\ stage # "range" => Capped(sqs, nLeft - 1, X, cap)
    BY <2>6, <2>7 DEF Capped
  <2>9. CASE nLeft = 1
    <3>1. squares' = Sorted(sqs) /\ Waiting' = Len(Sorted(sqs)) /\ nLeft - 1 = 0
      BY <2>1, <2>2, <2>9 DEF Waiting
    <3>2. /\ Rising(Halved(X)) /\ InColumns(sqs, Len(sqs), Halved(X))
          /\ stage # "range" => Capped(sqs, Len(sqs), Halved(X), cap)
      BY <1>1, <2>5, <2>7, <2>8, <3>1, HalvesAreColumns, PassHalvesColumns
    <3>3. /\ InColumns(Sorted(sqs), Len(Sorted(sqs)), Halved(X))
          /\ stage # "range" => Capped(Sorted(sqs), Len(Sorted(sqs)), Halved(X), cap)
      BY <2>5, <3>2, SortedKeepsColumns DEF Capped
    <3>. QED BY <1>2, <2>2, <3>1, <3>2, <3>3 DEF CapacityInv
  <2>10. CASE nLeft # 1
    <3>1. squares' = sqs /\ Waiting' = nLeft - 1
      BY <2>1, <2>2, <2>3, <2>10 DEF Waiting
    <3>. QED BY <1>2, <2>2, <2>7, <2>8, <3>1 DEF CapacityInv
  <2>. QED BY <2>9, <2>10
<1>8. CASE LeaveLoop
  <2>1. /\ nLeft = 0 /\ nLeft' = 0 /\ squares' = squares /\ Waiting = L /\ Waiting' = L
        /\ stage = "range" => ~TooLarge
    BY <1>8 DEF LeaveLoop, Waiting, GoesOn
  <2>2. CASE stage # "range"
    BY <1>2, <1>3, <2>1, <2>2 DEF CapacityInv
  <2>3. CASE stage = "range" /\ ~call.sorted
    <3>1. \A s \in Range(squares) : s.n <= cap
      BY <2>1, <2>3 DEF TooLarge, Eligible_RNG_Rec
    <3>2. \A i \in 1 .. L : squares[i] \in Range(squares)
      BY <1>1 DEF Range
    <3>. QED BY <1>2, <2>1, <2>3, <3>1, <3>2 DEF CapacityInv
  <2>4. CASE stage = "range" /\ call.sorted
    <3>1. \A x \in {s.xe : s \in Range(squares)} : SumAt(squares, {i \in 1 .. L : squares[i].xe = x}) <= cap
      BY <1>1, <2>1, <2>4 DEF TooLarge, Eligible_RNG_Squares
    <3>2. PICK X : Rising(X) /\ InColumns(squares, L, X)
      <4>1. \E X : Rising(X) /\ InColumns(squares, Waiting, X)
        BY <1>3, <2>4
      <4>. HIDE DEF L
      <4>. QED BY <2>1, <4>1
    <3>3. ASSUME NEW x \in Nat PROVE SumAt(squares, {i \in 1 .. L : squares[i].xe = x}) <= cap
      <4>. DEFINE I == {i \in 1 .. L : squares[i].xe = x}
      <4>1. CASE I = {}
        <5>1. SumAt(squares, I) = 0
          BY <1>1, <4>1, SumAtEnds
        <5>. QED BY <1>1, <5>1
      <4>2. CASE I # {}
        <5>1. PICK i \in 1 .. L : squares[i].xe = x
          BY <4>2
        <5>2. squares[i] \in Range(squares)
          BY <1>1 DEF Range
        <5>. QED BY <3>1, <5>1, <5>2
      <4>. QED BY <4>1, <4>2
    <3>4. Capped(squares, L, X, cap)
      BY <1>1, <3>2, <3>3, TestedColumns
    <3>. QED BY <1>2, <2>1, <2>4, <3>2, <3>4 DEF CapacityInv
  <2>. QED BY <2>2, <2>3, <2>4
<1>. QED BY <1>4, <1>5, <1>6, <1>7, <1>8 DEF PartitionStep

\* Whatever leaves the partition alone keeps it within the capacity.
LEMMA CapacityStutterInv ==
  CapacityInv /\ UNCHANGED partitionVars => CapacityInv'
BY DEF CapacityInv, Waiting, partitionVars

\* Squares that start at the same line are in the same column if they have a width.
LEMMA PiecesFit ==
  PartitionInv /\ CapacityInv => PiecesBounded
<1>. SUFFICES ASSUME PartitionInv, CapacityInv, stage # "range", nLeft = 0
              PROVE  PiecesBounded
  BY DEF PiecesBounded
<1>. DEFINE L == Len(squares)
            cap == call.standardCapacity
<1>1. /\ cap \in Nat /\ squares \in Seq(SquareType) /\ L \in Nat /\ DOMAIN squares = 1 .. L
      /\ \A i \in 1 .. L : squares[i].h \in Nat /\ squares[i].xs \in Nat /\ squares[i].xe \in Nat
  <2>1. squares \in Seq(SquareType) /\ cap \in Nat
    BY CallsAssumption DEF PartitionInv, PartitionTypeOK
  <2>2. L \in Nat /\ DOMAIN squares = 1 .. L /\ \A i \in 1 .. L : squares[i] \in SquareType
    BY <2>1, LenProperties
  <2>. QED BY <2>1, <2>2 DEF SquareType
<1>2. CASE ~call.sorted
  <2>1. \A i \in 1 .. L : squares[i].n <= cap
    BY <1>2 DEF CapacityInv
  <2>. QED BY <1>1, <1>2, <2>1 DEF PiecesBounded, Eligible_RNG_Rec, Range
<1>3. CASE call.sorted
  <2>1. PICK X : Rising(X) /\ InColumns(squares, L, X) /\ Capped(squares, L, X, cap)
    BY <1>3 DEF CapacityInv, Waiting
  <2>2. \A c \in Nat : SumAt(squares, Places(squares, L, {c})) <= cap
    BY <2>1 DEF Capped
  <2>3. \A i \in 1 .. L : squares[i].xs = X[squares[i].h] /\ squares[i].xe = X[squares[i].h + 1]
    <3>. SUFFICES ASSUME NEW i \in 1 .. L
                  PROVE  squares[i].xs = X[squares[i].h] /\ squares[i].xe = X[squares[i].h + 1]
      OBVIOUS
    <3>1. i <= L
      BY <1>1
    <3>2. <<squares[i].xs, squares[i].xe>> = <<X[squares[i].h], X[squares[i].h + 1]>>
      BY <2>1, <3>1 DEF InColumns
    <3>. QED BY <3>2
  <2>4. ASSUME NEW i \in 1 .. L, NEW j \in 1 .. L, squares[i].xs = squares[j].xs,
               squares[i].xs < squares[i].xe, squares[i].h < squares[j].h
        PROVE  FALSE
    <3>1. squares[i].h + 1 \in Nat /\ squares[j].h \in Nat /\ squares[i].h + 1 <= squares[j].h
      BY <1>1, <2>4
    <3>2. X[squares[i].h + 1] <= X[squares[j].h]
      BY <2>1, <3>1 DEF Rising
    <3>. QED BY <1>1, <2>3, <2>4, <3>2
  <2>5. ASSUME NEW x \in {s.xs : s \in Range(squares)}, NEW C \in SUBSET Nat, NEW f \in {1, 2},
               \A k \in 1 .. L : squares[k].xs = x => squares[k].h \in C,
               SumAt(squares, Places(squares, L, C)) <= f * cap
        PROVE  SumAt(squares, {k \in 1 .. L : squares[k].xs = x}) <= f * cap
    <3>. DEFINE I == {k \in 1 .. L : squares[k].xs = x}
                J == Places(squares, L, C)
    <3>1. I \in SUBSET J /\ J \in SUBSET (1 .. L) /\ I \in SUBSET (1 .. L)
      BY <1>1, <2>5 DEF Places, Column
    <3>2. SumAt(squares, J) <= f * cap
      BY <2>5
    <3>. HIDE DEF I, J
    <3>3. SumAt(squares, I) <= SumAt(squares, J)
      BY <1>1, <3>1, SumAtSubset
    <3>4. SumAt(squares, I) \in Nat /\ SumAt(squares, J) \in Nat
      BY <1>1, <3>1, SumAtMasked
    <3>5. f * cap \in Nat
      BY <1>1
    <3>6. SumAt(squares, I) <= f * cap
      BY <3>2, <3>3, <3>4, <3>5
    <3>. QED BY <3>6 DEF I
  <2>6. ASSUME NEW x \in {s.xs : s \in Range(squares)},
               ~\E i \in {k \in 1 .. L : squares[k].xs = x} : squares[i].xe = x
        PROVE  SumAt(squares, {k \in 1 .. L : squares[k].xs = x}) <= 1 * cap
    <3>1. PICK i \in 1 .. L : squares[i].xs = x
      BY <1>1 DEF Range
    <3>. DEFINE c == squares[i].h
    <3>2. c \in Nat
      BY <1>1
    <3>3. ASSUME NEW k \in 1 .. L, squares[k].xs = x PROVE squares[k].h \in {c}
      <4>1. /\ squares[k].xs = squares[i].xs /\ squares[k].xs < squares[k].xe
            /\ squares[i].xs < squares[i].xe
        <5>1. squares[k].xe # x /\ squares[i].xe # x
          BY <2>6, <3>1, <3>3
        <5>2. squares[k].xs <= squares[k].xe /\ squares[i].xs <= squares[i].xe
          BY DEF PartitionInv, Tiled, Sides
        <5>. QED BY <1>1, <3>1, <3>3, <5>1, <5>2
      <4>2. ~(squares[k].h < c) /\ ~(c < squares[k].h)
        BY <2>4, <4>1
      <4>. QED BY <1>1, <4>2
    <3>4. SumAt(squares, Places(squares, L, {c})) <= 1 * cap
      BY <1>1, <2>2, <3>2
    <3>. HIDE DEF c
    <3>5. {c} \in SUBSET Nat /\ 1 \in {1, 2}
      BY <3>2
    <3>. QED BY <2>5, <3>3, <3>4, <3>5
  <2>7. ASSUME NEW x \in {s.xs : s \in Range(squares)}
        PROVE  SumAt(squares, {k \in 1 .. L : squares[k].xs = x}) <= 2 * cap
    <3>1. x \in Nat
      BY <1>1 DEF Range
    <3>2. \A k \in 1 .. L : squares[k].xs = x => squares[k].h \in StartAt(X, x)
      BY <1>1, <2>3 DEF StartAt
    <3>3. SumAt(squares, Places(squares, L, StartAt(X, x))) <= 2 * cap
      BY <2>1, <3>1 DEF Capped
    <3>4. StartAt(X, x) \in SUBSET Nat /\ 2 \in {1, 2}
      BY DEF StartAt
    <3>. QED BY <2>5, <3>2, <3>3, <3>4
  <2>8. ASSUME NEW x \in {s.xs : s \in Range(squares)}
        PROVE  LET column == {i \in DOMAIN squares : squares[i].xs = x}
                   tested == IF \E i \in column : squares[i].xe = x THEN 2 ELSE 1
               IN  SumAt(squares, column) <= tested * cap
    <3>. DEFINE I == {k \in 1 .. L : squares[k].xs = x}
    <3>1. SumAt(squares, I) <= 2 * cap
      BY <2>7
    <3>2. ~(\E i \in I : squares[i].xe = x) => SumAt(squares, I) <= 1 * cap
      BY <2>6
    <3>. HIDE DEF I
    <3>3. SumAt(squares, I) <= (IF \E i \in I : squares[i].xe = x THEN 2 ELSE 1) * cap
      BY <3>1, <3>2
    <3>. QED BY <1>1, <3>3 DEF I
  <2>. QED BY <1>1, <1>3, <2>8 DEF PiecesBounded
<1>. QED BY <1>2, <1>3

-----------------------------------------------------------------------------
\* A square is within the matrix; its place among the squares of its size says
\* on which side of the diagonal it is.
Placed(s, nV) ==
  /\ s.xe <= nV /\ s.ye <= nV
  /\ s.h = s.v => s.xs = s.ys /\ s.xe = s.ye
  /\ s.h < s.v => s.xe <= s.ys

PlacedInv == \A i \in 1 .. Len(squares) : Placed(squares[i], call.nVertices)

\* Parts of a square are on its side of the diagonal; of one on the diagonal,
\* part 2 is on the one side and part 1 on the other.
LEMMA PartsPlaced ==
  ASSUME NEW s \in SquareType, Sides(s), NEW nV \in Nat, Placed(s, nV),
         NEW p \in 0 .. 3, NEW m \in Nat
  PROVE  Placed(Get_part(s, p, m), nV)
<1>. DEFINE t == Get_part(s, p, m)
<1>1. /\ s.xs \in Nat /\ s.xe \in Nat /\ s.ys \in Nat /\ s.ye \in Nat
      /\ s.h \in Nat /\ s.v \in Nat /\ s.xs <= s.xe /\ s.ys <= s.ye
  BY DEF SquareType, Sides
<1>2. PICK mx \in Nat, my \in Nat :
        /\ s.xs <= mx /\ mx <= s.xe /\ s.ys <= my /\ my <= s.ye
        /\ s.xs = s.ys /\ s.xe = s.ye => mx = my
        /\ t.xs = IF p \in {1, 3} THEN mx ELSE s.xs
        /\ t.xe = IF p \in {1, 3} THEN s.xe ELSE mx
        /\ t.ys = IF p \in {2, 3} THEN my ELSE s.ys
        /\ t.ye = IF p \in {2, 3} THEN s.ye ELSE my
  BY PartSides
<1>3. /\ t.h = 2 * s.h + (IF p \in {1, 3} THEN 1 ELSE 0)
      /\ t.v = 2 * s.v + (IF p \in {2, 3} THEN 1 ELSE 0)
  BY DEF Get_part
<1>. HIDE DEF t
<1>4. /\ s.xe <= nV /\ s.ye <= nV
      /\ s.h = s.v => s.xs = s.ys /\ s.xe = s.ye
      /\ s.h < s.v => s.xe <= s.ys
  BY DEF Placed
<1>5. t.xe <= nV /\ t.ye <= nV
  BY <1>1, <1>2, <1>4
<1>6. t.h = t.v => t.xs = t.ys /\ t.xe = t.ye
  <2>1. t.h = t.v => s.h = s.v /\ (p = 0 \/ p = 3)
    BY <1>1, <1>3
  <2>. QED BY <1>2, <1>4, <2>1
<1>7. t.h < t.v => t.xe <= t.ys
  <2>1. t.h < t.v => s.h < s.v \/ (s.h = s.v /\ p = 2)
    BY <1>1, <1>3
  <2>. QED BY <1>1, <1>2, <1>4, <2>1
<1>. QED BY <1>5, <1>6, <1>7 DEF Placed, t

\* Each square of the result is one of those before or a part of the one that
\* has been shattered.
LEMMA ShatterMembers ==
  ASSUME NEW sqs \in Seq(SquareType), NEW k \in 1 .. Len(sqs), Sides(sqs[k]),
         NEW directed \in BOOLEAN, NEW new \in ShatterSquare(sqs, k, directed),
         NEW i \in 1 .. Len(new)
  PROVE  \/ \E j \in 1 .. Len(sqs) : new[i] = sqs[j]
         \/ \E p \in 0 .. 3, m \in Nat : new[i] = Get_part(sqs[k], p, m)
<1>. DEFINE s == sqs[k]
            rest == RemoveAt(sqs, k)
<1>1. PICK a \in PartEdges(s.n, 0), b \in PartEdges(s.n, 1), c \in PartEdges(s.n, 2) :
        new = rest \o Parts(s, a, b, c, directed)
  BY DEF ShatterSquare
<1>. DEFINE parts == Parts(s, a, b, c, directed)
            d == s.n - a - b - c
<1>2. s \in SquareType /\ s.n \in Nat /\ Sides(s) /\ Len(sqs) \in Nat
  <2>1. s \in SquareType /\ Len(sqs) \in Nat
    BY LenProperties
  <2>. QED BY <2>1 DEF SquareType
<1>3. rest \in Seq(SquareType) /\ \A j \in 1 .. Len(rest) : \E l \in 1 .. Len(sqs) : rest[j] = sqs[l]
  <2>1. /\ rest \in Seq(SquareType) /\ Len(rest) = Len(sqs) - 1
        /\ \A j \in 1 .. Len(sqs) - 1 : rest[j] = IF j < k THEN sqs[j] ELSE sqs[j + 1]
    BY RemoveAtFacts
  <2>2. \A j \in 1 .. Len(sqs) - 1 : j \in 1 .. Len(sqs) /\ j + 1 \in 1 .. Len(sqs)
    BY <1>2
  <2>. QED BY <2>1, <2>2
<1>. HIDE DEF s, rest
<1>4. a \in Nat /\ b \in Nat /\ c \in Nat /\ d \in Nat /\ c + b \in Nat
  <2>1. a \in Nat /\ b \in Nat /\ c \in Nat /\ a + b + c <= s.n
    BY <1>2, PartsLeaveRest
  <2>. QED BY <1>2, <2>1
<1>. HIDE DEF d
<1>. DEFINE A == Get_part(s, 0, a)
            B == Get_part(s, 1, b)
            C == Get_part(s, 2, c)
            D == Get_part(s, 3, d)
            CB == Get_part(s, 2, c + b)
<1>5. parts = IF ~directed /\ s.xe = s.ye THEN <<A, CB, D>> ELSE <<A, B, C, D>>
  <2>1. [C EXCEPT !.n = @ + B.n] = CB
    BY DEF Get_part
  <2>. QED BY <2>1 DEF Parts, MergeBIntoC, d
<1>6. /\ parts \in Seq(SquareType)
      /\ \A j \in 1 .. Len(parts) : parts[j] \in {A, B, C, D, CB}
  <2>1. /\ A \in SquareType /\ B \in SquareType /\ C \in SquareType /\ D \in SquareType
        /\ CB \in SquareType
    BY <1>2, <1>4, PartSides
  <2>. HIDE DEF A, B, C, D, CB
  <2>2. CASE parts = <<A, CB, D>>
    <3>. HIDE DEF parts
    <3>. QED BY <2>1, <2>2
  <2>3. CASE parts = <<A, B, C, D>>
    <3>. HIDE DEF parts
    <3>. QED BY <2>1, <2>3
  <2>. HIDE DEF parts
  <2>. QED BY <1>5, <2>2, <2>3
<1>. HIDE DEF parts
<1>7. /\ Len(new) = Len(rest) + Len(parts) /\ Len(rest) \in Nat /\ Len(parts) \in Nat
      /\ \A j \in 1 .. Len(rest) + Len(parts) :
           new[j] = IF j <= Len(rest) THEN rest[j] ELSE parts[j - Len(rest)]
  BY <1>1, <1>3, <1>6, ConcatProperties, LenProperties DEF parts
<1>8. CASE i <= Len(rest)
  <2>1. i \in 1 .. Len(rest) /\ new[i] = rest[i]
    BY <1>7, <1>8
  <2>. QED BY <1>3, <2>1
<1>9. CASE ~(i <= Len(rest))
  <2>1. i - Len(rest) \in 1 .. Len(parts) /\ new[i] = parts[i - Len(rest)]
    BY <1>7, <1>9
  <2>2. new[i] \in {A, B, C, D, CB}
    BY <1>6, <2>1
  <2>3. \E p \in 0 .. 3, m \in Nat : new[i] = Get_part(s, p, m)
    BY <1>4, <2>2
  <2>. QED BY <2>3 DEF s
<1>. QED BY <1>8, <1>9

\* Shattering keeps squares in their places.
LEMMA ShatterKeepsPlaced ==
  ASSUME NEW sqs \in Seq(SquareType), NEW k \in 1 .. Len(sqs),
         NEW directed \in BOOLEAN, NEW nV \in Nat,
         \A i \in 1 .. Len(sqs) : Sides(sqs[i]) /\ Placed(sqs[i], nV),
         NEW new \in ShatterSquare(sqs, k, directed), NEW i \in 1 .. Len(new)
  PROVE  Placed(new[i], nV)
<1>1. sqs[k] \in SquareType /\ Sides(sqs[k]) /\ Placed(sqs[k], nV)
  BY LenProperties
<1>2. \A p \in 0 .. 3, m \in Nat : Placed(Get_part(sqs[k], p, m), nV)
  BY <1>1, PartsPlaced
<1>3. \/ \E j \in 1 .. Len(sqs) : new[i] = sqs[j]
      \/ \E p \in 0 .. 3, m \in Nat : new[i] = Get_part(sqs[k], p, m)
  BY <1>1, ShatterMembers
<1>. QED BY <1>2, <1>3

\* The first square is the matrix.
LEMMA PlacedInitInv ==
  PartitionInit => PlacedInv
<1>. SUFFICES ASSUME PartitionInit PROVE PlacedInv
  OBVIOUS
<1>1. call.nVertices \in Nat
  BY CallsAssumption DEF PartitionInit
<1>2. Len(squares) = 1 /\ Placed(squares[1], call.nVertices)
  BY <1>1 DEF PartitionInit, Placed
<1>. QED BY <1>2 DEF PlacedInv

\* A step of the partition shatters a square or leaves squares as they are.
LEMMA StepShatters ==
  ASSUME PartitionInv, PartitionStep
  PROVE  \/ squares' = squares
         \/ \E k \in 1 .. Len(squares) : \E new \in ShatterSquare(squares, k, call.directedGraph) :
              squares' \in {new, Sorted(new)}
<1>1. squares \in Seq(SquareType) /\ Len(squares) \in Nat /\ 1 \in 1 .. Len(squares)
  BY LenProperties, EmptySeq DEF PartitionInv, PartitionTypeOK
<1>2. CASE ShatterFirst
  BY <1>1, <1>2 DEF ShatterFirst, Shatter
<1>3. CASE ShatterBiggest
  <2>1. Biggest \in 1 .. Len(squares)
    BY BiggestIsOne DEF PartitionInv, PartitionTypeOK
  <2>. QED BY <1>3, <2>1 DEF ShatterBiggest, Shatter
<1>4. CASE BeginPass
  BY <1>4 DEF BeginPass
<1>5. CASE ShatterNext
  BY <1>1, <1>5 DEF ShatterNext, Shatter
<1>6. CASE LeaveLoop
  BY <1>6 DEF LeaveLoop
<1>. QED BY <1>2, <1>3, <1>4, <1>5, <1>6 DEF PartitionStep

\* Every step of the partition keeps squares in their places.
LEMMA PlacedStepInv ==
  PartitionInv /\ PlacedInv /\ PartitionStep => PlacedInv'
<1>. SUFFICES ASSUME PartitionInv, PlacedInv, PartitionStep PROVE PlacedInv'
  OBVIOUS
<1>. DEFINE nV == call.nVertices
<1>1. /\ squares \in Seq(SquareType) /\ call.directedGraph \in BOOLEAN /\ nV \in Nat
      /\ \A i \in 1 .. Len(squares) : Sides(squares[i]) /\ Placed(squares[i], nV)
  BY CallsAssumption DEF PartitionInv, PartitionTypeOK, PlacedInv, Tiled
<1>2. call' = call
  BY PartitionKeepsCall
<1>3. CASE squares' = squares
  BY <1>2, <1>3 DEF PlacedInv
<1>4. ASSUME NEW k \in 1 .. Len(squares),
             NEW new \in ShatterSquare(squares, k, call.directedGraph),
             squares' \in {new, Sorted(new)}
      PROVE  PlacedInv'
  <2>. HIDE DEF nV
  <2>1. \A i \in 1 .. Len(new) : Placed(new[i], nV)
    BY <1>1, ShatterKeepsPlaced
  <2>2. new \in Seq(SquareType)
    BY <1>1, ShatterKeeps, CallsAssumption DEF PartitionInv, PartitionTypeOK
  <2>3. PICK p \in Bijection(1 .. Len(new), 1 .. Len(new)) :
          \A i \in 1 .. Len(new) : Sorted(new)[i] = new[p[i]]
    BY <2>2, SortedPermutes
  <2>4. \A i \in 1 .. Len(new) : p[i] \in 1 .. Len(new)
    BY DEF Bijection, Injection
  <2>5. Len(Sorted(new)) = Len(new) /\ \A i \in 1 .. Len(new) : Placed(Sorted(new)[i], nV)
    BY <2>1, <2>2, <2>3, <2>4, SortedPermutes
  <2>6. \A i \in 1 .. Len(squares') : Placed(squares'[i], nV)
    BY <1>4, <2>1, <2>5
  <2>. QED BY <1>2, <2>6 DEF PlacedInv, nV
<1>. QED BY <1>3, <1>4, StepShatters

\* Whatever leaves the partition alone keeps them there.
LEMMA PlacedStutterInv ==
  PlacedInv /\ UNCHANGED partitionVars => PlacedInv'
BY DEF PlacedInv, partitionVars

\* In the sorted generator, between two passes, a square that starts to the left
\* of another one ends before it starts.
LEMMA ColumnsAscend ==
  ASSUME PartitionInv, CapacityInv, call.sorted, nLeft = 0,
         NEW i \in 1 .. Len(squares), NEW j \in 1 .. Len(squares),
         squares[i].xs < squares[j].xs
  PROVE  squares[i].xe <= squares[j].xs
<1>. DEFINE s == squares[i]
            t == squares[j]
<1>1. PICK X : Rising(X) /\ InColumns(squares, Len(squares), X)
  BY DEF CapacityInv, Waiting
<1>2. Len(squares) \in Nat /\ s \in SquareType /\ t \in SquareType
  BY LenProperties DEF PartitionInv, PartitionTypeOK
<1>3. s.h \in Nat /\ t.h \in Nat /\ s.xs \in Nat /\ t.xs \in Nat /\ s.xe \in Nat
  BY <1>2 DEF SquareType
<1>4. <<s.xs, s.xe>> = <<X[s.h], X[s.h + 1]>> /\ <<t.xs, t.xe>> = <<X[t.h], X[t.h + 1]>>
  <2>1. i <= Len(squares) /\ j <= Len(squares)
    BY <1>2
  <2>. QED BY <1>1, <2>1 DEF InColumns
<1>. HIDE DEF s, t
<1>5. s.xs = X[s.h] /\ s.xe = X[s.h + 1] /\ t.xs = X[t.h]
  BY <1>4
<1>6. s.xs < t.xs
  BY DEF s, t
<1>7. ~(t.h <= s.h)
  <2>1. t.h <= s.h => X[t.h] <= X[s.h]
    BY <1>1, <1>3 DEF Rising
  <2>. QED BY <1>3, <1>5, <1>6, <2>1
<1>8. s.h + 1 <= t.h /\ s.h + 1 \in Nat
  BY <1>3, <1>7
<1>. QED BY <1>1, <1>3, <1>5, <1>8 DEF Rising, s, t

-----------------------------------------------------------------------------
\* The width and the height of a square; whether there is room in it for its
\* edges even without the diagonal, and whether edgeOverflow lets it be divided.
Wide(s) == s.xe - s.xs
Tall(s) == s.ye - s.ys
Room(s)  == s.n <= (Wide(s) + 1) * Tall(s) \/ s.n <= Wide(s) * (Tall(s) + 1)
Slack(s) == 3 * s.n < Wide(s) * Tall(s)

\* A line of the matrix has a place for each number below the height that is
\* not on the diagonal.
Aside(x, k) == IF k < x THEN k ELSE k + 1

LEMMA AsideFacts ==
  ASSUME NEW lo \in Nat, NEW hi \in Nat, lo <= hi, NEW x \in Nat, NEW k \in lo .. hi - 1
  PROVE  /\ Aside(x, k) \in lo .. hi /\ Aside(x, k) # x
         /\ \A l \in lo .. hi - 1 : Aside(x, k) = Aside(x, l) => k = l
BY DEF Aside

\* How many numbers an interval has.
LEMMA IntervalSize ==
  ASSUME NEW lo \in Nat, NEW hi \in Int, hi >= lo - 1
  PROVE  IsFiniteSet(lo .. hi) /\ Cardinality(lo .. hi) = hi - lo + 1
<1>1. lo \in Int /\ hi \in Int
  OBVIOUS
<1>2. IsFiniteSet(lo .. hi) /\ Cardinality(lo .. hi) = IF lo > hi THEN 0 ELSE hi - lo + 1
  BY <1>1, FS_Interval
<1>. QED BY <1>2

\* The cells of a square are finitely many.
LEMMA CellsFinite ==
  ASSUME NEW s \in SquareType
  PROVE  IsFiniteSet(Cells(s)) /\ Cardinality(Cells(s)) \in Nat
<1>. DEFINE X == s.xs .. s.xe
            Y == s.ys .. s.ye
            C == Cells(s)
<1>1. IsFiniteSet(X) /\ IsFiniteSet(Y)
  <2>1. s.xs \in Int /\ s.xe \in Int /\ s.ys \in Int /\ s.ye \in Int
    BY DEF SquareType
  <2>. QED BY <2>1, FS_Interval
<1>2. C \in SUBSET (X \X Y)
  BY DEF Cells, Within
<1>. HIDE DEF C, X, Y
<1>3. IsFiniteSet(X \X Y)
  BY <1>1, FS_Product
<1>4. IsFiniteSet(C) /\ Cardinality(C) \in Nat
  BY <1>2, <1>3, FS_Subset, FS_CardinalityType
<1>. QED BY <1>4 DEF C

\* Room for the edges is room among the cells.
LEMMA RoomIsCells ==
  ASSUME NEW s \in SquareType, Sides(s), call.directedGraph, Room(s)
  PROVE  s.n <= Cardinality(Cells(s))
<1>. DEFINE X == s.xs .. s.xe
            Y == s.ys .. s.ye
            X1 == s.xs .. s.xe - 1
            Y1 == s.ys .. s.ye - 1
            w == Wide(s)
            t == Tall(s)
            C == Cells(s)
            c == Cardinality(C)
<1>1. /\ s.xs \in Nat /\ s.xe \in Nat /\ s.xs <= s.xe
      /\ s.ys \in Nat /\ s.ye \in Nat /\ s.ys <= s.ye /\ s.n \in Nat
  BY DEF SquareType, Sides
<1>2. w \in Nat /\ t \in Nat /\ w = s.xe - s.xs /\ t = s.ye - s.ys
  BY <1>1 DEF Wide, Tall
<1>3. /\ IsFiniteSet(X) /\ Cardinality(X) = w + 1 /\ IsFiniteSet(Y) /\ Cardinality(Y) = t + 1
  <2>1. s.xe \in Int /\ s.xe >= s.xs - 1 /\ s.ye \in Int /\ s.ye >= s.ys - 1
    BY <1>1
  <2>2. IsFiniteSet(X) /\ Cardinality(X) = s.xe - s.xs + 1
    BY <1>1, <2>1, IntervalSize
  <2>3. IsFiniteSet(Y) /\ Cardinality(Y) = s.ye - s.ys + 1
    BY <1>1, <2>1, IntervalSize
  <2>. QED BY <1>2, <2>2, <2>3
<1>4. IsFiniteSet(X1) /\ Cardinality(X1) = w /\ IsFiniteSet(Y1) /\ Cardinality(Y1) = t
  <2>1. s.xe - 1 \in Int /\ s.xe - 1 >= s.xs - 1 /\ (s.xe - 1) - s.xs + 1 = w
    BY <1>1, <1>2
  <2>2. s.ye - 1 \in Int /\ s.ye - 1 >= s.ys - 1 /\ (s.ye - 1) - s.ys + 1 = t
    BY <1>1, <1>2
  <2>3. IsFiniteSet(X1) /\ Cardinality(X1) = (s.xe - 1) - s.xs + 1
    BY <1>1, <2>1, IntervalSize
  <2>4. IsFiniteSet(Y1) /\ Cardinality(Y1) = (s.ye - 1) - s.ys + 1
    BY <1>1, <2>2, IntervalSize
  <2>. QED BY <2>1, <2>2, <2>3, <2>4
<1>5. \A x \in X, y \in Y : x # y => <<x, y>> \in C
  BY <1>1 DEF Cells, Within, Accepts
<1>6. IsFiniteSet(C) /\ c \in Nat
  BY CellsFinite
<1>7. (w + 1) * t <= c
  <2>. DEFINE f == [q \in X \X Y1 |-> <<q[1], Aside(q[1], q[2])>>]
  <2>1. ASSUME NEW x \in X, NEW k \in Y1
        PROVE  /\ Aside(x, k) \in Y /\ Aside(x, k) # x
               /\ \A l \in Y1 : Aside(x, k) = Aside(x, l) => k = l
    <3>1. x \in Nat
      BY <1>1
    <3>. QED BY <1>1, <3>1, AsideFacts
  <2>. HIDE DEF X, Y, Y1, C
  <2>2. f \in [X \X Y1 -> C]
    BY <1>5, <2>1
  <2>3. \A q, r \in X \X Y1 : f[q] = f[r] => q = r
    BY <2>1
  <2>. HIDE DEF f
  <2>4. f \in Injection(X \X Y1, C)
    BY <2>2, <2>3 DEF Injection, IsInjective
  <2>5. Cardinality(X \X Y1) <= Cardinality(C)
    BY <1>6, <2>4, FS_Injection
  <2>6. Cardinality(X \X Y1) = (w + 1) * t
    BY <1>3, <1>4, FS_Product
  <2>. QED BY <2>5, <2>6
<1>8. w * (t + 1) <= c
  <2>. DEFINE f == [q \in X1 \X Y |-> <<Aside(q[2], q[1]), q[2]>>]
  <2>1. ASSUME NEW y \in Y, NEW k \in X1
        PROVE  /\ Aside(y, k) \in X /\ Aside(y, k) # y
               /\ \A l \in X1 : Aside(y, k) = Aside(y, l) => k = l
    <3>1. y \in Nat
      BY <1>1
    <3>. QED BY <1>1, <3>1, AsideFacts
  <2>. HIDE DEF X, Y, X1, C
  <2>2. f \in [X1 \X Y -> C]
    BY <1>5, <2>1
  <2>3. \A q, r \in X1 \X Y : f[q] = f[r] => q = r
    BY <2>1
  <2>. HIDE DEF f
  <2>4. f \in Injection(X1 \X Y, C)
    BY <2>2, <2>3 DEF Injection, IsInjective
  <2>5. Cardinality(X1 \X Y) <= Cardinality(C)
    BY <1>6, <2>4, FS_Injection
  <2>6. Cardinality(X1 \X Y) = w * (t + 1)
    BY <1>3, <1>4, FS_Product
  <2>. QED BY <2>5, <2>6
<1>9. s.n <= (w + 1) * t \/ s.n <= w * (t + 1)
  BY DEF Room
<1>. HIDE DEF w, t, c, C
<1>10. (w + 1) * t \in Int /\ w * (t + 1) \in Int
  BY <1>2
<1>. QED BY <1>1, <1>6, <1>7, <1>8, <1>9, <1>10 DEF c, C

\* No part gets more than three quarters of the edges, rounded up.
LEMMA ThreeQuarters ==
  ASSUME NEW n \in Nat, NEW a \in PartEdges(n, 0), NEW b \in PartEdges(n, 1), NEW c \in PartEdges(n, 2)
  PROVE  /\ 4 * a <= 3 * n + 3 /\ 4 * b <= 3 * n + 3 /\ 4 * c <= 3 * n + 3
         /\ 4 * (n - a - b - c) <= 3 * n + 3
<1>1. /\ a \in Nat /\ b \in Nat /\ c \in Nat
  BY PartsLeaveRest
<1>2. Whole \in Nat \ {0} /\ Noise \in Nat /\ \A p \in 0 .. 2 : Share[p] \in Nat /\ Share[p] >= Noise
  BY ShareAssumption
<1>3. ASSUME NEW p \in 0 .. 2, NEW m \in Nat, m \in PartEdges(n, p) PROVE 4 * m <= 3 * n
  <2>. DEFINE S == Share[p] + Noise
              x == S * n
              q == x \div Whole
  <2>1. S \in Nat /\ 4 * S <= 3 * Whole
    BY <1>2, PartsAssumption
  <2>2. m <= q
    BY <1>3 DEF PartEdges
  <2>. HIDE DEF S
  <2>3. x \in Nat
    BY <2>1
  <2>4. n * (4 * S) <= n * (3 * Whole)
    BY <1>2, <2>1, ProductMonotone
  <2>5. n * (4 * S) = 4 * x /\ n * (3 * Whole) = 3 * (Whole * n)
    BY <1>2, <2>1
  <2>. HIDE DEF x
  <2>6. q \in Int /\ Whole * q <= x
    BY <1>2, <2>3, DivBounds
  <2>. HIDE DEF q
  <2>7. Whole * m <= Whole * q
    BY <1>2, <2>2, <2>6, ProductMonotone
  <2>8. 4 * (Whole * m) <= 3 * (Whole * n)
    <3>. DEFINE A == Whole * m
                B == Whole * n
                Q == Whole * q
    <3>1. A \in Int /\ B \in Int /\ Q \in Int
      BY <1>2, <2>6
    <3>. HIDE DEF A, B, Q
    <3>2. A <= Q /\ Q <= x /\ 4 * x <= 3 * B
      BY <2>4, <2>5, <2>6, <2>7 DEF A, B, Q
    <3>3. 4 * A <= 3 * B
      BY <2>3, <3>1, <3>2
    <3>. QED BY <3>3 DEF A, B
  <2>. SUFFICES ASSUME 4 * m >= 3 * n + 1 PROVE FALSE
    OBVIOUS
  <2>9. Whole * (3 * n + 1) <= Whole * (4 * m)
    BY <1>2, ProductMonotone
  <2>10. Whole * (3 * n + 1) = 3 * (Whole * n) + Whole /\ Whole * (4 * m) = 4 * (Whole * m)
    BY <1>2
  <2>11. Whole * n \in Int /\ Whole * m \in Int
    BY <1>2
  <2>. QED BY <1>2, <2>8, <2>9, <2>10, <2>11
<1>4. 4 * a <= 3 * n /\ 4 * b <= 3 * n /\ 4 * c <= 3 * n
  BY <1>1, <1>3
<1>5. 4 * a >= n - 3
  <2>. DEFINE S == Share[0] - Noise
              x == S * n
              q == x \div Whole
  <2>1. S \in Nat /\ 4 * S >= Whole
    BY <1>2, PartsAssumption
  <2>2. q <= a
    BY DEF PartEdges
  <2>. HIDE DEF S
  <2>3. x \in Nat
    BY <2>1
  <2>4. n * Whole <= n * (4 * S)
    BY <1>2, <2>1, ProductMonotone
  <2>5. n * (4 * S) = 4 * x /\ n * Whole = Whole * n
    BY <1>2, <2>1
  <2>. HIDE DEF x
  <2>6. q \in Int /\ x = Whole * q + (x % Whole) /\ x % Whole \in 0 .. Whole - 1
    BY <1>2, <2>3
  <2>. HIDE DEF q
  <2>7. Whole * q <= Whole * a
    BY <1>1, <1>2, <2>2, <2>6, ProductMonotone
  <2>8. Whole * n <= 4 * (Whole * a) + 4 * Whole - 4
    <3>. DEFINE A == Whole * a
                B == Whole * n
                Q == Whole * q
                r == x % Whole
    <3>1. A \in Int /\ B \in Int /\ Q \in Int /\ r \in 0 .. Whole - 1
      BY <1>1, <1>2, <2>6
    <3>2. Q <= A /\ x = Q + r /\ B <= 4 * x
      BY <2>4, <2>5, <2>6, <2>7
    <3>. HIDE DEF A, B, Q, r
    <3>3. B <= 4 * A + 4 * Whole - 4
      BY <1>2, <2>3, <3>1, <3>2
    <3>. QED BY <3>3 DEF A, B
  <2>. SUFFICES ASSUME n >= 4 * a + 4 PROVE FALSE
    BY <1>1
  <2>9. Whole * (4 * a + 4) <= Whole * n
    BY <1>1, <1>2, ProductMonotone
  <2>10. Whole * (4 * a + 4) = 4 * (Whole * a) + 4 * Whole /\ Whole * a \in Int /\ Whole * n \in Int
    BY <1>1, <1>2
  <2>. QED BY <1>2, <2>8, <2>9, <2>10
<1>. QED BY <1>1, <1>4, <1>5

\* What is less than half of a side of a square with slack is enough for them.
LEMMA QuarterHasRoom ==
  ASSUME NEW w \in Nat, NEW t \in Nat, NEW n \in Nat, 3 * n < w * t,
         NEW u \in Nat, NEW v \in Nat, 2 * u >= w - 1, 2 * v >= t - 1,
         NEW m \in Nat, 4 * m <= 3 * n + 3
  PROVE  m <= (u + 1) * v \/ m <= u * (v + 1)
<1>. DEFINE wt == w * t
            A == (u + 1) * v
            B == u * (v + 1)
<1>1. w >= 1 /\ t >= 1
  <2>1. w = 0 \/ t = 0 => w * t = 0
    OBVIOUS
  <2>. QED BY <2>1
<1>2. (w + 1) * (t - 1) = wt - w + t - 1 /\ (w - 1) * (t + 1) = wt + w - t - 1
  OBVIOUS
<1>3. (w + 1) * (t - 1) <= 4 * A
  <2>1. w + 1 \in Nat /\ t - 1 \in Int /\ 2 * v \in Nat /\ t - 1 <= 2 * v
    BY <1>1
  <2>2. (w + 1) * (t - 1) <= (w + 1) * (2 * v)
    BY <2>1, ProductMonotone
  <2>3. (w + 1) * (2 * v) <= (2 * (u + 1)) * (2 * v)
    <3>1. w + 1 \in Int /\ 2 * (u + 1) \in Int /\ w + 1 <= 2 * (u + 1)
      BY <1>1
    <3>. QED BY <2>1, <3>1, ProductMonotone
  <2>4. (2 * (u + 1)) * (2 * v) = 4 * A
    OBVIOUS
  <2>5. (w + 1) * (t - 1) \in Int /\ (w + 1) * (2 * v) \in Int /\ A \in Int
    BY <1>1
  <2>. HIDE DEF A
  <2>. QED BY <2>2, <2>3, <2>4, <2>5
<1>4. (w - 1) * (t + 1) <= 4 * B
  <2>1. w - 1 \in Int /\ t + 1 \in Nat /\ 2 * u \in Nat /\ w - 1 <= 2 * u
    BY <1>1
  <2>2. (w - 1) * (t + 1) <= (2 * u) * (t + 1)
    BY <2>1, ProductMonotone
  <2>3. (2 * u) * (t + 1) <= (2 * u) * (2 * (v + 1))
    <3>1. t + 1 \in Int /\ 2 * (v + 1) \in Int /\ t + 1 <= 2 * (v + 1)
      BY <1>1
    <3>. QED BY <2>1, <3>1, ProductMonotone
  <2>4. (2 * u) * (2 * (v + 1)) = 4 * B
    OBVIOUS
  <2>5. (w - 1) * (t + 1) \in Int /\ (2 * u) * (t + 1) \in Int /\ B \in Int
    BY <1>1
  <2>. HIDE DEF B
  <2>. QED BY <2>2, <2>3, <2>4, <2>5
<1>5. wt \in Int /\ A \in Int /\ B \in Int
  OBVIOUS
<1>6. wt - w + t - 1 <= 4 * A /\ wt + w - t - 1 <= 4 * B /\ 3 * n + 1 <= wt
  BY <1>2, <1>3, <1>4, <1>5
<1>. HIDE DEF wt, A, B
<1>7. m <= A \/ m <= B
  BY <1>5, <1>6
<1>. QED BY <1>7 DEF A, B

\* The parts of a square have at least half of its sides, rounded down.
LEMMA PartHalves ==
  ASSUME NEW s \in SquareType, Sides(s), NEW p \in 0 .. 3, NEW m \in Nat
  PROVE  /\ Wide(Get_part(s, p, m)) \in Nat /\ 2 * Wide(Get_part(s, p, m)) >= Wide(s) - 1
         /\ Tall(Get_part(s, p, m)) \in Nat /\ 2 * Tall(Get_part(s, p, m)) >= Tall(s) - 1
<1>. DEFINE t == Get_part(s, p, m)
            mx == (s.xs + s.xe) \div 2
            my == (s.ys + s.ye) \div 2
<1>1. /\ s.xs \in Nat /\ s.xe \in Nat /\ s.ys \in Nat /\ s.ye \in Nat
      /\ s.xs <= s.xe /\ s.ys <= s.ye
  BY DEF SquareType, Sides
<1>2. /\ mx \in Nat /\ s.xs + s.xe - 1 <= 2 * mx /\ 2 * mx <= s.xs + s.xe
      /\ my \in Nat /\ s.ys + s.ye - 1 <= 2 * my /\ 2 * my <= s.ys + s.ye
  BY <1>1
<1>3. /\ t.xs = IF p \in {1, 3} THEN mx ELSE s.xs
      /\ t.xe = IF p \in {1, 3} THEN s.xe ELSE mx
      /\ t.ys = IF p \in {2, 3} THEN my ELSE s.ys
      /\ t.ye = IF p \in {2, 3} THEN s.ye ELSE my
  BY DEF Get_part, Half
<1>. HIDE DEF mx, my, t
<1>4. t.xe - t.xs \in Nat /\ 2 * (t.xe - t.xs) >= s.xe - s.xs - 1
  BY <1>1, <1>2, <1>3
<1>5. t.ye - t.ys \in Nat /\ 2 * (t.ye - t.ys) >= s.ye - s.ys - 1
  BY <1>1, <1>2, <1>3
<1>. QED BY <1>4, <1>5 DEF Wide, Tall, t

\* A square has a width and a height.
LEMMA SideLengths ==
  ASSUME NEW s \in SquareType, Sides(s)
  PROVE  Wide(s) \in Nat /\ Tall(s) \in Nat
BY DEF Wide, Tall, SquareType, Sides

\* What shattering gives, for some numbers of edges.
LEMMA ShatterResult ==
  ASSUME NEW sqs, NEW k, NEW directed \in BOOLEAN, NEW new \in ShatterSquare(sqs, k, directed)
  PROVE  \E a \in PartEdges(sqs[k].n, 0), b \in PartEdges(sqs[k].n, 1),
            c \in PartEdges(sqs[k].n, 2) :
              new = RemoveAt(sqs, k) \o Parts(sqs[k], a, b, c, directed)
BY DEF ShatterSquare

\* The parts of a square with slack have room; the other squares stay as they are.
LEMMA ShatterRoom ==
  ASSUME NEW sqs \in Seq(SquareType), NEW k \in 1 .. Len(sqs), Sides(sqs[k]), Slack(sqs[k]),
         NEW directed \in BOOLEAN, directed = TRUE, NEW new \in ShatterSquare(sqs, k, directed),
         NEW i \in 1 .. Len(new)
  PROVE  IF i < Len(sqs) THEN new[i] = IF i < k THEN sqs[i] ELSE sqs[i + 1]
                         ELSE Room(new[i])
<1>. DEFINE s == sqs[k]
            rest == RemoveAt(sqs, k)
            L == Len(sqs) - 1
<1>1. s \in SquareType /\ s.n \in Nat /\ Sides(s) /\ Slack(s) /\ Len(sqs) \in Nat /\ L \in Nat
  <2>1. s \in SquareType /\ Len(sqs) \in Nat /\ Sides(s) /\ Slack(s)
    BY LenProperties
  <2>2. L \in Nat
    BY <2>1
  <2>. HIDE DEF s, L
  <2>. QED BY <2>1, <2>2 DEF SquareType
<1>2. PICK a \in PartEdges(s.n, 0), b \in PartEdges(s.n, 1), c \in PartEdges(s.n, 2) :
        new = rest \o Parts(s, a, b, c, directed)
  BY ShatterResult
<1>. DEFINE d == s.n - a - b - c
            parts == <<Get_part(s, 0, a), Get_part(s, 1, b), Get_part(s, 2, c), Get_part(s, 3, d)>>
<1>3. /\ rest \in Seq(SquareType) /\ Len(rest) = L
      /\ \A j \in 1 .. L : rest[j] = IF j < k THEN sqs[j] ELSE sqs[j + 1]
  BY RemoveAtFacts
<1>. HIDE DEF s, rest
<1>4. /\ a \in Nat /\ b \in Nat /\ c \in Nat /\ d \in Nat
      /\ 4 * a <= 3 * s.n + 3 /\ 4 * b <= 3 * s.n + 3 /\ 4 * c <= 3 * s.n + 3
      /\ 4 * d <= 3 * s.n + 3
  <2>1. a \in Nat /\ b \in Nat /\ c \in Nat /\ a + b + c <= s.n
    BY <1>1, PartsLeaveRest
  <2>2. /\ 4 * a <= 3 * s.n + 3 /\ 4 * b <= 3 * s.n + 3 /\ 4 * c <= 3 * s.n + 3
        /\ 4 * d <= 3 * s.n + 3
    BY <1>1, ThreeQuarters
  <2>3. d \in Nat
    BY <1>1, <2>1
  <2>. QED BY <2>1, <2>2, <2>3
<1>. HIDE DEF d
<1>5. ASSUME NEW p \in 0 .. 3, NEW m \in Nat, 4 * m <= 3 * s.n + 3
      PROVE  Get_part(s, p, m) \in SquareType /\ Room(Get_part(s, p, m))
  <2>. DEFINE t == Get_part(s, p, m)
              w == Wide(s)
              h == Tall(s)
              u == Wide(t)
              v == Tall(t)
  <2>1. t \in SquareType /\ t.n = m
    BY <1>1, PartSides
  <2>2. u \in Nat /\ v \in Nat /\ 2 * u >= w - 1 /\ 2 * v >= h - 1
    BY <1>1, PartHalves
  <2>3. w \in Nat /\ h \in Nat /\ 3 * s.n < w * h
    <3>1. w \in Nat /\ h \in Nat
      BY <1>1, SideLengths
    <3>. QED BY <1>1, <3>1 DEF Slack
  <2>. HIDE DEF u, v, w, h
  <2>4. m <= (u + 1) * v \/ m <= u * (v + 1)
    BY <1>1, <1>5, <2>2, <2>3, QuarterHasRoom
  <2>. QED BY <2>1, <2>4 DEF Room, u, v
<1>6. /\ Parts(s, a, b, c, directed) = parts
      /\ parts \in Seq(SquareType) /\ Len(parts) = 4 /\ \A j \in 1 .. 4 : Room(parts[j])
  <2>1. Parts(s, a, b, c, directed) = parts
    BY DEF Parts, d
  <2>2. /\ Get_part(s, 0, a) \in SquareType /\ Room(Get_part(s, 0, a))
        /\ Get_part(s, 1, b) \in SquareType /\ Room(Get_part(s, 1, b))
        /\ Get_part(s, 2, c) \in SquareType /\ Room(Get_part(s, 2, c))
        /\ Get_part(s, 3, d) \in SquareType /\ Room(Get_part(s, 3, d))
    BY <1>4, <1>5
  <2>3. \A A, B, C, D :
          /\ A \in SquareType /\ Room(A) /\ B \in SquareType /\ Room(B)
          /\ C \in SquareType /\ Room(C) /\ D \in SquareType /\ Room(D)
          => /\ <<A, B, C, D>> \in Seq(SquareType) /\ Len(<<A, B, C, D>>) = 4
             /\ \A j \in 1 .. 4 : Room(<<A, B, C, D>>[j])
    OBVIOUS
  <2>. QED BY <2>1, <2>2, <2>3
<1>. HIDE DEF parts
<1>7. /\ new = rest \o parts /\ Len(new) = L + 4
      /\ \A j \in 1 .. L + 4 : new[j] = IF j <= L THEN rest[j] ELSE parts[j - L]
  <2>1. /\ Len(rest \o parts) = Len(rest) + Len(parts)
        /\ \A j \in 1 .. Len(rest) + Len(parts) :
             (rest \o parts)[j] = IF j <= Len(rest) THEN rest[j] ELSE parts[j - Len(rest)]
    BY <1>3, <1>6, ConcatProperties
  <2>. QED BY <1>2, <1>3, <1>6, <2>1
<1>8. CASE i <= L
  <2>1. i \in 1 .. L /\ i < Len(sqs) /\ new[i] = rest[i]
    BY <1>1, <1>7, <1>8
  <2>. QED BY <1>3, <2>1
<1>9. CASE ~(i <= L)
  <2>1. i - L \in 1 .. 4 /\ ~(i < Len(sqs)) /\ new[i] = parts[i - L]
    BY <1>1, <1>7, <1>9
  <2>. QED BY <1>6, <2>1
<1>. QED BY <1>8, <1>9

\* With no more edges than the capacity the first loop has nothing to do.
LEMMA NothingTooLarge ==
  ASSUME PartitionInv, call.nEdges <= call.standardCapacity
  PROVE  ~TooLarge
<1>. DEFINE J == 1 .. Len(squares)
<1>1. /\ squares \in Seq(SquareType) /\ DOMAIN squares = J
      /\ call.nEdges \in Nat /\ call.standardCapacity \in Nat
      /\ SumAt(squares, J) = call.nEdges
  BY CallsAssumption, SumAtEnds, LenProperties DEF PartitionInv, PartitionTypeOK, EdgesConserved
<1>2. ASSUME NEW I \in SUBSET J PROVE SumAt(squares, I) <= call.standardCapacity
  <2>1. J \in SUBSET (1 .. Len(squares))
    OBVIOUS
  <2>2. SumAt(squares, I) \in Nat
    BY <1>1, SumAtMasked
  <2>. HIDE DEF J
  <2>3. SumAt(squares, I) <= SumAt(squares, J)
    BY <1>1, <2>1, SumAtSubset
  <2>. QED BY <1>1, <2>2, <2>3
<1>3. CASE call.sorted
  <2>1. \A x : {i \in DOMAIN squares : squares[i].xe = x} \in SUBSET J
    BY <1>1
  <2>2. Eligible_RNG_Squares
    BY <1>2, <2>1 DEF Eligible_RNG_Squares
  <2>. QED BY <1>3, <2>2 DEF TooLarge
<1>4. CASE ~call.sorted
  <2>1. ASSUME NEW i \in J PROVE squares[i].n <= call.standardCapacity
    <3>1. {i} \in SUBSET J /\ SumAt(squares, {i}) = squares[i].n
      BY <1>1, SumAtSingle
    <3>. QED BY <1>2, <3>1
  <2>2. \A s \in Range(squares) : Eligible_RNG_Rec(s)
    BY <1>1, <2>1 DEF Range, Eligible_RNG_Rec
  <2>. QED BY <1>4, <2>2 DEF TooLarge
<1>. QED BY <1>3, <1>4

\* What keeps room in every square: those a pass still has to shatter have slack,
\* for edgeOverflow was asked when it began.
Feasible ==
  /\ call.directedGraph
  /\ call.nEdges <= call.standardCapacity
  /\ 3 * call.nEdges < call.nVertices * call.nVertices

RoomInv ==
  Feasible =>
    /\ \A i \in 1 .. Len(squares) : Room(squares[i])
    /\ stage = "range" => nLeft = 0
    /\ \A i \in 1 .. nLeft : Slack(squares[i])

\* The matrix has room for them.
LEMMA RoomInitInv ==
  PartitionInit => RoomInv
<1>. SUFFICES ASSUME PartitionInit, Feasible PROVE RoomInv
  BY DEF RoomInv
<1>. DEFINE V == call.nVertices
            n == call.nEdges
            s == squares[1]
<1>1. V \in Nat /\ n \in Nat /\ 3 * n < V * V
  BY CallsAssumption DEF PartitionInit, Feasible
<1>2. /\ Len(squares) = 1 /\ s.n = n /\ Wide(s) = V /\ Tall(s) = V
      /\ stage = "range" /\ nLeft = 0
  <2>1. Len(squares) = 1 /\ s = [xs |-> 0, xe |-> V, ys |-> 0, ye |-> V, n |-> n, h |-> 0, v |-> 0]
    BY DEF PartitionInit
  <2>. HIDE DEF s, n, V
  <2>. QED BY <1>1, <2>1 DEF PartitionInit, Wide, Tall
<1>. HIDE DEF s, n, V
<1>3. n <= (V + 1) * V
  <2>1. (V + 1) * V = V * V + V /\ V * V \in Int
    BY <1>1
  <2>. QED BY <1>1, <2>1
<1>4. Room(s)
  BY <1>2, <1>3 DEF Room
<1>. QED BY <1>2, <1>4 DEF RoomInv, s

\* Each step of the partition keeps it.
LEMMA RoomStepInv ==
  PartitionInv /\ RoomInv /\ PartitionStep => RoomInv'
<1>. SUFFICES ASSUME PartitionInv, RoomInv, PartitionStep, Feasible' PROVE RoomInv'
  BY DEF RoomInv
<1>. DEFINE L == Len(squares)
<1>1. call' = call /\ Feasible
  BY PartitionKeepsCall DEF Feasible
<1>2. /\ call.directedGraph \in BOOLEAN /\ call.directedGraph /\ call.nVertices \in Nat
      /\ squares \in Seq(SquareType) /\ L \in Nat /\ 1 \in 1 .. L /\ nLeft \in 0 .. L
      /\ \A i \in 1 .. L : squares[i] \in SquareType /\ Sides(squares[i])
      /\ Tiled(squares, call.directedGraph, call.nVertices)
  <2>1. squares \in Seq(SquareType) /\ L \in Nat /\ 1 \in 1 .. L
    BY LenProperties, EmptySeq DEF PartitionInv, PartitionTypeOK
  <2>. QED BY <1>1, <2>1, CallsAssumption DEF PartitionInv, PartitionTypeOK, Tiled, Feasible
<1>3. /\ \A i \in 1 .. L : Room(squares[i])
      /\ stage = "range" => nLeft = 0
      /\ \A i \in 1 .. nLeft : Slack(squares[i])
  BY <1>1 DEF RoomInv
<1>4. GoesOn => stage = "spread" /\ \A i \in 1 .. L : Slack(squares[i])
  <2>. SUFFICES ASSUME GoesOn PROVE stage = "spread" /\ \A i \in 1 .. L : Slack(squares[i])
    OBVIOUS
  <2>1. ~TooLarge
    BY <1>1, NothingTooLarge DEF Feasible
  <2>2. stage = "spread" /\ ~edgeOverflow
    BY <2>1 DEF GoesOn, TooFew
  <2>3. ASSUME NEW i \in 1 .. L PROVE Slack(squares[i])
    <3>. DEFINE s == squares[i]
    <3>1. s \in SquareType /\ s \in Range(squares)
      BY <1>2, LenProperties DEF Range
    <3>2. ~(3 * s.n >= (s.xe - s.xs) * (s.ye - s.ys))
      BY <2>2, <3>1 DEF edgeOverflow
    <3>3. 3 * s.n \in Int /\ (s.xe - s.xs) * (s.ye - s.ys) \in Int
      BY <3>1 DEF SquareType
    <3>. HIDE DEF s
    <3>4. 3 * s.n < (s.xe - s.xs) * (s.ye - s.ys)
      BY <3>2, <3>3
    <3>. QED BY <3>4 DEF Slack, Wide, Tall, s
  <2>. QED BY <2>2, <2>3
<1>5. ASSUME NEW k \in 1 .. L, Slack(squares[k]),
             NEW new \in ShatterSquare(squares, k, call.directedGraph)
      PROVE  /\ new \in Seq(SquareType) /\ Len(new) \in Nat /\ Len(new) >= L + 2
             /\ \A i \in 1 .. Len(new) : Room(new[i])
             /\ \A i \in 1 .. L - 1 : new[i] = IF i < k THEN squares[i] ELSE squares[i + 1]
  <2>1. new \in Seq(SquareType) /\ Len(new) \in Nat /\ Len(new) >= L + 2
    BY <1>2, ShatterKeeps
  <2>2. ASSUME NEW i \in 1 .. Len(new)
        PROVE  IF i < L THEN new[i] = IF i < k THEN squares[i] ELSE squares[i + 1]
                        ELSE Room(new[i])
    BY <1>2, <1>5, ShatterRoom
  <2>3. ASSUME NEW i \in 1 .. L - 1
        PROVE  new[i] = IF i < k THEN squares[i] ELSE squares[i + 1]
    <3>1. i \in 1 .. Len(new) /\ i < L
      BY <1>2, <2>1
    <3>. QED BY <2>2, <3>1
  <2>4. ASSUME NEW i \in 1 .. Len(new) PROVE Room(new[i])
    <3>1. CASE i < L
      <4>1. i \in 1 .. L /\ i + 1 \in 1 .. L /\ new[i] = IF i < k THEN squares[i] ELSE squares[i + 1]
        BY <1>2, <2>2, <3>1
      <4>. QED BY <1>3, <4>1
    <3>. QED BY <2>2, <3>1
  <2>. QED BY <2>1, <2>3, <2>4
<1>6. CASE ShatterFirst
  BY <1>4, <1>6 DEF ShatterFirst
<1>7. CASE ShatterBiggest
  <2>1. Biggest \in 1 .. L /\ Slack(squares[Biggest])
    BY <1>2, <1>4, <1>7, BiggestIsOne DEF ShatterBiggest, PartitionInv
  <2>2. PICK new \in ShatterSquare(squares, Biggest, call.directedGraph) : squares' = new
    BY <1>7 DEF ShatterBiggest, Shatter
  <2>3. nLeft = 0 /\ nLeft' = nLeft
    BY <1>4, <1>7 DEF ShatterBiggest, PartitionInv
  <2>4. \A i \in 1 .. Len(squares') : Room(squares'[i])
    BY <1>5, <2>1, <2>2
  <2>. QED BY <2>3, <2>4 DEF RoomInv
<1>8. CASE BeginPass
  <2>1. squares' = squares /\ stage' = stage /\ stage = "spread" /\ nLeft' = L
    BY <1>4, <1>8 DEF BeginPass
  <2>. QED BY <1>3, <1>4, <1>8, <2>1 DEF RoomInv, BeginPass
<1>9. CASE ShatterNext
  <2>1. nLeft > 0 /\ nLeft' = nLeft - 1 /\ stage' = stage /\ stage # "range"
    BY <1>3, <1>9 DEF ShatterNext, Shatter
  <2>2. PICK new \in ShatterSquare(squares, 1, call.directedGraph) :
          squares' = IF nLeft = 1 THEN Sorted(new) ELSE new
    BY <1>9 DEF ShatterNext, Shatter
  <2>3. Slack(squares[1])
    BY <1>2, <1>3, <2>1
  <2>4. /\ new \in Seq(SquareType) /\ Len(new) \in Nat /\ \A i \in 1 .. Len(new) : Room(new[i])
        /\ \A i \in 1 .. L - 1 : new[i] = squares[i + 1]
    <3>1. /\ new \in Seq(SquareType) /\ Len(new) \in Nat /\ \A i \in 1 .. Len(new) : Room(new[i])
          /\ \A i \in 1 .. L - 1 : new[i] = IF i < 1 THEN squares[i] ELSE squares[i + 1]
      BY <1>2, <1>5, <2>3
    <3>. QED BY <1>2, <3>1
  <2>5. CASE nLeft = 1
    <3>1. PICK p \in Bijection(1 .. Len(new), 1 .. Len(new)) :
            \A i \in 1 .. Len(new) : Sorted(new)[i] = new[p[i]]
      BY <2>4, SortedPermutes
    <3>2. \A i \in 1 .. Len(new) : p[i] \in 1 .. Len(new)
      BY DEF Bijection, Injection
    <3>3. Len(Sorted(new)) = Len(new) /\ \A i \in 1 .. Len(new) : Room(Sorted(new)[i])
      BY <2>4, <3>1, <3>2, SortedPermutes
    <3>4. squares' = Sorted(new) /\ nLeft' = 0
      BY <2>1, <2>2, <2>5
    <3>. QED BY <2>1, <3>3, <3>4 DEF RoomInv
  <2>6. CASE nLeft # 1
    <3>1. squares' = new
      BY <2>2, <2>6
    <3>2. ASSUME NEW i \in 1 .. nLeft - 1 PROVE Slack(new[i])
      <4>1. i \in 1 .. L - 1 /\ i + 1 \in 1 .. nLeft
        BY <1>2
      <4>. QED BY <1>3, <2>4, <4>1
    <3>. QED BY <2>1, <2>4, <3>1, <3>2 DEF RoomInv
  <2>. QED BY <2>5, <2>6
<1>10. CASE LeaveLoop
  <2>1. squares' = squares /\ nLeft' = 0
    BY <1>10 DEF LeaveLoop
  <2>. QED BY <1>3, <2>1 DEF RoomInv
<1>. QED BY <1>6, <1>7, <1>8, <1>9, <1>10 DEF PartitionStep

\* Whatever leaves the partition alone keeps it.
LEMMA RoomStutterInv ==
  RoomInv /\ UNCHANGED partitionVars => RoomInv'
BY DEF RoomInv, Feasible, partitionVars

\* Room is all that is asked for.
LEMMA RoomIsEnough ==
  PartitionInv /\ RoomInv => NoneOverfull
<1>. SUFFICES ASSUME PartitionInv, RoomInv, Feasible, NEW s \in Range(squares)
              PROVE  s.n <= Cardinality(Cells(s))
  BY DEF NoneOverfull, Feasible
<1>1. PICK i \in 1 .. Len(squares) : s = squares[i]
  BY LenProperties DEF Range, PartitionInv, PartitionTypeOK
<1>2. s \in SquareType /\ Sides(s) /\ Room(s)
  BY <1>1, LenProperties DEF PartitionInv, PartitionTypeOK, Tiled, RoomInv
<1>. QED BY <1>2, RoomIsCells DEF Feasible
=============================================================================
