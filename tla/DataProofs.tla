----------------------------- MODULE DataProofs ----------------------------
(***************************************************************************)
(* Facts about sums and sequences that the proofs about the generators     *)
(* rest on.                                                                *)
(*                                                                         *)
(* The library defines the sum of the weights of a finite set with a       *)
(* recursive function that takes away the chosen element first.  That the  *)
(* sum does not depend on the choice is shown by taking a least            *)
(* counterexample: the induction theorems of the library need an operator  *)
(* as a parameter, the minimum of a set of numbers does not.               *)
(***************************************************************************)
EXTENDS Integers, Sequences, FiniteSets, FiniteSetsExt, Functions,
        FiniteSetTheorems, SequenceTheorems, TLAPS

Sum(w, S) == MapThenSumSet(LAMBDA x : w[x], S)

\* The recursive equation of a sum, for the sets of the family D; c chooses the
\* element that is taken away first.
Chooses(c, S) == \A T \in SUBSET S : T # {} => c[T] \in T
Adds(F, w, c, D) ==
  \A T \in D : F[T] = IF T = {} THEN 0 ELSE w[c[T]] + F[T \ {c[T]}]

Smaller(S, n) == {T \in SUBSET S : Cardinality(T) <= n}

\* What does not hold of every number has a first number it does not hold of.
LEMMA LeastOf ==
  ASSUME NEW B, B \subseteq Nat, B # {}
  PROVE  \E m \in B : \A n \in B : m <= n
<1>1. PICK m \in B : \A n \in B : ~ (<<n, m>> \in OpToRel(<, Nat))
  BY NatLessThanWellFounded, WFMin
<1>2. ASSUME NEW n \in B PROVE m <= n
  <2>1. <<n, m>> \in Nat \X Nat /\ ~ (<<n, m>> \in OpToRel(<, Nat))
    BY <1>1
  <2>2. ~ (n < m)
    BY <2>1 DEF OpToRel
  <2>. QED BY <2>2
<1>. QED BY <1>2

\* Taking an element away makes a finite set one smaller.
LEMMA OneLess ==
  ASSUME NEW S, IsFiniteSet(S), NEW T \in SUBSET S
  PROVE  /\ IsFiniteSet(T) /\ Cardinality(T) \in Nat /\ Cardinality(T) <= Cardinality(S)
         /\ \A x \in T : /\ T \ {x} \in SUBSET S
                         /\ Cardinality(T \ {x}) = Cardinality(T) - 1
                         /\ Cardinality(T) > 0
         /\ T = {} => Cardinality(T) = 0
<1>1. IsFiniteSet(T) /\ Cardinality(T) \in Nat /\ Cardinality(T) <= Cardinality(S)
  BY FS_Subset, FS_CardinalityType
<1>2. ASSUME NEW x \in T
      PROVE  Cardinality(T \ {x}) = Cardinality(T) - 1 /\ Cardinality(T \ {x}) \in Nat
  BY <1>1, FS_RemoveElement, FS_CardinalityType
<1>. QED BY <1>1, <1>2, FS_EmptySet

\* The recursive equation has a solution for the sets of at most n elements.
LEMMA SumExistsUpTo ==
  ASSUME NEW S, IsFiniteSet(S), NEW w, \A x \in S : w[x] \in Nat, NEW c, Chooses(c, S)
  PROVE  \A n \in Nat : \E F \in [Smaller(S, n) -> Nat] : Adds(F, w, c, Smaller(S, n))
<1>. DEFINE B == {n \in Nat : ~ \E F \in [Smaller(S, n) -> Nat] : Adds(F, w, c, Smaller(S, n))}
<1>. SUFFICES ASSUME B # {} PROVE FALSE
  OBVIOUS
<1>1. PICK m \in B : \A n \in B : m <= n
  BY LeastOf
<1>. HIDE DEF B
<1>2. CASE m = 0
  <2>. DEFINE F == [T \in Smaller(S, 0) |-> 0]
  <2>1. ASSUME NEW T \in Smaller(S, 0) PROVE T = {}
    <3>1. T \in SUBSET S /\ Cardinality(T) <= 0
      BY DEF Smaller
    <3>2. T # {} => Cardinality(T) \in Nat /\ Cardinality(T) > 0
      BY <3>1, OneLess
    <3>. QED BY <3>1, <3>2
  <2>2. F \in [Smaller(S, 0) -> Nat] /\ Adds(F, w, c, Smaller(S, 0))
    BY <2>1 DEF Adds
  <2>. QED BY <1>2, <2>2 DEF B
<1>3. CASE m # 0
  <2>1. m - 1 \in Nat /\ m - 1 \notin B /\ m \in Nat
    BY <1>1, <1>3 DEF B
  <2>2. PICK G \in [Smaller(S, m - 1) -> Nat] : Adds(G, w, c, Smaller(S, m - 1))
    BY <2>1 DEF B
  <2>. DEFINE F == [T \in Smaller(S, m) |->
                      IF T = {} THEN 0 ELSE w[c[T]] + G[T \ {c[T]}]]
  <2>3. ASSUME NEW T \in Smaller(S, m), T # {}
        PROVE  T \ {c[T]} \in Smaller(S, m - 1) /\ c[T] \in S
    <3>1. T \in SUBSET S /\ Cardinality(T) <= m
      BY DEF Smaller
    <3>2. c[T] \in T /\ Cardinality(T) \in Nat
      BY <2>3, <3>1, OneLess DEF Chooses
    <3>3. /\ T \ {c[T]} \in SUBSET S
          /\ Cardinality(T \ {c[T]}) = Cardinality(T) - 1
      BY <3>1, <3>2, OneLess
    <3>. QED BY <2>1, <3>1, <3>2, <3>3 DEF Smaller
  <2>4. F \in [Smaller(S, m) -> Nat]
    BY <2>3
  <2>5. ASSUME NEW T \in Smaller(S, m - 1) PROVE T \in Smaller(S, m) /\ F[T] = G[T]
    <3>1. T \in Smaller(S, m)
      BY <2>1, OneLess DEF Smaller
    <3>. QED BY <2>2, <3>1 DEF Adds
  <2>6. Adds(F, w, c, Smaller(S, m))
    <3>1. ASSUME NEW T \in Smaller(S, m), T # {}
          PROVE  F[T] = w[c[T]] + F[T \ {c[T]}]
      BY <3>1, <2>3, <2>5
    <3>. HIDE DEF F
    <3>2. ASSUME NEW T \in Smaller(S, m), T = {} PROVE F[T] = 0
      BY <3>2 DEF F
    <3>. QED BY <3>1, <3>2 DEF Adds
  <2>. HIDE DEF F
  <2>. QED BY <2>4, <2>6, <1>1 DEF B
<1>. QED BY <1>2, <1>3

\* It has a solution for all subsets of a finite set.
LEMMA SumExists ==
  ASSUME NEW S, IsFiniteSet(S), NEW w, \A x \in S : w[x] \in Nat, NEW c, Chooses(c, S)
  PROVE  \E F \in [SUBSET S -> Nat] : Adds(F, w, c, SUBSET S)
<1>1. Cardinality(S) \in Nat
  BY FS_CardinalityType
<1>2. Smaller(S, Cardinality(S)) = SUBSET S
  BY OneLess DEF Smaller
<1>3. \E F \in [Smaller(S, Cardinality(S)) -> Nat] : Adds(F, w, c, Smaller(S, Cardinality(S)))
  BY <1>1, SumExistsUpTo
<1>. QED BY <1>2, <1>3

\* Whichever element is taken away, the rest of the sum is the same.
LEMMA AnyElementFirst ==
  ASSUME NEW S, IsFiniteSet(S), NEW w, \A x \in S : w[x] \in Nat, NEW c, Chooses(c, S),
         NEW F \in [SUBSET S -> Nat], Adds(F, w, c, SUBSET S),
         NEW T \in SUBSET S, NEW e \in T
  PROVE  F[T] = F[T \ {e}] + w[e]
<1>. DEFINE Bad(U) == \E x \in U : F[U] # F[U \ {x}] + w[x]
            B == {n \in Nat : \E U \in SUBSET S : Cardinality(U) = n /\ Bad(U)}
<1>. SUFFICES ASSUME Bad(T) PROVE FALSE
  OBVIOUS
<1>1. Cardinality(T) \in B
  BY OneLess
<1>2. PICK m \in B : \A n \in B : m <= n
  BY <1>1, LeastOf
<1>3. PICK V \in SUBSET S : Cardinality(V) = m /\ Bad(V)
  OBVIOUS
<1>4. PICK x \in V : F[V] # F[V \ {x}] + w[x]
  BY <1>3
<1>. DEFINE y == c[V]
<1>5. y \in V /\ F[V] = w[y] + F[V \ {y}]
  BY <1>4 DEF Adds, Chooses
<1>6. ASSUME NEW z \in V
      PROVE  V \ {z} \in SUBSET S /\ w[z] \in Nat /\ F[V \ {z}] \in Nat
  OBVIOUS
<1>7. y # x
  <2>1. F[V] = w[y] + F[V \ {y}] /\ w[y] \in Nat /\ F[V \ {y}] \in Nat
    BY <1>5, <1>6
  <2>2. F[V] = F[V \ {y}] + w[y]
    BY <2>1
  <2>. QED BY <1>4, <2>2
<1>8. ASSUME NEW z \in V PROVE ~Bad(V \ {z})
  <2>1. Cardinality(V \ {z}) \in Nat /\ Cardinality(V \ {z}) < m
    BY <1>3, <1>6, OneLess
  <2>2. Cardinality(V \ {z}) \notin B
    <3>1. \A n \in B : n \in Nat
      OBVIOUS
    <3>. HIDE DEF B
    <3>. QED BY <1>2, <2>1, <3>1
  <2>. QED BY <1>6, <2>1, <2>2
<1>9. /\ F[V \ {x}] = F[(V \ {x}) \ {y}] + w[y]
      /\ F[V \ {y}] = F[(V \ {y}) \ {x}] + w[x]
  BY <1>5, <1>7, <1>8
<1>10. (V \ {x}) \ {y} = (V \ {y}) \ {x} /\ F[(V \ {x}) \ {y}] \in Nat
  OBVIOUS
<1>11. w[y] + F[V \ {y}] = F[V \ {x}] + w[x]
  <2>1. w[x] \in Nat /\ w[y] \in Nat
    BY <1>5, <1>6
  <2>2. PICK r \in Nat : r = F[(V \ {x}) \ {y}] /\ r = F[(V \ {y}) \ {x}]
    BY <1>10
  <2>. QED BY <1>9, <2>1, <2>2
<1>. QED BY <1>4, <1>5, <1>11

\* A solution for a set and one for a larger set agree, though their choices
\* differ.
LEMMA SumAgrees ==
  ASSUME NEW S, IsFiniteSet(S), NEW w, \A x \in S : w[x] \in Nat, NEW c, Chooses(c, S),
         NEW F \in [SUBSET S -> Nat], Adds(F, w, c, SUBSET S),
         NEW T \in SUBSET S, NEW d, Chooses(d, T), NEW G, Adds(G, w, d, SUBSET T)
  PROVE  F[T] = G[T]
<1>. DEFINE B == {n \in Nat : \E U \in SUBSET T : Cardinality(U) = n /\ F[U] # G[U]}
<1>. SUFFICES ASSUME F[T] # G[T] PROVE FALSE
  OBVIOUS
<1>1. Cardinality(T) \in B
  BY OneLess
<1>2. PICK m \in B : \A n \in B : m <= n
  BY <1>1, LeastOf
<1>3. PICK V \in SUBSET T : Cardinality(V) = m /\ F[V] # G[V]
  OBVIOUS
<1>4. V \in SUBSET S /\ V # {}
  BY <1>3 DEF Adds
<1>. DEFINE y == d[V]
            W == V \ {y}
<1>5. y \in V
  BY <1>4 DEF Chooses
<1>6. W \in SUBSET T /\ Cardinality(W) \in Nat /\ Cardinality(W) < m
  BY <1>3, <1>4, <1>5, OneLess
<1>7. F[W] = G[W]
  BY <1>2, <1>6
<1>8. F[V] = F[W] + w[y]
  <2>1. ASSUME NEW U \in SUBSET S, NEW x \in U PROVE F[U] = F[U \ {x}] + w[x]
    BY AnyElementFirst
  <2>. HIDE DEF y
  <2>. QED BY <1>4, <1>5, <2>1
<1>9. G[V] = w[y] + G[W]
  BY <1>3, <1>4 DEF Adds
<1>10. F[W] \in Nat /\ w[y] \in Nat
  BY <1>4, <1>5
<1>. QED BY <1>3, <1>7, <1>8, <1>9, <1>10

\* The choice of the library.
LEMMA SumChooses ==
  ASSUME NEW S, NEW w
  PROVE  LET c == [T \in SUBSET S |-> CHOOSE x \in T : TRUE]
         IN  /\ Chooses(c, S)
             /\ \A F \in [SUBSET S -> Nat] :
                  Adds(F, w, c, SUBSET S) =>
                    \E G : Adds(G, w, c, SUBSET S) /\ Sum(w, S) = G[S]
<1>. DEFINE c == [T \in SUBSET S |-> CHOOSE x \in T : TRUE]
            Iter(G) == G = [T \in SUBSET S |->
               IF T = {} THEN 0
               ELSE w[CHOOSE x \in T : TRUE] + G[T \ {CHOOSE x \in T : TRUE}]]
<1>1. Sum(w, S) = (CHOOSE G : Iter(G))[S]
  BY DEF Sum, MapThenSumSet, MapThenFoldSet
<1>2. Chooses(c, S)
  BY DEF Chooses
<1>3. ASSUME NEW F \in [SUBSET S -> Nat], Adds(F, w, c, SUBSET S)
      PROVE  \E G : Adds(G, w, c, SUBSET S) /\ Sum(w, S) = G[S]
  <2>1. Iter(F)
    BY <1>3 DEF Adds
  <2>. HIDE DEF Iter
  <2>2. PICK G : Iter(G) /\ G = CHOOSE H : Iter(H)
    BY <2>1
  <2>3. Adds(G, w, c, SUBSET S)
    BY <2>2 DEF Iter, Adds
  <2>. QED BY <1>1, <2>2, <2>3
<1>. QED BY <1>2, <1>3

\* The sum is the value at the whole set of any solution, whatever its choice.
LEMMA SumIsSolution ==
  ASSUME NEW S, IsFiniteSet(S), NEW w, \A x \in S : w[x] \in Nat, NEW d, Chooses(d, S),
         NEW H, Adds(H, w, d, SUBSET S)
  PROVE  Sum(w, S) = H[S]
<1>. DEFINE c == [T \in SUBSET S |-> CHOOSE x \in T : TRUE]
<1>1. Chooses(c, S)
  BY SumChooses
<1>2. PICK F \in [SUBSET S -> Nat] : Adds(F, w, c, SUBSET S)
  BY <1>1, SumExists
<1>3. PICK G : Adds(G, w, c, SUBSET S) /\ Sum(w, S) = G[S]
  BY <1>2, SumChooses
<1>. HIDE DEF c
<1>4. S \in SUBSET S
  OBVIOUS
<1>5. F[S] = G[S]
  BY <1>1, <1>2, <1>3, <1>4, SumAgrees
<1>6. F[S] = H[S]
  BY <1>1, <1>2, <1>4, SumAgrees
<1>. QED BY <1>3, <1>5, <1>6

\* The sum of zeros.
LEMMA SumOfZeros ==
  ASSUME NEW S, IsFiniteSet(S), NEW w, \A x \in S : w[x] = 0
  PROVE  Sum(w, S) = 0
<1>. DEFINE c == [T \in SUBSET S |-> CHOOSE x \in T : TRUE]
            Z == [T \in SUBSET S |-> 0]
<1>1. Chooses(c, S)
  BY SumChooses
<1>2. ASSUME NEW T \in SUBSET S, T # {} PROVE T \ {c[T]} \in SUBSET S /\ w[c[T]] = 0
  <2>1. c[T] \in S
    BY <1>1, <1>2 DEF Chooses
  <2>. QED BY <2>1
<1>. HIDE DEF c
<1>3. Adds(Z, w, c, SUBSET S)
  BY <1>2 DEF Adds
<1>4. Sum(w, S) = Z[S]
  <2>1. \A x \in S : w[x] \in Nat
    OBVIOUS
  <2>. HIDE DEF Z
  <2>. QED BY <1>1, <1>3, <2>1, SumIsSolution
<1>. QED BY <1>4

\* The laws of a sum.
LEMMA SumLaws ==
  ASSUME NEW S, IsFiniteSet(S), NEW w, \A x \in S : w[x] \in Nat
  PROVE  /\ Sum(w, S) \in Nat
         /\ S = {} => Sum(w, S) = 0
         /\ \A x \in S : Sum(w, S) = Sum(w, S \ {x}) + w[x]
<1>. DEFINE c == [T \in SUBSET S |-> CHOOSE x \in T : TRUE]
<1>1. Chooses(c, S)
  BY SumChooses
<1>. HIDE DEF c
<1>2. PICK F \in [SUBSET S -> Nat] : Adds(F, w, c, SUBSET S)
  BY <1>1, SumExists
<1>3. Sum(w, S) = F[S]
  BY <1>1, <1>2, SumIsSolution
<1>4. S = {} => F[S] = 0
  BY <1>2 DEF Adds
<1>5. ASSUME NEW x \in S PROVE Sum(w, S) = Sum(w, S \ {x}) + w[x]
  <2>. DEFINE R == S \ {x}
  <2>1. IsFiniteSet(R) /\ R \in SUBSET S /\ S \in SUBSET S /\ \A y \in R : w[y] \in Nat
    BY OneLess
  <2>. HIDE DEF R
  <2>2. Chooses(c, R)
    BY <1>1, <2>1 DEF Chooses
  <2>3. Adds(F, w, c, SUBSET R)
    BY <1>2, <2>1 DEF Adds
  <2>4. Sum(w, R) = F[R]
    BY <2>1, <2>2, <2>3, SumIsSolution
  <2>5. F[S] = F[R] + w[x]
    <3>1. F[S] = F[S \ {x}] + w[x]
      BY <1>1, <1>2, <2>1, AnyElementFirst
    <3>. QED BY <3>1 DEF R
  <2>. QED BY <1>3, <2>4, <2>5 DEF R
<1>. QED BY <1>2, <1>3, <1>4, <1>5

\* The sum with one element more.
LEMMA SumAddElement ==
  ASSUME NEW S, IsFiniteSet(S), NEW w, \A x \in S : w[x] \in Nat,
         NEW x, x \notin S, w[x] \in Nat
  PROVE  Sum(w, S \cup {x}) = Sum(w, S) + w[x]
<1>. DEFINE T == S \cup {x}
<1>1. IsFiniteSet(T) /\ \A y \in T : w[y] \in Nat
  BY FS_AddElement
<1>2. Sum(w, T) = Sum(w, T \ {x}) + w[x]
  BY <1>1, SumLaws
<1>3. T \ {x} = S
  OBVIOUS
<1>. QED BY <1>2, <1>3

\* The sum over a set is that over a part of it and that over the rest.
LEMMA SumOfUnion ==
  ASSUME NEW S, IsFiniteSet(S), NEW w, \A x \in S : w[x] \in Nat, NEW T \in SUBSET S
  PROVE  Sum(w, S) = Sum(w, S \ T) + Sum(w, T)
<1>. DEFINE Splits(U) == Sum(w, S) = Sum(w, S \ U) + Sum(w, U)
            B == {n \in Nat : \E U \in SUBSET S : Cardinality(U) = n /\ ~Splits(U)}
<1>. SUFFICES ASSUME ~Splits(T) PROVE FALSE
  OBVIOUS
<1>1. Cardinality(T) \in B
  BY OneLess
<1>2. PICK m \in B : \A n \in B : m <= n
  BY <1>1, LeastOf
<1>3. PICK U \in SUBSET S : Cardinality(U) = m /\ ~Splits(U)
  OBVIOUS
<1>4. ASSUME NEW V \in SUBSET S
      PROVE  IsFiniteSet(V) /\ Sum(w, V) \in Nat /\ \A x \in V : w[x] \in Nat
  <2>1. IsFiniteSet(V) /\ \A x \in V : w[x] \in Nat
    BY FS_Subset
  <2>. QED BY <2>1, SumLaws
<1>5. U # {}
  <2>. SUFFICES ASSUME U = {} PROVE FALSE
    OBVIOUS
  <2>1. S \ U = S /\ IsFiniteSet(U) /\ \A x \in U : w[x] \in Nat
    BY <1>4
  <2>2. Sum(w, U) = 0 /\ Sum(w, S) \in Nat
    BY <1>4, <2>1, SumLaws
  <2>. QED BY <1>3, <2>1, <2>2
<1>6. PICK x \in U : TRUE
  BY <1>5
<1>. DEFINE V == U \ {x}
<1>7. V \in SUBSET S /\ Cardinality(V) \in Nat /\ Cardinality(V) < m
  BY <1>3, OneLess
<1>8. Splits(V)
  <2>1. Cardinality(V) \notin B
    <3>1. \A n \in B : n \in Nat
      OBVIOUS
    <3>. HIDE DEF B
    <3>. QED BY <1>2, <1>7, <3>1
  <2>. QED BY <1>7, <2>1
<1>9. Sum(w, S \ V) = Sum(w, S \ U) + w[x]
  <2>. DEFINE R == S \ V
  <2>1. R \in SUBSET S /\ x \in R /\ R \ {x} = S \ U
    OBVIOUS
  <2>. HIDE DEF R
  <2>2. IsFiniteSet(R) /\ \A y \in R : w[y] \in Nat
    BY <1>4, <2>1
  <2>3. Sum(w, R) = Sum(w, R \ {x}) + w[x]
    BY <2>1, <2>2, SumLaws
  <2>. QED BY <2>1, <2>3 DEF R
<1>10. Sum(w, U) = Sum(w, V) + w[x]
  BY <1>4, SumLaws
<1>11. /\ Sum(w, S \ U) \in Nat /\ Sum(w, U) \in Nat /\ Sum(w, V) \in Nat
       /\ Sum(w, S \ V) \in Nat /\ w[x] \in Nat
  <2>1. S \ U \in SUBSET S /\ S \ V \in SUBSET S /\ V \in SUBSET S
    OBVIOUS
  <2>. HIDE DEF V
  <2>. QED BY <1>4, <2>1
<1>. QED BY <1>3, <1>8, <1>9, <1>10, <1>11

\* Weights that agree have the same sum.
LEMMA SumOfEqual ==
  ASSUME NEW S, IsFiniteSet(S), NEW w, \A x \in S : w[x] \in Nat,
         NEW v, \A x \in S : v[x] = w[x]
  PROVE  Sum(v, S) = Sum(w, S)
<1>. DEFINE c == [T \in SUBSET S |-> CHOOSE x \in T : TRUE]
<1>1. Chooses(c, S)
  BY SumChooses
<1>. HIDE DEF c
<1>2. PICK F \in [SUBSET S -> Nat] : Adds(F, w, c, SUBSET S)
  BY <1>1, SumExists
<1>3. Adds(F, v, c, SUBSET S)
  BY <1>1, <1>2 DEF Adds, Chooses
<1>. QED BY <1>1, <1>2, <1>3, SumIsSolution

\* No weight is more than the sum.
LEMMA SumBoundsEach ==
  ASSUME NEW S, IsFiniteSet(S), NEW w, \A x \in S : w[x] \in Nat, NEW x \in S
  PROVE  w[x] <= Sum(w, S)
<1>1. Sum(w, S) = Sum(w, S \ {x}) + w[x]
  BY SumLaws
<1>2. Sum(w, S \ {x}) \in Nat
  BY FS_RemoveElement, SumLaws
<1>. QED BY <1>1, <1>2

\* Renaming the elements of a set leaves the sum of their weights as it is.
LEMMA SumRenamed ==
  ASSUME NEW S, IsFiniteSet(S), NEW T, NEW p \in Bijection(S, T),
         NEW w, \A y \in T : w[y] \in Nat
  PROVE  Sum([x \in S |-> w[p[x]]], S) = Sum(w, T)
<1>. DEFINE v == [x \in S |-> w[p[x]]]
            Image(U) == {p[x] : x \in U}
            B == {n \in Nat : \E U \in SUBSET S : Cardinality(U) = n
                                                   /\ Sum(v, U) # Sum(w, Image(U))}
<1>1. /\ p \in [S -> T] /\ \A x \in S, y \in S : p[x] = p[y] => x = y
      /\ \A y \in T : \E x \in S : p[x] = y
  BY DEF Bijection, Injection, Surjection, IsInjective
<1>2. Image(S) = T
  BY <1>1
<1>3. IsFiniteSet(T)
  BY FS_Bijection DEF ExistsBijection
<1>. SUFFICES ASSUME Sum(v, S) # Sum(w, Image(S)) PROVE FALSE
  BY <1>2
<1>4. Cardinality(S) \in B
  BY OneLess
<1>5. PICK m \in B : \A n \in B : m <= n
  BY <1>4, LeastOf
<1>6. PICK U \in SUBSET S : Cardinality(U) = m /\ Sum(v, U) # Sum(w, Image(U))
  OBVIOUS
<1>7. IsFiniteSet(U) /\ Image(U) \in SUBSET T /\ IsFiniteSet(Image(U))
  BY <1>1, <1>3, FS_Subset
<1>8. U # {}
  <2>. SUFFICES ASSUME U = {} PROVE FALSE
    OBVIOUS
  <2>1. Image(U) = {}
    OBVIOUS
  <2>2. Sum(v, U) = 0
    BY <1>7, SumLaws
  <2>3. Sum(w, Image(U)) = 0
    BY <1>7, <2>1, SumLaws
  <2>. QED BY <1>6, <2>2, <2>3
<1>9. PICK x \in U : TRUE
  BY <1>8
<1>10. Cardinality(U \ {x}) \in Nat /\ Cardinality(U \ {x}) < m
  BY <1>6, OneLess
<1>11. Sum(v, U \ {x}) = Sum(w, Image(U \ {x}))
  <2>1. Cardinality(U \ {x}) \notin B
    <3>1. \A n \in B : n \in Nat
      OBVIOUS
    <3>. HIDE DEF B
    <3>. QED BY <1>5, <1>10, <3>1
  <2>. QED BY <1>10, <2>1
<1>12. Image(U \ {x}) = Image(U) \ {p[x]} /\ p[x] \in Image(U)
  BY <1>1
<1>13. \A y \in U : v[y] = w[p[y]] /\ v[y] \in Nat
  BY <1>1
<1>14. Sum(v, U) = Sum(v, U \ {x}) + w[p[x]]
  <2>. HIDE DEF v
  <2>. QED BY <1>7, <1>13, SumLaws
<1>15. Sum(w, Image(U)) = Sum(w, Image(U) \ {p[x]}) + w[p[x]]
  <2>1. \A y \in Image(U) : w[y] \in Nat
    BY <1>7
  <2>. HIDE DEF Image
  <2>. QED BY <1>7, <1>12, <2>1, SumLaws
<1>. QED BY <1>6, <1>11, <1>12, <1>14, <1>15

-----------------------------------------------------------------------------
\* What appending an element does to the elements of a sequence.
LEMMA AppendFacts ==
  ASSUME NEW S, NEW s \in Seq(S), NEW e \in S
  PROVE  /\ Append(s, e) \in Seq(S) /\ Len(Append(s, e)) = Len(s) + 1
         /\ Range(Append(s, e)) = Range(s) \cup {e}
         /\ IsInjective(s) /\ e \notin Range(s) => IsInjective(Append(s, e))
<1>. DEFINE t == Append(s, e)
<1>1. /\ t \in Seq(S) /\ Len(t) = Len(s) + 1 /\ t[Len(s) + 1] = e
      /\ \A i \in 1 .. Len(s) : t[i] = s[i]
  OBVIOUS
<1>2. Len(s) \in Nat /\ DOMAIN s = 1 .. Len(s) /\ DOMAIN t = 1 .. Len(s) + 1
  BY <1>1, LenProperties
<1>. HIDE DEF t
<1>3. \A i \in DOMAIN t : i \in DOMAIN s \/ i = Len(s) + 1
  BY <1>2
<1>4. \A i \in DOMAIN s : i \in DOMAIN t /\ i # Len(s) + 1 /\ t[i] = s[i]
  BY <1>1, <1>2
<1>5. Len(s) + 1 \in DOMAIN t
  BY <1>2
<1>6. Range(t) = Range(s) \cup {e}
  BY <1>1, <1>3, <1>4, <1>5 DEF Range
<1>7. ASSUME IsInjective(s), e \notin Range(s) PROVE IsInjective(t)
  BY <1>1, <1>3, <1>4, <1>7 DEF Range, IsInjective
<1>. QED BY <1>1, <1>6, <1>7 DEF t

\* What taking the head away does to the elements of a sequence.
LEMMA TailFacts ==
  ASSUME NEW S, NEW s \in Seq(S), s # << >>
  PROVE  /\ Tail(s) \in Seq(S) /\ Head(s) \in S /\ Head(s) \in Range(s)
         /\ Range(s) = Range(Tail(s)) \cup {Head(s)}
         /\ IsInjective(s) => /\ Head(s) \notin Range(Tail(s))
                              /\ IsInjective(Tail(s))
<1>. DEFINE t == Tail(s)
<1>1. /\ t \in Seq(S) /\ Len(t) = Len(s) - 1 /\ Head(s) = s[1] /\ Head(s) \in S
      /\ \A i \in 1 .. Len(t) : t[i] = s[i + 1]
  BY HeadTailProperties
<1>2. Len(s) \in Nat \ {0} /\ DOMAIN s = 1 .. Len(s) /\ DOMAIN t = 1 .. Len(s) - 1
  BY <1>1, EmptySeq, LenProperties
<1>. HIDE DEF t
<1>3. \A i \in DOMAIN t : i + 1 \in DOMAIN s /\ i + 1 # 1 /\ t[i] = s[i + 1]
  BY <1>1, <1>2
<1>4. \A i \in DOMAIN s : i = 1 \/ (i - 1 \in DOMAIN t /\ (i - 1) + 1 = i)
  BY <1>2
<1>5. 1 \in DOMAIN s
  BY <1>2
<1>6. Range(s) = Range(t) \cup {Head(s)}
  <2>1. ASSUME NEW x \in Range(s) PROVE x \in Range(t) \cup {Head(s)}
    <3>1. PICK i \in DOMAIN s : x = s[i]
      BY DEF Range
    <3>2. i = 1 \/ (i - 1 \in DOMAIN t /\ t[i - 1] = x)
      BY <1>3, <1>4, <3>1
    <3>. QED BY <1>1, <3>1, <3>2 DEF Range
  <2>2. Range(t) \subseteq Range(s) /\ Head(s) \in Range(s)
    BY <1>1, <1>3, <1>5 DEF Range
  <2>. QED BY <2>1, <2>2
<1>7. ASSUME IsInjective(s) PROVE Head(s) \notin Range(t) /\ IsInjective(t)
  <2>1. Head(s) \notin Range(t)
    BY <1>1, <1>3, <1>5, <1>7 DEF Range, IsInjective
  <2>2. ASSUME NEW i \in DOMAIN t, NEW j \in DOMAIN t, t[i] = t[j] PROVE i = j
    <3>1. i + 1 = j + 1
      BY <1>3, <1>7, <2>2 DEF IsInjective
    <3>. QED BY <1>2, <3>1
  <2>. QED BY <2>1, <2>2 DEF IsInjective
<1>. QED BY <1>1, <1>6, <1>7 DEF t

\* Whether R is a strict total order of S.
StrictOrder(R, S) ==
  /\ \A x \in S : <<x, x>> \notin R
  /\ \A x \in S, y \in S : x # y => <<x, y>> \in R \/ <<y, x>> \in R
  /\ \A x \in S, y \in S, z \in S : <<x, y>> \in R /\ <<y, z>> \in R => <<x, z>> \in R

\* The number of elements of S that are before x in the relation R.
RankIn(S, R, x) == Cardinality({y \in S : <<y, x>> \in R})

\* In a strict total order of finitely many elements every element has a rank
\* of its own, and every number below their count is the rank of one.
LEMMA RanksCount ==
  ASSUME NEW S, IsFiniteSet(S), NEW R, StrictOrder(R, S)
  PROVE  /\ \A x \in S : RankIn(S, R, x) \in 0 .. Cardinality(S) - 1
         /\ \A x \in S, y \in S : <<x, y>> \in R => RankIn(S, R, x) < RankIn(S, R, y)
         /\ \A x \in S, y \in S : RankIn(S, R, x) = RankIn(S, R, y) => x = y
         /\ \A i \in 0 .. Cardinality(S) - 1 : \E x \in S : RankIn(S, R, x) = i
<1>. DEFINE n == Cardinality(S)
            First(x) == {y \in S : <<y, x>> \in R}
            r == [x \in S |-> RankIn(S, R, x)]
            T == {r[x] : x \in S}
<1>. USE DEF StrictOrder
<1>1. n \in Nat
  BY FS_CardinalityType
<1>2. \A x \in S : r[x] = RankIn(S, R, x) /\ r[x] = Cardinality(First(x))
  BY DEF RankIn
<1>. HIDE DEF r
<1>3. ASSUME NEW x \in S PROVE r[x] \in 0 .. n - 1
  <2>1. Cardinality(S \ {x}) = n - 1 /\ IsFiniteSet(S \ {x}) /\ First(x) \in SUBSET (S \ {x})
    BY OneLess
  <2>. HIDE DEF First
  <2>2. Cardinality(First(x)) \in Nat /\ Cardinality(First(x)) <= n - 1
    BY <2>1, OneLess
  <2>. QED BY <1>1, <1>2, <2>2
<1>4. ASSUME NEW x \in S, NEW y \in S, <<x, y>> \in R PROVE r[x] < r[y]
  <2>1. First(y) \in SUBSET S /\ x \in First(y) /\ First(x) \in SUBSET (First(y) \ {x})
    BY <1>4
  <2>. HIDE DEF First
  <2>2. IsFiniteSet(First(y)) /\ Cardinality(First(y)) \in Nat
    BY <2>1, OneLess
  <2>3. IsFiniteSet(First(y) \ {x}) /\ Cardinality(First(y) \ {x}) = Cardinality(First(y)) - 1
    BY <2>1, <2>2, FS_RemoveElement
  <2>4. Cardinality(First(x)) \in Nat /\ Cardinality(First(x)) <= Cardinality(First(y) \ {x})
    BY <2>1, <2>3, OneLess
  <2>. QED BY <1>2, <2>2, <2>3, <2>4
<1>5. ASSUME NEW x \in S, NEW y \in S, r[x] = r[y] PROVE x = y
  <2>. SUFFICES ASSUME x # y PROVE FALSE
    OBVIOUS
  <2>1. r[x] < r[y] \/ r[y] < r[x]
    BY <1>4
  <2>2. r[x] \in Int /\ r[y] \in Int
    BY <1>3
  <2>. QED BY <1>5, <2>1, <2>2
<1>6. T = 0 .. n - 1
  <2>1. r \in Bijection(S, T)
    <3>1. r \in [S -> T] /\ \A t \in T : \E x \in S : r[x] = t
      BY DEF r
    <3>. HIDE DEF T
    <3>. QED BY <1>5, <3>1 DEF Bijection, Injection, Surjection, IsInjective
  <2>. HIDE DEF T
  <2>2. IsFiniteSet(T) /\ Cardinality(T) = n
    BY <2>1, FS_Bijection DEF ExistsBijection
  <2>3. IsFiniteSet(0 .. n - 1) /\ Cardinality(0 .. n - 1) = n
    <3>1. n - 1 \in Int /\ 0 \in Int
      BY <1>1
    <3>2. /\ IsFiniteSet(0 .. n - 1)
          /\ Cardinality(0 .. n - 1) = IF 0 > n - 1 THEN 0 ELSE n - 1 - 0 + 1
      BY <3>1, FS_Interval
    <3>. QED BY <1>1, <3>2
  <2>4. T \in SUBSET (0 .. n - 1)
    BY <1>3 DEF T
  <2>. QED BY <2>2, <2>3, <2>4, FS_Subset
<1>7. \A i \in 0 .. n - 1 : \E x \in S : r[x] = i
  BY <1>6
<1>. HIDE DEF n, First, T
<1>8. \A x \in S : RankIn(S, R, x) = r[x]
  BY <1>2
<1>9. \A x \in S : RankIn(S, R, x) \in 0 .. n - 1
  BY <1>3, <1>8
<1>10. \A x \in S, y \in S : <<x, y>> \in R => RankIn(S, R, x) < RankIn(S, R, y)
  BY <1>4, <1>8
<1>11. \A x \in S, y \in S : RankIn(S, R, x) = RankIn(S, R, y) => x = y
  BY <1>5, <1>8
<1>. QED BY <1>7, <1>8, <1>9, <1>10, <1>11 DEF n

\* A sequence whose places are put in order.
Ranks(seq, R) == [k \in 1 .. Len(seq) |-> RankIn(1 .. Len(seq), R, k)]
Rearranged(seq, R) ==
  [i \in 1 .. Len(seq) |-> seq[CHOOSE k \in 1 .. Len(seq) : Ranks(seq, R)[k] = i - 1]]

\* It has the same elements, each as often, in that order.
LEMMA RearrangedFacts ==
  ASSUME NEW T, NEW seq \in Seq(T), NEW R, StrictOrder(R, 1 .. Len(seq))
  PROVE  /\ Rearranged(seq, R) \in Seq(T) /\ Len(Rearranged(seq, R)) = Len(seq)
         /\ \E p \in Bijection(1 .. Len(seq), 1 .. Len(seq)) :
              /\ \A i \in 1 .. Len(seq) : Rearranged(seq, R)[i] = seq[p[i]]
              /\ \A i \in 1 .. Len(seq), j \in 1 .. Len(seq) : i < j => <<p[i], p[j]>> \in R
<1>. DEFINE L == Len(seq)
            D == 1 .. L
            r == Ranks(seq, R)
            p == [i \in D |-> CHOOSE k \in D : r[k] = i - 1]
            new == [i \in D |-> seq[p[i]]]
<1>1. L \in Nat /\ seq \in [D -> T]
  BY LenProperties
<1>2. IsFiniteSet(D) /\ Cardinality(D) = L
  <2>1. IsFiniteSet(1 .. L) /\ Cardinality(1 .. L) = IF 1 > L THEN 0 ELSE L - 1 + 1
    BY <1>1, FS_Interval
  <2>. QED BY <1>1, <2>1
<1>3. Rearranged(seq, R) = new
  BY DEF Rearranged
<1>. HIDE DEF D
<1>4. /\ \A x \in D : <<x, x>> \notin R
      /\ \A x \in D, y \in D : x # y => <<x, y>> \in R \/ <<y, x>> \in R
      /\ \A x \in D, y \in D, z \in D : <<x, y>> \in R /\ <<y, z>> \in R => <<x, z>> \in R
  BY DEF StrictOrder, D
<1>5. /\ \A x \in D : r[x] \in 0 .. Cardinality(D) - 1
      /\ \A x \in D, y \in D : <<x, y>> \in R => r[x] < r[y]
      /\ \A x \in D, y \in D : r[x] = r[y] => x = y
      /\ \A i \in 0 .. Cardinality(D) - 1 : \E x \in D : r[x] = i
  <2>1. \A x \in D : r[x] = RankIn(D, R, x)
    BY DEF Ranks, D
  <2>. HIDE DEF r
  <2>2. /\ \A x \in D : RankIn(D, R, x) \in 0 .. Cardinality(D) - 1
        /\ \A x \in D, y \in D : <<x, y>> \in R => RankIn(D, R, x) < RankIn(D, R, y)
        /\ \A x \in D, y \in D : RankIn(D, R, x) = RankIn(D, R, y) => x = y
        /\ \A i \in 0 .. Cardinality(D) - 1 : \E x \in D : RankIn(D, R, x) = i
    BY <1>2, RanksCount DEF D
  <2>. QED BY <2>1, <2>2
<1>6. ASSUME NEW i \in D PROVE p[i] \in D /\ r[p[i]] = i - 1
  <2>1. i - 1 \in 0 .. L - 1
    BY <1>1 DEF D
  <2>. QED BY <1>2, <1>5, <2>1
<1>7. ASSUME NEW k \in D PROVE r[k] + 1 \in D /\ r[k] \in Int
  BY <1>1, <1>2, <1>5 DEF D
<1>. HIDE DEF r, p
<1>8. p \in [D -> D]
  BY <1>6 DEF p
<1>9. ASSUME NEW k \in D PROVE \E i \in D : p[i] = k
  <2>1. r[k] + 1 \in D /\ r[p[r[k] + 1]] = (r[k] + 1) - 1 /\ r[k] \in Int /\ p[r[k] + 1] \in D
    BY <1>6, <1>7
  <2>2. r[p[r[k] + 1]] = r[k]
    BY <2>1
  <2>3. p[r[k] + 1] = k
    BY <1>5, <2>1, <2>2 DEF r
  <2>. QED BY <2>1, <2>3
<1>10. ASSUME NEW i \in D, NEW j \in D, p[i] = p[j] PROVE i = j
  <2>1. i - 1 = j - 1 /\ i \in Int /\ j \in Int
    BY <1>6, <1>10 DEF D
  <2>. QED BY <2>1
<1>11. p \in Bijection(D, D)
  BY <1>8, <1>9, <1>10 DEF Bijection, Injection, Surjection, IsInjective
<1>12. ASSUME NEW i \in D, NEW j \in D, i < j PROVE <<p[i], p[j]>> \in R
  <2>1. p[i] \in D /\ p[j] \in D /\ r[p[i]] = i - 1 /\ r[p[j]] = j - 1
    BY <1>6
  <2>2. p[i] # p[j]
    BY <1>10, <1>12 DEF D
  <2>3. ~ (<<p[j], p[i]>> \in R)
    <3>1. <<p[j], p[i]>> \in R => r[p[j]] < r[p[i]]
      BY <1>5, <2>1 DEF r
    <3>. QED BY <1>12, <2>1, <3>1 DEF D
  <2>. QED BY <1>4, <2>1, <2>2, <2>3
<1>13. new \in Seq(T) /\ Len(new) = L
  BY <1>1, <1>8 DEF D
<1>14. \A i \in D : new[i] = seq[p[i]]
  OBVIOUS
<1>. HIDE DEF new
<1>. QED BY <1>3, <1>11, <1>12, <1>13, <1>14 DEF D

\* A sequence without repetition that is long enough has all numbers up to n.
LEMMA LongSequenceHasAll ==
  ASSUME NEW n \in Nat, NEW s \in Seq(1 .. n), IsInjective(s), Len(s) >= n
  PROVE  Range(s) = 1 .. n
<1>1. s \in [1 .. Len(s) -> 1 .. n] /\ DOMAIN s = 1 .. Len(s) /\ Len(s) \in Nat
  BY LenProperties
<1>2. s \in Injection(1 .. Len(s), 1 .. n)
  BY <1>1 DEF Injection
<1>3. ASSUME NEW k \in Nat PROVE IsFiniteSet(1 .. k) /\ Cardinality(1 .. k) = k
  <2>1. 1 \in Int /\ k \in Int
    OBVIOUS
  <2>2. IsFiniteSet(1 .. k) /\ Cardinality(1 .. k) = IF 1 > k THEN 0 ELSE k - 1 + 1
    BY <2>1, FS_Interval
  <2>. QED BY <2>2
<1>4. s \in Surjection(1 .. Len(s), 1 .. n)
  BY <1>1, <1>2, <1>3, FS_Injection
<1>. QED BY <1>1, <1>4 DEF Surjection, Range

\* The elements of a sequence are finitely many.
LEMMA RangeFinite ==
  ASSUME NEW n \in Nat, NEW s \in Seq(1 .. n)
  PROVE  Range(s) \in SUBSET (1 .. n) /\ IsFiniteSet(Range(s))
<1>1. Range(s) \in SUBSET (1 .. n)
  BY LenProperties DEF Range
<1>2. IsFiniteSet(1 .. n)
  BY FS_Interval
<1>. QED BY <1>1, <1>2, FS_Subset

\* The empty sequence has no element and repeats none.
LEMMA EmptyFacts == Range(<< >>) = {} /\ IsInjective(<< >>)
BY DEF Range, IsInjective

-----------------------------------------------------------------------------
\* A larger factor makes a product larger.
LEMMA ProductMonotone ==
  ASSUME NEW k \in Nat, NEW i \in Int, NEW j \in Int, i <= j
  PROVE  k * i <= k * j /\ i * k <= j * k
OBVIOUS

\* A quotient is rounded down.
LEMMA DivBounds ==
  ASSUME NEW x \in Int, NEW k \in Nat \ {0}
  PROVE  x \div k \in Int /\ k * (x \div k) <= x /\ (x >= 0 => x \div k >= 0)
OBVIOUS

\* What remains of a division by w.
LEMMA ModFacts ==
  ASSUME NEW w \in Nat \ {0}
  PROVE  /\ \A a \in Nat : a % w \in 0 .. w - 1
         /\ \A a \in Nat : a < w => a % w = a
         /\ \A a \in Nat : (a + w) % w = a % w
         /\ \A a, b \in Nat : a < b /\ b < a + w => a % w # b % w
<1>1. \A a \in Nat : a % w \in 0 .. w - 1 /\ a \div w \in Nat /\ a = w * (a \div w) + (a % w)
  <2>. SUFFICES ASSUME NEW a \in Nat
                PROVE  a % w \in 0 .. w - 1 /\ a \div w \in Nat /\ a = w * (a \div w) + (a % w)
    OBVIOUS
  <2>1. a \div w \in Nat
    BY DivBounds
  <2>2. a % w \in 0 .. w - 1
    OBVIOUS
  <2>3. a = w * (a \div w) + (a % w)
    BY <2>1
  <2>. QED BY <2>1, <2>2, <2>3
<1>2. ASSUME NEW a \in Nat, NEW q \in Int, NEW r \in 0 .. w - 1, a = w * q + r
      PROVE  a % w = r /\ a \div w = q
  <2>1. a % w \in 0 .. w - 1 /\ a \div w \in Int /\ a = w * (a \div w) + (a % w)
    BY <1>1
  <2>2. w * (q - a \div w) = (a % w) - r
    BY <1>2, <2>1
  <2>3. q - a \div w = 0
    <3>1. ~(q - a \div w >= 1)
      BY <2>1, <2>2
    <3>2. ~(q - a \div w <= -1)
      BY <2>1, <2>2
    <3>. QED BY <2>1, <3>1, <3>2
  <2>. QED BY <1>2, <2>1, <2>3
<1>3. ASSUME NEW a \in Nat, a < w PROVE a % w = a
  BY <1>2, <1>3
<1>4. ASSUME NEW a \in Nat PROVE (a + w) % w = a % w
  <2>1. a + w = w * (a \div w + 1) + (a % w) /\ a % w \in 0 .. w - 1 /\ a \div w + 1 \in Int
    BY <1>1
  <2>2. a + w \in Nat
    OBVIOUS
  <2>. QED BY <1>2, <2>1, <2>2
<1>5. ASSUME NEW a \in Nat, NEW b \in Nat, a < b, b < a + w, a % w = b % w PROVE FALSE
  <2>. DEFINE q == b \div w - a \div w
  <2>1. q \in Int /\ b - a = w * q
    BY <1>1, <1>5
  <2>2. q >= 1 \/ q <= 0
    BY <2>1
  <2>. HIDE DEF q
  <2>3. CASE q >= 1
    BY <1>5, <2>1, <2>3
  <2>4. CASE q <= 0
    BY <1>5, <2>1, <2>4
  <2>. QED BY <2>2, <2>3, <2>4
<1>. QED BY <1>1, <1>3, <1>4, <1>5
=============================================================================
