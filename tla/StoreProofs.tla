----------------------------- MODULE StoreProofs -----------------------------
(***************************************************************************)
(* Both edge stores are well typed and implement the bag of edges, for     *)
(* every set of edges and all declared sizes; and the hash store stays     *)
(* inside its table unless the mixed hash of an edge is no non-negative    *)
(* int.  What they rest on is how writing or clearing one slot changes the *)
(* number of copies of each edge and the number of live edges: this is     *)
(* common to both and comes first.                                         *)
(***************************************************************************)
EXTENDS SortMergeStore, HashStore, FiniteSetTheorems, TLAPS

\* The slot loops stop at the least match: it exists and is a match.
LEMMA MinOfNat ==
  ASSUME NEW S \in SUBSET Nat, S # {}
  PROVE  Min(S) \in S /\ \A y \in S : Min(S) <= y
<1>1. PICK x \in S : \A y \in S : ~ (<<y, x>> \in OpToRel(<, Nat))
  BY NatLessThanWellFounded, WFMin
<1>2. ASSUME NEW y \in S PROVE x <= y
  <2>1. <<y, x>> \in Nat \X Nat /\ ~(<<y, x>> \in OpToRel(<, Nat))
    BY <1>1
  <2>2. ~(y < x)
    BY <2>1 DEF OpToRel
  <2>. QED BY <2>2
<1>. QED BY <1>1, <1>2 DEF Min

\* Every set of slots of a database is finite.
LEMMA SlotsFinite ==
  ASSUME TypeOK
  PROVE  /\ IsFiniteSet(Slots) /\ Cardinality(Slots) = length
         /\ \A S \in SUBSET Slots : IsFiniteSet(S) /\ Cardinality(S) \in Nat
<1>1. length \in Nat
  BY DEF TypeOK
<1>2. IsFiniteSet(Slots) /\ Cardinality(Slots) = length
  BY <1>1, FS_Interval DEF Slots
<1>. QED BY <1>2, FS_Subset, FS_CardinalityType

\* No edge of a caller is mistaken for a free slot.
LEMMA EdgesAreLabelled ==
  ASSUME NEW e \in Edges
  PROVE  e.edgeLabel # NoLabel /\ e # Empty /\ e.edgeLabel \in Int
<1>1. e.edgeLabel \in Int \ {NoLabel}
  BY EdgesAssumption
<1>. QED BY <1>1 DEF Empty

\* An edge has no copies exactly when no slot holds it.
LEMMA NoCopiesNoSlot ==
  ASSUME TypeOK, NEW e \in Edges
  PROVE  Copies[e] \in Nat /\ (Copies[e] > 0 <=> Holding(e) # {})
<1>1. Holding(e) \in SUBSET Slots
  BY DEF Holding
<1>2. IsFiniteSet(Holding(e)) /\ Cardinality(Holding(e)) \in Nat
  BY <1>1, SlotsFinite
<1>3. Cardinality(Holding(e)) = 0 <=> Holding(e) = {}
  BY <1>2, FS_EmptySet
<1>. QED BY <1>2, <1>3 DEF Copies

\* A database just allocated or just freed holds no edge.
LEMMA BlankIsEmptyBag ==
  ASSUME NEW n \in Nat, length = n, db = Blank(n)
  PROVE  Copies = [e \in Edges |-> 0] /\ Live = 0
<1>1. ASSUME NEW e \in Edges PROVE Holding(e) = {}
  BY EdgesAreLabelled DEF Holding, Slots, Blank
<1>2. Slots \ Free = {}
  BY DEF Slots, Free, Blank, Empty
<1>. QED BY <1>1, <1>2, FS_EmptySet DEF Copies, Live

\* Writing an edge to a free slot adds one copy of it and one live edge.
LEMMA FillSlot ==
  ASSUME TypeOK, NEW e \in Edges, NEW i \in Free,
         db' = [db EXCEPT ![i] = e], length' = length
  PROVE  /\ Copies' = [Copies EXCEPT ![e] = @ + 1]
         /\ Live' = Live + 1
<1>1. /\ i \in Slots /\ db[i].edgeLabel = NoLabel
      /\ db \in [Slots -> Edges \cup {Empty}] /\ Slots' = Slots
  BY DEF TypeOK, Free, Slots
<1>2. \A f \in Edges : Holding(f) \in SUBSET Slots /\ i \notin Holding(f)
  BY <1>1, EdgesAreLabelled DEF Holding
<1>3. Holding(e)' = Holding(e) \cup {i}
  BY <1>1 DEF Holding
<1>4. \A f \in Edges \ {e} : Holding(f)' = Holding(f)
  BY <1>1, <1>2 DEF Holding
<1>5. Cardinality(Holding(e)') = Cardinality(Holding(e)) + 1
  BY <1>2, <1>3, SlotsFinite, FS_AddElement
<1>6. (Slots \ Free)' = (Slots \ Free) \cup {i} /\ i \notin Slots \ Free
  BY <1>1, EdgesAreLabelled DEF Free
<1>7. Live' = Live + 1
  BY <1>6, SlotsFinite, FS_AddElement DEF Live
<1>. QED BY <1>4, <1>5, <1>7 DEF Copies

\* Clearing a slot that holds an edge takes away one copy and one live edge.
LEMMA ClearSlot ==
  ASSUME TypeOK, NEW e \in Edges, NEW i \in Holding(e),
         db' = [db EXCEPT ![i] = Empty], length' = length
  PROVE  /\ Copies' = [Copies EXCEPT ![e] = @ - 1]
         /\ Live' = Live - 1
<1>1. /\ i \in Slots /\ db[i] = e
      /\ db \in [Slots -> Edges \cup {Empty}] /\ Slots' = Slots
  BY DEF TypeOK, Holding, Slots
<1>2. \A f \in Edges : Holding(f) \in SUBSET Slots
  BY DEF Holding
<1>3. Holding(e)' = Holding(e) \ {i}
  BY <1>1, EdgesAreLabelled DEF Holding
<1>4. \A f \in Edges \ {e} : Holding(f)' = Holding(f)
  BY <1>1, EdgesAreLabelled DEF Holding
<1>5. Cardinality(Holding(e)') = Cardinality(Holding(e)) - 1
  BY <1>2, <1>3, SlotsFinite, FS_RemoveElement
<1>6. (Slots \ Free)' = (Slots \ Free) \ {i} /\ i \in Slots \ Free
  BY <1>1, EdgesAreLabelled DEF Free, Empty
<1>7. Live' = Live - 1
  BY <1>6, SlotsFinite, FS_RemoveElement DEF Live
<1>. QED BY <1>4, <1>5, <1>7 DEF Copies

\* The same of the database a step has just allocated or freed.
LEMMA BlankBecomesEmptyBag ==
  ASSUME NEW n \in Nat, length' = n, db' = Blank(n)
  PROVE  Copies' = [e \in Edges |-> 0] /\ Live' = 0
<1>1. ASSUME NEW e \in Edges PROVE Holding(e)' = {}
  BY EdgesAreLabelled DEF Holding, Slots, Blank
<1>2. (Slots \ Free)' = {}
  BY DEF Slots, Free, Blank, Empty
<1>. QED BY <1>1, <1>2, FS_EmptySet DEF Copies, Live

\* An operation that writes no slot leaves the bag as it is.
LEMMA SameSlots ==
  ASSUME db' = db, length' = length
  PROVE  Copies' = Copies /\ Live' = Live
<1>1. \A e \in Edges : Holding(e)' = Holding(e)
  BY DEF Holding, Slots
<1>2. (Slots \ Free)' = Slots \ Free
  BY DEF Free, Slots
<1>. QED BY <1>1, <1>2 DEF Copies, Live

\* With at most one free slot, all slots but one are live.
LEMMA FewFreeManyLive ==
  ASSUME TypeOK
  PROVE  /\ Free = {} => Live = length
         /\ \A h : Free \subseteq {h} => Live >= length - 1
<1>1. IsFiniteSet(Slots) /\ Cardinality(Slots) = length /\ length \in Nat
  BY SlotsFinite DEF TypeOK
<1>2. Free = {} => Live = length
  BY <1>1 DEF Live
<1>3. ASSUME NEW h, Free \subseteq {h} PROVE Live >= length - 1
  <2>1. Free = {} \/ Free = {h}
    BY <1>3
  <2>2. CASE Free = {h}
    BY <2>2, <1>1, FS_RemoveElement DEF Live
  <2>. QED BY <1>1, <1>2, <2>1, <2>2
<1>. QED BY <1>2, <1>3

\* Writing an edge or the free mark to a slot keeps the array well typed.
LEMMA WriteKeepsType ==
  ASSUME TypeOK, NEW i, NEW x \in Edges \cup {Empty}, length' = length,
         db' = [db EXCEPT ![i] = x]
  PROVE  db' \in [Slots' -> Edges \cup {Empty}]
BY DEF TypeOK, Slots

\* The initial state, and the steps both stores share, keep the types.
LEMMA InitTyped == Init => TypeOK
<1>. SUFFICES ASSUME Init PROVE TypeOK
  OBVIOUS
<1>1. db \in [Slots -> Edges \cup {Empty}]
  BY DEF Init, Blank, Slots
<1>2. call \in [op : Ops \cup {"none"}, edge : Edges \cup {Empty}]
  BY DEF Init, NoCall
<1>3. open = FALSE /\ length \in Nat /\ ~(length > 0) /\ call = NoCall
  BY DEF Init
<1>4. answer \in Int
  BY DEF Init, NoLabel
<1>. QED BY <1>1, <1>2, <1>3, <1>4, Zenon DEF TypeOK

LEMMA SharedStepKeepsType ==
  ASSUME TypeOK,
         \/ UNCHANGED vars
         \/ \E n \in Nat \ {0} : AllocateSlots(n)
         \/ \E op \in Ops, e \in Edges : Call(op, e)
         \/ DeleteDatabase
  PROVE  TypeOK'
<1>1. CASE UNCHANGED vars
  BY <1>1 DEF TypeOK, vars, Slots
<1>2. ASSUME NEW n \in Nat \ {0}, AllocateSlots(n) PROVE TypeOK'
  BY <1>2 DEF TypeOK, AllocateSlots, Blank, Slots, NoCall
<1>3. ASSUME NEW op \in Ops, NEW e \in Edges, Call(op, e) PROVE TypeOK'
  BY <1>3 DEF TypeOK, Call, Slots, NoCall
<1>4. CASE DeleteDatabase
  <2>1. db' \in [Slots' -> Edges \cup {Empty}]
    BY <1>4 DEF DeleteDatabase, Blank, Slots
  <2>2. open' = FALSE /\ length' \in Nat /\ ~(length' > 0) /\ call' = NoCall
    BY <1>4 DEF DeleteDatabase
  <2>3. /\ call' \in [op : Ops \cup {"none"}, edge : Edges \cup {Empty}]
        /\ answer' \in Int
    BY <1>4 DEF DeleteDatabase, TypeOK
  <2>. QED BY <2>1, <2>2, <2>3, Zenon DEF TypeOK
<1>. QED BY <1>1, <1>2, <1>3, <1>4

-----------------------------------------------------------------------------
(***************************************************************************)
(* The sort-merge store                                                    *)
(***************************************************************************)

\* The slots that one of the scans picks from are natural numbers.
LEMMA ScanPicksSlot ==
  ASSUME TypeOK, NEW S \in SUBSET Slots, S # {}
  PROVE  Min(S) \in S
<1>1. S \in SUBSET Nat
  BY DEF TypeOK, Slots
<1>. QED BY <1>1, MinOfNat

\* No step of the store or of its client leaves the types.
LEMMA StepKeepsType ==
  ASSUME TypeOK, [Next]_vars
  PROVE  TypeOK'
<1>1. ASSUME NEW n \in Sizes, SortMergeJoinAllocateDatabase(n) PROVE TypeOK'
  BY <1>1, SharedStepKeepsType, SizesAssumption DEF SortMergeJoinAllocateDatabase
<1>2. CASE UNCHANGED vars \/ DeleteDatabase
  BY <1>2, SharedStepKeepsType
<1>3. ASSUME NEW op \in Ops, NEW e \in Edges, Call(op, e) PROVE TypeOK'
  BY <1>3, SharedStepKeepsType
<1>4. ASSUME NEW e \in Edges, SortMergeJoinInsertEdge(e) PROVE TypeOK'
  <2>1. Free \in SUBSET Slots
    BY DEF Free
  <2>2. db' \in [Slots' -> Edges \cup {Empty}]
    BY <1>4, <2>1, ScanPicksSlot DEF TypeOK, SortMergeJoinInsertEdge, Returns, Slots
  <2>. QED BY <1>4, <2>2 DEF TypeOK, SortMergeJoinInsertEdge, Returns, NoCall
<1>5. ASSUME NEW e \in Edges, SortMergeJoinDeleteEdge(e) PROVE TypeOK'
  <2>1. db' \in [Slots' -> Edges \cup {Empty}]
    BY <1>5 DEF TypeOK, SortMergeJoinDeleteEdge, Returns, Slots
  <2>. QED BY <1>5, <2>1 DEF TypeOK, SortMergeJoinDeleteEdge, Returns, NoCall
<1>6. ASSUME NEW e \in Edges, SortMergeJoinFindEdge(e) PROVE TypeOK'
  <2>1. Holding(e) \in SUBSET Slots
    BY DEF Holding
  <2>2. Holding(e) # {} => db[Min(Holding(e))] = e
    BY <2>1, ScanPicksSlot DEF Holding
  <2>3. answer' \in Int
    BY <1>6, <2>2, EdgesAreLabelled DEF SortMergeJoinFindEdge, NoLabel
  <2>. QED BY <1>6, <2>3 DEF TypeOK, SortMergeJoinFindEdge, Returns, NoCall, Slots
<1>. QED BY <1>1, <1>2, <1>3, <1>4, <1>5, <1>6 DEF Next

(***************************************************************************)
(* SMJ operations keep the database well typed: every slot of the declared *)
(* array holds an edge some client inserted or is free.                    *)
(***************************************************************************)
THEOREM TypeCorrect == Spec => []TypeOK
<1>1. Init => TypeOK
  BY InitTyped
<1>2. TypeOK /\ [Next]_vars => TypeOK'
  BY StepKeepsType
<1>. QED BY <1>1, <1>2, PTL DEF Spec

\* Each step of the store is a step of the bag of edges.
LEMMA StepImplementsBag ==
  ASSUME TypeOK, [Next]_vars
  PROVE  [Bag!Next]_(Bag!vars)
<1>. USE DEF Bag!NoCall, Bag!NoEdge, Bag!NoLabel, NoLabel, NoCall, Empty, Bag!Ops, Ops
<1>1. CASE UNCHANGED vars
  BY <1>1, SameSlots DEF vars, Bag!vars
<1>2. ASSUME NEW n \in Sizes, SortMergeJoinAllocateDatabase(n) PROVE Bag!Allocate(n)
  <2>1. Copies = [e \in Edges |-> 0] /\ Live = 0
    BY <1>2, BlankIsEmptyBag DEF TypeOK, SortMergeJoinAllocateDatabase, AllocateSlots, Slots, Blank
  <2>2. Copies' = [e \in Edges |-> 0] /\ Live' = 0
    BY <1>2, BlankBecomesEmptyBag, SizesAssumption
       DEF SortMergeJoinAllocateDatabase, AllocateSlots
  <2>. QED BY <1>2, <2>1, <2>2
           DEF SortMergeJoinAllocateDatabase, AllocateSlots, Bag!Allocate
<1>3. ASSUME NEW op \in Ops, NEW e \in Edges, Call(op, e) PROVE Bag!Call(op, e)
  BY <1>3, SameSlots DEF Call, Bag!Call
<1>4. ASSUME NEW e \in Edges, SortMergeJoinInsertEdge(e)
      PROVE  Bag!Keep(e) \/ Bag!Lose(e)
  <2>1. CASE Free = {}
    <3>1. db' = db /\ length' = length
      BY <1>4, <2>1 DEF SortMergeJoinInsertEdge, Returns
    <3>2. Live >= length
      BY <2>1, FewFreeManyLive DEF TypeOK
    <3>. QED BY <1>4, <3>1, <3>2, SameSlots
             DEF SortMergeJoinInsertEdge, Returns, Bag!Lose, Bag!Returns
  <2>2. CASE Free # {}
    <3>1. Min(Free) \in Free
      BY <2>2, ScanPicksSlot DEF Free
    <3>2. Copies' = [Copies EXCEPT ![e] = @ + 1] /\ Live' = Live + 1
      BY <1>4, <2>2, <3>1, FillSlot DEF SortMergeJoinInsertEdge, Returns
    <3>. QED BY <1>4, <3>2 DEF SortMergeJoinInsertEdge, Returns, Bag!Keep, Bag!Returns
  <2>. QED BY <2>1, <2>2
<1>5. ASSUME NEW e \in Edges, SortMergeJoinDeleteEdge(e)
      PROVE  Bag!Remove(e) \/ Bag!RemoveNothing(e)
  <2>1. CASE Holding(e) = {}
    <3>1. db' = db /\ length' = length
      BY <1>5, <2>1 DEF SortMergeJoinDeleteEdge, Returns
    <3>2. Copies[e] = 0
      BY <2>1, NoCopiesNoSlot
    <3>. QED BY <1>5, <3>1, <3>2, SameSlots
             DEF SortMergeJoinDeleteEdge, Returns, Bag!RemoveNothing, Bag!Returns
  <2>2. CASE Holding(e) # {}
    <3>1. Min(Holding(e)) \in Holding(e)
      BY <2>2, ScanPicksSlot DEF Holding
    <3>2. Copies' = [Copies EXCEPT ![e] = @ - 1] /\ Live' = Live - 1
      BY <1>5, <2>2, <3>1, ClearSlot DEF SortMergeJoinDeleteEdge, Returns
    <3>3. Copies[e] > 0
      BY <2>2, NoCopiesNoSlot
    <3>. QED BY <1>5, <3>2, <3>3
             DEF SortMergeJoinDeleteEdge, Returns, Bag!Remove, Bag!Returns
  <2>. QED BY <2>1, <2>2
<1>6. ASSUME NEW e \in Edges, SortMergeJoinFindEdge(e) PROVE Bag!Find(e)
  <2>1. Copies' = Copies /\ Live' = Live
    BY <1>6, SameSlots DEF SortMergeJoinFindEdge, Returns
  <2>2. Holding(e) # {} => db[Min(Holding(e))] = e
    BY ScanPicksSlot DEF Holding
  <2>3. answer' = IF Copies[e] > 0 THEN e.edgeLabel ELSE NoLabel
    BY <1>6, <2>2, NoCopiesNoSlot DEF SortMergeJoinFindEdge
  <2>. QED BY <1>6, <2>1, <2>3 DEF SortMergeJoinFindEdge, Returns, Bag!Find, Bag!Returns
<1>7. ASSUME DeleteDatabase PROVE Bag!Close
  <2>1. Copies' = [e \in Edges |-> 0] /\ Live' = 0
    BY <1>7, BlankBecomesEmptyBag DEF DeleteDatabase
  <2>. QED BY <1>7, <2>1 DEF DeleteDatabase, Bag!Close, Bag!NoCopies
<1>. QED BY <1>1, <1>2, <1>3, <1>4, <1>5, <1>6, <1>7 DEF Next, Bag!Next

(***************************************************************************)
(* The SMJ store is a bag of edges: InsertEdge loses an edge only when as  *)
(* many as declared are there, DeleteEdge removes exactly one copy, and    *)
(* FindEdge answers by membership.                                         *)
(***************************************************************************)
THEOREM StoreImplementsBag == Spec => ImplementsBag
<1>1. Init => Bag!Init
  <2>. SUFFICES ASSUME Init PROVE Bag!Init
    OBVIOUS
  <2>1. Copies = [e \in Edges |-> 0] /\ Live = 0
    BY BlankIsEmptyBag DEF Init
  <2>. QED BY <2>1 DEF Init, Bag!Init, Bag!NoCopies, Bag!NoCall, Bag!NoEdge, Bag!NoLabel,
                      NoLabel, NoCall, Empty
<1>2. TypeOK /\ [Next]_vars => [Bag!Next]_(Bag!vars)
  BY StepImplementsBag
<1>. QED BY <1>1, <1>2, TypeCorrect, PTL DEF Spec, ImplementsBag, Bag!Spec

-----------------------------------------------------------------------------
(***************************************************************************)
(* The hash store                                                          *)
(***************************************************************************)

\* % on a dividend that is less than twice or three times the divisor.
LEMMA SmallRemainders ==
  ASSUME NEW n \in Nat \ {0}
  PROVE  /\ \A x \in 0 .. n - 1 : x % n = x
         /\ \A x \in n .. 2 * n - 1 : x % n = x - n
         /\ \A x \in 2 * n .. 3 * n - 1 : x % n = x - 2 * n
OBVIOUS

\* The hash of an edge is an int between minus the table size and the table size.
LEMMA HashRange ==
  ASSUME TypeOK, length > 0, NEW e \in Edges
  PROVE  myHash(e) \in -(length - 1) .. length - 1
<1>1. Mix(e) \in Int
  BY EdgesAssumption DEF Mix
<1>2. Wrap(Mix(e)) \in Int
  BY <1>1, MaxIntAssumption DEF Wrap
<1>. DEFINE x == Wrap(Mix(e))
<1>3. \A y \in Nat : y % length \in 0 .. length - 1
  BY DEF TypeOK
<1>4. CASE x >= 0
  BY <1>2, <1>3, <1>4 DEF myHash, CRem, TypeOK
<1>5. CASE ~(x >= 0)
  <2>1. -x \in Nat /\ (-x) % length \in 0 .. length - 1
    BY <1>2, <1>3, <1>5
  <2>. QED BY <1>2, <1>5, <2>1 DEF myHash, CRem, TypeOK
<1>. QED BY <1>4, <1>5

\* An operation stays in the table when the hash is at least -1.
LEMMA InTableMeansHome ==
  ASSUME TypeOK, length > 0, NEW e \in Edges
  PROVE  InTable(e) <=> myHash(e) >= -1
<1>1. myHash(e) \in -(length - 1) .. length - 1 /\ length \in Nat
  BY HashRange DEF TypeOK
<1>. DEFINE x == myHash(e) + 1
<1>2. CASE x >= 0
  <2>1. x % length \in 0 .. length - 1
    BY <1>1, <1>2
  <2>. QED BY <1>1, <1>2, <2>1 DEF InTable, Probe, CRem, Slots
<1>3. CASE ~(x >= 0)
  <2>1. -x \in 1 .. length - 1 /\ (-x) % length = -x
    BY <1>1, <1>3, SmallRemainders
  <2>. QED BY <1>1, <1>3, <2>1 DEF InTable, Probe, CRem, Slots
<1>. QED BY <1>2, <1>3

\* Then probe number quad is the quad-th slot after the home slot, cyclically.
LEMMA ProbeSlot ==
  ASSUME TypeOK, length > 0, NEW e \in Edges, InTable(e), NEW quad \in 1 .. length + 1
  PROVE  LET x == myHash(e) + quad
         IN  /\ myHash(e) \in -1 .. length - 1
             /\ x \in 0 .. length - 1 => Probe(e, quad) = x
             /\ x \in length .. 2 * length - 1 => Probe(e, quad) = x - length
             /\ x = 2 * length => Probe(e, quad) = 0
             /\ x \in 0 .. 2 * length
<1>. DEFINE x == myHash(e) + quad
<1>1. myHash(e) \in -1 .. length - 1 /\ length \in Nat \ {0}
  BY HashRange, InTableMeansHome DEF TypeOK
<1>2. x \in 0 .. 2 * length
  BY <1>1
<1>3. Probe(e, quad) = x % length
  BY <1>1, <1>2 DEF Probe, CRem
<1>. QED BY <1>1, <1>2, <1>3, SmallRemainders

\* Every probe hits a slot.
LEMMA ProbeInTable ==
  ASSUME TypeOK, length > 0, NEW e \in Edges, InTable(e), NEW quad \in 1 .. length + 1
  PROVE  Probe(e, quad) \in Slots
<1>1. length \in Nat \ {0}
  BY DEF TypeOK
<1>. DEFINE x == myHash(e) + quad
<1>2. x \in 0 .. 2 * length
  BY <1>1, ProbeSlot
<1>3. CASE x \in 0 .. length - 1
  BY <1>1, <1>3, ProbeSlot DEF Slots
<1>4. CASE x \in length .. 2 * length - 1
  BY <1>1, <1>4, ProbeSlot DEF Slots
<1>5. CASE x = 2 * length
  BY <1>1, <1>5, ProbeSlot DEF Slots
<1>. QED BY <1>1, <1>2, <1>3, <1>4, <1>5

\* The probes of FindEdge and DeleteEdge hit every slot.
LEMMA ScanSeesEverySlot ==
  ASSUME TypeOK, length > 0, NEW e \in Edges, InTable(e), NEW i \in Slots
  PROVE  \E quad \in 1 .. length + 1 : Probe(e, quad) = i
<1>1. myHash(e) \in -1 .. length - 1 /\ length \in Nat \ {0} /\ i \in 0 .. length - 1
  BY HashRange, InTableMeansHome DEF TypeOK, Slots
<1>2. CASE i > myHash(e)
  <2>1. i - myHash(e) \in 1 .. length + 1
    BY <1>1, <1>2
  <2>2. Probe(e, i - myHash(e)) = i
    BY <1>1, <2>1, ProbeSlot
  <2>. QED BY <2>1, <2>2
<1>3. CASE ~(i > myHash(e))
  <2>1. i - myHash(e) + length \in 1 .. length + 1
    BY <1>1, <1>3
  <2>2. Probe(e, i - myHash(e) + length) = i
    BY <1>1, <2>1, ProbeSlot
  <2>. QED BY <2>1, <2>2
<1>. QED BY <1>2, <1>3

\* The probes of InsertEdge hit every slot but one.
LEMMA InsertSeesAllButOne ==
  ASSUME TypeOK, length > 0, NEW e \in Edges, InTable(e)
  PROVE  \E home : \A i \in Slots \ {home} :
           \E quad \in 1 .. length - 1 : Probe(e, quad) = i
<1>1. myHash(e) \in -1 .. length - 1 /\ length \in Nat \ {0}
  BY HashRange, InTableMeansHome DEF TypeOK
<1>. DEFINE home == IF myHash(e) = -1 THEN length - 1 ELSE myHash(e)
<1>2. ASSUME NEW i \in Slots \ {home} PROVE \E quad \in 1 .. length - 1 : Probe(e, quad) = i
  <2>1. i \in 0 .. length - 1 /\ i # home
    BY DEF Slots
  <2>2. CASE i > myHash(e)
    <3>1. i - myHash(e) \in 1 .. length - 1
      BY <1>1, <2>1, <2>2
    <3>2. Probe(e, i - myHash(e)) = i
      BY <1>1, <2>1, <3>1, ProbeSlot
    <3>. QED BY <3>1, <3>2
  <2>3. CASE ~(i > myHash(e))
    <3>1. i - myHash(e) + length \in 1 .. length - 1
      BY <1>1, <2>1, <2>3
    <3>2. Probe(e, i - myHash(e) + length) = i
      BY <1>1, <2>1, <3>1, ProbeSlot
    <3>. QED BY <3>1, <3>2
  <2>. QED BY <2>2, <2>3
<1>. QED BY <1>2

\* The least of a set of probe numbers is one of them.
LEMMA LeastProbe ==
  ASSUME NEW e, NEW last \in Int, NEW S, Hits(e, last, S) # {}
  PROVE  /\ Min(Hits(e, last, S)) \in 1 .. last
         /\ Probe(e, Min(Hits(e, last, S))) \in S
<1>1. Hits(e, last, S) \in SUBSET Nat
  BY DEF Hits
<1>2. Min(Hits(e, last, S)) \in Hits(e, last, S)
  BY <1>1, MinOfNat
<1>. QED BY <1>2 DEF Hits

\* A full scan finds a copy exactly when some slot holds one.
LEMMA ScanFindsCopy ==
  ASSUME TypeOK, length > 0, NEW e \in Edges, InTable(e)
  PROVE  Hits(e, length + 1, Holding(e)) = {} <=> Holding(e) = {}
BY ScanSeesEverySlot DEF Hits, Holding

LEMMA HashStepKeepsType ==
  ASSUME TypeOKHash, [NextHash]_hashVars
  PROVE  TypeOKHash'
<1>. USE DEF TypeOKHash
<1>1. CASE UNCHANGED hashVars
  BY <1>1, SharedStepKeepsType DEF hashVars, vars
<1>2. ASSUME NEW n \in Sizes, HashjoinAllocateDatabase(n) PROVE TypeOKHash'
  <2>1. n * hashattribute \in Nat \ {0}
    BY SizesAssumption DEF hashattribute
  <2>. QED BY <1>2, <2>1, SharedStepKeepsType DEF HashjoinAllocateDatabase
<1>3. ASSUME NEW op \in Ops, NEW e \in Edges, HashCall(op, e) PROVE TypeOKHash'
  BY <1>3, SharedStepKeepsType DEF HashCall
<1>4. ASSUME NEW e \in Edges, HashReturns("insert", e) \/ HashReturns("delete", e)
             \/ HashReturns("find", e)
      PROVE  /\ length > 0 /\ length' = length /\ InTable(e) /\ Slots' = Slots
             /\ open' \in BOOLEAN /\ length' \in Nat /\ (length' > 0 => open') /\ (open' => length' > 0)
             /\ call' \in [op : Ops \cup {"none"}, edge : Edges \cup {Empty}]
             /\ call' = NoCall /\ undefined' \in BOOLEAN
  BY <1>4 DEF HashReturns, Returns, TypeOK, NoCall, Slots
<1>5. ASSUME NEW e \in Edges, HashjoinInsertEdge(e) PROVE TypeOKHash'
  <2>1. /\ length > 0 /\ length \in Nat /\ length' = length /\ InTable(e)
    BY <1>4, <1>5 DEF HashjoinInsertEdge, TypeOK
  <2>2. db' \in [Slots' -> Edges \cup {Empty}]
    <3>1. CASE Hits(e, length - 1, Free) = {}
      BY <1>5, <2>1, <3>1 DEF HashjoinInsertEdge, TypeOK, Slots
    <3>2. CASE Hits(e, length - 1, Free) # {}
      BY <1>5, <2>1, <3>2, WriteKeepsType DEF HashjoinInsertEdge
    <3>. QED BY <3>1, <3>2
  <2>3. answer' \in Int
    BY <1>5 DEF HashjoinInsertEdge, TypeOK
  <2>. QED BY <1>4, <1>5, <2>2, <2>3 DEF HashjoinInsertEdge, TypeOK
<1>6. ASSUME NEW e \in Edges, HashjoinDeleteEdge(e) PROVE TypeOKHash'
  <2>1. /\ length > 0 /\ length \in Nat /\ length' = length /\ InTable(e)
    BY <1>4, <1>6 DEF HashjoinDeleteEdge, TypeOK
  <2>2. db' \in [Slots' -> Edges \cup {Empty}]
    <3>1. CASE Hits(e, length + 1, Holding(e)) = {}
      BY <1>6, <2>1, <3>1 DEF HashjoinDeleteEdge, TypeOK, Slots
    <3>2. CASE Hits(e, length + 1, Holding(e)) # {}
      BY <1>6, <2>1, <3>2, WriteKeepsType DEF HashjoinDeleteEdge
    <3>. QED BY <3>1, <3>2
  <2>3. answer' \in Int
    BY <1>6 DEF HashjoinDeleteEdge, TypeOK
  <2>. QED BY <1>4, <1>6, <2>2, <2>3 DEF HashjoinDeleteEdge, TypeOK
<1>7. ASSUME NEW e \in Edges, HashjoinFindEdge(e) PROVE TypeOKHash'
  <2>1. answer' \in Int
    BY <1>7, EdgesAreLabelled DEF HashjoinFindEdge, NoLabel
  <2>2. db' \in [Slots' -> Edges \cup {Empty}]
    BY <1>4, <1>7 DEF HashjoinFindEdge, TypeOK
  <2>. QED BY <1>4, <1>7, <2>1, <2>2 DEF HashjoinFindEdge, TypeOK
<1>8. ASSUME NEW e \in Edges, OutOfTable(e) PROVE TypeOKHash'
  BY <1>8, SharedStepKeepsType DEF OutOfTable
<1>9. CASE HashjoinDeleteDatabase
  BY <1>9, SharedStepKeepsType DEF HashjoinDeleteDatabase
<1>. QED BY <1>1, <1>2, <1>3, <1>5, <1>6, <1>7, <1>8, <1>9 DEF NextHash

(***************************************************************************)
(* The Hashjoin operations keep the table well typed: every slot holds an  *)
(* edge some client inserted or is free.                                   *)
(***************************************************************************)
THEOREM HashTypeCorrect == SpecHash => []TypeOKHash
<1>1. InitHash => TypeOKHash
  BY InitTyped DEF InitHash, TypeOKHash
<1>2. TypeOKHash /\ [NextHash]_hashVars => TypeOKHash'
  BY HashStepKeepsType
<1>. QED BY <1>1, <1>2, PTL DEF SpecHash

\* An edge whose mixed hash is a non-negative int is hashed into the table.
LEMMA FittingHashInTable ==
  ASSUME TypeOK, length > 0, NEW e \in Edges, Mix(e) \in 0 .. MaxInt
  PROVE  InTable(e)
<1>1. Wrap(Mix(e)) = Mix(e)
  <2>. DEFINE n == 2 * (MaxInt + 1)
  <2>1. n \in Nat \ {0} /\ Mix(e) + MaxInt + 1 \in 0 .. n - 1
    BY MaxIntAssumption
  <2>2. (Mix(e) + MaxInt + 1) % n = Mix(e) + MaxInt + 1
    BY <2>1, SmallRemainders
  <2>. QED BY <2>2, MaxIntAssumption DEF Wrap
<1>2. length \in Nat \ {0}
  BY DEF TypeOK
<1>3. Mix(e) \in Int /\ Mix(e) >= 0 /\ Mix(e) % length \in 0 .. length - 1
  BY <1>2, MaxIntAssumption
<1>4. myHash(e) >= -1
  BY <1>1, <1>2, <1>3 DEF myHash, CRem
<1>. QED BY <1>4, InTableMeansHome

(***************************************************************************)
(* For any table size and any contents, an operation of the hash store     *)
(* that indexes db outside of the table was given an edge whose mixed hash *)
(* overflows an int or is negative.                                        *)
(***************************************************************************)
THEOREM HashStaysInTable == SpecHash => []OnlyOverflowLeavesTable
<1>1. InitHash => OnlyOverflowLeavesTable
  BY DEF InitHash, OnlyOverflowLeavesTable
<1>2. TypeOKHash /\ OnlyOverflowLeavesTable /\ [NextHash]_hashVars => OnlyOverflowLeavesTable'
  <2>. SUFFICES ASSUME TypeOKHash, OnlyOverflowLeavesTable, [NextHash]_hashVars
                PROVE OnlyOverflowLeavesTable'
    OBVIOUS
  <2>1. CASE UNCHANGED hashVars
    BY <2>1 DEF OnlyOverflowLeavesTable, hashVars
  <2>2. ASSUME NEW e \in Edges, OutOfTable(e) PROVE Mix(call'.edge) \notin 0 .. MaxInt
    <3>1. length > 0 /\ call'.edge = e /\ ~InTable(e)
      BY <2>2 DEF OutOfTable, TypeOKHash, TypeOK, NoCall, vars
    <3>. QED BY <3>1, FittingHashInTable DEF TypeOKHash
  <2>3. CASE NextHash /\ ~\E e \in Edges : OutOfTable(e)
    <3>1. undefined' = FALSE
      BY <2>3 DEF NextHash, TypeOKHash, HashjoinAllocateDatabase, HashCall, HashReturns,
                  HashjoinInsertEdge, HashjoinDeleteEdge, HashjoinFindEdge, HashjoinDeleteDatabase
    <3>. QED BY <3>1 DEF OnlyOverflowLeavesTable
  <2>. QED BY <2>1, <2>2, <2>3 DEF OnlyOverflowLeavesTable
<1>. QED BY <1>1, <1>2, HashTypeCorrect, PTL DEF SpecHash

\* A lost insertion means that every slot but the home slot was taken.
LEMMA LostInsertMeansFull ==
  ASSUME TypeOK, length > 0, NEW e \in Edges, InTable(e),
         Hits(e, length - 1, Free) = {}
  PROVE  Live >= Declared
<1>1. PICK home : \A i \in Slots \ {home} :
                    \E quad \in 1 .. length - 1 : Probe(e, quad) = i
  BY InsertSeesAllButOne
<1>2. Free \subseteq {home}
  BY <1>1 DEF Hits, Free
<1>3. Live >= length - 1
  BY <1>2, FewFreeManyLive
<1>4. length \in Nat \ {0} /\ Live \in Nat
  BY SlotsFinite DEF TypeOK, Live
<1>. QED BY <1>3, <1>4 DEF Declared, hashattribute

\* Each step of the hash store is a step of the bag of edges or changes nothing.
LEMMA HashStepImplementsBag ==
  ASSUME TypeOKHash, [NextHash]_hashVars
  PROVE  [HashBag!Next]_(HashBag!vars)
<1>. USE DEF HashBag!NoCall, HashBag!NoEdge, HashBag!NoLabel, NoLabel, NoCall, Empty, HashBag!Ops, Ops
<1>0. TypeOK
  BY DEF TypeOKHash
<1>1. ASSUME UNCHANGED vars PROVE UNCHANGED HashBag!vars
  BY <1>1, SameSlots DEF vars, HashBag!vars, Declared
<1>2. ASSUME NEW n \in Sizes, HashjoinAllocateDatabase(n) PROVE HashBag!Allocate(n)
  <2>1. ~open /\ length = 0 /\ db = Blank(0)
    BY <1>0, <1>2 DEF TypeOK, HashjoinAllocateDatabase, AllocateSlots, Slots, Blank
  <2>2. Copies = [e \in Edges |-> 0] /\ Live = 0
    BY <2>1, BlankIsEmptyBag
  <2>3. n \in Nat /\ length' = n * 2 /\ db' = Blank(n * 2) /\ n * 2 \in Nat
    BY <1>2, SizesAssumption DEF HashjoinAllocateDatabase, AllocateSlots, hashattribute
  <2>4. Copies' = [e \in Edges |-> 0] /\ Live' = 0
    BY <2>3, BlankBecomesEmptyBag
  <2>5. Declared' = n
    BY <2>3 DEF Declared, hashattribute
  <2>. QED BY <1>2, <2>2, <2>4, <2>5
           DEF HashjoinAllocateDatabase, AllocateSlots, HashBag!Allocate
<1>3. ASSUME NEW op \in Ops, NEW e \in Edges, HashCall(op, e) PROVE HashBag!Call(op, e)
  BY <1>3, SameSlots DEF HashCall, Call, HashBag!Call, Declared
<1>4. ASSUME NEW op \in Ops, NEW e \in Edges, HashReturns(op, e)
      PROVE  /\ length > 0 /\ InTable(e) /\ length' = length /\ Declared' = Declared
             /\ HashBag!Returns(op, e)
  BY <1>0, <1>4 DEF HashReturns, Returns, HashBag!Returns, TypeOK, Declared
<1>5. ASSUME NEW e \in Edges, HashjoinInsertEdge(e)
      PROVE  HashBag!Keep(e) \/ HashBag!Lose(e)
  <2>1. /\ length > 0 /\ length \in Nat /\ InTable(e) /\ length' = length
        /\ HashBag!Returns("insert", e)
    BY <1>0, <1>4, <1>5 DEF HashjoinInsertEdge, TypeOK
  <2>2. CASE Hits(e, length - 1, Free) = {}
    <3>1. Live >= Declared
      BY <1>0, <2>1, <2>2, LostInsertMeansFull
    <3>2. Copies' = Copies /\ Live' = Live
      BY <1>5, <2>1, <2>2, SameSlots DEF HashjoinInsertEdge
    <3>. QED BY <1>5, <2>1, <3>1, <3>2 DEF HashjoinInsertEdge, HashBag!Lose
  <2>3. CASE Hits(e, length - 1, Free) # {}
    <3>1. Copies' = [Copies EXCEPT ![e] = @ + 1] /\ Live' = Live + 1
      BY <1>0, <1>5, <2>1, <2>3, LeastProbe, FillSlot DEF HashjoinInsertEdge
    <3>. QED BY <1>5, <2>1, <3>1 DEF HashjoinInsertEdge, HashBag!Keep
  <2>. QED BY <2>2, <2>3
<1>6. ASSUME NEW e \in Edges, HashjoinDeleteEdge(e)
      PROVE  HashBag!Remove(e) \/ HashBag!RemoveNothing(e)
  <2>1. /\ length > 0 /\ length \in Nat /\ InTable(e) /\ length' = length
        /\ HashBag!Returns("delete", e)
    BY <1>0, <1>4, <1>6 DEF HashjoinDeleteEdge, TypeOK
  <2>2. Hits(e, length + 1, Holding(e)) = {} <=> Holding(e) = {}
    BY <1>0, <2>1, ScanFindsCopy
  <2>3. CASE Holding(e) = {}
    <3>1. Copies[e] = 0
      BY <1>0, <2>3, NoCopiesNoSlot
    <3>2. Copies' = Copies /\ Live' = Live
      BY <1>6, <2>1, <2>2, <2>3, SameSlots DEF HashjoinDeleteEdge
    <3>. QED BY <1>6, <2>1, <3>1, <3>2 DEF HashjoinDeleteEdge, HashBag!RemoveNothing
  <2>4. CASE Holding(e) # {}
    <3>1. Copies' = [Copies EXCEPT ![e] = @ - 1] /\ Live' = Live - 1
      BY <1>0, <1>6, <2>1, <2>2, <2>4, LeastProbe, ClearSlot DEF HashjoinDeleteEdge
    <3>2. Copies[e] > 0
      BY <1>0, <2>4, NoCopiesNoSlot
    <3>. QED BY <1>6, <2>1, <3>1, <3>2 DEF HashjoinDeleteEdge, HashBag!Remove
  <2>. QED BY <2>3, <2>4
<1>7. ASSUME NEW e \in Edges, HashjoinFindEdge(e) PROVE HashBag!Find(e)
  <2>1. /\ length > 0 /\ InTable(e) /\ length' = length /\ HashBag!Returns("find", e)
    BY <1>4, <1>7 DEF HashjoinFindEdge
  <2>2. Hits(e, length + 1, Holding(e)) = {} <=> ~(Copies[e] > 0)
    BY <1>0, <2>1, ScanFindsCopy, NoCopiesNoSlot
  <2>3. Copies' = Copies /\ Live' = Live
    BY <1>7, <2>1, SameSlots DEF HashjoinFindEdge
  <2>. QED BY <1>7, <2>1, <2>2, <2>3 DEF HashjoinFindEdge, HashBag!Find
<1>8. ASSUME HashjoinDeleteDatabase PROVE HashBag!Close
  <2>1. Copies' = [e \in Edges |-> 0] /\ Live' = 0
    BY <1>8, BlankBecomesEmptyBag DEF HashjoinDeleteDatabase, DeleteDatabase
  <2>2. Declared' = 0
    BY <1>8 DEF HashjoinDeleteDatabase, DeleteDatabase, Declared, hashattribute
  <2>. QED BY <1>8, <2>1, <2>2 DEF HashjoinDeleteDatabase, DeleteDatabase, HashBag!Close, HashBag!NoCopies
<1>9. UNCHANGED hashVars \/ (\E e \in Edges : OutOfTable(e)) => UNCHANGED vars
  BY DEF hashVars, vars, OutOfTable
<1>. QED BY <1>1, <1>2, <1>3, <1>5, <1>6, <1>7, <1>8, <1>9 DEF NextHash, HashBag!Next

(***************************************************************************)
(* The hash store is a bag of edges for every table size: InsertEdge,      *)
(* which never probes the home slot, loses no edge before the declared     *)
(* number is reached, and the holes that DeleteEdge leaves hide no edge    *)
(* from FindEdge or a later DeleteEdge.                                    *)
(***************************************************************************)
THEOREM HashStoreImplementsBag == SpecHash => HashImplementsBag
<1>1. InitHash => HashBag!Init
  <2>. SUFFICES ASSUME InitHash PROVE HashBag!Init
    OBVIOUS
  <2>1. Copies = [e \in Edges |-> 0] /\ Live = 0
    BY BlankIsEmptyBag DEF InitHash, Init
  <2>2. Declared = 0
    BY DEF InitHash, Init, Declared, hashattribute
  <2>. QED BY <2>1, <2>2 DEF InitHash, Init, HashBag!Init, HashBag!NoCopies, HashBag!NoCall, HashBag!NoEdge,
                      HashBag!NoLabel, NoLabel, NoCall, Empty
<1>2. TypeOKHash /\ [NextHash]_hashVars => [HashBag!Next]_(HashBag!vars)
  BY HashStepImplementsBag
<1>. QED BY <1>1, <1>2, HashTypeCorrect, PTL DEF SpecHash, HashImplementsBag, HashBag!Spec
=============================================================================
