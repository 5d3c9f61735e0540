--------------------------- MODULE SortMergeStore ---------------------------
(***************************************************************************)
(* The edge store behind SortMergeJoin*: an array of as many slots as the  *)
(* client declared.  Insert takes the first free slot, delete clears the   *)
(* first slot that holds the edge, find scans for it.                      *)
(***************************************************************************)
EXTENDS EdgeDb

SortMergeJoinAllocateDatabase(n) == AllocateSlots(n)

\* With no free slot the loop ends without a write: the edge is dropped.
SortMergeJoinInsertEdge(e) ==
  /\ Returns("insert", e)
  /\ db' = IF Free = {} THEN db ELSE [db EXCEPT ![Min(Free)] = e]
  /\ UNCHANGED answer

\* Mistaken forms of the deletion: only the label is cleared; every copy is.
DeleteKeepsNodes(e) ==
  /\ Returns("delete", e)
  /\ db' = IF Holding(e) = {} THEN db
            ELSE [db EXCEPT ![Min(Holding(e))].edgeLabel = NoLabel]
  /\ UNCHANGED answer

DeleteClearsAll(e) ==
  /\ Returns("delete", e)
  /\ db' = [i \in Slots |-> IF db[i] = e THEN Empty ELSE db[i]]
  /\ UNCHANGED answer

SortMergeJoinDeleteEdge(e) ==
  /\ Returns("delete", e)
  /\ db' = IF Holding(e) = {} THEN db ELSE [db EXCEPT ![Min(Holding(e))] = Empty]
  /\ UNCHANGED answer

SortMergeJoinFindEdge(e) ==
  /\ Returns("find", e)
  /\ answer' = IF Holding(e) = {} THEN NoLabel ELSE db[Min(Holding(e))].edgeLabel
  /\ UNCHANGED db

Next ==
  \/ \E n \in Sizes : SortMergeJoinAllocateDatabase(n)
  \/ \E op \in Ops, e \in Edges : Call(op, e)
  \/ \E e \in Edges :
       \/ SortMergeJoinInsertEdge(e)
       \/ SortMergeJoinDeleteEdge(e)
       \/ SortMergeJoinFindEdge(e)
  \/ DeleteDatabase

Spec == Init /\ [][Next]_vars

\* A store declared for n edges has n slots.
Bag == INSTANCE EdgeBag WITH declared <- length, bag <- Copies, size <- Live

(***************************************************************************)
(* The slot array behaves as a bag of edges: equal copies are removed one  *)
(* at a time, lookups answer by membership, and an insertion is lost only  *)
(* when as many edges as declared are already there (InsertEdge's loop     *)
(* finds no free slot).                                                    *)
(***************************************************************************)
ImplementsBag == Bag!Spec

=============================================================================
