------------------------------ MODULE EdgeBag ------------------------------
(***************************************************************************)
(* What an edge store of Source/ShapeCount.c promises its callers: a bag   *)
(* of labelled edges.  The store is allocated for a declared number of     *)
(* edges; up to that number no insertion may be lost, beyond it the store  *)
(* may drop one.  A deletion takes away exactly one copy, whatever order   *)
(* the copies came in, and a lookup answers the label of an edge that is   *)
(* there and -1 for one that is not.                                       *)
(*                                                                         *)
(* Every operation on an edge is a call followed by a return, so that an   *)
(* operation without effect (a dropped insertion, the deletion of an       *)
(* absent edge) is a step an implementation has to account for.            *)
(***************************************************************************)
EXTENDS Integers

CONSTANTS
  Edges,   \* the edges callers insert, delete and look up
  Sizes    \* the numbers of edges callers declare at allocation

VARIABLES
  open,      \* a database is allocated
  declared,  \* totalNumberOfEdgesInTheEnd of the allocation
  bag,       \* number of copies of each edge
  size,      \* number of edges in the bag, copies counted
  call,      \* the operation in progress and its edge
  answer     \* what the last lookup returned

vars == <<open, declared, bag, size, call, answer>>

NoLabel == -1
NoEdge  == [fromNode |-> -1, toNode |-> -1, edgeLabel |-> NoLabel]
NoCall  == [op |-> "none", edge |-> NoEdge]
Ops     == {"insert", "delete", "find"}

NoCopies == [e \in Edges |-> 0]

Init ==
  /\ open = FALSE
  /\ declared = 0
  /\ bag = NoCopies
  /\ size = 0
  /\ call = NoCall
  /\ answer = NoLabel

Allocate(n) ==
  /\ ~open
  /\ open' = TRUE
  /\ declared' = n
  /\ UNCHANGED <<bag, size, call, answer>>

Call(op, e) ==
  /\ open
  /\ call = NoCall
  /\ call' = [op |-> op, edge |-> e]
  /\ UNCHANGED <<open, declared, bag, size, answer>>

Returns(op, e) ==
  /\ call = [op |-> op, edge |-> e]
  /\ call' = NoCall
  /\ UNCHANGED <<open, declared>>

Keep(e) ==
  /\ Returns("insert", e)
  /\ bag' = [bag EXCEPT ![e] = @ + 1]
  /\ size' = size + 1
  /\ UNCHANGED answer

\* An insertion may be lost only when the declared number of edges is there.
Lose(e) ==
  /\ Returns("insert", e)
  /\ size >= declared
  /\ UNCHANGED <<bag, size, answer>>

Remove(e) ==
  /\ Returns("delete", e)
  /\ bag[e] > 0
  /\ bag' = [bag EXCEPT ![e] = @ - 1]
  /\ size' = size - 1
  /\ UNCHANGED answer

RemoveNothing(e) ==
  /\ Returns("delete", e)
  /\ bag[e] = 0
  /\ UNCHANGED <<bag, size, answer>>

Find(e) ==
  /\ Returns("find", e)
  /\ answer' = IF bag[e] > 0 THEN e.edgeLabel ELSE NoLabel
  /\ UNCHANGED <<bag, size>>

Close ==
  /\ open
  /\ call = NoCall
  /\ open' = FALSE
  /\ declared' = 0
  /\ bag' = NoCopies
  /\ size' = 0
  /\ UNCHANGED <<call, answer>>

Next ==
  \/ \E n \in Sizes : Allocate(n)
  \/ \E op \in Ops, e \in Edges : Call(op, e)
  \/ \E e \in Edges : Keep(e) \/ Lose(e) \/ Remove(e) \/ RemoveNothing(e) \/ Find(e)
  \/ Close

Spec == Init /\ [][Next]_vars

=============================================================================
