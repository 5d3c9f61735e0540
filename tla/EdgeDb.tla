------------------------------- MODULE EdgeDb -------------------------------
(***************************************************************************)
(* struct edge and struct edge_db of Source/ShapeCount.c, which both the   *)
(* sort-merge and the hash store cast their void* database to: an array of *)
(* edge slots with its length.  A slot whose label is -1 is free.          *)
(* What the two stores share is here: the state, the calls of the client,  *)
(* freeing the database, and how the array is read as a bag of edges.      *)
(***************************************************************************)
EXTENDS Integers, FiniteSets, FiniteSetsExt

CONSTANTS
  Edges,   \* the edges callers insert, delete and look up
  Sizes    \* the numbers of edges callers declare at allocation

NoLabel == -1

\* The callers (tests, benchmark) only use labels >= 0; -1 is the free mark.
ASSUME EdgesAssumption ==
  \A e \in Edges : e \in [fromNode : Int, toNode : Int, edgeLabel : Int \ {NoLabel}]

ASSUME SizesAssumption == Sizes \subseteq Nat \ {0}

VARIABLES
  open,     \* a database is allocated
  length,   \* edge_db.length
  db,       \* edge_db.db, slots 0 .. length - 1
  call,     \* the operation the client is in, and its edge
  answer    \* what the last FindEdge returned

vars == <<open, length, db, call, answer>>

Empty  == [fromNode |-> -1, toNode |-> -1, edgeLabel |-> NoLabel]
NoCall == [op |-> "none", edge |-> Empty]
Ops    == {"insert", "delete", "find"}

Blank(n) == [i \in 0 .. n - 1 |-> Empty]
Slots    == 0 .. length - 1

Free       == {i \in Slots : db[i].edgeLabel = NoLabel}
Holding(e) == {i \in Slots : db[i] = e}

TypeOK ==
  /\ open \in BOOLEAN
  /\ length \in Nat
  /\ length > 0 => open
  /\ open => length > 0
  /\ db \in [Slots -> Edges \cup {Empty}]
  /\ call \in [op : Ops \cup {"none"}, edge : Edges \cup {Empty}]
  /\ call # NoCall => open
  /\ answer \in Int

Init ==
  /\ open = FALSE
  /\ length = 0
  /\ db = Blank(0)
  /\ call = NoCall
  /\ answer = NoLabel

\* malloc of n slots, all initialised to -1.
AllocateSlots(n) ==
  /\ ~open
  /\ open' = TRUE
  /\ length' = n
  /\ db' = Blank(n)
  /\ UNCHANGED <<call, answer>>

\* The client enters an operation of the store.
Call(op, e) ==
  /\ open
  /\ call = NoCall
  /\ call' = [op |-> op, edge |-> e]
  /\ UNCHANGED <<open, length, db, answer>>

Returns(op, e) ==
  /\ call = [op |-> op, edge |-> e]
  /\ call' = NoCall
  /\ UNCHANGED <<open, length>>

DeleteDatabase ==
  /\ open
  /\ call = NoCall
  /\ open' = FALSE
  /\ length' = 0
  /\ db' = Blank(0)
  /\ UNCHANGED <<call, answer>>

\* The slot array read as a bag.
Copies == [e \in Edges |-> Cardinality(Holding(e))]
Live   == Cardinality(Slots \ Free)

=============================================================================
