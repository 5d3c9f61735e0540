------------------------------ MODULE HashStore ------------------------------
(***************************************************************************)
(* The edge store behind Hashjoin*: an open-addressing table of            *)
(* hashattribute times as many slots as the client declared.  Insert       *)
(* probes length - 1 slots after the home slot and never the home slot     *)
(* itself; delete and find probe every slot, so the holes deletions leave  *)
(* do not hide the edges that were inserted behind them.                   *)
(***************************************************************************)
EXTENDS EdgeDb

CONSTANT MaxInt   \* largest int: 2^31 - 1 in the builds the project targets

ASSUME MaxIntAssumption == MaxInt \in Nat \ {0}

VARIABLE undefined   \* an operation has indexed outside of the table

hashVars == <<open, length, db, call, answer, undefined>>

hashattribute == 2

\* int arithmetic wraps in two's complement, % truncates towards zero.
Wrap(x)   == ((x + MaxInt + 1) % (2 * (MaxInt + 1))) - (MaxInt + 1)
CRem(x, n) == IF x >= 0 THEN x % n ELSE -((-x) % n)

Mix(e)    == e.fromNode * 5 + e.toNode * 7 + e.edgeLabel * 11
myHash(e) == CRem(Wrap(Mix(e)), length)

\* Mistaken probe: the table size is taken off the hash only.
ProbeWithoutModulo(e, quad) == myHash(e) + quad

\* Slot looked at by probe number quad for edge e.
Probe(e, quad) == CRem(myHash(e) + quad, length)

\* Probe numbers up to last whose slot is in S.
Hits(e, last, S) == {quad \in 1 .. last : Probe(e, quad) \in S}

\* The first probe, always made, is the one that a negative hash takes below 0.
InTable(e) == Probe(e, 1) \in Slots

TypeOKHash == TypeOK /\ undefined \in BOOLEAN

InitHash == Init /\ undefined = FALSE

HashjoinAllocateDatabase(n) ==
  /\ ~undefined
  /\ AllocateSlots(n * hashattribute)
  /\ UNCHANGED undefined

HashCall(op, e) == ~undefined /\ Call(op, e) /\ UNCHANGED undefined

HashReturns(op, e) == ~undefined /\ Returns(op, e) /\ InTable(e) /\ UNCHANGED undefined

HashjoinInsertEdge(e) ==
  /\ HashReturns("insert", e)
  /\ LET hits == Hits(e, length - 1, Free)
     IN  db' = IF hits = {} THEN db ELSE [db EXCEPT ![Probe(e, Min(hits))] = e]
  /\ UNCHANGED answer

\* Mistaken deletion: only the label is cleared.
HashDeleteKeepsNodes(e) ==
  /\ HashReturns("delete", e)
  /\ LET hits == Hits(e, length + 1, Holding(e))
     IN  db' = IF hits = {} THEN db
               ELSE [db EXCEPT ![Probe(e, Min(hits))].edgeLabel = NoLabel]
  /\ UNCHANGED answer

\* The scan gives up after probe number length + 1.
HashjoinDeleteEdge(e) ==
  /\ HashReturns("delete", e)
  /\ LET hits == Hits(e, length + 1, Holding(e))
     IN  db' = IF hits = {} THEN db ELSE [db EXCEPT ![Probe(e, Min(hits))] = Empty]
  /\ UNCHANGED answer

\* Mistaken lookup: a free slot ends the scan, as if deletions left tombstones.
FindStopsAtHole(e) ==
  /\ HashReturns("find", e)
  /\ LET hits  == Hits(e, length + 1, Holding(e))
         holes == Hits(e, length + 1, Free)
     IN  answer' = IF hits # {} /\ (holes = {} \/ Min(hits) < Min(holes))
                   THEN e.edgeLabel ELSE NoLabel
  /\ UNCHANGED db

HashjoinFindEdge(e) ==
  /\ HashReturns("find", e)
  /\ answer' = IF Hits(e, length + 1, Holding(e)) = {} THEN NoLabel ELSE e.edgeLabel
  /\ UNCHANGED db

HashjoinDeleteDatabase == ~undefined /\ DeleteDatabase /\ UNCHANGED undefined

\* Undefined behaviour: the operation touches memory below the table.
OutOfTable(e) ==
  /\ ~undefined
  /\ call.op # "none" /\ call.edge = e
  /\ ~InTable(e)
  /\ undefined' = TRUE
  /\ UNCHANGED vars

NextHash ==
  \/ \E n \in Sizes : HashjoinAllocateDatabase(n)
  \/ \E op \in Ops, e \in Edges : HashCall(op, e)
  \/ \E e \in Edges :
       \/ HashjoinInsertEdge(e)
       \/ HashjoinDeleteEdge(e)
       \/ HashjoinFindEdge(e)
       \/ OutOfTable(e)
  \/ HashjoinDeleteDatabase

SpecHash == InitHash /\ [][NextHash]_hashVars

Declared == length \div hashattribute

HashBag == INSTANCE EdgeBag WITH declared <- Declared, bag <- Copies, size <- Live

(***************************************************************************)
(* The table behaves as a bag of edges.  In particular: within the         *)
(* declared size no insertion is lost although InsertEdge never looks at   *)
(* the home slot, and an edge stays visible to FindEdge and DeleteEdge     *)
(* after any deletion in its probe sequence, though deletions leave no     *)
(* tombstone.                                                              *)
(***************************************************************************)
HashImplementsBag == HashBag!Spec

(***************************************************************************)
(* No operation indexes outside of the table, however full the table and   *)
(* however far the probe runs, unless myHash overflowed an int or mixed    *)
(* negative node numbers.                                                  *)
(***************************************************************************)
OnlyOverflowLeavesTable == undefined => Mix(call.edge) \notin 0 .. MaxInt

=============================================================================
