---------------------------- MODULE GraphSource ----------------------------
(***************************************************************************)
(* What the graph generator promises whoever asks it for a graph: the edge *)
(* lists of all squares of the adjacency matrix, each of them once and in  *)
(* any order, and no return before the last one.                           *)
(***************************************************************************)
EXTENDS Naturals, Sequences, Functions

CONSTANT Squares   \* the squares of the partition

VARIABLES
  written,    \* the squares whose edges are in the result, in order
  returned    \* the generator has returned

vars == <<written, returned>>

Init ==
  /\ written = << >>
  /\ returned = FALSE

Write(s) ==
  /\ ~returned
  /\ s \notin Range(written)
  /\ written' = Append(written, s)
  /\ UNCHANGED returned

Return ==
  /\ ~returned
  /\ Range(written) = Squares
  /\ returned' = TRUE
  /\ UNCHANGED written

Next == (\E s \in Squares : Write(s)) \/ Return

Spec == Init /\ [][Next]_vars

=============================================================================
