----------------------------- MODULE MCHashStore -----------------------------
(* A hash store declared for one or two edges (tables of two and four      *)
(* slots), used beyond what was declared, with three edges that share home *)
(* slots (the mixed hashes are 7, 27 and 31 - all 3 mod 4, and odd) and,   *)
(* in place of 32-bit ints, 8-bit ones that the fourth edge overflows: its *)
(* mixed hash 129 wraps to -127, which is -1 in the table of two slots     *)
(* (still harmless) and -3 in the table of four.                           *)
EXTENDS HashStore

MCEdges == { [fromNode |-> 0, toNode |-> 1, edgeLabel |-> 0],
             [fromNode |-> 1, toNode |-> 0, edgeLabel |-> 2],
             [fromNode |-> 2, toNode |-> 3, edgeLabel |-> 0],
             [fromNode |-> 4, toNode |-> 3, edgeLabel |-> 8] }
MCSizes == {1, 2}
=============================================================================
