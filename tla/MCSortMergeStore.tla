-------------------------- MODULE MCSortMergeStore --------------------------
(* A sort-merge store of two or three slots with three edges, two of which *)
(* share their label and two their end points.                             *)
EXTENDS SortMergeStore

MCEdges == { [fromNode |-> 0, toNode |-> 1, edgeLabel |-> 0],
             [fromNode |-> 0, toNode |-> 1, edgeLabel |-> 2],
             [fromNode |-> 1, toNode |-> 2, edgeLabel |-> 2] }
MCSizes == {2, 3}
=============================================================================
