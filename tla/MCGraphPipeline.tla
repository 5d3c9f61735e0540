-------------------------- MODULE MCGraphPipeline --------------------------
(* Two workers and four squares, one of them without edges.  Only some of  *)
(* the others fit through the gate together, so workers wait for capacity  *)
(* and overtake each other.                                                *)
EXTENDS GraphPipeline

CONSTANTS w1, w2

MCnEdges   == <<3, 2, 4, 0>>
FullSquare == <<5>>
=============================================================================
