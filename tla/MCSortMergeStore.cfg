SPECIFICATION Spec
CONSTANTS
  Edges <- MCEdges
  Sizes <- MCSizes
INVARIANT TypeOK
PROPERTY ImplementsBag
