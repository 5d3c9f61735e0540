\* An access outside of the table ends the program: the model stops there.
SPECIFICATION SpecHash
CONSTANTS
  Edges <- MCEdges
  Sizes <- MCSizes
  MaxInt = 127
INVARIANT TypeOKHash
INVARIANT OnlyOverflowLeavesTable
PROPERTY HashImplementsBag
CHECK_DEADLOCK FALSE
