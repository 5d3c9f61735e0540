SPECIFICATION FairSpec
CONSTANTS
  Calls <- MCCalls
  Whole = 1000
  Share <- MCShare
  Noise = 5
  MaxEdges = 10
INVARIANT TypeOK
INVARIANT EdgesConserved
INVARIANT TilesMatrix
INVARIANT PiecesBounded
INVARIANT NoneOverfull
INVARIANT NoSharedSlot
INVARIANT WritesColumnsInOrder
INVARIANT OnlyEmptyColumnsCrash
PROPERTY GeneratorEnds
