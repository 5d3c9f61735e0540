SPECIFICATION FairSpec
CONSTANTS
  w1 = w1
  w2 = w2
  Workers = {w1, w2}
  nEdges <- MCnEdges
  standardCapacity = 6
INVARIANT TypeOK
INVARIANT GateBoundsMemory
INVARIANT EmptySquareAborts
PROPERTY ImplementsSource
PROPERTY EndsUnlessStranded
