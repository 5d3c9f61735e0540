SPECIFICATION FairSpec
CONSTANTS
  w1 = w1
  w2 = w2
  Workers = {w1, w2}
  nEdges <- FullSquare
  standardCapacity = 5
PROPERTY AccumulateAdds
