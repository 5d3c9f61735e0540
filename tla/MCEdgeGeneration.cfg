SPECIFICATION FairSpecEdges
CONSTANTS
  Calls <- MCCalls
  Whole = 1000
  Share <- MCShare
  Noise = 5
  SmallGraph = 5
  hardware_concurrency = 3
  totalSystemRAM = 640
INVARIANT TypeOKEdges
INVARIANT LosesOnlyColumns
INVARIANT DuplicatesOnBorders
INVARIANT UndirectedIsTriangle
INVARIANT SortedUpToBorders
PROPERTY FillsUnlessOverfull
