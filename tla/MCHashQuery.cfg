SPECIFICATION Spec
CONSTANTS
  Databases <- MCDatabases
  Queries <- MCQueries
  Garbage = {7}
INVARIANT TypeOK
INVARIANT StaysInArrays
INVARIANT CountsDisjointTriangles
INVARIANT ZeroMeansNoneWithRoom
PROPERTY FreeSlotsJoinNothing
