SPECIFICATION Spec
CONSTANTS
  Databases <- OddDatabases
  Queries <- OneQuery
  Garbage = {7}
INVARIANT CountsDisjointTriangles
