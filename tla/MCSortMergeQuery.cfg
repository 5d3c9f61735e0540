SPECIFICATION FairSpec
CONSTANTS
  Databases <- MCDatabases
  Queries <- MCQueries
INVARIANT TypeOK
INVARIANT CountsDisjointTriangles
INVARIANT OverrunsLastJoinOnly
PROPERTY QueryEnds
