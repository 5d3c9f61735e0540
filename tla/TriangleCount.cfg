SPECIFICATION Spec
CONSTANTS
  Databases <- MCDatabases
  Queries <- MCQueries
INVARIANT CountsTriangles
