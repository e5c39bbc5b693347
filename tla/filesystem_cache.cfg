\* Overlapping calls of the cache, from any files on disk.
SPECIFICATION Spec
CONSTANTS
  Callers = {c1, c2}
  Names = {n1, n2}
  NoName = NoName
  Versions = {1, 2}
  Keeps = {0, 1}
  MaxCalls = 4
SYMMETRY Symmetry
INVARIANT
  StatsSettle
PROPERTY NothingLost
CHECK_DEADLOCK FALSE
