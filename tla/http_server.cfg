\* Two goroutines that start, stop and await the server; two connections.
SPECIFICATION Spec
CONSTANTS
  c1 = c1
  c2 = c2
  r1 = r1
  r2 = r2
  Digits <- MCDigits
  Callers = {c1, c2}
  Requests = {r1, r2}
  Paths <- MCPaths
  NoPath = NoPath
  MaxStarts = 2
CHECK_DEADLOCK FALSE
INVARIANTS
  Drained DownForGood NoPanic KeyNamesFile
PROPERTIES
  ShutdownReleases
