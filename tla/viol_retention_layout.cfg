\* Files stored where the server stores them.
SPECIFICATION Spec
CONSTANTS
  c1 = c1
  c2 = c2
  l1 = l1
  l2 = l2
  Callers = {c1, c2}
  Loops = {l1, l2}
  NoOne = NoOne
  Packages = {"app"}
  Nested = {"app"}
  NoPackage = NoPackage
  Versions = {1, 2, 3}
  Counts = {1, 2}
  MaxAdds = 1
  MaxStops = 2
  Ticks = FALSE
  Faults = FALSE
CHECK_DEADLOCK FALSE
INVARIANT
  AtMostKept
