\* The first tick; the loop then waits for ever.
SPECIFICATION Spec
CONSTANTS
  c1 = c1
  c2 = c2
  l1 = l1
  l2 = l2
  Callers = {c1, c2}
  Loops = {l1, l2}
  NoOne = NoOne
  Packages = {"app"}
  Nested = {}
  NoPackage = NoPackage
  Versions = {1, 2, 3}
  Counts = {1}
  MaxAdds = 0
  MaxStops = 2
  Ticks = TRUE
  Faults = FALSE
CHECK_DEADLOCK FALSE
PROPERTY
  PeriodicEnforcement
