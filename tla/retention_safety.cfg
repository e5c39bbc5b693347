\* Ticks, failing removals and a second Stop; once the loop has ticked, every call may wait for ever.
SPECIFICATION Spec
CONSTANTS
  c1 = c1
  c2 = c2
  l1 = l1
  l2 = l2
  Callers = {c1, c2}
  Loops = {l1, l2}
  NoOne = NoOne
  Packages = {"app"}
  Nested = {}
  NoPackage = NoPackage
  Versions = {1, 2, 3}
  Counts = {1, 2}
  MaxAdds = 1
  MaxStops = 2
  Ticks = TRUE
  Faults = TRUE
CHECK_DEADLOCK FALSE
INVARIANTS
  OneLoop AtMostKept
PROPERTIES
  NewestKept CallsReturn LoopEnds
