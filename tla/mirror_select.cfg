\* Two mirrors of different weight, two fetchers, two calls of Stop; a panicked process is stopped.
SPECIFICATION Spec
CONSTANTS
  m1 = m1
  m2 = m2
  f1 = f1
  f2 = f2
  l1 = l1
  l2 = l2
  Mirrors = {m1, m2}
  NoMirror = NoMirror
  BaseWeight <- MCBaseWeight
  Fetchers = {f1, f2}
  Loops = {l1, l2}
  Rates = {0}
  Charges <- MCCharges
  MaxStops = 2
CHECK_DEADLOCK FALSE
INVARIANTS
  TypeOK OneRecovery
PROPERTIES
  SelectsBest NoStarvation RecoveryEnds
