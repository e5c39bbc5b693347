\* Whatever fails short of a crash, shared keys, a small disk.
SPECIFICATION Spec
CONSTANTS
  r1 = r1
  r2 = r2
  pkg = pkg
  db = db
  m1 = m1
  m2 = m2
  Requests = {r1, r2}
  Paths = {pkg, db}
  Keys <- MCKeys
  KeyOf <- MCSharedKeyOf
  Mirrors = {m1}
  MaxRetries = 2
  Blocks = 1
  Inodes = {1, 2}
  NoFile = 0
  NoMirror = NoMirror
  SameDevice = TRUE
  DeclaredLength = TRUE
  Conditions = {"refuse", "drain", "storage", "cutoff", "cleanup"}
INVARIANT
  SingleFlight
PROPERTIES
  RequestsAnswered KeyReleased
