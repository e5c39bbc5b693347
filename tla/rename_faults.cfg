\* One filesystem, every failure except a damaged body or a failing rename.
SPECIFICATION Spec
CONSTANTS
  r1 = r1
  r2 = r2
  pkg = pkg
  db = db
  m1 = m1
  m2 = m2
  Requests = {r1, r2}
  Paths = {pkg, db}
  Keys <- MCKeys
  KeyOf <- MCKeyOf
  Mirrors = {m1}
  MaxRetries = 2
  Blocks = 2
  Inodes = {1, 2, 3, 4}
  NoFile = 0
  NoMirror = NoMirror
  SameDevice = TRUE
  DeclaredLength = TRUE
  Conditions = {"refuse", "short", "drain", "storage", "cutoff", "crash", "evict"}
INVARIANTS
  CachedComplete ServedComplete
PROPERTY
  KeepsPromise
SYMMETRY MCSymmetry
