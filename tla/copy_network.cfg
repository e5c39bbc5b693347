\* Renames that may fail, failing mirrors, a disk that is sound otherwise.
SPECIFICATION Spec
CONSTANTS
  r1 = r1
  r2 = r2
  pkg = pkg
  db = db
  m1 = m1
  m2 = m2
  Requests = {r1, r2}
  Paths = {pkg, db}
  Keys <- MCKeys
  KeyOf <- MCKeyOf
  Mirrors = {m1, m2}
  MaxRetries = 2
  Blocks = 2
  Inodes = {1, 2, 3, 4, 5, 6, 7}
  NoFile = 0
  NoMirror = NoMirror
  SameDevice = TRUE
  DeclaredLength = TRUE
  Conditions = {"refuse", "rename"}
INVARIANTS
  WrittenOut NoOrphans CachedTracked InFlightExact TempPrivate
PROPERTIES
  MissFillsCache
