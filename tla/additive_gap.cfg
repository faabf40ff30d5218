CONSTANTS
  a = a
  b = b
  s = s
  t = t
  Symbol = {a, b}
  Type = {s}
  Versions <- SparseVersions
  Catalogs <- SmallCatalogs
  MaxReleases = 3
SYMMETRY Symmetric
SPECIFICATION Spec
INVARIANTS GapsAreRefused
CHECK_DEADLOCK FALSE
