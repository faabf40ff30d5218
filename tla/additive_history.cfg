CONSTANTS
  a = a
  b = b
  s = s
  t = t
  Symbol = {a, b}
  Type = {s, t}
  Versions <- DenseVersions
  Catalogs <- SmallCatalogs
  MaxReleases = 3
SYMMETRY Symmetric
CONSTRAINT NoLapse
SPECIFICATION Spec
INVARIANTS TypeOK NoSilentLoss RetypedOnlyAfterAbsence GrowthAccepted
CHECK_DEADLOCK FALSE
