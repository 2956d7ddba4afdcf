CONSTANTS
  i1 = i1  i2 = i2
  old = old  new = new  branch = branch  moved = moved
  k1 = k1  k2 = k2
  p1 = p1  p2 = p2
  Instances = {i1, i2}
  Fingerprints = {old, new, branch, moved}
  Keys = {k1, k2}
  Paths = {p1, p2}
  KeyOf <- MCKeyOf
  PathOf <- MCPathOf
  None = None
SPECIFICATION CacheSpec
SYMMETRY MCSymmetry
INVARIANTS
  CacheInv
  OwnWorkIsFresh
PROPERTIES
  LossNeedsCompany
