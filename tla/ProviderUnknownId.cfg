SPECIFICATION Spec
CONSTANTS
  k1 = k1
  k2 = k2
  k3 = k3
  i1 = i1
  i2 = i2
  Handle = {h1, h2}
  Addr = {a1, a2, a3}
  Key = {k1, k2}
  Id = {i1, i2}
  IdOf <- DistinctIds
  Request = {r1}
  Count = {1}
  MaxSamples = 1
  Uses = {"unknown_id"}
  Free = Free
  Null = Null
SYMMETRY Interchangeable
INVARIANTS
  UnknownIdRefused
CHECK_DEADLOCK FALSE
