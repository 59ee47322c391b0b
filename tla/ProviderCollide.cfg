SPECIFICATION Spec
CONSTANTS
  k1 = k1
  k2 = k2
  k3 = k3
  i1 = i1
  i2 = i2
  Handle = {h1, h2, h3}
  Addr = {a1, a2, a3}
  Key = {k1, k2, k3}
  Id = {i1, i2}
  IdOf <- SomeSameIds
  Request = {r1}
  Count = {1, 2}
  MaxSamples = 1
  Uses = {"destroy", "destroy_all", "provider_destroy", "no_callback", "margo_finalize", "same_id", "unknown_id", "mercury_fails"}
  Free = Free
  Null = Null
SYMMETRY InterchangeableKeys
INVARIANTS
  TypeOK
  RegistryConsistent
  FinalizedOnce
PROPERTIES
  ListWithinMax
  LeavesWithItsId
  RegistrySpec
CHECK_DEADLOCK FALSE
