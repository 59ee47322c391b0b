SPECIFICATION Spec
CONSTANTS
  e1 = e1
  e2 = e2
  e3 = e3
  e4 = e4
  e5 = e5
  e6 = e6
  e7 = e7
  k1 = k1
  k2 = k2
  k3 = k3
  k4 = k4
  k5 = k5
  k6 = k6
  Elem = {e1, e2, e3, e4, e5, e6, e7}
  Key = {k1, k2, k3, k4, k5, k6}
  KeyOf <- SharedKey
  HashFunction <- HashesToStudy
  HASH_INITIAL_NUM_BUCKETS = 1
  HASH_BKT_CAPACITY_THRESH = 2
  MaxBuckets = 4
  NULL = NULL
SYMMETRY Interchangeable
INVARIANTS
  TypeOK
  Fsck
  PointersLive
  FindsExactly
  ChainsBounded
PROPERTIES
  RegistrySpec
