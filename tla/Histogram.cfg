SPECIFICATION Spec
CONSTANTS
  Value <- SignedValue
  NaN = NaN
  Buckets = {0, 2, 3}
  Huge = 9
  MaxSamples = 5
INVARIANTS
  TypeOK
  OverrunCause
  EverySampleCounted
CHECK_DEADLOCK FALSE
