SPECIFICATION Spec
CONSTANTS
  Remote = {c1, c2}
  Id = {i1, i2}
  Rpc = {r1, r2}
  Requested <- CountsToStudy
  STREAM_BUFFER_SIZE = 2
  MaxRefs = 2
  Faults = {"bulk", "create", "forward", "output"}
  Decoded <- NeverSet
  Null = Null
SYMMETRY Interchangeable
INVARIANTS
  TypeOK
  HandleWhileHeld
  WarnedBeforeStaleUse
  CallsGiveBack
CHECK_DEADLOCK FALSE
