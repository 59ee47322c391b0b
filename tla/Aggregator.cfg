SPECIFICATION AggregatorFairSpec
CONSTANTS
  k1 = k1
  k2 = k2
  i1 = i1
  i2 = i2
  Handle = {h1, h2}
  Addr = {a1, a2}
  Key = {k1, k2}
  Id = {i1, i2}
  IdOf <- DistinctIds
  Request = {r1}
  Count = {1}
  MaxSamples = 2
  Uses = {"destroy", "provider_destroy", "margo_finalize", "unknown_id", "mercury_fails"}
  Free = Free
  Null = Null
  Remote = {c1}
  Requested = {1}
  STREAM_BUFFER_SIZE = 2
  MaxRefs = 1
  Faults = {"forward", "bulk"}
  Decoded <- NeverSet
INVARIANTS
  HandlesLive
  HandlesRegistered
  TransferTargetLive
PROPERTIES
  FetchAnswersItsId
  AnswersOfTheCall
  Answered
  CallsAnswered
CHECK_DEADLOCK FALSE
