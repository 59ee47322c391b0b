SPECIFICATION Spec
CONSTANTS
  ULT = {u1, u2}
  ES = {e1}
  Home <- OneHome
  StreamTypes = {"counter", "timer", "gauge"}
  Value <- SignedValue
  Diff <- SignedDiff
  Count = {1, 2}
  STREAM_BUFFER_SIZE = 3
  MaxUpdates = 2
  MaxTime = 1
  NoULT = NoULT
INVARIANTS
  TypeOK
  CounterMonotone
  FetchWithinRequest
  OverrunOnlyWhenFull
PROPERTIES
  LogSpec
CHECK_DEADLOCK FALSE
