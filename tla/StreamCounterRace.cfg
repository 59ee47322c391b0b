SPECIFICATION Spec
CONSTANTS
  ULT = {u1, u2}
  ES = {e1, e2}
  Home <- OwnHome
  StreamTypes = {"counter"}
  Value = {1, 2}
  Diff = {1}
  Count = {1}
  STREAM_BUFFER_SIZE = 4
  MaxUpdates = 1
  MaxTime = 0
  NoULT = NoULT
INVARIANTS
  CounterMonotone
CHECK_DEADLOCK FALSE
