SPECIFICATION Spec
CONSTANTS
  ULT = {u1, u2}
  ES = {e1, e2}
  Home <- OwnHome
  StreamTypes = {"counter"}
  Value = {1}
  Diff = {1}
  Count = {1}
  STREAM_BUFFER_SIZE = 4
  MaxUpdates = 2
  MaxTime = 0
  NoULT = NoULT
INVARIANTS
  FetchWithinRequest
CHECK_DEADLOCK FALSE
