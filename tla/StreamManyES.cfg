SPECIFICATION FairSpec
CONSTANTS
  ULT = {u1, u2, u3}
  ES = {e1, e2}
  Home <- SharedHome
  StreamTypes = {"gauge"}
  Value = {}
  Diff = {2}
  Count = {2}
  STREAM_BUFFER_SIZE = 3
  MaxUpdates = 1
  MaxTime = 1
  NoULT = NoULT
INVARIANTS
  NoLostUpdate
  DeltaOnLatest
  TimesSorted
  WindowIsRun
PROPERTIES
  PublishedImmutable
  CallsReturn
CHECK_DEADLOCK FALSE
