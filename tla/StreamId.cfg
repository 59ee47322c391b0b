SPECIFICATION Spec
CONSTANTS
  Caller = {"create", "get_id"}
  Word = {"io", "rpc", "ms-1"}
  Bit <- Low16
  Hash <- Hash16
  MaxTags = 2
INVARIANTS
  TypeOK
  IdIsParity
  OrderIndependent
CHECK_DEADLOCK FALSE
