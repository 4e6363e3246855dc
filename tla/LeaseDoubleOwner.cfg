SPECIFICATION Spec
CONSTANTS
  Proc = {p1, p2}
  NoLease = NoLease
  TTL = 3
  MaxNonce = 1
  Serial = FALSE
  Timely = TRUE
  IOErrors = FALSE
INVARIANT MutualExclusion
CHECK_DEADLOCK FALSE
