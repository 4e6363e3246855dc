SPECIFICATION Spec
CONSTANTS
  Proc = {p1, p2, p3}
  NoLease = NoLease
  TTL = 3
  MaxNonce = 2
  Serial = TRUE
  Timely = TRUE
  IOErrors = FALSE
SYMMETRY Symmetry
INVARIANT MutualExclusion
INVARIANT RecordHasOwner
PROPERTY SparesNewer
CHECK_DEADLOCK FALSE
