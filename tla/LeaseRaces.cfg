SPECIFICATION FairSpec
CONSTANTS
  Proc = {p1, p2}
  NoLease = NoLease
  TTL = 1
  MaxNonce = 3
  Serial = FALSE
  Timely = FALSE
  IOErrors = TRUE
INVARIANT TypeOK
INVARIANT RetiredNonceGone
PROPERTY RefusedWhileServed
CHECK_DEADLOCK FALSE
