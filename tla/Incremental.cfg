SPECIFICATION Spec
CONSTANTS
  f = f  g = g  p = p  q = q  db = db  host = host  users = users
  a = a  b = b  c = c  j = j  k = k  art = art  tbl = tbl
  File <- Files
  Lang <- Languages
  Content <- Contents
  Parsed <- Texts
  Trees <- AllTrees
  Absent = Absent
  Idle = Idle
  MaxPending = 1
  FanoutCap = 1
  Snake <- Plain
INVARIANTS EqualsRebuild TablesAgree
CHECK_DEADLOCK FALSE
