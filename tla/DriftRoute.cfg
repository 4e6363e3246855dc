SPECIFICATION Spec
CONSTANTS
  f = f  g = g  h = h  x = x  y = y  db = db  host = host  Users = Users  users = users
  a = a  b = b  page = page  art = art  tbl = tbl
  File <- Files
  Lang <- Languages
  Content <- Contents
  Parsed <- Texts
  Trees <- RouteTrees
  Absent = Absent
  Idle = Idle
  MaxPending = 1
  FanoutCap = 1
  Snake <- Spellings
INVARIANTS EqualsRebuild
CHECK_DEADLOCK FALSE
