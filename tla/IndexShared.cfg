SPECIFICATION Spec
CONSTANTS
  daemon = daemon
  cli = cli
  f1 = f1
  f2 = f2
  c1 = c1  c2 = c2  c3 = c3
  bodyA = bodyA  bodyB = bodyB
  small = small  large = large  other = other
  None = None
  Engine = {daemon, cli}
  SkipEngine = {cli}
  File = {f1, f2}
  Content = {c1}
  Body = {bodyA, bodyB}
  BodyOf <- MCBodyOf
  Model = {small, large}
  DimOf <- MCDimOf
  DefaultDim = 1
  VecExt = TRUE
  Budget = 1
  Requests = {"reconcile", "full"}
  MaxGen = 2
  MaxEdits = 1
  Crashes = TRUE
  IOErrors = TRUE
CHECK_DEADLOCK FALSE
PROPERTY ReplacedSpaceIsEmptied
INVARIANT TypeOK
INVARIANT NothingOutlivesItsSymbol
PROPERTY FollowsContract
SYMMETRY MCFileSymmetry
