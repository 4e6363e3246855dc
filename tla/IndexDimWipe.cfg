SPECIFICATION Spec
CONSTANTS
  e1 = e1
  f1 = f1
  f2 = f2
  c1 = c1  c2 = c2  c3 = c3
  bodyA = bodyA  bodyB = bodyB
  small = small  large = large  other = other
  None = None
  Engine = {e1}
  SkipEngine = {}
  File = {f1, f2}
  Content = {c1, c2}
  Body = {bodyA, bodyB}
  BodyOf <- MCBodyOf
  Model = {large}
  DimOf <- MCDimOf
  DefaultDim = 1
  VecExt = FALSE
  Budget = 1
  Requests = {"reconcile", "full"}
  MaxGen = 3
  MaxEdits = 2
  Crashes = FALSE
  IOErrors = FALSE
CHECK_DEADLOCK FALSE
SYMMETRY MCFileSymmetry
INVARIANT Covered
