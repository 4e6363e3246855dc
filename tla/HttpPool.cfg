SPECIFICATION ServerSpec
CHECK_DEADLOCK FALSE
CONSTANTS
  c1 = c1  c2 = c2  c3 = c3
  w1 = w1  w2 = w2
  t1 = t1  t2 = t2  t3 = t3
  None = None
  Conn = {c1, c2, c3}
  Worker = {w1, w2}
  Request <- MCRequest
  QueueCap = 1
  SlotCap = 1
  MaxStages = 1
  Stuck = {c1}
  Panics = TRUE
  Crashes = TRUE
  Thread = {t1, t2, t3}
  FactoryPanics = TRUE
INVARIANT TypeOK
INVARIANT SlotTypeOK
INVARIANT OneModel
INVARIANT NothingLeaks
INVARIANT AnsweredUnlessKilled
PROPERTY SameOutcome
PROPERTY DemandReturns
PROPERTY NoStageForTheGone
PROPERTY SlowNeverBlocks
