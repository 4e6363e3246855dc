SPECIFICATION FairSpec
CONSTANTS
  Session = {s1, s2}
  m1 = m1
  Model = {m1, m2}
  ModelOf <- OneModel
  Explicit = {0}
  MaxOffset = 1
  MaxPolls = 1
  NoOne = NoOne  Stranger = Stranger  NoFile = NoFile
  NoCred = NoCred  OldCred = OldCred  NoModel = NoModel
  Crashes = TRUE
  Strangers = TRUE
  Failures = TRUE
  MaxFaults = 1
INVARIANTS OneOwner AllReachTheOwner
PROPERTIES UnracedSessionsAreAdmitted StartupEnds
CHECK_DEADLOCK FALSE
