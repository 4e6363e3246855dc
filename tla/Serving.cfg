SPECIFICATION ServingSpec
CHECK_DEADLOCK FALSE
CONSTANTS
  p1 = p1  p2 = p2  p3 = p3  p4 = p4
  create = create  modify = modify  delete = delete
  Path = {p1, p2, p3, p4}
  Kind = {create, modify, delete}
  Cap = 2
  Worker = {"w1", "w2"}
  ToolsOf <- Asks
  SubgraphCap = 2
  Rows <- Abc
  Asked = "a"
  Contents <- SomeContents
  Changes <- AllOrNothing
  MaxCommits = 2
  MaxCalls = 2
  Node = {1, 2, 3, 4}
  Searches <- SomeSearches
  Unit = 1000000
  EpsDen = 16
  Text <- Texts
  NoText = ""
  Order <- WordOrder
  Lower <- Lowercase
  SqlLower <- AsciiLowercase
  Within <- Substrings
  LookupCap = 2
  Questions <- SomeQuestions
  Function = {1, 2, 3}
  Programs <- SomePrograms
INVARIANT KeepsTheLatest
INVARIANT AnswersAreHonest
INVARIANT DiffusionIsSound
INVARIANT LookupAgrees
INVARIANT TraceAgrees
INVARIANT EveryAnalysisIsSound
PROPERTY TakeCovers
