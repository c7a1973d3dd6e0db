SPECIFICATION MCSpec
CONSTANTS
  Sides = {"server", "files"}
  Messages <- SomeMessages
  MaxLines = 2
  Configs <- SomeConfigs
  Policy <- Evaluate
  HeadTailBytes = 1
  MaxOutput = 3
  ExitCodes = {0, 1, 100}
  Call = {c1, c2}
  Modes = {"overwrite", "append", "create_only", "read"}
  Checks = {"good", "hash"}
  Parts = 2
  MaxReplacements = 1
INVARIANTS
  TypeOK
  ResultTellsChild
  CaptureKeepsEnds
  AnsweredInOrder
  AnswerTellsOutcome
  GateRunsAllowed
  ExitLeavesNothing
  FileResultTruthful
  CreateOnlyOnce
  LinksOnlyIfReplaced
PROPERTIES
  DrainsAndExits
CHECK_DEADLOCK FALSE
