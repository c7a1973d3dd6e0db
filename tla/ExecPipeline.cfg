SPECIFICATION FairSpec
CONSTANTS
  Proc = {p1, p2}
  NoProc = NoProc
  Plans <- Allowed
  Actions = {"shell_command"}
  TornKinds = {"partial", "whole"}
  MaxCalls = 3
  MaxRecords = 0
  MaxCrashes = 1
  MaxShortWrites = 1
INVARIANTS
  TypeOK
  IntentBeforeEffect
  CompletionBacked
  
  SerialCallsPairUp
PROPERTIES
  ImplementsLedger
  ResultsAreSealed
CHECK_DEADLOCK FALSE
