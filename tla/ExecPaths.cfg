SPECIFICATION Spec
CONSTANTS
  Proc = {p1}
  NoProc = NoProc
  Plans <- AllPlans
  Actions = {"shell_command", "file_write"}
  TornKinds = {"partial", "whole"}
  MaxCalls = 2
  MaxRecords = 1
  MaxCrashes = 1
  MaxShortWrites = 1
INVARIANTS
  EffectsAuthorised
  DenialIsFinal
  OutcomeTellsEnforcement
CHECK_DEADLOCK FALSE
