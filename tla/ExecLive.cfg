SPECIFICATION FairSpec
CONSTANTS
  Proc = {p1, p2}
  NoProc = NoProc
  Plans <- Allowed
  Actions = {"shell_command"}
  TornKinds = {"partial"}
  MaxCalls = 3
  MaxRecords = 0
  MaxCrashes = 1
  MaxShortWrites = 0
INVARIANT LostMeansDead
CHECK_DEADLOCK FALSE
