SPECIFICATION Spec
CONSTANTS
  Proc = {p1, p2}
  NoProc = NoProc
  Op = {o1}
  NoOp = NoOp
  Body = {b1}
  MaxCalls = 2
  MaxCrashes = 0
  MaxShortWrites = 1
INVARIANT ReturnedIsRecorded
CHECK_DEADLOCK FALSE
