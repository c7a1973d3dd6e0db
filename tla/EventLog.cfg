SPECIFICATION FairSpec
CONSTANTS
  Proc = {p1, p2}
  NoProc = NoProc
  Op = {o1}
  NoOp = NoOp
  Body = {b1}
  MaxCalls = 3
  MaxCrashes = 2
  MaxShortWrites = 1
INVARIANTS
  TypeOK
  ChainStaysLinked
  OperationsOnce
  SnapshotVerifies
  SnapshotPrefix
  AckedRecorded
PROPERTIES
  ImplementsLedger
  LockComesFree
CHECK_DEADLOCK FALSE
