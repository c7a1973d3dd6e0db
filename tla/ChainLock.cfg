SPECIFICATION FairSpec
CONSTANTS
  Proc = {p1, p2, p3}
  NoProc = NoProc
  Backends = {"flock", "shim"}
  MaxCrashes = 1
  MaxExits = 1
INVARIANTS
  TypeOK
  ExclusiveUntilMisremoved
  MisremovalNeedsDeath
  VerdictSound
  LockfileAccounted
PROPERTIES
  WaiterClearsOrphan
