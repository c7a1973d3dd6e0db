SPECIFICATION FairSpec
CONSTANTS
  Proc = {p1, p2}
  NoProc = NoProc
  Backends = {"shim"}
  MaxCrashes = 1
  MaxExits = 0
PROPERTY UnlockClearsOrphans
