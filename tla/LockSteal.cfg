SPECIFICATION Spec
CONSTANTS
  Proc = {p1, p2, p3}
  NoProc = NoProc
  Backends = {"shim"}
  MaxCrashes = 1
  MaxExits = 0
INVARIANT MutualExclusion
