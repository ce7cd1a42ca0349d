SPECIFICATION Spec
CONSTANTS
  Requests = {r1, r2, r3}
  Addrs = {a1, a2}
  MayOverlap = {"reload", "delete", "shutdown"}
  None = None
SYMMETRY ManagerSymmetry
INVARIANTS
    ManagerInv

PROPERTIES
    ReloadsAreExact
    ShutdownStopsAll

CHECK_DEADLOCK FALSE
