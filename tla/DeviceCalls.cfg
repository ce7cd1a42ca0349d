SPECIFICATION FairSpec
CONSTANTS
  Calls = {c1, c2, c3}
  None = None
INVARIANTS
    CallsInv

PROPERTIES
    StopKeepsWord
    CallsEnd

CHECK_DEADLOCK FALSE
