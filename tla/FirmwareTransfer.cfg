SPECIFICATION Spec
CONSTANTS
    Chunks = 7
    Prns = {0, 1, 2, 3}
    MaxErasing = 2
INVARIANTS
    TransferInv
    OkMeansFlashed

PROPERTIES
    SessionReturns
    AcceptedCompletes

\* A session ends.
CHECK_DEADLOCK FALSE
