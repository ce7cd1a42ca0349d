SPECIFICATION Spec

CONSTANTS
    f1 = f1
    f2 = f2
    Modes = {"full", "nodes_only"}
    Requests = {r1, r2}
    Fields = {f1, f2}
    Masked = {f2}
    Values = {0, 1}
    Names = {n1, n2}
    Null = Null
    Bodies <- SomeBodies

INVARIANTS
    RequestsInv

PROPERTIES
    OthersKept
    OnlyStopDrops
    PurgeAfterReset
    RequestsEnd

CHECK_DEADLOCK FALSE
