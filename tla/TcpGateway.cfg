SPECIFICATION GatewaySpec

CONSTANTS
    Clients = {c1, c2}
    MaxInbox = 2
    MaxUnsent = 1

INVARIANTS
    GatewayInv

PROPERTIES
    HandlersEnd
    StopReturns

CHECK_DEADLOCK FALSE
