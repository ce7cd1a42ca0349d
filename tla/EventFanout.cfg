SPECIFICATION FairSpec
CONSTANTS
  Clients = {c1}
  Router = Router
  QueueSize = 2
  InboxSize = 2
  MaxStates = 2
  MaxPackets = 1
INVARIANTS
    FanoutInv

PROPERTIES
    RouterSettles
    GoneIsUnsubscribed

CHECK_DEADLOCK FALSE
