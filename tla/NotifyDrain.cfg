SPECIFICATION FairSpec
CONSTANTS
  ConfigPackets = 2
  MeshPackets = 3
INVARIANTS
    TypeOK
    NeverSleepsOnNews

PROPERTIES
    NewsIsRead
    NothingStaysUnread
    LossNoticed

CHECK_DEADLOCK FALSE
