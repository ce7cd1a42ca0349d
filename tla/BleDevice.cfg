SPECIFICATION FairSpec
CONSTANTS
  MaxConnect = 2
  MaxDiscover = 2
  MaxSync = 2
  MaxReconnect = 2
INVARIANTS
    TypeOK
    StateAgreesWithTask
    RetriesBounded
    NothingLeftBehind
    ReadyIsServed
    ClientsAccounted

PROPERTIES
    BusyEnds
    StopReturns
    ImplementsLifecycle
