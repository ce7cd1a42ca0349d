SPECIFICATION FileSpec

CONSTANTS
    Addrs = {a1, a2, a3}
    Values = {0, 1}
    Unknown = Unknown

INVARIANTS
    ConfigInv

PROPERTIES
    DevicesKept
