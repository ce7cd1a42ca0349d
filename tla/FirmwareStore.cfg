SPECIFICATION Spec

CONSTANTS
    Names = {n1}
    Downloads = {d1, d2}
    Uploads = {u1}
    Last = 2
    None = None

INVARIANTS
    StoreInv
    FlashedIsReady

PROPERTIES
    DownloadsTell

CHECK_DEADLOCK FALSE
