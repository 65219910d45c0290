SPECIFICATION Spec
CONSTANTS
    ann = ann  bob = bob  cat = cat
    r1 = r1  r2 = r2
    Members <- Team
    InitialRole <- TeamRoles
    Requests = {r1, r2}
    Asks = {"owner", "admin", "gone"}
    NoHolder = NoHolder
    OWNER_LOCK_MS = 2
    OWNER_LOCK_MARGIN_MS = 1
    WRITE_MS = 1
    MAX_ATTEMPTS = 2
    MaxTime = 2
    MaxRevision = 1
SYMMETRY Symmetry
VIEW View
INVARIANTS AlwaysAnOwner
PROPERTIES OwnerLostUnderLease OnlyOwnersTouchOwners ImplementsPromise
CHECK_DEADLOCK FALSE
