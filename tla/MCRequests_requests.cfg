CONSTANTS
    u1 = u1  r1 = r1  r2 = r2
     NoUpload = NoUpload
    Upload = {u1}
    Last = 2
    Request = {r1, r2}
    MaxSends = 2
    InOrder = FALSE
    LengthChecked = TRUE
    Clearing = TRUE
    Crashing = TRUE
    k1 = k1  k2 = k2  k3 = k3  ke = ke
    Key = {k1, k2, k3, ke}  Exempt = {ke}
    Burst = 2  Cost = 1  IdleTTL = 2  PruneInterval = 1  MaxWait = 1  Room = 3  Cap = 1
    NoKey = NoKey  NoVerdict = NoVerdict
SPECIFICATION MCSpec
CHECK_DEADLOCK FALSE
SYMMETRY Symmetry
INVARIANTS StoredInOrder StoredWhole
PROPERTIES ImplementsBuckets
