CONSTANTS
    Photos = {1}
    Hosted = {h1}
    Desktop = {d1}
    Editors = {e1, e2}
    Tokens = {1, 2, 3}
    LeaseTicks = 1
    BackoffTicks = 1
    MaxAttempts = 1
    Concurrency = 1
    ClaimLimit = 2
    MaxRev = 2
    SizeOf <- MCSizeOf
    None = None
SPECIFICATION Spec
SYMMETRY MCSymmetry
INVARIANTS
    TypeOK
    AnalysisFresh
    NoOrphanJob
PROPERTIES
    LiveLeaseKept
    ResultKept
