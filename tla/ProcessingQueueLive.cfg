CONSTANTS
    Photos = {1, 2}
    Hosted = {h1, h2}
    Desktop = {}
    Editors = {}
    Tokens = {1, 2, 3}
    LeaseTicks = 2
    BackoffTicks = 2
    MaxAttempts = 3
    Concurrency = 1
    ClaimLimit = 2
    MaxRev = 1
    SizeOf <- MCSizeOf
    None = None
SPECIFICATION FairSpec
INVARIANTS
    HostedBound
PROPERTIES
    EventuallySettled
