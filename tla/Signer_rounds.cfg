SPECIFICATION Spec
CONSTANTS
    A = A
    B = B
    s1 = s1
    s2 = s2
    None = None
    BadSize = BadSize
    HookErr = HookErr
    BlockIds = {A, B}
    RoundModulus = 2
    BLOCK_HEIGHT_SANITY_LIMIT = 2
    Sessions = {s1, s2}
    Requests <- TwoRoundRequests
    Reconnect = {s1, s2}
    Protobuf = {s1, s2}
    MaxHeight <- Unlimited2
    HookOutputs = {None, HookErr}
    FailClosed = FALSE
INVARIANTS
    NoDoubleSign
    SignedIsDurable
    ClaimsCovered
    MutexCoversSync
PROPERTIES
    LockAlwaysReleased
    GuardSpec
