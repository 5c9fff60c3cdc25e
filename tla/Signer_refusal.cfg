SPECIFICATION Spec
CONSTANTS
    A = A
    B = B
    s1 = s1
    s2 = s2
    None = None
    BadSize = BadSize
    HookErr = HookErr
    BlockIds = {A, B}
    RoundModulus = 2
    BLOCK_HEIGHT_SANITY_LIMIT = 2
    Sessions = {s1}
    Requests <- FewRequests
    Reconnect = {s1}
    Protobuf = {s1}
    MaxHeight <- Unlimited1
    HookOutputs = {None}
    FailClosed = FALSE
INVARIANT
    RefusalIsReported
