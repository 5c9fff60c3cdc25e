SPECIFICATION FairSpec
CONSTANTS
    s1 = s1
    s2 = s2
    x = x
    y = y
    None = None
    Err = Err
    Callers = {s1, s2}
    Chunks = {x, y}
    Messages <- AllSizes
    PacketModulus = 4
INVARIANTS
    SignatureCoversMessage
    LedgerInv
PROPERTIES
    ImplementsDevice
    DeviceFreed
