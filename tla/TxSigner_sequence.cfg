SPECIFICATION Spec
CONSTANTS
    None = None
    vote = vote
    send = send
    MsgTypes <- Types
    acl <- VoteOnly
    Offers <- AllOffers
    MaxBlock = 3
    MaxFallbacks = 0
    MaxAccount = 2
    block_interval = 1
    MaxPolls = 2
INVARIANTS
    TxInv
    SequenceNeverAhead
    AcceptedIsCounted
    ExecutedOnce
    RetriesBounded
PROPERTY
    SequenceFileMonotone
