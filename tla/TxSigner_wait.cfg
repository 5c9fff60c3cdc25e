SPECIFICATION LiveSpec
CONSTANTS
    None = None
    vote = vote
    send = send
    MsgTypes <- Types
    acl <- VoteOnly
    Offers <- NoOffers
    MaxBlock = 9
    MaxFallbacks = 2
    MaxAccount = 0
    block_interval = 3
    MaxPolls = 4
PROPERTIES
    PolledOncePerInterval
    WaitEnds
