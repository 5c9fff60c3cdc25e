SPECIFICATION Spec
CONSTANTS
    None = None
    vote = vote
    send = send
    MsgTypes <- Types
    acl <- VoteOnly
    Offers <- Votes
    MaxBlock = 4
    MaxFallbacks = 0
    MaxAccount = 3
    block_interval = 1
    MaxPolls = 2
PROPERTY
    RetriesUntilSuccess
