SPECIFICATION Spec
CONSTANTS
    c0 = c0
    c1 = c1
    c2 = c2
    c3 = c3
    k1 = k1
    k2 = k2
    None = None
    LedgerChain = c0
    Chains = {c0, c1, c2, c3}
    Keys <- AllKeys
    Configs <- AllConfigs
    Invocations <- InitCommands
INVARIANTS
    ServesConfiguredKeys
    OnlyKeySigns
    ExitReportsFailures
PROPERTIES
    EndsWhenClientsEnd
    ServesToTheLast
    GeneratedConfigServes
    LoadableServes
