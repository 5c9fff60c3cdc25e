\* Setup, key and backup commands on two devices.
SPECIFICATION Spec
CONSTANTS
    d1 = d1
    d2 = d2
    m1 = m1
    m2 = m2
    k0 = k0
    k1 = k1
    backup = backup
    validator_json = validator_json
    foreign = foreign
    Devices <- TwoDevices
    Mnemonics <- TwoMnemonics
    Ids <- OneId
    Keys <- TwoKeys
    Paths <- TwoPaths
    Foreign_backup = foreign
    Validator_json = validator_json
    Validator_key = k0
    Default = Default
    None = None
SYMMETRY Interchangeable
INVARIANTS
    ReportedBackupIsComplete
    ReportedSetupIsComplete
    KeysWithinReach
    NonExportableStays
PROPERTIES
    KeysLostOnlyByApproval
