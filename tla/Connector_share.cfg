\* The KMS and two commands share a device, for every configuration.
SPECIFICATION Spec
CONSTANTS
    c1 = c1
    c2 = c2
    Kms = Kms
    Commands <- TwoCommands
    Settings <- AllSettings
    None = None
INVARIANT
    KmsKeepsUsb
PROPERTY
    AddressLeftToKms
