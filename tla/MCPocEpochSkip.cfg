CONSTANTS
    Addr <- MCAddr
    GenesisValidators <- MCGenesisValidators
    MaxValidatorSize = 2
    SafeSize = 1
    EpochInterval = 8
    BlockInterval = 1
    MaxTime = 24
    MaxContribution = 0
SPECIFICATION Spec
PROPERTIES
    KickoutOnlyPrevValidators
VIEW MCView
