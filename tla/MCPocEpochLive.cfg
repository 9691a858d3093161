CONSTANTS
    Addr <- MCAddr
    GenesisValidators <- MCGenesisValidators
    MaxValidatorSize = 2
    SafeSize = 1
    EpochInterval = 4
    BlockInterval = 1
    MaxTime = 8
    MaxContribution = 0
SPECIFICATION LiveSpec
PROPERTIES
    ChainProgresses
VIEW MCView
