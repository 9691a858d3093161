CONSTANTS
    Addr <- MCAddr
    GenesisValidators <- MCGenesisValidators
    MaxValidatorSize = 2
    SafeSize = 1
    EpochInterval = 8
    BlockInterval = 1
    MaxTime = 16
    MaxContribution = 1
SPECIFICATION Spec
INVARIANTS
    TypeOK
    ElectedAreTopContributors
    ElectionSucceedsWithSafePool
PROPERTIES
    KickoutSparesProductive
VIEW MCView
