CONSTANTS
    k1 = k1
    k2 = k2
    v1 = v1
    v2 = v2
    Keys <- MCKeys
    Values <- MCValues
    Zero = Zero
    NoEntry = NoEntry
    Nil = Nil
SPECIFICATION Spec
INVARIANTS
    TypeOK
    CacheCoherent
    StorageRootOpenable
    DeepCopyShowsState
PROPERTIES
    RefinesStorageMap
