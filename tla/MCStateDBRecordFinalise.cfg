CONSTANTS
    h1 = h1
    h2 = h2
    a0 = a0
    a1 = a1
    t1 = t1
    Hashes <- MCHashes
    Addr <- MCAddr
    TxIds <- MCTxIds
    ZeroAddr = a0
    Statuses = {0}
    MaxJournal = 3
    MaxRevision = 2
    Absent = Absent
SPECIFICATION Spec
PROPERTIES
    FinaliseWritesAll
