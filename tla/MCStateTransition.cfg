CONSTANTS
    d1 = d1
    d2 = d2
    Addr <- MCAddr
    Data <- MCData
    RecordHash <- MCRecordHash
    ZeroAddr = 0
    Values = {1}
    InitBalance = 1
    MaxTx = 6
SPECIFICATION Spec
INVARIANTS
    TypeOK
    BalanceConserved
    RecordIndexConsistent
CONSTRAINT TxBound
