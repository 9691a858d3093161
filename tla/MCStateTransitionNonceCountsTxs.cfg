CONSTANTS
    d1 = d1
    d2 = d2
    Addr <- MCAddr
    Data <- MCData
    RecordHash <- MCRecordHash
    ZeroAddr = 0
    Values = {1}
    InitBalance = 1
    MaxTx = 4
SPECIFICATION Spec
PROPERTIES
    NonceCountsTxs
CONSTRAINT TxBound
