CONSTANTS
    h1 = h1
    a0 = a0
    a1 = a1
    Hashes <- MCHashes
    Addr <- MCAddr
    ZeroAddr = a0
    Absent = Absent
SPECIFICATION Spec
PROPERTIES
    CopyIndependent
