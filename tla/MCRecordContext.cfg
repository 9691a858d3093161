CONSTANTS
    MaxSnapshots = 2
    Nil = Nil
SPECIFICATION Spec
INVARIANTS
    TypeOK
PROPERTIES
    RefinesContextSnapshots
VIEW MCView
