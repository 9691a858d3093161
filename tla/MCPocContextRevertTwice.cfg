CONSTANTS
    TrieOrder <- MCPocTries
    Versions = {0, 1}
    MaxSnapshots = 2
    Nil = Nil
SPECIFICATION Spec
PROPERTIES
    RevertRestoresSnapshot
VIEW MCView
