--------------------------- MODULE MCStateDBRecord ---------------------------
EXTENDS StateDBRecord

CONSTANTS h1, h2, a0, a1, t1

MCHashes == {h1}
MCAddr == {a0, a1}
MCTxIds == {t1}
=============================================================================
