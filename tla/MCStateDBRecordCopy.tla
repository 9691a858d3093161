------------------------- MODULE MCStateDBRecordCopy -------------------------
EXTENDS StateDBRecordCopy

CONSTANTS h1, a0, a1

(* One record: Copy's sharing shows on the first hash both stores touch.   *)
MCHashes == {h1}
MCAddr == {a0, a1}
=============================================================================
