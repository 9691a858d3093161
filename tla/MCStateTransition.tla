------------------------- MODULE MCStateTransition -------------------------
(* Model-checking instance of StateTransition: two accounts, two payloads. *)
(* Payloads are short, so BytesToHash(rlp(d)) keeps all of rlp(d) and      *)
(* distinct payloads have distinct record hashes.                          *)
EXTENDS StateTransition

CONSTANTS d1, d2

MCAddr == {1, 2}
MCData == {d1, d2}
MCRecordHash == [d \in MCData |-> d]

(* The bound MaxTx on the number of applied transactions.                  *)
TxBound == txCount < MaxTx
=============================================================================
