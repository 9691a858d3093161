----------------------------- MODULE MCPocEpoch -----------------------------
(* Model-checking instance of PocEpoch: three addresses, two validators    *)
(* per epoch and a safe pool of one.                                        *)
EXTENDS PocEpoch

MCAddr == {1, 2, 3}
MCGenesisValidators == {1, 2}

(* Mint counts of epochs before the parent's epoch are never read again by *)
(* tryElect or by a property, so states that differ only there are merged. *)
MCView ==
    <<candidates, validators, electedCtb, contribution, parentTime, firstBlockTime,
      [e \in Epochs |-> IF e < EpochOf(parentTime) THEN [a \in Addr |-> 0] ELSE mintCnt[e]]>>
=============================================================================
