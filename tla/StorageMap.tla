------------------------------ MODULE StorageMap ------------------------------
(***************************************************************************)
(* What a record object's storage promises (spec.md 4.1): a map from key   *)
(* to value, read by GetState and written by SetState one key at a time,  *)
(* and the map last committed, which a store reopened at the committed     *)
(* root shows again.                                                       *)
(***************************************************************************)
CONSTANTS
    Keys,           \* storage keys
    Values          \* stored values, the zero hash included

VARIABLES
    current,        \* key -> value, as GetState returns it
    committed       \* key -> value at the last committed root

vars == <<current, committed>>

Init ==
    /\ current \in [Keys -> Values]
    /\ committed = current

(* SetState(k, v): the map changes at k alone.                             *)
Write(k) ==
    /\ current' \in [Keys -> Values]
    /\ \A j \in Keys \ {k} : current'[j] = current[j]
    /\ UNCHANGED committed

Commit ==
    /\ committed' = current
    /\ UNCHANGED current

(* The store is reopened at the committed root.                            *)
Reload ==
    /\ current' = committed
    /\ UNCHANGED committed

Next ==
    \/ \E k \in Keys : Write(k)
    \/ Commit
    \/ Reload

Spec == Init /\ [][Next]_vars

=============================================================================
