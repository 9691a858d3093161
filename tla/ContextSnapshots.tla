--------------------------- MODULE ContextSnapshots ---------------------------
(***************************************************************************)
(* What PocContext and RecordContext promise their callers (spec.md       *)
(* section 5), by value: a map from trie field to trie content, snapshots  *)
(* that keep the map as it was, a revert that restores it, and a commit    *)
(* whose proto reopens the map committed.  A snapshot is consumed by its   *)
(* first revert: what a second revert to it restores is left open, since   *)
(* the context then shares that snapshot's tries (the context_revert_twice *)
(* finding).                                                               *)
(***************************************************************************)
EXTENDS Naturals, Sequences

CONSTANTS
    Tries,          \* the context's trie fields
    Versions,       \* the contents a trie may hold; 0 is the empty trie
    MaxSnapshots,   \* bound: snapshots the caller takes
    Consumed        \* a snapshot already reverted to

Maps == [Tries -> Versions]

VARIABLES
    current,        \* field -> content the context shows
    saved,          \* the snapshots the caller holds: a map, or Consumed
    committed       \* the map the last proto stands for

vars == <<current, saved, committed>>

Init ==
    /\ current = [t \in Tries |-> 0]
    /\ saved = <<>>
    /\ committed = [t \in Tries |-> 0]

(* A write to one field (an update in place, or a new trie assigned).     *)
Write(t) ==
    /\ \E k \in Versions : current' = [current EXCEPT ![t] = k]
    /\ UNCHANGED <<saved, committed>>

Save ==
    /\ Len(saved) < MaxSnapshots
    /\ saved' = Append(saved, current)
    /\ UNCHANGED <<current, committed>>

Restore(i) ==
    /\ saved[i] # Consumed
    /\ current' = saved[i]
    /\ saved' = [saved EXCEPT ![i] = Consumed]
    /\ UNCHANGED committed

(* A second revert: the context takes some map; held snapshots and the    *)
(* committed map are untouched.                                            *)
RestoreConsumed(i) ==
    /\ saved[i] = Consumed
    /\ current' \in Maps
    /\ UNCHANGED <<saved, committed>>

Commit ==
    /\ committed' = current
    /\ UNCHANGED <<current, saved>>

Load ==
    /\ current' = committed
    /\ UNCHANGED <<saved, committed>>

Next ==
    \/ \E t \in Tries : Write(t)
    \/ Save
    \/ \E i \in DOMAIN saved : Restore(i) \/ RestoreConsumed(i)
    \/ Commit
    \/ Load

Spec == Init /\ [][Next]_vars

=============================================================================
