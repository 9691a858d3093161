----------------------------- MODULE RecordStore -----------------------------
(***************************************************************************)
(* What the record store promises its callers (spec.md sections 4.1 and    *)
(* 8): a map from record hash to record, and a stack of revisions.         *)
(* Snapshot returns a fresh id for the current map; RevertToSnapshot(id)   *)
(* brings back the map of that revision and forgets it and every later     *)
(* revision; Finalise, CommitTo and DeleteSuicides end the revisions and   *)
(* leave the map as it is; Reset reopens the store at a committed root.    *)
(***************************************************************************)
EXTENDS Integers, Sequences

CONSTANTS
    Hashes,         \* record hashes
    Values,         \* what a hash may map to, absence included
    MaxRevision     \* bound: revision ids handed out

VARIABLES
    store,          \* hash -> value
    snapshots,      \* <<[id, view]>>: the revisions that may be reverted to
    nextId          \* the id the next Snapshot returns

vars == <<store, snapshots, nextId>>

Init ==
    /\ store \in [Hashes -> Values]
    /\ snapshots = <<>>
    /\ nextId = 0

(* A record is created, reset or has one of its fields set: the map       *)
(* changes at h alone.                                                     *)
Write(h) ==
    /\ UNCHANGED <<nextId, snapshots>>
    /\ store' \in [Hashes -> Values]
    /\ \A g \in Hashes \ {h} : store'[g] = store[g]

Snapshot ==
    /\ nextId < MaxRevision
    /\ snapshots' = Append(snapshots, [id |-> nextId, view |-> store])
    /\ nextId' = nextId + 1
    /\ UNCHANGED store

Revert(id) ==
    \E i \in DOMAIN snapshots :
        /\ snapshots[i].id = id
        /\ store' = snapshots[i].view
        /\ snapshots' = SubSeq(snapshots, 1, i - 1)
        /\ UNCHANGED nextId

(* The revisions end; the records stay as they are.                        *)
Release ==
    /\ snapshots' = <<>>
    /\ UNCHANGED <<store, nextId>>

(* The store is reopened at a committed root: it shows that root's map.    *)
Reload ==
    /\ store' \in [Hashes -> Values]
    /\ snapshots' = <<>>
    /\ UNCHANGED nextId

Next ==
    \/ \E h \in Hashes : Write(h)
    \/ Snapshot
    \/ \E id \in 0..MaxRevision : Revert(id)
    \/ Release
    \/ Reload

Spec == Init /\ [][Next]_vars

=============================================================================
