----------------------------- MODULE TrieContext -----------------------------
(***************************************************************************)
(* A bundle of named tries held by pointer: PocContext                     *)
(* (pkg/core/types/poc_context.go) and RecordContext (record_context.go)   *)
(* have the same shape.  Each field is a *trie.Trie; Copy dereferences     *)
(* every field into a new trie value, Snapshot is Copy, and                *)
(* RevertToSnapShot assigns the snapshot's pointers to the context's       *)
(* fields.  The heap is modelled: Cells are trie objects, heap maps a live *)
(* cell to the content of that trie.  Trie updates are copy-on-write below *)
(* the root, so a shallow struct copy is an independent trie; what is      *)
(* shared is the struct a pointer names.                                   *)
(*                                                                         *)
(* A trie's content is <<t, k>>: the trie name t and a version k standing  *)
(* for one of its possible key/value maps.  The caller holds every         *)
(* snapshot it took (snaps); cells referenced by neither the context nor a *)
(* snapshot are garbage and read Nil.                                      *)
(***************************************************************************)
EXTENDS Integers, Sequences, FiniteSets, SequencesExt, Functions

CONSTANTS
    TrieOrder,      \* the context's trie fields, in the order Root hashes them
    Versions,       \* trie contents, per trie; 0 is the empty trie
    MaxSnapshots,   \* bound: snapshots the caller takes
    Nil             \* a free cell (a model value)

ASSUME 0 \in Versions /\ IsInjective(TrieOrder)

Tries == Range(TrieOrder)
Pos(t) == CHOOSE i \in DOMAIN TrieOrder : TrieOrder[i] = t

Cells == 1..(Cardinality(Tries) * (MaxSnapshots + 1) + Cardinality(Tries))
Content(t) == {<<t, k>> : k \in Versions}
Empty(t) == <<t, 0>>

VARIABLES
    heap,           \* cell -> trie content, Nil when unreferenced
    ctx,            \* the context's fields: trie -> cell
    snaps,          \* the snapshots the caller holds: <<[trie -> cell]>>
    views,          \* history: views[i] = the content ctx showed at Snapshot i
    reverted,       \* history: the snapshots reverted to so far
    committed       \* the proto CommitTo returned last: trie -> content

vars == <<heap, ctx, snaps, views, reverted, committed>>

-----------------------------------------------------------------------------
(* The content the context shows for each trie.                            *)
Shown(fields) == [t \in Tries |-> heap[fields[t]]]

Referenced(c, s) == Range(c) \cup UNION {Range(s[i]) : i \in DOMAIN s}

(* Go's collector: unreferenced cells are freed.                           *)
Collect(h, c, s) == [x \in Cells |-> IF x \in Referenced(c, s) THEN h[x] ELSE Nil]

(* n distinct free cells, lowest first.                                    *)
FreeCells(n) ==
    LET free == {x \in Cells : heap[x] = Nil}
    IN  [i \in 1..n |-> CHOOSE x \in free : Cardinality({y \in free : y < x}) = i - 1]

(* A fresh trie object per field, in the order of TrieOrder.               *)
FreshFields == [t \in Tries |-> FreeCells(Cardinality(Tries))[Pos(t)]]

-----------------------------------------------------------------------------
(* NewPocContext / NewRecordContext: an empty trie per field.              *)
Init ==
    /\ ctx = [t \in Tries |-> Pos(t)]
    /\ heap = [x \in Cells |-> IF x <= Cardinality(Tries)
                               THEN Empty(TrieOrder[x]) ELSE Nil]
    /\ snaps = <<>>
    /\ views = <<>>
    /\ reverted = {}
    /\ committed = [t \in Tries |-> Empty(t)]

(* An update through the context's pointer (BecomeCandidate,              *)
(* KickoutCandidate, SetValidators, SetContributions, SetLastedTx, the     *)
(* engine's mint count, AuthorizeRecord, TransferRecord): the trie object  *)
(* the field names changes in place.                                       *)
UpdateTrie(t, k) ==
    /\ heap' = [heap EXCEPT ![ctx[t]] = <<t, k>>]
    /\ UNCHANGED <<ctx, snaps, views, reverted, committed>>

(* SetEpoch, SetCandidate, ...: the field is pointed at a new trie, here   *)
(* an empty one as tryElect's NewEpochTrie(common.Hash{}).                 *)
SetTrie(t) ==
    LET x == FreeCells(1)[1]
        c == [ctx EXCEPT ![t] = x]
    IN  /\ ctx' = c
        /\ heap' = Collect([heap EXCEPT ![x] = Empty(t)], c, snaps)
        /\ UNCHANGED <<snaps, views, reverted, committed>>

(* Mutant of Copy: the fields' pointers copied instead of the tries.       *)
CopySharing ==
    /\ Len(snaps) < MaxSnapshots
    /\ snaps' = Append(snaps, ctx)
    /\ views' = Append(views, Shown(ctx))
    /\ UNCHANGED <<heap, ctx, reverted, committed>>

(* Mutant of Copy: the second field copied from the first one's trie.      *)
CopyMixed ==
    LET f == FreshFields
        src(t) == IF t = TrieOrder[2] THEN TrieOrder[1] ELSE t
    IN  /\ Len(snaps) < MaxSnapshots
        /\ heap' = [x \in Cells |-> IF \E t \in Tries : f[t] = x
                                    THEN heap[ctx[src(CHOOSE t \in Tries : f[t] = x)]]
                                    ELSE heap[x]]
        /\ snaps' = Append(snaps, f)
        /\ views' = Append(views, Shown(ctx))
        /\ UNCHANGED <<ctx, reverted, committed>>

(* Snapshot = Copy: every field dereferenced into a new trie object.       *)
Copy ==
    LET f == FreshFields
    IN  /\ Len(snaps) < MaxSnapshots
        /\ heap' = [x \in Cells |-> IF \E t \in Tries : f[t] = x
                                    THEN heap[ctx[CHOOSE t \in Tries : f[t] = x]]
                                    ELSE heap[x]]
        /\ snaps' = Append(snaps, f)
        /\ views' = Append(views, Shown(ctx))
        /\ UNCHANGED <<ctx, reverted, committed>>

(* RevertToSnapShot(snaps[i]): the context takes the snapshot's pointers;  *)
(* the caller still holds the snapshot.                                    *)
RevertToSnapShot(i) ==
    /\ ctx' = snaps[i]
    /\ heap' = Collect(heap, snaps[i], snaps)
    /\ reverted' = reverted \cup {i}
    /\ UNCHANGED <<snaps, views, committed>>

(* CommitTo: every trie committed, the proto of their roots returned.      *)
CommitTo ==
    /\ committed' = Shown(ctx)
    /\ UNCHANGED <<heap, ctx, snaps, views, reverted>>

(* FromProto(CommitTo's proto): each field reopened as a new trie at the   *)
(* committed root.                                                         *)
FromProto ==
    LET f == FreshFields
    IN  /\ ctx' = f
        /\ heap' = Collect([x \in Cells |-> IF \E t \in Tries : f[t] = x
                                            THEN committed[CHOOSE t \in Tries : f[t] = x]
                                            ELSE heap[x]], f, snaps)
        /\ UNCHANGED <<snaps, views, reverted, committed>>

Next ==
    \/ \E t \in Tries, k \in Versions : UpdateTrie(t, k)
    \/ \E t \in Tries : SetTrie(t)
    \/ Copy
    \/ \E i \in DOMAIN snaps : RevertToSnapShot(i)
    \/ CommitTo
    \/ FromProto

Spec == Init /\ [][Next]_vars

-----------------------------------------------------------------------------
(* Every field of the context and of every snapshot names a live trie of  *)
(* its own kind.                                                           *)
FieldsOK(f) ==
    /\ DOMAIN f = Tries
    /\ \A t \in Tries : f[t] \in Cells /\ heap[f[t]] \in Content(t)

TypeOK ==
    /\ FieldsOK(ctx)
    /\ \A i \in DOMAIN snaps : FieldsOK(snaps[i])
    /\ reverted \subseteq DOMAIN snaps

(* The content version each field of a context or snapshot shows.         *)
VersionsOf(fields) == [t \in Tries |-> heap[fields[t]][2]]

Abstract == INSTANCE ContextSnapshots
    WITH current   <- VersionsOf(ctx),
         saved     <- [i \in DOMAIN snaps |->
                         IF i \in reverted THEN Nil ELSE VersionsOf(snaps[i])],
         committed <- [t \in Tries |-> committed[t][2]],
         Consumed  <- Nil

(* The context implements ContextSnapshots: an update or SetX changes one  *)
(* field; a snapshot not yet reverted to keeps its map through every       *)
(* update, SetX, commit, FromProto and revert to another snapshot; the     *)
(* first revert to it restores that map; FromProto reopens the map last    *)
(* committed.  Copy dereferencing each field, RevertToSnapShot assigning   *)
(* every field, and the collector freeing only unreferenced tries are what *)
(* make the pointer-level context behave as these values.                  *)
RefinesContextSnapshots == Abstract!Spec

(* spec.md section 5: mutations between Snapshot and RevertToSnapShot are  *)
(* undone exactly, for every revert to a snapshot the caller holds.        *)
RevertRestoresSnapshot ==
    [][\A i \in DOMAIN snaps : RevertToSnapShot(i) => Shown(ctx') = views[i]]_vars

=============================================================================
