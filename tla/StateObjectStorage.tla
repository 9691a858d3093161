-------------------------- MODULE StateObjectStorage --------------------------
(***************************************************************************)
(* The storage of one record object (pkg/core/state/state_object_record.go *)
(* and its callers in statedb_record.go): a two-tier cache over the        *)
(* object's storage trie.                                                  *)
(*   cachedStorage  read-through cache and every write;                    *)
(*   dirtyStorage   the writes not yet flushed into the trie;              *)
(*   trie           nil until first used, then opened at data.Root;        *)
(*   data.Root      the storage root the object's record carries.          *)
(* A trie root is modelled by the content it commits to, and the database  *)
(* by the set of contents committed to it.  Finalise and IntermediateRoot  *)
(* flush the storage and write the record into the record trie; CommitTo   *)
(* commits the storage trie and then the record trie; a store is reopened  *)
(* with NewRecord at a committed root.                                     *)
(*                                                                         *)
(* The object exists in the record trie.  SetState's journal entry is left *)
(* out: its undo panics ("implement me"), so no revert crosses it.  A      *)
(* committed store is not written again before it is reopened: that reuse  *)
(* is the record_commit_reuse finding.                                     *)
(***************************************************************************)
CONSTANTS
    Keys,           \* storage keys
    Values,         \* nonzero storage values
    Zero,           \* common.Hash{}: the value of an absent key
    NoEntry,        \* no entry in a Storage map
    Nil             \* a trie not yet opened

Content == [Keys -> Values \cup {Zero}]
EmptyStorage == [k \in Keys |-> Zero]
StorageCache == [Keys -> Values \cup {Zero, NoEntry}]
NoStorage == [k \in Keys |-> NoEntry]

VARIABLES
    root,           \* data.Root of the live object
    trie,           \* the object's storage trie, or Nil
    cached,         \* cachedStorage
    dirtyStorage,   \* dirtyStorage
    hook,           \* onDirty is still set
    objDirty,       \* the object is in stateObjectsDirty
    recTrie,        \* the root the record trie holds for the object
    recCommitted,   \* that root in the last committed record trie
    db,             \* the storage tries committed to the database
    open            \* the store has not been committed since it was opened

vars == <<root, trie, cached, dirtyStorage, hook, objDirty, recTrie, recCommitted, db, open>>

(* getTrie: open the trie at data.Root; a root missing from the database   *)
(* memoizes an error and opens the empty trie.                             *)
OpenedTrie == IF trie # Nil THEN trie
              ELSE IF root \in db THEN root ELSE EmptyStorage

(* GetState: the cache first, then the trie.                               *)
StateValue(k) == IF cached[k] # NoEntry THEN cached[k] ELSE OpenedTrie[k]
View == [k \in Keys |-> StateValue(k)]

(* updateTrie: every dirty entry written into the trie; a zero value is a  *)
(* delete.                                                                 *)
FlushedSkippingZero ==
    [k \in Keys |-> IF dirtyStorage[k] \notin {NoEntry, Zero} THEN dirtyStorage[k]
                    ELSE OpenedTrie[k]]
Flushed == [k \in Keys |-> IF dirtyStorage[k] # NoEntry THEN dirtyStorage[k]
                           ELSE OpenedTrie[k]]

(* deepCopy (Copy and StorageTrie): the same data, the trie copied when   *)
(* open, dirtyStorage copied, and cachedStorage a copy of dirtyStorage.    *)
DeepCopyDroppingDirty == [root |-> root, trie |-> trie, cached |-> NoStorage, dirty |-> NoStorage]
DeepCopy == [root |-> root, trie |-> trie, cached |-> dirtyStorage, dirty |-> dirtyStorage]

(* GetState on the copy.                                                   *)
CopyValue(k) ==
    LET c == DeepCopy
        opened == IF c.trie # Nil THEN c.trie
                  ELSE IF c.root \in db THEN c.root ELSE EmptyStorage
    IN  IF c.cached[k] # NoEntry THEN c.cached[k] ELSE opened[k]

-----------------------------------------------------------------------------
(* NewRecord(root) at a committed root, and the object loaded from it.      *)
Init ==
    /\ db \in {{EmptyStorage, c} : c \in Content}
    /\ recCommitted \in db
    /\ recTrie = recCommitted
    /\ root = recCommitted
    /\ trie = Nil
    /\ cached = NoStorage
    /\ dirtyStorage = NoStorage
    /\ hook = TRUE
    /\ objDirty = FALSE
    /\ open = TRUE

(* GetState: a miss opens the trie and caches a nonzero value.             *)
GetState(k) ==
    /\ open
    /\ cached[k] = NoEntry
    /\ trie' = OpenedTrie
    /\ cached' = IF OpenedTrie[k] # Zero THEN [cached EXCEPT ![k] = OpenedTrie[k]]
                 ELSE cached
    /\ UNCHANGED <<root, dirtyStorage, hook, objDirty, recTrie, recCommitted, db, open>>

(* SetState: GetState for the journal's prevalue, then setState, which     *)
(* calls the hook once.                                                    *)
SetState(k, v) ==
    /\ open
    /\ trie' = IF cached[k] = NoEntry THEN OpenedTrie ELSE trie
    /\ cached' = [cached EXCEPT ![k] = v]
    /\ dirtyStorage' = [dirtyStorage EXCEPT ![k] = v]
    /\ objDirty' = (objDirty \/ hook)
    /\ hook' = FALSE
    /\ UNCHANGED <<root, recTrie, recCommitted, db, open>>

(* ForEachStorage: the callback is given every cachedStorage entry, then   *)
(* each entry of the storage trie, opened by getTrie, whose key is not     *)
(* cached.  Opening the trie is the only change to the store.              *)
ForEachStorage ==
    /\ open
    /\ trie' = OpenedTrie
    /\ UNCHANGED <<root, cached, dirtyStorage, hook, objDirty, recTrie, recCommitted, db, open>>

FinaliseRootFromDirty ==
    /\ open
    /\ objDirty
    /\ trie' = Flushed
    /\ dirtyStorage' = NoStorage
    /\ root' = dirtyStorage
    /\ recTrie' = Flushed
    /\ UNCHANGED <<cached, hook, objDirty, recCommitted, db, open>>
(* Finalise (and IntermediateRoot): updateRoot then updateStateObject for  *)
(* a dirty object; the object stays in stateObjectsDirty.                  *)
Finalise ==
    /\ open
    /\ objDirty
    /\ trie' = Flushed
    /\ dirtyStorage' = NoStorage
    /\ root' = Flushed
    /\ recTrie' = Flushed
    /\ UNCHANGED <<cached, hook, objDirty, recCommitted, db, open>>

(* CommitTo: CommitTrie (updateTrie, commit the trie into storeDb, Root = *)
(* the committed root) and updateStateObject, which encodes the record     *)
(* with the root written, for a dirty object, which then leaves the dirty  *)
(* set; then the record trie is committed.                                 *)
CommitObject(storeDb, written) ==
    /\ open
    /\ trie' = IF objDirty THEN Flushed ELSE trie
    /\ dirtyStorage' = IF objDirty THEN NoStorage ELSE dirtyStorage
    /\ db' = IF objDirty THEN storeDb ELSE db
    /\ root' = IF objDirty THEN Flushed ELSE root
    /\ recTrie' = IF objDirty THEN written ELSE recTrie
    /\ recCommitted' = recTrie'
    /\ objDirty' = FALSE
    /\ open' = FALSE
    /\ UNCHANGED <<cached, hook>>

CommitToSkippingTrie == CommitObject(db, Flushed)
CommitToStaleRecord == CommitObject(db \cup {Flushed}, root)
CommitTo == CommitObject(db \cup {Flushed}, Flushed)

(* NewRecord at the last committed root: a fresh cache, the object loaded  *)
(* again from the committed record trie.                                   *)
Reload ==
    /\ recTrie' = recCommitted
    /\ root' = recCommitted
    /\ trie' = Nil
    /\ cached' = NoStorage
    /\ dirtyStorage' = NoStorage
    /\ hook' = TRUE
    /\ objDirty' = FALSE
    /\ open' = TRUE
    /\ UNCHANGED <<recCommitted, db>>

Next ==
    \/ \E k \in Keys : GetState(k)
    \/ \E k \in Keys, v \in Values \cup {Zero} : SetState(k, v)
    \/ ForEachStorage
    \/ Finalise
    \/ CommitTo
    \/ Reload

Spec == Init /\ [][Next]_vars

-----------------------------------------------------------------------------
TypeOK ==
    /\ root \in Content
    /\ trie \in Content \cup {Nil}
    /\ cached \in StorageCache
    /\ dirtyStorage \in StorageCache
    /\ hook \in BOOLEAN
    /\ objDirty \in BOOLEAN
    /\ recTrie \in Content
    /\ recCommitted \in Content
    /\ db \subseteq Content
    /\ open \in BOOLEAN

(* The two tiers agree: every cachedStorage entry, whether a write or a    *)
(* value read through, is what the storage trie holds once updateTrie has  *)
(* flushed dirtyStorage.  A flush that lost a delete, or a read cached     *)
(* from a stale trie, would make GetState and the committed trie differ.   *)
CacheCoherent ==
    \A k \in Keys : cached[k] # NoEntry => cached[k] = Flushed[k]

(* getTrie never falls back to the empty trie: an object whose trie is not *)
(* open carries a root the database holds.  A record that reaches the     *)
(* committed record trie with a storage root not committed would, once    *)
(* reloaded, silently show empty storage and memoize an error.            *)
StorageRootOpenable ==
    trie = Nil => root \in db

(* deepCopy gives the copy cachedStorage = self.dirtyStorage.Copy(), not   *)
(* the original's cachedStorage: the copy must still read every key as the *)
(* original does, from its copied dirty entries or from the copied trie.   *)
DeepCopyShowsState ==
    \A k \in Keys : CopyValue(k) = StateValue(k)

(* GetState, SetState, Finalise, CommitTo and NewRecord together implement *)
(* StorageMap: GetState shows the last value written to each key, only     *)
(* SetState changes it, CommitTo makes the shown map the committed one,    *)
(* and a store reopened at the committed root shows that map again.        *)
Abstract == INSTANCE StorageMap
    WITH Values <- Values \cup {Zero}, current <- View, committed <- recCommitted
RefinesStorageMap == Abstract!Spec

=============================================================================
