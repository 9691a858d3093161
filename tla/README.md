# TLA+ models of AQChainRe

These modules model the state-changing core of AQChainRe, in `src/pkg`, and check it with TLC.
AQChainRe is a blockchain that keeps data records (confirm, authorize, transfer) and elects block producers by Proof of Contribution (PoC).
Every definition is translated from the Go source. `PROJECT.json` maps each definition to the lines it models.

## The system and how its parts interact

- **Transaction processor.** The processor is `core/state_processor.go` (`Process`, `ApplyTransaction`) and `core/state_transition.go`.
  - `ApplyTransaction` dispatches each transaction by type:
    - Binary transactions go to `TransitionDb`.
    - Data transactions (ConfirmationData, AuthorizationData, TransferData) go to `ApplyDataMessage`.
    - LoginCandidate and LogoutCandidate go to `applyPocMessage`.
  - The handlers write three stores:
    - the account `StateDB` (nonce, balance, contribution, records), whose code is not under `src/`;
    - the record store `StateDBRecord`;
    - the candidate trie of `PocContext`.
  - A handler error makes `Process` fail, and the whole block is rejected.
- **Record store.** `core/state/statedb_record.go`, `state_object_record.go` and `journal_record.go` implement a cache of record objects over a trie.
  - Every setter appends an undo entry to a journal.
  - `Snapshot` and `RevertToSnapshot` replay the journal.
  - `Finalise` and `IntermediateRoot` write the dirty objects to the trie, and `CommitTo` commits it.
  - The processor calls `Finalise` or `IntermediateRoot` after every transaction.
- **PoC contexts.** `core/types/poc_context.go` holds five `*trie.Trie` fields: epoch (the validators), contribution, latest tx, candidate and mint count. `record_context.go` holds three tries of the same shape.
  - `Copy` and `Snapshot` copy the trie values.
  - `RevertToSnapShot` re-points the fields.
  - `CommitTo` and `FromProto` round-trip the roots.
- **Epoch engine.** `consensus/poc/epoch_context.go` runs at every block.
  - `tryElect` runs when a block starts a new epoch. For every epoch between the parent's and the block's, it:
    - kicks out validators that minted too little (`kickoutValidator`, with its threshold and the safeSize budget);
    - elects the `maxValidatorSize` candidates with the most contribution (`countContributions`, the `sortableAddresses` order);
    - stores the new validator list in the epoch trie.
  - `lookupValidator` picks the validator of a time slot.
  - The engine's `Finalize` (mint counts, time of the first block) is not under `src/`. It is modelled from `spec.md`.

## Modules

| Module | Models | State | Actions |
|---|---|---|---|
| `PocEpoch` | epoch engine plus the candidate/contribution/mint-count contents of PocContext | candidates, validators, contribution, electedCtb, mintCnt per epoch, parentTime, firstBlockTime | `LoginCandidate`, `LogoutCandidate` (BecomeCandidate/KickoutCandidate), `AddContribution` (ApplyDataMessage's AddContribution), `MintBlock` (a sealed block at a chosen later time: `TryElect`, then the mint count) |
| `StateTransition` | the transaction processor over account, record and candidate state | nonce, balance, contribution, records, recordSet, origin/owner/txs/status per record, candidates, txCount | `ApplyBinary`, `ApplyConfirmation`, `ApplyAuthorization`, `ApplyTransferData`, `ApplyLoginCandidate`, `ApplyLogoutCandidate` |
| `StateDBRecord` | the record store's object cache, journal and revisions | trie, stateObjects (record data plus whether its `onDirty` hook is still set), dirty, journal, validRevisions, nextRevisionId | `GetStateObject`, `CreateObject`, `SetObjectField` (the four journaled setters), `Snapshot`, `RevertToSnapshot`, `Finalise`, `CommitTo`, `DeleteSuicides`, `Reset` |
| `StateDBRecordCopy` | a StateDBRecord and its `Copy`, sharing one trie object | trie, objs and dirty per store, copied | per store: `GetStateObject`, `CreateObject`, `SetObjectField`, `Finalise`, `CommitTo`; and `Copy` |
| `RecordStore` | the abstract record store: what `spec.md` 4.1 and 8 promise | store (hash → record), snapshots (revision id and map), nextId | `Write`, `Snapshot`, `Revert`, `Release` (Finalise/CommitTo/DeleteSuicides), `Reload` (Reset) |
| `StateObjectStorage` | one record object's storage: the two-tier cache over its storage trie (`state_object_record.go`) and the store calls that flush and commit it | root (`data.Root`), trie (nil until opened), cachedStorage, dirtyStorage, the `onDirty` hook, membership in the dirty set, the record trie's and the committed record trie's root for the object, the committed storage tries | `GetState`, `SetState`, `ForEachStorage` (which opens the trie), `Finalise` (`updateRoot` and `updateStateObject`), `CommitTo` (`CommitTrie`, then the record trie), `Reload` (`NewRecord`/`Reset` at the committed root); `deepCopy` as an operator |
| `StorageMap` | the abstract object storage: what spec.md 4.1 promises | current, committed | `Write`, `Commit`, `Reload` |
| `TrieContext` | PocContext's code (`poc_context.go`) as pointers into a heap of trie objects, for any list of trie fields | heap (cell → trie content), ctx (field → cell), snaps held by the caller | `UpdateTrie` (in-place updates), `SetTrie` (the `Set*` setters), `Copy` (= Snapshot), `RevertToSnapShot`, `CommitTo`, `FromProto` |
| `ContextSnapshots` | the abstract context: what spec.md section 5 promises, by value, with a snapshot consumed by its first revert | current (field → content), saved (the snapshots held, or consumed), committed | `Write`, `Save`, `Restore`, `RestoreConsumed`, `Commit`, `Load` |
| `RecordContext` | `record_context.go`: `TrieContext` instantiated with the confirmation, authorization and transfer tries | as `TrieContext` | `AuthorizeRecord`, `TransferRecord`, the `Set*` setters, `Copy`, `RevertToSnapShot`, `CommitTo`, `FromProto` |

`MCPocEpoch`, `MCStateTransition`, `MCStateDBRecord`, `MCStateDBRecordCopy`, `MCStateObjectStorage`, `MCTrieContext` and `MCRecordContext` instantiate the modules with small constants. `TrieContext` has history variables (`views`, `reverted`, `committed`). These only record what a property compares against.

### Refinement

`StateDBRecord` defines `Abstract == INSTANCE RecordStore WITH ...`, and `RefinesRecordStore == Abstract!Spec` is checked as a property. The refinement mapping is:
- the abstract map is `View(stateObjects)`, what `getStateObject` shows (the live object, else the trie entry);
- the abstract revisions are the valid revisions, each with `RevisionView(i)`: the map rebuilt by undoing the journal, newest first, back to the revision's journal index;
- `nextId` is `nextRevisionId`.

The mapping uses no history variable, so the check is about the journal itself:
- every create, reset and setter must leave every held revision's rebuilt map unchanged;
- a revert must produce exactly that map and drop the later revisions;
- loads, `Finalise`, `CommitTo` and `DeleteSuicides` must leave the shown map alone.

`StateObjectStorage` likewise defines `Abstract == INSTANCE StorageMap WITH ...`. The mapping takes:
- the current map to what `GetState` returns for each key: the cache entry, else the value in the storage trie (opened at `data.Root` when still nil);
- the committed map to the storage root of the object in the last committed record trie.

`RefinesStorageMap` therefore checks two things:
- only `SetState` changes what `GetState` returns, through every read-through, flush and commit;
- `CommitTo` leaves the committed record trie carrying a root that holds exactly that map.

`Reset` maps to `Reload`, which may show any map: what a committed root holds is the trie's business. Durability is checked separately, by `FinaliseWritesAll`.

`TrieContext` defines `Abstract == INSTANCE ContextSnapshots WITH ...`, and `RecordContext` checks `RefinesContextSnapshots`. The mapping takes:
- the current map to the content of the trie each field of the context points to;
- each held snapshot to the content of its tries, or to consumed once it has been reverted to (the history variable `reverted`);
- the committed map to the proto `CommitTo` returned last.

The pointer-level context therefore behaves as values in every respect but one. An update or `Set*` changes one field. A snapshot not yet reverted to keeps its map. The first revert restores that map. `FromProto` reopens the committed map. The exception is that a second revert to the same snapshot restores an unspecified map. The `context_revert_twice` run shows that this exception is real.

The pure algorithms are operators, checked through the properties of the runs that use them:
- `CountContributions`, `KickoutValidator`, `Elect` and the recursive `ElectLoop` in `PocEpoch`;
- the recursive `UndoAll` (newest entry first) in `StateDBRecord`.

A transaction that fails is no step. Its effects never persist, because `Process` rejects the block.

## Runs

| Run | Checks | Result |
|---|---|---|
| `poc_epoch` | `ElectedAreTopContributors`: the validators of each epoch are exactly the candidates of the last election that fewer than `maxValidatorSize` candidates outrank, by spec.md's rule (contribution descending, ties by ascending address). The rank is counted directly, not with the `sortableAddresses.Less` that `Elect` sorts by, so a comparator that breaks ties the wrong way is caught. `ElectionSucceedsWithSafePool`: with at least `safeSize` candidates, kickouts never make the next election fail. `KickoutSparesProductive`: a kickout never removes a validator that minted more than one it keeps. Checked over every sealing schedule of two 8-slot epochs. | pass |
| `poc_liveness` | `ChainProgresses`: under weak fairness of block sealing, while the candidate pool stays at `safeSize` or more, the head reaches the last timestamp, whatever logins, logouts and kickouts happen. | pass |
| `poc_skip_kickout` | `KickoutOnlyPrevValidators` | violated: a block that skips an epoch runs the kickout again against the list it just elected. Code bug at epoch_context.go:153. |
| `state_transition` | `BalanceConserved`: binary transfers neither create nor destroy balance. `RecordIndexConsistent`: the record hashes each account lists in the account state are exactly the records it owns in the record store. Confirmation and TransferData write the two stores in separate calls, and TransferData moves transaction hashes, not record hashes. The index stays consistent only because `SetOwner` leaves the owner unchanged. | pass |
| `transfer_data` | `TransferDataMovesRecord` (spec.md scenario 4) | violated by one TransferData, in three ways. `StateDBRecord.SetOwner` calls `SetOrigin` (statedb_record.go:233), so the owner stays and the origin changes. The accounts' records gain and lose the transaction hash, not the record hash (state_transition.go:288). |
| `nonce_counts_txs` | `NonceCountsTxs` | violated: Login and Logout skip the nonce check and increment, so they can be replayed. |
| `record_journal` | `RevisionsWellFormed`, `DirtyObjectsLive`, `RefinesRecordStore`: the store implements `RecordStore` under the mapping above, across creates, resets, all setters, nested snapshots and reverts, Finalise, CommitTo, DeleteSuicides and Reset. | pass |
| `record_storage` | `CacheCoherent`: every cached storage entry is what the trie holds once the dirty entries are flushed, zero values as deletes included. `StorageRootOpenable`: `getTrie` never falls back to the empty trie, because an object without an open trie always carries a committed root. `DeepCopyShowsState`: `deepCopy` gives the copy only the dirty entries as its cache (`state_object_record.go:280`), yet the copy reads every key as the original does. `RefinesStorageMap`: the refinement above. | pass |
| `record_copy_shares_trie` | `CopyIndependent` | violated: `Copy` gives the copy `trie: self.trie` (statedb_record.go:394), so the original's `Finalise` changes what the copy shows for a record the copy has not loaded, and the reverse. Code bug. |
| `record_commit_reuse` | `FinaliseWritesAll` | violated: after `CommitTo` the dirty set is emptied but `onDirty` stays nil, so a later write never reaches the trie (statedb_record.go:534). |
| `record_context_snapshot` | `RefinesContextSnapshots`: RecordContext's three tries implement `ContextSnapshots` under the mapping above, checked with the `TrieContext` definitions that also model PocContext | pass |
| `context_revert_twice` | `RevertRestoresSnapshot`, on PocContext's fields | violated: after a revert the context shares the snapshot's tries, so a second revert to it restores nothing (poc_context.go:146). |

Each passing run's properties have a mutant in `PROJECT.json`: a plausible bug in the mapped definition that TLC then finds. The mutants include:
- an untruncated or ascending election;
- an election that breaks contribution ties by the higher address (the `ElectedAreTopContributors` mutant);
- a kickout past the safe size, which also halts the chain (the `ChainProgresses` mutant);
- a kickout with the order not reversed;
- a dropped balance check or `SubBalance`;
- a confirmation that overwrites the record;
- undo replayed oldest first;
- the undo of a create that leaves the hash dirty;
- a revert that keeps the revisions;
- a pointer-sharing `Copy` of a context;
- a `Finalise` that takes the root from the dirty entries alone;
- a flush that skips zero values;
- a `CommitTo` that leaves the storage trie uncommitted, or writes the record with its stale root;
- a `deepCopy` that drops the dirty entries.

## Bounds, and why they are enough

- **PocEpoch.**
  - There are 3 addresses, 2 validators per epoch and `SafeSize` = 1. This is the smallest setting in which:
    - an election must choose among more candidates than slots;
    - the safe-size budget can run out.
  - Epochs are 8 slots long, and time runs to 2 epochs (3 in `poc_skip_kickout`); contributions are 0 or 1, enough to order candidates by contribution and then by address. Eight slots give two validators unequal mint counts, which the kickout order needs. Blocks may skip slots and whole epochs, so the multi-epoch loop of `tryElect` is reached.
  - `MCView` merges states that differ only in mint counts of epochs that are never read again.
- **Liveness (`poc_liveness`).** The epochs are 4 slots long and time runs to 8, with no contributions. The model with 8-slot epochs takes over 5 minutes under fairness. The election order does not bear on liveness, which is about how many candidates survive the kickouts. Epochs of 4 slots and two epoch boundaries let kickouts run at least once before the last timestamp.
- **StateTransition.** There are 2 accounts, 2 payloads and 6 transactions. Within that bound:
  - every pair of transaction types on one record fits, including confirm, transfer and transfer back;
  - both records can be confirmed, by different accounts, and then transferred;
  - a Login or Logout can come between them.

  The violation runs keep 4 transactions, because their counterexamples need at most 2.
- **StateDBRecord.**
  - There is one record hash. Every operation acts on a single hash, and no operation reads two hashes.
  - There are two addresses and one tx id.
  - `Statuses` = {0}. No code under `src/` writes a nonzero status, and every status write is still journaled.
  - The journal holds 3 entries and there are 2 revisions. This is enough for a create plus two field writes, and for a nested snapshot inside another.
- **StateObjectStorage.** There are two keys and two nonzero values plus zero, and the initial committed storage is any content. Two keys let a read-through cache entry sit beside a dirty one. The zero value shows the delete path. Two values let a flush overwrite one value with another.
- **StateDBRecordCopy.** There is one record and two addresses. The sharing shows on the first record that one store writes and the other has not loaded.
- **TrieContext / RecordContext.**
  - The passing run uses RecordContext's three fields, with one payload (version 0 is an empty trie, 1 holds the payload) and 2 snapshots. The revert-twice run uses two of the five PocContext fields. Every operation treats each field alike and independently of the others. Two fields therefore already show one field's pointer meeting another's, and a snapshot taken after a revert.
  - `MCView` identifies states that differ only in which heap cells hold the tries.

All runs finish in well under a minute, except `poc_epoch` (about 70 seconds) and `record_journal` (about 2.5 minutes, 1M states; the refinement mapping rebuilds each revision's map from the journal in every state).

## Fairness

`PocEpoch` defines `Fairness == WF_vars(\E t : MintBlock(t))`, and `LiveSpec` adds it to `Spec`. The node's miner, which is not under `src/`, tries to seal a block on the head every `blockInterval`. A block that stays sealable is therefore eventually sealed. Logins, logouts and contributions get no fairness: users need not send them. No other specification has fairness.

`MCView` merges states that differ only in mint counts of epochs that are never read again. Merged states have the same futures, so the liveness check under the `VIEW` is sound.

## Not modelled

- **Account `StateDB`, the engine's `Finalize`, and genesis.** Their code is not under `src/`. The parts the handlers use are modelled from `spec.md`.
- **Logs, preimages and the journal entry of `SetState`.** No code under `src/` calls `AddLog`, `AddPreimage` or `SetState`. The undo of each of these entries panics "implement me", although spec.md 4.1 says a Storage entry's undo restores the prior value. `StateObjectStorage` models the storage itself, but no revert crosses a `SetState`.
- **Writes to a committed store in `StateObjectStorage`.** That module reopens the store after `CommitTo`. A write after `CommitTo` is lost, which is the `record_commit_reuse` finding.
- **The callback of `ForEachStorage`, and the state dump.** Both are read-only iterations, and the model keeps only the trie opening that `ForEachStorage` does. `StateDBRecord.RawDump` never sets `DumpRecord.Status`, so every dumped record shows status 0. It also ignores decode errors. Neither is reached by code under `src/`.
- **The journal in `StateDBRecordCopy`.** Each store's Snapshot and Revert touch only its own objects. The sharing of the trie is what the module checks.
- **Record storage slots and the `Txs` slice.** `deepCopy` shares the original's `data.Txs` slice, which no code under `src/` appends to in place.
- **State dump, the RPC APIs, discovery, pubsub, the network submodule, and test helpers.** These are read-only code, I/O, or wrappers over code not under `src/`. The hello protocol's receive, send and process functions are stubs that return nil, so there is no handshake to model.
- **Configuration (`config.go`).** `Set` is JSON decoding and `Get` is reflection over a fixed struct. spec.md section 9 puts it out of the core. Its two hazards are listed in `PROJECT.json` without a property:
  - `Set` can return an error after a partial decode has already changed fields, because encoding/json keeps decoding past an unknown field;
  - `Set("bootstrap", "null")` makes a later `Get("bootstrap.period")` panic.
- **`poc/api.go:136` `GetLastedTx`.** It installs the latest-tx trie as the candidate trie and then reads a nil trie. This is a deterministic bug on a stateless RPC, which a unit test reaches.

## Plan for later sittings

1. **The `StateDBRecord.Copy` lock interleaving with writers.** spec.md section 5 says a coarse mutex lets the RPC layer take consistent copies concurrently with block processing. `Copy` iterates the dirty map under a lock that no setter takes, so it does not deliver that. A run that shows it would be a violation run with `Copy` as a step-by-step iteration, and the project already uses its 12 runs.
2. **A composition of `StateTransition` and `PocEpoch`.** Contributions and candidates come from applied transactions, and a block's Login and Logout transactions run before its election. `PocEpoch` already allows any contribution and candidate change between blocks, so the composition would add states but no new question.
