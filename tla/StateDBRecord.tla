---------------------------- MODULE StateDBRecord ----------------------------
(***************************************************************************)
(* The journaled record state of AQChainRe: StateDBRecord                  *)
(* (pkg/core/state/statedb_record.go), its state objects                   *)
(* (state_object_record.go) and their undo entries (journal_record.go).    *)
(*                                                                         *)
(* The record trie is a map from record hash to record data.  Live state   *)
(* objects cache trie entries and carry the pending changes; each setter   *)
(* appends an undo entry to the journal; Snapshot remembers the journal    *)
(* length; RevertToSnapshot undoes entries newest first; Finalise and      *)
(* CommitTo write dirty objects to the trie and drop the journal.  A step  *)
(* is one call a client of the store makes.                                *)
(*                                                                         *)
(* State objects are never deleted: empty() is constant FALSE and Suicide  *)
(* is commented out, so the suicided and deleted flags stay FALSE and are  *)
(* left out.  onDirty is kept as the flag hook: TRUE while the callback is *)
(* still set.                                                              *)
(***************************************************************************)
EXTENDS Integers, Sequences, FiniteSets, SequencesExt

CONSTANTS
    Hashes,         \* record hashes
    Addr,           \* addresses a setter may write, including the zero address
    ZeroAddr,       \* common.Address{}
    TxIds,          \* transaction hashes a record's txs may hold
    Statuses,       \* status values SetStatus may write
    MaxJournal,     \* bound: the journal length
    MaxRevision,    \* bound: nextRevisionId
    Absent          \* no entry in the trie / no live object (a model value)

ASSUME ZeroAddr \in Addr /\ 0 \in Statuses


EmptyRecord == [origin |-> ZeroAddr, owner |-> ZeroAddr, txs |-> <<>>, status |-> 0]
TxsValues == {<<>>} \cup {<<t>> : t \in TxIds}
RecordData == [origin : Addr, owner : Addr, txs : TxsValues,
               status : Statuses]
StateObject == [data : RecordData, hook : BOOLEAN]
Fields == {"origin", "owner", "txs", "status"}
JournalEntry ==
         [kind : {"create"}, h : Hashes]
    \cup [kind : {"reset"}, h : Hashes, prev : StateObject]
    \cup [kind : {"origin", "owner"}, h : Hashes, prev : Addr]
    \cup [kind : {"txs"}, h : Hashes, prev : TxsValues]
    \cup [kind : {"status"}, h : Hashes, prev : Statuses]

VARIABLES
    trie,           \* the record trie: hash -> RLP-decoded Record, or Absent
    stateObjects,   \* live objects: hash -> StateObject, or Absent
    dirty,          \* stateObjectsDirty
    journal,        \* the undo entries since the last Finalise
    validRevisions, \* <<[id, journalIndex]>>
    nextRevisionId

vars == <<trie, stateObjects, dirty, journal, validRevisions, nextRevisionId>>

-----------------------------------------------------------------------------
(* What getStateObject returns the data of: the live object, else the     *)
(* trie entry.                                                             *)
Visible(objs, h) == IF objs[h] # Absent THEN objs[h].data ELSE trie[h]
View(objs) == [h \in Hashes |-> Visible(objs, h)]

(* getStateObject: a trie entry is loaded into the live set on first read; *)
(* the load is not journaled.                                              *)
Loaded(objs, h) ==
    IF objs[h] = Absent /\ trie[h] # Absent
    THEN [objs EXCEPT ![h] = [data |-> trie[h], hook |-> TRUE]]
    ELSE objs

(* A setter's effect on an object: the field is written, and the first     *)
(* write calls onDirty, which marks the hash dirty and clears the hook.    *)
SetField(obj, f, v) == [data |-> [obj.data EXCEPT ![f] = v], hook |-> FALSE]
MarkDirty(obj, h, d) == IF obj.hook THEN d \cup {h} ELSE d

(* Mutant of Undo: the undo of a create leaves the hash in the dirty set.  *)
UndoCreateKeepingDirty(e, st) ==
    CASE e.kind = "create" ->
            [st EXCEPT !.objs = [@ EXCEPT ![e.h] = Absent]]
      [] e.kind = "reset" ->
            [st EXCEPT !.objs = [@ EXCEPT ![e.h] = e.prev]]
      [] OTHER ->
            LET objs == Loaded(st.objs, e.h)
            IN  [objs |-> [objs EXCEPT ![e.h] = SetField(@, e.kind, e.prev)],
                 dirty |-> MarkDirty(objs[e.h], e.h, st.dirty)]

(* The undo of one journal entry, applied to [objs, dirty].               *)
Undo(e, st) ==
    CASE e.kind = "create" ->
            [objs |-> [st.objs EXCEPT ![e.h] = Absent], dirty |-> st.dirty \ {e.h}]
      [] e.kind = "reset" ->
            [st EXCEPT !.objs = [@ EXCEPT ![e.h] = e.prev]]
      [] OTHER ->
            LET objs == Loaded(st.objs, e.h)
            IN  [objs |-> [objs EXCEPT ![e.h] = SetField(@, e.kind, e.prev)],
                 dirty |-> MarkDirty(objs[e.h], e.h, st.dirty)]

(* Mutant of UndoAll: the entries replayed oldest first.                    *)
RECURSIVE UndoAllForward(_, _)
UndoAllForward(es, st) ==
    IF es = <<>> THEN st ELSE UndoAllForward(Tail(es), Undo(Head(es), st))

(* Undo the entries of es, newest first.                                   *)
RECURSIVE UndoAll(_, _)
UndoAll(es, st) ==
    IF es = <<>> THEN st ELSE UndoAll(Front(es), Undo(Last(es), st))

-----------------------------------------------------------------------------
Init ==
    /\ trie \in [Hashes -> {Absent, EmptyRecord}]
    /\ stateObjects = [h \in Hashes |-> Absent]
    /\ dirty = {}
    /\ journal = <<>>
    /\ validRevisions = <<>>
    /\ nextRevisionId = 0

(* getStateObject(h) as a read: Exist, GetOwner, GetStatus, ...           *)
GetStateObject(h) ==
    /\ stateObjects' = Loaded(stateObjects, h)
    /\ UNCHANGED <<trie, dirty, journal, validRevisions, nextRevisionId>>

(* Mutant of CreateObject: a reset journaled even when there was no       *)
(* previous object.                                                        *)
CreateObjectAlwaysReset(h, carryOrigin) ==
    LET objs == Loaded(stateObjects, h)
        prev == objs[h]
        data == IF carryOrigin /\ prev # Absent
                THEN [EmptyRecord EXCEPT !.origin = prev.data.origin]
                ELSE EmptyRecord
    IN  /\ Len(journal) < MaxJournal
        /\ stateObjects' = [objs EXCEPT ![h] = [data |-> data, hook |-> FALSE]]
        /\ dirty' = dirty \cup {h}
        /\ journal' = Append(journal, [kind |-> "reset", h |-> h, prev |-> prev])
        /\ UNCHANGED <<trie, validRevisions, nextRevisionId>>

(* createObject(h), reached through GetOrNewStateObject or CreateRecord:   *)
(* a fresh object with status 0 (setStatus marks it dirty) replaces the    *)
(* previous one, journaled as a create or a reset.  CreateRecord carries   *)
(* the previous origin over without a journal entry.                       *)
CreateObject(h, carryOrigin) ==
    LET objs == Loaded(stateObjects, h)
        prev == objs[h]
        data == IF carryOrigin /\ prev # Absent
                THEN [EmptyRecord EXCEPT !.origin = prev.data.origin]
                ELSE EmptyRecord
    IN  /\ Len(journal) < MaxJournal
        /\ stateObjects' = [objs EXCEPT ![h] = [data |-> data, hook |-> FALSE]]
        /\ dirty' = dirty \cup {h}
        /\ journal' = Append(journal, IF prev = Absent THEN [kind |-> "create", h |-> h]
                                      ELSE [kind |-> "reset", h |-> h, prev |-> prev])
        /\ UNCHANGED <<trie, validRevisions, nextRevisionId>>

(* A journaled setter on the object GetOrNewStateObject(h) returns, when   *)
(* that object already exists (creating it is CreateObject).               *)
(* StateDBRecord.SetOrigin and SetOwner both reach the object's SetOrigin; *)
(* the object's SetOwner, SetTxs and SetStatus are called on the object    *)
(* GetOrNewStateObject returns.  The undo of SetTxs, txsChange, is not     *)
(* defined in the source; it is taken to restore the previous list like    *)
(* the other field changes.                                                *)
SetObjectField(h, f, v) ==
    LET objs == Loaded(stateObjects, h)
    IN  /\ objs[h] # Absent
        /\ Len(journal) < MaxJournal
        /\ journal' = Append(journal, [kind |-> f, h |-> h, prev |-> objs[h].data[f]])
        /\ stateObjects' = [objs EXCEPT ![h] = SetField(@, f, v)]
        /\ dirty' = MarkDirty(objs[h], h, dirty)
        /\ UNCHANGED <<trie, validRevisions, nextRevisionId>>

Snapshot ==
    /\ nextRevisionId < MaxRevision
    /\ validRevisions' = Append(validRevisions,
                                [id |-> nextRevisionId, journalIndex |-> Len(journal)])
    /\ nextRevisionId' = nextRevisionId + 1
    /\ UNCHANGED <<trie, stateObjects, dirty, journal>>

(* Mutant of RevertToSnapshot: the invalidated revisions stay on the stack.*)
RevertToSnapshotKeepingRevisions(revid) ==
    \E idx \in DOMAIN validRevisions :
        /\ validRevisions[idx].id = revid
        /\ LET snapshot == validRevisions[idx].journalIndex
               st == UndoAll(SubSeq(journal, snapshot + 1, Len(journal)),
                             [objs |-> stateObjects, dirty |-> dirty])
           IN  /\ stateObjects' = st.objs
               /\ dirty' = st.dirty
               /\ journal' = SubSeq(journal, 1, snapshot)
        /\ UNCHANGED <<trie, validRevisions, nextRevisionId>>

(* RevertToSnapshot(revid) for a revision id on the valid stack (any other *)
(* id panics).                                                             *)
RevertToSnapshot(revid) ==
    \E idx \in DOMAIN validRevisions :
        /\ validRevisions[idx].id = revid
        /\ LET snapshot == validRevisions[idx].journalIndex
               st == UndoAll(SubSeq(journal, snapshot + 1, Len(journal)),
                             [objs |-> stateObjects, dirty |-> dirty])
           IN  /\ stateObjects' = st.objs
               /\ dirty' = st.dirty
               /\ journal' = SubSeq(journal, 1, snapshot)
               /\ validRevisions' = SubSeq(validRevisions, 1, idx - 1)
        /\ UNCHANGED <<trie, nextRevisionId>>

(* Finalise(deleteEmptyObjects): every dirty object is written to the      *)
(* trie; the journal and the revision stack are cleared, the dirty set is  *)
(* not.                                                                    *)
Finalise ==
    /\ trie' = [h \in Hashes |-> IF h \in dirty THEN stateObjects[h].data ELSE trie[h]]
    /\ journal' = <<>>
    /\ validRevisions' = <<>>
    /\ UNCHANGED <<stateObjects, dirty, nextRevisionId>>

(* CommitTo: dirty objects are written and removed from the dirty set;     *)
(* their onDirty hook stays cleared.                                       *)
CommitTo ==
    /\ trie' = [h \in Hashes |-> IF h \in dirty THEN stateObjects[h].data ELSE trie[h]]
    /\ dirty' = {}
    /\ journal' = <<>>
    /\ validRevisions' = <<>>
    /\ UNCHANGED <<stateObjects, nextRevisionId>>

(* DeleteSuicides: the journal is cleared and every hash leaves the dirty  *)
(* set; nothing is written, no object being suicided.                      *)
DeleteSuicides ==
    /\ dirty' = {}
    /\ journal' = <<>>
    /\ validRevisions' = <<>>
    /\ UNCHANGED <<trie, stateObjects, nextRevisionId>>

(* Reset(root), reopening the trie at the root last written: the live     *)
(* objects, the dirty set and the journal are dropped; nextRevisionId is   *)
(* kept.                                                                   *)
Reset ==
    /\ stateObjects' = [h \in Hashes |-> Absent]
    /\ dirty' = {}
    /\ journal' = <<>>
    /\ validRevisions' = <<>>
    /\ UNCHANGED <<trie, nextRevisionId>>

Next ==
    \/ \E h \in Hashes : GetStateObject(h)
    \/ \E h \in Hashes, c \in BOOLEAN : CreateObject(h, c)
    \/ \E h \in Hashes, a \in Addr : SetObjectField(h, "origin", a)
    \/ \E h \in Hashes, a \in Addr : SetObjectField(h, "owner", a)
    \/ \E h \in Hashes, s \in Statuses : SetObjectField(h, "status", s)
    \/ \E h \in Hashes, t \in TxIds : SetObjectField(h, "txs", <<t>>)
    \/ Snapshot
    \/ \E r \in 0..MaxRevision : RevertToSnapshot(r)
    \/ Finalise
    \/ CommitTo
    \/ DeleteSuicides
    \/ Reset

Spec == Init /\ [][Next]_vars

-----------------------------------------------------------------------------
TypeOK ==
    /\ trie \in [Hashes -> RecordData \cup {Absent}]
    /\ stateObjects \in [Hashes -> StateObject \cup {Absent}]
    /\ dirty \subseteq Hashes
    /\ journal \in Seq(JournalEntry)
    /\ validRevisions \in Seq([id : 0..MaxRevision, journalIndex : 0..MaxJournal])
    /\ nextRevisionId \in 0..MaxRevision

(* The revision stack RevertToSnapshot binary-searches: ids strictly       *)
(* increasing and below nextRevisionId, journal indexes non-decreasing and *)
(* within the journal, whatever mix of Snapshot, RevertToSnapshot,         *)
(* Finalise and CommitTo came before.                                      *)
RevisionsWellFormed ==
    \A i \in DOMAIN validRevisions :
        /\ validRevisions[i].id < nextRevisionId
        /\ validRevisions[i].journalIndex <= Len(journal)
        /\ \A j \in DOMAIN validRevisions : i < j =>
               /\ validRevisions[i].id < validRevisions[j].id
               /\ validRevisions[i].journalIndex <= validRevisions[j].journalIndex

(* Finalise and CommitTo dereference stateObjects[addr] for every dirty    *)
(* hash: after any sequence of creates, setters and reverts, every dirty   *)
(* hash has a live object.                                                 *)
DirtyObjectsLive ==
    \A h \in dirty : stateObjects[h] # Absent

(* The map a revision stands for: what getStateObject would show after    *)
(* undoing the journal back to the revision's journal index.               *)
RevisionView(idx) ==
    View(UndoAll(SubSeq(journal, validRevisions[idx].journalIndex + 1, Len(journal)),
                 [objs |-> stateObjects, dirty |-> dirty]).objs)

Abstract == INSTANCE RecordStore
    WITH Values    <- RecordData \cup {Absent},
         store     <- View(stateObjects),
         snapshots <- [i \in DOMAIN validRevisions |->
                         [id |-> validRevisions[i].id, view |-> RevisionView(i)]],
         nextId    <- nextRevisionId

(* spec.md sections 4.1 and 8: the store implements RecordStore.  Every    *)
(* create, reset and setter is undone exactly by its journal entry, so no  *)
(* step but a revert changes the map a held revision stands for;          *)
(* RevertToSnapshot(id) restores that map and drops the later revisions;   *)
(* loads, Finalise, CommitTo and DeleteSuicides leave the map shown alone. *)
RefinesRecordStore == Abstract!Spec

(* IntermediateRoot (Finalise, then the trie hash) covers every change:    *)
(* after Finalise the trie holds what getStateObject shows for every hash. *)
FinaliseWritesAll ==
    [][Finalise => \A h \in Hashes : trie'[h] = Visible(stateObjects, h)]_vars

=============================================================================
