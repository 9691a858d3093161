-------------------------- MODULE StateDBRecordCopy --------------------------
(***************************************************************************)
(* A StateDBRecord and a Copy of it (pkg/core/state/statedb_record.go).    *)
(* Copy builds the new store with trie: self.trie, the same trie object,   *)
(* and deep-copies only the dirty objects, each with the new store's       *)
(* MarkStateObjectDirty as its hook.  Both stores then read and write one  *)
(* trie; each has its own live objects and dirty set.                      *)
(*                                                                         *)
(* The journal is left out: a store's Snapshot and RevertToSnapshot act on *)
(* its own objects and journal only, and Copy starts the copy with none.   *)
(* Objects are as in StateDBRecord: data and whether onDirty is still set. *)
(***************************************************************************)
EXTENDS FiniteSets

CONSTANTS
    Hashes,         \* record hashes
    Addr,           \* addresses a setter may write, including the zero address
    ZeroAddr,       \* common.Address{}
    Absent          \* no trie entry / no live object (a model value)

ASSUME ZeroAddr \in Addr

Stores == {"orig", "copy"}

EmptyRecord == [origin |-> ZeroAddr, owner |-> ZeroAddr]
RecordData == [origin : Addr, owner : Addr]
StateObject == [data : RecordData, hook : BOOLEAN]

VARIABLES
    trie,           \* the one trie object both stores point to
    objs,           \* store -> hash -> live object, or Absent
    dirty,          \* store -> stateObjectsDirty
    copied          \* whether Copy has created the copy

vars == <<trie, objs, dirty, copied>>

Active == {"orig"} \cup (IF copied THEN {"copy"} ELSE {})

(* What getStateObject of store s returns the data of.                     *)
Shown(s, h) == IF objs[s][h] # Absent THEN objs[s][h].data ELSE trie[h]
ShownBy(s) == [h \in Hashes |-> Shown(s, h)]

(* getStateObject: a trie entry is loaded with the store's hook set.       *)
Loaded(s, h) ==
    IF objs[s][h] = Absent /\ trie[h] # Absent
    THEN [objs[s] EXCEPT ![h] = [data |-> trie[h], hook |-> TRUE]]
    ELSE objs[s]

-----------------------------------------------------------------------------
Init ==
    /\ trie \in [Hashes -> {Absent, EmptyRecord}]
    /\ objs = [s \in Stores |-> [h \in Hashes |-> Absent]]
    /\ dirty = [s \in Stores |-> {}]
    /\ copied = FALSE

GetStateObject(s, h) ==
    /\ objs' = [objs EXCEPT ![s] = Loaded(s, h)]
    /\ UNCHANGED <<trie, dirty, copied>>

(* createObject: a fresh object, dirty through setStatus(0); the origin  *)
(* CreateRecord carries over is left out.                                  *)
CreateObject(s, h) ==
    /\ objs' = [objs EXCEPT ![s] = [Loaded(s, h) EXCEPT ![h] =
                                      [data |-> EmptyRecord, hook |-> FALSE]]]
    /\ dirty' = [dirty EXCEPT ![s] = @ \cup {h}]
    /\ UNCHANGED <<trie, copied>>

(* A setter of an existing object: the first write calls the hook.         *)
SetObjectField(s, h, f, v) ==
    LET o == Loaded(s, h)
    IN  /\ o[h] # Absent
        /\ objs' = [objs EXCEPT ![s] = [o EXCEPT ![h] =
                        [data |-> [@.data EXCEPT ![f] = v], hook |-> FALSE]]]
        /\ dirty' = IF o[h].hook THEN [dirty EXCEPT ![s] = @ \cup {h}] ELSE dirty
        /\ UNCHANGED <<trie, copied>>

(* Finalise: every dirty object of s is written to the trie s points to.   *)
Finalise(s) ==
    /\ trie' = [h \in Hashes |-> IF h \in dirty[s] THEN objs[s][h].data ELSE trie[h]]
    /\ UNCHANGED <<objs, dirty, copied>>

(* CommitTo: the dirty objects written and dropped from the dirty set.     *)
CommitTo(s) ==
    /\ trie' = [h \in Hashes |-> IF h \in dirty[s] THEN objs[s][h].data ELSE trie[h]]
    /\ dirty' = [dirty EXCEPT ![s] = {}]
    /\ UNCHANGED <<objs, copied>>

(* Copy: the copy gets the original's trie object and a deep copy of each  *)
(* dirty object; an earlier copy is replaced.                              *)
Copy ==
    /\ objs' = [objs EXCEPT !["copy"] =
                  [h \in Hashes |-> IF h \in dirty["orig"]
                                    THEN [data |-> objs["orig"][h].data, hook |-> TRUE]
                                    ELSE Absent]]
    /\ dirty' = [dirty EXCEPT !["copy"] = dirty["orig"]]
    /\ copied' = TRUE
    /\ UNCHANGED trie

Next ==
    \/ \E s \in Active, h \in Hashes :
          \/ GetStateObject(s, h)
          \/ CreateObject(s, h)
          \/ \E f \in {"origin", "owner"}, a \in Addr : SetObjectField(s, h, f, a)
    \/ \E s \in Active : Finalise(s) \/ CommitTo(s)
    \/ Copy

Spec == Init /\ [][Next]_vars

-----------------------------------------------------------------------------
TypeOK ==
    /\ trie \in [Hashes -> RecordData \cup {Absent}]
    /\ objs \in [Stores -> [Hashes -> StateObject \cup {Absent}]]
    /\ dirty \in [Stores -> SUBSET Hashes]
    /\ copied \in BOOLEAN

(* Copy "creates a deep, independent copy of the state": a store's view    *)
(* changes only through its own calls.  No step that leaves a store's live *)
(* objects alone (the other store's calls, and its own Finalise and        *)
(* CommitTo) changes what that store shows.                                *)
CopyIndependent ==
    [][\A s \in Active : objs'[s] = objs[s] => ShownBy(s)' = ShownBy(s)]_vars

=============================================================================
