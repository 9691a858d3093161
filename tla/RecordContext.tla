---------------------------- MODULE RecordContext ----------------------------
(***************************************************************************)
(* RecordContext (pkg/core/types/record_context.go): the confirmation,     *)
(* authorization and transfer tries of the record chain, held by pointer   *)
(* with the Copy, Snapshot, RevertToSnapShot, CommitTo and FromProto of    *)
(* TrieContext.  AuthorizeRecord and TransferRecord write the key data =   *)
(* data into their trie in place; ConfirmRecord has its body commented out *)
(* and changes nothing.  One payload is enough to tell the tries apart, so *)
(* a trie's version is 1 when it holds the payload and 0 when it is empty. *)
(***************************************************************************)
EXTENDS Naturals, Sequences

CONSTANTS
    MaxSnapshots,   \* bound: snapshots the caller takes
    Nil             \* a free cell (a model value)

VARIABLES heap, ctx, snaps, views, reverted, committed

vars == <<heap, ctx, snaps, views, reverted, committed>>

(* The fields, in the order Root and the proto list them.                  *)
RecordTries == <<"confirmation", "authorization", "transfer">>

TC == INSTANCE TrieContext WITH TrieOrder <- RecordTries, Versions <- {0, 1}

-----------------------------------------------------------------------------
(* NewRecordContext: three empty tries.                                    *)
Init == TC!Init

(* AuthorizeRecord(addr, data): authorizationTrie.TryUpdate(data, data).   *)
AuthorizeRecord == TC!UpdateTrie("authorization", 1)

(* TransferRecord(addr, data): transferTrie.TryUpdate(data, data).         *)
TransferRecord == TC!UpdateTrie("transfer", 1)

(* SetConfirmation, SetAuthorization, SetTransfer: a new trie assigned.    *)
SetTrie(t) == TC!SetTrie(t)

(* Mutant of Copy: the pointers copied instead of the tries.               *)
CopySharing == TC!CopySharing

(* Mutant of Copy: the authorization trie copied from the confirmation     *)
(* trie.                                                                   *)
CopyMixed == TC!CopyMixed

(* Copy, and Snapshot which returns rc.Copy().                             *)
Copy == TC!Copy

RevertToSnapShot(i) == TC!RevertToSnapShot(i)

CommitTo == TC!CommitTo

FromProto == TC!FromProto

Next ==
    \/ AuthorizeRecord
    \/ TransferRecord
    \/ \E i \in 1..Len(RecordTries) : SetTrie(RecordTries[i])
    \/ Copy
    \/ \E i \in DOMAIN snaps : RevertToSnapShot(i)
    \/ CommitTo
    \/ FromProto

Spec == Init /\ [][Next]_vars

-----------------------------------------------------------------------------
TypeOK == TC!TypeOK

(* The record tries implement ContextSnapshots: through authorizations,  *)
(* transfers, Set calls, commits and reverts, a snapshot not yet reverted  *)
(* to keeps what the context showed when it was taken, and the first       *)
(* revert to it restores all three tries.                                  *)
RefinesContextSnapshots == TC!RefinesContextSnapshots

=============================================================================
