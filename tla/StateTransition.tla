--------------------------- MODULE StateTransition ---------------------------
(***************************************************************************)
(* The transaction processor of AQChainRe: ApplyTransaction                *)
(* (pkg/core/state_processor.go) dispatching to ApplyMessage/TransitionDb, *)
(* ApplyDataMessage and applyPocMessage (pkg/core/state_transition.go),    *)
(* over the account state (StateDB) and the record state (StateDBRecord,   *)
(* pkg/core/state/statedb_record.go, state_object_record.go).              *)
(*                                                                         *)
(* One step applies one transaction.  Any error returned by the handler    *)
(* makes ApplyTransaction, and so Process, fail: the block carrying the    *)
(* transaction is invalid and none of its effects persist.  A transaction  *)
(* that errors is therefore no step at all; the error paths are the        *)
(* negated guards.  Hashes of transactions are 1, 2, ... in the order they *)
(* are applied.                                                            *)
(***************************************************************************)
EXTENDS Integers, Sequences, FiniteSets, SequencesExt, Functions

CONSTANTS
    Addr,           \* account addresses
    ZeroAddr,       \* common.Address{}, returned for an absent record
    Data,           \* the payloads of data transactions
    RecordHash,     \* RecordHash[d]: BytesToHash(rlp(d)), the record key of payload d
    Values,         \* the amounts a Binary transaction may carry
    InitBalance,    \* the balance every account starts with (genesis alloc)
    MaxTx           \* bound: the number of transactions applied

ASSUME /\ ZeroAddr \notin Addr
       /\ DOMAIN RecordHash = Data
       /\ MaxTx \in Nat

RecordHashes == {RecordHash[d] : d \in Data}
TxHashes == 1..MaxTx

VARIABLES
    nonce,          \* StateDB: account nonce
    balance,        \* StateDB: account balance
    contribution,   \* StateDB: account contribution, in units of 1e18
    records,        \* StateDB: the records field of each account
    recordSet,      \* StateDBRecord: the record hashes that exist
    origin,         \* Record.Origin
    owner,          \* Record.Owner
    txs,            \* Record.Txs
    status,         \* Record.Status
    candidates,     \* PocContext candidateTrie
    txCount         \* the number of transactions applied so far

vars == <<nonce, balance, contribution, records, recordSet, origin, owner, txs,
          status, candidates, txCount>>
accountVars == <<nonce, balance, contribution, records>>
recordVars == <<recordSet, origin, owner, txs, status>>

-----------------------------------------------------------------------------
(* StateDBRecord getters: an absent record has the zero owner and status   *)
(* 100.                                                                    *)
GetOwner(h) == IF h \in recordSet THEN owner[h] ELSE ZeroAddr
GetStatus(h) == IF h \in recordSet THEN status[h] ELSE 100

(* preCheck: the message nonce must equal the sender's nonce.              *)
PreCheck(from, n) == nonce[from] = n

(* Mutant of CanTransfer: the balance check dropped.                       *)
CanTransferUnchecked(from, v) == TRUE

(* CanTransfer: the sender's balance covers the amount.                    *)
CanTransfer(from, v) == balance[from] >= v

(* Mutant of Transfer: the SubBalance of the sender missing.                *)
TransferWithoutSub(bal, from, to, v) == [bal EXCEPT ![to] = @ + v]

(* Transfer: SubBalance(sender), then AddBalance(recipient).               *)
Transfer(bal, from, to, v) ==
    LET sub == [bal EXCEPT ![from] = @ - v]
    IN  [sub EXCEPT ![to] = @ + v]

(* The hash of the transaction being applied.                              *)
ThisTx == txCount + 1

-----------------------------------------------------------------------------
Init ==
    /\ nonce = [a \in Addr |-> 0]
    /\ balance = [a \in Addr |-> InitBalance]
    /\ contribution = [a \in Addr |-> 0]
    /\ records = [a \in Addr |-> {}]
    /\ recordSet = {}
    /\ origin = [h \in RecordHashes |-> ZeroAddr]
    /\ owner = [h \in RecordHashes |-> ZeroAddr]
    /\ txs = [h \in RecordHashes |-> <<>>]
    /\ status = [h \in RecordHashes |-> 0]
    /\ candidates = {}
    /\ txCount = 0

(* Binary: ApplyMessage / TransitionDb.  The nonce is raised before the    *)
(* balance check; when the check fails the error rejects the block and the *)
(* raised nonce with it.                                                   *)
ApplyBinary(from, to, v, n) ==
    /\ PreCheck(from, n)
    /\ CanTransfer(from, v)
    /\ nonce' = [nonce EXCEPT ![from] = @ + 1]
    /\ balance' = Transfer(balance, from, to, v)
    /\ txCount' = txCount + 1
    /\ UNCHANGED <<contribution, records, candidates>>
    /\ UNCHANGED recordVars

(* Mutant of ApplyConfirmation: the statedbRecord.Exist(hash) check       *)
(* dropped, so a second confirmation overwrites the record.               *)
ApplyConfirmationOverwriting(from, d, n) ==
    LET h == RecordHash[d] IN
    /\ PreCheck(from, n)
    /\ nonce' = [nonce EXCEPT ![from] = @ + 1]
    /\ recordSet' = recordSet \cup {h}
    /\ origin' = [origin EXCEPT ![h] = from]
    /\ owner' = [owner EXCEPT ![h] = from]
    /\ txs' = [txs EXCEPT ![h] = <<ThisTx>>]
    /\ status' = [status EXCEPT ![h] = 0]
    /\ records' = [records EXCEPT ![from] = @ \cup {h}]
    /\ contribution' = [contribution EXCEPT ![from] = @ + 2]
    /\ txCount' = txCount + 1
    /\ UNCHANGED <<balance, candidates>>

(* ConfirmationData: a record that exists already makes the transaction    *)
(* fail; otherwise a record with origin = owner = sender and txs = [tx] is *)
(* created, added to the sender's records and 2e18 contribution awarded.   *)
ApplyConfirmation(from, d, n) ==
    LET h == RecordHash[d] IN
    /\ PreCheck(from, n)
    /\ h \notin recordSet
    /\ nonce' = [nonce EXCEPT ![from] = @ + 1]
    /\ recordSet' = recordSet \cup {h}
    /\ origin' = [origin EXCEPT ![h] = from]
    /\ owner' = [owner EXCEPT ![h] = from]
    /\ txs' = [txs EXCEPT ![h] = <<ThisTx>>]
    /\ status' = [status EXCEPT ![h] = 0]
    /\ records' = [records EXCEPT ![from] = @ \cup {h}]
    /\ contribution' = [contribution EXCEPT ![from] = @ + 2]
    /\ txCount' = txCount + 1
    /\ UNCHANGED <<balance, candidates>>

(* AuthorizationData: only the nonce is raised.                            *)
ApplyAuthorization(from, n) ==
    /\ PreCheck(from, n)
    /\ nonce' = [nonce EXCEPT ![from] = @ + 1]
    /\ txCount' = txCount + 1
    /\ UNCHANGED <<balance, contribution, records, candidates>>
    /\ UNCHANGED recordVars

(* TransferData: the sender must be the record's owner and its status 0.   *)
(* StateDBRecord.SetOwner calls the object's SetOrigin, so the origin, not *)
(* the owner, becomes the recipient; the transaction hash is appended to   *)
(* the record; the accounts' records gain and lose the transaction hash,   *)
(* not the record hash; the sender earns 1e18 contribution.                *)
ApplyTransferData(from, to, d, n) ==
    LET h == RecordHash[d] IN
    /\ PreCheck(from, n)
    /\ GetOwner(h) = from
    /\ GetStatus(h) = 0
    /\ nonce' = [nonce EXCEPT ![from] = @ + 1]
    /\ origin' = [origin EXCEPT ![h] = to]
    /\ txs' = [txs EXCEPT ![h] = Append(@, ThisTx)]
    /\ records' = [records EXCEPT ![to] = @ \cup {ThisTx},
                                  ![from] = @ \ {ThisTx}]
    /\ contribution' = [contribution EXCEPT ![from] = @ + 1]
    /\ txCount' = txCount + 1
    /\ UNCHANGED <<balance, candidates, recordSet, owner, status>>

(* LoginCandidate / LogoutCandidate: applyPocMessage neither checks nor    *)
(* raises the nonce.                                                       *)
ApplyLoginCandidate(from) ==
    /\ candidates' = candidates \cup {from}
    /\ txCount' = txCount + 1
    /\ UNCHANGED accountVars
    /\ UNCHANGED recordVars

ApplyLogoutCandidate(from) ==
    /\ candidates' = candidates \ {from}
    /\ txCount' = txCount + 1
    /\ UNCHANGED accountVars
    /\ UNCHANGED recordVars

Nonces == 0..MaxTx

Next ==
    \/ \E f, t \in Addr, v \in Values, n \in Nonces : ApplyBinary(f, t, v, n)
    \/ \E f \in Addr, d \in Data, n \in Nonces : ApplyConfirmation(f, d, n)
    \/ \E f \in Addr, n \in Nonces : ApplyAuthorization(f, n)
    \/ \E f, t \in Addr, d \in Data, n \in Nonces : ApplyTransferData(f, t, d, n)
    \/ \E f \in Addr : ApplyLoginCandidate(f)
    \/ \E f \in Addr : ApplyLogoutCandidate(f)

Spec == Init /\ [][Next]_vars

-----------------------------------------------------------------------------
TypeOK ==
    /\ nonce \in [Addr -> Nat]
    /\ balance \in [Addr -> Nat]
    /\ contribution \in [Addr -> Nat]
    /\ records \in [Addr -> SUBSET (RecordHashes \cup TxHashes)]
    /\ recordSet \subseteq RecordHashes
    /\ origin \in [RecordHashes -> Addr \cup {ZeroAddr}]
    /\ owner \in [RecordHashes -> Addr \cup {ZeroAddr}]
    /\ txs \in [RecordHashes -> Seq(TxHashes)]
    /\ status \in [RecordHashes -> 0..255]
    /\ candidates \subseteq Addr
    /\ txCount \in 0..MaxTx

(* Binary transfers move balance and never create or destroy it.           *)
BalanceConserved ==
    SumFunction(balance) = InitBalance * Cardinality(Addr)

(* The account state's index of records (StateDB.AddRecords and          *)
(* RemoveRecords) agrees with the record state (StateDBRecord): the record *)
(* hashes an account lists are exactly those of the records it owns.  The  *)
(* two stores are written by separate calls of ConfirmationData and        *)
(* TransferData, with record hashes in one and transaction hashes in the   *)
(* other; a confirmation that reached an existing record, or a transfer    *)
(* that moved the owner without moving the record hash, would split them.  *)
RecordIndexConsistent ==
    \A a \in Addr : records[a] \cap RecordHashes = {h \in recordSet : owner[h] = a}

(* spec.md sections 3 and 8 and its scenario 4: a TransferData of record  *)
(* h from a to another account b makes b the owner and leaves the origin,  *)
(* the address that first confirmed h, as it was; h leaves a's records and *)
(* joins b's.                                                              *)
TransferDataMovesRecord ==
    [][\A a, b \in Addr, d \in Data, n \in Nonces :
          a # b /\ ApplyTransferData(a, b, d, n) =>
              LET h == RecordHash[d]
              IN  /\ owner'[h] = b
                  /\ origin'[h] = origin[h]
                  /\ h \in records'[b] \ records'[a]]_vars

(* spec.md section 3: the sender's nonce grows by exactly 1 for each       *)
(* applied transaction.                                                    *)
NonceCountsTxs ==
    [][txCount' = txCount + 1 =>
        \E a \in Addr : nonce' = [nonce EXCEPT ![a] = @ + 1]]_vars

=============================================================================
