------------------------------ MODULE PocEpoch ------------------------------
(***************************************************************************)
(* The Proof-of-Contribution epoch engine of AQChainRe                     *)
(* (pkg/consensus/poc/epoch_context.go) together with the parts of the     *)
(* PocContext it reads and writes (pkg/core/types/poc_context.go) and the  *)
(* candidate transactions of the state processor                           *)
(* (pkg/core/state_transition.go, applyPocMessage).                        *)
(*                                                                         *)
(* A behaviour is the life of one chain head: candidates log in and out,   *)
(* transactions award contribution, and blocks are minted at increasing    *)
(* timestamps.  A block whose timestamp starts a new epoch runs tryElect   *)
(* (kickouts, then an election); a block whose election fails is invalid,  *)
(* so the step is not taken.                                               *)
(*                                                                         *)
(* Addresses are integers: the code orders addresses by their hex string,  *)
(* which for fixed-length addresses is the numeric order.                  *)
(***************************************************************************)
EXTENDS Integers, Sequences, FiniteSets, SequencesExt, Functions

CONSTANTS
    Addr,               \* the addresses that may take part
    MaxValidatorSize,   \* maxValidatorSize
    SafeSize,           \* safeSize
    EpochInterval,      \* epochInterval, in seconds
    BlockInterval,      \* blockInterval, in seconds
    MaxTime,            \* bound: the last timestamp a block may carry
    MaxContribution,    \* bound: contribution is counted in units of 1e18
    GenesisValidators   \* the validators (and candidates) of the genesis block

ASSUME /\ Addr \subseteq Nat
       /\ 0 < SafeSize /\ SafeSize < MaxValidatorSize
       /\ EpochInterval > 0 /\ BlockInterval > 0
       /\ EpochInterval % BlockInterval = 0
       /\ GenesisValidators \subseteq Addr
       /\ Cardinality(GenesisValidators) \in SafeSize..MaxValidatorSize

VARIABLES
    candidates,     \* candidateTrie: the set of candidate addresses
    validators,     \* epochTrie["validator"]: the ordered validator list
    electedCtb,     \* contributionTrie["contribution"]: the snapshot of the last election
    mintCnt,        \* mintCntTrie: mintCnt[epoch][validator], 0 when absent
    contribution,   \* the contribution field of each account (StateDB)
    parentTime,     \* the timestamp of the chain head; the genesis block has time 0
    firstBlockTime  \* the engine's timeOfFirstBlock, 0 until block 1 exists

vars == <<candidates, validators, electedCtb, mintCnt, contribution,
          parentTime, firstBlockTime>>

Epochs == 0..(MaxTime \div EpochInterval)
EpochOf(t) == t \div EpochInterval
GenesisEpoch == EpochOf(0)
MinOf(a, b) == IF a < b THEN a ELSE b

-----------------------------------------------------------------------------
(* sortableAddresses.Less: higher weight first, ties by lower address.     *)
SortableLess(weight, a, b) ==
    \/ weight[a] > weight[b]
    \/ weight[a] = weight[b] /\ a < b

(* countContributions: each candidate with its account's contribution.     *)
CountContributions(cands) == [a \in cands |-> contribution[a]]

(* lookupValidator: the validator of the slot that contains time now.      *)
LookupValidator(now) ==
    validators[(((now % EpochInterval) \div BlockInterval) % Len(validators)) + 1]

(* The minimum number of blocks a validator must mint in an epoch; the     *)
(* first epoch is measured from the first block.                           *)
KickoutThreshold(now) ==
    LET duration == IF now - firstBlockTime < EpochInterval
                    THEN now - firstBlockTime ELSE EpochInterval
    IN  ((duration \div BlockInterval) \div MaxValidatorSize) \div 2

(* Mutant of KickoutValidator: the safe-size check written as             *)
(* candidateCount < safeSize, so one kickout too many.                    *)
KickoutValidatorPastSafeSize(epoch, now, cands, vals) ==
    LET cnt   == mintCnt[epoch]
        need  == {v \in Range(vals) : cnt[v] < KickoutThreshold(now)}
        order == SetToSortSeq(need, LAMBDA a, b : SortableLess(cnt, b, a))
        count == MinOf(Cardinality(cands), Cardinality(need) + SafeSize)
        kicks == IF count >= SafeSize THEN MinOf(count - SafeSize + 1, Len(order)) ELSE 0
    IN  cands \ Range(SubSeq(order, 1, kicks))

(* Mutant of KickoutValidator: sort.Sort instead of                        *)
(* sort.Sort(sort.Reverse(...)), most productive under-producers first.    *)
KickoutValidatorUnreversed(epoch, now, cands, vals) ==
    LET cnt   == mintCnt[epoch]
        need  == {v \in Range(vals) : cnt[v] < KickoutThreshold(now)}
        order == SetToSortSeq(need, LAMBDA a, b : SortableLess(cnt, a, b))
        count == MinOf(Cardinality(cands), Cardinality(need) + SafeSize)
        kicks == IF count > SafeSize THEN count - SafeSize ELSE 0
    IN  cands \ Range(SubSeq(order, 1, kicks))

(* kickoutValidator(epoch), applied to the candidate pool cands while the  *)
(* validator list is vals: under-producers are taken in the order of       *)
(* sort.Reverse(sortableAddresses) (fewest blocks first, ties by higher    *)
(* address) and deleted while the counted pool exceeds SafeSize.  The pool *)
(* is counted only up to |need| + SafeSize, and a deletion of an address   *)
(* that is no longer a candidate still lowers the count.                   *)
KickoutValidator(epoch, now, cands, vals) ==
    LET cnt   == mintCnt[epoch]
        need  == {v \in Range(vals) : cnt[v] < KickoutThreshold(now)}
        order == SetToSortSeq(need, LAMBDA a, b : SortableLess(cnt, b, a))
        count == MinOf(Cardinality(cands), Cardinality(need) + SafeSize)
        kicks == IF count > SafeSize THEN count - SafeSize ELSE 0
    IN  cands \ Range(SubSeq(order, 1, kicks))

(* Mutant of Elect: the truncation to maxValidatorSize left out.           *)
ElectUntruncated(ctbs) ==
    SetToSortSeq(DOMAIN ctbs, LAMBDA a, b : SortableLess(ctbs, a, b))

(* Mutant of Elect: ties broken by the higher address.                     *)
ElectHighAddressFirst(ctbs) ==
    LET sorted == SetToSortSeq(DOMAIN ctbs, LAMBDA a, b :
                      ctbs[a] > ctbs[b] \/ (ctbs[a] = ctbs[b] /\ a > b))
    IN  SubSeq(sorted, 1, MinOf(MaxValidatorSize, Len(sorted)))

(* The top MaxValidatorSize candidates by contribution (before shuffle).   *)
Elect(ctbs) ==
    LET sorted == SetToSortSeq(DOMAIN ctbs, LAMBDA a, b : SortableLess(ctbs, a, b))
    IN  SubSeq(sorted, 1, MinOf(MaxValidatorSize, Len(sorted)))

(* One iteration of the loop of tryElect.  st.left is what remains of the  *)
(* iterator over the mintCnt entries of prevEpoch; the loop advances it    *)
(* only when the previous epoch is not the genesis epoch.  The validator   *)
(* list of an intermediate iteration is kept unshuffled: only the set of   *)
(* validators matters to the next kickout.                                 *)
ElectStep(prevEpoch, kickout, now, st) ==
    LET doKick == kickout /\ st.left > 0
        cands  == IF doKick THEN KickoutValidator(prevEpoch, now, st.cands, st.vals)
                  ELSE st.cands
        ctbs   == CountContributions(cands)
    IN  IF \/ doKick /\ st.vals = <<>>
           \/ cands = {}
           \/ Cardinality(cands) < SafeSize
        THEN [st EXCEPT !.ok = FALSE]
        ELSE [ok |-> TRUE, cands |-> cands, vals |-> Elect(ctbs), ctbs |-> ctbs,
              left |-> IF kickout /\ st.left > 0 THEN st.left - 1 ELSE st.left]

RECURSIVE ElectLoop(_, _, _, _, _, _)
ElectLoop(i, currentEpoch, prevEpoch, kickout, now, st) ==
    IF i >= currentEpoch \/ ~st.ok THEN st
    ELSE ElectLoop(i + 1, currentEpoch, prevEpoch, kickout, now,
                   ElectStep(prevEpoch, kickout, now, st))

MintEntries(epoch) == Cardinality({v \in Addr : mintCnt[epoch][v] > 0})

(* tryElect(genesis, parent) for a block with timestamp now.               *)
TryElect(now) ==
    LET parentEpoch  == EpochOf(parentTime)
        currentEpoch == EpochOf(now)
        isGenesis    == parentEpoch = GenesisEpoch
        prevEpoch    == IF isGenesis /\ parentEpoch < currentEpoch
                        THEN currentEpoch - 1 ELSE parentEpoch
    IN  ElectLoop(prevEpoch, currentEpoch, prevEpoch, ~isGenesis, now,
                  [ok |-> TRUE, cands |-> candidates, vals |-> validators,
                   ctbs |-> electedCtb, left |-> MintEntries(prevEpoch)])

-----------------------------------------------------------------------------
Init ==
    /\ candidates = GenesisValidators
    /\ validators \in SetToSeqs(GenesisValidators)
    /\ electedCtb = [a \in {} |-> 0]
    /\ mintCnt = [e \in Epochs |-> [a \in Addr |-> 0]]
    /\ contribution = [a \in Addr |-> 0]
    /\ parentTime = 0
    /\ firstBlockTime = 0

(* applyPocMessage, LoginCandidate: BecomeCandidate(from).                 *)
LoginCandidate(a) ==
    /\ candidates' = candidates \cup {a}
    /\ UNCHANGED <<validators, electedCtb, mintCnt, contribution, parentTime, firstBlockTime>>

(* applyPocMessage, LogoutCandidate: KickoutCandidate(from); deleting an   *)
(* absent key is not an error.                                             *)
LogoutCandidate(a) ==
    /\ candidates' = candidates \ {a}
    /\ UNCHANGED <<validators, electedCtb, mintCnt, contribution, parentTime, firstBlockTime>>

(* ApplyDataMessage awards 2 units for ConfirmationData and 1 unit for     *)
(* TransferData to the sender's contribution.                              *)
AddContribution(a, units) ==
    /\ contribution[a] + units <= MaxContribution
    /\ contribution' = [contribution EXCEPT ![a] = @ + units]
    /\ UNCHANGED <<candidates, validators, electedCtb, mintCnt, parentTime, firstBlockTime>>

(* A block with timestamp t: its sealer is looked up in the parent's       *)
(* validator list, Finalize runs tryElect and then credits the sealer in   *)
(* mintCntTrie for the block's epoch.  The shuffle of the elected list is  *)
(* seeded by the parent hash; any permutation may result.                  *)
MintBlock(t) ==
    /\ t % BlockInterval = 0
    /\ validators # <<>>
    /\ LET res    == TryElect(t)
           sealer == LookupValidator(t)
       IN  /\ res.ok
           /\ candidates' = res.cands
           /\ IF EpochOf(t) = EpochOf(parentTime)
              THEN validators' = validators
              ELSE validators' \in SetToSeqs(Range(res.vals))
           /\ electedCtb' = res.ctbs
           /\ mintCnt' = [mintCnt EXCEPT ![EpochOf(t)][sealer] = @ + 1]
    /\ firstBlockTime' = IF firstBlockTime = 0 THEN t ELSE firstBlockTime
    /\ parentTime' = t
    /\ UNCHANGED contribution

Next ==
    \/ \E a \in Addr : LoginCandidate(a)
    \/ \E a \in Addr : LogoutCandidate(a)
    \/ \E a \in Addr, u \in {1, 2} : AddContribution(a, u)
    \/ \E t \in (parentTime + 1)..MaxTime : MintBlock(t)

Spec == Init /\ [][Next]_vars

(* The node's miner tries to seal a block on top of the head every         *)
(* blockInterval; a block that can be sealed eventually is.                *)
Fairness == WF_vars(\E t \in (parentTime + 1)..MaxTime : MintBlock(t))

LiveSpec == Spec /\ Fairness

-----------------------------------------------------------------------------
TypeOK ==
    /\ candidates \subseteq Addr
    /\ validators \in Seq(Addr)
    /\ IsInjective(validators) /\ Len(validators) <= MaxValidatorSize
    /\ DOMAIN electedCtb \subseteq Addr
    /\ mintCnt \in [Epochs -> [Addr -> Nat]]
    /\ contribution \in [Addr -> 0..MaxContribution]
    /\ parentTime \in 0..MaxTime
    /\ firstBlockTime \in 0..MaxTime

(* A block step: the chain head advances.                                  *)
BlockStep == parentTime' # parentTime

(* The previous epoch whose mint counts a block's kickouts read.           *)
KickoutEpoch == EpochOf(parentTime)

(* Candidate d ranks above candidate c in spec.md section 4.3 step 3:     *)
(* contribution descending, ties broken by ascending address.             *)
RanksAbove(ctbs, d, c) ==
    ctbs[d] > ctbs[c] \/ (ctbs[d] = ctbs[c] /\ d < c)

(* tryElect elects, from the second block of an epoch on, exactly the      *)
(* candidates of the last election that fewer than maxValidatorSize       *)
(* candidates rank above.  Stated by counting ranks, apart from the        *)
(* sortableAddresses.Less that Elect sorts by, so it catches a comparator  *)
(* that orders weights or ties differently from the spec as well as a      *)
(* wrong truncation, and it relates the shuffled validator list of one     *)
(* block to the contribution snapshot taken at the epoch's first block.    *)
ElectedAreTopContributors ==
    DOMAIN electedCtb # {} =>
        Range(validators) =
            {c \in DOMAIN electedCtb :
                Quantify(DOMAIN electedCtb, LAMBDA d : RanksAbove(electedCtb, d, c))
                    < MaxValidatorSize}

(* kickoutValidator keeps the pool at SafeSize: whenever at least SafeSize *)
(* candidates exist, the next block to start a new epoch can be sealed,    *)
(* i.e. the kickouts of tryElect never leave too few candidates for its    *)
(* election, however many epochs the block skips.                          *)
ElectionSucceedsWithSafePool ==
    (Cardinality(candidates) >= SafeSize /\ validators # <<>>) =>
        \A t \in (parentTime + 1)..MaxTime :
            EpochOf(t) # EpochOf(parentTime) => TryElect(t).ok

(* kickoutValidator removes the least productive validators first: no      *)
(* validator that stays a candidate minted fewer blocks in the previous    *)
(* epoch than one a block removed.                                         *)
KickoutSparesProductive ==
    [][BlockStep =>
        \A k \in candidates \ candidates', s \in Range(validators) \cap candidates' :
            mintCnt[KickoutEpoch][k] <= mintCnt[KickoutEpoch][s]]_vars

(* A kickout punishes a validator for under-producing in the epoch whose   *)
(* mint counts it reads: every candidate a block removes was a validator   *)
(* of the parent's epoch.                                                  *)
KickoutOnlyPrevValidators ==
    [][BlockStep => candidates \ candidates' \subseteq Range(validators)]_vars

(* The chain keeps growing while the candidate pool stays at SafeSize or   *)
(* more: however logins, logouts and contributions interleave with blocks, *)
(* and however the kickouts of tryElect thin the pool, the head eventually *)
(* reaches the last timestamp.  A pool drained by logouts (the premise     *)
(* false) halts the chain at the next epoch boundary by design.            *)
ChainProgresses ==
    [](Cardinality(candidates) >= SafeSize) => <>(parentTime = MaxTime)

=============================================================================
