-------------------------------- MODULE TxPool --------------------------------
(***************************************************************************)
(* The pool of unconfirmed transactions (pkg/core/mempool/mem_pool.go) and *)
(* the ledger around it (PoolTx, AddBlock and storeBlock of                *)
(* pkg/core/blockchain.go): transactions are verified and pooled, blocks   *)
(* are made of the pool of some validator and verified by the others       *)
(* (verifyBlock of pkg/consensus/consensus.go), and after each block the   *)
(* pool is filtered.  PoolTx holds the read lock and the end of storeBlock *)
(* the write lock of the ledger, so each of them is one step.              *)
(***************************************************************************)
EXTENDS Integers, SequencesExt, FiniteSetsExt

CONSTANTS
    Txs,              \* transactions: id (order of the hashes), from, nonce, price, gas, value, feePerByte, creates
    Accounts,         \* senders
    InitialBalance,   \* balance of each sender
    Capacity,         \* capacity of the pool
    GasPrice,         \* gas price of the policy contract
    MaxFeePerByte,    \* bound: fee per byte the policy contract may ask for
    MaxBlockTxs,      \* MaxTransactionsPerBlock
    MaxHeight,        \* bound: blocks
    MaxDebt,          \* bound: how far below zero a sum of fees may drift
    None              \* no entry

ASSUME TxsAssumption ==
    \A t \in Txs : /\ t.from \in Accounts /\ t.creates \in BOOLEAN
                   /\ {t.id, t.nonce, t.price, t.gas, t.value, t.feePerByte} \subseteq Nat
ASSUME PoolAssumption ==
    /\ Capacity \in Nat \ {0} /\ InitialBalance \in Nat /\ GasPrice \in Nat
    /\ MaxFeePerByte \in Nat \ {0} /\ MaxBlockTxs \in Nat /\ MaxHeight \in Nat
    /\ MaxDebt \in Nat
ASSUME NoneAssumption == None \notin Txs /\ None \notin [balance : Int, feeSum : Int]

VARIABLES
    VerifyTransactions,  \* configuration, never changed; FALSE in every one that is shipped
    verifiedTxes,    \* the pooled transactions, most prioritized first
    verifiedMap,     \* the same transactions by hash
    fees,            \* sender -> its cached balance and the sum of its costs, or None
    poolFeePerByte,  \* feePerByte of the pool
    nonce, balance,  \* the state of the ledger
    feePerByte,      \* and its policy
    confirmed,       \* transactions in blocks
    height,          \* blockHeight
    checked,         \* the block of the next height that verifyBlock last accepted
    disturbed        \* history: senders with a replacement or an eviction
                     \* since the pool was last filtered

ledgerVars == <<VerifyTransactions, nonce, balance, feePerByte, confirmed, height>>
vars == <<VerifyTransactions, verifiedTxes, verifiedMap, fees, poolFeePerByte, nonce, balance, feePerByte,
          confirmed, height, checked, disturbed>>

Cost(t) == t.gas * t.price + t.value

(* CompareTo: t is prioritized over u.                                     *)
Before(t, u) ==
    \/ t.price > u.price
    \/ t.price = u.price /\ t.gas > u.gas
    \/ t.price = u.price /\ t.gas = u.gas /\ t.id > u.id

-----------------------------------------------------------------------------
(* Add.                                                                    *)

Entry(a) == IF fees[a] = None THEN [balance |-> balance[a], feeSum |-> 0] ELSE fees[a]

(* Mutant: the other pooled transactions of the sender are forgotten.      *)
CheckBalance_NoSum(t, e) == e.balance >= Cost(t)

(* checkBalance.                                                           *)
CheckBalance(t, e) == e.balance >= Cost(t) /\ e.balance >= Cost(t) + e.feeSum

(* checkTxConflicts: pooled transactions that t may replace; the iteration *)
(* over the map picks one of them.                                         *)
Conflicts(t) == {u \in verifiedMap : u.from = t.from /\ u.nonce = t.nonce /\ u.price < t.price}

(* checkTxConflicts subtracts in a copy of the entry, but the words of a   *)
(* big.Int are shared by its copies: the values the entry itself may have  *)
(* afterwards.  The sign is not shared, nor are the words when the result  *)
(* needs a new array or the number had none.                               *)
SharedSub(sum, cost) ==
    IF sum >= cost THEN {sum - cost}
    ELSE IF sum > 0 THEN {cost - sum, sum}
    ELSE IF sum = 0 THEN {0, cost}
    ELSE {sum, sum - cost}

(* The position of the binary search, and the copy that makes room.        *)
InsertSorted(s, t) ==
    LET n == Cardinality({i \in DOMAIN s : Before(s[i], t)})
    IN  InsertAt(s, n + 1, t)

HasTransaction(t) == t \in confirmed

(* Mutant: any nonce the sender has not used yet.                          *)
Verified_Ahead(t) ==
    /\ t.price >= GasPrice /\ t.feePerByte >= feePerByte
    /\ ~HasTransaction(t)
    /\ t.nonce >= nonce[t.from]

(* verifyAndPoolTx up to Add: what depends on the state of the ledger.     *)
Verified(t) ==
    /\ t.price >= GasPrice /\ t.feePerByte >= feePerByte
    /\ ~HasTransaction(t)
    /\ t.nonce = nonce[t.from]

(* removeInternal, if there is one to remove: the list and the sum without *)
(* u.                                                                      *)
RemoveInternal(u, sum) ==
    LET num == CHOOSE i \in DOMAIN verifiedTxes : verifiedTxes[i] = u
    IN  IF u = None THEN [txes |-> verifiedTxes, sum |-> sum]
        ELSE [txes |-> RemoveAt(verifiedTxes, num), sum |-> sum - Cost(u)]

(* Add of a transaction that fits, in place of u unless u is None; sum is  *)
(* the entry's sum as checkTxConflicts left it.                            *)
AddFitting(t, u, sum) ==
    LET removed == RemoveInternal(u, sum)
        txes == removed.txes
        full == Len(txes) = Capacity
        unlucky == txes[Len(txes)]
        rest == IF full THEN Front(txes) ELSE txes
    IN  /\ full => Before(t, unlucky)
        /\ verifiedTxes' = InsertSorted(rest, t)
        /\ verifiedMap' = (verifiedMap \ ({u} \cup IF full THEN {unlucky} ELSE {})) \cup {t}
        /\ fees' = [fees EXCEPT ![t.from] = [balance |-> Entry(t.from).balance,
                                             feeSum |-> removed.sum + Cost(t)]]
        /\ disturbed' = disturbed \cup (IF u = None THEN {} ELSE {t.from})
                                  \cup (IF full THEN {unlucky.from} ELSE {})

(* PoolTx without a transaction to replace.                                *)
PoolTx(t) ==
    /\ Verified(t) /\ t \notin verifiedMap /\ Conflicts(t) = {}
    /\ CheckBalance(t, Entry(t.from))
    /\ AddFitting(t, None, Entry(t.from).feeSum)
    /\ UNCHANGED <<poolFeePerByte, ledgerVars, checked>>

(* PoolTx in place of a transaction with the same nonce and a lower price. *)
ReplaceTx(t) ==
    /\ Verified(t) /\ t \notin verifiedMap /\ Entry(t.from).feeSum >= -MaxDebt
    /\ \E u \in Conflicts(t) : \E sum \in SharedSub(Entry(t.from).feeSum, Cost(u)) :
          /\ CheckBalance(t, [Entry(t.from) EXCEPT !.feeSum = @ - Cost(u)])
          /\ AddFitting(t, u, sum)
    /\ UNCHANGED <<poolFeePerByte, ledgerVars, checked>>

(* The sender cannot pay for the replacement; its entry has changed.       *)
ReplaceRefused(t) ==
    /\ Verified(t) /\ t \notin verifiedMap /\ Entry(t.from).feeSum >= -MaxDebt
    /\ \E u \in Conflicts(t) : \E sum \in SharedSub(Entry(t.from).feeSum, Cost(u)) :
          /\ ~CheckBalance(t, [Entry(t.from) EXCEPT !.feeSum = @ - Cost(u)])
          /\ fees' = [fees EXCEPT ![t.from].feeSum = sum]
    /\ disturbed' = disturbed \cup {t.from}
    /\ UNCHANGED <<verifiedTxes, verifiedMap, poolFeePerByte, ledgerVars, checked>>

-----------------------------------------------------------------------------
(* RemoveStale.                                                            *)

NoFees == [a \in Accounts |-> None]

(* Mutant: the cost is checked but not added up.                           *)
Filter_NoSum(acc, t, bal, drop) ==
    LET old == acc.fees[t.from]
        e == IF old = None THEN [balance |-> bal[t.from], feeSum |-> 0] ELSE old
    IN  IF t \in drop THEN acc
        ELSE IF CheckBalance(t, e)
             THEN [txes |-> Append(acc.txes, t), fees |-> [acc.fees EXCEPT ![t.from] = e]]
             ELSE [acc EXCEPT !.fees[t.from] = e]

(* One iteration of its loop: the filtered list and the new entries, built *)
(* with the balances bal of the ledger; drop are the transactions of the   *)
(* block and those below the policy.                                       *)
Filter(acc, t, bal, drop) ==
    LET old == acc.fees[t.from]
        e == IF old = None THEN [balance |-> bal[t.from], feeSum |-> 0] ELSE old
    IN  IF t \in drop THEN acc
        ELSE IF CheckBalance(t, e)
             THEN [txes |-> Append(acc.txes, t),
                   fees |-> [acc.fees EXCEPT ![t.from] = [e EXCEPT !.feeSum = @ + Cost(t)]]]
             ELSE [acc EXCEPT !.fees[t.from] = e]

(* IsTxStillRelevant looks for t among the transactions of the block only. *)
IsTxStillRelevant(t, block) == t \notin block

(* loadPolicy and checkPolicy: only a risen fee counts.                    *)
CheckPolicy(t, fee) == fee > poolFeePerByte => t.feePerByte >= fee

RemoveStale(block, bal, fee) ==
    LET drop == {t \in verifiedMap : ~(IsTxStillRelevant(t, block) /\ CheckPolicy(t, fee))}
        res == FoldLeft(LAMBDA acc, t : Filter(acc, t, bal, drop),
                        [txes |-> <<>>, fees |-> NoFees], verifiedTxes)
    IN  /\ verifiedTxes' = res.txes
        /\ verifiedMap' = ToSet(res.txes)
        /\ fees' = res.fees
        /\ poolFeePerByte' = IF fee > poolFeePerByte THEN fee ELSE poolFeePerByte
        /\ disturbed' = {}

-----------------------------------------------------------------------------
(* Blocks.                                                                 *)

CostsUpTo(s, k, a) == MapThenSumSet(LAMBDA i : Cost(s[i]), {i \in 1 .. k : s[i].from = a})

(* The verification of a block with a pool of its own: each transaction is *)
(* in the pool or passes verification now, and the senders can pay for all *)
(* of theirs, one after the other.  Blocks are ordered by priority, as the *)
(* pool of the proposer was, so none replaces another.                     *)
BlockVerified(s) ==
    \A k \in DOMAIN s :
        /\ s[k] \in verifiedMap \/ Verified(s[k])
        /\ CostsUpTo(s, k, s[k].from) <= balance[s[k].from]

(* The gas t is charged for: what the execution uses of it, never nothing, *)
(* as the network fee comes first.  A transaction that offers less than    *)
(* the network fee, which no verification lets pass, is executed with gas  *)
(* that wrapped below zero, and charged for more than it offers.           *)
UsedGas(t, left) ==
    IF t.feePerByte < feePerByte THEN t.gas + 1 + left
    ELSE IF t.gas > left THEN t.gas - left ELSE t.gas

(* One transaction of storeBlock.  The value moves unless the execution    *)
(* fails, as it does unless the sender has more; a creation takes a nonce  *)
(* of its own; and a charge the sender cannot pay is refused as a whole.   *)
Execute(acc, t, ok, left) ==
    LET payer == t.from
        has == acc.balance[payer] > t.value
        rest == acc.balance[payer] - IF ok /\ has THEN t.value ELSE 0
        charge == UsedGas(t, left) * GasPrice
    IN  [nonce |-> [acc.nonce EXCEPT ![payer] = @ + IF t.creates /\ has THEN 2 ELSE 1],
         balance |-> [acc.balance EXCEPT ![payer] = IF rest >= charge THEN rest - charge ELSE rest]]

(* What blocks and proposals may be: some of the transactions, most        *)
(* prioritized first.                                                      *)
Blocks == {s \in SeqOf(Txs, MaxBlockTxs) :
              \A i, j \in DOMAIN s : i < j => Before(s[i], s[j])}

(* verifyBlock: what this node checks as a validator before it answers a   *)
(* proposal.  The ledger stays as it is until the height grows, which ends *)
(* the verification.                                                       *)
VerifyBlock(s) ==
    /\ height < MaxHeight
    /\ BlockVerified(s)
    /\ checked' = s
    /\ UNCHANGED <<verifiedTxes, verifiedMap, fees, poolFeePerByte, ledgerVars, disturbed>>

(* AddBlock and storeBlock for the block of the transactions s, signed by  *)
(* the validators.  Whether its transactions pass is asked again, but the  *)
(* answer counts only with VerifyTransactions.  The block may raise the    *)
(* fee per byte.                                                           *)
AddBlock(s, ok, left, fee) ==
    LET block == ToSet(s)
        res == FoldLeft(LAMBDA acc, t : Execute(acc, t, ok, left),
                        [nonce |-> nonce, balance |-> balance], s)
    IN  /\ height < MaxHeight
        /\ VerifyTransactions => BlockVerified(s)
        /\ height' = height + 1
        /\ nonce' = res.nonce
        /\ balance' = res.balance
        /\ confirmed' = confirmed \cup block
        /\ feePerByte' = fee
        /\ checked' = <<>>
        /\ UNCHANGED VerifyTransactions
        /\ RemoveStale(block, res.balance, fee)

(* getVerifiedTx: the pool, or in a later view what was proposed before,   *)
(* as far as it is in the pool, unless too little of it is.  `last` is     *)
(* lastProposal, empty in view 0.                                          *)
GetVerifiedTx(last) ==
    LET pooled == FoldLeft(LAMBDA txx, t : IF t \in verifiedMap THEN Append(txx, t) ELSE txx,
                           <<>>, last)
    IN  IF last = <<>> \/ Len(pooled) < Len(last) \div 2 THEN verifiedTxes ELSE pooled

(* ApplyPolicyToTxSet: the first of them.  The limits on size and gas cut  *)
(* off more, which takes nothing from what the rest must satisfy.          *)
ApplyPolicyToTxSet(txes) == SubSeq(txes, 1, IF Len(txes) > MaxBlockTxs THEN MaxBlockTxs ELSE Len(txes))

(* What this node proposes, whatever another primary has proposed before.  *)
Proposals == {ApplyPolicyToTxSet(GetVerifiedTx(last)) : last \in Blocks}

-----------------------------------------------------------------------------
Init ==
    /\ VerifyTransactions \in BOOLEAN
    /\ verifiedTxes = <<>> /\ verifiedMap = {} /\ fees = NoFees /\ poolFeePerByte = 0
    /\ nonce = [a \in Accounts |-> 0] /\ balance = [a \in Accounts |-> InitialBalance]
    /\ feePerByte = 1 /\ confirmed = {} /\ height = 0 /\ checked = <<>> /\ disturbed = {}

Next ==
    \/ \E t \in Txs : PoolTx(t) \/ ReplaceTx(t) \/ ReplaceRefused(t)
    \/ \E s \in Blocks :
          \/ VerifyBlock(s)
          \/ \E ok \in BOOLEAN, left \in 0 .. 1, fee \in feePerByte .. MaxFeePerByte :
                AddBlock(s, ok, left, fee)

Spec == Init /\ [][Next]_vars

-----------------------------------------------------------------------------
(* Properties.                                                             *)
PooledCost(a) == MapThenSumSet(Cost, {t \in verifiedMap : t.from = a})

(* Unless one of its transactions was replaced or evicted since the last   *)
(* block, the sum kept for a sender is the cost of its pooled              *)
(* transactions, and its balance covers it: what Add, tryAddSendersFee and *)
(* RemoveStale keep up between them.                                       *)
FeesExact ==
    \A a \in Accounts \ disturbed :
        /\ fees[a] # None => fees[a].balance = balance[a] /\ fees[a].feeSum = PooledCost(a)
        /\ PooledCost(a) <= balance[a]

(* A node proposes no transaction a second time; and as long as nothing    *)
(* was replaced or evicted since the last block, what it proposes passes   *)
(* its own verification of blocks, in view 0 and in later ones             *)
(* (IsTxStillRelevant, getVerifiedTx and ApplyPolicyToTxSet against        *)
(* verifyBlock).                                                           *)
ProposalVerified ==
    \A s \in Proposals :
        /\ ToSet(s) \cap confirmed = {}
        /\ disturbed = {} => BlockVerified(s)

(* A block this node has verified executes no transaction ahead of its     *)
(* turn.  Without VerifyTransactions that is a block its verifyBlock has   *)
(* accepted at this height, whatever happened to the pool since; what only *)
(* others vouch for AddBlock stores with whatever nonces it has.  With     *)
(* VerifyTransactions it is every block, and a transaction that comes too  *)
(* late, with a nonce its sender has passed, is then one this node has     *)
(* pooled while it was valid and not verified again: a second one of a     *)
(* nonce, which Add pools beside the first and RemoveStale leaves there    *)
(* (AddBlock, verifyBlock, verifyAndPoolTx, IsTxStillRelevant).            *)
NeverEarly ==
    [][\A t \in confirmed' \ confirmed :
          /\ (VerifyTransactions \/ (confirmed' \ confirmed) \subseteq ToSet(checked)) =>
                t.nonce <= nonce[t.from]
          /\ (VerifyTransactions /\ t.nonce < nonce[t.from]) =>
                /\ t \in verifiedMap
                /\ \E u \in confirmed : u.from = t.from /\ u.nonce <= t.nonce]_vars
=============================================================================
