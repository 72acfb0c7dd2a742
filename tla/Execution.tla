----------------------------- MODULE Execution -----------------------------
(***************************************************************************)
(* The execution of blocks: storeBlock runs the transactions of a block    *)
(* one after the other, each in the EVM (pkg/vm/evm.go), whose call frames *)
(* take snapshots of the state database.  The code of a contract is        *)
(* arbitrary: a running frame may take any instruction that touches the    *)
(* state, and may fail at any moment (no gas, invalid opcode, stack).      *)
(* What the interpreter does inside a frame is the subject of Interpreter. *)
(***************************************************************************)
EXTENDS Natives

CONSTANTS
    TxGas, NetFee,         \* gas limit of a transaction, and its network fee in gas
    Values,                \* amounts that calls transfer
    SlotValues,            \* values of the one storage slot of a contract; 0 is the zero word
    NodeSets,              \* the sets of nodes that transactions try to designate
    Prices,                \* gas prices the committee may set
    Contracts,             \* the accounts with code in the beginning
    UserBalance, ContractBalance,
    MaxDepth,              \* params.CallCreateDepth
    MaxHeight, MaxTxs,     \* bounds: blocks and transactions
    MaxUserTxs,            \* and how many of the first transactions run contracts
    GasReserve,            \* evm.go: 64, a call leaves its caller one part in 64
    Cost                   \* the gas costs of params, scaled down

\* Addresses of contracts are hashes, and differ from those of keys and users.
ASSUME ContractsAssumption ==
    /\ IsFiniteSet(Contracts)
    /\ \A c \in Contracts : c[1] \notin {"node", "committee", "user"}

ASSUME AmountsAssumption ==
    /\ {TxGas, NetFee, UserBalance, ContractBalance} \subseteq Nat /\ GasReserve \in Nat \ {0}
    /\ Values \subseteq Nat /\ SlotValues \subseteq Nat /\ Prices \subseteq Nat
    /\ \A name \in DOMAIN Cost : Cost[name] \in Nat
    /\ {"warm", "cold", "coldSload", "set", "reset", "clears", "sentry", "value", "stipend", "newAccount",
        "precompile", "log", "create", "codeDeposit", "destruct", "refundQuotient"} \subseteq DOMAIN Cost
    /\ Cost.refundQuotient # 0
    /\ None \notin Int

VARIABLES
    phase,                 \* of storeBlock: "idle", "block", "exec", "post"
    tx,                    \* the transaction being executed
    frames,                \* the running call frames
    left,                  \* the gas the outermost call gave back
    readOnly,              \* EVMInterpreter.readOnly
    result,                \* what the last call returned: "ok", "err"; "none" otherwise
    txs,                   \* transactions executed so far
    failed                 \* the last block was executed and not stored

vars == <<disk, db, height, cache, phase, tx, frames, left, readOnly, result, txs, failed>>

User == <<"user">>
Precompile == <<"precompile">>
Native == <<"native">>      \* any of the four native contracts, told apart by the method
Nobody == <<"nobody">>      \* an account that does not exist at first
Targets == Contracts \cup {Precompile, Native, Nobody}

Committee0 == {n \in Nodes : Cardinality({m \in Nodes : m < n}) < ValidatorsCount}

\* The calls of native methods: the one that counts, and all that fail alike.
NativeCalls ==
    {[method |-> "designateAsRole", role |-> r, nodes |-> ns] : r \in Roles, ns \in NodeSets}
        \cup {[method |-> "setGasPrice", price |-> p] : p \in Prices}
        \cup {[method |-> "block", account |-> a, blocked |-> b] : a \in {User, Account(1)}, b \in BOOLEAN}
        \cup {[method |-> "initialize"]}

\* The calls contracts make of natives: enough for the check of the sender.
ContractNativeCalls == {[method |-> "setGasPrice", price |-> p] : p \in Prices}

---------------------------------------------------------------------------
(* Gas *)

\* makeGasSStoreFunc(SstoreClearsScheduleRefundEIP3529): what the refund counter
\* gets for a write of v to a slot not written yet, and to one that was.
CleanRefund(original, v) == IF original # 0 /\ v = 0 THEN Cost.clears ELSE 0

DirtyRefund(original, current, v) ==
    (CASE original # 0 /\ current = 0 -> -Cost.clears
       [] original # 0 /\ current # 0 /\ v = 0 -> Cost.clears
       [] OTHER -> 0)
    + (CASE original = v /\ original = 0 -> Cost.set - Cost.warm
         [] original = v /\ original # 0 -> Cost.reset - Cost.coldSload - Cost.warm
         [] OTHER -> 0)

\* The whole of it: cost and refund.  original is what the block's own store has.
\* It panics on a cold slot of an address that is not in the access list, which
\* is the subject of SelfListed.
SstoreGas(d, a, v) ==
    LET current == OrZero(Item(d, <<"slot", a>>))
        original == OrZero(ItemAt(d, 1, <<"slot", a>>))
        cold == IF InAccessList(d, <<"slot", a>>) THEN 0 ELSE Cost.coldSload
    IN  CASE current = v -> [gas |-> cold + Cost.warm, refund |-> 0]
          [] current # v /\ original = current ->
                [gas |-> cold + (IF original = 0 THEN Cost.set ELSE Cost.reset - Cost.coldSload),
                 refund |-> CleanRefund(original, v)]
          [] OTHER -> [gas |-> cold + Cost.warm, refund |-> DirtyRefund(original, current, v)]

\* makeCallVariantGasCallEIP2929 and gasCall: access, new account, value.
CallCost(d, kind, a, value) ==
    (IF InAccessList(d, a) THEN Cost.warm ELSE Cost.cold)
        + (IF kind = "call" /\ value # 0 /\ Empty(d, a) THEN Cost.newAccount ELSE 0)
        + (IF value # 0 THEN Cost.value ELSE 0)

\* callGas for a caller that asks for all it can get.
AllButReserve(gas) == gas - gas \div GasReserve

---------------------------------------------------------------------------
(* Transfer and CanTransfer of newEVMBlockContext *)

CanTransfer(d, a, value) == GetBalance(d, a) > value
Transfer(d, from, to, value) == AddTokens(AddTokens(d, from, -value), to, value)

NewFrame(kind, self, sender, gas, snap) ==
    [kind |-> kind, self |-> self, sender |-> sender, gas |-> gas, snap |-> snap,
     setsReadOnly |-> kind = "static" /\ ~readOnly]

\* The outcome of a call that runs no code: gas given back, and the state.
Done(d, gas, res) == [run |-> FALSE, db |-> d, gas |-> gas, res |-> res]
Runs(d, frame) == [run |-> TRUE, db |-> d, frame |-> frame]

\* RunPrecompiledContract and RunNativeContract, and what the call does with an
\* error of theirs: back to the snapshot, and all gas is gone.
RunDirect(d, ready, gas, cost, after) ==
    IF gas < cost \/ after = None
    THEN Done(RevertToSnapshot(ready, SnapshotId(d)), 0, "err")
    ELSE Done(after, gas - cost, "ok")

\* What the four kinds of call have in common, once the state is ready: the code at
\* a runs as self, called by caller.  A call of an account without code succeeds at
\* once, and so does one of an account that does not exist.  The snapshot is kept
\* either way.
Invoke(kind, d, ready, from, self, caller, a, gas, input) ==
    CASE a = Precompile -> RunDirect(d, ready, gas, Cost.precompile, ready)
      [] a = Native -> RunDirect(d, ready, gas, RequiredGas(input), ContractCall(ready, from, input))
      [] OTHER -> IF GetCode(d, a) # "code" THEN Done(ready, gas, "ok")
                  ELSE Runs(ready, NewFrame(kind, self, caller, gas, SnapshotId(d)))

TooDeep == Len(frames) > MaxDepth

\* The calls on the state d, by the account from (caller.Address()).
Call(d, from, a, gas, value, input) ==
    IF TooDeep \/ (value # 0 /\ ~CanTransfer(d, from, value)) THEN Done(d, gas, "err")
    ELSE Invoke("call", d, Transfer(Snapshot(d), from, a, value), from, a, from, a, gas, input)

\* The balance is asked for even when no value goes with the call.
CallCode(d, from, a, gas, value, input) ==
    IF TooDeep \/ ~CanTransfer(d, from, value) THEN Done(d, gas, "err")
    ELSE Invoke("callcode", d, Snapshot(d), from, from, from, a, gas, input)

\* The caller of the callee is the caller's own caller, sender; a native contract
\* still sees the caller itself.
DelegateCall(d, from, sender, a, gas, input) ==
    IF TooDeep THEN Done(d, gas, "err")
    ELSE Invoke("delegate", d, Snapshot(d), from, from, sender, a, gas, input)

StaticCall(d, from, a, gas, input) ==
    IF TooDeep THEN Done(d, gas, "err")
    ELSE Invoke("static", d, Snapshot(d), from, a, from, a, gas, input)

\* Create and Create2: the address, from the nonce or from the one salt modelled.
CreateAddress(kind, d, from) ==
    IF kind = "create" THEN <<"new", from, GetNonce(d, from)>> ELSE <<"new2", from>>

\* Mutant: the address of the new contract is not noted as accessed.
Deploy_Unlisted(kind, d, from, gas, value) ==
    LET address == CreateAddress(kind, d, from)
        noted == SetNonce(d, from, GetNonce(d, from) + 1)
        taken == GetNonce(noted, address) # 0 \/ GetCode(noted, address) \notin {None, "empty"}
        ready == Transfer(SetNonce(Snapshot(noted), address, 1), from, address, value)
    IN  IF TooDeep \/ ~CanTransfer(d, from, value) THEN Done(d, gas, "err")
        ELSE IF taken THEN Done(noted, 0, "err")
        ELSE Runs(ready, NewFrame(kind, address, from, gas, SnapshotId(noted)))

\* create: nonce and access list are changed before the snapshot and stay changed.
Deploy(kind, d, from, gas, value) ==
    LET address == CreateAddress(kind, d, from)
        noted == AddToAccessList(SetNonce(d, from, GetNonce(d, from) + 1), {address})
        taken == GetNonce(noted, address) # 0 \/ GetCode(noted, address) \notin {None, "empty"}
        ready == Transfer(SetNonce(Snapshot(noted), address, 1), from, address, value)
    IN  IF TooDeep \/ ~CanTransfer(d, from, value) THEN Done(d, gas, "err")
        ELSE IF taken THEN Done(noted, 0, "err")
        ELSE Runs(ready, NewFrame(kind, address, from, gas, SnapshotId(noted)))

---------------------------------------------------------------------------
(* The frames *)

Top == frames[Len(frames)]
Running == phase = "exec" /\ frames # << >>

\* Gas that a finished call gives back goes to its caller, or to storeBlock.
GiveBack(fs, gas) ==
    IF fs = << >> THEN frames' = fs /\ left' = gas
    ELSE frames' = [fs EXCEPT ![Len(fs)].gas = @ + gas] /\ left' = left

\* The rest of the instruction that made the call, or of the transaction's start,
\* for the frames fs of the callers.
Enter(fs, outcome) ==
    /\ db' = outcome.db
    /\ IF outcome.run
       THEN /\ frames' = Append(fs, outcome.frame)
            /\ readOnly' = (readOnly \/ outcome.frame.setsReadOnly)
            /\ result' = "none"
            /\ UNCHANGED left
       ELSE /\ GiveBack(fs, outcome.gas)
            /\ result' = outcome.res
            /\ UNCHANGED readOnly

\* Mutant: the flag goes with the first static frame that ends.
Leave_AnyStatic(d, gas, res) ==
    /\ db' = IF res = "ok" THEN d ELSE RevertToSnapshot(d, Top.snap)
    /\ GiveBack(SubSeq(frames, 1, Len(frames) - 1), IF res = "fault" THEN 0 ELSE gas)
    /\ result' = IF res = "ok" THEN "ok" ELSE "err"
    /\ readOnly' = (readOnly /\ Top.kind # "static")

\* The end of a frame: an error takes the state back, and the gas unless it is
\* ErrExecutionReverted.  The flag goes with the frame that has set it.
Leave(d, gas, res) ==
    /\ db' = IF res = "ok" THEN d ELSE RevertToSnapshot(d, Top.snap)
    /\ GiveBack(SubSeq(frames, 1, Len(frames) - 1), IF res = "fault" THEN 0 ELSE gas)
    /\ result' = IF res = "ok" THEN "ok" ELSE "err"
    /\ readOnly' = (readOnly /\ ~Top.setsReadOnly)

\* An instruction that costs gas and calls nothing.
Spend(gas) ==
    /\ Top.gas >= gas
    /\ frames' = [frames EXCEPT ![Len(frames)].gas = @ - gas]
    /\ result' = "none"
    /\ UNCHANGED <<left, readOnly>>

block == <<disk, height, cache, phase, tx, txs, failed>>

---------------------------------------------------------------------------
(* The instructions *)

\* opSload
Sload ==
    /\ Running
    /\ db' = AddToAccessList(db, {<<"slot", Top.self>>})
    /\ Spend(IF InAccessList(db, <<"slot", Top.self>>) THEN Cost.warm ELSE Cost.coldSload)
    /\ UNCHANGED block

\* opSstore and its gas
Sstore(v) ==
    LET charge == SstoreGas(db, Top.self, v)
    IN  /\ Running /\ ~readOnly
        /\ Top.gas > Cost.sentry
        /\ db' = Put(AddRefund(AddToAccessList(db, {<<"slot", Top.self>>}), charge.refund),
                     <<"slot", Top.self>>, v)
        /\ Spend(charge.gas)
        /\ UNCHANGED block

\* makeLog
Log ==
    /\ Running /\ ~readOnly
    /\ db' = AddLog(db, Top.self)
    /\ Spend(Cost.log)
    /\ UNCHANGED block

\* opCall, opCallCode, opDelegateCall, opStaticCall, and their gas
CallOp(kind, a, value, input) ==
    LET cost == CallCost(db, kind, a, value)
        given == AllButReserve(Top.gas - cost)
        granted == given + (IF value # 0 THEN Cost.stipend ELSE 0)
        noted == AddToAccessList(db, {a})
        rest == [frames EXCEPT ![Len(frames)].gas = @ - cost - given]
    IN  /\ Running
        /\ value # 0 => kind \in {"call", "callcode"}
        /\ kind = "call" /\ value # 0 => ~readOnly
        /\ Top.gas >= cost
        /\ Enter(rest, CASE kind = "call" -> Call(noted, Top.self, a, granted, value, input)
                         [] kind = "callcode" -> CallCode(noted, Top.self, a, granted, value, input)
                         [] kind = "delegate" -> DelegateCall(noted, Top.self, Top.sender, a, granted, input)
                         [] kind = "static" -> StaticCall(noted, Top.self, a, granted, input))
        /\ UNCHANGED block

\* opCreate, opCreate2
CreateOp(kind, value) ==
    LET given == AllButReserve(Top.gas - Cost.create)
        rest == [frames EXCEPT ![Len(frames)].gas = @ - Cost.create - given]
    IN  /\ Running /\ ~readOnly
        /\ Top.gas >= Cost.create
        /\ Enter(rest, Deploy(kind, db, Top.self, given, value))
        /\ UNCHANGED block

\* What create does with the code its frame returns.
Finish(d, gas, code) ==
    IF Top.kind \in {"create", "create2"}
    THEN LET deposit == IF code = "code" THEN Cost.codeDeposit ELSE 0
         IN  gas >= deposit /\ Leave(SetCode(d, Top.self, code), gas - deposit, "ok")
    ELSE code = "empty" /\ Leave(d, gas, "ok")

\* opSelfdestruct: the balance is added to the beneficiary and not taken away.
Selfdestruct(to) ==
    LET noted == AddToAccessList(db, {to})
        cost == Cost.destruct + (IF InAccessList(db, to) THEN 0 ELSE Cost.cold)
                  + (IF Empty(db, to) /\ GetBalance(db, Top.self) # 0 THEN Cost.newAccount ELSE 0)
    IN  /\ Running /\ ~readOnly
        /\ Top.gas >= cost
        /\ Finish(Destroy(AddTokens(noted, to, GetBalance(db, Top.self)), Top.self), Top.gas - cost, "empty")
        /\ UNCHANGED block

\* STOP and RETURN.  Code that is too long or reserved, or that cannot be paid
\* for, is one of the faults below.
Return(code) == Running /\ Finish(db, Top.gas, code) /\ UNCHANGED block

Revert == Running /\ Leave(db, Top.gas, "reverted") /\ UNCHANGED block

\* Every other error of the interpreter, no gas and the read-only checks included.
Fault == Running /\ Leave(db, Top.gas, "fault") /\ UNCHANGED block

---------------------------------------------------------------------------
(* storeBlock *)

StartBlock ==
    /\ phase = "idle" /\ height < MaxHeight
    /\ phase' = "block"
    /\ db' = << EmptyStore >>
    /\ UNCHANGED <<disk, height, cache, tx, frames, left, readOnly, result, txs, failed>>

GasPrice == IF height = 0 THEN DefaultPrice ELSE cache.price

\* Whether its sender can pay for the transaction is not asked here; that is up to
\* the verification of blocks.
BeginTx(from, to, value, input) ==
    LET fresh == PrepareAccessList(db, {from, Precompile} \cup ({to} \ {None}))
        gas == TxGas - NetFee
    IN  /\ phase = "block" /\ txs < MaxTxs
        /\ phase' = "exec"
        /\ tx' = [from |-> from, gas |-> gas, price |-> GasPrice]
        /\ txs' = txs + 1
        /\ Enter(<< >>, IF to = None THEN Deploy("create", fresh, from, gas, value)
                        ELSE Call(fresh, from, to, gas, value, input))
        /\ UNCHANGED <<disk, height, cache, failed>>

\* After the outermost call: nonce, fees and refund, and Commit.
Coinbase == Account(CHOOSE n \in Validators(db, height + 1) :
                        \A m \in Validators(db, height + 1) : n <= m)

FinishTx ==
    LET used == TxGas - left
        nonced == SetNonce(db, tx.from, GetNonce(db, tx.from) + 1)
        primary == AddTokens(nonced, Coinbase, NetFee * tx.price)
        shared == IF tx.gas > left
                  THEN AddTokens(primary, CommitteeAddress(CommitteeAt(<< >>, height + 1)), (tx.gas - left) * tx.price)
                  ELSE primary
        refund == IF Current(db).fund > used \div Cost.refundQuotient
                  THEN used \div Cost.refundQuotient ELSE Current(db).fund
    IN  /\ phase = "exec" /\ frames = << >>
        /\ db' = Commit(AddTokens(shared, tx.from, -((used - refund) * tx.price)))
        /\ phase' = "block" /\ tx' = None /\ left' = 0 /\ result' = "none"
        /\ UNCHANGED <<disk, height, cache, frames, readOnly, txs, failed>>

\* postPersist: the caches are updated before the block is stored.
PostPersist ==
    /\ phase = "block"
    /\ phase' = "post"
    /\ cache' = UpdateCache(db)
    /\ UNCHANGED <<disk, db, height, tx, frames, left, readOnly, result, txs, failed>>

\* The state root is computed and the block is stored, or one of them fails.
Persist ==
    /\ phase = "post"
    /\ disk' = Merged(db) /\ height' = height + 1
    /\ phase' = "idle" /\ db' = << EmptyStore >> /\ failed' = FALSE
    /\ UNCHANGED <<cache, tx, frames, left, readOnly, result, txs>>

StoreFails ==
    /\ phase = "post" /\ ~failed
    /\ phase' = "idle" /\ db' = << EmptyStore >> /\ failed' = TRUE
    /\ UNCHANGED <<disk, height, cache, tx, frames, left, readOnly, result, txs>>

\* A restart: the caches are read from the disk (initializeNativeCache).
Restart ==
    /\ phase = "idle" /\ failed
    /\ cache' = UpdateCache(<< >>) /\ failed' = FALSE
    /\ UNCHANGED <<disk, db, height, phase, tx, frames, left, readOnly, result, txs>>

---------------------------------------------------------------------------
(* The genesis block: initialize of Sai, Designate and Policy, and contracts
   that were deployed before. *)
GenesisBalance(a) ==
    IF a \in Contracts THEN ContractBalance
    ELSE IF a = User THEN UserBalance ELSE TxGas * DefaultPrice * 2

Genesis ==
    [key \in {<<"bal", a>> : a \in Contracts \cup {User, CommitteeAddress(Committee0)}}
                \cup {<<"code", c>> : c \in Contracts} \cup {<<"slot", c>> : c \in Contracts}
                \cup {<<"role", "committee", 0>>, <<"supply">>} |->
        CASE key[1] = "bal" -> GenesisBalance(key[2])
          [] key[1] = "code" -> "code"
          [] key[1] = "slot" -> 1
          [] key[1] = "role" -> Committee0
          [] key[1] = "supply" ->
                TxGas * DefaultPrice * 2 + UserBalance + Cardinality(Contracts) * ContractBalance]

Init ==
    /\ disk = Genesis /\ db = << EmptyStore >> /\ height = 1
    /\ cache = UpdateCache(<< >>)
    /\ phase = "idle" /\ tx = None /\ frames = << >> /\ left = 0
    /\ readOnly = FALSE /\ result = "none" /\ txs = 0 /\ failed = FALSE

UserTx == txs < MaxUserTxs /\ \E to \in Targets \cup {None}, v \in Values, input \in ContractNativeCalls :
              /\ (to # Native => input = CHOOSE i \in ContractNativeCalls : TRUE)
              /\ BeginTx(User, to, v, input)
CommitteeTx == \E input \in NativeCalls :
                   BeginTx(CommitteeAddress(CommitteeAt(db, height + 1)), Native, 0, input)

Next ==
    \/ Sload \/ Log \/ Revert \/ Fault
    \/ \E v \in SlotValues : Sstore(v)
    \/ \E kind \in {"call", "callcode", "delegate", "static"}, a \in Targets, v \in Values :
           \E input \in IF a = Native THEN ContractNativeCalls ELSE {[method |-> "initialize"]} :
               CallOp(kind, a, v, input)
    \/ \E kind \in {"create", "create2"}, v \in Values : CreateOp(kind, v)
    \/ \E to \in {User, Nobody} : Selfdestruct(to)
    \/ \E code \in {"empty", "code"} : Return(code)
    \/ StartBlock \/ UserTx \/ CommitteeTx \/ FinishTx
    \/ PostPersist \/ Persist \/ StoreFails \/ Restart

Spec == Init /\ [][Next]_vars

---------------------------------------------------------------------------
(* Properties *)

\* A call that fails, whatever it has called itself, leaves its caller with the
\* state of the moment of the call, logs, refunds and access list included; and
\* no frame touches what an open call would go back to.  Successful calls leave
\* their layers behind, so ids of snapshots and layers drift apart.
OutsideFrame(c) == [items |-> [key \in {k \in DOMAIN c.items : k[1] # "nonce"} |-> c.items[key]],
                    fund |-> c.fund, logs |-> c.logs]
SamePreparation(c, e) == OutsideFrame(c) = OutsideFrame(e)
Calls == INSTANCE NestedCalls WITH
             Prepared <- SamePreparation,
             cur <- Seen(db, Len(db)),
             saved <- [i \in 1..Len(frames) |-> Seen(db, frames[i].snap + 1)],
             result <- result
FramesAtomic == Calls!Spec

\* The total supply that Sai keeps is the sum of the balances, in every state a
\* transaction or a block can see, although transfers, fees, refunds, reverted
\* frames, destroyed contracts and emptied accounts all change it on their own.
SupplyIsSum ==
    LET seen == Seen(db, Len(db)).items
        accounts == {key \in DOMAIN seen : key[1] = "bal"}
        Amount(key) == seen[key]
    IN  seen[<<"supply">>] = MapThenSumSet(Amount, accounts)

\* While a static call is open nothing that is stored changes: not by nested
\* calls of any kind, by creations, by natives (which know nothing of readOnly
\* and are kept out only by their check of the sender), nor by reverts.
StaticOpen == \E i \in 1..Len(frames) : frames[i].kind = "static"
StaticWritesNothing ==
    [][StaticOpen /\ StaticOpen' => /\ Seen(db', Len(db')).items = Seen(db, Len(db)).items
                                    /\ Current(db').logs = Current(db).logs]_vars

\* The address a frame runs as is in the access list as long as the frame is open,
\* whatever its calls and creations list and their failures take back: storeBlock
\* prepares the list, calls and create add to it before their snapshot.  An SSTORE
\* in a block therefore never meets the panic of makeGasSStoreFunc on an address
\* that is not listed.
SelfListed == \A i \in 1..Len(frames) : InAccessList(db, frames[i].self)

\* The answer of the caches to who validates the next block is the answer of the
\* store, at every moment: while a block is executed, between PostPersist and the
\* writing of the block, and after a block that failed to be stored.
CommitteeAgrees ==
    \A role \in Roles :
        Designated(<< >>, role, height + 1) = DesignatedFromStorage(<< >>, role, height + 1)
=============================================================================
