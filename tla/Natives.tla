------------------------------ MODULE Natives ------------------------------
(***************************************************************************)
(* The native contracts (pkg/core/native) on the state database: the Sai   *)
(* token, nonces (Ledger), code (Management), the committee and the state  *)
(* validators (Designate) and the fees (Policy), with the caches of the    *)
(* last two.  An account is a tuple; a public key is a number and stands   *)
(* for its bytes, so the order of keys is the order of numbers.            *)
(***************************************************************************)
EXTENDS StateDB

CONSTANTS
    Nodes,             \* the public keys that may be designated
    ValidatorsCount,   \* of the configuration
    MaxNodeCount,      \* designate.go: 21
    DefaultPrice,      \* policy.go: DefaultGasPrice
    WriteFee           \* contracts.go: defaultNativeWriteFee

VARIABLES
    height,            \* of the ledger
    cache              \* DesignationCache and policyCache

Roles == {"committee", "stateval"}

ASSUME NativesAssumption ==
    /\ Nodes \subseteq Nat /\ ValidatorsCount \in Nat \ {0} /\ MaxNodeCount \in Nat
    /\ DefaultPrice \in Nat /\ WriteFee \in Nat

---------------------------------------------------------------------------
(* Sai: balances and the total supply *)

OrZero(item) == IF item = None THEN 0 ELSE item

GetBalance(d, a) == OrZero(Item(d, <<"bal", a>>))

\* Mutant: the total is saved only with the account, not when the account is dropped.
AddTokens_KeepsSupply(d, a, amount) ==
    LET key == <<"bal", a>>
        old == Item(d, key)
        new == OrZero(old) + amount
    IN  IF amount = 0 \/ new < 0 THEN d
        ELSE IF old # None /\ new = 0 THEN Put(d, key, None)
        ELSE Put(Put(d, key, new), <<"supply">>, OrZero(Item(d, <<"supply">>)) + amount)

\* addTokens; its error is ignored by AddBalance and SubBalance.
AddTokens(d, a, amount) ==
    LET key == <<"bal", a>>
        old == Item(d, key)
        new == OrZero(old) + amount
    IN  IF amount = 0 \/ new < 0 THEN d
        ELSE Put(Put(d, key, IF old # None /\ new = 0 THEN None ELSE new),
                 <<"supply">>, OrZero(Item(d, <<"supply">>)) + amount)

(* Ledger *)
GetNonce(d, a) == OrZero(Item(d, <<"nonce", a>>))
SetNonce(d, a, n) == Put(d, <<"nonce", a>>, n)

(* Management.  Code is what the model tells apart of it: "code" or "empty". *)
GetCode(d, a) == Item(d, <<"code", a>>)
SetCode(d, a, code) == Put(d, <<"code", a>>, code)

\* Destroy deletes the key of the contract under the address of the contract
\* instead of Management's: an item that is never there.
Destroy(d, a) == IF GetCode(d, a) = None THEN d ELSE Put(d, <<"codeOfItself", a>>, None)

\* StateDB.Empty
Empty(d, a) == GetBalance(d, a) = 0 /\ GetCode(d, a) = None /\ GetNonce(d, a) = 0

---------------------------------------------------------------------------
(* Designate *)

\* createCommitteeAddress, and the address of one key
Account(n) == <<"node", n>>
CommitteeAddress(nodes) ==
    IF Cardinality(nodes) = 1 THEN Account(CHOOSE n \in nodes : TRUE) ELSE <<"committee", nodes>>

\* GetDesignatedByRoleFromStorage: the entry with the highest index that counts.
DesignatedFromStorage(d, role, index) ==
    LET known == {i \in 0..index : Item(d, <<"role", role, i>>) # None}
    IN  IF known = {} THEN [nodes |-> {}, height |-> 0]
        ELSE [nodes |-> Item(d, <<"role", role, Max(known)>>), height |-> Max(known)]

\* The highest index there can be an entry for, in place of MaxUint32.
LastIndex == height + 3

\* Mutant: the cache is used whatever the index.
Designated_NoHeight(d, role, index) == cache[role]

\* GetDesignatedByRole
Designated(d, role, index) ==
    IF cache[role].height <= index THEN cache[role] ELSE DesignatedFromStorage(d, role, index)

CommitteeAt(d, index) == Designated(d, "committee", index).nodes

\* GetValidators: the first keys of the sorted committee.  It panics when there
\* are too few.
Validators(d, index) ==
    LET nodes == CommitteeAt(d, index)
    IN  {n \in nodes : Cardinality({m \in nodes : m < n}) < ValidatorsCount}

\* GetSysAddresses
SysAddresses(d, index) ==
    {Account(n) : n \in CommitteeAt(d, index)}
        \cup {CommitteeAddress(CommitteeAt(d, index)), <<"validators", Validators(d, index)>>}

\* checkCommittee, for the block that is being executed
FromCommittee(d, sender) == sender = CommitteeAddress(CommitteeAt(d, height + 1))

\* The index from which a designation of this block counts.
DesignateIndex(role) == height + 1 + (IF role = "committee" THEN 2 ELSE 1)

\* designateAsRole
DesignateAsRole(d, sender, role, nodes) ==
    LET index == DesignateIndex(role)
    IN  IF /\ FromCommittee(d, sender)
           /\ nodes # {} /\ Cardinality(nodes) <= MaxNodeCount
           /\ role = "committee" => Cardinality(nodes) >= ValidatorsCount
           /\ sender = CommitteeAddress(CommitteeAt(d, index))
        THEN AddLog(Put(d, <<"role", role, index>>, nodes), <<"designate", role>>)
        ELSE None

---------------------------------------------------------------------------
(* Policy *)

GasPriceFromStorage(d) ==
    LET item == Item(d, <<"price">>) IN IF item = None THEN DefaultPrice ELSE item

\* setGasPrice (and setFeePerByte, which has the same shape)
SetGasPrice(d, sender, price) ==
    IF FromCommittee(d, sender) THEN AddLog(Put(d, <<"price">>, price), <<"price">>) ELSE None

IsBlocked(d, a) == Item(d, <<"blocked", a>>) # None

\* checkSystem: system accounts are never blocked.
CheckSystem(d, a) == a \notin SysAddresses(d, height + 1)

\* blockAccount and unblockAccount
SetBlocked(d, sender, a, blocked) ==
    IF FromCommittee(d, sender) /\ CheckSystem(d, a) /\ IsBlocked(d, a) # blocked
    THEN AddLog(Put(d, <<"blocked", a>>, IF blocked THEN TRUE ELSE None), <<"block", blocked>>)
    ELSE None

---------------------------------------------------------------------------
(* UpdateCache of both contracts, from the store that PostPersist is given *)
UpdateRoles(d) == [role \in Roles |-> DesignatedFromStorage(d, role, LastIndex)]
UpdateCache(d) == With(UpdateRoles(d), "price", GasPriceFromStorage(d))

\* RequiredGas of the two contracts: blocking is free, and so is a call that names
\* no method.
DesignateGas(call) == IF call.method = "designateAsRole" THEN WriteFee ELSE 0
PolicyGas(call) == IF call.method = "setGasPrice" THEN WriteFee ELSE 0
RequiredGas(call) == DesignateGas(call) + PolicyGas(call)

\* contractCall: the new state, or None for an error.  initialize is refused
\* after the first block, and unknown methods and short inputs always are.
ContractCall(d, sender, call) ==
    CASE call.method = "designateAsRole" -> DesignateAsRole(d, sender, call.role, call.nodes)
      [] call.method = "setGasPrice" -> SetGasPrice(d, sender, call.price)
      [] call.method = "block" -> SetBlocked(d, sender, call.account, call.blocked)
      [] OTHER -> None
=============================================================================
