------------------------------ MODULE Opcodes ------------------------------
(***************************************************************************)
(* The instruction set the EVM runs (pkg/vm/opcodes.go, jump_table.go and  *)
(* eips.go): newMergeInstructionSet, since newEVMBlockContext always sets  *)
(* Random.  An entry has the number of items an instruction takes from and *)
(* leaves on the stack, and its constant gas.                              *)
(***************************************************************************)
EXTENDS Integers, Sequences, TLC

\* Gas costs of params that are too large for a small instance, by name, and the
\* highest stack.
CONSTANTS Cost, StackLimit

\* gas.go
GasQuickStep == 2
GasFastestStep == 3
GasFastStep == 5
GasMidStep == 8
GasSlowStep == 10
GasExtStep == 20

Entry(pops, pushes, gas) == [pops |-> pops, pushes |-> pushes, gas |-> gas]
All(names, entry) == [name \in names |-> entry]

---------------------------------------------------------------------------
(* The bytes of the instructions *)

Rows ==
    ( 0 :> <<"STOP", "ADD", "MUL", "SUB", "DIV", "SDIV", "MOD", "SMOD", "ADDMOD", "MULMOD", "EXP",
             "SIGNEXTEND">>) @@
    (16 :> <<"LT", "GT", "SLT", "SGT", "EQ", "ISZERO", "AND", "OR", "XOR", "NOT", "BYTE", "SHL",
             "SHR", "SAR">>) @@
    (32 :> <<"KECCAK256">>) @@
    (48 :> <<"ADDRESS", "BALANCE", "ORIGIN", "CALLER", "CALLVALUE", "CALLDATALOAD", "CALLDATASIZE",
             "CALLDATACOPY", "CODESIZE", "CODECOPY", "GASPRICE", "EXTCODESIZE", "EXTCODECOPY",
             "RETURNDATASIZE", "RETURNDATACOPY", "EXTCODEHASH">>) @@
    (64 :> <<"BLOCKHASH", "COINBASE", "TIMESTAMP", "NUMBER", "RANDOM", "GASLIMIT", "CHAINID",
             "SELFBALANCE", "BASEFEE">>) @@
    (80 :> <<"POP", "MLOAD", "MSTORE", "MSTORE8", "SLOAD", "SSTORE", "JUMP", "JUMPI", "PC", "MSIZE",
             "GAS", "JUMPDEST">>) @@
    (240 :> <<"CREATE", "CALL", "CALLCODE", "RETURN", "DELEGATECALL", "CREATE2">>) @@
    (250 :> <<"STATICCALL">>) @@ (253 :> <<"REVERT">>) @@ (255 :> <<"SELFDESTRUCT">>)

\* The instruction of a byte: its name, and its size where it has one.
OpCode ==
    LET Single(b) == {<<r, i>> \in (DOMAIN Rows) \X (1..16) : r + i - 1 = b /\ i \in DOMAIN Rows[r]}
        Named(b) == LET at == CHOOSE at \in Single(b) : TRUE IN Rows[at[1]][at[2]]
    IN  [b \in 0..255 |->
            CASE b \in 96..127 -> [name |-> "PUSH", n |-> b - 95]
              [] b \in 128..143 -> [name |-> "DUP", n |-> b - 127]
              [] b \in 144..159 -> [name |-> "SWAP", n |-> b - 143]
              [] b \in 160..164 -> [name |-> "LOG", n |-> b - 160]
              [] b \notin 96..164 /\ Single(b) # {} -> [name |-> Named(b), n |-> 0]
              [] OTHER -> [name |-> "UNDEFINED", n |-> 0]]

STOP == 0
JUMPDEST == 91
ByteOf(name) == CHOOSE b \in 0..255 : OpCode[b].name = name

---------------------------------------------------------------------------
(* The jump table *)

Arithmetic ==
    All({"ADD", "SUB"}, Entry(2, 1, GasFastestStep)) @@
    All({"MUL", "DIV", "SDIV", "MOD", "SMOD", "SIGNEXTEND"}, Entry(2, 1, GasFastStep)) @@
    All({"ADDMOD", "MULMOD"}, Entry(3, 1, GasMidStep)) @@
    All({"EXP"}, Entry(2, 1, 0))

Comparison ==
    All({"LT", "GT", "SLT", "SGT", "EQ", "AND", "OR", "XOR", "BYTE"}, Entry(2, 1, GasFastestStep)) @@
    All({"ISZERO", "NOT"}, Entry(1, 1, GasFastestStep))

Shifts == All({"SHL", "SHR", "SAR"}, Entry(2, 1, GasFastestStep))

\* Constant gas after enable1884, enable2200 and enable2929.
Accounts ==
    All({"BALANCE", "EXTCODESIZE", "EXTCODEHASH"}, Entry(1, 1, Cost.warm)) @@
    All({"EXTCODECOPY"}, Entry(4, 0, Cost.warm)) @@
    All({"SLOAD"}, Entry(1, 1, 0)) @@
    All({"SELFDESTRUCT"}, Entry(1, 0, Cost.destruct))

Closure ==
    All({"ADDRESS", "ORIGIN", "CALLER", "CALLVALUE", "CALLDATASIZE", "CODESIZE", "GASPRICE"},
        Entry(0, 1, GasQuickStep)) @@
    All({"CALLDATALOAD"}, Entry(1, 1, GasFastestStep)) @@
    All({"CALLDATACOPY", "CODECOPY"}, Entry(3, 0, GasFastestStep)) @@
    All({"KECCAK256"}, Entry(2, 1, Cost.keccak))

Block ==
    All({"BLOCKHASH"}, Entry(1, 1, GasExtStep)) @@
    All({"COINBASE", "TIMESTAMP", "NUMBER", "GASLIMIT"}, Entry(0, 1, GasQuickStep))

\* RANDOM, BASEFEE, CHAINID and SELFBALANCE, of later forks.
LaterBlock ==
    All({"RANDOM", "BASEFEE", "CHAINID"}, Entry(0, 1, GasQuickStep)) @@
    All({"SELFBALANCE"}, Entry(0, 1, GasFastStep))

Flow ==
    All({"STOP"}, Entry(0, 0, 0)) @@
    All({"POP"}, Entry(1, 0, GasQuickStep)) @@
    All({"MLOAD"}, Entry(1, 1, GasFastestStep)) @@
    All({"MSTORE", "MSTORE8"}, Entry(2, 0, GasFastestStep)) @@
    All({"SSTORE"}, Entry(2, 0, 0)) @@
    All({"JUMP"}, Entry(1, 0, GasMidStep)) @@
    All({"JUMPI"}, Entry(2, 0, GasSlowStep)) @@
    All({"PC", "MSIZE", "GAS"}, Entry(0, 1, GasQuickStep)) @@
    All({"JUMPDEST"}, Entry(0, 0, Cost.jumpdest))

Calls ==
    All({"CREATE"}, Entry(3, 1, Cost.create)) @@
    All({"CALL", "CALLCODE"}, Entry(7, 1, Cost.warm)) @@
    All({"RETURN"}, Entry(2, 0, 0))

\* DELEGATECALL, and what Byzantium and Constantinople add.
LaterCalls ==
    All({"DELEGATECALL", "STATICCALL"}, Entry(6, 1, Cost.warm)) @@
    All({"REVERT"}, Entry(2, 0, 0)) @@
    All({"CREATE2"}, Entry(4, 1, Cost.create)) @@
    All({"RETURNDATASIZE"}, Entry(0, 1, GasQuickStep)) @@
    All({"RETURNDATACOPY"}, Entry(3, 0, GasFastestStep))

Undefined == All({"UNDEFINED"}, Entry(0, 0, 0))

Named == Arithmetic @@ Comparison @@ Shifts @@ Accounts @@ Closure @@ Block @@ LaterBlock @@ Flow
             @@ Calls @@ LaterCalls @@ Undefined

\* The families with a size.
PushEntry(n) == Entry(0, 1, GasFastestStep)
DupEntry(n) == Entry(n, n + 1, GasFastestStep)
SwapEntry(n) == Entry(n + 1, n + 1, GasFastestStep)
LogEntry(n) == Entry(n + 2, 0, 0)

JumpTable ==
    [b \in 0..255 |->
        LET op == OpCode[b]
        IN  CASE op.name = "PUSH" -> PushEntry(op.n)
              [] op.name = "DUP" -> DupEntry(op.n)
              [] op.name = "SWAP" -> SwapEntry(op.n)
              [] op.name = "LOG" -> LogEntry(op.n)
              [] OTHER -> Named[op.name]]

\* stack_table.go
MinStack(entry) == entry.pops
MaxStack(entry) == StackLimit + entry.pops - entry.pushes
=============================================================================
