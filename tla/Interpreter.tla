---------------------------- MODULE Interpreter ----------------------------
(***************************************************************************)
(* EVMInterpreter.Run (pkg/vm/interpreter.go): one call frame that         *)
(* executes code, and RunPrecompiledContract for the frames that have      *)
(* none.  Words, uint64, memory and gas are scaled down together; the      *)
(* contents of memory, storage and input are arbitrary words, their sizes  *)
(* are exact.  Where Go would panic (a slice out of range, a pop of an     *)
(* empty stack, a nil function) the frame ends as "panic".  abort is never *)
(* set, since nothing calls Cancel.                                        *)
(***************************************************************************)
EXTENDS Opcodes, Precompiles, Bitwise

CONSTANTS
    WordBits, ByteBits,    \* of a word and of one of its bytes (256 and 8)
    MaxMemory,             \* gas_table.go: 0x1FFFFFFFE0
    Words,                 \* what code may find in memory, storage, input and state
    Lengths,               \* of other accounts' code, and of what calls return
    InputLength,           \* of the call data
    Self,                  \* the address of the contract, one of the words
    BlockNumber,
    Reserve,               \* gas.go, instructions.go: 64
    Frames, Inputs         \* what frames are started with: code or input, gas, and for code
                           \* whether the address is in the access list

VARIABLES
    code,          \* contract.Code, a sequence of bytes
    input,         \* of a precompiled contract; its name and contents
    readOnly,
    pc, stack,
    gas, limit,    \* contract.Gas, and what it was in the beginning
    mem,           \* the length of the memory, and lastGasCost
    warm,          \* the access list
    prepared,      \* history: the address of the contract was in it from the beginning
    returned,      \* the length of returnData
    status,        \* "run", "precompile" and how the frame ended
    built          \* bytes that a precompiled contract built

constant == <<code, input, readOnly, limit, prepared>>
vars == <<constant, pc, stack, gas, mem, warm, returned, status, built>>

WordMod == 2^WordBits
U == MaxUint + 1

---------------------------------------------------------------------------
(* Stack, memory and gas *)

\* Stack.Back; nothing checks that the item is there but Run.
Back(n) == stack[Len(stack) - n]

\* common.go: calcMemSize64 and calcMemSize64WithUint; -1 for an overflow.
CalcMemSize(offset, length) ==
    LET val == (offset + length) % U
    IN  IF length >= U \/ (length # 0 /\ (offset >= U \/ val < offset)) THEN -1
        ELSE IF length = 0 THEN 0 ELSE val

ToWordSize(size) ==
    IF size > MaxUint - (WordBytes - 1) THEN MaxUint \div WordBytes + 1
    ELSE (size + WordBytes - 1) \div WordBytes

\* memory_table.go: the parts of the memory an instruction uses.
MemoryUse(name) ==
    CASE name \in {"KECCAK256", "RETURN", "REVERT", "LOG"} -> {<<Back(0), Back(1)>>}
      [] name \in {"CALLDATACOPY", "CODECOPY", "RETURNDATACOPY"} -> {<<Back(0), Back(2)>>}
      [] name = "EXTCODECOPY" -> {<<Back(1), Back(3)>>}
      [] name \in {"MLOAD", "MSTORE"} -> {<<Back(0), WordBytes>>}
      [] name = "MSTORE8" -> {<<Back(0), 1>>}
      [] name \in {"CREATE", "CREATE2"} -> {<<Back(1), Back(2)>>}
      [] name \in {"CALL", "CALLCODE"} -> {<<Back(5), Back(6)>>, <<Back(3), Back(4)>>}
      [] name \in {"DELEGATECALL", "STATICCALL"} -> {<<Back(4), Back(5)>>, <<Back(2), Back(3)>>}
      [] OTHER -> {}

\* The memory size of an instruction in bytes, in whole words; -1 for an overflow.
MemorySize(name) ==
    LET sizes == {CalcMemSize(use[1], use[2]) : use \in MemoryUse(name)}
        bytes == ToWordSize(Max(sizes \cup {0})) * WordBytes
    IN  IF -1 \in sizes \/ bytes >= U THEN -1 ELSE bytes

\* What the memory costs that has that many words.
Fee(words) == (words * Cost.memory + ((words * words) % U) \div Cost.quad) % U

\* Mutant: no limit on the size.
MemoryGasCost_NoLimit(size) ==
    LET total == Fee(ToWordSize(size))
    IN  IF size <= mem.len THEN [err |-> FALSE, fee |-> 0, mem |-> mem]
        ELSE [err |-> FALSE, fee |-> (total - mem.fee) % U, mem |-> [len |-> size, fee |-> total]]

\* memoryGasCost, and the Resize that follows if it can be paid.
MemoryGasCost(size) ==
    LET total == Fee(ToWordSize(size))
    IN  IF size > MaxMemory THEN [err |-> TRUE]
        ELSE IF size <= mem.len THEN [err |-> FALSE, fee |-> 0, mem |-> mem]
        ELSE [err |-> FALSE, fee |-> (total - mem.fee) % U, mem |-> [len |-> size, fee |-> total]]

\* memoryCopierGas, gasKeccak256, gasCreate2: gas for each word of an operand.
PerWord(name) ==
    CASE name = "KECCAK256" -> ToWordSize(Back(1)) * Cost.keccakWord
      [] name = "CREATE2" -> ToWordSize(Back(2)) * Cost.keccakWord
      [] name \in {"CALLDATACOPY", "CODECOPY", "RETURNDATACOPY"} -> ToWordSize(Back(2)) * Cost.copy
      [] name = "EXTCODECOPY" -> ToWordSize(Back(3)) * Cost.copy
      [] OTHER -> 0

\* makeGasLog, gasExpEIP158
LogGas(n) == Cost.log + n * Cost.logTopic + Back(1) * Cost.logData
ExpGas == Cost.exp + Cost.expByte * Cardinality({i \in 0..(WordBytes - 1) : Back(1) >= 2^(ByteBits * i)})

\* operations_acl.go: what an instruction adds to the access list (a slot brings
\* its address along), and what it costs when that is not there.
Touched(name) ==
    CASE name \in {"SLOAD", "SSTORE"} -> {<<"slot", Back(0)>>, <<"addr", Self>>}
      [] name \in {"BALANCE", "EXTCODESIZE", "EXTCODEHASH", "EXTCODECOPY", "SELFDESTRUCT"} -> {<<"addr", Back(0)>>}
      [] name \in {"CALL", "CALLCODE", "DELEGATECALL", "STATICCALL"} -> {<<"addr", Back(1)>>}
      [] OTHER -> {}

\* makeGasSStoreFunc panics for a slot that is not in the list when the address is
\* not either.  PrepareAccessList puts the address of a transaction's contract
\* there, call and create those of nested frames; GetTestVM does not.
SstorePanics == <<"slot", Back(0)>> \notin warm /\ <<"addr", Self>> \notin warm

AccessGas(name) ==
    LET cold == ~(Touched(name) \subseteq warm)
    IN  CASE name = "SLOAD" -> IF cold THEN Cost.coldSload ELSE Cost.warm
          [] name = "SSTORE" -> IF cold THEN Cost.coldSload ELSE 0
          [] name = "SELFDESTRUCT" -> IF cold THEN Cost.cold ELSE 0
          [] OTHER -> IF cold THEN Cost.cold - Cost.warm ELSE 0

\* What depends on the state database: SSTORE by the values of the slot (see
\* SstoreGas in Execution), and accounts that a transfer brings into being.
StateCosts(name) ==
    CASE name = "SSTORE" -> {Cost.warm, Cost.set, Cost.reset - Cost.coldSload}
      [] name = "CALL" /\ Back(2) # 0 -> {0, Cost.newAccount}
      [] name = "SELFDESTRUCT" -> {0, Cost.newAccount}
      [] OTHER -> {0}

\* gas.go: callGas.  The difference is a uint64 and wraps when base is too much.
CallGas(available, base, wanted) ==
    LET rest == (available - base) % U
        most == rest - rest \div Reserve
    IN  IF wanted >= U \/ most < wanted THEN most ELSE wanted

CallOps == {"CALL", "CALLCODE", "DELEGATECALL", "STATICCALL"}

\* Mutant: the gas handed to the call is not part of its cost.
CallCharge_NotGiven(name, available, fee, extra) ==
    LET cold == AccessGas(name)
        base == fee + extra + (IF name \in {"CALL", "CALLCODE"} /\ Back(2) # 0 THEN Cost.value ELSE 0)
    IN  [err |-> available < cold, cost |-> base + cold, given |-> CallGas(available - cold, base, Back(0))]

\* makeCallVariantGasCallEIP2929 over gasCall and its variants: the cold access is
\* charged before the call's gas is computed, and added to the sum unchecked.
CallCharge(name, available, fee, extra) ==
    LET cold == AccessGas(name)
        base == fee + extra + (IF name \in {"CALL", "CALLCODE"} /\ Back(2) # 0 THEN Cost.value ELSE 0)
        given == CallGas(available - cold, base, Back(0))
    IN  [err |-> available < cold \/ base + given >= U, cost |-> (base + given + cold) % U, given |-> given]

\* dynamicGas of every other instruction.  Sums of uint64 are checked.
PlainCharge(op, available, fee, extra) ==
    LET cost == fee + extra + PerWord(op.name) + AccessGas(op.name)
                  + (IF op.name = "LOG" THEN LogGas(op.n) ELSE 0)
                  + (IF op.name = "EXP" THEN ExpGas ELSE 0)
    IN  [err |-> cost >= U \/ (op.name = "SSTORE" /\ available <= Cost.sentry), cost |-> cost, given |-> 0]

Broke == [err |-> TRUE, panics |-> FALSE]

\* The stack is checked before anything is read from it.
Checked(entry) == Len(stack) >= MinStack(entry) /\ Len(stack) <= MaxStack(entry)

\* The part of Run before execute: stack, constant gas, memory, dynamic gas.
Charge(op, entry, extra) ==
    LET available == gas - entry.gas
        size == MemorySize(op.name)
        memory == MemoryGasCost(size)
        charge == IF op.name \in CallOps THEN CallCharge(op.name, available, memory.fee, extra)
                  ELSE PlainCharge(op, available, memory.fee, extra)
    IN  IF available < 0 THEN Broke
        ELSE IF size = -1 THEN Broke
        ELSE IF memory.err THEN Broke
        ELSE IF op.name = "SSTORE" /\ available > Cost.sentry /\ SstorePanics THEN [err |-> TRUE, panics |-> TRUE]
        ELSE IF charge.err \/ available < charge.cost THEN Broke
        ELSE [err |-> FALSE, gas |-> available - charge.cost, mem |-> memory.mem, given |-> charge.given]

---------------------------------------------------------------------------
(* Values *)

Signed(x) == IF x >= WordMod \div 2 THEN x - WordMod ELSE x
Unsigned(x) == x % WordMod
Abs(x) == IF x < 0 THEN -x ELSE x
Sign(x) == IF x < 0 THEN -1 ELSE 1
Bool(b) == IF b THEN 1 ELSE 0
Power(x, n) ==
    LET p[e \in 0..n] == IF e = 0 THEN 1
                         ELSE LET half == p[e \div 2] IN (((half * half) % WordMod) * (IF e % 2 = 1 THEN x ELSE 1)) % WordMod
    IN  p[n]

Calculations == {"ADD", "SUB", "MUL", "DIV", "SDIV", "MOD", "SMOD", "EXP", "SIGNEXTEND"}
Comparisons == {"NOT", "LT", "GT", "SLT", "SGT", "EQ", "ISZERO", "AND", "OR", "XOR", "BYTE"}
ModsAndShifts == {"ADDMOD", "MULMOD", "SHL", "SHR", "SAR"}

\* The results of uint256, for operands x (on top), y and z.  opAdd ... opSignExtend:
Calculate(name, x, y) ==
    CASE name = "ADD" -> Unsigned(x + y)
      [] name = "SUB" -> Unsigned(x - y)
      [] name = "MUL" -> Unsigned(x * y)
      [] name = "DIV" -> IF y = 0 THEN 0 ELSE x \div y
      [] name = "SDIV" -> IF y = 0 THEN 0
                          ELSE Unsigned(Sign(Signed(x)) * Sign(Signed(y)) * (Abs(Signed(x)) \div Abs(Signed(y))))
      [] name = "MOD" -> IF y = 0 THEN 0 ELSE x % y
      [] name = "SMOD" -> IF y = 0 THEN 0 ELSE Unsigned(Sign(Signed(x)) * (Abs(Signed(x)) % Abs(Signed(y))))
      [] name = "EXP" -> Power(x, y)
      [] name = "SIGNEXTEND" ->
            IF x >= WordBytes - 1 THEN y
            ELSE LET bits == ByteBits * (x + 1)
                     low == y % 2^bits
                 IN  IF low >= 2^(bits - 1) THEN Unsigned(low - 2^bits) ELSE low

\* opNot ... opByte
Compare(name, x, y) ==
    CASE name = "NOT" -> WordMod - 1 - x
      [] name = "LT" -> Bool(x < y)
      [] name = "GT" -> Bool(x > y)
      [] name = "SLT" -> Bool(Signed(x) < Signed(y))
      [] name = "SGT" -> Bool(Signed(x) > Signed(y))
      [] name = "EQ" -> Bool(x = y)
      [] name = "ISZERO" -> Bool(x = 0)
      [] name = "AND" -> x & y
      [] name = "OR" -> x | y
      [] name = "XOR" -> x ^^ y
      [] name = "BYTE" -> IF x >= WordBytes THEN 0 ELSE (y \div 2^(ByteBits * (WordBytes - 1 - x))) % 2^ByteBits

\* opAddmod ... opSAR
ModOrShift(name, x, y, z) ==
    CASE name = "ADDMOD" -> IF z = 0 THEN 0 ELSE (x + y) % z
      [] name = "MULMOD" -> IF z = 0 THEN 0 ELSE (x * y) % z
      [] name = "SHL" -> IF x < WordBits THEN Unsigned(y * 2^x) ELSE 0
      [] name = "SHR" -> IF x < WordBits THEN y \div 2^x ELSE 0
      [] name = "SAR" -> IF x > WordBits THEN (IF Signed(y) >= 0 THEN 0 ELSE WordMod - 1)
                         ELSE Unsigned(Signed(y) \div 2^x)

\* Instructions that push a word the model knows, and one it does not.
Known == [PC |-> pc % WordMod, MSIZE |-> mem.len, CALLDATASIZE |-> InputLength, CODESIZE |-> Len(code),
          RETURNDATASIZE |-> returned]
Unknown == {"ADDRESS", "BALANCE", "ORIGIN", "CALLER", "CALLVALUE", "CALLDATALOAD", "GASPRICE", "EXTCODESIZE",
            "EXTCODEHASH", "COINBASE", "TIMESTAMP", "NUMBER", "RANDOM", "GASLIMIT", "CHAINID", "SELFBALANCE",
            "BASEFEE", "SLOAD", "MLOAD", "KECCAK256"}

\* Memory.Set, Set32, GetPtr, GetCopy and the index of MSTORE8, on a memory of
\* length bytes: out of range they panic, or find nothing where data is wanted.
InMemory(length, offset, size) == size % U = 0 \/ (offset % U) + (size % U) <= length

\* memory.go and getData for the copying instructions.
CopyPanics(name, length, other) ==
    LET to == IF name = "EXTCODECOPY" THEN 1 ELSE 0
        from == IF Back(to + 1) >= U THEN MaxUint ELSE Back(to + 1)
        data == CASE name = "CALLDATACOPY" -> InputLength
                  [] name = "CODECOPY" -> Len(code)
                  [] OTHER -> other
    IN  ~InMemory(length, Back(to), Back(to + 2)) \/ GetDataPanics(data, from, Back(to + 2) % U)

---------------------------------------------------------------------------
(* Jump destinations *)

ByteAt(i) == code[i + 1]

\* Contract.GetOp
GetOp(i) == IF i < Len(code) THEN ByteAt(i) ELSE STOP

PushSize(b) == IF OpCode[b].name = "PUSH" THEN OpCode[b].n ELSE 0

\* The inner loops of codeBitmapInternal: the calls of set16, set8, setN and set1 for
\* n bytes of data from pos on, as pairs of a position and a number of bytes.
Marks(pos, n) ==
    [k \in 1..(n \div 16) |-> <<pos + 16 * (k - 1), 16>>]
      \o (IF n % 16 >= 8 THEN << <<pos + 16 * (n \div 16), 8>> >> ELSE << >>)
      \o (IF n % 8 > 0 THEN << <<pos + 8 * (n \div 8), n % 8>> >> ELSE << >>)

\* codeBitmapInternal: those of the whole code.
AllMarks ==
    LET from[i \in 0..(Len(code) + 32)] ==
            IF i >= Len(code) THEN << >>
            ELSE Marks(i + 1, PushSize(ByteAt(i))) \o from[i + 1 + PushSize(ByteAt(i))]
    IN  from[0]

\* Mutant: setN assigns its first byte too.
SetBits_Assigns(bits, pos, n) == (bits \ ((8 * (pos \div 8))..(pos + n - 1))) \cup pos..(pos + n - 1)

\* set16, set8, setN and set1 on the set of the bits that are set: the first byte
\* is or-ed, the bytes after it are assigned; setN and set1 leave the second one
\* alone when they have nothing for it, set8 and set16 clear what they do not set.
SetBits(bits, pos, n) ==
    LET Byte(k) == (8 * k)..(8 * k + 7)
        all == pos..(pos + n - 1)
        written == IF n >= 8 \/ (pos + n - 1) \div 8 > pos \div 8 THEN (pos \div 8 + 1)..((pos + n) \div 8) ELSE {}
    IN  (bits \ UNION {Byte(k) : k \in written}) \cup all

\* codeBitmap: its length, the bits that are set when the loop is done, and whether
\* it writes beyond the length.
BitmapBytes == Len(code) \div 8 + 1 + 4
CodeBitmap ==
    LET marks == AllMarks
        bits[k \in 0..Len(marks)] == IF k = 0 THEN {} ELSE SetBits(bits[k - 1], marks[k][1], marks[k][2])
    IN  bits[Len(marks)]
BitmapPanics ==
    \E k \in DOMAIN AllMarks :
        LET pos == AllMarks[k][1]
            n == AllMarks[k][2]
        IN  (IF n >= 8 THEN (pos + n) \div 8 ELSE (pos + n - 1) \div 8) >= BitmapBytes

\* isCode and codeSegment; the analysis is cached, which changes nothing for one code.
IsCode(dest) == dest \notin CodeBitmap

ValidJumpdest(dest) == dest < U /\ dest < Len(code) /\ ByteAt(dest) = JUMPDEST /\ IsCode(dest)
Analysed(dest) == dest < U /\ dest < Len(code) /\ ByteAt(dest) = JUMPDEST

\* opPush1 and makePush: the bytes of the code that are there, padded with zeroes.
Immediate(n) ==
    LET word[i \in 0..n] == IF i = 0 THEN 0
                            ELSE (word[i - 1] * 256 + (IF pc + i < Len(code) THEN ByteAt(pc + i) ELSE 0)) % WordMod
    IN  word[n]

---------------------------------------------------------------------------
(* Steps of the loop *)

End(how) == status' = how /\ UNCHANGED <<constant, pc, stack, gas, mem, warm, returned, built>>

\* After execute: pops items, the words pushed, and where to go on.
Go(op, c, pops, pushed, next) ==
    /\ stack' = SubSeq(stack, 1, Len(stack) - pops) \o pushed
    /\ pc' = next % U
    /\ gas' = c.gas /\ mem' = c.mem /\ warm' = warm \cup Touched(op.name)
    /\ UNCHANGED <<constant, returned, status, built>>

\* opUndefined, opStop, opReturn, opRevert, opSelfdestruct
Halts(op, c) ==
    \/ op.name = "UNDEFINED" /\ End("error")
    \/ op.name = "STOP" /\ End("stop")
    \/ op.name \in {"RETURN", "REVERT"} /\
       End(CASE ~InMemory(c.mem.len, Back(0), Back(1)) -> "panic"
             [] InMemory(c.mem.len, Back(0), Back(1)) /\ op.name = "RETURN" -> "stop"
             [] OTHER -> "revert")
    \/ op.name = "SELFDESTRUCT" /\ End(IF readOnly THEN "error" ELSE "stop")

Computes(op, entry, c) ==
    LET y == IF entry.pops > 1 THEN Back(1) ELSE 0
        z == IF entry.pops > 2 THEN Back(2) ELSE 0
    IN  \/ op.name \in Calculations /\ Go(op, c, entry.pops, << Calculate(op.name, Back(0), y) >>, pc + 1)
        \/ op.name \in Comparisons /\ Go(op, c, entry.pops, << Compare(op.name, Back(0), y) >>, pc + 1)
        \/ op.name \in ModsAndShifts /\ Go(op, c, entry.pops, << ModOrShift(op.name, Back(0), y, z) >>, pc + 1)

Reads(op, entry, c) ==
    \/ op.name \in DOMAIN Known /\ Go(op, c, 0, << Known[op.name] >>, pc + 1)
    \/ op.name = "GAS" /\ Go(op, c, 0, << c.gas >>, pc + 1)
    \/ /\ op.name \in Unknown
       /\ IF \A use \in MemoryUse(op.name) : InMemory(c.mem.len, use[1], use[2])
          THEN \E w \in Words : Go(op, c, entry.pops, << w >>, pc + 1)
          ELSE End("panic")

\* opBlockhash: GetHash is nil in newEVMBlockContext, and is called for one of the
\* last 256 blocks.
Blockhash(op, c) ==
    /\ op.name = "BLOCKHASH"
    /\ IF Back(0) < U /\ Back(0) < BlockNumber THEN End("nil GetHash") ELSE Go(op, c, 1, << 0 >>, pc + 1)

\* opMstore, opMstore8, opCallDataCopy, opCodeCopy, opExtCodeCopy
Copies(op, entry, c) ==
    \/ /\ op.name \in {"MSTORE", "MSTORE8"}
       /\ IF InMemory(c.mem.len, Back(0), IF op.name = "MSTORE" THEN WordBytes ELSE 1)
          THEN Go(op, c, 2, << >>, pc + 1) ELSE End("panic")
    \/ /\ op.name \in {"CALLDATACOPY", "CODECOPY", "EXTCODECOPY"}
       /\ \E other \in Lengths :
              IF CopyPanics(op.name, c.mem.len, other) THEN End("panic") ELSE Go(op, c, entry.pops, << >>, pc + 1)

\* Mutant: the length is added to the offset in 64 bits.
ReturnDataFits_Wraps == Back(1) < U /\ (Back(1) + Back(2)) % U <= returned

\* opReturnDataCopy
ReturnDataFits == Back(1) < U /\ (Back(1) + Back(2)) % WordMod < U /\ (Back(1) + Back(2)) % WordMod <= returned

CopiesReturnData(op, c) ==
    /\ op.name = "RETURNDATACOPY"
    /\ IF ~ReturnDataFits THEN End("error")
       ELSE IF InMemory(c.mem.len, Back(0), Back(2)) /\ Back(1) <= (Back(1) + Back(2)) % U
       THEN Go(op, c, 3, << >>, pc + 1) ELSE End("panic")

\* opPop, makePush, makeDup, makeSwap
Moves(op, c) ==
    \/ op.name = "POP" /\ Go(op, c, 1, << >>, pc + 1)
    \/ op.name = "PUSH" /\ Go(op, c, 0, << Immediate(op.n) >>, pc + 1 + op.n)
    \/ op.name = "DUP" /\ Go(op, c, 0, << Back(op.n - 1) >>, pc + 1)
    \/ op.name = "SWAP" /\ Go(op, c, op.n + 1, << Back(0) >> \o SubSeq(stack, Len(stack) - op.n + 1, Len(stack) - 1)
                                                   \o << Back(op.n) >>, pc + 1)

\* opJump, opJumpi, opJumpdest
Jumps(op, c) ==
    \/ op.name = "JUMPDEST" /\ Go(op, c, 0, << >>, pc + 1)
    \/ op.name = "JUMPI" /\ Back(1) = 0 /\ Go(op, c, 2, << >>, pc + 1)
    \/ /\ op.name = "JUMP" \/ (op.name = "JUMPI" /\ Back(1) # 0)
       /\ IF Analysed(Back(0)) /\ BitmapPanics THEN End("panic")
          ELSE IF ValidJumpdest(Back(0)) THEN Go(op, c, IF op.name = "JUMP" THEN 1 ELSE 2, << >>, Back(0))
          ELSE End("error")

\* opSstore, makeLog
Writes(op, entry, c) ==
    \/ op.name = "SSTORE" /\ ~readOnly /\ Go(op, c, 2, << >>, pc + 1)
    \/ op.name \in {"SSTORE", "LOG"} /\ readOnly /\ End("error")
    \/ /\ op.name = "LOG" /\ ~readOnly
       /\ IF InMemory(c.mem.len, Back(0), Back(1)) THEN Go(op, c, entry.pops, << >>, pc + 1) ELSE End("panic")

\* What a call gives back: gas, the length of what it returns, and its success.
\* It never gives back more than it was given (FramesAtomic's frames in Execution).
CallEnds(op, c, entry, rest, given, success, back, length) ==
    /\ stack' = Append(SubSeq(stack, 1, Len(stack) - entry.pops), success)
    /\ pc' = (pc + 1) % U
    /\ gas' = rest + back /\ back <= given
    /\ mem' = c.mem /\ warm' = warm \cup Touched(op.name) /\ returned' = length
    /\ UNCHANGED <<constant, status, built>>

\* opCall, opCallCode, opDelegateCall, opStaticCall
CallsOut(op, entry, c) ==
    LET value == op.name \in {"CALL", "CALLCODE"} /\ Back(2) # 0
        given == c.given + (IF value THEN Cost.stipend ELSE 0)
    IN  /\ op.name \in CallOps
        /\ IF op.name = "CALL" /\ readOnly /\ value THEN End("error")
           ELSE IF \E use \in MemoryUse(op.name) : ~InMemory(c.mem.len, use[1], use[2]) THEN End("panic")
           ELSE \E success \in {0, 1}, back \in {0, given}, length \in Lengths :
                    CallEnds(op, c, entry, c.gas, given, success, back, length)

\* opCreate, opCreate2
Creates(op, entry, c) ==
    LET given == c.gas - c.gas \div Reserve
    IN  /\ op.name \in {"CREATE", "CREATE2"}
        /\ IF readOnly THEN End("error")
           ELSE IF ~InMemory(c.mem.len, Back(1), Back(2)) THEN End("panic")
           ELSE \E address \in Words, back \in {0, given}, length \in Lengths :
                    /\ address # 0 => length = 0
                    /\ CallEnds(op, c, entry, c.gas - given, given, address, back, length)

Step ==
    LET op == OpCode[GetOp(pc)]
        entry == JumpTable[GetOp(pc)]
    IN  /\ status = "run"
        /\ IF ~Checked(entry) THEN End("error")
           ELSE \E extra \in StateCosts(op.name) :
               LET c == Charge(op, entry, extra)
               IN  \/ c.err /\ End(IF c.panics THEN "sstore canary" ELSE "error")
                   \/ ~c.err /\ \/ Halts(op, c)
                                \/ Computes(op, entry, c)
                                \/ Reads(op, entry, c)
                                \/ Blockhash(op, c)
                                \/ Copies(op, entry, c)
                                \/ CopiesReturnData(op, c)
                                \/ Moves(op, c)
                                \/ Jumps(op, c)
                                \/ Writes(op, entry, c)
                                \/ CallsOut(op, entry, c)
                                \/ Creates(op, entry, c)

\* RunPrecompiledContract
RunPrecompiled ==
    LET cost == RequiredGas(input.name, input)
    IN  /\ status = "precompile"
        /\ IF gas < cost THEN End("error")
           ELSE /\ gas' = gas - cost
                /\ built' = Built(input.name, input)
                /\ status' \in Outcomes(input.name, input)
                /\ UNCHANGED <<constant, pc, stack, mem, warm, returned>>

Init ==
    /\ readOnly \in BOOLEAN
    /\ pc = 0 /\ stack = << >> /\ mem = [len |-> 0, fee |-> 0] /\ returned = 0 /\ built = 0
    /\ \/ \E frame \in Frames :
              code = frame[1] /\ gas = frame[2] /\ prepared = frame[3] /\ input = << >> /\ status = "run"
       \/ \E in \in Inputs :
              code = << >> /\ gas = in[2] /\ prepared = TRUE /\ input = in[1] /\ status = "precompile"
    /\ warm = IF prepared THEN {<<"addr", Self>>} ELSE {}
    /\ limit = gas

Next == Step \/ RunPrecompiled

Spec == Init /\ [][Next]_vars

---------------------------------------------------------------------------
(* Properties *)

\* No code and no input makes Run panic in the execution of a block: every access
\* to memory, stack, bitmap, return data and call data is in range, which rests on
\* checks made much earlier, in 64 bits, by the functions of the memory and gas
\* tables, and SSTORE finds the contract in the access list.  (BLOCKHASH of a recent
\* block, which calls a function that is nil, ends apart.)  In a test run, whose
\* access list nobody has prepared, the panic of makeGasSStoreFunc is the only one.
NoPanic == status # "panic" /\ (status = "sstore canary" => ~prepared) /\ Len(stack) <= StackLimit

\* Where instructions begin, and the place after them.
Instructions ==
    LET from[i \in 0..(Len(code) + 33)] ==
            {i} \cup (IF i > Len(code) THEN {} ELSE IF i = Len(code) THEN {i + 1}
                      ELSE from[i + 1 + PushSize(ByteAt(i))])
    IN  from[0]

\* The bitmap that codeBitmapInternal writes, in pieces of 1 to 16 bits that share
\* bytes, is right for every byte of the code: data is never taken for an
\* instruction, nor an instruction for data.  And control is never inside the data
\* of a PUSH: after the jumps the bitmap allows, after PUSH instructions cut off by
\* the end of the code, and at every step.
OnInstruction ==
    status = "run" =>
        /\ pc = 0 => \A i \in 0..(Len(code) - 1) : IsCode(i) <=> i \in Instructions
        /\ pc \in Instructions

\* All memory is paid for at the price of its present size, however it grew and
\* although the sum is kept in 64 bits; and so is what precompiled contracts build.
MemoryPaid ==
    /\ mem.fee = (mem.len \div WordBytes) * Cost.memory
                   + ((mem.len \div WordBytes) * (mem.len \div WordBytes)) \div Cost.quad
    /\ built <= 2 * (limit - gas) + 3 * WordBytes

\* A step that leaves the frame running takes gas away from it, and none adds any:
\* not even a call that returns all it was given, its stipend included, or an
\* overflow in what it costs.  So every frame ends, whatever its code.
GasShrinks == [][gas' <= gas /\ (status' = "run" => gas' < gas)]_vars

\* What the constants must be like for GasShrinks, as those of params are: the
\* memory limit keeps the square of the words in 64 bits, the dearest call without
\* its gas is below one part in Reserve of 2^64, and a transfer costs more than its
\* stipend.
ASSUME ConstantsAssumption ==
    /\ (MaxMemory \div WordBytes) * (MaxMemory \div WordBytes) < U
    /\ Fee(MaxMemory \div WordBytes) + Cost.newAccount + Cost.value + Cost.cold < U \div Reserve
    /\ Cost.stipend <= Cost.value
=============================================================================
