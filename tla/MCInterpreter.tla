--------------------------- MODULE MCInterpreter ---------------------------
(* Instances of Interpreter for TLC: words of 12 bits in 4 bytes, 10 bits for
   uint64, and codes that bring every instruction to operands of all sizes. *)
EXTENDS Interpreter

MCCost == [warm |-> 1, cold |-> 3, coldSload |-> 2, set |-> 4, reset |-> 3, sentry |-> 2, destruct |-> 2,
           newAccount |-> 2, keccak |-> 3, keccakWord |-> 2, copy |-> 1, log |-> 2, logTopic |-> 1, logData |-> 1,
           memory |-> 1, quad |-> 64, create |-> 4, jumpdest |-> 1, exp |-> 2, expByte |-> 2, value |-> 3,
           stipend |-> 2]
MCPrecompileGas == [name \in Names |-> IF name = "bn256Pairing" THEN 20 ELSE 2] @@ [base |-> 1]

AnyWord == ByteOf("CALLVALUE")      \* pushes any of Words
Pc == ByteOf("PC")              \* pushes something small

\* The operands that vary, by their distance from the top; the others are small.
Varied(b) ==
    LET name == OpCode[b].name
    IN  CASE name \in {"CALL", "CALLCODE"} -> {{0, 2, 3, 4}, {2, 5, 6}}
          [] name \in {"DELEGATECALL", "STATICCALL"} -> {{0, 2, 3}, {4, 5}}
          [] name \in {"DUP", "SWAP"} -> {{0}}
          [] OTHER -> {0..3}

Operands(b, varied) ==
    LET n == JumpTable[b].pops IN [i \in 1..n |-> IF n - i \in varied THEN AnyWord ELSE Pc]

\* Every instruction, on top of its operands, followed by one that needs the result
\* to be there and one that takes the size of the memory again.
OperandCodes ==
    UNION {{Operands(b, varied) \o << b, ByteOf("MSIZE"), ByteOf("POP") >> : varied \in Varied(b)} : b \in 0..255}

\* A call, then RETURNDATACOPY of anything.
ReturnCodes ==
    { << AnyWord, AnyWord, AnyWord, Pc, Pc, Pc, Pc, Pc, Pc, ByteOf("STATICCALL"), ByteOf("POP"), ByteOf("RETURNDATACOPY") >> }

\* Memory that grows twice.
GrowCodes == { << AnyWord, ByteOf("MLOAD"), ByteOf("POP"), AnyWord, AnyWord, ByteOf("KECCAK256") >> }

\* All short codes of jumps, of their targets and of data that looks like them.
FlowBytes == {ByteOf("PUSH"), ByteOf("JUMP"), ByteOf("JUMPI"), ByteOf("JUMPDEST"), AnyWord, 97}
FlowCodes == UNION {[1..n -> FlowBytes] : n \in 0..4}

\* A jump to 3 in a code that ends with a cut PUSH, for every size and alignment.
CutCodes == {<< AnyWord, ByteOf("JUMP"), 0, ByteOf("JUMPDEST") >> \o [i \in 1..k |-> 1] \o << 95 + n >> :
                k \in 0..7, n \in 1..32}

\* Two PUSH instructions whose data shares bytes of the bitmap, of every size of
\* the first at every alignment; the code ends at once where k > 0.
BitmapCodes == {[i \in 1..k |-> 1] \o << 95 + n >> \o [i \in 1..n |-> 1] \o << 95 + m >> \o [i \in 1..m |-> 1] :
                   k \in 0..7, n \in 1..32, m \in {1, 2, 7, 8, 9, 16, 23, 32}}

\* Calls, and a slot that is stored to after it was loaded or not.
CallCodes == UNION {{Operands(b, varied) \o << b, ByteOf("MSIZE"), ByteOf("POP") >> : varied \in Varied(b)} :
                       b \in {ByteOf(name) : name \in CallOps}}
StoreCodes == {<< AnyWord >> \o before \o << AnyWord, Pc, ByteOf("SSTORE") >> :
                  before \in {<< >>, << ByteOf("SLOAD") >>, << ByteOf("BALANCE") >>}}

\* A stack at its limit.
FullCodes == {[i \in 1..k |-> Pc] \o << b >> : k \in {StackLimit - 1, StackLimit},
                 b \in {Pc, ByteOf("POP"), ByteOf("ADD"), ByteOf("DUP"), 159, ByteOf("PUSH")}}

\* Calls start with gas for everything, for nothing but the operands, and for more
\* or less than their own cost; frames of test runs have nothing prepared.
MCFrames == ((OperandCodes \cup ReturnCodes \cup GrowCodes \cup CutCodes \cup FullCodes) \X {9, 300} \X {TRUE})
                \cup (FlowCodes \X {9, 60} \X {TRUE})
                \cup (BitmapCodes \X {9} \X {TRUE})
                \cup (CallCodes \X {16, 18, 20, 24, 40, 70} \X {TRUE})
                \cup (StoreCodes \X {8, 60} \X BOOLEAN)

\* Inputs of precompiled contracts; the fields that a contract does not read are 0.
Plain(name, len, rounds) ==
    [name |-> name, len |-> len, baseLen |-> 0, expLen |-> 0, modLen |-> 0, expHead |-> 0, rounds |-> rounds]
ManyInputs ==
    {Plain(name, len, 0) : name \in Names \ {"bigModExp", "blake2F"}, len \in {0, 3, 24, 48}}
        \cup {Plain("blake2F", len, rounds) : len \in {0, BlakeLength}, rounds \in {0, 5, 400}}
        \cup [name : {"bigModExp"}, len : {0, 12, 20}, baseLen : Words \cup {1, 9}, expLen : Words \cup {5},
              modLen : Words \cup {1, 9}, expHead : {0, 7}, rounds : {0}]
MCInputs == ManyInputs \X {9, 300}
=============================================================================
