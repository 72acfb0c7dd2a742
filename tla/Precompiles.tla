---------------------------- MODULE Precompiles ----------------------------
(***************************************************************************)
(* The precompiled contracts of PrecompiledContractsBerlin                 *)
(* (pkg/vm/contracts.go): the gas they ask for, and which inputs they      *)
(* refuse.  What they compute is left to the libraries they call.  An      *)
(* input has its length, and what is read of it before any work is done:   *)
(* the three lengths and the leading bits of the exponent of bigModExp     *)
(* (zero where the input is too short), the rounds of blake2F.             *)
(***************************************************************************)
EXTENDS Integers, FiniteSetsExt

CONSTANTS
    MaxUint,       \* 2^64 - 1, scaled down
    WordBytes,     \* bytes of a word: 32
    MinModExpGas,  \* contracts.go: 200
    BlakeLength,   \* blake2FInputLength: 213
    PrecompileGas  \* the flat costs of params, by precompile

Names == {"ecrecover", "sha256hash", "ripemd160hash", "dataCopy", "bigModExp", "bn256Add",
          "bn256ScalarMul", "bn256Pairing", "blake2F"}

Uint64(x) == x % (MaxUint + 1)

\* common.go: getData(data, start, size) of data with length bytes.  The end is a
\* uint64; the slice panics when it lies before the start.
GetDataPanics(length, start, size) ==
    LET from == Min({start, length})
        end == Min({Uint64(from + size), length})
    IN  end < from

\* bigModExp.RequiredGas with eip2565; the lengths are big integers here.
ModExpGas(in) ==
    LET words == (Max({in.modLen, in.baseLen}) + 7) \div 8
        long == IF in.expLen > WordBytes THEN 8 * (in.expLen - WordBytes) ELSE 0
        head == IF in.len - 3 * WordBytes > in.baseLen THEN in.expHead ELSE 0
        gas == (words * words * Max({long + head, 1})) \div 3
    IN  IF gas > MaxUint THEN MaxUint ELSE Max({gas, MinModExpGas})

RequiredGas(name, in) ==
    LET perWord == ((in.len + WordBytes - 1) \div WordBytes) * PrecompileGas[name]
    IN  CASE name \in {"sha256hash", "ripemd160hash", "dataCopy"} -> perWord + PrecompileGas.base
          [] name = "bigModExp" -> ModExpGas(in)
          [] name = "bn256Pairing" -> PrecompileGas.base + (in.len \div (6 * WordBytes)) * PrecompileGas[name]
          [] name = "blake2F" -> IF in.len # BlakeLength THEN 0 ELSE in.rounds
          [] OTHER -> PrecompileGas[name]

\* bigModExp.Run: the bytes it builds for base, exponent and modulus, whose
\* lengths are uint64 here.
ModExpBytes(in) ==
    IF Uint64(in.baseLen) = 0 /\ Uint64(in.modLen) = 0 THEN 0
    ELSE Uint64(in.baseLen) + Uint64(in.expLen) + Uint64(in.modLen)

ModExpPanics(in) ==
    LET rest == Max({in.len - 3 * WordBytes, 0})
    IN  /\ ModExpBytes(in) # 0
        /\ \/ GetDataPanics(rest, 0, Uint64(in.baseLen))
           \/ GetDataPanics(rest, Uint64(in.baseLen), Uint64(in.expLen))
           \/ GetDataPanics(rest, Uint64(in.baseLen + in.expLen), Uint64(in.modLen))

\* What Run may return: an input of the wrong size or, for the curves and the
\* final flag, the wrong contents is refused; ecrecover returns nothing instead.
Outcomes(name, in) ==
    CASE name = "bigModExp" /\ ModExpPanics(in) -> {"panic"}
      [] name = "bn256Pairing" /\ in.len % (6 * WordBytes) > 0 -> {"error"}
      [] name = "blake2F" /\ in.len # BlakeLength -> {"error"}
      [] name \in {"bn256Add", "bn256ScalarMul"} -> {"stop", "error"}
      [] name = "bn256Pairing" /\ in.len % (6 * WordBytes) = 0 -> IF in.len = 0 THEN {"stop"} ELSE {"stop", "error"}
      [] name = "blake2F" /\ in.len = BlakeLength -> {"stop", "error"}
      [] OTHER -> {"stop"}

\* The bytes that Run builds, besides a few words.
Built(name, in) ==
    CASE name = "bigModExp" -> ModExpBytes(in)
      [] name = "bn256Pairing" /\ in.len % (6 * WordBytes) = 0 -> in.len
      [] OTHER -> 0
=============================================================================
