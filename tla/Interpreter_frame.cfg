SPECIFICATION Spec
CONSTANTS
    Cost <- MCCost
    StackLimit = 18
    MaxUint = 1023
    WordBytes = 4
    MinModExpGas = 200
    BlakeLength = 21
    PrecompileGas <- MCPrecompileGas
    WordBits = 12
    ByteBits = 3
    MaxMemory = 124
    Words = {0, 3, 120, 1023, 1024}
    Lengths = {0, 5}
    InputLength = 6
    Self = 3
    BlockNumber = 4
    Reserve = 16
    Frames <- MCFrames
    Inputs <- MCInputs
INVARIANTS NoPanic OnInstruction MemoryPaid
PROPERTIES GasShrinks
CHECK_DEADLOCK FALSE
