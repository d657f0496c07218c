CONSTANTS
  Half32 = 128
  Half64 = 512
  Null = Null
  ZeroBytes = ZeroBytes
  Reads <- TypeReads
  Owned <- TypeOwned
  Rank <- TypeRank
  Deepest = 2
  Inputs <- MCInputs
SPECIFICATION UnpackSpec
CHECK_DEADLOCK FALSE
INVARIANTS
  DeclaredReadsBack

