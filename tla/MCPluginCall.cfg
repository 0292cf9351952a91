\* Four blocks, so that calls that fail use the memory up and a later one traps.
CONSTANTS
  Blocks = {b1, b2, b3, b4}
  NoBlock = NoBlock
  Inputs = {i1, i2}
  OutputLen = 2
  ErrorCodes <- MCErrorCodes
  GuestMemory = 6
  Word = 16
  CallBound = 4
SPECIFICATION Spec
INVARIANTS TypeOK BlocksAreSafe OutputIsTheAnswer LostBlocks
CHECK_DEADLOCK FALSE
