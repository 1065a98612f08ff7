SPECIFICATION HttpFairSpec
CONSTANTS
  MaxBytes = 8
  MaxLen = 7
  Chunk = 3
  SndBuf = 4
  NoLength = NoLength
  Replies <- SomeReplies
INVARIANTS WholeBody NothingHeld RequestFramed
PROPERTIES ImplementsExchange SendReturns
