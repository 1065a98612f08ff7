SPECIFICATION FairSpec
CONSTANTS
  MaxBytes = 4
  MaxLen = 3
  Chunk = 2
  SndBuf = 2
INVARIANTS OpenOutcome ReadOutcome WholeStream WriteOutcome
PROPERTIES ImplementsReader CallsReturn
