CONSTANTS
  r1 = r1
  r2 = r2
  w1 = w1
  NoProc = NoProc
  Readers <- TwoReaders
  Writers <- OneWriter
  MAXPIPSIZ = 2
  ReadSizes <- Two
  WriteSizes <- OneThree
  Elsewhere <- TwoReaders
  RwipErrors = FALSE
SPECIFICATION Spec
INVARIANT SelectorsWoken
CHECK_DEADLOCK FALSE
