CONSTANTS
  r1 = r1
  r2 = r2
  w1 = w1
  NoProc = NoProc
  Readers <- OneReader
  Writers <- OneWriter
  MAXPIPSIZ = 2
  ReadSizes <- Two
  WriteSizes <- OneThree
  Elsewhere <- Nobody
  RwipErrors = FALSE
SPECIFICATION Spec
PROPERTY WriteReports
CHECK_DEADLOCK FALSE
