CONSTANTS
  p1 = p1
  p2 = p2
  NoProc = NoProc
  Procs <- TwoProcs
  NBUF = 3
  Devs <- OneDev
  FsBlks <- ThreeBlks
  TapeDevs <- NoDevs
  Cylin <- ByPlace
  File <- NoFile
  InodeBlk <- Block2
  Ops <- Mixed
  CloseWaits = TRUE
  MaxCalls <- OneAndTwo
  DiskErrors = FALSE
SPECIFICATION MCSpec
PROPERTY
  EventuallyQuiescent
CHECK_DEADLOCK FALSE
