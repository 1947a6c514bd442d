CONSTANTS
  p1 = p1
  p2 = p2
  NoProc = NoProc
  Procs <- TwoProcs
  NBUF = 2
  Devs <- OneDev
  FsBlks <- ThreeBlks
  TapeDevs <- NoDevs
  Cylin <- ByPlace
  File <- NoFile
  InodeBlk <- Block1
  Ops <- ReadSync
  CloseWaits = TRUE
  DiskErrors = FALSE
SPECIFICATION Spec
INVARIANT
  TypeOK
