CONSTANTS
  p1 = p1
  p2 = p2
  NoProc = NoProc
  Procs <- OneProc
  NBUF = 3
  Devs <- OneDev
  FsBlks <- TwoBlks
  TapeDevs <- NoDevs
  Cylin <- ByPlace
  File <- NoFile
  InodeBlk <- Block1
  Ops <- ReadClose
  CloseWaits = FALSE
  DiskErrors = FALSE
SPECIFICATION Spec
INVARIANT
  Coherent
