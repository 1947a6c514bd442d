CONSTANTS
  p1 = p1
  p2 = p2
  NoProc = NoProc
  Procs <- OneProc
  NBUF = 2
  Devs <- OneDev
  FsBlks <- TwoBlks
  TapeDevs <- NoDevs
  Cylin <- ByPlace
  File <- OneBlockFile
  InodeBlk <- Block2
  Ops <- ReadFsync
  CloseWaits = TRUE
  DiskErrors = TRUE
SPECIFICATION Spec
INVARIANT
  FsyncErrorReported
