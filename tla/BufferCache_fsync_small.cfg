CONSTANTS
  p1 = p1
  p2 = p2
  NoProc = NoProc
  Procs <- OneProc
  NBUF = 4
  Devs <- OneDev
  FsBlks <- ThreeBlks
  TapeDevs <- NoDevs
  Cylin <- ByPlace
  File <- OneBlockFile
  InodeBlk <- Block3
  Ops <- ReadFsync
  CloseWaits = TRUE
  DiskErrors = FALSE
SPECIFICATION Spec
INVARIANT
  FsyncFlushed
