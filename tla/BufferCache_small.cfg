CONSTANTS
  p1 = p1
  p2 = p2
  NoProc = NoProc
  Procs <- TwoProcs
  NBUF = 4
  Devs <- OneDev
  FsBlks <- TwoBlks
  TapeDevs <- NoDevs
  Cylin <- ByPlace
  File <- OneBlockFile
  InodeBlk <- Block2
  Ops <- ReadFsync
  CloseWaits = TRUE
  DiskErrors = TRUE
SPECIFICATION Spec
SYMMETRY ProcSymmetry
INVARIANTS
  OneOwner
