CONSTANTS
  p1 = p1
  p2 = p2
  NoProc = NoProc
  Procs <- TwoProcs
  NBUF = 2
  Devs <- TwoDevs
  FsBlks <- OneBlk
  TapeDevs <- SecondDev
  Cylin <- ByPlace
  File <- NoFile
  InodeBlk <- Block1
  Ops <- ShareClose
  CloseWaits = TRUE
  DiskErrors = FALSE
SPECIFICATION Spec
CONSTRAINT UniqueBlock
SYMMETRY ProcSymmetry
INVARIANTS
  SearchHolds
  Coherent
  NoLostUpdate
  NoStaleDelwri
