CONSTANTS
  p1 = p1
  p2 = p2
  p3 = p3
  t1 = t1
  t2 = t2
  i1 = i1
  i2 = i2
  i3 = i3
  Sched = Sched
  Nobody = Nobody
  NoText = NoText
  NoInode = NoInode
  Procs <- TwoProcs
  Texts <- TwoTexts
  Inodes <- TwoInodes
  Loads <- Stale
SPECIFICATION Spec
INVARIANT NoDoubleFree
