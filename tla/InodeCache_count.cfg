CONSTANTS
  p1 = p1
  p2 = p2
  s1 = s1
  s2 = s2
  e1 = e1
  e2 = e2
  a = a
  b = b
  c = c
  Nobody = Nobody
  NoSlot = NoSlot
  NoEntry = NoEntry
  NoName = NoName
  Procs <- TwoProcs
  Slots <- TwoSlots
  Entries <- TwoEntries
  Dirs <- TwoNames
  Names <- TwoNames
  DirOf <- Apart
  NINO = 2
  INOPB = 1
  NICINOD = 1
  NBEHIND = 1
  Loads <- Cramped
SPECIFICATION Spec
SYMMETRY Symmetry
INVARIANT
  FreeCounted
