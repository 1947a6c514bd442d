CONSTANTS
  f1 = f1
  f2 = f2
  NoFun = NoFun
  Funs <- TwoFuns
  NCALL = 4
  Times <- ZeroOneThree
  MaxLate = 2
SPECIFICATION FairSpec
INVARIANTS
  TypeOK
  IncrementsExact
  PanicOnlyWhenFull
PROPERTIES
  TimersSpec
  EventuallyCalled
CHECK_DEADLOCK FALSE
