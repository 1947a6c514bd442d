CONSTANTS
  p1 = p1
  p2 = p2
  Clients <- TwoClients
  Maps <- EveryMap
  Top = 5
  NSLOT = 2
  Sizes <- OneTwo
  Sizes3 <- Triples
SPECIFICATION Spec
SYMMETRY ClientSymmetry
INVARIANTS
  SortedApart
  UnitsConserved
  SleepersBlocked
PROPERTY
  RefusedOnlyWhenFull
