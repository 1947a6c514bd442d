CONSTANTS
  p1 = p1
  p2 = p2
  Clients <- OneClient
  Maps <- EveryMap
  Top = 5
  NSLOT = 3
  Sizes <- OneTwo
  Sizes3 <- NoTriples
SPECIFICATION Spec
INVARIANT
  MapInArray
