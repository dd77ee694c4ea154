CONSTANTS
  MaxCo = 3
  Socket = {s1}
  Service = {p1}
  Limit = {0, 700, 2200}
  Sleep = {0, 1}
SPECIFICATION Spec
INVARIANTS
  YieldHasItsNodes
  NoStaleNode
  ResultIsHonest
PROPERTY
  YieldEnds
CHECK_DEADLOCK FALSE
