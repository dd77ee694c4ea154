CONSTANTS
  Node = {n1, n2}
  Port = {1, 2, 3}
  MaxClosed = 1
SPECIFICATION Safe
INVARIANT
  RunningIsListed
