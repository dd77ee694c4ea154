CONSTANTS
  Node = {n1, n2}
  Port = {1, 2}
  MaxClosed = 2
SPECIFICATION Spec
INVARIANTS
  OnePortOneDaemon
  ListedDeviceIsWatched
PROPERTIES
  OnlyFailuresAreRestarted
  FailedDeviceComesBack
  DeliveredStopReturns
