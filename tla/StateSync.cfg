CONSTANTS
  Device = {1, 2}
  Push = {p1, p2}
  MaxChange = 1
  MaxOutage = 1
SPECIFICATION SyncSpec
PROPERTIES
  ShownIsRecent
  PageCatchesUp
