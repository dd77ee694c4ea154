CONSTANTS
  Threshold = {0, 30, 50, 99, 100}
  position_coe = 20
  m_modbus_retry_times = 1
SPECIFICATION Spec
INVARIANTS
  RestsNearTarget
  NeverBothWays
PROPERTIES
  MotionEnds
  LoopWritesThrough
  CoilsAreRestored
  DeadLinkIsNoticed
  ErrorIsReplaced
