CONSTANTS
  MaxFrame = 5
  Position = {"begin"}
  SerialEvery = 1
  FilterLength = {1, 2}
SPECIFICATION Spec
INVARIANTS
  FrameInOneHand
  FewFrames
  FilterForgets
PROPERTIES
  GoneIsReported
  VehicleIsReported
