CONSTANTS
  Session = {import, t1}
  Devices <- MCDevices
  MaxPort = 5
  gate = gate
  chute = chute
  None = None
  MaxRestarts = 3
SPECIFICATION Spec
INVARIANTS
  OneOfEach
  MachineFindsDevices
CHECK_DEADLOCK FALSE
