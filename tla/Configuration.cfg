CONSTANTS
  Unset = Unset
  Torn = Torn
  Import = Import
  idle = idle
  work = work
  host = host
  State <- MCState
  Code <- MCCode
  Args <- MCArgs
  Params = {host}
  Terminal = {t1}
  Plants <- MCPlants
  MaxEvents = 3
  MaxRenewals = 1
SPECIFICATION ConfSpec
INVARIANTS
  TargetsExist
  ImportMerges
  SavedSurvives
CHECK_DEADLOCK FALSE
