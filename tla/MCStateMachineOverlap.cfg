CONSTANTS
  MaxCo = 3
  MaxDepth = 2
  State <- SiteStates
  InitState = "idle"
  NoState = "null"
  Event <- SiteEvents
  do_next <- SiteNext
  event_state <- SiteEventStates
SPECIFICATION SmSafe
PROPERTIES
  SwitchesFromTheLoggedState
