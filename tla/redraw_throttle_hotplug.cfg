CONSTANTS
  Outputs = {o1}
  Clients = {c1}
  NoClient = NoClient
  Hotplug = TRUE
  Throttling = TRUE
  Spurious = FALSE
  MaxTimers = 2
SPECIFICATION Spec
INVARIANT EstimatedTimerReachable
