CONSTANTS
  Outputs = {o1}
  Clients = {c1}
  NoClient = NoClient
  Hotplug = TRUE
  Throttling = TRUE
  Spurious = TRUE
  MaxTimers = 2
SPECIFICATION LiveSpec
PROPERTIES RedrawServed LockSettles RequestNotLost
