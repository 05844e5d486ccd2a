CONSTANTS
  w1 = w1
  c1 = c1
  c2 = c2
  Windows = {w1, w2}
  Clients <- ClientsDef
  ClientOf <- ClientOfDef
  GpuWindows = {w1}
  MaxTxns = 2
  MaxQueued = 2
SPECIFICATION LiveSpec
INVARIANTS BlockedWillWake NoTornResize
PROPERTIES WaitsEnd
CHECK_DEADLOCK FALSE
