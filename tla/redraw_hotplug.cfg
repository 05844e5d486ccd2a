CONSTANTS
  Outputs = {o1, o2}
  Clients = {c1, c2}
  NoClient = NoClient
  Hotplug = TRUE
  Throttling = FALSE
  Spurious = FALSE
  MaxTimers = 2
SPECIFICATION Spec
SYMMETRY OutputSymmetry
INVARIANTS EstimatedTimerMatchesState VBlankIsDue LockedHidesSession ConfirmationsAgree
PROPERTIES OnlyClientUnlocks
