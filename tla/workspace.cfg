SPECIFICATION Spec
CONSTANTS
  w1 = w1
  w2 = w2
  w3 = w3
  NoWindow = NoWindow
  Windows = {w1, w2, w3}
  DefaultTabbed = {w1}
  Scenarios <- MCScenarios
SYMMETRY Twins
INVARIANTS SpacesConsistent RoundTrips FocusNotStolen
CHECK_DEADLOCK FALSE
