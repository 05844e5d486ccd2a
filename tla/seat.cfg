SPECIFICATION Spec
CONSTANTS
  browser = browser
  NoApp = NoApp
  Windows = {1, 2, 3}
  AppOf <- MCAppOf
  Outputs = {o1, o2}
  Mods = {alt}
  Plain = {tab, esc}
  Button = left
  Scenarios <- MCScenarios
INVARIANTS KeysBalanced OverlaysAllowed MruConsistent
PROPERTIES FocusedComesFirst
CHECK_DEADLOCK FALSE
