SPECIFICATION Spec
CONSTANTS
  User = User
  System = System
  Alternative = Alternative
  Include = Include
  Missing = Missing
  NoPath = NoPath
  plain = plain
  composed = composed
  lenient = lenient
  broken = broken
  theme = theme
  dark = dark
  Versions <- MCVersions
  Includers = {composed, lenient}
  Optional = {lenient}
  Broken = {broken}
  MaxChanges = 4
  MaxRequests = 1
INVARIANTS
  DifferenceIsVisible
PROPERTIES
  Settles
CHECK_DEADLOCK TRUE
