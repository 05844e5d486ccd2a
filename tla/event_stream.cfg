SPECIFICATION Spec
CONSTANTS
  c1 = c1
  c2 = c2
  s1 = s1
  s2 = s2
  o1 = o1
  o2 = o2
  w1 = w1
  w2 = w2
  r1 = r1
  r2 = r2
  NoWindow = NoWindow
  NoEvent = NoEvent
  Closed = Closed
  Clients = {c1, c2}
  BufferSize = 6
  Scenarios <- MCScenarios
  StatesOf <- MCStatesOf
INVARIANTS
  AnnouncedIsCurrent
  OnlySlowClientsCut
PROPERTIES
  MirrorSpec
  StreamsSettle
CHECK_DEADLOCK FALSE
