SPECIFICATION CastSpec
CONSTANTS
  s1 = s1
  a1 = a1
  a2 = a2
  w1 = w1
  o1 = o1
  o2 = o2
  Sessions = {s1}
  Streams = {a1, a2}
  SessionOf <- OneSession
  Windows = {w1}
  Outputs = {o1, o2}
  Nothing = Nothing
  Portal = Portal
  Sizes = {1, 2}
  MaxFrames = 2
  MaxBuffers = 2
  MaxOffers = 2
  MaxCasts = 2
  Managers = {m1}
  Frames = {f1, f2}
  NoCast = NoCast
  Absent = Absent
  CastScenarios <- CastLives
SYMMETRY CastSymmetry
INVARIANTS
  CopiesAccountedFor
  FramesInOrder
  StreamsAccountedFor
  TargetsHold
  CastsAnnounced
CHECK_DEADLOCK FALSE
