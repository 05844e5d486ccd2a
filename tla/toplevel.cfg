SPECIFICATION Spec
CONSTANTS
  Outputs = {o1, o2}
  NoOutput = NoOutput
  Sizes = {1, 2}
  FullSize = 3
  MaxSize = 2
  NoSize = NoSize
  Rules <- AFewRules
  Scenarios <- Lives
  MaxSent = 2
SYMMETRY OutputSymmetry
INVARIANTS
  SpacesAgree
  Settled
PROPERTIES
  OpensAsConfigured
