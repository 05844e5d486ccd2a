CONSTANTS
  Outputs = {o1, o2}
  Windows = {w1, w2}
  Names = {n1}
  NoName = NoName
  NoOutput = NoOutput
  Scenarios <- Everything
SPECIFICATION Spec
SYMMETRY LayoutSymmetry
INVARIANTS WorkspacesTidy WellPlaced FocusSurvives UnderWayIsLive
PROPERTIES NamedWorkspacesKept
