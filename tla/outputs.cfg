SPECIFICATION TtySpec
CONSTANTS
  n1 = n1
  n2 = n2
  n3 = n3
  Nodes = {n1, n2, n3}
  Primary = n1
  RenderNode <- TheRenderNode
  NoNode = NoNode
  Connectors = {"eDP-1", "DP-1", "DP-3", "USB-1"}
  NodeOf <- TheNodeOf
  Panels = {"eDP-1"}
  Monitors = {"panel", "left", "right", "big", "headset"}
  NoMonitor = "no monitor"
  Make <- TheMake
  NoMake = "no make"
  ModesOf <- TheModes
  NonDesktop = {"headset"}
  CustomMode = 4
  NameOrder <- TheOrder
  Configs <- TheConfigs
  Edits <- TheEdits
  Unset = Unset
  Unbound = Unbound
  Requests <- TheRequests
  MaxConfs = 2
  Ramps = {"dim"}
  NoRamp = "no ramp"
  MaxEvents = 2
  TtyScenarios <- TheScenarios
INVARIANTS
  OutputsFollow
  GammaAsSet
  ManagementHolds
CHECK_DEADLOCK FALSE
