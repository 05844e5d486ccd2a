-------------------------------- MODULE Tty --------------------------------
(***************************************************************************)
(* Graphics devices, their connectors and the outputs that follow from     *)
(* them (src/backend/tty.rs, the output half of src/niri.rs).  Monitors    *)
(* and devices come and go; udev tells of it later, and nothing while      *)
(* another virtual terminal is active.  What is connected, the output      *)
(* configuration, the laptop lid and the ignored devices decide together   *)
(* which connectors have a surface, in which mode, and where the outputs   *)
(* lie; gamma ramps survive a stay on another terminal.                    *)
(*                                                                         *)
(* Every handler is a function of the compositor's state tty; the actions  *)
(* pass it what the handler reads of the world.  Modelled from their use:  *)
(* udev, whose events come in order, and the connector scan, which pairs   *)
(* every connector with a CRTC of its own and compares what was connected  *)
(* with what is.  A scan of a device that was unplugged since it was       *)
(* opened fails.  A mode is its width, and outputs lie on a line.          *)
(* Scale, transform, HDR, DRM leases beyond the offer, legacy gamma and    *)
(* the debug flags are left out.                                           *)
(***************************************************************************)
EXTENDS Naturals, Sequences, FiniteSets, SequencesExt

CONSTANTS
  Nodes, Primary,    \* DRM devices and primary_node
  RenderNode,        \* the render node of a device, NoNode for a display-only one
  NoNode,
  Connectors, NodeOf,
  Panels,            \* the connectors of laptop panels
  Monitors, NoMonitor,
  Make,              \* make, model and serial of a monitor, NoMake when it has none
  NoMake,
  ModesOf,           \* its modes, the preferred one first
  NonDesktop,        \* headsets
  CustomMode,        \* the mode that the user may ask for beyond those
  NameOrder,         \* connectors and makes, in the order of OutputName::compare
  Unset,             \* not mapped, no position or mode configured, no mode
  Ramps, NoRamp,
  Configs,           \* bound: output configurations that the file may have
  Edits,             \* bound: what the user changes over IPC
  MaxEvents,         \* bound: unread udev events
  TtyScenarios       \* bound: what happens in one behaviour, see below

\* features: "plug" (monitors come and go), "edid" (and are first seen without their EDID),
\* "device" (so do devices), "vt" (the virtual terminal changes), "lid", "fail" (connecting
\* fails), "file" (the configuration file does), "ignore"
\* (it ignores devices), "gamma" (a client sets it), "vrr", "manage" (a client configures
\* outputs); start, nodes and monitors: what is plugged in at the start and what may be;
\* edits: what the user asks for; ids: a bound on how often a connector is found connected.
TtyFeatures == {"plug", "edid", "device", "vt", "lid", "fail", "file", "ignore", "gamma",
                "vrr", "manage"}
TtyScenarioType ==
  [features : SUBSET TtyFeatures, monitors : SUBSET Monitors, nodes : SUBSET Nodes,
   start : [Connectors -> Monitors \cup {NoMonitor}], edits : SUBSET Edits,
   ids : Nat]

Keep == "keep"       \* no pending gamma change

ASSUME TtyAssumption ==
  /\ Primary \in Nodes /\ RenderNode[Primary] # NoNode
  /\ NodeOf \in [Connectors -> Nodes] /\ Panels \subseteq Connectors
  /\ NonDesktop \subseteq Monitors
  /\ TtyScenarios \subseteq TtyScenarioType

VARIABLES
  scenario,
  plugged,  \* what is at each connector: a monitor, and whether its EDID can be read
  present,  \* devices that are there
  udev,     \* events udev will report
  listed,   \* devices udev has reported
  opened,   \* devices whose handle is good: they were not unplugged since they were opened
  tty       \* the compositor

ttyVars == <<scenario, plugged, present, udev, listed, opened, tty>>

None == [mon |-> NoMonitor, edid |-> FALSE]
Missing == [name |-> NoMonitor]  \* no surface, or no known CRTC
Entry(name) == [name |-> name, off |-> FALSE, mode |-> Unset, pos |-> Unset, vrr |-> "off"]

---------------------------------------------------------------------------
(* Names and configuration. *)

Named(c, make) == [conn |-> c, make |-> make]

Matches(name, key) == key = name.conn \/ (name.make # NoMake /\ key = name.make)

FormatMakeOrConnector(name) == IF name.make = NoMake THEN name.conn ELSE name.make

Rank(key) == CHOOSE i \in DOMAIN NameOrder : NameOrder[i] = key

\* OutputName::compare: outputs without make, model and serial come last.
Before(a, b) ==
  IF a.make = b.make THEN Rank(a.conn) < Rank(b.conn)
  ELSE b.make = NoMake \/ (a.make # NoMake /\ Rank(a.make) < Rank(b.make))

FindIn(cfg, name) ==
  LET hits == {i \in DOMAIN cfg : Matches(name, cfg[i].name)} IN
  IF hits = {} THEN Entry(name.conn) ELSE cfg[Min(hits)]

Find(t, name) == FindIn(t.cfg, name)

Scanned(t) == {c \in Connectors : NodeOf[c] \in t.devices /\ t.scan[c] # None}
Enabled(t) == {c \in Connectors : t.surface[c] # Missing}

ShouldDisableLaptopPanels(t) == t.lid /\ Scanned(t) \ Panels # {}

ShouldBeOff(t, name) ==
  Find(t, name).off \/ (ShouldDisableLaptopPanels(t) /\ name.conn \in Panels)

Modes(s) == IF s.edid THEN ModesOf[s.mon] ELSE <<>>

\* pick_mode: the configured mode if the connector has it, or a custom one, else the
\* preferred one; Unset when there is none at all.
PickMode(modes, wanted) ==
  CASE wanted # Unset /\ (wanted = CustomMode \/ wanted \in ToSet(modes)) -> wanted
    [] OTHER -> IF modes = <<>> THEN Unset ELSE Head(modes)

---------------------------------------------------------------------------
(* The global space: outputs are placed anew, the configured ones first, each to the   *)
(* right of all others unless its own place is free.                                   *)

Overlap(x, w, y, v) == x < y + v /\ y < x + w

PlaceOutput(t, places, c) ==
  LET width(d) == t.surface[d].mode
      wanted == Find(t, t.surface[c].name).pos
      free == \A d \in DOMAIN places : ~Overlap(wanted, width(c), places[d], width(d))
      right == Max({0} \cup {places[d] + width(d) : d \in DOMAIN places})
      x == IF wanted # Unset /\ free THEN wanted ELSE right
  IN  [d \in DOMAIN places \cup {c} |-> IF d = c THEN x ELSE places[d]]

\* The configured outputs come first.
Sorted(t) ==
  LET configured == {c \in Enabled(t) : Find(t, t.surface[c].name).pos # Unset}
      first(a, b) == IF a \in configured <=> b \in configured
                     THEN Before(t.surface[a].name, t.surface[b].name) ELSE a \in configured
  IN  SetToSortSeq(Enabled(t), first)

MoveOutputs(t, places) ==
  LET pos == [c \in Connectors |-> IF c \in DOMAIN places THEN places[c] ELSE Unset]
  IN  [t EXCEPT !.pos = pos, !.ipcChanged = @ \/ \E c \in DOMAIN places : pos[c] # t.pos[c]]

RepositionOutputs(t) ==
  MoveOutputs(t, FoldLeft(LAMBDA p, c : PlaceOutput(t, p, c), [c \in {} |-> 0], Sorted(t)))

---------------------------------------------------------------------------
(* The map of outputs that IPC and D-Bus read. *)

IpcModes(t, c) ==
  LET modes == Modes(t.scan[c]) IN
  IF c \in Enabled(t) /\ t.surface[c].mode = CustomMode THEN <<CustomMode>> \o modes ELSE modes

\* current_mode is an index into modes, or Unset.
IpcOutput(t, c) ==
  LET on == c \in Enabled(t)
      modes == IpcModes(t, c)
      at == IF on THEN {i \in DOMAIN modes : modes[i] = t.surface[c].mode} ELSE {}
  IN  [name |-> t.known[c].name, modes |-> modes,
       current |-> IF at = {} THEN Unset ELSE Max(at),
       vrr |-> on /\ t.surface[c].vrr, logical |-> t.pos[c]]

IpcOutputs(t) ==
  [id \in {t.known[c].id : c \in Scanned(t)} |->
     IpcOutput(t, CHOOSE c \in Scanned(t) : t.known[c].id = id)]

\* Tty::refresh_ipc_outputs
RefreshIpcOutputs(t) == [t EXCEPT !.ipc = IpcOutputs(t), !.ipcChanged = TRUE]

---------------------------------------------------------------------------
(* Connectors. *)

WithoutControl(t, c) == [t EXCEPT !.control[c] = FALSE, !.ramp[c] = NoRamp]

\* The output goes with its surface: its gamma control fails, the others move up.
RemoveOutput(t, c) == WithoutControl(RepositionOutputs(t), c)

ConnectorDisconnected(t, c) ==
  IF c \in Enabled(t)
  THEN RemoveOutput([t EXCEPT !.surface[c] = Missing, !.pos[c] = Unset], c)
  ELSE [t EXCEPT !.offered = @ \ {c}]

NewSurface(t, c) ==
  LET name == t.known[c].name
      config == Find(t, name)
  IN  [name |-> name, mode |-> PickMode(Modes(t.scan[c]), config.mode),
       vrr |-> config.vrr = "on", demand |-> FALSE,
       blob |-> NoRamp, pending |-> Keep, feedback |-> t.dmabufGlobal]

\* A failure leaves nothing behind but the reset gamma.
ConnectSurface(t, c, surface, failing) ==
  LET reset == [t EXCEPT !.lut[c] = NoRamp] IN
  CASE surface.mode = Unset -> [t EXCEPT !.failed = @ \cup {c}]
    [] c \in failing -> [reset EXCEPT !.failed = @ \cup {c}]
    [] OTHER -> RepositionOutputs([reset EXCEPT !.surface[c] = surface, !.failed = @ \ {c}])

ConnectorConnected(t, c, failing) ==
  IF t.scan[c].mon \in NonDesktop THEN [t EXCEPT !.offered = @ \cup {c}]
  ELSE ConnectSurface(t, c, NewSurface(t, c), failing)

\* What on_output_config_changed makes of a surface that stays; niri.output_resized, which
\* follows a change of mode, does not place outputs anew.
UpdatedSurface(t, c) ==
  LET s == t.surface[c]
      config == Find(t, s.name)
      mode == PickMode(Modes(t.scan[c]), config.mode)
      demand == config.vrr = "demand"
      toggle == \/ demand /\ s.vrr # s.demand
                \/ ~demand /\ s.vrr # (config.vrr = "on")
  IN  IF mode = Unset THEN s
      ELSE [s EXCEPT !.mode = mode, !.vrr = IF toggle THEN ~@ ELSE @]

ToConnect(t) ==
  {c \in Scanned(t) \ (Enabled(t) \cup t.offered) : ~ShouldBeOff(t, t.known[c].name)}

OnOutputConfigChanged(t, failing) ==
  IF ~t.active THEN [t EXCEPT !.updateOnResume = TRUE]
  ELSE
    LET off == {c \in Enabled(t) : ShouldBeOff(t, t.surface[c].name)}
        kept == [t EXCEPT !.updateOnResume = FALSE, !.owed = FALSE,
                          !.surface = [c \in Connectors |->
                             IF c \in Enabled(t) \ off THEN UpdatedSurface(t, c) ELSE @[c]]]
        gone == FoldLeft(ConnectorDisconnected, kept, SetToSeq(off))
        order == SetToSortSeq(ToConnect(t), LAMBDA a, b : Before(t.known[a].name, t.known[b].name))
    IN  RefreshIpcOutputs(FoldLeft(LAMBDA x, c : ConnectorConnected(x, c, failing), gone, order))

---------------------------------------------------------------------------
(* Devices.  w is what a handler sees of the world: what is plugged in (hw), the       *)
(* devices that can be opened, those whose handles are good, those that udev has listed, *)
(* and which connectors fail to connect.                                               *)

\* Mutant: two monitors may have the same name.
NameConnectorTwice(t, c, w) ==
  LET make == IF w.hw[c].edid THEN Make[w.hw[c].mon] ELSE NoMake IN
  [t EXCEPT !.known[c] = [id |-> t.nextId, name |-> Named(c, make), mon |-> w.hw[c].mon],
            !.nextId = @ + 1]

\* A name that an other connector has is dropped: the layout must not see it twice.  The
\* monitor is kept to state the property: the scan does not see it swapped.
NameConnector(t, c, w) ==
  LET make == IF w.hw[c].edid THEN Make[w.hw[c].mon] ELSE NoMake
      name == Named(c, make)
      taken == \E d \in Connectors :
                  t.known[d] # Missing /\ Matches(t.known[d].name, FormatMakeOrConnector(name))
  IN  [t EXCEPT !.known[c] = [id |-> t.nextId, name |-> Named(c, IF taken THEN NoMake ELSE make),
                              mon |-> w.hw[c].mon],
                !.nextId = @ + 1]

\* device_changed for a device that is known: disconnected connectors go first, then the
\* new ones are named and whatever is needed is connected.
ScanConnectors(t, n, w) ==
  LET own == {c \in Connectors : NodeOf[c] = n}
      removed == {c \in own : t.scan[c] # None /\ w.hw[c] = None}
      added == {c \in own : t.scan[c] = None /\ w.hw[c] # None}
      scanned == [t EXCEPT !.scan = [c \in Connectors |-> IF c \in own THEN w.hw[c] ELSE @[c]],
                           !.failed = @ \ (removed \cup added)]
      gone == FoldLeft(ConnectorDisconnected, scanned, SetToSeq(removed))
      forgotten == [gone EXCEPT !.known = [c \in Connectors |->
                      IF c \in removed THEN Missing ELSE @[c]]]
      named == FoldLeft(LAMBDA x, c : NameConnector(x, c, w), forgotten, SetToSeq(added))
  IN  IF n \in w.good THEN OnOutputConfigChanged(named, w.failing) ELSE t

Ignored(t) == t.ignoredConfig \ {Primary}

UsesPrimaryRenderer(n) == RenderNode[n] = RenderNode[Primary]

\* The dma-buf global, and the feedback of every surface, come with the primary renderer.
AddRenderer(t, n) ==
  IF UsesPrimaryRenderer(n) /\ ~t.dmabufGlobal
  THEN [t EXCEPT !.dmabufGlobal = TRUE,
                 !.surface = [c \in Connectors |->
                    IF c \in Enabled(t) THEN [@[c] EXCEPT !.feedback = TRUE] ELSE @[c]]]
  ELSE t

\* A display-only device borrows the allocator of the primary one and cannot be without it.
CanOpen(t, n, w) ==
  /\ n \notin t.ignored /\ n \in w.present
  /\ RenderNode[n] # NoNode \/ Primary \in t.devices

Open(t, n) ==
  [AddRenderer(t, n) EXCEPT !.devices = @ \cup {n}, !.panicked = @ \/ n \in t.devices]

DeviceAdded(t, n, w) == IF CanOpen(t, n, w) THEN ScanConnectors(Open(t, n), n, w) ELSE t

\* A device that is not known yet is added.
DeviceChanged(t, n, w) ==
  LET known == n \in t.devices IN
  IF n \in t.ignored \/ (~known /\ ~CanOpen(t, n, w)) THEN t
  ELSE ScanConnectors(IF known THEN t ELSE Open(t, n), n, w)

RemoveRenderer(t, n) ==
  IF UsesPrimaryRenderer(n) /\ \A m \in t.devices : ~UsesPrimaryRenderer(m)
  THEN [t EXCEPT !.dmabufGlobal = FALSE,
                 !.surface = [c \in Connectors |->
                    IF c \in Enabled(t) THEN [@[c] EXCEPT !.feedback = FALSE] ELSE @[c]]]
  ELSE t

\* The device takes its scanner and its names along; nothing else is looked at again, so
\* a laptop panel that may now be on stays off (owed).
DeviceRemoved(t, n) ==
  IF n \notin t.devices THEN t
  ELSE
    LET own == {c \in Connectors : NodeOf[c] = n}
        gone == FoldLeft(ConnectorDisconnected, t, SetToSeq(own \cap Scanned(t)))
        dropped == [gone EXCEPT
          !.devices = @ \ {n}, !.failed = @ \ own, !.owed = @ \/ t.lid,
          !.scan = [c \in Connectors |-> IF c \in own THEN None ELSE @[c]],
          !.known = [c \in Connectors |-> IF c \in own THEN Missing ELSE @[c]]]
    IN  RefreshIpcOutputs(RemoveRenderer(dropped, n))

InOrder(nodes) == SetToSortSeq(nodes, LAMBDA a, b : a = Primary /\ b # Primary)

AddDevices(t, nodes, w) ==
  FoldLeft(LAMBDA x, n : DeviceAdded(x, n, w), t, InOrder(nodes))

\* Devices that are ignored now, or gone, are removed; those that are not known are added.
UpdateIgnoredNodesConfig(t, w) ==
  IF ~t.active \/ Ignored(t) = t.ignored THEN t
  ELSE LET gone == {n \in t.devices : n \in Ignored(t) \/ n \notin w.listed}
           kept == FoldLeft(DeviceRemoved, [t EXCEPT !.ignored = Ignored(t)], SetToSeq(gone))
       IN  AddDevices(kept, w.listed \ t.devices, w)

---------------------------------------------------------------------------
(* Gamma, the session, the configuration. *)

\* Tty::set_gamma.  The ramp that the control set last is kept to state the property.
SetGamma(t, c, ramp) ==
  IF ~t.active THEN [t EXCEPT !.surface[c].pending = ramp]
  ELSE [t EXCEPT !.surface[c].blob = ramp, !.lut[c] = ramp]

\* Mutant: what was set on another terminal is forgotten.
RestoreGammaBlob(t, n) ==
  LET own == {c \in Enabled(t) : NodeOf[c] = n}
  IN  [t EXCEPT !.lut = [c \in Connectors |-> IF c \in own THEN t.surface[c].blob ELSE @[c]],
                !.surface = [c \in Connectors |->
                   IF c \in own THEN [@[c] EXCEPT !.pending = Keep] ELSE @[c]]]

RestoreGamma(t, n) ==
  LET own == {c \in Enabled(t) : NodeOf[c] = n}
      ramp(c) == IF t.surface[c].pending = Keep THEN t.surface[c].blob ELSE t.surface[c].pending
  IN  [t EXCEPT !.lut = [c \in Connectors |-> IF c \in own THEN ramp(c) ELSE @[c]],
                !.surface = [c \in Connectors |->
                   IF c \in own THEN [@[c] EXCEPT !.blob = ramp(c), !.pending = Keep] ELSE @[c]]]

\* SessionEvent::ActivateSession: devices that are gone or ignored are removed, those that
\* remain are scanned and their gamma restored, new ones are added.
FinishResume(t, failing) ==
  RefreshIpcOutputs(IF t.updateOnResume THEN OnOutputConfigChanged(t, failing) ELSE t)

ActivateSession(t, w) ==
  LET awake == [t EXCEPT !.active = TRUE, !.ignored = Ignored(t)]
      gone == {n \in t.devices : n \notin w.listed \/ n \in awake.ignored}
      removed == FoldLeft(DeviceRemoved, awake, SetToSeq(gone))
      Resume(x, n) == RestoreGamma(ScanConnectors(x, n, w), n)
      remained == FoldLeft(Resume, removed, SetToSeq(t.devices \ gone))
  IN  FinishResume(AddDevices(remained, w.listed \ t.devices, w), w.failing)

ReloadOutputConfig(t, failing) == RepositionOutputs(OnOutputConfigChanged(t, failing))

\* modify_output_config: the section of the output that the user means, or a new one.
ModifyOutputConfig(t, key, field, value) ==
  LET outputs == {t.surface[c].name : c \in Enabled(t)}
      disabled == {t.known[c].name : c \in Scanned(t) \ (Enabled(t) \cup t.offered)}
      hits(names) == {n \in names : Matches(n, key)}
      name == CASE hits(outputs) # {} -> CHOOSE n \in hits(outputs) : TRUE
                [] hits(disabled) # {} -> CHOOSE n \in hits(disabled) : TRUE
                [] OTHER -> Named(key, NoMake)
      at == {i \in DOMAIN t.cfg : Matches(name, t.cfg[i].name)}
  IN  IF at = {} THEN [t EXCEPT !.cfg = Append(@, [Entry(key) EXCEPT ![field] = value])]
      ELSE [t EXCEPT !.cfg[Min(at)][field] = value]

---------------------------------------------------------------------------
(* The world. *)

Feature(f) == f \in scenario.features
Failing == IF Feature("fail") THEN SUBSET Connectors ELSE {{}}

Report(kind, n) == udev' = Append(udev, [kind |-> kind, node |-> n])
Unread == Len(udev) < MaxEvents /\ tty.nextId <= scenario.ids

Plug(c, m) ==
  /\ Feature("plug") /\ Unread
  /\ m \in scenario.monitors /\ NodeOf[c] \in present
  /\ plugged[c] = None /\ \A d \in Connectors : plugged[d].mon # m
  /\ plugged' = [plugged EXCEPT ![c] = [mon |-> m, edid |-> ~Feature("edid")]]
  /\ Report("Changed", NodeOf[c])
  /\ UNCHANGED <<scenario, present, listed, opened, tty>>

ReadEdid(c) ==
  /\ Unread /\ plugged[c] # None /\ ~plugged[c].edid
  /\ plugged' = [plugged EXCEPT ![c].edid = TRUE]
  /\ Report("Changed", NodeOf[c])
  /\ UNCHANGED <<scenario, present, listed, opened, tty>>

Unplug(c) ==
  /\ Feature("plug") /\ Unread
  /\ plugged[c] # None /\ c \notin Panels
  /\ plugged' = [plugged EXCEPT ![c] = None]
  /\ Report("Changed", NodeOf[c])
  /\ UNCHANGED <<scenario, present, listed, opened, tty>>

\* A device that goes takes what is plugged into it along.
UnplugDevice(n) ==
  /\ Feature("device") /\ Unread
  /\ n \in present \ {Primary}
  /\ present' = present \ {n} /\ opened' = opened \ {n}
  /\ plugged' = [c \in Connectors |-> IF NodeOf[c] = n THEN None ELSE plugged[c]]
  /\ Report("Removed", n)
  /\ UNCHANGED <<scenario, listed, tty>>

PlugDevice(n) ==
  /\ Feature("device") /\ Unread
  /\ n \in scenario.nodes \ present
  /\ present' = present \cup {n}
  /\ Report("Added", n)
  /\ UNCHANGED <<scenario, plugged, listed, opened, tty>>

---------------------------------------------------------------------------
(* The handlers. *)

\* A device that is opened in this step has a good handle, as has one that had.
Good == opened \cup (present \ tty.devices)
Opened == opened' = tty'.devices \cap Good
Worlds == {[hw |-> plugged, present |-> present, good |-> Good, listed |-> listed, failing |-> f] :
             f \in Failing}

OnUdevEvent ==
  /\ udev # <<>>
  /\ LET event == Head(udev)
         n == event.node
         add == [tty EXCEPT !.ignored = Ignored(tty)]
     IN  /\ listed' = CASE event.kind = "Added" -> listed \cup {n}
                        [] event.kind = "Removed" -> listed \ {n}
                        [] OTHER -> listed
         /\ \E w \in Worlds :
              tty' = CASE ~tty.active -> tty
                       [] event.kind = "Added" -> DeviceAdded(add, n, w)
                       [] event.kind = "Changed" -> DeviceChanged(tty, n, w)
                       [] event.kind = "Removed" -> DeviceRemoved(tty, n)
  /\ udev' = Tail(udev)
  /\ Opened
  /\ UNCHANGED <<scenario, plugged, present>>

PauseSession ==
  /\ Feature("vt") /\ tty.active
  /\ tty' = [tty EXCEPT !.active = FALSE]
  /\ UNCHANGED <<scenario, plugged, present, udev, listed, opened>>

\* Whoever has the other terminal sets a gamma of its own.
OtherTerminal(r) ==
  /\ ~tty.active /\ Feature("gamma")
  /\ tty' = [tty EXCEPT !.lut = [c \in Connectors |-> r]]
  /\ UNCHANGED <<scenario, plugged, present, udev, listed, opened>>

ResumeSession ==
  /\ ~tty.active
  /\ \E w \in Worlds : tty' = ActivateSession(tty, w)
  /\ Opened
  /\ UNCHANGED <<scenario, plugged, present, udev, listed>>

SetLidClosed ==
  /\ Feature("lid")
  /\ \E failing \in Failing :
       tty' = OnOutputConfigChanged([tty EXCEPT !.lid = ~@], failing)
  /\ UNCHANGED <<scenario, plugged, present, udev, listed, opened>>

\* The end of State::reload_config: ignored devices come first.
FollowConfig(t, ignored_nodes_changed, output_config_changed, w) ==
  LET nodes == IF ignored_nodes_changed THEN UpdateIgnoredNodesConfig(t, w) ELSE t
  IN  IF output_config_changed THEN ReloadOutputConfig(nodes, w.failing) ELSE nodes

\* State::reload_config, as far as it concerns outputs: what was changed over IPC stays
\* unless the file says something new about outputs.
ReloadConfig(file, ignore) ==
  LET read == IF file = tty.fileCfg THEN tty
              ELSE [tty EXCEPT !.fileCfg = file, !.cfg = file, !.promised = <<>>]
      ignored_nodes_changed == ignore # tty.ignoredConfig
  IN  /\ \/ Feature("file") /\ file \in Configs /\ ~ignored_nodes_changed
         \/ Feature("ignore") /\ file = tty.fileCfg /\ ignored_nodes_changed
      /\ tty.nextId <= scenario.ids
      /\ \E w \in Worlds :
           tty' = FollowConfig([read EXCEPT !.ignoredConfig = ignore], ignored_nodes_changed,
                               ignored_nodes_changed \/ file # tty.fileCfg, w)
      /\ Opened
      /\ UNCHANGED <<scenario, plugged, present, udev, listed>>

\* niri msg output
ApplyTransientOutputConfig(edit) ==
  /\ edit \in scenario.edits
  /\ \E failing \in Failing :
       tty' = ReloadOutputConfig(
                [ModifyOutputConfig(tty, edit.key, edit.field, edit.value) EXCEPT !.promised = <<>>],
                failing)
  /\ UNCHANGED <<scenario, plugged, present, udev, listed, opened>>

\* refresh_on_demand_vrr, when a window that asks for it becomes visible or hidden.
SetOutputOnDemandVrr(c) ==
  /\ Feature("vrr") /\ c \in Enabled(tty)
  /\ Find(tty, tty.surface[c].name).vrr = "demand"
  /\ LET want == ~tty.surface[c].demand
         set == [tty EXCEPT !.surface[c].demand = want, !.surface[c].vrr = want]
     IN  tty' = IF tty.surface[c].vrr = want THEN [tty EXCEPT !.surface[c].demand = want]
                ELSE RefreshIpcOutputs(set)
  /\ UNCHANGED <<scenario, plugged, present, udev, listed, opened>>

GetGammaControl(c) ==
  /\ Feature("gamma") /\ c \in Enabled(tty) /\ ~tty.control[c]
  /\ tty' = [tty EXCEPT !.control[c] = TRUE]
  /\ UNCHANGED <<scenario, plugged, present, udev, listed, opened>>

ControlSetsGamma(c, ramp) ==
  /\ tty.control[c]
  /\ tty' = [SetGamma(tty, c, ramp) EXCEPT !.ramp[c] = ramp]
  /\ UNCHANGED <<scenario, plugged, present, udev, listed, opened>>

\* The control is destroyed, or fails over bad data or a failing device: the ramp goes.
ControlGone(c) ==
  /\ tty.control[c]
  /\ tty' = SetGamma(WithoutControl(tty, c), c, NoRamp)
  /\ UNCHANGED <<scenario, plugged, present, udev, listed, opened>>
=============================================================================
