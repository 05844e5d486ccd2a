-------------------------- MODULE OutputManagement --------------------------
(***************************************************************************)
(* wlr-output-management (src/protocols/output_management.rs) on top of    *)
(* Tty: a client is told of every output, enabled or not, and of every     *)
(* change; it builds a configuration and has it tested or applied.  A      *)
(* configuration is good only for the state it was made for: serials tell. *)
(* The serials themselves are abstracted to whether they are the current   *)
(* one.  The manager's copy of the configuration, current_config, is set   *)
(* at start-up (src/niri.rs:2378) and at the end of every                  *)
(* reload_output_config, and so equals tty.cfg.                            *)
(***************************************************************************)
EXTENDS Tty

CONSTANTS
  Unbound,  \* no client has bound the manager
  Requests, \* bound: what a client may ask of a head, as off, mode and pos
  MaxConfs  \* bound: configuration objects

VARIABLES
  state,  \* current_state: what clients were told of
  heads,  \* what the client knows of its heads, or Unbound
  conf    \* its configuration object, if its phase is not "none"; how many there were

mgmtVars == <<state, heads, conf>>
allVars == <<ttyVars, mgmtVars>>

NoConf(made) == [entries |-> <<>>, phase |-> "none", fresh |-> FALSE, made |-> made]

---------------------------------------------------------------------------
(* State::refresh_ipc_outputs, at the end of every iteration of the event loop. *)

\* send_new_head.  missed is kept to state the property: whether the client was not told that
\* the output is on, or in which mode.
NewHead(o) == [modes |-> o.modes, current |-> o.current, enabled |-> o.current # Unset,
               vrr |-> o.vrr, logical |-> o.logical, missed |-> FALSE]

\* It is made good when both are sent, or the output turned off.
Missed(head, old, new) ==
  LET same == Len(old.modes) = Len(new.modes)
      moved == old.current # new.current
      sent == same /\ (moved \/ old.modes # new.modes) /\ (old.current = Unset \/ head.enabled)
  IN  new.current # Unset /\ ~sent /\ (head.missed \/ (moved /\ ~same))

\* Mutant: an output that is turned on has its mode sent, but not that it is on.
UpdatedHeadStaysOff(head, old, new) ==
  LET same == Len(old.modes) = Len(new.modes) IN
  [modes |-> new.modes,
   current |-> IF new.current # Unset /\ same THEN new.current ELSE head.current,
   enabled |-> head.enabled /\ new.current # Unset,
   vrr |-> new.vrr,
   logical |-> IF new.logical = Unset THEN head.logical ELSE new.logical,
   missed |-> Missed(head, old, new)]

\* notify_changes for an output that stays: what is sent of its mode depends on whether it
\* had one and on how many modes there are: neither enabled nor current_mode when that number
\* changes, so that the client misses what they would have said.
UpdatedHead(head, old, new) ==
  LET same == Len(old.modes) = Len(new.modes)
      both == old.current # Unset /\ new.current # Unset
      turnedOn == old.current = Unset /\ new.current # Unset /\ same
      remode == both /\ same /\ (old.modes # new.modes \/ old.current # new.current)
  IN  [modes |-> new.modes,
       current |-> IF turnedOn \/ remode THEN new.current ELSE head.current,
       enabled |-> CASE old.current # Unset /\ new.current = Unset -> FALSE
                     [] turnedOn -> TRUE
                     [] OTHER -> head.enabled,
       vrr |-> new.vrr,
       logical |-> IF new.logical = Unset THEN head.logical ELSE new.logical,
       missed |-> Missed(head, old, new)]

\* Whether any of the differences sets changed; an output that loses its place loses its
\* mode too.
Differs(old, new) ==
  \/ DOMAIN old # DOMAIN new
  \/ \E id \in DOMAIN old :
       LET a == old[id] b == new[id] IN
       \/ a.vrr # b.vrr \/ a.modes # b.modes \/ a.current # b.current
       \/ b.logical # Unset /\ a.logical # b.logical

NotifyChanges(new) ==
  IF ~Differs(state, new) THEN UNCHANGED mgmtVars
  ELSE /\ state' = new
       /\ heads' = IF heads = Unbound THEN Unbound
                   ELSE [id \in DOMAIN new |->
                           IF id \in DOMAIN state THEN UpdatedHead(heads[id], state[id], new[id])
                           ELSE NewHead(new[id])]
       /\ conf' = [conf EXCEPT !.fresh = FALSE]

\* The logical outputs are looked up by name.
Logical(t) ==
  [id \in DOMAIN t.ipc |-> [t.ipc[id] EXCEPT !.logical = t.pos[t.ipc[id].name.conn]]]

Refresh ==
  /\ tty.ipcChanged
  /\ tty' = [tty EXCEPT !.ipcChanged = FALSE, !.ipc = Logical(tty)]
  /\ NotifyChanges(Logical(tty))
  /\ UNCHANGED <<scenario, plugged, present, udev, listed, opened>>

---------------------------------------------------------------------------
(* The client. *)

Bind ==
  /\ Feature("manage") /\ heads = Unbound
  /\ heads' = [id \in DOMAIN state |-> NewHead(state[id])]
  /\ UNCHANGED <<ttyVars, state, conf>>

\* The manager is stopped or destroyed, and all the client has with it.
Stop ==
  /\ heads # Unbound
  /\ heads' = Unbound /\ conf' = NoConf(conf.made)
  /\ UNCHANGED <<ttyVars, state>>

\* The client may not have seen the latest serial yet.
CreateConfiguration(fresh) ==
  /\ heads # Unbound /\ conf.phase = "none" /\ conf.made < MaxConfs
  /\ conf' = [NoConf(conf.made + 1) EXCEPT !.phase = "ongoing", !.fresh = fresh]
  /\ UNCHANGED <<ttyVars, state, heads>>

\* The section of the output in the configuration, or a new one.
ConfiguredHead(id) ==
  LET name == state[id].name
      hits == {i \in DOMAIN tty.cfg : Matches(name, tty.cfg[i].name)}
  IN  IF hits = {} THEN Entry(FormatMakeOrConnector(name)) ELSE tty.cfg[Min(hits)]

\* enable_head, with set_mode and set_position on the new object; disable_head.  A second
\* request for the head, or one after the configuration was used, is a protocol error.
ConfigureHead(id, request) ==
  /\ heads # Unbound /\ conf.phase = "ongoing" /\ conf.fresh
  /\ id \in DOMAIN state /\ id \notin DOMAIN conf.entries
  /\ request.mode \in {Unset} \cup ToSet(state[id].modes)
  /\ LET base == [ConfiguredHead(id) EXCEPT !.off = request.off]
         moded == IF request.mode = Unset THEN base ELSE [base EXCEPT !.mode = request.mode]
         entry == IF request.pos = Unset THEN moded ELSE [moded EXCEPT !.pos = request.pos]
     IN  conf' = [conf EXCEPT !.entries = [i \in DOMAIN @ \cup {id} |->
                                             IF i = id THEN entry ELSE @[i]]]
  /\ UNCHANGED <<ttyVars, state, heads>>

AnyEnabled(entries) == \E id \in DOMAIN entries : ~entries[id].off

\* What the client configures becomes the whole output configuration.  It is cancelled
\* when it is outdated, and fails when it turns everything off.
Apply ==
  /\ conf.phase = "ongoing"
  /\ IF conf.fresh /\ AnyEnabled(conf.entries)
     THEN /\ \E failing \in Failing, order \in SetToSeqs(DOMAIN conf.entries) :
               tty' = ReloadOutputConfig(
                        [tty EXCEPT !.cfg = [i \in DOMAIN order |-> conf.entries[order[i]]],
                                    !.promised = conf.entries],
                        failing)
          /\ UNCHANGED <<scenario, plugged, present, udev, listed, opened>>
     ELSE UNCHANGED ttyVars
  /\ conf' = IF conf.fresh THEN [conf EXCEPT !.phase = "finished"] ELSE conf
  /\ UNCHANGED <<state, heads>>

\* Nothing is tried; the configuration is used up.
Test ==
  /\ conf.phase = "ongoing" /\ conf.fresh
  /\ conf' = [conf EXCEPT !.phase = "finished"]
  /\ UNCHANGED <<ttyVars, state, heads>>

DestroyConfiguration ==
  /\ conf.phase # "none"
  /\ conf' = NoConf(conf.made)
  /\ UNCHANGED <<ttyVars, state, heads>>

---------------------------------------------------------------------------

Blank ==
  [active |-> TRUE, lid |-> FALSE, cfg |-> <<>>, fileCfg |-> <<>>, updateOnResume |-> FALSE,
   ignored |-> {}, ignoredConfig |-> {}, devices |-> {},
   scan |-> [c \in Connectors |-> None], known |-> [c \in Connectors |-> Missing],
   surface |-> [c \in Connectors |-> Missing], offered |-> {}, failed |-> {},
   dmabufGlobal |-> FALSE, pos |-> [c \in Connectors |-> Unset],
   ipc |-> <<>>, ipcChanged |-> FALSE, nextId |-> 1,
   control |-> [c \in Connectors |-> FALSE], ramp |-> [c \in Connectors |-> NoRamp],
   lut |-> [c \in Connectors |-> NoRamp], owed |-> FALSE, panicked |-> FALSE, promised |-> <<>>]

\* Tty::init with whatever is plugged in.
TtyInit ==
  /\ scenario \in TtyScenarios
  /\ present = scenario.nodes /\ listed = present /\ opened = present
  /\ udev = <<>>
  /\ plugged = [c \in Connectors |->
                  IF scenario.start[c] = NoMonitor THEN None
                  ELSE [mon |-> scenario.start[c], edid |-> TRUE]]
  /\ \E file \in {<<>>} \cup IF Feature("file") THEN Configs ELSE {} :
       tty = AddDevices([Blank EXCEPT !.cfg = file, !.fileCfg = file], present,
                        [hw |-> plugged, present |-> present, good |-> present, listed |-> listed,
                         failing |-> {}])
  /\ state = <<>> /\ heads = Unbound /\ conf = NoConf(0)

TtyStep ==
  \/ \E c \in Connectors : \E m \in Monitors : Plug(c, m)
  \/ \E c \in Connectors : ReadEdid(c) \/ Unplug(c)
  \/ \E n \in Nodes : UnplugDevice(n) \/ PlugDevice(n)
  \/ OnUdevEvent
  \/ PauseSession \/ ResumeSession
  \/ \E r \in Ramps : OtherTerminal(r)
  \/ SetLidClosed
  \/ \E file \in Configs \cup {<<>>, tty.fileCfg}, ignore \in SUBSET Nodes : ReloadConfig(file, ignore)
  \/ \E edit \in Edits : ApplyTransientOutputConfig(edit)
  \/ \E c \in Connectors : SetOutputOnDemandVrr(c) \/ GetGammaControl(c) \/ ControlGone(c)
  \/ \E c \in Connectors, r \in Ramps : ControlSetsGamma(c, r)

TtyNext ==
  \/ TtyStep /\ UNCHANGED mgmtVars
  \/ Refresh
  \/ Bind \/ Stop
  \/ \E fresh \in BOOLEAN : CreateConfiguration(fresh)
  \/ \E id \in DOMAIN state, request \in Requests : ConfigureHead(id, request)
  \/ Apply \/ Test \/ DestroyConfiguration

TtySpec == TtyInit /\ [][TtyNext]_allVars

---------------------------------------------------------------------------
(* Properties. *)

\* All that happened was noticed.
Calm == tty.active /\ udev = <<>> /\ ~tty.updateOnResume

\* No device is added twice, which would be a panic, and no two connectors have names that
\* match, which the layout does not support.
NeverTwice ==
  /\ ~tty.panicked
  /\ \A c, d \in Connectors :
       c # d /\ tty.known[c] # Missing /\ tty.known[d] # Missing =>
         ~Matches(tty.known[d].name, FormatMakeOrConnector(tty.known[c].name))

\* The devices in use are those that udev lists and that are not ignored; the dma-buf
\* global, and with it the feedback of the surfaces, is there while the primary renderer is.
DevicesFollow ==
  /\ Calm => \A n \in Nodes :
       /\ n \in tty.devices => n \in listed \ Ignored(tty)
       /\ n \in listed \ Ignored(tty) /\ RenderNode[n] # NoNode => n \in tty.devices
  /\ tty.dmabufGlobal <=> \E n \in tty.devices : UsesPrimaryRenderer(n)
  /\ \A c \in Enabled(tty) : tty.surface[c].feedback = tty.dmabufGlobal

\* A connector of a device that works has a surface exactly if a monitor for the desktop is
\* there that the configuration and the lid leave on and that could be connected; mode and
\* VRR are those of the configuration.  (A monitor that replaced another between two scans
\* is taken for the one it replaced.)
ConnectorsFollow ==
  Calm => \A c \in Connectors :
    NodeOf[c] \in tty.devices \cap opened =>
      LET s == plugged[c]
          surface == tty.surface[c]
          config == Find(tty, surface.name)
          mode == PickMode(Modes(s), config.mode)
      IN  /\ tty.scan[c] = s
          /\ s = None => c \notin Enabled(tty) \cup tty.offered
          /\ s # None => tty.known[c] # Missing
          /\ s # None /\ tty.known[c].mon = s.mon /\ s.mon \in NonDesktop => c \notin Enabled(tty)
          /\ s # None /\ tty.known[c].mon = s.mon /\ s.mon \notin NonDesktop
               /\ ~(tty.owed /\ c \in Panels) =>
               (c \in Enabled(tty) <=> ~ShouldBeOff(tty, tty.known[c].name) /\ c \notin tty.failed)
          /\ c \in Enabled(tty) =>
               /\ mode \in {Unset, surface.mode}
               /\ surface.vrr <=> config.vrr = "on" \/ (config.vrr = "demand" /\ surface.demand)

\* Whatever order monitors, devices, virtual terminals, the lid, the configuration and its
\* ignored devices change in, and however late udev says so, the outputs follow.
OutputsFollow == NeverTwice /\ DevicesFollow /\ ConnectorsFollow

\* While the session is active the hardware has the ramp that the output's control set last,
\* also when it did so on another terminal, and none without a control.
GammaAsSet ==
  tty.active => \A c \in Enabled(tty) : NodeOf[c] \in opened => tty.lut[c] = tty.ramp[c]

\* After a refresh IPC and the heads of the client show the outputs as they are; the client
\* may miss that an output is on, or its mode, but only when the number of its modes changed
\* in the same refresh (notify_changes, against its comment that this sends the mode).
HeadsMirror ==
  ~tty.ipcChanged =>
    /\ tty.ipc = IpcOutputs(tty)
    /\ heads # Unbound =>
         /\ DOMAIN heads = DOMAIN tty.ipc
         /\ \A id \in DOMAIN heads :
              LET head == heads[id] output == tty.ipc[id] IN
              /\ head.modes = output.modes /\ head.vrr = output.vrr
              /\ output.current # Unset => head.logical = output.logical
              /\ ~head.missed => /\ head.enabled <=> output.current # Unset
                                 /\ head.enabled => head.current = output.current

\* A configuration that a client applied is in force, for the monitors that it was made for,
\* until something else changes the configuration.
ApplyTakesEffect ==
  Calm => \A c \in Scanned(tty) :
    NodeOf[c] \in opened /\ tty.known[c].id \in DOMAIN tty.promised =>
      LET entry == tty.promised[tty.known[c].id] IN
      /\ entry.off => c \notin Enabled(tty)
      /\ ~entry.off /\ c \notin Panels \cup tty.failed => c \in Enabled(tty) \cup tty.offered
      /\ c \in Enabled(tty) /\ entry.mode \in ToSet(Modes(tty.scan[c])) =>
           tty.surface[c].mode = entry.mode

\* Both directions of output management: the client is told of the outputs as they are, and
\* they become what it asks for (notify_changes, apply_output_config).
ManagementHolds == HeadsMirror /\ ApplyTakesEffect

\* Outputs do not overlap: what would is placed to the right of all others.
OutputsApart ==
  \A c, d \in Enabled(tty) :
    c # d => ~Overlap(tty.pos[c], tty.surface[c].mode, tty.pos[d], tty.surface[d].mode)
=============================================================================
