------------------------------ MODULE Layout ------------------------------
(***************************************************************************)
(* Monitors, workspaces and where the windows are (src/layout/mod.rs).     *)
(* Outputs come and go under the windows; the workspaces of a vanished     *)
(* output wait on the primary monitor (or, with no output left, in         *)
(* MonitorSet::NoOutputs) until it returns.  Workspaces are created and    *)
(* dropped on the fly so that every monitor ends with an empty one, while  *)
(* switch animations, gestures, an interactive window move and config      *)
(* reloads are under way.                                                  *)
(*                                                                         *)
(* A window, workspace or output an action takes as input stands for       *)
(* whatever reference (focus, index, name, id) the code resolves it from;  *)
(* which window of a workspace has the focus is left out.                  *)
(***************************************************************************)
EXTENDS Monitor

CONSTANT
  Scenarios  \* bound: who does what in one behaviour, see Scripts

\* features: the groups of operations that happen; outputs, windows: those that exist;
\* max: the workspaces of a monitor, at most.
Scripts ==
  [features : SUBSET {"hotplug", "names", "names_elsewhere", "config", "gestures", "move",
                      "workspaces", "columns", "per_output"},
   outputs : SUBSET Outputs, windows : SUBSET Windows, max : Nat]

ASSUME ScenariosAssumption == \A s \in Scenarios : s \in Scripts

VARIABLES
  scenario,          \* one of Scenarios, which never changes
  monitor_set,       \* Layout::monitor_set; no monitors: NoOutputs { workspaces }
  ews_config,        \* empty_workspace_above_first in each output's configuration
  overview_open,     \* Layout::overview_open
  interactive_move,  \* Layout::interactive_move
  dnd,               \* Layout::dnd.is_some()
  mapped             \* the windows handed to add_window and not yet closed

vars == <<scenario, monitor_set, ews_config, overview_open, interactive_move, dnd, mapped>>

NoMove == [state |-> "None", window |-> {}, output |-> NoOutput]

monitors == monitor_set.monitors
MonitorIdx == DOMAIN monitors
Connected == {monitors[k].output : k \in MonitorIdx}
IdxOf(o) == CHOOSE k \in MonitorIdx : monitors[k].output = o
Places == UNION {{k} \X DOMAIN monitors[k].workspaces : k \in MonitorIdx}
WorkspaceAt(p) == monitors[p[1]].workspaces[p[2]]
WorkspacesOf(set) ==
  (UNION {Range(set.monitors[k].workspaces) : k \in DOMAIN set.monitors})
  \cup Range(set.workspaces)
WindowsOf(set) == UNION {ws.windows : ws \in WorkspacesOf(set)}
NamesOf(set) == {ws.name : ws \in WorkspacesOf(set)} \ {NoName}

\* The monitor set with monitor k replaced, and with monitor k focused.
SetMonitor(set, k, m) == [set EXCEPT !.monitors[k] = m]
Focus(set, k, activate) == IF activate THEN [set EXCEPT !.active_monitor_idx = k] ELSE set

\* The bound: no step makes a monitor longer than the scenario has it.
WithinBounds ==
  /\ \A k \in DOMAIN monitor_set'.monitors :
       Len(monitor_set'.monitors[k].workspaces) <= scenario.max
  /\ Len(monitor_set'.workspaces) <= scenario.max

\* The step changes the monitor set and nothing else.
MonitorsOnly ==
  /\ WithinBounds
  /\ UNCHANGED <<ews_config, overview_open, interactive_move, dnd, mapped>>

Has(feature) == feature \in scenario.features

---------------------------------------------------------------------------
(* Outputs. *)

\* add_output, on the primary: the workspaces that are o's own are taken from it.
\* The loop moves the active index up once for each one taken at or above it, but
\* under empty_workspace_above_first never from the second workspace to the first.
TakeOwn(m, o) ==
  LET K == {i \in DOMAIN m.workspaces : m.workspaces[i].original_output = o}
      top == IF m.ews /\ m.active > 1 THEN 2 ELSE 1
      rest == [m EXCEPT !.workspaces = Kept(@, DOMAIN @ \ K),
                        !.active = Max({top, @ - Cardinality({i \in K : i <= @})}),
                        !.switch = IF K # {} THEN NoSwitch ELSE @]
  IN IF (K # {} /\ m.switch # NoSwitch) \/ (m.ews /\ Len(rest.workspaces) = 2)
       THEN CleanUp(rest) ELSE rest

Plug(set, o) ==
  LET p == set.primary_idx
      wss == set.monitors[p].workspaces
      own == {i \in DOMAIN wss : wss[i].original_output = o /\ HasWindowsOrName(wss[i])}
      unmark(m) == [m EXCEPT !.workspaces = [i \in DOMAIN m.workspaces |->
                                               [m.workspaces[i] EXCEPT !.last = @ \ {o}]]]
      taken == [set EXCEPT !.monitors[p] = TakeOwn(@, o)]
  IN IF set.monitors = <<>>
       THEN [monitors |-> <<NewMonitor(o, set.workspaces, ews_config[o])>>,
             primary_idx |-> 1, active_monitor_idx |-> 1, workspaces |-> <<>>]
       ELSE [set EXCEPT !.monitors =
               [k \in DOMAIN @ |-> unmark(taken.monitors[k])]
               \o <<NewMonitor(o, Kept(wss, own), ews_config[o])>>]

AddOutput(o) ==
  /\ o \notin Connected
  /\ monitor_set' = Plug(monitor_set, o)
  /\ MonitorsOnly

\* primary_idx and active_monitor_idx after monitor k is gone.
IdxAfterRemoval(i, k) == IF i >= k /\ i > 1 THEN i - 1 ELSE i

Unplug(set, o) ==
  LET k == CHOOSE j \in DOMAIN set.monitors : set.monitors[j].output = o
      left == RemoveAt(set.monitors, k)
      wss == IntoWorkspaces(set.monitors[k])
      p == IdxAfterRemoval(set.primary_idx, k)
  IN IF left = <<>>
       THEN [monitors |-> <<>>, primary_idx |-> 1, active_monitor_idx |-> 1,
             workspaces |-> wss]
       ELSE [monitors |-> [left EXCEPT ![p] = AppendWorkspaces(@, wss)],
             primary_idx |-> p,
             active_monitor_idx |-> IdxAfterRemoval(set.active_monitor_idx, k),
             workspaces |-> <<>>]

RemoveOutput(o) ==
  /\ Has("hotplug")
  /\ o \in Connected
  /\ monitor_set' = Unplug(monitor_set, o)
  /\ MonitorsOnly

FocusOutput(o) ==
  /\ o \in Connected
  /\ monitor_set' = Focus(monitor_set, IdxOf(o), TRUE)
  /\ MonitorsOnly

\* update_options / update_layout_config, for the output whose option changes.
UpdateOptions(o) ==
  /\ Has("config")
  /\ ews_config' = [ews_config EXCEPT ![o] = ~@]
  /\ monitor_set' = IF o \in Connected
                      THEN [monitor_set EXCEPT !.monitors[IdxOf(o)] = UpdateConfig(@)]
                      ELSE monitor_set
  /\ WithinBounds
  /\ UNCHANGED <<overview_open, interactive_move, dnd, mapped>>

---------------------------------------------------------------------------
(* Windows. *)

\* The workspace list of NoOutputs with windows W added to its i-th workspace.
AddWithoutOutputs(wss, i, W) ==
  IF wss = <<>> THEN <<[NewWorkspace(NoName, NoOutput) EXCEPT !.windows = W]>>
                ELSE [wss EXCEPT ![i].windows = @ \cup W]

\* add_window.  Next to a window that is being moved is Auto on its output, or
\* on the active monitor if that output is gone.
AddWindow(w) ==
  /\ w \notin mapped
  /\ mapped' = mapped \cup {w}
  /\ \/ \E p \in Places, activate \in BOOLEAN :
          monitor_set' = Focus([monitor_set EXCEPT
                                  !.monitors[p[1]] = AddWindows(@, p[2], {w}, activate)],
                               p[1], activate)
     \/ /\ monitors = <<>>
        /\ \E i \in DOMAIN monitor_set.workspaces \cup {1} :
             monitor_set' = [monitor_set EXCEPT !.workspaces = AddWithoutOutputs(@, i, {w})]
  /\ WithinBounds
  /\ UNCHANGED <<ews_config, overview_open, interactive_move, dnd>>

\* The monitor set after w leaves its workspace, if it is on one.
WithoutWindow(set, w) ==
  LET has(ws) == w \in ws.windows
      remove(m) == LET i == SelectInSeq(m.workspaces, has)
                   IN IF i = 0 THEN m ELSE RemoveWindow(m, i, w)
      unplugged(wss) == LET i == SelectInSeq(wss, has)
                            left == [wss EXCEPT ![i].windows = @ \ {w}]
                        IN CASE i = 0 -> wss
                             [] i # 0 /\ HasWindowsOrName(left[i]) -> left
                             [] OTHER -> RemoveAt(wss, i)
  IN [set EXCEPT !.monitors = [k \in DOMAIN @ |-> remove(@[k])],
                 !.workspaces = unplugged(@)]

\* The monitor sets that ending the gestures on the monitors S may leave.
EndGestures(set, S) ==
  {[set EXCEPT !.monitors = [k \in DOMAIN @ |-> IF k \in S THEN GestureEnd(@[k], f[k]) ELSE @[k]]] :
     f \in {g \in [S -> 1..scenario.max] :
              \A k \in S : g[k] \in DOMAIN set.monitors[k].workspaces}}

Swiping(set, kinds) == {k \in DOMAIN set.monitors : set.monitors[k].switch.kind \in kinds}

\* dnd_scroll_gesture_end and dnd_scroll_gesture_begin on every monitor.
DndEnded(set) == EndGestures(set, Swiping(set, {"DndScroll"}))
DndBegun(set) == [set EXCEPT !.monitors = [k \in DOMAIN @ |-> DndBegin(@[k], overview_open)]]

\* Mutant: a move that has not started yet is left behind.
CloseWindowKeepsMove(w) ==
  /\ w \in mapped
  /\ mapped' = mapped \ {w}
  /\ IF interactive_move.state = "Moving" /\ w \in interactive_move.window
       THEN \E ended \in DndEnded(monitor_set) :
              interactive_move' = NoMove /\ monitor_set' = WithoutWindow(ended, w)
       ELSE UNCHANGED interactive_move /\ monitor_set' = WithoutWindow(monitor_set, w)
  /\ WithinBounds
  /\ UNCHANGED <<ews_config, overview_open, dnd>>

\* remove_window: a move of this window, started or not, ends with it.
CloseWindow(w) ==
  /\ w \in mapped
  /\ mapped' = mapped \ {w}
  /\ IF w \in interactive_move.window
       THEN \E ended \in DndEnded(monitor_set) :
              interactive_move' = NoMove /\ monitor_set' = WithoutWindow(ended, w)
       ELSE UNCHANGED interactive_move /\ monitor_set' = WithoutWindow(monitor_set, w)
  /\ WithinBounds
  /\ UNCHANGED <<ews_config, overview_open, dnd>>

\* activate_window; in the middle of a gesture that shows its workspace, the
\* workspace is not switched.
ActivateWindow(w) ==
  /\ \E p \in Places :
       /\ w \in WorkspaceAt(p).windows
       /\ \/ monitor_set' = Focus([monitor_set EXCEPT !.monitors[p[1]] =
                                     ActivateWorkspace(@, p[2])], p[1], TRUE)
          \/ /\ monitors[p[1]].switch.kind \in {"Gesture", "DndScroll"}
             /\ monitor_set' = Focus(monitor_set, p[1], TRUE)
  /\ MonitorsOnly

\* The monitor set after windows W go from place p to place q and are activated
\* there or not: the removal, then the arrival on the target monitor.
Carried(set, p, q, W, activate) ==
  LET gone == [set EXCEPT !.monitors[p[1]].workspaces[p[2]].windows = @ \ W]
  IN Focus([gone EXCEPT !.monitors[q[1]] = AddWindows(@, q[2], W, activate)],
           q[1], activate)

\* move_to_workspace (same monitor) and move_to_output: a window, then the
\* monitor it left is cleaned up.
MoveWindow(w, q, activate) ==
  /\ \E p \in Places :
       /\ w \in WorkspaceAt(p).windows
       /\ p # q
       /\ LET moved == Carried(monitor_set, p, q, {w}, activate)
              \* Monitor::move_to_workspace leaves the active monitor alone.
              focused == IF p[1] = q[1] THEN {moved.active_monitor_idx,
                                              monitor_set.active_monitor_idx}
                                        ELSE {moved.active_monitor_idx}
          IN \E f \in focused :
               monitor_set' = [moved EXCEPT !.monitors[p[1]] = CleanUpIfStill(@),
                                            !.active_monitor_idx = f]
  /\ MonitorsOnly

\* move_column_to_workspace, move_to_workspace_up / _down (a column of one) and
\* move_column_to_output: from the active workspace, without a clean-up.
MoveColumn(C, q, activate) ==
  /\ Has("columns")
  /\ monitors # <<>>
  /\ LET k == monitor_set.active_monitor_idx
         p == <<k, monitors[k].active>>
     IN /\ C # {} /\ C \subseteq WorkspaceAt(p).windows
        /\ monitor_set' = Carried(monitor_set, p, q, C, activate)
  /\ MonitorsOnly

---------------------------------------------------------------------------
(* Switching and moving workspaces. *)

\* switch_workspace and its relatives (up, down, previous, back and forth).
SwitchWorkspace(i) ==
  /\ monitors # <<>>
  /\ LET k == monitor_set.active_monitor_idx
     IN /\ i \in DOMAIN monitors[k].workspaces
        /\ monitor_set' = [monitor_set EXCEPT !.monitors[k] = ActivateWorkspace(@, i)]
  /\ MonitorsOnly

MoveWorkspaceWithin ==
  /\ Has("workspaces")
  /\ monitors # <<>>
  /\ LET k == monitor_set.active_monitor_idx
     IN \/ monitor_set' = [monitor_set EXCEPT !.monitors[k] = MoveWorkspaceDown(@)]
        \/ monitor_set' = [monitor_set EXCEPT !.monitors[k] = MoveWorkspaceUp(@)]
        \/ \E p \in Places, idx \in 1..scenario.max :
             /\ idx \in DOMAIN monitors[p[1]].workspaces \ {p[2]}
             /\ monitor_set' = [monitor_set EXCEPT
                                  !.monitors[p[1]] = MoveWorkspaceToIdx(@, p[2], idx)]
  /\ MonitorsOnly

\* Mutant: the workspace keeps the output it came from as its own.
SentWorkspaceKeepsOutput(ws, o) == ws

\* The workspace ws explicitly sent to output o.
SentWorkspace(ws, o) == [ws EXCEPT !.original_output = o]

\* move_workspace_to_output_by_id
MoveWorkspaceToOutput(p, o) ==
  /\ Has("workspaces")
  /\ o \in Connected
  /\ LET ws == SentWorkspace(WorkspaceAt(p), o)
         k == IdxOf(o)
         activate == /\ p[1] = monitor_set.active_monitor_idx
                     /\ p[2] = monitors[p[1]].active
         removed == [monitor_set EXCEPT !.monitors[p[1]] = RemoveWorkspaceByIdx(@, p[2])]
     IN monitor_set' =
          IF k = p[1]
            THEN [monitor_set EXCEPT !.monitors[k].workspaces[p[2]] = ws]
            ELSE Focus([removed EXCEPT !.monitors[k] =
                          InsertWorkspace(@, ws, @.active + 1, activate)], k, activate)
  /\ MonitorsOnly

---------------------------------------------------------------------------
(* Named workspaces. *)

\* add_named_workspace: before or after a workspace, so at any index.
AddNamedWorkspace(name) ==
  /\ Has("names")
  /\ name \notin NamesOf(monitor_set)
  /\ \/ \E k \in MonitorIdx, i \in 1..(scenario.max + 1), activate \in BOOLEAN :
          /\ i <= Len(monitors[k].workspaces) + 1
          /\ monitor_set' =
               Focus([monitor_set EXCEPT !.monitors[k] =
                        InsertWorkspace(@, NewWorkspace(name, @.output), i, activate)],
                     k, activate)
     \/ /\ monitors = <<>>
        /\ \E i \in 1..(Len(monitor_set.workspaces) + 1) :
             monitor_set' = [monitor_set EXCEPT !.workspaces =
                               InsertAt(@, i, NewWorkspace(name, NoOutput))]
  /\ MonitorsOnly

\* ensure_named_workspace, for a configured workspace with open-on-output o.
EnsureNamedWorkspace(name, o) ==
  /\ Has("names")
  /\ name \notin NamesOf(monitor_set)
  /\ monitor_set' =
       IF monitors = <<>>
         THEN [monitor_set EXCEPT !.workspaces = InsertAt(@, 1, NewWorkspace(name, o))]
         ELSE LET k == CASE o = NoOutput -> monitor_set.active_monitor_idx
                         [] o \in Connected -> IdxOf(o)
                         [] OTHER -> monitor_set.primary_idx
                  own == IF o = NoOutput THEN monitors[k].output ELSE o
              IN [monitor_set EXCEPT !.monitors[k] =
                    InsertWorkspace(@, NewWorkspace(name, own), 1, FALSE)]
  /\ MonitorsOnly

\* remove_workspace: only one without windows.
RemoveWorkspace ==
  /\ Has("names")
  /\ \/ \E p \in Places :
          /\ WorkspaceAt(p).windows = {}
          /\ monitor_set' = [monitor_set EXCEPT !.monitors[p[1]] =
                               RemoveWorkspaceByIdx(@, p[2])]
     \/ \E i \in DOMAIN monitor_set.workspaces :
          /\ monitor_set.workspaces[i].windows = {}
          /\ monitor_set' = [monitor_set EXCEPT !.workspaces = RemoveAt(@, i)]
  /\ MonitorsOnly

\* set_workspace_name on the active monitor.
SetName(m, i, name) == KeepEmptyEnds([m EXCEPT !.workspaces[i].name = name], i)

\* set_workspace_name.  The empty workspaces are kept up on the active monitor
\* only, so naming the first or last workspace of another monitor (feature
\* names_elsewhere) leaves it without one.
SetWorkspaceName(name) ==
  /\ Has("names")
  /\ name \notin NamesOf(monitor_set)
  /\ \/ \E p \in Places :
          LET m == monitors[p[1]]
          IN \/ /\ p[1] = monitor_set.active_monitor_idx
                /\ monitor_set' = SetMonitor(monitor_set, p[1], SetName(m, p[2], name))
             \/ /\ p[1] # monitor_set.active_monitor_idx
                /\ \/ p[2] \notin {1, Len(m.workspaces)}
                   \/ Has("names_elsewhere")
                /\ monitor_set' = [monitor_set EXCEPT
                                     !.monitors[p[1]].workspaces[p[2]].name = name]
     \/ \E i \in DOMAIN monitor_set.workspaces :
          monitor_set' = [monitor_set EXCEPT !.workspaces[i].name = name]
  /\ MonitorsOnly

\* unset_workspace_name, and unname_workspace for one gone from the configuration.
UnnameAt ==
  /\ Has("names")
  /\ \/ \E p \in Places :
          monitor_set' = [monitor_set EXCEPT !.monitors[p[1]] = UnnameWorkspace(@, p[2])]
     \/ \E i \in DOMAIN monitor_set.workspaces :
          monitor_set' = [monitor_set EXCEPT !.workspaces =
            IF @[i].windows = {} THEN RemoveAt(@, i) ELSE [@ EXCEPT ![i].name = NoName]]
  /\ MonitorsOnly

---------------------------------------------------------------------------
(* Animations, gestures, the overview and interactive moves. *)

\* advance_animations, when the workspace switch of monitor k is done.
AnimationDone(k) ==
  /\ k \in MonitorIdx
  /\ monitors[k].switch.kind = "Animation"
  /\ monitor_set' = [monitor_set EXCEPT !.monitors[k] = AdvanceAnimations(@)]
  /\ MonitorsOnly

\* workspace_switch_gesture_begin: the gestures on other outputs are cancelled.
GestureBegin(o) ==
  /\ Has("gestures")
  /\ o \in Connected
  /\ \E ended \in EndGestures(monitor_set,
                              Swiping(monitor_set, {"Gesture", "DndScroll"}) \ {IdxOf(o)}) :
       monitor_set' = [ended EXCEPT !.monitors[IdxOf(o)].switch = Gesture]
  /\ MonitorsOnly

\* workspace_switch_gesture_end.
GestureFinish(k) ==
  /\ Has("gestures")
  /\ k \in Swiping(monitor_set, {"Gesture", "DndScroll"})
  /\ monitor_set' \in EndGestures(monitor_set, {k})
  /\ MonitorsOnly

ToggleOverview ==
  /\ Has("move")
  /\ overview_open' = ~overview_open
  /\ UNCHANGED <<monitor_set, ews_config, interactive_move, dnd, mapped>>

\* dnd_update (the first one) and dnd_end.
DndUpdate ==
  /\ Has("move")
  /\ ~dnd
  /\ dnd' = TRUE
  /\ monitor_set' = DndBegun(monitor_set)
  /\ WithinBounds
  /\ UNCHANGED <<ews_config, overview_open, interactive_move, mapped>>

DndEnd ==
  /\ dnd
  /\ dnd' = FALSE
  /\ monitor_set' \in DndEnded(monitor_set)
  /\ WithinBounds
  /\ UNCHANGED <<ews_config, overview_open, interactive_move, mapped>>

\* refresh, at the end of an event-loop iteration: the drag-and-drop scroll is
\* begun on new monitors and when the overview opens, ended when it closes.
Refresh ==
  /\ Has("move")
  /\ \/ /\ overview_open
        /\ dnd \/ interactive_move # NoMove
        /\ monitor_set' = DndBegun(monitor_set)
     \/ /\ ~overview_open
        /\ monitor_set' \in DndEnded(monitor_set)
  /\ MonitorsOnly

InteractiveMoveBegin(w) ==
  /\ Has("move")
  /\ interactive_move = NoMove
  /\ \E p \in Places : w \in WorkspaceAt(p).windows
  /\ interactive_move' = [state |-> "Starting", window |-> {w}, output |-> NoOutput]
  /\ monitor_set' = DndBegun(monitor_set)
  /\ WithinBounds
  /\ UNCHANGED <<ews_config, overview_open, dnd, mapped>>

\* interactive_move_update past the threshold, with the pointer on output o: the
\* window is taken out of the layout.
InteractiveMoveStart(o) ==
  /\ interactive_move.state = "Starting"
  /\ o \in Connected
  /\ interactive_move' = [interactive_move EXCEPT !.state = "Moving", !.output = o]
  /\ monitor_set' = WithoutWindow(monitor_set,
                                  CHOOSE w \in interactive_move.window : TRUE)
  /\ WithinBounds
  /\ UNCHANGED <<ews_config, overview_open, dnd, mapped>>

\* interactive_move_update of a moving window, onto another output.
InteractiveMoveUpdate(o) ==
  /\ interactive_move.state = "Moving"
  /\ o \in Connected \ {interactive_move.output}
  /\ interactive_move' = [interactive_move EXCEPT !.output = o]
  /\ monitor_set' = Focus(monitor_set, IdxOf(o), TRUE)
  /\ WithinBounds
  /\ UNCHANGED <<ews_config, overview_open, dnd, mapped>>

\* The monitors a drop of windows W may leave: onto a workspace of m, or between
\* two of them, where the empty first and last workspaces are used before a new
\* one is made.
Dropped(m, W, activate) ==
  {AddWindows(m, i, W, activate) : i \in DOMAIN m.workspaces}
  \cup {AddWindows(AddWorkspaceAt(m, i), i, W, activate) :
          i \in {j \in 1..(Len(m.workspaces) - 1) : ~(m.ews /\ j = 1)}}

\* interactive_move_end.  In the overview a drop does not switch the workspace; if
\* the output is gone, the first workspace of the active monitor takes the window.
InteractiveMoveEnd ==
  /\ interactive_move # NoMove
  /\ interactive_move' = NoMove
  /\ \E ended \in DndEnded(monitor_set) :
       LET W == interactive_move.window
           o == interactive_move.output
           a == ended.active_monitor_idx
       IN \/ /\ interactive_move.state = "Starting"
             /\ monitor_set' = ended
          \/ /\ interactive_move.state = "Moving"
             /\ o \in Connected
             /\ \E m \in Dropped(ended.monitors[IdxOf(o)], W, ~overview_open) :
                  monitor_set' = SetMonitor(ended, IdxOf(o), m)
          \/ /\ interactive_move.state = "Moving"
             /\ monitors # <<>> /\ o \notin Connected
             /\ monitor_set' = [ended EXCEPT !.monitors[a] =
                                  AddWindows(@, 1, W, ~overview_open)]
          \/ /\ interactive_move.state = "Moving"
             /\ monitors = <<>>
             /\ monitor_set' = [ended EXCEPT !.workspaces = AddWithoutOutputs(@, 1, W)]
  /\ WithinBounds
  /\ UNCHANGED <<ews_config, overview_open, dnd, mapped>>

---------------------------------------------------------------------------
\* Layout::with_options: no outputs yet; any configuration, the same for every
\* output unless the run has per-output configuration.
Init ==
  /\ scenario \in Scenarios
  /\ monitor_set = [monitors |-> <<>>, primary_idx |-> 1, active_monitor_idx |-> 1,
                    workspaces |-> <<>>]
  /\ ews_config \in IF Has("per_output") THEN [Outputs -> BOOLEAN]
                                          ELSE {[o \in Outputs |-> b] : b \in BOOLEAN}
  /\ overview_open = FALSE
  /\ interactive_move = NoMove
  /\ dnd = FALSE
  /\ mapped = {}

WindowNext ==
  \E w \in scenario.windows : \/ AddWindow(w) \/ CloseWindow(w) \/ ActivateWindow(w)
                     \/ \E q \in Places, b \in BOOLEAN : MoveWindow(w, q, b)

SwitchNext ==
  \/ \E i \in 1..scenario.max : SwitchWorkspace(i)
  \/ \E k \in MonitorIdx : AnimationDone(k)

OutputNext ==
  \E o \in scenario.outputs : AddOutput(o) \/ FocusOutput(o) \/ RemoveOutput(o) \/ UpdateOptions(o)

WorkspaceNext ==
  \/ MoveWorkspaceWithin
  \/ \E p \in Places, o \in Outputs : MoveWorkspaceToOutput(p, o)
  \/ \E C \in SUBSET Windows, q \in Places, b \in BOOLEAN : MoveColumn(C, q, b)

NameNext ==
  \/ RemoveWorkspace \/ UnnameAt
  \/ \E n \in Names : AddNamedWorkspace(n) \/ SetWorkspaceName(n)
  \/ \E n \in Names, o \in Outputs \cup {NoOutput} : EnsureNamedWorkspace(n, o)

GestureNext ==
  \/ \E o \in Outputs : GestureBegin(o)
  \/ \E k \in MonitorIdx : GestureFinish(k)

MoveNext ==
  \/ ToggleOverview \/ DndUpdate \/ DndEnd \/ Refresh \/ InteractiveMoveEnd
  \/ \E w \in Windows : InteractiveMoveBegin(w)
  \/ \E o \in Outputs : InteractiveMoveStart(o) \/ InteractiveMoveUpdate(o)

Step ==
  \/ WindowNext \/ SwitchNext \/ OutputNext \/ WorkspaceNext
  \/ NameNext \/ GestureNext \/ MoveNext

Next == Step /\ UNCHANGED scenario

Spec == Init /\ [][Next]_vars

---------------------------------------------------------------------------
(* Properties. *)

\* The primary and active monitors exist, NoOutputs workspaces and monitors exclude each
\* other, and every monitor runs with the configuration of its output.
MonitorsConfigured ==
  /\ monitors # <<>> => /\ monitor_set.workspaces = <<>>
                        /\ {monitor_set.primary_idx, monitor_set.active_monitor_idx}
                             \subseteq MonitorIdx
  /\ \A k \in MonitorIdx : monitors[k].ews = ews_config[monitors[k].output]

\* Monitor::verify_invariants: the active workspace exists, the last workspace is
\* empty and unnamed, under empty_workspace_above_first so is the first, and then
\* there are one or at least three.
EmptyEnds ==
  \A k \in MonitorIdx :
    LET m == monitors[k]
        n == Len(m.workspaces)
    IN /\ m.active \in 1..n
       /\ ~HasWindowsOrName(m.workspaces[n])
       /\ m.ews => ~HasWindowsOrName(m.workspaces[1]) /\ n # 2

\* A workspace that is neither active nor one of the empty ends has windows or a
\* name, unless a switch is on: workspaces emptied by closing and moving windows,
\* unnaming, hotplug or reconfiguration do not pile up.
NoStrayWorkspaces ==
  /\ \A i \in DOMAIN monitor_set.workspaces : HasWindowsOrName(monitor_set.workspaces[i])
  /\ \A k \in MonitorIdx :
       LET m == monitors[k]
       IN m.switch = NoSwitch =>
            \A i \in (IF m.ews THEN 2 ELSE 1)..(Len(m.workspaces) - 1) :
              i # m.active => HasWindowsOrName(m.workspaces[i])

\* Every monitor has the empty workspaces it should, and no others.
WorkspacesTidy == EmptyEnds /\ NoStrayWorkspaces

\* A workspace-switch animation ends on the active workspace, whatever is inserted
\* around it meanwhile.
SwitchTargetsActive ==
  \A k \in MonitorIdx :
    monitors[k].switch.kind = "Animation" => monitors[k].switch.to = monitors[k].active

\* A monitor that is not the primary holds only workspaces of its own, and the
\* primary holds none whose own monitor is connected: add_output finds all the
\* workspaces of a returning output on the primary.
OwnMonitor ==
  \A p \in Places :
    LET o == WorkspaceAt(p).original_output
    IN o # monitors[p[1]].output => p[1] = monitor_set.primary_idx /\ o \notin Connected

\* Every mapped window is in exactly one place, a workspace or the interactive move:
\* none is lost or doubled by hotplug, drops on an output that is gone, or clean-ups.
\* A name is given once, so references by window and by name mean one workspace.
PlacedOnce ==
  LET wss == [p \in Places |-> WorkspaceAt(p)]
  IN /\ mapped = WindowsOf(monitor_set) \cup interactive_move.window
     /\ \A p, q \in Places :
          p # q => /\ wss[p].windows \cap wss[q].windows = {}
                   /\ wss[p].name = wss[q].name => wss[p].name = NoName
     /\ \A i, j \in DOMAIN monitor_set.workspaces :
          LET a == monitor_set.workspaces[i]
              b == monitor_set.workspaces[j]
          IN i # j => a.windows \cap b.windows = {} /\ (a.name = b.name => a.name = NoName)
     /\ interactive_move.state = "Moving" =>
          interactive_move.window \cap WindowsOf(monitor_set) = {}

\* Workspaces and windows are where hotplug, moves and clean-ups will look for them.
WellPlaced == MonitorsConfigured /\ OwnMonitor /\ PlacedOnce

\* An interactive move that has not taken its window yet has one to take: refresh()
\* and interactive_move_update() unwrap it.
MoveHasWindow ==
  interactive_move.state = "Starting" => interactive_move.window \subseteq WindowsOf(monitor_set)

\* A drag-and-drop scroll lasts no longer than what it is for: left over, it would
\* keep the monitor's emptied workspaces forever.
DndScrollHasCause ==
  (\E k \in MonitorIdx : monitors[k].switch.kind = "DndScroll")
    => dnd \/ interactive_move # NoMove

\* Nothing that is under way has lost what it is about: switch animations, interactive moves
\* and drag-and-drop scrolls follow the workspaces and windows that come and go under them.
UnderWayIsLive == SwitchTargetsActive /\ MoveHasWindow /\ DndScrollHasCause

\* The focused workspace of monitor m, by what identifies it.
FocusedOn(m) == [windows |-> m.workspaces[m.active].windows, name |-> m.workspaces[m.active].name]

\* Unplugging an output and plugging it back restores its own workspaces in order
\* and, if that was one of them, its active one, and leaves the focused workspaces
\* of the other monitors alone - in every reachable state.
HotplugRoundTrip ==
  \A o \in Connected :
    LET old == monitors[IdxOf(o)]
        own(ws) == HasWindowsOrName(ws) /\ (ws.original_output = o \/ Len(monitors) = 1)
        back == Plug(Unplug(monitor_set, o), o).monitors
        new == back[Len(back)]
    IN /\ SelectSeq(new.workspaces, HasWindowsOrName) = SelectSeq(old.workspaces, own)
       /\ own(old.workspaces[old.active]) => FocusedOn(new) = FocusedOn(old)
       /\ \A k \in MonitorIdx, j \in DOMAIN back :
            monitors[k].output = back[j].output /\ back[j].output # o
              => FocusedOn(back[j]) = FocusedOn(monitors[k])

\* No named workspace goes away but by a request about its name: closing windows,
\* hotplug and moves between outputs keep it.
NamedWorkspacesKept ==
  [][NamesOf(monitor_set) \ NamesOf(monitor_set') # {} =>
       RemoveWorkspace \/ UnnameAt \/ \E name \in Names : SetWorkspaceName(name)]_vars

\* Moving a workspace that is not focused leaves the focus where it is, whichever way the
\* two pass each other (move_workspace_to_idx: "Only refocus the workspace if it was already
\* focused"), unless a workspace is moved to or from the top of a monitor that keeps an
\* empty one there: the active index, shifted by add_workspace_top, is then compared with
\* the old index from before.
MoveKeepsFocus ==
  \A p \in Places, idx \in 1..scenario.max :
    LET m == monitors[p[1]]
    IN /\ idx \in DOMAIN m.workspaces
       /\ p[2] # m.active
       /\ HasWindowsOrName(m.workspaces[m.active])
       /\ ~(m.ews /\ 1 \in {p[2], idx})
       => FocusedOn(MoveWorkspaceToIdx(m, p[2], idx)) = FocusedOn(m)

\* Whatever is moved or unplugged, and plugged back, the focus and the order of workspaces
\* survive it, in every reachable state (add_output, remove_output, move_workspace_to_idx).
FocusSurvives == HotplugRoundTrip /\ MoveKeepsFocus
===========================================================================
