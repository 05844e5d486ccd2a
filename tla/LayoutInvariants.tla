-------------------------- MODULE LayoutInvariants --------------------------
(***************************************************************************)
(* What is always so of the monitors and of what is on them: the inductive *)
(* invariant of Layout, LayoutInv /\ Placed, and the terms it is stated    *)
(* and proved in.                                                          *)
(***************************************************************************)
EXTENDS Layout

---------------------------------------------------------------------------
(* One monitor: what is always so of it, and what its operators make of it. *)

Switches == [kind : {"None", "Animation", "Gesture", "DndScroll"}, to : Nat]

MonitorType ==
  [output : Outputs, ews : BOOLEAN, switch : Switches, active : Nat, workspaces : Seq(Workspaces)]

\* An empty workspace of the monitor's own.
Vacant(m, i) == ~HasWindowsOrName(m.workspaces[i]) /\ m.workspaces[i].original_output = m.output

Ends(m) ==
  /\ m \in MonitorType /\ m.active \in 1 .. Len(m.workspaces)
  /\ Vacant(m, Len(m.workspaces)) /\ (m.ews => Vacant(m, 1))

\* The workspaces in between.
Inner(m) == (IF m.ews THEN 2 ELSE 1) .. Len(m.workspaces) - 1
NoStray(m) == \A i \in Inner(m) : i # m.active => HasWindowsOrName(m.workspaces[i])

Aimed(m) == m.switch.kind = "Animation" => m.switch.to = m.active

Tidy(m) ==
  /\ Ends(m) /\ Aimed(m)
  /\ m.ews => Len(m.workspaces) # 2
  /\ m.switch = NoSwitch => NoStray(m)

\* What only add_output and update_config decide.
SameMonitor(m, n) == n.output = m.output /\ n.ews = m.ews

SameSwitch(m, n) ==
  n.switch.kind = m.switch.kind /\ (m.switch.kind # "Animation" => n.switch = m.switch)

\* n is m with these workspaces, this active index and this switch.
Changed(m, n, s, a, w) ==
  n \in MonitorType /\ SameMonitor(m, n) /\ n.workspaces = s /\ n.active = a /\ n.switch = w

\* n is m with a new workspace i.
WorkspaceAdded(m, i, n) ==
  /\ n \in MonitorType /\ SameMonitor(m, n) /\ SameSwitch(m, n)
  /\ Len(n.workspaces) = Len(m.workspaces) + 1
  /\ \A j \in 1 .. Len(m.workspaces) + 1 :
       n.workspaces[j] = IF j < i THEN m.workspaces[j]
                         ELSE IF j = i THEN NewWorkspace(NoName, m.output) ELSE m.workspaces[j - 1]
  /\ n.active = IF i <= m.active THEN m.active + 1 ELSE m.active
  /\ Aimed(m) => Aimed(n)

\* A monitor whose ends are empty but for workspace i, which may be in use.
EndsBut(m, i) ==
  /\ m \in MonitorType /\ m.active \in 1 .. Len(m.workspaces) /\ i \in 1 .. Len(m.workspaces)
  /\ i # Len(m.workspaces) => Vacant(m, Len(m.workspaces))
  /\ m.ews /\ i # 1 => Vacant(m, 1)

NoStrayBut(m, i) == \A k \in Inner(m) : k # m.active /\ k # i => HasWindowsOrName(m.workspaces[k])

\* n is m with another workspace in the place of i.
Put(m, i, ws, n) ==
  /\ n \in MonitorType /\ SameMonitor(m, n) /\ n.active = m.active /\ n.switch = m.switch
  /\ Len(n.workspaces) = Len(m.workspaces)
  /\ \A k \in 1 .. Len(m.workspaces) : n.workspaces[k] = IF k = i THEN ws ELSE m.workspaces[k]

\* What monitors leave to others are workspaces in use.
InUse(wss) == \A i \in DOMAIN wss : HasWindowsOrName(wss[i])

\* A monitor whose workspaces were put in another order, with new ends where they are
\* needed; t is such a monitor, and may have any of its workspaces activated when the
\* switch is stopped.
WithEnds(m, s, below, above) ==
  LET moved == [m EXCEPT !.workspaces = s]
      b == IF below THEN AddBottom(moved) ELSE moved
  IN IF above THEN AddTop(b) ELSE b

Rearranged(m, s, below, above, t) ==
  /\ t.active = IF above THEN m.active + 1 ELSE m.active
  /\ Len(t.workspaces) = Len(s) + (IF below THEN 1 ELSE 0) + (IF above THEN 1 ELSE 0)
  /\ \A a \in 1 .. Len(t.workspaces) :
       LET n == StopAndCleanUp([t EXCEPT !.active = a]) IN Tidy(n) /\ SameMonitor(m, n)

\* Two workspaces that change places.
Swapped(s, i, j, t) ==
  /\ t \in Seq(Workspaces) /\ Len(t) = Len(s)
  /\ \A k \in 1 .. Len(s) : t[k] = IF k = i THEN s[j] ELSE IF k = j THEN s[i] ELSE s[k]

\* Windows are gone from workspace i.
Left(m, i, n) ==
  /\ Ends(n) /\ Aimed(n) /\ (n.ews => Len(n.workspaces) # 2) /\ SameMonitor(m, n)
  /\ Len(n.workspaces) = Len(m.workspaces)
  /\ i = m.active => Tidy(n)

Scrolls(m) == m.switch.kind = "DndScroll"

---------------------------------------------------------------------------
(* The monitors together. *)

MonitorSets == [monitors : Seq(MonitorType), primary_idx : Nat, active_monitor_idx : Nat,
                workspaces : Seq(Workspaces)]

\* Every monitor is tidy and has its output's configuration and an output of its own; the
\* primary and the active one exist; without monitors, the workspaces are in use.
InGoodOrder(set, conf) ==
  /\ set \in MonitorSets
  /\ \A k \in DOMAIN set.monitors :
       Tidy(set.monitors[k]) /\ set.monitors[k].ews = conf[set.monitors[k].output]
  /\ \A j, k \in DOMAIN set.monitors :
       set.monitors[j].output = set.monitors[k].output => j = k
  /\ set.monitors # <<>> =>
       /\ set.workspaces = <<>>
       /\ set.primary_idx \in DOMAIN set.monitors /\ set.active_monitor_idx \in DOMAIN set.monitors
  /\ InUse(set.workspaces)

\* The first workspace that has the window w, or 0.
PlaceOf(s, w) ==
  LET P == {i \in 1 .. Len(s) : w \in s[i].windows} IN IF P # {} THEN Min(P) ELSE 0

\* The monitors of new are those of set, with other contents.
SameMonitors(set, new) ==
  /\ Len(new.monitors) = Len(set.monitors) /\ DOMAIN new.monitors = DOMAIN set.monitors
  /\ \A k \in DOMAIN set.monitors : SameMonitor(set.monitors[k], new.monitors[k])
  /\ new.active_monitor_idx = set.active_monitor_idx /\ new.workspaces = set.workspaces

\* Windows went from monitor k to monitor l: all but k is tidy, and k but for the workspace
\* they left.
Moved(set, k, l, new) ==
  /\ new \in MonitorSets /\ Len(new.monitors) = Len(set.monitors)
  /\ new.primary_idx = set.primary_idx /\ new.workspaces = set.workspaces
  /\ new.active_monitor_idx \in {set.active_monitor_idx, l}
  /\ \A j \in DOMAIN set.monitors :
       /\ SameMonitor(set.monitors[j], new.monitors[j])
       /\ j # k => Tidy(new.monitors[j])
  /\ LET n == new.monitors[k] IN Ends(n) /\ Aimed(n) /\ (n.ews => Len(n.workspaces) # 2)

---------------------------------------------------------------------------
(* What is on a workspace, its windows and its name, and where it goes. *)

WindowThing(w) == <<"window", w>>
NameThing(n) == <<"name", n>>
Things(ws) ==
  {WindowThing(w) : w \in ws.windows} \cup {NameThing(n) : n \in {ws.name} \ {NoName}}

WindowThings(W) == {WindowThing(w) : w \in W}

\* The things of the workspaces s, and of those at K.
ThingsAt(s, K) == UNION {Things(s[i]) : i \in K}
ThingsIn(s) == UNION {Things(s[i]) : i \in DOMAIN s}
Origins(s) == {s[i].original_output : i \in DOMAIN s}
Apart(s) == \A i, j \in DOMAIN s : i # j => Things(s[i]) \cap Things(s[j]) = {}

\* t holds what s holds, and its workspaces belong to the outputs of s and to those in O.
Same(s, t, O) ==
  /\ ThingsIn(t) = ThingsIn(s) /\ Origins(t) \subseteq Origins(s) \cup O
  /\ Apart(s) => Apart(t)

\* t holds what s holds, but A went and B came.
Trade(s, t, A, B, O) ==
  /\ ThingsIn(t) = (ThingsIn(s) \ A) \cup B /\ Origins(t) \subseteq Origins(s) \cup O
  /\ Apart(t)

\* A list with one more workspace holds what it held, and what is on that one.
Grown(s, ws, t) ==
  /\ ThingsIn(t) = ThingsIn(s) \cup Things(ws)
  /\ Origins(t) = Origins(s) \cup {ws.original_output}
  /\ Apart(t) <=> Apart(s) /\ Things(ws) \cap ThingsIn(s) = {}

\* n holds what m holds; no drag-and-drop scroll begins.
Preserves(m, n) ==
  /\ n \in MonitorType /\ n.output = m.output /\ (Scrolls(n) => Scrolls(m))
  /\ Same(m.workspaces, n.workspaces, {m.output})

\* n holds what m holds but A, and B.
Trades(m, n, A, B, O) ==
  /\ n \in MonitorType /\ n.output = m.output /\ (Scrolls(n) => Scrolls(m))
  /\ Trade(m.workspaces, n.workspaces, A, B, O \cup {m.output})

---------------------------------------------------------------------------
(* What is on all the monitors. *)

Held(set, k) == ThingsIn(set.monitors[k].workspaces)
ThingsOf(set) ==
  (UNION {Held(set, k) : k \in DOMAIN set.monitors}) \cup ThingsIn(set.workspaces)

\* The outputs monitor k may have workspaces of: its own and, if it is the primary, those that
\* are away.
Plugged(set) == {set.monitors[k].output : k \in DOMAIN set.monitors}
Away(set) == (Outputs \cup {NoOutput}) \ Plugged(set)
Hosted(set, k) == {set.monitors[k].output} \cup (IF k = set.primary_idx THEN Away(set) ELSE {})
AtHome(set, k) == Origins(set.monitors[k].workspaces) \subseteq Hosted(set, k)

\* Every window and name is in one place, and every workspace where hotplug looks for it.
PlacedIn(set) ==
  /\ set \in MonitorSets
  /\ set.monitors # <<>> => set.workspaces = <<>>
  /\ \A k \in DOMAIN set.monitors : Apart(set.monitors[k].workspaces) /\ AtHome(set, k)
  /\ \A j, k \in DOMAIN set.monitors : j # k => Held(set, j) \cap Held(set, k) = {}
  /\ Apart(set.workspaces)

\* new is as well placed as set, but A went and B came.
Carries(set, new, A, B) == PlacedIn(new) /\ ThingsOf(new) = (ThingsOf(set) \ A) \cup B

Scrolling(set) == \E k \in DOMAIN set.monitors : Scrolls(set.monitors[k])
Calm(set, new) == Scrolling(new) => Scrolling(set)

---------------------------------------------------------------------------
(* The inductive invariant. *)

MoveType == [state : {"None", "Starting", "Moving"}, window : SUBSET Windows,
             output : Outputs \cup {NoOutput}]

\* The inductive invariant.
LayoutInv ==
  /\ scenario \in Scenarios
  /\ InGoodOrder(monitor_set, ews_config)
  /\ ews_config \in [Outputs -> BOOLEAN] /\ overview_open \in BOOLEAN
  /\ interactive_move \in MoveType
  /\ interactive_move.state # "None" => interactive_move.window # {}

\* The windows are those on the workspaces and the one being moved, which is on a workspace
\* until the move has started.
Accounted(set, move, windows) ==
  /\ move.state = "None" => move = NoMove
  /\ move.state # "None" => \E w : move.window = {w}
  /\ \A w : w \in windows <=> WindowThing(w) \in ThingsOf(set) \/ w \in move.window
  /\ \A w \in move.window : WindowThing(w) \in ThingsOf(set) <=> move.state = "Starting"

Caused(set, move, drag) == Scrolling(set) => drag \/ move # NoMove

\* The rest of the inductive invariant.
Placed ==
  /\ PlacedIn(monitor_set) /\ Accounted(monitor_set, interactive_move, mapped)
  /\ Caused(monitor_set, interactive_move, dnd)

---------------------------------------------------------------------------
(* What a step may do. *)

\* What a step may do to the interactive move, and to the rest of the invariant's state.
MoveStep ==
  \/ UNCHANGED interactive_move \/ interactive_move' = NoMove
  \/ \E w \in Windows :
       interactive_move' = [state |-> "Starting", window |-> {w}, output |-> NoOutput]
  \/ \E o \in Outputs :
       /\ interactive_move.state # "None"
       /\ \/ interactive_move' = [interactive_move EXCEPT !.state = "Moving", !.output = o]
          \/ interactive_move' = [interactive_move EXCEPT !.output = o]

KeepsOrder ==
  /\ InGoodOrder(monitor_set', ews_config') /\ ews_config' \in [Outputs -> BOOLEAN]
  /\ overview_open' \in BOOLEAN /\ MoveStep

\* The step takes no name away.
NamesStay ==
  \A n : NameThing(n) \in ThingsOf(monitor_set) => NameThing(n) \in ThingsOf(monitor_set')

\* Names stay but for the requests that are about them.
NamesHold ==
  NamesStay \/ RemoveWorkspace \/ UnnameAt \/ \E name \in Names : SetWorkspaceName(name)

=============================================================================
