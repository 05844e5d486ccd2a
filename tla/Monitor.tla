------------------------------ MODULE Monitor ------------------------------
(***************************************************************************)
(* The workspaces of one monitor (src/layout/monitor.rs), as operators     *)
(* from a monitor to the monitor a method leaves behind.                   *)
(*                                                                         *)
(* A workspace keeps its name, the output it belongs to, its windows, and  *)
(* in `last` the outputs whose entry in Layout::last_active_workspace_id   *)
(* is this workspace, which spares the model the workspace ids.  Tiles,    *)
(* columns and geometry are left out: a column is a nonempty set of        *)
(* windows.  Indices are 1-based.  A workspace switch is an animation to a *)
(* workspace, a gesture, or a drag-and-drop scroll in the overview; the    *)
(* gesture's position is left out, so it may end on any workspace.         *)
(***************************************************************************)
EXTENDS Integers, Retaining

CONSTANTS Outputs, Windows, Names, NoName, NoOutput

ASSUME NoneAssumption == NoName \notin Names /\ NoOutput \notin Outputs

Workspaces == [name : Names \cup {NoName}, original_output : Outputs \cup {NoOutput},
               windows : SUBSET Windows, last : SUBSET Outputs]

NoSwitch == [kind |-> "None", to |-> 0]
Animation(i) == [kind |-> "Animation", to |-> i]
Gesture == [kind |-> "Gesture", to |-> 0]
DndScroll == [kind |-> "DndScroll", to |-> 0]

HasWindowsOrName(ws) == ws.windows # {} \/ ws.name # NoName

\* Workspace::new_with_config
NewWorkspace(name, o) ==
  [name |-> name, original_output |-> o, windows |-> {}, last |-> {}]

\* Those of the workspaces wss that somebody would miss.
WorkspacesInUse(wss) == Kept(wss, {i \in DOMAIN wss : HasWindowsOrName(wss[i])})

---------------------------------------------------------------------------
(* Adding and activating. *)

AddWorkspaceAt(m, i) ==
  [m EXCEPT !.workspaces = InsertAt(@, i, NewWorkspace(NoName, m.output)),
            !.active = IF i <= @ THEN @ + 1 ELSE @,
            !.switch = IF @.kind = "Animation" /\ i <= @.to THEN Animation(@.to + 1) ELSE @]

AddTop(m) == AddWorkspaceAt(m, 1)
AddBottom(m) == AddWorkspaceAt(m, Len(m.workspaces) + 1)

\* A drag-and-drop scroll goes on; anything else becomes an animation.
ActivateWorkspace(m, i) ==
  [m EXCEPT !.active = i,
            !.switch = IF @.kind = "DndScroll" \/ m.active = i THEN @ ELSE Animation(i)]

\* The index of workspace i after KeepEmptyEnds(m, i).
ShiftedByTop(m, i) == IF m.ews /\ i = 1 THEN 2 ELSE i

\* Workspace i was given windows or a name: if it was the last one, or the first
\* one under empty_workspace_above_first, a new empty one takes that place.
KeepEmptyEnds(m, i) ==
  LET bottom == IF i = Len(m.workspaces) THEN AddBottom(m) ELSE m
  IN IF m.ews /\ i = 1 THEN AddTop(bottom) ELSE bottom

\* add_tile, add_column, add_tile_to_column: windows W arrive on workspace i, which
\* becomes the output's own.  (The last needs no new workspaces, as a workspace
\* that has a column is neither of the empty ones.)
AddWindows(m, i, W, activate) ==
  LET added == [m EXCEPT !.workspaces[i].windows = @ \cup W,
                         !.workspaces[i].original_output =
                            IF m.workspaces[i].name = NoName THEN m.output ELSE @]
      padded == KeepEmptyEnds(added, i)
  IN IF activate THEN ActivateWorkspace(padded, ShiftedByTop(m, i)) ELSE padded

---------------------------------------------------------------------------
(* Removing. *)

\* With empty_workspace_above_first, two workspaces are both empty (asserted by
\* the code) and become one.
MergeEmptyEnds(m) ==
  IF m.ews /\ Len(m.workspaces) = 2 /\ \A i \in 1..2 : ~HasWindowsOrName(m.workspaces[i])
    THEN [m EXCEPT !.workspaces = <<m.workspaces[1]>>, !.active = 1]
    ELSE m

\* clean_up_workspaces; every caller has stopped the switch.
CleanUp(m) ==
  LET K == {i \in DOMAIN m.workspaces :
              \/ i = Len(m.workspaces) \/ i = m.active \/ (m.ews /\ i = 1)
              \/ HasWindowsOrName(m.workspaces[i])}
  IN MergeEmptyEnds([m EXCEPT !.workspaces = Kept(@, K),
                              !.active = Cardinality({i \in K : i <= m.active})])

StopAndCleanUp(m) == CleanUp([m EXCEPT !.switch = NoSwitch])

\* Mutant: no clean-up.
CleanUpNever(m) == m

CleanUpIfStill(m) == IF m.switch = NoSwitch THEN CleanUp(m) ELSE m

\* The monitor part of Layout::remove_window: w leaves workspace i.
RemoveWindow(m, i, w) ==
  LET removed == [m EXCEPT !.workspaces[i].windows = @ \ {w}]
      drop == /\ ~HasWindowsOrName(removed.workspaces[i])
              /\ i # m.active
              /\ i # Len(m.workspaces)
              /\ m.switch = NoSwitch
      cleaned == IF drop THEN [removed EXCEPT !.workspaces = RemoveAt(@, i),
                                              !.active = IF i < @ THEN @ - 1 ELSE @]
                         ELSE removed
  IN IF m.switch = NoSwitch THEN MergeEmptyEnds(cleaned) ELSE cleaned

UnnameWorkspace(m, i) ==
  CleanUpIfStill([m EXCEPT !.workspaces[i].name = NoName])

\* What remove_workspace_by_idx leaves; the workspace removed is m.workspaces[i].
RemoveWorkspaceByIdx(m, i) ==
  LET j == ShiftedByTop(m, i)
  IN StopAndCleanUp([KeepEmptyEnds(m, i) EXCEPT
                       !.workspaces = RemoveAt(@, j),
                       !.active = IF j <= @ /\ @ > 1 THEN @ - 1 ELSE @])

---------------------------------------------------------------------------
(* Moving whole workspaces. *)

InsertWorkspace(m, ws, idx, activate) ==
  LET before == IF idx = Len(m.workspaces) + 1 THEN idx - 1 ELSE idx
      topped == IF before = 1 /\ m.ews THEN AddTop(m) ELSE m
      i == ShiftedByTop(m, before)
  IN StopAndCleanUp([topped EXCEPT
                       !.workspaces = InsertAt(@, i, ws),
                       !.active = IF activate THEN i ELSE IF i <= @ THEN @ + 1 ELSE @])

\* Mutant: the focused empty workspace is not followed to its new place.
AppendWorkspacesKeepsIndex(m, wss) ==
  LET n == Len(m.workspaces)
      appended == [m EXCEPT !.workspaces = Front(@) \o wss \o <<@[n]>>]
      topped == IF m.ews /\ HasWindowsOrName(appended.workspaces[1])
                  THEN AddTop(appended) ELSE appended
  IN IF wss = <<>> THEN m ELSE StopAndCleanUp(topped)

\* append_workspaces: before the last, empty, workspace, which stays focused if
\* it was.
AppendWorkspaces(m, wss) ==
  LET n == Len(m.workspaces)
      appended == [m EXCEPT !.workspaces = Front(@) \o wss \o <<@[n]>>]
      topped == IF m.ews /\ HasWindowsOrName(appended.workspaces[1])
                  THEN AddTop(appended) ELSE appended
  IN IF wss = <<>> THEN m
     ELSE StopAndCleanUp([topped EXCEPT
            !.active = IF m.active = n THEN Len(topped.workspaces) ELSE @])

\* Monitor::new with the workspaces wss, the one marked for o (else the first)
\* active.
NewMonitor(o, wss, ews) ==
  LET marked == SelectInSeq(wss, LAMBDA ws : o \in ws.last)
      first == IF marked = 0 THEN 1 ELSE marked
      top == ews /\ wss # <<>>
  IN [output |-> o, ews |-> ews, switch |-> NoSwitch,
      active |-> IF top THEN first + 1 ELSE first,
      workspaces |-> (IF top THEN <<NewWorkspace(NoName, o)>> ELSE <<>>)
                     \o [i \in DOMAIN wss |-> [wss[i] EXCEPT !.last = @ \ {o}]]
                     \o <<NewWorkspace(NoName, o)>>]

\* Mutant: named workspaces without windows are dropped.
IntoWorkspacesInUse(m) ==
  SelectSeq([m.workspaces EXCEPT ![m.active].last = @ \cup {m.output}],
            LAMBDA ws : ws.windows # {})

\* into_workspaces, after Layout::remove_output noted the active one.
IntoWorkspaces(m) ==
  WorkspacesInUse([m.workspaces EXCEPT ![m.active].last = @ \cup {m.output}])

Swap(s, i, j) == [s EXCEPT ![i] = s[j], ![j] = s[i]]

MoveWorkspaceDown(m) ==
  LET a == m.active
      swapped == [m EXCEPT !.workspaces = Swap(@, a, a + 1)]
      bottom == IF a + 1 = Len(m.workspaces) THEN AddBottom(swapped) ELSE swapped
      top == m.ews /\ a = 1
      topped == IF top THEN AddTop(bottom) ELSE bottom
  IN IF a = Len(m.workspaces) THEN m
     ELSE StopAndCleanUp([topped EXCEPT !.active = IF top THEN a + 2 ELSE a + 1])

MoveWorkspaceUp(m) ==
  LET a == m.active
      swapped == [m EXCEPT !.workspaces = Swap(@, a, a - 1)]
      bottom == IF a = Len(m.workspaces) THEN AddBottom(swapped) ELSE swapped
      top == m.ews /\ a = 2
      topped == IF top THEN AddTop(bottom) ELSE bottom
  IN IF a = 1 THEN m
     ELSE StopAndCleanUp([topped EXCEPT !.active = IF top THEN a ELSE a - 1])

\* The focus follows index arithmetic on the indices from before AddTop.
MoveWorkspaceToIdx(m, old, idx) ==
  LET n == Len(m.workspaces)
      moved == [m EXCEPT !.workspaces = InsertAt(RemoveAt(@, old), idx, m.workspaces[old])]
      bottom == IF n \in {old, idx} THEN AddBottom(moved) ELSE moved
      top == m.ews /\ 1 \in {old, idx}
      topped == IF top THEN AddTop(bottom) ELSE bottom
      new == IF top THEN idx + 1 ELSE idx
      a == topped.active
  IN IF old = idx THEN m
     ELSE StopAndCleanUp([topped EXCEPT
            !.active = CASE a = old -> new
                         [] a # old /\ new <= a /\ old > a -> a + 1
                         [] a # old /\ new >= a /\ old < a -> IF a = 1 THEN 1 ELSE a - 1
                         [] OTHER -> a])

---------------------------------------------------------------------------
(* Configuration, animations and gestures. *)

\* update_config with the option empty_workspace_above_first flipped.
UpdateConfig(m) ==
  LET alone == Len(m.workspaces) = 1
      resized == CASE ~m.ews /\ ~alone -> AddTop(m)
                   [] m.ews /\ ~alone /\ m.switch = NoSwitch /\ m.active # 1 ->
                        [m EXCEPT !.workspaces = Tail(@), !.active = @ - 1]
                   [] OTHER -> m
  IN [resized EXCEPT !.ews = ~@]

\* advance_animations when the animation is done.
AdvanceAnimations(m) == StopAndCleanUp(m)

\* workspace_switch_gesture_end
GestureEnd(m, i) == [m EXCEPT !.active = i, !.switch = Animation(i)]

\* dnd_scroll_gesture_begin
DndBegin(m, overview_open) == IF overview_open THEN [m EXCEPT !.switch = DndScroll] ELSE m
===========================================================================
