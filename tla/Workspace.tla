----------------------------- MODULE Workspace -----------------------------
(***************************************************************************)
(* One workspace (src/layout/workspace.rs): a scrolling and a floating     *)
(* space, which of the two has the focus, and the windows that go back to  *)
(* floating once they are neither fullscreen nor maximized.  Windows come  *)
(* from clients, from other workspaces and from an interactive move, and   *)
(* leave the same ways; requests of the user and of clients, commits and   *)
(* gestures are interleaved.                                               *)
(***************************************************************************)
EXTENDS Floating

CONSTANT
  Scenarios  \* bound: who does what in one behaviour, see Roles

\* windows: those that exist; expandable: those that ever ask for one of sizings;
\* floatable: those that ever float; dialogs: those that ever have a parent;
\* resizable: those ever resized interactively; sizable: those ever given a height;
\* gestures: whether the view is ever scrolled by one.
Roles == [windows : SUBSET Windows, expandable : SUBSET Windows, floatable : SUBSET Windows,
          dialogs : SUBSET Windows, resizable : SUBSET Windows, sizable : SUBSET Windows,
          gestures : BOOLEAN, sizings : SUBSET {"fullscreen", "maximized"}]

ASSUME ScenariosAssumption == Scenarios \subseteq Roles

VARIABLES
  ws,    \* columns .. gesture: see Scrolling; stack .. parent: see Floating;
         \* floating_is_active is FloatingActive; restoring: the tiles with
         \* restore_to_floating
  roles  \* the scenario, which never changes

vars == <<ws, roles>>

FloatingActive == {"No", "NoButRaised", "Yes"}

Placed(s) == Tiled(s) \cup Floats(s)
Absent(s) == roles.windows \ Placed(s)
FloatingIsActive(s) == s.floating_is_active = "Yes"
ActiveWindow(s) == IF FloatingIsActive(s) THEN s.floating_window ELSE ActiveTile(s)

PendingMode(s, w) ==
  IF w \in Tiled(s) THEN PendingSizingMode(s.columns[ColumnOf(s, w)]) ELSE "Normal"

FocusTilingIf(s, activate) == [s EXCEPT !.floating_is_active = IF activate THEN "No" ELSE @]

Init ==
  /\ roles \in Scenarios
  /\ ws = [columns |-> <<>>, active |-> 1, resize |-> NoWindow, gesture |-> "None",
           prev |-> FALSE, restore |-> FALSE, expanded |-> {}, fixed |-> {},
           stack |-> <<>>, floating_window |-> NoWindow, floating_resize |-> NoWindow,
           parent |-> [w \in Windows |-> NoWindow],
           floating_is_active |-> "No", restoring |-> {}]

---------------------------------------------------------------------------
(* Adding and removing. *)

Activations == {"Yes", "Smart", "No"}

\* ActivateWindow::map_smart
MapSmart(activate, smart) == activate = "Yes" \/ (activate = "Smart" /\ smart)

IsActivePendingFullscreen(s) == s.columns # <<>> /\ ActiveColumn(s).fullscreen

\* A tile that floats only if it has not asked for more.
AddToFloating(s, added, activate) ==
  [added EXCEPT !.floating_is_active = IF activate \/ s.columns = <<>> THEN "Yes" ELSE @]

AddTileAuto(s, w, mode, activate, is_floating) ==
  LET act == MapSmart(activate, ~IsActivePendingFullscreen(s))
  IN IF is_floating /\ mode = "Normal" THEN AddToFloating(s, AddFloating(s, w, act), act)
     ELSE FocusTilingIf(AddTile(s, NextColumnIdx(s), w, mode, act), act)

AddTileNewColumnAt(s, i, w, mode, activate) ==
  LET act == MapSmart(activate, FALSE)
  IN FocusTilingIf(AddTile(s, i, w, mode, act), act)

AddTileNextTo(s, next_to, w, mode, activate, is_floating) ==
  LET act == MapSmart(activate, ActiveWindow(s) = next_to)
      beside == IF next_to \in Floats(s) THEN NextColumnIdx(s) ELSE ColumnOf(s, next_to) + 1
  IN IF is_floating /\ mode = "Normal"
       THEN AddToFloating(s, IF next_to \in Floats(s) THEN AddFloatingAbove(s, next_to, w, act)
                                                      ELSE AddFloating(s, w, act), act)
     ELSE FocusTilingIf(AddTile(s, beside, w, mode, act), act)

UpdateFocusAfterRemoving(s, removed_from_floating) ==
  [s EXCEPT !.floating_is_active =
     CASE removed_from_floating /\ s.stack = <<>> -> "No"
       [] ~removed_from_floating /\ s.columns = <<>> /\ s.stack # <<>> -> "Yes"
       [] OTHER -> @]

\* What a window that is gone leaves behind.
Forget(s, gone) ==
  [s EXCEPT !.expanded = @ \ gone, !.restoring = @ \ gone,
            !.parent = [w \in Windows |-> IF w \in gone THEN NoWindow ELSE @[w]]]

RemoveWindow(s, w) ==
  LET floating == w \in Floats(s)
      left == IF floating THEN RemoveFloating(s, w) ELSE RemoveTile(s, w)
  IN Forget(UpdateFocusAfterRemoving(left, floating), {w})

\* A window as it comes in: it may float, may already have committed another sizing
\* mode, and may be the child of any window that is not its descendant.
Ancestors(s, w) ==
  LET up[n \in 0 .. Cardinality(Windows)] ==
        IF n = 0 THEN {w} ELSE up[n - 1] \cup {s.parent[v] : v \in up[n - 1] \ {NoWindow}}
  IN up[Cardinality(Windows)]

CanHaveParent(s, w, v) ==
  \/ v = NoWindow
  \/ w \in roles.dialogs /\ w \notin Ancestors(s, v)

Incoming(s, w, floating, expanded, v) ==
  [s EXCEPT !.restoring = IF floating THEN @ \cup {w} ELSE @ \ {w},
            !.expanded = IF expanded THEN @ \cup {w} ELSE @ \ {w},
            !.parent[w] = v]

---------------------------------------------------------------------------
(* Fullscreen, maximized and floating. *)

\* toggle_window_floating
ToggleWindowFloating(s, w) ==
  LET active == ActiveWindow(s) = w
      out == RemoveFloating(s, w)
      in == AddFloating(RemoveTile(s, w), w, active)
  IN IF w \in Floats(s)
       THEN FocusTilingIf(AddTile(out, NextColumnIdx(out), w, "Normal", active), active)
     ELSE [in EXCEPT !.floating_is_active = IF active THEN "Yes" ELSE @]

\* Mutant: it is never remembered.
RememberNothing(s, new, w, from_floating) == new

\* Only on the way from normal is it remembered whether to go back to floating.
RememberFloating(s, new, w, from_floating) ==
  IF PendingMode(s, w) = "Normal" /\ PendingMode(new, w) # "Normal"
    THEN [new EXCEPT !.restoring = IF from_floating THEN @ \cup {w} ELSE @ \ {w}]
  ELSE new

\* Workspace::set_fullscreen and set_maximized.  A window that is both keeps waiting to
\* float until it is neither.
SetSizingMode(s, w, sizing, on) ==
  LET floating == w \in Floats(s)
      tiled == IF floating THEN ToggleWindowFloating(s, w) ELSE s
      only == IF sizing = "fullscreen" THEN s.columns[ColumnOf(s, w)].fullscreen
                                             /\ ~s.columns[ColumnOf(s, w)].maximized
                                       ELSE PendingMode(s, w) = "Maximized"
  IN IF floating /\ ~on THEN s
     ELSE IF ~floating /\ ~on /\ only /\ w \in s.restoring THEN ToggleWindowFloating(s, w)
     ELSE RememberFloating(tiled, SetSizing(tiled, w, sizing, on), w, floating)

SwitchFocusFloatingTiling(s) ==
  IF s.stack = <<>> \/ s.columns = <<>> THEN s
  ELSE [s EXCEPT !.floating_is_active = IF FloatingIsActive(s) THEN "No" ELSE "Yes"]

FocusTiling(s) == IF FloatingIsActive(s) THEN SwitchFocusFloatingTiling(s) ELSE s

ActivateWindow(s, w) ==
  IF w \in Floats(s) THEN [ActivateFloating(s, w) EXCEPT !.floating_is_active = "Yes"]
  ELSE [ActivateTile(s, w) EXCEPT !.floating_is_active = "No"]

ActivateWindowWithoutRaising(s, w) ==
  IF w \in Floats(s) THEN [ActivateWithoutRaising(s, w) EXCEPT !.floating_is_active = "Yes"]
  ELSE [ActivateTile(s, w) EXCEPT !.floating_is_active =
          IF @ = "Yes" THEN "NoButRaised" ELSE @]

---------------------------------------------------------------------------
(* Actions. *)

MayExpand(w, mode) ==
  \/ mode = "Normal"
  \/ w \in roles.expandable /\ (mode = "Maximized" => "maximized" \in roles.sizings)
MayFloat(w, floating) == floating => w \in roles.floatable

\* Workspace::add_tile
Open ==
  \E w \in Absent(ws), mode \in SizingModes, expanded, floating \in BOOLEAN,
     activate \in Activations, v \in Windows \cup {NoWindow} :
    LET s == Incoming(ws, w, floating, expanded, v)
    IN /\ MayExpand(w, mode) /\ MayFloat(w, floating) /\ CanHaveParent(ws, w, v)
       /\ expanded => mode # "Normal"
       /\ \/ ws' = AddTileAuto(s, w, mode, activate, floating)
          \/ \E i \in 1 .. Len(ws.columns) + 1 :
               ws' = AddTileNewColumnAt(s, i, w, mode, activate)
          \/ \E next_to \in Placed(ws) :
               ws' = AddTileNextTo(s, next_to, w, mode, activate, floating)

\* Workspace::add_tile_to_column, for the end of an interactive move.  The tile may be
\* one that waits to float.
OpenInColumn ==
  \E w \in Absent(ws), expanded, floating, activate \in BOOLEAN, i \in DOMAIN ws.columns :
    /\ MayFloat(w, floating) /\ expanded => w \in roles.expandable
    /\ \E j \in 1 .. BottomOf(ws, i) :
         ws' = FocusTilingIf(AddTileToColumn(Incoming(ws, w, floating, expanded, NoWindow),
                                             i, j, w, activate), activate)

\* Workspace::add_column: a column of another workspace, with one window or two.
AddColumnHere ==
  \E tiles \in {<<w>> : w \in Absent(ws)}
       \cup {<<v, w>> : v \in Absent(ws), w \in Absent(ws)} :
    \E k \in DOMAIN tiles, tabbed, maximized, activate \in BOOLEAN,
       expanded \in {{}, ToSet(tiles)}, fixed \in {{}, {Head(tiles)} \cap roles.sizable} :
      LET s == [ws EXCEPT !.expanded = @ \cup expanded, !.fixed = @ \cup fixed]
          col == [tiles |-> tiles, active |-> k, tabbed |-> tabbed,
                  fullscreen |-> FALSE, maximized |-> maximized]
      IN /\ IsInjective(tiles)
         /\ expanded # {} => maximized
         /\ maximized => \A w \in Tiles(col) : MayExpand(w, "Maximized")
         /\ maximized => tabbed \/ Len(tiles) = 1
         /\ ws' = FocusTilingIf(AddColumn(s, NextColumnIdx(s), col, activate), activate)

\* Workspace::remove_tile and remove_active_tile
Close == \E w \in Placed(ws) : ws' = RemoveWindow(ws, w)

\* Workspace::remove_active_column
RemoveActiveColumn ==
  /\ ~FloatingIsActive(ws) /\ ws.columns # <<>>
  /\ ws' = Forget(UpdateFocusAfterRemoving(RemoveColumn(ws, ws.active), FALSE),
                  Tiles(ActiveColumn(ws)))

\* focus_left .. focus_column_last while tiling; focus_column from anywhere
FocusColumn == \E i \in DOMAIN ws.columns : ws' = ActivateColumn(FocusTiling(ws), i)

\* focus_up, focus_down, focus_top, focus_bottom, focus_window_in_column
FocusTile ==
  /\ ~FloatingIsActive(ws) /\ ws.columns # <<>>
  /\ \E j \in DOMAIN ActiveColumn(ws).tiles : ws' = [ws EXCEPT !.columns[ws.active].active = j]

\* FloatingSpace::focus_left .. focus_bottommost: whichever window lies that way
FocusFloating ==
  /\ FloatingIsActive(ws)
  /\ \E w \in Floats(ws) : ws' = ActivateFloating(ws, w)

Activate ==
  \E w \in Placed(ws) :
    \/ ws' = ActivateWindow(ws, w)
    \/ ws' = ActivateWindowWithoutRaising(ws, w)

SwitchFocus == ws' = SwitchFocusFloatingTiling(ws)

ToggleFloating ==
  \E w \in Placed(ws) \cap roles.floatable : ws' = ToggleWindowFloating(ws, w)

SetMode ==
  \E w \in Placed(ws) \cap roles.expandable, sizing \in roles.sizings, on \in BOOLEAN :
    ws' = SetSizingMode(ws, w, sizing, on)

\* move_left .. move_column_to_index; move_up and move_down
Move ==
  /\ ~FloatingIsActive(ws) /\ ws.columns # <<>>
  /\ \/ \E i \in DOMAIN ws.columns : ws' = MoveColumnTo(ws, i)
     \/ \E j \in DOMAIN ActiveColumn(ws).tiles :
          /\ j - ActiveColumn(ws).active \in {-1, 1}
          /\ ws' = MoveTileTo(ws, j)

ConsumeOrExpel ==
  \E w \in Tiled(ws) :
    \/ ws' = ConsumeOrExpelLeft(ws, w)
    \/ ws' = ConsumeOrExpelRight(ws, w)

\* consume_into_column, expel_from_column, swap_window_in_direction,
\* toggle_column_tabbed_display, center_column
ChangeColumns ==
  /\ ~FloatingIsActive(ws)
  /\ \/ ws' = ConsumeIntoColumn(ws)
     \/ ws' = ExpelFromColumn(ws)
     \/ \E delta \in {-1, 1} : ws' = SwapWindowInDirection(ws, delta)
     \/ ws' = ToggleColumnTabbedDisplay(ws)
     \/ ws' = CenterColumn(ws)

\* The width and height requests of tiled and of floating windows, and the moves of the
\* latter.
Resize ==
  \/ \E w \in Tiled(ws) : \/ ws' = SetColumnWidth(ws, w)
                          \/ w \in roles.sizable /\ ws' = SetWindowHeight(ws, w)
                          \/ ws' = ResetWindowHeight(ws, w)
  \/ \E w \in Floats(ws) : ws' = ToggleFloatingSize(ws, w)
  \/ ws.stack # <<>> /\ ws' = MoveFloating(ws)

\* The configuration has other preset heights.
ConfigReloaded == ws' = [ws EXCEPT !.fixed = {}]

\* A commit: the client has caught up with some earlier request.
Commit ==
  \E w \in Placed(ws) \cap roles.expandable, expanded \in BOOLEAN :
    ws' = IF w \in Tiled(ws) THEN UpdateTiledWindow(ws, w, expanded)
          ELSE [ws EXCEPT !.expanded = IF expanded THEN @ \cup {w} ELSE @ \ {w}]

SetParent ==
  \E w \in Placed(ws), v \in Windows \cup {NoWindow} :
    /\ CanHaveParent(ws, w, v)
    /\ ws' = ParentChanged(ws, w, v)

Gesture ==
  \/ roles.gestures /\ ws' = ViewOffsetGestureBegin(ws)
  \/ roles.gestures /\ ws' = DndScrollGestureBegin(ws)
  \/ /\ ws.gesture # "None"
     /\ \E i \in IF ws.columns = <<>> THEN {ws.active} ELSE DOMAIN ws.columns :
          ws' = ViewOffsetGestureEnd(ws, i)

InteractiveResize ==
  \/ \E w \in Tiled(ws) \cap roles.resizable : ws' = InteractiveResizeTiled(ws, w)
  \/ \E w \in Floats(ws) \cap roles.resizable : ws' = InteractiveResizeFloating(ws, w)
  \/ ws.resize \in roles.sizable /\ ws' = InteractiveResizeUpdate(ws)
  \/ \E w \in Tiled(ws) : ws' = [ws EXCEPT !.resize = IF @ = w THEN NoWindow ELSE @]
  \/ \E w \in Floats(ws) : ws' = EndFloatingResize(ws, {w})

Step ==
  \/ Open \/ OpenInColumn \/ AddColumnHere \/ Close \/ RemoveActiveColumn
  \/ FocusColumn \/ FocusTile \/ FocusFloating \/ Activate \/ SwitchFocus
  \/ ToggleFloating \/ SetMode
  \/ Move \/ ConsumeOrExpel \/ ChangeColumns \/ Resize \/ ConfigReloaded
  \/ Commit \/ SetParent \/ Gesture \/ InteractiveResize

Next == Step /\ UNCHANGED roles

Spec == Init /\ [][Next]_vars

---------------------------------------------------------------------------
(* Properties. *)

\* Every window is in one place only, no column is ever empty and the active indices
\* stay in range, whatever moves, swaps and removals are strung together
\* (ScrollingSpace::verify_invariants, Column::verify_invariants).
OneTilePerWindow ==
  /\ \A i \in DOMAIN ws.columns :
       /\ ws.columns[i].active \in DOMAIN ws.columns[i].tiles
       /\ IsInjective(ws.columns[i].tiles)
       /\ \A k \in DOMAIN ws.columns : k # i => Tiles(ws.columns[i]) \cap Tiles(ws.columns[k]) = {}
  /\ IF ws.columns = <<>> THEN ws.active = 1 ELSE ws.active \in DOMAIN ws.columns
  /\ IsInjective(ws.stack)
  /\ Tiled(ws) \cap Floats(ws) = {}

\* A column that is to be fullscreen or maximized has one tile or shows one at a time,
\* so no other window is squeezed next to it (Column::verify_invariants).
ExpandedAlone ==
  \A i \in DOMAIN ws.columns :
    LET col == ws.columns[i]
    IN PendingSizingMode(col) # "Normal" => Len(col.tiles) = 1 \/ col.tabbed

\* The view offset to go back to belongs to the active column, which is fullscreen or
\* maximized right now: it never outlives that (ScrollingSpace::verify_invariants).
RestoreBelongsToActive == ws.restore => ~IsNormal(ws, ActiveColumn(ws))

\* An interactive resize is of a window that is there, in a column that is not about to
\* be fullscreen, and never at the same time as a gesture that moves the view under it
\* (verify_invariants of both spaces; cancel_resize_for_column).
ResizeIsLive ==
  /\ ws.resize # NoWindow =>
       /\ ws.resize \in Tiled(ws)
       /\ PendingMode(ws, ws.resize) = "Normal"
       /\ ws.gesture = "None"
  /\ ws.floating_resize # NoWindow => ws.floating_resize \in Floats(ws)

\* The focus is where there is a window: floating is never active when it is empty, and
\* always when it alone is not (Workspace::verify_invariants); its active window is one
\* of its windows (FloatingSpace::verify_invariants).
FocusOnWindow ==
  /\ ws.stack = <<>> => ~FloatingIsActive(ws)
  /\ ws.stack # <<>> /\ ws.columns = <<>> => FloatingIsActive(ws)
  /\ IF ws.stack = <<>> THEN ws.floating_window = NoWindow ELSE ws.floating_window \in Floats(ws)

\* No floating window is stacked above a child of its own, whichever of them was raised,
\* came, or was given its parent last (FloatingSpace::verify_invariants).
ChildrenAboveParents ==
  \A i, k \in DOMAIN ws.stack : IsChildOf(ws, ws.stack[i], ws.stack[k]) => i < k

\* In a column at most one tile has a height of its own, also after the columns of two
\* tiles were merged (Column::verify_invariants).
OneFixedHeight ==
  \A i \in DOMAIN ws.columns : Cardinality(Tiles(ws.columns[i]) \cap ws.fixed) <= 1

\* What the verify_invariants of the workspace, its two spaces and their columns say of
\* where windows are, in every order of requests, commits and removals; and what is
\* remembered for later, a view offset to go back to or a resize that goes on, is still
\* about a window and a column in the state it was remembered for.
SpacesConsistent ==
  /\ OneTilePerWindow /\ ExpandedAlone /\ OneFixedHeight /\ FocusOnWindow /\ ChildrenAboveParents
  /\ RestoreBelongsToActive /\ ResizeIsLive

\* Opening a window, focused, and closing it again leaves every column and the active
\* one as they were (activate_prev_column_on_removal).
OpenCloseRoundTrip ==
  \A w \in Absent(ws) :
    LET closed == RemoveWindow(AddTileAuto(ws, w, "Normal", "Yes", FALSE), w)
    IN /\ closed.columns = ws.columns
       /\ closed.active = ws.active
       /\ closed.stack = ws.stack

\* A floating window that goes fullscreen or maximized and comes back floats again, and
\* neither the tiled windows nor the focus are any different (restore_to_floating).
FullscreenRoundTrip ==
  \A w \in Floats(ws), sizing \in {"fullscreen", "maximized"} :
    LET there == SetSizingMode(ws, w, sizing, TRUE)
        back == SetSizingMode(there, w, sizing, FALSE)
    IN /\ w \in Tiled(there)
       /\ Floats(back) = Floats(ws)
       /\ back.columns = ws.columns
       /\ back.active = ws.active
       /\ ActiveWindow(back) = ActiveWindow(ws)

\* Whatever is asked of a window that does not have the focus, it neither takes the
\* focus nor moves it elsewhere: closing, floating, fullscreen and maximize requests,
\* consuming and expelling by window id.
FocusNotStolen ==
  \A w \in Placed(ws) \ {ActiveWindow(ws)} :
    \A s \in {RemoveWindow(ws, w), ToggleWindowFloating(ws, w)}
               \cup {SetSizingMode(ws, w, sizing, on) :
                       sizing \in {"fullscreen", "maximized"}, on \in BOOLEAN}
               \cup (IF w \in Tiled(ws) THEN {ConsumeOrExpelLeft(ws, w), ConsumeOrExpelRight(ws, w)}
                                        ELSE {}) :
      ActiveWindow(s) = ActiveWindow(ws)

\* Swapping the active window to one side and back undoes itself, also when a column
\* runs empty on the way (swap_window_in_direction).
Arrangement(s) == [i \in DOMAIN s.columns |-> <<s.columns[i].tiles, s.columns[i].active>>]

SwapRoundTrip ==
  \A delta \in {-1, 1} :
    ws.active + delta \in DOMAIN ws.columns =>
      LET back == SwapWindowInDirection(SwapWindowInDirection(ws, delta), -delta)
      IN Arrangement(back) = Arrangement(ws) /\ back.active = ws.active

\* What is undone leaves no trace: a window that opens and closes, a floating window that goes
\* fullscreen or maximized and comes back, a swap in both directions.
RoundTrips == OpenCloseRoundTrip /\ FullscreenRoundTrip /\ SwapRoundTrip

=============================================================================
