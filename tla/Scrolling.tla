----------------------------- MODULE Scrolling -----------------------------
(***************************************************************************)
(* The scrollable tiling of one workspace (src/layout/scrolling.rs), as    *)
(* operators from a workspace record to the record a method leaves behind. *)
(*                                                                         *)
(* A column keeps its tiles (windows, top to bottom), its active tile, its *)
(* display mode and the sizing it has asked for.  Of the geometry only     *)
(* what steers control is kept: which windows have committed a sizing mode *)
(* other than normal (`expanded`), which tiles have a non-automatic height *)
(* (`fixed`), whether the view is under a gesture, and whether the two     *)
(* remembered view offsets are set: `prev` for                             *)
(* activate_prev_column_on_removal, `restore` for view_offset_to_restore.  *)
(* Indices are 1-based; `active` is 1 while there are no columns.          *)
(***************************************************************************)
EXTENDS Integers, SequencesExt

CONSTANTS
  Windows, NoWindow,
  DefaultTabbed  \* the windows whose new columns start out tabbed, by rule or configuration

ASSUME NoWindowAssumption == NoWindow \notin Windows
ASSUME TabbedAssumption == DefaultTabbed \subseteq Windows

SizingModes == {"Normal", "Maximized", "Fullscreen"}
Gestures == {"None", "View", "DndScroll"}

Columns == [tiles : Seq(Windows), active : Nat \ {0}, tabbed : BOOLEAN,
            fullscreen : BOOLEAN, maximized : BOOLEAN]

Tiles(col) == ToSet(col.tiles)
Tiled(s) == UNION {Tiles(s.columns[i]) : i \in DOMAIN s.columns}

\* Column::pending_sizing_mode, which is also that of the column's windows.
PendingSizingMode(col) ==
  IF col.fullscreen THEN "Fullscreen" ELSE IF col.maximized THEN "Maximized" ELSE "Normal"

\* Column::sizing_mode: one tile that is still expanded keeps its column expanded.
IsNormal(s, col) == Tiles(col) \cap s.expanded = {}

ColumnOf(s, w) == CHOOSE i \in DOMAIN s.columns : w \in Tiles(s.columns[i])
PositionIn(col, w) == CHOOSE j \in DOMAIN col.tiles : col.tiles[j] = w
ActiveColumn(s) == s.columns[s.active]
ActiveTile(s) ==
  IF s.columns = <<>> THEN NoWindow ELSE ActiveColumn(s).tiles[ActiveColumn(s).active]
IsActiveTile(s, w) == ActiveTile(s) = w

\* Column::new_with_tile
NewColumn(w, mode) ==
  [tiles |-> <<w>>, active |-> 1, tabbed |-> w \in DefaultTabbed,
   fullscreen |-> mode = "Fullscreen", maximized |-> mode = "Maximized"]

CancelResizeForColumn(s, col) ==
  [s EXCEPT !.resize = IF @ \in Tiles(col) THEN NoWindow ELSE @]

---------------------------------------------------------------------------
(* Activating. *)

ActivateColumn(s, i) ==
  IF s.active = i THEN s
  ELSE [s EXCEPT !.active = i, !.prev = FALSE, !.restore = FALSE, !.resize = NoWindow]

ActivateTile(s, w) ==
  LET i == ColumnOf(s, w)
  IN ActivateColumn([s EXCEPT !.columns[i].active = PositionIn(s.columns[i], w)], i)

---------------------------------------------------------------------------
(* Adding. *)

\* Where a column goes that has no place of its own.
NextColumnIdx(s) == IF s.columns = <<>> THEN 1 ELSE s.active + 1

AddColumn(s, i, col, activate) ==
  LET empty == s.columns = <<>>
      added == [s EXCEPT !.columns = InsertAt(@, i, col),
                         !.active = IF ~empty /\ i <= @ THEN @ + 1 ELSE @]
  IN IF ~activate THEN added
     ELSE [ActivateColumn(added, i) EXCEPT
             !.prev = ~empty /\ i = added.active + 1,
             !.gesture = IF empty THEN "None" ELSE @]

\* add_tile, and add_tile_right_of
AddTile(s, i, w, mode, activate) ==
  AddColumn([s EXCEPT !.fixed = @ \ {w}], i, NewColumn(w, mode), activate)

\* Column::add_tile_at
AddTileAt(col, j, w) ==
  [col EXCEPT !.tiles = InsertAt(@, j, w),
              !.fullscreen = @ /\ col.tabbed, !.maximized = @ /\ col.tabbed]

AddTileToColumn(s, i, j, w, activate) ==
  LET col == AddTileAt(s.columns[i], j, w)
      into == [col EXCEPT !.active = IF activate THEN j ELSE IF j <= @ THEN @ + 1 ELSE @]
      added == [s EXCEPT !.columns[i] = into, !.fixed = @ \ {w}]
  IN IF activate THEN ActivateColumn(added, i) ELSE added

\* The place below all tiles of column i.
BottomOf(s, i) == Len(s.columns[i].tiles) + 1

---------------------------------------------------------------------------
(* Removing. *)

\* Mutant: the active index stays when a column to its left is removed.
RemoveColumnKeepsIndex(s, i) ==
  [CancelResizeForColumn(s, s.columns[i]) EXCEPT
     !.columns = RemoveAt(@, i), !.restore = FALSE, !.prev = FALSE,
     !.fixed = @ \ Tiles(s.columns[i]),
     !.active = IF @ = Len(s.columns) /\ @ > 1 THEN @ - 1 ELSE @]

RemoveColumn(s, i) ==
  LET left == [CancelResizeForColumn(s, s.columns[i]) EXCEPT
                 !.columns = RemoveAt(@, i),
                 !.fixed = @ \ Tiles(s.columns[i]),
                 !.prev = @ /\ i + 1 # s.active,
                 !.restore = @ /\ i # s.active]
      last == Len(left.columns)
  IN CASE last = 0 -> left
       [] last > 0 /\ i < s.active -> [left EXCEPT !.active = @ - 1, !.prev = FALSE]
       [] last > 0 /\ i = s.active /\ left.prev ->
            IF i > 1 THEN ActivateColumn(left, i - 1) ELSE left
       [] OTHER -> ActivateColumn(left, IF s.active > last THEN last ELSE s.active)

\* remove_tile_by_idx
RemoveTile(s, w) ==
  LET i == ColumnOf(s, w)
      col == s.columns[i]
      j == PositionIn(col, w)
      left == [col EXCEPT !.tiles = RemoveAt(@, j),
                          !.active = IF j < @ \/ (j = @ /\ j = Len(col.tiles)) THEN @ - 1 ELSE @]
  IN IF Len(col.tiles) = 1 THEN RemoveColumn(s, i)
     ELSE [s EXCEPT !.columns[i] = left,
                    !.fixed = @ \ {w},
                    !.resize = IF @ = w THEN NoWindow ELSE @,
                    !.restore = @ /\ ~(i = s.active /\ ~IsNormal(s, col) /\ IsNormal(s, left))]

---------------------------------------------------------------------------
(* Moving columns and tiles. *)

MoveColumnTo(s, i) ==
  LET col == ActiveColumn(s)
      moved == [CancelResizeForColumn(s, col) EXCEPT
                  !.columns = InsertAt(RemoveAt(@, s.active), i, col)]
  IN IF i = s.active THEN s ELSE ActivateColumn(moved, i)

\* move_up and move_down: the active tile trades places with tile j.
MoveTileTo(s, j) ==
  LET k == ActiveColumn(s).active
      tiles == ActiveColumn(s).tiles
  IN [s EXCEPT !.columns[s.active].tiles = [tiles EXCEPT ![j] = tiles[k], ![k] = tiles[j]],
               !.columns[s.active].active = j]

ConsumeOrExpelLeft(s, w) ==
  LET i == ColumnOf(s, w)
      col == s.columns[i]
      was == IsActiveTile(s, w)
      expelled == AddTile(RemoveTile(s, w), i, w, PendingSizingMode(col), was)
  IN IF Len(col.tiles) > 1
       THEN IF was THEN [expelled EXCEPT !.prev = FALSE] ELSE expelled
     ELSE IF i = 1 THEN s
     ELSE AddTileToColumn(RemoveTile([s EXCEPT !.prev = @ \/ was], w), i - 1,
                          BottomOf(s, i - 1), w, was)

ConsumeOrExpelRight(s, w) ==
  LET i == ColumnOf(s, w)
      col == s.columns[i]
      was == IsActiveTile(s, w)
  IN IF Len(col.tiles) > 1
       THEN AddTile(RemoveTile(s, w), i + 1, w, PendingSizingMode(col), was)
     ELSE IF i = Len(s.columns) THEN s
     ELSE AddTileToColumn(RemoveTile([s EXCEPT !.prev = @ /\ ~was], w), i,
                          BottomOf(s, i + 1), w, was)

ConsumeIntoColumn(s) ==
  IF s.active >= Len(s.columns) THEN s
  ELSE LET w == s.columns[s.active + 1].tiles[1]
       IN AddTileToColumn(RemoveTile(s, w), s.active, BottomOf(s, s.active), w, FALSE)

ExpelFromColumn(s) ==
  IF s.columns = <<>> \/ Len(ActiveColumn(s).tiles) = 1 THEN s
  ELSE LET w == Last(ActiveColumn(s).tiles)
       IN AddTile(RemoveTile(s, w), s.active + 1, w, PendingSizingMode(ActiveColumn(s)), FALSE)

\* The active tiles of columns s.active and t, its neighbour, trade places.  A
\* source column that runs empty on the way is made anew.
SwapTiles(s, t) ==
  LET i == s.active
      source == s.columns[i]
      target == s.columns[t]
      w == source.tiles[source.active]
      v == target.tiles[target.active]
      drained == Len(source.tiles) = 1
      at == IF t > i /\ drained THEN t - 1 ELSE t
      given == AddTileToColumn(RemoveTile(s, w), at, target.active, w, FALSE)
      mode == PendingSizingMode(given.columns[at])
      taken == RemoveTile(given, v)
      back == IF drained THEN AddTile(taken, i, v, mode, TRUE)
                         ELSE AddTileToColumn(taken, i, source.active, v, FALSE)
  IN ActivateColumn([back EXCEPT !.columns[i].active = source.active,
                                 !.columns[t].active = target.active], t)

SwapWindowInDirection(s, delta) ==
  LET t == s.active + delta
  IN IF s.columns = <<>> \/ t \notin DOMAIN s.columns THEN s
     ELSE IF Len(ActiveColumn(s).tiles) = 1 /\ Len(s.columns[t].tiles) = 1
       THEN MoveColumnTo(s, t)
     ELSE SwapTiles(s, t)

---------------------------------------------------------------------------
(* Sizing. *)

\* toggle_column_tabbed_display, set_column_display: several tiles side by side
\* cannot be fullscreen or maximized.
ToggleColumnTabbedDisplay(s) ==
  IF s.columns = <<>> THEN s
  ELSE LET col == ActiveColumn(s)
           keeps == ~col.tabbed \/ Len(col.tiles) = 1
       IN [CancelResizeForColumn(s, col) EXCEPT
             !.columns[s.active].tabbed = ~@,
             !.columns[s.active].fullscreen = @ /\ keeps,
             !.columns[s.active].maximized = @ /\ keeps]

\* ScrollingSpace::set_fullscreen and set_maximized: a window that shares its column
\* side by side is first taken out of it.
SetSizing(s, w, sizing, on) ==
  LET i == ColumnOf(s, w)
      col == s.columns[i]
      still == CancelResizeForColumn(s, col)
  IN IF col[sizing] = on THEN s
     ELSE IF on /\ Len(col.tiles) > 1 /\ ~col.tabbed
       THEN [ConsumeOrExpelRight(still, w) EXCEPT !.columns[i + 1][sizing] = on]
     ELSE [still EXCEPT !.columns[i][sizing] = on]

\* Every change of a column's width unmaximizes it and ends an interactive resize.
SetColumnWidth(s, w) ==
  LET i == ColumnOf(s, w)
  IN [CancelResizeForColumn(s, s.columns[i]) EXCEPT !.columns[i].maximized = FALSE]

\* set_window_height, toggle_window_height: one tile of a column at most has a
\* height that is not automatic.
SetWindowHeight(s, w) ==
  LET i == ColumnOf(s, w)
  IN [CancelResizeForColumn(s, s.columns[i]) EXCEPT
        !.columns[i].maximized = FALSE,
        !.fixed = (@ \ (IF w \in @ THEN {} ELSE Tiles(s.columns[i]))) \cup {w}]

ResetWindowHeight(s, w) ==
  LET col == s.columns[ColumnOf(s, w)]
  IN [CancelResizeForColumn(s, col) EXCEPT
        !.fixed = @ \ (IF col.tabbed THEN Tiles(col) ELSE {w})]

\* A commit of w, in the sizing mode it has acknowledged.
UpdateTiledWindow(s, w, expanded) ==
  LET i == ColumnOf(s, w)
      new == [s EXCEPT !.expanded = IF expanded THEN @ \cup {w} ELSE @ \ {w}]
      was == IsNormal(s, s.columns[i])
      is == IsNormal(new, s.columns[i])
  IN IF i # s.active \/ was = is THEN new ELSE [new EXCEPT !.restore = was]

---------------------------------------------------------------------------
(* Gestures. *)

\* A view gesture that an animation has taken over is not told apart from one that
\* goes on: it may still end, on any column.
ViewOffsetGestureBegin(s) ==
  IF s.columns = <<>> \/ s.resize # NoWindow THEN s ELSE [s EXCEPT !.gesture = "View"]

DndScrollGestureBegin(s) ==
  IF s.gesture = "DndScroll" THEN s
  ELSE [s EXCEPT !.gesture = "DndScroll", !.resize = NoWindow]

\* The view comes to rest on column i.  (activate_prev_column_on_removal stays.)
ViewOffsetGestureEnd(s, i) ==
  [s EXCEPT !.gesture = "None", !.active = i, !.restore = @ /\ i = s.active]

InteractiveResizeTiled(s, w) ==
  IF s.resize # NoWindow \/ PendingSizingMode(s.columns[ColumnOf(s, w)]) # "Normal" THEN s
  ELSE [s EXCEPT !.resize = w, !.gesture = "None"]

\* A vertical resize fixes the height of the resized tile.
InteractiveResizeUpdate(s) == [SetWindowHeight(s, s.resize) EXCEPT !.resize = s.resize]

\* center_column, center_visible_columns, align_visible_columns_left: only the view
\* moves, but it moves for good.
CenterColumn(s) == IF s.columns = <<>> THEN s ELSE CancelResizeForColumn(s, ActiveColumn(s))

=============================================================================
