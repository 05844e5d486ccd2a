------------------------------ MODULE Floating ------------------------------
(***************************************************************************)
(* The floating windows of one workspace (src/layout/floating.rs), as      *)
(* operators on the workspace record of Scrolling.  `stack` lists them top *)
(* to bottom, `floating_window` is active_window_id, `floating_resize` the *)
(* window under an interactive resize, and `parent` the parent every       *)
(* toplevel has set.  Positions and sizes are left out.                    *)
(***************************************************************************)
EXTENDS Scrolling

Floats(s) == ToSet(s.stack)
IndexIn(s, w) == CHOOSE i \in DOMAIN s.stack : s.stack[i] = w
IsChildOf(s, w, v) == s.parent[w] = v

\* The descendants of w in a part of the stack below it, found by walking it back to
\* front: a child of a window below it is found only once its parent is.
DescendantsIn(s, w, below) ==
  FoldRight(LAMBDA v, found :
              IF \E d \in found : IsChildOf(s, v, d) THEN found \cup {v} ELSE found,
            below, {w}) \ {w}

\* Mutant: only the children come along.
BringUpChildrenOf(s, w) ==
  LET i == IndexIn(s, w)
      below == SubSeq(s.stack, i + 1, Len(s.stack))
      up == {v \in ToSet(below) : IsChildOf(s, v, w)}
  IN [s EXCEPT !.stack = SubSeq(@, 1, i - 1) \o SelectSeq(below, LAMBDA v : v \in up)
                           \o <<w>> \o SelectSeq(below, LAMBDA v : v \notin up)]

BringUpDescendantsOf(s, w) ==
  LET i == IndexIn(s, w)
      below == SubSeq(s.stack, i + 1, Len(s.stack))
      up == DescendantsIn(s, w, below)
  IN [s EXCEPT !.stack = SubSeq(@, 1, i - 1) \o SelectSeq(below, LAMBDA v : v \in up)
                           \o <<w>> \o SelectSeq(below, LAMBDA v : v \notin up)]

\* FloatingSpace::add_tile_at: never below its parent.
AddFloatingAt(s, i, w, activate) ==
  LET parents == {k \in 1 .. i - 1 : IsChildOf(s, w, s.stack[k])}
      at == IF parents = {} THEN i ELSE Min(parents)
      added == [s EXCEPT !.stack = InsertAt(@, at, w),
                         !.floating_window = IF activate \/ s.stack = <<>> THEN w ELSE @]
  IN BringUpDescendantsOf(added, w)

AddFloating(s, w, activate) == AddFloatingAt(s, 1, w, activate)

AddFloatingAbove(s, above, w, activate) == AddFloatingAt(s, IndexIn(s, above), w, activate)

RemoveFloating(s, w) ==
  LET left == SelectSeq(s.stack, LAMBDA v : v # w)
  IN [s EXCEPT !.stack = left,
               !.floating_window = IF left = <<>> THEN NoWindow
                                   ELSE IF @ = w THEN Head(left) ELSE @,
               !.floating_resize = IF @ = w THEN NoWindow ELSE @]

ActivateWithoutRaising(s, w) == [s EXCEPT !.floating_window = w]

RaiseToTop(s, w) == [s EXCEPT !.stack = <<w>> \o SelectSeq(@, LAMBDA v : v # w)]

ActivateFloating(s, w) ==
  BringUpDescendantsOf(RaiseToTop(ActivateWithoutRaising(s, w), w), w)

\* FloatingSpace::interactive_resize_end, for one window or for any
EndFloatingResize(s, windows) ==
  [s EXCEPT !.floating_resize = IF @ \in windows THEN NoWindow ELSE @]

\* toggle_window_width, toggle_window_height: another preset size is asked for, and an
\* interactive resize of the window is over.  (A size that is set outright does not end it.)
ToggleFloatingSize(s, w) == EndFloatingResize(s, {w})

\* move_to, below every move and centering: the active window is elsewhere, and an
\* interactive resize, of whichever window, is over.
MoveFloating(s) == EndFloatingResize(s, Windows)

InteractiveResizeFloating(s, w) ==
  IF s.floating_resize # NoWindow THEN s ELSE [s EXCEPT !.floating_resize = w]

\* XdgShellHandler::parent_changed.  A toplevel never becomes its own ancestor.
ParentChanged(s, w, v) ==
  LET set == [s EXCEPT !.parent[w] = v]
  IN IF v \in Floats(s) THEN BringUpDescendantsOf(set, v) ELSE set

=============================================================================
