-------------------------------- MODULE Mru --------------------------------
(***************************************************************************)
(* The recent-windows switcher (src/ui/mru.rs): the list of thumbnails,    *)
(* which of them the scope and the application filter let through, and     *)
(* which one is selected.  Previews, the view position and animations      *)
(* other than the closing fade are left out.                               *)
(***************************************************************************)
EXTENDS Retaining

CONSTANTS
  Windows,  \* the windows, numbered in the order the layout iterates over them
  AppOf,    \* the application id of each window
  NoApp     \* a window may have none

NoWindow == 0

ASSUME MruAssumption ==
  /\ Windows \subseteq Nat \ {NoWindow}
  /\ AppOf \in [Windows -> Range(AppOf)]

Scopes == {"All", "Output", "Workspace"}
Filters == {"All", "AppId"}
Directions == {"Forward", "Backward"}

\* UiState.  Only an open switcher has thumbnails; closing and closed remember the scope.
\* full: the opening delay has passed, so that it is displayed and takes the pointer.
Shut(state, scope) ==
  [state |-> state, scope |-> scope, thumbnails |-> <<>>, near |-> {}, here |-> {},
   current |-> NoWindow, filter |-> NoApp, full |-> FALSE, output |-> {}]

IsOpen(m) == m.state = "Open"

---------------------------------------------------------------------------
(* WindowMru *)

Without(seq, w) == Retained(seq, ToSet(seq) \ {w})

Matches(m, w) ==
  /\ m.scope = "Output" => w \in m.near
  /\ m.scope = "Workspace" => w \in m.here
  /\ m.filter # NoApp => AppOf[w] = m.filter

Shown(m) == {w \in ToSet(m.thumbnails) : Matches(m, w)}

Thumbnails(m) == Retained(m.thumbnails, Shown(m))

FirstOf(seq) == IF seq = <<>> THEN NoWindow ELSE Head(seq)
LastOf(seq) == IF seq = <<>> THEN NoWindow ELSE Last(seq)
IndexIn(seq, w) == CHOOSE i \in DOMAIN seq : seq[i] = w

\* The thumbnail after the current one, or the first when there is none.
NextIn(seq, w) ==
  LET rest == SubSeq(seq, IndexIn(seq, w) + 1, Len(seq))
  IN IF rest = <<>> THEN Head(seq) ELSE Head(rest)

Forward(m) ==
  IF m.current = NoWindow THEN m ELSE [m EXCEPT !.current = NextIn(Thumbnails(m), @)]

Backward(m) ==
  IF m.current = NoWindow THEN m ELSE [m EXCEPT !.current = NextIn(Reverse(Thumbnails(m)), @)]

SetCurrent(m, w) ==
  IF w \in ToSet(Thumbnails(m)) THEN [m EXCEPT !.current = w] ELSE m

First(m) == [m EXCEPT !.current = FirstOf(Thumbnails(m))]
Final(m) == [m EXCEPT !.current = LastOf(Thumbnails(m))]

\* After the scope or the filter changed: the same thumbnail, or the nearest one to its left,
\* or else the first to its right.
Reselect(m) ==
  IF m.current = NoWindow THEN First(m)
  ELSE LET left == Retained(SubSeq(m.thumbnails, 1, IndexIn(m.thumbnails, m.current)), Shown(m))
       IN IF left = <<>> THEN First(m) ELSE [m EXCEPT !.current = Last(left)]

SetScope(m, scope) == IF m.scope = scope THEN m ELSE Reselect([m EXCEPT !.scope = scope])

\* The filter is the application of the current window, if there is one and it has one.
SetFilter(m, filter) ==
  LET app == IF filter = "All" THEN NoApp
             ELSE IF m.current = NoWindow THEN NoApp ELSE AppOf[m.current]
  IN IF (m.filter # NoApp) = (filter = "AppId") \/ app = m.filter THEN m
     ELSE Reselect([m EXCEPT !.filter = app])

CycleScope(m) ==
  SetScope(m, CASE m.scope = "All" -> "Workspace"
                [] m.scope = "Workspace" -> "Output"
                [] m.scope = "Output" -> "All")

\* Mutant: the thumbnail is removed before another one is selected.
RemovedFirst(m, w) ==
  [m EXCEPT !.thumbnails = Without(@, w)]

Removed(m, w) ==
  LET moved == IF m.current = w THEN Forward(m) ELSE m
  IN [moved EXCEPT !.current = IF @ = w THEN NoWindow ELSE @,
                   !.thumbnails = Without(@, w)]

---------------------------------------------------------------------------
(* WindowMruUi *)

\* The windows in the given order, near: those on the active output, here: those on the
\* active workspace.
NewWindowMru(order, near, here, output) ==
  [state |-> "Open", scope |-> "All", thumbnails |-> order, near |-> near, here |-> here,
   current |-> FirstOf(order), filter |-> NoApp, full |-> FALSE, output |-> {output}]

\* Nothing fades out that has not been displayed.
Close(m) == IF IsOpen(m) THEN Shut(IF m.full THEN "Closing" ELSE "Closed", m.scope) ELSE m

Step(m, direction) == IF direction = "Forward" THEN Forward(m) ELSE Backward(m)

RemoveWindow(m, w) ==
  IF ~IsOpen(m) \/ w \notin ToSet(m.thumbnails) THEN m
  ELSE LET left == Removed(m, w) IN IF left.thumbnails = <<>> THEN Close(left) ELSE left

\* verify_invariants: the current thumbnail is one of those shown, and is unset only when
\* none is.
Verified(m) ==
  IF m.current = NoWindow THEN Thumbnails(m) = <<>> ELSE m.current \in ToSet(Thumbnails(m))
============================================================================
