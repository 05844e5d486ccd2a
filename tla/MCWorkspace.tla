---------------------------- MODULE MCWorkspace ----------------------------
EXTENDS Workspace, TLC

CONSTANTS w1, w2, w3

\* Three windows in columns, one of them with a height of its own now and then.
Tiling ==
  [windows |-> {w1, w2, w3}, expandable |-> {}, floatable |-> {}, dialogs |-> {},
   resizable |-> {}, sizable |-> {w1}, gestures |-> FALSE, sizings |-> {}]

\* Three floating windows that may be each other's dialogs.
Stacking ==
  [windows |-> {w1, w2, w3}, expandable |-> {}, floatable |-> {w1, w2, w3}, dialogs |-> {w2, w3},
   resizable |-> {}, sizable |-> {}, gestures |-> FALSE, sizings |-> {}]

\* Two windows that do everything else but scroll.
Pair ==
  [windows |-> {w2, w3}, expandable |-> {w2, w3}, floatable |-> {w2, w3}, dialogs |-> {},
   resizable |-> {w2, w3}, sizable |-> {w2, w3}, gestures |-> FALSE,
   sizings |-> {"fullscreen", "maximized"}]

\* Two windows in columns that are resized and scrolled.
Scrolled ==
  [windows |-> {w2, w3}, expandable |-> {w2, w3}, floatable |-> {}, dialogs |-> {},
   resizable |-> {w2, w3}, sizable |-> {}, gestures |-> TRUE, sizings |-> {"fullscreen"}]

MCScenarios == {Tiling, Stacking, Pair, Scrolled}
Twins == Permutations({w2, w3})

=============================================================================
