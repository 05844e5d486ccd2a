----------------------------- MODULE MCLayout -----------------------------
(* Instances of Layout for TLC. *)
EXTENDS Layout

Script(features, outputs, windows, max) ==
  [features |-> features, outputs |-> outputs, windows |-> windows, max |-> max]

\* Two outputs that come and go, with one window: beside named workspaces, with workspaces
\* that are moved about, with columns and a configuration per output, or moved by hand.
Hotplug ==
  {Script(f[1], Outputs, {w}, f[2]) : w \in Windows,
     f \in {<<{"hotplug", "names"}, 4>>,
            <<{"hotplug", "names", "workspaces"}, 3>>,
            <<{"hotplug", "workspaces", "columns", "per_output"}, 4>>,
            <<{"hotplug", "move"}, 3>>}}

\* Switches under way on one monitor, with two windows, or with one and a name.
Switches ==
  {Script({"gestures", "config", "workspaces", "columns"}, {o}, Windows, 5) : o \in Outputs}
    \cup {Script({"gestures", "config", "names"}, {o}, {w}, 4) : o \in Outputs, w \in Windows}

Everything == Hotplug \cup Switches

LayoutSymmetry == Permutations(Windows) \cup Permutations(Outputs)
===========================================================================
