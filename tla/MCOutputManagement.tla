------------------------- MODULE MCOutputManagement -------------------------
EXTENDS OutputManagement

CONSTANTS n1, n2, n3

\* A laptop with a panel and a socket on its own GPU, and a dock, which is an external GPU
\* (n2) or display-only (n3).
TheRenderNode == [n \in Nodes |-> IF n = n3 THEN NoNode ELSE n]
TheNodeOf == [c \in Connectors |-> CASE c = "DP-3" -> n2 [] c = "USB-1" -> n3 [] OTHER -> n1]

\* Two monitors of one make whose serial cannot be read, one of another and a headset.
TheMake == [m \in Monitors |-> CASE m \in {"left", "right"} -> "Acme"
                                 [] m = "big" -> "Boe" [] OTHER -> NoMake]
TheModes == [m \in Monitors |-> IF m = "big" THEN <<3, 2>> ELSE <<2, 1>>]
TheOrder == <<"Acme", "Boe", "DP-1", "DP-3", "USB-1", "eDP-1">>

File(name, off, mode, pos, vrr) ==
  <<[name |-> name, off |-> off, mode |-> mode, pos |-> pos, vrr |-> vrr]>>

TheConfigs ==
  {File("eDP-1", TRUE, Unset, Unset, "off"), File("Acme", FALSE, 1, 1, "off"),
   File("DP-1", FALSE, 1, 3, "demand")}

Edit(key, field, value) == [key |-> key, field |-> field, value |-> value]

Off == Edit("Acme", "off", TRUE)
On == Edit("DP-1", "off", FALSE)
Narrow == Edit("Acme", "mode", 1)
Custom == Edit("DP-1", "mode", CustomMode)
Vrr == Edit("eDP-1", "vrr", "on")
TheEdits == {Off, On, Narrow, Custom, Vrr}

\* Turn it off, or on, with its first or its last mode, perhaps somewhere else.
Request(off, mode, pos) == [off |-> off, mode |-> mode, pos |-> pos]
TheRequests == {Request(TRUE, Unset, Unset), Request(FALSE, 1, Unset), Request(FALSE, 2, 3)}

Case(features, edits, monitors, nodes, start, ids) ==
  [features |-> features, monitors |-> monitors, nodes |-> nodes, ids |-> ids,
   edits |-> edits,
   start |-> [c \in Connectors |-> IF c \in DOMAIN start THEN start[c] ELSE NoMonitor]]

Bare == [c \in {} |-> NoMonitor]
Panel == [c \in {"eDP-1"} |-> "panel"]
Docked == [c \in {"eDP-1", "DP-3"} |-> IF c = "eDP-1" THEN "panel" ELSE "left"]
Wired == [c \in {"eDP-1", "DP-1"} |-> IF c = "eDP-1" THEN "panel" ELSE "left"]

TheScenarios ==
  {Case({"plug", "edid", "vt", "lid"}, {}, {"left", "headset"}, {n1}, Panel, 3),
   Case({"plug", "vt"}, {Off, On}, {"left", "right"}, {n1, n2}, Docked, 3),
   Case({"device", "vt", "lid", "plug"}, {}, {"left"}, {n1, n2}, Docked, 3),
   Case({"device", "vt", "ignore", "plug"}, {}, {"left"}, {n1, n2, n3}, Panel, 2),
   Case({"gamma", "vt", "lid", "plug"}, {}, {"left"}, {n1}, Wired, 3),
   Case({"file", "vt", "vrr"}, {Narrow, Custom}, {}, {n1}, Wired, 3),
   Case({"plug", "fail", "lid"}, {}, {"left"}, {n1}, Wired, 4),
   Case({"plug", "manage"}, {}, {"left"}, {n1}, Wired, 3),
   Case({"manage"}, {Off, Vrr}, {}, {n1}, Wired, 3),
   Case({"manage"}, {Custom}, {}, {n1}, Wired, 3),
   Case({"plug", "edid", "manage"}, {}, {"left"}, {n1}, Bare, 2),
   Case({"manage", "lid"}, {}, {}, {n1}, Wired, 3)}
=============================================================================
