--------------------------- MODULE MCEventStream ---------------------------
EXTENDS EventStream

CONSTANTS c1, c2, s1, s2, o1, o2, w1, w2, r1, r2

\* One workspace has the focus, and every output has one that is active.
SoundWorkspaces(f) ==
  /\ DOMAIN f # {} => Cardinality({id \in DOMAIN f : f[id].focused}) = 1
  /\ \A id \in DOMAIN f :
       /\ f[id].focused => f[id].active
       /\ Cardinality({i \in DOMAIN f : f[i].output = f[id].output /\ f[i].active}) = 1

WorkspaceMaps ==
  {f \in UNION {[S -> [output : {o1, o2}, urgent : BOOLEAN, active : BOOLEAN,
                       focused : BOOLEAN, window : {NoWindow, w1}]] : S \in {{}, {s1}, {s1, s2}}} :
     /\ SoundWorkspaces(f)
     /\ s1 \in DOMAIN f => f[s1].output = o1}

\* At most one window has the focus.
WindowMaps ==
  {f \in UNION {[S -> [about : {1, 2}, layout : {1, 2}, urgent : BOOLEAN, focused : BOOLEAN]] :
                  S \in SUBSET {w1, w2}} :
     /\ \A v, w \in DOMAIN f : f[v].focused /\ f[w].focused => v = w
     /\ w1 \in DOMAIN f => ~f[w1].urgent}

CastMaps == UNION {[S -> {1, 2}] : S \in SUBSET {r1, r2}}

Ready == [Blank EXCEPT !.keyboard = <<1, 0>>]

\* A few states for the behaviours with clients, which differ in every part.
Busy == [Ready EXCEPT
  !.workspaces = s1 :> [output |-> o1, urgent |-> FALSE, active |-> TRUE, focused |-> TRUE, window |-> w1],
  !.windows = w1 :> [about |-> 1, layout |-> 1, urgent |-> FALSE, focused |-> TRUE]]
Busier == [Busy EXCEPT
  !.windows = @ @@ (w2 :> [about |-> 1, layout |-> 2, urgent |-> FALSE, focused |-> FALSE]),
  !.casts = r1 :> 1]
Elsewhere == [Busier EXCEPT
  !.windows[w1].focused = FALSE, !.windows[w1].layout = 2, !.windows[w2].focused = TRUE,
  !.workspaces[s1].window = w2, !.casts = <<>>, !.overview = TRUE]

MCStatesOf(about) ==
  CASE about = "workspaces" -> {[Ready EXCEPT !.workspaces = f] : f \in WorkspaceMaps}
    [] about = "windows" -> {[Ready EXCEPT !.windows = f] : f \in WindowMaps}
    [] about = "casts" -> {[Ready EXCEPT !.casts = f] : f \in CastMaps}
    [] about = "session" -> {Ready, Busy, Busier, Elsewhere}
    [] about = "settings" -> {[Ready EXCEPT !.keyboard = <<n, i>>, !.failed = b] :
                                n \in {1, 2}, i \in {0, 1}, b \in BOOLEAN}
    [] about = "crowd" -> {[Ready EXCEPT !.overview = b] : b \in BOOLEAN}

\* Without a client every pair of states is compared; with one, or two, a few are enough
\* to have bursts of events of every length.
MCScenarios ==
  {[about |-> "workspaces", clients |-> {}, screenshots |-> FALSE, changes |-> 1],
   [about |-> "windows", clients |-> {}, screenshots |-> FALSE, changes |-> 1],
   [about |-> "casts", clients |-> {c1}, screenshots |-> FALSE, changes |-> 1],
   [about |-> "session", clients |-> {c1}, screenshots |-> TRUE, changes |-> 2],
   [about |-> "settings", clients |-> {c1}, screenshots |-> FALSE, changes |-> 2],
   [about |-> "crowd", clients |-> {c1, c2}, screenshots |-> TRUE, changes |-> 2]}

=============================================================================
