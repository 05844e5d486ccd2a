---------------------------- MODULE MCScreencast ----------------------------
EXTENDS Screencast, TLC

CONSTANTS s1, a1, a2, w1, o1, o2

OneSession == [x \in Streams |-> s1]

Case(streams, targets, features) == [streams |-> streams, targets |-> targets, features |-> features]

\* The life of a cast of a window: its frames, with a window that is resized or a consumer
\* that limits the rate, and its end, in all ways; of a session that is started again; of
\* one and two casts that follow the user; and of a client of wlr-screencopy.
CastLives ==
  {Case({a1}, {w1}, {"resize", "draw", "gpu"}),
   Case({a1}, {w1}, {"pace", "draw"}),
   Case({a1}, {w1}, {"move", "fatal", "draw"}),
   Case({a1}, {o1}, {"restart", "fatal", "portal"}),
   Case({a1}, {Portal}, {"fatal"}),
   Case({a1}, {Portal}, {"ipc"}),
   Case({a1, a2}, {Portal}, {"move", "portal", "quiet"}),
   Case({}, {}, {"copy", "ipc", "move"})}

CastSymmetry == Permutations(Frames)
=============================================================================
