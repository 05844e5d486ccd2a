----------------------------- MODULE MCToplevel -----------------------------
EXTENDS Toplevel

Scenario(opening, floating, batched, resizing, windowed, throttled) ==
  [opening |-> opening, floating |-> floating, batched |-> batched, resizing |-> resizing,
   windowed |-> windowed, throttled |-> throttled]

NoRule == [workspace |-> FALSE, output |-> NoOutput, fullscreen |-> "Unset", maximized |-> "Unset"]

AFewRules ==
  {NoRule, [NoRule EXCEPT !.workspace = TRUE], [NoRule EXCEPT !.fullscreen = "Yes"],
   [NoRule EXCEPT !.fullscreen = "No", !.maximized = "Yes"]}
  \cup {[NoRule EXCEPT !.output = o] : o \in Outputs}

OutputSymmetry == Permutations(Outputs)

\* Windows that open, are tiled, or float.  A window that floats is not asked for two
\* things between two refreshes: request_size_once may overlook the first of them.
Lives ==
  {Scenario(TRUE, TRUE, FALSE, FALSE, FALSE, TRUE),
   Scenario(FALSE, FALSE, TRUE, TRUE, TRUE, TRUE),
   Scenario(FALSE, TRUE, FALSE, TRUE, FALSE, TRUE),
   Scenario(FALSE, TRUE, FALSE, FALSE, TRUE, FALSE)}
=============================================================================
