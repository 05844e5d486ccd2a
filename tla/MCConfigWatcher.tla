-------------------------- MODULE MCConfigWatcher --------------------------
EXTENDS ConfigWatcher

CONSTANTS plain, composed, lenient, broken, theme, dark

\* The user's file comes and goes and includes another or does not; the system's one and
\* the alternative one, whose include is optional, are there or not.
MCVersions(f) ==
  CASE f = User -> {Missing, plain, composed}
    [] f = System -> {plain}
    [] f = Alternative -> {Missing, lenient, broken}
    [] f = Include -> {Missing, theme, dark}

=============================================================================
