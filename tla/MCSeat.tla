------------------------------ MODULE MCSeat ------------------------------
(* An instance of Seat for TLC. *)
EXTENDS Seat

CONSTANTS browser

\* What is left of a sequence is what SelectSeq selects.
ASSUME RetainedIsSelected ==
  \A s \in UNION {[1 .. n -> Windows] : n \in 0 .. 4}, S \in SUBSET Windows :
    Retained(s, S) = SelectSeq(s, LAMBDA x : x \in S)

\* The second window has no application id, the others are of one application.
MCAppOf == [w \in Windows |-> IF w = 2 THEN NoApp ELSE browser]

Bind(action, repeats, cooldown, locked) ==
  [action |-> action, repeat |-> repeats, cooldown |-> cooldown, allow_when_locked |-> locked]

NextWindow == Bind(MruAdvance("Forward", {}, {"All"}), TRUE, FALSE, FALSE)
PreviousOfApp == Bind(MruAdvance("Backward", {}, {"AppId"}), TRUE, FALSE, FALSE)
NextHere == Bind(MruAdvance("Forward", {"Workspace"}, {"All"}), TRUE, FALSE, FALSE)
Volume == Bind(Act("Spawn"), TRUE, TRUE, TRUE)
TakeScreenshot == Bind(Act("Screenshot"), FALSE, TRUE, FALSE)
ScreenshotAtOnce == Bind(Act("Screenshot"), FALSE, FALSE, FALSE)
FocusPrevious == Bind(Act("FocusWindowPrevious"), TRUE, FALSE, FALSE)
QuitBind == Bind(Act("Quit"), TRUE, FALSE, FALSE)

Script(features, windows, keys, screens, binds, mru_binds, debounce, repeating) ==
  [features |-> features, windows |-> windows, keys |-> keys, outputs |-> screens,
   binds |-> binds, mru_binds |-> mru_binds, debounce |-> debounce, repeating |-> repeating]

OneOf(S) == {CHOOSE x \in S : TRUE}

\* Keys against every overlay, the lock and VT changes.
KeyScript ==
  Script({"vt", "ipc", "lock", "grab", "pointer"}, {1}, Keys, OneOf(Outputs),
         {Volume, QuitBind, TakeScreenshot}, {NextWindow}, TRUE, TRUE)

\* The pointer and the switcher, while the lock and outputs come and go.
PointerScript ==
  Script({"pointer", "lock", "hotplug"}, {1, 2}, Mods \cup OneOf(Plain), Outputs,
         {TakeScreenshot}, {NextHere}, TRUE, TRUE)

\* The list of windows, as they come and go.
ListScript ==
  Script({"mru_keys", "pointer"}, Windows, Mods \cup OneOf(Plain), OneOf(Outputs),
         {ScreenshotAtOnce}, {NextWindow, PreviousOfApp}, TRUE, FALSE)

\* The order of the list, as the focus wanders about, with and without the lock-in delay.
FocusScripts ==
  {Script({"windows", "focus", "layers"}, IF debounce THEN Windows ELSE {1, 2},
          Mods \cup OneOf(Plain), OneOf(Outputs), {FocusPrevious}, {NextWindow}, debounce, FALSE) :
     debounce \in BOOLEAN}

MCScenarios == {KeyScript, PointerScript, ListScript} \cup FocusScripts
===========================================================================
