------------------------------- MODULE Seat -------------------------------
(***************************************************************************)
(* The keyboard and the pointer between the user, the binds, the overlays  *)
(* and the clients (src/input/mod.rs, src/niri.rs): which key presses are  *)
(* intercepted and whose releases are kept from the clients, bind repeat   *)
(* and cooldown timers, the recent-windows switcher, the exit dialog, the  *)
(* screenshot UI, the session lock that closes them, keyboard focus and    *)
(* the focus timestamps that order the switcher.                           *)
(***************************************************************************)
EXTENDS Mru

CONSTANTS
  Outputs,
  Mods,      \* the modifier keys
  Plain,     \* the other keys
  Button,    \* the left pointer button
  Scenarios  \* bound: what happens in one behaviour, see Scripts

Keys == Mods \cup Plain
Inputs == Keys \cup {Button}

---------------------------------------------------------------------------
(* Binds. *)

Act(name) == [name |-> name, direction |-> "Forward", scope |-> {}, filter |-> {}]

\* scope and filter are the options of the code: a set of at most one element.
MruAdvance(direction, scope, filter) ==
  [name |-> "MruAdvance", direction |-> direction, scope |-> scope, filter |-> filter]

Options(S) == {{}} \cup {{x} : x \in S}

Actions ==
  [name : {"Quit", "QuitNow", "ChangeVt", "Spawn", "Screenshot", "ConfirmScreenshot",
           "CancelScreenshot", "FocusWindowPrevious", "MruConfirm", "MruCancel", "MruFirst",
           "MruLast", "MruSetScope", "MruCycleScope", "MruAdvance"},
   direction : Directions, scope : Options(Scopes), filter : Options(Filters)]

\* What can be configured: the actions of the switcher are not for the general binds, those
\* of its own only advance it, and only spawn binds can be allowed when locked.
Binds ==
  {b \in [action : Actions, repeat : BOOLEAN, cooldown : BOOLEAN, allow_when_locked : BOOLEAN] :
     /\ b.action.name \notin {"MruConfirm", "MruCancel", "MruFirst", "MruLast", "MruSetScope",
                             "MruCycleScope", "MruAdvance"}
     /\ b.allow_when_locked => b.action.name = "Spawn"}

MruBinds ==
  {b \in [action : Actions, repeat : {TRUE}, cooldown : {FALSE}, allow_when_locked : {FALSE}] :
     b.action.name = "MruAdvance"}

Hardcoded(action) ==
  [action |-> action, repeat |-> TRUE, cooldown |-> FALSE, allow_when_locked |-> FALSE]

\* features: what else happens; binds: the configured ones; mru_binds: those of the switcher,
\* which need a modifier; debounce: whether a focus timestamp is locked in with a delay.
Scripts ==
  [features : SUBSET {"vt", "mru_keys", "pointer", "grab", "ipc", "windows",
                      "focus", "layers", "lock", "hotplug"},
   windows : SUBSET Windows, keys : SUBSET Keys, outputs : SUBSET Outputs,
   binds : SUBSET Binds, mru_binds : SUBSET MruBinds, debounce : BOOLEAN, repeating : BOOLEAN]

ASSUME ScenariosAssumption == Scenarios \subseteq Scripts
ASSUME KeysAssumption == Mods \cap Plain = {} /\ Button \notin Mods \cup Plain

VARIABLES
  pressed,     \* what became of the press of each key or button that is down
  suppressed,  \* suppressed_keys and suppressed_buttons
  repeat,      \* the bind of bind_repeat_timer, if it runs
  cooldowns,   \* bind_cooldown_timers
  exit_dialog, screenshot,  \* whether they are open
  mru,         \* window_mru_ui, see Mru
  grab,        \* a pointer grab that Escape cancels
  mapped,      \* the windows in the layout
  active,      \* the focus of the layout
  recency,     \* the windows with a focus timestamp, oldest first; NoWindow stands for the
               \* timestamp of the pending commit
  pending,     \* the window of pending_mru_commit, whose timer runs while there is one
  focus,       \* keyboard_focus
  layer,       \* a layer surface that would have the focus of the layout
  lock, outputs, stopped,
  scenario     \* which never changes

keyboard == <<pressed, suppressed>>
overlays == <<exit_dialog, screenshot, mru>>
stamps == <<recency, pending>>
vars == <<pressed, suppressed, repeat, cooldowns, exit_dialog, screenshot, mru, grab, mapped,
          active, recency, pending, focus, layer, lock, outputs, stopped, scenario>>

Has(feature) == feature \in scenario.features

Down(p, keys) == {k \in keys : p[k] # "Up"}

Init ==
  /\ scenario \in Scenarios
  /\ pressed = [k \in Inputs |-> "Up"] /\ suppressed = {} /\ repeat = {} /\ cooldowns = {}
  /\ exit_dialog = FALSE /\ screenshot = FALSE /\ mru = Shut("Closed", "All") /\ grab = FALSE
  /\ mapped = {} /\ active = NoWindow /\ recency = <<>> /\ pending = NoWindow
  /\ focus = [kind |-> "Layout", window |-> NoWindow] /\ layer = FALSE
  /\ lock = "Unlocked" /\ outputs = scenario.outputs /\ stopped = FALSE

---------------------------------------------------------------------------
(* Focus timestamps. *)

IsLocked == lock \in {"Locking", "Locked"}

\* Mutant: the pending commit is cancelled rather than applied.
CommitCancelled == Without(recency, NoWindow)

\* mru_apply_keyboard_commit: the timestamp is the one of the moment of the focus change.
Committed ==
  LET others == Without(recency, pending)
  IN IF pending = NoWindow THEN recency
     ELSE [i \in DOMAIN others |-> IF others[i] = NoWindow THEN pending ELSE others[i]]

MruApplyKeyboardCommit == recency' = Committed /\ pending' = NoWindow

\* The windows by focus timestamp, newest first, then those without one.
ByRecency(seq) ==
  Reverse(Without(seq, NoWindow)) \o InOrder(mapped \ ToSet(seq))

ComputedFocus ==
  LET kind == IF exit_dialog THEN "ExitConfirmDialog"
              ELSE IF IsLocked THEN "LockScreen"
              ELSE IF screenshot THEN "ScreenshotUi"
              ELSE IF IsOpen(mru) THEN "Mru"
              ELSE IF layer /\ outputs # {} THEN "LayerShell" ELSE "Layout"
  IN [kind |-> kind,
      window |-> IF kind = "Layout" /\ outputs # {} THEN active ELSE NoWindow]

\* A window without a timestamp gets one at once, the others after the lock-in delay; the
\* timer of an earlier commit is removed with it.
UpdateKeyboardFocus ==
  LET now == ComputedFocus
      at_once == now.window \notin ToSet(recency) \/ ~scenario.debounce
  IN /\ Has("focus") /\ focus # now
     /\ focus' = now
     /\ IF now.window = NoWindow THEN UNCHANGED stamps
        ELSE IF at_once
        THEN recency' = Append(Without(recency, now.window), now.window) /\ UNCHANGED pending
        ELSE recency' = Append(Without(recency, NoWindow), NoWindow) /\ pending' = now.window
     /\ UNCHANGED <<keyboard, repeat, cooldowns, overlays, grab, mapped, active, layer, lock,
                    outputs, stopped>>

\* The lock-in timer.
CommitTimer ==
  /\ pending # NoWindow
  /\ MruApplyKeyboardCommit
  /\ UNCHANGED <<keyboard, repeat, cooldowns, overlays, grab, mapped, active, focus, layer, lock,
                 outputs, stopped>>

---------------------------------------------------------------------------
(* Actions of binds and of IPC requests. *)

AllowedWhenLocked(action) == action.name \in {"Quit", "QuitNow", "ChangeVt"}
AllowedDuringScreenshot(action) == action.name \in {"Quit", "QuitNow", "ChangeVt", "Spawn"}

Quit == exit_dialog' = TRUE /\ UNCHANGED <<screenshot, mru, stamps, active, grab, stopped>>

QuitNow == stopped' = TRUE /\ UNCHANGED <<overlays, stamps, active, grab>>

Spawn == UNCHANGED <<overlays, stamps, active, grab, stopped>>

\* Mutant: the switcher is not cancelled.
OpenScreenshotOverMru ==
  /\ IF IsLocked \/ screenshot \/ outputs = {} THEN UNCHANGED <<screenshot, grab>>
     ELSE screenshot' = TRUE /\ grab' = FALSE
  /\ UNCHANGED <<exit_dialog, mru, stamps, active, stopped>>

\* open_screenshot_ui clears the grabs once it has captured the outputs.  The switcher is
\* cancelled in any case.
OpenScreenshotUi ==
  /\ IF IsLocked \/ screenshot \/ outputs = {} THEN UNCHANGED <<screenshot, grab>>
     ELSE screenshot' = TRUE /\ grab' = FALSE
  /\ mru' = Close(mru)
  /\ UNCHANGED <<exit_dialog, stamps, active, stopped>>

CloseScreenshotUi ==
  /\ screenshot' = FALSE
  /\ UNCHANGED <<exit_dialog, mru, stamps, active, grab, stopped>>

FocusWindowPrevious ==
  LET seen == Without(Without(recency, NoWindow), active)
      others == InOrder(mapped \ {active})
  IN /\ IF others = <<>> THEN UNCHANGED <<active, stamps>>
        ELSE /\ active' = IF seen = <<>> THEN Last(others) ELSE Last(seen)
             /\ MruApplyKeyboardCommit
     /\ UNCHANGED <<overlays, grab, stopped>>

\* What the switcher is told while it is open.
Navigated(action) ==
  CASE action.name = "MruFirst" -> First(mru)
    [] action.name = "MruLast" -> Final(mru)
    [] action.name = "MruCycleScope" -> CycleScope(mru)
    [] action.name = "MruSetScope" -> SetScope(mru, CHOOSE x \in action.scope : TRUE)
    [] action.name = "MruAdvance" ->
         Step(IF action.filter = {} THEN mru
              ELSE SetFilter(mru, CHOOSE x \in action.filter : TRUE), action.direction)

\* Opening: the pending commit is applied first, so that the focused window comes first.
\* It is not selected then, unless nothing is focused.
OpenMru(action, order) ==
  \E output \in outputs, near \in SUBSET mapped :
  \E here \in SUBSET near :
    LET made == NewWindowMru(order, near, here, output)
        scoped == SetScope(made, IF action.scope = {} THEN mru.scope
                                 ELSE CHOOSE x \in action.scope : TRUE)
        filtered == IF action.filter = {} THEN scoped
                    ELSE SetFilter(scoped, CHOOSE x \in action.filter : TRUE)
    IN /\ active # NoWindow => active \in here
       /\ mru' = IF action.direction = "Forward" /\ active = NoWindow THEN filtered
                 ELSE Step(filtered, action.direction)

MruNavigate(action) ==
  /\ IF IsOpen(mru) THEN mru' = Navigated(action) /\ UNCHANGED stamps
     ELSE IF action.name # "MruAdvance" THEN UNCHANGED <<mru, stamps>>
     ELSE /\ MruApplyKeyboardCommit
          /\ IF mapped = {} \/ outputs = {} THEN UNCHANGED mru
             ELSE OpenMru(action, ByRecency(Committed))
  /\ UNCHANGED <<exit_dialog, screenshot, active, grab, stopped>>

\* close_mru and focus_window
CloseMru(confirm) ==
  /\ mru' = Close(mru)
  /\ active' = IF confirm /\ mru.current \in mapped THEN mru.current ELSE active
  /\ UNCHANGED <<exit_dialog, screenshot, stamps, grab, stopped>>

\* Changing VT may not deliver the releases of intercepted keys, and forgets them: those
\* that are delivered reach the clients.
ChangeVt(p) ==
  \E lost \in SUBSET {k \in Plain : p[k] = "Intercepted"} :
    pressed' = [k \in Inputs |-> IF k \in lost THEN "Up"
                                 ELSE IF k \in Keys /\ p[k] = "Intercepted" THEN "Forgotten"
                                 ELSE p[k]]

\* p and s are the presses and the suppressed keys once the press itself is recorded.
DoAction(action, allow_when_locked, p, s) ==
  IF IsLocked /\ ~(allow_when_locked \/ AllowedWhenLocked(action))
  THEN /\ pressed' = p /\ suppressed' = s
       /\ UNCHANGED <<overlays, stamps, active, grab, stopped>>
  ELSE /\ \/ action.name = "Quit" /\ Quit
          \/ action.name = "QuitNow" /\ QuitNow
          \/ action.name \in {"Spawn", "ChangeVt"} /\ Spawn
          \/ action.name = "Screenshot" /\ OpenScreenshotUi
          \/ action.name \in {"ConfirmScreenshot", "CancelScreenshot"} /\ CloseScreenshotUi
          \/ action.name = "FocusWindowPrevious" /\ FocusWindowPrevious
          \/ action.name \in {"MruConfirm", "MruCancel"}
               /\ CloseMru(action.name = "MruConfirm")
          \/ action.name \in {"MruFirst", "MruLast", "MruCycleScope", "MruSetScope", "MruAdvance"}
               /\ MruNavigate(action)
       /\ IF action.name = "ChangeVt" THEN ChangeVt(p) /\ suppressed' = s \ Keys
          ELSE pressed' = p /\ suppressed' = s

HandleBind(bind, p, s) ==
  IF bind.cooldown
  THEN IF \/ IsLocked /\ ~(bind.allow_when_locked \/ AllowedWhenLocked(bind.action))
          \/ bind \in cooldowns
       THEN /\ pressed' = p /\ suppressed' = s
            /\ UNCHANGED <<overlays, stamps, active, grab, stopped, cooldowns>>
       ELSE /\ cooldowns' = cooldowns \cup {bind}
            /\ DoAction(bind.action, bind.allow_when_locked, p, s)
  ELSE DoAction(bind.action, bind.allow_when_locked, p, s) /\ UNCHANGED cooldowns

\* repeating: the configured repeat rate is not zero.
StartKeyRepeat(bind) ==
  repeat' = IF ~bind.repeat THEN repeat ELSE IF scenario.repeating THEN {bind} ELSE {}

---------------------------------------------------------------------------
(* Keys. *)

OpenedBinds ==
  {Hardcoded(a) : a \in {Act(name) : name \in {"MruCancel", "MruConfirm", "MruFirst", "MruLast",
                                              "MruCycleScope"}}
                       \cup {[Act("MruSetScope") EXCEPT !.scope = {x}] : x \in Scopes}
                       \cup {MruAdvance(d, {}, {}) : d \in Directions}}

ScreenshotBinds == {Hardcoded(Act(name)) : name \in {"ConfirmScreenshot", "CancelScreenshot"}}

\* make_dynamic_opened_binds: those of the configured binds that the open switcher keeps.
DynamicBinds == {b \in scenario.binds : b.action.name = "Screenshot"}

\* make_binds_iter: the other general binds yield to the open switcher; its own need a
\* modifier.
BindsFor(mods) ==
  (IF IsOpen(mru) THEN DynamicBinds ELSE scenario.binds)
    \cup (IF mods = {} THEN {} ELSE scenario.mru_binds)
    \cup (IF IsOpen(mru) /\ Has("mru_keys") THEN OpenedBinds ELSE {})

\* What a key may be bound to.  The screenshot UI replaces what is not allowed during it.
FoundBinds(mods) ==
  LET found == BindsFor(mods) \cup (IF Has("vt") THEN {Hardcoded(Act("ChangeVt"))} ELSE {})
  IN IF screenshot THEN {b \in found : AllowedDuringScreenshot(b.action)} \cup ScreenshotBinds
     ELSE found

Intercepted(k) == [pressed EXCEPT ![k] = "Intercepted"]

\* The exit dialog takes every press, and goes away with it; Return quits.
PressAtExitDialog(k) ==
  /\ exit_dialog
  /\ pressed' = Intercepted(k) /\ suppressed' = suppressed \cup {k}
  /\ exit_dialog' = FALSE
  /\ stopped' \in BOOLEAN
  /\ UNCHANGED <<repeat, cooldowns, screenshot, mru, grab, active, stamps>>

\* Escape cancels picking a window or a colour, and drag and drop.
PressEscape(k) ==
  /\ ~exit_dialog /\ grab
  /\ pressed' = Intercepted(k) /\ suppressed' = suppressed \cup {k}
  /\ grab' = FALSE
  /\ UNCHANGED <<repeat, cooldowns, overlays, active, stamps, stopped>>

PressBind(k, bind) ==
  /\ ~exit_dialog
  /\ HandleBind(bind, Intercepted(k), suppressed \cup {k})
  /\ StartKeyRepeat(bind)

\* No bind, or one that the focused client inhibits: the client gets the key, which is an
\* interaction with it.
PressForwarded(k) ==
  /\ ~exit_dialog
  /\ pressed' = [pressed EXCEPT ![k] = "Forwarded"]
  /\ MruApplyKeyboardCommit
  /\ UNCHANGED <<suppressed, repeat, cooldowns, overlays, grab, active, stopped>>

OnKeyPress(k) ==
  /\ k \in scenario.keys /\ pressed[k] = "Up"
  /\ \/ PressAtExitDialog(k)
     \/ k \in Plain /\ PressEscape(k)
     \/ /\ k \in Plain
        /\ \E bind \in FoundBinds(Down(pressed, Mods)) : PressBind(k, bind)
     \/ PressForwarded(k)
  /\ UNCHANGED <<mapped, focus, layer, lock, outputs>>

\* Mutant: confirming the switcher returns before the key is forgotten.
OnKeyReleaseConfirms(k) ==
  /\ pressed[k] # "Up"
  /\ pressed' = [pressed EXCEPT ![k] = "Up"]
  /\ repeat' = {}
  /\ IF IsOpen(mru) /\ Down(pressed, Mods \ {k}) = {}
     THEN CloseMru(TRUE) /\ UNCHANGED suppressed
     ELSE /\ suppressed' = suppressed \ {k}
          /\ IF k \in suppressed THEN UNCHANGED stamps ELSE MruApplyKeyboardCommit
          /\ UNCHANGED <<overlays, active, grab, stopped>>
  /\ UNCHANGED <<cooldowns, mapped, focus, layer, lock, outputs>>

\* Any release stops the repeat.  The release of the last modifier confirms the switcher;
\* whatever it does, only the releases of intercepted presses are kept back.
OnKeyRelease(k) ==
  /\ pressed[k] # "Up"
  /\ pressed' = [pressed EXCEPT ![k] = "Up"]
  /\ suppressed' = suppressed \ {k}
  /\ repeat' = {}
  /\ IF IsOpen(mru) /\ Down(pressed, Mods \ {k}) = {}
     THEN CloseMru(TRUE)
     ELSE /\ IF k \in suppressed THEN UNCHANGED stamps ELSE MruApplyKeyboardCommit
          /\ UNCHANGED <<overlays, active, grab, stopped>>
  /\ UNCHANGED <<cooldowns, mapped, focus, layer, lock, outputs>>

RepeatFires ==
  \E bind \in repeat :
    /\ HandleBind(bind, pressed, suppressed)
    /\ UNCHANGED <<repeat, mapped, focus, layer, lock, outputs>>

CooldownExpires ==
  /\ \E bind \in cooldowns : cooldowns' = cooldowns \ {bind}
  /\ UNCHANGED <<keyboard, repeat, overlays, grab, mapped, active, stamps, focus, layer, lock,
                 outputs, stopped>>

---------------------------------------------------------------------------
(* The pointer and touch. *)

\* Only a displayed switcher has thumbnails under the pointer.
ThumbnailsUnder == IF mru.full THEN ToSet(Thumbnails(mru)) ELSE {}

\* A press or a touch on the open switcher picks the thumbnail under it, or dismisses it.
PickOrDismiss ==
  \/ \E w \in ThumbnailsUnder :
       /\ mru' = Close(SetCurrent(mru, w)) /\ active' = w
       /\ UNCHANGED <<screenshot, stamps, grab, stopped>>
  \/ /\ mru' = Close(mru)
     /\ UNCHANGED <<active, screenshot, stamps, grab, stopped>>

\* What a press or a touch activates: the window under it, or the output, unless that is the
\* active one already.
UnderPointer ==
  {active} \cup (IF exit_dialog \/ IsLocked \/ screenshot THEN {} ELSE mapped)
           \cup (IF \E o, p \in outputs : o # p THEN mapped \cup {NoWindow} ELSE {})

\* A press that a bind or the switcher takes; or one that a grab or a client gets, once it has
\* activated what is under it.
OnButtonPress ==
  /\ Has("pointer") /\ pressed[Button] = "Up"
  /\ exit_dialog' = FALSE
  /\ IF Button \in suppressed
     THEN /\ pressed' = Intercepted(Button) /\ suppressed' = suppressed \ {Button}
          /\ UNCHANGED <<screenshot, mru, active, stamps, grab, stopped>>
     ELSE \/ /\ IsOpen(mru)
             /\ PickOrDismiss
             /\ pressed' = Intercepted(Button) /\ suppressed' = suppressed \cup {Button}
          \/ /\ ~IsOpen(mru)
             /\ active' \in UnderPointer
             /\ grab' = FALSE
             /\ IF grab
                THEN pressed' = Intercepted(Button) /\ suppressed' = suppressed \cup {Button}
                ELSE /\ pressed' = [pressed EXCEPT ![Button] = "Forwarded"]
                     /\ UNCHANGED suppressed
             /\ UNCHANGED <<screenshot, mru, stamps, stopped>>
  /\ UNCHANGED <<repeat, cooldowns, mapped, focus, layer, lock, outputs>>

\* Releasing over the screenshot UI takes the screenshot, or goes on selecting.
OnButtonRelease ==
  /\ pressed[Button] # "Up"
  /\ pressed' = [pressed EXCEPT ![Button] = "Up"]
  /\ suppressed' = suppressed \ {Button}
  /\ screenshot' \in {screenshot} \cup (IF Button \in suppressed THEN {} ELSE {FALSE})
  /\ UNCHANGED <<repeat, cooldowns, exit_dialog, mru, grab, mapped, active, stamps, focus, layer,
                 lock, outputs, stopped>>

OnTouchDown ==
  /\ Has("pointer")
  /\ exit_dialog' = FALSE
  /\ IF IsOpen(mru) /\ ~screenshot THEN PickOrDismiss
     ELSE /\ active' \in IF screenshot THEN {active} ELSE UnderPointer
          /\ UNCHANGED <<screenshot, mru, stamps, grab, stopped>>
  /\ UNCHANGED <<keyboard, repeat, cooldowns, mapped, focus, layer, lock, outputs>>

OnPointerMotion ==
  /\ Has("pointer")
  /\ \E w \in ThumbnailsUnder : mru' = SetCurrent(mru, w)
  /\ UNCHANGED <<keyboard, repeat, cooldowns, exit_dialog, screenshot, grab, mapped, active,
                 stamps, focus, layer, lock, outputs, stopped>>

---------------------------------------------------------------------------
(* IPC, windows, layers, outputs and the session lock. *)

IpcActions == {Act(name) : name \in {"Quit", "QuitNow", "Screenshot", "FocusWindowPrevious"}}

IpcAction ==
  /\ Has("ipc")
  /\ \/ \E action \in IpcActions : DoAction(action, FALSE, pressed, suppressed)
     \/ /\ Has("grab") /\ grab' = TRUE
        /\ UNCHANGED <<keyboard, overlays, stamps, active, stopped>>
  /\ UNCHANGED <<repeat, cooldowns, mapped, focus, layer, lock, outputs>>

\* A window is mapped once an earlier incarnation of it is out of the focus: the initial
\* configure takes a round trip.
MapWindow(w) ==
  /\ w \notin mapped /\ focus.window # w
  /\ mapped' = mapped \cup {w}
  /\ active' \in IF active = NoWindow THEN {w} ELSE {active, w}
  /\ UNCHANGED <<keyboard, repeat, cooldowns, overlays, grab, stamps, focus, layer, lock, outputs,
                 stopped>>

\* toplevel_destroyed, or a commit without a buffer.  A pending commit of the window is void.
UnmapWindow(w) ==
  /\ w \in mapped
  /\ mapped' = mapped \ {w}
  /\ mru' = RemoveWindow(mru, w)
  /\ active' \in IF active = w THEN mapped' \cup {NoWindow} ELSE {active}
  /\ IF pending = w
     THEN recency' = Without(Without(recency, w), NoWindow) /\ pending' = NoWindow
     ELSE recency' = Without(recency, w) /\ UNCHANGED pending
  /\ UNCHANGED <<keyboard, repeat, cooldowns, exit_dialog, screenshot, grab, focus, layer, lock,
                 outputs, stopped>>

\* The layout moves its focus: to another window, or to an empty workspace.
FocusLayout ==
  /\ Has("windows")
  /\ active' \in (mapped \cup {NoWindow}) \ {active}
  /\ UNCHANGED <<keyboard, repeat, cooldowns, overlays, grab, mapped, stamps, focus, layer, lock,
                 outputs, stopped>>

FocusLayer ==
  /\ Has("layers")
  /\ layer' = ~layer
  /\ UNCHANGED <<keyboard, repeat, cooldowns, overlays, grab, mapped, active, stamps, focus, lock,
                 outputs, stopped>>

Lock ==
  /\ Has("lock") /\ lock = "Unlocked"
  /\ IF outputs = {} THEN lock' = "Locked" /\ screenshot' = FALSE
     ELSE lock' = "WaitingForSurfaces" /\ UNCHANGED screenshot
  /\ UNCHANGED <<keyboard, repeat, cooldowns, exit_dialog, mru, grab, mapped, active, stamps,
                 focus, layer, outputs, stopped>>

\* The lock surfaces are there, or their deadline passed.
ContinueToLocking ==
  /\ lock = "WaitingForSurfaces"
  /\ screenshot' = FALSE
  /\ mru' = Close(mru)
  /\ lock' = IF outputs = {} THEN "Locked" ELSE "Locking"
  /\ UNCHANGED <<keyboard, repeat, cooldowns, exit_dialog, grab, mapped, active, stamps, focus,
                 layer, outputs, stopped>>

\* Every output has shown the lock screen, or the locker unlocks or gives up.
LockProgresses ==
  /\ \/ lock = "Locking" /\ lock' = "Locked"
     \/ lock # "Unlocked" /\ lock' = "Unlocked"
  /\ UNCHANGED <<keyboard, repeat, cooldowns, overlays, grab, mapped, active, stamps, focus,
                 layer, outputs, stopped>>

AddOutput(o) ==
  /\ Has("hotplug") /\ o \in scenario.outputs \ outputs
  /\ outputs' = outputs \cup {o}
  /\ UNCHANGED <<keyboard, repeat, cooldowns, overlays, grab, mapped, active, stamps, focus,
                 layer, lock, stopped>>

\* With its output the lock may get all the surfaces or frames it waits for, and must when
\* there is none left; the screenshot UI always closes, the switcher if it was there.
RemoveOutput(o) ==
  /\ Has("hotplug") /\ o \in outputs
  /\ outputs' = outputs \ {o}
  /\ \/ outputs' # {} /\ UNCHANGED lock
     \/ lock = "Unlocked" /\ UNCHANGED lock
     \/ lock = "WaitingForSurfaces" /\ lock' = IF outputs' = {} THEN "Locked" ELSE "Locking"
     \/ lock \in {"Locking", "Locked"} /\ lock' = "Locked"
  /\ screenshot' = FALSE
  /\ mru' = IF mru.output = {o} \/ (lock = "WaitingForSurfaces" /\ lock' # lock) THEN Close(mru)
            ELSE mru
  /\ UNCHANGED <<keyboard, repeat, cooldowns, exit_dialog, grab, mapped, active, stamps, focus,
                 layer, stopped>>

\* The opening delay of the switcher passes, or its closing fade ends.
MruClock ==
  /\ mru.state # "Closed" /\ ~mru.full
  /\ mru' = IF IsOpen(mru) THEN [mru EXCEPT !.full = TRUE] ELSE Shut("Closed", mru.scope)
  /\ UNCHANGED <<keyboard, repeat, cooldowns, exit_dialog, screenshot, grab, mapped, active,
                 stamps, focus, layer, lock, outputs, stopped>>

Next ==
  /\ ~stopped
  /\ UNCHANGED scenario
  /\ \/ \E k \in Keys : OnKeyPress(k)
     \/ \E k \in Keys : OnKeyRelease(k)
     \/ RepeatFires
     \/ CooldownExpires
     \/ OnButtonPress
     \/ OnButtonRelease
     \/ OnTouchDown
     \/ OnPointerMotion
     \/ IpcAction
     \/ \E w \in scenario.windows : MapWindow(w) \/ UnmapWindow(w)
     \/ FocusLayout
     \/ FocusLayer
     \/ UpdateKeyboardFocus
     \/ CommitTimer
     \/ Lock
     \/ ContinueToLocking
     \/ LockProgresses
     \/ \E o \in Outputs : AddOutput(o) \/ RemoveOutput(o)
     \/ MruClock

Spec == Init /\ [][Next]_vars

---------------------------------------------------------------------------
(* Properties. *)

\* The keys and buttons whose releases are kept from the clients are exactly those that are
\* down with an intercepted press: a key forgotten here leaves a stray release, one
\* remembered too long swallows the release of a later press and leaves it stuck in a client
\* (should_intercept_key and the early returns of on_keyboard and on_pointer_button), even
\* over VT changes that lose releases.
KeysBalanced == suppressed = {k \in Inputs : pressed[k] = "Intercepted"}

\* What is on the screen above the windows has a reason to be: the screenshot UI and the
\* switcher never stay open over a locked session, the switcher is on an output that exists,
\* and it closes once all modifiers are released, as MruBind promises, whatever repeats,
\* clicks and lock requests come between.  The screenshot UI does not open over the switcher,
\* from which the release of the modifiers would move the focus under it (cancel_mru in
\* do_action); only a bind that repeats opens the switcher over the screenshot UI.
OverlaysAllowed ==
  /\ IsLocked => ~screenshot /\ ~IsOpen(mru)
  /\ IsOpen(mru) => mru.output \subseteq outputs /\ Down(pressed, Mods) # {}
  /\ screenshot /\ IsOpen(mru) => scenario.repeating

\* The open switcher always has a current thumbnail among those it shows, unless it shows
\* none (verify_invariants, which set_scope and set_filter unwrap on), and shows no window
\* that the layout has not got.
MruConsistent ==
  IsOpen(mru) => Verified(mru) /\ ToSet(mru.thumbnails) \subseteq mapped /\ mru.thumbnails # <<>>

\* When the switcher opens while the focused window of the layout has the keyboard, that
\* window is the first of the list, as the code that then skips it says, though its
\* timestamp may still be pending.
FocusedComesFirst ==
  [][~IsOpen(mru) /\ IsOpen(mru') /\ active # NoWindow
       /\ focus = [kind |-> "Layout", window |-> active]
     => Head(mru'.thumbnails) = active]_vars
===========================================================================
