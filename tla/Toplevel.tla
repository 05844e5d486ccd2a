------------------------------ MODULE Toplevel ------------------------------
(***************************************************************************)
(* One toplevel window, from its creation until it is destroyed            *)
(* (src/handlers/xdg_shell.rs, src/handlers/compositor.rs, src/window/).   *)
(* First it is unmapped: the client may ask to be fullscreen or maximized  *)
(* before or after the initial configure, which is sent from an idle       *)
(* callback, while outputs, the named workspace and the parent window come *)
(* and go.  Then it is mapped: the layout tells it sizes and states        *)
(* through configures, which it acknowledges and commits to in its own     *)
(* time, and the compositor keeps what it said, what the window knows and  *)
(* what it has done about it apart by serial.                              *)
(*                                                                         *)
(* The toplevel surface is the wayland library's and is modelled from how  *)
(* it is used: a pending state, the configures sent but not committed to,  *)
(* and the state the window has committed to.  A serial is a position in   *)
(* sent, so a commit renumbers what is left.  Activation, bounds and the   *)
(* tiled states, which are only sent along, are left out, and so is the    *)
(* interactive move, during which the requests below are ignored.          *)
(***************************************************************************)
EXTENDS Integers, SequencesExt

CONSTANTS
  Outputs, NoOutput,
  Sizes,      \* window sizes, positive numbers; 0 leaves the size to the window
  FullSize, MaxSize,  \* of a fullscreen and of a maximized window
  NoSize,
  Rules,      \* bound: the window rules that are ever in effect, see RuleType
  Scenarios,  \* bound: what happens in one behaviour, see ScenarioType
  MaxSent     \* bound: configures that wait for a commit

RuleType == [workspace : BOOLEAN, output : Outputs \cup {NoOutput},
             fullscreen : {"Unset", "Yes", "No"}, maximized : {"Unset", "Yes", "No"}]

\* opening: how the window comes to be mapped is followed, rather than what is done to it
\* then; floating: it ever floats;
\* batched: several requests come in before the next refresh; resizing: it is resized
\* interactively; windowed: fullscreen is ever windowed; throttled: resizes wait for
\* commits (disable_resize_throttling is off).
ScenarioType == [opening : BOOLEAN, floating : BOOLEAN, batched : BOOLEAN, resizing : BOOLEAN,
                 windowed : BOOLEAN, throttled : BOOLEAN]

ASSUME ToplevelAssumption ==
  /\ Sizes \subseteq Nat \ {0}
  /\ NoOutput \notin Outputs
  /\ Rules \subseteq RuleType
  /\ Scenarios \subseteq ScenarioType
  /\ MaxSent \in Nat \ {0}

VARIABLES
  scenario,  \* never changes
  phase,     \* "Gone", "NotConfigured", "Configured" (InitialConfigureState) or "Mapped"
  un,        \* the rest of Unmapped
  env,       \* what of the layout matters to an unmapped window
  surface,   \* the toplevel surface: pending, sent, committed
  win,       \* Mapped
  tile,      \* the place of the window in the layout
  fresh,     \* nothing has happened since the last refresh
  asked      \* what the client asked for, and whether it can be had

vars == <<scenario, phase, un, env, surface, win, tile, fresh, asked>>

---------------------------------------------------------------------------
(* The toplevel surface. *)

State(size, fullscreen, maximized) ==
  [size |-> size, fullscreen |-> fullscreen, maximized |-> maximized, resizing |-> FALSE]

Bare == [pending |-> State(0, FALSE, FALSE), sent |-> <<>>, committed |-> State(0, FALSE, FALSE)]

\* current_server_state
Server(s) == IF s.sent = <<>> THEN s.committed ELSE Last(s.sent).state

\* send_configure, with the values the compositor files under the serial.
SendConfigure(s, maximized, windowed) ==
  [s EXCEPT !.sent = Append(@, [state |-> s.pending, maximized |-> maximized,
                                windowed |-> windowed])]

\* The client acknowledges the first k configures and commits.
CommitTo(s, k) ==
  [s EXCEPT !.committed = IF k = 0 THEN @ ELSE s.sent[k].state,
            !.sent = SubSeq(@, k + 1, Len(@))]

SizingModeOf(fullscreen, maximized) ==
  IF fullscreen THEN "Fullscreen" ELSE IF maximized THEN "Maximized" ELSE "Normal"

SizeOf(mode, normal) ==
  CASE mode = "Fullscreen" -> FullSize [] mode = "Maximized" -> MaxSize [] OTHER -> normal

---------------------------------------------------------------------------
(* Mapped.  A window as the layout sees it is the record of its surface s, *)
(* of m and of its tile t.                                                 *)

Unopened ==
  [needs_configure |-> FALSE, once |-> "None", once_at |-> 0, resize |-> "None", resize_at |-> 0,
   is_windowed |-> FALSE, pending_windowed |-> FALSE,
   is_maximized |-> FALSE, pending_maximized |-> FALSE, geometry |-> 0]

NoTile ==
  [floating |-> FALSE, fullscreen |-> FALSE, maximized |-> FALSE, restore_to_floating |-> FALSE,
   floating_size |-> NoSize, size |-> 0, resizing |-> FALSE]

SizingMode(w) ==
  IF w.m.is_windowed THEN SizingModeOf(FALSE, w.m.is_maximized)
  ELSE SizingModeOf(w.s.committed.fullscreen, w.s.committed.maximized)

PendingSizingMode(w) ==
  IF w.m.pending_windowed THEN SizingModeOf(FALSE, w.m.pending_maximized)
  ELSE SizingModeOf(w.s.pending.fullscreen, w.s.pending.maximized)

\* request_size
RequestSize(w, size, mode) ==
  LET windowed == w.m.pending_windowed /\ mode # "Fullscreen"
      fullscreen == mode = "Fullscreen" \/ windowed
  IN [w EXCEPT
        !.m.pending_windowed = windowed,
        !.m.pending_maximized = mode = "Maximized",
        !.m.needs_configure = \/ @
                              \/ mode = "Fullscreen" /\ w.m.is_windowed
                              \/ w.m.is_maximized # (mode = "Maximized"),
        !.m.once = "None", !.m.once_at = 0,
        !.s.pending = [@ EXCEPT !.size = size, !.fullscreen = fullscreen,
                                !.maximized = mode = "Maximized" /\ ~fullscreen]]

\* request_size_once.  When the last configure, not committed to yet, asks for this
\* very size and state, its commit is waited for and the pending state is left alone.
RequestSizeOnce(w, size) ==
  LET last == Last(w.s.sent).state
      v == [w EXCEPT !.m.pending_maximized = FALSE,
                     !.m.needs_configure = @ \/ w.m.is_maximized]
  IN IF w.s.sent # <<>> /\ last.size = size /\ ~last.maximized
          /\ last.fullscreen = w.m.pending_windowed
       THEN [v EXCEPT !.m.once = "WaitingForCommit", !.m.once_at = Len(w.s.sent)]
     ELSE [v EXCEPT !.m.once = "WaitingForConfigure", !.m.once_at = 0,
                    !.s.pending = [@ EXCEPT
                      !.size = size, !.maximized = FALSE,
                      !.fullscreen = w.s.pending.fullscreen /\ w.m.pending_windowed]]

\* Mutant: leaving windowed fullscreen forgets that the window is maximized.
RequestWindowedForgetful(w, value) ==
  IF w.m.pending_windowed = value THEN w
  ELSE [w EXCEPT !.m.pending_windowed = value,
                 !.m.needs_configure = TRUE,
                 !.s.pending = [@ EXCEPT !.fullscreen = value, !.maximized = FALSE]]

\* request_windowed_fullscreen
RequestWindowedFullscreen(w, value) ==
  IF w.m.pending_windowed = value THEN w
  ELSE [w EXCEPT !.m.pending_windowed = value,
                 !.m.needs_configure = TRUE,
                 !.s.pending = [@ EXCEPT
                   !.fullscreen = value,
                   !.maximized = ~value /\ (w.s.pending.maximized \/ w.m.pending_maximized)]]

\* expected_size
ExpectedSize(w) ==
  LET current == IF SizingMode(w) = "Normal" THEN w.m.geometry ELSE NoSize
      next == IF w.s.pending.size # Server(w.s).size THEN w.s.pending ELSE Server(w.s)
      known == w.s.pending.size # Server(w.s).size \/ w.s.sent # <<>>
  IN IF w.m.once = "UseWindowSize" \/ ~known THEN current
     ELSE IF \/ next.maximized
             \/ next.fullscreen /\ (~w.m.pending_windowed \/ w.m.pending_maximized) THEN NoSize
     ELSE IF next.size = 0 THEN current
     ELSE next.size

---------------------------------------------------------------------------
(* The layout, as far as this window is concerned. *)

ColumnMode(t) == SizingModeOf(t.fullscreen, t.maximized)

\* update_tile_sizes, for the mode the column is to have
UpdateTileSizes(w) == RequestSize(w, SizeOf(ColumnMode(w.t), w.t.size), ColumnMode(w.t))

\* cancel_resize_for_column
CancelResize(w) ==
  [w EXCEPT !.t.resizing = FALSE, !.s.pending.resizing = FALSE, !.m.resize = "None",
            !.m.resize_at = 0]

\* ScrollingSpace::set_fullscreen and set_maximized
SetColumn(w, sizing, on) ==
  IF w.t[sizing] = on THEN w ELSE UpdateTileSizes([CancelResize(w) EXCEPT !.t[sizing] = on])

\* Column::new_with_tile: asked for a normal size first, then for its mode.
IntoColumn(w) ==
  LET mode == PendingSizingMode(w)
      normal == UpdateTileSizes([w EXCEPT !.t.floating = FALSE, !.t.fullscreen = FALSE,
                                          !.t.maximized = FALSE])
  IN CASE mode = "Fullscreen" -> UpdateTileSizes([normal EXCEPT !.t.fullscreen = TRUE])
       [] mode = "Maximized" -> UpdateTileSizes([normal EXCEPT !.t.maximized = TRUE])
       [] OTHER -> normal

\* FloatingSpace::remove_tile
OutOfFloating(w) ==
  [w EXCEPT !.t.resizing = FALSE,
            !.t.floating_size = IF ExpectedSize(w) = NoSize THEN @ ELSE ExpectedSize(w)]

OrZero(size) == IF size = NoSize THEN 0 ELSE size

\* FloatingSpace::add_tile, after ScrollingSpace::remove_tile
IntoFloating(w) ==
  LET size == IF w.t.floating_size # NoSize \/ PendingSizingMode(w) # "Normal"
                THEN OrZero(w.t.floating_size) ELSE OrZero(ExpectedSize(w))
  IN RequestSizeOnce([w EXCEPT !.t.floating = TRUE, !.t.fullscreen = FALSE,
                               !.t.maximized = FALSE, !.t.resizing = FALSE], size)

\* Workspace::toggle_window_floating
ToggleWindowFloating(w) == IF w.t.floating THEN IntoColumn(OutOfFloating(w)) ELSE IntoFloating(w)

\* Layout::move_to_output: out of one workspace and into another, as if it opened there.
MoveToOutput(w) ==
  LET removed == IF w.t.floating THEN OutOfFloating(w) ELSE [w EXCEPT !.t.resizing = FALSE]
      added == [removed EXCEPT !.t.restore_to_floating = w.t.floating]
  IN IF w.t.floating /\ PendingSizingMode(w) = "Normal" THEN IntoFloating(added)
     ELSE IntoColumn(added)

\* Workspace::set_fullscreen and set_maximized
SetSizing(w, sizing, on) ==
  LET tiled == IF w.t.floating THEN ToggleWindowFloating(w) ELSE w
      new == SetColumn(tiled, sizing, on)
      ends == IF sizing = "fullscreen" THEN w.t.fullscreen /\ ~w.t.maximized
                                       ELSE PendingSizingMode(w) = "Maximized"
  IN IF w.t.floating /\ ~on THEN w
     ELSE IF ~w.t.floating /\ ~on /\ ends /\ w.t.restore_to_floating
       THEN ToggleWindowFloating(w)
     ELSE IF PendingSizingMode(tiled) = "Normal" /\ PendingSizingMode(new) # "Normal"
       THEN [new EXCEPT !.t.restore_to_floating = w.t.floating]
     ELSE new

\* Layout::set_fullscreen
SetFullscreen(w, on) ==
  IF ~on /\ w.m.pending_windowed THEN RequestWindowedFullscreen(w, FALSE)
  ELSE SetSizing(w, "fullscreen", on)

\* Layout::toggle_windowed_fullscreen
ToggleWindowedFullscreen(w) ==
  LET v == IF PendingSizingMode(w) = "Fullscreen" THEN SetSizing(w, "fullscreen", FALSE) ELSE w
  IN RequestWindowedFullscreen(v, ~v.m.pending_windowed)

---------------------------------------------------------------------------
(* Configures and commits. *)

\* set_interactive_resize, called by every refresh
SetInteractiveResize(w) ==
  [w EXCEPT !.s.pending.resizing = w.t.resizing,
            !.m.resize = CASE w.t.resizing -> "Ongoing"
                           [] ~w.t.resizing /\ @ = "Ongoing" -> "WaitingForLastConfigure"
                           [] OTHER -> @]

\* configure_intent: a change of the size alone waits until the last one is committed to.
ConfigureIntent(w) ==
  CASE w.m.needs_configure -> "ShouldSend"
    [] ~w.m.needs_configure /\ w.s.pending = Server(w.s) -> "NotNeeded"
    [] ~w.m.needs_configure /\ w.s.pending # Server(w.s)
         /\ [w.s.pending EXCEPT !.size = Server(w.s).size] = Server(w.s) ->
         IF w.s.committed.size = Server(w.s).size THEN "CanSend" ELSE "Throttled"
    [] OTHER -> "ShouldSend"

\* The last value filed under a serial among the configures c, or else the given one.
LastFiled(c, values, default) ==
  LET at == {i \in DOMAIN c : values[i] # {}}
  IN IF at = {} THEN default ELSE CHOOSE v \in values[Max(at)] : TRUE

FiledMaximized(c, default) == LastFiled(c, [i \in DOMAIN c |-> c[i].maximized], default)
FiledWindowed(c, default) == LastFiled(c, [i \in DOMAIN c |-> c[i].windowed], default)

Filed(new, last) == IF new = last THEN {} ELSE {new}

\* send_pending_configure.  Once the window has picked its own size, a size is not a
\* reason to send, and the size sent is the one it has.
SendPendingConfigure(w) ==
  LET own == w.m.once = "UseWindowSize"
      pending == [w.s.pending EXCEPT
                    !.size = IF own /\ ~w.m.needs_configure THEN Server(w.s).size ELSE @]
      state == [pending EXCEPT !.size = IF own THEN w.m.geometry ELSE @]
      serial == Len(w.s.sent) + 1
  IN IF w.m.needs_configure \/ pending # Server(w.s)
       THEN [s |-> SendConfigure([w.s EXCEPT !.pending = state],
                     Filed(w.m.pending_maximized, FiledMaximized(w.s.sent, w.m.is_maximized)),
                     Filed(w.m.pending_windowed, FiledWindowed(w.s.sent, w.m.is_windowed))),
             m |-> [w.m EXCEPT
                      !.needs_configure = FALSE,
                      !.resize = IF @ = "WaitingForLastConfigure" THEN "WaitingForLastCommit" ELSE @,
                      !.resize_at = IF w.m.resize = "WaitingForLastConfigure" THEN serial ELSE @,
                      !.once = IF @ = "WaitingForConfigure" THEN "WaitingForCommit" ELSE @,
                      !.once_at = IF w.m.once = "WaitingForConfigure" THEN serial ELSE @],
             t |-> w.t]
     ELSE [w EXCEPT !.s.pending = pending,
                    !.m.resize = IF @ = "WaitingForLastConfigure" THEN "None" ELSE @]

\* refresh of the space the window is in
RefreshWindow(w) ==
  LET v == SetInteractiveResize(w)
  IN IF scenario.throttled /\ ConfigureIntent(v) \in {"NotNeeded", "Throttled"} THEN v
     ELSE SendPendingConfigure(v)

\* Mutant: the request is over with any commit.
OnCommitEarly(m, sent, k) ==
  [m EXCEPT
     !.resize = IF @ = "WaitingForLastCommit" /\ m.resize_at <= k THEN "None" ELSE @,
     !.resize_at = IF @ <= k THEN 0 ELSE @ - k,
     !.once = IF @ = "WaitingForCommit" THEN "UseWindowSize" ELSE @,
     !.once_at = IF @ <= k THEN 0 ELSE @ - k,
     !.is_windowed = FiledWindowed(sent, @),
     !.is_maximized = FiledMaximized(sent, @)]

\* on_commit, for a commit to the first k configures of sent
OnCommit(m, sent, k) ==
  [m EXCEPT
     !.resize = IF @ = "WaitingForLastCommit" /\ m.resize_at <= k THEN "None" ELSE @,
     !.resize_at = IF @ <= k THEN 0 ELSE @ - k,
     !.once = IF @ = "WaitingForCommit" /\ m.once_at <= k THEN "UseWindowSize" ELSE @,
     !.once_at = IF @ <= k THEN 0 ELSE @ - k,
     !.is_windowed = FiledWindowed(SubSeq(sent, 1, k), @),
     !.is_maximized = FiledMaximized(SubSeq(sent, 1, k), @)]

---------------------------------------------------------------------------
(* The unmapped window. *)

NewUnmapped ==
  [wants_fullscreen |-> FALSE, wants_output |-> NoOutput, wants_maximized |-> FALSE,
   idle |-> FALSE, output |-> NoOutput, named |-> FALSE, is_pending_maximized |-> FALSE,
   stray |-> FALSE]

\* The outputs that are connected, the one with the named workspace and the one with the
\* parent window, if there are any.
Envs ==
  {e \in [connected : SUBSET Outputs, named : Outputs \cup {NoOutput},
          parent : Outputs \cup {NoOutput}] : {e.named, e.parent} \ {NoOutput} \subseteq e.connected}
Quiet == [connected |-> Outputs, named |-> NoOutput, parent |-> NoOutput]
NoEnv == [connected |-> {}, named |-> NoOutput, parent |-> NoOutput]

NothingAsked == [fullscreen |-> FALSE, maximized |-> FALSE, ignored |-> FALSE, on |-> NoOutput,
                 elsewhere |-> FALSE]

\* The monitors o can stand for: o itself, or else whatever comes next.
Prefer(o, otherwise) == IF o \in env.connected THEN {[on |-> o, parent |-> FALSE]} ELSE otherwise

\* The monitor of the parent, or else the active one, which may be any of them.
Fallback ==
  IF env.parent # NoOutput THEN {[on |-> env.parent, parent |-> TRUE]}
  ELSE IF env.connected = {} THEN {[on |-> NoOutput, parent |-> FALSE]}
  ELSE {[on |-> o, parent |-> FALSE] : o \in env.connected}

NamedOn(named) == IF named THEN env.named ELSE NoOutput

\* Whether there is a workspace to take the sizes from.  One that was named is not
\* replaced by another when it is gone.
HasWorkspace(mon, named) == mon.on # NoOutput /\ (named => env.named = mon.on)

\* The output to open on: none when the parent is followed.
TargetOutput(mon) == IF mon.parent THEN NoOutput ELSE mon.on

\* The sizes a new window is asked to have, which do not matter to how it opens.
DefaultSizes == IF scenario.opening THEN {0} ELSE Sizes \cup {0}

\* configure_new_window
ConfigureNewWindow(state, size) ==
  [state EXCEPT !.size = SizeOf(SizingModeOf(state.fullscreen, state.maximized), size)]

Ruled(rule, wanted) == IF rule = "Unset" THEN wanted ELSE rule = "Yes"

\* send_initial_configure, from the idle callback of queue_initial_configure
InitialConfigure ==
  /\ phase = "NotConfigured" /\ un.idle
  /\ \E rules \in Rules, size \in DefaultSizes :
     \E mon \in Prefer(NamedOn(rules.workspace),
                  Prefer(rules.output, Prefer(un.wants_output, Fallback))) :
       LET found == HasWorkspace(mon, rules.workspace)
           fullscreen == Ruled(rules.fullscreen, un.wants_fullscreen)
           maximized == Ruled(rules.maximized, un.wants_maximized)
           state == State(0, fullscreen, maximized /\ ~fullscreen)
       IN /\ \E named \in IF ~found THEN {FALSE}
                          ELSE IF rules.workspace THEN {TRUE}
                          ELSE {FALSE, env.named = mon.on} :
               un' = [NewUnmapped EXCEPT !.output = TargetOutput(mon), !.named = named,
                                         !.is_pending_maximized = found /\ maximized]
          /\ surface' = SendConfigure(
               [surface EXCEPT !.pending = IF found THEN ConfigureNewWindow(state, size) ELSE @],
               {}, {})
          /\ asked' = [fullscreen |-> fullscreen, maximized |-> maximized, ignored |-> ~found,
                       on |-> IF found THEN mon.on ELSE NoOutput, elsewhere |-> FALSE]
  /\ phase' = "Configured"
  /\ UNCHANGED <<scenario, env, win, tile, fresh>>

\* The four requests, before the initial configure: they are remembered for it.
RequestEarly(sizing, on, o) ==
  /\ phase = "NotConfigured" /\ scenario.opening
  /\ un' = IF sizing = "fullscreen"
             THEN [un EXCEPT !.wants_fullscreen = on, !.wants_output = IF on THEN o ELSE NoOutput]
             ELSE [un EXCEPT !.wants_maximized = on]
  /\ UNCHANGED <<scenario, phase, env, surface, win, tile, fresh, asked>>

\* Mutant: leaving fullscreen forgets that the window was to be maximized.
RequestedForgetful(state, sizing, on, pending_maximized) ==
  IF sizing = "fullscreen"
    THEN [state EXCEPT !.fullscreen = on, !.maximized = FALSE]
    ELSE [state EXCEPT !.maximized = on /\ ~state.fullscreen]

\* What a request makes of the pending state: a fullscreen window is never told that it
\* is maximized, but is once it leaves fullscreen.
Requested(state, sizing, on, pending_maximized) ==
  IF sizing = "fullscreen"
    THEN [state EXCEPT !.fullscreen = on, !.maximized = ~on /\ (@ \/ pending_maximized)]
    ELSE [state EXCEPT !.maximized = on /\ ~state.fullscreen]

\* maximize_request, unmaximize_request, fullscreen_request and unfullscreen_request once
\* the initial configure was sent.
RequestLate(sizing, on, o) ==
  /\ phase = "Configured" /\ scenario.opening
  /\ Len(surface.sent) < MaxSent
  /\ \E mon \in IF on THEN Prefer(IF o # NoOutput THEN o ELSE un.output, Fallback)
                ELSE Prefer(NamedOn(un.named), Prefer(un.output, Fallback)),
        size \in DefaultSizes :
       LET found == HasWorkspace(mon, ~on /\ un.named)
       IN /\ un' = [un EXCEPT !.output = TargetOutput(mon),
                              !.is_pending_maximized =
                                IF found /\ sizing = "maximized" THEN on ELSE @]
          /\ surface' = SendConfigure(
               [surface EXCEPT !.pending =
                  IF found THEN ConfigureNewWindow(
                                  Requested(@, sizing, on, un.is_pending_maximized), size)
                  ELSE @], {}, {})
          /\ asked' = [asked EXCEPT ![sizing] = on,
                                    !.ignored = @ \/ ~found,
                                    !.on = IF found THEN mon.on ELSE @,
                                    !.elsewhere = IF found
                                      THEN un.named /\ env.named \notin {NoOutput, mon.on}
                                      ELSE @]
  /\ UNCHANGED <<scenario, phase, env, win, tile, fresh>>

---------------------------------------------------------------------------
(* The client. *)

\* new_toplevel
NewToplevel ==
  /\ phase = "Gone"
  /\ phase' = "NotConfigured"
  /\ env' \in IF scenario.opening THEN Envs ELSE {Quiet}
  /\ un' = NewUnmapped
  /\ UNCHANGED <<scenario, surface, win, tile, fresh, asked>>

\* Outputs, the named workspace and the parent window come and go.
EnvironmentChanges ==
  /\ phase \in {"NotConfigured", "Configured"} /\ scenario.opening
  /\ env' \in Envs
  /\ asked' = [asked EXCEPT !.on = NoOutput]
  /\ UNCHANGED <<scenario, phase, un, surface, win, tile, fresh>>

\* A commit without a buffer: the toplevel remains unmapped.
CommitUnmapped ==
  /\ \/ /\ phase = "NotConfigured"
        /\ un' = [un EXCEPT !.idle = TRUE]
        /\ UNCHANGED surface
     \/ /\ phase = "Configured"
        /\ \E k \in 1 .. Len(surface.sent) : surface' = CommitTo(surface, k)
        /\ UNCHANGED un
  /\ UNCHANGED <<scenario, phase, env, win, tile, fresh, asked>>

\* Where the window is put: next to its parent, unless it was configured for another
\* output, or else on the named workspace, or on its output.
MapTargets ==
  LET output == IF un.output \in env.connected THEN un.output ELSE NoOutput
  IN IF env.parent # NoOutput /\ output \in {NoOutput, env.parent} THEN {env.parent}
     ELSE IF un.named /\ env.named # NoOutput THEN {env.named}
     ELSE IF output # NoOutput THEN {output}
     ELSE env.connected

\* Mapped::new, Workspace::add_tile and what follows it in the commit handler
Opened(s, size, is_floating, is_pending_maximized) ==
  LET m == [Unopened EXCEPT !.geometry = size,
                            !.is_maximized = SizingModeOf(s.committed.fullscreen,
                                                          s.committed.maximized) = "Maximized",
                            !.pending_maximized = SizingModeOf(s.pending.fullscreen,
                                                               s.pending.maximized) = "Maximized"]
      new == [s |-> s, m |-> m,
              t |-> [NoTile EXCEPT !.size = size, !.restore_to_floating = is_floating]]
      added == IF is_floating /\ PendingSizingMode(new) = "Normal" THEN IntoFloating(new)
               ELSE IntoColumn(new)
  IN IF PendingSizingMode(added) = "Fullscreen" /\ is_pending_maximized
       THEN SetSizing(added, "maximized", TRUE) ELSE added

Becomes(w) == surface' = w.s /\ win' = w.m /\ tile' = w.t

\* The commit of a buffer: the toplevel got mapped.  One that was unmapped may still
\* acknowledge an old configure and map without an initial one.
Map ==
  /\ \E size \in Sizes, floating \in {FALSE, scenario.floating} :
       \/ /\ phase = "Configured"
          /\ \E k \in 1 .. Len(surface.sent) :
               Becomes(Opened(CommitTo(surface, k), size, floating, un.is_pending_maximized))
       \/ /\ phase = "NotConfigured" /\ un.stray
          /\ Becomes(Opened(surface, size, floating, FALSE))
  /\ phase' = "Mapped" /\ fresh' = FALSE
  /\ un' = NewUnmapped /\ env' = NoEnv /\ asked' = NothingAsked
  /\ UNCHANGED scenario

\* The commit of a mapped toplevel that acknowledged the first k configures, with a size
\* of the client's choosing unless it fills the screen.
Commit ==
  /\ phase = "Mapped"
  /\ \E k \in 0 .. Len(surface.sent) :
     \E size \in IF CommitTo(surface, k).committed.fullscreen \/ CommitTo(surface, k).committed.maximized
                   THEN {CommitTo(surface, k).committed.size} ELSE Sizes :
       Becomes([s |-> CommitTo(surface, k), t |-> tile,
                m |-> [OnCommit(win, surface.sent, k) EXCEPT !.geometry = size]])
  /\ fresh' = FALSE
  /\ UNCHANGED <<scenario, phase, un, env, asked>>

Blank ==
  /\ surface' = Bare /\ win' = Unopened /\ tile' = NoTile /\ asked' = NothingAsked
  /\ fresh' = TRUE

\* The commit of no buffer: the toplevel got unmapped and starts afresh.
Unmap ==
  /\ phase = "Mapped" /\ scenario.opening
  /\ phase' = "NotConfigured"
  /\ env' \in Envs
  /\ un' = [NewUnmapped EXCEPT !.stray = surface.sent # <<>>]
  /\ Blank
  /\ UNCHANGED scenario

\* toplevel_destroyed
Destroy ==
  /\ phase \notin {"Gone"}
  /\ phase' = "Gone" /\ env' = NoEnv /\ un' = NewUnmapped
  /\ Blank
  /\ UNCHANGED scenario

---------------------------------------------------------------------------
(* The mapped window in the layout. *)

Window == [s |-> surface, m |-> win, t |-> tile]

\* Something is done to the window, which the next refresh tells it about.
Act(w) ==
  /\ phase = "Mapped" /\ ~scenario.opening /\ (fresh \/ scenario.batched)
  /\ Becomes(w)
  /\ fresh' = FALSE
  /\ UNCHANGED <<scenario, phase, un, env, asked>>

\* A configure is owed to the client whatever comes of its request.
Owed == [Window EXCEPT !.m.needs_configure = TRUE]

\* maximize_request, unmaximize_request, fullscreen_request and unfullscreen_request of a
\* mapped window
RequestMapped(sizing, on, elsewhere) ==
  Act(IF sizing = "fullscreen"
        THEN SetFullscreen(IF elsewhere THEN MoveToOutput(Owed) ELSE Owed, on)
        ELSE SetSizing(Owed, sizing, on))

\* The client asks to be fullscreen, maybe on a certain output, or maximized, or no longer.
ClientRequest ==
  \E sizing \in {"fullscreen", "maximized"}, on \in BOOLEAN :
    \/ \E o \in IF sizing = "fullscreen" /\ on THEN Outputs \cup {NoOutput} ELSE {NoOutput} :
         RequestEarly(sizing, on, o) \/ RequestLate(sizing, on, o)
    \/ \E elsewhere \in {FALSE, sizing = "fullscreen" /\ on} : RequestMapped(sizing, on, elsewhere)

ToggleFullscreen == Act(SetSizing(Window, "fullscreen", PendingSizingMode(Window) # "Fullscreen"))

ToggleMaximized == Act(SetSizing(Window, "maximized", tile.floating \/ ~tile.maximized))

ToggleWindowed == scenario.windowed /\ Act(ToggleWindowedFullscreen(Window))

ToggleFloating == scenario.floating /\ Act(ToggleWindowFloating(Window))

\* A user moves it to another output.
MoveWindow == Act(MoveToOutput(Window))

\* The place of a tiled window changes its size: a column is resized, or a window comes or
\* goes next to it.  A floating window is resized by set_window_width or set_window_height.
Resize ==
  \E size \in Sizes :
    \/ ~tile.floating /\ size # tile.size
         /\ Act(UpdateTileSizes([Window EXCEPT !.t.size = size]))
    \/ tile.floating /\ Act(RequestSizeOnce(Window, size))

\* interactive_resize_begin and interactive_resize_end
InteractiveResize ==
  /\ scenario.resizing
  /\ tile.resizing \/ tile.floating \/ ColumnMode(tile) = "Normal"
  /\ Act([Window EXCEPT !.t.resizing = ~@])

\* The refresh of the layout at the end of an iteration of the event loop.
Refresh ==
  /\ phase = "Mapped" /\ ~fresh
  /\ Len(RefreshWindow(Window).s.sent) <= MaxSent
  /\ Becomes(RefreshWindow(Window))
  /\ fresh' = TRUE
  /\ UNCHANGED <<scenario, phase, un, env, asked>>

---------------------------------------------------------------------------
Init ==
  /\ scenario \in Scenarios
  /\ phase = "Gone" /\ un = NewUnmapped /\ env = NoEnv
  /\ surface = Bare /\ win = Unopened /\ tile = NoTile
  /\ fresh = TRUE /\ asked = NothingAsked

Next ==
  \/ NewToplevel \/ EnvironmentChanges \/ CommitUnmapped \/ InitialConfigure
  \/ Map \/ Commit \/ Unmap \/ Destroy
  \/ ClientRequest
  \/ ToggleFullscreen \/ ToggleMaximized \/ ToggleWindowed \/ ToggleFloating
  \/ MoveWindow \/ Resize \/ InteractiveResize
  \/ Refresh

Spec == Init /\ [][Next]_vars

---------------------------------------------------------------------------
(* Properties. *)

\* What the window was told last and where it is agree at every moment, between refreshes
\* and before it committed to anything: verify_invariants asserts of a column that its
\* windows are to have its own sizing mode (scrolling.rs), and of a floating window that
\* "floating windows cannot be maximized or fullscreen" (floating.rs).
SpacesAgree ==
  phase = "Mapped" =>
    PendingSizingMode(Window) = IF tile.floating THEN "Normal" ELSE ColumnMode(tile)

\* A size that a window may have in several modes: without gaps and borders a column may be
\* as wide as a maximized window, and without struts that is as large as a fullscreen one.
ManyModes(size) == size \in Sizes \cap {MaxSize, FullSize} \/ (size = FullSize /\ FullSize = MaxSize)

\* Once the window has committed to all it was sent and nothing is outstanding, it knows
\* the state the layout wants of it, the fullscreen and maximized state kept by serial
\* caught up, and no size request or resize is left waiting for a commit that came.  The
\* exception is windowed fullscreen at a size that several modes have: request_size asks for
\* a configure when the mode differs from the one committed to, so one that is changed and
\* changed back before the commit may stay as the client was told in between.
Settled ==
  phase = "Mapped" /\ fresh /\ surface.sent = <<>> =>
    /\ surface.pending = surface.committed
    /\ win.once # "WaitingForCommit"
    /\ win.resize = IF tile.resizing THEN "Ongoing" ELSE "None"
    /\ ~((win.is_windowed \/ win.pending_windowed) /\ ManyModes(surface.pending.size)) =>
         /\ SizingMode(Window) = PendingSizingMode(Window)
         /\ win.is_windowed = win.pending_windowed
         /\ win.is_maximized = win.pending_maximized

\* A window opens as its client and the rules had it, through whichever requests before and
\* after the initial configure, and, when nothing was plugged, renamed or reparented since
\* the sizes were picked, on the output they were picked for.
OpensAsConfigured ==
  [][phase = "Configured" /\ phase' = "Mapped" =>
       /\ asked.ignored \/ (/\ tile'.fullscreen = asked.fullscreen
                            /\ tile'.maximized = asked.maximized)
       /\ asked.on = NoOutput \/ asked.elsewhere \/ MapTargets = {asked.on}]_vars

=============================================================================
