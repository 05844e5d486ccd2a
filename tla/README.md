# A TLA+ model of tiri

tiri is a scrollable-tiling Wayland compositor (a niri descendant) written in Rust. It is one event
loop: DRM events, timers, client requests, fences, channels and signals call handlers one at a time,
and every iteration ends with `State::refresh` and the redraw of the outputs that asked for it. A
handler is therefore atomic, and an action here is a whole handler. What is hard is the *order* of
handlers: a monitor is unplugged while a lock is being drawn, a timer fires after what it was set for
has gone, a client commits after its window was resized twice more, a key is released on another
virtual terminal. Three parts run beside the loop, and there the steps are finer: the thread that
watches the configuration, the tasks that write the event stream, and the D-Bus thread with PipeWire.

`PROJECT.json` holds the machine-readable side: components, runs, hazards, findings, theorems, the
source lines every definition stands for, and for every property a mutant of the code that violates it.
Definitions whose comment starts with *Mutant* are such broken variants of the definition that
follows them; nothing else uses them.

## Inventory

Paths are relative to `src/src/` unless they start with `niri-`.

| component | state | operations | what makes it correct | module |
|---|---|---|---|---|
| redraw loop (`niri.rs`, `backend/tty.rs`) | `RedrawState` per output, estimated-vblank timer and its token | `queue_redraw`, `redraw`, `on_vblank`, `on_estimated_vblank_timer`, hotplug, power, VT switch | every request is served; a timer runs exactly while its token is held; no output freezes | `OutputRedraw` |
| session lock (`niri.rs`, `handlers/mod.rs`) | `LockState`, `LockRenderState` and lock surface per output, deadline | `lock`, `new_lock_surface`, commits, `continue_to_locking`, `unlock` | after `locked` nothing of the session is visible; lockers are told the truth | `OutputRedraw` |
| VBlank throttle (`utils/vblank_throttle.rs`) | a timer per output | `throttle` | its timer never outlives its use | `OutputRedraw` |
| devices and outputs (`backend/tty.rs`, `niri.rs`) | DRM devices, surfaces, names, modes, positions, lid, gamma | udev events, session pause and resume, configuration, scans | the outputs follow what is connected, configured and closed | `Tty` |
| output management (`protocols/output_management.rs`) | heads and modes a client was told of, configurations and serials | `notify_changes`, `apply`, `test` | a client is told the truth; only a current configuration is applied | `OutputManagement` |
| layout (`layout/mod.rs`) | `MonitorSet`, last active workspaces, interactive move, overview | hotplug, window and workspace moves, names, configuration | no window or named workspace is lost; unplug and replug is undone | `Layout` |
| monitor (`layout/monitor.rs`) | list of workspaces, active index, switch | add, clean up, insert, append, move, gestures | empty ends, no strays, a switch has a cause | `Monitor` |
| workspace (`layout/workspace.rs`) | which space has the focus, windows that return to floating | add, remove, toggle floating, fullscreen, maximize | round trips come back, focus is not stolen | `Workspace` |
| scrolling, floating (`layout/scrolling.rs`, `floating.rs`) | columns, tiles, active indices, stacking | insert, remove, consume, expel, swap, resize | what `verify_invariants` asserts; nothing remembered goes stale | `Scrolling`, `Floating` |
| windows (`window/`, `handlers/xdg_shell.rs`, `compositor.rs`) | `InitialConfigureState`, `Mapped`, requests filed under serials | the four requests in every state, initial configure, mapping, commits, refresh | a window is told what its place implies and opens as asked | `Toplevel` |
| transactions (`utils/transaction.rs`) | clones held by windows, configures and fences; timers; blocked commits | `request_size`, `send_pending_configure`, commit, fence, deadline, `blocker_cleared` | all or nothing until the deadline; nobody waits forever | `Transactions` |
| input and overlays (`input/mod.rs`, `niri.rs`, `ui/`) | suppressed keys, repeat and cooldown timers, open overlays, focus timestamps | keys, button, touch, binds, VT switch, lock, hotplug | releases match presses; no overlay over a lock | `Seat` |
| recent windows (`ui/mru.rs`) | list, scope, filter, selection | open, advance, set scope, close, remove | the selected window is one that is shown | `Mru` |
| IPC event stream (`ipc/server.rs`, `niri-ipc/src/state.rs`) | announced state, bounded channel and task per client, replica | refresh, connect, receive, write, cut off | a replica is a state the compositor had | `EventStream`, `EventMirror` |
| config watcher (`utils/watcher.rs`, `niri-config`) | last seen properties of files, path in use | poll, load, switch file | the last edit is loaded in the end | `ConfigWatcher` |
| screencasts (`screencasting/`, `dbus/mutter_screen_cast.rs`) | sessions, streams, casts, buffers, frames, targets | start, negotiate, draw, pace, retarget, stop | frames in order and of their buffer's size; no stream is forgotten; targets are there | `Screencast` |
| screencopy (`protocols/screencopy.rs`) | managers, queues, frames | capture, copy, damage, destroy | every copy is answered once, a queue lives as long as it is needed | `Screencopy` |
| layer shell, other shell protocols, virtual cursors, other backends, D-Bus services, spawning, animation, rendering, start-up | - | - | see *Not modelled* | - |

How they meet. `Niri` owns everything. `State::refresh` drains the blocker channel, refreshes the layout
(which sends configures), the overlays, the protocols that mirror the layout and the IPC state; then
`redraw_queued_outputs` renders and feeds the casts and copies. The layout creates the transactions,
windows carry them, the pre-commit hook turns them into blockers. `Tty` calls
`Niri::add_output`/`remove_output`, which change lock, layout, overlays, casts, copies and redraw state in one
handler; this is why hotplug appears in nearly every module. A module therefore takes the others as its
environment: `Layout`, `Seat`, `Screencast` and `OutputRedraw` let outputs come and go freely, and what `Tty`
makes of cables and lids is a module of its own.

## Modules

`Monitor`, `Scrolling`, `Floating`, `Mru` and `Retaining` are libraries of operators from a record to the record that
a method leaves behind. `Layout` EXTENDS `Monitor`; `Workspace` EXTENDS `Scrolling` and `Floating`; `Seat` EXTENDS `Mru`;
`Screencast` EXTENDS `Screencopy` and interleaves the steps of both; `OutputManagement` EXTENDS `Tty` and adds
the client to it; `EventStream` instantiates `EventMirror` with a refinement mapping. The header of
every module says what it covers and what of a library (wayland, KMS, udev, PipeWire) is modelled from its use.

* **OutputRedraw**: `Redraw` is `Niri::redraw` with `Tty::render` and all its outcomes (submitted, no damage,
  skipped); `FlipDone`, `SpuriousVBlank`, `ThrottleTimer`, `OrphanThrottleTimer` all go through `Tty::on_vblank`.
  Frames are what the lock tells apart: of the session, of the lock screen, or blank.
* **Layout**, **Monitor**: a workspace keeps its name, its own output, its windows and (`last`) the outputs that
  remember it as last active, which stands for workspace ids. Windows, workspaces and outputs that
  an action takes stand for whatever reference (focus, index, name, id) the code resolves them from.
* **Workspace**, **Scrolling**, **Floating**: a workspace down to the tiles of its columns. Of the geometry only what steers control
  is kept: which windows are expanded, which tiles have a height of their own, whether offsets to restore are set.
* **Toplevel**: one window from creation to destruction. `pending`, `sent` and `committed` are the toplevel
  surface; `win` is `Mapped`; `tile` its place in the layout; `un` and `env` matter until it maps. A serial is a position in `sent`.
* **Transactions**: clones are not counted. `Held` says which places (a window's next configure, its unanswered
  configures, a fence) still have one, and `DropClones` completes whatever a step let go of.
* **Seat**, **Mru**: keys from the press to the release with a ghost state per key (intercepted, forwarded,
  forgotten), binds with repeat and cooldown timers, dialogs, the switcher and the timestamps that order it. An action that
  opens the screenshot UI cancels the switcher in the same step, as `do_action` does; a repeating bind may open the switcher again above it.
* **EventStream** implements **EventMirror**: all clients see prefixes of the same sequence of states.
* **ConfigWatcher**: the thread step by step; files change between any two, also between the choice of the main file and its reading. Only
  the properties of the main file are had in one step.
* **Screencast**, **Screencopy**: the D-Bus thread, whose `Session::stop` is three steps that other calls come between, two channels, PipeWire's callbacks, drawing, fences, the idle callback
  that clears targets; and the objects of a screencopy client, which die in any order.
* **Tty**, **OutputManagement**: every handler is a function of the record `tty`; what udev knows (`listed`), what is there
  (`present`, `plugged`) and which handles are good (`opened`) are kept apart.

`MC*` modules hold the instances for TLC; `LayoutInvariants` the inductive invariants of `Layout` and what they are made of. `OutputRedrawProofs`, `LayoutProofs`, `TransactionsProofs`, `ConfigWatcherProofs`,
`RetainingProofs`, `SeatProofs`, `ScreencastProofs` and `ToplevelProofs` hold the theorems.

## Runs

| run | instance | distinct states | shows |
|---|---|---|---|
| `redraw_hotplug` | 2 outputs, 2 lockers, hotplug | 111,524 | timers match tokens and outputs do not freeze; a confirmed lock hides the session and ends only by its client |
| `redraw_live` | 1 output, 1 locker; hotplug, throttling and rogue vblanks together; fairness | 28,224 | requested redraws are made, lock requests settle, no handler drops a request |
| `redraw_throttle_hotplug` | 1 output, throttling, hotplug | violation | the finding below |
| `layout` | 2 outputs, 2 windows, 1 name, up to 5 workspaces | 117,023 | empty ends, nothing lost, doubled or stranded, unplug and replug is undone, names are kept |
| `transactions` | 2 windows of 2 clients, 2 transactions, 2 waiting commits; fairness | 63,945 | blocked commits wake, resizes are not torn, waits end |
| `workspace` | 3 windows | 140,343 | invariants of both spaces, round trips, focus |
| `event_stream` | 2 clients, 6 events per channel; fairness | 118,779 | implements `EventMirror`, only slow clients are cut, streams come to rest |
| `config_watcher` | 4 changes, 1 request; fairness | 657,432 | the configuration settles on what the files say |
| `seat` | 3 windows, 2 outputs, 1 modifier, 2 keys, a button | 1,602,812 | keys balanced, overlays allowed, switcher consistent, focused window first |
| `toplevel` | 2 outputs, 2 sizes, one of them that of a maximized window, 2 unanswered configures | 314,495 | told what the place implies, settled once all is answered, opens as configured |
| `screencast` | 1 session of 2 streams, 1 window, 2 outputs, 2 sizes, 2 frames, buffers, casts; 1 manager, 2 frames | 410,719 | frames in order, streams and copies accounted for, targets there, casts announced |
| `outputs` | 3 devices, 4 connectors, 5 monitors, 2 udev events, 2 configurations | 480,710 | outputs follow, gamma as set, a client obeyed and told the truth, but for what is missed with a number of modes |

### Bounds

Modules that cannot afford everything at once have a variable (`scenario`, `script`) that never changes and says which
groups of operations happen in one behaviour; the `MC` module lists the groups. Operations are grouped by the state they
share: names with hotplug, gestures with the operations that move workspaces under them, the fence and restart of a
cast with those that clear it. Every action fires in some scenario, and the proofs do not use the groups
unless the theorem says so.

Two outputs are what it takes for one to be done while the other is not, and for a monitor that is not the primary one.
`MaxTimers` = 2 lets one timer too many appear. Four workspaces are two empty ends and two between them; runs on one
output go to five. Two transactions let a resize overtake another, two waiting commits put one behind a blocked one. Three
windows are a column, its neighbour and the one between, or a dialog of a dialog. Two unanswered configures let a commit
answer one, both or none; a third adds only another in the middle. A channel of 6 events is the least the initial burst fits in; bursts
of every length are reached from it. Four changes of files let a theme change between the read of the file
that includes it, its own read and both stats. Two streams share a session, two frames overtake each other, two copies queue.
Two udev events are one that is late behind another. In `event_stream`, all pairs of states are compared without clients, and a few
states that differ in every part are enough with them.

`CHECK_DEADLOCK FALSE` is set where the system may stop: the bounded supply of transactions, state changes, casts or udev events
may run out with nothing left to do (`transactions`, `event_stream`, `screencast`, `outputs`), or a script
leaves nothing to do in a state that is at rest (`seat`, `workspace`).

Symmetry is used in runs without liveness only. Elements that are permuted are interchangeable in all definitions:
where `CHOOSE` picks one, exactly one satisfies its predicate.

### Fairness

Only what the event loop and its sources guarantee is fair; nothing is assumed of clients, users or the session.

* `redraw_live`: weak fairness of `Redraw` (each iteration redraws what is queued), of the vblank of a submitted frame and of the
  throttle, estimated-vblank and lock-deadline timers (calloop fires what is due). `RedrawServed` excepts `Locking`,
  where a failed render drops the lock and queues everything again.
* `transactions`: weak fairness of `NotifyBlockerCleared` (start of every refresh), the deadline timers and the fences (the GPU finishes).
* `event_stream`: weak fairness of the task of each client: to receive, to write, to end. A client that never reads blocks `Write`.
* `config_watcher`: weak fairness of the thread, which polls forever, and of the event loop taking its result.

## Findings

`redraw_throttle_hotplug`: `VBlankThrottle` does not remove its timer when it is dropped. After an unplug and a replug the timer calls `on_vblank`
for the new output, which overwrites `WaitingForEstimatedVBlank(token)`; the orphaned timer then reaches
`unreachable!()` in `on_estimated_vblank_timer`. Properties that this breaks are checked, and proved, without
throttling and hotplug together.

The properties state what does hold. Where comments, docs or assertions say more, the model takes the code's side:

* `LockRenderState::Locked` ("The output displays a locked frame.", `niri.rs:567`) is set when the frame is *queued*. What holds, and
  is proved, is that a locked frame is on its way and no session frame can follow it.
* `request_size_once` (`mapped.rs:852`) waits for the last configure when that asks for the very size and state, and leaves the pending state alone.
  A floating window that is asked to be fullscreen and, before the next refresh, to float again with the size it was
  sent last stays pending fullscreen, which `verify_invariants` rules out ("floating windows cannot be
  maximized or fullscreen", `floating.rs`). `SpacesAgree` is checked without windows that float while requests
  come in batches, and the theorem says so.
* The configure that a change of windowed fullscreen or maximized needs, as neither is in the state that is sent, is forced by comparing with what was
  committed (`mapped.rs:786-796`), not with what was sent. A window that is windowed fullscreen, is maximized and, before it commits, is not any more, is sent no second configure if the
  two sizes are the same, as those of a maximized window and of a full-width column without gaps and borders: the late commit then leaves
  `is_maximized` set. `Settled` leaves out what the modes are for such windows at sizes that two modes share, and only there; the run has a
  column as wide as a maximized window. Moving a window that is both fullscreen and maximized to another output forgets the
  latter. After the initial configure, requests of a window whose named workspace is gone are ignored.
* `set_workspace_name` keeps the empty ends of the active monitor only (`layout/mod.rs:4744`), so naming on another
  monitor is excluded; `move_workspace_to_idx` compares an index that was shifted (`monitor.rs:1329`), which `FocusSurvives` excepts.
* The watcher misses an include that changes between its read and its stat, as its comment says (`watcher.rs:100`);
  `DifferenceIsVisible` and `Settles` name that gap as the only exception.
* A focus timestamp that is pending stays pending when the focus goes to no window or to a new one, where the comment at
  `niri.rs:1305` wants the lock-in period to pass without the focus going elsewhere.
* A session that is started again after `stop` has told the compositor and before it has taken the streams (`mutter_screen_cast.rs:171-177`; `start` does
  not look at `stopped`) leaves a cast that nothing ends: `ScreenCast` keeps the session, so the message of its `Drop` never comes.
  `StreamsAccountedFor` excepts a session with such a late start.
* Screencasts: the token of a scheduled redraw is not cleared when its timer fires; `start` of a session that was started starts its casts again, with
  the same `stream_id`; `set_dynamic_cast_target` collects casts to stop and does not stop them (`docs/wiki/Screencasting.md:77`); the
  idle callback that clears targets may overwrite a target set in the same iteration; a stream error while paused does not stop the cast.
* Screencopy: a queue is served head first, so a copy that waits for damage on one output delays those of others; the output shown for a manager's
  cast is not updated when its output or frame goes.
* Outputs: a mode that changes through `device_changed` or a resume does not move the outputs beside it
  (`docs/wiki/Configuration:-Outputs.md:178`); `device_removed` does not call `on_output_config_changed` (`tty.rs:1115`), so with the lid closed the
  panel stays off; a device that is replugged on another terminal keeps its dead handle; a monitor swapped between two scans keeps
  the old name. `OutputsFollow` excepts the panel that is so *owed*, and does not speak of that hazard; what lies beside what is no part of it.
* Output management: `enabled` and the current mode are not sent when the number of modes changes in the same refresh (`output_management.rs:161-204`,
  against the comment at 234), as it does with a custom mode or an EDID that is read late. The client then believes the output to be off, or in
  another mode, until the mode changes with the number unchanged or the output goes off. `ManagementHolds` follows for each head whether it
  `missed` this, and requires all else: modes, VRR and position always, `enabled` and the mode of every other head. A
  configuration may be told `cancelled` after `succeeded`.

## Proofs

All theorems hold for any sets of outputs, windows, keys, clients, streams and so on, and any bounds. The
assumptions are the ones named in the modules: special values are not members of the sets they are special for, functions are total,
bounds are natural numbers, modifiers are not plain keys, configurable binds are what the configuration can express. TLC evaluates each
of them in a run. A theorem that needs more says so in its statement.

**OutputRedrawProofs.**
* `TypeCorrect`: `TypeOK` alone is not inductive, since a timer count must not go below zero. `TokenHeld` adds that a state
  which holds a token has a timer.
* `LockHidesSession` holds even with rogue vblanks, throttling and hotplug at once. `LockInv` has four parts: while locked, every
  connected output is marked `LockRenderState::Locked`; a marked output is hidden (no session frame in flight, and one on the screen only under
  a submitted locked frame) until a session frame is submitted, which takes the mark away; with monitors off or on another VT nothing of the
  session is on a screen, which is why `redraw()` may mark those without rendering; an unplugged connector shows nothing, which is why
  `add_output` may mark a new one.
* `LockersToldTheTruth` (inductive as it stands), `LockEndsByUnlock` and `NoRequestLost` (action properties, one case per action).
* `OutputsNeverFreeze`, `TimersMatchTokens`: `DueInv` relates redraw state, hardware and both timers. They assume no rogue vblanks and not
  both hotplug and throttling; the finding shows that the latter is needed.

**LayoutProofs**, with the invariants in `LayoutInvariants`. Every operator of `Monitor` has a lemma that the monitor it leaves is `Tidy`: its ends are empty and its own (`Ends`), nothing stray is between
them unless a switch is on, an animation aims at the active workspace (`Aimed`). `Tidy` says more than `WorkspacesTidy` where the operators rely on it: the empty
ends belong to the monitor's output, so that `add_output` never takes one away. Operators pass through monitors that are not tidy (a window has left, an end is filled, the workspaces are permuted),
for which `EndsBut`, `NoStrayBut` and `Rearranged` say what is still true and `CleanUpFacts` what the clean-up repairs. What is left by
`retain`, and the index of the active workspace in it, come from the rank conjunct of `InOrderFacts`. `LayoutInv` is that all monitors are in
good order (tidy, configured, with different outputs), and workspaces wait in NoOutputs only without monitors and only if
somebody would miss them; each action has a lemma. Naming an end workspace of a monitor in the background breaks it (`set_workspace_name`, under Findings), so
the five theorems about `Layout` are about scenarios without the feature `names_elsewhere`.

`Placed`, on top of `LayoutInv`, says where everything is. The windows and the name on a workspace are its *things* (`Things`). `PlacedIn` says that no two
workspaces of the monitor set have a thing in common and that each workspace is `AtHome`: the output it belongs to is that of its
monitor, or is away while its monitor is the primary. `Accounted` says that the mapped windows are those on
workspaces and the one of the interactive move, which is on a workspace until the move starts; `Caused`, that a drag-and-drop
scroll has a drag or a move. `WellPlaced` alone is not inductive: where windows and workspaces
go rests on the indices and empty ends in `LayoutInv`, nothing may be left in `set.workspaces` once there are
monitors, and a window that closes or is dropped is accounted for only if the move has one window, on a workspace exactly until it starts. The argument has three layers. `Same` and `Trade` relate
lists of workspaces before and after: the same things, or `A` gone and `B` come. Every operator of `Monitor` gets one of them (`Preserves`,
`Trades`), clean-ups because what they remove holds nothing. `Carries` says the same of the whole monitor set, for `Plug`, `Unplug`, moves between monitors
and drops on outputs that are gone; each action then has a lemma `...Placed`, which also says whether it may take a name away (`NamesStay`), and so the
action property comes from the same proof. Results: `WindowsStayPlaced`, `WhatIsUnderWayStaysLive`, `NamedWorkspacesAreKept`.

**TransactionsProofs.** `TxnInv` adds to the properties that nothing refers to a transaction not created yet (`InPlay`), that a
complete transaction which is still held met its deadline (`EarlyExpired`), and that of an unblocked commit's transaction only the
fence of that commit is left (`LastHolder`). Steps are of two kinds: `QuietStep` (resizes, configures, removals) applies nothing and only
lets clones go, and what completes has its notifications in the channel; `BusyStep` (commits, fences) also applies what one client
can, and `NothingReadyLeft` shows that no applicable commit stays behind. Results: `TypesKept`, `BlockedCommitsWoken`, `ResizesNotTorn`.

**ConfigWatcherProofs.** `WatchInv`: the path the user wants is in use or in the channel (`PathComes`, `RequestsWanted`); outside of a
load, and where there is no gap, what is remembered of each file is what was loaded (`Remembered`); a load reads the files its main
file includes (`Complete`); and what was loaded last is in the channel, or in use if it parses (`Delivered`). `NoDifferenceUnseen`
follows: at rest, the configuration is that of the files, or the next poll sees a difference.

**RetainingProofs** states what is left of a sequence by `Vec::retain`, its order and its elements, by the bijection the definition counts with rather than
by induction, and what inserting, removing and appending do and which index a search for the first or last one finds; the proofs about `Layout`,
`Seat`, `Screencopy` and `Toplevel` cite it.

**SeatProofs.** `SeatInv` relates the suppressed keys to the ghost state of each key (`KeysBalanced`, inductive with `RepeatHeld`, which
holds the modifiers of a repeating bind to be pressed); the switcher to its modifiers, output and list (`Switcher`); the overlays to the lock (`LockCloses`) and to
each other (`NotBoth`: a bind found while the screenshot UI is open opens no switcher, and one that opens the screenshot UI cancels it; only a
bind that was started before and repeats is not asked again); and the
timestamps to the focus (`Stamped`, `FocusIsLast`: the focused window is the last stamped, or its stamp is pending). Results:
`KeysStayBalanced`, `OverlaysStayAllowed`, `MruStaysConsistent`, `FocusedComesFirstHolds`.

**ScreencastProofs.** `CopyInv` says frame by frame which managers and answers are possible, and of every
manager that its queue holds exactly the frames that wait for it. `CastInv` is about *worlds*, the record of everything a handler changes:
casts are well formed with their frames numbered in the order of drawing (`FramesStayInOrder`); every started stream has a cast, a start or a stop on its way, with stops
behind starts in the channel unless the start was late (`StreamsStayAccountedFor`); `Ended` says of a stream of a stopped session that it is so; targets exist or are about to be cleared (`TargetsKeepHolding`). A handler that stops several casts
passes through worlds that are in order but for some sessions, `Good(S)`, and `StopCasts` restores the order. `CopiesStayAccountedFor` carries
`CopyInv` through the composition. `CastsStayAnnounced` is about the event stream: a refresh keeps an entry whose target, activity and node
did not change, and does not compare whether the target is dynamic. `AnnounceInv` says why that is enough: all that speaks of a stream, a message,
a cast, the pending list, its session and its entry (`Told`), agrees on it. Only recording adds something to say, of a stream that nobody speaks of
(`StepKinds`, `RecordAnnounces`); all other steps say less (`SaysLess`). It assumes that no stream has the id of a manager, as both come from the one counter
of `CastStreamId`, and is stated for states in which no stream has two casts (`OneCastEach`).

**ToplevelProofs.** Every operator of the layout has a lemma about the window it leaves behind: `RequestSizeFacts` and `RequestSizeOnceFacts` for what a window is told,
`IntoColumnFacts`, `IntoFloatingFacts`, `SetSizingFacts` for where it goes. `ToplevelInv` needs three strengthenings. `Told` ties what is
pending on the surface to what windowed fullscreen keeps apart from it. After a refresh, throttled or not, all but a size was sent (`Sent`), which is
what `request_size_once` relies on when it leaves the pending state alone. A window that never floats is not to be restored to floating
(`Tiled`). `SpacesStayInAgreement` assumes that the window does not both float and get several requests between refreshes. For
`WindowsOpenAsConfigured`, `AsAsked` adds what is told after the window leaves fullscreen (`is_pending_maximized`) to what it was told, and `WherePicked` follows the output
through requests that find no workspace.

`AnswerInv`, on top of `ToplevelInv`, is about serials. `Answering`: a size asked for once and a resize that wait for a commit wait for a configure
that is still to be committed to, and the client was told of a resize that is under way. `Refreshed`: after a refresh no configure is owed, and without
one in flight what is pending was committed to. `Filings`: the maximized state filed under the configures, read in order from the one the window
knows, ends with the one it was told last. Each operator of the layout `Asks` (it sends nothing, and lets nothing wait for what is not in flight), a refresh answers
(`SendAnswers`, `HeldBack`), and a commit to the first `k` configures splits the filings in two (`FiledInTwo`). `NothingIsLeftWaiting` holds
in every scenario. `WindowsSettle` needs `Filings`, which windowed fullscreen breaks between a request and its commit; it is stated for the scenarios without it.

Only model-checked, and why:

* liveness (`RedrawServed`, `LockSettles`, `WaitsEnd`, `StreamsSettle`, `Settles`): fairness and ENABLED are out of the prover's reach;
* `FocusSurvives` of `Layout`: it compares lists filtered by `SelectSeq`, which takes induction;
* `Workspace`, `Tty`, `OutputManagement` and the refinement `MirrorSpec`: they compute with folds and recursion over lists, and what those
  compute for every list takes induction over data;
* `Settled` of `Toplevel` with windowed fullscreen, with the exception above;
* `CastsAnnounced` of a stream with two casts, which it gets when its session is started again: only the first of them is announced, so it
  holds only if they look alike. No scenario of the run announces casts and restarts sessions.

## Left out of what is modelled

* OutputRedraw: frame clocks, presentation feedback, VRR, the LockedHint call, failures of `compositor.clear()`.
* Layout: focus within a workspace, geometry; a gesture may end on any workspace.
* Workspace: widths, heights and view positions; window rules; animations.
* Toplevel: activation, bounds and tiled states, which are only sent along; interactive moves; popups.
* Transactions: `disable-transactions`; configures without a transaction (they change nothing here); an unmapping commit that itself waits in the
  queue; windows that map again; a timer removed by a ping that is not handled yet, which finds its transaction gone.
* Seat: button releases that are lost at a VT change (those of keys are); the switcher's copies of binds for columns and `close-window`, which do what its
  own keys do (of the configured binds it keeps `screenshot`); mouse and wheel binds, binds hard-coded in the overview, popup grabs, accessibility key grabs, tablets and gestures.
* EventStream: requests and replies, which are formatting; the focus timestamp shares the event of urgency.
* Screencast and Screencopy: cursor modes, pixel formats, modifiers, regions, damage.
* Tty and OutputManagement: scale, transform, HDR, DRM leases beyond the offer, legacy gamma, debug flags.

## Not modelled

Layer shell (the wayland library keeps its mapping state), winit and headless (no vblank, no hotplug), animation curves and frame clocks
(floating-point arithmetic), rendering, D-Bus services that only forward messages, process spawning and Xwayland (system
calls), start-up, KDL parsing and the merging of pure data. Virtual cursors, ext-workspace and foreign-toplevel keep state of their own and are
the next candidates.

## Plan

1. Virtual cursors with the IPC requests that drive them; ext-workspace and foreign-toplevel as further mirrors of the layout.
2. Proofs about the columns of `Scrolling`, after rewriting their folds as functions with a stated specification.
3. The steps of the refinement of `EventMirror` that do not depend on folds.
4. Mouse and wheel binds and popup grabs in `Seat`.
