---------------------------- MODULE EventStream ----------------------------
(***************************************************************************)
(* The event stream of the IPC server (src/ipc/server.rs) and the copy of  *)
(* the state a client keeps from it (niri-ipc/src/state.rs).               *)
(*                                                                         *)
(* Once per event-loop iteration State::refresh compares the compositor's  *)
(* state with the one announced last and sends the difference as events.   *)
(* A client gets the announced state when it connects, and every event     *)
(* after that, through a bounded channel; a task per client takes events   *)
(* from the channel and writes them to its socket.                         *)
(*                                                                         *)
(* Of a workspace, `output` stands for its index, name and output, all of  *)
(* which are announced by the whole list; of a window, `about` stands for  *)
(* its title, app id, workspace and whether it floats, and `urgent` for    *)
(* its urgency and its focus timestamp, which have an event of their own.  *)
(***************************************************************************)
EXTENDS Integers, SequencesExt

CONSTANTS
  Clients,
  BufferSize,  \* EVENT_STREAM_BUFFER_SIZE
  NoWindow, NoEvent, Closed,
  Scenarios,   \* bound: what a behaviour is about, the `clients`, whether there are
               \* `screenshots`, and the number of `changes` once a client is connected
  StatesOf(_)  \* bound: the states the compositor can be in

ASSUME BufferAssumption == BufferSize \in Nat /\ BufferSize >= 6
ASSUME ScenariosAssumption ==
  Scenarios \subseteq [about : STRING, clients : SUBSET Clients, screenshots : BOOLEAN, changes : Nat]

VARIABLES
  scenario,  \* one of Scenarios, for ever
  current,   \* the compositor's state, as the last refresh found it
  state,     \* event_stream_state: as announced
  streams,   \* event_streams: clients, in the order of the list
  phase,     \* none, streaming, hungup (nobody reads any more), cut, ended
  queue,     \* the channel of a client
  writing,   \* the event its task is writing, or NoEvent
  replica,   \* EventStreamState of the client
  changes    \* changes since the first client connected

vars == <<scenario, current, state, streams, phase, queue, writing, replica, changes>>

Blank == [workspaces |-> <<>>, windows |-> <<>>, keyboard |-> <<>>,
          overview |-> FALSE, failed |-> FALSE, casts |-> <<>>, ok |-> TRUE]

---------------------------------------------------------------------------
(* Applying an event: niri-ipc/src/state.rs.  `ok` is lost where an `expect` *)
(* would fail.                                                               *)

ApplyWorkspaces(f, e) ==
  CASE e.type = "WorkspacesChanged" -> e.workspaces
    [] e.type = "WorkspaceUrgencyChanged" ->
         [id \in DOMAIN f |-> [f[id] EXCEPT !.urgent = IF id = e.id THEN e.urgent ELSE @]]
    [] e.type = "WorkspaceActivated" ->
         [id \in DOMAIN f |->
            [f[id] EXCEPT !.active = IF f[id].output = f[e.id].output THEN id = e.id ELSE @,
                          !.focused = IF e.focused THEN id = e.id ELSE @]]
    [] e.type = "WorkspaceActiveWindowChanged" -> [f EXCEPT ![e.id].window = e.window]

ApplyWindows(f, e) ==
  CASE e.type = "WindowsChanged" -> e.windows
    [] e.type = "WindowOpenedOrChanged" ->
         [id \in DOMAIN f \cup {e.id} |->
            IF id = e.id THEN e.window
            ELSE [f[id] EXCEPT !.focused = @ /\ ~e.window.focused]]
    [] e.type = "WindowClosed" -> [id \in DOMAIN f \ {e.id} |-> f[id]]
    [] e.type = "WindowFocusChanged" ->
         [id \in DOMAIN f |-> [f[id] EXCEPT !.focused = id = e.id]]
    [] e.type = "WindowUrgencyChanged" ->
         [id \in DOMAIN f |-> [f[id] EXCEPT !.urgent = IF id = e.id THEN e.urgent ELSE @]]
    [] e.type = "WindowLayoutsChanged" ->
         [id \in DOMAIN f |->
            [f[id] EXCEPT !.layout = IF id \in DOMAIN e.changes THEN e.changes[id] ELSE @]]

ApplyKeyboardLayouts(k, e) ==
  CASE e.type = "KeyboardLayoutsChanged" -> e.keyboard
    [] e.type = "KeyboardLayoutSwitched" -> [k EXCEPT ![2] = e.idx]

ApplyCasts(f, e) ==
  CASE e.type = "CastsChanged" -> e.casts
    [] e.type = "CastStartedOrChanged" ->
         [id \in DOMAIN f \cup {e.id} |-> IF id = e.id THEN e.cast ELSE f[id]]
    [] e.type = "CastStopped" -> [id \in DOMAIN f \ {e.id} |-> f[id]]

\* The events that speak of something the receiver must already know.
Expects(s, e) ==
  CASE e.type \in {"WorkspaceActivated", "WorkspaceActiveWindowChanged"} ->
         e.id \in DOMAIN s.workspaces
    [] e.type = "WindowClosed" -> e.id \in DOMAIN s.windows
    [] e.type = "WindowLayoutsChanged" -> DOMAIN e.changes \subseteq DOMAIN s.windows
    [] e.type = "KeyboardLayoutSwitched" -> s.keyboard # <<>>
    [] e.type = "CastStopped" -> e.id \in DOMAIN s.casts
    [] OTHER -> TRUE

\* EventStreamState::apply: an event belongs to one part of the state, or to none.
Apply(s, e) ==
  IF ~s.ok \/ ~Expects(s, e) THEN [s EXCEPT !.ok = FALSE]
  ELSE CASE e.part = "workspaces" -> [s EXCEPT !.workspaces = ApplyWorkspaces(@, e)]
         [] e.part = "windows" -> [s EXCEPT !.windows = ApplyWindows(@, e)]
         [] e.part = "keyboard" -> [s EXCEPT !.keyboard = ApplyKeyboardLayouts(@, e)]
         [] e.part = "casts" -> [s EXCEPT !.casts = ApplyCasts(@, e)]
         [] e.part = "overview" -> [s EXCEPT !.overview = e.is_open]
         [] e.part = "config" -> [s EXCEPT !.failed = e.failed]
         [] OTHER -> s

ApplyAll(s, events) == FoldLeft(Apply, s, events)

\* The states a copy of s goes through on the way.  (Bound variables, unlike definitions,
\* are evaluated once in a primed expression.)
StatesAlong(s, events) ==
  LET along[n \in 0 .. Len(events)] ==
        IF n = 0 THEN <<s>>
        ELSE CHOOSE seen \in {Append(u, Apply(u[n], e)) :
                                 u \in {along[n - 1]}, e \in {events[n]}} : TRUE
  IN Tail(along[Len(events)])

---------------------------------------------------------------------------
(* The difference between two states, as events: src/ipc/server.rs. *)

InOrder(S) == SetToSeq(S)
EachOf(ids, Op(_)) == FlattenSeq([n \in DOMAIN ids |-> Op(ids[n])])
If(condition, event) == IF condition THEN <<event>> ELSE <<>>

WorkspaceChange(old, new, id) ==
  LET was == old[id]
      is == new[id]
  IN If(was.window # is.window,
        [part |-> "workspaces", type |-> "WorkspaceActiveWindowChanged", id |-> id, window |-> is.window])
     \o If(was.urgent # is.urgent,
           [part |-> "workspaces", type |-> "WorkspaceUrgencyChanged", id |-> id, urgent |-> is.urgent])
     \o (IF is.focused /\ ~was.focused
           THEN <<[part |-> "workspaces", type |-> "WorkspaceActivated", id |-> id, focused |-> TRUE]>>
         ELSE If(is.active /\ ~was.active,
                 [part |-> "workspaces", type |-> "WorkspaceActivated", id |-> id, focused |-> FALSE]))

WorkspaceEvents(old, new) ==
  IF \/ DOMAIN old # DOMAIN new
     \/ \E id \in DOMAIN new : old[id].output # new[id].output
    THEN <<[part |-> "workspaces", type |-> "WorkspacesChanged", workspaces |-> new]>>
  ELSE EachOf(InOrder(DOMAIN new), LAMBDA id : WorkspaceChange(old, new, id))

\* (The focus timestamp of a window is announced the way its urgency is.)
WindowChange(old, new, id) ==
  IF id \notin DOMAIN old \/ old[id].about # new[id].about
    THEN <<[part |-> "windows", type |-> "WindowOpenedOrChanged", id |-> id, window |-> new[id]]>>
  ELSE If(new[id].focused /\ ~old[id].focused,
          [part |-> "windows", type |-> "WindowFocusChanged", id |-> id])
       \o If(new[id].urgent # old[id].urgent,
             [part |-> "windows", type |-> "WindowUrgencyChanged", id |-> id, urgent |-> new[id].urgent])

\* The windows whose layout is announced in one batch, after all other changes.
Relaid(old, new) ==
  {id \in DOMAIN old \cap DOMAIN new :
     old[id].about = new[id].about /\ old[id].layout # new[id].layout}

\* Mutant: losing the focus to nothing is not announced.
WindowEventsNoUnfocus(old, new) ==
  EachOf(InOrder(DOMAIN new), LAMBDA id : WindowChange(old, new, id))
  \o If(Relaid(old, new) # {},
        [part |-> "windows", type |-> "WindowLayoutsChanged",
         changes |-> [id \in Relaid(old, new) |-> new[id].layout]])
  \o EachOf(InOrder(DOMAIN old \ DOMAIN new),
            LAMBDA id : <<[part |-> "windows", type |-> "WindowClosed", id |-> id]>>)

WindowEvents(old, new) ==
  EachOf(InOrder(DOMAIN new), LAMBDA id : WindowChange(old, new, id))
  \o If(Relaid(old, new) # {},
        [part |-> "windows", type |-> "WindowLayoutsChanged",
         changes |-> [id \in Relaid(old, new) |-> new[id].layout]])
  \o EachOf(InOrder(DOMAIN old \ DOMAIN new),
            LAMBDA id : <<[part |-> "windows", type |-> "WindowClosed", id |-> id]>>)
  \o If((\A id \in DOMAIN new : ~new[id].focused) /\ (\E id \in DOMAIN old : old[id].focused),
        [part |-> "windows", type |-> "WindowFocusChanged", id |-> NoWindow])

OverviewEvents(old, new) ==
  If(old # new, [part |-> "overview", type |-> "OverviewOpenedOrClosed", is_open |-> new])

KeyboardIndexEvents(old, new) ==
  If(old[2] # new[2], [part |-> "keyboard", type |-> "KeyboardLayoutSwitched", idx |-> new[2]])

CastEvents(old, new) ==
  EachOf(InOrder(DOMAIN new),
         LAMBDA id : If(id \notin DOMAIN old \/ old[id] # new[id],
                        [part |-> "casts", type |-> "CastStartedOrChanged", id |-> id, cast |-> new[id]]))
  \o EachOf(InOrder(DOMAIN old \ DOMAIN new),
            LAMBDA id : <<[part |-> "casts", type |-> "CastStopped", id |-> id]>>)

\* State::refresh, the part of it that announces.
RefreshEvents(old, new) ==
  CastEvents(old.casts, new.casts)
  \o WorkspaceEvents(old.workspaces, new.workspaces)
  \o WindowEvents(old.windows, new.windows)
  \o OverviewEvents(old.overview, new.overview)
  \o KeyboardIndexEvents(old.keyboard, new.keyboard)

KeyboardLayoutsChanged(k) ==
  [part |-> "keyboard", type |-> "KeyboardLayoutsChanged", keyboard |-> k]

ConfigLoaded(failed) == [part |-> "config", type |-> "ConfigLoaded", failed |-> failed]

\* EventStreamState::replicate
Replicate(s) ==
  <<[part |-> "workspaces", type |-> "WorkspacesChanged", workspaces |-> s.workspaces],
    [part |-> "windows", type |-> "WindowsChanged", windows |-> s.windows]>>
  \o If(s.keyboard # <<>>, KeyboardLayoutsChanged(s.keyboard))
  \o <<[part |-> "overview", type |-> "OverviewOpenedOrClosed", is_open |-> s.overview],
       ConfigLoaded(s.failed),
       [part |-> "casts", type |-> "CastsChanged", casts |-> s.casts]>>

---------------------------------------------------------------------------
(* Sending. *)

\* Mutant: Vec::truncate
Truncate(seq, i) == SubSeq(seq, 1, i - 1)

\* Vec::swap_remove
SwapRemove(seq, i) ==
  [n \in 1 .. Len(seq) - 1 |-> IF n = i THEN Last(seq) ELSE seq[n]]

\* Mutant: from the first one to the last one.
RemoveStreamsForwards(seq, failing) ==
  FoldLeft(LAMBDA left, i : IF i <= Len(left) THEN SwapRemove(left, i) ELSE left,
           seq, SetToSortSeq(failing, <))

\* The streams at these indices are removed, the last one first.
RemoveStreams(seq, failing) ==
  FoldLeft(SwapRemove, seq, SetToSortSeq(failing, >))

\* How many more events the channel of c takes; none once its receiver is gone.
Room(c) == IF phase[c] = "ended" THEN 0 ELSE BufferSize - Len(queue[c])

\* The list after the n-th of some events, which no longer fits where room has run out.
SendEvent(list, n) == RemoveStreams(list, {i \in DOMAIN list : Room(list[i]) = n - 1})

\* Every event is applied to the announced state and sent (IpcServer::send_event), one
\* by one.  A stream that is removed has got those that did fit.
Announce(events) ==
  LET listening == FoldLeft(SendEvent, streams, [n \in DOMAIN events |-> n])
  IN /\ state' = ApplyAll(state, events)
     /\ streams' = listening
     /\ queue' = [c \in Clients |->
                    IF c \in ToSet(streams)
                      THEN queue[c] \o SubSeq(events, 1, Min({Room(c), Len(events)})) ELSE queue[c]]
     /\ phase' = [c \in Clients |->
                    IF c \in ToSet(streams) \ ToSet(listening) /\ phase[c] # "ended"
                      THEN "cut" ELSE phase[c]]
     /\ changes' = IF streams = <<>> THEN changes ELSE changes + 1
     /\ UNCHANGED <<scenario, writing, replica>>

---------------------------------------------------------------------------
(* Actions. *)

Init ==
  /\ scenario \in Scenarios
  /\ current \in {s \in StatesOf(scenario.about) : s.workspaces = <<>> /\ s.windows = <<>> /\ s.casts = <<>>}
  /\ state = current
  /\ streams = <<>>
  /\ phase = [c \in Clients |-> "none"]
  /\ queue = [c \in Clients |-> <<>>]
  /\ writing = [c \in Clients |-> NoEvent]
  /\ replica = [c \in Clients |-> Blank]
  /\ changes = 0

MayChange == changes < scenario.changes

\* State::refresh, after any of the compositor's state has changed.
Refresh ==
  /\ MayChange
  /\ \E new \in StatesOf(scenario.about) \ {current} :
       /\ new.failed = current.failed /\ new.keyboard[1] = current.keyboard[1]
       /\ current' = new
       /\ Announce(RefreshEvents(state, new))

\* ipc_keyboard_layouts_changed: other layouts, the first of which is active
LayoutsChanged ==
  /\ MayChange
  /\ \E k \in {s.keyboard : s \in StatesOf(scenario.about)} :
       /\ k[1] # current.keyboard[1] /\ k[2] = 0
       /\ current' = [current EXCEPT !.keyboard = k]
       /\ Announce(<<KeyboardLayoutsChanged(k)>>)

\* ipc_config_loaded
ConfigReloaded ==
  /\ MayChange
  /\ \E failed \in {s.failed : s \in StatesOf(scenario.about)} :
       /\ current' = [current EXCEPT !.failed = failed]
       /\ Announce(<<ConfigLoaded(failed)>>)

\* ipc_screenshot_taken: an event that is no part of the state
ScreenshotTaken ==
  /\ MayChange /\ scenario.screenshots
  /\ Announce(<<[part |-> "none", type |-> "ScreenshotCaptured"]>>)
  /\ UNCHANGED current

\* handle_client, for Request::EventStream
Connect(c) ==
  /\ phase[c] = "none" /\ c \in scenario.clients
  /\ phase' = [phase EXCEPT ![c] = "streaming"]
  /\ queue' = [queue EXCEPT ![c] = Replicate(state)]
  /\ streams' = Append(streams, c)
  /\ UNCHANGED <<scenario, current, state, writing, replica, changes>>

\* handle_event_stream_client: recv() ..
Receive(c) ==
  /\ phase[c] \in {"streaming", "hungup"} /\ writing[c] = NoEvent /\ queue[c] # <<>>
  /\ writing' = [writing EXCEPT ![c] = Head(queue[c])]
  /\ queue' = [queue EXCEPT ![c] = Tail(@)]
  /\ UNCHANGED <<scenario, current, state, streams, phase, replica, changes>>

\* .. and write_all(), which the client reads
Write(c) ==
  /\ phase[c] = "streaming" /\ writing[c] # NoEvent
  /\ replica' = [replica EXCEPT ![c] = Apply(@, writing[c])]
  /\ writing' = [writing EXCEPT ![c] = NoEvent]
  /\ UNCHANGED <<scenario, current, state, streams, phase, queue, changes>>

\* The client goes away; its task only notices when it writes.
HangUp(c) ==
  /\ phase[c] = "streaming"
  /\ phase' = [phase EXCEPT ![c] = "hungup"]
  /\ UNCHANGED <<scenario, current, state, streams, queue, writing, replica, changes>>

\* Mutant: only writing ends a task, and a disconnected one waits for events.
EndTaskOnWrite(c) ==
  /\ phase[c] = "hungup" /\ writing[c] # NoEvent
  /\ phase' = [phase EXCEPT ![c] = "ended"]
  /\ queue' = [queue EXCEPT ![c] = <<>>]
  /\ writing' = [writing EXCEPT ![c] = NoEvent]
  /\ UNCHANGED <<scenario, current, state, streams, replica, changes>>

\* The task ends: nobody is there, or it was told to disconnect before it wrote on.
EndTask(c) ==
  /\ \/ phase[c] = "hungup" /\ writing[c] # NoEvent
     \/ phase[c] = "cut"
  /\ phase' = [phase EXCEPT ![c] = "ended"]
  /\ queue' = [queue EXCEPT ![c] = <<>>]
  /\ writing' = [writing EXCEPT ![c] = NoEvent]
  /\ UNCHANGED <<scenario, current, state, streams, replica, changes>>

Next ==
  \/ Refresh \/ LayoutsChanged \/ ConfigReloaded \/ ScreenshotTaken
  \/ \E c \in Clients : Connect(c) \/ Receive(c) \/ Write(c) \/ HangUp(c) \/ EndTask(c)

\* The scheduler runs the tasks; what they write is read by a client that has not gone
\* away.  Clients need not come, and the compositor need not change.
Fairness == \A c \in Clients : WF_vars(Receive(c)) /\ WF_vars(Write(c)) /\ WF_vars(EndTask(c))

Spec == Init /\ [][Next]_vars /\ Fairness

---------------------------------------------------------------------------
(* Properties. *)

\* What was announced is what the compositor's state is: the events computed from two
\* states, applied one by one, lead from the one to the other (ipc_refresh_workspaces,
\* ipc_refresh_windows, ipc_refresh_casts and the rest).
AnnouncedIsCurrent == state = current

\* Only a client that lets its channel fill up is cut off, whichever other streams go at
\* the same moment, and nobody who is listening drops off the list unnoticed (send_event).
OnlySlowClientsCut ==
  /\ \A c \in Clients : phase[c] = "cut" => Len(queue[c]) = BufferSize
  /\ \A c \in Clients : phase[c] \in {"streaming", "hungup"} => c \in ToSet(streams)
  /\ IsInjective(streams)

\* A stream comes to rest in one of two ways: its client knows the present state, or its
\* task has ended and given up its channel.  Neither a full channel nor a client that left
\* while its task had something to write leaves a task behind (handle_event_stream_client).
StreamsSettle ==
  \A c \in Clients :
    phase[c] # "none" ~> \/ phase[c] = "ended"
                         \/ phase[c] \in {"streaming", "hungup"} /\ queue[c] = <<>> /\ writing[c] = NoEvent
                            /\ (phase[c] = "streaming" => replica[c] = state)

InFlight(c) == (IF writing[c] = NoEvent THEN <<>> ELSE <<writing[c]>>) \o queue[c]

Mirror == INSTANCE EventMirror WITH
  copy <- replica,
  coming <- [c \in Clients |->
               IF phase[c] # "streaming" THEN Closed
               ELSE CHOOSE along \in {StatesAlong(r, f) : r \in {replica[c]}, f \in {InFlight(c)}} : TRUE]

\* The event stream implements EventMirror: a client's copy goes through the announced
\* states in order, ends up in the present one, and never meets an event about something
\* it does not know (`ok` is never lost), also when it connects between two changes,
\* lags behind, or is cut off with part of a burst in its channel.
MirrorSpec == Mirror!Spec

=============================================================================
