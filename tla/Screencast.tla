----------------------------- MODULE Screencast -----------------------------
(***************************************************************************)
(* Screencasts through PipeWire (src/screencasting/, src/dbus/             *)
(* mutter_screen_cast.rs).  A portal opens a session over D-Bus, records   *)
(* streams in it and starts it; the calls run on the D-Bus thread and      *)
(* reach the compositor through a channel.  For every stream the           *)
(* compositor opens a cast, whose format is negotiated with PipeWire:      *)
(* callbacks run on the compositor's thread, what they want of it goes     *)
(* through another channel.  Casts are drawn at the end of a redraw of     *)
(* their output, or at once when PipeWire or the user asks for it; drawn   *)
(* buffers wait for their fences and go out in order.  A cast with a       *)
(* dynamic target shows whatever the user picked last.                     *)
(*                                                                         *)
(* PipeWire and the wire are modelled from their use.  PipeWire answers    *)
(* the formats that it was offered in order, skipping any, drops all       *)
(* buffers when it sets a format, and does not hand out a buffer that      *)
(* add_buffer left without memory.  Of a format only the size is kept.     *)
(* Time is kept as whether the last frame is too recent for another one.   *)
(* The pointer, alpha and modifiers are left out.                          *)
(***************************************************************************)
EXTENDS Screencopy

CONSTANTS
  Sessions, Streams,
  SessionOf,          \* the session in which a stream is recorded
  Windows,
  Nothing,            \* CastTarget::Nothing
  Portal,             \* dynamic_cast_id_for_portal
  Sizes,
  MaxFrames, MaxBuffers, MaxOffers, MaxCasts,  \* bounds
  CastScenarios                      \* bound: what happens in one behaviour, see below

Targets == Windows \cup Outputs

\* streams: those that are recorded; targets: what they may be recorded of;
\* features: "restart" (a session is started again while it runs), "fatal" (PipeWire
\* fails or goes away), "move" (windows and outputs come and go), "resize", "pace" (the
\* consumer limits the frame rate), "draw" (PipeWire adds buffers), "gpu" (they take time
\* to draw), "portal" (the portal stops its session), "ipc" (casts are announced), "copy"
\* (a client of wlr-screencopy is there), "quiet" (PipeWire does not answer).
CastScenarioType ==
  [streams : SUBSET Streams, targets : SUBSET (Targets \cup {Portal}),
   features : SUBSET {"restart", "fatal", "move", "resize", "pace", "draw", "gpu", "portal", "ipc",
                      "copy", "quiet"}]

ASSUME CastAssumption ==
  /\ SessionOf \in [Streams -> Sessions]
  /\ Windows \cap Outputs = {} /\ {Nothing, Portal} \cap Targets = {} /\ Nothing # Portal
  /\ IsFiniteSet(Sessions) /\ IsFiniteSet(Streams) /\ Sizes # {}
  /\ Streams \cap Managers = {}  \* a manager stands for its CastStreamId, too
  /\ CastScenarios \subseteq CastScenarioType

VARIABLES
  script,
  session,   \* Session, on the D-Bus thread
  toNiri,    \* channel of ScreenCastToNiri
  fromPw,    \* channel of PwToNiri
  pipewire,  \* Screencasting::pipewire is there
  casts, pending,  \* Screencasting::casts and pending_dynamic_casts
  clearing,  \* the idle callback of stop_casts_for_target is waiting
  scene,     \* the layout, as far as casts go
  redraws,   \* outputs whose redraw is queued
  ipc        \* the casts of the event stream

castVars == <<script, session, toNiri, fromPw, pipewire, casts, pending, clearing, scene, redraws, ipc>>

Has(feature) == feature \in script.features

---------------------------------------------------------------------------
(* The D-Bus thread. *)

\* late is kept for the properties: the session was started again after the compositor was
\* told to stop it.
NewSession == [phase |-> "Open", streams |-> <<>>, started |-> {}, late |-> FALSE]

\* Once it is stopped and removed.
ClosedSession(x) == [x EXCEPT !.phase = "Gone", !.streams = <<>>]

StartMsg(stream, target) == [kind |-> "StartCast", stream |-> stream, target |-> target]
StopMsg(s) == [kind |-> "StopCast", session |-> s]

Record(stream, target) ==
  LET s == SessionOf[stream] IN
  /\ stream \in script.streams /\ target \in script.targets
  /\ session[s].phase = "Open"
  /\ stream \notin DOMAIN session[s].streams
  /\ session' = [session EXCEPT ![s].streams =
                   [x \in DOMAIN @ \cup {stream} |-> IF x = stream THEN target ELSE @[x]]]
  /\ UNCHANGED <<script, toNiri, fromPw, pipewire, casts, pending, clearing, scene, redraws, ipc>>

RecordMonitor(stream, o) == o \in scene.outputs /\ Record(stream, o)

\* Of any window, there or not.
RecordWindow(stream, w) == w \in Windows \cup {Portal} /\ Record(stream, w)

\* Session::start.  It does not look at stopped, and Stream::start does not set
\* was_started, so every call sends a message for every stream there is, until stop takes
\* them.
SessionStart(s) ==
  /\ session[s].phase \notin {"None", "Gone"}
  /\ DOMAIN session[s].streams # {}
  /\ Has("restart") \/ ~(DOMAIN session[s].streams \subseteq session[s].started)
  /\ Len(toNiri) < 2 /\ Len(toNiri) + Len(casts) + Len(pending) < MaxCasts
  /\ toNiri' = toNiri \o [i \in 1..Cardinality(DOMAIN session[s].streams) |->
                            LET x == SetToSeq(DOMAIN session[s].streams)[i]
                            IN  StartMsg(x, session[s].streams[x])]
  /\ session' = [session EXCEPT ![s].started = @ \cup DOMAIN session[s].streams,
                                ![s].late = @ \/ session[s].phase = "Told"]
  /\ UNCHANGED <<script, fromPw, pipewire, casts, pending, clearing, scene, redraws, ipc>>

\* Session::stop, called by the portal: it is marked as stopped and closed, then the
\* compositor is told, then its streams are taken and it is removed.  Another call may come
\* in between.  When the compositor called it, the rest of it: see StopCasts.  ScreenCast
\* keeps the session for good, so that Drop does not tell the compositor again.
SessionStop(s) ==
  /\ \/ /\ session[s].phase = "Open" /\ Has("portal")
        /\ session' = [session EXCEPT ![s].phase = "Stopped"]
        /\ UNCHANGED toNiri
     \/ /\ session[s].phase = "Stopped"
        /\ session' = [session EXCEPT ![s].phase = "Told"]
        /\ toNiri' = Append(toNiri, StopMsg(s))
     \/ /\ session[s].phase = "Told"
        /\ session' = [session EXCEPT ![s] = ClosedSession(@)]
        /\ UNCHANGED toNiri
  /\ UNCHANGED <<script, fromPw, pipewire, casts, pending, clearing, scene, redraws, ipc>>

---------------------------------------------------------------------------
(* Handlers of the compositor work on the record of what they change: the  *)
(* casts, the pending ones, the sessions, both channels and the redraws.   *)

World == [casts |-> casts, pending |-> pending, session |-> session, toNiri |-> toNiri,
          fromPw |-> fromPw, pipewire |-> pipewire, redraws |-> redraws]

Casting(w) ==
  /\ casts' = w.casts /\ pending' = w.pending /\ session' = w.session
  /\ toNiri' = w.toNiri /\ fromPw' = w.fromPw /\ pipewire' = w.pipewire
  /\ redraws' = w.redraws

\* Niri::stop_cast of some sessions, with the calls of Session::stop that it makes: those
\* that are still open are marked as stopped and tell the compositor.  It waits until their
\* streams are taken, which the portal's calls may come before: SessionStop.  Here it may go
\* on meanwhile.
StopCasts(w, S) ==
  LET open == {s \in S : w.session[s].phase = "Open"} IN
  [w EXCEPT !.casts = Retained(@, {c \in ToSet(@) : SessionOf[c.stream] \notin S}),
            !.pending = Retained(@, {x \in Streams : SessionOf[x] \notin S}),
            !.session = [s \in Sessions |-> IF s \in open THEN [@[s] EXCEPT !.phase = "Told"] ELSE @[s]],
            !.toNiri = @ \o [i \in 1 .. Cardinality(open) |-> StopMsg(SetToSeq(open)[i])]]

\* Mutant: a stream that waits for its target is not forgotten.
StopStartedCast(w, s) == [StopCasts(w, {s}) EXCEPT !.pending = w.pending]

\* Niri::stop_cast
StopCast(w, s) == StopCasts(w, {s})

\* PipeWire::start_cast
NewCast(stream, target, params) ==
  [stream |-> stream, target |-> target, dynamic |-> FALSE, refresh |-> params.refresh,
   state |-> "ResizePending", size |-> params.size, offers |-> <<params.size>>,
   stream_state |-> "Connecting", active |-> FALSE, node |-> FALSE,
   negotiated |-> FALSE, free |-> 0, buffer |-> params.size,
   rendering |-> <<>>, frame |-> 0, queued |-> 0,
   recent |-> FALSE, scheduled |-> "None", on |-> Nothing, early |-> FALSE, skipped |-> FALSE]

\* cast_params_for_output and cast_params_for_window, of a target that has them.  A refresh
\* rate is known by its output.
HasParams(t) == t \in scene.outputs \/ (t \in scene.windows /\ t \in DOMAIN scene.cast_output)

Params(t) == [size |-> scene.size[t],
              refresh |-> IF t \in Outputs THEN t ELSE scene.cast_output[t]]

---------------------------------------------------------------------------
(* Cast. *)

\* Cast::ensure_size.  A new size is offered to PipeWire, unless the offer fails.
EnsureSize(c, size) ==
  IF c.size = size THEN c
  ELSE [c EXCEPT !.state = "ResizePending", !.size = size, !.offers = Append(@, size)]

\* Cast::set_refresh
SetRefresh(c, refresh) ==
  IF c.refresh = refresh THEN c
  ELSE [c EXCEPT !.refresh = refresh, !.offers = Append(@, c.size)]

\* Mutant: the first frame that is complete goes out, though older ones are being drawn.
QueueFirstCompleted(c) ==
  LET done == {i \in DOMAIN c.rendering : c.rendering[i].done} IN
  IF done = {} THEN c
  ELSE [c EXCEPT !.rendering = RemoveAt(@, Min(done)), !.free = @ + 1,
                 !.queued = c.rendering[Min(done)].number]

\* queue_completed_buffers: all frames before the first that is still being drawn.
\* PipeWire is done with them at once.
QueueCompletedBuffers(c) ==
  LET busy == {i \in DOMAIN c.rendering : ~c.rendering[i].done}
      k == IF busy = {} THEN Len(c.rendering) ELSE Min(busy) - 1
  IN  [c EXCEPT !.rendering = SubSeq(@, k + 1, Len(@)), !.free = @ + k,
                !.queued = IF k = 0 THEN @ ELSE c.rendering[k].number]

\* queue_after_sync, after dequeue_buffer_and_render or dequeue_buffer_and_clear drew what
\* has the given size: with a fence, unless it has signalled already.
QueueAfterSync(c, size, fence) ==
  LET drawn == [c EXCEPT
        !.free = @ - 1, !.frame = @ + 1, !.recent = Has("pace"),
        !.early = @ \/ c.scheduled = "Running",
        !.rendering = Append(@, [number |-> c.frame + 1, done |-> ~fence,
                                 buffer |-> c.buffer, size |-> size])]
  IN  IF fence THEN drawn ELSE QueueCompletedBuffers(drawn)

\* dequeue_buffer_and_render.  The content is damaged or it is not, a buffer is there or not,
\* and drawing fails, which gives the buffer back, or it does not.
DequeueAndRender(c, size, how) ==
  IF c.state # "Ready" \/ how = "NoDamage" \/ c.free = 0 \/ c.frame = MaxFrames THEN c
  ELSE QueueAfterSync(c, size, how = "Fence")

\* dequeue_buffer_and_clear
DequeueAndClear(c, how) ==
  IF c.free = 0 \/ how = "NoDamage" \/ c.frame = MaxFrames THEN c
  ELSE QueueAfterSync(c, c.buffer, how = "Fence")

\* check_time_and_schedule: TRUE of a cast whose last frame is too recent.  The token of
\* the timer is not forgotten when it fires.
ScheduleRedraw(c, o) ==
  IF c.scheduled # "None" THEN c
  ELSE [c EXCEPT !.scheduled = "Running", !.on = o, !.early = FALSE]

RemoveScheduledRedraw(c) == [c EXCEPT !.scheduled = "None", !.early = FALSE]

\* What a redraw of o draws of a cast of something of the given size.
RenderCast(c, o, size, how) ==
  LET sized == EnsureSize(c, size) IN
  IF sized.state # "Ready" THEN sized
  ELSE IF sized.recent THEN [ScheduleRedraw(sized, o) EXCEPT !.skipped = TRUE]
  ELSE [DequeueAndRender(RemoveScheduledRedraw(sized), size, how) EXCEPT !.skipped = FALSE]

Hows == {"NoDamage", "Signalled"} \cup (IF Has("gpu") THEN {"Fence"} ELSE {})

\* redraw_cast: a cast of an output is drawn in the redraw that it queues.
RedrawnCast(c, how) ==
  IF c.target = Nothing THEN DequeueAndClear(c, how)
  ELSE IF c.target \notin scene.windows \/ c.target \notin DOMAIN scene.cast_output THEN c
  ELSE LET size == scene.size[c.target] IN DequeueAndRender(EnsureSize(c, size), size, how)

RedrawCasts(w, I, how) ==
  [w EXCEPT !.casts = [i \in DOMAIN @ |-> IF i \in I THEN RedrawnCast(@[i], how) ELSE @[i]],
            !.redraws = @ \cup ({w.casts[i].target : i \in I} \cap scene.outputs)]

Offered(w) == {i \in DOMAIN w.casts : i \in DOMAIN casts /\ w.casts[i].stream = casts[i].stream
                                        /\ Len(w.casts[i].offers) > Len(casts[i].offers)}

\* The sessions whose offers to PipeWire fail.
Failures(w) ==
  IF Has("fatal") THEN SUBSET {SessionOf[w.casts[i].stream] : i \in Offered(w)} ELSE {{}}

RoomToOffer(w) ==
  \/ Offered(w) = {}
  \/ FoldLeft(LAMBDA n, c : n + Len(c.offers), 0, w.casts) <= MaxOffers

---------------------------------------------------------------------------
(* The channels. *)

\* prepare_pw_cast and start_cast for streams of one target: the first may fail, and the
\* second of any stream, whose session is stopped in the end.
StartCasts(w, streams, target, dynamic) ==
  LET new == [i \in DOMAIN streams |->
                [NewCast(streams[i], target, Params(target)) EXCEPT !.dynamic = dynamic]]
      sessions == {SessionOf[x] : x \in ToSet(streams)}
      started == [w EXCEPT !.casts = @ \o new, !.pipewire = TRUE]
  IN  IF Has("fatal")
      THEN {StopCasts(started, S) : S \in SUBSET sessions} \cup {StopCasts(w, sessions)}
      ELSE {started}

\* on_screen_cast_msg
OnScreenCastMsg ==
  /\ toNiri # <<>>
  /\ LET msg == Head(toNiri)
         w == [World EXCEPT !.toNiri = Tail(@)]
     IN  \/ /\ msg.kind = "StopCast"
            /\ Casting(StopCast(w, msg.session))
         \/ /\ msg.kind = "StartCast" /\ msg.target = Portal
            /\ Casting([w EXCEPT !.pending = Append(@, msg.stream)])
         \/ /\ msg.kind = "StartCast" /\ msg.target # Portal /\ ~HasParams(msg.target)
            /\ Casting(StopCast(w, SessionOf[msg.stream]))
         \/ /\ msg.kind = "StartCast" /\ msg.target # Portal /\ HasParams(msg.target)
            /\ \E v \in StartCasts(w, <<msg.stream>>, msg.target, FALSE) : Casting(v)
  /\ UNCHANGED <<script, clearing, scene, ipc>>

\* on_pw_msg
OnPwMsg ==
  /\ fromPw # <<>>
  /\ LET msg == Head(fromPw)
         w == [World EXCEPT !.fromPw = Tail(@)]
         named == {i \in DOMAIN casts : casts[i].stream = msg.stream}
     IN  \/ /\ msg.kind = "StopCast"
            /\ Casting(StopCast(w, SessionOf[msg.stream]))
         \/ /\ msg.kind = "Redraw" /\ named = {} /\ Casting(w)
         \/ /\ msg.kind = "Redraw"
            /\ \E i \in named, how \in Hows :
                 LET v == RedrawCasts(w, {i}, how) IN
                 /\ RoomToOffer(v)
                 /\ \E S \in Failures(v) : Casting(StopCasts(v, S))
         \/ /\ msg.kind = "FatalError"
            /\ Casting(IF ~pipewire THEN w
                       ELSE StopCasts([w EXCEPT !.pipewire = FALSE],
                                      {SessionOf[casts[i].stream] : i \in DOMAIN casts}
                                      \cup {SessionOf[x] : x \in ToSet(pending)}))
  /\ UNCHANGED <<script, clearing, scene, ipc>>

---------------------------------------------------------------------------
(* PipeWire's callbacks. *)

Tells(kind, stream) == fromPw' = Append(fromPw, [kind |-> kind, stream |-> stream])

RoomToTell == ~Has("quiet") /\ Len(fromPw) < 2

CallbackLeaves == UNCHANGED <<script, session, toNiri, pipewire, pending, clearing, scene, redraws, ipc>>

\* state_changed
StateChanged(i) ==
  LET c == casts[i] IN
  /\ RoomToTell
  /\ \/ /\ c.stream_state \in {"Connecting", "Streaming"}
        /\ casts' = [casts EXCEPT ![i].stream_state = "Paused", ![i].active = FALSE,
                                  ![i].node = TRUE]
        /\ \/ UNCHANGED fromPw
           \/ Has("fatal") /\ ~c.node /\ Tells("StopCast", c.stream)
     \/ /\ c.stream_state = "Paused"
        /\ casts' = [casts EXCEPT ![i].stream_state = "Streaming", ![i].active = TRUE]
        /\ Tells("Redraw", c.stream)
     \/ /\ Has("fatal") /\ c.stream_state # "Error"
        /\ casts' = [casts EXCEPT ![i].stream_state = "Error", ![i].active = FALSE]
        /\ IF c.active THEN Tells("StopCast", c.stream) ELSE UNCHANGED fromPw
  /\ CallbackLeaves

\* A format arrives whose size is not the one that was asked for last: the one that was
\* asked for is awaited, unless no other size was.
WrongSize(i, c) ==
  /\ casts' = [casts EXCEPT ![i] = c]
  /\ IF c.state = "ResizePending" THEN UNCHANGED fromPw ELSE Tells("StopCast", c.stream)

\* A modifier is chosen, if there is one that works, and offered back.
Fixate(i, c) ==
  \/ /\ casts' = [casts EXCEPT ![i] =
                    [c EXCEPT !.state = "ConfirmationPending", !.offers = Append(@, c.size)]]
     /\ UNCHANGED fromPw
  \/ Has("fatal") /\ casts' = [casts EXCEPT ![i] = c] /\ Tells("StopCast", c.stream)

\* The format is complete, and buffers of it are asked for.
MoveToReady(i, c) ==
  \/ /\ casts' = [casts EXCEPT ![i] = [c EXCEPT !.state = "Ready", !.negotiated = TRUE, !.buffer = c.size,
                                               !.early = @ \/ c.scheduled = "Running"]]
     /\ UNCHANGED fromPw
  \/ Has("fatal") /\ casts' = [casts EXCEPT ![i] = c] /\ Tells("StopCast", c.stream)

\* PipeWire sets a format: remove_buffer is called for every buffer, then param_changed.
ParamChanged(i) ==
  LET c == [casts[i] EXCEPT !.free = 0, !.rendering = <<>>, !.negotiated = FALSE] IN
  /\ RoomToTell /\ c.stream_state # "Error"
  /\ \E k \in DOMAIN c.offers :
       LET heard == [c EXCEPT !.offers = SubSeq(@, k + 1, Len(@))] IN
       \/ c.offers[k] # c.size /\ WrongSize(i, heard)
       \/ c.offers[k] = c.size /\ c.state # "ConfirmationPending" /\ Fixate(i, heard)
       \/ c.offers[k] = c.size /\ MoveToReady(i, heard)
  /\ CallbackLeaves

\* add_buffer, when memory can be allocated or not.
AddBuffer(i) ==
  LET c == casts[i] IN
  /\ Has("draw") /\ RoomToTell /\ c.negotiated /\ c.state = "Ready"
  /\ c.free + Len(c.rendering) < MaxBuffers
  /\ \/ /\ casts' = [casts EXCEPT ![i].free = @ + 1]
        /\ IF c.free + Len(c.rendering) = 0 /\ c.stream_state = "Streaming"
           THEN Tells("Redraw", c.stream) ELSE UNCHANGED fromPw
     \/ /\ Has("fatal") /\ UNCHANGED casts /\ Tells("StopCast", c.stream)
  /\ CallbackLeaves

\* The connection to PipeWire breaks.
PipeWireError ==
  /\ Has("fatal") /\ pipewire /\ RoomToTell
  /\ \A i \in DOMAIN fromPw : fromPw[i].kind # "FatalError"
  /\ \E x \in Streams : Tells("FatalError", x)
  /\ UNCHANGED casts /\ CallbackLeaves

\* A fence signals, and its source queues what is complete.
FenceSignalled(i, j) ==
  /\ ~casts[i].rendering[j].done
  /\ casts' = [casts EXCEPT ![i] = QueueCompletedBuffers([@ EXCEPT !.rendering[j].done = TRUE])]
  /\ UNCHANGED <<fromPw>> /\ CallbackLeaves

---------------------------------------------------------------------------
(* Redraws. *)

Shows(o, t) == t = o \/ (t \in scene.windows /\ scene.output[t] = o)

TimePasses(i) ==
  /\ casts[i].recent
  /\ casts' = [casts EXCEPT ![i].recent = FALSE]
  /\ UNCHANGED <<fromPw>> /\ CallbackLeaves

\* The timer of schedule_redraw.
ScheduledRedraw(i) ==
  LET c == casts[i] IN
  /\ c.scheduled = "Running" /\ (~c.recent \/ c.early)
  /\ casts' = [casts EXCEPT ![i].scheduled = "Fired"]
  /\ redraws' = redraws \cup ({c.on} \cap scene.outputs)
  /\ UNCHANGED <<script, session, toNiri, fromPw, pipewire, pending, clearing, scene, ipc>>

\* queue_redraw, since something on an output changed.  Only outputs that a cast shows
\* matter here.
QueueRedraw(o) ==
  /\ o \in scene.outputs \ redraws
  /\ \/ \E i \in DOMAIN casts : Shows(o, casts[i].target)
     \/ \E m \in DOMAIN queues : o \in {frames[f].output : f \in ToSet(queues[m].copies)}
  /\ redraws' = redraws \cup {o}
  /\ UNCHANGED <<script, session, toNiri, fromPw, pipewire, casts, pending, clearing, scene, ipc>>

\* render_for_screen_cast, render_windows_for_screen_cast and
\* render_for_screencopy_with_damage, in a redraw of o.
RedrawOutput(o) ==
  /\ o \in redraws
  /\ \E how \in Hows :
       LET v == [World EXCEPT
             !.redraws = @ \ {o},
             !.casts = [i \in DOMAIN casts |->
               IF casts[i].active /\ Shows(o, casts[i].target)
               THEN RenderCast(casts[i], o, scene.size[casts[i].target], how) ELSE casts[i]]]
       IN  /\ RoomToOffer(v)
           /\ \E S \in Failures(v) : Casting(StopCasts(v, S))
  /\ \E how \in {"NoDamage"} \cup (IF Has("copy") THEN Drawings ELSE {}) :
       RenderForScreencopyWithDamage(o, how)
  /\ UNCHANGED <<script, clearing, scene, ipc>>

---------------------------------------------------------------------------
(* Dynamic targets. *)

IsDynamic(c) == c.dynamic

\* set_dynamic_cast_target: a cast whose rate cannot be changed is left as it is.
SetDynamicCastTarget(w, t, how, failing) ==
  LET refresh(c) == IF HasParams(t) THEN SetRefresh(c, Params(t).refresh) ELSE c
      dynamic == {i \in DOMAIN w.casts : IsDynamic(w.casts[i]) /\ i \notin failing}
      aimed == [w EXCEPT !.casts = [i \in DOMAIN @ |->
                  IF i \in dynamic THEN [refresh(@[i]) EXCEPT !.target = t] ELSE @[i]]]
  IN  RedrawCasts(aimed, dynamic, how)

\* start_pending_dynamic_casts
StartPendingDynamicCasts(w, t) ==
  IF w.pending = <<>> \/ t = Nothing \/ ~HasParams(t) THEN {w}
  ELSE StartCasts([w EXCEPT !.pending = <<>>], w.pending, t, TRUE)

\* The casts whose change of rate fails.
RateFailures(t) ==
  IF Has("fatal") /\ HasParams(t)
  THEN {{}, {i \in DOMAIN casts : casts[i].dynamic /\ casts[i].refresh # Params(t).refresh}}
  ELSE {{}}

\* Those that redraw_cast stops, as their new size cannot be offered.
Resized(w) == {SessionOf[w.casts[i].stream] : i \in {j \in DOMAIN casts : w.casts[j].size # casts[j].size}}

Redirect(t) ==
  \E how \in Hows, failing \in RateFailures(t) :
    LET v == SetDynamicCastTarget(World, t, how, failing) IN
    /\ RoomToOffer(v)
    /\ \E S \in IF Has("fatal") THEN SUBSET Resized(v) ELSE {{}} :
         \E x \in StartPendingDynamicCasts(StopCasts(v, S), t) : Casting(x)

\* Actions of the user: SetDynamicCastWindow, SetDynamicCastMonitor, ClearDynamicCastTarget.
UserPicks(t) ==
  /\ Portal \in script.targets
  /\ t \in scene.windows \cup scene.outputs \cup {Nothing}
  /\ ~clearing
  /\ Redirect(t)
  /\ UNCHANGED <<script, clearing, scene, ipc>>

\* The action StopCast.
UserStops(s) ==
  /\ Has("portal") /\ \E i \in DOMAIN casts : SessionOf[casts[i].stream] = s
  /\ Casting(StopCast(World, s))
  /\ UNCHANGED <<script, clearing, scene, ipc>>

\* The idle callback of stop_casts_for_target.
ClearTarget ==
  /\ clearing /\ clearing' = FALSE
  /\ Redirect(Nothing)
  /\ UNCHANGED <<script, scene, ipc>>

\* stop_casts_for_target
StopCastsForTarget(w, t) ==
  StopCasts(w, {SessionOf[w.casts[i].stream] :
                  i \in {j \in DOMAIN w.casts : w.casts[j].target = t /\ ~w.casts[j].dynamic}})

\* Mutant: casts that nobody consumes are passed over.
SawActiveDynamic(t) == \E i \in DOMAIN casts : casts[i].target = t /\ casts[i].dynamic /\ casts[i].active

SawDynamic(t) == \E i \in DOMAIN casts : casts[i].target = t /\ casts[i].dynamic

---------------------------------------------------------------------------
(* What is cast. *)

CloseWindow(w) ==
  /\ Has("move") /\ w \in scene.windows
  /\ scene' = [scene EXCEPT !.windows = @ \ {w}]
  /\ Casting(StopCastsForTarget(World, w))
  /\ clearing' = (clearing \/ SawDynamic(w))
  /\ UNCHANGED <<script, ipc>>

\* remove_output: the windows move to another output, if there is one.
RemoveCastOutput(o) ==
  /\ Has("move") /\ o \in scene.outputs
  /\ LET left == scene.outputs \ {o} IN
     \E to \in IF left = {} THEN {Nothing} ELSE left :
       scene' = [scene EXCEPT
         !.outputs = left,
         !.output = [w \in Windows |-> IF @[w] = o THEN to ELSE @[w]]]
  /\ Casting(StopCastsForTarget([World EXCEPT !.redraws = @ \ {o}], o))
  /\ RemoveScreencopyOutput(o)
  /\ clearing' = (clearing \/ SawDynamic(o))
  /\ UNCHANGED <<script, ipc>>

\* An output is plugged in, and windows without one go there; or a window is moved.
MoveWindows ==
  /\ Has("move") /\ ~clearing
  /\ \E o \in Outputs :
       \/ /\ o \notin scene.outputs
          /\ scene' = [scene EXCEPT !.outputs = @ \cup {o},
                                    !.output = [w \in Windows |-> IF @[w] = Nothing THEN o ELSE @[w]]]
       \/ /\ o \in scene.outputs
          /\ \E w \in scene.windows :
               {w, Portal} \cap script.targets # {} /\ scene.output[w] # o /\ scene' = [scene EXCEPT !.output[w] = o]
  /\ UNCHANGED <<script, session, toNiri, fromPw, pipewire, casts, pending, clearing, redraws, ipc>>

\* A window is resized, or an output changes its mode, which redraws it.
ResizeTarget(t) ==
  /\ Has("resize") /\ t \in script.targets \cap Targets
  /\ \E size \in Sizes \ {scene.size[t]} : scene' = [scene EXCEPT !.size[t] = size]
  /\ redraws' = redraws \cup ((IF t \in Outputs THEN {t} ELSE {scene.output[t]}) \cap scene.outputs)
  /\ UNCHANGED <<script, session, toNiri, fromPw, pipewire, casts, pending, clearing, ipc>>

---------------------------------------------------------------------------
(* State::refresh. *)

\* refresh_mapped_cast_outputs: casts of windows that moved take the rate of their output.
CastOutputs ==
  LET placed == {w \in scene.windows : scene.output[w] # Nothing}
      known == DOMAIN scene.cast_output \cap scene.windows
  IN  [w \in placed \cup known |-> IF w \in placed THEN scene.output[w] ELSE scene.cast_output[w]]

Moved == {w \in DOMAIN scene.cast_output \cap DOMAIN CastOutputs :
            CastOutputs[w] # scene.cast_output[w]}

\* ipc_refresh_casts: what a stream is announced as.
Announced(c) == [target |-> c.target, dynamic |-> c.dynamic, active |-> c.active, node |-> c.node]
AsPending == [target |-> Nothing, dynamic |-> TRUE, active |-> FALSE, node |-> FALSE]
AsCopy(o) == [target |-> o, dynamic |-> FALSE, active |-> TRUE, node |-> FALSE]

\* Mutant: the node id, which is not known at first, is not compared.
ChangedButNode(old, new) == old.active # new.active \/ old.target # new.target

Changed(old, new) ==
  old.active # new.active \/ old.target # new.target \/ old.node # new.node

\* A copy's entry changes only with its output.
IpcRefreshCasts(state, w, Q) ==
  LET waiting == ToSet(w.pending)
      running == {w.casts[i].stream : i \in DOMAIN w.casts}
      copying == {m \in DOMAIN Q : Q[m].cast # NoCast}
      at(x) == CHOOSE i \in DOMAIN w.casts : w.casts[i].stream = x
      entry(x) ==
        CASE x \in running ->
               LET new == Announced(w.casts[at(x)]) IN
               IF x \in DOMAIN state /\ ~Changed(state[x], new) THEN state[x] ELSE new
          [] x \in copying -> AsCopy(Q[x].cast.output)
          [] OTHER -> IF x \in DOMAIN state THEN state[x] ELSE AsPending
  IN  [x \in waiting \cup running \cup copying |-> entry(x)]

RefreshCasts ==
  /\ LET tuned == [World EXCEPT !.casts = [i \in DOMAIN casts |->
                     IF casts[i].target \in Moved
                     THEN SetRefresh(casts[i], CastOutputs[casts[i].target]) ELSE casts[i]]]
     IN  /\ RoomToOffer(tuned)
         /\ \E S \in Failures(tuned) :
              LET v == StopCasts(tuned, S) IN
              /\ Casting(v)
              /\ queues' = ClearExpiredCasts(queues)
              /\ ipc' = IF Has("ipc") THEN IpcRefreshCasts(ipc, v, queues') ELSE ipc
  /\ scene' = [scene EXCEPT !.cast_output = CastOutputs]
  /\ UNCHANGED <<script, clearing, managers, frames>>
  /\ <<castVars, queues>>' # <<castVars, queues>>

---------------------------------------------------------------------------
Size0 == CHOOSE x \in Sizes : TRUE
Output0 == CHOOSE o \in Outputs : TRUE

CastInit ==
  /\ script \in CastScenarios
  /\ session = [s \in Sessions |-> NewSession]
  /\ toNiri = <<>> /\ fromPw = <<>> /\ pipewire = FALSE
  /\ casts = <<>> /\ pending = <<>> /\ clearing = FALSE
  /\ scene = [windows |-> Windows, outputs |-> Outputs, output |-> [w \in Windows |-> Output0],
              cast_output |-> [w \in Windows |-> Output0], size |-> [t \in Targets |-> Size0]]
  /\ redraws = {} /\ ipc = <<>>
  /\ CopyInit

CastStep ==
  \/ \E x \in Streams, t \in Targets \cup {Portal} : RecordMonitor(x, t) \/ RecordWindow(x, t)
  \/ \E s \in Sessions : SessionStart(s) \/ SessionStop(s) \/ UserStops(s)
  \/ OnScreenCastMsg \/ OnPwMsg \/ PipeWireError
  \/ \E i \in DOMAIN casts :
       \/ StateChanged(i) \/ ParamChanged(i) \/ AddBuffer(i) \/ TimePasses(i) \/ ScheduledRedraw(i)
       \/ \E j \in DOMAIN casts[i].rendering : FenceSignalled(i, j)
  \/ \E o \in Outputs : QueueRedraw(o)
  \/ \E t \in Targets \cup {Nothing} : UserPicks(t)
  \/ ClearTarget
  \/ \E w \in Windows : CloseWindow(w)
  \/ MoveWindows
  \/ \E t \in Targets : ResizeTarget(t)

CastNext ==
  \/ CastStep /\ UNCHANGED copyVars
  \/ Has("copy") /\ CopyNext(scene.outputs) /\ UNCHANGED castVars
  \/ \E o \in Outputs : RedrawOutput(o) \/ RemoveCastOutput(o)
  \/ RefreshCasts

CastSpec == CastInit /\ [][CastNext]_<<castVars, copyVars>>

---------------------------------------------------------------------------
(* Properties. *)

\* Frames go to PipeWire in the order in which they were drawn, though fences signal in any
\* order, buffers are taken away and the cast is cleared in between
\* (queue_completed_buffers: "we do not want to queue them, since that would send frames out
\* of order"), and each was drawn into a buffer of its own size.
FramesInOrder ==
  \A i \in DOMAIN casts :
    \A j \in DOMAIN casts[i].rendering :
      /\ casts[i].rendering[j].number > casts[i].queued
      /\ casts[i].rendering[j].buffer = casts[i].rendering[j].size

\* A portal is never left waiting: a stream that was started is about to be, is cast or
\* waits for its target, or its session was closed; and a session that is closed leaves no
\* cast behind, however its start and its stop race, unless the message that ends it is
\* still on its way.  The exception is a start that came between that message and the
\* streams being taken (stop, start), which nothing ends.
StreamsAccountedFor ==
  \A s \in Sessions :
    LET known(x) == \/ \E i \in DOMAIN toNiri : toNiri[i].kind = "StartCast" /\ toNiri[i].stream = x
                    \/ \E i \in DOMAIN casts : casts[i].stream = x
                    \/ \E i \in DOMAIN pending : pending[i] = x
    IN  /\ session[s].phase = "Open" => \A x \in session[s].started : known(x)
        /\ /\ session[s].phase \in {"Told", "Gone"} /\ ~session[s].late
           /\ \E x \in Streams : SessionOf[x] = s /\ known(x)
           => \E i \in DOMAIN toNiri : toNiri[i] = StopMsg(s)

\* A cast shows something that is there.  When it goes away the cast is stopped, or shows
\* nothing as soon as the event loop is idle.
TargetsAreThere ==
  \A i \in DOMAIN casts :
    casts[i].target \in scene.windows \cup scene.outputs \cup {Nothing} \/ (casts[i].dynamic /\ clearing)

\* "All dynamic casts share the same target" (docs/wiki/Screencasting.md), once they have
\* started, unless PipeWire refused the rate of the new one.
DynamicCastsAgree ==
  ~Has("fatal") =>
    \A i, j \in DOMAIN casts :
      casts[i].dynamic /\ casts[j].dynamic => casts[i].target = casts[j].target

\* What a cast shows is there, and what the user chose (stop_casts_for_target,
\* set_dynamic_cast_target).
TargetsHold == TargetsAreThere /\ DynamicCastsAgree

\* "If the frame should be skipped, schedules a redraw" (check_time_and_schedule): a cast
\* that is behind what it shows has a redraw coming.
SkippedFramesFollow ==
  \A i \in DOMAIN casts :
    LET c == casts[i] IN
    c.skipped /\ c.active /\ c.state = "Ready" =>
      c.scheduled = "Running" \/ \E o \in redraws : Shows(o, c.target)

\* When a refresh has nothing to announce, the event stream has every stream, shown as
\* its cast is, and every manager whose copies wait for damage, and nothing else.
CastsAnnounced ==
  LET copying == {m \in DOMAIN queues : queues[m].cast # NoCast} IN
  Has("ipc") /\ IpcRefreshCasts(ipc, World, ClearExpiredCasts(queues)) = ipc =>
    /\ DOMAIN ipc \subseteq ToSet(pending) \cup {casts[i].stream : i \in DOMAIN casts} \cup copying
    /\ \A i \in DOMAIN casts :
         casts[i].stream \in DOMAIN ipc /\ ipc[casts[i].stream] = Announced(casts[i])
    /\ \A m \in DOMAIN queues : queues[m].copies # <<>> =>
         m \in DOMAIN ipc /\ ipc[m].target = queues[m].cast.output
=============================================================================
