--------------------------- MODULE OutputRedraw ---------------------------
(***************************************************************************)
(* The redraw loop of the TTY backend and the ext-session-lock handshake   *)
(* that rides on it (src/niri.rs, src/backend/tty.rs, src/handlers).       *)
(*                                                                         *)
(* Every output runs the RedrawState machine: a redraw is queued, rendered *)
(* at the end of an event-loop iteration, submitted to KMS and finished by *)
(* a vblank, or, when nothing was submitted, by an estimated-vblank timer. *)
(* A lock request waits for the lock surfaces (at most one second), then   *)
(* redraws every output and is confirmed once all of them took a locked    *)
(* frame.  Outputs come and go, monitors are powered off and on and the    *)
(* session is switched to another VT in the middle of all this.            *)
(*                                                                         *)
(* The display hardware is external and is modelled from how tty.rs uses   *)
(* it: flight is the frame handed to queue_frame whose vblank is awaited,  *)
(* shown is what the monitor displays ("blank": anything that is not a     *)
(* frame of this session - no framebuffer, or another VT's).               *)
(***************************************************************************)
EXTENDS Naturals

CONSTANTS
  Outputs,      \* connectors that may carry a monitor
  Clients,      \* screen lockers
  NoClient,
  Hotplug,      \* TRUE: monitors are plugged and unplugged
  Throttling,   \* TRUE: the driver delivers vblanks too early (VBlankThrottle)
  Spurious,     \* TRUE: the driver delivers vblanks nobody waits for
  MaxTimers     \* bound on the estimated-vblank timers of an output

ASSUME ClientAssumption == NoClient \notin Clients
ASSUME TimerAssumption == MaxTimers \in Nat \ {0}
ASSUME SwitchAssumption == {Hotplug, Throttling, Spurious} \subseteq BOOLEAN

VARIABLES
  connected,          \* keys of Niri::output_state
  redraw_state,       \* OutputState::redraw_state
  timers,             \* live estimated-vblank timers of the output
  throttle,           \* VBlankThrottle::throttle_timer_token is set
  orphan,             \* throttle timer left behind by a removed output
  flight, shown,      \* the hardware
  anim,               \* OutputState::unfinished_animations_remain
  lock_render_state,  \* OutputState::lock_render_state
  lock_surface,       \* OutputState::lock_surface and whether it is mapped
  monitors_active,    \* Niri::monitors_active
  session_active,     \* device.drm.is_active()
  lock_state,         \* Niri::lock_state
  lock_client,        \* whose ext_session_lock the lock_state holds
  lock_alive,         \* ... and whether that object still exists
  deadline,           \* the one-second timer of lock() is registered
  client              \* what each locker was told

drawVars == <<redraw_state, timers, throttle, orphan, flight, shown, anim>>
lockVars == <<lock_state, lock_client, lock_alive, deadline, client>>
vars == <<connected, drawVars, lock_render_state, lock_surface, monitors_active,
          session_active, lockVars>>

RedrawStates == {"Idle", "Queued", "WaitingForVBlank",
                 "WaitingForVBlankRedrawNeeded", "WaitingForEstimatedVBlank",
                 "WaitingForEstimatedVBlankAndQueued"}
Frames == {"session", "lock", "blank"}
LockStates == {"Unlocked", "WaitingForSurfaces", "Locking", "Locked"}

is_locked == lock_state \in {"Locking", "Locked"}

Queued(rs) == rs \in {"Queued", "WaitingForEstimatedVBlankAndQueued"}
Estimating(rs) == rs \in {"WaitingForEstimatedVBlank",
                          "WaitingForEstimatedVBlankAndQueued"}
AwaitingVBlank(rs) == rs \in {"WaitingForVBlank", "WaitingForVBlankRedrawNeeded"}

---------------------------------------------------------------------------
(* Queueing redraws. *)

\* Mutant: a request during WaitingForVBlank does not wait for the vblank.
QueueRedrawAtOnce(rs) ==
  IF rs = "WaitingForEstimatedVBlank" THEN "WaitingForEstimatedVBlankAndQueued"
                                      ELSE "Queued"

\* RedrawState::queue_redraw
QueueRedraw(rs) ==
  CASE rs = "Idle" -> "Queued"
    [] rs = "WaitingForEstimatedVBlank" -> "WaitingForEstimatedVBlankAndQueued"
    [] rs = "WaitingForVBlank" -> "WaitingForVBlankRedrawNeeded"
    [] OTHER -> rs

\* redraw_state after queueing a redraw of every output in S.
QueueRedrawOn(S, rs) ==
  [o \in Outputs |-> IF o \in S THEN QueueRedraw(rs[o]) ELSE rs[o]]

---------------------------------------------------------------------------
(* The session lock. *)

\* confirmation.lock(): the locker is told the session is locked.
ConfirmLock(c, alive) ==
  /\ lock_state' = "Locked"
  /\ lock_client' = c
  /\ lock_alive' = alive
  /\ client' = IF alive THEN [client EXCEPT ![c] = "locked"] ELSE client

\* The parts of Niri::unlock that concern the lock itself.  Dropping an
\* unconfirmed SessionLocker sends `finished`, so the locker may try again.
DropLock ==
  /\ lock_state' = "Unlocked"
  /\ lock_client' = NoClient
  /\ lock_alive' = FALSE
  /\ deadline' = FALSE
  /\ client' = IF lock_alive THEN [client EXCEPT ![lock_client] = "idle"] ELSE client
  /\ lock_surface' = [o \in Outputs |-> "none"]

\* Niri::lock.  A refused request drops the SessionLocker: nothing changes.
Lock(c) ==
  /\ client[c] = "idle"
  /\ \/ /\ lock_state = "Locked" /\ ~lock_alive
        /\ ConfirmLock(c, TRUE)
        /\ UNCHANGED deadline
     \/ /\ lock_state = "Unlocked" /\ connected = {}
        /\ ConfirmLock(c, TRUE)
        /\ UNCHANGED deadline
     \/ /\ lock_state = "Unlocked" /\ connected # {}
        /\ lock_state' = "WaitingForSurfaces"
        /\ lock_client' = c
        /\ lock_alive' = TRUE
        /\ deadline' = TRUE
        /\ client' = [client EXCEPT ![c] = "pending"]
  /\ UNCHANGED <<connected, drawVars, lock_render_state, lock_surface,
                 monitors_active, session_active>>

\* Mutants of ContinueToLocking: it confirms without waiting for locked frames; it
\* leaves the deadline timer registered; it does not queue the redraws.
ContinueWithoutFrames(conn, rs) ==
  /\ deadline' = FALSE
  /\ ConfirmLock(lock_client, lock_alive)
  /\ redraw_state' = QueueRedrawOn(conn, rs)
ContinueKeepsDeadline(conn, rs) ==
  /\ deadline' = deadline
  /\ lock_state' = "Locking"
  /\ redraw_state' = QueueRedrawOn(conn, rs)
  /\ UNCHANGED <<lock_client, lock_alive, client>>
ContinueWithoutRedraw(conn, rs) ==
  /\ deadline' = FALSE
  /\ lock_state' = "Locking"
  /\ redraw_state' = rs
  /\ UNCHANGED <<lock_client, lock_alive, client>>

\* Niri::continue_to_locking in the state WaitingForSurfaces, with the outputs
\* conn left and rs their redraw states.
ContinueToLocking(conn, rs) ==
  /\ deadline' = FALSE
  /\ IF conn = {}
       THEN /\ ConfirmLock(lock_client, lock_alive)
            /\ redraw_state' = rs
       ELSE /\ lock_state' = "Locking"
            /\ redraw_state' = QueueRedrawOn(conn, rs)
            /\ UNCHANGED <<lock_client, lock_alive, client>>

\* Niri::maybe_continue_to_locking's condition.
SurfacesReady(conn, surfaces) == \A o \in conn : surfaces[o] = "mapped"

\* The deadline timer of lock().
LockDeadline ==
  /\ deadline
  /\ IF lock_state = "WaitingForSurfaces"
       THEN ContinueToLocking(connected, redraw_state)
       ELSE /\ deadline' = FALSE
            /\ UNCHANGED <<lock_state, lock_client, lock_alive, client, redraw_state>>
  /\ UNCHANGED <<connected, timers, throttle, orphan, flight, shown, anim,
                 lock_render_state, lock_surface, monitors_active,
                 session_active>>

\* SessionLockHandler::new_surface / Niri::new_lock_surface.
NewLockSurface(c, o) ==
  /\ o \in connected
  /\ lock_state # "Unlocked"
  /\ lock_client = c /\ lock_alive
  /\ lock_surface' = [lock_surface EXCEPT ![o] = "created"]
  /\ UNCHANGED <<connected, drawVars, lock_render_state, monitors_active,
                 session_active, lockVars>>

\* CompositorHandler::commit on a lock surface.
LockSurfaceCommit(o) ==
  /\ o \in connected
  /\ lock_alive
  /\ lock_surface[o] \in {"created", "mapped"}
  /\ lock_surface' = [lock_surface EXCEPT ![o] = "mapped"]
  /\ IF lock_state = "WaitingForSurfaces"
       THEN IF SurfacesReady(connected, lock_surface')
              THEN ContinueToLocking(connected, redraw_state)
              ELSE UNCHANGED <<lockVars, redraw_state>>
       ELSE /\ redraw_state' = QueueRedrawOn({o}, redraw_state)
            /\ UNCHANGED lockVars
  /\ UNCHANGED <<connected, timers, throttle, orphan, flight, shown, anim,
                 lock_render_state, monitors_active, session_active>>

\* Mutant: the lock goes away with the locker.
LockClientGoneUnlocks(c) ==
  /\ client[c] # "idle"
  /\ DropLock
  /\ redraw_state' = QueueRedrawOn(connected, redraw_state)
  /\ UNCHANGED <<connected, timers, throttle, orphan, flight, shown, anim,
                 lock_render_state, monitors_active, session_active>>

\* The locker exits or is killed: its objects die, niri keeps the lock.
LockClientGone(c) ==
  /\ client[c] # "idle"
  /\ client' = [client EXCEPT ![c] = "idle"]
  /\ lock_alive' = (lock_alive /\ lock_client # c)
  /\ lock_surface' = IF lock_client = c
                       THEN [o \in Outputs |-> IF lock_surface[o] = "none"
                                               THEN "none" ELSE "dead"]
                       ELSE lock_surface
  /\ UNCHANGED <<connected, drawVars, lock_render_state, monitors_active,
                 session_active, lock_state, lock_client, deadline>>

\* SessionLockHandler::unlock, on unlock_and_destroy of a confirmed lock.
ClientUnlock(c) ==
  /\ client[c] = "locked"
  /\ DropLock
  /\ monitors_active' = TRUE
  /\ redraw_state' = QueueRedrawOn(connected, redraw_state)
  /\ UNCHANGED <<connected, timers, throttle, orphan, flight, shown, anim,
                 lock_render_state, session_active>>

---------------------------------------------------------------------------
(* Rendering. *)

\* Mutant: the timer survives the submission.
TokenKept(rs, n) == n

\* event_loop.remove(token) when a submitted frame replaces the estimated vblank.
TokenRemoved(rs, n) == IF rs = "Queued" THEN n ELSE n - 1

\* queue_estimated_vblank_timer: a timer that is already running is kept.
TokenInserted(rs, n) == IF rs = "Queued" THEN n + 1 ELSE n

\* What backend.render() may return and do to the output: the redraw state it
\* leaves, its timers and its in-flight frame.  A frame identical to the last
\* one queued is empty (NoDamage); queue_frame fails while a frame is in flight.
\* The first alternative is every early return, and also redraw() with inactive
\* monitors, followed by redraw()'s own fix-up of a Skipped render.
RenderOutcomes(o) ==
  LET rs == redraw_state[o]
      kind == IF is_locked THEN "lock" ELSE "session"
      last == IF flight[o] = "none" THEN shown[o] ELSE flight[o]
      rendering == monitors_active /\ session_active
  IN {[res |-> "Skipped", timers |-> timers[o], flight |-> flight[o],
       rs |-> IF rs = "Queued" THEN "Idle" ELSE "WaitingForEstimatedVBlank"]}
     \cup {out \in [res : {"Skipped", "NoDamage"}, timers : {TokenInserted(rs, timers[o])},
                     flight : {flight[o]}, rs : {"WaitingForEstimatedVBlank"}] :
             /\ rendering
             /\ out.res = "NoDamage" => last = kind
             /\ out.timers <= MaxTimers}
     \cup {out \in [res : {"Submitted"}, timers : {TokenRemoved(rs, timers[o])},
                     flight : {kind}, rs : {"WaitingForVBlank"}] :
             rendering /\ flight[o] = "none"}

\* Niri::redraw, one turn of the loop of redraw_queued_outputs.  The loop runs its
\* turns back to back; here other events may come between two turns as well.
Redraw(o) ==
  /\ o \in connected
  /\ Queued(redraw_state[o])
  /\ \E out \in RenderOutcomes(o) :
       LET rs == [redraw_state EXCEPT ![o] = out.rs]
           lrs == IF out.res # "Skipped" \/ ~monitors_active
                    THEN [lock_render_state EXCEPT ![o] =
                            IF is_locked THEN "Locked" ELSE "Unlocked"]
                    ELSE lock_render_state
       IN /\ timers' = [timers EXCEPT ![o] = out.timers]
          /\ flight' = [flight EXCEPT ![o] = out.flight]
          /\ lock_render_state' = lrs
          /\ \/ /\ lock_state = "Locking"
                /\ lrs[o] = "Unlocked"          \* a locked frame was needed
                /\ DropLock
                /\ redraw_state' = QueueRedrawOn(connected, rs)
             \/ /\ lock_state = "Locking"
                /\ lrs[o] = "Locked"
                /\ \A p \in connected : lrs[p] = "Locked"
                /\ ConfirmLock(lock_client, lock_alive)
                /\ redraw_state' = rs
                /\ UNCHANGED <<deadline, lock_surface>>
             \/ /\ lock_state = "Locking" => \E p \in connected : lrs[p] # "Locked"
                /\ lock_state = "Locking" => lrs[o] = "Locked"
                /\ redraw_state' = rs
                /\ UNCHANGED <<lockVars, lock_surface>>
  /\ \E unfinished \in BOOLEAN :
       anim' = IF monitors_active THEN [anim EXCEPT ![o] = unfinished] ELSE anim
  /\ UNCHANGED <<connected, throttle, orphan, shown, monitors_active, session_active>>

\* Anything that asks for a redraw: commits, input, animations, IPC.
RequestRedraw(o) ==
  /\ o \in connected
  /\ redraw_state' = QueueRedrawOn({o}, redraw_state)
  /\ UNCHANGED <<connected, timers, throttle, orphan, flight, shown, anim,
                 lock_render_state, lock_surface, monitors_active,
                 session_active, lockVars>>

---------------------------------------------------------------------------
(* Vblanks. *)

\* Mutant: the handler forgets redraw_needed.
HandleVBlankForgets(o) ==
  redraw_state' = [redraw_state EXCEPT ![o] = IF anim[o] THEN "Queued" ELSE "Idle"]

\* Tty::on_vblank past the throttle: in any state but WaitingForVBlank the
\* event is unexpected and a redraw is forced.
HandleVBlank(o) ==
  redraw_state' = [redraw_state EXCEPT ![o] =
                     IF @ # "WaitingForVBlank" \/ anim[o] THEN "Queued" ELSE "Idle"]

\* Mutant: a throttled vblank is dropped instead of being put off.
OnVBlankDropped(o) ==
  \/ /\ throttle' = [throttle EXCEPT ![o] = FALSE]
     /\ HandleVBlank(o)
  \/ Throttling /\ UNCHANGED <<throttle, redraw_state>>

\* Tty::on_vblank up to and including VBlankThrottle::throttle.
OnVBlank(o) ==
  \/ /\ throttle' = [throttle EXCEPT ![o] = FALSE]
     /\ HandleVBlank(o)
  \/ /\ Throttling
     /\ throttle' = [throttle EXCEPT ![o] = TRUE]
     /\ UNCHANGED redraw_state

\* The hardware presents the frame in flight and signals the vblank.
FlipDone(o) ==
  /\ o \in connected
  /\ flight[o] # "none"
  /\ shown' = [shown EXCEPT ![o] = flight[o]]
  /\ flight' = [flight EXCEPT ![o] = "none"]
  /\ OnVBlank(o)
  /\ UNCHANGED <<connected, timers, orphan, anim, lock_render_state, lock_surface,
                 monitors_active, session_active, lockVars>>

\* A vblank event nobody waits for ("Kernel sending rogue vblank events?").
SpuriousVBlank(o) ==
  /\ Spurious
  /\ o \in connected
  /\ OnVBlank(o)
  /\ UNCHANGED <<connected, timers, orphan, flight, shown, anim, lock_render_state,
                 lock_surface, monitors_active, session_active, lockVars>>

\* The throttle timer calls on_vblank again, long enough after the last vblank.
ThrottleTimer(o) ==
  /\ throttle[o]
  /\ throttle' = [throttle EXCEPT ![o] = FALSE]
  /\ HandleVBlank(o)
  /\ UNCHANGED <<connected, timers, orphan, flight, shown, anim, lock_render_state,
                 lock_surface, monitors_active, session_active, lockVars>>

\* A throttle timer that outlived its output: it finds the connector by CRTC, so
\* it reaches whatever output sits there now, which may throttle it again, or nothing.
OrphanThrottleTimer(o) ==
  /\ orphan[o]
  /\ orphan' = [orphan EXCEPT ![o] = FALSE]
  /\ IF o \in connected THEN OnVBlank(o) ELSE UNCHANGED <<throttle, redraw_state>>
  /\ UNCHANGED <<connected, timers, flight, shown, anim, lock_render_state,
                 lock_surface, monitors_active, session_active, lockVars>>

\* Tty::on_estimated_vblank_timer.  The other redraw states are unreachable!().
EstimatedVBlankTimer(o) ==
  /\ timers[o] > 0
  /\ timers' = [timers EXCEPT ![o] = @ - 1]
  /\ Estimating(redraw_state[o])
  /\ redraw_state' = [redraw_state EXCEPT ![o] =
                        IF @ = "WaitingForEstimatedVBlankAndQueued" \/ anim[o]
                          THEN "Queued" ELSE "Idle"]
  /\ UNCHANGED <<connected, throttle, orphan, flight, shown, anim, lock_render_state,
                 lock_surface, monitors_active, session_active, lockVars>>

---------------------------------------------------------------------------
(* Outputs, power and VT switches.  Connector changes found by the resume  *)
(* handler are AddOutput / RemoveOutput steps before ActivateSession.      *)

\* Niri::add_output.  reposition_outputs queues a redraw of the new output and
\* of the outputs it moves.
AddOutput(o) ==
  /\ Hotplug
  /\ o \notin connected
  /\ connected' = connected \cup {o}
  /\ lock_render_state' = [lock_render_state EXCEPT ![o] =
                             IF is_locked THEN "Locked" ELSE "Unlocked"]
  /\ \E moved \in SUBSET connected :
       redraw_state' = QueueRedrawOn(moved \cup {o}, redraw_state)
  /\ UNCHANGED <<timers, throttle, orphan, flight, shown, anim, lock_surface,
                 monitors_active, session_active, lockVars>>

\* Niri::remove_output.  The estimated-vblank timer is removed by its token, the
\* throttle timer is not.
RemoveOutput(o) ==
  /\ Hotplug
  /\ o \in connected
  /\ connected' = connected \ {o}
  /\ timers' = [timers EXCEPT ![o] = 0]
  /\ orphan' = [orphan EXCEPT ![o] = @ \/ throttle[o]]
  /\ throttle' = [throttle EXCEPT ![o] = FALSE]
  /\ flight' = [flight EXCEPT ![o] = "none"]
  /\ shown' = [shown EXCEPT ![o] = "blank"]
  /\ anim' = [anim EXCEPT ![o] = FALSE]
  /\ lock_render_state' = [lock_render_state EXCEPT ![o] = "Unlocked"]
  /\ lock_surface' = [lock_surface EXCEPT ![o] = "none"]
  /\ \E moved \in SUBSET connected' :
       LET rs == QueueRedrawOn(moved, [redraw_state EXCEPT ![o] = "Idle"])
       IN \/ /\ lock_state = "Locking"
             /\ IF \A p \in connected' : lock_render_state[p] = "Locked"
                  THEN ConfirmLock(lock_client, lock_alive)
                  ELSE UNCHANGED <<lock_state, lock_client, lock_alive, client>>
             /\ redraw_state' = rs
             /\ UNCHANGED deadline
          \/ /\ lock_state = "WaitingForSurfaces"
             /\ SurfacesReady(connected', lock_surface)
             /\ ContinueToLocking(connected', rs)
          \/ /\ lock_state = "WaitingForSurfaces" => ~SurfacesReady(connected', lock_surface)
             /\ lock_state # "Locking"
             /\ redraw_state' = rs
             /\ UNCHANGED lockVars
  /\ UNCHANGED <<monitors_active, session_active>>

\* Frames lose the screen: what is shown is not ours, and the vblank of a frame
\* in flight still arrives but shows nothing of it.
BlankScreens ==
  /\ shown' = [o \in Outputs |-> "blank"]
  /\ flight' = [o \in Outputs |-> IF flight[o] = "none" THEN "none" ELSE "blank"]

\* Niri::deactivate_monitors; Tty::set_monitors_active clears every surface.
DeactivateMonitors ==
  /\ monitors_active
  /\ monitors_active' = FALSE
  /\ BlankScreens
  /\ UNCHANGED <<connected, redraw_state, timers, throttle, orphan, anim,
                 lock_render_state, lock_surface, session_active, lockVars>>

\* Niri::activate_monitors.
ActivateMonitors ==
  /\ ~monitors_active
  /\ monitors_active' = TRUE
  /\ redraw_state' = QueueRedrawOn(connected, redraw_state)
  /\ UNCHANGED <<connected, timers, throttle, orphan, flight, shown, anim,
                 lock_render_state, lock_surface, session_active, lockVars>>

\* Tty::on_session_event, PauseSession: another VT owns the screens.
PauseSession ==
  /\ session_active
  /\ session_active' = FALSE
  /\ BlankScreens
  /\ UNCHANGED <<connected, redraw_state, timers, throttle, orphan, anim,
                 lock_render_state, lock_surface, monitors_active, lockVars>>

\* Tty::on_session_event, ActivateSession.
ActivateSession ==
  /\ ~session_active
  /\ session_active' = TRUE
  /\ monitors_active' = TRUE
  /\ redraw_state' = QueueRedrawOn(connected, redraw_state)
  /\ UNCHANGED <<connected, timers, throttle, orphan, flight, shown, anim,
                 lock_render_state, lock_surface, lockVars>>

---------------------------------------------------------------------------
\* Niri::new.
Init ==
  /\ connected = IF Hotplug THEN {} ELSE Outputs
  /\ redraw_state = [o \in Outputs |-> IF Hotplug THEN "Idle" ELSE "Queued"]
  /\ timers = [o \in Outputs |-> 0]
  /\ throttle = [o \in Outputs |-> FALSE]
  /\ orphan = [o \in Outputs |-> FALSE]
  /\ flight = [o \in Outputs |-> "none"]
  /\ shown = [o \in Outputs |-> "blank"]
  /\ anim = [o \in Outputs |-> FALSE]
  /\ lock_render_state = [o \in Outputs |-> "Unlocked"]
  /\ lock_surface = [o \in Outputs |-> "none"]
  /\ monitors_active = TRUE
  /\ session_active = TRUE
  /\ lock_state = "Unlocked"
  /\ lock_client = NoClient
  /\ lock_alive = FALSE
  /\ deadline = FALSE
  /\ client = [c \in Clients |-> "idle"]

LockNext ==
  \/ \E c \in Clients : Lock(c) \/ LockClientGone(c) \/ ClientUnlock(c)
  \/ \E c \in Clients, o \in Outputs : NewLockSurface(c, o)
  \/ \E o \in Outputs : LockSurfaceCommit(o)
  \/ LockDeadline

DrawNext ==
  \E o \in Outputs : \/ Redraw(o) \/ RequestRedraw(o)
                     \/ FlipDone(o) \/ SpuriousVBlank(o) \/ ThrottleTimer(o)
                     \/ OrphanThrottleTimer(o) \/ EstimatedVBlankTimer(o)

OutputNext ==
  \/ \E o \in Outputs : AddOutput(o) \/ RemoveOutput(o)
  \/ DeactivateMonitors \/ ActivateMonitors
  \/ PauseSession \/ ActivateSession

Next == LockNext \/ DrawNext \/ OutputNext

Spec == Init /\ [][Next]_vars

\* Timers fire, submitted frames are presented, and every iteration of the event
\* loop ends with redraw_queued_outputs().  Clients and the user promise nothing.
Fairness ==
  /\ \A o \in Outputs : WF_vars(Redraw(o)) /\ WF_vars(FlipDone(o))
                        /\ WF_vars(ThrottleTimer(o)) /\ WF_vars(EstimatedVBlankTimer(o))
  /\ WF_vars(LockDeadline)

LiveSpec == Spec /\ Fairness

---------------------------------------------------------------------------
(* Properties. *)

DrawTypeOK ==
  /\ connected \subseteq Outputs
  /\ redraw_state \in [Outputs -> RedrawStates]
  /\ timers \in [Outputs -> Nat]
  /\ flight \in [Outputs -> Frames \cup {"none"}]
  /\ shown \in [Outputs -> Frames]
  /\ lock_render_state \in [Outputs -> {"Unlocked", "Locked"}]
  /\ lock_surface \in [Outputs -> {"none", "created", "mapped", "dead"}]

FlagTypeOK ==
  /\ throttle \in [Outputs -> BOOLEAN]
  /\ orphan \in [Outputs -> BOOLEAN]
  /\ anim \in [Outputs -> BOOLEAN]
  /\ monitors_active \in BOOLEAN
  /\ session_active \in BOOLEAN
  /\ lock_alive \in BOOLEAN
  /\ deadline \in BOOLEAN

LockTypeOK ==
  /\ lock_state \in LockStates
  /\ lock_client \in Clients \cup {NoClient}
  /\ client \in [Clients -> {"idle", "pending", "locked"}]

\* Types.  timers \in [Outputs -> Nat] has content: event_loop.remove() and the timer
\* handlers never take an estimated-vblank timer that is not there.
TypeOK == DrawTypeOK /\ FlagTypeOK /\ LockTypeOK

\* The estimated-vblank timer is live exactly while the redraw state holds its
\* token: it never fires in one of the unreachable!() arms of
\* on_estimated_vblank_timer, and never fails to fire for a waiting output.
EstimatedTimerMatchesState ==
  \A o \in Outputs :
    timers[o] = IF Estimating(redraw_state[o]) THEN 1 ELSE 0

\* An output waits for a vblank exactly while one is due: from the hardware or
\* from the throttle timer.  Otherwise the output would freeze for good, as
\* queue_redraw() in this state only leaves a note for the vblank handler.
VBlankIsDue ==
  \A o \in Outputs :
    AwaitingVBlank(redraw_state[o]) <=> (flight[o] # "none" \/ throttle[o])

\* Once a locker was told `locked`, no output shows a frame of the session but
\* for the instant before a locked frame that was already submitted replaces it,
\* and no session frame is on its way - whatever outputs, power and VTs do.
LockedHidesSession ==
  lock_state = "Locked" =>
    \A o \in connected : /\ flight[o] # "session"
                         /\ shown[o] = "session" => flight[o] = "lock"

\* What lockers were told agrees with niri's state: a confirmed locker holds the
\* lock, a pending one is the one being waited for, and the one-second deadline
\* is registered exactly while its surfaces are awaited.
ConfirmationsAgree ==
  /\ \A c \in Clients :
       /\ client[c] = "locked" => lock_state = "Locked" /\ lock_client = c /\ lock_alive
       /\ client[c] = "pending" => /\ lock_state \in {"WaitingForSurfaces", "Locking"}
                                   /\ lock_client = c /\ lock_alive
  /\ deadline <=> lock_state = "WaitingForSurfaces"

\* on_estimated_vblank_timer never reaches one of its unreachable!() arms.
EstimatedTimerReachable ==
  \A o \in connected : timers[o] > 0 => Estimating(redraw_state[o])

\* A confirmed lock is ended by its locker's unlock request only: not by a failed
\* render, a crashed locker, an unplugged output, a power-off or a VT switch.
OnlyClientUnlocks ==
  [][lock_state = "Locked" /\ lock_state' # "Locked"
       => \E c \in Clients : ClientUnlock(c)]_vars

RedrawWanted(o) == Queued(redraw_state[o]) \/ redraw_state[o] = "WaitingForVBlankRedrawNeeded"

\* A requested redraw is never forgotten: the request ends with a redraw or with
\* the output, not in a vblank or timer handler.
RequestNotLost ==
  [][\A o \in Outputs :
       RedrawWanted(o) /\ ~RedrawWanted(o)' => Redraw(o) \/ RemoveOutput(o)]_vars

\* Every requested redraw happens (or its output goes away), whichever of the
\* vblank, the estimated timer and the throttle timer it has to wait for.  A
\* redraw that fails while a lock is being established drops the lock and queues
\* every output again, so those are left to LockSettles.
RedrawServed ==
  \A o \in Outputs :
    (RedrawWanted(o) /\ lock_state # "Locking") ~>
      (~RedrawWanted(o) \/ lock_state = "Locking")

\* A lock request is always settled, by a confirmation or a refusal.
LockSettles ==
  (lock_state \in {"WaitingForSurfaces", "Locking"}) ~>
    (lock_state \in {"Unlocked", "Locked"})
===========================================================================
