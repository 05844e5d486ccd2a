----------------------------- MODULE Screencopy -----------------------------
(***************************************************************************)
(* wlr-screencopy (src/protocols/screencopy.rs).  A client binds a manager,*)
(* captures outputs into frames and asks for a copy of each: at once, or   *)
(* when the output is next redrawn with damage, in which case the copy     *)
(* waits in the queue of its manager.  A queue outlives its manager while  *)
(* there are frames.  A manager whose copies wait for damage is shown as a *)
(* cast, until it has had none for some seconds.                           *)
(*                                                                         *)
(* The wayland library is modelled from its use: an object whose client    *)
(* destroyed it, or left, is no longer alive, and its destroyed handler    *)
(* runs some time later.  A client that breaks the protocol is            *)
(* disconnected.  Regions, formats and buffer sizes are left out.          *)
(***************************************************************************)
EXTENDS Integers, Retaining

CONSTANTS Managers, Frames, Outputs, NoCast, Absent

ASSUME CopyAssumption ==
  /\ Absent \notin Managers \cup Outputs \cup {"Removed"} /\ "Removed" \notin Outputs
  /\ NoCast \notin [output : Outputs, expired : BOOLEAN]

VARIABLES
  managers,   \* of a manager: whether it is alive
  queues,     \* ScreencopyManagerState::queues
  frames      \* of a frame: its object and the copy that was asked of it

copyVars == <<managers, queues, frames>>

\* ScreencopyQueue::new
NewQueue == [pending |-> {}, copies |-> <<>>, cast |-> NoCast]

NewFrame == [object |-> "None", of |-> Absent, output |-> Absent, copied |-> FALSE,
             drawing |-> FALSE, answers |-> 0]

IsEmpty(q) == q.pending = {} /\ q.copies = <<>>

Without(Q, S) == [m \in DOMAIN Q \ S |-> Q[m]]

IsAlive(m) == managers[m] = "Alive"

\* The queue of a manager becomes q, or is deleted when q is empty and the manager is gone.
Settled(Q, m, q) ==
  IF IsEmpty(q) /\ ~IsAlive(m) THEN Without(Q, {m}) ELSE [Q EXCEPT ![m] = q]

\* cleanup_queues
CleanupQueues(Q) == Without(Q, {m \in DOMAIN Q : ~IsAlive(m) /\ IsEmpty(Q[m])})

\* ScreencopyCast::new; its deadline is kept as whether it has passed.
NewCopyCast(o) == [output |-> o, expired |-> FALSE]

\* ScreencopyQueue::push
Push(q, f, o) ==
  [q EXCEPT !.copies = Append(@, f),
            !.cast = IF @ = NoCast THEN NewCopyCast(o)
                     ELSE IF q.copies = <<>> THEN [@ EXCEPT !.output = o] ELSE @]

\* What remove_output and remove_frame do: the deadline starts when the queue gets empty,
\* and the cast keeps its output when the first copy goes.
Retain(q, left) ==
  IF q.copies = <<>> THEN q
  ELSE [q EXCEPT !.copies = left,
                 !.cast = IF left = <<>> /\ @ # NoCast THEN [@ EXCEPT !.expired = FALSE] ELSE @]

\* ScreencopyQueue::pop
Pop(q) ==
  LET left == Tail(q.copies) IN
  [q EXCEPT !.copies = left,
            !.cast = IF left = <<>> THEN [@ EXCEPT !.expired = FALSE]
                     ELSE [@ EXCEPT !.output = frames[Head(left)].output]]

\* clear_expired_casts
ClearExpiredCasts(Q) ==
  [m \in DOMAIN Q |->
     IF Q[m].cast # NoCast /\ Q[m].copies = <<>> /\ Q[m].cast.expired
     THEN [Q[m] EXCEPT !.cast = NoCast] ELSE Q[m]]

---------------------------------------------------------------------------
BindManager(m) ==
  /\ managers[m] = "None"
  /\ managers' = [managers EXCEPT ![m] = "Alive"]
  /\ queues' = [x \in DOMAIN queues \cup {m} |-> IF x = m THEN NewQueue ELSE queues[x]]
  /\ UNCHANGED frames

\* capture_output and capture_output_region: of an output whose global is gone, or of a
\* region outside of it, the frame fails at once and never gets to a queue; an output that
\* was removed a moment ago can still be captured.
CaptureOutput(m, f, o) ==
  /\ IsAlive(m) /\ frames[f].object = "None"
  /\ frames' = [frames EXCEPT ![f] =
                  [NewFrame EXCEPT !.object = "Alive", !.of = m, !.output = o,
                                   !.answers = IF o = Absent THEN 1 ELSE 0]]
  /\ queues' = IF o = Absent THEN queues ELSE [queues EXCEPT ![m].pending = @ \cup {f}]
  /\ UNCHANGED managers

\* A client leaves, or is disconnected for an error.
Disconnect(m) ==
  /\ managers' = [managers EXCEPT ![m] = IF @ = "Alive" THEN "Dying" ELSE @]
  /\ frames' = [f \in Frames |->
                  IF frames[f].of = m /\ frames[f].object = "Alive"
                  THEN [frames[f] EXCEPT !.object = "Dying"] ELSE frames[f]]

\* ManagerDestroyed and FrameDestroyed are the destroyed handlers.
DestroyManager(m) ==
  /\ IsAlive(m)
  /\ \/ managers' = [managers EXCEPT ![m] = "Dying"] /\ UNCHANGED frames
     \/ Disconnect(m)
  /\ UNCHANGED queues

ManagerDestroyed(m) ==
  /\ managers[m] = "Dying"
  /\ managers' = [managers EXCEPT ![m] = "Gone"]
  /\ queues' = IF m \in DOMAIN queues /\ IsEmpty(queues[m]) THEN Without(queues, {m}) ELSE queues
  /\ UNCHANGED frames

DestroyFrame(f) ==
  /\ frames[f].object = "Alive"
  /\ frames' = [frames EXCEPT ![f].object = "Dying"]
  /\ UNCHANGED <<managers, queues>>

\* Drop of Screencopy: copies that were not made fail.
Fail(F, S) == [f \in Frames |-> IF f \in S THEN [F[f] EXCEPT !.answers = @ + 1] ELSE F[f]]

FrameDestroyed(f) ==
  LET m == frames[f].of
      q == [Retain(queues[m], Retained(queues[m].copies, Frames \ {f})) EXCEPT !.pending = @ \ {f}]
      waits == m \in DOMAIN queues /\ f \in ToSet(queues[m].copies)
  IN
  /\ frames[f].object = "Dying"
  /\ frames' = [Fail(frames, IF waits THEN {f} ELSE {}) EXCEPT ![f].object = "Gone"]
  /\ queues' = IF m \notin DOMAIN queues \/ frames[f].output = Absent THEN queues
               ELSE Settled(queues, m, q)
  /\ UNCHANGED managers

\* The end of a request for a copy.
NoLongerPending(Q, m, f) ==
  Settled(Q, m, [Q[m] EXCEPT !.pending = @ \ {f}])

\* Mutant: a copy that waits for its fence is dropped as if it had failed.
DrawnTwice(frame, how) == [frame EXCEPT !.drawing = (how = "Fence"), !.answers = @ + 1]

Drawn(frame, how) ==
  CASE how = "Fence" -> [frame EXCEPT !.drawing = TRUE]
    [] OTHER -> [frame EXCEPT !.answers = @ + 1]

Drawings == {"Failed", "Signalled", "Fence"}

\* render_for_screencopy_without_damage: ready or failed, at once or after a fence.
CopyNow(F, f, how) == [F EXCEPT ![f] = Drawn(@, how)]

\* ScreencopyHandler::frame
HandleFrame(F, f, with_damage, outputs) ==
  LET m == F[f].of
      o == F[f].output
  IN
  \/ /\ o \notin outputs
     /\ frames' = Fail(F, {f})
     /\ queues' = NoLongerPending(queues, m, f)
  \/ /\ o \in outputs /\ with_damage
     /\ frames' = F
     /\ queues' = NoLongerPending([queues EXCEPT ![m] = Push(@, f, o)], m, f)
  \/ /\ o \in outputs /\ ~with_damage
     /\ \E how \in Drawings : frames' = CopyNow(F, f, how)
     /\ queues' = NoLongerPending(queues, m, f)

\* copy and copy_with_damage.  The second request for a copy of one frame is an error.
Copy(f, with_damage, outputs) ==
  /\ frames[f].object = "Alive" /\ frames[f].output # Absent
  /\ \/ frames[f].copied /\ Disconnect(frames[f].of) /\ UNCHANGED queues
     \/ /\ ~frames[f].copied
        /\ HandleFrame([frames EXCEPT ![f].copied = TRUE], f, with_damage, outputs)
        /\ UNCHANGED managers

\* submit_after_sync: the fence signals.
SubmitAfterSync(f) ==
  /\ frames[f].drawing
  /\ frames' = [frames EXCEPT ![f].drawing = FALSE, ![f].answers = @ + 1]
  /\ UNCHANGED <<managers, queues>>

\* Some seconds pass without a copy.  A deadline that passes while copies wait does not
\* matter, since there will be another one.
CastDeadline(m) ==
  /\ m \in DOMAIN queues /\ queues[m].cast # NoCast /\ queues[m].copies = <<>>
  /\ ~queues[m].cast.expired
  /\ queues' = [queues EXCEPT ![m].cast.expired = TRUE]
  /\ UNCHANGED <<managers, frames>>

\* render_for_screencopy_with_damage, in a redraw of o: the first copy of every queue, if
\* it is of o and there is damage.
RenderForScreencopyWithDamage(o, how) ==
  LET first == {m \in DOMAIN queues : /\ queues[m].copies # <<>> /\ how # "NoDamage"
                                      /\ frames[Head(queues[m].copies)].output = o}
  IN
  /\ queues' = CleanupQueues([m \in DOMAIN queues |-> IF m \in first THEN Pop(queues[m]) ELSE queues[m]])
  /\ frames' = [f \in Frames |-> IF \E m \in first : f = Head(queues[m].copies)
                                 THEN Drawn(frames[f], how) ELSE frames[f]]
  /\ UNCHANGED managers

\* ScreencopyManagerState::remove_output.  An output that comes back is another one: what
\* was captured of it stays gone.
RemoveScreencopyOutput(o) ==
  LET stay(q) == Retained(q.copies, {f \in Frames : frames[f].output # o})
      dropped == {f \in Frames : frames[f].output = o /\ \E m \in DOMAIN queues : f \in ToSet(queues[m].copies)}
  IN
  /\ queues' = CleanupQueues([m \in DOMAIN queues |-> Retain(queues[m], stay(queues[m]))])
  /\ frames' = [f \in Frames |-> IF frames[f].output = o
                                 THEN [Fail(frames, dropped)[f] EXCEPT !.output = "Removed"]
                                 ELSE frames[f]]
  /\ UNCHANGED managers

CopyInit ==
  /\ managers = [m \in Managers |-> "None"]
  /\ queues = <<>>
  /\ frames = [f \in Frames |-> NewFrame]

CopyNext(outputs) ==
  \/ \E m \in Managers : BindManager(m) \/ DestroyManager(m) \/ ManagerDestroyed(m) \/ CastDeadline(m)
  \/ \E m \in Managers, f \in Frames, o \in outputs \cup {"Removed", Absent} : CaptureOutput(m, f, o)
  \/ \E f \in Frames :
       \/ DestroyFrame(f) \/ FrameDestroyed(f) \/ SubmitAfterSync(f)
       \/ \E with_damage \in BOOLEAN : Copy(f, with_damage, outputs)

---------------------------------------------------------------------------
\* Whether a frame of m still awaits its request, and whether its copy waits for damage.
IsWaiting(x, m) ==
  x.of = m /\ x.output # Absent /\ x.object \in {"Alive", "Dying"} /\ ~x.copied

IsQueued(x, m) == x.of = m /\ x.copied /\ x.answers = 0 /\ ~x.drawing

\* "screencopy queue must not be deleted as long as frames exist" (push), though managers
\* die first, clients leave and the handlers of destroyed objects come late and in any
\* order; and with the last of them the queue is gone.
QueueWithFrames ==
  \A m \in Managers :
    LET waiting == {f \in Frames : IsWaiting(frames[f], m)}
        queued == {f \in Frames : IsQueued(frames[f], m)}
    IN  /\ IsAlive(m) \/ waiting \cup queued # {} => m \in DOMAIN queues
        /\ managers[m] = "Gone" /\ waiting \cup queued = {} => m \notin DOMAIN queues
        /\ m \in DOMAIN queues => queues[m].pending = waiting /\ ToSet(queues[m].copies) = queued

\* A copy is answered once: it waits, is being drawn, or has its answer, never two, and none
\* waits for an output that is gone.
AnsweredOnce ==
  \A f \in Frames :
    /\ frames[f].answers <= 1
    /\ frames[f].drawing => frames[f].answers = 0
    /\ frames[f].copied /\ frames[f].answers = 0 /\ ~frames[f].drawing => frames[f].output # "Removed"

\* Clients get what they asked for: the two above.
CopiesAccountedFor == QueueWithFrames /\ AnsweredOnce
=============================================================================
