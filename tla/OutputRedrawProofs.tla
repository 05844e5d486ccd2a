------------------------ MODULE OutputRedrawProofs ------------------------
(***************************************************************************)
(* Proofs about OutputRedraw, for any number of outputs and lockers and    *)
(* with every switch (hotplug, throttling, rogue vblanks) on or off unless *)
(* a theorem says otherwise.                                               *)
(***************************************************************************)
EXTENDS OutputRedraw, TLAPS

---------------------------------------------------------------------------
(* Type correctness. *)

\* A redraw state that holds a timer token has a live timer, even where rogue
\* vblanks leave more timers behind than tokens: what keeps `timers` natural.
TokenHeld == \A o \in Outputs : Estimating(redraw_state[o]) => timers[o] >= 1

TypeInv == TypeOK /\ TokenHeld

\* Queueing a redraw yields a redraw state, and takes or gives no timer token.
LEMMA QueueRedrawFacts ==
  ASSUME NEW rs \in RedrawStates
  PROVE  /\ QueueRedraw(rs) \in RedrawStates
         /\ Estimating(QueueRedraw(rs)) <=> Estimating(rs)
         /\ AwaitingVBlank(QueueRedraw(rs)) <=> AwaitingVBlank(rs)
  BY DEF QueueRedraw, RedrawStates, Estimating, AwaitingVBlank

\* The same for a redraw queued on a set of outputs.
LEMMA QueueRedrawOnFacts ==
  ASSUME NEW S, NEW rs \in [Outputs -> RedrawStates]
  PROVE  /\ QueueRedrawOn(S, rs) \in [Outputs -> RedrawStates]
         /\ \A o \in Outputs :
              /\ Estimating(QueueRedrawOn(S, rs)[o]) <=> Estimating(rs[o])
              /\ AwaitingVBlank(QueueRedrawOn(S, rs)[o]) <=> AwaitingVBlank(rs[o])
  BY QueueRedrawFacts DEF QueueRedrawOn

\* What a render of a queued output leaves behind, for each of its outcomes.
LEMMA RenderOutcomeFacts ==
  ASSUME TypeInv, NEW o \in Outputs, Queued(redraw_state[o]),
         NEW out \in RenderOutcomes(o)
  PROVE  /\ out.rs \in {"Idle", "WaitingForEstimatedVBlank", "WaitingForVBlank"}
         /\ out.timers \in Nat
         /\ out.flight \in Frames \cup {"none"}
         /\ Estimating(out.rs) => out.timers >= 1
         /\ \/ out.res = "Skipped" /\ out.flight = flight[o]
            \/ /\ out.res = "NoDamage" /\ out.flight = flight[o]
               /\ monitors_active /\ session_active
               /\ (IF flight[o] = "none" THEN shown[o] ELSE flight[o])
                    = (IF is_locked THEN "lock" ELSE "session")
            \/ /\ out.res = "Submitted" /\ flight[o] = "none"
               /\ monitors_active /\ session_active
               /\ out.flight = IF is_locked THEN "lock" ELSE "session"
         /\ (out.res = "Submitted") <=> (out.rs = "WaitingForVBlank")
  BY DEF TypeInv, TypeOK, DrawTypeOK, TokenHeld, RenderOutcomes, Queued, Estimating,
         RedrawStates, Frames, TokenRemoved, TokenInserted

\* Continuing to lock only queues redraws.
LEMMA ContinueFacts ==
  ASSUME NEW conn, NEW rs \in [Outputs -> RedrawStates], ContinueToLocking(conn, rs)
  PROVE  /\ redraw_state' \in [Outputs -> RedrawStates]
         /\ \A o \in Outputs :
              /\ Estimating(redraw_state'[o]) <=> Estimating(rs[o])
              /\ AwaitingVBlank(redraw_state'[o]) <=> AwaitingVBlank(rs[o])
  BY QueueRedrawOnFacts DEF ContinueToLocking

\* What a redraw does to its output, with one of the outcomes of the render, and to
\* the other outputs: at most a redraw is queued on them.
RedrawEffect(o, out) ==
  /\ timers' = [timers EXCEPT ![o] = out.timers]
  /\ flight' = [flight EXCEPT ![o] = out.flight]
  /\ lock_render_state' =
       IF out.res # "Skipped" \/ ~monitors_active
         THEN [lock_render_state EXCEPT ![o] = IF is_locked THEN "Locked" ELSE "Unlocked"]
         ELSE lock_render_state
  /\ redraw_state' \in [Outputs -> RedrawStates]
  /\ \A p \in Outputs :
       LET rs == IF p = o THEN out.rs ELSE redraw_state[p]
       IN /\ Estimating(redraw_state'[p]) <=> Estimating(rs)
          /\ AwaitingVBlank(redraw_state'[p]) <=> AwaitingVBlank(rs)

\* Every redraw has that effect, for one of the outcomes.
LEMMA RedrawFacts ==
  ASSUME TypeInv, NEW o \in Outputs, Redraw(o)
  PROVE  \E out \in RenderOutcomes(o) : RedrawEffect(o, out)
<1>1. PICK out \in RenderOutcomes(o) : Redraw(o)!3!(out)
  BY DEF Redraw
<1>2. out.rs \in RedrawStates
  BY RenderOutcomeFacts DEF Redraw, RedrawStates
<1> DEFINE rs == [redraw_state EXCEPT ![o] = out.rs]
<1>3. /\ rs \in [Outputs -> RedrawStates]
      /\ \A p \in Outputs : rs[p] = IF p = o THEN out.rs ELSE redraw_state[p]
  BY <1>2 DEF TypeInv, TypeOK, DrawTypeOK
<1>4. redraw_state' = rs \/ redraw_state' = QueueRedrawOn(connected, rs)
  BY <1>1
<1>5. /\ timers' = [timers EXCEPT ![o] = out.timers]
      /\ flight' = [flight EXCEPT ![o] = out.flight]
      /\ lock_render_state' =
           IF out.res # "Skipped" \/ ~monitors_active
             THEN [lock_render_state EXCEPT ![o] = IF is_locked THEN "Locked" ELSE "Unlocked"]
             ELSE lock_render_state
  BY <1>1
<1> HIDE DEF rs
<1> DEFINE Same(new) == /\ new \in [Outputs -> RedrawStates]
                        /\ \A p \in Outputs :
                             /\ Estimating(new[p]) <=> Estimating(rs[p])
                             /\ AwaitingVBlank(new[p]) <=> AwaitingVBlank(rs[p])
<1>6. Same(rs) /\ Same(QueueRedrawOn(connected, rs))
  BY <1>3, QueueRedrawOnFacts
<1> HIDE DEF Same
<1>7. Same(redraw_state')
  BY <1>4, <1>6
<1> QED
  BY <1>3, <1>5, <1>7 DEF Same, RedrawEffect

\* What unplugging output o does to the redraw states.
LEMMA RemoveOutputFacts ==
  ASSUME TypeInv, NEW o \in Outputs, RemoveOutput(o)
  PROVE  /\ redraw_state' \in [Outputs -> RedrawStates]
         /\ \A p \in Outputs :
              /\ Estimating(redraw_state'[p]) <=> p # o /\ Estimating(redraw_state[p])
              /\ AwaitingVBlank(redraw_state'[p]) <=> p # o /\ AwaitingVBlank(redraw_state[p])
<1> DEFINE idle == [redraw_state EXCEPT ![o] = "Idle"]
           rs(moved) == QueueRedrawOn(moved, idle)
<1>1. PICK moved \in SUBSET connected' :
         \/ redraw_state' = rs(moved)
         \/ ContinueToLocking(connected', rs(moved))
  BY DEF RemoveOutput
<1>2. /\ idle \in [Outputs -> RedrawStates]
      /\ \A p \in Outputs :
           /\ Estimating(idle[p]) <=> p # o /\ Estimating(redraw_state[p])
           /\ AwaitingVBlank(idle[p]) <=> p # o /\ AwaitingVBlank(redraw_state[p])
  BY DEF TypeInv, TypeOK, DrawTypeOK, RedrawStates, Estimating, AwaitingVBlank
<1> HIDE DEF idle
<1>3. /\ rs(moved) \in [Outputs -> RedrawStates]
      /\ \A p \in Outputs :
           /\ Estimating(rs(moved)[p]) <=> Estimating(idle[p])
           /\ AwaitingVBlank(rs(moved)[p]) <=> AwaitingVBlank(idle[p])
  BY <1>2, QueueRedrawOnFacts
<1> HIDE DEF rs
<1>4. /\ redraw_state' \in [Outputs -> RedrawStates]
      /\ \A p \in Outputs :
           /\ Estimating(redraw_state'[p]) <=> Estimating(rs(moved)[p])
           /\ AwaitingVBlank(redraw_state'[p]) <=> AwaitingVBlank(rs(moved)[p])
  BY <1>1, <1>3, ContinueFacts
<1> QED
  BY <1>2, <1>3, <1>4

\* Every action keeps the types, and a timer for every token.
LEMMA TypeInvStep == TypeInv /\ [Next]_vars => TypeInv'
<1> SUFFICES ASSUME TypeInv, [Next]_vars PROVE TypeInv'
  OBVIOUS
<1> USE DEF TypeInv, TypeOK, TokenHeld, lockVars, drawVars
<1>1. ASSUME NEW c \in Clients, Lock(c) PROVE TypeInv'
  <2>1. DrawTypeOK'
    BY <1>1 DEF Lock, DrawTypeOK
  <2>2. FlagTypeOK'
    BY <1>1 DEF Lock, ConfirmLock, FlagTypeOK
  <2>3. LockTypeOK'
    BY <1>1 DEF Lock, ConfirmLock, LockTypeOK, LockStates
  <2>4. TokenHeld'
    BY <1>1 DEF Lock
  <2> QED
    BY <2>1, <2>2, <2>3, <2>4
<1>2. ASSUME NEW c \in Clients, LockClientGone(c) PROVE TypeInv'
  <2>1. DrawTypeOK'
    BY <1>2 DEF LockClientGone, DrawTypeOK
  <2>2. FlagTypeOK'
    BY <1>2 DEF LockClientGone, FlagTypeOK
  <2>3. LockTypeOK'
    BY <1>2 DEF LockClientGone, LockTypeOK
  <2>4. TokenHeld'
    BY <1>2 DEF LockClientGone
  <2> QED
    BY <2>1, <2>2, <2>3, <2>4
<1>3. ASSUME NEW c \in Clients, ClientUnlock(c) PROVE TypeInv'
  <2>1. DrawTypeOK'
    BY <1>3, QueueRedrawOnFacts DEF ClientUnlock, DropLock, DrawTypeOK
  <2>2. FlagTypeOK'
    BY <1>3 DEF ClientUnlock, DropLock, FlagTypeOK
  <2>3. LockTypeOK'
    BY <1>3 DEF ClientUnlock, DropLock, LockTypeOK, LockStates
  <2>4. TokenHeld'
    BY <1>3, QueueRedrawOnFacts DEF ClientUnlock, DrawTypeOK
  <2> QED
    BY <2>1, <2>2, <2>3, <2>4
<1>4. ASSUME NEW c \in Clients, NEW o \in Outputs, NewLockSurface(c, o) PROVE TypeInv'
  <2>1. DrawTypeOK'
    BY <1>4 DEF NewLockSurface, DrawTypeOK
  <2>2. FlagTypeOK'
    BY <1>4 DEF NewLockSurface, FlagTypeOK
  <2>3. LockTypeOK'
    BY <1>4 DEF NewLockSurface, LockTypeOK
  <2>4. TokenHeld'
    BY <1>4 DEF NewLockSurface
  <2> QED
    BY <2>1, <2>2, <2>3, <2>4
<1>5. ASSUME NEW o \in Outputs, LockSurfaceCommit(o) PROVE TypeInv'
  <2>1. DrawTypeOK'
    <3>1. \/ UNCHANGED redraw_state
          \/ ContinueToLocking(connected, redraw_state)
          \/ redraw_state' = QueueRedrawOn({o}, redraw_state)
      BY <1>5 DEF LockSurfaceCommit
    <3>2. redraw_state' \in [Outputs -> RedrawStates]
      BY <3>1, QueueRedrawOnFacts, ContinueFacts DEF DrawTypeOK
    <3>3. lock_surface' \in [Outputs -> {"none", "created", "mapped", "dead"}]
      BY <1>5 DEF LockSurfaceCommit, DrawTypeOK
    <3>4. UNCHANGED <<connected, timers, flight, shown, lock_render_state>>
      BY <1>5 DEF LockSurfaceCommit
    <3> QED
      BY <3>2, <3>3, <3>4 DEF DrawTypeOK
  <2>2. FlagTypeOK'
    BY <1>5 DEF LockSurfaceCommit, ContinueToLocking, ConfirmLock, FlagTypeOK
  <2>3. LockTypeOK'
    BY <1>5 DEF LockSurfaceCommit, ContinueToLocking, ConfirmLock, LockTypeOK, LockStates
  <2>4. TokenHeld'
    BY <1>5, QueueRedrawOnFacts, ContinueFacts DEF LockSurfaceCommit, DrawTypeOK
  <2> QED
    BY <2>1, <2>2, <2>3, <2>4
<1>6. CASE LockDeadline
  <2>1. DrawTypeOK'
    BY <1>6, ContinueFacts DEF LockDeadline, DrawTypeOK
  <2>2. FlagTypeOK'
    BY <1>6 DEF LockDeadline, ContinueToLocking, ConfirmLock, FlagTypeOK
  <2>3. LockTypeOK'
    BY <1>6 DEF LockDeadline, ContinueToLocking, ConfirmLock, LockTypeOK, LockStates
  <2>4. TokenHeld'
    BY <1>6, ContinueFacts DEF LockDeadline, DrawTypeOK
  <2> QED
    BY <2>1, <2>2, <2>3, <2>4
<1>7. ASSUME NEW o \in Outputs, Redraw(o) PROVE TypeInv'
  <2>1. PICK out \in RenderOutcomes(o) : RedrawEffect(o, out)
    BY <1>7, RedrawFacts
  <2>2. /\ out.timers \in Nat /\ out.flight \in Frames \cup {"none"}
        /\ Estimating(out.rs) => out.timers >= 1
    BY <1>7, RenderOutcomeFacts DEF Redraw
  <2>3. DrawTypeOK'
    BY <1>7, <2>1, <2>2 DEF Redraw, RedrawEffect, DropLock, DrawTypeOK
  <2>4. FlagTypeOK'
    BY <1>7 DEF Redraw, ConfirmLock, DropLock, FlagTypeOK
  <2>5. LockTypeOK'
    BY <1>7 DEF Redraw, ConfirmLock, DropLock, LockTypeOK, LockStates
  <2>6. TokenHeld'
    BY <2>1, <2>2 DEF RedrawEffect, DrawTypeOK
  <2> QED
    BY <2>3, <2>4, <2>5, <2>6
<1>8. ASSUME NEW o \in Outputs, RequestRedraw(o) PROVE TypeInv'
  <2>1. DrawTypeOK'
    BY <1>8, QueueRedrawOnFacts DEF RequestRedraw, DrawTypeOK
  <2>2. FlagTypeOK'
    BY <1>8 DEF RequestRedraw, FlagTypeOK
  <2>3. LockTypeOK'
    BY <1>8 DEF RequestRedraw, LockTypeOK
  <2>4. TokenHeld'
    BY <1>8, QueueRedrawOnFacts DEF RequestRedraw, DrawTypeOK
  <2> QED
    BY <2>1, <2>2, <2>3, <2>4
<1>9. ASSUME NEW o \in Outputs, FlipDone(o) PROVE TypeInv'
  <2>1. DrawTypeOK'
    BY <1>9 DEF FlipDone, OnVBlank, HandleVBlank, DrawTypeOK, RedrawStates, Frames
  <2>2. FlagTypeOK'
    BY <1>9 DEF FlipDone, OnVBlank, FlagTypeOK
  <2>3. LockTypeOK'
    BY <1>9 DEF FlipDone, LockTypeOK
  <2>4. TokenHeld'
    BY <1>9 DEF FlipDone, OnVBlank, HandleVBlank, DrawTypeOK, Estimating
  <2> QED
    BY <2>1, <2>2, <2>3, <2>4
<1>10. ASSUME NEW o \in Outputs, SpuriousVBlank(o) PROVE TypeInv'
  <2>1. DrawTypeOK'
    BY <1>10 DEF SpuriousVBlank, OnVBlank, HandleVBlank, DrawTypeOK, RedrawStates
  <2>2. FlagTypeOK'
    BY <1>10 DEF SpuriousVBlank, OnVBlank, FlagTypeOK
  <2>3. LockTypeOK'
    BY <1>10 DEF SpuriousVBlank, LockTypeOK
  <2>4. TokenHeld'
    BY <1>10 DEF SpuriousVBlank, OnVBlank, HandleVBlank, DrawTypeOK, Estimating
  <2> QED
    BY <2>1, <2>2, <2>3, <2>4
<1>11. ASSUME NEW o \in Outputs, ThrottleTimer(o) PROVE TypeInv'
  <2>1. DrawTypeOK'
    BY <1>11 DEF ThrottleTimer, HandleVBlank, DrawTypeOK, RedrawStates
  <2>2. FlagTypeOK'
    BY <1>11 DEF ThrottleTimer, FlagTypeOK
  <2>3. LockTypeOK'
    BY <1>11 DEF ThrottleTimer, LockTypeOK
  <2>4. TokenHeld'
    BY <1>11 DEF ThrottleTimer, HandleVBlank, DrawTypeOK, Estimating
  <2> QED
    BY <2>1, <2>2, <2>3, <2>4
<1>12. ASSUME NEW o \in Outputs, OrphanThrottleTimer(o) PROVE TypeInv'
  <2>1. DrawTypeOK'
    BY <1>12 DEF OrphanThrottleTimer, OnVBlank, HandleVBlank, DrawTypeOK, RedrawStates
  <2>2. FlagTypeOK'
    BY <1>12 DEF OrphanThrottleTimer, OnVBlank, FlagTypeOK
  <2>3. LockTypeOK'
    BY <1>12 DEF OrphanThrottleTimer, OnVBlank, LockTypeOK
  <2>4. TokenHeld'
    BY <1>12 DEF OrphanThrottleTimer, OnVBlank, HandleVBlank, DrawTypeOK, Estimating
  <2> QED
    BY <2>1, <2>2, <2>3, <2>4
<1>13. ASSUME NEW o \in Outputs, EstimatedVBlankTimer(o) PROVE TypeInv'
  <2>1. DrawTypeOK'
    BY <1>13 DEF EstimatedVBlankTimer, DrawTypeOK, RedrawStates
  <2>2. FlagTypeOK'
    BY <1>13 DEF EstimatedVBlankTimer, FlagTypeOK
  <2>3. LockTypeOK'
    BY <1>13 DEF EstimatedVBlankTimer, LockTypeOK
  <2>4. TokenHeld'
    BY <1>13 DEF EstimatedVBlankTimer, DrawTypeOK, Estimating
  <2> QED
    BY <2>1, <2>2, <2>3, <2>4
<1>14. ASSUME NEW o \in Outputs, AddOutput(o) PROVE TypeInv'
  <2>1. DrawTypeOK'
    BY <1>14, QueueRedrawOnFacts DEF AddOutput, DrawTypeOK
  <2>2. FlagTypeOK'
    BY <1>14 DEF AddOutput, FlagTypeOK
  <2>3. LockTypeOK'
    BY <1>14 DEF AddOutput, LockTypeOK
  <2>4. TokenHeld'
    BY <1>14, QueueRedrawOnFacts DEF AddOutput, DrawTypeOK
  <2> QED
    BY <2>1, <2>2, <2>3, <2>4
<1>15. ASSUME NEW o \in Outputs, RemoveOutput(o) PROVE TypeInv'
  <2>1. DrawTypeOK'
    BY <1>15, RemoveOutputFacts DEF RemoveOutput, DrawTypeOK, Frames
  <2>2. FlagTypeOK'
    BY <1>15 DEF RemoveOutput, ContinueToLocking, ConfirmLock, FlagTypeOK
  <2>3. LockTypeOK'
    BY <1>15 DEF RemoveOutput, ContinueToLocking, ConfirmLock, LockTypeOK, LockStates
  <2>4. TokenHeld'
    BY <1>15, RemoveOutputFacts DEF RemoveOutput, DrawTypeOK
  <2> QED
    BY <2>1, <2>2, <2>3, <2>4
<1>16. CASE DeactivateMonitors \/ PauseSession
  <2>1. DrawTypeOK'
    BY <1>16 DEF DeactivateMonitors, PauseSession, BlankScreens, DrawTypeOK, Frames
  <2>2. FlagTypeOK'
    BY <1>16 DEF DeactivateMonitors, PauseSession, FlagTypeOK
  <2>3. LockTypeOK'
    BY <1>16 DEF DeactivateMonitors, PauseSession, LockTypeOK
  <2>4. TokenHeld'
    BY <1>16 DEF DeactivateMonitors, PauseSession
  <2> QED
    BY <2>1, <2>2, <2>3, <2>4
<1>17. CASE ActivateMonitors \/ ActivateSession
  <2>1. DrawTypeOK'
    BY <1>17, QueueRedrawOnFacts DEF ActivateMonitors, ActivateSession, DrawTypeOK
  <2>2. FlagTypeOK'
    BY <1>17 DEF ActivateMonitors, ActivateSession, FlagTypeOK
  <2>3. LockTypeOK'
    BY <1>17 DEF ActivateMonitors, ActivateSession, LockTypeOK
  <2>4. TokenHeld'
    BY <1>17, QueueRedrawOnFacts DEF ActivateMonitors, ActivateSession, DrawTypeOK
  <2> QED
    BY <2>1, <2>2, <2>3, <2>4
<1>18. CASE UNCHANGED vars
  BY <1>18 DEF vars, DrawTypeOK, FlagTypeOK, LockTypeOK
<1> QED
  BY <1>1, <1>2, <1>3, <1>4, <1>5, <1>6, <1>7, <1>8, <1>9, <1>10, <1>11, <1>12, <1>13,
     <1>14, <1>15, <1>16, <1>17, <1>18 DEF Next, LockNext, DrawNext, OutputNext

\* The initial state has the types, and no timers.
LEMMA InitTypeInv == Init => TypeInv
<1> SUFFICES ASSUME Init PROVE TypeInv
  OBVIOUS
<1>1. DrawTypeOK
  BY DEF Init, DrawTypeOK, RedrawStates, Frames
<1>2. FlagTypeOK /\ LockTypeOK
  BY DEF Init, FlagTypeOK, LockTypeOK, LockStates
<1>3. TokenHeld
  BY DEF Init, TokenHeld, Estimating
<1> QED
  BY <1>1, <1>2, <1>3 DEF TypeInv, TypeOK

\* TypeOK is an invariant: in particular event_loop.remove() and the timer handler
\* never take an estimated-vblank timer that does not exist.
THEOREM TypeCorrect == Spec => []TypeOK
<1>1. TypeInv => TypeOK
  BY DEF TypeInv
<1> QED
  BY <1>1, InitTypeInv, TypeInvStep, PTL DEF Spec

---------------------------------------------------------------------------
(* A confirmed lock hides the session. *)

Hidden(o) == flight[o] # "session" /\ (shown[o] = "session" => flight[o] = "lock")

\* The lock is confirmed only when every output took a locked frame ...
LockedEverywhere ==
  lock_state = "Locked" => \A o \in connected : lock_render_state[o] = "Locked"

\* ... and an output marked so stays hidden, also after an unlock, until a session
\* frame is submitted and takes the mark away.
MarkedAreHidden == \A o \in Outputs : lock_render_state[o] = "Locked" => Hidden(o)

\* redraw() marks outputs whose monitors are off without rendering: no session frame
\* is on them or on its way, nor while another VT has the screens.
DarkShowNothing ==
  ~monitors_active \/ ~session_active =>
    \A o \in Outputs : shown[o] # "session" /\ flight[o] # "session"

\* A new output is marked at once: nothing of an earlier one is left on it.
UnpluggedAreBlank == \A o \in Outputs \ connected : flight[o] = "none" /\ shown[o] = "blank"

LockInv == LockedEverywhere /\ MarkedAreHidden /\ DarkShowNothing /\ UnpluggedAreBlank

\* Every action keeps the lock invariant.
LEMMA LockInvStep == TypeInv /\ LockInv /\ [Next]_vars => LockInv'
<1> SUFFICES ASSUME TypeInv, LockInv, [Next]_vars PROVE LockInv'
  OBVIOUS
<1> USE DEF LockInv, Hidden, lockVars, drawVars
\* Actions that leave the screens alone need only the first part.
<1>0. ASSUME UNCHANGED <<connected, flight, shown, lock_render_state>>,
             session_active => session_active', monitors_active => monitors_active',
             lock_state' = "Locked" => lock_state = "Locked" \/ connected = {}
      PROVE  LockInv'
  BY <1>0 DEF LockedEverywhere, MarkedAreHidden, DarkShowNothing, UnpluggedAreBlank
<1>1. ASSUME NEW c \in Clients, Lock(c) PROVE LockInv'
  BY <1>0, <1>1 DEF Lock
<1>2. ASSUME NEW c \in Clients, LockClientGone(c) PROVE LockInv'
  BY <1>0, <1>2 DEF LockClientGone
<1>3. ASSUME NEW c \in Clients, ClientUnlock(c) PROVE LockInv'
  BY <1>0, <1>3 DEF ClientUnlock, DropLock
<1>4. ASSUME NEW c \in Clients, NEW o \in Outputs, NewLockSurface(c, o) PROVE LockInv'
  BY <1>0, <1>4 DEF NewLockSurface
<1>5. ASSUME NEW o \in Outputs, LockSurfaceCommit(o) PROVE LockInv'
  BY <1>0, <1>5 DEF LockSurfaceCommit, ContinueToLocking
<1>6. CASE LockDeadline
  BY <1>0, <1>6 DEF LockDeadline, ContinueToLocking
<1>7. ASSUME NEW o \in Outputs, Redraw(o) PROVE LockInv'
  <2>1. PICK out \in RenderOutcomes(o) : RedrawEffect(o, out)
    BY <1>7, RedrawFacts
  <2>2. \/ out.res = "Skipped" /\ out.flight = flight[o]
        \/ /\ out.res = "NoDamage" /\ out.flight = flight[o]
           /\ monitors_active /\ session_active
           /\ (IF flight[o] = "none" THEN shown[o] ELSE flight[o])
                = (IF is_locked THEN "lock" ELSE "session")
        \/ /\ out.res = "Submitted"
           /\ monitors_active /\ session_active
           /\ out.flight = IF is_locked THEN "lock" ELSE "session"
    BY <1>7, RenderOutcomeFacts DEF Redraw
  <2>3. LockedEverywhere'
    <3>1. CASE lock_state = "Locked"
      BY <1>7, <2>1, <3>1 DEF Redraw, RedrawEffect, LockedEverywhere, is_locked, TypeInv,
         TypeOK, DrawTypeOK
    <3>2. CASE lock_state = "Locking" /\ lock_state' = "Locked"
      BY <1>7, <3>2 DEF Redraw, DropLock, LockedEverywhere
    <3>3. CASE lock_state # "Locked" /\ lock_state' # "Locked"
      BY <3>3 DEF LockedEverywhere
    <3> QED
      BY <1>7, <3>1, <3>2, <3>3 DEF Redraw
  <2>4. MarkedAreHidden'
    BY <1>7, <2>1, <2>2 DEF Redraw, RedrawEffect, MarkedAreHidden, DarkShowNothing, TypeInv,
       TypeOK, DrawTypeOK
  <2>5. DarkShowNothing'
    BY <1>7, <2>1, <2>2 DEF Redraw, RedrawEffect, DarkShowNothing, TypeInv, TypeOK, DrawTypeOK
  <2>6. UnpluggedAreBlank'
    BY <1>7, <2>1 DEF Redraw, RedrawEffect, UnpluggedAreBlank, TypeInv, TypeOK, DrawTypeOK
  <2> QED
    BY <2>3, <2>4, <2>5, <2>6
<1>8. ASSUME NEW o \in Outputs, RequestRedraw(o) PROVE LockInv'
  BY <1>0, <1>8 DEF RequestRedraw
<1>9. ASSUME NEW o \in Outputs, FlipDone(o) PROVE LockInv'
  BY <1>9 DEF FlipDone, LockedEverywhere, MarkedAreHidden, DarkShowNothing,
     UnpluggedAreBlank, TypeInv, TypeOK, DrawTypeOK
<1>10. ASSUME NEW o \in Outputs, SpuriousVBlank(o) PROVE LockInv'
  BY <1>0, <1>10 DEF SpuriousVBlank
<1>11. ASSUME NEW o \in Outputs, ThrottleTimer(o) \/ OrphanThrottleTimer(o) PROVE LockInv'
  BY <1>0, <1>11 DEF ThrottleTimer, OrphanThrottleTimer
<1>12. ASSUME NEW o \in Outputs, EstimatedVBlankTimer(o) PROVE LockInv'
  BY <1>0, <1>12 DEF EstimatedVBlankTimer
<1>13. ASSUME NEW o \in Outputs, AddOutput(o) PROVE LockInv'
  BY <1>13 DEF AddOutput, LockedEverywhere, MarkedAreHidden, DarkShowNothing,
     UnpluggedAreBlank, is_locked, TypeInv, TypeOK, DrawTypeOK
<1>14. ASSUME NEW o \in Outputs, RemoveOutput(o) PROVE LockInv'
  <2>1. LockedEverywhere'
    BY <1>14 DEF RemoveOutput, ContinueToLocking, ConfirmLock, LockedEverywhere, TypeInv,
       TypeOK, DrawTypeOK
  <2>2. (MarkedAreHidden /\ DarkShowNothing /\ UnpluggedAreBlank)'
    BY <1>14 DEF RemoveOutput, MarkedAreHidden, DarkShowNothing, UnpluggedAreBlank, TypeInv,
       TypeOK, DrawTypeOK
  <2> QED
    BY <2>1, <2>2
<1>15. CASE DeactivateMonitors \/ PauseSession
  BY <1>15 DEF DeactivateMonitors, PauseSession, BlankScreens, LockedEverywhere,
     MarkedAreHidden, DarkShowNothing, UnpluggedAreBlank, TypeInv, TypeOK, DrawTypeOK
<1>16. CASE ActivateMonitors \/ ActivateSession
  BY <1>16 DEF ActivateMonitors, ActivateSession, LockedEverywhere, MarkedAreHidden,
     DarkShowNothing, UnpluggedAreBlank
<1>17. CASE UNCHANGED vars
  BY <1>0, <1>17 DEF vars
<1> QED
  BY <1>1, <1>2, <1>3, <1>4, <1>5, <1>6, <1>7, <1>8, <1>9, <1>10, <1>11, <1>12, <1>13,
     <1>14, <1>15, <1>16, <1>17 DEF Next, LockNext, DrawNext, OutputNext

\* A confirmed session lock hides the session (LockedHidesSession), for any number of
\* outputs and lockers, with hotplug, throttled and rogue vblanks, power-off and VT
\* switches in any order.
THEOREM LockHidesSession == Spec => []LockedHidesSession
<1>1. Init => TypeInv /\ LockInv
  BY InitTypeInv DEF Init, LockInv, LockedEverywhere, MarkedAreHidden, DarkShowNothing,
     UnpluggedAreBlank, Hidden
<1>2. TypeInv /\ LockInv => LockedHidesSession
  BY DEF TypeInv, TypeOK, DrawTypeOK, LockInv, LockedEverywhere, MarkedAreHidden, Hidden,
     LockedHidesSession
<1> QED
  BY <1>1, <1>2, TypeInvStep, LockInvStep, PTL DEF Spec

---------------------------------------------------------------------------
(* Lockers are told the truth, and only they unlock. *)

\* Every action keeps ConfirmationsAgree, which is inductive as it stands.
LEMMA ConfirmationsStep ==
  TypeInv /\ ConfirmationsAgree /\ [Next]_vars => ConfirmationsAgree'
<1> SUFFICES ASSUME TypeInv, ConfirmationsAgree, [Next]_vars PROVE ConfirmationsAgree'
  OBVIOUS
<1> USE DEF TypeInv, TypeOK, LockTypeOK, lockVars, drawVars
<1>0. ASSUME UNCHANGED lockVars PROVE ConfirmationsAgree'
  BY <1>0 DEF ConfirmationsAgree
<1>1. ASSUME NEW c \in Clients, Lock(c) PROVE ConfirmationsAgree'
  BY <1>1 DEF Lock, ConfirmLock, ConfirmationsAgree
<1>2. ASSUME NEW c \in Clients, LockClientGone(c) PROVE ConfirmationsAgree'
  BY <1>2 DEF LockClientGone, ConfirmationsAgree
<1>3. ASSUME DropLock PROVE ConfirmationsAgree'
  BY <1>3 DEF DropLock, ConfirmationsAgree
<1>4. ASSUME NEW conn, NEW rs, lock_state = "WaitingForSurfaces", ContinueToLocking(conn, rs)
      PROVE  ConfirmationsAgree'
  BY <1>4 DEF ContinueToLocking, ConfirmLock, ConfirmationsAgree
<1>5. ASSUME lock_state = "Locking", ConfirmLock(lock_client, lock_alive), UNCHANGED deadline
      PROVE  ConfirmationsAgree'
  BY <1>5 DEF ConfirmLock, ConfirmationsAgree
<1>6. ASSUME NEW c \in Clients, ClientUnlock(c) PROVE ConfirmationsAgree'
  BY <1>3, <1>6 DEF ClientUnlock
<1>7. ASSUME NEW c \in Clients, NEW o \in Outputs, NewLockSurface(c, o)
      PROVE  ConfirmationsAgree'
  BY <1>0, <1>7 DEF NewLockSurface
<1>8. ASSUME NEW o \in Outputs, LockSurfaceCommit(o) PROVE ConfirmationsAgree'
  BY <1>0, <1>4, <1>8 DEF LockSurfaceCommit
<1>9. CASE LockDeadline
  BY <1>4, <1>9 DEF LockDeadline, ConfirmationsAgree
<1>10. ASSUME NEW o \in Outputs, Redraw(o) PROVE ConfirmationsAgree'
  BY <1>0, <1>3, <1>5, <1>10 DEF Redraw
<1>11. ASSUME NEW o \in Outputs, RequestRedraw(o) PROVE ConfirmationsAgree'
  BY <1>0, <1>11 DEF RequestRedraw
<1>12. ASSUME NEW o \in Outputs, FlipDone(o) \/ SpuriousVBlank(o) PROVE ConfirmationsAgree'
  BY <1>0, <1>12 DEF FlipDone, SpuriousVBlank
<1>13. ASSUME NEW o \in Outputs,
              ThrottleTimer(o) \/ OrphanThrottleTimer(o) \/ EstimatedVBlankTimer(o)
       PROVE  ConfirmationsAgree'
  BY <1>0, <1>13 DEF ThrottleTimer, OrphanThrottleTimer, EstimatedVBlankTimer
<1>14. ASSUME NEW o \in Outputs, AddOutput(o) PROVE ConfirmationsAgree'
  BY <1>0, <1>14 DEF AddOutput
<1>15. ASSUME NEW o \in Outputs, RemoveOutput(o) PROVE ConfirmationsAgree'
  <2>1. \/ UNCHANGED lockVars
        \/ lock_state = "Locking" /\ ConfirmLock(lock_client, lock_alive) /\ UNCHANGED deadline
        \/ /\ lock_state = "WaitingForSurfaces"
           /\ \E rs : ContinueToLocking(connected', rs)
    BY <1>15 DEF RemoveOutput
  <2> QED
    BY <1>0, <1>4, <1>5, <2>1
<1>16. CASE DeactivateMonitors \/ PauseSession \/ ActivateMonitors \/ ActivateSession
  BY <1>0, <1>16 DEF DeactivateMonitors, PauseSession, ActivateMonitors, ActivateSession
<1>17. CASE UNCHANGED vars
  BY <1>0, <1>17 DEF vars
<1> QED
  BY <1>1, <1>2, <1>6, <1>7, <1>8, <1>9, <1>10, <1>11, <1>12, <1>13, <1>14, <1>15, <1>16,
     <1>17 DEF Next, LockNext, DrawNext, OutputNext

\* What lockers were told agrees with niri's lock state, and the deadline timer is
\* registered exactly while surfaces are awaited (ConfirmationsAgree).
THEOREM LockersToldTheTruth == Spec => []ConfirmationsAgree
<1>1. Init => ConfirmationsAgree
  BY DEF Init, ConfirmationsAgree
<1> QED
  BY <1>1, InitTypeInv, TypeInvStep, ConfirmationsStep, PTL DEF Spec

\* A confirmed lock ends by its locker's unlock request only (OnlyClientUnlocks).
THEOREM LockEndsByUnlock == Spec => OnlyClientUnlocks
<1>1. ASSUME TypeInv, [Next]_vars, lock_state = "Locked", lock_state' # "Locked"
      PROVE  \E c \in Clients : ClientUnlock(c)
  <2> USE <1>1 DEF lockVars, drawVars
  <2>1. ASSUME NEW c \in Clients, Lock(c) \/ LockClientGone(c) PROVE FALSE
    BY <2>1 DEF Lock, ConfirmLock, LockClientGone
  <2>2. ASSUME NEW c \in Clients, NEW o \in Outputs, NewLockSurface(c, o) PROVE FALSE
    BY <2>2 DEF NewLockSurface
  <2>3. ASSUME NEW o \in Outputs, LockSurfaceCommit(o) PROVE FALSE
    BY <2>3 DEF LockSurfaceCommit
  <2>4. ~LockDeadline
    BY DEF LockDeadline
  <2>5. ASSUME NEW o \in Outputs, Redraw(o) PROVE FALSE
    BY <2>5 DEF Redraw
  <2>6. ASSUME NEW o \in Outputs,
               \/ RequestRedraw(o) \/ FlipDone(o) \/ SpuriousVBlank(o) \/ ThrottleTimer(o)
               \/ OrphanThrottleTimer(o) \/ EstimatedVBlankTimer(o)
        PROVE  FALSE
    BY <2>6 DEF RequestRedraw, FlipDone, SpuriousVBlank, ThrottleTimer, OrphanThrottleTimer,
       EstimatedVBlankTimer
  <2>7. ASSUME NEW o \in Outputs, AddOutput(o) \/ RemoveOutput(o) PROVE FALSE
    BY <2>7 DEF AddOutput, RemoveOutput
  <2>8. ~(DeactivateMonitors \/ PauseSession \/ ActivateMonitors \/ ActivateSession)
    BY DEF DeactivateMonitors, PauseSession, ActivateMonitors, ActivateSession
  <2> QED
    BY <2>1, <2>2, <2>3, <2>4, <2>5, <2>6, <2>7, <2>8
    DEF vars, Next, LockNext, DrawNext, OutputNext
<1> QED
  BY <1>1, InitTypeInv, TypeInvStep, PTL DEF Spec, OnlyClientUnlocks

---------------------------------------------------------------------------
(* Timers and vblanks match the redraw states, if the driver behaves. *)

\* VBlankIsDue and EstimatedTimerMatchesState, made inductive: a vblank is due from
\* one source only, and no throttle timer outlives its output.
DueInv ==
  /\ VBlankIsDue
  /\ EstimatedTimerMatchesState
  /\ \A o \in Outputs : ~orphan[o] /\ (throttle[o] => flight[o] = "none" /\ Throttling)

\* Initially nothing is due and no timer runs.
LEMMA InitDueInv == Init => DueInv
  BY DEF Init, DueInv, VBlankIsDue, EstimatedTimerMatchesState, AwaitingVBlank, Estimating

\* Every action keeps DueInv, if the driver sends no rogue vblanks and does not need
\* throttling where outputs are unplugged.
LEMMA DueInvStep ==
  ASSUME ~Spurious, ~(Hotplug /\ Throttling)
  PROVE  TypeInv /\ DueInv /\ [Next]_vars => DueInv'
<1> SUFFICES ASSUME TypeInv, DueInv, [Next]_vars PROVE DueInv'
  OBVIOUS
<1> USE DEF DueInv, VBlankIsDue, EstimatedTimerMatchesState, TypeInv, TypeOK, DrawTypeOK,
            lockVars, drawVars
\* Actions that at most queue redraws.
<1>0. ASSUME UNCHANGED <<timers, throttle, orphan>>,
             \A o \in Outputs :
               /\ (flight'[o] = "none") <=> (flight[o] = "none")
               /\ Estimating(redraw_state'[o]) <=> Estimating(redraw_state[o])
               /\ AwaitingVBlank(redraw_state'[o]) <=> AwaitingVBlank(redraw_state[o])
      PROVE  DueInv'
  BY <1>0
<1>1. ASSUME NEW S, UNCHANGED <<timers, throttle, orphan, flight>>,
             redraw_state' = QueueRedrawOn(S, redraw_state)
      PROVE  DueInv'
  BY <1>0, <1>1, QueueRedrawOnFacts
<1>2. ASSUME UNCHANGED <<timers, throttle, orphan, flight, redraw_state>> PROVE DueInv'
  BY <1>0, <1>2
<1>3. ASSUME UNCHANGED <<timers, throttle, orphan, flight>>,
             ContinueToLocking(connected, redraw_state)
      PROVE  DueInv'
  BY <1>0, <1>3, ContinueFacts
<1>4. ASSUME NEW c \in Clients, Lock(c) \/ LockClientGone(c) PROVE DueInv'
  BY <1>2, <1>4 DEF Lock, LockClientGone
<1>5. ASSUME NEW c \in Clients, ClientUnlock(c) PROVE DueInv'
  BY <1>1, <1>5 DEF ClientUnlock
<1>6. ASSUME NEW c \in Clients, NEW o \in Outputs, NewLockSurface(c, o) PROVE DueInv'
  BY <1>2, <1>6 DEF NewLockSurface
<1>7. ASSUME NEW o \in Outputs, LockSurfaceCommit(o) PROVE DueInv'
  BY <1>1, <1>2, <1>3, <1>7 DEF LockSurfaceCommit
<1>8. CASE LockDeadline
  BY <1>2, <1>3, <1>8 DEF LockDeadline
<1>9. ASSUME NEW o \in Outputs, Redraw(o) PROVE DueInv'
  <2>1. PICK out \in RenderOutcomes(o) : RedrawEffect(o, out)
    BY <1>9, RedrawFacts
  <2>2. /\ Queued(redraw_state[o])
        /\ UNCHANGED <<throttle, orphan>>
    BY <1>9 DEF Redraw
  <2>3. flight[o] = "none" /\ ~throttle[o]
    BY <2>2 DEF Queued, AwaitingVBlank
  <2>4. /\ out.flight # "none" <=> AwaitingVBlank(out.rs)
        /\ out.timers = IF Estimating(out.rs) THEN 1 ELSE 0
    BY <2>2, <2>3 DEF RenderOutcomes, Queued, Estimating, AwaitingVBlank, TokenRemoved,
       TokenInserted
  <2> QED
    BY <2>1, <2>2, <2>3, <2>4 DEF RedrawEffect
<1>10. ASSUME NEW o \in Outputs, RequestRedraw(o) PROVE DueInv'
  BY <1>1, <1>10 DEF RequestRedraw
<1>11. ASSUME NEW o \in Outputs, FlipDone(o) PROVE DueInv'
  BY <1>11 DEF FlipDone, OnVBlank, HandleVBlank, AwaitingVBlank, Estimating, FlagTypeOK
<1>12. ASSUME NEW o \in Outputs, ThrottleTimer(o) PROVE DueInv'
  BY <1>12 DEF ThrottleTimer, HandleVBlank, AwaitingVBlank, Estimating, FlagTypeOK
<1>13. ASSUME NEW o \in Outputs, SpuriousVBlank(o) \/ OrphanThrottleTimer(o) PROVE FALSE
  BY <1>13 DEF SpuriousVBlank, OrphanThrottleTimer
<1>14. ASSUME NEW o \in Outputs, EstimatedVBlankTimer(o) PROVE DueInv'
  BY <1>14 DEF EstimatedVBlankTimer, AwaitingVBlank, Estimating
<1>15. ASSUME NEW o \in Outputs, AddOutput(o) PROVE DueInv'
  BY <1>1, <1>15 DEF AddOutput
<1>16. ASSUME NEW o \in Outputs, RemoveOutput(o) PROVE DueInv'
  <2>1. /\ timers' = [timers EXCEPT ![o] = 0]
        /\ throttle' = [throttle EXCEPT ![o] = FALSE]
        /\ flight' = [flight EXCEPT ![o] = "none"]
        /\ orphan' = [orphan EXCEPT ![o] = @ \/ throttle[o]]
        /\ ~throttle[o]
    BY <1>16 DEF RemoveOutput
  <2> QED
    BY <1>16, <2>1, RemoveOutputFacts DEF FlagTypeOK
<1>17. CASE DeactivateMonitors \/ PauseSession
  BY <1>0, <1>17 DEF DeactivateMonitors, PauseSession, BlankScreens
<1>18. CASE ActivateMonitors \/ ActivateSession
  BY <1>1, <1>18 DEF ActivateMonitors, ActivateSession
<1>19. CASE UNCHANGED vars
  BY <1>2, <1>19 DEF vars
<1> QED
  BY <1>4, <1>5, <1>6, <1>7, <1>8, <1>9, <1>10, <1>11, <1>12, <1>13, <1>14, <1>15, <1>16,
     <1>17, <1>18, <1>19 DEF Next, LockNext, DrawNext, OutputNext

\* With a driver that sends no rogue vblanks, and no throttling where outputs are
\* unplugged, an output waits for a vblank exactly while one is due (VBlankIsDue).
THEOREM OutputsNeverFreeze ==
  ASSUME ~Spurious, ~(Hotplug /\ Throttling)
  PROVE  Spec => []VBlankIsDue
<1>1. DueInv => VBlankIsDue
  BY DEF DueInv
<1>2. TypeInv /\ DueInv /\ [Next]_vars => DueInv'
  BY DueInvStep
<1> QED
  BY <1>1, <1>2, InitTypeInv, InitDueInv, TypeInvStep, PTL DEF Spec

\* Under the same conditions the estimated-vblank timer is live exactly while the
\* redraw state holds its token (EstimatedTimerMatchesState), so the unreachable!()
\* arms of on_estimated_vblank_timer are unreachable.
THEOREM TimersMatchTokens ==
  ASSUME ~Spurious, ~(Hotplug /\ Throttling)
  PROVE  Spec => []EstimatedTimerMatchesState
<1>1. DueInv => EstimatedTimerMatchesState
  BY DEF DueInv
<1>2. TypeInv /\ DueInv /\ [Next]_vars => DueInv'
  BY DueInvStep
<1> QED
  BY <1>1, <1>2, InitTypeInv, InitDueInv, TypeInvStep, PTL DEF Spec

---------------------------------------------------------------------------
(* No redraw request is lost. *)

Wanted(rs) == Queued(rs) \/ rs = "WaitingForVBlankRedrawNeeded"

\* Queueing redraws withdraws no request.
LEMMA QueueRedrawKeepsRequests ==
  ASSUME NEW S, NEW rs \in [Outputs -> RedrawStates], NEW o \in Outputs, Wanted(rs[o])
  PROVE  Wanted(QueueRedrawOn(S, rs)[o])
<1>1. ASSUME NEW r \in RedrawStates, Wanted(r) PROVE Wanted(QueueRedraw(r))
  BY <1>1 DEF QueueRedraw, Wanted, Queued, RedrawStates
<1> QED
  BY <1>1 DEF QueueRedrawOn

\* A requested redraw ends with a redraw of the output or with the output: no handler
\* of a vblank, a timer or the lock forgets it (RequestNotLost), whatever the driver
\* does.
THEOREM NoRequestLost == Spec => RequestNotLost
<1>1. ASSUME TypeInv, [Next]_vars, NEW o \in Outputs,
             Wanted(redraw_state[o]), ~Wanted(redraw_state'[o])
      PROVE  Redraw(o) \/ RemoveOutput(o)
  <2> USE <1>1 DEF TypeInv, TypeOK, DrawTypeOK, lockVars, drawVars
  <2>1. ASSUME NEW S, redraw_state' = QueueRedrawOn(S, redraw_state) PROVE FALSE
    BY <2>1, QueueRedrawKeepsRequests
  <2>2. ASSUME UNCHANGED redraw_state PROVE FALSE
    BY <2>2
  <2>3. ASSUME NEW conn, ContinueToLocking(conn, redraw_state) PROVE FALSE
    BY <2>1, <2>2, <2>3 DEF ContinueToLocking
  <2>4. ASSUME NEW p \in Outputs, HandleVBlank(p) PROVE FALSE
    BY <2>4 DEF HandleVBlank, Wanted, Queued
  <2>5. ASSUME NEW c \in Clients,
               \/ Lock(c) \/ LockClientGone(c) \/ ClientUnlock(c)
               \/ \E p \in Outputs : NewLockSurface(c, p)
        PROVE  FALSE
    BY <2>1, <2>2, <2>5 DEF Lock, LockClientGone, ClientUnlock, NewLockSurface
  <2>6. ASSUME NEW p \in Outputs, LockSurfaceCommit(p) PROVE FALSE
    BY <2>1, <2>2, <2>3, <2>6 DEF LockSurfaceCommit
  <2>7. ~LockDeadline
    BY <2>2, <2>3 DEF LockDeadline
  <2>8. ASSUME NEW p \in Outputs, Redraw(p), p # o PROVE FALSE
    <3>1. PICK out \in RenderOutcomes(p) : Redraw(p)!3!(out)
      BY <2>8 DEF Redraw
    <3> DEFINE rs == [redraw_state EXCEPT ![p] = out.rs]
    <3>2. out.rs \in RedrawStates
      BY <2>8, RenderOutcomeFacts DEF Redraw, RedrawStates
    <3>3. rs \in [Outputs -> RedrawStates] /\ Wanted(rs[o])
      BY <2>8, <3>2
    <3>4. redraw_state' = rs \/ redraw_state' = QueueRedrawOn(connected, rs)
      BY <3>1
    <3> QED
      BY <3>3, <3>4, QueueRedrawKeepsRequests
  <2>9. ASSUME NEW p \in Outputs, RequestRedraw(p) PROVE FALSE
    BY <2>1, <2>9 DEF RequestRedraw
  <2>10. ASSUME NEW p \in Outputs,
                \/ FlipDone(p) \/ SpuriousVBlank(p) \/ ThrottleTimer(p)
                \/ OrphanThrottleTimer(p)
         PROVE  FALSE
    BY <2>2, <2>4, <2>10 DEF FlipDone, SpuriousVBlank, OnVBlank, ThrottleTimer,
       OrphanThrottleTimer
  <2>11. ASSUME NEW p \in Outputs, EstimatedVBlankTimer(p) PROVE FALSE
    BY <2>11 DEF EstimatedVBlankTimer, Estimating, Wanted, Queued
  <2>12. ASSUME NEW p \in Outputs, AddOutput(p) PROVE FALSE
    BY <2>1, <2>12 DEF AddOutput
  <2>13. ASSUME NEW p \in Outputs, RemoveOutput(p), p # o PROVE FALSE
    <3> DEFINE idle == [redraw_state EXCEPT ![p] = "Idle"]
    <3>1. PICK moved \in SUBSET connected' :
             \/ redraw_state' = QueueRedrawOn(moved, idle)
             \/ ContinueToLocking(connected', QueueRedrawOn(moved, idle))
      BY <2>13 DEF RemoveOutput
    <3>2. idle \in [Outputs -> RedrawStates] /\ Wanted(idle[o])
      BY <2>13 DEF RedrawStates
    <3> HIDE DEF idle
    <3>3. \/ redraw_state' = QueueRedrawOn(moved, idle)
          \/ redraw_state' = QueueRedrawOn(connected', QueueRedrawOn(moved, idle))
      BY <3>1 DEF ContinueToLocking
    <3>4. /\ QueueRedrawOn(moved, idle) \in [Outputs -> RedrawStates]
          /\ Wanted(QueueRedrawOn(moved, idle)[o])
      BY <3>2, QueueRedrawOnFacts, QueueRedrawKeepsRequests
    <3> QED
      BY <3>3, <3>4, QueueRedrawKeepsRequests
  <2>14. ~(DeactivateMonitors \/ PauseSession)
    BY <2>2 DEF DeactivateMonitors, PauseSession
  <2>15. ~(ActivateMonitors \/ ActivateSession)
    BY <2>1 DEF ActivateMonitors, ActivateSession
  <2> QED
    BY <2>2, <2>5, <2>6, <2>7, <2>8, <2>9, <2>10, <2>11, <2>12, <2>13, <2>14, <2>15
    DEF vars, Next, LockNext, DrawNext, OutputNext
<1>2. TypeInv /\ [Next]_vars =>
        \A o \in Outputs : RedrawWanted(o) /\ ~RedrawWanted(o)' => Redraw(o) \/ RemoveOutput(o)
  BY <1>1 DEF RedrawWanted, Wanted
<1> QED
  BY <1>2, InitTypeInv, TypeInvStep, PTL DEF Spec, RequestNotLost
===========================================================================
