-------------------------- MODULE ScreencastProofs --------------------------
(***************************************************************************)
(* The invariants of Screencast, for any sessions, streams, targets, sizes *)
(* and bounds, and first the one of Screencopy, which it extends, for any  *)
(* managers, frames and outputs.                                           *)
(***************************************************************************)
EXTENDS Screencast, RetainingProofs

---------------------------------------------------------------------------
(* The inductive invariant, of managers M, queues Q and frames F. *)

FrameType ==
  [object : {"None", "Alive", "Dying", "Gone"}, of : Managers \cup {Absent},
   output : Outputs \cup {Absent, "Removed"}, copied : BOOLEAN, drawing : BOOLEAN, answers : Nat]

QueueType ==
  [pending : SUBSET Frames, copies : Seq(Frames),
   cast : [output : Outputs, expired : BOOLEAN] \cup {NoCast}]

NoRepeats(s) == \A i, j \in DOMAIN s : s[i] = s[j] => i = j

\* Of what is a function.
IsFun(Q) == Q = [x \in DOMAIN Q |-> Q[x]]

WaitingOf(F, m) == {f \in Frames : IsWaiting(F[f], m)}
QueuedOf(F, m) == {f \in Frames : IsQueued(F[f], m)}

\* A queue that has what it should of the frames of m.
Holds(q, F, m) ==
  /\ q \in QueueType /\ NoRepeats(q.copies)
  /\ q.copies # <<>> => q.cast # NoCast
  /\ q.pending = WaitingOf(F, m) /\ ToSet(q.copies) = QueuedOf(F, m)

QueueOk(M, Q, F, m) ==
  /\ M[m] = "Alive" \/ WaitingOf(F, m) \cup QueuedOf(F, m) # {} => m \in DOMAIN Q
  /\ M[m] = "Gone" /\ WaitingOf(F, m) \cup QueuedOf(F, m) = {} => m \notin DOMAIN Q
  /\ m \in DOMAIN Q => Holds(Q[m], F, m)

\* Of a frame: what was asked of it and what it was told agree.
FrameOk(M, x) ==
  /\ x \in FrameType
  /\ x.object = "None" => x = NewFrame
  /\ x.object # "None" => x.of \in Managers /\ M[x.of] # "None"
  /\ x.copied => x.output # Absent
  /\ ~x.copied => ~x.drawing /\ (x.output # Absent => x.answers = 0)
  /\ x.answers <= 1
  /\ x.drawing => x.answers = 0
  /\ x.copied /\ x.answers = 0 /\ ~x.drawing => x.output # "Removed"

ManagerStates == {"None", "Alive", "Dying", "Gone"}

CopyInvOf(M, Q, F) ==
  /\ M \in [Managers -> ManagerStates] /\ F \in [Frames -> FrameType]
  /\ IsFun(Q) /\ DOMAIN Q \subseteq Managers
  /\ \A f \in Frames : FrameOk(M, F[f])
  /\ \A m \in Managers : QueueOk(M, Q, F, m)

CopyInv == CopyInvOf(managers, queues, frames)

\* The properties that are checked follow.
LEMMA CopyInvSuffices == CopyInv => CopiesAccountedFor
<1> SUFFICES ASSUME CopyInv PROVE CopiesAccountedFor
  OBVIOUS
<1>1. AnsweredOnce
  BY DEF CopyInv, CopyInvOf, FrameOk, AnsweredOnce
<1>2. QueueWithFrames
  BY DEF CopyInv, CopyInvOf, QueueOk, Holds, WaitingOf, QueuedOf, QueueWithFrames, IsAlive
<1> QED
  BY <1>1, <1>2 DEF CopiesAccountedFor

---------------------------------------------------------------------------
(* Queues. *)

\* A queue is empty when no frame of its manager waits.
LEMMA EmptyFacts ==
  ASSUME NEW q, NEW F, NEW m, Holds(q, F, m)
  PROVE  IsEmpty(q) <=> WaitingOf(F, m) \cup QueuedOf(F, m) = {}
<1>1. q.copies \in Seq(Frames)
  BY DEF Holds, QueueType
<1>2. q.copies = <<>> <=> ToSet(q.copies) = {}
  <2>1. q.copies = <<>> => ToSet(q.copies) = {}
    BY DEF ToSet
  <2>2. q.copies # <<>> => q.copies[1] \in ToSet(q.copies)
    BY <1>1 DEF ToSet
  <2> QED
    BY <2>1, <2>2
<1> QED
  BY <1>2 DEF Holds, IsEmpty

\* A queue that is deleted when it is empty and its manager is not alive.
LEMMA SettledFacts ==
  ASSUME NEW Q, NEW F, NEW m \in DOMAIN Q, IsFun(Q), NEW q, Holds(q, F, m),
         NEW R, R = Settled(Q, m, q)
  PROVE  /\ QueueOk(managers, R, F, m) /\ IsFun(R)
         /\ DOMAIN R \subseteq DOMAIN Q
         /\ \A n \in DOMAIN Q \ {m} : n \in DOMAIN R /\ R[n] = Q[n]
<1>1. IsEmpty(q) <=> WaitingOf(F, m) \cup QueuedOf(F, m) = {}
  BY EmptyFacts
<1>2. CASE IsEmpty(q) /\ ~IsAlive(m)
  <2>1. R = [n \in DOMAIN Q \ {m} |-> Q[n]]
    BY <1>2 DEF Settled, Without
  <2>2. /\ DOMAIN R = DOMAIN Q \ {m} /\ (\A n \in DOMAIN Q \ {m} : R[n] = Q[n]) /\ IsFun(R)
    BY <2>1 DEF IsFun
  <2> QED
    BY <1>1, <1>2, <2>2 DEF QueueOk, IsAlive
<1>3. CASE ~(IsEmpty(q) /\ ~IsAlive(m))
  <2>1. R = [Q EXCEPT ![m] = q]
    BY <1>3 DEF Settled
  <2>2. /\ DOMAIN R = DOMAIN Q /\ R[m] = q /\ (\A n \in DOMAIN Q \ {m} : R[n] = Q[n])
        /\ IsFun(R)
    BY <2>1 DEF IsFun
  <2> QED
    BY <1>1, <1>3, <2>2 DEF QueueOk, IsAlive
<1> QED
  BY <1>2, <1>3

\* A queue whose manager and whose frames are as they were.
LEMMA UntouchedQueue ==
  ASSUME NEW M, NEW Q, NEW F, NEW m, QueueOk(M, Q, F, m), NEW N, NEW R, NEW G,
         N[m] = M[m], m \in DOMAIN R <=> m \in DOMAIN Q, m \in DOMAIN Q => R[m] = Q[m],
         \A f \in Frames : /\ IsWaiting(G[f], m) <=> IsWaiting(F[f], m)
                           /\ IsQueued(G[f], m) <=> IsQueued(F[f], m)
  PROVE  QueueOk(N, R, G, m)
<1>1. WaitingOf(G, m) = WaitingOf(F, m) /\ QueuedOf(G, m) = QueuedOf(F, m)
  BY DEF WaitingOf, QueuedOf
<1> QED
  BY <1>1 DEF QueueOk, Holds

\* What goes from the copies of a queue.
LEMMA RetainFacts ==
  ASSUME NEW q \in QueueType, NoRepeats(q.copies), q.copies # <<>> => q.cast # NoCast,
         NEW S
  PROVE  LET r == Retain(q, Retained(q.copies, S)) IN
         /\ r \in QueueType /\ NoRepeats(r.copies) /\ (r.copies # <<>> => r.cast # NoCast)
         /\ r.pending = q.pending /\ ToSet(r.copies) = ToSet(q.copies) \cap S
<1> DEFINE left == Retained(q.copies, S)
           r == Retain(q, left)
<1>1. q.copies \in Seq(Frames) /\ q.cast \in [output : Outputs, expired : BOOLEAN] \cup {NoCast}
  BY DEF QueueType
<1>2. left \in Seq(Frames) /\ ToSet(left) = ToSet(q.copies) \cap S
  BY <1>1, RetainedFacts
<1>3. NoRepeats(left)
  BY <1>1, RetainedDistinct DEF NoRepeats
<1> HIDE DEF left
<1>4. CASE q.copies = <<>>
  BY <1>4 DEF Retain, ToSet
<1>5. CASE q.copies # <<>>
  <2> DEFINE c == IF left = <<>> /\ q.cast # NoCast THEN [q.cast EXCEPT !.expired = FALSE] ELSE q.cast
  <2>1. c \in [output : Outputs, expired : BOOLEAN] \cup {NoCast} /\ (left # <<>> => c # NoCast)
    BY <1>1, <1>5
  <2>2. r = [q EXCEPT !.copies = left, !.cast = c]
    BY <1>5 DEF Retain
  <2> HIDE DEF c, r
  <2>3. r \in QueueType /\ r.copies = left /\ r.pending = q.pending /\ r.cast = c
    BY <1>2, <2>1, <2>2 DEF QueueType
  <2> QED
    BY <1>2, <1>3, <2>1, <2>3 DEF r, left
<1> QED
  BY <1>4, <1>5 DEF left

\* A copy is appended, or the first is taken.
LEMMA PushFacts ==
  ASSUME NEW q \in QueueType, NoRepeats(q.copies), q.copies # <<>> => q.cast # NoCast,
         NEW f \in Frames, f \notin ToSet(q.copies), NEW o \in Outputs
  PROVE  /\ Push(q, f, o) \in QueueType /\ NoRepeats(Push(q, f, o).copies)
         /\ Push(q, f, o).cast # NoCast
         /\ Push(q, f, o).pending = q.pending
         /\ ToSet(Push(q, f, o).copies) = ToSet(q.copies) \cup {f}
<1> DEFINE r == Push(q, f, o)
           s == Append(q.copies, f)
           c == IF q.cast = NoCast THEN NewCopyCast(o)
                ELSE IF q.copies = <<>> THEN [q.cast EXCEPT !.output = o] ELSE q.cast
<1>1. q.copies \in Seq(Frames) /\ q.cast \in [output : Outputs, expired : BOOLEAN] \cup {NoCast}
  BY DEF QueueType
<1>2. /\ s \in Seq(Frames) /\ DOMAIN s = DOMAIN q.copies \cup {Len(q.copies) + 1}
      /\ s[Len(q.copies) + 1] = f
      /\ \A i \in DOMAIN q.copies : s[i] = q.copies[i] /\ i # Len(q.copies) + 1
  BY <1>1
<1> HIDE DEF s
<1>3. ToSet(s) = ToSet(q.copies) \cup {f}
  BY <1>2 DEF ToSet
<1>4. NoRepeats(s)
  BY <1>2 DEF NoRepeats, ToSet
<1>5. c \in [output : Outputs, expired : BOOLEAN]
  BY <1>1 DEF NewCopyCast
<1>6. r = [q EXCEPT !.copies = s, !.cast = c]
  BY DEF Push, s
<1> HIDE DEF c, r
<1>7. r \in QueueType /\ r.copies = s /\ r.cast = c /\ r.pending = q.pending
  BY <1>2, <1>5, <1>6 DEF QueueType
<1>8. c # NoCast
  BY <1>5, CopyAssumption
<1> QED
  BY <1>3, <1>4, <1>7, <1>8 DEF r

\* ScreencopyQueue::pop takes the first copy and nothing else.
LEMMA PopFacts ==
  ASSUME NEW q \in QueueType, NoRepeats(q.copies), q.copies # <<>>, q.cast # NoCast,
         \A f \in ToSet(q.copies) : frames[f].output \in Outputs
  PROVE  /\ Pop(q) \in QueueType /\ NoRepeats(Pop(q).copies)
         /\ Pop(q).cast # NoCast /\ Pop(q).pending = q.pending
         /\ ToSet(Pop(q).copies) = ToSet(q.copies) \ {Head(q.copies)}
<1> DEFINE r == Pop(q)
           s == Tail(q.copies)
           c == IF s = <<>> THEN [q.cast EXCEPT !.expired = FALSE]
                ELSE [q.cast EXCEPT !.output = frames[Head(s)].output]
<1>1. q.copies \in Seq(Frames) /\ q.cast \in [output : Outputs, expired : BOOLEAN]
  BY DEF QueueType
<1>2. /\ s \in Seq(Frames) /\ \A i \in DOMAIN s : i + 1 \in DOMAIN q.copies /\ s[i] = q.copies[i + 1]
      /\ \A i \in DOMAIN q.copies : i # 1 => i - 1 \in DOMAIN s /\ s[i - 1] = q.copies[i]
      /\ 1 \in DOMAIN q.copies /\ Head(q.copies) = q.copies[1]
      /\ DOMAIN q.copies \subseteq Nat /\ DOMAIN s \subseteq Nat /\ 0 \notin DOMAIN s
  <2>1. Len(q.copies) \in Nat /\ DOMAIN q.copies = 1 .. Len(q.copies) /\ Len(q.copies) > 0
    BY <1>1
  <2>2. s \in Seq(Frames) /\ Len(s) = Len(q.copies) - 1 /\ Head(q.copies) = q.copies[1]
    BY <1>1
  <2>3. DOMAIN s = 1 .. Len(q.copies) - 1
    BY <2>1, <2>2
  <2>4. \A i \in 1 .. Len(q.copies) - 1 : s[i] = q.copies[i + 1]
    BY <1>1, <2>1
  <2> HIDE DEF s
  <2>5. \A i \in DOMAIN s : i + 1 \in DOMAIN q.copies /\ s[i] = q.copies[i + 1]
    BY <2>1, <2>3, <2>4
  <2>6. ASSUME NEW i \in DOMAIN q.copies, i # 1
        PROVE  i - 1 \in DOMAIN s /\ s[i - 1] = q.copies[i]
    <3>1. i - 1 \in 1 .. Len(q.copies) - 1 /\ (i - 1) + 1 = i
      BY <2>1, <2>6
    <3> QED
      BY <2>3, <2>4, <3>1
  <2> QED
    BY <2>1, <2>2, <2>3, <2>5, <2>6
<1>3. s # <<>> => Head(s) = s[1] /\ 1 \in DOMAIN s
  BY <1>2
<1> HIDE DEF s
<1>4. NoRepeats(s)
  BY <1>2 DEF NoRepeats
<1>5. ToSet(s) = ToSet(q.copies) \ {Head(q.copies)}
  <2>1. \A i \in DOMAIN s : s[i] \in ToSet(q.copies) /\ s[i] # Head(q.copies)
    BY <1>2 DEF NoRepeats, ToSet
  <2>2. \A i \in DOMAIN q.copies : q.copies[i] # Head(q.copies) => q.copies[i] \in ToSet(s)
    BY <1>2 DEF ToSet
  <2> QED
    BY <2>1, <2>2 DEF ToSet
<1>6. s # <<>> => frames[Head(s)].output \in Outputs
  BY <1>2, <1>3 DEF ToSet
<1>7. c \in [output : Outputs, expired : BOOLEAN]
  BY <1>1, <1>6
<1>8. r = [q EXCEPT !.copies = s, !.cast = c]
  BY DEF Pop, s
<1> HIDE DEF c, r
<1>9. r \in QueueType /\ r.copies = s /\ r.cast = c /\ r.pending = q.pending
  BY <1>2, <1>7, <1>8 DEF QueueType
<1>10. c # NoCast
  BY <1>7, CopyAssumption
<1> QED
  BY <1>4, <1>5, <1>9, <1>10 DEF r

---------------------------------------------------------------------------
(* The actions. *)

\* A step of one manager or of one of its frames.
LEMMA OneManagerStep ==
  ASSUME CopyInv, NEW m \in Managers, NEW M, NEW Q, NEW F,
         M \in [Managers -> ManagerStates], F \in [Frames -> FrameType],
         IsFun(Q), DOMAIN Q \subseteq Managers,
         \A f \in Frames : FrameOk(M, F[f]),
         \A n \in Managers \ {m} : /\ M[n] = managers[n]
                                   /\ n \in DOMAIN Q <=> n \in DOMAIN queues
                                   /\ n \in DOMAIN queues => Q[n] = queues[n],
         \A f \in Frames : F[f] = frames[f] \/ (F[f].of = m /\ frames[f].of \in {m, Absent}),
         QueueOk(M, Q, F, m)
  PROVE  CopyInvOf(M, Q, F)
<1>1. ASSUME NEW n \in Managers \ {m} PROVE QueueOk(M, Q, F, n)
  <2>1. \A f \in Frames : /\ IsWaiting(F[f], n) <=> IsWaiting(frames[f], n)
                          /\ IsQueued(F[f], n) <=> IsQueued(frames[f], n)
    BY CopyAssumption DEF IsWaiting, IsQueued
  <2>2. QueueOk(managers, queues, frames, n)
    BY DEF CopyInv, CopyInvOf
  <2> QED
    BY <2>1, <2>2, UntouchedQueue
<1> QED
  BY <1>1 DEF CopyInvOf

\* Binding the manager preserves the invariant.
LEMMA BindManagerStep ==
  ASSUME CopyInv, NEW m \in Managers, BindManager(m)
  PROVE  CopyInv'
<1>1. /\ managers \in [Managers -> ManagerStates] /\ frames \in [Frames -> FrameType]
      /\ DOMAIN queues \subseteq Managers /\ \A f \in Frames : FrameOk(managers, frames[f])
  BY DEF CopyInv, CopyInvOf
<1>2. /\ managers[m] = "None" /\ frames' = frames
      /\ managers' = [managers EXCEPT ![m] = "Alive"]
      /\ queues' = [x \in DOMAIN queues \cup {m} |-> IF x = m THEN NewQueue ELSE queues[x]]
  BY DEF BindManager
<1>3. managers' \in [Managers -> ManagerStates] /\ managers'[m] = "Alive"
      /\ \A n \in Managers \ {m} : managers'[n] = managers[n]
  BY <1>1, <1>2 DEF ManagerStates
<1>4. \A f \in Frames : frames[f].of # m
  <2> TAKE f \in Frames
  <2>1. FrameOk(managers, frames[f])
    BY <1>1
  <2> QED
    BY <1>2, <2>1, CopyAssumption DEF FrameOk, NewFrame
<1>5. Holds(NewQueue, frames, m)
  <2>1. WaitingOf(frames, m) = {} /\ QueuedOf(frames, m) = {}
    BY <1>4 DEF WaitingOf, QueuedOf, IsWaiting, IsQueued
  <2>2. <<>> \in Seq(Frames) /\ NoRepeats(<<>>) /\ ToSet(<<>>) = {}
    BY DEF NoRepeats, ToSet
  <2> QED
    BY <2>1, <2>2 DEF Holds, NewQueue, QueueType
<1>6. QueueOk(managers', queues', frames, m)
  BY <1>2, <1>3, <1>5 DEF QueueOk
<1>7. \A f \in Frames : FrameOk(managers', frames[f])
  BY <1>1, <1>3 DEF FrameOk
<1>8. /\ IsFun(queues') /\ DOMAIN queues' \subseteq Managers
      /\ \A n \in Managers \ {m} : /\ n \in DOMAIN queues' <=> n \in DOMAIN queues
                                   /\ n \in DOMAIN queues => queues'[n] = queues[n]
  BY <1>1, <1>2 DEF IsFun
<1>9. CopyInvOf(managers', queues', frames)
  BY <1>1, <1>3, <1>6, <1>7, <1>8, OneManagerStep
<1> QED
  BY <1>2, <1>9 DEF CopyInv

\* What waits and what is queued when one frame changes.
LEMMA OneFrameSets ==
  ASSUME NEW f \in Frames, NEW F, NEW G, \A g \in Frames \ {f} : G[g] = F[g], NEW m
  PROVE  /\ WaitingOf(G, m) = IF IsWaiting(G[f], m) THEN WaitingOf(F, m) \cup {f}
                              ELSE WaitingOf(F, m) \ {f}
         /\ QueuedOf(G, m) = IF IsQueued(G[f], m) THEN QueuedOf(F, m) \cup {f}
                             ELSE QueuedOf(F, m) \ {f}
BY DEF WaitingOf, QueuedOf

\* A step of one frame, with the queue of its manager.
LEMMA OneFrameStep ==
  ASSUME CopyInv, NEW f \in Frames, NEW m \in Managers, NEW x, FrameOk(managers, x), x.of = m,
         frames[f].of \in {m, Absent}, NEW Q, IsFun(Q),
         DOMAIN Q \subseteq Managers,
         \A n \in Managers \ {m} : /\ n \in DOMAIN Q <=> n \in DOMAIN queues
                                   /\ n \in DOMAIN queues => Q[n] = queues[n],
         QueueOk(managers, Q, [frames EXCEPT ![f] = x], m),
         managers' = managers, queues' = Q, frames' = [frames EXCEPT ![f] = x]
  PROVE  CopyInv'
<1> DEFINE F == [frames EXCEPT ![f] = x]
<1>1. /\ managers \in [Managers -> ManagerStates] /\ frames \in [Frames -> FrameType]
      /\ \A g \in Frames : FrameOk(managers, frames[g])
  BY DEF CopyInv, CopyInvOf
<1>2. x \in FrameType
  BY DEF FrameOk
<1>3. F \in [Frames -> FrameType] /\ F[f] = x /\ \A g \in Frames \ {f} : F[g] = frames[g]
  BY <1>1, <1>2
<1> HIDE DEF F
<1>4. \A g \in Frames : FrameOk(managers, F[g])
  BY <1>1, <1>3
<1>5. \A g \in Frames : F[g] = frames[g] \/ (F[g].of = m /\ frames[g].of \in {m, Absent})
  BY <1>3
<1>6. CopyInvOf(managers, Q, F)
  BY <1>1, <1>3, <1>4, <1>5, OneManagerStep DEF F
<1> QED
  BY <1>6 DEF CopyInv, F

\* What is known of a frame and of its manager's queue.
LEMMA FrameFacts ==
  ASSUME CopyInv, NEW f \in Frames
  PROVE  /\ frames \in [Frames -> FrameType] /\ FrameOk(managers, frames[f])
         /\ IsFun(queues) /\ DOMAIN queues \subseteq Managers
         /\ frames[f].object # "None" => frames[f].of \in Managers
         /\ \A m \in Managers :
              /\ QueueOk(managers, queues, frames, m)
              /\ m \in DOMAIN queues => Holds(queues[m], frames, m)
              /\ managers[m] = "Alive" => m \in DOMAIN queues
              /\ IsWaiting(frames[f], m) \/ IsQueued(frames[f], m) => m \in DOMAIN queues
BY DEF CopyInv, CopyInvOf, FrameOk, QueueOk, WaitingOf, QueuedOf

\* capture_output preserves the invariant.
LEMMA CaptureOutputStep ==
  ASSUME CopyInv, NEW m \in Managers, NEW f \in Frames,
         NEW o \in Outputs \cup {"Removed", Absent}, CaptureOutput(m, f, o)
  PROVE  CopyInv'
<1> DEFINE x == [NewFrame EXCEPT !.object = "Alive", !.of = m, !.output = o,
                                 !.answers = IF o = Absent THEN 1 ELSE 0]
           F == [frames EXCEPT ![f] = x]
<1>1. /\ managers[m] = "Alive" /\ frames[f].object = "None" /\ frames' = F /\ managers' = managers
      /\ queues' = IF o = Absent THEN queues ELSE [queues EXCEPT ![m].pending = @ \cup {f}]
  BY DEF CaptureOutput, IsAlive
<1>2. /\ frames \in [Frames -> FrameType] /\ FrameOk(managers, frames[f])
      /\ IsFun(queues) /\ DOMAIN queues \subseteq Managers
      /\ m \in DOMAIN queues /\ Holds(queues[m], frames, m) /\ QueueOk(managers, queues, frames, m)
  BY <1>1, FrameFacts
<1>3. frames[f] = NewFrame /\ frames[f].of = Absent
  BY <1>1, <1>2 DEF FrameOk, NewFrame
<1>4. /\ x \in FrameType /\ x.of = m /\ x.object = "Alive" /\ x.output = o /\ ~x.copied /\ ~x.drawing
      /\ x.answers = IF o = Absent THEN 1 ELSE 0
  BY DEF FrameType, NewFrame
<1>5. FrameOk(managers, x)
  BY <1>1, <1>4 DEF FrameOk
<1>6. /\ ~IsWaiting(frames[f], m) /\ ~IsQueued(frames[f], m)
      /\ IsWaiting(x, m) <=> o # Absent
      /\ ~IsQueued(x, m)
  BY <1>3, <1>4, CopyAssumption DEF IsWaiting, IsQueued
<1> HIDE DEF x
<1>7. /\ f \notin WaitingOf(frames, m) /\ f \notin QueuedOf(frames, m)
      /\ WaitingOf(F, m) = IF o = Absent THEN WaitingOf(frames, m) ELSE WaitingOf(frames, m) \cup {f}
      /\ QueuedOf(F, m) = QueuedOf(frames, m)
  <2>1. f \notin WaitingOf(frames, m) /\ f \notin QueuedOf(frames, m)
    BY <1>6 DEF WaitingOf, QueuedOf
  <2>2. /\ WaitingOf(F, m) = IF IsWaiting(x, m) THEN WaitingOf(frames, m) \cup {f}
                                               ELSE WaitingOf(frames, m) \ {f}
        /\ QueuedOf(F, m) = IF IsQueued(x, m) THEN QueuedOf(frames, m) \cup {f}
                                             ELSE QueuedOf(frames, m) \ {f}
    <3>1. F[f] = x /\ \A g \in Frames \ {f} : F[g] = frames[g]
      BY <1>2
    <3> HIDE DEF F
    <3> QED
      BY <3>1, OneFrameSets
  <2> HIDE DEF F
  <2> QED
    BY <1>6, <2>1, <2>2
<1> HIDE DEF F
<1>8. CASE o = Absent
  <2>1. QueueOk(managers, queues, F, m)
    BY <1>2, <1>7, <1>8 DEF QueueOk, Holds
  <2> QED
    BY <1>1, <1>2, <1>3, <1>4, <1>5, <1>8, <2>1, OneFrameStep DEF F
<1>9. CASE o # Absent
  <2> DEFINE q == [queues[m] EXCEPT !.pending = @ \cup {f}]
             Q == [queues EXCEPT ![m] = q]
  <2>1. queues' = Q
    BY <1>1, <1>9
  <2>2. /\ q \in QueueType /\ q.pending = queues[m].pending \cup {f} /\ q.copies = queues[m].copies
        /\ q.cast = queues[m].cast
    BY <1>2 DEF Holds, QueueType
  <2> HIDE DEF q
  <2>3. Holds(q, F, m)
    BY <1>2, <1>7, <1>9, <2>2 DEF Holds
  <2>4. /\ IsFun(Q) /\ DOMAIN Q = DOMAIN queues /\ Q[m] = q
        /\ \A n \in Managers \ {m} : /\ n \in DOMAIN Q <=> n \in DOMAIN queues
                                     /\ n \in DOMAIN queues => Q[n] = queues[n]
    BY <1>2 DEF IsFun
  <2> HIDE DEF Q
  <2>5. QueueOk(managers, Q, F, m)
    BY <1>1, <1>2, <2>3, <2>4 DEF QueueOk
  <2> QED
    BY <1>1, <1>2, <1>3, <1>4, <1>5, <2>1, <2>4, <2>5, OneFrameStep DEF F
<1> QED
  BY <1>8, <1>9

\* Objects die: their frames wait as before.
LEMMA DyingStep ==
  ASSUME CopyInv, NEW M, NEW F, M \in [Managers -> ManagerStates],
         \A m \in Managers : M[m] = managers[m] \/ (managers[m] = "Alive" /\ M[m] = "Dying"),
         F \in [Frames -> FrameType],
         \A f \in Frames : \/ F[f] = frames[f]
                           \/ frames[f].object = "Alive" /\ F[f] = [frames[f] EXCEPT !.object = "Dying"],
         managers' = M, queues' = queues, frames' = F
  PROVE  CopyInv'
<1>1. /\ frames \in [Frames -> FrameType] /\ \A g \in Frames : FrameOk(managers, frames[g])
      /\ IsFun(queues) /\ DOMAIN queues \subseteq Managers
      /\ \A m \in Managers : QueueOk(managers, queues, frames, m)
  BY DEF CopyInv, CopyInvOf
<1>2. ASSUME NEW f \in Frames
      PROVE  /\ FrameOk(M, F[f])
             /\ \A m \in Managers : /\ IsWaiting(F[f], m) <=> IsWaiting(frames[f], m)
                                    /\ IsQueued(F[f], m) <=> IsQueued(frames[f], m)
  <2>1. FrameOk(managers, frames[f])
    BY <1>1
  <2>2. CASE F[f] = frames[f]
    BY <2>1, <2>2 DEF FrameOk
  <2>3. CASE frames[f].object = "Alive" /\ F[f] = [frames[f] EXCEPT !.object = "Dying"]
    <3>1. /\ F[f] \in FrameType /\ F[f].object = "Dying" /\ F[f].of = frames[f].of
          /\ F[f].output = frames[f].output /\ F[f].copied = frames[f].copied
          /\ F[f].drawing = frames[f].drawing /\ F[f].answers = frames[f].answers
      BY <2>1, <2>3 DEF FrameOk, FrameType
    <3> QED
      BY <2>1, <2>3, <3>1 DEF FrameOk, IsWaiting, IsQueued
  <2> QED
    BY <2>2, <2>3
<1>3. ASSUME NEW m \in Managers PROVE QueueOk(M, queues, F, m)
  <2>1. WaitingOf(F, m) = WaitingOf(frames, m) /\ QueuedOf(F, m) = QueuedOf(frames, m)
    BY <1>2 DEF WaitingOf, QueuedOf
  <2>2. QueueOk(managers, queues, frames, m)
    BY <1>1
  <2> QED
    BY <2>1, <2>2 DEF QueueOk, Holds
<1>4. CopyInvOf(M, queues, F)
  BY <1>1, <1>2, <1>3 DEF CopyInvOf
<1> QED
  BY <1>4 DEF CopyInv

\* A client that leaves takes its objects along, and their handlers are still to come.
LEMMA DisconnectFacts ==
  ASSUME CopyInv, NEW m \in Managers, Disconnect(m), queues' = queues
  PROVE  CopyInv'
<1>1. managers \in [Managers -> ManagerStates] /\ frames \in [Frames -> FrameType]
  BY DEF CopyInv, CopyInvOf
<1>2. /\ managers' = [managers EXCEPT ![m] = IF @ = "Alive" THEN "Dying" ELSE @]
      /\ frames' = [f \in Frames |->
                      IF frames[f].of = m /\ frames[f].object = "Alive"
                      THEN [frames[f] EXCEPT !.object = "Dying"] ELSE frames[f]]
  BY DEF Disconnect
<1>3. /\ managers' \in [Managers -> ManagerStates]
      /\ \A n \in Managers : managers'[n] = managers[n] \/ (managers[n] = "Alive" /\ managers'[n] = "Dying")
  BY <1>1, <1>2 DEF ManagerStates
<1>4. /\ frames' \in [Frames -> FrameType]
      /\ \A f \in Frames : \/ frames'[f] = frames[f]
                           \/ frames[f].object = "Alive" /\ frames'[f] = [frames[f] EXCEPT !.object = "Dying"]
  BY <1>1, <1>2 DEF FrameType
<1> QED
  BY <1>3, <1>4, DyingStep

\* A client that destroys an object, or leaves, preserves the invariant.
LEMMA DestroyStep ==
  ASSUME CopyInv, \/ \E m \in Managers : DestroyManager(m)
                  \/ \E f \in Frames : DestroyFrame(f)
  PROVE  CopyInv'
<1>1. managers \in [Managers -> ManagerStates] /\ frames \in [Frames -> FrameType]
  BY DEF CopyInv, CopyInvOf
<1>2. ASSUME NEW m \in Managers, DestroyManager(m) PROVE CopyInv'
  <2>1. CASE managers' = [managers EXCEPT ![m] = "Dying"] /\ UNCHANGED frames
    <3>1. /\ managers' \in [Managers -> ManagerStates]
          /\ \A n \in Managers : managers'[n] = managers[n] \/ (managers[n] = "Alive" /\ managers'[n] = "Dying")
      BY <1>1, <1>2, <2>1 DEF ManagerStates, DestroyManager, IsAlive
    <3> QED
      BY <1>1, <1>2, <2>1, <3>1, DyingStep DEF DestroyManager
  <2>2. CASE Disconnect(m)
    BY <1>2, <2>2, DisconnectFacts DEF DestroyManager
  <2> QED
    BY <1>2, <2>1, <2>2 DEF DestroyManager
<1>3. ASSUME NEW f \in Frames, DestroyFrame(f) PROVE CopyInv'
  <2>1. /\ frames' \in [Frames -> FrameType]
        /\ \A g \in Frames : \/ frames'[g] = frames[g]
                             \/ frames[g].object = "Alive" /\ frames'[g] = [frames[g] EXCEPT !.object = "Dying"]
    BY <1>1, <1>3 DEF FrameType, DestroyFrame
  <2> QED
    BY <1>1, <1>3, <2>1, DyingStep DEF DestroyFrame
<1> QED
  BY <1>2, <1>3

\* A step of one frame after which its manager's queue is deleted if nothing is left.
LEMMA SettledFrameStep ==
  ASSUME CopyInv, NEW f \in Frames, NEW m \in DOMAIN queues, frames[f].of = m,
         NEW F \in [Frames -> FrameType], F[f].of = m, FrameOk(managers, F[f]),
         \A g \in Frames \ {f} : F[g] = frames[g],
         NEW Q, IsFun(Q), DOMAIN Q = DOMAIN queues,
         \A n \in DOMAIN queues \ {m} : Q[n] = queues[n],
         NEW q, Holds(q, F, m), NEW R, R = Settled(Q, m, q)
  PROVE  CopyInvOf(managers, R, F)
<1>1. /\ managers \in [Managers -> ManagerStates] /\ DOMAIN queues \subseteq Managers
      /\ \A g \in Frames : FrameOk(managers, frames[g])
  BY DEF CopyInv, CopyInvOf
<1>2. /\ QueueOk(managers, R, F, m) /\ IsFun(R)
      /\ DOMAIN R \subseteq DOMAIN Q
      /\ \A n \in DOMAIN Q \ {m} : n \in DOMAIN R /\ R[n] = Q[n]
  BY SettledFacts
<1>3. \A n \in Managers \ {m} : /\ n \in DOMAIN R <=> n \in DOMAIN queues
                                /\ n \in DOMAIN queues => R[n] = queues[n]
  BY <1>2
<1>4. \A g \in Frames : /\ FrameOk(managers, F[g])
                        /\ F[g] = frames[g] \/ (F[g].of = m /\ frames[g].of \in {m, Absent})
  BY <1>1
<1> QED
  BY <1>1, <1>2, <1>3, <1>4, OneManagerStep

\* A step of a frame that neither waits nor is queued, before or after.
LEMMA IdleFrameStep ==
  ASSUME CopyInv, NEW f \in Frames, NEW F \in [Frames -> FrameType],
         F[f].of = frames[f].of, FrameOk(managers, F[f]),
         \A g \in Frames \ {f} : F[g] = frames[g],
         \A m \in Managers : /\ IsWaiting(F[f], m) <=> IsWaiting(frames[f], m)
                             /\ IsQueued(F[f], m) <=> IsQueued(frames[f], m),
         managers' = managers, queues' = queues, frames' = F
  PROVE  CopyInv'
<1>1. /\ managers \in [Managers -> ManagerStates] /\ DOMAIN queues \subseteq Managers
      /\ IsFun(queues)
      /\ \A g \in Frames : FrameOk(managers, frames[g])
      /\ \A m \in Managers : QueueOk(managers, queues, frames, m)
  BY DEF CopyInv, CopyInvOf
<1>2. ASSUME NEW m \in Managers PROVE QueueOk(managers, queues, F, m)
  <2>1. \A g \in Frames : /\ IsWaiting(F[g], m) <=> IsWaiting(frames[g], m)
                          /\ IsQueued(F[g], m) <=> IsQueued(frames[g], m)
    OBVIOUS
  <2> QED
    BY <1>1, <2>1, UntouchedQueue
<1>3. \A g \in Frames : FrameOk(managers, F[g])
  BY <1>1
<1>4. CopyInvOf(managers, queues, F)
  BY <1>1, <1>2, <1>3 DEF CopyInvOf
<1> QED
  BY <1>4 DEF CopyInv

\* What a queue holds once a frame is neither pending nor queued.
LEMMA ForgetFacts ==
  ASSUME NEW m, NEW f \in Frames, NEW F, NEW G, NEW q, Holds(q, F, m),
         \A g \in Frames \ {f} : G[g] = F[g], ~IsWaiting(G[f], m), ~IsQueued(G[f], m),
         NEW r, r = [Retain(q, Retained(q.copies, Frames \ {f})) EXCEPT !.pending = @ \ {f}]
  PROVE  Holds(r, G, m)
<1> DEFINE k == Retain(q, Retained(q.copies, Frames \ {f}))
<1>1. q \in QueueType /\ q.copies \in Seq(Frames)
  BY DEF Holds, QueueType
<1>2. /\ k \in QueueType /\ NoRepeats(k.copies) /\ (k.copies # <<>> => k.cast # NoCast)
      /\ k.pending = q.pending /\ ToSet(k.copies) = ToSet(q.copies) \cap (Frames \ {f})
  BY <1>1, RetainFacts DEF Holds
<1> HIDE DEF k
<1>3. r = [k EXCEPT !.pending = k.pending \ {f}]
  BY DEF k
<1>4. r \in QueueType /\ r.pending = k.pending \ {f} /\ r.copies = k.copies /\ r.cast = k.cast
  BY <1>2, <1>3 DEF QueueType
<1>5. WaitingOf(G, m) = WaitingOf(F, m) \ {f} /\ QueuedOf(G, m) = QueuedOf(F, m) \ {f}
  BY OneFrameSets
<1>6. QueuedOf(F, m) \subseteq Frames
  BY DEF QueuedOf
<1> QED
  BY <1>2, <1>4, <1>5, <1>6 DEF Holds

\* The handler of a destroyed frame preserves the invariant.
LEMMA FrameDestroyedStep ==
  ASSUME CopyInv, NEW f \in Frames, FrameDestroyed(f)
  PROVE  CopyInv'
<1> DEFINE m == frames[f].of
           waits == m \in DOMAIN queues /\ f \in ToSet(queues[m].copies)
           q == [Retain(queues[m], Retained(queues[m].copies, Frames \ {f})) EXCEPT !.pending = @ \ {f}]
<1>1. /\ frames[f].object = "Dying" /\ managers' = managers
      /\ frames' = [Fail(frames, IF waits THEN {f} ELSE {}) EXCEPT ![f].object = "Gone"]
      /\ queues' = IF m \notin DOMAIN queues \/ frames[f].output = Absent THEN queues
                   ELSE Settled(queues, m, q)
  BY DEF FrameDestroyed
<1>2. /\ frames \in [Frames -> FrameType] /\ FrameOk(managers, frames[f])
      /\ IsFun(queues) /\ DOMAIN queues \subseteq Managers
      /\ m \in Managers /\ (m \in DOMAIN queues => Holds(queues[m], frames, m))
      /\ IsWaiting(frames[f], m) \/ IsQueued(frames[f], m) => m \in DOMAIN queues
  BY <1>1, FrameFacts
<1> DEFINE F == frames'
<1>3. /\ F \in [Frames -> FrameType] /\ \A g \in Frames \ {f} : F[g] = frames[g]
      /\ F[f].object = "Gone" /\ F[f].of = m /\ F[f].output = frames[f].output
      /\ F[f].copied = frames[f].copied /\ F[f].drawing = frames[f].drawing
      /\ F[f].answers = IF waits THEN frames[f].answers + 1 ELSE frames[f].answers
  <2> HIDE DEF waits
  <2>1. /\ Fail(frames, IF waits THEN {f} ELSE {}) \in [Frames -> FrameType]
        /\ \A g \in Frames \ {f} : Fail(frames, IF waits THEN {f} ELSE {})[g] = frames[g]
        /\ Fail(frames, IF waits THEN {f} ELSE {})[f] =
             IF waits THEN [frames[f] EXCEPT !.answers = @ + 1] ELSE frames[f]
    BY <1>2 DEF Fail, FrameType
  <2> DEFINE G == Fail(frames, IF waits THEN {f} ELSE {})
  <2>2. frames' = [G EXCEPT ![f] = [G[f] EXCEPT !.object = "Gone"]]
    BY <1>1
  <2> HIDE DEF G
  <2>3. G[f] \in FrameType /\ frames[f] \in FrameType
    BY <1>2, <2>1 DEF G
  <2> QED
    BY <1>2, <2>1, <2>2, <2>3 DEF FrameType, G
<1>4. waits <=> IsQueued(frames[f], m)
  BY <1>2 DEF Holds, QueuedOf
<1> HIDE DEF waits, F
<1>5. FrameOk(managers, F[f])
  <2>1. F[f] \in FrameType /\ frames[f].answers \in Nat
    BY <1>2, <1>3 DEF FrameType
  <2>2. CASE waits
    <3>1. F[f].answers = 1 /\ F[f].copied /\ ~F[f].drawing
      BY <1>3, <1>4, <2>2 DEF IsQueued
    <3>2. F[f].of \in Managers /\ managers[F[f].of] # "None"
      BY <1>1, <1>2, <1>3 DEF FrameOk
    <3>3. F[f].output # Absent /\ F[f].object # "None"
      BY <1>2, <1>3, <1>4, <2>2 DEF FrameOk, IsQueued
    <3> QED
      BY <2>1, <3>1, <3>2, <3>3 DEF FrameOk
  <2>3. CASE ~waits
    BY <1>1, <1>2, <1>3, <2>1, <2>3 DEF FrameOk
  <2> QED
    BY <2>2, <2>3
<1>6. \A n \in Managers : ~IsWaiting(F[f], n) /\ ~IsQueued(F[f], n)
  BY <1>2, <1>3, <1>4 DEF IsWaiting, IsQueued, FrameOk, FrameType
<1>7. CASE m \notin DOMAIN queues \/ frames[f].output = Absent
  <2>1. \A n \in Managers : ~IsWaiting(frames[f], n) /\ ~IsQueued(frames[f], n)
    BY <1>2, <1>7 DEF IsWaiting, IsQueued, FrameOk
  <2>2. queues' = queues
    BY <1>1, <1>7
  <2> QED
    BY <1>1, <1>3, <1>5, <1>6, <2>1, <2>2, IdleFrameStep DEF F
<1>8. CASE ~(m \notin DOMAIN queues \/ frames[f].output = Absent)
  <2>1. Holds(q, F, m)
    BY <1>2, <1>3, <1>6, <1>8, ForgetFacts
  <2>2. queues' = Settled(queues, m, q)
    BY <1>1, <1>8
  <2>3. m \in DOMAIN queues /\ frames[f].of = m /\ frames' = F
    BY <1>8 DEF F
  <2> HIDE DEF q, m
  <2>4. CopyInvOf(managers, Settled(queues, m, q), F)
    BY <1>2, <1>3, <1>5, <2>1, <2>3, SettledFrameStep
  <2> QED
    BY <1>1, <2>2, <2>3, <2>4 DEF CopyInv
<1> QED
  BY <1>7, <1>8

\* The handler of a destroyed manager preserves the invariant.
LEMMA ManagerDestroyedStep ==
  ASSUME CopyInv, NEW m \in Managers, ManagerDestroyed(m)
  PROVE  CopyInv'
<1> DEFINE M == [managers EXCEPT ![m] = "Gone"]
           Q == IF m \in DOMAIN queues /\ IsEmpty(queues[m]) THEN Without(queues, {m}) ELSE queues
<1>1. managers[m] = "Dying" /\ managers' = M /\ queues' = Q /\ frames' = frames
  BY DEF ManagerDestroyed
<1>2. /\ managers \in [Managers -> ManagerStates] /\ frames \in [Frames -> FrameType]
      /\ IsFun(queues) /\ DOMAIN queues \subseteq Managers
      /\ QueueOk(managers, queues, frames, m)
      /\ \A f \in Frames : FrameOk(managers, frames[f])
  BY DEF CopyInv, CopyInvOf
<1>3. /\ M \in [Managers -> ManagerStates] /\ M[m] = "Gone"
      /\ \A n \in Managers \ {m} : M[n] = managers[n]
  BY <1>2 DEF ManagerStates
<1> HIDE DEF M
<1>4. \A f \in Frames : FrameOk(M, frames[f])
  BY <1>2, <1>3 DEF FrameOk
<1>5. CASE m \in DOMAIN queues /\ IsEmpty(queues[m])
  <2>1. Q = [n \in DOMAIN queues \ {m} |-> queues[n]]
    BY <1>5 DEF Without
  <2> HIDE DEF Q
  <2>2. /\ IsFun(Q) /\ DOMAIN Q = DOMAIN queues \ {m}
        /\ \A n \in DOMAIN queues \ {m} : Q[n] = queues[n]
    BY <2>1 DEF IsFun
  <2>3. WaitingOf(frames, m) \cup QueuedOf(frames, m) = {}
    BY <1>2, <1>5, EmptyFacts DEF QueueOk
  <2>4. QueueOk(M, Q, frames, m)
    BY <1>3, <2>2, <2>3 DEF QueueOk
  <2>5. CopyInvOf(M, Q, frames)
    BY <1>2, <1>3, <1>4, <2>2, <2>4, OneManagerStep
  <2> QED
    BY <1>1, <2>5 DEF CopyInv
<1>6. CASE ~(m \in DOMAIN queues /\ IsEmpty(queues[m]))
  <2>1. Q = queues
    BY <1>6
  <2>2. m \in DOMAIN queues => WaitingOf(frames, m) \cup QueuedOf(frames, m) # {}
    BY <1>2, <1>6, EmptyFacts DEF QueueOk
  <2>3. QueueOk(M, queues, frames, m)
    BY <1>2, <1>3, <2>2 DEF QueueOk
  <2>4. CopyInvOf(M, queues, frames)
    BY <1>2, <1>3, <1>4, <2>3, OneManagerStep
  <2> QED
    BY <1>1, <2>1, <2>4 DEF CopyInv
<1> QED
  BY <1>5, <1>6

\* The deadline of a cast entry preserves the invariant.
LEMMA CastDeadlineStep ==
  ASSUME CopyInv, NEW m \in Managers, CastDeadline(m)
  PROVE  CopyInv'
<1> DEFINE q == [queues[m] EXCEPT !.cast = [@ EXCEPT !.expired = TRUE]]
           Q == [queues EXCEPT ![m] = q]
<1>1. /\ m \in DOMAIN queues /\ queues[m].cast # NoCast /\ queues[m].copies = <<>>
      /\ queues' = Q /\ managers' = managers /\ frames' = frames
  BY DEF CastDeadline
<1>2. /\ managers \in [Managers -> ManagerStates] /\ frames \in [Frames -> FrameType]
      /\ IsFun(queues) /\ DOMAIN queues \subseteq Managers
      /\ QueueOk(managers, queues, frames, m) /\ Holds(queues[m], frames, m)
      /\ \A f \in Frames : FrameOk(managers, frames[f])
  BY <1>1 DEF CopyInv, CopyInvOf, QueueOk
<1>3. /\ q \in QueueType /\ q.pending = queues[m].pending /\ q.copies = queues[m].copies
  BY <1>1, <1>2 DEF Holds, QueueType
<1> HIDE DEF q
<1>4. Holds(q, frames, m)
  BY <1>1, <1>2, <1>3 DEF Holds
<1>5. /\ IsFun(Q) /\ DOMAIN Q = DOMAIN queues /\ Q[m] = q
      /\ \A n \in DOMAIN queues \ {m} : Q[n] = queues[n]
  BY <1>1, <1>2 DEF IsFun
<1> HIDE DEF Q
<1>6. QueueOk(managers, Q, frames, m)
  BY <1>1, <1>2, <1>4, <1>5 DEF QueueOk
<1>7. CopyInvOf(managers, Q, frames)
  BY <1>2, <1>5, <1>6, OneManagerStep
<1> QED
  BY <1>1, <1>7 DEF CopyInv

\* The answer to a frame that was drawn preserves the invariant.
LEMMA SubmitAfterSyncStep ==
  ASSUME CopyInv, NEW f \in Frames, SubmitAfterSync(f)
  PROVE  CopyInv'
<1> DEFINE x == [frames[f] EXCEPT !.drawing = FALSE, !.answers = @ + 1]
           F == [frames EXCEPT ![f] = x]
<1>1. frames[f].drawing /\ managers' = managers /\ queues' = queues
  BY DEF SubmitAfterSync
<1>2. frames \in [Frames -> FrameType] /\ FrameOk(managers, frames[f]) /\ frames[f] \in FrameType
  BY FrameFacts DEF FrameOk
<1>3. frames' = F
  BY <1>2 DEF SubmitAfterSync, FrameType
<1>4. frames[f].copied /\ frames[f].answers = 0
  BY <1>1, <1>2 DEF FrameOk
<1>5. /\ x \in FrameType /\ x.of = frames[f].of /\ x.object = frames[f].object
      /\ x.output = frames[f].output /\ x.copied = frames[f].copied /\ ~x.drawing /\ x.answers = 1
  <2>1. x = [frames[f] EXCEPT !.drawing = FALSE, !.answers = 1]
    BY <1>4
  <2> HIDE DEF x
  <2> QED
    BY <1>2, <2>1 DEF FrameType
<1> HIDE DEF x
<1>6. frames[f].object # "None"
  BY <1>1, <1>2 DEF FrameOk, NewFrame
<1>7. FrameOk(managers, x)
  BY <1>2, <1>4, <1>5, <1>6 DEF FrameOk
<1>8. \A m \in Managers : /\ IsWaiting(x, m) <=> IsWaiting(frames[f], m)
                          /\ IsQueued(x, m) <=> IsQueued(frames[f], m)
  BY <1>1, <1>4, <1>5 DEF IsWaiting, IsQueued
<1>9. F \in [Frames -> FrameType] /\ F[f] = x /\ \A g \in Frames \ {f} : F[g] = frames[g]
  BY <1>2, <1>5
<1> HIDE DEF F
<1> QED
  BY <1>1, <1>3, <1>5, <1>7, <1>8, <1>9, IdleFrameStep

\* The step after which a copy of f was asked for: answered, or being drawn.
LEMMA AnsweredStep ==
  ASSUME CopyInv, NEW f \in Frames, NEW m \in DOMAIN queues, frames[f].of = m,
         NEW G \in [Frames -> FrameType], FrameOk(managers, G[f]), G[f].of = m, G[f].copied,
         ~IsQueued(G[f], m), ~IsQueued(frames[f], m), \A g \in Frames \ {f} : G[g] = frames[g]
  PROVE  CopyInvOf(managers, NoLongerPending(queues, m, f), G)
<1> DEFINE q == [queues[m] EXCEPT !.pending = @ \ {f}]
<1>1. /\ IsFun(queues) /\ DOMAIN queues \subseteq Managers /\ Holds(queues[m], frames, m)
  BY FrameFacts
<1>2. /\ q \in QueueType /\ q.pending = queues[m].pending \ {f} /\ q.copies = queues[m].copies
      /\ q.cast = queues[m].cast
  BY <1>1 DEF Holds, QueueType
<1>3. ~IsWaiting(G[f], m)
  BY DEF IsWaiting
<1>4. WaitingOf(G, m) = WaitingOf(frames, m) \ {f} /\ QueuedOf(G, m) = QueuedOf(frames, m) \ {f}
  BY <1>3, OneFrameSets
<1>5. f \notin QueuedOf(frames, m)
  BY DEF QueuedOf
<1>6. NoLongerPending(queues, m, f) = Settled(queues, m, q)
  BY DEF NoLongerPending
<1> HIDE DEF q
<1>7. Holds(q, G, m)
  BY <1>1, <1>2, <1>4, <1>5 DEF Holds
<1>8. CopyInvOf(managers, Settled(queues, m, q), G)
  BY <1>1, <1>7, SettledFrameStep
<1> QED
  BY <1>6, <1>8

\* Or queued, for an output that is there.
LEMMA QueuedStep ==
  ASSUME CopyInv, NEW f \in Frames, NEW m \in DOMAIN queues, frames[f].of = m,
         NEW G \in [Frames -> FrameType], FrameOk(managers, G[f]), G[f].of = m, G[f].copied,
         IsQueued(G[f], m), ~IsQueued(frames[f], m), \A g \in Frames \ {f} : G[g] = frames[g],
         NEW o \in Outputs
  PROVE  CopyInvOf(managers, NoLongerPending([queues EXCEPT ![m] = Push(@, f, o)], m, f), G)
<1> DEFINE p == Push(queues[m], f, o)
           Q == [queues EXCEPT ![m] = p]
           q == [p EXCEPT !.pending = @ \ {f}]
<1>1. /\ IsFun(queues) /\ DOMAIN queues \subseteq Managers /\ Holds(queues[m], frames, m)
  BY FrameFacts
<1>2. /\ queues[m] \in QueueType /\ NoRepeats(queues[m].copies)
      /\ (queues[m].copies # <<>> => queues[m].cast # NoCast) /\ f \notin ToSet(queues[m].copies)
  BY <1>1 DEF Holds, QueuedOf
<1>3. /\ p \in QueueType /\ NoRepeats(p.copies) /\ p.cast # NoCast
      /\ p.pending = queues[m].pending /\ ToSet(p.copies) = ToSet(queues[m].copies) \cup {f}
  BY <1>2, PushFacts
<1> HIDE DEF p
<1>4. q \in QueueType /\ q.pending = p.pending \ {f} /\ q.copies = p.copies /\ q.cast = p.cast
  BY <1>3 DEF QueueType
<1>5. ~IsWaiting(G[f], m)
  BY DEF IsWaiting
<1>6. WaitingOf(G, m) = WaitingOf(frames, m) \ {f} /\ QueuedOf(G, m) = QueuedOf(frames, m) \cup {f}
  BY <1>5, OneFrameSets
<1>7. /\ IsFun(Q) /\ DOMAIN Q = DOMAIN queues /\ Q[m] = p
      /\ \A n \in DOMAIN queues \ {m} : Q[n] = queues[n]
  BY <1>1 DEF IsFun
<1>8. NoLongerPending([queues EXCEPT ![m] = Push(@, f, o)], m, f) = Settled(Q, m, q)
  BY <1>7 DEF NoLongerPending, p
<1> HIDE DEF Q, q
<1>9. Holds(q, G, m)
  BY <1>1, <1>3, <1>4, <1>6 DEF Holds
<1>10. CopyInvOf(managers, Settled(Q, m, q), G)
  BY <1>1, <1>7, <1>9, SettledFrameStep
<1> QED
  BY <1>8, <1>10

\* The request copy, with damage or without, preserves the invariant.
LEMMA CopyStep ==
  ASSUME CopyInv, NEW f \in Frames, NEW with_damage \in BOOLEAN, NEW outputs \in SUBSET Outputs,
         Copy(f, with_damage, outputs)
  PROVE  CopyInv'
<1> DEFINE m == frames[f].of
           o == frames[f].output
           x == [frames[f] EXCEPT !.copied = TRUE]
           F == [frames EXCEPT ![f] = x]
<1>1. frames[f].object = "Alive" /\ o # Absent
  BY DEF Copy
<1>2. /\ frames \in [Frames -> FrameType] /\ FrameOk(managers, frames[f]) /\ frames[f] \in FrameType
      /\ m \in Managers /\ (IsWaiting(frames[f], m) => m \in DOMAIN queues)
  BY <1>1, FrameFacts DEF FrameOk
<1>3. CASE frames[f].copied /\ Disconnect(m) /\ UNCHANGED queues
  BY <1>2, <1>3, DisconnectFacts
<1>4. CASE ~frames[f].copied /\ HandleFrame([frames EXCEPT ![f].copied = TRUE], f, with_damage, outputs)
           /\ UNCHANGED managers
  <2>1. m \in DOMAIN queues /\ ~IsQueued(frames[f], m)
    BY <1>1, <1>2, <1>4 DEF IsWaiting, IsQueued
  <2>2. ~frames[f].drawing /\ frames[f].answers = 0
    BY <1>1, <1>2, <1>4 DEF FrameOk
  <2>3. /\ x \in FrameType /\ x.of = m /\ x.object = "Alive" /\ x.output = o /\ x.copied
        /\ ~x.drawing /\ x.answers = 0
    BY <1>1, <1>2, <2>2 DEF FrameType
  <2>4. [frames EXCEPT ![f].copied = TRUE] = F
    OBVIOUS
  <2>5. F \in [Frames -> FrameType] /\ F[f] = x /\ \A g \in Frames \ {f} : F[g] = frames[g]
    BY <1>2, <2>3
  <2> HIDE DEF x, F
  <2>6. HandleFrame(F, f, with_damage, outputs) /\ managers' = managers
    BY <1>4, <2>4
  <2>7. F[f].of = m /\ F[f].output = o
    BY <2>3, <2>5
  <2>8. managers[m] # "None"
    BY <1>1, <1>2 DEF FrameOk
  \* What the frame may become.
  <2>9. ASSUME NEW y, y \in {[x EXCEPT !.answers = 1], [x EXCEPT !.drawing = TRUE]},
               frames' = [F EXCEPT ![f] = y], queues' = NoLongerPending(queues, m, f)
        PROVE  CopyInv'
    <3> DEFINE G == [F EXCEPT ![f] = y]
    <3>1. /\ y \in FrameType /\ y.of = m /\ y.object = "Alive" /\ y.output = o /\ y.copied
          /\ (y.drawing /\ y.answers = 0) \/ (~y.drawing /\ y.answers = 1)
      <4>1. CASE y = [x EXCEPT !.answers = 1]
        BY <2>3, <4>1 DEF FrameType
      <4>2. CASE y = [x EXCEPT !.drawing = TRUE]
        BY <2>3, <4>2 DEF FrameType
      <4> QED
        BY <2>9, <4>1, <4>2
    <3>2. FrameOk(managers, y)
      BY <1>1, <1>2, <2>8, <3>1 DEF FrameOk
    <3>3. ~IsQueued(y, m)
      BY <3>1 DEF IsQueued
    <3>4. G \in [Frames -> FrameType] /\ G[f] = y /\ \A g \in Frames \ {f} : G[g] = frames[g]
      BY <2>5, <3>1
    <3> HIDE DEF G
    <3>5. CopyInvOf(managers, NoLongerPending(queues, m, f), G)
      BY <2>1, <3>1, <3>2, <3>3, <3>4, AnsweredStep
    <3> QED
      BY <2>6, <2>9, <3>5 DEF CopyInv, G
  <2>10. CASE /\ frames' = Fail(F, {f}) /\ queues' = NoLongerPending(queues, m, f)
    <3>1. Fail(F, {f}) = [F EXCEPT ![f] = [x EXCEPT !.answers = 1]]
      <4> DEFINE y == [x EXCEPT !.answers = 1]
      <4>1. [F[f] EXCEPT !.answers = @ + 1] = y
        BY <2>3, <2>5
      <4>2. Fail(F, {f}) = [g \in Frames |-> IF g = f THEN y ELSE F[g]]
        BY <4>1 DEF Fail
      <4> HIDE DEF y
      <4>3. [F EXCEPT ![f] = y] = [g \in Frames |-> IF g = f THEN y ELSE F[g]]
        BY <2>5
      <4> QED
        BY <4>2, <4>3 DEF y
    <3> QED
      BY <2>9, <2>10, <3>1
  <2>11. CASE /\ o \in outputs /\ frames' = F
              /\ queues' = NoLongerPending([queues EXCEPT ![m] = Push(@, f, o)], m, f)
    <3>1. FrameOk(managers, x) /\ IsQueued(x, m)
      BY <1>1, <1>2, <2>3, <2>8, <2>11, CopyAssumption DEF FrameOk, IsQueued
    <3>2. CopyInvOf(managers, NoLongerPending([queues EXCEPT ![m] = Push(@, f, o)], m, f), F)
      BY <2>1, <2>3, <2>5, <2>11, <3>1, QueuedStep
    <3> QED
      BY <2>6, <2>11, <3>2 DEF CopyInv
  <2>12. CASE /\ \E how \in Drawings : frames' = CopyNow(F, f, how)
              /\ queues' = NoLongerPending(queues, m, f)
    <3>1. PICK how \in Drawings : frames' = CopyNow(F, f, how)
      BY <2>12
    <3>2. CopyNow(F, f, how) = [F EXCEPT ![f] = Drawn(x, how)]
      BY <2>5 DEF CopyNow
    <3>3. Drawn(x, how) \in {[x EXCEPT !.answers = 1], [x EXCEPT !.drawing = TRUE]}
      BY <2>3 DEF Drawn, FrameType
    <3> QED
      BY <2>9, <2>12, <3>1, <3>2, <3>3
  <2> QED
    BY <2>6, <2>7, <2>10, <2>11, <2>12 DEF HandleFrame
<1> QED
  BY <1>3, <1>4 DEF Copy

---------------------------------------------------------------------------
(* Steps of all queues. *)

\* Queues that hold what they should, without those that are deleted.
LEMMA CleanupFacts ==
  ASSUME CopyInv, NEW Q, IsFun(Q), DOMAIN Q = DOMAIN queues, NEW G,
         G \in [Frames -> FrameType], \A f \in Frames : FrameOk(managers, G[f]),
         \A m \in DOMAIN queues : Holds(Q[m], G, m),
         \A m \in Managers : /\ WaitingOf(G, m) \subseteq WaitingOf(frames, m)
                             /\ QueuedOf(G, m) \subseteq QueuedOf(frames, m),
         NEW R, R = CleanupQueues(Q)
  PROVE  CopyInvOf(managers, R, G)
<1> DEFINE D == {m \in DOMAIN Q : ~IsAlive(m) /\ IsEmpty(Q[m])}
<1>1. /\ managers \in [Managers -> ManagerStates] /\ DOMAIN queues \subseteq Managers
      /\ \A m \in Managers : QueueOk(managers, queues, frames, m)
  BY DEF CopyInv, CopyInvOf
<1>2. R = [m \in DOMAIN Q \ D |-> Q[m]]
  BY DEF CleanupQueues, Without
<1>3. \A m \in Managers : m \in D <=> /\ m \in DOMAIN Q /\ managers[m] # "Alive"
                                      /\ WaitingOf(G, m) \cup QueuedOf(G, m) = {}
  <2> SUFFICES ASSUME NEW m \in Managers
               PROVE  m \in DOMAIN Q => (IsEmpty(Q[m]) <=> WaitingOf(G, m) \cup QueuedOf(G, m) = {})
    BY DEF IsAlive
  <2> QED
    BY EmptyFacts
<1> HIDE DEF D
<1>4. IsFun(R) /\ DOMAIN R = DOMAIN Q \ D /\ \A m \in DOMAIN Q \ D : R[m] = Q[m]
  BY <1>2 DEF IsFun
<1>5. ASSUME NEW m \in Managers PROVE QueueOk(managers, R, G, m)
  <2>1. QueueOk(managers, queues, frames, m)
    BY <1>1
  <2>2. managers[m] = "Alive" \/ WaitingOf(G, m) \cup QueuedOf(G, m) # {} => m \in DOMAIN R
    BY <1>3, <1>4, <2>1 DEF QueueOk
  <2>3. managers[m] = "Gone" /\ WaitingOf(G, m) \cup QueuedOf(G, m) = {} => m \notin DOMAIN R
    BY <1>3, <1>4
  <2>4. m \in DOMAIN R => Holds(R[m], G, m)
    BY <1>4
  <2> QED
    BY <2>2, <2>3, <2>4 DEF QueueOk
<1> QED
  BY <1>1, <1>4, <1>5 DEF CopyInvOf

\* What is queued has an output.
LEMMA QueuedOutputs ==
  ASSUME CopyInv, NEW m \in Managers, NEW f \in QueuedOf(frames, m)
  PROVE  /\ f \in Frames /\ frames[f] \in FrameType /\ frames[f].of = m /\ frames[f].copied
         /\ frames[f].answers = 0 /\ ~frames[f].drawing /\ frames[f].object # "None"
         /\ frames[f].output \in Outputs /\ managers[m] # "None"
<1>1. f \in Frames /\ FrameOk(managers, frames[f]) /\ IsQueued(frames[f], m)
  BY DEF CopyInv, CopyInvOf, QueuedOf
<1>2. frames[f].object # "None"
  BY <1>1 DEF FrameOk, IsQueued, NewFrame
<1> QED
  BY <1>1, <1>2 DEF FrameOk, IsQueued, FrameType

\* A copy that is drawn is being drawn, or has its answer.
LEMMA DrawnFacts ==
  ASSUME NEW m \in Managers, managers[m] # "None", NEW x \in FrameType, x.of = m, x.copied,
         x.answers = 0, ~x.drawing, x.object # "None", x.output \in Outputs, NEW how \in Drawings
  PROVE  /\ Drawn(x, how) \in FrameType /\ FrameOk(managers, Drawn(x, how))
         /\ \A n : ~IsQueued(Drawn(x, how), n) /\ ~IsWaiting(Drawn(x, how), n)
<1> DEFINE y == Drawn(x, how)
<1>1. /\ y \in FrameType /\ y.of = m /\ y.object = x.object /\ y.output = x.output /\ y.copied
      /\ (y.drawing /\ y.answers = 0) \/ (~y.drawing /\ y.answers = 1)
  <2>1. CASE how = "Fence"
    <3>1. y = [x EXCEPT !.drawing = TRUE]
      BY <2>1 DEF Drawn
    <3> HIDE DEF y
    <3> QED
      BY <3>1 DEF FrameType
  <2>2. CASE how # "Fence"
    <3>1. y = [x EXCEPT !.answers = 1]
      BY <2>2 DEF Drawn
    <3> HIDE DEF y
    <3> QED
      BY <3>1 DEF FrameType
  <2> QED
    BY <2>1, <2>2
<1> HIDE DEF y
<1>2. y.output # Absent
  BY <1>1, CopyAssumption
<1>3. FrameOk(managers, y)
  BY <1>1, <1>2, CopyAssumption DEF FrameOk
<1>4. \A n : ~IsQueued(y, n) /\ ~IsWaiting(y, n)
  BY <1>1 DEF IsQueued, IsWaiting
<1> QED
  BY <1>1, <1>3, <1>4 DEF y

\* A redraw that serves the first copies of an output preserves the invariant.
LEMMA RenderStep ==
  ASSUME CopyInv, NEW o \in Outputs, NEW how \in {"NoDamage"} \cup Drawings,
         RenderForScreencopyWithDamage(o, how)
  PROVE  CopyInv'
<1> DEFINE first == {m \in DOMAIN queues : /\ queues[m].copies # <<>> /\ how # "NoDamage"
                                           /\ frames[Head(queues[m].copies)].output = o}
           Q == [m \in DOMAIN queues |-> IF m \in first THEN Pop(queues[m]) ELSE queues[m]]
           goes(f) == \E m \in first : f = Head(queues[m].copies)
           G == [f \in Frames |-> IF goes(f) THEN Drawn(frames[f], how) ELSE frames[f]]
<1>1. queues' = CleanupQueues(Q) /\ frames' = G /\ managers' = managers
  BY DEF RenderForScreencopyWithDamage
<1>2. /\ frames \in [Frames -> FrameType] /\ DOMAIN queues \subseteq Managers
      /\ \A f \in Frames : FrameOk(managers, frames[f])
      /\ \A m \in DOMAIN queues : Holds(queues[m], frames, m)
  BY DEF CopyInv, CopyInvOf, QueueOk
<1>3. ASSUME NEW m \in first
      PROVE  Head(queues[m].copies) \in QueuedOf(frames, m) /\ how \in Drawings
  <2>1. /\ Holds(queues[m], frames, m) /\ queues[m].copies \in Seq(Frames) /\ queues[m].copies # <<>>
    BY <1>2 DEF Holds, QueueType
  <2>2. Head(queues[m].copies) \in ToSet(queues[m].copies)
    BY <2>1 DEF ToSet
  <2> QED
    BY <2>1, <2>2 DEF Holds
<1>4. ASSUME NEW f \in Frames
      PROVE  /\ G[f] \in FrameType /\ FrameOk(managers, G[f])
             /\ goes(f) => \A n : ~IsQueued(G[f], n) /\ ~IsWaiting(G[f], n)
             /\ goes(f) => \A n : ~IsWaiting(frames[f], n)
             /\ ~goes(f) => G[f] = frames[f]
  <2>1. CASE goes(f)
    <3>1. PICK m \in first : f = Head(queues[m].copies)
      BY <2>1
    <3>2. m \in Managers /\ f \in QueuedOf(frames, m) /\ how \in Drawings
      BY <1>2, <1>3, <3>1
    <3> HIDE DEF goes
    <3>3. G[f] = Drawn(frames[f], how)
      BY <2>1
    <3> HIDE DEF first, G
    <3>4. /\ frames[f] \in FrameType /\ frames[f].of = m /\ frames[f].copied
          /\ frames[f].answers = 0 /\ ~frames[f].drawing /\ frames[f].object # "None"
          /\ frames[f].output \in Outputs /\ managers[m] # "None"
      BY <3>2, QueuedOutputs
    <3>5. /\ Drawn(frames[f], how) \in FrameType /\ FrameOk(managers, Drawn(frames[f], how))
          /\ \A n : ~IsQueued(Drawn(frames[f], how), n) /\ ~IsWaiting(Drawn(frames[f], how), n)
      BY <3>2, <3>4, DrawnFacts
    <3>6. \A n : ~IsWaiting(frames[f], n)
      BY <3>4 DEF IsWaiting
    <3> QED
      BY <2>1, <3>3, <3>5, <3>6
  <2>2. CASE ~goes(f)
    <3> HIDE DEF goes
    <3> QED
      BY <1>2, <2>2
  <2> QED
    BY <2>1, <2>2
<1>5. ASSUME NEW m \in Managers
      PROVE  /\ WaitingOf(G, m) = WaitingOf(frames, m)
             /\ QueuedOf(G, m) = {f \in QueuedOf(frames, m) : ~goes(f)}
  <2> HIDE DEF G, goes
  <2> QED
    BY <1>4 DEF WaitingOf, QueuedOf
<1>6. ASSUME NEW m \in DOMAIN queues PROVE Holds(Q[m], G, m)
  <2>1. m \in Managers /\ Holds(queues[m], frames, m)
    BY <1>2
  <2>2. \A f \in QueuedOf(frames, m) : goes(f) <=> m \in first /\ f = Head(queues[m].copies)
    <3> SUFFICES ASSUME NEW f \in QueuedOf(frames, m), NEW n \in first, f = Head(queues[n].copies)
                 PROVE  n = m
      OBVIOUS
    <3>1. n \in Managers /\ f \in QueuedOf(frames, n)
      BY <1>2, <1>3
    <3> QED
      BY <2>1, <3>1 DEF QueuedOf, IsQueued
  <2>3. CASE m \in first
    <3>1. /\ queues[m] \in QueueType /\ NoRepeats(queues[m].copies) /\ queues[m].copies # <<>>
          /\ queues[m].cast # NoCast
      BY <2>1, <2>3 DEF Holds
    <3>2. \A f \in ToSet(queues[m].copies) : frames[f].output \in Outputs
      BY <2>1, QueuedOutputs DEF Holds
    <3>3. /\ Pop(queues[m]) \in QueueType /\ NoRepeats(Pop(queues[m]).copies)
          /\ Pop(queues[m]).cast # NoCast /\ Pop(queues[m]).pending = queues[m].pending
          /\ ToSet(Pop(queues[m]).copies) = ToSet(queues[m].copies) \ {Head(queues[m].copies)}
      BY <3>1, <3>2, PopFacts
    <3>4. Q[m] = Pop(queues[m])
      BY <2>3
    <3> HIDE DEF Q, first, G, goes
    <3> QED
      BY <1>5, <2>1, <2>2, <2>3, <3>3, <3>4 DEF Holds
  <2>4. CASE m \notin first
    <3>1. Q[m] = queues[m]
      BY <2>4
    <3> HIDE DEF Q, first, G, goes
    <3> QED
      BY <1>5, <2>1, <2>2, <2>4, <3>1 DEF Holds
  <2> QED
    BY <2>3, <2>4
<1>7. IsFun(Q) /\ DOMAIN Q = DOMAIN queues /\ G \in [Frames -> FrameType]
  BY <1>4 DEF IsFun
<1> HIDE DEF Q, G, goes, first
<1>8. CopyInvOf(managers, CleanupQueues(Q), G)
  BY <1>4, <1>5, <1>6, <1>7, CleanupFacts
<1> QED
  BY <1>1, <1>8 DEF CopyInv

\* An output that is unplugged preserves the invariant: its copies fail.
LEMMA RemoveOutputStep ==
  ASSUME CopyInv, NEW o \in Outputs, RemoveScreencopyOutput(o)
  PROVE  CopyInv'
<1> DEFINE S == {f \in Frames : frames[f].output # o}
           Q == [m \in DOMAIN queues |-> Retain(queues[m], Retained(queues[m].copies, S))]
           waits(f) == \E m \in DOMAIN queues : f \in ToSet(queues[m].copies)
           G == [f \in Frames |->
                   IF frames[f].output = o
                   THEN [Fail(frames, {g \in Frames : frames[g].output = o /\ waits(g)})[f] EXCEPT !.output = "Removed"]
                   ELSE frames[f]]
<1>1. queues' = CleanupQueues(Q) /\ frames' = G /\ managers' = managers
  BY DEF RemoveScreencopyOutput
<1>2. /\ frames \in [Frames -> FrameType] /\ DOMAIN queues \subseteq Managers
      /\ \A f \in Frames : FrameOk(managers, frames[f])
      /\ \A m \in DOMAIN queues : Holds(queues[m], frames, m)
      /\ \A m \in Managers : QueuedOf(frames, m) # {} => m \in DOMAIN queues
  BY DEF CopyInv, CopyInvOf, QueueOk
<1>3. ASSUME NEW f \in Frames
      PROVE  waits(f) <=> \E m \in Managers : IsQueued(frames[f], m)
  BY <1>2 DEF Holds, QueuedOf
<1>4. ASSUME NEW f \in Frames, frames[f].output = o
      PROVE  /\ G[f] \in FrameType /\ G[f].of = frames[f].of /\ G[f].object = frames[f].object
             /\ G[f].copied = frames[f].copied /\ G[f].drawing = frames[f].drawing
             /\ G[f].output = "Removed"
             /\ G[f].answers = IF waits(f) THEN frames[f].answers + 1 ELSE frames[f].answers
  <2> HIDE DEF waits
  <2>1. G[f] = IF waits(f) THEN [frames[f] EXCEPT !.answers = @ + 1, !.output = "Removed"]
               ELSE [frames[f] EXCEPT !.output = "Removed"]
    BY <1>2, <1>4 DEF Fail, FrameType
  <2> HIDE DEF G
  <2>2. frames[f] \in FrameType
    BY <1>2
  <2>3. CASE waits(f)
    <3> DEFINE k == frames[f].answers + 1
    <3>1. k \in Nat
      BY <2>2 DEF FrameType
    <3>2. G[f] = [frames[f] EXCEPT !.answers = k, !.output = "Removed"]
      BY <2>1, <2>3
    <3>3. k = frames[f].answers + 1
      OBVIOUS
    <3> HIDE DEF k
    <3>4. /\ G[f] \in FrameType /\ G[f].of = frames[f].of /\ G[f].object = frames[f].object
          /\ G[f].copied = frames[f].copied /\ G[f].drawing = frames[f].drawing
          /\ G[f].output = "Removed" /\ G[f].answers = k
      BY <2>2, <3>1, <3>2 DEF FrameType
    <3> QED
      BY <2>3, <3>3, <3>4
  <2>4. CASE ~waits(f)
    BY <2>1, <2>2, <2>4 DEF FrameType
  <2> QED
    BY <2>3, <2>4
<1>5. ASSUME NEW f \in Frames, frames[f].output # o PROVE G[f] = frames[f]
  BY <1>5
<1> HIDE DEF G, waits
<1>6. ASSUME NEW f \in Frames
      PROVE  /\ G[f] \in FrameType /\ FrameOk(managers, G[f])
             /\ \A m \in Managers : /\ IsWaiting(G[f], m) <=> IsWaiting(frames[f], m)
                                    /\ IsQueued(G[f], m) <=> IsQueued(frames[f], m) /\ f \in S
  <2>1. FrameOk(managers, frames[f])
    BY <1>2
  <2>2. CASE frames[f].output # o
    BY <1>2, <1>5, <2>1, <2>2
  <2>3. CASE frames[f].output = o
    <3>1. /\ G[f] \in FrameType /\ G[f].of = frames[f].of /\ G[f].object = frames[f].object
          /\ G[f].copied = frames[f].copied /\ G[f].drawing = frames[f].drawing
          /\ G[f].output = "Removed"
          /\ G[f].answers = IF waits(f) THEN frames[f].answers + 1 ELSE frames[f].answers
      BY <1>4, <2>3
    <3>2. frames[f].output # Absent /\ "Removed" # Absent
      BY <2>3, CopyAssumption
    <3>3. frames[f].object # "None"
      BY <2>1, <3>2 DEF FrameOk, NewFrame
    <3>4. frames[f].of \in Managers
      BY <2>1, <3>3 DEF FrameOk
    <3>5. waits(f) <=> frames[f].copied /\ frames[f].answers = 0 /\ ~frames[f].drawing
      BY <1>3, <3>4 DEF IsQueued
    <3>6. FrameOk(managers, G[f])
      <4>1. CASE waits(f)
        <5>1. G[f].answers = 1 /\ G[f].copied /\ ~G[f].drawing
          BY <3>1, <3>5, <4>1
        <5> QED
          BY <2>1, <3>1, <3>2, <3>3, <5>1 DEF FrameOk
      <4>2. CASE ~waits(f)
        <5>1. G[f].answers = frames[f].answers
          BY <3>1, <4>2
        <5> QED
          BY <2>1, <3>1, <3>2, <3>3, <3>5, <4>2, <5>1 DEF FrameOk
      <4> QED
        BY <4>1, <4>2
    <3>7. \A m \in Managers : IsWaiting(G[f], m) <=> IsWaiting(frames[f], m)
      BY <3>1, <3>2 DEF IsWaiting
    <3>8. \A m \in Managers : ~IsQueued(G[f], m)
      <4>1. CASE waits(f)
        BY <3>1, <3>5, <4>1 DEF IsQueued
      <4>2. CASE ~waits(f)
        BY <3>1, <3>5, <4>2 DEF IsQueued
      <4> QED
        BY <4>1, <4>2
    <3> QED
      BY <2>3, <3>1, <3>6, <3>7, <3>8
  <2> QED
    BY <2>2, <2>3
<1>7. ASSUME NEW m \in Managers
      PROVE  WaitingOf(G, m) = WaitingOf(frames, m) /\ QueuedOf(G, m) = QueuedOf(frames, m) \cap S
  <2> HIDE DEF S
  <2> QED
    BY <1>6 DEF WaitingOf, QueuedOf
<1> HIDE DEF S
<1>8. ASSUME NEW m \in DOMAIN queues PROVE Holds(Q[m], G, m)
  <2> DEFINE r == Retain(queues[m], Retained(queues[m].copies, S))
  <2>1. /\ m \in Managers /\ Holds(queues[m], frames, m) /\ queues[m] \in QueueType
        /\ NoRepeats(queues[m].copies) /\ (queues[m].copies # <<>> => queues[m].cast # NoCast)
    BY <1>2 DEF Holds
  <2>2. /\ r \in QueueType /\ NoRepeats(r.copies) /\ (r.copies # <<>> => r.cast # NoCast)
        /\ r.pending = queues[m].pending /\ ToSet(r.copies) = ToSet(queues[m].copies) \cap S
    BY <2>1, RetainFacts
  <2>3. Q[m] = r
    OBVIOUS
  <2> HIDE DEF Q, r
  <2> QED
    BY <1>7, <2>1, <2>2, <2>3 DEF Holds
<1>9. IsFun(Q) /\ DOMAIN Q = DOMAIN queues /\ G \in [Frames -> FrameType]
  BY <1>6 DEF IsFun, G
<1> HIDE DEF Q
<1>10. CopyInvOf(managers, CleanupQueues(Q), G)
  BY <1>6, <1>7, <1>8, <1>9, CleanupFacts
<1> QED
  BY <1>1, <1>10 DEF CopyInv

\* Forgetting expired cast entries preserves the invariant.
LEMMA ClearExpiredCastsStep ==
  ASSUME CopyInv, managers' = managers, frames' = frames, queues' = ClearExpiredCasts(queues)
  PROVE  CopyInv'
<1> DEFINE Q == ClearExpiredCasts(queues)
<1>1. /\ managers \in [Managers -> ManagerStates] /\ frames \in [Frames -> FrameType]
      /\ DOMAIN queues \subseteq Managers
      /\ \A m \in Managers : QueueOk(managers, queues, frames, m)
      /\ \A f \in Frames : FrameOk(managers, frames[f])
  BY DEF CopyInv, CopyInvOf
<1>2. IsFun(Q) /\ DOMAIN Q = DOMAIN queues
  BY DEF ClearExpiredCasts, IsFun
<1>3. \A m \in DOMAIN queues : \/ Q[m] = queues[m]
                               \/ queues[m].copies = <<>> /\ Q[m] = [queues[m] EXCEPT !.cast = NoCast]
  BY DEF ClearExpiredCasts
<1> HIDE DEF Q
<1>4. ASSUME NEW m \in Managers PROVE QueueOk(managers, Q, frames, m)
  <2>1. QueueOk(managers, queues, frames, m)
    BY <1>1
  <2>2. ASSUME m \in DOMAIN queues PROVE Holds(Q[m], frames, m)
    <3>1. Holds(queues[m], frames, m)
      BY <2>1, <2>2 DEF QueueOk
    <3>2. CASE Q[m] = queues[m]
      BY <3>1, <3>2
    <3>3. CASE queues[m].copies = <<>> /\ Q[m] = [queues[m] EXCEPT !.cast = NoCast]
      <4>1. /\ Q[m] \in QueueType /\ Q[m].copies = queues[m].copies
            /\ Q[m].pending = queues[m].pending
        BY <3>1, <3>3 DEF Holds, QueueType
      <4> QED
        BY <3>1, <3>3, <4>1 DEF Holds
    <3> QED
      BY <1>3, <2>2, <3>2, <3>3
  <2> QED
    BY <1>2, <2>1, <2>2 DEF QueueOk
<1>5. CopyInvOf(managers, Q, frames)
  BY <1>1, <1>2, <1>4 DEF CopyInvOf
<1> QED
  BY <1>5 DEF CopyInv, Q

---------------------------------------------------------------------------
\* The invariant holds at first, and every step of a client or of the compositor that is
\* about copies preserves it.
LEMMA CopyInitInv == CopyInit => CopyInv
<1> SUFFICES ASSUME CopyInit PROVE CopyInv
  OBVIOUS
<1>1. /\ managers = [m \in Managers |-> "None"] /\ queues = <<>>
      /\ frames = [f \in Frames |-> NewFrame]
  BY DEF CopyInit
<1>2. NewFrame \in FrameType /\ NewFrame.of = Absent /\ FrameOk(managers, NewFrame)
  BY DEF NewFrame, FrameType, FrameOk
<1>3. IsFun(queues) /\ DOMAIN queues = {}
  BY <1>1 DEF IsFun
<1>4. ASSUME NEW m \in Managers PROVE QueueOk(managers, queues, frames, m)
  <2>1. \A f \in Frames : frames[f].of # m
    BY <1>1, <1>2, CopyAssumption
  <2>2. WaitingOf(frames, m) = {} /\ QueuedOf(frames, m) = {}
    BY <2>1 DEF WaitingOf, QueuedOf, IsWaiting, IsQueued
  <2> QED
    BY <1>1, <1>3, <2>2 DEF QueueOk
<1>5. \A f \in Frames : frames[f] = NewFrame
  BY <1>1
<1>6. managers \in [Managers -> ManagerStates] /\ frames \in [Frames -> FrameType]
  BY <1>1, <1>2 DEF ManagerStates
<1> QED
  BY <1>2, <1>3, <1>4, <1>5, <1>6 DEF CopyInv, CopyInvOf

\* Every step of a client preserves the invariant.
LEMMA CopyNextInv ==
  ASSUME CopyInv, NEW outputs \in SUBSET Outputs, CopyNext(outputs)
  PROVE  CopyInv'
<1>1. CASE \E m \in Managers : BindManager(m) \/ DestroyManager(m) \/ ManagerDestroyed(m) \/ CastDeadline(m)
  BY <1>1, BindManagerStep, DestroyStep, ManagerDestroyedStep, CastDeadlineStep
<1>2. CASE \E m \in Managers, f \in Frames, o \in outputs \cup {"Removed", Absent} : CaptureOutput(m, f, o)
  <2>1. outputs \cup {"Removed", Absent} \subseteq Outputs \cup {"Removed", Absent}
    OBVIOUS
  <2> QED
    BY <1>2, <2>1, CaptureOutputStep
<1>3. ASSUME NEW f \in Frames, DestroyFrame(f) \/ FrameDestroyed(f) \/ SubmitAfterSync(f)
      PROVE  CopyInv'
  BY <1>3, DestroyStep, FrameDestroyedStep, SubmitAfterSyncStep
<1>4. ASSUME NEW f \in Frames, NEW with_damage \in BOOLEAN, Copy(f, with_damage, outputs)
      PROVE  CopyInv'
  BY <1>4, CopyStep
<1> QED
  BY <1>1, <1>2, <1>3, <1>4 DEF CopyNext

---------------------------------------------------------------------------
(* Casts. *)

CastFields ==
  {"stream", "target", "dynamic", "refresh", "state", "size", "offers", "stream_state", "active",
   "node", "negotiated", "free", "buffer", "rendering", "frame", "queued", "recent", "scheduled",
   "on", "early", "skipped"}

Renderings == [number : Nat, done : BOOLEAN, buffer : Sizes, size : Sizes]

\* The frames that are being drawn are numbered in their order, between the last that went
\* out and the last that was begun.
Numbered(c) ==
  /\ c.frame \in Nat /\ c.queued \in Nat /\ c.queued <= c.frame
  /\ c.rendering \in Seq(Renderings)
  /\ \A j \in DOMAIN c.rendering : /\ c.queued < c.rendering[j].number
                                   /\ c.rendering[j].number <= c.frame
                                   /\ c.rendering[j].buffer = c.rendering[j].size
  /\ \A j, k \in DOMAIN c.rendering : j < k => c.rendering[j].number < c.rendering[k].number

\* A cast that is ready has buffers of its size.
CastOk(c) ==
  /\ DOMAIN c = CastFields /\ c.stream \in Streams /\ c.size \in Sizes /\ c.buffer \in Sizes
  /\ c.state = "Ready" => c.buffer = c.size
  /\ Numbered(c)

\* What no change of a cast touches.
SameCast(c, d) == d.stream = c.stream /\ d.target = c.target /\ d.dynamic = c.dynamic

\* A cast takes the size of what it shows and stays in order (Cast::ensure_size).
LEMMA EnsureSizeFacts ==
  ASSUME NEW c, CastOk(c), NEW size \in Sizes
  PROVE  CastOk(EnsureSize(c, size)) /\ SameCast(c, EnsureSize(c, size))
         /\ EnsureSize(c, size).size = size
<1> DEFINE d == [c EXCEPT !.state = "ResizePending", !.size = size, !.offers = Append(@, size)]
<1>1. CASE c.size = size
  BY <1>1 DEF EnsureSize, SameCast
<1>2. CASE c.size # size
  <2>1. EnsureSize(c, size) = d
    BY <1>2 DEF EnsureSize
  <2>2. /\ DOMAIN d = CastFields /\ d.size = size /\ d.state = "ResizePending" /\ d.buffer = c.buffer
        /\ d.rendering = c.rendering /\ d.frame = c.frame /\ d.queued = c.queued
        /\ d.stream = c.stream /\ d.target = c.target /\ d.dynamic = c.dynamic
    BY DEF CastOk, CastFields
  <2> HIDE DEF d
  <2> QED
    BY <2>1, <2>2 DEF CastOk, Numbered, SameCast
<1> QED
  BY <1>1, <1>2

\* A new refresh rate leaves a cast in order (Cast::set_refresh).
LEMMA SetRefreshFacts ==
  ASSUME NEW c, CastOk(c), NEW refresh
  PROVE  CastOk(SetRefresh(c, refresh)) /\ SameCast(c, SetRefresh(c, refresh))
<1> DEFINE d == [c EXCEPT !.refresh = refresh, !.offers = Append(@, c.size)]
<1>1. CASE c.refresh = refresh
  BY <1>1 DEF SetRefresh, SameCast
<1>2. CASE c.refresh # refresh
  <2>1. SetRefresh(c, refresh) = d
    BY <1>2 DEF SetRefresh
  <2>2. /\ DOMAIN d = CastFields /\ d.size = c.size /\ d.state = c.state /\ d.buffer = c.buffer
        /\ d.rendering = c.rendering /\ d.frame = c.frame /\ d.queued = c.queued
        /\ d.stream = c.stream /\ d.target = c.target /\ d.dynamic = c.dynamic
    BY DEF CastOk, CastFields
  <2> HIDE DEF d
  <2> QED
    BY <2>1, <2>2 DEF CastOk, Numbered, SameCast
<1> QED
  BY <1>1, <1>2
\* Positions in a sequence have a first one.
LEMMA MinFacts ==
  ASSUME NEW n \in Nat, NEW P \in SUBSET (1 .. n), P # {}
  PROVE  Min(P) \in P /\ \A i \in P : Min(P) <= i
<1> DEFINE C == Cardinality(P)
           at == InOrder(P)
<1>1. IsFiniteSet(P)
  <2>1. IsFiniteSet(1 .. n)
    BY FS_Interval
  <2> QED
    BY <2>1, FS_Subset
<1>2. P \in SUBSET Nat
  OBVIOUS
<1>3. /\ C \in Nat /\ at \in [1 .. C -> P] /\ \A i \in P : \E j \in 1 .. C : at[j] = i
      /\ \A j, k \in 1 .. C : j < k => at[j] < at[k]
  BY <1>1, <1>2, InOrderFacts
<1>4. \A i \in P : i \in Nat
  OBVIOUS
<1> HIDE DEF C, at
<1>5. 1 \in 1 .. C
  <2>1. PICK i \in P : TRUE
    OBVIOUS
  <2>2. PICK j \in 1 .. C : at[j] = i
    BY <1>3
  <2> QED
    BY <1>3, <2>2
<1>6. at[1] \in P
  BY <1>3, <1>5
<1>7. ASSUME NEW i \in P PROVE at[1] <= i
  <2>1. PICK j \in 1 .. C : at[j] = i
    BY <1>3
  <2>2. CASE j = 1
    BY <1>4, <2>1, <2>2
  <2>3. CASE j # 1
    <3>1. 1 < j
      BY <1>3, <2>3
    <3>2. at[1] < i
      BY <1>3, <1>5, <2>1, <3>1
    <3>3. at[1] \in Nat /\ i \in Nat
      BY <1>4, <1>6
    <3> QED
      BY <3>2, <3>3
  <2> QED
    BY <2>2, <2>3
<1> QED
  BY <1>6, <1>7 DEF Min

\* The frames of a cast are a sequence, and the buffer of each has its size.
LEMMA RenderingFacts ==
  ASSUME NEW c, CastOk(c)
  PROVE  /\ c.rendering \in Seq(Renderings) /\ Len(c.rendering) \in Nat
         /\ DOMAIN c.rendering = 1 .. Len(c.rendering)
         /\ \A j \in 1 .. Len(c.rendering) : c.rendering[j] \in Renderings /\ c.rendering[j].number \in Nat
<1>1. c.rendering \in Seq(Renderings)
  BY DEF CastOk, Numbered
<1>2. /\ Len(c.rendering) \in Nat /\ DOMAIN c.rendering = 1 .. Len(c.rendering)
      /\ \A j \in 1 .. Len(c.rendering) : c.rendering[j] \in Renderings
  BY <1>1
<1>3. \A r \in Renderings : r.number \in Nat
  BY DEF Renderings
<1> QED
  BY <1>1, <1>2, <1>3

\* The frames that are complete go out, and those behind them stay as they are.
LEMMA QueueCompletedBuffersFacts ==
  ASSUME NEW c, CastOk(c)
  PROVE  CastOk(QueueCompletedBuffers(c)) /\ SameCast(c, QueueCompletedBuffers(c))
<1> DEFINE busy == {i \in DOMAIN c.rendering : ~c.rendering[i].done}
           n == Len(c.rendering)
           k == IF busy = {} THEN n ELSE Min(busy) - 1
           left == SubSeq(c.rendering, k + 1, n)
           out == IF k = 0 THEN c.queued ELSE c.rendering[k].number
           d == [c EXCEPT !.rendering = left, !.free = @ + k, !.queued = out]
<1>1. /\ c.rendering \in Seq(Renderings) /\ n \in Nat /\ DOMAIN c.rendering = 1 .. n
      /\ \A j \in 1 .. n : c.rendering[j] \in Renderings /\ c.rendering[j].number \in Nat
  BY RenderingFacts
<1>2. k \in 0 .. n
  <2>1. CASE busy = {}
    BY <1>1, <2>1
  <2>2. CASE busy # {}
    <3>1. Min(busy) \in busy
      BY <1>1, <2>2, MinFacts
    <3>2. Min(busy) \in 1 .. n
      BY <1>1, <3>1
    <3> HIDE DEF busy
    <3> QED
      BY <1>1, <2>2, <3>2
  <2> QED
    BY <2>1, <2>2
<1>3. QueueCompletedBuffers(c) = d
  BY DEF QueueCompletedBuffers
<1> HIDE DEF k, busy
<1>4. /\ left \in Seq(Renderings) /\ DOMAIN left = 1 .. n - k
      /\ \A j \in 1 .. n - k : left[j] = c.rendering[j + k] /\ j + k \in 1 .. n
  <2>1. left = [j \in 1 .. n - k |-> c.rendering[j + k]]
    BY <1>1, <1>2
  <2>2. n - k \in Nat /\ \A j \in 1 .. n - k : j + k \in 1 .. n
    BY <1>1, <1>2
  <2>3. \A j \in 1 .. n - k : c.rendering[j + k] \in Renderings
    BY <1>1, <2>2
  <2> HIDE DEF left, n
  <2>4. left \in Seq(Renderings)
    BY <2>1, <2>2, <2>3
  <2> QED
    BY <2>1, <2>2, <2>4
<1> HIDE DEF left, n
<1>5. /\ out \in Nat /\ out <= c.frame
      /\ \A j \in 1 .. n - k : out < left[j].number
  <2>1. CASE k = 0
    BY <1>1, <1>4, <2>1 DEF CastOk, Numbered
  <2>2. CASE k # 0
    <3>1. k \in 1 .. n /\ \A j \in 1 .. n - k : k < j + k
      BY <1>1, <1>2, <2>2
    <3> QED
      BY <1>1, <1>4, <2>2, <3>1 DEF CastOk, Numbered
  <2> QED
    BY <2>1, <2>2
<1> HIDE DEF out
<1>6. \A j \in 1 .. n - k : left[j].number <= c.frame /\ left[j].buffer = left[j].size
  BY <1>1, <1>4 DEF CastOk, Numbered
<1>7. \A i, j \in 1 .. n - k : i < j => left[i].number < left[j].number
  <2>1. \A i, j \in 1 .. n - k : i < j => i + k < j + k
    BY <1>1, <1>2
  <2> QED
    BY <1>1, <1>4, <2>1 DEF CastOk, Numbered
<1>8. /\ DOMAIN d = CastFields /\ d.size = c.size /\ d.state = c.state /\ d.buffer = c.buffer
      /\ d.rendering = left /\ d.frame = c.frame /\ d.queued = out
      /\ d.stream = c.stream /\ d.target = c.target /\ d.dynamic = c.dynamic
  BY DEF CastOk, CastFields
<1> HIDE DEF d
<1>9. Numbered(d)
  BY <1>4, <1>5, <1>6, <1>7, <1>8 DEF Numbered, CastOk
<1> QED
  BY <1>3, <1>8, <1>9 DEF CastOk, SameCast

\* A frame that was drawn comes behind those that are being drawn (queue_after_sync).
LEMMA QueueAfterSyncFacts ==
  ASSUME NEW c, CastOk(c), NEW size, size = c.buffer, NEW fence \in BOOLEAN
  PROVE  CastOk(QueueAfterSync(c, size, fence)) /\ SameCast(c, QueueAfterSync(c, size, fence))
<1> DEFINE r == [number |-> c.frame + 1, done |-> ~fence, buffer |-> c.buffer, size |-> size]
           all == Append(c.rendering, r)
           n == Len(c.rendering)
           d == [c EXCEPT !.free = @ - 1, !.frame = @ + 1, !.recent = Has("pace"),
                          !.early = @ \/ c.scheduled = "Running", !.rendering = all]
<1>1. QueueAfterSync(c, size, fence) = IF fence THEN d ELSE QueueCompletedBuffers(d)
  BY DEF QueueAfterSync
<1>2. /\ c.frame \in Nat /\ c.queued \in Nat /\ c.queued <= c.frame /\ c.buffer \in Sizes
      /\ c.rendering \in Seq(Renderings) /\ n \in Nat /\ DOMAIN c.rendering = 1 .. n
      /\ \A j \in 1 .. n : c.rendering[j].number \in Nat
  BY RenderingFacts DEF CastOk, Numbered
<1>3. r \in Renderings /\ r.number = c.frame + 1 /\ r.buffer = r.size
  BY <1>2 DEF Renderings
<1> HIDE DEF r
<1>4. /\ all \in Seq(Renderings) /\ DOMAIN all = 1 .. n + 1 /\ all[n + 1] = r
      /\ \A j \in 1 .. n : all[j] = c.rendering[j]
  BY <1>2, <1>3
<1>5. \A j \in 1 .. n + 1 : j = n + 1 \/ j \in 1 .. n
  BY <1>2
<1>6. /\ DOMAIN d = CastFields /\ d.size = c.size /\ d.state = c.state /\ d.buffer = c.buffer
      /\ d.rendering = all /\ d.frame = c.frame + 1 /\ d.queued = c.queued
      /\ d.stream = c.stream /\ d.target = c.target /\ d.dynamic = c.dynamic
  BY DEF CastOk, CastFields
<1> HIDE DEF all, d, n
<1>7. ASSUME NEW j \in 1 .. n + 1
      PROVE  c.queued < all[j].number /\ all[j].number <= c.frame + 1 /\ all[j].buffer = all[j].size
  <2>1. CASE j = n + 1
    BY <1>2, <1>3, <1>4, <2>1
  <2>2. CASE j \in 1 .. n
    <3>1. /\ c.queued < c.rendering[j].number /\ c.rendering[j].number <= c.frame
          /\ c.rendering[j].buffer = c.rendering[j].size
      BY <1>2, <2>2 DEF CastOk, Numbered
    <3> QED
      BY <1>2, <1>4, <2>2, <3>1
  <2> QED
    BY <1>5, <2>1, <2>2
<1>8. ASSUME NEW i \in 1 .. n + 1, NEW j \in 1 .. n + 1, i < j
      PROVE  all[i].number < all[j].number
  <2>1. i \in 1 .. n
    BY <1>2, <1>8
  <2>2. CASE j = n + 1
    <3>1. c.rendering[i].number <= c.frame
      BY <1>2, <2>1 DEF CastOk, Numbered
    <3> QED
      BY <1>2, <1>3, <1>4, <2>1, <2>2, <3>1
  <2>3. CASE j \in 1 .. n
    BY <1>2, <1>4, <1>8, <2>1, <2>3 DEF CastOk, Numbered
  <2> QED
    BY <1>5, <2>2, <2>3
<1>9. CastOk(d)
  <2>1. c.frame + 1 \in Nat /\ c.queued <= c.frame + 1
    BY <1>2
  <2>2. Numbered(d)
    BY <1>2, <1>4, <1>6, <1>7, <1>8, <2>1 DEF Numbered
  <2> QED
    BY <1>6, <2>2 DEF CastOk
<1>10. CASE fence
  BY <1>1, <1>6, <1>9, <1>10 DEF SameCast
<1>11. CASE ~fence
  BY <1>1, <1>6, <1>9, <1>11, QueueCompletedBuffersFacts DEF SameCast
<1> QED
  BY <1>10, <1>11

\* A change of fields that the frames do not depend on.
LEMMA TouchFacts ==
  ASSUME NEW c, CastOk(c), NEW d, DOMAIN d = CastFields, SameCast(c, d), d.size = c.size,
         d.state = c.state, d.buffer = c.buffer, d.rendering = c.rendering, d.frame = c.frame,
         d.queued = c.queued
  PROVE  CastOk(d)
BY DEF CastOk, Numbered, SameCast

\* Drawing a frame, or clearing, leaves a cast in order.
LEMMA DequeueFacts ==
  ASSUME NEW c, CastOk(c), NEW size, NEW how
  PROVE  /\ CastOk(DequeueAndClear(c, how)) /\ SameCast(c, DequeueAndClear(c, how))
         /\ c.size = size => CastOk(DequeueAndRender(c, size, how))
         /\ c.size = size => SameCast(c, DequeueAndRender(c, size, how))
<1> DEFINE fence == how = "Fence"
<1>1. SameCast(c, c) /\ fence \in BOOLEAN
  BY DEF SameCast
<1>2. /\ DequeueAndClear(c, how) = c \/ DequeueAndClear(c, how) = QueueAfterSync(c, c.buffer, fence)
      /\ DequeueAndRender(c, size, how) = c
         \/ (c.state = "Ready" /\ DequeueAndRender(c, size, how) = QueueAfterSync(c, size, fence))
  BY DEF DequeueAndClear, DequeueAndRender
<1>3. c.state = "Ready" /\ c.size = size => size = c.buffer
  BY DEF CastOk
<1> HIDE DEF fence
<1> QED
  BY <1>1, <1>2, <1>3, QueueAfterSyncFacts

\* What a redraw of an output does to a cast leaves it in order.
LEMMA RenderCastFacts ==
  ASSUME NEW c, CastOk(c), NEW o, NEW size \in Sizes, NEW how
  PROVE  CastOk(RenderCast(c, o, size, how)) /\ SameCast(c, RenderCast(c, o, size, how))
<1> DEFINE sized == EnsureSize(c, size)
           d1 == [ScheduleRedraw(sized, o) EXCEPT !.skipped = TRUE]
           e == RemoveScheduledRedraw(sized)
           f == DequeueAndRender(e, size, how)
           d2 == [f EXCEPT !.skipped = FALSE]
<1>1. CastOk(sized) /\ SameCast(c, sized) /\ sized.size = size
  BY EnsureSizeFacts
<1>2. RenderCast(c, o, size, how) \in {sized, d1, d2}
  BY DEF RenderCast
<1> HIDE DEF sized
<1>3. CastOk(d1) /\ SameCast(c, d1)
  <2>1. /\ DOMAIN d1 = CastFields /\ SameCast(sized, d1) /\ d1.size = sized.size
        /\ d1.state = sized.state /\ d1.buffer = sized.buffer /\ d1.rendering = sized.rendering
        /\ d1.frame = sized.frame /\ d1.queued = sized.queued
    BY <1>1 DEF CastOk, CastFields, ScheduleRedraw, SameCast
  <2> HIDE DEF d1
  <2> QED
    BY <1>1, <2>1, TouchFacts DEF SameCast
<1>4. CastOk(e) /\ SameCast(sized, e) /\ e.size = size
  <2>1. /\ DOMAIN e = CastFields /\ SameCast(sized, e) /\ e.size = sized.size
        /\ e.state = sized.state /\ e.buffer = sized.buffer /\ e.rendering = sized.rendering
        /\ e.frame = sized.frame /\ e.queued = sized.queued
    BY <1>1 DEF CastOk, CastFields, RemoveScheduledRedraw, SameCast
  <2> HIDE DEF e
  <2> QED
    BY <1>1, <2>1, TouchFacts
<1> HIDE DEF e
<1>5. CastOk(f) /\ SameCast(e, f)
  BY <1>4, DequeueFacts
<1> HIDE DEF f
<1>6. CastOk(d2) /\ SameCast(f, d2)
  <2>1. /\ DOMAIN d2 = CastFields /\ SameCast(f, d2) /\ d2.size = f.size
        /\ d2.state = f.state /\ d2.buffer = f.buffer /\ d2.rendering = f.rendering
        /\ d2.frame = f.frame /\ d2.queued = f.queued
    BY <1>5 DEF CastOk, CastFields, SameCast
  <2> HIDE DEF d2
  <2> QED
    BY <1>5, <2>1, TouchFacts
<1>7. SameCast(c, d2)
  BY <1>1, <1>4, <1>5, <1>6 DEF SameCast
<1> QED
  BY <1>1, <1>2, <1>3, <1>6, <1>7

\* What is on screen is of what there may be, and has a size.
SceneOk ==
  /\ DOMAIN scene = {"windows", "outputs", "output", "cast_output", "size"}
  /\ scene.windows \subseteq Windows /\ scene.outputs \subseteq Outputs
  /\ scene.size \in [Targets -> Sizes]
  /\ script \in CastScenarios

\* What redraw_cast does to a cast leaves it in order.
LEMMA RedrawnCastFacts ==
  ASSUME SceneOk, NEW c, CastOk(c), NEW how
  PROVE  CastOk(RedrawnCast(c, how)) /\ SameCast(c, RedrawnCast(c, how))
<1> DEFINE size == scene.size[c.target]
           sized == EnsureSize(c, size)
<1>1. SameCast(c, c)
  BY DEF SameCast
<1>2. CASE RedrawnCast(c, how) = c
  BY <1>1, <1>2
<1>3. CASE RedrawnCast(c, how) = DequeueAndClear(c, how)
  BY <1>3, DequeueFacts
<1>4. CASE c.target \in scene.windows /\ RedrawnCast(c, how) = DequeueAndRender(sized, size, how)
  <2>1. size \in Sizes
    BY <1>4 DEF SceneOk, Targets
  <2> HIDE DEF size
  <2>2. CastOk(sized) /\ SameCast(c, sized) /\ sized.size = size
    BY <2>1, EnsureSizeFacts
  <2> HIDE DEF sized
  <2>3. /\ CastOk(DequeueAndRender(sized, size, how))
        /\ SameCast(sized, DequeueAndRender(sized, size, how))
    BY <2>2, DequeueFacts
  <2> QED
    BY <1>4, <2>2, <2>3 DEF SameCast
<1> QED
  BY <1>2, <1>3, <1>4 DEF RedrawnCast

---------------------------------------------------------------------------
(* The inductive invariant, of the world w that handlers work on. *)

StreamsOf(s) == {x \in Streams : SessionOf[x] = s}

StartMsgs == [kind : {"StartCast"}, stream : Streams, target : Targets \cup {Portal}]
StopMsgs == [kind : {"StopCast"}, session : Sessions]
Messages == StartMsgs \cup StopMsgs
PwMessages == [kind : {"StopCast", "Redraw", "FatalError"}, stream : Streams]

SessionOk(s, x) ==
  /\ DOMAIN x = {"phase", "streams", "started", "late"} /\ x.late \in BOOLEAN
  /\ DOMAIN x.streams \subseteq StreamsOf(s) /\ x.started \subseteq StreamsOf(s)
  /\ \A y \in DOMAIN x.streams : x.streams[y] \in Targets \cup {Portal}

WorldFields == {"casts", "pending", "session", "toNiri", "fromPw", "pipewire", "redraws"}

Typed(w) ==
  /\ DOMAIN w = WorldFields
  /\ w.casts \in Seq(ToSet(w.casts)) /\ \A c \in ToSet(w.casts) : CastOk(c)
  /\ w.pending \in Seq(Streams)
  /\ DOMAIN w.session = Sessions /\ IsFun(w.session)
  /\ \A s \in Sessions : SessionOk(s, w.session[s])
  /\ w.toNiri \in Seq(Messages) /\ w.fromPw \in Seq(PwMessages)

IsStart(msg, x) == msg.kind = "StartCast" /\ msg.stream = x

Known(w, x) == \/ \E i \in DOMAIN w.toNiri : IsStart(w.toNiri[i], x)
               \/ \E c \in ToSet(w.casts) : c.stream = x
               \/ x \in ToSet(w.pending)

\* A session has a cast, or a stream that waits for its target.
CastOf(w, s) == \E x \in StreamsOf(s) : (\E c \in ToSet(w.casts) : c.stream = x) \/ x \in ToSet(w.pending)

StopComing(w, s) == \E i \in DOMAIN w.toNiri : w.toNiri[i] = StopMsg(s)

\* What was started is going to be stopped by a later message.
StartsStopped(w, s) ==
  \A i \in DOMAIN w.toNiri : \A x \in StreamsOf(s) :
    IsStart(w.toNiri[i], x) => \E j \in DOMAIN w.toNiri : i < j /\ w.toNiri[j] = StopMsg(s)

\* The compositor was told to stop the session, which was not started again since.
Ended(x) == x.phase \in {"Told", "Gone"} /\ ~x.late

Accounted(w, s) ==
  /\ w.session[s].phase = "Open" => \A x \in w.session[s].started : Known(w, x)
  /\ Ended(w.session[s]) => (CastOf(w, s) => StopComing(w, s)) /\ StartsStopped(w, s)

WorldOk(w) == Typed(w) /\ \A s \in Sessions : Accounted(w, s)

CastInv == SceneOk /\ WorldOk(World) /\ TargetsHold /\ CopyInv

---------------------------------------------------------------------------
(* Sequences. *)

\* The elements of a finite set, in some order.
LEMMA SetToSeqFacts ==
  ASSUME NEW S, IsFiniteSet(S)
  PROVE  /\ Cardinality(S) \in Nat /\ SetToSeq(S) \in [1 .. Cardinality(S) -> S]
         /\ \A x \in S : \E i \in 1 .. Cardinality(S) : SetToSeq(S)[i] = x
<1> DEFINE C == Cardinality(S)
           q == SetToSeq(S)
<1>1. C \in Nat /\ ExistsBijection(1 .. C, S)
  BY FS_CardinalityType
<1>2. \E f \in [1 .. C -> S] : IsInjective(f)
  BY <1>1 DEF ExistsBijection, Bijection, Injection
<1>3. q \in [1 .. C -> S] /\ IsInjective(q)
  BY <1>2 DEF SetToSeq
<1>4. q \in Injection(1 .. C, S)
  BY <1>3 DEF Injection
<1>5. IsFiniteSet(1 .. C) /\ Cardinality(1 .. C) = C
  BY <1>1, FS_Interval
<1>6. q \in Surjection(1 .. C, S)
  BY <1>4, <1>5, FS_Injection
<1> QED
  BY <1>1, <1>3, <1>6 DEF Surjection

\* Nothing is lost when a sequence is extended.
LEMMA ConcatFacts ==
  ASSUME NEW T, NEW s \in Seq(T), NEW t \in Seq(T)
  PROVE  /\ s \o t \in Seq(T) /\ ToSet(s \o t) = ToSet(s) \cup ToSet(t)
         /\ \A i \in DOMAIN s : i \in DOMAIN (s \o t) /\ (s \o t)[i] = s[i]
         /\ \A i \in DOMAIN t : Len(s) + i \in DOMAIN (s \o t) /\ (s \o t)[Len(s) + i] = t[i]
         /\ \A i \in DOMAIN (s \o t) : i \in DOMAIN s \/ (i > Len(s) /\ \E j \in DOMAIN t : i = Len(s) + j)
         /\ DOMAIN s \subseteq Nat /\ \A i \in DOMAIN s : i <= Len(s)
         /\ Len(s) \in Nat
<1> DEFINE u == s \o t
<1>1. /\ Len(s) \in Nat /\ Len(t) \in Nat /\ DOMAIN s = 1 .. Len(s) /\ DOMAIN t = 1 .. Len(t)
  OBVIOUS
<1>2. /\ u \in Seq(T) /\ DOMAIN u = 1 .. Len(s) + Len(t)
      /\ \A i \in 1 .. Len(s) + Len(t) : u[i] = IF i <= Len(s) THEN s[i] ELSE t[i - Len(s)]
  OBVIOUS
<1> HIDE DEF u
<1>3. \A i \in DOMAIN s : i \in DOMAIN u /\ u[i] = s[i]
  BY <1>1, <1>2
<1>4. \A i \in DOMAIN t : Len(s) + i \in DOMAIN u /\ u[Len(s) + i] = t[i]
  <2> SUFFICES ASSUME NEW i \in DOMAIN t PROVE Len(s) + i \in DOMAIN u /\ u[Len(s) + i] = t[i]
    OBVIOUS
  <2>1. Len(s) + i \in 1 .. Len(s) + Len(t) /\ ~(Len(s) + i <= Len(s)) /\ (Len(s) + i) - Len(s) = i
    BY <1>1
  <2> QED
    BY <1>2, <2>1
<1>5. ASSUME NEW i \in DOMAIN u, i \notin DOMAIN s
      PROVE  i > Len(s) /\ \E j \in DOMAIN t : i = Len(s) + j
  <2>1. i > Len(s) /\ i - Len(s) \in 1 .. Len(t) /\ i = Len(s) + (i - Len(s))
    BY <1>1, <1>2, <1>5
  <2> QED
    BY <1>1, <2>1
<1>6. ToSet(u) = ToSet(s) \cup ToSet(t)
  BY <1>3, <1>4, <1>5 DEF ToSet
<1> QED
  BY <1>1, <1>2, <1>3, <1>4, <1>5, <1>6 DEF u

\* The first goes, and the others move up.
LEMMA TailFacts ==
  ASSUME NEW T, NEW s \in Seq(T), s # <<>>
  PROVE  /\ Tail(s) \in Seq(T) /\ Head(s) \in T /\ 1 \in DOMAIN s /\ Head(s) = s[1]
         /\ \A i \in DOMAIN Tail(s) : i + 1 \in DOMAIN s /\ Tail(s)[i] = s[i + 1]
         /\ \A i \in DOMAIN s : i # 1 => i - 1 \in DOMAIN Tail(s) /\ Tail(s)[i - 1] = s[i]
         /\ DOMAIN s \subseteq Nat \ {0} /\ DOMAIN Tail(s) \subseteq Nat \ {0}
<1> DEFINE t == Tail(s)
<1>1. Len(s) \in Nat /\ DOMAIN s = 1 .. Len(s) /\ Len(s) > 0
  OBVIOUS
<1>2. t \in Seq(T) /\ DOMAIN t = 1 .. Len(s) - 1 /\ Head(s) = s[1]
      /\ \A i \in 1 .. Len(s) - 1 : t[i] = s[i + 1]
  BY <1>1
<1> HIDE DEF t
<1>3. \A i \in DOMAIN t : i + 1 \in DOMAIN s /\ t[i] = s[i + 1]
  BY <1>1, <1>2
<1>4. ASSUME NEW i \in DOMAIN s, i # 1 PROVE i - 1 \in DOMAIN t /\ t[i - 1] = s[i]
  <2>1. i - 1 \in 1 .. Len(s) - 1 /\ (i - 1) + 1 = i
    BY <1>1, <1>4
  <2> QED
    BY <1>2, <2>1
<1>5. 1 \in DOMAIN s /\ Head(s) \in T
  BY <1>1, <1>2
<1> QED
  BY <1>1, <1>2, <1>3, <1>4, <1>5 DEF t

\* What a sequence is of.
LEMMA SeqOfItself ==
  ASSUME NEW T, NEW s \in Seq(T)
  PROVE  s \in Seq(ToSet(s)) /\ ToSet(s) \subseteq T
<1>1. Len(s) \in Nat /\ DOMAIN s = 1 .. Len(s) /\ s = [i \in 1 .. Len(s) |-> s[i]]
      /\ \A i \in 1 .. Len(s) : s[i] \in T /\ s[i] \in ToSet(s)
  BY DEF ToSet
<1> QED
  BY <1>1 DEF ToSet

---------------------------------------------------------------------------
(* Casts are stopped. *)

\* The sessions that were open say that they stop.
StopsSent(w, v, S) ==
  \E t \in Seq(StopMsgs) :
    /\ v.toNiri = w.toNiri \o t
    /\ \A s \in S : w.session[s].phase = "Open" => \E i \in DOMAIN t : t[i] = StopMsg(s)

\* Niri::stop_cast drops the casts of its sessions and their pending streams, closes those
\* that were open, and these say so.
LEMMA StopCastsFacts ==
  ASSUME NEW w, Typed(w), NEW S \in SUBSET Sessions, NEW v, v = StopCasts(w, S)
  PROVE  /\ Typed(v) /\ v.fromPw = w.fromPw /\ v.pipewire = w.pipewire /\ v.redraws = w.redraws
         /\ ToSet(v.casts) = {c \in ToSet(w.casts) : SessionOf[c.stream] \notin S}
         /\ ToSet(v.pending) = {x \in ToSet(w.pending) : SessionOf[x] \notin S}
         /\ \A s \in Sessions : IF s \in S /\ w.session[s].phase = "Open"
                                THEN /\ v.session[s].phase = "Told"
                                     /\ v.session[s].streams = w.session[s].streams
                                ELSE v.session[s] = w.session[s]
         /\ StopsSent(w, v, S)
<1> DEFINE open == {s \in S : w.session[s].phase = "Open"}
           C == Cardinality(open)
           kept == Retained(w.casts, {c \in ToSet(w.casts) : SessionOf[c.stream] \notin S})
           left == Retained(w.pending, {x \in Streams : SessionOf[x] \notin S})
           closed == [s \in Sessions |-> IF s \in open THEN [w.session[s] EXCEPT !.phase = "Told"]
                                        ELSE w.session[s]]
           t == [i \in 1 .. C |-> StopMsg(SetToSeq(open)[i])]
           all == w.toNiri \o t
<1>1. v = [w EXCEPT !.casts = kept, !.pending = left, !.session = closed, !.toNiri = all]
  BY DEF StopCasts
<1>2. IsFiniteSet(open) /\ open \in SUBSET Sessions
  BY FS_Subset, CastAssumption
<1>3. /\ C \in Nat /\ SetToSeq(open) \in [1 .. C -> open]
      /\ \A x \in open : \E i \in 1 .. C : SetToSeq(open)[i] = x
  BY <1>2, SetToSeqFacts
<1>4. t \in Seq(StopMsgs) /\ DOMAIN t = 1 .. C
  <2> HIDE DEF C, open
  <2>1. \A i \in 1 .. C : StopMsg(SetToSeq(open)[i]) \in StopMsgs
    BY <1>2, <1>3 DEF StopMsg, StopMsgs
  <2> QED
    BY <1>3, <2>1
<1>5. \A s \in open : \E i \in DOMAIN t : t[i] = StopMsg(s)
  <2> HIDE DEF C, open
  <2>1. \A i \in 1 .. C : t[i] = StopMsg(SetToSeq(open)[i])
    OBVIOUS
  <2> HIDE DEF t
  <2> QED
    BY <1>3, <1>4, <2>1
<1> HIDE DEF t, C
<1>6. /\ kept \in Seq(ToSet(w.casts))
      /\ ToSet(kept) = {c \in ToSet(w.casts) : SessionOf[c.stream] \notin S}
  BY RetainedFacts DEF Typed
<1>7. kept \in Seq(ToSet(kept))
  BY <1>6, SeqOfItself
<1>8. /\ left \in Seq(Streams) /\ ToSet(left) = ToSet(w.pending) \cap {x \in Streams : SessionOf[x] \notin S}
  BY RetainedFacts DEF Typed
<1>9. ToSet(w.pending) \subseteq Streams
  BY SeqOfItself DEF Typed
<1>10. t \in Seq(Messages) /\ w.toNiri \in Seq(Messages)
  <2>1. StopMsgs \subseteq Messages
    BY DEF Messages
  <2> QED
    BY <1>4, <2>1 DEF Typed
<1>11. all \in Seq(Messages)
  BY <1>10
<1>12. DOMAIN closed = Sessions /\ IsFun(closed)
  BY DEF IsFun
<1>13. \A s \in Sessions : closed[s] = IF s \in open THEN [w.session[s] EXCEPT !.phase = "Told"] ELSE w.session[s]
  OBVIOUS
<1>14. ASSUME NEW s \in Sessions
       PROVE  /\ SessionOk(s, closed[s])
              /\ s \in open => closed[s].phase = "Told" /\ closed[s].streams = w.session[s].streams
  <2>1. SessionOk(s, w.session[s])
    BY DEF Typed
  <2>2. CASE s \notin open
    BY <1>13, <2>1, <2>2
  <2>3. CASE s \in open
    <3> DEFINE x == [w.session[s] EXCEPT !.phase = "Told"]
    <3>1. closed[s] = x
      BY <1>13, <2>3
    <3>2. /\ DOMAIN x = {"phase", "streams", "started", "late"} /\ x.phase = "Told"
          /\ x.streams = w.session[s].streams /\ x.started = w.session[s].started /\ x.late = w.session[s].late
      BY <2>1 DEF SessionOk
    <3> HIDE DEF x
    <3> QED
      BY <2>1, <3>1, <3>2 DEF SessionOk
  <2> QED
    BY <2>2, <2>3
<1> HIDE DEF closed, kept, left, all
<1>15. /\ DOMAIN v = WorldFields /\ v.casts = kept /\ v.pending = left /\ v.session = closed
       /\ v.toNiri = all /\ v.fromPw = w.fromPw /\ v.pipewire = w.pipewire /\ v.redraws = w.redraws
  BY <1>1 DEF Typed, WorldFields
<1>16. Typed(v)
  BY <1>6, <1>7, <1>8, <1>11, <1>12, <1>14, <1>15 DEF Typed
<1>17. ToSet(v.pending) = {x \in ToSet(w.pending) : SessionOf[x] \notin S}
  BY <1>8, <1>9, <1>15
<1>18. \A s \in Sessions : IF s \in S /\ w.session[s].phase = "Open"
                           THEN v.session[s].phase = "Told" /\ v.session[s].streams = w.session[s].streams
                           ELSE v.session[s] = w.session[s]
  BY <1>13, <1>14, <1>15
<1>19. v.toNiri = w.toNiri \o t
  BY <1>15 DEF all
<1>20. StopsSent(w, v, S)
  BY <1>4, <1>5, <1>19 DEF StopsSent
<1> QED
  BY <1>6, <1>15, <1>16, <1>17, <1>18, <1>20

\* A world in which only the sessions of S may have lost count of a stream.
OkBut(w, S) ==
  /\ Typed(w) /\ \A s \in Sessions \ S : Accounted(w, s)
  /\ \A s \in S : Ended(w.session[s]) => StartsStopped(w, s)

\* A world in order is so but for any sessions.
LEMMA OkButFacts ==
  ASSUME NEW w, WorldOk(w), NEW S \in SUBSET Sessions
  PROVE  OkBut(w, S)
BY DEF WorldOk, OkBut, Accounted

\* A stop is not taken for a start.
LEMMA MessageKinds ==
  /\ \A m \in StopMsgs : m.kind = "StopCast"
  /\ \A s : StopMsg(s).kind = "StopCast"
BY DEF StopMsgs, StopMsg

\* After they are stopped all are accounted for.
LEMMA StopCastsOk ==
  ASSUME NEW w, NEW S \in SUBSET Sessions, OkBut(w, S), NEW v, v = StopCasts(w, S)
  PROVE  WorldOk(v)
<1>1. Typed(w)
  BY DEF OkBut
<1>2. /\ Typed(v)
      /\ ToSet(v.casts) = {c \in ToSet(w.casts) : SessionOf[c.stream] \notin S}
      /\ ToSet(v.pending) = {x \in ToSet(w.pending) : SessionOf[x] \notin S}
      /\ \A s \in Sessions : IF s \in S /\ w.session[s].phase = "Open"
                             THEN v.session[s].phase = "Told" /\ v.session[s].streams = w.session[s].streams
                             ELSE v.session[s] = w.session[s]
      /\ StopsSent(w, v, S)
  BY <1>1, StopCastsFacts
<1>3. PICK t \in Seq(StopMsgs) :
        /\ v.toNiri = w.toNiri \o t
        /\ \A s \in S : w.session[s].phase = "Open" => \E i \in DOMAIN t : t[i] = StopMsg(s)
  BY <1>2 DEF StopsSent
<1>4. w.toNiri \in Seq(Messages) /\ t \in Seq(Messages) /\ \A i \in DOMAIN t : t[i].kind = "StopCast"
  <2>1. StopMsgs \subseteq Messages
    BY DEF Messages
  <2>2. \A i \in DOMAIN t : t[i] \in StopMsgs
    BY <1>3
  <2> QED
    BY <1>1, <1>3, <2>1, <2>2, MessageKinds DEF Typed
<1>5. /\ \A i \in DOMAIN w.toNiri : /\ i \in DOMAIN v.toNiri /\ v.toNiri[i] = w.toNiri[i]
                                    /\ i \in Nat /\ i <= Len(w.toNiri)
      /\ \A i \in DOMAIN t : /\ Len(w.toNiri) + i \in DOMAIN v.toNiri
                             /\ v.toNiri[Len(w.toNiri) + i] = t[i]
      /\ \A i \in DOMAIN v.toNiri : i \in DOMAIN w.toNiri \/ v.toNiri[i].kind = "StopCast"
      /\ Len(w.toNiri) \in Nat
  BY <1>3, <1>4, ConcatFacts
<1>6. \A s \in Sessions : StopComing(w, s) => StopComing(v, s)
  BY <1>5 DEF StopComing
<1>7. \A s \in Sessions : StartsStopped(w, s) => StartsStopped(v, s)
  BY <1>5 DEF StartsStopped, IsStart
<1>8. ASSUME NEW s \in Sessions \ S PROVE Accounted(v, s)
  <2>1. Accounted(w, s) /\ v.session[s] = w.session[s] /\ SessionOk(s, w.session[s])
    BY <1>1, <1>2 DEF OkBut, Typed
  <2>2. \A x \in StreamsOf(s) : SessionOf[x] \notin S
    BY DEF StreamsOf
  <2>3. \A x \in StreamsOf(s) : Known(w, x) => Known(v, x)
    BY <1>2, <1>5, <2>2 DEF Known
  <2>4. CastOf(v, s) => CastOf(w, s)
    BY <1>2 DEF CastOf
  <2> QED
    BY <1>6, <1>7, <2>1, <2>3, <2>4 DEF Accounted, SessionOk
<1>9. ASSUME NEW s \in S PROVE Accounted(v, s)
  <2>1. ~CastOf(v, s)
    BY <1>2 DEF CastOf, StreamsOf
  <2>2. v.session[s].phase # "Open"
    BY <1>2
  <2>3. CASE w.session[s].phase = "Open"
    <3>1. PICK i \in DOMAIN t : t[i] = StopMsg(s)
      BY <1>3, <2>3
    <3>2. i \in Nat \ {0}
      BY <1>4
    <3>3. \A k \in DOMAIN w.toNiri : k < Len(w.toNiri) + i
      BY <1>5, <3>2
    <3>4. StartsStopped(v, s)
      BY <1>5, <3>1, <3>3 DEF StartsStopped, IsStart
    <3> QED
      BY <2>1, <2>2, <3>4 DEF Accounted
  <2>4. CASE w.session[s].phase # "Open"
    BY <1>2, <1>7, <2>1, <2>2, <2>4 DEF Accounted, OkBut
  <2> QED
    BY <2>3, <2>4
<1> QED
  BY <1>2, <1>8, <1>9 DEF WorldOk

---------------------------------------------------------------------------
(* What a world says of streams: whether they have a dynamic target. *)

\* A message, a cast or a session that knows the stream says so.
Says(w, x, dynamic) ==
  \/ \E m \in ToSet(w.toNiri) : IsStart(m, x) /\ dynamic = (m.target = Portal)
  \/ x \in ToSet(w.pending) /\ dynamic = TRUE
  \/ \E c \in ToSet(w.casts) : c.stream = x /\ dynamic = c.dynamic
  \/ LET r == w.session[SessionOf[x]] IN
     r.phase # "Gone" /\ x \in DOMAIN r.streams /\ dynamic = (r.streams[x] = Portal)

\* All that v says w says too.
SaysLess(w, v) ==
  /\ \A x \in Streams : \A dynamic : Says(v, x, dynamic) => Says(w, x, dynamic)
  /\ \A s \in Sessions : v.session[s].phase # "Gone" =>
       w.session[s].phase # "Gone" /\ v.session[s].streams = w.session[s].streams

\* Saying less is reflexive and transitive, so a handler may be followed call by call.
LEMMA SaysLessFacts ==
  /\ \A w : SaysLess(w, w)
  /\ \A u, v, w : SaysLess(u, v) /\ SaysLess(v, w) => SaysLess(u, w)
<1>1. ASSUME NEW u, NEW v, NEW w, SaysLess(u, v), SaysLess(v, w) PROVE SaysLess(u, w)
  <2>1. \A x \in Streams : \A dynamic : Says(w, x, dynamic) => Says(u, x, dynamic)
    BY <1>1 DEF SaysLess
  <2>2. \A s \in Sessions : w.session[s].phase # "Gone" =>
          u.session[s].phase # "Gone" /\ w.session[s].streams = u.session[s].streams
    BY <1>1 DEF SaysLess
  <2> QED
    BY <2>1, <2>2 DEF SaysLess
<1>2. \A w : SaysLess(w, w)
  BY DEF SaysLess
<1> QED
  BY <1>1, <1>2

\* Casts that change without becoming others say the same, and messages that were handled
\* say nothing.
LEMMA MapSays ==
  ASSUME NEW w, NEW v, ToSet(v.pending) \subseteq ToSet(w.pending), v.session = w.session,
         ToSet(v.toNiri) \subseteq ToSet(w.toNiri),
         \A c \in ToSet(v.casts) : \E d \in ToSet(w.casts) : d.stream = c.stream /\ d.dynamic = c.dynamic
  PROVE  SaysLess(w, v)
<1>1. ASSUME NEW x \in Streams, NEW b, Says(v, x, b) PROVE Says(w, x, b)
  <2>1. CASE \E m \in ToSet(v.toNiri) : IsStart(m, x) /\ b = (m.target = Portal)
    BY <2>1 DEF Says
  <2>2. CASE \E c \in ToSet(v.casts) : c.stream = x /\ b = c.dynamic
    BY <2>2 DEF Says
  <2> QED
    BY <1>1, <2>1, <2>2 DEF Says
<1> QED
  BY <1>1 DEF SaysLess

\* So do the casts that are left when sessions are stopped.
LEMMA StopSays ==
  ASSUME NEW w, Typed(w), NEW S \in SUBSET Sessions, NEW v, v = StopCasts(w, S)
  PROVE  SaysLess(w, v)
<1>1. /\ ToSet(v.casts) = {c \in ToSet(w.casts) : SessionOf[c.stream] \notin S}
      /\ ToSet(v.pending) = {x \in ToSet(w.pending) : SessionOf[x] \notin S}
      /\ \A s \in Sessions : IF s \in S /\ w.session[s].phase = "Open"
                             THEN v.session[s].phase = "Told" /\ v.session[s].streams = w.session[s].streams
                             ELSE v.session[s] = w.session[s]
      /\ StopsSent(w, v, S)
  BY StopCastsFacts
<1>2. PICK t \in Seq(StopMsgs) : v.toNiri = w.toNiri \o t
  BY <1>1 DEF StopsSent
<1>3. w.toNiri \in Seq(Messages) /\ t \in Seq(Messages) /\ \A i \in DOMAIN t : t[i].kind = "StopCast"
  <2>1. StopMsgs \subseteq Messages
    BY DEF Messages
  <2>2. \A i \in DOMAIN t : t[i] \in StopMsgs
    BY <1>2
  <2> QED
    BY <1>2, <2>1, <2>2, MessageKinds DEF Typed
<1>4. ToSet(v.toNiri) = ToSet(w.toNiri) \cup ToSet(t)
  BY <1>2, <1>3, ConcatFacts
<1>5. \A m \in ToSet(t) : \A x : ~IsStart(m, x)
  BY <1>3 DEF ToSet, IsStart
<1>6. \A s \in Sessions : v.session[s].phase # "Gone" =>
        w.session[s].phase # "Gone" /\ v.session[s].streams = w.session[s].streams
  BY <1>1
<1>7. ASSUME NEW x \in Streams, NEW b, Says(v, x, b) PROVE Says(w, x, b)
  <2>1. CASE \E m \in ToSet(v.toNiri) : IsStart(m, x) /\ b = (m.target = Portal)
    BY <1>4, <1>5, <2>1 DEF Says
  <2>2. CASE x \in ToSet(v.pending) /\ b = TRUE
    BY <1>1, <2>2 DEF Says
  <2>3. CASE \E c \in ToSet(v.casts) : c.stream = x /\ b = c.dynamic
    BY <1>1, <2>3 DEF Says
  <2>4. CASE LET r == v.session[SessionOf[x]] IN
             r.phase # "Gone" /\ x \in DOMAIN r.streams /\ b = (r.streams[x] = Portal)
    <3>1. SessionOf[x] \in Sessions
      BY CastAssumption
    <3> QED
      BY <1>6, <2>4, <3>1 DEF Says
  <2> QED
    BY <1>7, <2>1, <2>2, <2>3, <2>4 DEF Says
<1> QED
  BY <1>6, <1>7 DEF SaysLess

\* Between a state and the next nothing was recorded.
NothingRecorded == SaysLess(World, World')

---------------------------------------------------------------------------
(* Worlds that are in order, but for the sessions of S. *)

Aimed(w, there, clear) == \A c \in ToSet(w.casts) : c.target \in there \/ (c.dynamic /\ clear)

Agreed(w) == \A c, d \in ToSet(w.casts) : c.dynamic /\ d.dynamic => c.target = d.target

Sound(w, S, there, clear) ==
  OkBut(w, S) /\ Aimed(w, there, clear) /\ (~Has("fatal") => Agreed(w))

\* A world that a handler works on.
Good(w, S, there, clear) == Sound(w, S, there, clear) /\ SaysLess(World, w)

There == scene.windows \cup scene.outputs \cup {Nothing}

\* Casts that change without becoming others.
LEMMA MapGood ==
  ASSUME NEW w, NEW S, NEW there, NEW clear, Good(w, S, there, clear),
         NEW v, DOMAIN v = WorldFields, v.pending = w.pending, v.session = w.session,
         v.toNiri = w.toNiri, v.fromPw \in Seq(PwMessages),
         IsFun(v.casts), DOMAIN v.casts = DOMAIN w.casts,
         \A i \in DOMAIN w.casts : CastOk(v.casts[i]) /\ SameCast(w.casts[i], v.casts[i])
  PROVE  Good(v, S, there, clear)
<1>1. /\ Typed(w) /\ w.casts \in Seq(ToSet(w.casts)) /\ DOMAIN w.casts = 1 .. Len(w.casts)
      /\ Len(w.casts) \in Nat
  BY DEF Good, Sound, OkBut, Typed
<1>2. /\ \A c \in ToSet(v.casts) : \E d \in ToSet(w.casts) : SameCast(d, c)
      /\ \A d \in ToSet(w.casts) : \E c \in ToSet(v.casts) : SameCast(d, c)
      /\ \A c \in ToSet(v.casts) : CastOk(c)
  BY DEF ToSet
<1>3. v.casts \in Seq(ToSet(v.casts))
  <2>1. v.casts = [i \in 1 .. Len(w.casts) |-> v.casts[i]]
    BY <1>1 DEF IsFun
  <2>2. \A i \in 1 .. Len(w.casts) : v.casts[i] \in ToSet(v.casts)
    BY <1>1 DEF ToSet
  <2> QED
    BY <1>1, <2>1, <2>2
<1>4. Typed(v)
  BY <1>1, <1>2, <1>3 DEF Typed
<1>5. \A x : (\E c \in ToSet(v.casts) : c.stream = x) <=> (\E c \in ToSet(w.casts) : c.stream = x)
  BY <1>2 DEF SameCast
<1>6. \A s \in Sessions : /\ Accounted(w, s) => Accounted(v, s)
                          /\ StartsStopped(w, s) => StartsStopped(v, s)
  BY <1>5 DEF Accounted, Known, CastOf, StopComing, StartsStopped
<1>7. OkBut(v, S)
  BY <1>4, <1>6 DEF Good, Sound, OkBut, StartsStopped
<1>8. Aimed(v, there, clear) /\ (Agreed(w) => Agreed(v))
  BY <1>2 DEF Good, Sound, Aimed, Agreed, SameCast
<1>9. SaysLess(w, v)
  BY <1>2, MapSays DEF SameCast
<1>10. SaysLess(World, v)
  BY <1>9, SaysLessFacts DEF Good
<1> QED
  BY <1>7, <1>8, <1>10 DEF Good, Sound

\* Stopping the sessions that lost count puts the world in order.
LEMMA StopGood ==
  ASSUME NEW w, NEW S \in SUBSET Sessions, NEW there, NEW clear, Good(w, S, there, clear)
  PROVE  Good(StopCasts(w, S), {}, there, clear)
<1> DEFINE v == StopCasts(w, S)
<1>1. OkBut(w, S) /\ Typed(w)
  BY DEF Good, Sound, OkBut
<1>2. ToSet(v.casts) \subseteq ToSet(w.casts)
  BY <1>1, StopCastsFacts
<1>3. WorldOk(v) /\ SaysLess(w, v)
  BY <1>1, StopCastsOk, StopSays
<1> HIDE DEF v
<1>4. OkBut(v, {})
  BY <1>3 DEF WorldOk, OkBut
<1>5. Aimed(v, there, clear) /\ (Agreed(w) => Agreed(v))
  BY <1>2 DEF Good, Sound, Aimed, Agreed
<1>6. SaysLess(World, v)
  BY <1>3, SaysLessFacts DEF Good
<1> QED
  BY <1>4, <1>5, <1>6 DEF Good, Sound, v

\* Only some sessions are of interest.
LEMMA GoodBut ==
  ASSUME NEW w, NEW there, NEW clear, Good(w, {}, there, clear), NEW S \in SUBSET Sessions
  PROVE  Good(w, S, there, clear)
BY DEF Good, Sound, OkBut, Accounted

\* At the start of a handler, and at its end.
LEMMA WorldGood ==
  ASSUME CastInv
  PROVE  Good(World, {}, There, clearing)
<1>1. World.casts = casts
  BY DEF World
<1>2. Aimed(World, There, clearing)
  BY <1>1 DEF CastInv, TargetsHold, TargetsAreThere, Aimed, ToSet, There
<1>3. ~Has("fatal") => Agreed(World)
  BY <1>1 DEF CastInv, TargetsHold, DynamicCastsAgree, Agreed, ToSet
<1>4. SaysLess(World, World)
  BY SaysLessFacts
<1> QED
  BY <1>2, <1>3, <1>4 DEF CastInv, WorldOk, Good, Sound, OkBut

\* A handler that ends in a world in order preserves the invariant.
LEMMA SoundStep ==
  ASSUME CastInv, NEW v, Sound(v, {}, There', clearing'), Casting(v), SceneOk', script' = script, CopyInv'
  PROVE  CastInv'
<1>1. /\ casts' = v.casts /\ pending' = v.pending /\ session' = v.session
      /\ toNiri' = v.toNiri /\ fromPw' = v.fromPw
  BY DEF Casting
<1> DEFINE u == World'
<1>2. /\ DOMAIN u = WorldFields /\ u.casts = v.casts /\ u.pending = v.pending
      /\ u.session = v.session /\ u.toNiri = v.toNiri /\ u.fromPw = v.fromPw
  BY <1>1 DEF World, WorldFields
<1> HIDE DEF u
<1>3. Typed(u)
  BY <1>2 DEF Sound, OkBut, Typed
<1>4. \A s \in Sessions : Accounted(u, s)
  BY <1>2 DEF Sound, OkBut, Accounted, Known, CastOf, StopComing, StartsStopped
<1>5. WorldOk(u)
  BY <1>3, <1>4 DEF WorldOk
<1>6. TargetsAreThere'
  BY <1>1 DEF Sound, Aimed, ToSet, TargetsAreThere, There
<1>7. DynamicCastsAgree'
  <2>1. Has("fatal")' <=> Has("fatal")
    BY DEF Has
  <2> QED
    BY <1>1, <2>1 DEF Sound, Agreed, ToSet, DynamicCastsAgree
<1>8. WorldOk(World)'
  BY <1>5 DEF u
<1> QED
  BY <1>6, <1>7, <1>8 DEF CastInv, TargetsHold

\* Nor is anything recorded by a handler.
LEMMA HandlerStep ==
  ASSUME CastInv, NEW v, Good(v, {}, There', clearing'), Casting(v), SceneOk', script' = script, CopyInv'
  PROVE  CastInv' /\ NothingRecorded
<1>1. Sound(v, {}, There', clearing') /\ SaysLess(World, v)
  BY DEF Good
<1>2. CastInv'
  BY <1>1, SoundStep
<1> DEFINE u == World'
           w == World
<1>3. u.casts = v.casts /\ u.pending = v.pending /\ u.session = v.session /\ u.toNiri = v.toNiri
  BY DEF World, Casting
<1>4. SaysLess(w, v)
  BY <1>1
<1> HIDE DEF u, w
<1>5. SaysLess(w, u)
  BY <1>3, <1>4 DEF SaysLess, Says
<1> QED
  BY <1>2, <1>5 DEF NothingRecorded, u, w

---------------------------------------------------------------------------
(* PipeWire's callbacks, and timers: casts change one by one. *)

\* The world is made of the variables.
LEMMA WorldFacts ==
  /\ DOMAIN World = WorldFields /\ World.casts = casts /\ World.pending = pending
  /\ World.session = session /\ World.toNiri = toNiri /\ World.fromPw = fromPw
  /\ World.pipewire = pipewire /\ World.redraws = redraws
BY DEF World, WorldFields

\* What is there depends on the scene only.
LEMMA SceneStays ==
  ASSUME SceneOk, UNCHANGED <<script, scene>>
  PROVE  SceneOk' /\ There' = There
BY DEF SceneOk, There

\* The casts are a sequence of casts that are in order.
LEMMA CastFacts ==
  ASSUME CastInv
  PROVE  /\ casts \in Seq(ToSet(casts)) /\ Len(casts) \in Nat /\ DOMAIN casts = 1 .. Len(casts)
         /\ \A i \in DOMAIN casts : CastOk(casts[i]) /\ SameCast(casts[i], casts[i]) /\ casts[i].stream \in Streams
         /\ fromPw \in Seq(PwMessages) /\ IsFun(casts)
<1>1. /\ casts \in Seq(ToSet(casts)) /\ (\A c \in ToSet(casts) : CastOk(c)) /\ fromPw \in Seq(PwMessages)
  BY WorldFacts DEF CastInv, WorldOk, Typed
<1>2. Len(casts) \in Nat /\ DOMAIN casts = 1 .. Len(casts) /\ casts = [i \in DOMAIN casts |-> casts[i]]
  BY <1>1
<1>3. \A i \in DOMAIN casts : casts[i] \in ToSet(casts)
  BY DEF ToSet
<1> QED
  BY <1>1, <1>2, <1>3 DEF CastOk, SameCast, IsFun

\* A callback that leaves every cast in order, and tells what it may, preserves the invariant.
LEMMA CallbackStep ==
  ASSUME CastInv, NEW cs, IsFun(cs), DOMAIN cs = DOMAIN casts,
         \A i \in DOMAIN casts : CastOk(cs[i]) /\ SameCast(casts[i], cs[i]),
         casts' = cs, fromPw' \in Seq(PwMessages),
         UNCHANGED <<script, session, toNiri, pending, clearing, scene, managers, queues, frames>>
  PROVE  CastInv' /\ NothingRecorded
<1> DEFINE v == [casts |-> casts', pending |-> pending', session |-> session', toNiri |-> toNiri',
                 fromPw |-> fromPw', pipewire |-> pipewire', redraws |-> redraws']
<1>1. Good(World, {}, There, clearing)
  BY WorldGood
<1>2. /\ DOMAIN v = WorldFields /\ v.casts = casts' /\ v.pending = pending' /\ v.session = session'
      /\ v.toNiri = toNiri' /\ v.fromPw = fromPw' /\ v.pipewire = pipewire' /\ v.redraws = redraws'
  BY DEF WorldFields
<1> HIDE DEF v
<1>3. Good(v, {}, There, clearing)
  BY <1>1, <1>2, WorldFacts, MapGood
<1>4. SceneOk' /\ There' = There /\ clearing' = clearing
  BY SceneStays DEF CastInv
<1>5. CopyInv'
  BY DEF CastInv, CopyInv
<1>6. Casting(v)
  BY <1>2 DEF Casting
<1> QED
  BY <1>3, <1>4, <1>5, <1>6, HandlerStep

\* One cast changes.
LEMMA OneCastStep ==
  ASSUME CastInv, NEW i \in DOMAIN casts, NEW d, CastOk(d), SameCast(casts[i], d),
         casts' = [casts EXCEPT ![i] = d], fromPw' \in Seq(PwMessages),
         UNCHANGED <<script, session, toNiri, pending, clearing, scene, managers, queues, frames>>
  PROVE  CastInv' /\ NothingRecorded
<1> DEFINE cs == [casts EXCEPT ![i] = d]
<1>1. IsFun(casts) /\ \A j \in DOMAIN casts : CastOk(casts[j]) /\ SameCast(casts[j], casts[j])
  BY CastFacts
<1>2. /\ IsFun(cs) /\ DOMAIN cs = DOMAIN casts /\ cs[i] = d
      /\ \A j \in DOMAIN casts \ {i} : cs[j] = casts[j]
  BY <1>1 DEF IsFun
<1>3. casts' = cs
  OBVIOUS
<1> HIDE DEF cs
<1>4. \A j \in DOMAIN casts : CastOk(cs[j]) /\ SameCast(casts[j], cs[j])
  BY <1>1, <1>2
<1> QED
  BY <1>2, <1>3, <1>4, CallbackStep

\* What they tell the compositor.
LEMMA TellsFacts ==
  ASSUME CastInv, NEW kind \in {"StopCast", "Redraw", "FatalError"}, NEW x \in Streams, Tells(kind, x)
  PROVE  fromPw' \in Seq(PwMessages)
<1>1. [kind |-> kind, stream |-> x] \in PwMessages /\ fromPw \in Seq(PwMessages)
  BY CastFacts DEF PwMessages
<1>2. fromPw' = Append(fromPw, [kind |-> kind, stream |-> x])
  BY DEF Tells
<1> QED
  BY <1>1, <1>2

\* One cast changes in what its frames do not depend on.
Alike(c, d) ==
  /\ DOMAIN d = CastFields /\ SameCast(c, d) /\ d.size = c.size /\ d.state = c.state
  /\ d.buffer = c.buffer /\ d.rendering = c.rendering /\ d.frame = c.frame /\ d.queued = c.queued

\* So does one that changes only fields that the invariant does not speak of.
LEMMA AlikeStep ==
  ASSUME CastInv, NEW i \in DOMAIN casts, NEW d, Alike(casts[i], d),
         casts' = [casts EXCEPT ![i] = d], fromPw' \in Seq(PwMessages),
         UNCHANGED <<script, session, toNiri, pending, clearing, scene, managers, queues, frames>>
  PROVE  CastInv' /\ NothingRecorded
<1>1. CastOk(casts[i])
  BY CastFacts
<1>2. CastOk(d) /\ SameCast(casts[i], d)
  BY <1>1, TouchFacts DEF Alike
<1> QED
  BY <1>2, OneCastStep

\* PipeWire's state_changed preserves the invariant.
LEMMA StateChangedStep ==
  ASSUME CastInv, NEW i \in DOMAIN casts, StateChanged(i), UNCHANGED copyVars
  PROVE  CastInv' /\ NothingRecorded
<1> DEFINE c == casts[i]
<1>1. CastOk(c) /\ c.stream \in Streams /\ fromPw \in Seq(PwMessages)
  BY CastFacts
<1>2. fromPw' \in Seq(PwMessages)
  BY <1>1, TellsFacts DEF StateChanged
<1>3. UNCHANGED <<script, session, toNiri, pending, clearing, scene, managers, queues, frames>>
  BY DEF StateChanged, CallbackLeaves, copyVars
<1>4. CASE casts' = [casts EXCEPT ![i].stream_state = "Paused", ![i].active = FALSE, ![i].node = TRUE]
  <2> DEFINE d == [c EXCEPT !.stream_state = "Paused", !.active = FALSE, !.node = TRUE]
  <2>1. casts' = [casts EXCEPT ![i] = d]
    BY <1>4
  <2>2. Alike(c, d)
    BY <1>1 DEF CastOk, CastFields, SameCast, Alike
  <2> HIDE DEF d
  <2> QED
    BY <1>2, <1>3, <2>1, <2>2, AlikeStep
<1>5. CASE casts' = [casts EXCEPT ![i].stream_state = "Streaming", ![i].active = TRUE]
  <2> DEFINE d == [c EXCEPT !.stream_state = "Streaming", !.active = TRUE]
  <2>1. casts' = [casts EXCEPT ![i] = d]
    BY <1>5
  <2>2. Alike(c, d)
    BY <1>1 DEF CastOk, CastFields, SameCast, Alike
  <2> HIDE DEF d
  <2> QED
    BY <1>2, <1>3, <2>1, <2>2, AlikeStep
<1>6. CASE casts' = [casts EXCEPT ![i].stream_state = "Error", ![i].active = FALSE]
  <2> DEFINE d == [c EXCEPT !.stream_state = "Error", !.active = FALSE]
  <2>1. casts' = [casts EXCEPT ![i] = d]
    BY <1>6
  <2>2. Alike(c, d)
    BY <1>1 DEF CastOk, CastFields, SameCast, Alike
  <2> HIDE DEF d
  <2> QED
    BY <1>2, <1>3, <2>1, <2>2, AlikeStep
<1> QED
  BY <1>4, <1>5, <1>6 DEF StateChanged

\* Without its buffers a cast has no frames, whatever it offers.
LEMMA ParamChangedStep ==
  ASSUME CastInv, NEW i \in DOMAIN casts, ParamChanged(i), UNCHANGED copyVars
  PROVE  CastInv' /\ NothingRecorded
<1> DEFINE b == casts[i]
           c == [b EXCEPT !.free = 0, !.rendering = <<>>, !.negotiated = FALSE]
<1>1. CastOk(b) /\ b.stream \in Streams /\ fromPw \in Seq(PwMessages)
  BY CastFacts
<1>2. UNCHANGED <<script, session, toNiri, pending, clearing, scene, managers, queues, frames>>
  BY DEF ParamChanged, CallbackLeaves, copyVars
<1>3. /\ DOMAIN c = CastFields /\ SameCast(b, c) /\ c.size = b.size /\ c.state = b.state
      /\ c.buffer = b.buffer /\ c.rendering = <<>> /\ c.frame = b.frame /\ c.queued = b.queued
  BY <1>1 DEF CastOk, CastFields, SameCast
<1>4. PICK k \in DOMAIN c.offers :
        LET heard == [c EXCEPT !.offers = SubSeq(@, k + 1, Len(@))] IN
        WrongSize(i, heard) \/ Fixate(i, heard) \/ MoveToReady(i, heard)
  BY DEF ParamChanged
<1> DEFINE heard == [c EXCEPT !.offers = SubSeq(@, k + 1, Len(@))]
<1>5. /\ DOMAIN heard = CastFields /\ SameCast(b, heard) /\ heard.size = b.size /\ heard.state = b.state
      /\ heard.buffer = b.buffer /\ heard.rendering = <<>> /\ heard.frame = b.frame /\ heard.queued = b.queued
      /\ heard.stream = b.stream
  BY <1>3 DEF CastFields, SameCast
<1> HIDE DEF c
<1>6. WrongSize(i, heard) \/ Fixate(i, heard) \/ MoveToReady(i, heard)
  BY <1>4
<1> HIDE DEF heard
<1>7. ASSUME NEW d, DOMAIN d = CastFields, SameCast(b, d), d.size = b.size, d.rendering = <<>>,
             d.frame = b.frame, d.queued = b.queued,
             (d.state = b.state /\ d.buffer = b.buffer) \/ d.state = "ConfirmationPending" \/ d.buffer = d.size,
             d.buffer \in {b.buffer, b.size},
             casts' = [casts EXCEPT ![i] = d], fromPw' \in Seq(PwMessages)
      PROVE  CastInv' /\ NothingRecorded
  <2>1. Numbered(d)
    <3>1. <<>> \in Seq(Renderings) /\ DOMAIN <<>> = {}
      OBVIOUS
    <3> QED
      BY <1>1, <1>7, <3>1 DEF CastOk, Numbered
  <2>2. CastOk(d)
    BY <1>1, <1>7, <2>1 DEF CastOk, SameCast
  <2> QED
    BY <1>2, <1>7, <2>2, OneCastStep
<1>8. fromPw' \in Seq(PwMessages)
  BY <1>1, <1>5, <1>6, TellsFacts DEF WrongSize, Fixate, MoveToReady
<1>9. CASE casts' = [casts EXCEPT ![i] = heard]
  BY <1>5, <1>7, <1>8, <1>9
<1>10. CASE casts' = [casts EXCEPT ![i] = [heard EXCEPT !.state = "ConfirmationPending",
                                                       !.offers = Append(@, heard.size)]]
  <2> DEFINE d == [heard EXCEPT !.state = "ConfirmationPending", !.offers = Append(@, heard.size)]
  <2>1. /\ DOMAIN d = CastFields /\ SameCast(b, d) /\ d.size = b.size /\ d.state = "ConfirmationPending"
        /\ d.buffer = b.buffer /\ d.rendering = <<>> /\ d.frame = b.frame /\ d.queued = b.queued
    BY <1>5 DEF CastFields, SameCast
  <2> HIDE DEF d
  <2> QED
    BY <1>7, <1>8, <1>10, <2>1 DEF d
<1>11. CASE casts' = [casts EXCEPT ![i] = [heard EXCEPT !.state = "Ready", !.negotiated = TRUE,
                        !.buffer = heard.size, !.early = @ \/ heard.scheduled = "Running"]]
  <2> DEFINE d == [heard EXCEPT !.state = "Ready", !.negotiated = TRUE,
                        !.buffer = heard.size, !.early = @ \/ heard.scheduled = "Running"]
  <2>1. /\ DOMAIN d = CastFields /\ SameCast(b, d) /\ d.size = b.size
        /\ d.buffer = b.size /\ d.rendering = <<>> /\ d.frame = b.frame /\ d.queued = b.queued
    BY <1>5 DEF CastFields, SameCast
  <2>2. casts' = [casts EXCEPT ![i] = d]
    BY <1>11
  <2> HIDE DEF d
  <2> QED
    BY <1>7, <1>8, <2>1, <2>2
<1> QED
  BY <1>6, <1>9, <1>10, <1>11 DEF WrongSize, Fixate, MoveToReady

\* PipeWire's add_buffer preserves the invariant.
LEMMA AddBufferStep ==
  ASSUME CastInv, NEW i \in DOMAIN casts, AddBuffer(i), UNCHANGED copyVars
  PROVE  CastInv' /\ NothingRecorded
<1> DEFINE c == casts[i]
           d == [c EXCEPT !.free = @ + 1]
<1>1. CastOk(c) /\ c.stream \in Streams /\ fromPw \in Seq(PwMessages) /\ IsFun(casts)
  BY CastFacts
<1>2. fromPw' \in Seq(PwMessages)
  BY <1>1, TellsFacts DEF AddBuffer
<1>3. UNCHANGED <<script, session, toNiri, pending, clearing, scene, managers, queues, frames>>
  BY DEF AddBuffer, CallbackLeaves, copyVars
<1>4. Alike(c, d) /\ Alike(c, c)
  BY <1>1 DEF CastOk, CastFields, SameCast, Alike
<1>5. casts' = [casts EXCEPT ![i] = d] \/ casts' = casts
  BY DEF AddBuffer
<1> HIDE DEF d
<1>6. casts' = casts => casts' = [casts EXCEPT ![i] = c]
  BY <1>1 DEF IsFun
<1> QED
  BY <1>2, <1>3, <1>4, <1>5, <1>6, AlikeStep

\* Time, and the timer of schedule_redraw, preserve the invariant.
LEMMA TimerSteps ==
  ASSUME CastInv, NEW i \in DOMAIN casts, TimePasses(i) \/ ScheduledRedraw(i), UNCHANGED copyVars
  PROVE  CastInv' /\ NothingRecorded
<1> DEFINE c == casts[i]
           d1 == [c EXCEPT !.recent = FALSE]
           d2 == [c EXCEPT !.scheduled = "Fired"]
<1>1. CastOk(c) /\ c.stream \in Streams /\ fromPw \in Seq(PwMessages)
  BY CastFacts
<1>2. /\ UNCHANGED <<script, session, toNiri, pending, clearing, scene, managers, queues, frames>>
      /\ fromPw' = fromPw
  BY DEF TimePasses, ScheduledRedraw, CallbackLeaves, copyVars
<1>3. Alike(c, d1) /\ Alike(c, d2)
  BY <1>1 DEF CastOk, CastFields, SameCast, Alike
<1>4. casts' = [casts EXCEPT ![i] = d1] \/ casts' = [casts EXCEPT ![i] = d2]
  BY DEF TimePasses, ScheduledRedraw
<1> HIDE DEF d1, d2
<1> QED
  BY <1>1, <1>2, <1>3, <1>4, AlikeStep

\* A fence that signals preserves the invariant, whichever it is.
LEMMA FenceSignalledStep ==
  ASSUME CastInv, NEW i \in DOMAIN casts, NEW j \in DOMAIN casts[i].rendering,
         FenceSignalled(i, j), UNCHANGED copyVars
  PROVE  CastInv' /\ NothingRecorded
<1> DEFINE c == casts[i]
           r == [c.rendering[j] EXCEPT !.done = TRUE]
           all == [c.rendering EXCEPT ![j] = r]
           d == [c EXCEPT !.rendering = all]
<1>1. CastOk(c) /\ fromPw \in Seq(PwMessages)
  BY CastFacts
<1>2. /\ UNCHANGED <<script, session, toNiri, pending, clearing, scene, managers, queues, frames>>
      /\ fromPw' = fromPw
  BY DEF FenceSignalled, CallbackLeaves, copyVars
<1>3. casts' = [casts EXCEPT ![i] = QueueCompletedBuffers(d)]
  BY DEF FenceSignalled
<1>4. /\ c.rendering \in Seq(Renderings) /\ c.rendering[j] \in Renderings
      /\ DOMAIN c.rendering = 1 .. Len(c.rendering) /\ Len(c.rendering) \in Nat
  BY <1>1, RenderingFacts
<1>5. /\ r \in Renderings /\ r.number = c.rendering[j].number /\ r.buffer = c.rendering[j].buffer
      /\ r.size = c.rendering[j].size
  BY <1>4 DEF Renderings
<1> HIDE DEF r
<1>6. /\ all \in Seq(Renderings) /\ DOMAIN all = DOMAIN c.rendering /\ all[j] = r
      /\ \A k \in DOMAIN c.rendering \ {j} : all[k] = c.rendering[k]
  BY <1>4, <1>5
<1> HIDE DEF all
<1>7. \A k \in DOMAIN all : /\ all[k].number = c.rendering[k].number /\ all[k].buffer = c.rendering[k].buffer
                            /\ all[k].size = c.rendering[k].size
  BY <1>5, <1>6
<1>8. /\ DOMAIN d = CastFields /\ SameCast(c, d) /\ d.size = c.size /\ d.state = c.state
      /\ d.buffer = c.buffer /\ d.rendering = all /\ d.frame = c.frame /\ d.queued = c.queued
  BY <1>1 DEF CastOk, CastFields, SameCast
<1> HIDE DEF d
<1>9. CastOk(d)
  <2>1. Numbered(d)
    BY <1>1, <1>6, <1>7, <1>8 DEF CastOk, Numbered
  <2> QED
    BY <1>1, <1>8, <2>1 DEF CastOk, SameCast
<1>10. CastOk(QueueCompletedBuffers(d)) /\ SameCast(c, QueueCompletedBuffers(d))
  BY <1>8, <1>9, QueueCompletedBuffersFacts DEF SameCast
<1> QED
  BY <1>1, <1>2, <1>3, <1>10, OneCastStep

---------------------------------------------------------------------------
(* Steps that leave the casts alone. *)

\* Casts stay aimed when more is there.
LEMMA GoodThere ==
  ASSUME NEW w, NEW S, NEW there, NEW clear, Good(w, S, there, clear), NEW more, there \subseteq more
  PROVE  Good(w, S, more, clear)
BY DEF Good, Sound, Aimed

\* A step that leaves casts, sessions and messages alone preserves the invariant.
LEMMA StillStep ==
  ASSUME CastInv, UNCHANGED <<script, casts, pending, session, toNiri, clearing>>,
         fromPw' \in Seq(PwMessages), SceneOk', There \subseteq There', CopyInv'
  PROVE  CastInv' /\ NothingRecorded
<1> DEFINE v == [casts |-> casts', pending |-> pending', session |-> session', toNiri |-> toNiri',
                 fromPw |-> fromPw', pipewire |-> pipewire', redraws |-> redraws']
<1>1. /\ DOMAIN v = WorldFields /\ v.casts = casts' /\ v.pending = pending' /\ v.session = session'
      /\ v.toNiri = toNiri' /\ v.fromPw = fromPw' /\ v.pipewire = pipewire' /\ v.redraws = redraws'
  BY DEF WorldFields
<1> HIDE DEF v
<1>2. Good(World, {}, There, clearing)
  BY WorldGood
<1>3. IsFun(casts) /\ \A i \in DOMAIN casts : CastOk(casts[i]) /\ SameCast(casts[i], casts[i])
  BY CastFacts
<1>4. Good(v, {}, There, clearing)
  BY <1>1, <1>2, <1>3, WorldFacts, MapGood
<1>5. Good(v, {}, There', clearing')
  BY <1>4, GoodThere
<1>6. Casting(v)
  BY <1>1 DEF Casting
<1> QED
  BY <1>5, <1>6, HandlerStep

\* The loss of PipeWire preserves the invariant: its message is all that changes.
LEMMA PipeWireErrorStep ==
  ASSUME CastInv, PipeWireError, UNCHANGED copyVars
  PROVE  CastInv' /\ NothingRecorded
<1>1. fromPw' \in Seq(PwMessages)
  BY TellsFacts DEF PipeWireError
<1>2. UNCHANGED <<script, scene, casts, pending, session, toNiri, clearing>>
  BY DEF PipeWireError, CallbackLeaves
<1>3. SceneOk' /\ There' = There /\ CopyInv'
  BY <1>2, SceneStays DEF CastInv, CopyInv, copyVars
<1> QED
  BY <1>1, <1>2, <1>3, StillStep

\* queue_redraw preserves the invariant.
LEMMA QueueRedrawStep ==
  ASSUME CastInv, NEW o, QueueRedraw(o), UNCHANGED copyVars
  PROVE  CastInv' /\ NothingRecorded
<1>1. UNCHANGED <<script, scene, casts, pending, session, toNiri, fromPw, clearing>>
  BY DEF QueueRedraw
<1>2. SceneOk' /\ There' = There /\ CopyInv'
  BY <1>1, SceneStays DEF CastInv, CopyInv, copyVars
<1>3. fromPw \in Seq(PwMessages)
  BY CastFacts
<1> QED
  BY <1>1, <1>2, <1>3, StillStep

\* Outputs that are plugged in and windows that move preserve the invariant.
LEMMA MoveWindowsStep ==
  ASSUME CastInv, MoveWindows, UNCHANGED copyVars
  PROVE  CastInv' /\ NothingRecorded
<1>1. UNCHANGED <<script, casts, pending, session, toNiri, fromPw, clearing>>
  BY DEF MoveWindows
<1>2. PICK o \in Outputs :
        \/ scene' = [scene EXCEPT !.outputs = @ \cup {o},
                                  !.output = [w \in Windows |-> IF @[w] = Nothing THEN o ELSE @[w]]]
        \/ \E w \in scene.windows : scene' = [scene EXCEPT !.output[w] = o]
  BY DEF MoveWindows
<1>3. SceneOk /\ DOMAIN scene = {"windows", "outputs", "output", "cast_output", "size"}
  BY DEF CastInv, SceneOk
<1>4. /\ DOMAIN scene' = DOMAIN scene /\ scene'.windows = scene.windows /\ scene'.size = scene.size
      /\ scene'.outputs \in {scene.outputs, scene.outputs \cup {o}}
  <2>1. CASE scene' = [scene EXCEPT !.outputs = @ \cup {o},
                                    !.output = [w \in Windows |-> IF @[w] = Nothing THEN o ELSE @[w]]]
    BY <1>3, <2>1
  <2>2. ASSUME NEW w \in scene.windows, scene' = [scene EXCEPT !.output[w] = o]
        PROVE  /\ DOMAIN scene' = DOMAIN scene /\ scene'.windows = scene.windows /\ scene'.size = scene.size
               /\ scene'.outputs = scene.outputs
    BY <1>3, <2>2
  <2> QED
    BY <1>2, <2>1, <2>2
<1>5. SceneOk' /\ There \subseteq There'
  BY <1>1, <1>3, <1>4 DEF SceneOk, There
<1>6. CopyInv' /\ fromPw \in Seq(PwMessages)
  BY CastFacts DEF CastInv, CopyInv, copyVars
<1> QED
  BY <1>1, <1>5, <1>6, StillStep

\* A resize of what is cast preserves the invariant.
LEMMA ResizeTargetStep ==
  ASSUME CastInv, NEW t \in Targets, ResizeTarget(t), UNCHANGED copyVars
  PROVE  CastInv' /\ NothingRecorded
<1>1. UNCHANGED <<script, casts, pending, session, toNiri, fromPw, clearing>>
  BY DEF ResizeTarget
<1>2. PICK size \in Sizes : scene' = [scene EXCEPT !.size[t] = size]
  BY DEF ResizeTarget
<1>3. SceneOk
  BY DEF CastInv
<1>4. /\ DOMAIN scene' = DOMAIN scene /\ scene'.windows = scene.windows
      /\ scene'.outputs = scene.outputs /\ scene'.size = [scene.size EXCEPT ![t] = size]
  BY <1>2, <1>3 DEF SceneOk
<1>5. SceneOk' /\ There \subseteq There'
  BY <1>1, <1>3, <1>4 DEF SceneOk, There
<1>6. CopyInv' /\ fromPw \in Seq(PwMessages)
  BY CastFacts DEF CastInv, CopyInv, copyVars
<1> QED
  BY <1>1, <1>5, <1>6, StillStep

---------------------------------------------------------------------------
(* The D-Bus thread: one session changes, and what it sends is about it. *)

\* The D-Bus thread changes one session and appends its messages: the invariant is preserved
\* when that session is accounted for.
LEMMA DBusStep ==
  ASSUME CastInv, NEW s \in Sessions, NEW x, SessionOk(s, x), NEW t \in Seq(Messages),
         \A i \in DOMAIN t : \A y \in Streams : IsStart(t[i], y) => SessionOf[y] = s,
         x.phase = "Open" => \A y \in x.started :
           y \in session[s].started \/ \E i \in DOMAIN t : IsStart(t[i], y),
         x.phase = "Open" => session[s].phase = "Open",
         Ended(x) => (Ended(session[s]) /\ t = <<>>) \/ t = <<StopMsg(s)>>,
         session' = [session EXCEPT ![s] = x], toNiri' = toNiri \o t,
         UNCHANGED <<script, scene, casts, pending, fromPw, pipewire, redraws, clearing, managers, queues, frames>>
  PROVE  CastInv'
<1> DEFINE v == [casts |-> casts', pending |-> pending', session |-> session', toNiri |-> toNiri',
                 fromPw |-> fromPw', pipewire |-> pipewire', redraws |-> redraws']
           w == World
<1>1. /\ DOMAIN v = WorldFields /\ v.casts = casts' /\ v.pending = pending' /\ v.session = session'
      /\ v.toNiri = toNiri' /\ v.fromPw = fromPw' /\ v.pipewire = pipewire' /\ v.redraws = redraws'
  BY DEF WorldFields
<1>2. /\ Good(w, {}, There, clearing) /\ Typed(w) /\ \A r \in Sessions : Accounted(w, r)
  BY WorldGood DEF CastInv, WorldOk
<1>3. /\ w.casts = casts /\ w.pending = pending /\ w.session = session /\ w.toNiri = toNiri
      /\ w.fromPw = fromPw
  BY WorldFacts
<1> HIDE DEF v, w
<1>4. /\ session'[s] = x /\ (\A r \in Sessions \ {s} : session'[r] = session[r])
      /\ DOMAIN session' = Sessions /\ IsFun(session')
  BY <1>2, <1>3 DEF Typed, IsFun
<1>5. /\ toNiri \in Seq(Messages) /\ toNiri' \in Seq(Messages)
      /\ \A i \in DOMAIN toNiri : i \in DOMAIN toNiri' /\ toNiri'[i] = toNiri[i]
      /\ \A i \in DOMAIN t : Len(toNiri) + i \in DOMAIN toNiri' /\ toNiri'[Len(toNiri) + i] = t[i]
      /\ \A i \in DOMAIN toNiri' : i \in DOMAIN toNiri \/ \E j \in DOMAIN t : toNiri'[i] = t[j]
      /\ Len(toNiri) \in Nat /\ \A i \in DOMAIN toNiri : i \in Nat /\ i <= Len(toNiri)
  <2>1. toNiri \in Seq(Messages)
    BY <1>2, <1>3 DEF Typed
  <2> QED
    BY <2>1, ConcatFacts
<1>6. Typed(v)
  <2>1. \A r \in Sessions : SessionOk(r, session'[r])
    BY <1>2, <1>3, <1>4 DEF Typed
  <2> QED
    BY <1>1, <1>2, <1>3, <1>4, <1>5, <2>1 DEF Typed
<1>7. \A y : Known(w, y) => Known(v, y)
  BY <1>1, <1>3, <1>5 DEF Known
<1>8. \A r \in Sessions : StopComing(w, r) => StopComing(v, r)
  BY <1>1, <1>3, <1>5 DEF StopComing
<1>9. \A r \in Sessions : CastOf(v, r) => CastOf(w, r)
  BY <1>1, <1>3 DEF CastOf
<1>10. ASSUME NEW r \in Sessions \ {s} PROVE Accounted(v, r)
  <2>1. ASSUME StartsStopped(w, r) PROVE StartsStopped(v, r)
    <3>1. \A i \in DOMAIN toNiri' : \A y \in StreamsOf(r) : IsStart(toNiri'[i], y) => i \in DOMAIN toNiri
      BY <1>5 DEF StreamsOf
    <3> QED
      BY <1>1, <1>3, <1>5, <2>1, <3>1 DEF StartsStopped
  <2>2. v.session[r] = w.session[r] /\ Accounted(w, r)
    BY <1>1, <1>2, <1>3, <1>4
  <2> QED
    BY <1>7, <1>8, <1>9, <2>1, <2>2 DEF Accounted
<1>11. Accounted(v, s)
  <2>1. v.session[s] = x /\ w.session[s] = session[s]
    BY <1>1, <1>3, <1>4
  <2>2. x.phase = "Open" => \A y \in x.started : Known(v, y)
    <3> SUFFICES ASSUME x.phase = "Open", NEW y \in x.started PROVE Known(v, y)
      OBVIOUS
    <3>1. CASE y \in session[s].started
      BY <1>2, <1>7, <2>1, <3>1 DEF Accounted
    <3>2. CASE \E i \in DOMAIN t : IsStart(t[i], y)
      <4>1. PICK i \in DOMAIN t : IsStart(t[i], y)
        BY <3>2
      <4>2. Len(toNiri) + i \in DOMAIN toNiri' /\ IsStart(toNiri'[Len(toNiri) + i], y)
        BY <1>5, <4>1
      <4> QED
        BY <1>1, <4>2 DEF Known
    <3> QED
      BY <3>1, <3>2
  <2>3. CASE Ended(x) /\ Ended(session[s]) /\ t = <<>>
    <3>1. toNiri' = toNiri
      BY <1>5, <2>3
    <3> QED
      BY <1>1, <1>2, <1>3, <1>8, <1>9, <2>1, <2>2, <2>3, <3>1 DEF Accounted, StartsStopped
  <2>4. CASE Ended(x) /\ t = <<StopMsg(s)>>
    <3>1. 1 \in DOMAIN t /\ t[1] = StopMsg(s) /\ \A j \in DOMAIN t : t[j] = StopMsg(s)
      BY <2>4
    <3>2. /\ Len(toNiri) + 1 \in DOMAIN toNiri' /\ toNiri'[Len(toNiri) + 1] = StopMsg(s)
      BY <1>5, <3>1
    <3>3. \A i \in DOMAIN toNiri' : \A y \in StreamsOf(s) : IsStart(toNiri'[i], y) => i < Len(toNiri) + 1
      BY <1>5, <3>1, MessageKinds DEF IsStart
    <3>4. StopComing(v, s) /\ StartsStopped(v, s)
      BY <1>1, <3>2, <3>3 DEF StopComing, StartsStopped
    <3> QED
      BY <2>1, <2>2, <2>4, <3>4 DEF Accounted
  <2> QED
    BY <2>1, <2>2, <2>3, <2>4 DEF Accounted
<1>12. Sound(v, {}, There, clearing)
  BY <1>1, <1>2, <1>3, <1>6, <1>10, <1>11 DEF Good, Sound, OkBut, Aimed, Agreed
<1>13. SceneOk' /\ There' = There /\ CopyInv'
  BY SceneStays DEF CastInv, CopyInv
<1>14. Casting(v)
  BY <1>1 DEF Casting
<1> QED
  BY <1>12, <1>13, <1>14, SoundStep

\* The sessions are as they should be.
LEMMA SessionFacts ==
  ASSUME CastInv, NEW s \in Sessions
  PROVE  /\ SessionOk(s, session[s]) /\ toNiri \in Seq(Messages) /\ pending \in Seq(Streams)
         /\ DOMAIN session = Sessions
BY WorldFacts DEF CastInv, WorldOk, Typed

\* RecordMonitor and RecordWindow preserve the invariant.
LEMMA RecordStep ==
  ASSUME CastInv, NEW stream \in Streams, NEW target \in Targets \cup {Portal}, Record(stream, target),
         UNCHANGED copyVars
  PROVE  CastInv'
<1> DEFINE s == SessionOf[stream]
           y == session[s].streams
           more == [z \in DOMAIN y \cup {stream} |-> IF z = stream THEN target ELSE y[z]]
           x == [session[s] EXCEPT !.streams = more]
<1>1. s \in Sessions
  BY CastAssumption
<1>2. SessionOk(s, session[s]) /\ toNiri \in Seq(Messages) /\ DOMAIN session = Sessions
  BY <1>1, SessionFacts
<1>3. session[s].phase = "Open" /\ session' = [session EXCEPT ![s] = x]
  BY DEF Record
<1>4. UNCHANGED <<script, scene, casts, pending, toNiri, fromPw, pipewire, redraws, clearing, managers, queues, frames>>
  BY DEF Record, copyVars
<1>5. stream \in StreamsOf(s)
  BY DEF StreamsOf
<1>6. /\ DOMAIN more = DOMAIN y \cup {stream}
      /\ \A z \in DOMAIN more : more[z] \in Targets \cup {Portal}
  BY <1>2 DEF SessionOk
<1> HIDE DEF more
<1>7. /\ DOMAIN x = {"phase", "streams", "started", "late"} /\ x.streams = more
      /\ x.started = session[s].started /\ x.phase = session[s].phase /\ x.late = session[s].late
  BY <1>2 DEF SessionOk
<1> HIDE DEF x
<1>8. SessionOk(s, x)
  BY <1>2, <1>5, <1>6, <1>7 DEF SessionOk
<1>9. toNiri' = toNiri \o <<>> /\ <<>> \in Seq(Messages) /\ DOMAIN <<>> = {}
  BY <1>2, <1>4
<1>10. ~Ended(x)
  BY <1>3, <1>7 DEF Ended
<1> HIDE DEF s
<1> QED
  BY <1>1, <1>3, <1>4, <1>7, <1>8, <1>9, <1>10, DBusStep

\* Session::start preserves the invariant: all that was started has its message.
LEMMA SessionStartStep ==
  ASSUME CastInv, NEW s \in Sessions, SessionStart(s), UNCHANGED copyVars
  PROVE  CastInv'
<1> DEFINE D == DOMAIN session[s].streams
           C == Cardinality(D)
           t == [i \in 1 .. C |-> StartMsg(SetToSeq(D)[i], session[s].streams[SetToSeq(D)[i]])]
           x == [session[s] EXCEPT !.started = @ \cup D, !.late = @ \/ session[s].phase = "Told"]
<1>1. SessionOk(s, session[s]) /\ toNiri \in Seq(Messages) /\ DOMAIN session = Sessions
  BY SessionFacts
<1>2. /\ session[s].phase # "Gone" /\ session' = [session EXCEPT ![s] = x] /\ toNiri' = toNiri \o t
  BY DEF SessionStart
<1>3. UNCHANGED <<script, scene, casts, pending, fromPw, pipewire, redraws, clearing, managers, queues, frames>>
  BY DEF SessionStart, copyVars
<1>4. D \subseteq StreamsOf(s) /\ IsFiniteSet(D)
  <2>1. D \in SUBSET Streams /\ D \subseteq StreamsOf(s)
    BY <1>1 DEF SessionOk, StreamsOf
  <2> QED
    BY <2>1, FS_Subset, CastAssumption
<1>5. /\ C \in Nat /\ SetToSeq(D) \in [1 .. C -> D]
      /\ \A y \in D : \E i \in 1 .. C : SetToSeq(D)[i] = y
  BY <1>4, SetToSeqFacts
<1>6. \A y \in D : /\ StartMsg(y, session[s].streams[y]) \in Messages
                   /\ \A z : IsStart(StartMsg(y, session[s].streams[y]), z) <=> z = y
  BY <1>1, <1>4 DEF StartMsg, Messages, StartMsgs, SessionOk, IsStart, StreamsOf
<1> HIDE DEF C, D
<1>7. t \in Seq(Messages) /\ DOMAIN t = 1 .. C
  <2>1. \A i \in 1 .. C : StartMsg(SetToSeq(D)[i], session[s].streams[SetToSeq(D)[i]]) \in Messages
    BY <1>5, <1>6
  <2> QED
    BY <1>5, <2>1
<1>8. \A i \in 1 .. C : \A z : IsStart(t[i], z) <=> z = SetToSeq(D)[i]
  BY <1>5, <1>6
<1> HIDE DEF t
<1>9. \A i \in DOMAIN t : \A z \in Streams : IsStart(t[i], z) => SessionOf[z] = s
  BY <1>4, <1>5, <1>7, <1>8 DEF StreamsOf
<1>10. \A y \in D : \E i \in DOMAIN t : IsStart(t[i], y)
  BY <1>5, <1>7, <1>8
<1>11. /\ DOMAIN x = {"phase", "streams", "started", "late"} /\ x.streams = session[s].streams
       /\ x.started = session[s].started \cup D /\ x.phase = session[s].phase
       /\ x.late = (session[s].late \/ session[s].phase = "Told")
  BY <1>1 DEF SessionOk
<1> HIDE DEF x
<1>12. SessionOk(s, x)
  BY <1>1, <1>4, <1>11 DEF SessionOk
<1>13. \A y \in x.started : y \in session[s].started \/ \E i \in DOMAIN t : IsStart(t[i], y)
  BY <1>10, <1>11
<1>14. ~Ended(x)
  BY <1>2, <1>11 DEF Ended
<1> QED
  BY <1>2, <1>3, <1>7, <1>9, <1>11, <1>12, <1>13, <1>14, DBusStep

\* Each step of Session::stop preserves the invariant: the message that ends a session comes
\* after all its starts, but for late ones.
LEMMA SessionStopStep ==
  ASSUME CastInv, NEW s \in Sessions, SessionStop(s), UNCHANGED copyVars
  PROVE  CastInv'
<1>1. SessionOk(s, session[s]) /\ toNiri \in Seq(Messages) /\ DOMAIN session = Sessions
  BY SessionFacts
<1>2. UNCHANGED <<script, scene, casts, pending, fromPw, pipewire, redraws, clearing, managers, queues, frames>>
  BY DEF SessionStop, copyVars
<1>3. /\ StopMsg(s) \in Messages /\ <<StopMsg(s)>> \in Seq(Messages) /\ <<>> \in Seq(Messages)
      /\ \A z : ~IsStart(StopMsg(s), z)
  <2>1. StopMsg(s) \in Messages
    BY DEF StopMsg, Messages, StopMsgs
  <2> QED
    BY <2>1, MessageKinds DEF IsStart
<1>4. /\ \A z : \A i \in DOMAIN <<StopMsg(s)>> : ~IsStart(<<StopMsg(s)>>[i], z)
      /\ DOMAIN <<>> = {}
  BY <1>3
<1>5. CASE /\ session' = [session EXCEPT ![s].phase = "Stopped"] /\ UNCHANGED toNiri
  <2> DEFINE x == [session[s] EXCEPT !.phase = "Stopped"]
  <2>1. session' = [session EXCEPT ![s] = x] /\ toNiri' = toNiri \o <<>>
    BY <1>1, <1>5
  <2>2. SessionOk(s, x) /\ x.phase = "Stopped" /\ ~Ended(x)
    BY <1>1 DEF SessionOk, Ended
  <2> HIDE DEF x
  <2> QED
    BY <1>2, <1>3, <1>4, <2>1, <2>2, DBusStep
<1>6. CASE /\ session' = [session EXCEPT ![s].phase = "Told"] /\ toNiri' = Append(toNiri, StopMsg(s))
  <2> DEFINE x == [session[s] EXCEPT !.phase = "Told"]
  <2>1. session' = [session EXCEPT ![s] = x] /\ toNiri' = toNiri \o <<StopMsg(s)>>
    BY <1>1, <1>3, <1>6
  <2>2. SessionOk(s, x) /\ x.phase = "Told"
    BY <1>1 DEF SessionOk
  <2> HIDE DEF x
  <2> QED
    BY <1>2, <1>3, <1>4, <2>1, <2>2, DBusStep
<1>7. CASE /\ session[s].phase = "Told" /\ session' = [session EXCEPT ![s] = ClosedSession(@)] /\ UNCHANGED toNiri
  <2> DEFINE x == [session[s] EXCEPT !.phase = "Gone", !.streams = <<>>]
  <2>1. session' = [session EXCEPT ![s] = x] /\ toNiri' = toNiri \o <<>>
    BY <1>1, <1>7 DEF ClosedSession
  <2>2. /\ DOMAIN x = {"phase", "streams", "started", "late"} /\ x.phase = "Gone" /\ x.streams = <<>>
        /\ x.started = session[s].started /\ x.late = session[s].late
    BY <1>1 DEF SessionOk
  <2> HIDE DEF x
  <2>3. SessionOk(s, x)
    BY <1>1, <1>4, <2>2 DEF SessionOk
  <2>4. Ended(x) => Ended(session[s])
    BY <1>7, <2>2 DEF Ended
  <2> QED
    BY <1>2, <1>3, <1>4, <2>1, <2>2, <2>3, <2>4, DBusStep
<1> QED
  BY <1>5, <1>6, <1>7 DEF SessionStop

\* Session::start and Session::stop speak of what was recorded.
LEMMA DBusSays ==
  ASSUME CastInv, NEW s \in Sessions, SessionStart(s) \/ SessionStop(s), UNCHANGED copyVars
  PROVE  NothingRecorded
<1> DEFINE w == World
           u == World'
           D == DOMAIN session[s].streams
<1>1. /\ w.casts = casts /\ w.pending = pending /\ w.session = session /\ w.toNiri = toNiri
      /\ u.casts = casts' /\ u.pending = pending' /\ u.session = session' /\ u.toNiri = toNiri'
  BY DEF World
<1>2. casts' = casts /\ pending' = pending
  BY DEF SessionStart, SessionStop
<1>3. SessionOk(s, session[s]) /\ toNiri \in Seq(Messages) /\ DOMAIN session = Sessions
  BY SessionFacts
<1>4. \A r \in Sessions : session'[r].phase # "Gone" =>
        session[r].phase # "Gone" /\ session'[r].streams = session[r].streams
  <2>1. PICK x : /\ session' = [session EXCEPT ![s] = x]
                 /\ x.phase # "Gone" => session[s].phase # "Gone" /\ x.streams = session[s].streams
    <3>1. CASE /\ session' = [session EXCEPT ![s].started = @ \cup D, ![s].late = @ \/ session[s].phase = "Told"]
               /\ session[s].phase # "Gone"
      <4> DEFINE x == [session[s] EXCEPT !.started = @ \cup D, !.late = @ \/ session[s].phase = "Told"]
      <4>1. x.streams = session[s].streams /\ session' = [session EXCEPT ![s] = x]
        BY <1>3, <3>1 DEF SessionOk
      <4> HIDE DEF x, D
      <4> QED
        BY <3>1, <4>1
    <3>2. ASSUME NEW p \in {"Stopped", "Told"}, session' = [session EXCEPT ![s].phase = p], session[s].phase # "Gone"
          PROVE  \E x : /\ session' = [session EXCEPT ![s] = x]
                        /\ x.phase # "Gone" => session[s].phase # "Gone" /\ x.streams = session[s].streams
      <4> DEFINE x == [session[s] EXCEPT !.phase = p]
      <4>1. x.streams = session[s].streams /\ session' = [session EXCEPT ![s] = x]
        BY <1>3, <3>2 DEF SessionOk
      <4> HIDE DEF x
      <4> QED
        BY <3>2, <4>1
    <3>3. CASE session' = [session EXCEPT ![s] = ClosedSession(@)]
      <4> DEFINE x == ClosedSession(session[s])
      <4>1. x.phase = "Gone" /\ session' = [session EXCEPT ![s] = x]
        BY <1>3, <3>3 DEF SessionOk, ClosedSession
      <4> HIDE DEF x
      <4> QED
        BY <4>1
    <3> QED
      BY <3>1, <3>2, <3>3 DEF SessionStart, SessionStop
  <2> QED
    BY <1>3, <2>1
<1>5. ASSUME NEW m \in ToSet(toNiri'), NEW x \in Streams, IsStart(m, x), m \notin ToSet(toNiri)
      PROVE  Says(w, x, m.target = Portal)
  <2>1. CASE SessionStop(s)
    <3>1. toNiri' = toNiri \/ toNiri' = Append(toNiri, StopMsg(s))
      BY <2>1 DEF SessionStop
    <3>2. StopMsg(s) \in Messages
      BY DEF StopMsg, StopMsgs, Messages
    <3>3. m = StopMsg(s)
      BY <1>3, <1>5, <3>1, <3>2 DEF ToSet
    <3> QED
      BY <1>5, <3>3 DEF IsStart, StopMsg
  <2>2. CASE SessionStart(s)
    <3> DEFINE C == Cardinality(D)
               t == [i \in 1 .. C |-> StartMsg(SetToSeq(D)[i], session[s].streams[SetToSeq(D)[i]])]
    <3>1. session[s].phase # "Gone" /\ toNiri' = toNiri \o t
      BY <2>2 DEF SessionStart
    <3>2. D \subseteq StreamsOf(s) /\ IsFiniteSet(D)
      <4>1. D \in SUBSET Streams /\ D \subseteq StreamsOf(s)
        BY <1>3 DEF SessionOk, StreamsOf
      <4> QED
        BY <4>1, FS_Subset, CastAssumption
    <3>3. C \in Nat /\ SetToSeq(D) \in [1 .. C -> D]
      BY <3>2, SetToSeqFacts
    <3>4. \A y \in D : StartMsg(y, session[s].streams[y]) \in Messages
      BY <1>3, <3>2 DEF StartMsg, Messages, StartMsgs, SessionOk, StreamsOf
    <3> HIDE DEF C, D
    <3>5. t \in Seq(Messages) /\ DOMAIN t = 1 .. C
      <4>1. \A i \in 1 .. C : StartMsg(SetToSeq(D)[i], session[s].streams[SetToSeq(D)[i]]) \in Messages
        BY <3>3, <3>4
      <4> QED
        BY <3>3, <4>1
    <3>6. \A i \in 1 .. C : SetToSeq(D)[i] \in D /\ t[i] = StartMsg(SetToSeq(D)[i], session[s].streams[SetToSeq(D)[i]])
      BY <3>3
    <3> HIDE DEF t
    <3>7. ToSet(toNiri') = ToSet(toNiri) \cup ToSet(t)
      BY <1>3, <3>1, <3>5, ConcatFacts
    <3>8. PICK i \in 1 .. C : m = t[i]
      BY <1>5, <3>5, <3>7 DEF ToSet
    <3>9. x \in D /\ m.target = session[s].streams[x]
      <4>1. PICK y \in D : m = StartMsg(y, session[s].streams[y])
        BY <3>6, <3>8
      <4>2. m.stream = y /\ m.target = session[s].streams[y]
        BY <4>1 DEF StartMsg
      <4> QED
        BY <1>5, <4>2 DEF IsStart
    <3>10. SessionOf[x] = s
      BY <3>2, <3>9 DEF StreamsOf
    <3> HIDE DEF w
    <3> QED
      BY <1>1, <3>1, <3>9, <3>10 DEF Says, D
  <2> QED
    BY <2>1, <2>2
<1> HIDE DEF w, u
<1>6. ASSUME NEW x \in Streams, NEW b, Says(u, x, b) PROVE Says(w, x, b)
  <2>1. CASE \E m \in ToSet(u.toNiri) : IsStart(m, x) /\ b = (m.target = Portal)
    <3>1. PICK m \in ToSet(toNiri') : IsStart(m, x) /\ b = (m.target = Portal)
      BY <1>1, <2>1
    <3>2. CASE m \in ToSet(toNiri)
      BY <1>1, <3>1, <3>2 DEF Says
    <3>3. CASE m \notin ToSet(toNiri)
      <4>1. Says(w, x, m.target = Portal)
        BY <1>5, <3>1, <3>3
      <4> QED
        BY <3>1, <4>1
    <3> QED
      BY <3>2, <3>3
  <2>2. CASE LET r == u.session[SessionOf[x]] IN
             r.phase # "Gone" /\ x \in DOMAIN r.streams /\ b = (r.streams[x] = Portal)
    <3>1. SessionOf[x] \in Sessions
      BY CastAssumption
    <3> QED
      BY <1>1, <1>4, <2>2, <3>1 DEF Says
  <2> QED
    BY <1>1, <1>2, <1>6, <2>1, <2>2 DEF Says
<1>7. SaysLess(w, u)
  BY <1>1, <1>4, <1>6 DEF SaysLess
<1> QED
  BY <1>7 DEF NothingRecorded, w, u

---------------------------------------------------------------------------
(* Streams are started. *)

Held(w, x) == (\E c \in ToSet(w.casts) : c.stream = x) \/ x \in ToSet(w.pending)

\* Streams may change between waiting and being cast.
LEMMA StreamsKept ==
  ASSUME NEW w, NEW R, OkBut(w, R), NEW v, Typed(v), v.session = w.session, v.toNiri = w.toNiri,
         NEW S \in SUBSET Sessions, R \subseteq S,
         \A x \in Streams : SessionOf[x] \notin S => (Held(v, x) <=> Held(w, x))
  PROVE  OkBut(v, S)
<1>1. ASSUME NEW s \in Sessions \ S PROVE Accounted(v, s)
  <2>1. Accounted(w, s) /\ SessionOk(s, w.session[s])
    BY DEF OkBut, Typed
  <2>2. \A x \in StreamsOf(s) : x \in Streams /\ SessionOf[x] \notin S
    BY DEF StreamsOf
  <2>3. \A x \in StreamsOf(s) : Known(w, x) => Known(v, x)
    BY <2>2 DEF Known, Held
  <2>4. CastOf(v, s) => CastOf(w, s)
    BY <2>2 DEF CastOf, Held
  <2> QED
    BY <2>1, <2>3, <2>4 DEF Accounted, SessionOk, StopComing, StartsStopped
<1>2. \A s \in S : Ended(w.session[s]) => StartsStopped(w, s)
  BY DEF OkBut, Accounted
<1>3. \A s \in S : Ended(v.session[s]) => StartsStopped(v, s)
  BY <1>2 DEF StartsStopped
<1> QED
  BY <1>1, <1>3 DEF OkBut

\* The message that is handled: only its session may have lost count.
LEMMA PopMessage ==
  ASSUME CastInv, toNiri # <<>>, NEW w, w = [World EXCEPT !.toNiri = Tail(@)],
         NEW s \in Sessions,
         \A r \in Sessions \ {s} : /\ Head(toNiri) # StopMsg(r)
                                   /\ \A x \in StreamsOf(r) : ~IsStart(Head(toNiri), x)
  PROVE  /\ Good(w, {s}, There, clearing)
         /\ w.casts = casts /\ w.pending = pending /\ w.session = session /\ w.toNiri = Tail(toNiri)
         /\ w.fromPw = fromPw /\ DOMAIN w = WorldFields
         /\ \A x \in Streams : Known(World, x) => Known(w, x) \/ IsStart(Head(toNiri), x)
         /\ \A x \in StreamsOf(s) : IsStart(Head(toNiri), x) /\ Ended(session[s]) => StopComing(w, s)
<1> DEFINE u == World
<1>1. /\ Good(u, {}, There, clearing) /\ Typed(u) /\ (\A r \in Sessions : Accounted(u, r))
      /\ u.toNiri = toNiri /\ u.casts = casts /\ u.pending = pending /\ u.session = session
      /\ u.fromPw = fromPw /\ toNiri \in Seq(Messages)
  BY WorldGood, WorldFacts DEF CastInv, WorldOk, Typed
<1>2. w = [u EXCEPT !.toNiri = Tail(toNiri)]
  BY <1>1
<1> HIDE DEF u
<1>3. /\ w.casts = casts /\ w.pending = pending /\ w.session = session /\ w.toNiri = Tail(toNiri)
      /\ w.fromPw = fromPw /\ DOMAIN w = WorldFields
  BY <1>1, <1>2 DEF Typed, WorldFields
<1>4. /\ Tail(toNiri) \in Seq(Messages) /\ 1 \in DOMAIN toNiri /\ Head(toNiri) = toNiri[1]
      /\ \A i \in DOMAIN Tail(toNiri) : i + 1 \in DOMAIN toNiri /\ Tail(toNiri)[i] = toNiri[i + 1]
      /\ \A i \in DOMAIN toNiri : i # 1 => i - 1 \in DOMAIN Tail(toNiri) /\ Tail(toNiri)[i - 1] = toNiri[i]
      /\ DOMAIN toNiri \subseteq Nat \ {0} /\ DOMAIN Tail(toNiri) \subseteq Nat \ {0}
  BY <1>1, TailFacts
<1>4a. \A i \in DOMAIN toNiri : \/ toNiri[i] = Head(toNiri)
                                \/ \E j \in DOMAIN Tail(toNiri) : Tail(toNiri)[j] = toNiri[i]
  BY <1>4
<1>5. Typed(w)
  BY <1>1, <1>3, <1>4 DEF Typed
<1>6. ASSUME NEW r \in Sessions, StartsStopped(u, r) PROVE StartsStopped(w, r)
  <2> SUFFICES ASSUME NEW i \in DOMAIN Tail(toNiri), NEW x \in StreamsOf(r), IsStart(Tail(toNiri)[i], x)
               PROVE  \E j \in DOMAIN Tail(toNiri) : i < j /\ Tail(toNiri)[j] = StopMsg(r)
    BY <1>3 DEF StartsStopped
  <2>1. i + 1 \in DOMAIN toNiri /\ IsStart(toNiri[i + 1], x) /\ i \in Nat
    BY <1>4
  <2>2. PICK j \in DOMAIN toNiri : i + 1 < j /\ toNiri[j] = StopMsg(r)
    BY <1>1, <1>6, <2>1 DEF StartsStopped
  <2>3. j \in Nat /\ j # 1 /\ i < j - 1
    BY <1>4, <2>1, <2>2
  <2> QED
    BY <1>4, <2>2, <2>3
<1>7. \A x \in Streams : Known(u, x) => Known(w, x) \/ IsStart(Head(toNiri), x)
  BY <1>1, <1>3, <1>4a DEF Known
<1>8. ASSUME NEW r \in Sessions \ {s} PROVE Accounted(w, r)
  <2>1. StopComing(u, r) => StopComing(w, r)
    BY <1>1, <1>3, <1>4a DEF StopComing
  <2>2. \A x \in StreamsOf(r) : Known(u, x) => Known(w, x)
    BY <1>7 DEF StreamsOf
  <2>3. CastOf(w, r) => CastOf(u, r)
    BY <1>1, <1>3 DEF CastOf
  <2>4. Accounted(u, r) /\ SessionOk(r, u.session[r])
    BY <1>1 DEF Typed
  <2> QED
    BY <1>1, <1>3, <1>6, <2>1, <2>2, <2>3, <2>4 DEF Accounted, SessionOk
<1>9. OkBut(w, {s})
  BY <1>1, <1>3, <1>5, <1>6, <1>8 DEF OkBut, Accounted
<1>10. Good(w, {s}, There, clearing)
  <2>1. ToSet(w.toNiri) \subseteq ToSet(u.toNiri)
    BY <1>1, <1>3, <1>4 DEF ToSet
  <2>2. SaysLess(u, w)
    BY <1>1, <1>3, <2>1, MapSays
  <2>3. SaysLess(World, w)
    BY <1>1, <2>2, SaysLessFacts DEF Good
  <2> QED
    BY <1>1, <1>3, <1>9, <2>3 DEF Good, Sound, Aimed, Agreed
<1>11. ASSUME NEW x \in StreamsOf(s), IsStart(Head(toNiri), x), Ended(session[s])
       PROVE  StopComing(w, s)
  <2>1. StartsStopped(u, s)
    BY <1>1, <1>11 DEF Accounted
  <2>2. PICK j \in DOMAIN toNiri : 1 < j /\ toNiri[j] = StopMsg(s)
    BY <1>1, <1>4, <1>11, <2>1 DEF StartsStopped
  <2>3. j # 1
    BY <2>2
  <2> QED
    BY <1>3, <1>4, <2>2, <2>3 DEF StopComing
<1> QED
  BY <1>3, <1>7, <1>10, <1>11 DEF u

\* A target with parameters is there, and gives casts that are in order.
CastFor(x, t, dynamic) == [NewCast(x, t, Params(t)) EXCEPT !.dynamic = dynamic]

\* PipeWire::start_cast gives a cast that is in order and shows what is there.
LEMMA NewCastFacts ==
  ASSUME SceneOk, NEW x \in Streams, NEW t, HasParams(t), NEW dynamic, NEW c, c = CastFor(x, t, dynamic)
  PROVE  CastOk(c) /\ c.stream = x /\ c.target = t /\ c.dynamic = dynamic /\ t \in There
<1> DEFINE n == NewCast(x, t, Params(t))
<1>1. t \in There /\ t \in Targets
  BY DEF HasParams, SceneOk, There, Targets
<1>2. Params(t).size \in Sizes
  BY <1>1 DEF Params, SceneOk
<1>3. /\ DOMAIN n = CastFields /\ n.stream = x /\ n.target = t /\ n.size = Params(t).size
      /\ n.buffer = Params(t).size /\ n.rendering = <<>> /\ n.frame = 0 /\ n.queued = 0
  BY DEF NewCast, CastFields
<1> HIDE DEF n
<1>4. /\ DOMAIN c = CastFields /\ c.stream = x /\ c.target = t /\ c.size = Params(t).size
      /\ c.buffer = Params(t).size /\ c.rendering = <<>> /\ c.frame = 0 /\ c.queued = 0
      /\ c.dynamic = dynamic
  BY <1>3 DEF CastFields, n, CastFor
<1>5. <<>> \in Seq(Renderings) /\ DOMAIN <<>> = {}
  OBVIOUS
<1>6. Numbered(c)
  <2>1. DOMAIN c.rendering = {} /\ c.rendering \in Seq(Renderings)
    BY <1>4, <1>5
  <2>2. 0 \in Nat /\ 0 <= 0
    OBVIOUS
  <2> QED
    BY <1>4, <2>1, <2>2 DEF Numbered
<1> QED
  BY <1>1, <1>2, <1>4, <1>6 DEF CastOk

NewCasts(streams, t, dynamic) == [i \in DOMAIN streams |-> CastFor(streams[i], t, dynamic)]

\* The world with casts of some streams more, perhaps without some that wait.
AddsCasts(w, v, streams, t, dynamic) ==
  /\ DOMAIN v = WorldFields /\ v.casts = w.casts \o NewCasts(streams, t, dynamic)
  /\ v.pending \in Seq(Streams) /\ v.session = w.session /\ v.toNiri = w.toNiri /\ v.fromPw = w.fromPw

HasMore(w, v, streams, t, dynamic) ==
  /\ \A c \in ToSet(v.casts) : \/ c \in ToSet(w.casts)
                               \/ c.stream \in ToSet(streams) /\ c.target = t /\ c.dynamic = dynamic
  /\ ToSet(w.casts) \subseteq ToSet(v.casts)
  /\ \A x \in ToSet(streams) : \E c \in ToSet(v.casts) : c.stream = x

\* The casts that are started join those that run.
LEMMA MoreCasts ==
  ASSUME SceneOk, NEW w, Typed(w), NEW streams \in Seq(Streams), NEW t, HasParams(t), NEW dynamic,
         NEW v, AddsCasts(w, v, streams, t, dynamic)
  PROVE  Typed(v) /\ HasMore(w, v, streams, t, dynamic) /\ t \in There
<1> DEFINE new == [i \in DOMAIN streams |-> CastFor(streams[i], t, dynamic)]
           T == ToSet(w.casts) \cup ToSet(new)
<1>1. Len(streams) \in Nat /\ DOMAIN streams = 1 .. Len(streams) /\ \A i \in DOMAIN streams : streams[i] \in Streams
  OBVIOUS
<1>2. /\ DOMAIN new = DOMAIN streams
      /\ \A i \in DOMAIN streams : new[i] = CastFor(streams[i], t, dynamic)
      /\ new = [i \in 1 .. Len(streams) |-> new[i]]
  BY <1>1
<1>3. v.casts = w.casts \o new
  BY DEF NewCasts, AddsCasts
<1> HIDE DEF new
<1>4. \A i \in DOMAIN new : /\ CastOk(new[i]) /\ new[i].stream = streams[i] /\ new[i].target = t
                            /\ new[i].dynamic = dynamic
  BY <1>1, <1>2, NewCastFacts
<1>5. \A i \in 1 .. Len(streams) : new[i] \in T
  BY <1>1, <1>2 DEF ToSet
<1>6. new \in Seq(T) /\ w.casts \in Seq(T)
  <2>1. w.casts \in Seq(ToSet(w.casts))
    BY DEF Typed
  <2>2. new \in Seq(T)
    <3>1. Len(streams) \in Nat /\ new = [i \in 1 .. Len(streams) |-> new[i]]
      BY <1>1, <1>2
    <3> HIDE DEF T
    <3> QED
      BY <1>5, <3>1
  <2> QED
    BY <2>1, <2>2
<1>7. v.casts \in Seq(T) /\ ToSet(v.casts) = T
  <2>1. w.casts \o new \in Seq(T) /\ ToSet(w.casts \o new) = ToSet(w.casts) \cup ToSet(new)
    BY <1>6, ConcatFacts
  <2> QED
    BY <1>3, <2>1
<1>8. \A c \in ToSet(new) : /\ CastOk(c) /\ c.stream \in ToSet(streams) /\ c.target = t
                            /\ c.dynamic = dynamic
  BY <1>2, <1>4 DEF ToSet
<1>9. \A x \in ToSet(streams) : \E c \in ToSet(new) : c.stream = x
  <2> SUFFICES ASSUME NEW i \in DOMAIN streams PROVE \E c \in ToSet(new) : c.stream = streams[i]
    BY DEF ToSet
  <2>1. new[i] \in ToSet(new) /\ new[i].stream = streams[i]
    BY <1>2, <1>4 DEF ToSet
  <2> QED
    BY <2>1
<1>10. Typed(v)
  BY <1>7, <1>8 DEF Typed, AddsCasts
<1>11. t \in There
  BY DEF HasParams, There
<1> QED
  BY <1>7, <1>8, <1>9, <1>10, <1>11 DEF HasMore

\* ScreenCastToNiri::StopCast preserves the invariant.
LEMMA StopCastMsgStep ==
  ASSUME CastInv, toNiri # <<>>, Head(toNiri).kind = "StopCast", UNCHANGED <<script, clearing, scene, copyVars>>,
         Casting(StopCast([World EXCEPT !.toNiri = Tail(@)], Head(toNiri).session))
  PROVE  CastInv' /\ NothingRecorded
<1> DEFINE w == [World EXCEPT !.toNiri = Tail(@)]
           s == Head(toNiri).session
<1>1. Head(toNiri) \in Messages
  BY TailFacts, WorldFacts DEF CastInv, WorldOk, Typed
<1>2. s \in Sessions /\ Head(toNiri) \in StopMsgs
  BY <1>1 DEF Messages, StartMsgs, StopMsgs
<1>3. \A r \in Sessions \ {s} : /\ Head(toNiri) # StopMsg(r)
                                /\ \A x \in StreamsOf(r) : ~IsStart(Head(toNiri), x)
  BY <1>2 DEF StopMsg, IsStart
<1> HIDE DEF w, s
<1>4. Good(w, {s}, There, clearing)
  BY <1>2, <1>3, PopMessage DEF w
<1>5. Good(StopCasts(w, {s}), {}, There, clearing)
  BY <1>2, <1>4, StopGood
<1>6. Casting(StopCasts(w, {s}))
  BY DEF StopCast, w, s
<1>7. SceneOk' /\ There' = There /\ CopyInv'
  BY SceneStays DEF CastInv, CopyInv, copyVars
<1> QED
  BY <1>5, <1>6, <1>7, HandlerStep

\* ScreenCastToNiri::StartCast preserves the invariant: its stream waits, is cast, or its session
\* is stopped.
LEMMA StartCastMsgStep ==
  ASSUME CastInv, toNiri # <<>>, Head(toNiri).kind = "StartCast", UNCHANGED <<script, clearing, scene, copyVars>>,
         NEW w, w = [World EXCEPT !.toNiri = Tail(@)], NEW x, x = Head(toNiri).stream,
         NEW t, t = Head(toNiri).target,
         \/ t = Portal /\ Casting([w EXCEPT !.pending = Append(@, x)])
         \/ Casting(StopCast(w, SessionOf[x]))
         \/ t # Portal /\ HasParams(t) /\ \E v \in StartCasts(w, <<x>>, t, FALSE) : Casting(v)
  PROVE  CastInv' /\ NothingRecorded
<1> DEFINE s == SessionOf[x]
<1>1. Head(toNiri) \in Messages
  BY TailFacts, WorldFacts DEF CastInv, WorldOk, Typed
<1>2. x \in Streams /\ s \in Sessions /\ x \in StreamsOf(s) /\ Head(toNiri) \in StartMsgs
  BY <1>1, CastAssumption DEF Messages, StartMsgs, StopMsgs, StreamsOf
<1>3. \A y : IsStart(Head(toNiri), y) <=> y = x
  BY DEF IsStart
<1>4. \A r \in Sessions \ {s} : /\ Head(toNiri) # StopMsg(r)
                                /\ \A y \in StreamsOf(r) : ~IsStart(Head(toNiri), y)
  <2>1. \A r : StopMsg(r).kind = "StopCast"
    BY MessageKinds
  <2> QED
    BY <1>3, <2>1 DEF StreamsOf
<1> HIDE DEF s
<1>5. /\ Good(w, {s}, There, clearing)
      /\ w.casts = casts /\ w.pending = pending /\ w.session = session /\ w.toNiri = Tail(toNiri)
      /\ w.fromPw = fromPw /\ DOMAIN w = WorldFields
      /\ \A y \in Streams : Known(World, y) => Known(w, y) \/ y = x
      /\ Ended(session[s]) => StopComing(w, s)
  BY <1>2, <1>3, <1>4, PopMessage
<1>6. OkBut(w, {s}) /\ Typed(w) /\ Accounted(World, s) /\ SessionOk(s, session[s]) /\ World.session = session
  BY <1>2, <1>5, WorldFacts DEF Good, Sound, OkBut, CastInv, WorldOk, Typed
<1>7. SceneOk' /\ There' = There /\ CopyInv' /\ SceneOk
  BY SceneStays DEF CastInv, CopyInv, copyVars
<1>7a. Says(World, x, t = Portal)
  <2>1. Head(toNiri) \in ToSet(World.toNiri)
    BY TailFacts, WorldFacts DEF CastInv, WorldOk, Typed, ToSet
  <2> QED
    BY <1>3, <2>1 DEF Says
\* A world in which the stream is held is in order.
<1>8. ASSUME NEW v, Typed(v), v.session = session, v.toNiri = Tail(toNiri), Held(v, x),
             \A y \in Streams : y # x => (Held(v, y) <=> Held(w, y)),
             Aimed(v, There, clearing), Agreed(w) => Agreed(v),
             \A y \in Streams : \A b : Says(v, y, b) => Says(w, y, b) \/ (y = x /\ b = (t = Portal))
      PROVE  Good(v, {}, There, clearing)
  <2>1. \A y \in Streams : SessionOf[y] \notin {s} => (Held(v, y) <=> Held(w, y))
    BY <1>8 DEF s
  <2>1a. /\ OkBut(w, {s}) /\ Typed(v) /\ v.session = w.session /\ v.toNiri = w.toNiri
         /\ {s} \in SUBSET Sessions /\ {s} \subseteq {s}
    BY <1>2, <1>5, <1>6, <1>8
  <2>2. OkBut(v, {s})
    BY <2>1, <2>1a, StreamsKept
  <2>3. \A y \in Streams : Known(World, y) => Known(v, y)
    BY <1>5, <1>8 DEF Known, Held
  <2>4. StopComing(w, s) => StopComing(v, s)
    BY <1>5, <1>8 DEF StopComing
  <2>5. Accounted(v, s)
    BY <1>2, <1>5, <1>6, <1>8, <2>2, <2>3, <2>4 DEF Accounted, OkBut, SessionOk, StreamsOf
  <2>6. OkBut(v, {})
    BY <2>2, <2>5 DEF OkBut
  <2>6a. SaysLess(World, v)
    <3>1. SaysLess(World, w)
      BY <1>5 DEF Good
    <3>2. \A y \in Streams : \A b : Says(v, y, b) => Says(World, y, b)
      BY <1>7a, <1>8, <3>1 DEF SaysLess
    <3>3. v.session = w.session
      BY <1>5, <1>8
    <3> QED
      BY <3>1, <3>2, <3>3 DEF SaysLess
  <2> QED
    BY <1>5, <1>8, <2>6, <2>6a DEF Good, Sound
<1>8a. ASSUME NEW v, Good(v, {}, There, clearing),
              Casting(v) \/ \E S \in SUBSET Sessions : Casting(StopCasts(v, S))
       PROVE  CastInv' /\ NothingRecorded
  <2>1. CASE Casting(v)
    BY <1>7, <1>8a, <2>1, HandlerStep
  <2>2. ASSUME NEW S \in SUBSET Sessions, Casting(StopCasts(v, S)) PROVE CastInv' /\ NothingRecorded
    <3>1. Good(v, S, There, clearing)
      BY <1>8a, GoodBut
    <3>2. Good(StopCasts(v, S), {}, There, clearing)
      BY <3>1, StopGood
    <3> QED
      BY <1>7, <2>2, <3>2, HandlerStep
  <2> QED
    BY <1>8a, <2>1, <2>2
<1>9. CASE t = Portal /\ Casting([w EXCEPT !.pending = Append(@, x)])
  <2> DEFINE v == [w EXCEPT !.pending = Append(@, x)]
             one == <<x>>
  <2>1. /\ DOMAIN v = WorldFields /\ v.casts = w.casts /\ v.pending = Append(w.pending, x)
        /\ v.session = w.session /\ v.toNiri = w.toNiri /\ v.fromPw = w.fromPw
    BY <1>5 DEF WorldFields
  <2>2. Casting(v)
    BY <1>9
  <2> HIDE DEF v
  <2>3a. w.pending \in Seq(Streams)
    BY <1>6 DEF Typed
  <2>3b. one \in Seq(Streams) /\ ToSet(one) = {x}
    BY <1>2 DEF ToSet
  <2>3c. Append(w.pending, x) = w.pending \o one
    BY <1>2, <2>3a
  <2> HIDE DEF one
  <2>4. v.pending \in Seq(Streams) /\ ToSet(v.pending) = ToSet(w.pending) \cup {x}
    <3>1. w.pending \o one \in Seq(Streams) /\ ToSet(w.pending \o one) = ToSet(w.pending) \cup ToSet(one)
      BY <2>3a, <2>3b, ConcatFacts
    <3> QED
      BY <2>1, <2>3b, <2>3c, <3>1
  <2>6. Typed(v)
    BY <1>6, <2>1, <2>4 DEF Typed
  <2>7. Held(v, x) /\ \A y \in Streams : y # x => (Held(v, y) <=> Held(w, y))
    BY <2>1, <2>4 DEF Held
  <2>8. Aimed(v, There, clearing) /\ (Agreed(w) => Agreed(v))
    BY <1>5, <2>1 DEF Good, Sound, Aimed, Agreed
  <2>9. \A y \in Streams : \A b : Says(v, y, b) => Says(w, y, b) \/ (y = x /\ b = (t = Portal))
    BY <1>9, <2>1, <2>4 DEF Says
  <2>10. Good(v, {}, There, clearing)
    BY <1>5, <1>8, <2>1, <2>6, <2>7, <2>8, <2>9
  <2> QED
    BY <1>8a, <2>2, <2>10
<1>10. ASSUME Casting(StopCasts(w, {s})) PROVE CastInv' /\ NothingRecorded
  <2>1. Good(StopCasts(w, {s}), {}, There, clearing)
    BY <1>2, <1>5, StopGood
  <2> QED
    BY <1>7, <1>10, <2>1, HandlerStep
<1>11. CASE t # Portal /\ HasParams(t) /\ \E v \in StartCasts(w, <<x>>, t, FALSE) : Casting(v)
  <2> DEFINE one == <<x>>
             no == FALSE
             v == [w EXCEPT !.casts = @ \o NewCasts(one, t, no), !.pipewire = TRUE]
  <2>1. one \in Seq(Streams) /\ ToSet(one) = {x}
    BY <1>2 DEF ToSet
  <2>2. {SessionOf[y] : y \in ToSet(one)} = {s}
    BY <2>1 DEF s
  <2>3. Casting(StopCasts(w, {s})) \/ Casting(v) \/ \E S \in SUBSET Sessions : Casting(StopCasts(v, S))
    <3>1. \A u \in StartCasts(w, one, t, FALSE) : u = v \/ u = StopCasts(w, {s}) \/ \E S \in SUBSET {s} : u = StopCasts(v, S)
      BY <2>2 DEF StartCasts, CastFor, NewCasts
    <3>2. SUBSET {s} \subseteq SUBSET Sessions
      BY <1>2
    <3> QED
      BY <1>11, <3>1, <3>2
  <2>4. Good(v, {}, There, clearing)
    <3>1. /\ DOMAIN v = WorldFields
          /\ v.casts = w.casts \o NewCasts(one, t, no)
          /\ v.pending = w.pending
          /\ v.session = w.session /\ v.toNiri = w.toNiri /\ v.fromPw = w.fromPw
      BY <1>5 DEF WorldFields
    <3>1a. v.pending \in Seq(Streams) /\ one \in Seq(Streams) /\ w.pending \in Seq(Streams) /\ HasParams(t) /\ SceneOk /\ Typed(w)
      BY <1>6, <1>7, <1>11, <2>1, <3>1 DEF Typed
    <3> HIDE DEF v, one, no
    <3>1b. AddsCasts(w, v, one, t, no)
      BY <3>1, <3>1a DEF AddsCasts
    <3>2. Typed(v) /\ HasMore(w, v, one, t, no) /\ t \in There
      BY <3>1a, <3>1b, MoreCasts
    <3>3. Held(v, x) /\ \A y \in Streams : y # x => (Held(v, y) <=> Held(w, y))
      BY <2>1, <3>1, <3>2 DEF Held, HasMore
    <3>4. Aimed(v, There, clearing) /\ (Agreed(w) => Agreed(v))
      BY <1>5, <3>2 DEF Good, Sound, Aimed, Agreed, HasMore, no
    <3>5. \A y \in Streams : \A b : Says(v, y, b) => Says(w, y, b) \/ (y = x /\ b = (t = Portal))
      BY <1>11, <2>1, <3>1, <3>2 DEF Says, HasMore, no
    <3> QED
      BY <1>5, <1>8, <3>1, <3>2, <3>3, <3>4, <3>5
  <2> HIDE DEF v
  <2> QED
    BY <1>8a, <1>10, <2>3, <2>4
<1> QED
  BY <1>9, <1>10, <1>11 DEF StopCast, s

\* on_screen_cast_msg preserves the invariant.
LEMMA OnScreenCastMsgStep ==
  ASSUME CastInv, OnScreenCastMsg, UNCHANGED copyVars
  PROVE  CastInv' /\ NothingRecorded
<1> DEFINE w == [World EXCEPT !.toNiri = Tail(@)]
           x == Head(toNiri).stream
           t == Head(toNiri).target
<1>1. toNiri # <<>> /\ UNCHANGED <<script, clearing, scene, copyVars>>
  BY DEF OnScreenCastMsg
<1>2. CASE Head(toNiri).kind = "StopCast" /\ Casting(StopCast(w, Head(toNiri).session))
  BY <1>1, <1>2, StopCastMsgStep
<1>3. CASE /\ Head(toNiri).kind = "StartCast"
           /\ \/ t = Portal /\ Casting([w EXCEPT !.pending = Append(@, x)])
              \/ Casting(StopCast(w, SessionOf[x]))
              \/ t # Portal /\ HasParams(t) /\ \E v \in StartCasts(w, <<x>>, t, FALSE) : Casting(v)
  <2> HIDE DEF w, x, t
  <2> QED
    BY <1>1, <1>3, StartCastMsgStep DEF w, x, t
<1> QED
  BY <1>2, <1>3 DEF OnScreenCastMsg

---------------------------------------------------------------------------
(* Redraws. *)

\* The casts of a world are a sequence of casts of known sessions.
LEMMA TypedCasts ==
  ASSUME NEW w, Typed(w)
  PROVE  /\ IsFun(w.casts)
         /\ \A i \in DOMAIN w.casts : /\ w.casts[i] \in ToSet(w.casts) /\ CastOk(w.casts[i])
                                      /\ SameCast(w.casts[i], w.casts[i])
                                      /\ w.casts[i].stream \in Streams /\ SessionOf[w.casts[i].stream] \in Sessions
<1>1. w.casts \in Seq(ToSet(w.casts))
  BY DEF Typed
<1>2. IsFun(w.casts)
  BY <1>1 DEF IsFun
<1>3. \A i \in DOMAIN w.casts : w.casts[i] \in ToSet(w.casts)
  BY DEF ToSet
<1>4. \A i \in DOMAIN w.casts : CastOk(w.casts[i])
  BY <1>3 DEF Typed
<1> QED
  BY <1>2, <1>3, <1>4, CastAssumption DEF CastOk, SameCast

\* The offers that fail are those of sessions.
LEMMA FailuresFacts ==
  ASSUME NEW w, Typed(w), NEW S \in Failures(w)
  PROVE  S \in SUBSET Sessions
<1>1. Offered(w) \subseteq DOMAIN w.casts
  BY DEF Offered
<1> QED
  BY <1>1, TypedCasts DEF Failures

\* A handler ends: the sessions whose offers failed are stopped.
LEMMA FailingStep ==
  ASSUME CastInv, NEW v, Good(v, {}, There', clearing'), NEW S \in Failures(v), Casting(StopCasts(v, S)),
         SceneOk', script' = script, CopyInv'
  PROVE  CastInv' /\ NothingRecorded
<1>1. Typed(v)
  BY DEF Good, Sound, OkBut
<1>2. S \in SUBSET Sessions
  BY <1>1, FailuresFacts
<1>3. Good(v, S, There', clearing')
  BY <1>2, GoodBut
<1>4. Good(StopCasts(v, S), {}, There', clearing')
  BY <1>2, <1>3, StopGood
<1> QED
  BY <1>4, HandlerStep

\* Casts that are redrawn do not become others.
LEMMA RedrawGood ==
  ASSUME SceneOk, NEW w, NEW S, NEW there, NEW clear, Good(w, S, there, clear),
         NEW I, NEW how, NEW v, v = RedrawCasts(w, I, how)
  PROVE  /\ Good(v, S, there, clear)
         /\ v.pending = w.pending /\ v.session = w.session /\ v.toNiri = w.toNiri
         /\ v.fromPw = w.fromPw /\ DOMAIN v.casts = DOMAIN w.casts
         /\ \A i \in DOMAIN w.casts : SameCast(w.casts[i], v.casts[i])
<1> DEFINE drawn == [i \in DOMAIN w.casts |-> IF i \in I THEN RedrawnCast(w.casts[i], how) ELSE w.casts[i]]
<1>1. DOMAIN w = WorldFields /\ Typed(w) /\ w.fromPw \in Seq(PwMessages)
  BY DEF Good, Sound, OkBut, Typed
<1>2. /\ DOMAIN v = WorldFields /\ v.casts = drawn /\ v.pending = w.pending /\ v.session = w.session
      /\ v.toNiri = w.toNiri /\ v.fromPw = w.fromPw
  BY <1>1 DEF RedrawCasts, WorldFields
<1>3. /\ IsFun(drawn) /\ DOMAIN drawn = DOMAIN w.casts
      /\ \A i \in DOMAIN w.casts : drawn[i] = IF i \in I THEN RedrawnCast(w.casts[i], how) ELSE w.casts[i]
  BY DEF IsFun
<1> HIDE DEF drawn
<1>4. \A i \in DOMAIN w.casts : CastOk(w.casts[i]) /\ SameCast(w.casts[i], w.casts[i])
  BY <1>1, TypedCasts
<1>5. \A i \in DOMAIN w.casts : CastOk(drawn[i]) /\ SameCast(w.casts[i], drawn[i])
  BY <1>3, <1>4, RedrawnCastFacts
<1>6. Good(v, S, there, clear)
  BY <1>1, <1>2, <1>3, <1>5, MapGood
<1> QED
  BY <1>2, <1>3, <1>5, <1>6

\* on_pw_msg preserves the invariant.
LEMMA OnPwMsgStep ==
  ASSUME CastInv, OnPwMsg, UNCHANGED copyVars
  PROVE  CastInv' /\ NothingRecorded
<1> DEFINE w == [World EXCEPT !.fromPw = Tail(@)]
           x == Head(fromPw).stream
           e == [w EXCEPT !.pipewire = FALSE]
           all == {SessionOf[casts[i].stream] : i \in DOMAIN casts} \cup {SessionOf[y] : y \in ToSet(pending)}
<1>1. fromPw # <<>> /\ UNCHANGED <<script, clearing, scene, copyVars>> /\ fromPw \in Seq(PwMessages)
  BY CastFacts DEF OnPwMsg
<1>2. Tail(fromPw) \in Seq(PwMessages) /\ Head(fromPw) \in PwMessages
  BY <1>1, TailFacts
<1>3. x \in Streams /\ {SessionOf[x]} \in SUBSET Sessions
  BY <1>2, CastAssumption DEF PwMessages
<1>4. SceneOk' /\ There' = There /\ CopyInv' /\ SceneOk
  BY <1>1, SceneStays DEF CastInv, CopyInv, copyVars
<1>5. /\ DOMAIN w = WorldFields /\ w.casts = casts /\ w.pending = pending /\ w.session = session
      /\ w.toNiri = toNiri /\ w.fromPw = Tail(fromPw)
      /\ DOMAIN e = WorldFields /\ e.casts = casts /\ e.pending = pending /\ e.session = session
      /\ e.toNiri = toNiri /\ e.fromPw = Tail(fromPw)
  BY WorldFacts DEF WorldFields
<1>6. /\ \/ Casting(w)
         \/ Casting(StopCasts(w, {SessionOf[x]}))
         \/ \E I, how : \E S \in Failures(RedrawCasts(w, I, how)) : Casting(StopCasts(RedrawCasts(w, I, how), S))
         \/ Casting(StopCasts(e, all))
  BY DEF OnPwMsg, StopCast
<1> HIDE DEF w, e, x
<1>7. Good(w, {}, There', clearing') /\ Good(e, {}, There', clearing')
  BY <1>1, <1>2, <1>4, <1>5, WorldGood, WorldFacts, CastFacts, MapGood
<1>8. ASSUME NEW v, Good(v, {}, There', clearing'), NEW S \in SUBSET Sessions, Casting(StopCasts(v, S))
      PROVE  CastInv' /\ NothingRecorded
  <2>1. Good(v, S, There', clearing')
    BY <1>8, GoodBut
  <2>2. Good(StopCasts(v, S), {}, There', clearing')
    BY <2>1, StopGood
  <2> QED
    BY <1>1, <1>4, <1>8, <2>2, HandlerStep
<1>9. CASE Casting(w)
  BY <1>1, <1>4, <1>7, <1>9, HandlerStep
<1>10. CASE Casting(StopCasts(w, {SessionOf[x]}))
  BY <1>3, <1>7, <1>8, <1>10
<1>11. CASE \E I, how : \E S \in Failures(RedrawCasts(w, I, how)) : Casting(StopCasts(RedrawCasts(w, I, how), S))
  <2>1. PICK I, how : \E S \in Failures(RedrawCasts(w, I, how)) : Casting(StopCasts(RedrawCasts(w, I, how), S))
    BY <1>11
  <2> DEFINE v == RedrawCasts(w, I, how)
  <2>2. Good(v, {}, There', clearing')
    BY <1>4, <1>7, RedrawGood
  <2> HIDE DEF v
  <2>3. PICK S \in Failures(v) : Casting(StopCasts(v, S))
    BY <2>1 DEF v
  <2> QED
    BY <1>1, <1>4, <2>2, <2>3, FailingStep
<1>12. CASE Casting(StopCasts(e, all))
  <2>1. pending \in Seq(Streams)
    BY WorldFacts DEF CastInv, WorldOk, Typed
  <2>2. \A y \in ToSet(pending) : y \in Streams
    BY <2>1, SeqOfItself
  <2>3. all \in SUBSET Sessions
    BY <2>2, CastFacts, CastAssumption
  <2> HIDE DEF all
  <2> QED
    BY <1>7, <1>8, <1>12, <2>3
<1> QED
  BY <1>6, <1>9, <1>10, <1>11, <1>12

\* The action StopCast preserves the invariant.
LEMMA UserStopsStep ==
  ASSUME CastInv, NEW s \in Sessions, UserStops(s), UNCHANGED copyVars
  PROVE  CastInv' /\ NothingRecorded
<1>1. UNCHANGED <<script, clearing, scene, copyVars>> /\ Casting(StopCasts(World, {s}))
  BY DEF UserStops, StopCast
<1>2. SceneOk' /\ There' = There /\ CopyInv'
  BY <1>1, SceneStays DEF CastInv, CopyInv, copyVars
<1>3. {s} \in SUBSET Sessions /\ Good(World, {}, There', clearing')
  BY <1>1, <1>2, WorldGood
<1>4. Good(World, {s}, There', clearing')
  BY <1>3, GoodBut
<1>5. Good(StopCasts(World, {s}), {}, There', clearing')
  BY <1>3, <1>4, StopGood
<1> QED
  BY <1>1, <1>2, <1>5, HandlerStep

\* A redraw of an output preserves the invariant.
LEMMA RedrawOutputStep ==
  ASSUME CastInv, NEW o \in Outputs, RedrawOutput(o)
  PROVE  CastInv' /\ NothingRecorded
<1>1. PICK how \in Hows :
        LET v == [World EXCEPT
              !.redraws = @ \ {o},
              !.casts = [i \in DOMAIN casts |->
                IF casts[i].active /\ Shows(o, casts[i].target)
                THEN RenderCast(casts[i], o, scene.size[casts[i].target], how) ELSE casts[i]]]
        IN \E S \in Failures(v) : Casting(StopCasts(v, S))
  BY DEF RedrawOutput
<1> DEFINE drawn == [i \in DOMAIN casts |->
                IF casts[i].active /\ Shows(o, casts[i].target)
                THEN RenderCast(casts[i], o, scene.size[casts[i].target], how) ELSE casts[i]]
           v == [World EXCEPT !.redraws = @ \ {o}, !.casts = drawn]
<1>2. PICK S \in Failures(v) : Casting(StopCasts(v, S))
  BY <1>1
<1>3. /\ IsFun(drawn) /\ DOMAIN drawn = DOMAIN casts
      /\ \A i \in DOMAIN casts : \/ drawn[i] = casts[i]
                                 \/ Shows(o, casts[i].target) /\ drawn[i] = RenderCast(casts[i], o, scene.size[casts[i].target], how)
  BY DEF IsFun
<1> HIDE DEF drawn
<1>4. /\ DOMAIN v = WorldFields /\ v.casts = drawn /\ v.pending = pending /\ v.session = session
      /\ v.toNiri = toNiri /\ v.fromPw = fromPw
  BY WorldFacts DEF WorldFields
<1> HIDE DEF v
<1>5. ASSUME NEW i \in DOMAIN casts PROVE CastOk(drawn[i]) /\ SameCast(casts[i], drawn[i])
  <2>1. CastOk(casts[i]) /\ SameCast(casts[i], casts[i])
    BY CastFacts
  <2>2. Shows(o, casts[i].target) => scene.size[casts[i].target] \in Sizes
    BY DEF Shows, CastInv, SceneOk, Targets
  <2> QED
    BY <1>3, <2>1, <2>2, RenderCastFacts
<1>6. UNCHANGED <<script, clearing, scene>>
  BY DEF RedrawOutput
<1>7. SceneOk' /\ There' = There
  BY <1>6, SceneStays DEF CastInv
<1>8. CopyInv'
  <2>1. PICK h \in {"NoDamage"} \cup Drawings : RenderForScreencopyWithDamage(o, h)
    BY DEF RedrawOutput
  <2> QED
    BY <2>1, RenderStep DEF CastInv
<1>9. Good(v, {}, There', clearing')
  BY <1>3, <1>4, <1>5, <1>6, <1>7, WorldGood, WorldFacts, CastFacts, MapGood
<1> QED
  BY <1>2, <1>6, <1>7, <1>8, <1>9, FailingStep

\* State::refresh preserves the invariant.
LEMMA RefreshCastsStep ==
  ASSUME CastInv, RefreshCasts
  PROVE  CastInv' /\ NothingRecorded
<1> DEFINE tuned == [i \in DOMAIN casts |->
                     IF casts[i].target \in Moved
                     THEN SetRefresh(casts[i], CastOutputs[casts[i].target]) ELSE casts[i]]
           v == [World EXCEPT !.casts = tuned]
<1>1. PICK S \in Failures(v) : Casting(StopCasts(v, S))
  BY DEF RefreshCasts
<1>2. /\ scene' = [scene EXCEPT !.cast_output = CastOutputs] /\ script' = script /\ clearing' = clearing
      /\ managers' = managers /\ frames' = frames /\ queues' = ClearExpiredCasts(queues)
  BY DEF RefreshCasts
<1>3. /\ IsFun(tuned) /\ DOMAIN tuned = DOMAIN casts
      /\ \A i \in DOMAIN casts : \/ tuned[i] = casts[i]
                                 \/ tuned[i] = SetRefresh(casts[i], CastOutputs[casts[i].target])
  BY DEF IsFun
<1> HIDE DEF tuned
<1>4. /\ DOMAIN v = WorldFields /\ v.casts = tuned /\ v.pending = pending /\ v.session = session
      /\ v.toNiri = toNiri /\ v.fromPw = fromPw
  BY WorldFacts DEF WorldFields
<1> HIDE DEF v
<1>5. \A i \in DOMAIN casts : CastOk(tuned[i]) /\ SameCast(casts[i], tuned[i])
  BY <1>3, CastFacts, SetRefreshFacts
<1>6. CopyInv'
  BY <1>2, ClearExpiredCastsStep DEF CastInv
<1>7. SceneOk' /\ There' = There
  BY <1>2 DEF CastInv, SceneOk, There
<1>8. Good(v, {}, There', clearing')
  BY <1>2, <1>3, <1>4, <1>5, <1>7, WorldGood, WorldFacts, CastFacts, MapGood
<1> QED
  BY <1>1, <1>2, <1>6, <1>7, <1>8, FailingStep

---------------------------------------------------------------------------
(* Dynamic targets. *)

Refreshed(c, t) == IF HasParams(t) THEN SetRefresh(c, Params(t).refresh) ELSE c
Aim(c, t) == [Refreshed(c, t) EXCEPT !.target = t]

\* A cast that is aimed elsewhere stays in order and of its stream.
LEMMA AimFacts ==
  ASSUME NEW c, CastOk(c), NEW t
  PROVE  /\ CastOk(Aim(c, t)) /\ Aim(c, t).target = t
         /\ Aim(c, t).stream = c.stream /\ Aim(c, t).dynamic = c.dynamic
<1> DEFINE r == Refreshed(c, t)
           d == [r EXCEPT !.target = t]
<1>1. CastOk(r) /\ SameCast(c, r)
  BY SetRefreshFacts DEF SameCast, Refreshed
<1> HIDE DEF r
<1>2. /\ DOMAIN d = CastFields /\ d.stream = r.stream /\ d.size = r.size /\ d.buffer = r.buffer
      /\ d.state = r.state /\ d.rendering = r.rendering /\ d.frame = r.frame /\ d.queued = r.queued
      /\ d.target = t /\ d.dynamic = r.dynamic
  BY <1>1 DEF CastOk, CastFields
<1>3. Aim(c, t) = d
  BY DEF Aim, r
<1> HIDE DEF d
<1>4. Numbered(d)
  BY <1>1, <1>2 DEF CastOk, Numbered
<1>5. CastOk(d)
  BY <1>1, <1>2, <1>4 DEF CastOk
<1> QED
  BY <1>1, <1>2, <1>3, <1>5 DEF SameCast

AllAt(w, t) == \A c \in ToSet(w.casts) : c.dynamic => c.target = t

\* Casts aim at a target that is there; all of them do when no change of the rate fails.
LEMMA AimGood ==
  ASSUME CastInv, NEW t \in There, NEW failing, NEW v, DOMAIN v = WorldFields,
         v.pending = pending, v.session = session, v.toNiri = toNiri, v.fromPw = fromPw,
         IsFun(v.casts), DOMAIN v.casts = DOMAIN casts,
         \A i \in DOMAIN casts : v.casts[i] = IF casts[i].dynamic /\ i \notin failing THEN Aim(casts[i], t)
                                              ELSE casts[i],
         ~Has("fatal") => failing = {}, NEW clear, clear = clearing \/ failing = {}
  PROVE  Good(v, {}, There, clear) /\ (~Has("fatal") => AllAt(v, t))
<1> DEFINE w == World
<1>1. /\ Good(w, {}, There, clearing) /\ w.casts = casts /\ w.pending = pending /\ w.session = session
      /\ w.toNiri = toNiri /\ w.fromPw = fromPw
  BY WorldGood, WorldFacts
<1> HIDE DEF w
<1>2. /\ Typed(w) /\ casts \in Seq(ToSet(casts)) /\ DOMAIN casts = 1 .. Len(casts) /\ Len(casts) \in Nat
      /\ OkBut(w, {})
  BY <1>1, CastFacts DEF Good, Sound, OkBut
<1>3. ASSUME NEW i \in DOMAIN casts
      PROVE  /\ CastOk(v.casts[i]) /\ v.casts[i].stream = casts[i].stream
             /\ v.casts[i].dynamic = casts[i].dynamic
             /\ v.casts[i].target = t \/ v.casts[i] = casts[i]
             /\ failing = {} /\ v.casts[i].dynamic => v.casts[i].target = t
  <2>1. CastOk(casts[i])
    BY CastFacts
  <2>2. CASE casts[i].dynamic /\ i \notin failing
    <3>1. v.casts[i] = Aim(casts[i], t)
      BY <2>2
    <3>2. /\ CastOk(Aim(casts[i], t)) /\ Aim(casts[i], t).target = t
          /\ Aim(casts[i], t).stream = casts[i].stream /\ Aim(casts[i], t).dynamic = casts[i].dynamic
      BY <2>1, AimFacts
    <3> QED
      BY <3>1, <3>2
  <2>3. CASE ~(casts[i].dynamic /\ i \notin failing)
    BY <2>1, <2>3
  <2> QED
    BY <2>2, <2>3
<1>4. \A c \in ToSet(v.casts) : \E i \in DOMAIN casts : c = v.casts[i]
  BY DEF ToSet
<1>5. \A i \in DOMAIN casts : v.casts[i] \in ToSet(v.casts) /\ casts[i] \in ToSet(casts)
  BY DEF ToSet
<1>6. v.casts \in Seq(ToSet(v.casts)) /\ \A c \in ToSet(v.casts) : CastOk(c)
  <2>1. v.casts = [i \in 1 .. Len(casts) |-> v.casts[i]]
    BY <1>2 DEF IsFun
  <2>2. \A i \in 1 .. Len(casts) : v.casts[i] \in ToSet(v.casts)
    BY <1>2, <1>5
  <2>3. v.casts \in Seq(ToSet(v.casts))
    BY <1>2, <2>1, <2>2
  <2> QED
    BY <1>3, <1>4, <2>3
<1>7. Typed(v)
  BY <1>1, <1>2, <1>6 DEF Typed
<1>8. \A x \in Streams : (\E c \in ToSet(v.casts) : c.stream = x) <=> (\E c \in ToSet(casts) : c.stream = x)
  <2>1. \A c \in ToSet(casts) : \E i \in DOMAIN casts : c = casts[i]
    BY DEF ToSet
  <2> QED
    BY <1>3, <1>4, <1>5, <2>1
<1>9. OkBut(v, {})
  <2>1. \A x \in Streams : SessionOf[x] \notin {} => (Held(v, x) <=> Held(w, x))
    BY <1>1, <1>8 DEF Held
  <2>2. {} \in SUBSET Sessions /\ {} \subseteq {} /\ v.session = w.session /\ v.toNiri = w.toNiri
    BY <1>1
  <2> QED
    BY <1>2, <1>7, <2>1, <2>2, StreamsKept
<1>10. failing = {} => AllAt(v, t)
  BY <1>3, <1>4 DEF AllAt
<1>11. Aimed(v, There, clearing)
  BY <1>1, <1>3, <1>4, <1>5 DEF Good, Sound, Aimed
<1>12. ASSUME failing = {} PROVE Aimed(v, There, clear)
  <2>1. ASSUME NEW i \in DOMAIN casts PROVE v.casts[i].target \in There
    <3>1. CASE casts[i].dynamic
      BY <1>3, <1>12, <3>1
    <3>2. CASE ~casts[i].dynamic
      BY <1>1, <1>3, <1>5, <3>2 DEF Good, Sound, Aimed
    <3> QED
      BY <3>1, <3>2
  <2> QED
    BY <1>4, <2>1 DEF Aimed
<1>13. Aimed(v, There, clear)
  BY <1>11, <1>12
<1>14. ~Has("fatal") => Agreed(v)
  BY <1>10 DEF AllAt, Agreed
<1>15. SaysLess(World, v)
  <2>1. \A c \in ToSet(v.casts) : \E d \in ToSet(casts) : d.stream = c.stream /\ d.dynamic = c.dynamic
    BY <1>3, <1>4, <1>5
  <2>2. SaysLess(w, v)
    BY <1>1, <2>1, MapSays
  <2> QED
    BY <1>1, <2>2, SaysLessFacts DEF Good
<1> QED
  BY <1>9, <1>10, <1>13, <1>14, <1>15 DEF Good, Sound

\* The streams that wait for a target get it.
LEMMA StartPendingGood ==
  ASSUME SceneOk, NEW v, NEW clear, NEW t, Good(v, {}, There, clear), ~Has("fatal") => AllAt(v, t),
         NEW x \in StartPendingDynamicCasts(v, t)
  PROVE  Good(x, {}, There, clear)
<1> DEFINE p == [v EXCEPT !.pending = <<>>]
           yes == TRUE
           y == [p EXCEPT !.casts = @ \o NewCasts(v.pending, t, yes), !.pipewire = TRUE]
           S == {SessionOf[z] : z \in ToSet(v.pending)}
<1>1. Typed(v) /\ OkBut(v, {}) /\ v.pending \in Seq(Streams) /\ DOMAIN v = WorldFields
  BY DEF Good, Sound, OkBut, Typed
<1>2. \A z \in ToSet(v.pending) : z \in Streams
  BY <1>1, SeqOfItself
<1>3. S \in SUBSET Sessions
  BY <1>2, CastAssumption
<1>4. \/ x = v
      \/ HasParams(t) /\ (x = y \/ x = StopCasts(p, S) \/ \E R \in SUBSET S : x = StopCasts(y, R))
  BY DEF StartPendingDynamicCasts, StartCasts, NewCasts, CastFor
<1>5. /\ DOMAIN p = WorldFields /\ p.casts = v.casts /\ p.pending = <<>> /\ p.session = v.session
      /\ p.toNiri = v.toNiri /\ p.fromPw = v.fromPw
  BY <1>1 DEF WorldFields
<1>6. <<>> \in Seq(Streams) /\ ToSet(<<>>) = {}
  BY DEF ToSet
<1> HIDE DEF p
<1>7. /\ DOMAIN y = WorldFields /\ y.casts = v.casts \o NewCasts(v.pending, t, yes) /\ y.pending = <<>>
      /\ y.session = v.session /\ y.toNiri = v.toNiri /\ y.fromPw = v.fromPw
  BY <1>5 DEF WorldFields
<1> HIDE DEF y, yes
<1>8. ASSUME HasParams(t) PROVE Good(y, {}, There, clear)
  <2>1. AddsCasts(v, y, v.pending, t, yes)
    BY <1>6, <1>7 DEF AddsCasts
  <2>2. Typed(y) /\ HasMore(v, y, v.pending, t, yes) /\ t \in There
    BY <1>1, <1>8, <2>1, MoreCasts
  <2>3. \A z \in Streams : SessionOf[z] \notin {} => (Held(y, z) <=> Held(v, z))
    BY <1>6, <1>7, <2>2 DEF Held, HasMore
  <2>4. {} \in SUBSET Sessions /\ {} \subseteq {}
    OBVIOUS
  <2>5. OkBut(y, {})
    BY <1>1, <1>7, <2>2, <2>3, <2>4, StreamsKept
  <2>6. Aimed(y, There, clear)
    BY <2>2 DEF HasMore, Aimed, Good, Sound
  <2>7. AllAt(v, t) => Agreed(y)
    BY <2>2 DEF HasMore, AllAt, Agreed
  <2>8. SaysLess(World, y)
    <3>1. \A z \in Streams : \A b : Says(y, z, b) => Says(v, z, b)
      BY <1>6, <1>7, <2>2 DEF Says, HasMore, yes
    <3>2. SaysLess(v, y)
      BY <1>7, <3>1 DEF SaysLess
    <3> QED
      BY <3>2, SaysLessFacts DEF Good
  <2> QED
    BY <2>5, <2>6, <2>7, <2>8 DEF Good, Sound
<1>9. CASE x = StopCasts(p, S)
  <2>1. Typed(p)
    BY <1>1, <1>5, <1>6 DEF Typed
  <2> HIDE DEF S
  <2>2. \A z \in Streams : SessionOf[z] \notin S => (Held(p, z) <=> Held(v, z))
    BY <1>5, <1>6 DEF Held, S
  <2>3. {} \subseteq S /\ p.session = v.session /\ p.toNiri = v.toNiri
    BY <1>5
  <2>4. OkBut(p, S)
    BY <1>1, <1>3, <2>1, <2>2, <2>3, StreamsKept
  <2>5. Good(p, S, There, clear)
    <3>1. SaysLess(v, p)
      BY <1>5, <1>6, MapSays
    <3>2. SaysLess(World, p)
      BY <3>1, SaysLessFacts DEF Good
    <3> QED
      BY <1>5, <2>4, <3>2 DEF Good, Sound, Aimed, Agreed
  <2> QED
    BY <1>3, <1>9, <2>5, StopGood
<1>10. ASSUME HasParams(t), NEW R \in SUBSET S, x = StopCasts(y, R) PROVE Good(x, {}, There, clear)
  <2>1. R \in SUBSET Sessions
    BY <1>3
  <2> HIDE DEF S
  <2>2. Good(y, R, There, clear)
    BY <1>8, <1>10, <2>1, GoodBut
  <2> QED
    BY <1>10, <2>1, <2>2, StopGood
<1> HIDE DEF S
<1> QED
  BY <1>4, <1>8, <1>9, <1>10

\* set_dynamic_cast_target and start_pending_dynamic_casts preserve the invariant.
LEMMA RedirectStep ==
  ASSUME CastInv, NEW t \in There, Redirect(t), UNCHANGED <<script, scene, copyVars>>,
         clearing' = clearing \/ ~HasParams(t)
  PROVE  CastInv' /\ NothingRecorded
<1>1. PICK how \in Hows, failing \in RateFailures(t) :
        LET r == SetDynamicCastTarget(World, t, how, failing)
        IN  \E S \in IF Has("fatal") THEN SUBSET Resized(r) ELSE {{}} :
              \E x \in StartPendingDynamicCasts(StopCasts(r, S), t) : Casting(x)
  BY DEF Redirect
<1> DEFINE dynamic == {i \in DOMAIN casts : IsDynamic(casts[i]) /\ i \notin failing}
           turned == [i \in DOMAIN casts |-> IF i \in dynamic THEN Aim(casts[i], t) ELSE casts[i]]
           a == [World EXCEPT !.casts = turned]
           v == RedrawCasts(a, dynamic, how)
<1>2. SetDynamicCastTarget(World, t, how, failing) = v
  BY WorldFacts DEF SetDynamicCastTarget, Aim, Refreshed
<1>3. /\ IsFun(turned) /\ DOMAIN turned = DOMAIN casts
      /\ \A i \in DOMAIN casts : turned[i] = IF casts[i].dynamic /\ i \notin failing THEN Aim(casts[i], t)
                                             ELSE casts[i]
  BY DEF IsFun, IsDynamic
<1> HIDE DEF turned
<1>4. /\ DOMAIN a = WorldFields /\ a.casts = turned /\ a.pending = pending /\ a.session = session
      /\ a.toNiri = toNiri /\ a.fromPw = fromPw
  BY WorldFacts DEF WorldFields
<1> HIDE DEF a, dynamic
<1>5. (~Has("fatal") => failing = {}) /\ (clearing' = clearing \/ failing = {})
  BY DEF RateFailures
<1>6. Good(a, {}, There, clearing') /\ (~Has("fatal") => AllAt(a, t))
  BY <1>3, <1>4, <1>5, AimGood
<1>7. SceneOk' /\ There' = There /\ CopyInv' /\ SceneOk
  BY SceneStays DEF CastInv, CopyInv, copyVars
<1>8. /\ Good(v, {}, There, clearing') /\ DOMAIN v.casts = DOMAIN a.casts
      /\ \A i \in DOMAIN a.casts : SameCast(a.casts[i], v.casts[i])
  BY <1>6, <1>7, RedrawGood
<1> HIDE DEF v
<1>9. AllAt(a, t) => AllAt(v, t)
  BY <1>8 DEF AllAt, ToSet, SameCast
<1>10. PICK S \in IF Has("fatal") THEN SUBSET Resized(v) ELSE {{}} :
         \E x \in StartPendingDynamicCasts(StopCasts(v, S), t) : Casting(x)
  BY <1>1, <1>2
<1>11. S \in SUBSET Sessions
  <2>1. Typed(v) /\ v.casts \in Seq(ToSet(v.casts))
    BY <1>8 DEF Good, Sound, OkBut, Typed
  <2>2. DOMAIN v.casts = DOMAIN casts
    BY <1>3, <1>4, <1>8
  <2>3. Resized(v) \subseteq Sessions
    BY <2>1, <2>2, TypedCasts DEF Resized
  <2> QED
    BY <1>10, <2>3
<1> DEFINE u == StopCasts(v, S)
<1>12. Good(u, {}, There, clearing') /\ ToSet(u.casts) \subseteq ToSet(v.casts)
  <2>1. Good(v, S, There, clearing') /\ Typed(v)
    BY <1>8, <1>11, GoodBut DEF Good, Sound, OkBut
  <2> QED
    BY <1>11, <2>1, StopGood, StopCastsFacts
<1>13. PICK x \in StartPendingDynamicCasts(u, t) : Casting(x)
  BY <1>10
<1> HIDE DEF u
<1>14. AllAt(v, t) => AllAt(u, t)
  BY <1>12 DEF AllAt
<1>15. Good(x, {}, There, clearing')
  BY <1>6, <1>7, <1>9, <1>12, <1>14, StartPendingGood
<1> QED
  BY <1>7, <1>13, <1>15, HandlerStep

\* The user's choice of a target, and the idle callback that clears it, preserve the invariant.
LEMMA TargetSteps ==
  ASSUME CastInv, NEW t \in Targets \cup {Nothing}, UserPicks(t) \/ ClearTarget, UNCHANGED copyVars
  PROVE  CastInv' /\ NothingRecorded
<1>1. CASE UserPicks(t)
  <2>1. t \in There /\ Redirect(t) /\ UNCHANGED <<script, scene, copyVars>> /\ clearing' = clearing
    BY <1>1 DEF UserPicks, There
  <2> QED
    BY <2>1, RedirectStep
<1>2. CASE ClearTarget
  <2>1. Nothing \in There /\ Redirect(Nothing) /\ UNCHANGED <<script, scene, copyVars>>
    BY <1>2 DEF ClearTarget, There
  <2>2. ~HasParams(Nothing)
    BY CastAssumption DEF HasParams, CastInv, SceneOk, Targets
  <2> QED
    BY <2>1, <2>2, RedirectStep
<1> QED
  BY <1>1, <1>2

---------------------------------------------------------------------------
(* What is cast goes away. *)

\* stop_casts_for_target preserves the invariant when its target goes away: what is left of its
\* casts is dynamic, and about to be cleared.
LEMMA GoneStep ==
  ASSUME CastInv, NEW t, NEW u, DOMAIN u = WorldFields, u.casts = casts, u.pending = pending,
         u.session = session, u.toNiri = toNiri, u.fromPw = fromPw,
         Casting(StopCastsForTarget(u, t)), clearing' = (clearing \/ SawDynamic(t)),
         There \ {t} \subseteq There', SceneOk', script' = script, CopyInv'
  PROVE  CastInv' /\ NothingRecorded
<1> DEFINE S == {SessionOf[casts[i].stream] : i \in {j \in DOMAIN casts : casts[j].target = t /\ ~casts[j].dynamic}}
           v == StopCasts(u, S)
<1>1. StopCastsForTarget(u, t) = v
  BY DEF StopCastsForTarget
<1>2. S \in SUBSET Sessions
  BY CastFacts, CastAssumption
<1>3. \A c \in ToSet(casts) : SessionOf[c.stream] \notin S /\ c.target = t => c.dynamic
  BY DEF ToSet
<1> HIDE DEF S
<1>4. Good(u, {}, There, clearing)
  BY WorldGood, WorldFacts, CastFacts, MapGood
<1>5. Good(u, S, There, clearing) /\ Typed(u)
  BY <1>2, <1>4, GoodBut DEF Good, Sound, OkBut
<1>6. Good(v, {}, There, clearing)
  BY <1>2, <1>5, StopGood
<1>7. ToSet(v.casts) = {c \in ToSet(casts) : SessionOf[c.stream] \notin S}
  BY <1>2, <1>5, StopCastsFacts
<1> HIDE DEF v
<1>8. \A c \in ToSet(casts) : c.target = t /\ c.dynamic => SawDynamic(t)
  BY DEF SawDynamic, ToSet
<1>9. Aimed(v, There', clearing')
  <2> SUFFICES ASSUME NEW c \in ToSet(v.casts) PROVE c.target \in There' \/ (c.dynamic /\ clearing')
    BY DEF Aimed
  <2>1. c.target \in There \/ (c.dynamic /\ clearing)
    BY <1>6 DEF Good, Sound, Aimed
  <2>2. CASE c.target = t
    BY <1>3, <1>7, <1>8, <2>2
  <2>3. CASE c.target # t
    BY <2>1, <2>3
  <2> QED
    BY <2>2, <2>3
<1>10. Good(v, {}, There', clearing')
  BY <1>6, <1>9 DEF Good, Sound
<1> QED
  BY <1>1, <1>10, HandlerStep

\* A window that closes preserves the invariant.
LEMMA CloseWindowStep ==
  ASSUME CastInv, NEW w \in Windows, CloseWindow(w), UNCHANGED copyVars
  PROVE  CastInv' /\ NothingRecorded
<1>1. /\ scene' = [scene EXCEPT !.windows = @ \ {w}] /\ script' = script
      /\ Casting(StopCastsForTarget(World, w)) /\ clearing' = (clearing \/ SawDynamic(w))
  BY DEF CloseWindow
<1>2. SceneOk' /\ There \ {w} \subseteq There'
  BY <1>1 DEF CastInv, SceneOk, There
<1>3. CopyInv'
  BY DEF CastInv, CopyInv, copyVars
<1> QED
  BY <1>1, <1>2, <1>3, WorldFacts, GoneStep

\* An output that is unplugged preserves the invariant.
LEMMA RemoveCastOutputStep ==
  ASSUME CastInv, NEW o \in Outputs, RemoveCastOutput(o)
  PROVE  CastInv' /\ NothingRecorded
<1> DEFINE u == [World EXCEPT !.redraws = @ \ {o}]
<1>1. /\ script' = script /\ Casting(StopCastsForTarget(u, o)) /\ clearing' = (clearing \/ SawDynamic(o))
      /\ RemoveScreencopyOutput(o)
  BY DEF RemoveCastOutput
<1>2. PICK to : scene' = [scene EXCEPT
        !.outputs = scene.outputs \ {o},
        !.output = [w \in Windows |-> IF @[w] = o THEN to ELSE @[w]]]
  BY DEF RemoveCastOutput
<1>3. SceneOk' /\ There \ {o} \subseteq There'
  BY <1>1, <1>2 DEF CastInv, SceneOk, There
<1>4. CopyInv'
  BY <1>1, RemoveOutputStep DEF CastInv
<1>5. /\ DOMAIN u = WorldFields /\ u.casts = casts /\ u.pending = pending /\ u.session = session
      /\ u.toNiri = toNiri /\ u.fromPw = fromPw
  BY WorldFacts DEF WorldFields
<1> HIDE DEF u
<1> QED
  BY <1>1, <1>3, <1>4, <1>5, GoneStep

---------------------------------------------------------------------------
(* The invariant holds of every state. *)

\* The invariant holds at the start.
LEMMA CastInitInv == CastInit => CastInv
<1> SUFFICES ASSUME CastInit PROVE CastInv
  OBVIOUS
<1> DEFINE w == World
<1>1. SceneOk
  <2>1. Size0 \in Sizes
    BY CastAssumption DEF Size0
  <2> QED
    BY <2>1 DEF CastInit, SceneOk
<1>2. /\ DOMAIN w = WorldFields /\ w.casts = <<>> /\ w.pending = <<>> /\ w.toNiri = <<>> /\ w.fromPw = <<>>
      /\ w.session = [s \in Sessions |-> NewSession]
  BY WorldFacts DEF CastInit
<1> HIDE DEF w
<1>3. /\ DOMAIN NewSession = {"phase", "streams", "started", "late"} /\ NewSession.phase = "Open"
      /\ NewSession.streams = <<>> /\ NewSession.started = {}
      /\ NewSession.late \in BOOLEAN /\ ~NewSession.late
  BY DEF NewSession
<1>4. \A s \in Sessions : SessionOk(s, NewSession)
  BY <1>3 DEF SessionOk
<1>5. ToSet(<<>>) = {} /\ DOMAIN <<>> = {} /\ <<>> \in Seq(ToSet(<<>>)) /\ <<>> \in Seq(Streams)
      /\ <<>> \in Seq(Messages) /\ <<>> \in Seq(PwMessages)
  BY DEF ToSet
<1>6. Typed(w)
  BY <1>2, <1>4, <1>5 DEF Typed, IsFun
<1>7. \A s \in Sessions : Accounted(w, s)
  BY <1>2, <1>3 DEF Accounted, Ended
<1>8. TargetsHold
  BY <1>5 DEF CastInit, TargetsHold, TargetsAreThere, DynamicCastsAgree
<1> QED
  BY <1>1, <1>6, <1>7, <1>8, CopyInitInv DEF CastInv, WorldOk, CastInit, w

\* Every step preserves it.
LEMMA CastNextInv == CastInv /\ [CastNext]_<<castVars, copyVars>> => CastInv'
<1> SUFFICES ASSUME CastInv, [CastNext]_<<castVars, copyVars>> PROVE CastInv'
  OBVIOUS
<1>1. CASE CastStep /\ UNCHANGED copyVars
  <2> USE <1>1
  <2>1. CASE \E x \in Streams, t \in Targets \cup {Portal} : RecordMonitor(x, t) \/ RecordWindow(x, t)
    BY <2>1, RecordStep DEF RecordMonitor, RecordWindow
  <2>2. CASE \E s \in Sessions : SessionStart(s) \/ SessionStop(s) \/ UserStops(s)
    BY <2>2, SessionStartStep, SessionStopStep, UserStopsStep
  <2>3. CASE OnScreenCastMsg \/ OnPwMsg \/ PipeWireError
    BY <2>3, OnScreenCastMsgStep, OnPwMsgStep, PipeWireErrorStep
  <2>4. CASE \E i \in DOMAIN casts :
               StateChanged(i) \/ ParamChanged(i) \/ AddBuffer(i) \/ TimePasses(i) \/ ScheduledRedraw(i)
    BY <2>4, StateChangedStep, ParamChangedStep, AddBufferStep, TimerSteps
  <2>5. CASE \E i \in DOMAIN casts : \E j \in DOMAIN casts[i].rendering : FenceSignalled(i, j)
    BY <2>5, FenceSignalledStep
  <2>6. CASE \E o \in Outputs : QueueRedraw(o)
    BY <2>6, QueueRedrawStep
  <2>7. CASE (\E t \in Targets \cup {Nothing} : UserPicks(t)) \/ ClearTarget
    BY <2>7, TargetSteps
  <2>8. CASE \E w \in Windows : CloseWindow(w)
    BY <2>8, CloseWindowStep
  <2>9. CASE MoveWindows
    BY <2>9, MoveWindowsStep
  <2>10. CASE \E t \in Targets : ResizeTarget(t)
    BY <2>10, ResizeTargetStep
  <2> QED
    BY <1>1, <2>1, <2>2, <2>3, <2>4, <2>5, <2>6, <2>7, <2>8, <2>9, <2>10 DEF CastStep
<1>2. CASE Has("copy") /\ CopyNext(scene.outputs) /\ UNCHANGED castVars
  <2>1. CopyInv'
    BY <1>2, CopyNextInv DEF CastInv, SceneOk
  <2>2. /\ UNCHANGED <<script, casts, pending, session, toNiri, clearing, scene>> /\ fromPw' = fromPw
    BY <1>2 DEF castVars
  <2>3. SceneOk' /\ There' = There /\ fromPw' \in Seq(PwMessages)
    BY <2>2, SceneStays, CastFacts DEF CastInv
  <2> QED
    BY <2>1, <2>2, <2>3, StillStep
<1>3. CASE \E o \in Outputs : RedrawOutput(o) \/ RemoveCastOutput(o)
  BY <1>3, RedrawOutputStep, RemoveCastOutputStep
<1>4. CASE RefreshCasts
  BY <1>4, RefreshCastsStep
<1>5. CASE UNCHANGED <<castVars, copyVars>>
  <2>1. CopyInv'
    BY <1>5 DEF CastInv, CopyInv, copyVars
  <2>2. /\ UNCHANGED <<script, casts, pending, session, toNiri, clearing, scene>> /\ fromPw' = fromPw
    BY <1>5 DEF castVars
  <2>3. SceneOk' /\ There' = There /\ fromPw' \in Seq(PwMessages)
    BY <2>2, SceneStays, CastFacts DEF CastInv
  <2> QED
    BY <2>1, <2>2, <2>3, StillStep
<1> QED
  BY <1>1, <1>2, <1>3, <1>4, <1>5 DEF CastNext

\* So it always holds.
LEMMA CastInvHolds == CastSpec => []CastInv
BY CastInitInv, CastNextInv, PTL DEF CastSpec

\* Whatever the fences do, and whenever buffers are taken away, a cast is cleared or its size
\* changes, the frames of a cast go to PipeWire in the order in which they were drawn
\* (queue_completed_buffers), each in a buffer of its own size.
THEOREM FramesStayInOrder == CastSpec => []FramesInOrder
<1>1. CastInv => FramesInOrder
  <2> SUFFICES ASSUME CastInv, NEW i \in DOMAIN casts, NEW j \in DOMAIN casts[i].rendering
               PROVE  /\ casts[i].rendering[j].number > casts[i].queued
                      /\ casts[i].rendering[j].buffer = casts[i].rendering[j].size
    BY DEF FramesInOrder
  <2>1. CastOk(casts[i])
    BY CastFacts
  <2> QED
    BY <2>1, RenderingFacts DEF CastOk, Numbered
<1> QED
  BY <1>1, CastInvHolds, PTL

\* However Start, Stop, failures and the two channels interleave, a portal is never left
\* waiting for a stream that nobody knows of, and a session that the compositor was told to
\* stop leaves no cast behind, unless that message is still on its way, or it was started
\* again after that message (Session::start, Session::stop, stop_cast, start_cast).
THEOREM StreamsStayAccountedFor == CastSpec => []StreamsAccountedFor
<1>1. CastInv => StreamsAccountedFor
  <2> SUFFICES ASSUME CastInv, NEW s \in Sessions
        PROVE  LET known(x) == \/ \E i \in DOMAIN toNiri : toNiri[i].kind = "StartCast" /\ toNiri[i].stream = x
                               \/ \E i \in DOMAIN casts : casts[i].stream = x
                               \/ \E i \in DOMAIN pending : pending[i] = x
               IN  /\ session[s].phase = "Open" => \A x \in session[s].started : known(x)
                   /\ /\ session[s].phase \in {"Told", "Gone"} /\ ~session[s].late
                      /\ \E x \in Streams : SessionOf[x] = s /\ known(x)
                      => \E i \in DOMAIN toNiri : toNiri[i] = StopMsg(s)
    BY DEF StreamsAccountedFor
  <2> DEFINE w == World
  <2>1. w.casts = casts /\ w.pending = pending /\ w.session = session /\ w.toNiri = toNiri
    BY WorldFacts
  <2>2. Accounted(w, s)
    BY DEF CastInv, WorldOk
  <2> HIDE DEF w
  <2>3. \A x : Known(w, x) <=> \/ \E i \in DOMAIN toNiri : toNiri[i].kind = "StartCast" /\ toNiri[i].stream = x
                               \/ \E i \in DOMAIN casts : casts[i].stream = x
                               \/ \E i \in DOMAIN pending : pending[i] = x
    BY <2>1 DEF Known, IsStart, ToSet
  <2>4. session[s].phase = "Open" => \A x \in session[s].started : Known(w, x)
    BY <2>1, <2>2 DEF Accounted
  <2>5. ASSUME session[s].phase \in {"Told", "Gone"}, ~session[s].late, NEW x \in Streams, SessionOf[x] = s, Known(w, x)
        PROVE  \E i \in DOMAIN toNiri : toNiri[i] = StopMsg(s)
    <3>1. x \in StreamsOf(s)
      BY <2>5 DEF StreamsOf
    <3>2. (CastOf(w, s) => StopComing(w, s)) /\ StartsStopped(w, s)
      BY <2>1, <2>2, <2>5 DEF Accounted, Ended
    <3> QED
      BY <2>1, <2>5, <3>1, <3>2 DEF CastOf, Known, StopComing, StartsStopped
  <2> QED
    BY <2>3, <2>4, <2>5
<1> QED
  BY <1>1, CastInvHolds, PTL

\* A cast shows something that is there, or is about to be cleared, and all dynamic casts show
\* the same (stop_casts_for_target, set_dynamic_cast_target), however windows and outputs go
\* and the user's choice races with PipeWire.
THEOREM TargetsKeepHolding == CastSpec => []TargetsHold
<1>1. CastInv => TargetsHold
  BY DEF CastInv
<1> QED
  BY <1>1, CastInvHolds, PTL

\* A copy that a client of wlr-screencopy waits for is in the queue of its manager, or being
\* drawn, and is answered at most once, whatever is destroyed or unplugged meanwhile
\* (ScreencopyQueue, src/protocols/screencopy.rs).
THEOREM CopiesStayAccountedFor == CastSpec => []CopiesAccountedFor
<1>1. CastInv => CopiesAccountedFor
  BY CopyInvSuffices DEF CastInv
<1> QED
  BY <1>1, CastInvHolds, PTL

---------------------------------------------------------------------------
(* What is announced of casts. *)

\* Nothing is recorded but by RecordMonitor and RecordWindow, nothing announced but by a refresh.
LEMMA StepKinds ==
  ASSUME CastInv, CastNext
  PROVE  \/ NothingRecorded /\ (ipc' = ipc \/ RefreshCasts)
         \/ \E x \in Streams, t \in Targets \cup {Portal} : Record(x, t)
<1>1. CASE CastStep /\ UNCHANGED copyVars
  <2> USE <1>1
  <2>1. CASE \E x \in Streams, t \in Targets \cup {Portal} : RecordMonitor(x, t) \/ RecordWindow(x, t)
    BY <2>1 DEF RecordMonitor, RecordWindow
  <2>2. CASE \E s \in Sessions : SessionStart(s) \/ SessionStop(s) \/ UserStops(s)
    BY <2>2, DBusSays, UserStopsStep DEF SessionStart, SessionStop, UserStops
  <2>3. CASE OnScreenCastMsg \/ OnPwMsg \/ PipeWireError
    <3>1. UNCHANGED copyVars
      BY <1>1
    <3>2. CASE OnScreenCastMsg
      <4>1. ipc' = ipc
        BY <3>2 DEF OnScreenCastMsg
      <4> QED
        BY <3>1, <3>2, <4>1, OnScreenCastMsgStep
    <3>3. CASE OnPwMsg
      <4>1. ipc' = ipc
        BY <3>3 DEF OnPwMsg
      <4> QED
        BY <3>1, <3>3, <4>1, OnPwMsgStep
    <3>4. CASE PipeWireError
      <4>1. ipc' = ipc
        BY <3>4 DEF PipeWireError, CallbackLeaves
      <4> QED
        BY <3>1, <3>4, <4>1, PipeWireErrorStep
    <3> QED
      BY <2>3, <3>2, <3>3, <3>4
  <2>4. CASE \E i \in DOMAIN casts :
               StateChanged(i) \/ ParamChanged(i) \/ AddBuffer(i) \/ TimePasses(i) \/ ScheduledRedraw(i)
    <3>1. PICK i \in DOMAIN casts :
                 StateChanged(i) \/ ParamChanged(i) \/ AddBuffer(i) \/ TimePasses(i) \/ ScheduledRedraw(i)
      BY <2>4
    <3>2. UNCHANGED copyVars
      BY <1>1
    <3>3. StateChanged(i) => ipc' = ipc
      BY DEF StateChanged, CallbackLeaves
    <3>4. ParamChanged(i) => ipc' = ipc
      BY DEF ParamChanged, CallbackLeaves
    <3>5. AddBuffer(i) => ipc' = ipc
      BY DEF AddBuffer, CallbackLeaves
    <3>6. TimePasses(i) \/ ScheduledRedraw(i) => ipc' = ipc
      BY DEF TimePasses, ScheduledRedraw, CallbackLeaves
    <3>7. NothingRecorded
      BY <3>1, <3>2, StateChangedStep, ParamChangedStep, AddBufferStep, TimerSteps
    <3> QED
      BY <3>1, <3>3, <3>4, <3>5, <3>6, <3>7
  <2>5. CASE \E i \in DOMAIN casts : \E j \in DOMAIN casts[i].rendering : FenceSignalled(i, j)
    BY <2>5, FenceSignalledStep DEF FenceSignalled, CallbackLeaves
  <2>6. CASE \E o \in Outputs : QueueRedraw(o)
    BY <2>6, QueueRedrawStep DEF QueueRedraw
  <2>7. CASE (\E t \in Targets \cup {Nothing} : UserPicks(t)) \/ ClearTarget
    BY <2>7, TargetSteps DEF UserPicks, ClearTarget
  <2>8. CASE \E w \in Windows : CloseWindow(w)
    BY <2>8, CloseWindowStep DEF CloseWindow
  <2>9. CASE MoveWindows
    <3>1. ipc' = ipc
      BY <2>9 DEF MoveWindows
    <3> QED
      BY <1>1, <2>9, <3>1, MoveWindowsStep
  <2>10. CASE \E t \in Targets : ResizeTarget(t)
    BY <2>10, ResizeTargetStep DEF ResizeTarget
  <2> QED
    BY <1>1, <2>1, <2>2, <2>3, <2>4, <2>5, <2>6, <2>7, <2>8, <2>9, <2>10 DEF CastStep
<1>2. CASE Has("copy") /\ CopyNext(scene.outputs) /\ UNCHANGED castVars
  <2>1. World' = World /\ ipc' = ipc
    BY <1>2 DEF World, castVars
  <2> QED
    BY <2>1, SaysLessFacts DEF NothingRecorded
<1>3. CASE \E o \in Outputs : RedrawOutput(o) \/ RemoveCastOutput(o)
  <2>1. PICK o \in Outputs : RedrawOutput(o) \/ RemoveCastOutput(o)
    BY <1>3
  <2>2. RedrawOutput(o) => ipc' = ipc
    BY DEF RedrawOutput
  <2>3. RemoveCastOutput(o) => ipc' = ipc
    BY DEF RemoveCastOutput
  <2> QED
    BY <2>1, <2>2, <2>3, RedrawOutputStep, RemoveCastOutputStep
<1>4. CASE RefreshCasts
  BY <1>4, RefreshCastsStep
<1> QED
  BY <1>1, <1>2, <1>3, <1>4 DEF CastNext

\* What is known of a stream, the event stream included.
Told(w, events, x, dynamic) ==
  Says(w, x, dynamic) \/ (x \in DOMAIN events /\ dynamic = events[x].dynamic)

Announcement(e) == e = [target |-> e.target, dynamic |-> e.dynamic, active |-> e.active, node |-> e.node]

\* All that speaks of a stream agrees whether its target is dynamic; while its session is there,
\* it was recorded in it.
StreamOk(w, events, x) ==
  /\ \A b, c : Told(w, events, x, b) /\ Told(w, events, x, c) => b = c
  /\ (\E b : Told(w, events, x, b)) /\ w.session[SessionOf[x]].phase # "Gone" =>
       x \in DOMAIN w.session[SessionOf[x]].streams
  /\ x \in DOMAIN events => Announcement(events[x])

AnnounceInv == \A x \in Streams : StreamOk(World, ipc, x)

\* That is kept when nothing is recorded, and all that is announced is known.
LEMMA StreamOkKept ==
  ASSUME NEW w, NEW v, SaysLess(w, v), NEW old, NEW new, NEW x \in Streams, StreamOk(w, old, x),
         x \in DOMAIN new => Announcement(new[x]) /\ Told(w, old, x, new[x].dynamic)
  PROVE  StreamOk(v, new, x)
<1>1. \A b : Told(v, new, x, b) => Told(w, old, x, b)
  BY DEF SaysLess, Told
<1>2. SessionOf[x] \in Sessions
  BY CastAssumption
<1>3. v.session[SessionOf[x]].phase # "Gone" =>
        /\ w.session[SessionOf[x]].phase # "Gone"
        /\ v.session[SessionOf[x]].streams = w.session[SessionOf[x]].streams
  BY <1>2 DEF SaysLess
<1> QED
  BY <1>1, <1>3 DEF StreamOk

\* What ipc_refresh_casts has of a stream: what it had, what its cast is, or that it waits.
LEMMA IpcEntry ==
  ASSUME NEW old, NEW w, NEW Q, DOMAIN Q \subseteq Managers, NEW x \in Streams,
         NEW new, new = IpcRefreshCasts(old, w, Q), x \in DOMAIN new
  PROVE  \/ x \in DOMAIN old /\ new[x] = old[x]
         \/ \E c \in ToSet(w.casts) : c.stream = x /\ new[x] = Announced(c)
         \/ x \in ToSet(w.pending) /\ new[x] = AsPending
<1> DEFINE running == {w.casts[i].stream : i \in DOMAIN w.casts}
           copying == {m \in DOMAIN Q : Q[m].cast # NoCast}
           at(y) == CHOOSE i \in DOMAIN w.casts : w.casts[i].stream = y
           entry(y) ==
             CASE y \in running ->
                    LET e == Announced(w.casts[at(y)]) IN
                    IF y \in DOMAIN old /\ ~Changed(old[y], e) THEN old[y] ELSE e
               [] y \in copying -> AsCopy(Q[y].cast.output)
               [] OTHER -> IF y \in DOMAIN old THEN old[y] ELSE AsPending
           all == ToSet(w.pending) \cup running \cup copying
<1>1. x \notin copying
  BY CastAssumption
<1>2. new = [y \in all |-> entry(y)]
  BY DEF IpcRefreshCasts
<1>3. x \in all /\ new[x] = entry(x)
  <2> HIDE DEF entry, all
  <2> QED
    BY <1>2
<1>4. CASE x \in running
  <2>1. at(x) \in DOMAIN w.casts /\ w.casts[at(x)].stream = x
    BY <1>4
  <2>2. w.casts[at(x)] \in ToSet(w.casts)
    BY <2>1 DEF ToSet
  <2> HIDE DEF at
  <2>3. \/ x \in DOMAIN old /\ entry(x) = old[x]
        \/ entry(x) = Announced(w.casts[at(x)])
    <3> HIDE DEF running, copying
    <3>1. entry(x) = LET e == Announced(w.casts[at(x)]) IN
                     IF x \in DOMAIN old /\ ~Changed(old[x], e) THEN old[x] ELSE e
      BY <1>4, <1>1
    <3> HIDE DEF entry
    <3> QED
      BY <3>1
  <2> HIDE DEF entry
  <2> QED
    BY <1>3, <2>1, <2>2, <2>3
<1>5. CASE x \notin running
  <2>1. x \in ToSet(w.pending) /\ new[x] = IF x \in DOMAIN old THEN old[x] ELSE AsPending
    BY <1>1, <1>5, <1>3
  <2> QED
    BY <2>1
<1> QED
  BY <1>4, <1>5

\* A refresh announces what is known.
LEMMA RefreshAnnounces ==
  ASSUME CastInv, AnnounceInv, RefreshCasts
  PROVE  AnnounceInv'
<1> DEFINE w == World
           u == World'
<1>1. NothingRecorded /\ CastInv'
  BY RefreshCastsStep
<1>2. SaysLess(w, u)
  BY <1>1 DEF NothingRecorded
<1>3. PICK v : /\ Casting(v)
               /\ ipc' = IF Has("ipc") THEN IpcRefreshCasts(ipc, v, queues') ELSE ipc
  BY DEF RefreshCasts
<1>4. u.casts = v.casts /\ u.pending = v.pending
  BY <1>3 DEF Casting, World
<1>5. DOMAIN queues' \subseteq Managers
  BY <1>1 DEF CastInv, CopyInv, CopyInvOf
<1>6. \A x \in Streams : StreamOk(w, ipc, x)
  BY DEF AnnounceInv
<1>7. (\A x \in Streams : StreamOk(u, ipc', x)) => AnnounceInv'
  BY DEF AnnounceInv
<1> HIDE DEF w, u
<1>8. ASSUME NEW x \in Streams PROVE StreamOk(u, ipc', x)
  <2>1. ASSUME x \in DOMAIN ipc' PROVE Announcement(ipc'[x]) /\ Told(w, ipc, x, ipc'[x].dynamic)
    <3>1. \/ x \in DOMAIN ipc /\ ipc'[x] = ipc[x]
          \/ \E c \in ToSet(u.casts) : c.stream = x /\ ipc'[x] = Announced(c)
          \/ x \in ToSet(u.pending) /\ ipc'[x] = AsPending
      <4>1. CASE ipc' = ipc
        BY <2>1, <4>1
      <4>2. CASE ipc' = IpcRefreshCasts(ipc, v, queues')
        <5>1. \/ x \in DOMAIN ipc /\ ipc'[x] = ipc[x]
              \/ \E c \in ToSet(v.casts) : c.stream = x /\ ipc'[x] = Announced(c)
              \/ x \in ToSet(v.pending) /\ ipc'[x] = AsPending
          BY <1>5, <2>1, <4>2, IpcEntry
        <5> QED
          BY <1>4, <5>1
      <4> QED
        BY <1>3, <4>1, <4>2
    <3>2. CASE x \in DOMAIN ipc /\ ipc'[x] = ipc[x]
      BY <1>6, <3>2 DEF StreamOk, Told
    <3>3. ASSUME NEW c \in ToSet(u.casts), c.stream = x, ipc'[x] = Announced(c)
          PROVE  Announcement(ipc'[x]) /\ Told(w, ipc, x, ipc'[x].dynamic)
      <4>1. Announcement(ipc'[x]) /\ ipc'[x].dynamic = c.dynamic
        BY <3>3 DEF Announced, Announcement
      <4>2. Says(u, x, c.dynamic)
        BY <3>3 DEF Says
      <4>3. Says(w, x, c.dynamic)
        BY <1>2, <4>2 DEF SaysLess
      <4> QED
        BY <4>1, <4>3 DEF Told
    <3>4. CASE x \in ToSet(u.pending) /\ ipc'[x] = AsPending
      <4>1. Announcement(ipc'[x]) /\ ipc'[x].dynamic = TRUE
        BY <3>4 DEF AsPending, Announcement
      <4>2. Says(u, x, TRUE)
        BY <3>4 DEF Says
      <4>3. Says(w, x, TRUE)
        BY <1>2, <4>2 DEF SaysLess
      <4> QED
        BY <4>1, <4>3 DEF Told
    <3> QED
      BY <3>1, <3>2, <3>3, <3>4
  <2> QED
    BY <1>2, <1>6, <2>1, StreamOkKept
<1> QED
  BY <1>7, <1>8

\* A stream that is recorded was not known before.
LEMMA RecordAnnounces ==
  ASSUME CastInv, AnnounceInv, NEW y \in Streams, NEW target, Record(y, target)
  PROVE  AnnounceInv'
<1> DEFINE w == World
           u == World'
           s == SessionOf[y]
           old == session[s].streams
           more == [z \in DOMAIN old \cup {y} |-> IF z = y THEN target ELSE old[z]]
           x == [session[s] EXCEPT !.streams = more]
<1>1. /\ w.casts = casts /\ w.pending = pending /\ w.session = session /\ w.toNiri = toNiri
      /\ u.casts = casts /\ u.pending = pending /\ u.session = session' /\ u.toNiri = toNiri
      /\ ipc' = ipc
  BY DEF World, Record
<1>2. /\ session[s].phase = "Open" /\ y \notin DOMAIN old /\ session' = [session EXCEPT ![s] = x]
  BY DEF Record
<1>3. s \in Sessions /\ DOMAIN session = Sessions /\ SessionOk(s, session[s])
  <2>1. s \in Sessions
    BY CastAssumption
  <2> QED
    BY <2>1, SessionFacts
<1>4. /\ DOMAIN more = DOMAIN old \cup {y} /\ more[y] = target
      /\ \A z \in DOMAIN old : more[z] = old[z]
  BY <1>2
<1> HIDE DEF more
<1>5. x.phase = session[s].phase /\ x.streams = more
  BY <1>3 DEF SessionOk
<1> HIDE DEF x
<1>6. session'[s] = x /\ \A r \in Sessions \ {s} : session'[r] = session[r]
  BY <1>2, <1>3
<1>7. \A z \in Streams : StreamOk(w, ipc, z)
  BY DEF AnnounceInv
<1>8. (\A z \in Streams : StreamOk(u, ipc', z)) => AnnounceInv'
  BY DEF AnnounceInv
<1> HIDE DEF w, u
<1>9. \A b : ~Told(w, ipc, y, b)
  BY <1>1, <1>2, <1>7 DEF StreamOk
<1>10. \A b : Told(u, ipc', y, b) => b = (target = Portal)
  BY <1>1, <1>4, <1>5, <1>6, <1>9 DEF Told, Says
<1>11. StreamOk(u, ipc', y)
  BY <1>1, <1>4, <1>5, <1>6, <1>7, <1>10 DEF StreamOk
<1>12. ASSUME NEW z \in Streams \ {y} PROVE StreamOk(u, ipc', z)
  <2>1. SessionOf[z] \in Sessions
    BY CastAssumption
  <2>2. /\ u.session[SessionOf[z]].phase = w.session[SessionOf[z]].phase
        /\ z \in DOMAIN u.session[SessionOf[z]].streams <=> z \in DOMAIN w.session[SessionOf[z]].streams
        /\ z \in DOMAIN w.session[SessionOf[z]].streams =>
             u.session[SessionOf[z]].streams[z] = w.session[SessionOf[z]].streams[z]
    <3>1. CASE SessionOf[z] = s
      BY <1>1, <1>4, <1>5, <1>6, <3>1
    <3>2. CASE SessionOf[z] # s
      BY <1>1, <1>6, <2>1, <3>2
    <3> QED
      BY <3>1, <3>2
  <2>3. \A b : Told(u, ipc', z, b) => Told(w, ipc, z, b)
    BY <1>1, <2>2 DEF Told, Says
  <2> QED
    BY <1>1, <1>7, <2>2, <2>3 DEF StreamOk
<1> QED
  BY <1>8, <1>11, <1>12

\* What is known of streams agrees in every state.
LEMMA AnnounceInvHolds == CastSpec => []AnnounceInv
<1>1. CastInit => AnnounceInv
  <2> SUFFICES ASSUME CastInit, NEW x \in Streams PROVE StreamOk(World, ipc, x)
    BY DEF AnnounceInv
  <2> DEFINE w == World
  <2>1. w.toNiri = <<>> /\ w.pending = <<>> /\ w.casts = <<>> /\ w.session = [s \in Sessions |-> NewSession]
    BY DEF World, CastInit
  <2> HIDE DEF w
  <2>2. ToSet(<<>>) = {} /\ DOMAIN <<>> = {} /\ ipc = <<>>
    BY DEF ToSet, CastInit
  <2>3. SessionOf[x] \in Sessions /\ NewSession.streams = <<>>
    BY CastAssumption DEF NewSession
  <2>4. \A b : ~Told(w, ipc, x, b)
    BY <2>1, <2>2, <2>3 DEF Told, Says
  <2> QED
    BY <2>2, <2>4 DEF StreamOk, w
<1>2. CastInv /\ AnnounceInv /\ [CastNext]_<<castVars, copyVars>> => AnnounceInv'
  <2> SUFFICES ASSUME CastInv, AnnounceInv, [CastNext]_<<castVars, copyVars>> PROVE AnnounceInv'
    OBVIOUS
  <2>1. CASE RefreshCasts
    BY <2>1, RefreshAnnounces
  <2>2. ASSUME NEW x \in Streams, NEW t \in Targets \cup {Portal}, Record(x, t) PROVE AnnounceInv'
    BY <2>2, RecordAnnounces
  <2>3. ASSUME NothingRecorded, ipc' = ipc PROVE AnnounceInv'
    <3> DEFINE w == World
               u == World'
    <3>1. SaysLess(w, u) /\ \A x \in Streams : StreamOk(w, ipc, x)
      BY <2>3 DEF NothingRecorded, AnnounceInv
    <3>2. (\A x \in Streams : StreamOk(u, ipc', x)) => AnnounceInv'
      BY DEF AnnounceInv
    <3> HIDE DEF w, u
    <3>3. ASSUME NEW x \in Streams PROVE StreamOk(u, ipc', x)
      <4>1. x \in DOMAIN ipc' => Announcement(ipc'[x]) /\ Told(w, ipc, x, ipc'[x].dynamic)
        BY <2>3, <3>1 DEF StreamOk, Told
      <4> QED
        BY <3>1, <4>1, StreamOkKept
    <3> QED
      BY <3>2, <3>3
  <2>4. CASE UNCHANGED <<castVars, copyVars>>
    BY <2>4 DEF AnnounceInv, World, castVars
  <2> QED
    BY <2>1, <2>2, <2>3, <2>4, StepKinds
<1> QED
  BY <1>1, <1>2, CastInvHolds, PTL DEF CastSpec

\* No stream has two casts, which it gets when its session is started again.
OneCastEach == \A i, j \in DOMAIN casts : casts[i].stream = casts[j].stream => i = j

\* When a refresh has nothing more to say, the event stream has every stream as its cast is,
\* whether its target is dynamic included, though a refresh does not compare that, and every
\* manager whose copies wait (ipc_refresh_casts), as long as no stream has two casts.
THEOREM CastsStayAnnounced == CastSpec => [](OneCastEach => CastsAnnounced)
<1>1. CastInv /\ AnnounceInv => (OneCastEach => CastsAnnounced)
  <2> SUFFICES ASSUME CastInv, AnnounceInv, OneCastEach,
                      Has("ipc"), IpcRefreshCasts(ipc, World, ClearExpiredCasts(queues)) = ipc
               PROVE  LET copying == {m \in DOMAIN queues : queues[m].cast # NoCast} IN
                      /\ DOMAIN ipc \subseteq ToSet(pending) \cup {casts[i].stream : i \in DOMAIN casts} \cup copying
                      /\ \A i \in DOMAIN casts :
                           casts[i].stream \in DOMAIN ipc /\ ipc[casts[i].stream] = Announced(casts[i])
                      /\ \A m \in DOMAIN queues : queues[m].copies # <<>> =>
                           m \in DOMAIN ipc /\ ipc[m].target = queues[m].cast.output
    BY DEF CastsAnnounced
  <2> DEFINE Q == ClearExpiredCasts(queues)
             w == World
             running == {casts[i].stream : i \in DOMAIN casts}
             copying == {m \in DOMAIN Q : Q[m].cast # NoCast}
             at(x) == CHOOSE i \in DOMAIN casts : casts[i].stream = x
             entry(x) ==
               CASE x \in running ->
                      LET new == Announced(casts[at(x)]) IN
                      IF x \in DOMAIN ipc /\ ~Changed(ipc[x], new) THEN ipc[x] ELSE new
                 [] x \in copying -> AsCopy(Q[x].cast.output)
                 [] OTHER -> IF x \in DOMAIN ipc THEN ipc[x] ELSE AsPending
             all == ToSet(pending) \cup running \cup copying
  <2>1. w.casts = casts /\ w.pending = pending /\ w.session = session
    BY WorldFacts
  <2>2. ipc = [x \in all |-> entry(x)]
    BY WorldFacts DEF IpcRefreshCasts
  <2>3. \A x \in Streams : StreamOk(w, ipc, x)
    BY DEF AnnounceInv
  <2>4. /\ DOMAIN Q = DOMAIN queues /\ DOMAIN queues \subseteq Managers
        /\ \A m \in DOMAIN queues :
             /\ Q[m].cast # NoCast => queues[m].cast # NoCast
             /\ queues[m].copies # <<>> => Q[m].cast = queues[m].cast /\ queues[m].cast # NoCast
    <3>1. DOMAIN queues \subseteq Managers /\ \A m \in DOMAIN queues : Holds(queues[m], frames, m)
      BY DEF CastInv, CopyInv, CopyInvOf, QueueOk
    <3>2. \A m \in DOMAIN queues : "cast" \in DOMAIN queues[m]
      BY <3>1 DEF Holds, QueueType
    <3>3. /\ DOMAIN Q = DOMAIN queues
          /\ \A m \in DOMAIN queues : \/ Q[m] = queues[m]
                                      \/ /\ queues[m].copies = <<>> /\ queues[m].cast # NoCast
                                         /\ Q[m] = [queues[m] EXCEPT !.cast = NoCast]
      BY DEF ClearExpiredCasts
    <3> HIDE DEF Q
    <3> QED
      BY <3>1, <3>2, <3>3 DEF Holds
  <2> HIDE DEF w, Q
  <2>5. DOMAIN ipc = all /\ \A x \in all : ipc[x] = entry(x)
    <3> HIDE DEF entry, all
    <3> QED
      BY <2>2
  <2>6. DOMAIN ipc \subseteq ToSet(pending) \cup running \cup {m \in DOMAIN queues : queues[m].cast # NoCast}
    <3> HIDE DEF entry
    <3> QED
      BY <2>4, <2>5
  <2>7. ASSUME NEW i \in DOMAIN casts
        PROVE  casts[i].stream \in DOMAIN ipc /\ ipc[casts[i].stream] = Announced(casts[i])
    <3> DEFINE x == casts[i].stream
               c == casts[i]
               new == Announced(casts[i])
    <3>1. x \in Streams /\ x \in running /\ c \in ToSet(w.casts)
      BY <2>1, CastFacts DEF ToSet
    <3>2. at(x) = i
      BY DEF OneCastEach
    <3> HIDE DEF at
    <3>3. x \in DOMAIN ipc /\ (ipc[x] = new \/ ~Changed(ipc[x], new))
      <4>1. x \in all
        BY <3>1
      <4>2. entry(x) = LET e == Announced(casts[at(x)]) IN
                       IF x \in DOMAIN ipc /\ ~Changed(ipc[x], e) THEN ipc[x] ELSE e
        <5>1. x \notin copying
          BY <2>4, <3>1, CastAssumption
        <5> HIDE DEF running, copying, x
        <5> QED
          BY <3>1, <5>1
      <4>3. Announced(casts[at(x)]) = new
        BY <3>2
      <4> HIDE DEF entry, new, x
      <4> QED
        BY <2>5, <4>1, <4>2, <4>3
    <3>4. Announcement(ipc[x]) /\ \A b, d : Told(w, ipc, x, b) /\ Told(w, ipc, x, d) => b = d
      BY <2>3, <3>1, <3>3 DEF StreamOk
    <3>5. Told(w, ipc, x, c.dynamic) /\ Told(w, ipc, x, ipc[x].dynamic)
      BY <3>1, <3>3 DEF Told, Says
    <3>6. ipc[x].dynamic = c.dynamic
      BY <3>4, <3>5
    <3>7. ~Changed(ipc[x], new) => ipc[x] = new
      BY <3>4, <3>6 DEF Changed, Announced, Announcement
    <3> QED
      BY <3>3, <3>7
  <2>8. ASSUME NEW m \in DOMAIN queues, queues[m].copies # <<>>
        PROVE  m \in DOMAIN ipc /\ ipc[m].target = queues[m].cast.output
    <3>1. m \in copying /\ m \in Managers /\ Q[m].cast.output = queues[m].cast.output
      BY <2>4, <2>8
    <3>2. m \notin running
      BY <3>1, CastFacts, CastAssumption
    <3>3. m \in all /\ entry(m) = AsCopy(queues[m].cast.output)
      BY <3>1, <3>2
    <3>4. ipc[m] = AsCopy(queues[m].cast.output)
      <4> HIDE DEF entry
      <4> QED
        BY <2>5, <3>3
    <3> HIDE DEF entry
    <3> QED
      BY <2>5, <3>3, <3>4 DEF AsCopy
  <2> HIDE DEF entry, all
  <2> QED
    BY <2>6, <2>7, <2>8
<1> QED
  BY <1>1, CastInvHolds, AnnounceInvHolds, PTL

=============================================================================
