----------------------------- MODULE SeatProofs -----------------------------
(***************************************************************************)
(* Proofs about Seat, for any windows, outputs, keys and binds that can be *)
(* configured: the bookkeeping of intercepted keys, the overlays that may  *)
(* be open and the recent-windows switcher.                                *)
(***************************************************************************)
EXTENDS Seat, RetainingProofs, SequenceTheorems

---------------------------------------------------------------------------
(* The switcher. *)

MruType ==
  [state : {"Open", "Closing", "Closed"}, scope : Scopes, thumbnails : Seq(Windows),
   near : SUBSET Windows, here : SUBSET Windows, current : Windows \cup {NoWindow},
   filter : Range(AppOf) \cup {NoApp}, full : BOOLEAN, output : SUBSET Outputs]

Distinct(s) == \A i, j \in DOMAIN s : s[i] = s[j] => i = j

\* A list of windows of which the selected one is shown.
Sound(m) == m \in MruType /\ Distinct(m.thumbnails) /\ Verified(m)

\* One that was navigated in or whose scope or filter changed.
SameList(m, n) ==
  /\ n.state = m.state /\ n.output = m.output /\ n.thumbnails = m.thumbnails
  /\ n.full = m.full

\* Windows are numbers, and each has an application.
LEMMA WindowsFacts == /\ Windows \subseteq Nat /\ NoWindow \notin Windows
                      /\ \A w \in Windows : AppOf[w] \in Range(AppOf)
BY MruAssumption DEF NoWindow

\* The thumbnails shown are those that match, each once.
LEMMA ThumbnailsFacts ==
  ASSUME NEW m \in MruType
  PROVE  /\ Thumbnails(m) \in Seq(Windows)
         /\ ToSet(Thumbnails(m)) = Shown(m)
         /\ Shown(m) \subseteq Windows
         /\ Distinct(m.thumbnails) => Distinct(Thumbnails(m))
         /\ Thumbnails(m) = <<>> <=> Shown(m) = {}
<1>1. m.thumbnails \in Seq(Windows)
  BY DEF MruType
<1>2. /\ Thumbnails(m) \in Seq(Windows)
      /\ ToSet(Thumbnails(m)) = ToSet(m.thumbnails) \cap Shown(m)
  BY <1>1, RetainedFacts DEF Thumbnails
<1>3. ToSet(Thumbnails(m)) = Shown(m)
  BY <1>2 DEF Shown
<1>4. Shown(m) \subseteq Windows
  BY <1>1 DEF Shown, ToSet
<1>5. Distinct(m.thumbnails) => Distinct(Thumbnails(m))
  BY <1>1, RetainedDistinct DEF Thumbnails, Distinct
<1>6. Thumbnails(m) = <<>> <=> Shown(m) = {}
  <2>1. Thumbnails(m) = <<>> => ToSet(Thumbnails(m)) = {}
    BY DEF ToSet
  <2>2. Thumbnails(m) # <<>> => Thumbnails(m)[1] \in ToSet(Thumbnails(m))
    BY <1>2 DEF ToSet
  <2> QED
    BY <1>3, <2>1, <2>2
<1> QED
  BY <1>2, <1>3, <1>4, <1>5, <1>6

\* What the code's own verification of the switcher says.
LEMMA VerifiedFacts ==
  ASSUME NEW m \in MruType
  PROVE  Verified(m) <=> IF m.current = NoWindow THEN Shown(m) = {} ELSE m.current \in Shown(m)
BY ThumbnailsFacts DEF Verified

\* Going on from a thumbnail leads to one of the same list, and back to itself only if
\* there is no other.
LEMMA NextInFacts ==
  ASSUME NEW s \in Seq(Windows), Distinct(s), NEW w \in ToSet(s)
  PROVE  /\ NextIn(s, w) \in ToSet(s)
         /\ NextIn(s, w) = w => ToSet(s) = {w}
<1> DEFINE i == IndexIn(s, w)
           rest == SubSeq(s, i + 1, Len(s))
<1>1. i \in DOMAIN s /\ s[i] = w
  BY DEF IndexIn, ToSet
<1> HIDE DEF i
<1>2. CASE i = Len(s)
  <2>1. rest = <<>>
    BY <1>1, <1>2
  <2>2. NextIn(s, w) = s[1] /\ 1 \in DOMAIN s
    BY <1>1, <2>1 DEF NextIn, i
  <2>3. s[1] = w => Len(s) = 1
    BY <1>1, <1>2, <2>2 DEF Distinct
  <2> QED
    BY <1>1, <2>2, <2>3 DEF ToSet
<1>3. CASE i # Len(s)
  <2>1. rest # <<>> /\ Head(rest) = s[i + 1] /\ i + 1 \in DOMAIN s
    BY <1>1, <1>3
  <2>2. NextIn(s, w) = s[i + 1]
    BY <2>1 DEF NextIn, i
  <2> QED
    BY <1>1, <2>1, <2>2 DEF Distinct, ToSet
<1> QED
  BY <1>2, <1>3

\* The reverse of a list.
LEMMA ReverseFacts ==
  ASSUME NEW T, NEW s \in Seq(T)
  PROVE  /\ Reverse(s) \in Seq(T) /\ Len(Reverse(s)) = Len(s)
         /\ ToSet(Reverse(s)) = ToSet(s)
         /\ Distinct(s) => Distinct(Reverse(s))
<1>1. Len(s) \in Nat /\ DOMAIN s = 1 .. Len(s) /\ \A i \in 1 .. Len(s) : s[i] \in T
  OBVIOUS
<1>2. /\ Reverse(s) = [i \in 1 .. Len(s) |-> s[(Len(s) - i) + 1]]
      /\ \A i \in 1 .. Len(s) : (Len(s) - i) + 1 \in 1 .. Len(s)
                                /\ (Len(s) - ((Len(s) - i) + 1)) + 1 = i
  BY <1>1 DEF Reverse
<1>3. Reverse(s) \in Seq(T) /\ Len(Reverse(s)) = Len(s) /\ DOMAIN Reverse(s) = 1 .. Len(s)
  BY <1>1, <1>2
<1>4. \A x \in ToSet(Reverse(s)) : x \in ToSet(s)
  BY <1>1, <1>2, <1>3 DEF ToSet
<1>5. \A x \in ToSet(s) : x \in ToSet(Reverse(s))
  <2> SUFFICES ASSUME NEW i \in 1 .. Len(s) PROVE s[i] \in ToSet(Reverse(s))
    BY <1>1 DEF ToSet
  <2>1. Reverse(s)[(Len(s) - i) + 1] = s[i] /\ (Len(s) - i) + 1 \in DOMAIN Reverse(s)
    BY <1>2, <1>3
  <2> QED
    BY <2>1 DEF ToSet
<1>6. Distinct(s) => Distinct(Reverse(s))
  <2> SUFFICES ASSUME Distinct(s), NEW i \in 1 .. Len(s), NEW j \in 1 .. Len(s),
                      Reverse(s)[i] = Reverse(s)[j]
               PROVE  i = j
    BY <1>3 DEF Distinct
  <2>1. (Len(s) - i) + 1 = (Len(s) - j) + 1
    BY <1>1, <1>2 DEF Distinct
  <2> QED
    BY <1>1, <2>1
<1> QED
  BY <1>3, <1>4, <1>5, <1>6

\* What is shown does not depend on what is selected.
LEMMA ShownFacts ==
  ASSUME NEW m \in MruType, NEW w \in Windows \cup {NoWindow}
  PROVE  /\ [m EXCEPT !.current = w] \in MruType
         /\ Shown([m EXCEPT !.current = w]) = Shown(m)
         /\ SameList(m, [m EXCEPT !.current = w])
BY DEF MruType, Shown, Matches, SameList

\* Selecting what is shown, or nothing when nothing is.
LEMMA SelectionFacts ==
  ASSUME NEW m \in MruType, Distinct(m.thumbnails), NEW w,
         IF Shown(m) = {} THEN w = NoWindow ELSE w \in Shown(m)
  PROVE  Sound([m EXCEPT !.current = w]) /\ SameList(m, [m EXCEPT !.current = w])
<1> DEFINE n == [m EXCEPT !.current = w]
<1>1. w \in Windows \cup {NoWindow}
  BY ThumbnailsFacts
<1>2. n \in MruType /\ Shown(n) = Shown(m) /\ SameList(m, n)
  BY <1>1, ShownFacts
<1>3. n.current = w
  BY DEF MruType
<1>4. Shown(m) # {} => w # NoWindow
  BY WindowsFacts, ThumbnailsFacts
<1> HIDE DEF n
<1>5. Verified(n)
  BY <1>2, <1>3, <1>4, VerifiedFacts
<1> QED
  BY <1>2, <1>5 DEF Sound, SameList, n

\* forward and backward
LEMMA StepFacts ==
  ASSUME NEW m, Sound(m), NEW direction
  PROVE  Sound(Step(m, direction)) /\ SameList(m, Step(m, direction))
<1>1. m \in MruType /\ Distinct(m.thumbnails) /\ Verified(m)
  BY DEF Sound
<1>2. CASE m.current = NoWindow
  BY <1>2 DEF Step, Forward, Backward, SameList
<1>3. CASE m.current # NoWindow
  <2>1. /\ Thumbnails(m) \in Seq(Windows) /\ Distinct(Thumbnails(m))
        /\ ToSet(Thumbnails(m)) = Shown(m) /\ m.current \in Shown(m)
    BY <1>1, <1>3, ThumbnailsFacts, VerifiedFacts
  <2>2. /\ Reverse(Thumbnails(m)) \in Seq(Windows) /\ Distinct(Reverse(Thumbnails(m)))
        /\ ToSet(Reverse(Thumbnails(m))) = Shown(m)
    BY <2>1, ReverseFacts
  <2>3. NextIn(Thumbnails(m), m.current) \in Shown(m)
    BY <2>1, NextInFacts
  <2>4. NextIn(Reverse(Thumbnails(m)), m.current) \in Shown(m)
    BY <2>1, <2>2, NextInFacts
  <2>5. Sound(Forward(m)) /\ SameList(m, Forward(m))
    BY <1>1, <1>3, <2>1, <2>3, SelectionFacts DEF Forward
  <2>6. Sound(Backward(m)) /\ SameList(m, Backward(m))
    BY <1>1, <1>3, <2>1, <2>4, SelectionFacts DEF Backward
  <2> QED
    BY <2>5, <2>6 DEF Step
<1> QED
  BY <1>2, <1>3

\* first, last and set_current
LEMMA SelectFacts ==
  ASSUME NEW m \in MruType, Distinct(m.thumbnails)
  PROVE  /\ Sound(First(m)) /\ SameList(m, First(m))
         /\ Sound(Final(m)) /\ SameList(m, Final(m))
         /\ \A w : Verified(m) => Sound(SetCurrent(m, w)) /\ SameList(m, SetCurrent(m, w))
<1> DEFINE s == Thumbnails(m)
<1>1. s \in Seq(Windows) /\ ToSet(s) = Shown(m) /\ (s = <<>> <=> Shown(m) = {})
  BY ThumbnailsFacts
<1>2. s # <<>> => Head(s) \in ToSet(s) /\ Last(s) \in ToSet(s)
  BY <1>1 DEF ToSet, Last
<1>3. Sound(First(m)) /\ SameList(m, First(m))
  BY <1>1, <1>2, SelectionFacts DEF First, FirstOf
<1>4. Sound(Final(m)) /\ SameList(m, Final(m))
  BY <1>1, <1>2, SelectionFacts DEF Final, LastOf
<1>5. ASSUME NEW w, Verified(m)
      PROVE  Sound(SetCurrent(m, w)) /\ SameList(m, SetCurrent(m, w))
  <2>1. CASE w \in ToSet(s)
    <3>1. IF Shown(m) = {} THEN w = NoWindow ELSE w \in Shown(m)
      BY <1>1, <2>1
    <3>2. SetCurrent(m, w) = [m EXCEPT !.current = w]
      BY <2>1 DEF SetCurrent
    <3> QED
      BY <3>1, <3>2, SelectionFacts
  <2>2. CASE w \notin ToSet(s)
    BY <1>5, <2>2 DEF SetCurrent, Sound, SameList
  <2> QED
    BY <2>1, <2>2
<1> QED
  BY <1>3, <1>4, <1>5

\* After the scope or the filter changed, something that is shown is selected.
LEMMA ReselectFacts ==
  ASSUME NEW m \in MruType, Distinct(m.thumbnails),
         m.current \in ToSet(m.thumbnails) \cup {NoWindow}
  PROVE  Sound(Reselect(m)) /\ SameList(m, Reselect(m))
<1>1. CASE m.current = NoWindow
  BY <1>1, SelectFacts DEF Reselect
<1>2. CASE m.current # NoWindow
  <2> DEFINE i == IndexIn(m.thumbnails, m.current)
             before == SubSeq(m.thumbnails, 1, i)
             left == Retained(before, Shown(m))
  <2>1. m.thumbnails \in Seq(Windows) /\ i \in DOMAIN m.thumbnails
    BY <1>2 DEF MruType, IndexIn, ToSet
  <2>2. before \in Seq(Windows)
    BY <2>1
  <2>3. left \in Seq(Windows) /\ ToSet(left) = ToSet(before) \cap Shown(m)
    BY <2>2, RetainedFacts
  <2>4. CASE left = <<>>
    BY <1>2, <2>4, SelectFacts DEF Reselect
  <2>5. CASE left # <<>>
    <3>1. Last(left) \in Shown(m)
      BY <2>3, <2>5 DEF ToSet, Last
    <3>2. Reselect(m) = [m EXCEPT !.current = Last(left)]
      BY <1>2, <2>5 DEF Reselect
    <3> QED
      BY <3>1, <3>2, SelectionFacts
  <2> QED
    BY <2>4, <2>5
<1> QED
  BY <1>1, <1>2

\* set_scope, cycle_scope and set_filter
LEMMA ScopeFacts ==
  ASSUME NEW m, Sound(m), NEW scope \in Scopes
  PROVE  Sound(SetScope(m, scope)) /\ SameList(m, SetScope(m, scope))
<1>1. CASE m.scope = scope
  BY <1>1 DEF SetScope, SameList
<1>2. CASE m.scope # scope
  <2> DEFINE n == [m EXCEPT !.scope = scope]
  <2>1. m \in MruType /\ m.current \in ToSet(m.thumbnails) \cup {NoWindow}
    BY VerifiedFacts DEF Sound, Shown
  <2>2. /\ n \in MruType /\ n.thumbnails = m.thumbnails /\ n.current = m.current
        /\ n.state = m.state /\ n.output = m.output /\ n.full = m.full
    BY <2>1 DEF MruType
  <2>3. SetScope(m, scope) = Reselect(n)
    BY <1>2 DEF SetScope
  <2> HIDE DEF n
  <2>4. Sound(Reselect(n)) /\ SameList(n, Reselect(n))
    BY <2>1, <2>2, ReselectFacts DEF Sound
  <2> QED
    BY <2>2, <2>3, <2>4 DEF SameList
<1> QED
  BY <1>1, <1>2

\* Another scope leaves the switcher consistent, with the same list.
LEMMA CycleFacts ==
  ASSUME NEW m, Sound(m)
  PROVE  Sound(CycleScope(m)) /\ SameList(m, CycleScope(m))
<1>1. m.scope \in {"All", "Output", "Workspace"}
  BY DEF Sound, MruType, Scopes
<1>2. \E x \in Scopes : CycleScope(m) = SetScope(m, x)
  BY <1>1 DEF CycleScope, Scopes
<1> QED
  BY <1>2, ScopeFacts

\* Another filter leaves the switcher consistent, with the same list.
LEMMA FilterFacts ==
  ASSUME NEW m, Sound(m), NEW filter
  PROVE  Sound(SetFilter(m, filter)) /\ SameList(m, SetFilter(m, filter))
<1> DEFINE app == IF filter = "All" THEN NoApp
                  ELSE IF m.current = NoWindow THEN NoApp ELSE AppOf[m.current]
           n == [m EXCEPT !.filter = app]
<1>1. m \in MruType /\ m.current \in ToSet(m.thumbnails) \cup {NoWindow}
  BY VerifiedFacts DEF Sound, Shown
<1>2. app \in Range(AppOf) \cup {NoApp}
  BY <1>1, WindowsFacts DEF MruType
<1>3. /\ n \in MruType /\ n.thumbnails = m.thumbnails /\ n.current = m.current
      /\ n.state = m.state /\ n.output = m.output /\ n.full = m.full
  BY <1>1, <1>2 DEF MruType
<1>4. SetFilter(m, filter) = m \/ SetFilter(m, filter) = Reselect(n)
  BY DEF SetFilter
<1> HIDE DEF n
<1>5. Sound(Reselect(n)) /\ SameList(n, Reselect(n))
  BY <1>1, <1>3, ReselectFacts DEF Sound
<1> QED
  BY <1>3, <1>4, <1>5 DEF SameList

---------------------------------------------------------------------------
(* The inductive invariant. *)

\* Of a bind: what can be configured or is hardcoded.
WellFormed(action) ==
  /\ action.scope \in Options(Scopes)
  /\ action.name = "MruSetScope" => action.scope # {}

TypeInv ==
  /\ scenario \in Scripts
  /\ pressed \in [Inputs -> {"Up", "Intercepted", "Forwarded", "Forgotten"}]
  /\ mapped \in SUBSET Windows /\ IsFiniteSet(mapped)
  /\ active \in mapped \cup {NoWindow}
  /\ outputs \in SUBSET Outputs
  /\ lock \in {"Unlocked", "WaitingForSurfaces", "Locking", "Locked"}

\* A bind that repeats and would open the switcher has its modifiers held.
RepeatHeld ==
  \A bind \in repeat :
    /\ WellFormed(bind.action)
    /\ bind.allow_when_locked => bind.action.name = "Spawn"
    /\ bind.action.name = "MruAdvance" => Down(pressed, Mods) # {}

\* A switcher that is open is on an output that is there and lists windows that are.
Proper(m) ==
  /\ m \in MruType
  /\ m.full => IsOpen(m)
  /\ IsOpen(m) => /\ Sound(m) /\ ToSet(m.thumbnails) \subseteq mapped /\ m.thumbnails # <<>>
                  /\ \E o \in outputs : m.output = {o}

Switcher == Proper(mru) /\ (IsOpen(mru) => Down(pressed, Mods) # {})

LockCloses == IsLocked => ~screenshot /\ ~IsOpen(mru)

\* Windows have one focus timestamp each, also the one whose next is pending.
Stamped ==
  /\ recency \in Seq(Windows \cup {NoWindow}) /\ Distinct(recency)
  /\ ToSet(recency) \subseteq mapped \cup {NoWindow}
  /\ pending \in mapped \cup {NoWindow}
  /\ pending # NoWindow => pending \in ToSet(recency) /\ scenario.debounce

\* The window with the focus has the last timestamp, or will have the pending one, which
\* is the last.
FocusIsLast ==
  focus.window \in mapped =>
    /\ recency # <<>>
    /\ Last(recency) = IF pending = focus.window THEN NoWindow ELSE focus.window

SeatInv ==
  TypeInv /\ KeysBalanced /\ RepeatHeld /\ Switcher /\ LockCloses /\ Stamped /\ FocusIsLast

---------------------------------------------------------------------------
(* Timestamps. *)

\* What stays of a list when one element goes.
LEMMA WithoutFacts ==
  ASSUME NEW T, NEW s \in Seq(T), NEW x
  PROVE  /\ Without(s, x) \in Seq(T)
         /\ ToSet(Without(s, x)) = ToSet(s) \ {x}
         /\ Distinct(s) => Distinct(Without(s, x))
         /\ s # <<>> /\ Last(s) # x => Without(s, x) # <<>> /\ Last(Without(s, x)) = Last(s)
<1> DEFINE r == Without(s, x)
           S == ToSet(s) \ {x}
<1>1. r \in Seq(T) /\ ToSet(r) = ToSet(s) \cap S
  BY RetainedFacts DEF Without
<1>2. Distinct(s) => Distinct(r)
  BY RetainedDistinct DEF Without, Distinct
<1>3. ASSUME s # <<>>, Last(s) # x PROVE r # <<>> /\ Last(r) = Last(s)
  <2>1. PICK at \in [DOMAIN r -> {i \in DOMAIN s : s[i] \in S}] :
          /\ \A n \in DOMAIN at : r[n] = s[at[n]]
          /\ \A i \in DOMAIN s : s[i] \in S => \E n \in DOMAIN at : at[n] = i
          /\ \A m, n \in DOMAIN at : m < n => at[m] < at[n]
    <3>1. r = Retained(s, S)
      BY DEF Without
    <3> HIDE DEF r, S
    <3> QED
      BY <3>1, RetainedFacts
  <2>2. Len(s) \in DOMAIN s /\ s[Len(s)] = Last(s) /\ Last(s) \in S
    BY <1>3 DEF Last, ToSet
  <2>3. PICK n \in DOMAIN r : at[n] = Len(s)
    BY <2>1, <2>2
  <2>4. Len(r) \in Nat /\ DOMAIN r = 1 .. Len(r)
    BY <1>1
  <2>5. n = Len(r)
    <3>1. ASSUME n < Len(r) PROVE FALSE
      <4>1. Len(r) \in DOMAIN r
        BY <2>3, <2>4, <3>1
      <4>2. at[n] < at[Len(r)] /\ at[Len(r)] \in DOMAIN s
        BY <2>1, <2>3, <3>1, <4>1
      <4> QED
        BY <2>3, <4>2
    <3> QED
      BY <2>3, <2>4, <3>1
  <2> QED
    BY <2>1, <2>2, <2>3, <2>4, <2>5 DEF Last
<1> QED
  BY <1>1, <1>2, <1>3

\* An element is appended that is not there.
LEMMA AppendDistinct ==
  ASSUME NEW T, NEW s \in Seq(T), NEW x \in T, Distinct(s), x \notin ToSet(s)
  PROVE  /\ Append(s, x) \in Seq(T) /\ Distinct(Append(s, x)) /\ Append(s, x) # <<>>
         /\ ToSet(Append(s, x)) = ToSet(s) \cup {x} /\ Last(Append(s, x)) = x
<1>1. /\ Append(s, x) \in Seq(T) /\ Append(s, x) # <<>> /\ Last(Append(s, x)) = x
      /\ DOMAIN Append(s, x) = DOMAIN s \cup {Len(s) + 1} /\ Append(s, x)[Len(s) + 1] = x
      /\ \A i \in DOMAIN s : Append(s, x)[i] = s[i] /\ i # Len(s) + 1
  BY DEF Last
<1>2. ToSet(Append(s, x)) = ToSet(s) \cup {x}
  BY <1>1 DEF ToSet
<1>3. Distinct(Append(s, x))
  BY <1>1 DEF Distinct, ToSet
<1> QED
  BY <1>1, <1>2, <1>3

\* mru_apply_keyboard_commit
LEMMA CommittedFacts ==
  ASSUME TypeInv, Stamped
  PROVE  /\ Committed \in Seq(Windows \cup {NoWindow}) /\ Distinct(Committed)
         /\ ToSet(Committed) \subseteq mapped \cup {NoWindow}
         /\ FocusIsLast /\ focus.window \in mapped =>
              Committed # <<>> /\ Last(Committed) = focus.window
<1> DEFINE others == Without(recency, pending)
           W == Windows \cup {NoWindow}
<1>2. CASE pending = NoWindow
  BY <1>2, WindowsFacts DEF Committed, Stamped, FocusIsLast, TypeInv
<1>3. CASE pending # NoWindow
  <2>1. /\ others \in Seq(W) /\ Distinct(others) /\ ToSet(others) = ToSet(recency) \ {pending}
        /\ recency # <<>> /\ Last(recency) # pending => others # <<>> /\ Last(others) = Last(recency)
    BY WithoutFacts DEF Stamped
  <2> DEFINE c == [i \in DOMAIN others |-> IF others[i] = NoWindow THEN pending ELSE others[i]]
  <2>2. Committed = c
    BY <1>3 DEF Committed
  <2> HIDE DEF others
  <2>3. c \in Seq(W) /\ DOMAIN c = DOMAIN others
    BY <2>1 DEF Stamped, TypeInv
  <2>4. Distinct(c)
    <3>1. \A i \in DOMAIN others : others[i] # pending
      BY <2>1 DEF ToSet
    <3> QED
      BY <2>1, <2>3, <3>1 DEF Distinct
  <2>5. ToSet(c) \subseteq mapped \cup {NoWindow}
    BY <2>1 DEF Stamped, ToSet
  <2>6. ASSUME FocusIsLast, focus.window \in mapped PROVE c # <<>> /\ Last(c) = focus.window
    <3>1. recency # <<>> /\ Last(recency) # pending
      BY <1>3, <2>6 DEF FocusIsLast
    <3>2. others # <<>> /\ Last(others) = Last(recency) /\ Len(others) \in DOMAIN others
          /\ Last(others) = others[Len(others)]
      BY <2>1, <3>1 DEF Last
    <3>3. c # <<>> /\ Last(c) = c[Len(others)]
      BY <2>1, <2>3, <3>2 DEF Last
    <3> QED
      BY <2>6, <3>2, <3>3, WindowsFacts DEF FocusIsLast, TypeInv
  <2> QED
    BY <2>2, <2>3, <2>4, <2>5, <2>6
<1> QED
  BY <1>2, <1>3

\* The list that the switcher opens with: all windows, and first the one with the last
\* timestamp.
LEMMA ByRecencyFacts ==
  ASSUME TypeInv, NEW s \in Seq(Windows \cup {NoWindow}), Distinct(s),
         ToSet(s) \subseteq mapped \cup {NoWindow}
  PROVE  /\ ByRecency(s) \in Seq(Windows) /\ Distinct(ByRecency(s))
         /\ ToSet(ByRecency(s)) = mapped
         /\ s # <<>> /\ Last(s) # NoWindow => Head(ByRecency(s)) = Last(s)
<1> DEFINE seen == Without(s, NoWindow)
           front == Reverse(seen)
           rest == InOrder(mapped \ ToSet(s))
           all == front \o rest
<1>1. mapped \subseteq Windows /\ IsFiniteSet(mapped)
  BY DEF TypeInv
<1>2. /\ seen \in Seq(Windows \cup {NoWindow}) /\ Distinct(seen) /\ ToSet(seen) = ToSet(s) \ {NoWindow}
      /\ s # <<>> /\ Last(s) # NoWindow => seen # <<>> /\ Last(seen) = Last(s)
  BY WithoutFacts
<1>3. \A i \in DOMAIN seen : seen[i] \in mapped /\ seen[i] \in ToSet(s)
  BY <1>2 DEF ToSet
<1>4. seen \in Seq(Windows)
  BY <1>1, <1>2, <1>3
<1> HIDE DEF seen
<1>5. /\ front \in Seq(Windows) /\ Len(front) = Len(seen) /\ Distinct(front)
      /\ ToSet(front) = ToSet(s) \ {NoWindow}
  BY <1>2, <1>4, ReverseFacts
<1>6. seen # <<>> => Head(front) = Last(seen) /\ front # <<>>
  BY <1>4 DEF Reverse, Last
<1> HIDE DEF front
<1>7. mapped \ ToSet(s) \in SUBSET Nat /\ IsFiniteSet(mapped \ ToSet(s))
  BY <1>1, WindowsFacts, FS_Difference
<1> DEFINE C == Cardinality(mapped \ ToSet(s))
<1>8. /\ C \in Nat /\ rest \in [1 .. C -> mapped \ ToSet(s)]
      /\ \A w \in mapped \ ToSet(s) : \E n \in 1 .. C : rest[n] = w
      /\ \A m, n \in 1 .. C : m < n => rest[m] < rest[n]
  BY <1>7, InOrderFacts
<1> HIDE DEF rest, C
<1>9. rest \in Seq(Windows) /\ DOMAIN rest = 1 .. C /\ Len(rest) = C
  BY <1>1, <1>8
<1>10. Distinct(rest)
  <2> SUFFICES ASSUME NEW m \in 1 .. C, NEW n \in 1 .. C, rest[m] = rest[n], m < n PROVE FALSE
    BY <1>8, <1>9 DEF Distinct
  <2>1. rest[m] < rest[n] /\ rest[m] \in Nat
    BY <1>7, <1>8
  <2> QED
    BY <2>1
<1>11. ByRecency(s) = all
  BY DEF ByRecency, front, rest, seen
<1>12. /\ all \in Seq(Windows) /\ DOMAIN all = 1 .. Len(front) + C
       /\ \A i \in DOMAIN front : i \in DOMAIN all /\ all[i] = front[i]
       /\ \A i \in DOMAIN all : i \in DOMAIN front \/ i - Len(front) \in 1 .. C
       /\ \A i \in DOMAIN all : i \notin DOMAIN front => all[i] = rest[i - Len(front)]
       /\ \A n \in 1 .. C : n + Len(front) \in DOMAIN all /\ n + Len(front) \notin DOMAIN front
                            /\ (n + Len(front)) - Len(front) = n
  <2>1. Len(front) \in Nat /\ DOMAIN front = 1 .. Len(front)
    BY <1>5
  <2>2. /\ all \in Seq(Windows) /\ Len(all) = Len(front) + C
        /\ \A i \in 1 .. Len(front) + C :
             all[i] = IF i <= Len(front) THEN front[i] ELSE rest[i - Len(front)]
    BY <1>5, <1>9, ConcatProperties
  <2>3. DOMAIN all = 1 .. Len(front) + C
    BY <2>1, <2>2
  <2> HIDE DEF all
  <2> QED
    BY <1>8, <2>1, <2>2, <2>3
<1> HIDE DEF all
<1>13. ToSet(all) = mapped
  <2>1. \A i \in DOMAIN all : all[i] \in mapped
    <3> TAKE i \in DOMAIN all
    <3>1. CASE i \in DOMAIN front
      <4>1. all[i] \in ToSet(front)
        BY <1>12, <3>1 DEF ToSet
      <4> QED
        BY <1>5, <4>1
    <3>2. CASE i \notin DOMAIN front
      BY <1>8, <1>12, <3>2
    <3> QED
      BY <3>1, <3>2
  <2>2. ASSUME NEW w \in mapped PROVE w \in ToSet(all)
    <3>1. CASE w \in ToSet(s)
      <4>1. w \in ToSet(front)
        BY <1>1, <1>5, <3>1, WindowsFacts
      <4>2. PICK i \in DOMAIN front : front[i] = w
        BY <4>1 DEF ToSet
      <4> QED
        BY <1>12, <4>2 DEF ToSet
    <3>2. CASE w \notin ToSet(s)
      <4>1. PICK n \in 1 .. C : rest[n] = w
        BY <1>8, <3>2
      <4>2. all[n + Len(front)] = w /\ n + Len(front) \in DOMAIN all
        BY <1>12, <4>1
      <4> QED
        BY <4>2 DEF ToSet
    <3> QED
      BY <3>1, <3>2
  <2> QED
    BY <2>1, <2>2 DEF ToSet
<1>14. Distinct(all)
  <2> SUFFICES ASSUME NEW i \in DOMAIN all, NEW j \in DOMAIN all, all[i] = all[j] PROVE i = j
    BY DEF Distinct
  <2>1. ASSUME NEW k \in DOMAIN all, k \in DOMAIN front PROVE all[k] \in ToSet(s)
    <3>1. all[k] \in ToSet(front)
      BY <1>12, <2>1 DEF ToSet
    <3> QED
      BY <1>5, <3>1
  <2>2. ASSUME NEW k \in DOMAIN all, k \notin DOMAIN front PROVE all[k] \notin ToSet(s)
    BY <1>8, <1>12, <2>2
  <2>3. CASE i \in DOMAIN front
    BY <1>5, <1>12, <2>1, <2>2, <2>3 DEF Distinct
  <2>4. CASE i \notin DOMAIN front
    <3>1. j \notin DOMAIN front
      BY <2>1, <2>2, <2>4
    <3>2. i - Len(front) = j - Len(front)
      BY <1>9, <1>10, <1>12, <2>4, <3>1 DEF Distinct
    <3> QED
      BY <1>5, <1>12, <3>2
  <2> QED
    BY <2>3, <2>4
<1>15. front # <<>> => Head(all) = Head(front)
  BY <1>5, <1>12
<1> QED
  BY <1>2, <1>6, <1>11, <1>12, <1>13, <1>14, <1>15

---------------------------------------------------------------------------
(* What becomes of the switcher. *)

\* A switcher that is closed, or fades out, is consistent.
LEMMA ShutFacts ==
  ASSUME NEW state \in {"Closing", "Closed"}, NEW scope \in Scopes
  PROVE  Proper(Shut(state, scope)) /\ ~IsOpen(Shut(state, scope))
<1>1. <<>> \in Seq(Windows)
  OBVIOUS
<1> QED
  BY <1>1 DEF Proper, Shut, IsOpen, MruType

\* Closing leaves it consistent.
LEMMA CloseFacts ==
  ASSUME NEW m \in MruType, Proper(m)
  PROVE  Proper(Close(m)) /\ ~IsOpen(Close(m))
<1>1. CASE IsOpen(m)
  <2>1. m.scope \in Scopes
    BY DEF MruType
  <2>2. \E state \in {"Closing", "Closed"} : Close(m) = Shut(state, m.scope)
    BY <1>1 DEF Close
  <2> QED
    BY <2>1, <2>2, ShutFacts
<1>2. CASE ~IsOpen(m)
  BY <1>2 DEF Close
<1> QED
  BY <1>1, <1>2

\* Navigating in a proper switcher.
LEMMA SameListProper ==
  ASSUME NEW m, NEW n, Proper(m), Sound(n), SameList(m, n)
  PROVE  Proper(n)
BY DEF Proper, SameList, IsOpen, Sound

\* A new list of windows is consistent.
LEMMA NewListFacts ==
  ASSUME NEW order \in Seq(Windows), Distinct(order), order # <<>>,
         NEW near \in SUBSET Windows, NEW here \in SUBSET Windows, NEW o \in Outputs
  PROVE  Sound(NewWindowMru(order, near, here, o))
<1> DEFINE n == NewWindowMru(order, near, here, o)
<1>1. Head(order) \in Windows /\ Head(order) \in ToSet(order)
  BY DEF ToSet
<1>2. n \in MruType
  BY <1>1 DEF NewWindowMru, MruType, Scopes, FirstOf
<1>3. n.thumbnails = order /\ n.current = Head(order) /\ n.scope = "All" /\ n.filter = NoApp
  BY DEF NewWindowMru, FirstOf
<1> HIDE DEF n
<1>4. Shown(n) = ToSet(order)
  BY <1>3 DEF Shown, Matches
<1>5. Verified(n)
  BY <1>1, <1>2, <1>3, <1>4, VerifiedFacts, WindowsFacts
<1> QED
  BY <1>2, <1>3, <1>5 DEF Sound, n

\* Opening the switcher gives a consistent one, of the windows in their order.
LEMMA OpenMruFacts ==
  ASSUME TypeInv, Proper(mru), mapped # {}, NEW action, WellFormed(action),
         NEW order \in Seq(Windows), Distinct(order), ToSet(order) = mapped,
         OpenMru(action, order)
  PROVE  Proper(mru') /\ IsOpen(mru') /\ mru'.thumbnails = order
<1>1. PICK o \in outputs, near \in SUBSET mapped : \E here \in SUBSET near :
        LET made == NewWindowMru(order, near, here, o)
            scoped == SetScope(made, IF action.scope = {} THEN mru.scope
                                     ELSE CHOOSE x \in action.scope : TRUE)
            filtered == IF action.filter = {} THEN scoped
                        ELSE SetFilter(scoped, CHOOSE x \in action.filter : TRUE)
        IN  mru' = IF action.direction = "Forward" /\ active = NoWindow THEN filtered
                   ELSE Step(filtered, action.direction)
  BY DEF OpenMru
<1>2. PICK here \in SUBSET near :
        LET made == NewWindowMru(order, near, here, o)
            scoped == SetScope(made, IF action.scope = {} THEN mru.scope
                                     ELSE CHOOSE x \in action.scope : TRUE)
            filtered == IF action.filter = {} THEN scoped
                        ELSE SetFilter(scoped, CHOOSE x \in action.filter : TRUE)
        IN  mru' = IF action.direction = "Forward" /\ active = NoWindow THEN filtered
                   ELSE Step(filtered, action.direction)
  BY <1>1
<1> DEFINE scope == IF action.scope = {} THEN mru.scope ELSE CHOOSE x \in action.scope : TRUE
           made == NewWindowMru(order, near, here, o)
           scoped == SetScope(made, scope)
           filtered == IF action.filter = {} THEN scoped
                       ELSE SetFilter(scoped, CHOOSE x \in action.filter : TRUE)
<1>3. o \in Outputs /\ near \in SUBSET Windows /\ here \in SUBSET Windows /\ order # <<>>
  BY <1>1, <1>2 DEF TypeInv, ToSet
<1>4. Sound(made) /\ made.state = "Open" /\ made.thumbnails = order /\ made.output = {o}
      /\ made.full = FALSE
  BY <1>3, NewListFacts DEF NewWindowMru
<1>5. scope \in Scopes
  BY DEF Proper, MruType, WellFormed, Options
<1> HIDE DEF made, scope
<1>6. Sound(scoped) /\ SameList(made, scoped)
  BY <1>4, <1>5, ScopeFacts
<1> HIDE DEF scoped
<1>7. Sound(filtered) /\ SameList(made, filtered)
  BY <1>6, FilterFacts DEF SameList
<1> HIDE DEF filtered
<1>8. Sound(Step(filtered, action.direction)) /\ SameList(made, Step(filtered, action.direction))
  BY <1>7, StepFacts DEF SameList
<1>9. mru' = filtered \/ mru' = Step(filtered, action.direction)
  BY <1>2 DEF filtered, scoped, made, scope
<1>10. Sound(mru') /\ SameList(made, mru')
  BY <1>7, <1>8, <1>9
<1> QED
  BY <1>1, <1>3, <1>4, <1>10 DEF Proper, IsOpen, SameList, Sound

\* Navigation keeps an open switcher consistent.
LEMMA NavigatedFacts ==
  ASSUME Proper(mru), IsOpen(mru), NEW action, WellFormed(action),
         action.name \in {"MruFirst", "MruLast", "MruCycleScope", "MruSetScope", "MruAdvance"}
  PROVE  Proper(Navigated(action))
<1>1. Sound(mru) /\ mru \in MruType /\ Distinct(mru.thumbnails)
  BY DEF Proper, Sound
<1>2. CASE action.name = "MruFirst"
  BY <1>1, <1>2, SelectFacts, SameListProper DEF Navigated
<1>3. CASE action.name = "MruLast"
  BY <1>1, <1>3, SelectFacts, SameListProper DEF Navigated
<1>4. CASE action.name = "MruCycleScope"
  BY <1>1, <1>4, CycleFacts, SameListProper DEF Navigated
<1>5. CASE action.name = "MruSetScope"
  <2> DEFINE x == CHOOSE x \in action.scope : TRUE
  <2>1. x \in Scopes
    BY <1>5 DEF WellFormed, Options
  <2>2. Navigated(action) = SetScope(mru, x)
    BY <1>5 DEF Navigated
  <2> HIDE DEF x
  <2> QED
    BY <1>1, <2>1, <2>2, ScopeFacts, SameListProper
<1>6. CASE action.name = "MruAdvance"
  <2> DEFINE n == IF action.filter = {} THEN mru
                  ELSE SetFilter(mru, CHOOSE x \in action.filter : TRUE)
  <2>1. Sound(n) /\ SameList(mru, n)
    BY <1>1, FilterFacts DEF SameList
  <2>2. Navigated(action) = Step(n, action.direction)
    BY <1>6 DEF Navigated
  <2> HIDE DEF n
  <2>3. Sound(Step(n, action.direction)) /\ SameList(mru, Step(n, action.direction))
    BY <2>1, StepFacts DEF SameList
  <2> QED
    BY <2>2, <2>3, SameListProper
<1> QED
  BY <1>2, <1>3, <1>4, <1>5, <1>6

\* Windows and outputs stay: what is proper remains so.
LEMMA ProperStays ==
  ASSUME Proper(mru'), UNCHANGED <<mapped, outputs>>
  PROVE  Proper(mru)'
BY DEF Proper, IsOpen, Sound, Distinct, Verified, MruType

\* remove_window: what was shown still is, but for the window that goes.
LEMMA RemovedFacts ==
  ASSUME NEW m, Sound(m), NEW w \in ToSet(m.thumbnails)
  PROVE  /\ Sound(Removed(m, w))
         /\ Removed(m, w).thumbnails = Without(m.thumbnails, w)
         /\ Removed(m, w).state = m.state /\ Removed(m, w).output = m.output
         /\ Removed(m, w).full = m.full
<1> DEFINE moved == IF m.current = w THEN Forward(m) ELSE m
           r == Removed(m, w)
           c == IF moved.current = w THEN NoWindow ELSE moved.current
<1>1. m \in MruType /\ Distinct(m.thumbnails) /\ m.thumbnails \in Seq(Windows) /\ w \in Windows
  BY DEF Sound, MruType, ToSet
<1>2. Sound(moved) /\ SameList(m, moved)
  BY StepFacts DEF Step, SameList
<1>3. moved \in MruType /\ moved.thumbnails = m.thumbnails
  BY <1>2 DEF Sound, SameList
<1>4. /\ Without(m.thumbnails, w) \in Seq(Windows) /\ Distinct(Without(m.thumbnails, w))
      /\ ToSet(Without(m.thumbnails, w)) = ToSet(m.thumbnails) \ {w}
  BY <1>1, WithoutFacts
<1>5. moved.current = w => Shown(moved) = {w}
  <2> SUFFICES ASSUME moved.current = w PROVE Shown(moved) = {w}
    OBVIOUS
  <2>1. m.current = w /\ w # NoWindow
    BY <1>1, WindowsFacts
  <2>2. moved = [m EXCEPT !.current = NextIn(Thumbnails(m), w)]
    BY <2>1 DEF Forward
  <2>3. NextIn(Thumbnails(m), w) = w
    BY <1>1, <2>2 DEF MruType
  <2>4. /\ Thumbnails(m) \in Seq(Windows) /\ Distinct(Thumbnails(m))
        /\ ToSet(Thumbnails(m)) = Shown(m) /\ w \in Shown(m)
    BY <1>1, <2>1, ThumbnailsFacts, VerifiedFacts DEF Sound
  <2>5. Shown(m) = {w}
    BY <2>3, <2>4, NextInFacts
  <2> QED
    BY <1>1, <2>2, <2>3, <2>5, ShownFacts
<1> HIDE DEF moved
<1>6. r = [moved EXCEPT !.current = c, !.thumbnails = Without(m.thumbnails, w)]
  BY <1>3 DEF Removed, moved
<1>7. c \in Windows \cup {NoWindow}
  BY <1>3 DEF MruType
<1> HIDE DEF c
<1>8. /\ r \in MruType /\ r.current = c /\ r.thumbnails = Without(m.thumbnails, w)
      /\ r.state = m.state /\ r.output = m.output /\ r.full = m.full
      /\ r.scope = moved.scope /\ r.near = moved.near /\ r.here = moved.here
      /\ r.filter = moved.filter
  BY <1>2, <1>3, <1>4, <1>6, <1>7 DEF MruType, SameList
<1> HIDE DEF r
<1>9. Shown(r) = Shown(moved) \ {w}
  BY <1>3, <1>4, <1>8 DEF Shown, Matches
<1>10. Verified(moved)
  BY <1>2 DEF Sound
<1>11. Verified(r)
  <2>1. IF moved.current = NoWindow THEN Shown(moved) = {} ELSE moved.current \in Shown(moved)
    BY <1>3, <1>10, VerifiedFacts
  <2>2. IF r.current = NoWindow THEN Shown(r) = {} ELSE r.current \in Shown(r)
    BY <1>5, <1>8, <1>9, <2>1 DEF c
  <2> QED
    BY <1>8, <2>2, VerifiedFacts
<1> QED
  BY <1>4, <1>8, <1>11 DEF Sound, r

\* A window goes, and the switcher forgets it or closes.
LEMMA RemoveWindowFacts ==
  ASSUME Proper(mru), NEW w \in mapped, mapped' = mapped \ {w}, UNCHANGED outputs,
         mru' = RemoveWindow(mru, w)
  PROVE  Proper(mru)' /\ (IsOpen(mru') => IsOpen(mru))
<1>1. CASE ~IsOpen(mru)
  BY <1>1 DEF RemoveWindow, Proper, IsOpen, MruType
<1>2. CASE IsOpen(mru)
  <2>1. Sound(mru) /\ mru \in MruType /\ mru.thumbnails \in Seq(Windows)
    BY <1>2 DEF Proper, Sound, MruType
  <2>2. CASE w \notin ToSet(mru.thumbnails)
    <3>1. mru' = mru
      BY <2>2 DEF RemoveWindow
    <3> QED
      BY <1>2, <2>2, <3>1 DEF Proper, IsOpen, Sound, Distinct, Verified, MruType
  <2>3. CASE w \in ToSet(mru.thumbnails)
    <3> DEFINE r == Removed(mru, w)
    <3>1. /\ Sound(r) /\ r.thumbnails = Without(mru.thumbnails, w)
          /\ r.state = mru.state /\ r.output = mru.output /\ r.full = mru.full
      BY <2>1, <2>3, RemovedFacts
    <3>2. mru' = IF r.thumbnails = <<>> THEN Close(r) ELSE r
      BY <1>2, <2>3 DEF RemoveWindow
    <3> HIDE DEF r
    <3>3. CASE r.thumbnails = <<>>
      <4>1. IsOpen(r) /\ r.scope \in Scopes
        BY <1>2, <3>1 DEF IsOpen, Sound, MruType
      <4>2. PICK state \in {"Closing", "Closed"} : mru' = Shut(state, r.scope)
        BY <3>2, <3>3, <4>1 DEF Close
      <4>3. mru' \in MruType /\ ~mru'.full /\ mru'.state # "Open"
        <5>1. <<>> \in Seq(Windows)
          OBVIOUS
        <5> QED
          BY <4>1, <4>2, <5>1 DEF Shut, MruType
      <4> QED
        BY <4>3 DEF Proper, IsOpen, MruType
    <3>4. CASE r.thumbnails # <<>>
      <4>1. mru' = r
        BY <3>2, <3>4
      <4>2. ToSet(r.thumbnails) \subseteq mapped'
        BY <1>2, <2>1, <3>1, WithoutFacts DEF Proper
      <4> QED
        BY <1>2, <3>1, <3>4, <4>1, <4>2 DEF Proper, IsOpen, Sound, Distinct, Verified, MruType
    <3> QED
      BY <3>3, <3>4
  <2> QED
    BY <2>2, <2>3
<1> QED
  BY <1>1, <1>2

---------------------------------------------------------------------------
(* Actions of binds and of requests. *)

\* A step that leaves the windows and the focus alone may apply the pending commit.
LEMMA StampsStay ==
  ASSUME TypeInv, Stamped, FocusIsLast, UNCHANGED <<mapped, focus, scenario>>,
         UNCHANGED stamps \/ MruApplyKeyboardCommit
  PROVE  Stamped' /\ FocusIsLast'
<1>1. CASE UNCHANGED stamps
  BY <1>1 DEF stamps, Stamped, FocusIsLast, Distinct
<1>2. CASE MruApplyKeyboardCommit
  <2>1. recency' = Committed /\ pending' = NoWindow
    BY <1>2 DEF MruApplyKeyboardCommit
  <2>2. /\ Committed \in Seq(Windows \cup {NoWindow}) /\ Distinct(Committed)
        /\ ToSet(Committed) \subseteq mapped \cup {NoWindow}
        /\ focus.window \in mapped => Committed # <<>> /\ Last(Committed) = focus.window
    BY CommittedFacts
  <2>3. focus.window \in mapped => focus.window # NoWindow
    BY WindowsFacts DEF TypeInv
  <2> QED
    BY <2>1, <2>2, <2>3 DEF Stamped, FocusIsLast, Distinct
<1> QED
  BY <1>1, <1>2

\* Focusing the previous window chooses one that is there.
LEMMA PreviousFacts ==
  ASSUME TypeInv, Stamped, FocusWindowPrevious
  PROVE  active' \in mapped \cup {NoWindow} /\ (UNCHANGED stamps \/ MruApplyKeyboardCommit)
<1> DEFINE seen == Without(Without(recency, NoWindow), active)
           others == InOrder(mapped \ {active})
           C == Cardinality(mapped \ {active})
<1>1. CASE others = <<>>
  BY <1>1 DEF FocusWindowPrevious, TypeInv
<1>2. CASE others # <<>>
  <2>1. active' = (IF seen = <<>> THEN Last(others) ELSE Last(seen)) /\ MruApplyKeyboardCommit
    BY <1>2 DEF FocusWindowPrevious
  <2>2. /\ seen \in Seq(Windows \cup {NoWindow})
        /\ ToSet(seen) = (ToSet(recency) \ {NoWindow}) \ {active}
    BY WithoutFacts DEF Stamped
  <2> HIDE DEF seen
  <2>3. seen # <<>> => Last(seen) \in mapped
    <3>1. seen # <<>> => Last(seen) \in ToSet(seen)
      BY <2>2 DEF ToSet, Last
    <3> QED
      BY <2>2, <3>1 DEF Stamped
  <2>4. mapped \ {active} \in SUBSET Nat /\ IsFiniteSet(mapped \ {active})
    BY WindowsFacts, FS_Difference DEF TypeInv
  <2>5. C \in Nat /\ others \in [1 .. C -> mapped \ {active}]
    BY <2>4, InOrderFacts
  <2> HIDE DEF others, C
  <2>6. Last(others) \in mapped
    <3>1. Len(others) = C /\ others \in Seq(mapped)
      BY <2>5
    <3> QED
      BY <1>2, <3>1 DEF Last
  <2> QED
    BY <2>1, <2>3, <2>6
<1> QED
  BY <1>1, <1>2

\* What doing an action can lead to.
LEMMA DoActionFacts ==
  ASSUME SeatInv, NEW action, WellFormed(action), NEW allow,
         allow => action.name = "Spawn", NEW p, NEW s, DoAction(action, allow, p, s)
  PROVE  /\ Proper(mru')
         /\ IsOpen(mru') => ~IsLocked /\ (IsOpen(mru) \/ action.name = "MruAdvance")
         /\ screenshot' => screenshot \/ ~IsLocked
         /\ screenshot' /\ IsOpen(mru') => screenshot
         /\ active' \in mapped \cup {NoWindow}
         /\ UNCHANGED stamps \/ MruApplyKeyboardCommit
         /\ \/ pressed' = p /\ suppressed' = s
            \/ ChangeVt(p) /\ suppressed' = s \ Keys
         /\ ~IsOpen(mru) /\ IsOpen(mru') => mru'.thumbnails = ByRecency(Committed)
<1>1. /\ TypeInv /\ Stamped /\ Proper(mru) /\ active \in mapped \cup {NoWindow}
      /\ IsLocked => ~screenshot /\ ~IsOpen(mru)
  BY DEF SeatInv, Switcher, TypeInv, LockCloses
<1>2. \/ pressed' = p /\ suppressed' = s
      \/ ChangeVt(p) /\ suppressed' = s \ Keys
  BY DEF DoAction
<1>3. CASE UNCHANGED <<overlays, active, stamps>>
  BY <1>1, <1>2, <1>3 DEF overlays
<1>4. CASE ~UNCHANGED <<overlays, active, stamps>>
  <2>1. ~IsLocked \/ allow \/ AllowedWhenLocked(action)
    BY <1>4 DEF DoAction
  <2>2. IsLocked => action.name \in {"Quit", "QuitNow", "ChangeVt", "Spawn"}
    BY <2>1 DEF AllowedWhenLocked
  <2>3. CASE action.name = "Quit" /\ Quit
    BY <1>1, <1>2, <2>3 DEF Quit
  <2>4. CASE action.name = "Screenshot" /\ OpenScreenshotUi
    <3>1. Proper(mru') /\ ~IsOpen(mru')
      BY <1>1, <2>4, CloseFacts DEF OpenScreenshotUi, Proper
    <3> QED
      BY <1>1, <1>2, <2>2, <2>4, <3>1 DEF OpenScreenshotUi
  <2>5. CASE action.name \in {"ConfirmScreenshot", "CancelScreenshot"} /\ CloseScreenshotUi
    BY <1>1, <1>2, <2>2, <2>5 DEF CloseScreenshotUi
  <2>6. CASE action.name = "FocusWindowPrevious" /\ FocusWindowPrevious
    <3>1. UNCHANGED overlays
      BY <2>6 DEF FocusWindowPrevious
    <3> QED
      BY <1>1, <1>2, <2>6, <3>1, PreviousFacts DEF overlays
  <2>7. CASE action.name \in {"MruConfirm", "MruCancel"}
             /\ CloseMru(action.name = "MruConfirm")
    <3>1. /\ mru' = Close(mru) /\ UNCHANGED <<screenshot, stamps>>
          /\ active' \in mapped \cup {NoWindow}
      BY <1>1, <2>7 DEF CloseMru
    <3>2. Proper(Close(mru)) /\ ~IsOpen(Close(mru))
      BY <1>1, CloseFacts DEF Proper
    <3> QED
      BY <1>2, <3>1, <3>2
  <2>8. CASE /\ action.name \in {"MruFirst", "MruLast", "MruCycleScope", "MruSetScope", "MruAdvance"}
             /\ MruNavigate(action)
    <3>1. ~IsLocked /\ UNCHANGED <<screenshot, active>>
      BY <2>2, <2>8 DEF MruNavigate
    <3>2. CASE IsOpen(mru)
      <4>1. mru' = Navigated(action) /\ UNCHANGED stamps
        BY <2>8, <3>2 DEF MruNavigate
      <4>2. Proper(Navigated(action))
        BY <1>1, <2>8, <3>2, NavigatedFacts
      <4> QED
        BY <1>1, <1>2, <3>1, <3>2, <4>1, <4>2
    <3>3. CASE ~IsOpen(mru)
      <4>1. UNCHANGED stamps \/ MruApplyKeyboardCommit
        BY <2>8, <3>3 DEF MruNavigate
      <4>2. CASE mru' = mru
        BY <1>1, <1>2, <3>1, <3>3, <4>1, <4>2
      <4>3. CASE mru' # mru
        <5>1. mapped # {} /\ action.name = "MruAdvance" /\ OpenMru(action, ByRecency(Committed))
          BY <2>8, <3>3, <4>3 DEF MruNavigate
        <5>2. /\ ByRecency(Committed) \in Seq(Windows) /\ Distinct(ByRecency(Committed))
              /\ ToSet(ByRecency(Committed)) = mapped
          BY <1>1, CommittedFacts, ByRecencyFacts
        <5>3. Proper(mru') /\ mru'.thumbnails = ByRecency(Committed)
          BY <1>1, <5>1, <5>2, OpenMruFacts
        <5> QED
          BY <1>1, <1>2, <3>1, <4>1, <5>1, <5>3
      <4> QED
        BY <4>2, <4>3
    <3> QED
      BY <3>2, <3>3
  <2>9. ~(action.name = "QuitNow" /\ QuitNow) /\ ~(action.name \in {"Spawn", "ChangeVt"} /\ Spawn)
    BY <1>4 DEF QuitNow, Spawn
  <2> QED
    BY <1>4, <2>1, <2>3, <2>4, <2>5, <2>6, <2>7, <2>8, <2>9 DEF DoAction
<1> QED
  BY <1>3, <1>4

\* After a change of VT no key counts as intercepted, and modifiers that were down are.
LEMMA ChangeVtFacts ==
  ASSUME NEW p \in [Inputs -> {"Up", "Intercepted", "Forwarded", "Forgotten"}], ChangeVt(p)
  PROVE  /\ pressed' \in [Inputs -> {"Up", "Intercepted", "Forwarded", "Forgotten"}]
         /\ {k \in Inputs : pressed'[k] = "Intercepted"}
              = {k \in Inputs : p[k] = "Intercepted"} \ Keys
         /\ Down(pressed', Mods) = Down(p, Mods)
<1>1. PICK lost \in SUBSET {k \in Plain : p[k] = "Intercepted"} :
        pressed' = [k \in Inputs |-> IF k \in lost THEN "Up"
                                     ELSE IF k \in Keys /\ p[k] = "Intercepted" THEN "Forgotten"
                                     ELSE p[k]]
  BY DEF ChangeVt
<1>2. pressed' \in [Inputs -> {"Up", "Intercepted", "Forwarded", "Forgotten"}]
  BY <1>1
<1>3. \A k \in Inputs : pressed'[k] = "Intercepted" <=> p[k] = "Intercepted" /\ k \notin Keys
  BY <1>1 DEF Keys
<1>4. \A k \in Mods : k \in Inputs /\ k \notin lost
  BY <1>1, KeysAssumption DEF Inputs, Keys
<1>5. \A k \in Mods : pressed'[k] # "Up" <=> p[k] # "Up"
  BY <1>1, <1>4
<1> QED
  BY <1>2, <1>3, <1>5 DEF Down

\* The presses of a step, before and after its action.
Pressing(p, s) ==
  /\ p \in [Inputs -> {"Up", "Intercepted", "Forwarded", "Forgotten"}]
  /\ s = {k \in Inputs : p[k] = "Intercepted"}
  /\ Down(pressed, Mods) \subseteq Down(p, Mods)

Bindable(bind) ==
  /\ WellFormed(bind.action)
  /\ bind.allow_when_locked => bind.action.name = "Spawn"
  /\ bind.action.name = "MruAdvance" => Down(pressed, Mods) # {}

\* An action preserves the invariant but for what repeats.
LEMMA ActionStep ==
  ASSUME SeatInv, NEW bind, Bindable(bind), NEW p, NEW s, Pressing(p, s),
         DoAction(bind.action, bind.allow_when_locked, p, s),
         UNCHANGED <<mapped, focus, lock, outputs, scenario>>
  PROVE  /\ TypeInv' /\ KeysBalanced' /\ Switcher' /\ LockCloses' /\ Stamped' /\ FocusIsLast'
         /\ Down(pressed, Mods) \subseteq Down(pressed', Mods)
<1>1. /\ Proper(mru')
      /\ IsOpen(mru') => ~IsLocked /\ (IsOpen(mru) \/ bind.action.name = "MruAdvance")
      /\ screenshot' => screenshot \/ ~IsLocked
      /\ active' \in mapped \cup {NoWindow}
      /\ UNCHANGED stamps \/ MruApplyKeyboardCommit
      /\ \/ pressed' = p /\ suppressed' = s
         \/ ChangeVt(p) /\ suppressed' = s \ Keys
  BY DoActionFacts DEF Bindable
<1>2. /\ pressed' \in [Inputs -> {"Up", "Intercepted", "Forwarded", "Forgotten"}]
      /\ suppressed' = {k \in Inputs : pressed'[k] = "Intercepted"}
      /\ Down(pressed', Mods) = Down(p, Mods)
  BY <1>1, ChangeVtFacts DEF Pressing
<1>3. Down(pressed, Mods) \subseteq Down(pressed', Mods)
  BY <1>2 DEF Pressing
<1>4. TypeInv'
  BY <1>1, <1>2 DEF SeatInv, TypeInv
<1>5. KeysBalanced'
  BY <1>2 DEF KeysBalanced
<1>6. Switcher'
  <2>1. Proper(mru)'
    BY <1>1, ProperStays
  <2>2. IsOpen(mru') => Down(pressed, Mods) # {}
    BY <1>1 DEF SeatInv, Switcher, Bindable
  <2> QED
    BY <1>3, <2>1, <2>2 DEF Switcher, IsOpen, Down
<1>7. LockCloses'
  BY <1>1 DEF LockCloses, IsLocked, SeatInv, IsOpen
<1>8. Stamped' /\ FocusIsLast'
  BY <1>1, StampsStay DEF SeatInv
<1> QED
  BY <1>3, <1>4, <1>5, <1>6, <1>7, <1>8

\* A bind that is handled in a press preserves all but what the press still owes.
LEMMA BindStep ==
  ASSUME SeatInv, NEW bind, Bindable(bind), NEW p, NEW s, Pressing(p, s),
         HandleBind(bind, p, s), UNCHANGED <<mapped, focus, lock, outputs, scenario>>
  PROVE  /\ TypeInv' /\ KeysBalanced' /\ Switcher' /\ LockCloses' /\ Stamped' /\ FocusIsLast'
         /\ Down(pressed, Mods) \subseteq Down(pressed', Mods)
<1>1. CASE DoAction(bind.action, bind.allow_when_locked, p, s)
  BY <1>1, ActionStep
<1>2. CASE /\ pressed' = p /\ suppressed' = s /\ UNCHANGED <<overlays, stamps, active>>
  <2>1. Down(pressed, Mods) \subseteq Down(pressed', Mods)
    BY <1>2 DEF Pressing
  <2>2. TypeInv' /\ KeysBalanced' /\ LockCloses'
    BY <1>2 DEF SeatInv, TypeInv, KeysBalanced, LockCloses, IsLocked, IsOpen, overlays, Pressing
  <2>3. Switcher'
    <3>1. Proper(mru)'
      BY <1>2, ProperStays DEF SeatInv, Switcher, overlays
    <3> QED
      BY <1>2, <2>1, <3>1 DEF SeatInv, Switcher, IsOpen, overlays, Down
  <2>4. Stamped' /\ FocusIsLast'
    BY <1>2, StampsStay DEF SeatInv
  <2> QED
    BY <2>1, <2>2, <2>3, <2>4
<1> QED
  BY <1>1, <1>2 DEF HandleBind

\* What a press can be bound to.
LEMMA FoundBindsFacts ==
  ASSUME SeatInv, NEW bind \in FoundBinds(Down(pressed, Mods))
  PROVE  Bindable(bind)
<1>1. scenario \in Scripts /\ (IsOpen(mru) => Down(pressed, Mods) # {})
  BY DEF SeatInv, TypeInv, Switcher
<1>2. ASSUME bind \in scenario.binds PROVE Bindable(bind)
  <2>1. bind \in Binds
    BY <1>1, <1>2 DEF Scripts
  <2> QED
    BY <2>1 DEF Binds, Actions, Bindable, WellFormed
<1>3. ASSUME bind \in scenario.mru_binds, Down(pressed, Mods) # {} PROVE Bindable(bind)
  <2>1. bind \in MruBinds
    BY <1>1, <1>3 DEF Scripts
  <2> QED
    BY <1>3, <2>1 DEF MruBinds, Actions, Bindable, WellFormed
<1>4. ASSUME bind \in OpenedBinds, IsOpen(mru) PROVE Bindable(bind)
  <2>1. PICK a \in {Act(name) : name \in {"MruCancel", "MruConfirm", "MruFirst", "MruLast",
                                         "MruCycleScope"}}
                     \cup {[Act("MruSetScope") EXCEPT !.scope = {x}] : x \in Scopes}
                     \cup {MruAdvance(d, {}, {}) : d \in Directions} : bind = Hardcoded(a)
    BY <1>4 DEF OpenedBinds
  <2>2. WellFormed(a)
    BY <2>1 DEF Act, MruAdvance, WellFormed, Options
  <2> QED
    BY <1>1, <1>4, <2>1, <2>2 DEF Hardcoded, Bindable
<1>5. ASSUME NEW name \in {"ChangeVt", "ConfirmScreenshot", "CancelScreenshot"},
             bind = Hardcoded(Act(name))
      PROVE  Bindable(bind)
  BY <1>5 DEF Hardcoded, Act, Bindable, WellFormed, Options
<1>6. \/ bind \in BindsFor(Down(pressed, Mods))
      \/ bind \in ScreenshotBinds
      \/ bind = Hardcoded(Act("ChangeVt"))
  BY DEF FoundBinds
<1>7. bind \in BindsFor(Down(pressed, Mods)) =>
        \/ bind \in scenario.binds
        \/ bind \in scenario.mru_binds /\ Down(pressed, Mods) # {}
        \/ bind \in OpenedBinds /\ IsOpen(mru)
  BY DEF BindsFor, DynamicBinds
<1>8. bind \in ScreenshotBinds =>
        \E name \in {"ConfirmScreenshot", "CancelScreenshot"} : bind = Hardcoded(Act(name))
  BY DEF ScreenshotBinds
<1> QED
  BY <1>2, <1>3, <1>4, <1>5, <1>6, <1>7, <1>8

---------------------------------------------------------------------------
(* Every step preserves the invariant. *)

\* A press is intercepted, and then suppressed, or forwarded.
LEMMA PressFacts ==
  ASSUME SeatInv, NEW k \in Inputs, pressed[k] = "Up"
  PROVE  /\ Pressing(Intercepted(k), suppressed \cup {k})
         /\ Pressing([pressed EXCEPT ![k] = "Forwarded"], suppressed)
BY DEF SeatInv, TypeInv, KeysBalanced, Pressing, Intercepted, Down

\* A step that keeps the modifiers down and opens nothing.
LEMMA QuietStep ==
  ASSUME SeatInv, Pressing(pressed', suppressed'),
         UNCHANGED <<mapped, focus, lock, outputs, scenario, repeat>>,
         Proper(mru'), IsOpen(mru') => IsOpen(mru), screenshot' => screenshot,
         active' \in mapped \cup {NoWindow}, UNCHANGED stamps \/ MruApplyKeyboardCommit
  PROVE  SeatInv'
<1>1. TypeInv'
  BY DEF SeatInv, TypeInv, Pressing
<1>2. KeysBalanced'
  BY DEF KeysBalanced, Pressing
<1>3. RepeatHeld'
  BY DEF SeatInv, RepeatHeld, Pressing, Down, WellFormed
<1>4. Switcher'
  <2>1. Proper(mru)'
    BY ProperStays
  <2> QED
    BY <2>1 DEF SeatInv, Switcher, IsOpen, Pressing, Down
<1>5. LockCloses'
  BY DEF SeatInv, LockCloses, IsLocked, IsOpen
<1>6. Stamped' /\ FocusIsLast'
  BY StampsStay DEF SeatInv
<1> QED
  BY <1>1, <1>2, <1>3, <1>4, <1>5, <1>6 DEF SeatInv

\* The press of a key preserves the invariant.
LEMMA KeyPressStep ==
  ASSUME SeatInv, UNCHANGED scenario, NEW k \in Keys, OnKeyPress(k)
  PROVE  SeatInv'
<1>1. /\ k \in Inputs /\ pressed[k] = "Up"
      /\ UNCHANGED <<mapped, focus, layer, lock, outputs>>
  BY DEF OnKeyPress, Inputs
<1>2. /\ Pressing(Intercepted(k), suppressed \cup {k})
      /\ Pressing([pressed EXCEPT ![k] = "Forwarded"], suppressed)
  BY <1>1, PressFacts
<1>3. Proper(mru) /\ active \in mapped \cup {NoWindow}
  BY DEF SeatInv, Switcher, TypeInv
<1>4. CASE PressAtExitDialog(k)
  BY <1>1, <1>2, <1>3, <1>4, QuietStep DEF PressAtExitDialog
<1>5. CASE PressEscape(k)
  BY <1>1, <1>2, <1>3, <1>5, QuietStep DEF PressEscape, overlays
<1>6. CASE \E bind \in FoundBinds(Down(pressed, Mods)) : PressBind(k, bind)
  <2>1. PICK bind \in FoundBinds(Down(pressed, Mods)) : PressBind(k, bind)
    BY <1>6
  <2>2. Bindable(bind)
    BY FoundBindsFacts
  <2>3. HandleBind(bind, Intercepted(k), suppressed \cup {k}) /\ StartKeyRepeat(bind)
    BY <2>1 DEF PressBind
  <2>4. /\ TypeInv' /\ KeysBalanced' /\ Switcher' /\ LockCloses' /\ Stamped' /\ FocusIsLast'
        /\ Down(pressed, Mods) \subseteq Down(pressed', Mods)
    BY <1>1, <1>2, <2>2, <2>3, BindStep
  <2>5. RepeatHeld'
    <3>1. repeat' = repeat \/ repeat' = {bind} \/ repeat' = {}
      BY <2>3 DEF StartKeyRepeat
    <3>2. \A b \in repeat' : Bindable(b)
      BY <2>2, <3>1 DEF SeatInv, RepeatHeld, Bindable
    <3> QED
      BY <2>4, <3>2 DEF RepeatHeld, Bindable, WellFormed, Down
  <2> QED
    BY <2>4, <2>5 DEF SeatInv
<1>7. CASE PressForwarded(k)
  BY <1>1, <1>2, <1>3, <1>7, QuietStep DEF PressForwarded, overlays
<1> QED
  BY <1>4, <1>5, <1>6, <1>7 DEF OnKeyPress

\* The release of a key preserves the invariant.
LEMMA KeyReleaseStep ==
  ASSUME SeatInv, UNCHANGED scenario, NEW k \in Keys, OnKeyRelease(k)
  PROVE  SeatInv'
<1>1. /\ k \in Inputs /\ pressed' = [pressed EXCEPT ![k] = "Up"] /\ suppressed' = suppressed \ {k}
      /\ repeat' = {} /\ UNCHANGED <<mapped, focus, lock, outputs>>
  BY DEF OnKeyRelease, Inputs
<1>2. Proper(mru) /\ active \in mapped \cup {NoWindow}
  BY DEF SeatInv, Switcher, TypeInv
<1>3. /\ pressed' \in [Inputs -> {"Up", "Intercepted", "Forwarded", "Forgotten"}]
      /\ KeysBalanced'
  BY <1>1 DEF SeatInv, TypeInv, KeysBalanced
<1>4. RepeatHeld'
  BY <1>1 DEF RepeatHeld
<1>5. /\ Proper(mru') /\ (IsOpen(mru') => IsOpen(mru) /\ Down(pressed, Mods \ {k}) # {})
      /\ UNCHANGED screenshot /\ active' \in mapped \cup {NoWindow}
      /\ UNCHANGED stamps \/ MruApplyKeyboardCommit
  <2>1. CASE IsOpen(mru) /\ Down(pressed, Mods \ {k}) = {}
    <3>1. CloseMru(TRUE)
      BY <2>1 DEF OnKeyRelease
    <3>2. Proper(Close(mru)) /\ ~IsOpen(Close(mru))
      BY <1>2, CloseFacts DEF Proper
    <3> QED
      BY <1>2, <3>1, <3>2 DEF CloseMru
  <2>2. CASE ~(IsOpen(mru) /\ Down(pressed, Mods \ {k}) = {})
    BY <1>2, <2>2 DEF OnKeyRelease, overlays
  <2> QED
    BY <2>1, <2>2
<1>6. TypeInv'
  BY <1>1, <1>3, <1>5 DEF SeatInv, TypeInv
<1>7. Switcher'
  <2>1. Proper(mru)'
    BY <1>1, <1>5, ProperStays
  <2>2. IsOpen(mru') => Down(pressed', Mods) # {}
    <3>1. \A j \in Mods \ {k} : pressed'[j] = pressed[j]
      BY <1>1 DEF SeatInv, TypeInv, Inputs, Keys
    <3> QED
      BY <1>5, <3>1 DEF Down
  <2> QED
    BY <2>1, <2>2 DEF Switcher, IsOpen, Down
<1>8. LockCloses'
  BY <1>1, <1>5 DEF SeatInv, LockCloses, IsLocked, IsOpen
<1>9. Stamped' /\ FocusIsLast'
  BY <1>1, <1>5, StampsStay DEF SeatInv
<1> QED
  BY <1>3, <1>4, <1>6, <1>7, <1>8, <1>9 DEF SeatInv

\* The pointer and touch.
LEMMA PickOrDismissFacts ==
  ASSUME SeatInv, IsOpen(mru), PickOrDismiss
  PROVE  /\ Proper(mru') /\ ~IsOpen(mru') /\ UNCHANGED <<screenshot, stamps>>
         /\ active' \in mapped \cup {NoWindow}
<1>1. /\ Proper(mru) /\ Sound(mru) /\ mru \in MruType /\ Distinct(mru.thumbnails) /\ Verified(mru)
      /\ ToSet(mru.thumbnails) \subseteq mapped /\ active \in mapped \cup {NoWindow}
  BY DEF SeatInv, Switcher, Proper, Sound, TypeInv
<1>2. CASE \E w \in ThumbnailsUnder :
             /\ mru' = Close(SetCurrent(mru, w)) /\ active' = w
             /\ UNCHANGED <<screenshot, stamps, grab, stopped>>
  <2>1. PICK w \in ThumbnailsUnder :
             /\ mru' = Close(SetCurrent(mru, w)) /\ active' = w
             /\ UNCHANGED <<screenshot, stamps, grab, stopped>>
    BY <1>2
  <2>2. w \in mapped
    BY <1>1, ThumbnailsFacts DEF ThumbnailsUnder, Shown
  <2>3. Sound(SetCurrent(mru, w)) /\ SameList(mru, SetCurrent(mru, w))
    BY <1>1, SelectFacts
  <2>4. Proper(SetCurrent(mru, w))
    BY <1>1, <2>3, SameListProper
  <2>5. Proper(mru') /\ ~IsOpen(mru')
    BY <2>1, <2>3, <2>4, CloseFacts DEF Sound
  <2> QED
    BY <2>1, <2>2, <2>5
<1>3. CASE mru' = Close(mru) /\ UNCHANGED <<active, screenshot, stamps, grab, stopped>>
  BY <1>1, <1>3, CloseFacts
<1> QED
  BY <1>2, <1>3 DEF PickOrDismiss

\* Buttons, touch and motion preserve the invariant.
LEMMA PointerStep ==
  ASSUME SeatInv, UNCHANGED scenario,
         OnButtonPress \/ OnButtonRelease \/ OnTouchDown \/ OnPointerMotion
  PROVE  SeatInv'
<1>1. /\ Proper(mru) /\ active \in mapped \cup {NoWindow} /\ Button \in Inputs
      /\ pressed \in [Inputs -> {"Up", "Intercepted", "Forwarded", "Forgotten"}]
      /\ suppressed = {k \in Inputs : pressed[k] = "Intercepted"}
  BY DEF SeatInv, Switcher, TypeInv, Inputs, KeysBalanced
<1>2. Pressing(pressed, suppressed)
  BY <1>1 DEF Pressing
<1>3. CASE OnButtonPress
  <2>1. pressed[Button] = "Up" /\ UNCHANGED <<repeat, mapped, focus, lock, outputs>>
    BY <1>3 DEF OnButtonPress
  <2>2. Button \notin suppressed
    BY <1>1, <2>1
  <2>3. /\ Pressing(Intercepted(Button), suppressed \cup {Button})
        /\ Pressing([pressed EXCEPT ![Button] = "Forwarded"], suppressed)
    BY <1>1, <2>1, PressFacts
  <2>4. CASE /\ IsOpen(mru) /\ PickOrDismiss
             /\ pressed' = Intercepted(Button) /\ suppressed' = suppressed \cup {Button}
    BY <2>1, <2>3, <2>4, PickOrDismissFacts, QuietStep
  <2>5. CASE ~IsOpen(mru) /\ UNCHANGED <<screenshot, mru, stamps>>
    <3>1. active' \in mapped \cup {NoWindow} /\ Pressing(pressed', suppressed')
      <4>1. UnderPointer \subseteq mapped \cup {NoWindow}
        BY <1>1 DEF UnderPointer
      <4> QED
        BY <1>1, <1>3, <2>2, <2>3, <2>5, <4>1 DEF OnButtonPress
    <3> QED
      BY <1>1, <2>1, <2>5, <3>1, QuietStep
  <2> QED
    BY <1>3, <2>2, <2>4, <2>5 DEF OnButtonPress
<1>4. CASE OnButtonRelease
  <2>1. Pressing(pressed', suppressed')
    <3>1. \A k \in Mods : pressed'[k] = pressed[k]
      BY <1>1, <1>4, KeysAssumption DEF OnButtonRelease, Inputs, Keys
    <3> QED
      BY <1>1, <1>4, <3>1 DEF OnButtonRelease, Pressing, Down
  <2>2. screenshot' => screenshot
    BY <1>4 DEF OnButtonRelease
  <2> QED
    BY <1>1, <1>4, <2>1, <2>2, QuietStep DEF OnButtonRelease
<1>5. CASE OnTouchDown
  <2>1. UNCHANGED <<keyboard, repeat, mapped, focus, lock, outputs>>
    BY <1>5 DEF OnTouchDown
  <2>2. CASE IsOpen(mru) /\ PickOrDismiss
    BY <1>2, <2>1, <2>2, PickOrDismissFacts, QuietStep DEF keyboard
  <2>3. CASE /\ UNCHANGED <<screenshot, mru, stamps>>
             /\ active' \in IF screenshot THEN {active} ELSE UnderPointer
    <3>1. active' \in mapped \cup {NoWindow}
      BY <1>1, <2>3 DEF UnderPointer
    <3> QED
      BY <1>1, <1>2, <2>1, <2>3, <3>1, QuietStep DEF keyboard
  <2> QED
    BY <1>5, <2>2, <2>3 DEF OnTouchDown
<1>6. CASE OnPointerMotion
  <2>1. /\ UNCHANGED <<keyboard, repeat, screenshot, mapped, active, stamps, focus, lock, outputs>>
        /\ \E w \in ThumbnailsUnder : mru' = SetCurrent(mru, w)
    BY <1>6 DEF OnPointerMotion
  <2>2. PICK w \in ThumbnailsUnder : mru' = SetCurrent(mru, w)
    BY <2>1
  <2>3. IsOpen(mru) /\ Sound(mru)
    BY <1>1 DEF ThumbnailsUnder, Proper
  <2>4. Sound(mru') /\ SameList(mru, mru')
    BY <2>2, <2>3, SelectFacts DEF Sound
  <2>5. Proper(mru') /\ IsOpen(mru)
    BY <1>1, <2>3, <2>4, SameListProper
  <2> QED
    BY <1>1, <1>2, <2>1, <2>5, QuietStep DEF keyboard
<1> QED
  BY <1>3, <1>4, <1>5, <1>6

\* Repeats and requests.
LEMMA RequestStep ==
  ASSUME SeatInv, UNCHANGED scenario, RepeatFires \/ IpcAction
  PROVE  SeatInv'
<1>1. /\ Proper(mru) /\ active \in mapped \cup {NoWindow} /\ Pressing(pressed, suppressed)
      /\ UNCHANGED <<repeat, mapped, focus, lock, outputs>>
  BY DEF SeatInv, Switcher, TypeInv, KeysBalanced, Pressing, RepeatFires, IpcAction
<1>2. ASSUME /\ TypeInv' /\ KeysBalanced' /\ Switcher' /\ LockCloses' /\ Stamped' /\ FocusIsLast'
             /\ Down(pressed, Mods) \subseteq Down(pressed', Mods)
      PROVE  SeatInv'
  BY <1>1, <1>2 DEF SeatInv, RepeatHeld, WellFormed, Down
<1>3. CASE RepeatFires
  <2>1. PICK bind \in repeat : HandleBind(bind, pressed, suppressed)
    BY <1>3 DEF RepeatFires
  <2>2. Bindable(bind)
    BY DEF SeatInv, RepeatHeld, Bindable
  <2> QED
    BY <1>1, <1>2, <2>1, <2>2, BindStep
<1>4. CASE \E action \in IpcActions : DoAction(action, FALSE, pressed, suppressed)
  <2>1. PICK action \in IpcActions : DoAction(action, FALSE, pressed, suppressed)
    BY <1>4
  <2> DEFINE bind == [action |-> action, allow_when_locked |-> FALSE]
  <2>2. Bindable(bind) /\ bind.action = action /\ bind.allow_when_locked = FALSE
    BY DEF IpcActions, Act, Bindable, WellFormed, Options
  <2> HIDE DEF bind
  <2> QED
    BY <1>1, <1>2, <2>1, <2>2, ActionStep
<1>5. CASE UNCHANGED <<keyboard, overlays, stamps, active>>
  BY <1>1, <1>5, QuietStep DEF keyboard, overlays
<1> QED
  BY <1>3, <1>4, <1>5 DEF IpcAction

\* A step that leaves the keyboard alone.
LEMMA OtherStep ==
  ASSUME SeatInv, UNCHANGED <<keyboard, repeat, scenario>>,
         mapped' \in SUBSET Windows, IsFiniteSet(mapped'),
         active' \in mapped' \cup {NoWindow}, outputs' \in SUBSET Outputs,
         lock' \in {"Unlocked", "WaitingForSurfaces", "Locking", "Locked"},
         Proper(mru)', IsOpen(mru') => IsOpen(mru), LockCloses', Stamped', FocusIsLast'
  PROVE  SeatInv'
<1>1. TypeInv' /\ KeysBalanced'
  BY DEF SeatInv, TypeInv, KeysBalanced, keyboard
<1>2. RepeatHeld'
  BY DEF SeatInv, RepeatHeld, Down, WellFormed, keyboard
<1>3. Switcher'
  BY DEF SeatInv, Switcher, IsOpen, Down, keyboard
<1> QED
  BY <1>1, <1>2, <1>3 DEF SeatInv

\* update_keyboard_focus preserves the invariant.
LEMMA FocusStep ==
  ASSUME SeatInv, UNCHANGED scenario, UpdateKeyboardFocus
  PROVE  SeatInv'
<1> DEFINE w == ComputedFocus.window
           W == Windows \cup {NoWindow}
<1>1. /\ focus' = ComputedFocus
      /\ UNCHANGED <<keyboard, repeat, overlays, mapped, active, lock, outputs>>
  BY DEF UpdateKeyboardFocus
<1>2. /\ TypeInv /\ Stamped /\ Proper(mru) /\ mapped \subseteq Windows
      /\ active \in mapped \cup {NoWindow} /\ NoWindow \notin mapped
  BY WindowsFacts DEF SeatInv, TypeInv, Switcher
<1>3. w \in mapped \cup {NoWindow} /\ focus'.window = w
  BY <1>1, <1>2 DEF ComputedFocus
<1> HIDE DEF w
<1>4. Stamped' /\ FocusIsLast'
  <2>1. /\ recency \in Seq(W) /\ Distinct(recency) /\ ToSet(recency) \subseteq mapped \cup {NoWindow}
        /\ pending \in mapped \cup {NoWindow}
        /\ pending # NoWindow => pending \in ToSet(recency) /\ scenario.debounce
    BY <1>2 DEF Stamped
  <2>2. \A x : /\ Without(recency, x) \in Seq(W) /\ Distinct(Without(recency, x))
               /\ ToSet(Without(recency, x)) = ToSet(recency) \ {x}
    BY <2>1, WithoutFacts
  <2>3. CASE w = NoWindow
    <3>1. UNCHANGED stamps
      BY <2>3 DEF UpdateKeyboardFocus, w
    <3> QED
      BY <1>1, <1>2, <1>3, <2>3, <3>1 DEF stamps, Stamped, FocusIsLast, Distinct
  <2>4. CASE w # NoWindow /\ (w \notin ToSet(recency) \/ ~scenario.debounce)
    <3> DEFINE r == Append(Without(recency, w), w)
    <3>1. recency' = r /\ pending' = pending
      BY <2>4 DEF UpdateKeyboardFocus, w
    <3>2. /\ r \in Seq(W) /\ Distinct(r) /\ r # <<>> /\ Last(r) = w
          /\ ToSet(r) = ToSet(Without(recency, w)) \cup {w}
      BY <1>2, <1>3, <2>2, AppendDistinct
    <3>3. pending # w
      BY <2>1, <2>4
    <3> HIDE DEF r
    <3> QED
      BY <1>1, <1>3, <2>1, <2>2, <2>4, <3>1, <3>2, <3>3 DEF Stamped, FocusIsLast, Distinct
  <2>5. CASE w # NoWindow /\ w \in ToSet(recency) /\ scenario.debounce
    <3> DEFINE r == Append(Without(recency, NoWindow), NoWindow)
    <3>1. recency' = r /\ pending' = w
      BY <2>5 DEF UpdateKeyboardFocus, w
    <3>2. /\ r \in Seq(W) /\ Distinct(r) /\ r # <<>> /\ Last(r) = NoWindow
          /\ ToSet(r) = ToSet(Without(recency, NoWindow)) \cup {NoWindow}
      BY <2>2, AppendDistinct
    <3> HIDE DEF r
    <3> QED
      BY <1>1, <1>3, <2>1, <2>2, <2>5, <3>1, <3>2 DEF Stamped, FocusIsLast, Distinct
  <2> QED
    BY <2>3, <2>4, <2>5
<1>5. Proper(mru)'
  BY <1>1, <1>2, ProperStays DEF overlays
<1>6. LockCloses'
  BY <1>1 DEF SeatInv, LockCloses, IsLocked, IsOpen, overlays
<1>7. IsFiniteSet(mapped') /\ outputs' \in SUBSET Outputs
      /\ lock' \in {"Unlocked", "WaitingForSurfaces", "Locking", "Locked"}
  BY <1>1, <1>2 DEF TypeInv
<1> QED
  BY <1>1, <1>2, <1>4, <1>5, <1>6, <1>7, OtherStep DEF overlays

\* A window that is mapped preserves the invariant.
LEMMA MapStep ==
  ASSUME SeatInv, UNCHANGED scenario, NEW w \in scenario.windows, MapWindow(w)
  PROVE  SeatInv'
<1>1. /\ w \notin mapped /\ focus.window # w /\ mapped' = mapped \cup {w}
      /\ UNCHANGED <<keyboard, repeat, overlays, stamps, focus, lock, outputs>>
  BY DEF MapWindow
<1>2. w \in Windows /\ mapped \in SUBSET Windows /\ IsFiniteSet(mapped)
  BY DEF SeatInv, TypeInv, Scripts
<1>3. mapped' \in SUBSET Windows /\ IsFiniteSet(mapped')
  BY <1>1, <1>2, FS_AddElement
<1>4. active' \in mapped' \cup {NoWindow}
  BY <1>1 DEF SeatInv, TypeInv, MapWindow
<1>5. Proper(mru)'
  BY <1>1 DEF SeatInv, Switcher, Proper, IsOpen, Sound, Distinct, Verified, MruType, overlays
<1>6. Stamped' /\ FocusIsLast'
  BY <1>1 DEF SeatInv, Stamped, FocusIsLast, Distinct, stamps
<1>7. LockCloses' /\ outputs' \in SUBSET Outputs
      /\ lock' \in {"Unlocked", "WaitingForSurfaces", "Locking", "Locked"}
  BY <1>1 DEF SeatInv, TypeInv, LockCloses, IsLocked, IsOpen, overlays
<1> QED
  BY <1>1, <1>3, <1>4, <1>5, <1>6, <1>7, OtherStep DEF overlays

\* A window that is unmapped preserves the invariant.
LEMMA UnmapStep ==
  ASSUME SeatInv, UNCHANGED scenario, NEW w \in scenario.windows, UnmapWindow(w)
  PROVE  SeatInv'
<1>1. /\ w \in mapped /\ mapped' = mapped \ {w} /\ mru' = RemoveWindow(mru, w)
      /\ UNCHANGED <<keyboard, repeat, screenshot, focus, lock, outputs>>
  BY DEF UnmapWindow
<1>2. /\ mapped \in SUBSET Windows /\ IsFiniteSet(mapped) /\ Proper(mru) /\ NoWindow \notin mapped
      /\ active \in mapped \cup {NoWindow}
  BY WindowsFacts DEF SeatInv, TypeInv, Switcher
<1>3. mapped' \in SUBSET Windows /\ IsFiniteSet(mapped')
  BY <1>1, <1>2, FS_RemoveElement
<1>4. active' \in mapped' \cup {NoWindow}
  BY <1>1, <1>2 DEF UnmapWindow
<1>5. Proper(mru)' /\ (IsOpen(mru') => IsOpen(mru))
  BY <1>1, <1>2, RemoveWindowFacts
<1>6. Stamped' /\ FocusIsLast'
  <2> DEFINE W == Windows \cup {NoWindow}
             r == Without(recency, w)
             s == Without(r, NoWindow)
  <2>1. /\ recency \in Seq(W) /\ Distinct(recency) /\ ToSet(recency) \subseteq mapped \cup {NoWindow}
        /\ pending \in mapped \cup {NoWindow}
        /\ pending # NoWindow => pending \in ToSet(recency) /\ scenario.debounce
    BY DEF SeatInv, Stamped
  <2>2. /\ r \in Seq(W) /\ Distinct(r) /\ ToSet(r) = ToSet(recency) \ {w}
        /\ recency # <<>> /\ Last(recency) # w => r # <<>> /\ Last(r) = Last(recency)
    BY <2>1, WithoutFacts
  <2> HIDE DEF r
  <2>3. /\ s \in Seq(W) /\ Distinct(s) /\ ToSet(s) = ToSet(r) \ {NoWindow}
        /\ r # <<>> /\ Last(r) # NoWindow => s # <<>> /\ Last(s) = Last(r)
    BY <2>2, WithoutFacts
  <2> HIDE DEF s
  <2>4. focus.window \in mapped =>
          recency # <<>> /\ Last(recency) = IF pending = focus.window THEN NoWindow ELSE focus.window
    BY DEF SeatInv, FocusIsLast
  <2>5. CASE pending = w
    <3>1. recency' = s /\ pending' = NoWindow
      BY <2>5 DEF UnmapWindow, r, s
    <3>2. focus.window \in mapped' => s # <<>> /\ Last(s) = focus.window /\ focus.window # NoWindow
      BY <1>1, <1>2, <2>2, <2>3, <2>4, <2>5
    <3> QED
      BY <1>1, <2>1, <2>2, <2>3, <3>1, <3>2 DEF Stamped, FocusIsLast, Distinct
  <2>6. CASE pending # w
    <3>1. recency' = r /\ pending' = pending
      BY <2>6 DEF UnmapWindow, r
    <3>2. focus.window \in mapped' => r # <<>> /\ Last(r) = Last(recency)
      BY <1>1, <1>2, <2>2, <2>4
    <3> QED
      BY <1>1, <2>1, <2>2, <2>4, <2>6, <3>1, <3>2 DEF Stamped, FocusIsLast, Distinct
  <2> QED
    BY <2>5, <2>6
<1>7. LockCloses' /\ outputs' \in SUBSET Outputs
      /\ lock' \in {"Unlocked", "WaitingForSurfaces", "Locking", "Locked"}
  BY <1>1, <1>5 DEF SeatInv, TypeInv, LockCloses, IsLocked, IsOpen
<1> QED
  BY <1>1, <1>3, <1>4, <1>5, <1>6, <1>7, OtherStep

\* The session lock and the outputs.
LEMMA LockStep ==
  ASSUME SeatInv, UNCHANGED scenario,
         \/ Lock \/ ContinueToLocking \/ LockProgresses
         \/ \E o \in Outputs : AddOutput(o) \/ RemoveOutput(o)
  PROVE  SeatInv'
<1>1. UNCHANGED <<keyboard, repeat, mapped, active, stamps, focus>>
  BY DEF Lock, ContinueToLocking, LockProgresses, AddOutput, RemoveOutput
<1>2. /\ mapped \in SUBSET Windows /\ IsFiniteSet(mapped) /\ active \in mapped \cup {NoWindow}
      /\ Proper(mru) /\ mru \in MruType /\ outputs \in SUBSET Outputs
      /\ lock \in {"Unlocked", "WaitingForSurfaces", "Locking", "Locked"}
      /\ lock \in {"Locking", "Locked"} => ~screenshot /\ ~IsOpen(mru)
  BY DEF SeatInv, TypeInv, Switcher, Proper, LockCloses, IsLocked
<1>3. Stamped' /\ FocusIsLast'
  BY <1>1, StampsStay DEF SeatInv
<1>4. Proper(Close(mru)) /\ ~IsOpen(Close(mru)) /\ Close(mru) \in MruType
      /\ (Close(mru).full => IsOpen(Close(mru)))
  BY <1>2, CloseFacts DEF Proper
<1>5. mru' = Close(mru) => Proper(mru)' /\ ~IsOpen(mru')
  <2>1. ASSUME mru' = Close(mru) PROVE mru' \in MruType /\ ~IsOpen(mru') /\ ~mru'.full
    BY <1>4, <2>1
  <2> QED
    BY <2>1 DEF Proper, IsOpen, MruType
<1>6. CASE Lock
  <2>1. /\ UNCHANGED <<mru, outputs>>
        /\ lock' = (IF outputs = {} THEN "Locked" ELSE "WaitingForSurfaces")
        /\ outputs = {} => ~screenshot'
    BY <1>6 DEF Lock
  <2>2. Proper(mru)'
    BY <1>1, <1>2, <2>1, ProperStays
  <2>3. LockCloses'
    BY <1>2, <2>1 DEF LockCloses, IsLocked, IsOpen, Proper
  <2> QED
    BY <1>1, <1>2, <1>3, <2>1, <2>2, <2>3, OtherStep
<1>7. CASE ContinueToLocking
  <2>1. /\ mru' = Close(mru) /\ screenshot' = FALSE /\ UNCHANGED outputs
        /\ lock' \in {"Locking", "Locked"}
    BY <1>7 DEF ContinueToLocking
  <2>2. LockCloses'
    BY <1>5, <2>1 DEF LockCloses, IsOpen
  <2> QED
    BY <1>1, <1>2, <1>3, <1>5, <2>1, <2>2, OtherStep
<1>8. CASE LockProgresses
  <2>1. /\ UNCHANGED <<mru, screenshot, outputs>> /\ lock' \in {"Locked", "Unlocked"}
        /\ lock' = "Locked" => lock = "Locking"
    BY <1>8 DEF LockProgresses, overlays
  <2>2. Proper(mru)'
    BY <1>1, <1>2, <2>1, ProperStays
  <2>3. LockCloses'
    BY <1>2, <2>1 DEF LockCloses, IsLocked, IsOpen
  <2> QED
    BY <1>1, <1>2, <1>3, <2>1, <2>2, <2>3, OtherStep
<1>9. ASSUME NEW o \in Outputs, AddOutput(o) PROVE SeatInv'
  <2>1. outputs' = outputs \cup {o} /\ UNCHANGED <<overlays, lock>>
    BY <1>9 DEF AddOutput
  <2>2. Proper(mru)'
    BY <1>1, <1>2, <2>1 DEF Proper, IsOpen, Sound, Distinct, Verified, MruType, overlays
  <2>3. LockCloses'
    BY <1>2, <2>1 DEF LockCloses, IsLocked, IsOpen, overlays
  <2> QED
    BY <1>1, <1>2, <1>3, <2>1, <2>2, <2>3, OtherStep DEF overlays
<1>10. ASSUME NEW o \in Outputs, RemoveOutput(o) PROVE SeatInv'
  <2>1. /\ outputs' = outputs \ {o} /\ screenshot' = FALSE
        /\ \/ lock' = lock
           \/ lock = "WaitingForSurfaces" /\ lock' \in {"Locking", "Locked"}
           \/ lock \in {"Locking", "Locked"} /\ lock' = "Locked"
    BY <1>10 DEF RemoveOutput
  <2>2. mru' = IF mru.output = {o} \/ (lock = "WaitingForSurfaces" /\ lock' # lock) THEN Close(mru)
               ELSE mru
    BY <1>10 DEF RemoveOutput
  <2>3. Proper(mru)' /\ (IsOpen(mru') => IsOpen(mru) /\ mru' = mru)
    <3>1. CASE mru' = Close(mru)
      BY <1>5, <3>1
    <3>2. CASE mru' = mru /\ mru.output # {o}
      <4>1. IsOpen(mru) => \E x \in outputs' : mru.output = {x}
        BY <1>2, <2>1, <3>2 DEF Proper
      <4> QED
        BY <1>1, <1>2, <3>2, <4>1 DEF Proper, IsOpen, Sound, Distinct, Verified, MruType
    <3> QED
      BY <2>2, <3>1, <3>2
  <2>4. LockCloses'
    <3>1. lock' \in {"Locking", "Locked"} => ~IsOpen(mru')
      BY <1>2, <1>5, <2>1, <2>2, <2>3
    <3> QED
      BY <2>1, <3>1 DEF LockCloses, IsLocked, IsOpen
  <2> QED
    BY <1>1, <1>2, <1>3, <2>1, <2>3, <2>4, OtherStep
<1> QED
  BY <1>6, <1>7, <1>8, <1>9, <1>10

\* The timers of the switcher preserve the invariant.
LEMMA ClockStep ==
  ASSUME SeatInv, UNCHANGED scenario, MruClock
  PROVE  SeatInv'
<1>1. UNCHANGED <<keyboard, repeat, screenshot, mapped, active, stamps, focus, lock, outputs>>
  BY DEF MruClock
<1>2. Proper(mru) /\ mru \in MruType /\ active \in mapped \cup {NoWindow}
      /\ Pressing(pressed, suppressed)
  BY DEF SeatInv, Switcher, Proper, TypeInv, KeysBalanced, Pressing
<1>3. CASE IsOpen(mru)
  <2> DEFINE n == [mru EXCEPT !.full = TRUE]
  <2>1. mru' = n
    BY <1>3 DEF MruClock
  <2>2. /\ n \in MruType /\ n.current = mru.current /\ n.thumbnails = mru.thumbnails
        /\ n.state = mru.state /\ n.output = mru.output
        /\ Shown(n) = Shown(mru)
    BY <1>2 DEF MruType, Shown, Matches
  <2> HIDE DEF n
  <2>3. Sound(n)
    BY <1>2, <1>3, <2>2, VerifiedFacts DEF Proper, Sound
  <2>4. Proper(n)
    BY <1>2, <1>3, <2>2, <2>3 DEF Proper, IsOpen
  <2> QED
    BY <1>1, <1>2, <1>3, <2>1, <2>4, QuietStep DEF keyboard
<1>4. CASE ~IsOpen(mru)
  <2>1. mru' = Shut("Closed", mru.scope) /\ mru.scope \in Scopes
    BY <1>2, <1>4 DEF MruClock, MruType
  <2>2. Proper(mru') /\ ~IsOpen(mru')
    BY <2>1, ShutFacts
  <2> QED
    BY <1>1, <1>2, <2>2, QuietStep DEF keyboard
<1> QED
  BY <1>3, <1>4

\* Every step preserves the invariant.
LEMMA SeatStep ==
  ASSUME SeatInv, [Next]_vars
  PROVE  SeatInv'
<1>0. /\ TypeInv /\ Proper(mru) /\ active \in mapped \cup {NoWindow}
      /\ Pressing(pressed, suppressed)
  BY DEF SeatInv, Switcher, TypeInv, KeysBalanced, Pressing
<1>1. CASE UNCHANGED vars
  BY <1>0, <1>1, QuietStep DEF vars, stamps
<1>2. CASE Next
  <2>1. UNCHANGED scenario
    BY <1>2 DEF Next
  <2>2. CASE \E k \in Keys : OnKeyPress(k)
    BY <2>1, <2>2, KeyPressStep
  <2>3. CASE \E k \in Keys : OnKeyRelease(k)
    BY <2>1, <2>3, KeyReleaseStep
  <2>4. CASE RepeatFires \/ IpcAction
    BY <2>1, <2>4, RequestStep
  <2>5. CASE CooldownExpires
    BY <1>0, <2>1, <2>5, QuietStep DEF CooldownExpires, keyboard, overlays
  <2>6. CASE OnButtonPress \/ OnButtonRelease \/ OnTouchDown \/ OnPointerMotion
    BY <2>1, <2>6, PointerStep
  <2>7. CASE \E w \in scenario.windows : MapWindow(w) \/ UnmapWindow(w)
    BY <2>1, <2>7, MapStep, UnmapStep
  <2>8. CASE FocusLayout
    BY <1>0, <2>1, <2>8, QuietStep DEF FocusLayout, keyboard, overlays
  <2>9. CASE FocusLayer
    BY <1>0, <2>1, <2>9, QuietStep DEF FocusLayer, keyboard, overlays
  <2>10. CASE UpdateKeyboardFocus
    BY <2>1, <2>10, FocusStep
  <2>11. CASE CommitTimer
    BY <1>0, <2>1, <2>11, QuietStep DEF CommitTimer, keyboard, overlays
  <2>12. CASE \/ Lock \/ ContinueToLocking \/ LockProgresses
              \/ \E o \in Outputs : AddOutput(o) \/ RemoveOutput(o)
    BY <2>1, <2>12, LockStep
  <2>13. CASE MruClock
    BY <2>1, <2>13, ClockStep
  <2> QED
    BY <1>2, <2>2, <2>3, <2>4, <2>5, <2>6, <2>7, <2>8, <2>9, <2>10, <2>11, <2>12, <2>13 DEF Next
<1> QED
  BY <1>1, <1>2

\* It holds at the start.
LEMMA SeatInit == Init => SeatInv
<1> SUFFICES ASSUME Init PROVE SeatInv
  OBVIOUS
<1>1. scenario \in Scripts
  BY ScenariosAssumption DEF Init
<1>2. /\ Proper(mru) /\ ~IsOpen(mru)
  BY ShutFacts DEF Init, Scopes
<1>3. TypeInv
  <2>1. outputs \in SUBSET Outputs
    BY <1>1 DEF Init, Scripts
  <2>2. IsFiniteSet(mapped)
    BY FS_EmptySet DEF Init
  <2> QED
    BY <1>1, <2>1, <2>2 DEF Init, TypeInv
<1>4. KeysBalanced
  BY DEF Init, KeysBalanced
<1>5. Stamped /\ FocusIsLast
  BY DEF Init, Stamped, FocusIsLast, Distinct, ToSet
<1> QED
  BY <1>2, <1>3, <1>4, <1>5 DEF Init, SeatInv, RepeatHeld, Switcher, LockCloses, IsLocked

\* So it always holds.
LEMMA SeatAlways == Spec => []SeatInv
BY SeatInit, SeatStep, PTL DEF Spec

---------------------------------------------------------------------------
(* The screenshot UI and the switcher. *)

\* Without binds that repeat, only one of them is open.
NotBoth == ~scenario.repeating => repeat = {} /\ ~(screenshot /\ IsOpen(mru))

\* A bind does not open one over the other: those of the open screenshot UI do not open the
\* switcher, and opening the screenshot UI cancels it.
LEMMA BindNotBoth ==
  ASSUME SeatInv, NEW bind, Bindable(bind), NEW p, NEW s, HandleBind(bind, p, s),
         screenshot => bind.action.name # "MruAdvance",
         screenshot', IsOpen(mru')
  PROVE  screenshot /\ IsOpen(mru)
<1>1. CASE DoAction(bind.action, bind.allow_when_locked, p, s)
  BY <1>1, DoActionFacts DEF Bindable
<1>2. CASE UNCHANGED overlays
  BY <1>2 DEF overlays, IsOpen
<1> QED
  BY <1>1, <1>2 DEF HandleBind

\* What the open screenshot UI leaves of the binds.
LEMMA ScreenshotBindsFacts ==
  ASSUME screenshot, NEW mods, NEW bind \in FoundBinds(mods)
  PROVE  bind.action.name # "MruAdvance"
BY DEF FoundBinds, AllowedDuringScreenshot, ScreenshotBinds, Hardcoded, Act

\* The press of a key.
LEMMA KeyPressNotBoth ==
  ASSUME SeatInv, NotBoth, UNCHANGED scenario, NEW k \in Keys, OnKeyPress(k)
  PROVE  NotBoth'
<1>1. CASE UNCHANGED <<repeat, screenshot, mru>>
  BY <1>1 DEF NotBoth, IsOpen
<1>2. CASE \E bind \in FoundBinds(Down(pressed, Mods)) : PressBind(k, bind)
  <2>1. PICK bind \in FoundBinds(Down(pressed, Mods)) : PressBind(k, bind)
    BY <1>2
  <2>2. /\ Bindable(bind) /\ HandleBind(bind, Intercepted(k), suppressed \cup {k})
        /\ screenshot => bind.action.name # "MruAdvance"
    BY <2>1, FoundBindsFacts, ScreenshotBindsFacts DEF PressBind
  <2>3. screenshot' /\ IsOpen(mru') => screenshot /\ IsOpen(mru)
    BY <2>2, BindNotBoth
  <2>4. ~scenario.repeating => repeat' = repeat \/ repeat' = {}
    BY <2>1 DEF PressBind, StartKeyRepeat
  <2> QED
    BY <2>3, <2>4 DEF NotBoth, IsOpen
<1> QED
  BY <1>1, <1>2 DEF OnKeyPress, PressAtExitDialog, PressEscape, PressForwarded, overlays

\* A step that opens nothing and starts no repeat.
LEMMA QuietNotBoth ==
  ASSUME NotBoth, UNCHANGED scenario, repeat' = repeat \/ repeat' = {},
         screenshot' /\ IsOpen(mru') => screenshot /\ IsOpen(mru)
  PROVE  NotBoth'
BY DEF NotBoth, IsOpen

\* Every step keeps one of the two shut.
LEMMA NotBothStep ==
  ASSUME SeatInv, NotBoth, [Next]_vars
  PROVE  NotBoth'
<1>1. CASE UNCHANGED vars
  BY <1>1, QuietNotBoth DEF vars
<1>2. CASE Next
  <2>0. /\ UNCHANGED scenario /\ Proper(mru) /\ ~IsOpen(Close(mru))
    BY <1>2, CloseFacts DEF Next, SeatInv, Switcher, Proper
  <2>1. CASE \E k \in Keys : OnKeyPress(k)
    BY <2>0, <2>1, KeyPressNotBoth
  <2>2. CASE \E k \in Keys : OnKeyRelease(k)
    <3>1. PICK k \in Keys : OnKeyRelease(k)
      BY <2>2
    <3>2. repeat' = {} /\ UNCHANGED screenshot /\ (mru' = mru \/ mru' = Close(mru))
      BY <3>1 DEF OnKeyRelease, CloseMru, overlays
    <3> QED
      BY <2>0, <3>2, QuietNotBoth
  <2>3. CASE RepeatFires
    <3>1. scenario.repeating \/ ~NotBoth
      BY <2>3 DEF RepeatFires, NotBoth
    <3> QED
      BY <2>0, <3>1 DEF NotBoth
  <2>4. CASE IpcAction
    <3>1. UNCHANGED repeat
      BY <2>4 DEF IpcAction
    <3>2. CASE \E action \in IpcActions : DoAction(action, FALSE, pressed, suppressed)
      <4>1. PICK action \in IpcActions : DoAction(action, FALSE, pressed, suppressed)
        BY <3>2
      <4>2. WellFormed(action) /\ action.name # "MruAdvance"
        BY DEF IpcActions, Act, WellFormed, Options
      <4> QED
        BY <2>0, <3>1, <4>1, <4>2, DoActionFacts, QuietNotBoth
    <3>3. CASE UNCHANGED overlays
      BY <2>0, <3>1, <3>3, QuietNotBoth DEF overlays
    <3> QED
      BY <2>4, <3>2, <3>3 DEF IpcAction
  <2>5. CASE OnButtonPress \/ OnTouchDown
    <3>1. UNCHANGED repeat
      BY <2>5 DEF OnButtonPress, OnTouchDown
    <3>2. \/ IsOpen(mru) /\ PickOrDismiss
          \/ UNCHANGED <<screenshot, mru>>
      BY <2>5 DEF OnButtonPress, OnTouchDown
    <3> QED
      BY <2>0, <3>1, <3>2, PickOrDismissFacts, QuietNotBoth
  <2>6. CASE OnButtonRelease
    <3>1. UNCHANGED <<repeat, mru>> /\ (screenshot' => screenshot)
      BY <2>6 DEF OnButtonRelease
    <3> QED
      BY <2>0, <3>1, QuietNotBoth
  <2>7. CASE OnPointerMotion
    <3>1. /\ UNCHANGED <<repeat, screenshot>> /\ IsOpen(mru)
      BY <2>0, <2>7 DEF OnPointerMotion, ThumbnailsUnder, Proper
    <3> QED
      BY <2>0, <3>1, QuietNotBoth
  <2>8. CASE \E w \in scenario.windows : MapWindow(w) \/ UnmapWindow(w)
    <3>1. PICK w \in scenario.windows : MapWindow(w) \/ UnmapWindow(w)
      BY <2>8
    <3>2. CASE MapWindow(w)
      BY <2>0, <3>2, QuietNotBoth DEF MapWindow, overlays
    <3>3. CASE UnmapWindow(w)
      <4>1. /\ w \in mapped /\ mapped' = mapped \ {w} /\ mru' = RemoveWindow(mru, w)
            /\ UNCHANGED <<repeat, screenshot, outputs>>
        BY <3>3 DEF UnmapWindow
      <4> QED
        BY <2>0, <4>1, RemoveWindowFacts, QuietNotBoth
    <3> QED
      BY <3>1, <3>2, <3>3
  <2>9. CASE \/ CooldownExpires \/ FocusLayout \/ FocusLayer \/ UpdateKeyboardFocus
             \/ CommitTimer
    <3>1. UNCHANGED <<repeat, overlays>>
      BY <2>9 DEF CooldownExpires, FocusLayout, FocusLayer, UpdateKeyboardFocus, CommitTimer
    <3> QED
      BY <2>0, <3>1, QuietNotBoth DEF overlays
  <2>10. CASE \/ Lock \/ ContinueToLocking \/ LockProgresses
              \/ \E o \in Outputs : AddOutput(o) \/ RemoveOutput(o)
    <3>1. /\ UNCHANGED repeat /\ (screenshot' => screenshot)
          /\ mru' = mru \/ mru' = Close(mru)
      BY <2>10 DEF Lock, ContinueToLocking, LockProgresses, AddOutput, RemoveOutput, overlays
    <3> QED
      BY <2>0, <3>1, QuietNotBoth
  <2>11. CASE MruClock
    <3>1. /\ UNCHANGED <<repeat, screenshot>>
          /\ IsOpen(mru) \/ mru' = Shut("Closed", mru.scope)
      BY <2>11 DEF MruClock
    <3>2. ~IsOpen(Shut("Closed", mru.scope))
      BY DEF Shut, IsOpen
    <3> QED
      BY <2>0, <3>1, <3>2, QuietNotBoth
  <2> QED
    BY <1>2, <2>1, <2>2, <2>3, <2>4, <2>5, <2>6, <2>7, <2>8, <2>9, <2>10, <2>11 DEF Next
<1> QED
  BY <1>1, <1>2

\* So one of the two is always shut.
LEMMA NotBothAlways == Spec => []NotBoth
<1>1. Init => NotBoth
  BY DEF Init, NotBoth
<1> QED
  BY <1>1, NotBothStep, SeatAlways, PTL DEF Spec

---------------------------------------------------------------------------
(* The results. *)

\* The releases kept from the clients are always exactly those of intercepted presses that
\* are still down (suppressed_keys, suppressed_buttons), however keys, buttons, VT changes,
\* repeats, dialogs and locks interleave.
THEOREM KeysStayBalanced == Spec => []KeysBalanced
<1>1. SeatInv => KeysBalanced
  BY DEF SeatInv
<1> QED
  BY <1>1, SeatAlways, PTL

\* The screenshot UI and the switcher are never open over a locked session, and the
\* switcher only on an output that exists and while a modifier is held; unless binds repeat,
\* the two are not open together (continue_to_locking, remove_output, close_mru, cancel_mru).
THEOREM OverlaysStayAllowed == Spec => []OverlaysAllowed
<1>1. SeatInv /\ NotBoth => OverlaysAllowed
  BY DEF SeatInv, NotBoth, LockCloses, Switcher, Proper, OverlaysAllowed
<1> QED
  BY <1>1, SeatAlways, NotBothAlways, PTL

\* verify_invariants of the switcher, and that it lists windows of the layout only.
THEOREM MruStaysConsistent == Spec => []MruConsistent
<1>1. SeatInv => MruConsistent
  BY DEF SeatInv, Switcher, Proper, Sound, MruConsistent
<1> QED
  BY <1>1, SeatAlways, PTL

\* A switcher is only opened by an action, which lists the windows by their timestamps
\* with the pending one applied.
LEMMA OnlyActionsOpen ==
  ASSUME SeatInv, Next, ~IsOpen(mru), IsOpen(mru')
  PROVE  mru'.thumbnails = ByRecency(Committed)
<1>1. ASSUME NEW action, WellFormed(action), NEW allow, allow => action.name = "Spawn",
             NEW p, NEW s, DoAction(action, allow, p, s)
      PROVE  mru'.thumbnails = ByRecency(Committed)
  BY <1>1, DoActionFacts
<1>2. mru' # mru
  OBVIOUS
<1>3. ASSUME NEW bind, Bindable(bind), NEW p, NEW s, HandleBind(bind, p, s)
      PROVE  mru'.thumbnails = ByRecency(Committed)
  <2>1. DoAction(bind.action, bind.allow_when_locked, p, s)
    BY <1>2, <1>3 DEF HandleBind, overlays
  <2> QED
    BY <1>1, <1>3, <2>1 DEF Bindable
<1>4. CASE \E k \in Keys : OnKeyPress(k)
  <2>1. PICK k \in Keys : OnKeyPress(k)
    BY <1>4
  <2>2. PICK bind \in FoundBinds(Down(pressed, Mods)) : PressBind(k, bind)
    BY <1>2, <2>1 DEF OnKeyPress, PressAtExitDialog, PressEscape, PressForwarded, overlays
  <2> QED
    BY <1>3, <2>2, FoundBindsFacts DEF PressBind
<1>5. CASE RepeatFires
  <2>1. PICK bind \in repeat : HandleBind(bind, pressed, suppressed)
    BY <1>5 DEF RepeatFires
  <2> QED
    BY <1>3, <2>1 DEF SeatInv, RepeatHeld, Bindable
<1>6. CASE IpcAction
  <2>1. PICK action \in IpcActions : DoAction(action, FALSE, pressed, suppressed)
    BY <1>2, <1>6 DEF IpcAction, overlays
  <2>2. WellFormed(action)
    BY DEF IpcActions, Act, WellFormed, Options
  <2> QED
    BY <1>1, <2>1, <2>2
<1>7. Close(mru) = mru
  BY DEF Close
<1>8. ~MruClock
  <2>1. mru' = Shut("Closed", mru.scope) => ~IsOpen(mru')
    BY DEF Shut, IsOpen
  <2> QED
    BY <2>1 DEF MruClock
<1>9. ~OnPointerMotion /\ ~OnTouchDown /\ ~OnButtonPress
  <2>1. ThumbnailsUnder = {}
    BY DEF SeatInv, Switcher, Proper, ThumbnailsUnder
  <2> QED
    BY <1>2, <2>1 DEF OnPointerMotion, OnTouchDown, OnButtonPress
<1>10. \A k \in Keys : ~OnKeyRelease(k)
  BY <1>2 DEF OnKeyRelease, overlays
<1>11. \A w \in scenario.windows : ~MapWindow(w) /\ ~UnmapWindow(w)
  BY <1>2 DEF MapWindow, UnmapWindow, RemoveWindow, overlays
<1>12. /\ ~Lock /\ ~ContinueToLocking /\ ~LockProgresses
       /\ \A o \in Outputs : ~AddOutput(o) /\ ~RemoveOutput(o)
  BY <1>2, <1>7 DEF Lock, ContinueToLocking, LockProgresses, AddOutput, RemoveOutput, overlays
<1>13. /\ ~CooldownExpires /\ ~OnButtonRelease /\ ~FocusLayout /\ ~FocusLayer
       /\ ~UpdateKeyboardFocus /\ ~CommitTimer
  BY <1>2 DEF CooldownExpires, OnButtonRelease, FocusLayout, FocusLayer, UpdateKeyboardFocus,
              CommitTimer, overlays
<1> QED
  BY <1>4, <1>5, <1>6, <1>8, <1>9, <1>10, <1>11, <1>12, <1>13 DEF Next

\* The list that the switcher opens with starts with the window that has the keyboard, also
\* when its timestamp is still pending (do_action on MruAdvance, mru_apply_keyboard_commit).
THEOREM FocusedComesFirstHolds == Spec => FocusedComesFirst
<1>1. ASSUME SeatInv, [Next]_vars, ~IsOpen(mru), IsOpen(mru'), active # NoWindow,
             focus = [kind |-> "Layout", window |-> active]
      PROVE  Head(mru'.thumbnails) = active
  <2>1. mru'.thumbnails = ByRecency(Committed)
    BY <1>1, OnlyActionsOpen DEF vars
  <2>2. TypeInv /\ Stamped /\ FocusIsLast /\ focus.window = active /\ active \in mapped
    BY <1>1 DEF SeatInv, TypeInv
  <2>3. /\ Committed \in Seq(Windows \cup {NoWindow}) /\ Distinct(Committed)
        /\ ToSet(Committed) \subseteq mapped \cup {NoWindow}
        /\ Committed # <<>> /\ Last(Committed) = active
    BY <2>2, CommittedFacts
  <2> QED
    BY <1>1, <2>1, <2>2, <2>3, ByRecencyFacts
<1>2. SeatInv /\ [Next]_vars =>
        [~IsOpen(mru) /\ IsOpen(mru') /\ active # NoWindow
           /\ focus = [kind |-> "Layout", window |-> active]
         => Head(mru'.thumbnails) = active]_vars
  BY <1>1
<1> QED
  BY <1>2, SeatAlways, PTL DEF Spec, FocusedComesFirst

=============================================================================
