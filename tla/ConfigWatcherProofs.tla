------------------------ MODULE ConfigWatcherProofs ------------------------
(***************************************************************************)
(* Proofs about ConfigWatcher, for any contents of the files and any       *)
(* number of changes and requests: no difference between the files and the *)
(* configuration in use goes unseen.                                       *)
(***************************************************************************)
EXTENDS ConfigWatcher, TLAPS

---------------------------------------------------------------------------
(* The inductive invariant. *)

\* A load, as far as the thread has got with it.
IsLoad(r) ==
  /\ r = [main |-> r.main, includes |-> r.includes]
  /\ r.includes = [f \in DOMAIN r.includes |-> r.includes[f]]

TypeInv ==
  /\ pc \in {"starting", "idle", "checking", "checking_includes", "picking", "reading",
             "reading_includes", "sending", "setting_includes"}
  /\ path \in {Regular, Explicit} /\ wanted \in {Regular, Explicit}
  /\ requests \in Seq({NoPath, Explicit})
  /\ IsLoad(result)

\* The user's last wish is the path in use, or is in the channel.
PathComes == path = wanted \/ (wanted = Explicit /\ \E i \in DOMAIN requests : requests[i] # NoPath)

\* A request that is on its way asks for what the user wants.
RequestsWanted == \A i \in DOMAIN requests : requests[i] # NoPath => requests[i] = wanted

\* Outside of a load, what is remembered is what was loaded, unless there is a gap.  A path
\* of which no file was there has been loaded from not at all.
Remembered ==
  pc \in {"idle", "checking", "checking_includes"} /\ gap = {} /\ last_props # Missing =>
    last_props = result.main /\ includes = result.includes

\* Each load reads the files that what it has read of the main one includes.
Complete ==
  pc \notin {"reading_includes"} => DOMAIN result.includes = IncludesOf(result.main)

\* What was loaded last is in the channel, or is in use if it parses.
Delivered ==
  pc \notin {"reading_includes", "sending"} =>
    IF changed = <<>>
    THEN failed = ~Parses(result) /\ (Parses(result) => config = result)
    ELSE changed = <<result>>

WatchInv == TypeInv /\ PathComes /\ RequestsWanted /\ Remembered /\ Complete /\ Delivered

---------------------------------------------------------------------------

\* After the properties were read again, without a gap, they are those of what was loaded.
LEMMA NoGapNoDifference ==
  ASSUME NEW main, NEW inner, IsLoad(result),
         inner = [f \in DOMAIN result.includes |-> inner[f]], Unlike(main, inner) = {}
  PROVE  main = result.main /\ inner = result.includes
<1>1. main = result.main
  BY DEF Unlike
<1>2. \A f \in DOMAIN result.includes : inner[f] = result.includes[f]
  BY DEF Unlike
<1> QED
  BY <1>1, <1>2 DEF IsLoad

\* main() has loaded a configuration before there is a thread.
LEMMA WatchInvInit == Init => WatchInv
<1> SUFFICES ASSUME Init PROVE WatchInv
  OBVIOUS
<1>1. TypeInv
  BY DEF Init, TypeInv, IsLoad, Look
<1>2. PathComes /\ RequestsWanted /\ Remembered
  BY DEF Init, PathComes, RequestsWanted, Remembered
<1>3. Complete
  BY DEF Init, Complete, Look
<1>4. Delivered
  BY DEF Init, Delivered
<1> QED
  BY <1>1, <1>2, <1>3, <1>4 DEF WatchInv

\* Every step of the thread, of the event loop and of whoever writes files keeps it.
LEMMA WatchInvStep == WatchInv /\ [Next]_vars => WatchInv'
<1> SUFFICES ASSUME WatchInv, [Next]_vars PROVE WatchInv'
  OBVIOUS
<1> USE DEF WatchInv
<1>1. CASE Start
  <2>1. TypeInv' /\ PathComes' /\ RequestsWanted' /\ Complete' /\ Delivered'
    BY <1>1 DEF Start, TypeInv, PathComes, RequestsWanted, Complete, Delivered
  <2>2. Remembered'
    <3> SUFFICES ASSUME gap' = {} PROVE last_props' = result.main /\ includes' = result.includes
      BY <1>1 DEF Remembered, Start
    <3> QED
      BY <1>1, NoGapNoDifference DEF Start, TypeInv, Look
  <2> QED
    BY <2>1, <2>2
<1>2. CASE Take
  <2>1. requests \in Seq({NoPath, Explicit}) /\ requests # <<>>
    BY <1>2 DEF Take, TypeInv
  <2>2. /\ Head(requests) \in {NoPath, Explicit} /\ Head(requests) = requests[1]
        /\ requests' \in Seq({NoPath, Explicit})
        /\ \A i \in DOMAIN requests' : requests'[i] = requests[i + 1] /\ i + 1 \in DOMAIN requests
        /\ \A i \in DOMAIN requests : i # 1 => i - 1 \in DOMAIN requests' /\ requests'[i - 1] = requests[i]
    BY <1>2, <2>1 DEF Take
  <2>3. TypeInv'
    BY <1>2, <2>2 DEF Take, TypeInv
  <2>4. RequestsWanted'
    BY <1>2, <2>2 DEF Take, RequestsWanted
  <2>5. PathComes'
    <3>1. CASE Head(requests) = NoPath
      BY <1>2, <2>1, <2>2, <3>1 DEF Take, PathComes
    <3>2. CASE Head(requests) # NoPath
      BY <1>2, <2>1, <2>2, <3>2 DEF Take, PathComes, RequestsWanted
    <3> QED
      BY <3>1, <3>2
  <2>6. Remembered'
    <3>1. CASE Head(requests) = NoPath
      BY <1>2, <3>1 DEF Take, Remembered
    <3>2. CASE Head(requests) # NoPath
      <4>1. Alternative \in ToSet(Head(requests))
        BY <2>2, <3>2 DEF Explicit, ToSet
      <4> QED
        BY <1>2, <3>2, <4>1 DEF Take, Remembered
    <3> QED
      BY <3>1, <3>2
  <2>7. Complete' /\ Delivered'
    BY <1>2 DEF Take, Complete, Delivered, Parses
  <2> QED
    BY <2>3, <2>4, <2>5, <2>6, <2>7
<1>3. CASE Timeout
  BY <1>3 DEF Timeout, TypeInv, PathComes, RequestsWanted, Remembered, Complete, Delivered, Parses
<1>4. CASE Check
  <2>1. TypeInv' /\ PathComes' /\ RequestsWanted' /\ Complete' /\ Delivered'
    BY <1>4 DEF Check, TypeInv, PathComes, RequestsWanted, Complete, Delivered, Parses
  <2>2. Remembered'
    BY <1>4 DEF Check, Remembered
  <2> QED
    BY <2>1, <2>2
<1>5. CASE CheckIncludes
  BY <1>5 DEF CheckIncludes, TypeInv, PathComes, RequestsWanted, Remembered, Complete, Delivered,
              Parses
<1>6. CASE PickFile
  BY <1>6 DEF PickFile, TypeInv, PathComes, RequestsWanted, Remembered, Complete, Delivered, Parses
<1>7. CASE Read
  <2>1. TypeInv'
    BY <1>7 DEF Read, TypeInv, IsLoad, Nothing
  <2> QED
    BY <1>7, <2>1 DEF Read, PathComes, RequestsWanted, Remembered, Complete, Delivered
<1>8. CASE ReadIncludes
  <2>1. result' = [main |-> result.main, includes |-> Look(IncludesOf(result.main))]
    BY <1>8 DEF ReadIncludes, TypeInv, IsLoad
  <2>2. TypeInv' /\ Complete'
    BY <1>8, <2>1 DEF ReadIncludes, TypeInv, IsLoad, Look, Complete
  <2> QED
    BY <1>8, <2>2 DEF ReadIncludes, PathComes, RequestsWanted, Remembered, Delivered
<1>9. CASE Send
  BY <1>9 DEF Send, TypeInv, PathComes, RequestsWanted, Remembered, Complete, Delivered
<1>10. CASE SetIncludes
  <2>1. TypeInv' /\ PathComes' /\ RequestsWanted' /\ Complete' /\ Delivered'
    BY <1>10 DEF SetIncludes, TypeInv, PathComes, RequestsWanted, Complete, Delivered, Parses
  <2>2. Remembered'
    <3> SUFFICES ASSUME gap' = {} PROVE last_props = result.main /\ includes' = result.includes
      BY <1>10 DEF Remembered, SetIncludes
    <3> QED
      BY <1>10, NoGapNoDifference DEF SetIncludes, TypeInv, Look
  <2> QED
    BY <2>1, <2>2
<1>11. CASE LoadConfig
  <2>1. PICK p \in {NoPath, Explicit} :
          requests' = Append(requests, p) /\ wanted' = IF p = NoPath THEN wanted ELSE p
    BY <1>11 DEF LoadConfig
  <2>2. /\ requests \in Seq({NoPath, Explicit})
        /\ requests' \in Seq({NoPath, Explicit})
        /\ \A i \in DOMAIN requests : i \in DOMAIN requests' /\ requests'[i] = requests[i]
        /\ \A i \in DOMAIN requests' : i \in DOMAIN requests \/ requests'[i] = p
        /\ \E i \in DOMAIN requests' : requests'[i] = p
    BY <2>1 DEF TypeInv
  <2>3. TypeInv'
    BY <1>11, <2>1, <2>2 DEF LoadConfig, TypeInv
  <2>4. \A i \in DOMAIN requests : requests[i] \in {NoPath, Explicit}
    BY <2>2
  <2>5. PathComes' /\ RequestsWanted'
    BY <1>11, <2>1, <2>2, <2>4 DEF LoadConfig, PathComes, RequestsWanted
  <2>6. Remembered' /\ Complete' /\ Delivered'
    BY <1>11 DEF LoadConfig, Remembered, Complete, Delivered, Parses
  <2> QED
    BY <2>3, <2>5, <2>6
<1>12. CASE ReloadConfig
  <2>1. TypeInv' /\ PathComes' /\ RequestsWanted' /\ Remembered' /\ Complete'
    BY <1>12 DEF ReloadConfig, TypeInv, PathComes, RequestsWanted, Remembered, Complete
  <2>2. Delivered'
    BY <1>12 DEF ReloadConfig, Delivered, Parses
  <2> QED
    BY <2>1, <2>2
<1>13. CASE Change
  BY <1>13 DEF Change, TypeInv, PathComes, RequestsWanted, Remembered, Complete, Delivered, Parses
<1>14. CASE UNCHANGED vars
  BY <1>14 DEF vars, TypeInv, PathComes, RequestsWanted, Remembered, Complete, Delivered, Parses
<1> QED
  BY <1>1, <1>2, <1>3, <1>4, <1>5, <1>6, <1>7, <1>8, <1>9, <1>10, <1>11, <1>12, <1>13, <1>14
  DEF Next, Thread

\* Invisible differences would be those between what the thread remembers, what it loaded
\* and what the compositor uses: there are none.
LEMMA InvariantShows == WatchInv => DifferenceIsVisible
<1> SUFFICES ASSUME WatchInv, pc = "idle", requests = <<>>, changed = <<>>, gap = {},
                    Resolve(path) = last_props, Look(DOMAIN includes) = includes
             PROVE  UpToDate
  BY DEF DifferenceIsVisible
<1>1. path = wanted
  BY DEF WatchInv, PathComes
<1>2. CASE last_props = Missing
  BY <1>1, <1>2 DEF UpToDate
<1>3. CASE last_props # Missing
  <2>1. last_props = result.main /\ includes = result.includes
    BY <1>3 DEF WatchInv, Remembered
  <2>2. DOMAIN result.includes = IncludesOf(result.main)
    BY DEF WatchInv, Complete
  <2> DEFINE now == [main |-> Resolve(wanted), includes |-> Look(IncludesOf(Resolve(wanted)))]
  <2>3. now = result
    BY <1>1, <2>1, <2>2 DEF WatchInv, TypeInv, IsLoad
  <2>4. failed = ~Parses(result) /\ (Parses(result) => config = result)
    BY DEF WatchInv, Delivered
  <2> QED
    BY <2>3, <2>4 DEF UpToDate
<1> QED
  BY <1>2, <1>3

\* Whatever happens to the files and whenever, also while the thread checks and loads them,
\* and however many requests come: between two rounds, with both channels empty and without
\* a gap, the configuration is up to date or the next check sees that it is not.
THEOREM NoDifferenceUnseen == Spec => []DifferenceIsVisible
<1>1. WatchInv => DifferenceIsVisible
  BY InvariantShows
<1> QED
  BY <1>1, WatchInvInit, WatchInvStep, PTL DEF Spec

=============================================================================
