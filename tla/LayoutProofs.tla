---------------------------- MODULE LayoutProofs ----------------------------
(***************************************************************************)
(* The invariants of Layout, for any outputs, windows, names and bounds.   *)
(***************************************************************************)
EXTENDS LayoutInvariants, RetainingProofs

---------------------------------------------------------------------------
(* One monitor. *)

\* A monitor with some of its fields changed.
LEMMA EditFacts ==
  ASSUME NEW m \in MonitorType, NEW s \in Seq(Workspaces), NEW a \in Nat, NEW w \in Switches
  PROVE  /\ Changed(m, [m EXCEPT !.workspaces = s], s, m.active, m.switch)
         /\ Changed(m, [m EXCEPT !.workspaces = s, !.active = a], s, a, m.switch)
         /\ Changed(m, [m EXCEPT !.active = a], m.workspaces, a, m.switch)
         /\ Changed(m, [m EXCEPT !.switch = w], m.workspaces, m.active, w)
         /\ Changed(m, [m EXCEPT !.active = a, !.switch = w], m.workspaces, a, w)
         /\ Changed(m, [m EXCEPT !.workspaces = s, !.active = a, !.switch = w], s, a, w)
<1>1. Changed(m, [m EXCEPT !.workspaces = s], s, m.active, m.switch)
  BY DEF MonitorType, SameMonitor, Changed
<1>2. Changed(m, [m EXCEPT !.workspaces = s, !.active = a], s, a, m.switch)
  BY DEF MonitorType, SameMonitor, Changed
<1>3. Changed(m, [m EXCEPT !.active = a], m.workspaces, a, m.switch)
  BY DEF MonitorType, SameMonitor, Changed
<1>4. Changed(m, [m EXCEPT !.switch = w], m.workspaces, m.active, w)
  BY DEF MonitorType, SameMonitor, Changed
<1>5. Changed(m, [m EXCEPT !.active = a, !.switch = w], m.workspaces, a, w)
  BY DEF MonitorType, SameMonitor, Changed
<1>6. Changed(m, [m EXCEPT !.workspaces = s, !.active = a, !.switch = w], s, a, w)
  BY DEF MonitorType, SameMonitor, Changed
<1> QED
  BY <1>1, <1>2, <1>3, <1>4, <1>5, <1>6

\* A new workspace is one, and empty (Workspace::new_with_config).
LEMMA NewWorkspaceFacts ==
  ASSUME NEW name \in Names \cup {NoName}, NEW o \in Outputs \cup {NoOutput}
  PROVE  /\ NewWorkspace(name, o) \in Workspaces
         /\ NewWorkspace(name, o).original_output = o /\ NewWorkspace(name, o).name = name
         /\ HasWindowsOrName(NewWorkspace(name, o)) <=> name # NoName
BY DEF NewWorkspace, Workspaces, HasWindowsOrName

\* What add_workspace_at leaves: the rest moves up, and so do the active index and the
\* target of the animation.
LEMMA AddWorkspaceAtFacts ==
  ASSUME NEW m \in MonitorType, NEW i \in 1 .. Len(m.workspaces) + 1
  PROVE  WorkspaceAdded(m, i, AddWorkspaceAt(m, i))
<1> DEFINE n == AddWorkspaceAt(m, i)
           new == NewWorkspace(NoName, m.output)
           s == InsertAt(m.workspaces, i, new)
           a == IF i <= m.active THEN m.active + 1 ELSE m.active
           w == IF m.switch.kind = "Animation" /\ i <= m.switch.to
                  THEN Animation(m.switch.to + 1) ELSE m.switch
<1>1. m.workspaces \in Seq(Workspaces) /\ m.active \in Nat /\ m.output \in Outputs /\ m.switch \in Switches
  BY DEF MonitorType
<1>2. new \in Workspaces
  BY <1>1, NewWorkspaceFacts
<1> HIDE DEF new
<1>3. /\ s \in Seq(Workspaces) /\ Len(s) = Len(m.workspaces) + 1
      /\ \A j \in 1 .. Len(m.workspaces) + 1 :
           s[j] = IF j < i THEN m.workspaces[j] ELSE IF j = i THEN new ELSE m.workspaces[j - 1]
  <2>1. Inserted(Workspaces, m.workspaces, i, new, s)
    BY <1>1, <1>2, InsertAtFacts
  <2> QED
    BY <2>1 DEF Inserted
<1>4. n = [m EXCEPT !.workspaces = s, !.active = a, !.switch = w]
  BY DEF AddWorkspaceAt, new
<1>5. a \in Nat
  BY <1>1
<1>6. w \in Switches /\ w.kind = m.switch.kind /\ (m.switch.kind # "Animation" => w = m.switch)
      /\ (m.switch.kind = "Animation" => w.to = IF i <= m.switch.to THEN m.switch.to + 1 ELSE m.switch.to)
  BY <1>1 DEF Switches, Animation
<1> HIDE DEF n, s, a, w
<1>7. Changed(m, n, s, a, w)
  BY <1>3, <1>4, <1>5, <1>6, EditFacts
<1>8. Aimed(m) => Aimed(n)
  BY <1>6, <1>7 DEF Aimed, Changed, a
<1> QED
  BY <1>3, <1>6, <1>7, <1>8 DEF Changed, SameSwitch, WorkspaceAdded, n, a, new

\* One of them is empty and the end that goes (Monitor::clean_up_workspaces).
LEMMA MergeFacts ==
  ASSUME NEW m, Ends(m), m.switch = NoSwitch, NoStray(m)
  PROVE  Tidy(MergeEmptyEnds(m)) /\ SameMonitor(m, MergeEmptyEnds(m))
         /\ MergeEmptyEnds(m).switch = NoSwitch
<1> DEFINE n == MergeEmptyEnds(m)
           two == m.ews /\ Len(m.workspaces) = 2 /\ \A i \in 1 .. 2 : ~HasWindowsOrName(m.workspaces[i])
<1>1. m \in MonitorType /\ m.workspaces \in Seq(Workspaces)
  BY DEF Ends, MonitorType
<1>2. Aimed(m) /\ NoSwitch \in Switches
  BY DEF Aimed, NoSwitch, Switches
<1>3. CASE two
  <2>1. n = [m EXCEPT !.workspaces = <<m.workspaces[1]>>, !.active = 1]
    BY <1>3 DEF MergeEmptyEnds
  <2>2. m.workspaces[1] \in Workspaces
    BY <1>1, <1>3
  <2>3. Changed(m, n, <<m.workspaces[1]>>, 1, NoSwitch)
    <3>1. <<m.workspaces[1]>> \in Seq(Workspaces)
      BY <2>2
    <3>2. m.switch \in Switches
      BY <1>1 DEF MonitorType
    <3>3. 1 \in Nat
      OBVIOUS
    <3> QED
      BY <1>1, <2>1, <3>1, <3>2, <3>3, EditFacts
  <2> HIDE DEF n
  <2>4. Len(n.workspaces) = 1 /\ n.workspaces[1] = m.workspaces[1] /\ n.ews
    BY <1>3, <2>3 DEF Changed, SameMonitor
  <2>5. Ends(n)
    BY <1>3, <2>3, <2>4 DEF Changed, Ends, Vacant, SameMonitor
  <2> QED
    BY <1>2, <2>3, <2>4, <2>5 DEF Changed, Tidy, Aimed, NoStray, Inner, NoSwitch, n
<1>4. CASE ~two
  <2>1. n = m
    BY <1>4 DEF MergeEmptyEnds
  <2>2. m.ews => Len(m.workspaces) # 2
    <3> SUFFICES ASSUME m.ews, Len(m.workspaces) = 2 PROVE FALSE
      OBVIOUS
    <3> QED
      BY <1>4 DEF Ends, Vacant
  <2> QED
    BY <1>2, <2>1, <2>2 DEF Tidy, SameMonitor
<1> QED
  BY <1>3, <1>4

\* What clean_up_workspaces leaves when no switch is on.
LEMMA CleanUpFacts ==
  ASSUME NEW m, Ends(m), m.switch = NoSwitch
  PROVE  Tidy(CleanUp(m)) /\ SameMonitor(m, CleanUp(m)) /\ CleanUp(m).switch = NoSwitch
<1> DEFINE s == m.workspaces
           L == Len(s)
           K == {i \in DOMAIN s : \/ i = L \/ i = m.active \/ (m.ews /\ i = 1)
                                  \/ HasWindowsOrName(s[i])}
           t == Kept(s, K)
           a == Cardinality({i \in K : i <= m.active})
           c == [m EXCEPT !.workspaces = t, !.active = a]
<1>1. m \in MonitorType /\ s \in Seq(Workspaces) /\ L \in Nat /\ DOMAIN s = 1 .. L /\ m.active \in 1 .. L
      /\ s # <<>>
  BY DEF Ends, MonitorType
<1>2. CleanUp(m) = MergeEmptyEnds(c)
  BY DEF CleanUp
<1>3. K \in SUBSET DOMAIN s /\ L \in K /\ m.active \in K /\ (m.ews => 1 \in K)
  BY <1>1
<1>4. \A i \in K : i = L \/ i = m.active \/ (m.ews /\ i = 1) \/ HasWindowsOrName(s[i])
  OBVIOUS
<1>5. PICK at : Keeps(Workspaces, s, K, t, at)
  <2> HIDE DEF K, s
  <2> QED
    BY <1>1, <1>3, KeptFacts
<1> HIDE DEF K, s, L, t
<1>6. /\ t \in Seq(Workspaces) /\ Len(t) \in Nat \ {0}
      /\ a \in 1 .. Len(t) /\ at[a] = m.active
      /\ \A n \in 1 .. Len(t) : t[n] = s[at[n]] /\ at[n] \in K
      /\ \A i, n \in 1 .. Len(t) : i < n => at[i] < at[n]
      /\ at[Len(t)] = L /\ (m.ews => at[1] = 1)
  <2>1. /\ at[Len(t)] = Len(s) /\ Len(t) \in Nat \ {0} /\ (m.ews => at[1] = 1)
    BY <1>1, <1>3, <1>5, KeptEnds DEF L
  <2>2. /\ t \in Seq(Workspaces) /\ Len(t) = Cardinality(K)
        /\ a \in 1 .. Len(t) /\ at[a] = m.active
    BY <1>3, <1>5 DEF Keeps
  <2>3. /\ \A n \in 1 .. Len(t) : t[n] = s[at[n]] /\ at[n] \in K
        /\ \A i, n \in 1 .. Len(t) : i < n => at[i] < at[n]
    BY <1>5, <2>2 DEF Keeps
  <2> QED
    BY <2>1, <2>2, <2>3 DEF L
<1> HIDE DEF a
<1>7. Changed(m, c, t, a, NoSwitch)
  <2>1. a \in Nat /\ m.switch \in Switches
    BY <1>1, <1>6 DEF MonitorType
  <2> QED
    BY <1>1, <1>6, <2>1, EditFacts
<1> HIDE DEF c
<1>8. Vacant(c, Len(t)) /\ (m.ews => Vacant(c, 1))
  <2>1. Vacant(m, L) /\ (m.ews => Vacant(m, 1))
    BY DEF Ends, L, s
  <2>2. c.workspaces[Len(t)] = m.workspaces[L] /\ (m.ews => c.workspaces[1] = m.workspaces[1])
    BY <1>6, <1>7 DEF Changed, s
  <2> QED
    BY <1>7, <2>1, <2>2 DEF Vacant, Changed, SameMonitor
<1>9. Ends(c)
  BY <1>6, <1>7, <1>8 DEF Ends, Changed, SameMonitor
<1>10. NoStray(c)
  <2> SUFFICES ASSUME NEW i \in Inner(c), i # c.active PROVE HasWindowsOrName(c.workspaces[i])
    BY DEF NoStray
  <2>1. i \in 1 .. Len(t) /\ i < Len(t) /\ (m.ews => 1 < i) /\ i # a
    BY <1>6, <1>7 DEF Inner, Changed, SameMonitor
  <2>2. at[i] # L /\ (m.ews => at[i] # 1) /\ at[i] # m.active
    <3>1. Len(t) \in 1 .. Len(t) /\ 1 \in 1 .. Len(t)
      BY <1>6
    <3>2. at[i] < at[Len(t)] /\ (m.ews => at[1] < at[i])
      BY <1>6, <2>1, <3>1
    <3>3. i < a \/ a < i
      BY <1>6, <2>1
    <3>4. at[i] < at[a] \/ at[a] < at[i]
      BY <1>6, <2>1, <3>3
    <3>5. at[i] \in Nat /\ m.active \in Nat /\ L \in Nat
      BY <1>1, <1>3, <1>6, <2>1
    <3> QED
      BY <1>6, <3>2, <3>4, <3>5
  <2> QED
    BY <1>4, <1>6, <1>7, <2>1, <2>2 DEF Changed
<1>11. c.switch = NoSwitch /\ SameMonitor(m, c)
  BY <1>7 DEF Changed
<1> QED
  BY <1>2, <1>9, <1>10, <1>11, MergeFacts DEF SameMonitor

\* A new workspace at an end is vacant.
LEMMA VacantFacts ==
  ASSUME NEW m, m.output \in Outputs, NEW i, m.workspaces[i] = NewWorkspace(NoName, m.output)
  PROVE  Vacant(m, i)
BY NewWorkspaceFacts DEF Vacant

\* The first step of keep-up: a new last workspace.
LEMMA BottomFacts ==
  ASSUME NEW m, NEW i, EndsBut(m, i)
  PROVE  LET n == IF i = Len(m.workspaces) THEN AddBottom(m) ELSE m
             L == Len(m.workspaces)
         IN /\ EndsBut(n, i) /\ SameMonitor(m, n) /\ SameSwitch(m, n) /\ (Aimed(m) => Aimed(n))
            /\ Vacant(n, Len(n.workspaces)) /\ n.active = m.active
            /\ Len(n.workspaces) = IF i = L THEN L + 1 ELSE L
            /\ \A k \in 1 .. L : n.workspaces[k] = m.workspaces[k]
<1> DEFINE n == IF i = Len(m.workspaces) THEN AddBottom(m) ELSE m
           L == Len(m.workspaces)
<1>1. /\ m \in MonitorType /\ L \in Nat /\ m.active \in 1 .. L /\ i \in 1 .. L /\ m.output \in Outputs
      /\ L + 1 \in 1 .. L + 1
  BY DEF EndsBut, MonitorType
<1>2. CASE i = L
  <2>1. n = AddWorkspaceAt(m, L + 1)
    BY <1>2 DEF AddBottom
  <2>2. /\ n \in MonitorType /\ SameMonitor(m, n) /\ SameSwitch(m, n) /\ Len(n.workspaces) = L + 1
        /\ \A j \in 1 .. L + 1 : n.workspaces[j] = IF j < L + 1 THEN m.workspaces[j]
                                                   ELSE IF j = L + 1 THEN NewWorkspace(NoName, m.output)
                                                   ELSE m.workspaces[j - 1]
        /\ n.active = (IF L + 1 <= m.active THEN m.active + 1 ELSE m.active)
        /\ (Aimed(m) => Aimed(n))
    <3> HIDE DEF n
    <3>1. WorkspaceAdded(m, L + 1, n)
      BY <1>1, <2>1, AddWorkspaceAtFacts
    <3> QED
      BY <3>1 DEF WorkspaceAdded
  <2> HIDE DEF n
  <2>3. n.active = m.active /\ \A k \in 1 .. L : n.workspaces[k] = m.workspaces[k]
    <3> HIDE DEF L
    <3> QED
      BY <1>1, <2>2
  <2>4. n.workspaces[L + 1] = NewWorkspace(NoName, m.output)
    <3>1. n.workspaces[L + 1] = IF L + 1 < L + 1 THEN m.workspaces[L + 1]
                                ELSE IF L + 1 = L + 1 THEN NewWorkspace(NoName, m.output)
                                ELSE m.workspaces[L + 1 - 1]
      BY <1>1, <2>2
    <3> HIDE DEF L
    <3> QED
      BY <1>1, <3>1
  <2>5. Vacant(n, L + 1)
    BY <1>1, <2>2, <2>4, VacantFacts DEF SameMonitor
  <2>6. m.ews /\ i # 1 => Vacant(n, 1)
    BY <1>1, <2>2, <2>3 DEF EndsBut, Vacant, SameMonitor
  <2>7. EndsBut(n, i)
    BY <1>1, <2>2, <2>3, <2>5, <2>6 DEF EndsBut, SameMonitor
  <2> QED
    BY <1>2, <2>2, <2>3, <2>5, <2>7 DEF n
<1>3. CASE i # L
  BY <1>1, <1>3 DEF EndsBut, SameMonitor, SameSwitch
<1> QED
  BY <1>2, <1>3

\* What is left after workspace i was put to use and the ends were kept up
\* (Monitor::add_tile, add_column, Layout::set_workspace_name).
LEMMA KeepEmptyEndsFacts ==
  ASSUME NEW m, NEW i, EndsBut(m, i)
  PROVE  LET n == KeepEmptyEnds(m, i)
             j == ShiftedByTop(m, i)
         IN /\ Ends(n) /\ SameMonitor(m, n) /\ SameSwitch(m, n) /\ (Aimed(m) => Aimed(n))
            /\ m.ews /\ Len(m.workspaces) # 2 => Len(n.workspaces) # 2
            /\ j \in 1 .. Len(n.workspaces) - 1 /\ (m.ews => j # 1)
            /\ n.workspaces[j] = m.workspaces[i] /\ (i = m.active <=> j = n.active)
            /\ NoStrayBut(m, i) => NoStrayBut(n, j)
<1> DEFINE b == IF i = Len(m.workspaces) THEN AddBottom(m) ELSE m
           n == KeepEmptyEnds(m, i)
           L == Len(m.workspaces)
           M == Len(b.workspaces)
           j == ShiftedByTop(m, i)
<1>1. /\ m \in MonitorType /\ L \in Nat /\ m.active \in 1 .. L /\ i \in 1 .. L /\ m.output \in Outputs
      /\ m.ews \in BOOLEAN
  BY DEF EndsBut, MonitorType
<1>2. /\ EndsBut(b, i) /\ SameMonitor(m, b) /\ SameSwitch(m, b) /\ (Aimed(m) => Aimed(b))
      /\ Vacant(b, M) /\ b.active = m.active /\ M = (IF i = L THEN L + 1 ELSE L)
      /\ \A k \in 1 .. L : b.workspaces[k] = m.workspaces[k]
  BY BottomFacts
<1>3. n = IF m.ews /\ i = 1 THEN AddTop(b) ELSE b
  BY DEF KeepEmptyEnds
<1> HIDE DEF b, n
<1>4. M \in Nat /\ i \in 1 .. M - 1 /\ b \in MonitorType
  BY <1>1, <1>2 DEF EndsBut
<1>5. NoStrayBut(m, i) => NoStrayBut(b, i)
  <2> SUFFICES ASSUME NoStrayBut(m, i), NEW k \in Inner(b), k # b.active, k # i
               PROVE  HasWindowsOrName(b.workspaces[k])
    BY DEF NoStrayBut
  <2>1. k \in Inner(m) /\ k \in 1 .. L /\ k # m.active
    BY <1>1, <1>2 DEF Inner, SameMonitor
  <2> QED
    BY <1>2, <2>1 DEF NoStrayBut
<1>6. CASE ~(m.ews /\ i = 1)
  <2>1. n = b /\ j = i
    BY <1>3, <1>6 DEF ShiftedByTop
  <2>2. Ends(b)
    BY <1>1, <1>2, <1>6 DEF EndsBut, Ends, SameMonitor
  <2>3. m.ews /\ L # 2 => M # 2
    BY <1>1, <1>2, <1>6
  <2> QED
    BY <1>1, <1>2, <1>4, <1>5, <1>6, <2>1, <2>2, <2>3 DEF n
<1>7. CASE m.ews /\ i = 1
  <2>1. n = AddWorkspaceAt(b, 1) /\ j = 2 /\ 1 \in 1 .. M + 1
    BY <1>3, <1>4, <1>7 DEF ShiftedByTop, AddTop
  <2>2. /\ n \in MonitorType /\ SameMonitor(b, n) /\ SameSwitch(b, n) /\ Len(n.workspaces) = M + 1
        /\ \A k \in 1 .. M + 1 : n.workspaces[k] = IF k < 1 THEN b.workspaces[k]
                                                   ELSE IF k = 1 THEN NewWorkspace(NoName, b.output)
                                                   ELSE b.workspaces[k - 1]
        /\ n.active = (IF 1 <= b.active THEN b.active + 1 ELSE b.active)
        /\ (Aimed(b) => Aimed(n))
    <3>1. WorkspaceAdded(b, 1, n)
      BY <1>4, <2>1, AddWorkspaceAtFacts
    <3> QED
      BY <3>1 DEF WorkspaceAdded
  <2>3. n.active = m.active + 1 /\ \A k \in 2 .. M + 1 : n.workspaces[k] = b.workspaces[k - 1]
    BY <1>1, <1>2, <1>4, <2>2
  <2>4. n.workspaces[1] = NewWorkspace(NoName, b.output)
    BY <1>4, <2>2
  <2>5. Vacant(n, 1)
    BY <1>1, <1>2, <2>2, <2>4, VacantFacts DEF SameMonitor
  <2>6. Vacant(n, M + 1)
    <3>1. n.workspaces[M + 1] = b.workspaces[M]
      BY <1>4, <2>3
    <3> QED
      BY <1>2, <2>2, <3>1 DEF Vacant, SameMonitor
  <2>7. Ends(n)
    BY <1>1, <1>2, <1>4, <2>2, <2>3, <2>5, <2>6 DEF Ends, SameMonitor
  <2>8. NoStrayBut(b, i) => NoStrayBut(n, j)
    <3> SUFFICES ASSUME NoStrayBut(b, i), NEW k \in Inner(n), k # n.active, k # 2
                 PROVE  HasWindowsOrName(n.workspaces[k])
      BY <2>1 DEF NoStrayBut
    <3>1. k \in 2 .. M /\ k - 1 \in Inner(b) /\ k - 1 # b.active /\ k - 1 # i
      <4>1. k \in 2 .. M /\ k # b.active + 1
        BY <1>1, <1>2, <1>4, <1>7, <2>2, <2>3 DEF Inner, SameMonitor
      <4>2. k - 1 \in 2 .. M - 1 /\ k - 1 # b.active
        BY <1>1, <1>2, <1>4, <2>2, <4>1
      <4> QED
        BY <1>2, <1>4, <1>7, <4>1, <4>2 DEF Inner, SameMonitor
    <3>2. n.workspaces[k] = b.workspaces[k - 1]
      BY <1>4, <2>3, <3>1
    <3> QED
      BY <3>1, <3>2 DEF NoStrayBut
  <2>9. n.workspaces[j] = m.workspaces[i] /\ (i = m.active <=> j = n.active)
    BY <1>1, <1>2, <1>4, <1>7, <2>1, <2>3
  <2>10. SameMonitor(m, n) /\ SameSwitch(m, n) /\ (Aimed(m) => Aimed(n))
    BY <1>2, <2>2 DEF SameMonitor, SameSwitch
  <2>11. j \in 1 .. Len(n.workspaces) - 1 /\ j # 1 /\ (L # 2 => Len(n.workspaces) # 2)
    BY <1>1, <1>2, <1>4, <1>7, <2>1, <2>2
  <2> QED
    BY <1>5, <2>7, <2>8, <2>9, <2>10, <2>11 DEF n
<1> QED
  BY <1>6, <1>7

LEMMA PutFacts ==
  ASSUME NEW m \in MonitorType, NEW i \in 1 .. Len(m.workspaces), NEW ws \in Workspaces
  PROVE  Put(m, i, ws, [m EXCEPT !.workspaces[i] = ws])
<1> DEFINE s == [m.workspaces EXCEPT ![i] = ws]
           n == [m EXCEPT !.workspaces = s]
<1>1. m.workspaces \in Seq(Workspaces) /\ m.active \in Nat /\ m.switch \in Switches
  BY DEF MonitorType
<1>2. s \in Seq(Workspaces) /\ Len(s) = Len(m.workspaces)
      /\ \A k \in 1 .. Len(m.workspaces) : s[k] = IF k = i THEN ws ELSE m.workspaces[k]
  BY <1>1
<1> HIDE DEF s
<1>3. Changed(m, n, s, m.active, m.switch)
  BY <1>1, <1>2, EditFacts
<1>4. [m EXCEPT !.workspaces[i] = ws] = n
  BY DEF s
<1> QED
  BY <1>2, <1>3, <1>4 DEF Put, Changed

\* Windows W leave workspace i, or arrive there.
LEMMA WindowsFacts ==
  ASSUME NEW m \in MonitorType, NEW i \in 1 .. Len(m.workspaces), NEW W \in SUBSET Windows
  PROVE  /\ Put(m, i, [m.workspaces[i] EXCEPT !.windows = W], [m EXCEPT !.workspaces[i].windows = W])
         /\ [m.workspaces[i] EXCEPT !.windows = W] \in Workspaces
<1>1. m.workspaces \in Seq(Workspaces)
  BY DEF MonitorType
<1>2. m.workspaces[i] \in Workspaces
  BY <1>1
<1>3. [m.workspaces[i] EXCEPT !.windows = W] \in Workspaces
  BY <1>2 DEF Workspaces
<1>4. [m EXCEPT !.workspaces[i].windows = W]
        = [m EXCEPT !.workspaces[i] = [m.workspaces[i] EXCEPT !.windows = W]]
  BY <1>1 DEF MonitorType
<1> QED
  BY <1>3, <1>4, PutFacts

\* When workspaces lose their windows or names the ends stay empty.
LEMMA EmptiedFacts ==
  ASSUME NEW m, Ends(m), NEW i \in 1 .. Len(m.workspaces), NEW ws, NEW n, Put(m, i, ws, n),
         HasWindowsOrName(ws) => HasWindowsOrName(m.workspaces[i]),
         ws.original_output \in {m.workspaces[i].original_output, m.output}
  PROVE  /\ Ends(n) /\ (Aimed(m) => Aimed(n))
         /\ NoStray(m) /\ (i = m.active \/ HasWindowsOrName(ws)) => NoStray(n)
<1>1. m \in MonitorType /\ Len(m.workspaces) \in Nat /\ m.active \in 1 .. Len(m.workspaces)
  BY DEF Ends, MonitorType
<1>2. \A k \in 1 .. Len(m.workspaces) : Vacant(m, k) => Vacant(n, k)
  BY DEF Vacant, Put, SameMonitor
<1>3. Ends(n)
  BY <1>1, <1>2 DEF Ends, Put, SameMonitor
<1>4. Aimed(m) => Aimed(n)
  BY DEF Aimed, Put
<1>5. ASSUME NoStray(m), i = m.active \/ HasWindowsOrName(ws) PROVE NoStray(n)
  <2> SUFFICES ASSUME NEW k \in Inner(n), k # n.active PROVE HasWindowsOrName(n.workspaces[k])
    BY DEF NoStray
  <2>1. k \in Inner(m) /\ k # m.active /\ k \in 1 .. Len(m.workspaces)
    BY <1>1 DEF Inner, Put, SameMonitor
  <2> QED
    BY <1>5, <2>1 DEF NoStray, Put
<1> QED
  BY <1>3, <1>4, <1>5

\* Activating a workspace that may have been the only one without windows.
LEMMA ActivateWorkspaceFacts ==
  ASSUME NEW m, Ends(m), Aimed(m), m.ews => Len(m.workspaces) # 2,
         NEW i \in 1 .. Len(m.workspaces)
  PROVE  LET n == ActivateWorkspace(m, i)
         IN /\ Ends(n) /\ Aimed(n) /\ (n.ews => Len(n.workspaces) # 2)
            /\ SameMonitor(m, n) /\ n.workspaces = m.workspaces
            /\ (m.switch = NoSwitch => NoStrayBut(m, i)) => Tidy(n)
<1> DEFINE n == ActivateWorkspace(m, i)
           w == IF m.switch.kind = "DndScroll" \/ m.active = i THEN m.switch ELSE Animation(i)
<1>1. m \in MonitorType /\ m.switch \in Switches /\ Len(m.workspaces) \in Nat /\ m.active \in Nat
  BY DEF Ends, MonitorType
<1>2. w \in Switches /\ (w = NoSwitch => m.active = i /\ m.switch = NoSwitch)
      /\ (w.kind = "Animation" => w.to = i)
  BY <1>1 DEF Switches, Animation, NoSwitch, Aimed
<1>3. n = [m EXCEPT !.active = i, !.switch = w]
  BY DEF ActivateWorkspace
<1> HIDE DEF n, w
<1>4. i \in Nat /\ m.workspaces \in Seq(Workspaces)
  BY <1>1 DEF MonitorType
<1>5. Changed(m, n, m.workspaces, i, w)
  BY <1>1, <1>2, <1>3, <1>4, EditFacts
<1>6. Ends(n)
  BY <1>5 DEF Changed, Ends, Vacant, SameMonitor
<1>7. (m.switch = NoSwitch => NoStrayBut(m, i)) => (n.switch = NoSwitch => NoStray(n))
  BY <1>2, <1>5 DEF Changed, NoStray, NoStrayBut, Inner, SameMonitor
<1>8. Aimed(n) /\ (n.ews => Len(n.workspaces) # 2)
  BY <1>2, <1>5 DEF Changed, Aimed, SameMonitor
<1> QED
  BY <1>5, <1>6, <1>7, <1>8 DEF Tidy, Changed, n

\* Windows that arrive on a workspace (Monitor::add_tile and its relatives).
LEMMA AddWindowsFacts ==
  ASSUME NEW m, Ends(m), Aimed(m), m.ews => Len(m.workspaces) # 2,
         NEW i \in 1 .. Len(m.workspaces), NEW W \in SUBSET Windows, NEW activate \in BOOLEAN
  PROVE  LET n == AddWindows(m, i, W, activate)
         IN /\ Ends(n) /\ Aimed(n) /\ SameMonitor(m, n) /\ (n.ews => Len(n.workspaces) # 2)
            /\ W # {} /\ (m.switch = NoSwitch => NoStrayBut(m, i)) => Tidy(n)
<1> DEFINE ws == [m.workspaces[i] EXCEPT !.windows = @ \cup W,
                    !.original_output = IF m.workspaces[i].name = NoName THEN m.output ELSE @]
           added == [m EXCEPT !.workspaces[i].windows = @ \cup W,
                              !.workspaces[i].original_output =
                                 IF m.workspaces[i].name = NoName THEN m.output ELSE @]
           padded == KeepEmptyEnds(added, i)
           n == AddWindows(m, i, W, activate)
           j == ShiftedByTop(m, i)
<1>1. /\ m \in MonitorType /\ m.workspaces \in Seq(Workspaces) /\ Len(m.workspaces) \in Nat
      /\ m.active \in 1 .. Len(m.workspaces) /\ m.output \in Outputs /\ m.switch \in Switches
  BY DEF Ends, MonitorType
<1>2. m.workspaces[i] \in Workspaces
  BY <1>1
<1>3. ws \in Workspaces /\ (W # {} => HasWindowsOrName(ws))
  BY <1>1, <1>2 DEF Workspaces, HasWindowsOrName
<1>4. added = [m EXCEPT !.workspaces[i] = ws]
  BY <1>1, <1>2 DEF MonitorType, Workspaces
<1>5. n = IF activate THEN ActivateWorkspace(padded, j) ELSE padded
  BY DEF AddWindows
<1> HIDE DEF ws, added
<1>6. Put(m, i, ws, added)
  BY <1>1, <1>3, <1>4, PutFacts
<1>7. EndsBut(added, i) /\ Aimed(added) /\ (added.ews => Len(added.workspaces) # 2)
  <2>1. \A k \in 1 .. Len(m.workspaces) : k # i /\ Vacant(m, k) => Vacant(added, k)
    BY <1>6 DEF Vacant, Put, SameMonitor
  <2>2. Len(m.workspaces) \in 1 .. Len(m.workspaces) /\ 1 \in 1 .. Len(m.workspaces)
    BY <1>1
  <2> QED
    BY <1>1, <1>6, <2>1, <2>2 DEF EndsBut, Ends, Put, SameMonitor, Aimed
<1>8. /\ Ends(padded) /\ SameMonitor(added, padded) /\ SameSwitch(added, padded) /\ Aimed(padded)
      /\ added.ews => Len(padded.workspaces) # 2
      /\ ShiftedByTop(added, i) \in 1 .. Len(padded.workspaces) - 1
      /\ padded.workspaces[ShiftedByTop(added, i)] = added.workspaces[i]
      /\ NoStrayBut(added, i) => NoStrayBut(padded, ShiftedByTop(added, i))
  <2> HIDE DEF padded
  <2> QED
    BY <1>7, KeepEmptyEndsFacts DEF padded
<1>9. ShiftedByTop(added, i) = j /\ added.workspaces[i] = ws /\ added.switch = m.switch
      /\ SameMonitor(m, added)
  BY <1>6 DEF ShiftedByTop, Put, SameMonitor
<1>10. SameMonitor(m, padded) /\ (padded.ews => Len(padded.workspaces) # 2) /\ j \in 1 .. Len(padded.workspaces)
  <2>1. Len(padded.workspaces) \in Nat
    BY <1>8 DEF Ends, MonitorType
  <2> QED
    BY <1>8, <1>9, <2>1 DEF SameMonitor
<1> HIDE DEF padded, j, n
<1>11. padded.switch = NoSwitch => m.switch = NoSwitch
  BY <1>8, <1>9 DEF SameSwitch, NoSwitch
<1>12. ASSUME m.switch = NoSwitch => NoStrayBut(m, i)
       PROVE  padded.switch = NoSwitch => NoStrayBut(padded, j)
  <2>1. NoStrayBut(m, i) => NoStrayBut(added, i)
    BY <1>1, <1>6 DEF NoStrayBut, Put, Inner, SameMonitor
  <2> QED
    BY <1>8, <1>9, <1>11, <1>12, <2>1
<1>13. ASSUME W # {}, m.switch = NoSwitch => NoStrayBut(m, i) PROVE Tidy(n)
  <2>1. padded.switch = NoSwitch => NoStrayBut(padded, j)
    BY <1>12, <1>13
  <2>2. CASE activate
    BY <1>5, <1>8, <1>10, <2>1, <2>2, ActivateWorkspaceFacts
  <2>3. CASE ~activate
    <3>1. HasWindowsOrName(padded.workspaces[j])
      BY <1>3, <1>8, <1>9, <1>13
    <3>2. padded.switch = NoSwitch => NoStray(padded)
      BY <2>1, <3>1 DEF NoStray, NoStrayBut
    <3> QED
      BY <1>5, <1>8, <1>10, <2>3, <3>2 DEF Tidy
  <2> QED
    BY <2>2, <2>3
<1>14. Ends(n) /\ Aimed(n) /\ SameMonitor(m, n) /\ (n.ews => Len(n.workspaces) # 2)
  <2>1. CASE activate
    BY <1>5, <1>8, <1>10, <2>1, ActivateWorkspaceFacts DEF SameMonitor
  <2>2. CASE ~activate
    BY <1>5, <1>8, <1>10, <2>2
  <2> QED
    BY <2>1, <2>2
<1> QED
  BY <1>13, <1>14 DEF n

\* A clean-up that stops the switch first.
LEMMA StopAndCleanUpFacts ==
  ASSUME NEW m, Ends(m)
  PROVE  Tidy(StopAndCleanUp(m)) /\ SameMonitor(m, StopAndCleanUp(m)) /\ StopAndCleanUp(m).switch = NoSwitch
<1> DEFINE n == [m EXCEPT !.switch = NoSwitch]
<1>1. m \in MonitorType /\ m.workspaces \in Seq(Workspaces) /\ m.active \in Nat /\ NoSwitch \in Switches
  BY DEF Ends, MonitorType, NoSwitch, Switches
<1>2. Changed(m, n, m.workspaces, m.active, NoSwitch)
  BY <1>1, EditFacts
<1>3. StopAndCleanUp(m) = CleanUp(n)
  BY DEF StopAndCleanUp
<1> HIDE DEF n
<1>4. Ends(n) /\ n.switch = NoSwitch /\ SameMonitor(m, n)
  BY <1>2 DEF Ends, Changed, Vacant, SameMonitor
<1> QED
  BY <1>3, <1>4, CleanUpFacts DEF SameMonitor

\* A clean-up that waits for the end of a switch.
LEMMA CleanUpIfStillFacts ==
  ASSUME NEW m, Ends(m), Aimed(m), m.ews => Len(m.workspaces) # 2
  PROVE  Tidy(CleanUpIfStill(m)) /\ SameMonitor(m, CleanUpIfStill(m))
<1>1. CASE m.switch = NoSwitch
  BY <1>1, CleanUpFacts DEF CleanUpIfStill
<1>2. CASE m.switch # NoSwitch
  BY <1>2 DEF CleanUpIfStill, Tidy, SameMonitor
<1> QED
  BY <1>1, <1>2

\* A workspace in between goes away; the active index, if it was above, stays with its
\* workspace.
LEMMA DropFacts ==
  ASSUME NEW m, m \in MonitorType, m.active \in 1 .. Len(m.workspaces),
         NEW j \in 1 .. Len(m.workspaces) - 1, m.ews => j # 1 /\ Vacant(m, 1),
         Vacant(m, Len(m.workspaces)), NEW a \in 1 .. Len(m.workspaces) - 1
  PROVE  LET n == [m EXCEPT !.workspaces = RemoveAt(m.workspaces, j), !.active = a]
         IN /\ Ends(n) /\ SameMonitor(m, n) /\ n.switch = m.switch /\ n.active = a
            /\ Deleted(Workspaces, m.workspaces, j, n.workspaces)
<1> DEFINE s == RemoveAt(m.workspaces, j)
           n == [m EXCEPT !.workspaces = s, !.active = a]
           L == Len(m.workspaces)
<1>1. m.workspaces \in Seq(Workspaces) /\ L \in Nat /\ j \in 1 .. L /\ m.switch \in Switches /\ a \in Nat
  BY DEF MonitorType
<1>2. Deleted(Workspaces, m.workspaces, j, s)
  BY <1>1, RemoveAtFacts
<1> HIDE DEF s
<1>3. /\ s \in Seq(Workspaces) /\ Len(s) = L - 1
      /\ \A k \in 1 .. L - 1 : s[k] = IF k < j THEN m.workspaces[k] ELSE m.workspaces[k + 1]
  BY <1>2 DEF Deleted
<1>4. Changed(m, n, s, a, m.switch)
  BY <1>1, <1>3, EditFacts
<1> HIDE DEF n
<1>5. L - 1 \in 1 .. L - 1 /\ s[L - 1] = m.workspaces[L] /\ (m.ews => s[1] = m.workspaces[1])
  BY <1>1, <1>3
<1>6. Ends(n)
  BY <1>1, <1>3, <1>4, <1>5 DEF Ends, Vacant, Changed, SameMonitor
<1> QED
  BY <1>2, <1>4, <1>6 DEF Changed, n, s

\* What is left when a window goes (Layout::remove_window).
LEMMA RemoveWindowFacts ==
  ASSUME NEW m, Tidy(m), NEW i \in 1 .. Len(m.workspaces), NEW w \in Windows,
         w \in m.workspaces[i].windows
  PROVE  Tidy(RemoveWindow(m, i, w)) /\ SameMonitor(m, RemoveWindow(m, i, w))
<1> DEFINE ws == [m.workspaces[i] EXCEPT !.windows = @ \ {w}]
           removed == [m EXCEPT !.workspaces[i].windows = @ \ {w}]
           L == Len(m.workspaces)
           a == IF i < m.active THEN m.active - 1 ELSE m.active
           drop == /\ ~HasWindowsOrName(removed.workspaces[i])
                   /\ i # m.active /\ i # L /\ m.switch = NoSwitch
           n == RemoveWindow(m, i, w)
<1>1. /\ m \in MonitorType /\ m.workspaces \in Seq(Workspaces) /\ L \in Nat /\ Ends(m)
      /\ m.active \in 1 .. L /\ Aimed(m) /\ (m.ews => L # 2) /\ (m.switch = NoSwitch => NoStray(m))
  BY DEF Tidy, Ends, MonitorType
<1>2. m.workspaces[i] \in Workspaces /\ HasWindowsOrName(m.workspaces[i])
  BY <1>1 DEF HasWindowsOrName
<1>3. i # L /\ (m.ews => i # 1)
  BY <1>1, <1>2 DEF Ends, Vacant
<1>4. Put(m, i, ws, removed) /\ ws \in Workspaces
  <2>1. m.workspaces[i].windows \ {w} \in SUBSET Windows
    BY <1>2 DEF Workspaces
  <2> QED
    BY <1>1, <2>1, WindowsFacts
<1>5. ws.original_output = m.workspaces[i].original_output
  BY <1>2 DEF Workspaces
<1> HIDE DEF ws, removed
<1>6. /\ Ends(removed) /\ Aimed(removed)
      /\ NoStray(m) /\ (i = m.active \/ HasWindowsOrName(ws)) => NoStray(removed)
  BY <1>1, <1>2, <1>4, <1>5, EmptiedFacts
<1>7. SameMonitor(m, removed) /\ removed.switch = m.switch /\ removed.workspaces[i] = ws
      /\ removed.active = m.active /\ Len(removed.workspaces) = L
  BY <1>4 DEF Put
<1>8. n = LET cleaned == IF drop THEN [removed EXCEPT !.workspaces = RemoveAt(@, i), !.active = IF i < @ THEN @ - 1 ELSE @]
                         ELSE removed
          IN IF m.switch = NoSwitch THEN MergeEmptyEnds(cleaned) ELSE cleaned
  BY DEF RemoveWindow, removed
<1> HIDE DEF n
<1>9. CASE m.switch # NoSwitch
  <2>1. n = removed
    BY <1>8, <1>9
  <2> QED
    BY <1>1, <1>6, <1>7, <1>9, <2>1 DEF Tidy, SameMonitor, n
<1>10. CASE m.switch = NoSwitch /\ ~drop
  <2>1. n = MergeEmptyEnds(removed)
    BY <1>8, <1>10
  <2>2. NoStray(removed)
    BY <1>1, <1>3, <1>6, <1>7, <1>10
  <2> QED
    BY <1>6, <1>7, <1>10, <2>1, <2>2, MergeFacts DEF SameMonitor, n
<1>11. CASE m.switch = NoSwitch /\ drop
  <2> DEFINE c == [removed EXCEPT !.workspaces = RemoveAt(removed.workspaces, i), !.active = a]
  <2>1. n = MergeEmptyEnds(c)
    BY <1>7, <1>8, <1>11
  <2>2. a \in 1 .. L - 1 /\ i \in 1 .. L - 1
    BY <1>1, <1>3, <1>11
  <2>3. /\ Ends(c) /\ SameMonitor(removed, c) /\ c.switch = removed.switch /\ c.active = a
        /\ Deleted(Workspaces, removed.workspaces, i, c.workspaces)
    <3>1. removed \in MonitorType /\ removed.active \in 1 .. Len(removed.workspaces)
          /\ Vacant(removed, Len(removed.workspaces)) /\ (removed.ews => Vacant(removed, 1))
      BY <1>6 DEF Ends
    <3> HIDE DEF a
    <3> QED
      BY <1>3, <1>7, <2>2, <3>1, DropFacts DEF SameMonitor
  <2> HIDE DEF c
  <2>4. NoStray(c)
    <3> SUFFICES ASSUME NEW k \in Inner(c), k # c.active PROVE HasWindowsOrName(c.workspaces[k])
      BY DEF NoStray
    <3> DEFINE o == IF k < i THEN k ELSE k + 1
    <3>1. /\ Len(c.workspaces) = L - 1 /\ c.ews = m.ews
          /\ \A x \in 1 .. L - 1 : c.workspaces[x] = IF x < i THEN removed.workspaces[x] ELSE removed.workspaces[x + 1]
      BY <1>7, <2>3 DEF Deleted, SameMonitor
    <3>2. k \in 1 .. L - 1 /\ o \in Inner(m) /\ o # m.active /\ o # i /\ o \in 1 .. L
      <4>1. k \in (IF m.ews THEN 2 ELSE 1) .. L - 2 /\ k # a
        BY <1>1, <2>3, <3>1 DEF Inner
      <4>2. o \in (IF m.ews THEN 2 ELSE 1) .. L - 1 /\ o # i /\ k \in 1 .. L - 1
        BY <1>1, <2>2, <4>1
      <4>3. o # m.active
        BY <1>1, <1>3, <1>11, <2>2, <4>1, <4>2
      <4> QED
        BY <1>1, <4>2, <4>3 DEF Inner
    <3>3. c.workspaces[k] = m.workspaces[o]
      BY <1>4, <3>1, <3>2 DEF Put
    <3> QED
      BY <1>1, <1>11, <3>2, <3>3 DEF NoStray
  <2> QED
    BY <1>7, <1>11, <2>1, <2>3, <2>4, MergeFacts DEF SameMonitor, n
<1> QED
  BY <1>9, <1>10, <1>11

\* What is left when a workspace loses its name.
LEMMA UnnameWorkspaceFacts ==
  ASSUME NEW m, Tidy(m), NEW i \in 1 .. Len(m.workspaces)
  PROVE  Tidy(UnnameWorkspace(m, i)) /\ SameMonitor(m, UnnameWorkspace(m, i))
<1> DEFINE ws == [m.workspaces[i] EXCEPT !.name = NoName]
           n == [m EXCEPT !.workspaces[i].name = NoName]
<1>1. m \in MonitorType /\ m.workspaces \in Seq(Workspaces) /\ Ends(m) /\ Aimed(m)
      /\ (m.ews => Len(m.workspaces) # 2)
  BY DEF Tidy, Ends, MonitorType
<1>2. m.workspaces[i] \in Workspaces
  BY <1>1
<1>3. ws \in Workspaces /\ (HasWindowsOrName(ws) => HasWindowsOrName(m.workspaces[i]))
      /\ ws.original_output = m.workspaces[i].original_output
  BY <1>2 DEF Workspaces, HasWindowsOrName
<1>4. n = [m EXCEPT !.workspaces[i] = ws]
  BY <1>1 DEF MonitorType
<1> HIDE DEF ws
<1>5. Put(m, i, ws, n)
  BY <1>1, <1>3, <1>4, PutFacts
<1>6. UnnameWorkspace(m, i) = CleanUpIfStill(n)
  BY DEF UnnameWorkspace
<1> HIDE DEF n
<1>7. Ends(n) /\ Aimed(n)
  BY <1>1, <1>3, <1>5, EmptiedFacts
<1> QED
  BY <1>1, <1>5, <1>6, <1>7, CleanUpIfStillFacts DEF Put, SameMonitor

\* What is left when a workspace goes, to another monitor or for good.
LEMMA RemoveWorkspaceByIdxFacts ==
  ASSUME NEW m, Tidy(m), NEW i \in 1 .. Len(m.workspaces)
  PROVE  Tidy(RemoveWorkspaceByIdx(m, i)) /\ SameMonitor(m, RemoveWorkspaceByIdx(m, i))
<1> DEFINE n == KeepEmptyEnds(m, i)
           j == ShiftedByTop(m, i)
           a == IF j <= n.active /\ n.active > 1 THEN n.active - 1 ELSE n.active
           r == [n EXCEPT !.workspaces = RemoveAt(n.workspaces, j), !.active = a]
<1>1. EndsBut(m, i)
  BY DEF Tidy, Ends, EndsBut
<1>2. /\ Ends(n) /\ SameMonitor(m, n)
      /\ j \in 1 .. Len(n.workspaces) - 1 /\ (m.ews => j # 1)
  BY <1>1, KeepEmptyEndsFacts
<1>3. RemoveWorkspaceByIdx(m, i) = StopAndCleanUp(r)
  <2> HIDE DEF n, j
  <2>1. n \in MonitorType
    BY <1>2 DEF Ends
  <2>2. r = [n EXCEPT !.workspaces = RemoveAt(@, j), !.active = IF j <= @ /\ @ > 1 THEN @ - 1 ELSE @]
    BY <2>1 DEF MonitorType
  <2> QED
    BY <2>2 DEF RemoveWorkspaceByIdx, n, j
<1> HIDE DEF n, j
<1>4. /\ n \in MonitorType /\ n.active \in 1 .. Len(n.workspaces) /\ Len(n.workspaces) \in Nat
      /\ Vacant(n, Len(n.workspaces)) /\ (n.ews => Vacant(n, 1) /\ j # 1)
  BY <1>2 DEF Ends, MonitorType, SameMonitor
<1>5. a \in 1 .. Len(n.workspaces) - 1
  BY <1>2, <1>4
<1> HIDE DEF a
<1>6. Ends(r) /\ SameMonitor(n, r)
  BY <1>2, <1>4, <1>5, DropFacts
<1> HIDE DEF r
<1> QED
  BY <1>2, <1>3, <1>6, StopAndCleanUpFacts DEF SameMonitor

\* Sequences of workspaces that are put before the last one; the active index is chosen
\* anew.
LEMMA PutInFacts ==
  ASSUME NEW m \in MonitorType, m.active \in 1 .. Len(m.workspaces),
         NEW s \in Seq(Workspaces), NEW a \in 1 .. Len(s),
         Vacant(m, Len(m.workspaces)), s[Len(s)] = m.workspaces[Len(m.workspaces)],
         m.ews => Vacant(m, 1) /\ s[1] = m.workspaces[1]
  PROVE  LET n == [m EXCEPT !.workspaces = s, !.active = a]
         IN Ends(n) /\ SameMonitor(m, n) /\ n.workspaces = s /\ n.active = a /\ n.switch = m.switch
<1> DEFINE n == [m EXCEPT !.workspaces = s, !.active = a]
<1>1. m.switch \in Switches /\ a \in Nat
  BY DEF MonitorType
<1>2. Changed(m, n, s, a, m.switch)
  BY <1>1, EditFacts
<1> HIDE DEF n
<1>3. Ends(n)
  BY <1>2 DEF Ends, Vacant, Changed, SameMonitor
<1> QED
  BY <1>2, <1>3 DEF Changed, n

\* A workspace that comes from elsewhere (Monitor::insert_workspace).
LEMMA InsertWorkspaceFacts ==
  ASSUME NEW m, Tidy(m), NEW ws \in Workspaces, NEW idx \in 1 .. Len(m.workspaces) + 1,
         NEW activate \in BOOLEAN
  PROVE  LET n == InsertWorkspace(m, ws, idx, activate) IN Tidy(n) /\ SameMonitor(m, n)
<1> DEFINE L == Len(m.workspaces)
           before == IF idx = L + 1 THEN idx - 1 ELSE idx
           t == IF before = 1 /\ m.ews THEN AddTop(m) ELSE m
           i == ShiftedByTop(m, before)
           s == InsertAt(t.workspaces, i, ws)
           a == IF activate THEN i ELSE IF i <= t.active THEN t.active + 1 ELSE t.active
           n == [t EXCEPT !.workspaces = s, !.active = a]
<1>1. /\ m \in MonitorType /\ L \in Nat /\ m.active \in 1 .. L /\ Vacant(m, L) /\ (m.ews => Vacant(m, 1))
      /\ m.output \in Outputs
  BY DEF Tidy, Ends, MonitorType
<1>2. before \in 1 .. L
  BY <1>1
<1> HIDE DEF before
<1>3. /\ t \in MonitorType /\ SameMonitor(m, t) /\ t.active \in 1 .. Len(t.workspaces)
      /\ Vacant(t, Len(t.workspaces)) /\ (m.ews => Vacant(t, 1) /\ i # 1)
      /\ i \in 1 .. Len(t.workspaces) /\ Len(t.workspaces) \in Nat
  <2>1. CASE ~(before = 1 /\ m.ews)
    BY <1>1, <1>2, <2>1 DEF ShiftedByTop, SameMonitor
  <2>2. CASE before = 1 /\ m.ews
    <3>1. t = AddWorkspaceAt(m, 1) /\ i = 2 /\ 1 \in 1 .. L + 1
      BY <1>1, <2>2 DEF AddTop, ShiftedByTop
    <3> HIDE DEF t, i
    <3>2. WorkspaceAdded(m, 1, t)
      BY <1>1, <3>1, AddWorkspaceAtFacts
    <3>3. /\ t \in MonitorType /\ SameMonitor(m, t) /\ Len(t.workspaces) = L + 1
          /\ t.active = m.active + 1
      BY <1>1, <3>2 DEF WorkspaceAdded
    <3>4. t.workspaces[1] = NewWorkspace(NoName, m.output) /\ t.workspaces[L + 1] = m.workspaces[L]
      <4>1. 1 \in 1 .. L + 1 /\ L + 1 \in 1 .. L + 1 /\ (L + 1) - 1 = L /\ ~(L + 1 < 1) /\ L + 1 # 1
        BY <1>1
      <4> QED
        BY <3>2, <4>1 DEF WorkspaceAdded
    <3>5. Vacant(t, 1) /\ Vacant(t, L + 1)
      BY <1>1, <3>3, <3>4, VacantFacts DEF Vacant, SameMonitor
    <3> QED
      BY <1>1, <3>1, <3>3, <3>5
  <2> QED
    BY <2>1, <2>2
<1>4. InsertWorkspace(m, ws, idx, activate) = StopAndCleanUp(n)
  <2>1. n = [t EXCEPT !.workspaces = InsertAt(@, i, ws),
                      !.active = IF activate THEN i ELSE IF i <= @ THEN @ + 1 ELSE @]
    BY <1>3 DEF MonitorType
  <2> QED
    BY <2>1 DEF InsertWorkspace, before
<1> HIDE DEF t, i
<1>5. t.workspaces \in Seq(Workspaces)
  BY <1>3 DEF MonitorType
<1>6. Inserted(Workspaces, t.workspaces, i, ws, s)
  BY <1>3, <1>5, InsertAtFacts
<1>7. /\ s \in Seq(Workspaces) /\ Len(s) = Len(t.workspaces) + 1 /\ a \in 1 .. Len(s)
      /\ s[Len(s)] = t.workspaces[Len(t.workspaces)] /\ (t.ews => s[1] = t.workspaces[1])
  <2> HIDE DEF s
  <2>1. /\ s \in Seq(Workspaces) /\ Len(s) = Len(t.workspaces) + 1
        /\ \A j \in 1 .. Len(t.workspaces) + 1 :
             s[j] = IF j < i THEN t.workspaces[j] ELSE IF j = i THEN ws ELSE t.workspaces[j - 1]
    BY <1>6 DEF Inserted
  <2>2. a \in 1 .. Len(s)
    BY <1>3, <2>1
  <2>3. s[Len(s)] = t.workspaces[Len(t.workspaces)]
    BY <1>3, <2>1
  <2>4. t.ews => s[1] = t.workspaces[1]
    BY <1>3, <2>1 DEF SameMonitor
  <2> QED
    BY <2>1, <2>2, <2>3, <2>4
<1> HIDE DEF s, a
<1>8. Ends(n) /\ SameMonitor(t, n)
  <2>1. t.ews => Vacant(t, 1) /\ s[1] = t.workspaces[1]
    BY <1>3, <1>7 DEF SameMonitor
  <2> QED
    BY <1>3, <1>7, <2>1, PutInFacts
<1> HIDE DEF n
<1> QED
  BY <1>3, <1>4, <1>8, StopAndCleanUpFacts DEF SameMonitor

LEMMA WorkspacesInUseFacts ==
  ASSUME NEW s \in Seq(Workspaces)
  PROVE  WorkspacesInUse(s) \in Seq(Workspaces) /\ InUse(WorkspacesInUse(s))
<1> DEFINE K == {i \in DOMAIN s : HasWindowsOrName(s[i])}
<1>1. K \in SUBSET DOMAIN s /\ \A i \in K : HasWindowsOrName(s[i])
  OBVIOUS
<1>2. WorkspacesInUse(s) = Kept(s, K)
  BY DEF WorkspacesInUse
<1> HIDE DEF K
<1>3. PICK at : Keeps(Workspaces, s, K, Kept(s, K), at)
  BY <1>1, KeptFacts
<1>4. Kept(s, K) \in Seq(Workspaces) /\ DOMAIN Kept(s, K) = 1 .. Cardinality(K)
  BY <1>3 DEF Keeps
<1> QED
  BY <1>1, <1>2, <1>3, <1>4 DEF Keeps, InUse

LEMMA IntoWorkspacesFacts ==
  ASSUME NEW m, Ends(m)
  PROVE  IntoWorkspaces(m) \in Seq(Workspaces) /\ InUse(IntoWorkspaces(m))
<1> DEFINE ws == [m.workspaces[m.active] EXCEPT !.last = @ \cup {m.output}]
<1>1. m.workspaces \in Seq(Workspaces) /\ m.active \in 1 .. Len(m.workspaces) /\ m.output \in Outputs
  BY DEF Ends, MonitorType
<1>2. m.workspaces[m.active] \in Workspaces
  BY <1>1
<1>3. ws \in Workspaces
  BY <1>1, <1>2 DEF Workspaces
<1>4. [m.workspaces EXCEPT ![m.active].last = @ \cup {m.output}] = [m.workspaces EXCEPT ![m.active] = ws]
  OBVIOUS
<1> HIDE DEF ws
<1>5. [m.workspaces EXCEPT ![m.active] = ws] \in Seq(Workspaces)
  BY <1>1, <1>3
<1> QED
  BY <1>4, <1>5, WorkspacesInUseFacts DEF IntoWorkspaces

\* The workspaces of a vanished output arrive (Monitor::append_workspaces).
LEMMA AppendWorkspacesFacts ==
  ASSUME NEW m, Tidy(m), NEW wss \in Seq(Workspaces), InUse(wss)
  PROVE  Tidy(AppendWorkspaces(m, wss)) /\ SameMonitor(m, AppendWorkspaces(m, wss))
<1> DEFINE L == Len(m.workspaces)
           s == Front(m.workspaces) \o wss \o <<m.workspaces[L]>>
           appended == [m EXCEPT !.workspaces = s]
           top == m.ews /\ HasWindowsOrName(appended.workspaces[1])
           topped == IF top THEN AddTop(appended) ELSE appended
           a == IF m.active = L THEN Len(topped.workspaces) ELSE topped.active
           n == [topped EXCEPT !.active = a]
<1>1. /\ m \in MonitorType /\ L \in Nat \ {0} /\ m.active \in 1 .. L /\ Vacant(m, L) /\ (m.ews => Vacant(m, 1))
      /\ m.output \in Outputs /\ m.workspaces \in Seq(Workspaces) /\ m.switch \in Switches
  BY DEF Tidy, Ends, MonitorType
<1>2. CASE wss = <<>>
  BY <1>2 DEF AppendWorkspaces, SameMonitor
<1>3. CASE wss # <<>>
  <2>1. AppendWorkspaces(m, wss) = StopAndCleanUp(n)
    <3>1. topped.active = topped.active /\ appended = [m EXCEPT !.workspaces = Front(@) \o wss \o <<@[L]>>]
      BY <1>1 DEF MonitorType
    <3>2. n = [topped EXCEPT !.active = IF m.active = L THEN Len(topped.workspaces) ELSE @]
      OBVIOUS
    <3> QED
      BY <1>3, <3>1, <3>2 DEF AppendWorkspaces
  <2>2. /\ s \in Seq(Workspaces) /\ Len(s) = L + Len(wss) /\ s[L + Len(wss)] = m.workspaces[L]
        /\ s[1] = IF L = 1 THEN wss[1] ELSE m.workspaces[1]
        /\ Len(wss) \in Nat \ {0}
    <3> DEFINE f == Front(m.workspaces)
               e == <<m.workspaces[L]>>
    <3>1. f \in Seq(Workspaces) /\ Len(f) = L - 1 /\ \A k \in 1 .. L - 1 : f[k] = m.workspaces[k]
      BY <1>1 DEF Front
    <3>2. e \in Seq(Workspaces) /\ Len(e) = 1 /\ e[1] = m.workspaces[L]
      BY <1>1
    <3>3. Len(wss) \in Nat \ {0}
      BY <1>3
    <3> HIDE DEF f, e
    <3> DEFINE g == f \o wss
    <3>4. Joined(Workspaces, f, wss, g)
      BY <3>1, JoinedFacts
    <3> HIDE DEF g
    <3>5. g \in Seq(Workspaces) /\ Len(g) = L - 1 + Len(wss)
      BY <3>1, <3>4 DEF Joined
    <3>6. g[1] = IF L = 1 THEN wss[1] ELSE m.workspaces[1]
      <4>0. L \in Nat \ {0} /\ Len(f) = L - 1 /\ Len(wss) \in Nat \ {0}
        BY <1>1, <3>1, <3>3
      <4> HIDE DEF L
      <4>1. 1 \in 1 .. Len(f) + Len(wss)
        BY <4>0
      <4>2. g[1] = IF 1 <= Len(f) THEN f[1] ELSE wss[1 - Len(f)]
        BY <3>4, <4>1 DEF Joined
      <4>3. CASE L = 1
        BY <4>0, <4>2, <4>3
      <4>4. CASE L # 1
        <5>1. 1 <= Len(f) /\ 1 \in 1 .. L - 1
          BY <4>0, <4>4
        <5> QED
          BY <3>1, <4>2, <4>4, <5>1
      <4> QED
        BY <4>3, <4>4
    <3>7. s = g \o e
      BY DEF f, e, g
    <3>8. Joined(Workspaces, g, e, s)
      BY <3>2, <3>5, <3>7, JoinedFacts
    <3> HIDE DEF s
    <3>9. s \in Seq(Workspaces) /\ Len(s) = L + Len(wss)
      BY <1>1, <3>2, <3>3, <3>5, <3>8 DEF Joined
    <3>10. s[1] = g[1] /\ s[L + Len(wss)] = e[1]
      <4>1. /\ 1 \in 1 .. Len(g) + Len(e) /\ 1 <= Len(g)
            /\ L + Len(wss) \in 1 .. Len(g) + Len(e) /\ ~(L + Len(wss) <= Len(g))
            /\ L + Len(wss) - Len(g) = 1
        BY <1>1, <3>2, <3>3, <3>5
      <4> QED
        BY <3>8, <4>1 DEF Joined
    <3> QED
      BY <3>2, <3>3, <3>6, <3>9, <3>10
  <2> HIDE DEF s
  <2>3. Changed(m, appended, s, m.active, m.switch)
    BY <1>1, <2>2, EditFacts
  <2>4. HasWindowsOrName(wss[1])
    BY <2>2 DEF InUse
  <2> HIDE DEF appended
  <2>5. /\ appended \in MonitorType /\ SameMonitor(m, appended) /\ appended.active \in 1 .. Len(s)
        /\ appended.workspaces = s /\ Vacant(appended, Len(s)) /\ appended.output \in Outputs
        /\ (m.ews /\ ~top => Vacant(appended, 1))
    <3>1. Vacant(appended, Len(s))
      BY <1>1, <2>2, <2>3 DEF Changed, Vacant, SameMonitor
    <3>2. m.ews /\ ~top => Vacant(appended, 1)
      BY <1>1, <2>2, <2>3, <2>4 DEF Changed, Vacant, SameMonitor
    <3> QED
      BY <1>1, <2>2, <2>3, <3>1, <3>2 DEF Changed, SameMonitor
  <2>6. /\ topped \in MonitorType /\ SameMonitor(m, topped) /\ topped.active \in 1 .. Len(topped.workspaces)
        /\ Vacant(topped, Len(topped.workspaces)) /\ (m.ews => Vacant(topped, 1))
    <3>1. CASE ~top
      BY <2>5, <3>1
    <3>2. CASE top
      <4> DEFINE S == Len(s)
      <4>1. topped = AddWorkspaceAt(appended, 1) /\ S \in Nat \ {0} /\ 1 \in 1 .. S + 1
        BY <1>1, <2>2, <3>2 DEF AddTop
      <4> HIDE DEF topped
      <4>2. WorkspaceAdded(appended, 1, topped)
        BY <2>5, <4>1, AddWorkspaceAtFacts
      <4>3. /\ topped \in MonitorType /\ SameMonitor(appended, topped) /\ Len(topped.workspaces) = S + 1
            /\ topped.active = appended.active + 1
        BY <2>5, <4>1, <4>2 DEF WorkspaceAdded
      <4>4. topped.workspaces[1] = NewWorkspace(NoName, appended.output) /\ topped.workspaces[S + 1] = s[S]
        <5>1. 1 \in 1 .. S + 1 /\ S + 1 \in 1 .. S + 1 /\ (S + 1) - 1 = S /\ ~(S + 1 < 1) /\ S + 1 # 1
          BY <4>1
        <5> QED
          BY <2>5, <4>2, <5>1 DEF WorkspaceAdded
      <4>5. Vacant(topped, 1) /\ Vacant(topped, S + 1)
        BY <2>5, <4>3, <4>4, VacantFacts DEF Vacant, SameMonitor
      <4> QED
        BY <2>5, <4>1, <4>3, <4>5 DEF SameMonitor
    <3> QED
      BY <3>1, <3>2
  <2> HIDE DEF topped
  <2>7. a \in 1 .. Len(topped.workspaces) /\ topped.workspaces \in Seq(Workspaces) /\ topped.switch \in Switches
        /\ a \in Nat
    BY <2>6 DEF MonitorType
  <2> HIDE DEF a
  <2>8. Changed(topped, n, topped.workspaces, a, topped.switch)
    BY <2>6, <2>7, EditFacts
  <2> HIDE DEF n
  <2>9. Ends(n) /\ SameMonitor(m, n)
    BY <2>6, <2>7, <2>8 DEF Ends, Changed, Vacant, SameMonitor
  <2> QED
    BY <2>1, <2>9, StopAndCleanUpFacts DEF SameMonitor
<1> QED
  BY <1>2, <1>3

\* New workspaces at the ends that need one.
LEMMA PaddedFacts ==
  ASSUME NEW m \in MonitorType, m.active \in 1 .. Len(m.workspaces), NEW below \in BOOLEAN,
         NEW above \in BOOLEAN, ~below => Vacant(m, Len(m.workspaces)),
         m.ews /\ ~above => Vacant(m, 1)
  PROVE  LET b == IF below THEN AddBottom(m) ELSE m
             n == IF above THEN AddTop(b) ELSE b
         IN /\ Ends(n) /\ SameMonitor(m, n)
            /\ n.active = IF above THEN m.active + 1 ELSE m.active
            /\ Len(n.workspaces) = Len(m.workspaces) + (IF below THEN 1 ELSE 0) + (IF above THEN 1 ELSE 0)
<1> DEFINE b == IF below THEN AddBottom(m) ELSE m
           n == IF above THEN AddTop(b) ELSE b
           L == Len(m.workspaces)
           M == Len(b.workspaces)
<1>1. L \in Nat \ {0} /\ m.output \in Outputs /\ m.active \in 1 .. L
  BY DEF MonitorType
<1>2. /\ b \in MonitorType /\ SameMonitor(m, b) /\ b.active = m.active /\ M = L + (IF below THEN 1 ELSE 0)
      /\ Vacant(b, M) /\ (m.ews /\ ~above => Vacant(b, 1))
  <2>1. CASE ~below
    BY <1>1, <2>1 DEF SameMonitor
  <2>2. CASE below
    <3>1. b = AddWorkspaceAt(m, L + 1) /\ L + 1 \in 1 .. L + 1
      BY <1>1, <2>2 DEF AddBottom
    <3> HIDE DEF b
    <3>2. WorkspaceAdded(m, L + 1, b)
      BY <3>1, AddWorkspaceAtFacts
    <3>3. b \in MonitorType /\ SameMonitor(m, b) /\ M = L + 1 /\ b.active = m.active
      BY <1>1, <3>2 DEF WorkspaceAdded
    <3>4. b.workspaces[L + 1] = NewWorkspace(NoName, m.output) /\ b.workspaces[1] = m.workspaces[1]
      <4>1. L + 1 \in 1 .. L + 1 /\ 1 \in 1 .. L + 1 /\ ~(L + 1 < L + 1) /\ 1 < L + 1
        BY <1>1
      <4> QED
        BY <3>2, <4>1 DEF WorkspaceAdded
    <3> QED
      BY <1>1, <2>2, <3>3, <3>4, VacantFacts DEF Vacant, SameMonitor
  <2> QED
    BY <2>1, <2>2
<1> HIDE DEF b, L
<1>5. M \in Nat \ {0} /\ m.active \in 1 .. M
  <2>1. M = L \/ M = L + 1
    BY <1>1, <1>2
  <2> QED
    BY <1>1, <2>1
<1>3. CASE ~above
  <2>1. n = b
    BY <1>3
  <2>2. Ends(b)
    BY <1>2, <1>3, <1>5 DEF Ends, SameMonitor
  <2>3. M = L + (IF below THEN 1 ELSE 0) + (IF above THEN 1 ELSE 0)
    BY <1>1, <1>2, <1>3
  <2> QED
    BY <1>2, <1>3, <2>1, <2>2, <2>3 DEF b, L
<1>4. CASE above
  <2>1. n = AddWorkspaceAt(b, 1) /\ 1 \in 1 .. M + 1 /\ M \in Nat \ {0}
    BY <1>4, <1>5 DEF AddTop
  <2> HIDE DEF n
  <2>2. WorkspaceAdded(b, 1, n)
    BY <1>2, <2>1, AddWorkspaceAtFacts
  <2>3. n \in MonitorType /\ SameMonitor(b, n) /\ Len(n.workspaces) = M + 1 /\ n.active = m.active + 1
    BY <1>2, <1>5, <2>2 DEF WorkspaceAdded
  <2>4. n.workspaces[1] = NewWorkspace(NoName, b.output) /\ n.workspaces[M + 1] = b.workspaces[M]
    <3>1. M + 1 \in 1 .. M + 1 /\ 1 \in 1 .. M + 1 /\ ~(M + 1 < 1) /\ M + 1 # 1 /\ (M + 1) - 1 = M /\ ~(1 < 1)
      BY <2>1
    <3> QED
      BY <2>2, <3>1 DEF WorkspaceAdded
  <2>5. Vacant(n, 1) /\ Vacant(n, M + 1)
    BY <1>1, <1>2, <2>3, <2>4, VacantFacts DEF Vacant, SameMonitor
  <2>6. n.active \in 1 .. M + 1
    BY <1>5, <2>3
  <2>7. Ends(n) /\ SameMonitor(m, n)
    BY <1>2, <2>3, <2>5, <2>6 DEF Ends, SameMonitor
  <2> QED
    <3>1. M + 1 = L + (IF below THEN 1 ELSE 0) + (IF above THEN 1 ELSE 0)
      BY <1>1, <1>2, <1>4
    <3> QED
      BY <1>4, <2>3, <2>7, <3>1 DEF n, b, L
<1> QED
  BY <1>3, <1>4

\* Another workspace becomes the active one, without an animation.
LEMMA ReactivatedFacts ==
  ASSUME NEW m, Ends(m), NEW a \in 1 .. Len(m.workspaces)
  PROVE  Ends([m EXCEPT !.active = a]) /\ SameMonitor(m, [m EXCEPT !.active = a])
<1> DEFINE n == [m EXCEPT !.active = a]
<1>1. m \in MonitorType /\ m.workspaces \in Seq(Workspaces) /\ m.switch \in Switches /\ a \in Nat
  BY DEF Ends, MonitorType
<1>2. Changed(m, n, m.workspaces, a, m.switch)
  BY <1>1, EditFacts
<1> HIDE DEF n
<1>3. Ends(n) /\ SameMonitor(m, n)
  BY <1>2 DEF Ends, Vacant, Changed, SameMonitor
<1> QED
  BY <1>3 DEF n

LEMMA RearrangedFacts ==
  ASSUME NEW m, Tidy(m), NEW s \in Seq(Workspaces), Len(s) = Len(m.workspaces),
         NEW below \in BOOLEAN, NEW above \in BOOLEAN,
         ~below => s[Len(s)] = m.workspaces[Len(m.workspaces)],
         m.ews /\ ~above => s[1] = m.workspaces[1]
  PROVE  Rearranged(m, s, below, above, WithEnds(m, s, below, above))
<1> DEFINE moved == [m EXCEPT !.workspaces = s]
           b == IF below THEN AddBottom(moved) ELSE moved
           t == IF above THEN AddTop(b) ELSE b
<1>1. /\ m \in MonitorType /\ m.active \in 1 .. Len(m.workspaces) /\ m.active \in Nat /\ m.switch \in Switches
      /\ Vacant(m, Len(m.workspaces)) /\ (m.ews => Vacant(m, 1))
  BY DEF Tidy, Ends, MonitorType
<1>2. Changed(m, moved, s, m.active, m.switch)
  BY <1>1, EditFacts
<1> HIDE DEF moved
<1>3. /\ moved \in MonitorType /\ SameMonitor(m, moved) /\ moved.workspaces = s /\ moved.active = m.active
      /\ moved.active \in 1 .. Len(moved.workspaces)
      /\ (~below => Vacant(moved, Len(moved.workspaces))) /\ (moved.ews /\ ~above => Vacant(moved, 1))
  BY <1>1, <1>2 DEF Changed, Vacant, SameMonitor
<1>4. /\ Ends(t) /\ SameMonitor(moved, t)
      /\ t.active = IF above THEN moved.active + 1 ELSE moved.active
      /\ Len(t.workspaces) = Len(moved.workspaces) + (IF below THEN 1 ELSE 0) + (IF above THEN 1 ELSE 0)
  BY <1>3, PaddedFacts
<1> HIDE DEF t
<1>5. ASSUME NEW a \in 1 .. Len(t.workspaces)
      PROVE  LET n == StopAndCleanUp([t EXCEPT !.active = a]) IN Tidy(n) /\ SameMonitor(m, n)
  <2> DEFINE u == [t EXCEPT !.active = a]
  <2>1. Ends(u) /\ SameMonitor(t, u)
    BY <1>4, ReactivatedFacts
  <2> HIDE DEF u
  <2>2. Tidy(StopAndCleanUp(u)) /\ SameMonitor(u, StopAndCleanUp(u))
    BY <2>1, StopAndCleanUpFacts
  <2>3. SameMonitor(m, StopAndCleanUp(u))
    BY <1>3, <1>4, <2>1, <2>2 DEF SameMonitor
  <2> QED
    BY <2>2, <2>3 DEF u
<1>6. /\ t.active = IF above THEN m.active + 1 ELSE m.active
      /\ Len(t.workspaces) = Len(s) + (IF below THEN 1 ELSE 0) + (IF above THEN 1 ELSE 0)
  BY <1>3, <1>4
<1>7. WithEnds(m, s, below, above) = t
  BY DEF WithEnds, t, moved
<1> QED
  BY <1>5, <1>6, <1>7 DEF Rearranged

LEMMA SwapFacts ==
  ASSUME NEW s \in Seq(Workspaces), NEW i \in 1 .. Len(s), NEW j \in 1 .. Len(s), i # j
  PROVE  Swapped(s, i, j, Swap(s, i, j))
BY DEF Swap, Swapped

\* A workspace that moves down, or up, past its neighbour (move_workspace_down, _up).
LEMMA MoveWorkspaceDownFacts ==
  ASSUME NEW m, Tidy(m)
  PROVE  Tidy(MoveWorkspaceDown(m)) /\ SameMonitor(m, MoveWorkspaceDown(m))
<1> DEFINE a == m.active
           L == Len(m.workspaces)
           s == Swap(m.workspaces, a, a + 1)
           below == a + 1 = L
           above == m.ews /\ a = 1
           t == WithEnds(m, s, below, above)
           to == IF above THEN a + 2 ELSE a + 1
           n == StopAndCleanUp([t EXCEPT !.active = to])
<1>1. /\ m.workspaces \in Seq(Workspaces) /\ L \in Nat /\ a \in 1 .. L /\ m \in MonitorType
      /\ below \in BOOLEAN /\ above \in BOOLEAN
  BY DEF Tidy, Ends, MonitorType
<1>2. CASE a = L
  BY <1>2 DEF MoveWorkspaceDown, SameMonitor
<1>3. CASE a # L
  <2>1. MoveWorkspaceDown(m) = n
    BY <1>1, <1>3 DEF MoveWorkspaceDown, WithEnds, MonitorType
  <2>2. /\ s \in Seq(Workspaces) /\ Len(s) = L
        /\ \A k \in 1 .. L : s[k] = IF k = a THEN m.workspaces[a + 1]
                                    ELSE IF k = a + 1 THEN m.workspaces[a] ELSE m.workspaces[k]
    <3>1. a + 1 \in 1 .. L /\ a # a + 1
      BY <1>1, <1>3
    <3>2. Swapped(m.workspaces, a, a + 1, s)
      BY <1>1, <3>1, SwapFacts
    <3> QED
      BY <3>2 DEF Swapped
  <2>3. (~below => s[L] = m.workspaces[L]) /\ (m.ews /\ ~above => s[1] = m.workspaces[1])
    BY <1>1, <1>3, <2>2
  <2> HIDE DEF s, below, above, L
  <2>4. Rearranged(m, s, below, above, t)
    BY <1>1, <2>2, <2>3, RearrangedFacts DEF L
  <2> HIDE DEF t
  <2>5. to \in 1 .. Len(t.workspaces)
    BY <1>1, <1>3, <2>2, <2>4 DEF Rearranged
  <2> HIDE DEF to
  <2> QED
    BY <2>1, <2>4, <2>5 DEF Rearranged
<1> QED
  BY <1>2, <1>3

LEMMA MoveWorkspaceUpFacts ==
  ASSUME NEW m, Tidy(m)
  PROVE  Tidy(MoveWorkspaceUp(m)) /\ SameMonitor(m, MoveWorkspaceUp(m))
<1> DEFINE a == m.active
           L == Len(m.workspaces)
           s == Swap(m.workspaces, a, a - 1)
           below == a = L
           above == m.ews /\ a = 2
           t == WithEnds(m, s, below, above)
           to == IF above THEN a ELSE a - 1
           n == StopAndCleanUp([t EXCEPT !.active = to])
<1>1. /\ m.workspaces \in Seq(Workspaces) /\ L \in Nat /\ a \in 1 .. L /\ m \in MonitorType
      /\ below \in BOOLEAN /\ above \in BOOLEAN
  BY DEF Tidy, Ends, MonitorType
<1>2. CASE a = 1
  BY <1>2 DEF MoveWorkspaceUp, SameMonitor
<1>3. CASE a # 1
  <2>1. MoveWorkspaceUp(m) = n
    BY <1>1, <1>3 DEF MoveWorkspaceUp, WithEnds, MonitorType
  <2>2. /\ s \in Seq(Workspaces) /\ Len(s) = L
        /\ \A k \in 1 .. L : s[k] = IF k = a THEN m.workspaces[a - 1]
                                    ELSE IF k = a - 1 THEN m.workspaces[a] ELSE m.workspaces[k]
    <3>1. a - 1 \in 1 .. L /\ a # a - 1
      BY <1>1, <1>3
    <3>2. Swapped(m.workspaces, a, a - 1, s)
      BY <1>1, <3>1, SwapFacts
    <3> QED
      BY <3>2 DEF Swapped
  <2>3. (~below => s[L] = m.workspaces[L]) /\ (m.ews /\ ~above => s[1] = m.workspaces[1])
    BY <1>1, <1>3, <2>2
  <2> HIDE DEF s, below, above, L
  <2>4. Rearranged(m, s, below, above, t)
    BY <1>1, <2>2, <2>3, RearrangedFacts DEF L
  <2> HIDE DEF t
  <2>5. to \in 1 .. Len(t.workspaces)
    BY <1>1, <1>3, <2>2, <2>4 DEF Rearranged
  <2> HIDE DEF to
  <2> QED
    BY <2>1, <2>4, <2>5 DEF Rearranged
<1> QED
  BY <1>2, <1>3

\* A workspace that moves to any place on its monitor.
LEMMA MoveWorkspaceToIdxFacts ==
  ASSUME NEW m, Tidy(m), NEW old \in 1 .. Len(m.workspaces), NEW idx \in 1 .. Len(m.workspaces)
  PROVE  LET n == MoveWorkspaceToIdx(m, old, idx) IN Tidy(n) /\ SameMonitor(m, n)
<1> DEFINE L == Len(m.workspaces)
           r == RemoveAt(m.workspaces, old)
           s == InsertAt(r, idx, m.workspaces[old])
           below == L \in {old, idx}
           above == m.ews /\ 1 \in {old, idx}
           t == WithEnds(m, s, below, above)
           new == IF above THEN idx + 1 ELSE idx
           a == t.active
           to == CASE a = old -> new
                   [] a # old /\ new <= a /\ old > a -> a + 1
                   [] a # old /\ new >= a /\ old < a -> IF a = 1 THEN 1 ELSE a - 1
                   [] OTHER -> a
           n == StopAndCleanUp([t EXCEPT !.active = to])
<1>1. /\ m.workspaces \in Seq(Workspaces) /\ L \in Nat /\ m.active \in 1 .. L /\ m \in MonitorType
      /\ below \in BOOLEAN /\ above \in BOOLEAN
  BY DEF Tidy, Ends, MonitorType
<1>2. CASE old = idx
  BY <1>2 DEF MoveWorkspaceToIdx, SameMonitor
<1>3. CASE old # idx
  <2>1. MoveWorkspaceToIdx(m, old, idx) = n
    BY <1>1, <1>3 DEF MoveWorkspaceToIdx, WithEnds, MonitorType
  <2>2. m.workspaces[old] \in Workspaces
    BY <1>1
  <2>3. Deleted(Workspaces, m.workspaces, old, r)
    BY <1>1, RemoveAtFacts
  <2> HIDE DEF r
  <2>4. /\ r \in Seq(Workspaces) /\ Len(r) = L - 1
        /\ \A k \in 1 .. L - 1 : r[k] = IF k < old THEN m.workspaces[k] ELSE m.workspaces[k + 1]
    BY <2>3 DEF Deleted
  <2>5. idx \in 1 .. Len(r) + 1
    BY <1>1, <2>4
  <2>6. Inserted(Workspaces, r, idx, m.workspaces[old], s)
    BY <2>2, <2>4, <2>5, InsertAtFacts
  <2> HIDE DEF s
  <2>7. /\ s \in Seq(Workspaces) /\ Len(s) = L
        /\ \A k \in 1 .. L : s[k] = IF k < idx THEN r[k] ELSE IF k = idx THEN m.workspaces[old] ELSE r[k - 1]
    BY <1>1, <2>4, <2>6 DEF Inserted
  <2>8. ~below => s[L] = m.workspaces[L]
    <3> SUFFICES ASSUME old # L, idx # L PROVE s[L] = m.workspaces[L]
      OBVIOUS
    <3>1. L \in 1 .. L /\ ~(L < idx) /\ L - 1 \in 1 .. L - 1 /\ ~(L - 1 < old) /\ (L - 1) + 1 = L
      BY <1>1
    <3> QED
      BY <2>4, <2>7, <3>1
  <2>9. m.ews /\ ~above => s[1] = m.workspaces[1]
    <3> SUFFICES ASSUME old # 1, idx # 1 PROVE s[1] = m.workspaces[1]
      OBVIOUS
    <3>1. 1 \in 1 .. L /\ 1 < idx /\ 1 \in 1 .. L - 1 /\ 1 < old
      BY <1>1, <1>3
    <3> QED
      BY <2>4, <2>7, <3>1
  <2> HIDE DEF below, above, L
  <2>10. Rearranged(m, s, below, above, t)
    BY <1>1, <2>7, <2>8, <2>9, RearrangedFacts DEF L
  <2> HIDE DEF t
  <2>11. to \in 1 .. Len(t.workspaces)
    <3>1. old \in 1 .. L /\ idx \in 1 .. L
      BY DEF L
    <3>2. Len(t.workspaces) \in Nat /\ L <= Len(t.workspaces) /\ (above => L + 1 <= Len(t.workspaces))
      BY <1>1, <2>7, <2>10 DEF Rearranged
    <3>3. /\ new \in 1 .. Len(t.workspaces) /\ a \in 1 .. Len(t.workspaces)
          /\ new <= L + 1 /\ (new > idx => above)
      <4>1. a = IF above THEN m.active + 1 ELSE m.active
        BY <2>10 DEF Rearranged
      <4>2. m.active \in 1 .. L /\ L \in Nat
        BY <1>1 DEF L
      <4>3. CASE above
        BY <3>1, <3>2, <4>1, <4>2, <4>3
      <4>4. CASE ~above
        BY <3>1, <3>2, <4>1, <4>2, <4>4
      <4> QED
        BY <4>3, <4>4
    <3> HIDE DEF new, a
    <3>4. CASE a = old
      BY <3>3, <3>4
    <3>5. CASE a # old /\ new <= a /\ old > a
      <4>1. L \in Nat /\ a + 1 \in 1 .. Len(t.workspaces)
        BY <1>1, <3>1, <3>2, <3>3, <3>5
      <4>2. a # old /\ ~(old < a) /\ new <= a /\ old > a
        BY <3>1, <3>3, <3>5
      <4>3. to = a + 1
        BY <4>2
      <4> QED
        BY <4>1, <4>3
    <3>6. CASE a # old /\ new >= a /\ old < a
      BY <3>1, <3>2, <3>3, <3>6
    <3>7. CASE a # old /\ ~(new <= a /\ old > a) /\ ~(new >= a /\ old < a)
      BY <3>3, <3>7
    <3> QED
      BY <3>4, <3>5, <3>6, <3>7
  <2> HIDE DEF to
  <2> QED
    BY <2>1, <2>10, <2>11 DEF Rearranged
<1> QED
  BY <1>2, <1>3

\* A monitor that is configured anew (Monitor::update_config).
LEMMA UpdateConfigFacts ==
  ASSUME NEW m, Tidy(m)
  PROVE  LET n == UpdateConfig(m) IN Tidy(n) /\ n.output = m.output /\ n.ews = ~m.ews
<1> DEFINE L == Len(m.workspaces)
           alone == L = 1
           r == CASE ~m.ews /\ ~alone -> AddTop(m)
                  [] m.ews /\ ~alone /\ m.switch = NoSwitch /\ m.active # 1 ->
                       [m EXCEPT !.workspaces = Tail(m.workspaces), !.active = m.active - 1]
                  [] OTHER -> m
           n == [r EXCEPT !.ews = ~r.ews]
<1>1. /\ m \in MonitorType /\ m.workspaces \in Seq(Workspaces) /\ L \in Nat /\ m.active \in 1 .. L
      /\ m.active \in Nat /\ m.switch \in Switches /\ m.output \in Outputs /\ m.ews \in BOOLEAN
      /\ Vacant(m, L) /\ (m.ews => Vacant(m, 1) /\ L # 2) /\ Aimed(m)
      /\ (m.switch = NoSwitch => NoStray(m))
  BY DEF Tidy, Ends, MonitorType
<1>2. UpdateConfig(m) = n
  BY <1>1 DEF UpdateConfig, MonitorType
<1>3. ASSUME r \in MonitorType
      PROVE  /\ n \in MonitorType /\ n.output = r.output /\ n.ews = ~r.ews /\ n.switch = r.switch
             /\ n.workspaces = r.workspaces /\ n.active = r.active
  <2> HIDE DEF r
  <2> QED
    BY <1>3 DEF MonitorType
<1>4. CASE ~m.ews /\ ~alone
  <2>1. r = AddWorkspaceAt(m, 1) /\ 1 \in 1 .. L + 1
    BY <1>1, <1>4 DEF AddTop
  <2> HIDE DEF r
  <2>2. WorkspaceAdded(m, 1, r)
    BY <1>1, <2>1, AddWorkspaceAtFacts
  <2>3. /\ r \in MonitorType /\ SameMonitor(m, r) /\ SameSwitch(m, r) /\ Len(r.workspaces) = L + 1
        /\ r.active = m.active + 1 /\ (Aimed(m) => Aimed(r))
    BY <1>1, <2>2 DEF WorkspaceAdded
  <2>4. r.workspaces[1] = NewWorkspace(NoName, m.output) /\ \A k \in 2 .. L + 1 : r.workspaces[k] = m.workspaces[k - 1]
    <3>1. \A k \in 2 .. L + 1 : k \in 1 .. L + 1 /\ ~(k < 1) /\ k # 1
      BY <1>1
    <3>2. 1 \in 1 .. L + 1 /\ ~(1 < 1)
      BY <1>1
    <3> QED
      BY <2>2, <3>1, <3>2 DEF WorkspaceAdded
  <2> HIDE DEF n
  <2>5. /\ n \in MonitorType /\ n.output = m.output /\ n.ews /\ n.switch = r.switch
        /\ n.workspaces = r.workspaces /\ n.active = m.active + 1
    BY <1>3, <1>4, <2>3 DEF SameMonitor
  <2>6. Vacant(n, 1) /\ Vacant(n, L + 1)
    <3>1. n.workspaces[1] = NewWorkspace(NoName, n.output) /\ n.output \in Outputs
      BY <1>1, <2>4, <2>5
    <3>2. L + 1 \in 2 .. L + 1 /\ (L + 1) - 1 = L
      BY <1>1
    <3>3. n.workspaces[L + 1] = m.workspaces[L]
      BY <2>4, <2>5, <3>2
    <3> QED
      BY <1>1, <2>5, <3>1, <3>3, VacantFacts DEF Vacant
  <2>7. Ends(n) /\ Aimed(n) /\ Len(n.workspaces) # 2
    <3>1. Len(n.workspaces) = L + 1 /\ L # 1 /\ n.active \in 1 .. L + 1
      BY <1>1, <1>4, <2>3, <2>5
    <3>2. Ends(n)
      BY <2>5, <2>6, <3>1 DEF Ends
    <3>3. Aimed(n)
      BY <1>1, <2>3, <2>5 DEF Aimed
    <3>4. L + 1 # 2
      <4> HIDE DEF L
      <4> QED
        BY <1>1, <3>1
    <3> QED
      BY <3>1, <3>2, <3>3, <3>4
  <2>8. n.switch = NoSwitch => NoStray(n)
    <3> SUFFICES ASSUME n.switch = NoSwitch, NEW k \in Inner(n), k # n.active
                 PROVE  HasWindowsOrName(n.workspaces[k])
      BY DEF NoStray
    <3>1. m.switch = NoSwitch
      BY <2>3, <2>5 DEF SameSwitch, NoSwitch
    <3>2. k \in 2 .. L + 1 /\ k - 1 \in Inner(m) /\ k - 1 # m.active
      BY <1>1, <1>4, <2>3, <2>5 DEF Inner
    <3> QED
      BY <1>1, <2>4, <2>5, <3>1, <3>2 DEF NoStray
  <2> QED
    BY <1>2, <1>4, <2>5, <2>7, <2>8 DEF Tidy
<1>5. CASE m.ews /\ ~alone /\ m.switch = NoSwitch /\ m.active # 1
  <2>1. r = [m EXCEPT !.workspaces = Tail(m.workspaces), !.active = m.active - 1]
    BY <1>5
  <2> HIDE DEF r
  <2>2. /\ Tail(m.workspaces) \in Seq(Workspaces) /\ Len(Tail(m.workspaces)) = L - 1 /\ L - 1 \in Nat \ {0}
        /\ \A k \in 1 .. L - 1 : Tail(m.workspaces)[k] = m.workspaces[k + 1]
    BY <1>1, <1>5
  <2> DEFINE s == Tail(m.workspaces)
  <2> HIDE DEF s
  <2>3. Changed(m, r, s, m.active - 1, m.switch)
    <3>1. m.active - 1 \in Nat
      BY <1>1
    <3> QED
      BY <1>1, <2>1, <2>2, <3>1, EditFacts DEF s
  <2> HIDE DEF n
  <2>4. /\ n \in MonitorType /\ n.output = m.output /\ n.ews = FALSE /\ n.switch = NoSwitch
        /\ n.workspaces = s /\ n.active = m.active - 1
    <3>1. r \in MonitorType /\ r.output = m.output /\ r.ews = m.ews /\ r.switch = NoSwitch
          /\ r.workspaces = s /\ r.active = m.active - 1
      BY <1>5, <2>3 DEF SameMonitor, Changed
    <3> QED
      BY <1>1, <1>3, <1>5, <3>1
  <2>5. Vacant(n, L - 1)
    <3>1. L - 1 \in 1 .. L - 1 /\ (L - 1) + 1 = L
      <4> HIDE DEF L
      <4> QED
        BY <1>1, <2>2
    <3>2. s[L - 1] = m.workspaces[L]
      BY <2>2, <3>1 DEF s
    <3> QED
      BY <1>1, <2>4, <3>2 DEF Vacant
  <2>6. Ends(n) /\ Aimed(n)
    BY <1>1, <1>5, <2>2, <2>4, <2>5 DEF Ends, Aimed, NoSwitch, s
  <2>7. NoStray(n)
    <3> SUFFICES ASSUME NEW k \in Inner(n), k # n.active PROVE HasWindowsOrName(n.workspaces[k])
      BY DEF NoStray
    <3>1. k \in 1 .. L - 1 /\ k + 1 \in Inner(m) /\ k + 1 # m.active
      BY <1>1, <1>5, <2>2, <2>4 DEF Inner, s
    <3> QED
      BY <1>1, <1>5, <2>2, <2>4, <3>1 DEF NoStray, s
  <2>8. n.ews = ~m.ews
    BY <1>5, <2>4
  <2> QED
    BY <1>2, <2>4, <2>6, <2>7, <2>8 DEF Tidy
<1>6. CASE ~(~m.ews /\ ~alone) /\ ~(m.ews /\ ~alone /\ m.switch = NoSwitch /\ m.active # 1)
  <2>1. r = m
    BY <1>6
  <2> HIDE DEF r
  <2>2. /\ n \in MonitorType /\ n.output = m.output /\ n.ews = ~m.ews /\ n.switch = m.switch
        /\ n.workspaces = m.workspaces /\ n.active = m.active
    BY <1>1, <1>3, <2>1
  <2> HIDE DEF n
  <2>3. Ends(n) /\ Aimed(n) /\ (n.ews => L # 2)
    <3>1. n.ews => L = 1
      BY <1>1, <1>6, <2>2
    <3>2. Vacant(n, L) /\ (n.ews => Vacant(n, 1))
      BY <1>1, <2>2, <3>1 DEF Vacant
    <3> QED
      <4>1. Aimed(n)
        BY <1>1, <2>2 DEF Aimed
      <4>2. Len(n.workspaces) = L /\ n.active \in 1 .. L
        BY <1>1, <2>2
      <4>3. Ends(n)
        BY <2>2, <3>2, <4>2 DEF Ends
      <4> QED
        BY <3>1, <4>1, <4>3
  <2>4. n.switch = NoSwitch => NoStray(n)
    <3> SUFFICES ASSUME n.switch = NoSwitch, NEW k \in Inner(n), k # n.active
                 PROVE  HasWindowsOrName(n.workspaces[k])
      BY DEF NoStray
    <3>1. m.ews \/ alone
      BY <1>6
    <3>2. CASE alone
      BY <1>1, <2>2, <3>2 DEF Inner
    <3>3. CASE m.ews /\ ~alone
      <4>1. m.active = 1
        BY <1>6, <2>2, <3>3
      <4>2. k \in Inner(m)
        BY <1>1, <2>2, <3>3, <4>1 DEF Inner
      <4> QED
        BY <1>1, <2>2, <4>2 DEF NoStray
    <3> QED
      BY <3>1, <3>2, <3>3
  <2> QED
    BY <1>2, <2>2, <2>3, <2>4 DEF Tidy
<1> QED
  BY <1>4, <1>5, <1>6

\* A gesture ends on any workspace of its monitor.
LEMMA GestureEndFacts ==
  ASSUME NEW m, Tidy(m), NEW i \in 1 .. Len(m.workspaces)
  PROVE  Tidy(GestureEnd(m, i)) /\ SameMonitor(m, GestureEnd(m, i))
<1> DEFINE n == GestureEnd(m, i)
<1>1. m \in MonitorType /\ m.workspaces \in Seq(Workspaces) /\ i \in Nat /\ Animation(i) \in Switches
  BY DEF Tidy, Ends, MonitorType, Animation, Switches
<1>2. Changed(m, n, m.workspaces, i, Animation(i))
  BY <1>1, EditFacts DEF GestureEnd
<1> HIDE DEF n
<1>3. Ends(n) /\ Aimed(n) /\ (n.ews => Len(n.workspaces) # 2) /\ n.switch # NoSwitch
  BY <1>2 DEF Tidy, Ends, Vacant, Changed, SameMonitor, Aimed, Animation, NoSwitch
<1> QED
  BY <1>2, <1>3 DEF Tidy, Changed, n

\* A gesture or a drag-and-drop scroll begins.
LEMMA GestureBeginFacts ==
  ASSUME NEW m, Tidy(m), NEW w \in {Gesture, DndScroll}
  PROVE  Tidy([m EXCEPT !.switch = w]) /\ SameMonitor(m, [m EXCEPT !.switch = w])
<1> DEFINE n == [m EXCEPT !.switch = w]
<1>1. m \in MonitorType /\ m.workspaces \in Seq(Workspaces) /\ m.active \in Nat /\ w \in Switches
      /\ w # NoSwitch /\ w.kind # "Animation"
  BY DEF Tidy, Ends, MonitorType, Gesture, DndScroll, NoSwitch, Switches
<1>2. Changed(m, n, m.workspaces, m.active, w)
  BY <1>1, EditFacts
<1> HIDE DEF n
<1>3. Ends(n) /\ Aimed(n) /\ (n.ews => Len(n.workspaces) # 2) /\ n.switch # NoSwitch
  BY <1>1, <1>2 DEF Tidy, Ends, Vacant, Changed, SameMonitor, Aimed
<1> QED
  BY <1>2, <1>3 DEF Tidy, Changed, n

LEMMA DndBeginFacts ==
  ASSUME NEW m, Tidy(m), NEW open \in BOOLEAN
  PROVE  Tidy(DndBegin(m, open)) /\ SameMonitor(m, DndBegin(m, open))
BY GestureBeginFacts DEF DndBegin, SameMonitor

\* The references to the active workspaces are kept up to date on the workspaces.
LEMMA UnmarkFacts ==
  ASSUME NEW m, Tidy(m), NEW o \in Outputs
  PROVE  LET n == [m EXCEPT !.workspaces = [i \in DOMAIN m.workspaces |->
                                              [m.workspaces[i] EXCEPT !.last = @ \ {o}]]]
         IN Tidy(n) /\ SameMonitor(m, n)
<1> DEFINE s == [i \in DOMAIN m.workspaces |-> [m.workspaces[i] EXCEPT !.last = @ \ {o}]]
           n == [m EXCEPT !.workspaces = s]
           L == Len(m.workspaces)
<1>1. /\ m \in MonitorType /\ m.workspaces \in Seq(Workspaces) /\ L \in Nat /\ DOMAIN m.workspaces = 1 .. L
      /\ m.active \in Nat /\ m.switch \in Switches /\ m.active \in 1 .. L
  BY DEF Tidy, Ends, MonitorType
<1>2. \A i \in 1 .. L : /\ s[i] \in Workspaces /\ s[i].original_output = m.workspaces[i].original_output
                        /\ HasWindowsOrName(s[i]) <=> HasWindowsOrName(m.workspaces[i])
  <2> SUFFICES ASSUME NEW i \in 1 .. L
               PROVE  LET ws == [m.workspaces[i] EXCEPT !.last = @ \ {o}]
                      IN /\ ws \in Workspaces /\ ws.original_output = m.workspaces[i].original_output
                         /\ HasWindowsOrName(ws) <=> HasWindowsOrName(m.workspaces[i])
    BY <1>1
  <2>1. m.workspaces[i] \in Workspaces
    BY <1>1
  <2> QED
    BY <2>1 DEF Workspaces, HasWindowsOrName
<1>3. s \in Seq(Workspaces) /\ Len(s) = L
  <2>1. s = [i \in 1 .. L |-> s[i]]
    BY <1>1
  <2>2. \A i \in 1 .. L : s[i] \in Workspaces
    BY <1>2
  <2> HIDE DEF s, L
  <2> QED
    BY <1>1, <2>1, <2>2
<1> HIDE DEF s
<1>4. Changed(m, n, s, m.active, m.switch)
  BY <1>1, <1>3, EditFacts
<1> HIDE DEF n
<1>5. \A i \in 1 .. L : Vacant(m, i) => Vacant(n, i)
  BY <1>2, <1>4 DEF Vacant, Changed, SameMonitor
<1>6. Ends(n) /\ Aimed(n) /\ (n.ews => Len(n.workspaces) # 2)
  <2>1. L \in 1 .. L /\ 1 \in 1 .. L
    BY <1>1
  <2> QED
    BY <1>1, <1>3, <1>4, <1>5, <2>1 DEF Tidy, Ends, Changed, SameMonitor, Aimed
<1>7. NoStray(m) => NoStray(n)
  BY <1>1, <1>2, <1>3, <1>4 DEF NoStray, Inner, Changed, SameMonitor
<1> QED
  BY <1>4, <1>6, <1>7 DEF Tidy, Changed, n, s

\* A monitor that appears, with the workspaces that are its own (Monitor::new).
LEMMA NewMonitorFacts ==
  ASSUME NEW o \in Outputs, NEW wss \in Seq(Workspaces), InUse(wss), NEW ews \in BOOLEAN
  PROVE  LET n == NewMonitor(o, wss, ews) IN Tidy(n) /\ n.output = o /\ n.ews = ews
<1> DEFINE P == {i \in 1 .. Len(wss) : o \in wss[i].last}
           marked == IF P # {} THEN Min(P) ELSE 0
           first == IF marked = 0 THEN 1 ELSE marked
           top == ews /\ wss # <<>>
           new == NewWorkspace(NoName, o)
           head == IF top THEN <<new>> ELSE <<>>
           mid == [i \in DOMAIN wss |-> [wss[i] EXCEPT !.last = @ \ {o}]]
           s == head \o mid \o <<new>>
           a == IF top THEN first + 1 ELSE first
           n == [output |-> o, ews |-> ews, switch |-> NoSwitch, active |-> a, workspaces |-> s]
           L == Len(wss)
<1>1. NewMonitor(o, wss, ews) = n
  BY DEF NewMonitor, SelectInSeq
<1>2. L \in Nat /\ DOMAIN wss = 1 .. L /\ (wss = <<>> <=> L = 0)
  OBVIOUS
<1>3. first \in 1 .. (IF L = 0 THEN 1 ELSE L)
  <2>1. P \in SUBSET Nat /\ IsFiniteSet(P)
    <3>1. IsFiniteSet(1 .. L)
      BY <1>2, FS_Interval
    <3>2. P \in SUBSET (1 .. L)
      OBVIOUS
    <3>3. 1 .. L \subseteq Nat
      BY <1>2
    <3> HIDE DEF P, L
    <3> QED
      BY <3>1, <3>2, <3>3, FS_Subset
  <2>2. P # {} => Min(P) \in P
    BY <2>1, SmallestFacts
  <2> QED
    BY <1>2, <2>2
<1>4. new \in Workspaces /\ new.original_output = o /\ ~HasWindowsOrName(new)
  BY NewWorkspaceFacts
<1>5. mid \in Seq(Workspaces) /\ Len(mid) = L /\ \A i \in 1 .. L : HasWindowsOrName(mid[i])
  <2>1. ASSUME NEW i \in 1 .. L
        PROVE  [wss[i] EXCEPT !.last = @ \ {o}] \in Workspaces
               /\ HasWindowsOrName([wss[i] EXCEPT !.last = @ \ {o}])
    <3>1. wss[i] \in Workspaces /\ HasWindowsOrName(wss[i])
      BY <1>2 DEF InUse
    <3> QED
      BY <3>1 DEF Workspaces, HasWindowsOrName
  <2> QED
    BY <1>2, <2>1
<1> HIDE DEF new, mid, L, first
<1> DEFINE H == IF top THEN 1 ELSE 0
<1>6. head \in Seq(Workspaces) /\ Len(head) = H /\ (top => head[1] = new)
  BY <1>4
<1>7. <<new>> \in Seq(Workspaces) /\ Len(<<new>>) = 1 /\ <<new>>[1] = new
  BY <1>4
<1> HIDE DEF head
<1> DEFINE g == head \o mid
<1>8. Joined(Workspaces, head, mid, g)
  BY <1>5, <1>6, JoinedFacts
<1> HIDE DEF g
<1>9. g \in Seq(Workspaces) /\ Len(g) = H + L
  BY <1>5, <1>6, <1>8 DEF Joined
<1>10. Joined(Workspaces, g, <<new>>, g \o <<new>>)
  BY <1>7, <1>9, JoinedFacts
<1>11. s = g \o <<new>>
  BY DEF g
<1> HIDE DEF s
<1>12. /\ s \in Seq(Workspaces) /\ Len(s) = H + L + 1 /\ s[H + L + 1] = new
       /\ (top => s[1] = new) /\ \A i \in 1 .. L : s[H + i] = mid[i]
  <2>1. s \in Seq(Workspaces) /\ Len(s) = H + L + 1
    BY <1>2, <1>7, <1>9, <1>10, <1>11 DEF Joined
  <2>2. \A j \in 1 .. H + L + 1 : s[j] = IF j <= H + L THEN g[j] ELSE <<new>>[j - (H + L)]
    BY <1>7, <1>9, <1>10, <1>11 DEF Joined
  <2>3. \A j \in 1 .. H + L : g[j] = IF j <= H THEN head[j] ELSE mid[j - H]
    BY <1>5, <1>6, <1>8 DEF Joined
  <2>0. H \in 0 .. 1 /\ (top => H = 1)
    OBVIOUS
  <2> HIDE DEF H
  <2>4. s[H + L + 1] = new
    <3>1. H + L + 1 \in 1 .. H + L + 1 /\ ~(H + L + 1 <= H + L) /\ (H + L + 1) - (H + L) = 1
      BY <1>2, <2>0
    <3> QED
      BY <1>7, <2>2, <3>1
  <2>5. ASSUME top PROVE s[1] = new
    <3>1. 1 \in 1 .. H + L + 1 /\ 1 <= H + L /\ 1 \in 1 .. H + L /\ 1 <= H
      BY <1>2, <2>0, <2>5
    <3> QED
      BY <1>6, <2>2, <2>3, <2>5, <3>1
  <2>6. ASSUME NEW i \in 1 .. L PROVE s[H + i] = mid[i]
    <3>1. H + i \in 1 .. H + L + 1 /\ H + i <= H + L /\ H + i \in 1 .. H + L /\ ~(H + i <= H) /\ (H + i) - H = i
      BY <1>2, <2>0
    <3> QED
      BY <2>2, <2>3, <3>1
  <2> QED
    BY <2>1, <2>4, <2>5, <2>6
<1>13. top <=> ews /\ L # 0
  BY <1>2
<1> HIDE DEF top
<1>14. a \in 1 .. H + L + 1 /\ a \in Nat
  BY <1>2, <1>3, <1>13
<1>15. /\ n \in MonitorType /\ n.output = o /\ n.ews = ews /\ n.switch = NoSwitch
       /\ n.active = a /\ n.workspaces = s
  <2>1. NoSwitch \in Switches
    BY DEF NoSwitch, Switches
  <2> HIDE DEF a
  <2> QED
    BY <1>12, <1>14, <2>1 DEF MonitorType
<1> HIDE DEF n, a
<1>16. Vacant(n, H + L + 1) /\ (ews => Vacant(n, 1))
  <2>1. ews /\ ~top => H + L + 1 = 1
    BY <1>2, <1>13
  <2>2. ews => s[1] = new
    BY <1>12, <2>1
  <2> QED
    BY <1>4, <1>12, <1>15, <2>2 DEF Vacant
<1>17. Ends(n)
  BY <1>12, <1>14, <1>15, <1>16 DEF Ends
<1>18. n.ews => Len(n.workspaces) # 2
  <2>1. ews => H + L + 1 # 2
    BY <1>2, <1>13
  <2> QED
    BY <1>12, <1>15, <2>1
<1>19. NoStray(n) /\ Aimed(n)
  <2> SUFFICES ASSUME NEW k \in Inner(n) PROVE HasWindowsOrName(n.workspaces[k])
    BY <1>15 DEF NoStray, Aimed, NoSwitch
  <2>1. k - H \in 1 .. L /\ H + (k - H) = k
    BY <1>2, <1>12, <1>13, <1>15 DEF Inner
  <2> QED
    BY <1>5, <1>12, <1>15, <2>1
<1> QED
  BY <1>1, <1>15, <1>17, <1>18, <1>19 DEF Tidy

\* The greater of two numbers.
LEMMA MaxFacts ==
  ASSUME NEW i \in Int, NEW j \in Int
  PROVE  Max({i, j}) = IF i >= j THEN i ELSE j
<1>1. \E x \in {i, j} : \A y \in {i, j} : x >= y
  OBVIOUS
<1>2. Max({i, j}) \in {i, j} /\ \A y \in {i, j} : Max({i, j}) >= y
  BY <1>1 DEF Max
<1> DEFINE x == Max({i, j})
<1> HIDE DEF x
<1>3. x \in {i, j} /\ x >= i /\ x >= j
  BY <1>2 DEF x
<1>4. x = IF i >= j THEN i ELSE j
  BY <1>3
<1> QED
  BY <1>4 DEF x

\* How many of the numbers up to a are in K, and how many are not.
LEMMA RankFacts ==
  ASSUME NEW L \in Nat, NEW K \in SUBSET (1 .. L), NEW a \in 0 .. L
  PROVE  /\ Cardinality({i \in (1 .. L) \ K : i <= a}) = a - Cardinality({i \in K : i <= a})
         /\ Cardinality({i \in K : i <= a}) \in Nat
<1> DEFINE A == {i \in (1 .. L) \ K : i <= a}
           B == {i \in K : i <= a}
<1>1. a \in Nat /\ A \cup B = 1 .. a /\ A \cap B = {}
  <2>1. ASSUME NEW x PROVE x \in A \cup B <=> x \in 1 .. a
    <3>1. ASSUME x \in 1 .. a PROVE x \in A \cup B
      <4>1. x \in 1 .. L /\ x <= a
        BY <3>1
      <4> QED
        BY <4>1
    <3>2. ASSUME x \in A \cup B PROVE x \in 1 .. a
      <4>1. x \in 1 .. L /\ x <= a
        BY <3>2
      <4> QED
        BY <4>1
    <3> QED
      BY <3>1, <3>2
  <2>2. \A x : x \notin A \cap B
    OBVIOUS
  <2> HIDE DEF A, B
  <2> QED
    BY <2>1, <2>2
<1>2. IsFiniteSet(1 .. a) /\ Cardinality(1 .. a) = a
  BY <1>1, FS_Interval
<1>3. A \subseteq 1 .. a /\ B \subseteq 1 .. a
  BY <1>1
<1> HIDE DEF A, B
<1>4. IsFiniteSet(A) /\ IsFiniteSet(B)
  BY <1>2, <1>3, FS_Subset
<1>5. Cardinality(A) \in Nat /\ Cardinality(B) \in Nat
  BY <1>4, FS_CardinalityType
<1>6. Cardinality(A \cup B) = Cardinality(A) + Cardinality(B) - Cardinality(A \cap B)
  BY <1>4, FS_Union
<1>7. Cardinality(A \cap B) = 0
  BY <1>1, FS_EmptySet
<1>8. Cardinality(A) = a - Cardinality(B)
  <2>1. Cardinality(A \cup B) = a
    BY <1>1, <1>2
  <2>2. a = Cardinality(A) + Cardinality(B) - 0
    BY <1>6, <1>7, <2>1
  <2> QED
    BY <1>1, <1>5, <2>2
<1> QED
  BY <1>5, <1>8 DEF A, B

\* What the primary is left with when an output returns and takes its own workspaces
\* (add_output).
LEMMA TakeOwnFacts ==
  ASSUME NEW m, Tidy(m), NEW o \in Outputs, o # m.output
  PROVE  Tidy(TakeOwn(m, o)) /\ SameMonitor(m, TakeOwn(m, o))
<1> DEFINE s == m.workspaces
           L == Len(s)
           K == {i \in DOMAIN s : s[i].original_output = o}
           D == DOMAIN s \ K
           t == Kept(s, D)
           top == IF m.ews /\ m.active > 1 THEN 2 ELSE 1
           taken == Cardinality({i \in K : i <= m.active})
           a == Max({top, m.active - taken})
           w == IF K # {} THEN NoSwitch ELSE m.switch
           rest == [m EXCEPT !.workspaces = t, !.active = a, !.switch = w]
<1>1. /\ m \in MonitorType /\ s \in Seq(Workspaces) /\ L \in Nat /\ DOMAIN s = 1 .. L /\ s # <<>>
      /\ m.active \in 1 .. L /\ m.switch \in Switches /\ NoSwitch \in Switches
      /\ Vacant(m, L) /\ (m.ews => Vacant(m, 1) /\ L # 2) /\ Aimed(m) /\ (m.switch = NoSwitch => NoStray(m))
  BY DEF Tidy, Ends, MonitorType, NoSwitch, Switches
<1>2. TakeOwn(m, o) = IF (K # {} /\ m.switch # NoSwitch) \/ (m.ews /\ Len(rest.workspaces) = 2)
                        THEN CleanUp(rest) ELSE rest
  <2>1. rest = [m EXCEPT !.workspaces = Kept(@, DOMAIN @ \ K),
                         !.active = Max({top, @ - Cardinality({i \in K : i <= @})}),
                         !.switch = IF K # {} THEN NoSwitch ELSE @]
    BY <1>1 DEF MonitorType
  <2>2. rest.ews = m.ews
    BY <1>1 DEF MonitorType
  <2> HIDE DEF rest
  <2> QED
    BY <2>1, <2>2 DEF TakeOwn
<1>3. L \in D /\ (m.ews => 1 \in D) /\ D \in SUBSET DOMAIN s /\ D = (1 .. L) \ K /\ K \in SUBSET (1 .. L)
  <2>1. s[L].original_output # o /\ (m.ews => s[1].original_output # o)
    BY <1>1 DEF Vacant
  <2> QED
    BY <1>1, <2>1
<1>4. K = {} => D = 1 .. L
  BY <1>1
<1>5. PICK at : Keeps(Workspaces, s, D, t, at)
  <2> HIDE DEF D, s
  <2> QED
    BY <1>1, <1>3, KeptFacts
<1> HIDE DEF D, K, t
<1>6. /\ t \in Seq(Workspaces) /\ Len(t) = Cardinality(D) /\ Len(t) \in Nat
      /\ \A n \in 1 .. Len(t) : t[n] = s[at[n]] /\ at[n] \in D
      /\ \A i, n \in 1 .. Len(t) : i < n => at[i] < at[n]
      /\ \A i \in D : /\ Cardinality({j \in D : j <= i}) \in 1 .. Len(t)
                      /\ at[Cardinality({j \in D : j <= i})] = i
  BY <1>5 DEF Keeps
<1>7. at[Len(t)] = L /\ Len(t) \in Nat \ {0} /\ (m.ews => at[1] = 1)
  <2>1. s \in Seq(Workspaces) /\ s # <<>> /\ D \in SUBSET DOMAIN s /\ L \in D /\ (m.ews => 1 \in D)
    BY <1>1, <1>3
  <2> HIDE DEF s
  <2> QED
    BY <1>5, <2>1, KeptEnds
<1> DEFINE rank == Cardinality({i \in D : i <= m.active})
<1>8. rank = m.active - taken /\ taken \in Nat /\ rank \in 0 .. Len(t)
  <2>1. /\ Cardinality({i \in (1 .. L) \ K : i <= m.active}) = m.active - taken
        /\ taken \in Nat
    <3>1. m.active \in 0 .. L
      BY <1>1
    <3> HIDE DEF L
    <3> QED
      BY <1>1, <1>3, <3>1, RankFacts
  <2>2. rank = m.active - taken
    BY <1>3, <2>1
  <2>3. IsFiniteSet(D)
    <3>1. IsFiniteSet(1 .. L) /\ D \in SUBSET (1 .. L)
      BY <1>1, <1>3, FS_Interval
    <3> QED
      BY <3>1, FS_Subset
  <2>4. Cardinality({i \in D : i <= m.active}) <= Cardinality(D) /\ IsFiniteSet({i \in D : i <= m.active})
    BY <2>3, FS_Subset
  <2>5. rank \in Nat
    BY <2>4, FS_CardinalityType
  <2> QED
    BY <1>6, <2>1, <2>2, <2>4, <2>5
<1>9. m.ews /\ m.active > 1 => 2 <= Len(t)
  <2> SUFFICES ASSUME m.ews, m.active > 1, Len(t) = 1 PROVE FALSE
    BY <1>6, <1>7
  <2>1. L = 1
    BY <1>7
  <2> HIDE DEF L
  <2> QED
    BY <1>1, <2>1
<1>10. a = (IF top >= rank THEN top ELSE rank) /\ top \in 1 .. Len(t) /\ a \in 1 .. Len(t)
  <2>1. top \in 1 .. Len(t)
    BY <1>6, <1>7, <1>9
  <2> HIDE DEF top, rank
  <2>2. a = IF top >= rank THEN top ELSE rank
    BY <1>8, <2>1, MaxFacts
  <2> QED
    BY <1>8, <2>1, <2>2
<1>11. K = {} => taken = 0 /\ Len(t) = L /\ a = m.active
  <2> SUFFICES ASSUME K = {} PROVE taken = 0 /\ Len(t) = L /\ a = m.active
    OBVIOUS
  <2>1. {i \in K : i <= m.active} = {}
    OBVIOUS
  <2>2. taken = 0
    BY <2>1, FS_EmptySet
  <2>3. Len(t) = L
    <3>1. L \in Nat
      BY <1>1
    <3>2. Cardinality(1 .. L) = L
      BY <3>1, FS_Interval
    <3> QED
      BY <1>4, <1>6, <3>2
  <2>4. top <= m.active
    BY <1>1
  <2> HIDE DEF top, taken
  <2> QED
    BY <1>1, <1>8, <1>10, <2>2, <2>3, <2>4
<1> HIDE DEF a, taken
<1>12. Changed(m, rest, t, a, w)
  <2>1. w \in Switches /\ a \in Nat
    BY <1>1, <1>10
  <2> HIDE DEF w
  <2> QED
    BY <1>1, <1>6, <2>1, EditFacts
<1> HIDE DEF rest
<1>13. Ends(rest)
  <2>1. t[Len(t)] = s[L] /\ (m.ews => t[1] = s[1])
    BY <1>6, <1>7
  <2>2. Vacant(rest, Len(t)) /\ (m.ews => Vacant(rest, 1))
    BY <1>1, <1>12, <2>1 DEF Vacant, Changed, SameMonitor
  <2> QED
    BY <1>10, <1>12, <2>2 DEF Ends, Changed, SameMonitor
<1>14. Aimed(rest)
  BY <1>1, <1>11, <1>12 DEF Aimed, Changed, NoSwitch
<1>15. ASSUME m.switch = NoSwitch PROVE NoStray(rest)
  <2> SUFFICES ASSUME NEW i \in Inner(rest), i # rest.active PROVE HasWindowsOrName(rest.workspaces[i])
    BY DEF NoStray
  <2>1. i \in 1 .. Len(t) - 1 /\ (m.ews => 1 < i) /\ i # a /\ rest.workspaces = t
    BY <1>6, <1>12 DEF Inner, Changed, SameMonitor
  <2>2. at[i] \in 1 .. L /\ at[i] < L /\ (m.ews => 1 < at[i]) /\ t[i] = s[at[i]]
    <3>1. i \in 1 .. Len(t) /\ Len(t) \in 1 .. Len(t) /\ 1 \in 1 .. Len(t) /\ i < Len(t)
      BY <1>6, <2>1
    <3>2. at[i] < at[Len(t)] /\ (m.ews => at[1] < at[i]) /\ at[i] \in D /\ t[i] = s[at[i]]
      BY <1>6, <2>1, <3>1
    <3> HIDE DEF L
    <3> QED
      BY <1>1, <1>3, <1>7, <3>2
  <2>3. at[i] # m.active
    <3> SUFFICES ASSUME at[i] = m.active PROVE FALSE
      OBVIOUS
    <3>1. m.active \in D /\ rank \in 1 .. Len(t) /\ at[rank] = at[i]
      BY <1>6, <2>1
    <3>2. ~(rank < i) /\ ~(i < rank)
      BY <1>1, <1>6, <2>1, <3>1
    <3>3. rank = i
      BY <2>1, <3>1, <3>2
    <3>4. top <= i
      BY <2>1
    <3> HIDE DEF top, rank
    <3> QED
      BY <1>10, <2>1, <3>1, <3>3, <3>4
  <2>4. at[i] \in Inner(m)
    BY <1>1, <2>2 DEF Inner
  <2> QED
    BY <1>1, <1>15, <2>1, <2>2, <2>3, <2>4 DEF NoStray
<1>16. rest.workspaces = t /\ rest.ews = m.ews /\ SameMonitor(m, rest) /\ rest.switch = w
  BY <1>12 DEF Changed, SameMonitor
<1>17. CASE (K # {} /\ m.switch # NoSwitch) \/ (m.ews /\ Len(rest.workspaces) = 2)
  <2>1. K # {}
    BY <1>1, <1>11, <1>16, <1>17
  <2>2. rest.switch = NoSwitch
    BY <1>16, <2>1
  <2> QED
    BY <1>2, <1>13, <1>16, <1>17, <2>2, CleanUpFacts DEF SameMonitor
<1>18. CASE ~((K # {} /\ m.switch # NoSwitch) \/ (m.ews /\ Len(rest.workspaces) = 2))
  <2>1. rest.switch = NoSwitch => m.switch = NoSwitch
    BY <1>16, <1>18
  <2> QED
    BY <1>2, <1>13, <1>14, <1>15, <1>16, <1>18, <2>1 DEF Tidy
<1> QED
  BY <1>17, <1>18

---------------------------------------------------------------------------
(* The monitors together. *)

\* Monitors that stay tidy stay in good order, whichever is active.
LEMMA MonitorsFacts ==
  ASSUME NEW conf, NEW set, InGoodOrder(set, conf), NEW new \in MonitorSets,
         Len(new.monitors) = Len(set.monitors), new.primary_idx = set.primary_idx,
         new.active_monitor_idx = set.active_monitor_idx
           \/ new.active_monitor_idx \in DOMAIN set.monitors,
         new.workspaces = set.workspaces,
         \A k \in DOMAIN set.monitors :
           Tidy(new.monitors[k]) /\ SameMonitor(set.monitors[k], new.monitors[k])
  PROVE  InGoodOrder(new, conf)
<1> DEFINE L == Len(set.monitors)
<1>1. /\ set.monitors \in Seq(MonitorType) /\ L \in Nat /\ DOMAIN set.monitors = 1 .. L
      /\ new.monitors \in Seq(MonitorType) /\ DOMAIN new.monitors = 1 .. L
      /\ (new.monitors # <<>> => set.monitors # <<>>)
  BY DEF InGoodOrder, MonitorSets
<1>2. \A k \in 1 .. L : /\ Tidy(new.monitors[k]) /\ new.monitors[k].output = set.monitors[k].output
                        /\ new.monitors[k].ews = conf[new.monitors[k].output]
  BY <1>1 DEF InGoodOrder, SameMonitor
<1>3. \A j, k \in 1 .. L : new.monitors[j].output = new.monitors[k].output => j = k
  <2>1. \A j, k \in 1 .. L : set.monitors[j].output = set.monitors[k].output => j = k
    BY <1>1 DEF InGoodOrder
  <2> HIDE DEF L
  <2> QED
    BY <1>2, <2>1
<1> HIDE DEF L
<1>4. new.monitors # <<>> =>
        /\ new.workspaces = <<>>
        /\ new.primary_idx \in 1 .. L /\ new.active_monitor_idx \in 1 .. L
  BY <1>1 DEF InGoodOrder
<1>5. InUse(new.workspaces)
  BY DEF InGoodOrder
<1> QED
  BY <1>1, <1>2, <1>3, <1>4, <1>5 DEF InGoodOrder

\* One of the monitors changes.
LEMMA SetMonitorFacts ==
  ASSUME NEW conf, NEW set, InGoodOrder(set, conf), NEW k \in DOMAIN set.monitors, NEW n,
         Tidy(n), SameMonitor(set.monitors[k], n)
  PROVE  InGoodOrder([set EXCEPT !.monitors[k] = n], conf)
<1> DEFINE ms == [set.monitors EXCEPT ![k] = n]
           new == [set EXCEPT !.monitors[k] = n]
<1>1. set \in MonitorSets /\ set.monitors \in Seq(MonitorType) /\ n \in MonitorType
      /\ \A j \in DOMAIN set.monitors : Tidy(set.monitors[j])
  BY DEF InGoodOrder, MonitorSets, Tidy, Ends
<1>2. /\ ms \in Seq(MonitorType) /\ Len(ms) = Len(set.monitors)
      /\ \A j \in DOMAIN set.monitors : ms[j] = IF j = k THEN n ELSE set.monitors[j]
  BY <1>1
<1>3. new = [set EXCEPT !.monitors = ms]
  BY <1>1 DEF MonitorSets
<1> HIDE DEF ms
<1>4. /\ new \in MonitorSets /\ new.monitors = ms /\ new.primary_idx = set.primary_idx
      /\ new.active_monitor_idx = set.active_monitor_idx /\ new.workspaces = set.workspaces
  BY <1>1, <1>2, <1>3 DEF MonitorSets
<1> HIDE DEF new
<1>5. \A j \in DOMAIN set.monitors :
        Tidy(new.monitors[j]) /\ SameMonitor(set.monitors[j], new.monitors[j])
  BY <1>1, <1>2, <1>4 DEF SameMonitor
<1>6. InGoodOrder(new, conf)
  BY <1>2, <1>4, <1>5, MonitorsFacts
<1> QED
  BY <1>6 DEF new

\* One of the monitors is focused.
LEMMA FocusFacts ==
  ASSUME NEW conf, NEW set, InGoodOrder(set, conf), NEW k \in DOMAIN set.monitors
  PROVE  /\ \A activate \in BOOLEAN : InGoodOrder(Focus(set, k, activate), conf)
         /\ InGoodOrder([set EXCEPT !.active_monitor_idx = k], conf)
<1> DEFINE new == [set EXCEPT !.active_monitor_idx = k]
<1>1. set \in MonitorSets /\ k \in Nat
  BY DEF InGoodOrder, MonitorSets
<1>2. /\ new \in MonitorSets /\ new.monitors = set.monitors /\ new.primary_idx = set.primary_idx
      /\ new.active_monitor_idx = k /\ new.workspaces = set.workspaces
  BY <1>1 DEF MonitorSets
<1> HIDE DEF new
<1>3. \A j \in DOMAIN set.monitors :
        Tidy(new.monitors[j]) /\ SameMonitor(set.monitors[j], new.monitors[j])
  BY <1>2 DEF InGoodOrder, SameMonitor
<1>4. InGoodOrder(new, conf)
  BY <1>2, <1>3, MonitorsFacts
<1> QED
  BY <1>4 DEF Focus, new

\* The workspaces of no output change.
LEMMA NoOutputsFacts ==
  ASSUME NEW conf, NEW set, InGoodOrder(set, conf), set.monitors = <<>>,
         NEW wss \in Seq(Workspaces), InUse(wss)
  PROVE  InGoodOrder([set EXCEPT !.workspaces = wss], conf)
<1> DEFINE new == [set EXCEPT !.workspaces = wss]
<1>1. set \in MonitorSets
  BY DEF InGoodOrder
<1>2. /\ new \in MonitorSets /\ new.monitors = <<>> /\ new.workspaces = wss
  BY <1>1 DEF MonitorSets
<1> QED
  BY <1>2 DEF InGoodOrder

\* An output is plugged in (add_output).
LEMMA PlugFacts ==
  ASSUME NEW o \in Outputs, ews_config \in [Outputs -> BOOLEAN], NEW set,
         InGoodOrder(set, ews_config), \A k \in DOMAIN set.monitors : set.monitors[k].output # o
  PROVE  InGoodOrder(Plug(set, o), ews_config)
<1>1. /\ set \in MonitorSets /\ set.monitors \in Seq(MonitorType) /\ set.workspaces \in Seq(Workspaces)
      /\ set.primary_idx \in Nat /\ set.active_monitor_idx \in Nat
      /\ InUse(set.workspaces) /\ ews_config[o] \in BOOLEAN
  BY DEF InGoodOrder, MonitorSets
<1>2. CASE set.monitors = <<>>
  <2> DEFINE n == NewMonitor(o, set.workspaces, ews_config[o])
             new == [monitors |-> <<n>>, primary_idx |-> 1, active_monitor_idx |-> 1, workspaces |-> <<>>]
  <2>1. Tidy(n) /\ n.output = o /\ n.ews = ews_config[o]
    BY <1>1, NewMonitorFacts
  <2>2. Plug(set, o) = new
    BY <1>2 DEF Plug
  <2> HIDE DEF n
  <2>3. n \in MonitorType
    BY <2>1 DEF Tidy, Ends
  <2>4. <<n>> \in Seq(MonitorType) /\ Len(<<n>>) = 1 /\ DOMAIN <<n>> = 1 .. 1 /\ <<n>>[1] = n
    BY <2>3
  <2>5. <<>> \in Seq(Workspaces) /\ InUse(<<>>)
    BY DEF InUse
  <2>6. new \in MonitorSets
    BY <2>4, <2>5 DEF MonitorSets
  <2>7. InGoodOrder(new, ews_config)
    BY <2>1, <2>4, <2>5, <2>6 DEF InGoodOrder
  <2> QED
    BY <2>2, <2>7
<1>3. CASE set.monitors # <<>>
  <2> DEFINE L == Len(set.monitors)
             p == set.primary_idx
             wss == set.monitors[p].workspaces
             own == {i \in DOMAIN wss : wss[i].original_output = o /\ HasWindowsOrName(wss[i])}
             n == NewMonitor(o, Kept(wss, own), ews_config[o])
             ms == [set.monitors EXCEPT ![p] = TakeOwn(set.monitors[p], o)]
             old == [k \in DOMAIN set.monitors |->
                       [ms[k] EXCEPT !.workspaces = [i \in DOMAIN ms[k].workspaces |->
                                                       [ms[k].workspaces[i] EXCEPT !.last = @ \ {o}]]]]
             all == old \o <<n>>
             new == [set EXCEPT !.monitors = all]
  <2>1. /\ L \in Nat \ {0} /\ DOMAIN set.monitors = 1 .. L /\ p \in 1 .. L
        /\ set.active_monitor_idx \in 1 .. L /\ set.workspaces = <<>>
        /\ \A k \in 1 .. L : Tidy(set.monitors[k]) /\ set.monitors[k].output # o
    BY <1>1, <1>3 DEF InGoodOrder
  <2>2. Plug(set, o) = new
    <3> DEFINE taken == [set EXCEPT !.monitors[p] = TakeOwn(@, o)]
    <3>1. taken.monitors = ms
      BY <1>1 DEF MonitorSets
    <3> HIDE DEF taken, ms
    <3>2. new = [set EXCEPT !.monitors =
                   [k \in DOMAIN @ |-> [taken.monitors[k] EXCEPT !.workspaces =
                                          [i \in DOMAIN taken.monitors[k].workspaces |->
                                             [taken.monitors[k].workspaces[i] EXCEPT !.last = @ \ {o}]]]]
                   \o <<n>>]
      BY <1>1, <3>1 DEF MonitorSets
    <3> HIDE DEF new
    <3> QED
      BY <1>3, <3>2 DEF Plug, taken
  <2>3. Tidy(n) /\ n.output = o /\ n.ews = ews_config[o]
    <3>1. wss \in Seq(Workspaces)
      BY <2>1 DEF Tidy, Ends, MonitorType
    <3>2. own \in SUBSET DOMAIN wss /\ \A i \in own : HasWindowsOrName(wss[i])
      OBVIOUS
    <3> DEFINE kept == Kept(wss, own)
    <3> HIDE DEF own, wss
    <3>3. PICK at : Keeps(Workspaces, wss, own, kept, at)
      BY <3>1, <3>2, KeptFacts
    <3>4. kept \in Seq(Workspaces) /\ InUse(kept)
      <4> HIDE DEF kept
      <4>1. kept \in Seq(Workspaces) /\ DOMAIN kept = 1 .. Cardinality(own)
        BY <3>3 DEF Keeps
      <4> QED
        BY <3>2, <3>3, <4>1 DEF Keeps, InUse
    <3> HIDE DEF kept
    <3>5. n = NewMonitor(o, kept, ews_config[o])
      BY DEF kept
    <3> HIDE DEF n
    <3> QED
      BY <1>1, <3>4, <3>5, NewMonitorFacts
  <2> HIDE DEF n, own, wss
  <2>4. \A k \in 1 .. L : Tidy(ms[k]) /\ SameMonitor(set.monitors[k], ms[k])
    <3>1. Tidy(TakeOwn(set.monitors[p], o)) /\ SameMonitor(set.monitors[p], TakeOwn(set.monitors[p], o))
      BY <2>1, TakeOwnFacts
    <3> QED
      BY <1>1, <2>1, <3>1 DEF SameMonitor
  <2> HIDE DEF ms
  <2>5. ASSUME NEW k \in 1 .. L PROVE Tidy(old[k]) /\ SameMonitor(ms[k], old[k])
    <3>1. old[k] = [ms[k] EXCEPT !.workspaces = [i \in DOMAIN ms[k].workspaces |->
                                                   [ms[k].workspaces[i] EXCEPT !.last = @ \ {o}]]]
      BY <2>1
    <3> HIDE DEF old
    <3> QED
      BY <2>4, <3>1, UnmarkFacts
  <2>6. \A k \in 1 .. L : /\ Tidy(old[k]) /\ old[k].output = set.monitors[k].output
                          /\ old[k].ews = set.monitors[k].ews /\ old[k] \in MonitorType
    BY <2>4, <2>5 DEF SameMonitor, Tidy, Ends
  <2>7. old \in Seq(MonitorType) /\ Len(old) = L
    <3>1. old = [k \in 1 .. L |-> old[k]]
      BY <2>1
    <3> HIDE DEF old, L
    <3> QED
      BY <2>1, <2>6, <3>1
  <2> HIDE DEF old
  <2>8. n \in MonitorType
    BY <2>3 DEF Tidy, Ends
  <2>9. all \in Seq(MonitorType) /\ Len(all) = L + 1 /\ DOMAIN all = 1 .. L + 1
        /\ \A k \in 1 .. L + 1 : all[k] = IF k <= L THEN old[k] ELSE n
    <3>1. <<n>> \in Seq(MonitorType) /\ Len(<<n>>) = 1 /\ <<n>>[1] = n
      BY <2>8
    <3>2. Joined(MonitorType, old, <<n>>, all)
      BY <2>7, <3>1, JoinedFacts
    <3> HIDE DEF all, L
    <3>3. all \in Seq(MonitorType) /\ Len(all) = L + 1
          /\ \A k \in 1 .. L + 1 : all[k] = IF k <= L THEN old[k] ELSE <<n>>[k - L]
      BY <2>7, <3>1, <3>2 DEF Joined
    <3>4. \A k \in 1 .. L + 1 : ~(k <= L) => k - L = 1
      BY <2>1
    <3> QED
      BY <2>1, <3>1, <3>3, <3>4
  <2> HIDE DEF all
  <2>10. /\ new \in MonitorSets /\ new.monitors = all /\ new.primary_idx = p
         /\ new.active_monitor_idx = set.active_monitor_idx /\ new.workspaces = <<>>
    BY <1>1, <2>1, <2>9 DEF MonitorSets
  <2> HIDE DEF new, L
  <2>11. ASSUME NEW k \in 1 .. L + 1 PROVE Tidy(all[k]) /\ all[k].ews = ews_config[all[k].output]
    <3>1. CASE k <= L
      <4>1. k \in 1 .. L /\ all[k] = old[k]
        BY <2>1, <2>9, <3>1
      <4>2. set.monitors[k].ews = ews_config[set.monitors[k].output]
        BY <2>1, <4>1 DEF InGoodOrder
      <4> QED
        BY <2>6, <4>1, <4>2
    <3>2. CASE ~(k <= L)
      BY <2>3, <2>9, <3>2
    <3> QED
      BY <3>1, <3>2
  <2>12. ASSUME NEW j \in 1 .. L + 1, NEW k \in 1 .. L + 1, all[j].output = all[k].output PROVE j = k
    <3>1. \A i \in 1 .. L + 1 : i \in 1 .. L \/ i = L + 1
      BY <2>1
    <3>2. \A i \in 1 .. L : i <= L /\ i \in 1 .. L + 1
      BY <2>1
    <3>3. all[L + 1] = n
      BY <2>1, <2>9
    <3>4. \A i \in 1 .. L : all[i].output = set.monitors[i].output /\ all[i].output # o
      BY <2>1, <2>6, <2>9, <3>2
    <3>5. j \in 1 .. L /\ k \in 1 .. L => j = k
      BY <2>1, <2>12, <3>4 DEF InGoodOrder
    <3> QED
      BY <2>3, <2>12, <3>1, <3>3, <3>4, <3>5
  <2>13. p \in 1 .. L + 1 /\ set.active_monitor_idx \in 1 .. L + 1
    BY <2>1
  <2>14. InGoodOrder(new, ews_config)
    BY <1>1, <2>1, <2>9, <2>10, <2>11, <2>12, <2>13 DEF InGoodOrder
  <2> QED
    BY <2>2, <2>14
<1> QED
  BY <1>2, <1>3

\* An output is unplugged (remove_output).
LEMMA UnplugFacts ==
  ASSUME NEW conf, NEW set, InGoodOrder(set, conf), NEW o,
         \E k \in DOMAIN set.monitors : set.monitors[k].output = o
  PROVE  InGoodOrder(Unplug(set, o), conf)
<1> DEFINE L == Len(set.monitors)
           k == CHOOSE j \in DOMAIN set.monitors : set.monitors[j].output = o
           left == RemoveAt(set.monitors, k)
           wss == IntoWorkspaces(set.monitors[k])
           p == IdxAfterRemoval(set.primary_idx, k)
           a == IdxAfterRemoval(set.active_monitor_idx, k)
<1>1. /\ set \in MonitorSets /\ set.monitors \in Seq(MonitorType) /\ set.monitors # <<>>
      /\ L \in Nat \ {0} /\ DOMAIN set.monitors = 1 .. L /\ k \in 1 .. L
      /\ set.primary_idx \in 1 .. L /\ set.active_monitor_idx \in 1 .. L
  BY DEF InGoodOrder, MonitorSets
<1> HIDE DEF k
<1>2. wss \in Seq(Workspaces) /\ InUse(wss)
  <2>1. Ends(set.monitors[k])
    BY <1>1 DEF InGoodOrder, Tidy
  <2> QED
    BY <2>1, IntoWorkspacesFacts
<1> HIDE DEF wss
<1>3. Deleted(MonitorType, set.monitors, k, left)
  BY <1>1, RemoveAtFacts
<1> HIDE DEF left
<1>4. /\ left \in Seq(MonitorType) /\ Len(left) = L - 1 /\ L - 1 \in Nat /\ DOMAIN left = 1 .. L - 1
      /\ \A j \in 1 .. L - 1 : left[j] = IF j < k THEN set.monitors[j] ELSE set.monitors[j + 1]
  BY <1>1, <1>3 DEF Deleted
<1>5. Unplug(set, o) = IF left = <<>>
        THEN [monitors |-> <<>>, primary_idx |-> 1, active_monitor_idx |-> 1, workspaces |-> wss]
        ELSE [monitors |-> [left EXCEPT ![p] = AppendWorkspaces(@, wss)], primary_idx |-> p,
              active_monitor_idx |-> a, workspaces |-> <<>>]
  BY DEF Unplug, k, left, wss
<1>6. CASE left = <<>>
  <2> DEFINE new == [monitors |-> <<>>, primary_idx |-> 1, active_monitor_idx |-> 1, workspaces |-> wss]
  <2>1. new \in MonitorSets
    BY <1>2 DEF MonitorSets
  <2>2. InGoodOrder(new, conf)
    BY <1>2, <2>1 DEF InGoodOrder
  <2> QED
    BY <1>5, <1>6, <2>2
<1>7. CASE left # <<>>
  <2> DEFINE ms == [left EXCEPT ![p] = AppendWorkspaces(left[p], wss)]
             new == [monitors |-> ms, primary_idx |-> p, active_monitor_idx |-> a, workspaces |-> <<>>]
  <2>1. Unplug(set, o) = new
    BY <1>5, <1>7
  <2>2. p \in 1 .. L - 1 /\ a \in 1 .. L - 1
    <3>1. L - 1 # 0
      BY <1>4, <1>7
    <3> HIDE DEF L
    <3> QED
      BY <1>1, <1>4, <3>1 DEF IdxAfterRemoval
  <2> HIDE DEF p, a
  <2> DEFINE from(j) == IF j < k THEN j ELSE j + 1
  <2>3. \A j \in 1 .. L - 1 : from(j) \in 1 .. L /\ left[j] = set.monitors[from(j)]
    <3>1. \A j \in 1 .. L - 1 : from(j) \in 1 .. L
      <4> HIDE DEF L
      <4> QED
        BY <1>1
    <3> QED
      BY <1>4, <3>1
  <2>4. \A i, j \in 1 .. L - 1 : from(i) = from(j) => i = j
    <3> HIDE DEF L
    <3> QED
      BY <1>1
  <2> HIDE DEF from
  <2>5. \A j \in 1 .. L - 1 : Tidy(left[j]) /\ left[j].ews = conf[left[j].output]
    <3>1. \A i \in 1 .. L : Tidy(set.monitors[i]) /\ set.monitors[i].ews = conf[set.monitors[i].output]
      BY <1>1 DEF InGoodOrder
    <3> SUFFICES ASSUME NEW j \in 1 .. L - 1
                 PROVE  Tidy(left[j]) /\ left[j].ews = conf[left[j].output]
      OBVIOUS
    <3>2. from(j) \in 1 .. L /\ left[j] = set.monitors[from(j)]
      BY <2>3
    <3> QED
      BY <3>1, <3>2
  <2>6. \A i, j \in 1 .. L - 1 : left[i].output = left[j].output => i = j
    <3>1. \A i, j \in 1 .. L : set.monitors[i].output = set.monitors[j].output => i = j
      BY <1>1 DEF InGoodOrder
    <3> SUFFICES ASSUME NEW i \in 1 .. L - 1, NEW j \in 1 .. L - 1, left[i].output = left[j].output
                 PROVE  i = j
      OBVIOUS
    <3>2. /\ from(i) \in 1 .. L /\ left[i] = set.monitors[from(i)]
          /\ from(j) \in 1 .. L /\ left[j] = set.monitors[from(j)]
      BY <2>3
    <3>3. from(i) = from(j)
      BY <3>1, <3>2
    <3> QED
      BY <2>4, <3>3
  <2>7. Tidy(AppendWorkspaces(left[p], wss)) /\ SameMonitor(left[p], AppendWorkspaces(left[p], wss))
    BY <1>2, <2>2, <2>5, AppendWorkspacesFacts
  <2>8. AppendWorkspaces(left[p], wss) \in MonitorType
    BY <2>7 DEF Tidy, Ends
  <2>9. ms \in Seq(MonitorType) /\ Len(ms) = L - 1 /\ DOMAIN ms = 1 .. L - 1
        /\ \A j \in 1 .. L - 1 : ms[j] = IF j = p THEN AppendWorkspaces(left[p], wss) ELSE left[j]
    BY <1>4, <2>2, <2>8
  <2> HIDE DEF ms
  <2>10. \A j \in 1 .. L - 1 : /\ Tidy(ms[j]) /\ ms[j].output = left[j].output
                               /\ ms[j].ews = conf[ms[j].output]
    BY <2>5, <2>7, <2>9 DEF SameMonitor
  <2>11. \A i, j \in 1 .. L - 1 : ms[i].output = ms[j].output => i = j
    BY <2>6, <2>10
  <2>12. <<>> \in Seq(Workspaces) /\ InUse(<<>>)
    BY DEF InUse
  <2>13. new \in MonitorSets
    BY <1>4, <2>2, <2>9, <2>12 DEF MonitorSets
  <2>14. InGoodOrder(new, conf)
    BY <2>2, <2>9, <2>10, <2>11, <2>12, <2>13 DEF InGoodOrder
  <2> QED
    BY <2>1, <2>14
<1> QED
  BY <1>6, <1>7

\* Workspaces without an output that are inserted, removed and changed.
LEMMA InUseFacts ==
  ASSUME NEW wss \in Seq(Workspaces), InUse(wss)
  PROVE  /\ \A i \in 1 .. Len(wss) + 1, ws \in Workspaces :
              HasWindowsOrName(ws) => InsertAt(wss, i, ws) \in Seq(Workspaces) /\ InUse(InsertAt(wss, i, ws))
         /\ \A i \in 1 .. Len(wss) : RemoveAt(wss, i) \in Seq(Workspaces) /\ InUse(RemoveAt(wss, i))
         /\ \A i \in 1 .. Len(wss), ws \in Workspaces :
              HasWindowsOrName(ws) => [wss EXCEPT ![i] = ws] \in Seq(Workspaces)
                                      /\ InUse([wss EXCEPT ![i] = ws])
<1>1. ASSUME NEW i \in 1 .. Len(wss) + 1, NEW ws \in Workspaces, HasWindowsOrName(ws)
      PROVE  InsertAt(wss, i, ws) \in Seq(Workspaces) /\ InUse(InsertAt(wss, i, ws))
  <2> DEFINE t == InsertAt(wss, i, ws)
  <2>1. Inserted(Workspaces, wss, i, ws, t)
    BY InsertAtFacts
  <2> HIDE DEF t
  <2>2. t \in Seq(Workspaces) /\ Len(t) = Len(wss) + 1
        /\ \A j \in 1 .. Len(wss) + 1 : t[j] = IF j < i THEN wss[j] ELSE IF j = i THEN ws ELSE wss[j - 1]
    BY <2>1 DEF Inserted
  <2>3. ASSUME NEW j \in 1 .. Len(wss) + 1 PROVE HasWindowsOrName(t[j])
    <3>1. CASE j < i
      BY <2>2, <3>1 DEF InUse
    <3>2. CASE j = i
      BY <1>1, <2>2, <3>2
    <3>3. CASE ~(j < i) /\ j # i
      <4>1. t[j] = wss[j - 1] /\ j - 1 \in DOMAIN wss
        BY <2>2, <3>3
      <4> QED
        BY <4>1 DEF InUse
    <3> QED
      BY <3>1, <3>2, <3>3
  <2>4. DOMAIN t = 1 .. Len(wss) + 1
    BY <2>2
  <2>5. t \in Seq(Workspaces) /\ InUse(t)
    BY <2>2, <2>3, <2>4 DEF InUse
  <2> QED
    BY <2>5 DEF t
<1>2. ASSUME NEW i \in 1 .. Len(wss)
      PROVE  RemoveAt(wss, i) \in Seq(Workspaces) /\ InUse(RemoveAt(wss, i))
  <2> DEFINE t == RemoveAt(wss, i)
  <2>1. Deleted(Workspaces, wss, i, t)
    BY RemoveAtFacts
  <2> HIDE DEF t
  <2>2. t \in Seq(Workspaces) /\ Len(t) = Len(wss) - 1
        /\ \A j \in 1 .. Len(wss) - 1 : t[j] = IF j < i THEN wss[j] ELSE wss[j + 1]
    BY <2>1 DEF Deleted
  <2>3. ASSUME NEW j \in 1 .. Len(wss) - 1 PROVE HasWindowsOrName(t[j])
    <3>1. j \in DOMAIN wss /\ j + 1 \in DOMAIN wss
      OBVIOUS
    <3> QED
      BY <2>2, <3>1 DEF InUse
  <2>4. DOMAIN t = 1 .. Len(wss) - 1
    BY <2>2
  <2>5. t \in Seq(Workspaces) /\ InUse(t)
    BY <2>2, <2>3, <2>4 DEF InUse
  <2> QED
    BY <2>5 DEF t
<1>3. ASSUME NEW i \in 1 .. Len(wss), NEW ws \in Workspaces, HasWindowsOrName(ws)
      PROVE  [wss EXCEPT ![i] = ws] \in Seq(Workspaces) /\ InUse([wss EXCEPT ![i] = ws])
  BY <1>3 DEF InUse
<1> QED
  BY <1>1, <1>2, <1>3

LEMMA PlaceOfFacts ==
  ASSUME NEW s \in Seq(Workspaces), NEW w
  PROVE  /\ PlaceOf(s, w) \in 0 .. Len(s)
         /\ PlaceOf(s, w) # 0 => w \in s[PlaceOf(s, w)].windows
<1> DEFINE P == {i \in 1 .. Len(s) : w \in s[i].windows}
<1>1. P \in SUBSET Nat /\ IsFiniteSet(P)
  <2>1. Len(s) \in Nat
    OBVIOUS
  <2>2. IsFiniteSet(1 .. Len(s))
    BY <2>1, FS_Interval
  <2>3. P \in SUBSET (1 .. Len(s)) /\ 1 .. Len(s) \subseteq Nat
    BY <2>1
  <2> HIDE DEF P
  <2> QED
    BY <2>2, <2>3, FS_Subset
<1>2. P # {} => Min(P) \in P
  BY <1>1, SmallestFacts
<1> QED
  BY <1>2 DEF PlaceOf

\* A window leaves the monitors, or the workspaces without an output (remove_window).
LEMMA WithoutWindowFacts ==
  ASSUME NEW conf, NEW set, InGoodOrder(set, conf), NEW w \in Windows
  PROVE  InGoodOrder(WithoutWindow(set, w), conf)
<1> DEFINE L == Len(set.monitors)
           removed(m) == IF PlaceOf(m.workspaces, w) = 0 THEN m
                         ELSE RemoveWindow(m, PlaceOf(m.workspaces, w), w)
           ms == [k \in DOMAIN set.monitors |-> removed(set.monitors[k])]
           i == PlaceOf(set.workspaces, w)
           left == [set.workspaces EXCEPT ![i].windows = @ \ {w}]
           wss == CASE i = 0 -> set.workspaces
                    [] i # 0 /\ HasWindowsOrName(left[i]) -> left
                    [] OTHER -> RemoveAt(set.workspaces, i)
           new == [set EXCEPT !.monitors = ms, !.workspaces = wss]
<1>1. /\ set \in MonitorSets /\ set.monitors \in Seq(MonitorType) /\ L \in Nat /\ DOMAIN set.monitors = 1 .. L
      /\ set.workspaces \in Seq(Workspaces) /\ InUse(set.workspaces)
  BY DEF InGoodOrder, MonitorSets
<1>2. WithoutWindow(set, w) = new
  BY <1>1 DEF WithoutWindow, PlaceOf, SelectInSeq, MonitorSets
<1>3. i \in 0 .. Len(set.workspaces)
  BY <1>1, PlaceOfFacts
<1>4. ASSUME NEW k \in 1 .. L
      PROVE  Tidy(removed(set.monitors[k])) /\ SameMonitor(set.monitors[k], removed(set.monitors[k]))
  <2> DEFINE m == set.monitors[k]
             j == PlaceOf(m.workspaces, w)
  <2>1. Tidy(m)
    BY <1>1 DEF InGoodOrder
  <2>2. m.workspaces \in Seq(Workspaces)
    BY <2>1 DEF Tidy, Ends, MonitorType
  <2> HIDE DEF m
  <2>3. j \in 0 .. Len(m.workspaces) /\ (j # 0 => w \in m.workspaces[j].windows)
    BY <2>2, PlaceOfFacts
  <2> HIDE DEF j
  <2>4. j # 0 => Tidy(RemoveWindow(m, j, w)) /\ SameMonitor(m, RemoveWindow(m, j, w))
    <3> SUFFICES ASSUME j # 0 PROVE Tidy(RemoveWindow(m, j, w)) /\ SameMonitor(m, RemoveWindow(m, j, w))
      OBVIOUS
    <3>1. j \in 1 .. Len(m.workspaces) /\ w \in m.workspaces[j].windows
      BY <2>2, <2>3
    <3> QED
      BY <2>1, <3>1, RemoveWindowFacts
  <2> QED
    BY <2>1, <2>4 DEF m, j, SameMonitor
<1> HIDE DEF removed
<1>5. ms \in Seq(MonitorType) /\ Len(ms) = L /\ \A k \in 1 .. L : ms[k] = removed(set.monitors[k])
  <2>1. \A k \in 1 .. L : removed(set.monitors[k]) \in MonitorType
    BY <1>4 DEF Tidy, Ends
  <2> HIDE DEF L
  <2> QED
    BY <1>1, <2>1
<1>6. wss \in Seq(Workspaces) /\ InUse(wss) /\ (set.workspaces = <<>> => wss = <<>>)
  <2>1. CASE i = 0
    BY <1>1, <2>1
  <2>2. CASE i # 0
    <3> DEFINE ws == [set.workspaces[i] EXCEPT !.windows = @ \ {w}]
    <3>1. i \in 1 .. Len(set.workspaces) /\ set.workspaces # <<>>
      BY <1>1, <1>3, <2>2
    <3>2. ws \in Workspaces
      <4>1. set.workspaces[i] \in Workspaces
        BY <1>1, <3>1
      <4> QED
        BY <4>1 DEF Workspaces
    <3>3. left = [set.workspaces EXCEPT ![i] = ws] /\ left[i] = ws
      BY <1>1, <3>1
    <3> HIDE DEF i, ws, left
    <3>4. HasWindowsOrName(ws) => [set.workspaces EXCEPT ![i] = ws] \in Seq(Workspaces)
                                  /\ InUse([set.workspaces EXCEPT ![i] = ws])
      BY <1>1, <3>1, <3>2, InUseFacts
    <3>5. RemoveAt(set.workspaces, i) \in Seq(Workspaces) /\ InUse(RemoveAt(set.workspaces, i))
      BY <1>1, <3>1, InUseFacts
    <3> QED
      BY <2>2, <3>1, <3>3, <3>4, <3>5
  <2> QED
    BY <2>1, <2>2
<1> HIDE DEF ms, wss
<1>7. /\ new \in MonitorSets /\ new.monitors = ms /\ new.workspaces = wss
      /\ new.primary_idx = set.primary_idx /\ new.active_monitor_idx = set.active_monitor_idx
  BY <1>1, <1>5, <1>6 DEF MonitorSets
<1> HIDE DEF new
<1>8. CASE set.monitors = <<>>
  <2>1. new.monitors = <<>>
    BY <1>1, <1>5, <1>7, <1>8
  <2> QED
    BY <1>2, <1>6, <1>7, <2>1 DEF InGoodOrder
<1>9. CASE set.monitors # <<>>
  <2>1. new.workspaces = set.workspaces
    BY <1>6, <1>7, <1>9 DEF InGoodOrder
  <2>2. \A k \in DOMAIN set.monitors : Tidy(new.monitors[k]) /\ SameMonitor(set.monitors[k], new.monitors[k])
    BY <1>1, <1>4, <1>5, <1>7
  <2> QED
    BY <1>2, <1>5, <1>7, <2>1, <2>2, MonitorsFacts
<1> QED
  BY <1>8, <1>9

\* Every monitor is given a new state.
LEMMA AllMonitorsFacts ==
  ASSUME NEW conf, NEW set, InGoodOrder(set, conf), NEW ms, DOMAIN ms = DOMAIN set.monitors,
         ms = [k \in DOMAIN ms |-> ms[k]],
         \A k \in DOMAIN set.monitors : Tidy(ms[k]) /\ SameMonitor(set.monitors[k], ms[k])
  PROVE  LET new == [set EXCEPT !.monitors = ms]
         IN InGoodOrder(new, conf) /\ SameMonitors(set, new) /\ new.monitors = ms
<1> DEFINE L == Len(set.monitors)
           new == [set EXCEPT !.monitors = ms]
<1>1. set \in MonitorSets /\ set.monitors \in Seq(MonitorType) /\ L \in Nat /\ DOMAIN set.monitors = 1 .. L
  BY DEF InGoodOrder, MonitorSets
<1>2. ms \in Seq(MonitorType) /\ Len(ms) = L
  <2>1. \A k \in 1 .. L : ms[k] \in MonitorType
    BY <1>1 DEF Tidy, Ends
  <2> HIDE DEF L
  <2> QED
    BY <1>1, <2>1
<1>3. /\ new \in MonitorSets /\ new.monitors = ms /\ new.workspaces = set.workspaces
      /\ new.primary_idx = set.primary_idx /\ new.active_monitor_idx = set.active_monitor_idx
  BY <1>1, <1>2 DEF MonitorSets
<1> HIDE DEF new
<1>4. InGoodOrder(new, conf)
  BY <1>2, <1>3, MonitorsFacts
<1>5. SameMonitors(set, new)
  BY <1>1, <1>2, <1>3 DEF SameMonitors
<1> QED
  BY <1>3, <1>4, <1>5 DEF new

\* Gestures end (workspace_switch_gesture_end, dnd_scroll_gesture_end).
LEMMA EndGesturesFacts ==
  ASSUME NEW conf, NEW set, InGoodOrder(set, conf), NEW S \in SUBSET DOMAIN set.monitors,
         NEW ended \in EndGestures(set, S)
  PROVE  InGoodOrder(ended, conf) /\ SameMonitors(set, ended)
<1>1. PICK f \in [S -> 1 .. scenario.max] :
        /\ \A k \in S : f[k] \in DOMAIN set.monitors[k].workspaces
        /\ ended = [set EXCEPT !.monitors =
                      [k \in DOMAIN @ |-> IF k \in S THEN GestureEnd(@[k], f[k]) ELSE @[k]]]
  BY DEF EndGestures
<1> DEFINE ms == [k \in DOMAIN set.monitors |->
                    IF k \in S THEN GestureEnd(set.monitors[k], f[k]) ELSE set.monitors[k]]
<1>2. set \in MonitorSets /\ \A k \in DOMAIN set.monitors : Tidy(set.monitors[k])
  BY DEF InGoodOrder
<1>3. ended = [set EXCEPT !.monitors = ms]
  BY <1>1, <1>2 DEF MonitorSets
<1>4. ASSUME NEW k \in DOMAIN set.monitors
      PROVE  Tidy(ms[k]) /\ SameMonitor(set.monitors[k], ms[k])
  <2>1. CASE k \notin S
    BY <1>2, <2>1 DEF SameMonitor
  <2>2. CASE k \in S
    <3>1. Tidy(set.monitors[k])
      BY <1>2
    <3>2. set.monitors[k].workspaces \in Seq(Workspaces)
      BY <3>1 DEF Tidy, Ends, MonitorType
    <3>3. f[k] \in 1 .. Len(set.monitors[k].workspaces)
      BY <1>1, <2>2, <3>2
    <3>4. Tidy(GestureEnd(set.monitors[k], f[k])) /\ SameMonitor(set.monitors[k], GestureEnd(set.monitors[k], f[k]))
      BY <3>1, <3>3, GestureEndFacts
    <3> QED
      BY <2>2, <3>4
  <2> QED
    BY <2>1, <2>2
<1>5. DOMAIN ms = DOMAIN set.monitors /\ ms = [k \in DOMAIN ms |-> ms[k]]
  OBVIOUS
<1> HIDE DEF ms
<1> QED
  BY <1>3, <1>4, <1>5, AllMonitorsFacts

LEMMA DndEndedFacts ==
  ASSUME NEW conf, NEW set, InGoodOrder(set, conf), NEW ended \in DndEnded(set)
  PROVE  InGoodOrder(ended, conf) /\ SameMonitors(set, ended)
<1>1. Swiping(set, {"DndScroll"}) \in SUBSET DOMAIN set.monitors
  BY DEF Swiping
<1>2. ended \in EndGestures(set, Swiping(set, {"DndScroll"}))
  BY DEF DndEnded
<1> QED
  BY <1>1, <1>2, EndGesturesFacts

\* Drag-and-drop scrolls begin (dnd_scroll_gesture_begin).
LEMMA DndBegunFacts ==
  ASSUME NEW conf, NEW set, InGoodOrder(set, conf), overview_open \in BOOLEAN
  PROVE  InGoodOrder(DndBegun(set), conf)
<1> DEFINE ms == [k \in DOMAIN set.monitors |-> DndBegin(set.monitors[k], overview_open)]
<1>1. set \in MonitorSets /\ \A k \in DOMAIN set.monitors : Tidy(set.monitors[k])
  BY DEF InGoodOrder
<1>2. DndBegun(set) = [set EXCEPT !.monitors = ms]
  BY <1>1 DEF DndBegun, MonitorSets
<1>3. \A k \in DOMAIN set.monitors : Tidy(ms[k]) /\ SameMonitor(set.monitors[k], ms[k])
  BY <1>1, DndBeginFacts
<1>4. DOMAIN ms = DOMAIN set.monitors /\ ms = [k \in DOMAIN ms |-> ms[k]]
  OBVIOUS
<1> HIDE DEF ms
<1> QED
  BY <1>2, <1>3, <1>4, AllMonitorsFacts

\* Windows arrive on a tidy monitor, wherever.
LEMMA ArrivalFacts ==
  ASSUME NEW m, Tidy(m), NEW i \in 1 .. Len(m.workspaces), NEW W \in SUBSET Windows, W # {},
         NEW activate \in BOOLEAN
  PROVE  Tidy(AddWindows(m, i, W, activate)) /\ SameMonitor(m, AddWindows(m, i, W, activate))
<1>1. Ends(m) /\ Aimed(m) /\ (m.ews => Len(m.workspaces) # 2) /\ (m.switch = NoSwitch => NoStrayBut(m, i))
  BY DEF Tidy, NoStray, NoStrayBut
<1> QED
  BY <1>1, AddWindowsFacts

\* Windows are dropped on a monitor (interactive_move_end).
LEMMA DroppedFacts ==
  ASSUME NEW m, Tidy(m), NEW W \in SUBSET Windows, W # {}, NEW activate \in BOOLEAN,
         NEW n \in Dropped(m, W, activate)
  PROVE  Tidy(n) /\ SameMonitor(m, n)
<1> DEFINE L == Len(m.workspaces)
<1>1. /\ m \in MonitorType /\ m.workspaces \in Seq(Workspaces) /\ L \in Nat \ {0} /\ DOMAIN m.workspaces = 1 .. L
      /\ m.active \in 1 .. L /\ Vacant(m, L) /\ (m.ews => Vacant(m, 1) /\ L # 2) /\ Aimed(m)
      /\ (m.switch = NoSwitch => NoStray(m))
  BY DEF Tidy, Ends, MonitorType
<1>2. CASE \E i \in DOMAIN m.workspaces : n = AddWindows(m, i, W, activate)
  BY <1>1, <1>2, ArrivalFacts
<1>3. CASE \E i \in {j \in 1 .. (L - 1) : ~(m.ews /\ j = 1)} : n = AddWindows(AddWorkspaceAt(m, i), i, W, activate)
  <2>1. PICK i \in 1 .. L - 1 : ~(m.ews /\ i = 1) /\ n = AddWindows(AddWorkspaceAt(m, i), i, W, activate)
    BY <1>3
  <2> DEFINE t == AddWorkspaceAt(m, i)
  <2>2. i \in 1 .. L + 1 /\ i \in 1 .. L - 1 /\ (m.ews => i # 1)
    <3> HIDE DEF L
    <3> QED
      BY <1>1, <2>1
  <2>3. WorkspaceAdded(m, i, t)
    BY <1>1, <2>2, AddWorkspaceAtFacts
  <2> HIDE DEF t
  <2>4. /\ t \in MonitorType /\ SameMonitor(m, t) /\ SameSwitch(m, t) /\ Len(t.workspaces) = L + 1
        /\ t.active = (IF i <= m.active THEN m.active + 1 ELSE m.active) /\ Aimed(t)
    BY <1>1, <2>3 DEF WorkspaceAdded
  <2>5. /\ \A j \in 1 .. L + 1 : j < i => t.workspaces[j] = m.workspaces[j]
        /\ \A j \in 1 .. L + 1 : j > i => t.workspaces[j] = m.workspaces[j - 1]
    <3>1. \A j \in 1 .. L + 1 : j > i => ~(j < i) /\ j # i
      BY <2>2
    <3> QED
      BY <2>3, <3>1 DEF WorkspaceAdded
  <2> HIDE DEF L
  <2>6. Vacant(t, L + 1) /\ (t.ews => Vacant(t, 1))
    <3>1. L + 1 \in 1 .. L + 1 /\ L + 1 > i /\ (L + 1) - 1 = L /\ 1 \in 1 .. L + 1 /\ (m.ews => 1 < i)
      BY <1>1, <2>2
    <3> QED
      BY <1>1, <2>4, <2>5, <3>1 DEF Vacant, SameMonitor
  <2>7. t.active \in 1 .. L + 1 /\ i \in 1 .. L + 1 /\ (t.ews => L + 1 # 2)
    BY <1>1, <2>2, <2>4 DEF SameMonitor
  <2>8. Ends(t)
    BY <2>4, <2>6, <2>7 DEF Ends
  <2>9. t.switch = NoSwitch => NoStrayBut(t, i)
    <3> SUFFICES ASSUME t.switch = NoSwitch, NEW k \in Inner(t), k # t.active, k # i
                 PROVE  HasWindowsOrName(t.workspaces[k])
      BY DEF NoStrayBut
    <3>1. m.switch = NoSwitch
      BY <2>4 DEF SameSwitch, NoSwitch
    <3> DEFINE o == IF k < i THEN k ELSE k - 1
    <3>2. k \in 1 .. L + 1 /\ o \in Inner(m) /\ o # m.active
      BY <1>1, <2>2, <2>4 DEF Inner, SameMonitor, L
    <3>3. t.workspaces[k] = m.workspaces[o]
      BY <2>2, <2>5, <3>2
    <3> QED
      BY <1>1, <3>1, <3>2, <3>3 DEF NoStray
  <2>10. Tidy(n) /\ SameMonitor(t, n)
    <3>1. i \in 1 .. Len(t.workspaces) /\ (t.ews => Len(t.workspaces) # 2)
      BY <2>4, <2>7
    <3>2. n = AddWindows(t, i, W, activate)
      BY <2>1 DEF t
    <3> QED
      BY <2>4, <2>8, <2>9, <3>1, <3>2, AddWindowsFacts
  <2> QED
    BY <2>4, <2>10 DEF SameMonitor
<1> QED
  BY <1>2, <1>3 DEF Dropped

\* A workspace is given a name (set_workspace_name), on the active monitor or in between.
LEMMA SetNameFacts ==
  ASSUME NEW m, Tidy(m), NEW i \in 1 .. Len(m.workspaces), NEW name \in Names
  PROVE  /\ Tidy(SetName(m, i, name)) /\ SameMonitor(m, SetName(m, i, name))
         /\ i \notin {1, Len(m.workspaces)} =>
              LET n == [m EXCEPT !.workspaces[i].name = name] IN Tidy(n) /\ SameMonitor(m, n)
<1> DEFINE L == Len(m.workspaces)
           ws == [m.workspaces[i] EXCEPT !.name = name]
           n == [m EXCEPT !.workspaces[i].name = name]
           j == ShiftedByTop(m, i)
           t == KeepEmptyEnds(n, i)
<1>1. /\ m \in MonitorType /\ m.workspaces \in Seq(Workspaces) /\ L \in Nat \ {0} /\ m.active \in 1 .. L
      /\ Vacant(m, L) /\ (m.ews => Vacant(m, 1) /\ L # 2) /\ Aimed(m) /\ (m.switch = NoSwitch => NoStray(m))
  BY DEF Tidy, Ends, MonitorType
<1>2. ws \in Workspaces /\ HasWindowsOrName(ws)
  <2>1. m.workspaces[i] \in Workspaces
    BY <1>1
  <2> QED
    BY <2>1, NoneAssumption DEF Workspaces, HasWindowsOrName
<1>3. n = [m EXCEPT !.workspaces[i] = ws]
  BY <1>1 DEF MonitorType
<1> HIDE DEF ws, n
<1>4. Put(m, i, ws, n)
  BY <1>1, <1>2, <1>3, PutFacts
<1>5. /\ n \in MonitorType /\ SameMonitor(m, n) /\ n.active = m.active /\ n.switch = m.switch
      /\ Len(n.workspaces) = L /\ n.workspaces[i] = ws
      /\ \A k \in 1 .. L : k # i => n.workspaces[k] = m.workspaces[k]
  BY <1>4 DEF Put
<1>6. \A k \in 1 .. L : k # i /\ Vacant(m, k) => Vacant(n, k)
  BY <1>5 DEF Vacant, SameMonitor
<1>7. L \in 1 .. L /\ 1 \in 1 .. L
  BY <1>1
<1>8. Aimed(n) /\ (n.switch = NoSwitch => NoStrayBut(n, i))
  <2>1. Aimed(n)
    BY <1>1, <1>5 DEF Aimed
  <2>2. ASSUME n.switch = NoSwitch, NEW k \in Inner(n), k # n.active, k # i PROVE HasWindowsOrName(n.workspaces[k])
    <3>1. k \in 1 .. L /\ k \in Inner(m)
      BY <1>1, <1>5 DEF Inner, SameMonitor
    <3> QED
      BY <1>1, <1>5, <2>2, <3>1 DEF NoStray
  <2> QED
    BY <2>1, <2>2 DEF NoStrayBut
<1>9. EndsBut(n, i)
  BY <1>1, <1>5, <1>6, <1>7 DEF EndsBut, SameMonitor
<1>10. Tidy(t) /\ SameMonitor(n, t)
  <2>1. /\ Ends(t) /\ SameMonitor(n, t) /\ SameSwitch(n, t) /\ Aimed(t)
        /\ n.ews => Len(t.workspaces) # 2
        /\ t.workspaces[ShiftedByTop(n, i)] = n.workspaces[i]
        /\ NoStrayBut(n, i) => NoStrayBut(t, ShiftedByTop(n, i))
    <3>1. n.ews /\ Len(n.workspaces) = 2 => FALSE
      BY <1>1, <1>5 DEF SameMonitor
    <3> HIDE DEF t
    <3> QED
      BY <1>8, <1>9, <3>1, KeepEmptyEndsFacts DEF t
  <2> HIDE DEF t
  <2>2. t.switch = NoSwitch => n.switch = NoSwitch
    BY <2>1 DEF SameSwitch, NoSwitch
  <2>3. t.switch = NoSwitch => NoStray(t)
    BY <1>2, <1>5, <1>8, <2>1, <2>2 DEF NoStray, NoStrayBut
  <2>4. t.ews => Len(t.workspaces) # 2
    BY <2>1 DEF SameMonitor
  <2> QED
    BY <2>1, <2>3, <2>4 DEF Tidy
<1>11. ASSUME i \notin {1, L} PROVE Tidy(n)
  <2>1. Ends(n)
    BY <1>1, <1>5, <1>6, <1>7, <1>11 DEF Ends, SameMonitor
  <2>2. n.switch = NoSwitch => NoStray(n)
    BY <1>2, <1>5, <1>8 DEF NoStray, NoStrayBut
  <2> QED
    BY <1>1, <1>5, <1>8, <2>1, <2>2 DEF Tidy, SameMonitor
<1>12. SetName(m, i, name) = t
  BY DEF SetName, n
<1> HIDE DEF t
<1> QED
  BY <1>5, <1>10, <1>11, <1>12 DEF SameMonitor, n

\* A workspace becomes its monitor's own (move_workspace_to_output_by_id).
LEMMA SentFacts ==
  ASSUME NEW m, Tidy(m), NEW i \in 1 .. Len(m.workspaces)
  PROVE  LET n == [m EXCEPT !.workspaces[i] = SentWorkspace(m.workspaces[i], m.output)]
         IN Tidy(n) /\ SameMonitor(m, n)
<1> DEFINE L == Len(m.workspaces)
           ws == SentWorkspace(m.workspaces[i], m.output)
           n == [m EXCEPT !.workspaces[i] = ws]
<1>1. /\ m \in MonitorType /\ m.workspaces \in Seq(Workspaces) /\ L \in Nat \ {0} /\ m.active \in 1 .. L
      /\ Ends(m) /\ (m.ews => L # 2) /\ Aimed(m) /\ (m.switch = NoSwitch => NoStray(m))
      /\ m.output \in Outputs
  BY DEF Tidy, Ends, MonitorType
<1>2. /\ ws \in Workspaces /\ ws.original_output = m.output
      /\ HasWindowsOrName(ws) <=> HasWindowsOrName(m.workspaces[i])
  <2>1. m.workspaces[i] \in Workspaces
    BY <1>1
  <2> QED
    BY <1>1, <2>1 DEF Workspaces, HasWindowsOrName, SentWorkspace
<1> HIDE DEF ws
<1>3. Put(m, i, ws, n)
  BY <1>1, <1>2, PutFacts
<1> HIDE DEF n
<1>4. Ends(n) /\ Aimed(n)
  BY <1>1, <1>2, <1>3, EmptiedFacts
<1>5. n.switch = NoSwitch => NoStray(n)
  <2> SUFFICES ASSUME n.switch = NoSwitch, NEW k \in Inner(n), k # n.active
               PROVE  HasWindowsOrName(n.workspaces[k])
    BY DEF NoStray
  <2>1. k \in 1 .. L /\ k \in Inner(m) /\ k # m.active /\ m.switch = NoSwitch
    BY <1>1, <1>3 DEF Inner, Put, SameMonitor
  <2> QED
    BY <1>1, <1>2, <1>3, <2>1 DEF NoStray, Put
<1> QED
  BY <1>1, <1>3, <1>4, <1>5 DEF Tidy, Put, SameMonitor, n, ws

LEMMA LeaveFacts ==
  ASSUME NEW m, Tidy(m), NEW i \in 1 .. Len(m.workspaces), NEW W
  PROVE  Left(m, i, [m EXCEPT !.workspaces[i].windows = @ \ W])
<1> DEFINE ws == [m.workspaces[i] EXCEPT !.windows = m.workspaces[i].windows \ W]
           n == [m EXCEPT !.workspaces[i].windows = m.workspaces[i].windows \ W]
<1>1. /\ m \in MonitorType /\ m.workspaces \in Seq(Workspaces) /\ Ends(m) /\ Aimed(m)
      /\ (m.ews => Len(m.workspaces) # 2) /\ (m.switch = NoSwitch => NoStray(m))
  BY DEF Tidy, Ends, MonitorType
<1>2. m.workspaces[i] \in Workspaces
  BY <1>1
<1>3. m.workspaces[i].windows \ W \in SUBSET Windows
  BY <1>2 DEF Workspaces
<1>4. Put(m, i, ws, n)
  BY <1>1, <1>3, WindowsFacts
<1>5. /\ HasWindowsOrName(ws) => HasWindowsOrName(m.workspaces[i])
      /\ ws.original_output = m.workspaces[i].original_output
  BY <1>2 DEF Workspaces, HasWindowsOrName
<1>6. n = [m EXCEPT !.workspaces[i].windows = @ \ W]
  BY <1>1 DEF MonitorType
<1> HIDE DEF n, ws
<1>7. Ends(n) /\ Aimed(n) /\ (NoStray(m) /\ i = m.active => NoStray(n))
  BY <1>1, <1>4, <1>5, EmptiedFacts
<1>8. SameMonitor(m, n) /\ Len(n.workspaces) = Len(m.workspaces) /\ n.switch = m.switch
  BY <1>4 DEF Put
<1>9. n.ews => Len(n.workspaces) # 2
  BY <1>1, <1>8 DEF SameMonitor
<1> QED
  BY <1>1, <1>6, <1>7, <1>8, <1>9 DEF Tidy, Left

LEMMA CarriedFacts ==
  ASSUME NEW conf, NEW set, InGoodOrder(set, conf),
         NEW k \in DOMAIN set.monitors, NEW i \in 1 .. Len(set.monitors[k].workspaces),
         NEW l \in DOMAIN set.monitors, NEW j \in 1 .. Len(set.monitors[l].workspaces),
         NEW W \in SUBSET Windows, W # {}, NEW activate \in BOOLEAN
  PROVE  LET new == Carried(set, <<k, i>>, <<l, j>>, W, activate)
         IN Moved(set, k, l, new) /\ (i = set.monitors[k].active => Tidy(new.monitors[k]))
<1> DEFINE L == Len(set.monitors)
           g == [set.monitors[k] EXCEPT !.workspaces[i].windows = @ \ W]
           gs == [set.monitors EXCEPT ![k] = g]
           n == AddWindows(gs[l], j, W, activate)
           ms == [gs EXCEPT ![l] = n]
           a == IF activate THEN l ELSE set.active_monitor_idx
           new == [set EXCEPT !.monitors = ms, !.active_monitor_idx = a]
<1>1. /\ set \in MonitorSets /\ set.monitors \in Seq(MonitorType) /\ L \in Nat /\ DOMAIN set.monitors = 1 .. L
      /\ set.active_monitor_idx \in Nat /\ l \in Nat
      /\ \A x \in 1 .. L : Tidy(set.monitors[x])
  BY DEF InGoodOrder, MonitorSets
<1>2. Carried(set, <<k, i>>, <<l, j>>, W, activate) = new
  <2>1. [set EXCEPT !.monitors[k].workspaces[i].windows = @ \ W] = [set EXCEPT !.monitors = gs]
    BY <1>1 DEF MonitorSets, MonitorType
  <2>2. [[set EXCEPT !.monitors = gs] EXCEPT !.monitors[l] = AddWindows(@, j, W, activate)]
          = [set EXCEPT !.monitors = ms]
    BY <1>1 DEF MonitorSets
  <2> HIDE DEF gs, ms
  <2>3. Focus([set EXCEPT !.monitors = ms], l, activate) = new
    BY <1>1 DEF Focus, MonitorSets
  <2> QED
    BY <2>1, <2>2, <2>3 DEF Carried
<1>3. /\ Ends(g) /\ Aimed(g) /\ (g.ews => Len(g.workspaces) # 2) /\ SameMonitor(set.monitors[k], g)
      /\ Len(g.workspaces) = Len(set.monitors[k].workspaces)
      /\ (i = set.monitors[k].active => Tidy(g))
  <2> DEFINE m == set.monitors[k]
  <2>1. Tidy(m) /\ i \in 1 .. Len(m.workspaces)
    BY <1>1
  <2>2. g = [m EXCEPT !.workspaces[i].windows = @ \ W]
    OBVIOUS
  <2> HIDE DEF m, g
  <2>3. Left(m, i, g)
    BY <2>1, <2>2, LeaveFacts
  <2> QED
    BY <2>3 DEF m, Left
<1> HIDE DEF g
<1>4. g \in MonitorType
  BY <1>3 DEF Ends
<1>5. gs \in Seq(MonitorType) /\ Len(gs) = L /\ \A x \in 1 .. L : gs[x] = IF x = k THEN g ELSE set.monitors[x]
  BY <1>1, <1>4
<1> HIDE DEF gs
<1>6. /\ Ends(n) /\ Aimed(n) /\ SameMonitor(gs[l], n) /\ (n.ews => Len(n.workspaces) # 2)
      /\ (l # k \/ i = set.monitors[k].active => Tidy(n))
  <2>1. CASE l = k
    <3>1. gs[l] = g /\ j \in 1 .. Len(g.workspaces)
      BY <1>1, <1>3, <1>5, <2>1
    <3>2. Ends(n) /\ Aimed(n) /\ SameMonitor(g, n) /\ (n.ews => Len(n.workspaces) # 2)
      BY <1>3, <3>1, AddWindowsFacts
    <3>3. i = set.monitors[k].active => Tidy(n)
      BY <1>3, <3>1, ArrivalFacts
    <3> QED
      BY <2>1, <3>1, <3>2, <3>3
  <2>2. CASE l # k
    <3>1. gs[l] = set.monitors[l] /\ Tidy(set.monitors[l])
      BY <1>1, <1>5, <2>2
    <3>2. Tidy(n) /\ SameMonitor(gs[l], n)
      BY <3>1, ArrivalFacts
    <3> HIDE DEF n
    <3> QED
      BY <3>2 DEF Tidy
  <2> QED
    BY <2>1, <2>2
<1> HIDE DEF n
<1>7. n \in MonitorType
  BY <1>6 DEF Ends
<1>8. ms \in Seq(MonitorType) /\ Len(ms) = L /\ \A x \in 1 .. L : ms[x] = IF x = l THEN n ELSE gs[x]
  BY <1>1, <1>5, <1>7
<1> HIDE DEF ms
<1>9. a \in Nat /\ a \in {set.active_monitor_idx, l}
  BY <1>1
<1> HIDE DEF a
<1>10. /\ new \in MonitorSets /\ new.monitors = ms /\ new.workspaces = set.workspaces
       /\ new.primary_idx = set.primary_idx /\ new.active_monitor_idx = a
  BY <1>1, <1>8, <1>9 DEF MonitorSets
<1> HIDE DEF new
<1>11. ASSUME NEW x \in 1 .. L
       PROVE  SameMonitor(set.monitors[x], ms[x]) /\ (x # k => Tidy(ms[x]))
  <2>1. SameMonitor(set.monitors[x], gs[x])
    BY <1>3, <1>5 DEF SameMonitor
  <2>2. SameMonitor(set.monitors[x], ms[x])
    BY <1>6, <1>8, <2>1 DEF SameMonitor
  <2>3. x # k => Tidy(ms[x])
    BY <1>1, <1>5, <1>6, <1>8
  <2> QED
    BY <2>2, <2>3
<1>12. /\ Ends(ms[k]) /\ Aimed(ms[k]) /\ (ms[k].ews => Len(ms[k].workspaces) # 2)
       /\ (i = set.monitors[k].active => Tidy(ms[k]))
  BY <1>1, <1>3, <1>5, <1>6, <1>8
<1> QED
  BY <1>1, <1>2, <1>8, <1>9, <1>10, <1>11, <1>12 DEF Moved

---------------------------------------------------------------------------
(* The steps. *)

LEMMA ScenarioFacts ==
  ASSUME LayoutInv
  PROVE  scenario.outputs \subseteq Outputs /\ scenario.windows \subseteq Windows /\ scenario.max \in Nat
BY ScenariosAssumption DEF LayoutInv, Scripts

\* The monitor of a connected output, and the workspaces of the monitors.
LEMMA IdxOfFacts ==
  ASSUME NEW o \in Connected
  PROVE  IdxOf(o) \in DOMAIN monitor_set.monitors /\ monitor_set.monitors[IdxOf(o)].output = o
BY DEF Connected, IdxOf, MonitorIdx, monitors

LEMMA PlacesFacts ==
  ASSUME LayoutInv, NEW p \in Places
  PROVE  /\ p[1] \in DOMAIN monitor_set.monitors /\ Tidy(monitor_set.monitors[p[1]])
         /\ p[2] \in 1 .. Len(monitor_set.monitors[p[1]].workspaces)
         /\ p = <<p[1], p[2]>>
<1>1. PICK k \in DOMAIN monitor_set.monitors : p \in {k} \X DOMAIN monitor_set.monitors[k].workspaces
  BY DEF Places, MonitorIdx, monitors
<1>2. Tidy(monitor_set.monitors[k])
  BY DEF LayoutInv, InGoodOrder
<1>3. monitor_set.monitors[k].workspaces \in Seq(Workspaces)
  BY <1>2 DEF Tidy, Ends, MonitorType
<1>4. p[1] = k /\ p[2] \in DOMAIN monitor_set.monitors[k].workspaces /\ p = <<p[1], p[2]>>
  BY <1>1
<1> QED
  BY <1>2, <1>3, <1>4

\* The active monitor, if there are monitors.
LEMMA ActiveFacts ==
  ASSUME LayoutInv, monitors # <<>>
  PROVE  /\ monitor_set.active_monitor_idx \in DOMAIN monitor_set.monitors
         /\ monitor_set.primary_idx \in DOMAIN monitor_set.monitors
         /\ Tidy(monitor_set.monitors[monitor_set.active_monitor_idx])
         /\ monitor_set.monitors[monitor_set.active_monitor_idx].active
              \in 1 .. Len(monitor_set.monitors[monitor_set.active_monitor_idx].workspaces)
<1>1. /\ monitor_set.active_monitor_idx \in DOMAIN monitor_set.monitors
      /\ monitor_set.primary_idx \in DOMAIN monitor_set.monitors
  BY DEF LayoutInv, InGoodOrder, monitors
<1>2. Tidy(monitor_set.monitors[monitor_set.active_monitor_idx])
  BY <1>1 DEF LayoutInv, InGoodOrder
<1> QED
  BY <1>1, <1>2 DEF Tidy, Ends

\* Outputs come and go and are focused.
LEMMA AddOutputStep ==
  ASSUME LayoutInv, NEW o \in Outputs, AddOutput(o)
  PROVE  InGoodOrder(monitor_set', ews_config')
<1>1. \A k \in DOMAIN monitor_set.monitors : monitor_set.monitors[k].output # o
  BY DEF AddOutput, Connected, MonitorIdx, monitors
<1>2. InGoodOrder(Plug(monitor_set, o), ews_config)
  BY <1>1, PlugFacts DEF LayoutInv
<1> QED
  BY <1>2 DEF AddOutput, MonitorsOnly

LEMMA RemoveOutputStep ==
  ASSUME LayoutInv, NEW o, RemoveOutput(o)
  PROVE  InGoodOrder(monitor_set', ews_config')
<1>1. \E k \in DOMAIN monitor_set.monitors : monitor_set.monitors[k].output = o
  BY DEF RemoveOutput, Connected, MonitorIdx, monitors
<1>2. InGoodOrder(Unplug(monitor_set, o), ews_config)
  BY <1>1, UnplugFacts DEF LayoutInv
<1> QED
  BY <1>2 DEF RemoveOutput, MonitorsOnly

LEMMA FocusOutputStep ==
  ASSUME LayoutInv, NEW o, FocusOutput(o)
  PROVE  InGoodOrder(monitor_set', ews_config')
<1>1. IdxOf(o) \in DOMAIN monitor_set.monitors
  BY IdxOfFacts DEF FocusOutput
<1>2. InGoodOrder(Focus(monitor_set, IdxOf(o), TRUE), ews_config)
  BY <1>1, FocusFacts DEF LayoutInv
<1> QED
  BY <1>2 DEF FocusOutput, MonitorsOnly

\* The configuration of an output changes.
LEMMA UpdateOptionsStep ==
  ASSUME LayoutInv, NEW o \in Outputs, UpdateOptions(o)
  PROVE  InGoodOrder(monitor_set', ews_config') /\ ews_config' \in [Outputs -> BOOLEAN]
<1> DEFINE L == Len(monitor_set.monitors)
           conf == ews_config'
<1>1. /\ monitor_set \in MonitorSets /\ monitor_set.monitors \in Seq(MonitorType)
      /\ L \in Nat /\ DOMAIN monitor_set.monitors = 1 .. L
      /\ InGoodOrder(monitor_set, ews_config) /\ ews_config \in [Outputs -> BOOLEAN]
  BY DEF LayoutInv, InGoodOrder, MonitorSets
<1>2. /\ \A k \in 1 .. L : Tidy(monitor_set.monitors[k])
                           /\ monitor_set.monitors[k].ews = ews_config[monitor_set.monitors[k].output]
                           /\ monitor_set.monitors[k].output \in Outputs
      /\ \A j, k \in 1 .. L : monitor_set.monitors[j].output = monitor_set.monitors[k].output => j = k
      /\ monitor_set.monitors # <<>> =>
           /\ monitor_set.workspaces = <<>>
           /\ monitor_set.primary_idx \in 1 .. L /\ monitor_set.active_monitor_idx \in 1 .. L
      /\ InUse(monitor_set.workspaces)
  <2>1. \A k \in 1 .. L : monitor_set.monitors[k].output \in Outputs
    <3>1. \A k \in 1 .. L : monitor_set.monitors[k] \in MonitorType
      BY <1>1
    <3> QED
      BY <3>1 DEF MonitorType
  <2> QED
    BY <1>1, <2>1 DEF InGoodOrder
<1>3. /\ conf \in [Outputs -> BOOLEAN] /\ conf[o] = ~ews_config[o]
      /\ \A x \in Outputs : x # o => conf[x] = ews_config[x]
  BY <1>1 DEF UpdateOptions
<1> HIDE DEF conf
<1>4. CASE o \notin Connected
  <2>1. \A k \in 1 .. L : monitor_set.monitors[k].output # o
    BY <1>1, <1>4 DEF Connected, MonitorIdx, monitors
  <2>2. monitor_set' = monitor_set
    BY <1>4 DEF UpdateOptions
  <2>3. InGoodOrder(monitor_set, conf)
    BY <1>1, <1>2, <1>3, <2>1 DEF InGoodOrder
  <2> QED
    BY <1>3, <2>2, <2>3 DEF conf
<1>5. CASE o \in Connected
  <2> DEFINE k == IdxOf(o)
             n == UpdateConfig(monitor_set.monitors[k])
             ms == [monitor_set.monitors EXCEPT ![k] = n]
             new == [monitor_set EXCEPT !.monitors = ms]
  <2>1. k \in 1 .. L /\ monitor_set.monitors[k].output = o
    BY <1>1, <1>5, IdxOfFacts
  <2>2. monitor_set' = new
    BY <1>1, <1>5 DEF UpdateOptions, MonitorSets
  <2> HIDE DEF k
  <2>3. Tidy(n) /\ n.output = o /\ n.ews = ~monitor_set.monitors[k].ews
    BY <1>2, <2>1, UpdateConfigFacts
  <2>4. n.ews = conf[o]
    BY <1>2, <1>3, <2>1, <2>3
  <2> HIDE DEF n
  <2>5. n \in MonitorType
    BY <2>3 DEF Tidy, Ends
  <2>6. ms \in Seq(MonitorType) /\ Len(ms) = L /\ DOMAIN ms = 1 .. L
        /\ \A x \in 1 .. L : ms[x] = IF x = k THEN n ELSE monitor_set.monitors[x]
    BY <1>1, <2>1, <2>5
  <2> HIDE DEF ms
  <2>7. /\ new \in MonitorSets /\ new.monitors = ms /\ new.workspaces = monitor_set.workspaces
        /\ new.primary_idx = monitor_set.primary_idx
        /\ new.active_monitor_idx = monitor_set.active_monitor_idx
    BY <1>1, <2>6 DEF MonitorSets
  <2> HIDE DEF new
  <2>8. ASSUME NEW x \in 1 .. L
        PROVE  Tidy(ms[x]) /\ ms[x].ews = conf[ms[x].output]
               /\ ms[x].output = monitor_set.monitors[x].output
    <3>1. CASE x = k
      BY <2>1, <2>3, <2>4, <2>6, <3>1
    <3>2. CASE x # k
      <4>1. monitor_set.monitors[x].output # o
        BY <1>2, <2>1, <3>2
      <4> QED
        BY <1>2, <1>3, <2>6, <3>2, <4>1
    <3> QED
      BY <3>1, <3>2
  <2>9. \A x, y \in 1 .. L : ms[x].output = ms[y].output => x = y
    BY <1>2, <2>8
  <2>10. monitor_set.monitors # <<>>
    BY <1>1, <2>1
  <2>11. InGoodOrder(new, conf)
    BY <1>2, <2>6, <2>7, <2>8, <2>9, <2>10 DEF InGoodOrder
  <2> QED
    BY <1>3, <2>2, <2>11 DEF conf
<1> QED
  BY <1>4, <1>5

\* Windows open, close, are activated and move.
LEMMA AddWithoutOutputsFacts ==
  ASSUME NEW wss \in Seq(Workspaces), InUse(wss), NEW i \in DOMAIN wss \cup {1},
         NEW W \in SUBSET Windows, W # {}
  PROVE  AddWithoutOutputs(wss, i, W) \in Seq(Workspaces) /\ InUse(AddWithoutOutputs(wss, i, W))
<1>1. CASE wss = <<>>
  <2> DEFINE ws == [NewWorkspace(NoName, NoOutput) EXCEPT !.windows = W]
  <2>1. ws \in Workspaces /\ HasWindowsOrName(ws)
    <3>1. NewWorkspace(NoName, NoOutput) \in Workspaces
      BY NewWorkspaceFacts
    <3> QED
      BY <3>1 DEF Workspaces, HasWindowsOrName
  <2> HIDE DEF ws
  <2>2. <<ws>> \in Seq(Workspaces) /\ InUse(<<ws>>)
    BY <2>1 DEF InUse
  <2> QED
    BY <1>1, <2>2 DEF AddWithoutOutputs, ws
<1>2. CASE wss # <<>>
  <2> DEFINE ws == [wss[i] EXCEPT !.windows = @ \cup W]
  <2>1. i \in 1 .. Len(wss)
    BY <1>2
  <2>2. wss[i] \in Workspaces
    BY <2>1
  <2>3. ws \in Workspaces /\ HasWindowsOrName(ws)
    BY <2>2 DEF Workspaces, HasWindowsOrName
  <2>4. [wss EXCEPT ![i].windows = @ \cup W] = [wss EXCEPT ![i] = ws]
    OBVIOUS
  <2> HIDE DEF ws
  <2>5. [wss EXCEPT ![i] = ws] \in Seq(Workspaces) /\ InUse([wss EXCEPT ![i] = ws])
    BY <2>1, <2>3, InUseFacts
  <2> QED
    BY <1>2, <2>4, <2>5 DEF AddWithoutOutputs
<1> QED
  BY <1>1, <1>2

LEMMA AddWindowStep ==
  ASSUME LayoutInv, NEW w \in Windows, AddWindow(w)
  PROVE  InGoodOrder(monitor_set', ews_config')
<1>1. ews_config' = ews_config /\ InGoodOrder(monitor_set, ews_config)
  BY DEF AddWindow, LayoutInv
<1>2. ASSUME NEW p \in Places, NEW activate \in BOOLEAN,
             monitor_set' = Focus([monitor_set EXCEPT
                                     !.monitors[p[1]] = AddWindows(@, p[2], {w}, activate)],
                                  p[1], activate)
      PROVE  InGoodOrder(monitor_set', ews_config)
  <2> DEFINE k == p[1]
             n == AddWindows(monitor_set.monitors[k], p[2], {w}, activate)
             new == [monitor_set EXCEPT !.monitors[k] = n]
  <2>1. k \in DOMAIN monitor_set.monitors /\ Tidy(n) /\ SameMonitor(monitor_set.monitors[k], n)
    BY PlacesFacts, ArrivalFacts
  <2>2. monitor_set' = Focus(new, k, activate)
    BY <1>2
  <2>3. DOMAIN new.monitors = DOMAIN monitor_set.monitors
    BY <1>1 DEF InGoodOrder, MonitorSets
  <2> HIDE DEF n, k
  <2>4. InGoodOrder(new, ews_config)
    BY <1>1, <2>1, SetMonitorFacts
  <2> HIDE DEF new
  <2>5. k \in DOMAIN new.monitors
    BY <2>1, <2>3
  <2> QED
    BY <2>2, <2>4, <2>5, FocusFacts
<1>3. ASSUME monitors = <<>>, NEW i \in DOMAIN monitor_set.workspaces \cup {1},
             monitor_set' = [monitor_set EXCEPT !.workspaces = AddWithoutOutputs(@, i, {w})]
      PROVE  InGoodOrder(monitor_set', ews_config)
  <2> DEFINE wss == AddWithoutOutputs(monitor_set.workspaces, i, {w})
  <2>1. monitor_set.workspaces \in Seq(Workspaces) /\ InUse(monitor_set.workspaces)
    BY <1>1 DEF InGoodOrder, MonitorSets
  <2>2. wss \in Seq(Workspaces) /\ InUse(wss)
    BY <2>1, AddWithoutOutputsFacts
  <2>3. monitor_set.monitors = <<>> /\ monitor_set' = [monitor_set EXCEPT !.workspaces = wss]
    BY <1>3 DEF monitors
  <2> HIDE DEF wss
  <2> QED
    BY <1>1, <2>2, <2>3, NoOutputsFacts
<1> QED
  BY <1>1, <1>2, <1>3 DEF AddWindow

LEMMA CloseWindowStep ==
  ASSUME LayoutInv, NEW w \in Windows, CloseWindow(w)
  PROVE  InGoodOrder(monitor_set', ews_config')
<1>1. ews_config' = ews_config /\ InGoodOrder(monitor_set, ews_config)
  BY DEF CloseWindow, LayoutInv
<1>2. ASSUME NEW ended \in DndEnded(monitor_set), monitor_set' = WithoutWindow(ended, w)
      PROVE  InGoodOrder(monitor_set', ews_config)
  <2>1. InGoodOrder(ended, ews_config)
    BY <1>1, DndEndedFacts
  <2> QED
    BY <1>2, <2>1, WithoutWindowFacts
<1>3. ASSUME monitor_set' = WithoutWindow(monitor_set, w) PROVE InGoodOrder(monitor_set', ews_config)
  BY <1>1, <1>3, WithoutWindowFacts
<1> QED
  BY <1>1, <1>2, <1>3 DEF CloseWindow

\* A workspace of a tidy monitor is activated.
LEMMA TidyActivation ==
  ASSUME NEW m, Tidy(m), NEW i \in 1 .. Len(m.workspaces)
  PROVE  Tidy(ActivateWorkspace(m, i)) /\ SameMonitor(m, ActivateWorkspace(m, i))
<1>1. Ends(m) /\ Aimed(m) /\ (m.ews => Len(m.workspaces) # 2) /\ (m.switch = NoSwitch => NoStrayBut(m, i))
  BY DEF Tidy, NoStray, NoStrayBut
<1> QED
  BY <1>1, ActivateWorkspaceFacts

LEMMA ActivateWindowStep ==
  ASSUME LayoutInv, NEW w, ActivateWindow(w)
  PROVE  InGoodOrder(monitor_set', ews_config')
<1>1. ews_config' = ews_config /\ InGoodOrder(monitor_set, ews_config)
  BY DEF ActivateWindow, MonitorsOnly, LayoutInv
<1>2. ASSUME NEW p \in Places,
             monitor_set' = Focus([monitor_set EXCEPT !.monitors[p[1]] = ActivateWorkspace(@, p[2])],
                                  p[1], TRUE)
      PROVE  InGoodOrder(monitor_set', ews_config)
  <2> DEFINE k == p[1]
             n == ActivateWorkspace(monitor_set.monitors[k], p[2])
             new == [monitor_set EXCEPT !.monitors[k] = n]
  <2>1. k \in DOMAIN monitor_set.monitors /\ Tidy(n) /\ SameMonitor(monitor_set.monitors[k], n)
    BY PlacesFacts, TidyActivation
  <2>2. monitor_set' = Focus(new, k, TRUE)
    BY <1>2
  <2>3. DOMAIN new.monitors = DOMAIN monitor_set.monitors
    BY <1>1 DEF InGoodOrder, MonitorSets
  <2> HIDE DEF n, k
  <2>4. InGoodOrder(new, ews_config)
    BY <1>1, <2>1, SetMonitorFacts
  <2> HIDE DEF new
  <2>5. k \in DOMAIN new.monitors
    BY <2>1, <2>3
  <2> QED
    BY <2>2, <2>4, <2>5, FocusFacts
<1>3. ASSUME NEW p \in Places, monitor_set' = Focus(monitor_set, p[1], TRUE)
      PROVE  InGoodOrder(monitor_set', ews_config)
  <2>1. p[1] \in DOMAIN monitor_set.monitors
    BY PlacesFacts
  <2>2. InGoodOrder(Focus(monitor_set, p[1], TRUE), ews_config)
    BY <1>1, <2>1, FocusFacts
  <2> QED
    BY <1>3, <2>2
<1> QED
  BY <1>1, <1>2, <1>3 DEF ActivateWindow

LEMMA MoveWindowStep ==
  ASSUME LayoutInv, NEW w \in Windows, NEW q \in Places, NEW activate \in BOOLEAN,
         MoveWindow(w, q, activate)
  PROVE  InGoodOrder(monitor_set', ews_config')
<1>1. ews_config' = ews_config /\ InGoodOrder(monitor_set, ews_config)
  BY DEF MoveWindow, MonitorsOnly, LayoutInv
<1>2. PICK p \in Places :
        LET moved == Carried(monitor_set, p, q, {w}, activate)
        IN \E f \in {moved.active_monitor_idx, monitor_set.active_monitor_idx} :
             monitor_set' = [moved EXCEPT !.monitors[p[1]] = CleanUpIfStill(@), !.active_monitor_idx = f]
  BY DEF MoveWindow
<1> DEFINE moved == Carried(monitor_set, p, q, {w}, activate)
           k == p[1]
           L == Len(monitor_set.monitors)
           c == CleanUpIfStill(moved.monitors[k])
           ms == [moved.monitors EXCEPT ![k] = c]
<1>3. PICK f \in {moved.active_monitor_idx, monitor_set.active_monitor_idx} :
        monitor_set' = [moved EXCEPT !.monitors[k] = c, !.active_monitor_idx = f]
  BY <1>2
<1>4. /\ k \in DOMAIN monitor_set.monitors /\ p[2] \in 1 .. Len(monitor_set.monitors[k].workspaces)
      /\ q[1] \in DOMAIN monitor_set.monitors /\ q[2] \in 1 .. Len(monitor_set.monitors[q[1]].workspaces)
      /\ p = <<k, p[2]>> /\ q = <<q[1], q[2]>>
  BY PlacesFacts
<1>5. Moved(monitor_set, k, q[1], moved)
  <2>1. {w} \in SUBSET Windows /\ {w} # {}
    OBVIOUS
  <2> DEFINE i == p[2]
             l == q[1]
             j == q[2]
  <2>2. moved = Carried(monitor_set, <<k, i>>, <<l, j>>, {w}, activate)
    BY <1>4
  <2> HIDE DEF moved, k, i, l, j
  <2>3. Moved(monitor_set, k, l, moved)
    BY <1>1, <1>4, <2>1, <2>2, CarriedFacts DEF i, l, j
  <2> QED
    BY <2>3 DEF l
<1> HIDE DEF moved, k
<1>6. /\ monitor_set \in MonitorSets /\ monitor_set.monitors \in Seq(MonitorType)
      /\ L \in Nat /\ DOMAIN monitor_set.monitors = 1 .. L
      /\ moved \in MonitorSets /\ moved.monitors \in Seq(MonitorType) /\ Len(moved.monitors) = L
      /\ DOMAIN moved.monitors = 1 .. L /\ moved.workspaces = monitor_set.workspaces
      /\ moved.primary_idx = monitor_set.primary_idx
      /\ moved.active_monitor_idx \in {monitor_set.active_monitor_idx, q[1]}
      /\ \A x \in 1 .. L : SameMonitor(monitor_set.monitors[x], moved.monitors[x])
                           /\ (x # k => Tidy(moved.monitors[x]))
  BY <1>1, <1>5 DEF Moved, InGoodOrder, MonitorSets
<1>7. Tidy(c) /\ SameMonitor(moved.monitors[k], c)
  BY <1>5, CleanUpIfStillFacts DEF Moved
<1> HIDE DEF c
<1>8. c \in MonitorType
  BY <1>7 DEF Tidy, Ends
<1>9. ms \in Seq(MonitorType) /\ Len(ms) = L /\ \A x \in 1 .. L : ms[x] = IF x = k THEN c ELSE moved.monitors[x]
  BY <1>4, <1>6, <1>8
<1>10. monitor_set' = [moved EXCEPT !.monitors = ms, !.active_monitor_idx = f]
  BY <1>3, <1>6 DEF MonitorSets
<1> HIDE DEF ms
<1>11. f \in Nat /\ f \in {monitor_set.active_monitor_idx, q[1]}
  BY <1>4, <1>6 DEF MonitorSets
<1> DEFINE new == [moved EXCEPT !.monitors = ms, !.active_monitor_idx = f]
<1>12. /\ new \in MonitorSets /\ new.monitors = ms /\ new.workspaces = monitor_set.workspaces
       /\ new.primary_idx = monitor_set.primary_idx /\ new.active_monitor_idx = f
  BY <1>6, <1>9, <1>11 DEF MonitorSets
<1> HIDE DEF new
<1>13. ASSUME NEW x \in DOMAIN monitor_set.monitors
       PROVE  Tidy(new.monitors[x]) /\ SameMonitor(monitor_set.monitors[x], new.monitors[x])
  BY <1>6, <1>7, <1>9, <1>12 DEF SameMonitor
<1>14. f = monitor_set.active_monitor_idx \/ f \in DOMAIN monitor_set.monitors
  BY <1>4, <1>11
<1>15. InGoodOrder(new, ews_config)
  BY <1>1, <1>9, <1>12, <1>13, <1>14, MonitorsFacts
<1> QED
  BY <1>1, <1>10, <1>15 DEF new

LEMMA MoveColumnStep ==
  ASSUME LayoutInv, NEW C \in SUBSET Windows, NEW q \in Places, NEW activate \in BOOLEAN,
         MoveColumn(C, q, activate)
  PROVE  InGoodOrder(monitor_set', ews_config')
<1> DEFINE k == monitor_set.active_monitor_idx
           i == monitor_set.monitors[k].active
           l == q[1]
           j == q[2]
<1>1. /\ ews_config' = ews_config /\ InGoodOrder(monitor_set, ews_config)
      /\ C # {} /\ monitors # <<>>
      /\ monitor_set' = Carried(monitor_set, <<k, i>>, q, C, activate)
  BY DEF MoveColumn, MonitorsOnly, LayoutInv, monitors
<1>2. k \in DOMAIN monitor_set.monitors /\ i \in 1 .. Len(monitor_set.monitors[k].workspaces)
  BY <1>1, ActiveFacts
<1>3. /\ l \in DOMAIN monitor_set.monitors /\ j \in 1 .. Len(monitor_set.monitors[l].workspaces)
      /\ q = <<l, j>>
  BY PlacesFacts
<1> DEFINE new == Carried(monitor_set, <<k, i>>, <<l, j>>, C, activate)
<1>4. monitor_set' = new
  BY <1>1, <1>3
<1>5. Moved(monitor_set, k, l, new) /\ Tidy(new.monitors[k])
  <2> HIDE DEF l, j, k
  <2>1. \A x : x = i /\ x \in 1 .. Len(monitor_set.monitors[k].workspaces) =>
          LET r == Carried(monitor_set, <<k, x>>, <<l, j>>, C, activate)
          IN Moved(monitor_set, k, l, r) /\ (x = monitor_set.monitors[k].active => Tidy(r.monitors[k]))
    BY <1>1, <1>2, <1>3, CarriedFacts
  <2> QED
    BY <1>2, <2>1
<1> HIDE DEF new, k, l
<1>6. \A x \in DOMAIN monitor_set.monitors :
        Tidy(new.monitors[x]) /\ SameMonitor(monitor_set.monitors[x], new.monitors[x])
  BY <1>5 DEF Moved
<1>7. InGoodOrder(new, ews_config)
  BY <1>1, <1>3, <1>5, <1>6, MonitorsFacts DEF Moved
<1> QED
  BY <1>1, <1>4, <1>7

\* One monitor is changed, and nothing else.
LEMMA OneMonitorStep ==
  ASSUME LayoutInv, NEW k \in DOMAIN monitor_set.monitors, NEW n, Tidy(n),
         SameMonitor(monitor_set.monitors[k], n),
         monitor_set' = [monitor_set EXCEPT !.monitors[k] = n], ews_config' = ews_config
  PROVE  InGoodOrder(monitor_set', ews_config')
<1>1. InGoodOrder(monitor_set, ews_config)
  BY DEF LayoutInv
<1>2. InGoodOrder([monitor_set EXCEPT !.monitors[k] = n], ews_config)
  BY <1>1, SetMonitorFacts
<1> QED
  BY <1>2

\* One monitor is changed and may be focused.
LEMMA OneFocusedStep ==
  ASSUME LayoutInv, NEW k \in DOMAIN monitor_set.monitors, NEW n, Tidy(n),
         SameMonitor(monitor_set.monitors[k], n), NEW activate \in BOOLEAN,
         monitor_set' = Focus([monitor_set EXCEPT !.monitors[k] = n], k, activate),
         ews_config' = ews_config
  PROVE  InGoodOrder(monitor_set', ews_config')
<1> DEFINE new == [monitor_set EXCEPT !.monitors[k] = n]
<1>1. InGoodOrder(monitor_set, ews_config)
  BY DEF LayoutInv
<1>2. DOMAIN new.monitors = DOMAIN monitor_set.monitors
  BY <1>1 DEF InGoodOrder, MonitorSets
<1>3. InGoodOrder(new, ews_config)
  BY <1>1, SetMonitorFacts
<1> HIDE DEF new
<1>4. k \in DOMAIN new.monitors
  BY <1>2
<1>5. InGoodOrder(Focus(new, k, activate), ews_config)
  BY <1>3, <1>4, FocusFacts
<1> QED
  BY <1>5 DEF new

\* The workspaces without an output are changed.
LEMMA NoOutputsStep ==
  ASSUME LayoutInv, monitors = <<>>, NEW wss \in Seq(Workspaces), InUse(wss),
         monitor_set' = [monitor_set EXCEPT !.workspaces = wss], ews_config' = ews_config
  PROVE  InGoodOrder(monitor_set', ews_config')
<1>1. InGoodOrder(monitor_set, ews_config) /\ monitor_set.monitors = <<>>
  BY DEF LayoutInv, monitors
<1>2. InGoodOrder([monitor_set EXCEPT !.workspaces = wss], ews_config)
  BY <1>1, NoOutputsFacts
<1> QED
  BY <1>2

\* Workspaces are switched and move.
LEMMA SwitchWorkspaceStep ==
  ASSUME LayoutInv, NEW i, SwitchWorkspace(i)
  PROVE  InGoodOrder(monitor_set', ews_config')
<1> DEFINE k == monitor_set.active_monitor_idx
           m == monitor_set.monitors[k]
           n == ActivateWorkspace(m, i)
<1>1. /\ ews_config' = ews_config /\ monitors # <<>> /\ i \in DOMAIN m.workspaces
      /\ monitor_set' = [monitor_set EXCEPT !.monitors[k] = n]
  BY DEF SwitchWorkspace, MonitorsOnly, monitors
<1>2. k \in DOMAIN monitor_set.monitors /\ Tidy(m)
  BY <1>1, ActiveFacts
<1> HIDE DEF k
<1>3. i \in 1 .. Len(m.workspaces)
  <2>1. m.workspaces \in Seq(Workspaces)
    BY <1>2 DEF Tidy, Ends, MonitorType
  <2> QED
    BY <1>1, <2>1
<1>4. Tidy(n) /\ SameMonitor(m, n)
  <2> HIDE DEF m
  <2> QED
    BY <1>2, <1>3, TidyActivation
<1> HIDE DEF n
<1> QED
  BY <1>1, <1>2, <1>4, OneMonitorStep

LEMMA MoveWorkspaceWithinStep ==
  ASSUME LayoutInv, MoveWorkspaceWithin
  PROVE  InGoodOrder(monitor_set', ews_config')
<1> DEFINE a == monitor_set.active_monitor_idx
<1>1. ews_config' = ews_config /\ monitors # <<>>
  BY DEF MoveWorkspaceWithin, MonitorsOnly
<1>2. a \in DOMAIN monitor_set.monitors /\ Tidy(monitor_set.monitors[a])
  BY <1>1, ActiveFacts
<1>3. ASSUME monitor_set' = [monitor_set EXCEPT !.monitors[a] = MoveWorkspaceDown(@)]
      PROVE  InGoodOrder(monitor_set', ews_config')
  <2> DEFINE n == MoveWorkspaceDown(monitor_set.monitors[a])
  <2>1. Tidy(n) /\ SameMonitor(monitor_set.monitors[a], n)
    BY <1>2, MoveWorkspaceDownFacts
  <2>2. monitor_set' = [monitor_set EXCEPT !.monitors[a] = n]
    BY <1>3
  <2> HIDE DEF n, a
  <2> QED
    BY <1>1, <1>2, <2>1, <2>2, OneMonitorStep
<1>4. ASSUME monitor_set' = [monitor_set EXCEPT !.monitors[a] = MoveWorkspaceUp(@)]
      PROVE  InGoodOrder(monitor_set', ews_config')
  <2> DEFINE n == MoveWorkspaceUp(monitor_set.monitors[a])
  <2>1. Tidy(n) /\ SameMonitor(monitor_set.monitors[a], n)
    BY <1>2, MoveWorkspaceUpFacts
  <2>2. monitor_set' = [monitor_set EXCEPT !.monitors[a] = n]
    BY <1>4
  <2> HIDE DEF n, a
  <2> QED
    BY <1>1, <1>2, <2>1, <2>2, OneMonitorStep
<1>5. ASSUME NEW p \in Places, NEW idx \in DOMAIN monitor_set.monitors[p[1]].workspaces,
             monitor_set' = [monitor_set EXCEPT !.monitors[p[1]] = MoveWorkspaceToIdx(@, p[2], idx)]
      PROVE  InGoodOrder(monitor_set', ews_config')
  <2> DEFINE k == p[1]
             m == monitor_set.monitors[k]
             n == MoveWorkspaceToIdx(m, p[2], idx)
  <2>1. k \in DOMAIN monitor_set.monitors /\ Tidy(m) /\ p[2] \in 1 .. Len(m.workspaces)
    BY PlacesFacts
  <2>2. idx \in 1 .. Len(m.workspaces)
    <3>1. m.workspaces \in Seq(Workspaces)
      BY <2>1 DEF Tidy, Ends, MonitorType
    <3> QED
      BY <3>1
  <2>3. Tidy(n) /\ SameMonitor(m, n)
    <3> HIDE DEF m
    <3> QED
      BY <2>1, <2>2, MoveWorkspaceToIdxFacts
  <2>4. monitor_set' = [monitor_set EXCEPT !.monitors[k] = n]
    BY <1>5
  <2> HIDE DEF n, k
  <2> QED
    BY <1>1, <2>1, <2>3, <2>4, OneMonitorStep
<1> QED
  BY <1>3, <1>4, <1>5 DEF MoveWorkspaceWithin, monitors

LEMMA MoveWorkspaceToOutputStep ==
  ASSUME LayoutInv, NEW p \in Places, NEW o \in Outputs, MoveWorkspaceToOutput(p, o)
  PROVE  InGoodOrder(monitor_set', ews_config')
<1> DEFINE ws == SentWorkspace(monitor_set.monitors[p[1]].workspaces[p[2]], o)
           k == IdxOf(o)
           j == p[1]
           i == p[2]
           m == monitor_set.monitors[j]
           activate == j = monitor_set.active_monitor_idx /\ i = m.active
           r == RemoveWorkspaceByIdx(m, i)
           removed == [monitor_set EXCEPT !.monitors[j] = r]
<1>1. /\ ews_config' = ews_config /\ o \in Connected
      /\ monitor_set' = IF k = j THEN [monitor_set EXCEPT !.monitors[k].workspaces[i] = ws]
                        ELSE Focus([removed EXCEPT !.monitors[k] = InsertWorkspace(@, ws, @.active + 1, activate)],
                                   k, activate)
  BY DEF MoveWorkspaceToOutput, MonitorsOnly, monitors, WorkspaceAt
<1>2. k \in DOMAIN monitor_set.monitors /\ monitor_set.monitors[k].output = o
  BY <1>1, IdxOfFacts
<1>3. j \in DOMAIN monitor_set.monitors /\ Tidy(m) /\ i \in 1 .. Len(m.workspaces)
  BY PlacesFacts
<1>4. InGoodOrder(monitor_set, ews_config) /\ monitor_set \in MonitorSets
      /\ monitor_set.monitors \in Seq(MonitorType)
  BY DEF LayoutInv, InGoodOrder, MonitorSets
<1> HIDE DEF k
<1>5. CASE k = j
  <2> DEFINE n == [m EXCEPT !.workspaces[i] = SentWorkspace(m.workspaces[i], m.output)]
  <2>1. Tidy(n) /\ SameMonitor(m, n)
    <3> HIDE DEF m, i
    <3> QED
      BY <1>3, SentFacts
  <2>2. monitor_set' = [monitor_set EXCEPT !.monitors[k] = n]
    <3>1. ws = SentWorkspace(m.workspaces[i], m.output)
      BY <1>2, <1>5
    <3>2. m \in MonitorType
      BY <1>3 DEF Tidy, Ends
    <3>3. [monitor_set EXCEPT !.monitors[k].workspaces[i] = ws]
            = [monitor_set EXCEPT !.monitors[k] = [m EXCEPT !.workspaces[i] = ws]]
      <4> HIDE DEF ws
      <4> QED
        BY <1>4, <1>5, <3>2 DEF MonitorSets, MonitorType
    <3> HIDE DEF ws
    <3> QED
      BY <1>1, <1>5, <3>1, <3>3
  <2> HIDE DEF n
  <2> QED
    BY <1>1, <1>2, <1>5, <2>1, <2>2, OneMonitorStep
<1>6. CASE k # j
  <2> DEFINE l == monitor_set.monitors[k]
             idx == l.active + 1
             n == InsertWorkspace(l, ws, idx, activate)
             new == [removed EXCEPT !.monitors[k] = n]
  <2>1. Tidy(r) /\ SameMonitor(m, r)
    <3> HIDE DEF m, i
    <3> QED
      BY <1>3, RemoveWorkspaceByIdxFacts
  <2> HIDE DEF r
  <2>2. InGoodOrder(removed, ews_config)
    <3> HIDE DEF j
    <3> QED
      BY <1>3, <1>4, <2>1, SetMonitorFacts DEF m
  <2>3. removed.monitors[k] = l /\ DOMAIN removed.monitors = DOMAIN monitor_set.monitors
    BY <1>2, <1>4, <1>6 DEF MonitorSets
  <2>4. Tidy(l) /\ ws \in Workspaces /\ idx \in 1 .. Len(l.workspaces) + 1
    <3>1. Tidy(l)
      BY <1>2, <1>4 DEF InGoodOrder
    <3>2. m.workspaces \in Seq(Workspaces)
      BY <1>3 DEF Tidy, Ends, MonitorType
    <3>3. m.workspaces[i] \in Workspaces
      BY <1>3, <3>2
    <3>4. ws \in Workspaces
      <4>1. ws = [m.workspaces[i] EXCEPT !.original_output = o]
        BY DEF SentWorkspace
      <4> HIDE DEF ws, m
      <4> QED
        BY <3>3, <4>1 DEF Workspaces
    <3>5. l.active \in 1 .. Len(l.workspaces) /\ l.workspaces \in Seq(Workspaces)
      BY <3>1 DEF Tidy, Ends, MonitorType
    <3> HIDE DEF l
    <3>6. idx \in 1 .. Len(l.workspaces) + 1
      BY <3>5
    <3> QED
      BY <3>1, <3>4, <3>6
  <2>5. activate \in BOOLEAN
    OBVIOUS
  <2>6. monitor_set' = Focus(new, k, activate)
    <3>1. new = [removed EXCEPT !.monitors[k] = InsertWorkspace(@, ws, @.active + 1, activate)]
      BY <2>3
    <3> HIDE DEF removed, ws, activate, new
    <3> QED
      BY <1>1, <1>6, <3>1
  <2> HIDE DEF ws, activate, removed, l, idx
  <2>7. Tidy(n) /\ SameMonitor(l, n)
    BY <2>4, <2>5, InsertWorkspaceFacts
  <2> HIDE DEF n
  <2>8. InGoodOrder(new, ews_config)
    BY <1>2, <2>2, <2>3, <2>7, SetMonitorFacts
  <2>9. k \in DOMAIN new.monitors
    <3>1. removed \in MonitorSets
      BY <2>2 DEF InGoodOrder
    <3> QED
      BY <1>2, <2>3, <3>1 DEF MonitorSets
  <2> HIDE DEF new
  <2>10. InGoodOrder(Focus(new, k, activate), ews_config)
    BY <2>5, <2>8, <2>9, FocusFacts
  <2> QED
    BY <1>1, <2>6, <2>10
<1> QED
  BY <1>5, <1>6

\* The workspaces without an output all have windows or a name, and there are none
\* of them while there are monitors.
LEMMA UnpluggedFacts ==
  ASSUME LayoutInv
  PROVE  /\ monitor_set.workspaces \in Seq(Workspaces) /\ InUse(monitor_set.workspaces)
         /\ DOMAIN monitor_set.workspaces = 1 .. Len(monitor_set.workspaces)
         /\ monitor_set.workspaces # <<>> => monitors = <<>>
<1>1. monitor_set \in MonitorSets
  BY DEF LayoutInv, InGoodOrder
<1>2. monitor_set.workspaces \in Seq(Workspaces)
  BY <1>1 DEF MonitorSets
<1>3. InUse(monitor_set.workspaces) /\ (monitor_set.workspaces # <<>> => monitors = <<>>)
  BY DEF LayoutInv, InGoodOrder, monitors
<1> QED
  BY <1>2, <1>3

\* Named workspaces.
LEMMA AddNamedWorkspaceStep ==
  ASSUME LayoutInv, NEW name \in Names, AddNamedWorkspace(name)
  PROVE  InGoodOrder(monitor_set', ews_config')
<1>1. ews_config' = ews_config
  BY DEF AddNamedWorkspace, MonitorsOnly
<1>2. ASSUME NEW k \in MonitorIdx, NEW i \in 1 .. scenario.max + 1, NEW activate \in BOOLEAN,
             i <= Len(monitors[k].workspaces) + 1,
             monitor_set' = Focus([monitor_set EXCEPT !.monitors[k] =
                                     InsertWorkspace(@, NewWorkspace(name, @.output), i, activate)],
                                  k, activate)
      PROVE  InGoodOrder(monitor_set', ews_config')
  <2> DEFINE m == monitor_set.monitors[k]
             ws == NewWorkspace(name, m.output)
             n == InsertWorkspace(m, ws, i, activate)
  <2>1. k \in DOMAIN monitor_set.monitors /\ i <= Len(m.workspaces) + 1
    BY <1>2 DEF MonitorIdx, monitors
  <2>2. Tidy(m)
    BY <2>1 DEF LayoutInv, InGoodOrder
  <2>3. m.output \in Outputs /\ m.workspaces \in Seq(Workspaces)
    BY <2>2 DEF Tidy, Ends, MonitorType
  <2>4. monitor_set' = Focus([monitor_set EXCEPT !.monitors[k] = n], k, activate)
    BY <1>2
  <2> HIDE DEF m
  <2>5. ws \in Workspaces
    BY <2>3, NewWorkspaceFacts
  <2>6. i \in 1 .. Len(m.workspaces) + 1
    BY <2>1, <2>3, ScenarioFacts
  <2> HIDE DEF ws
  <2>7. Tidy(n) /\ SameMonitor(m, n)
    BY <2>2, <2>5, <2>6, InsertWorkspaceFacts
  <2> HIDE DEF n
  <2> QED
    BY <1>1, <2>1, <2>4, <2>7, OneFocusedStep DEF m
<1>3. ASSUME monitors = <<>>, NEW i \in 1 .. Len(monitor_set.workspaces) + 1,
             monitor_set' = [monitor_set EXCEPT !.workspaces = InsertAt(@, i, NewWorkspace(name, NoOutput))]
      PROVE  InGoodOrder(monitor_set', ews_config')
  <2> DEFINE ws == NewWorkspace(name, NoOutput)
             wss == InsertAt(monitor_set.workspaces, i, ws)
  <2>1. ws \in Workspaces /\ HasWindowsOrName(ws)
    BY NewWorkspaceFacts, NoneAssumption
  <2>2. monitor_set' = [monitor_set EXCEPT !.workspaces = wss]
    BY <1>3
  <2> HIDE DEF ws
  <2>3. wss \in Seq(Workspaces) /\ InUse(wss)
    BY <2>1, UnpluggedFacts, InUseFacts
  <2> HIDE DEF wss
  <2> QED
    BY <1>1, <1>3, <2>2, <2>3, NoOutputsStep
<1> QED
  BY <1>2, <1>3 DEF AddNamedWorkspace

LEMMA EnsureNamedWorkspaceStep ==
  ASSUME LayoutInv, NEW name \in Names, NEW o \in Outputs \cup {NoOutput},
         EnsureNamedWorkspace(name, o)
  PROVE  InGoodOrder(monitor_set', ews_config')
<1>1. ews_config' = ews_config
  BY DEF EnsureNamedWorkspace, MonitorsOnly
<1>2. CASE monitors = <<>>
  <2> DEFINE ws == NewWorkspace(name, o)
             wss == InsertAt(monitor_set.workspaces, 1, ws)
  <2>1. ws \in Workspaces /\ HasWindowsOrName(ws)
    BY NewWorkspaceFacts, NoneAssumption
  <2>2. monitor_set' = [monitor_set EXCEPT !.workspaces = wss]
    BY <1>2 DEF EnsureNamedWorkspace
  <2>3. 1 \in 1 .. Len(monitor_set.workspaces) + 1
    BY UnpluggedFacts
  <2> HIDE DEF ws
  <2>4. wss \in Seq(Workspaces) /\ InUse(wss)
    BY <2>1, <2>3, UnpluggedFacts, InUseFacts
  <2> HIDE DEF wss
  <2> QED
    BY <1>1, <1>2, <2>2, <2>4, NoOutputsStep
<1>3. CASE monitors # <<>>
  <2> DEFINE k == CASE o = NoOutput -> monitor_set.active_monitor_idx
                    [] o \in Connected -> IdxOf(o)
                    [] OTHER -> monitor_set.primary_idx
             m == monitor_set.monitors[k]
             own == IF o = NoOutput THEN m.output ELSE o
             ws == NewWorkspace(name, own)
             n == InsertWorkspace(m, ws, 1, FALSE)
  <2>1. monitor_set' = [monitor_set EXCEPT !.monitors[k] = InsertWorkspace(@, ws, 1, FALSE)]
    BY <1>3 DEF EnsureNamedWorkspace, monitors
  <2>2. k \in DOMAIN monitor_set.monitors
    <3>1. CASE o = NoOutput
      <4>1. monitor_set.active_monitor_idx \in DOMAIN monitor_set.monitors
        BY <1>3, ActiveFacts
      <4>2. o \notin Connected
        <5>1. \A x \in DOMAIN monitor_set.monitors : monitor_set.monitors[x].output \in Outputs
          BY DEF LayoutInv, InGoodOrder, Tidy, Ends, MonitorType
        <5> QED
          BY <3>1, <5>1, NoneAssumption DEF Connected, MonitorIdx, monitors
      <4> QED
        BY <3>1, <4>1, <4>2
    <3>2. CASE o # NoOutput /\ o \in Connected
      BY <3>2, IdxOfFacts
    <3>3. CASE o # NoOutput /\ o \notin Connected
      BY <1>3, <3>3, ActiveFacts
    <3> QED
      BY <3>1, <3>2, <3>3
  <2> HIDE DEF k
  <2>3. Tidy(m) /\ monitor_set' = [monitor_set EXCEPT !.monitors[k] = n]
    BY <2>1, <2>2 DEF LayoutInv, InGoodOrder
  <2>4. m.output \in Outputs /\ m.workspaces \in Seq(Workspaces)
    BY <2>3 DEF Tidy, Ends, MonitorType
  <2> HIDE DEF m
  <2>5. ws \in Workspaces /\ 1 \in 1 .. Len(m.workspaces) + 1
    BY <2>4, NewWorkspaceFacts
  <2> HIDE DEF ws
  <2>6. Tidy(n) /\ SameMonitor(m, n)
    BY <2>3, <2>5, InsertWorkspaceFacts
  <2> HIDE DEF n
  <2> QED
    BY <1>1, <2>2, <2>3, <2>6, OneMonitorStep DEF m
<1> QED
  BY <1>2, <1>3

LEMMA RemoveWorkspaceStep ==
  ASSUME LayoutInv, RemoveWorkspace
  PROVE  InGoodOrder(monitor_set', ews_config')
<1>1. ews_config' = ews_config
  BY DEF RemoveWorkspace, MonitorsOnly
<1>2. ASSUME NEW p \in Places,
             monitor_set' = [monitor_set EXCEPT !.monitors[p[1]] = RemoveWorkspaceByIdx(@, p[2])]
      PROVE  InGoodOrder(monitor_set', ews_config')
  <2> DEFINE k == p[1]
             m == monitor_set.monitors[k]
             n == RemoveWorkspaceByIdx(m, p[2])
  <2>1. k \in DOMAIN monitor_set.monitors /\ Tidy(m) /\ p[2] \in 1 .. Len(m.workspaces)
    BY PlacesFacts
  <2>2. monitor_set' = [monitor_set EXCEPT !.monitors[k] = n]
    BY <1>2
  <2> HIDE DEF k, m
  <2>3. Tidy(n) /\ SameMonitor(m, n)
    BY <2>1, RemoveWorkspaceByIdxFacts
  <2> HIDE DEF n
  <2> QED
    BY <1>1, <2>1, <2>2, <2>3, OneMonitorStep DEF m
<1>3. ASSUME NEW i \in DOMAIN monitor_set.workspaces,
             monitor_set' = [monitor_set EXCEPT !.workspaces = RemoveAt(@, i)]
      PROVE  InGoodOrder(monitor_set', ews_config')
  <2> DEFINE wss == RemoveAt(monitor_set.workspaces, i)
  <2>1. wss \in Seq(Workspaces) /\ InUse(wss)
    BY UnpluggedFacts, InUseFacts
  <2>2. monitors = <<>> /\ monitor_set' = [monitor_set EXCEPT !.workspaces = wss]
    BY <1>3, UnpluggedFacts
  <2> HIDE DEF wss
  <2> QED
    BY <1>1, <2>1, <2>2, NoOutputsStep
<1> QED
  BY <1>2, <1>3 DEF RemoveWorkspace

\* Naming the first or the last workspace of a monitor that is not active is left to
\* the feature names_elsewhere.
LEMMA SetWorkspaceNameStep ==
  ASSUME LayoutInv, ~Has("names_elsewhere"), NEW name \in Names, SetWorkspaceName(name)
  PROVE  InGoodOrder(monitor_set', ews_config')
<1>1. ews_config' = ews_config
  BY DEF SetWorkspaceName, MonitorsOnly
<1>2. ASSUME NEW p \in Places,
             monitor_set' = SetMonitor(monitor_set, p[1], SetName(monitors[p[1]], p[2], name))
      PROVE  InGoodOrder(monitor_set', ews_config')
  <2> DEFINE k == p[1]
             m == monitor_set.monitors[k]
             n == SetName(m, p[2], name)
  <2>1. k \in DOMAIN monitor_set.monitors /\ Tidy(m) /\ p[2] \in 1 .. Len(m.workspaces)
    BY PlacesFacts
  <2>2. monitor_set' = [monitor_set EXCEPT !.monitors[k] = n]
    BY <1>2 DEF SetMonitor, monitors
  <2> HIDE DEF k, m
  <2>3. Tidy(n) /\ SameMonitor(m, n)
    BY <2>1, SetNameFacts
  <2> HIDE DEF n
  <2> QED
    BY <1>1, <2>1, <2>2, <2>3, OneMonitorStep DEF m
<1>3. ASSUME NEW p \in Places, p[2] \notin {1, Len(monitors[p[1]].workspaces)},
             monitor_set' = [monitor_set EXCEPT !.monitors[p[1]].workspaces[p[2]].name = name]
      PROVE  InGoodOrder(monitor_set', ews_config')
  <2> DEFINE k == p[1]
             i == p[2]
             m == monitor_set.monitors[k]
             n == [m EXCEPT !.workspaces[i].name = name]
  <2>1. /\ k \in DOMAIN monitor_set.monitors /\ Tidy(m) /\ i \in 1 .. Len(m.workspaces)
        /\ i \notin {1, Len(m.workspaces)}
    BY <1>3, PlacesFacts DEF monitors
  <2>2. monitor_set' = [monitor_set EXCEPT !.monitors[k] = n]
    BY <1>3
  <2> HIDE DEF k, m, i
  <2>3. Tidy(n) /\ SameMonitor(m, n)
    BY <2>1, SetNameFacts
  <2> HIDE DEF n
  <2> QED
    BY <1>1, <2>1, <2>2, <2>3, OneMonitorStep DEF m
<1>4. ASSUME NEW i \in DOMAIN monitor_set.workspaces,
             monitor_set' = [monitor_set EXCEPT !.workspaces[i].name = name]
      PROVE  InGoodOrder(monitor_set', ews_config')
  <2> DEFINE ws == [monitor_set.workspaces[i] EXCEPT !.name = name]
             wss == [monitor_set.workspaces EXCEPT ![i] = ws]
  <2>1. monitor_set.workspaces[i] \in Workspaces
    BY UnpluggedFacts
  <2>2. ws \in Workspaces /\ HasWindowsOrName(ws)
    BY <2>1, NoneAssumption DEF Workspaces, HasWindowsOrName
  <2>3. monitors = <<>> /\ monitor_set' = [monitor_set EXCEPT !.workspaces = wss]
    BY <1>4, UnpluggedFacts
  <2> HIDE DEF ws
  <2>4. wss \in Seq(Workspaces) /\ InUse(wss)
    BY <2>2, UnpluggedFacts, InUseFacts
  <2> HIDE DEF wss
  <2> QED
    BY <1>1, <2>3, <2>4, NoOutputsStep
<1> QED
  BY <1>2, <1>3, <1>4 DEF SetWorkspaceName

LEMMA UnnameAtStep ==
  ASSUME LayoutInv, UnnameAt
  PROVE  InGoodOrder(monitor_set', ews_config')
<1>1. ews_config' = ews_config
  BY DEF UnnameAt, MonitorsOnly
<1>2. ASSUME NEW p \in Places,
             monitor_set' = [monitor_set EXCEPT !.monitors[p[1]] = UnnameWorkspace(@, p[2])]
      PROVE  InGoodOrder(monitor_set', ews_config')
  <2> DEFINE k == p[1]
             m == monitor_set.monitors[k]
             n == UnnameWorkspace(m, p[2])
  <2>1. k \in DOMAIN monitor_set.monitors /\ Tidy(m) /\ p[2] \in 1 .. Len(m.workspaces)
    BY PlacesFacts
  <2>2. monitor_set' = [monitor_set EXCEPT !.monitors[k] = n]
    BY <1>2
  <2> HIDE DEF k, m
  <2>3. Tidy(n) /\ SameMonitor(m, n)
    BY <2>1, UnnameWorkspaceFacts
  <2> HIDE DEF n
  <2> QED
    BY <1>1, <2>1, <2>2, <2>3, OneMonitorStep DEF m
<1>3. ASSUME NEW i \in DOMAIN monitor_set.workspaces,
             monitor_set' = [monitor_set EXCEPT !.workspaces =
               IF @[i].windows = {} THEN RemoveAt(@, i) ELSE [@ EXCEPT ![i].name = NoName]]
      PROVE  InGoodOrder(monitor_set', ews_config')
  <2> DEFINE s == monitor_set.workspaces
             wss == IF s[i].windows = {} THEN RemoveAt(s, i) ELSE [s EXCEPT ![i].name = NoName]
  <2>1. s \in Seq(Workspaces) /\ InUse(s) /\ i \in 1 .. Len(s) /\ monitors = <<>>
    BY UnpluggedFacts
  <2>2. monitor_set' = [monitor_set EXCEPT !.workspaces = wss]
    BY <1>3
  <2> HIDE DEF s
  <2>3. wss \in Seq(Workspaces) /\ InUse(wss)
    <3>1. CASE s[i].windows = {}
      BY <2>1, <3>1, InUseFacts
    <3>2. CASE s[i].windows # {}
      <4> DEFINE ws == [s[i] EXCEPT !.name = NoName]
      <4>1. s[i] \in Workspaces
        BY <2>1
      <4>2. ws \in Workspaces /\ HasWindowsOrName(ws)
        BY <3>2, <4>1 DEF Workspaces, HasWindowsOrName
      <4>3. wss = [s EXCEPT ![i] = ws]
        BY <3>2
      <4> HIDE DEF ws, wss
      <4> QED
        BY <2>1, <4>2, <4>3, InUseFacts
    <3> QED
      BY <3>1, <3>2
  <2> HIDE DEF wss
  <2> QED
    BY <1>1, <2>1, <2>2, <2>3, NoOutputsStep
<1> QED
  BY <1>2, <1>3 DEF UnnameAt

\* Animations, gestures and interactive moves.
LEMMA AnimationDoneStep ==
  ASSUME LayoutInv, NEW k, AnimationDone(k)
  PROVE  InGoodOrder(monitor_set', ews_config')
<1> DEFINE m == monitor_set.monitors[k]
           n == StopAndCleanUp(m)
<1>1. /\ k \in DOMAIN monitor_set.monitors /\ ews_config' = ews_config
      /\ monitor_set' = [monitor_set EXCEPT !.monitors[k] = n]
  BY DEF AnimationDone, MonitorsOnly, MonitorIdx, monitors, AdvanceAnimations
<1>2. Ends(m)
  BY <1>1 DEF LayoutInv, InGoodOrder, Tidy
<1> HIDE DEF m
<1>3. Tidy(n) /\ SameMonitor(m, n)
  BY <1>2, StopAndCleanUpFacts
<1> HIDE DEF n
<1> QED
  BY <1>1, <1>3, OneMonitorStep DEF m

LEMMA GestureBeginStep ==
  ASSUME LayoutInv, NEW o, GestureBegin(o)
  PROVE  InGoodOrder(monitor_set', ews_config')
<1> DEFINE k == IdxOf(o)
           S == Swiping(monitor_set, {"Gesture", "DndScroll"}) \ {k}
<1>1. o \in Connected /\ ews_config' = ews_config
  BY DEF GestureBegin, MonitorsOnly
<1>2. PICK ended \in EndGestures(monitor_set, S) :
        monitor_set' = [ended EXCEPT !.monitors[k].switch = Gesture]
  BY DEF GestureBegin
<1>3. S \in SUBSET DOMAIN monitor_set.monitors /\ k \in DOMAIN monitor_set.monitors
  BY <1>1, IdxOfFacts DEF Swiping
<1> HIDE DEF S, k
<1>4. InGoodOrder(ended, ews_config) /\ SameMonitors(monitor_set, ended)
  BY <1>3, EndGesturesFacts DEF LayoutInv
<1>5. k \in DOMAIN ended.monitors
  BY <1>3, <1>4 DEF SameMonitors
<1> DEFINE m == ended.monitors[k]
           n == [m EXCEPT !.switch = Gesture]
<1>6. Tidy(m)
  BY <1>4, <1>5 DEF InGoodOrder
<1>7. monitor_set' = [ended EXCEPT !.monitors[k] = n]
  BY <1>2
<1> HIDE DEF m
<1>8. Tidy(n) /\ SameMonitor(m, n)
  BY <1>6, GestureBeginFacts
<1> HIDE DEF n
<1>9. InGoodOrder([ended EXCEPT !.monitors[k] = n], ews_config)
  BY <1>4, <1>5, <1>8, SetMonitorFacts DEF m
<1> QED
  BY <1>1, <1>7, <1>9

LEMMA GestureFinishStep ==
  ASSUME LayoutInv, NEW k, GestureFinish(k)
  PROVE  InGoodOrder(monitor_set', ews_config')
<1>1. /\ ews_config' = ews_config /\ {k} \in SUBSET DOMAIN monitor_set.monitors
      /\ monitor_set' \in EndGestures(monitor_set, {k})
  BY DEF GestureFinish, MonitorsOnly, Swiping
<1> QED
  BY <1>1, EndGesturesFacts DEF LayoutInv

LEMMA DndUpdateStep ==
  ASSUME LayoutInv, DndUpdate
  PROVE  InGoodOrder(monitor_set', ews_config')
BY DndBegunFacts DEF LayoutInv, DndUpdate

LEMMA DndEndStep ==
  ASSUME LayoutInv, DndEnd
  PROVE  InGoodOrder(monitor_set', ews_config')
BY DndEndedFacts DEF LayoutInv, DndEnd

LEMMA RefreshStep ==
  ASSUME LayoutInv, Refresh
  PROVE  InGoodOrder(monitor_set', ews_config')
<1>1. /\ ews_config' = ews_config
      /\ monitor_set' = DndBegun(monitor_set) \/ monitor_set' \in DndEnded(monitor_set)
  BY DEF Refresh, MonitorsOnly
<1> QED
  BY <1>1, DndBegunFacts, DndEndedFacts DEF LayoutInv

LEMMA InteractiveMoveBeginStep ==
  ASSUME LayoutInv, NEW w, InteractiveMoveBegin(w)
  PROVE  InGoodOrder(monitor_set', ews_config')
BY DndBegunFacts DEF LayoutInv, InteractiveMoveBegin

LEMMA InteractiveMoveStartStep ==
  ASSUME LayoutInv, NEW o, InteractiveMoveStart(o)
  PROVE  InGoodOrder(monitor_set', ews_config')
<1> DEFINE w == CHOOSE x \in interactive_move.window : TRUE
<1>1. interactive_move.window # {} /\ interactive_move.window \in SUBSET Windows
  BY DEF LayoutInv, InteractiveMoveStart, MoveType
<1>2. w \in Windows
  BY <1>1
<1>3. monitor_set' = WithoutWindow(monitor_set, w) /\ ews_config' = ews_config
  BY DEF InteractiveMoveStart
<1> HIDE DEF w
<1> QED
  BY <1>2, <1>3, WithoutWindowFacts DEF LayoutInv

LEMMA InteractiveMoveUpdateStep ==
  ASSUME LayoutInv, NEW o, InteractiveMoveUpdate(o)
  PROVE  InGoodOrder(monitor_set', ews_config')
<1>1. o \in Connected /\ ews_config' = ews_config /\ monitor_set' = Focus(monitor_set, IdxOf(o), TRUE)
  BY DEF InteractiveMoveUpdate
<1>2. IdxOf(o) \in DOMAIN monitor_set.monitors
  BY <1>1, IdxOfFacts
<1> QED
  BY <1>1, <1>2, FocusFacts DEF LayoutInv

LEMMA InteractiveMoveEndStep ==
  ASSUME LayoutInv, InteractiveMoveEnd
  PROVE  InGoodOrder(monitor_set', ews_config')
<1> DEFINE W == interactive_move.window
           o == interactive_move.output
           open == ~overview_open
<1>1. ews_config' = ews_config /\ InGoodOrder(monitor_set, ews_config)
  BY DEF InteractiveMoveEnd, LayoutInv
<1>2. W \in SUBSET Windows /\ W # {} /\ open \in BOOLEAN
  BY DEF InteractiveMoveEnd, LayoutInv, MoveType, NoMove
<1>3. PICK ended \in DndEnded(monitor_set) :
        LET a == ended.active_monitor_idx
        IN \/ monitor_set' = ended
           \/ /\ o \in Connected
              /\ \E m \in Dropped(ended.monitors[IdxOf(o)], W, open) :
                   monitor_set' = SetMonitor(ended, IdxOf(o), m)
           \/ /\ monitors # <<>>
              /\ monitor_set' = [ended EXCEPT !.monitors[a] = AddWindows(@, 1, W, open)]
           \/ /\ monitors = <<>>
              /\ monitor_set' = [ended EXCEPT !.workspaces = AddWithoutOutputs(@, 1, W)]
  BY DEF InteractiveMoveEnd
<1> HIDE DEF W, open
<1>4. InGoodOrder(ended, ews_config) /\ SameMonitors(monitor_set, ended)
  BY <1>1, DndEndedFacts
<1>5. ASSUME NEW k \in DOMAIN ended.monitors, NEW n, Tidy(n), SameMonitor(ended.monitors[k], n),
             monitor_set' = [ended EXCEPT !.monitors[k] = n]
      PROVE  InGoodOrder(monitor_set', ews_config')
  <2>1. InGoodOrder([ended EXCEPT !.monitors[k] = n], ews_config)
    BY <1>4, <1>5, SetMonitorFacts
  <2> QED
    BY <1>1, <1>5, <2>1
<1>6. ASSUME o \in Connected, NEW n \in Dropped(ended.monitors[IdxOf(o)], W, open),
             monitor_set' = SetMonitor(ended, IdxOf(o), n)
      PROVE  InGoodOrder(monitor_set', ews_config')
  <2> DEFINE k == IdxOf(o)
             m == ended.monitors[k]
  <2>1. k \in DOMAIN monitor_set.monitors
    BY <1>6, IdxOfFacts
  <2>2. k \in DOMAIN ended.monitors
    BY <1>4, <2>1 DEF SameMonitors
  <2>3. n \in Dropped(m, W, open) /\ monitor_set' = [ended EXCEPT !.monitors[k] = n]
    BY <1>6 DEF SetMonitor
  <2> HIDE DEF k
  <2>4. Tidy(m)
    BY <1>4, <2>2 DEF InGoodOrder
  <2> HIDE DEF m
  <2>5. Tidy(n) /\ SameMonitor(m, n)
    BY <1>2, <2>3, <2>4, DroppedFacts
  <2> QED
    BY <1>5, <2>2, <2>3, <2>5 DEF m
<1>7. ASSUME monitors # <<>>,
             monitor_set' = [ended EXCEPT !.monitors[ended.active_monitor_idx] = AddWindows(@, 1, W, open)]
      PROVE  InGoodOrder(monitor_set', ews_config')
  <2> DEFINE k == ended.active_monitor_idx
             m == ended.monitors[k]
             n == AddWindows(m, 1, W, open)
  <2>1. monitor_set.active_monitor_idx \in DOMAIN monitor_set.monitors
    BY <1>7, ActiveFacts
  <2>2. k \in DOMAIN ended.monitors
    BY <1>4, <2>1 DEF SameMonitors
  <2>3. monitor_set' = [ended EXCEPT !.monitors[k] = n]
    BY <1>7
  <2> HIDE DEF k
  <2>4. Tidy(m)
    BY <1>4, <2>2 DEF InGoodOrder
  <2> HIDE DEF m
  <2>5. 1 \in 1 .. Len(m.workspaces)
    BY <2>4 DEF Tidy, Ends, MonitorType
  <2>6. Tidy(n) /\ SameMonitor(m, n)
    BY <1>2, <2>4, <2>5, ArrivalFacts
  <2> HIDE DEF n
  <2> QED
    BY <1>5, <2>2, <2>3, <2>6 DEF m
<1>8. ASSUME monitors = <<>>,
             monitor_set' = [ended EXCEPT !.workspaces = AddWithoutOutputs(@, 1, W)]
      PROVE  InGoodOrder(monitor_set', ews_config')
  <2> DEFINE s == ended.workspaces
             wss == AddWithoutOutputs(s, 1, W)
  <2>1. s \in Seq(Workspaces) /\ InUse(s)
    BY <1>4 DEF InGoodOrder, MonitorSets
  <2>2. ended.monitors = <<>>
    <3>1. ended.monitors \in Seq(MonitorType) /\ Len(ended.monitors) = 0
      BY <1>4, <1>8 DEF InGoodOrder, MonitorSets, SameMonitors, monitors
    <3> QED
      BY <3>1
  <2>3. monitor_set' = [ended EXCEPT !.workspaces = wss]
    BY <1>8
  <2> HIDE DEF s
  <2>4. wss \in Seq(Workspaces) /\ InUse(wss)
    BY <1>2, <2>1, AddWithoutOutputsFacts
  <2> HIDE DEF wss
  <2>5. InGoodOrder([ended EXCEPT !.workspaces = wss], ews_config)
    BY <1>4, <2>2, <2>4, NoOutputsFacts
  <2> QED
    BY <1>1, <2>3, <2>5
<1> QED
  BY <1>1, <1>3, <1>4, <1>6, <1>7, <1>8

---------------------------------------------------------------------------
(* The invariant. *)

LEMMA LayoutInvInit == Init => LayoutInv
<1> SUFFICES ASSUME Init PROVE LayoutInv
  OBVIOUS
<1> DEFINE set == [monitors |-> <<>>, primary_idx |-> 1, active_monitor_idx |-> 1, workspaces |-> <<>>]
<1>1. monitor_set = set /\ scenario \in Scenarios /\ overview_open = FALSE /\ interactive_move = NoMove
  BY DEF Init
<1>2. ews_config \in [Outputs -> BOOLEAN]
  BY DEF Init
<1>3. set \in MonitorSets
  BY DEF MonitorSets
<1>4. InGoodOrder(set, ews_config)
  BY <1>3 DEF InGoodOrder, InUse
<1>5. interactive_move \in MoveType /\ interactive_move.state = "None"
  BY <1>1 DEF MoveType, NoMove
<1> QED
  BY <1>1, <1>2, <1>4, <1>5 DEF LayoutInv

LEMMA MoveFacts ==
  ASSUME LayoutInv, MoveStep
  PROVE  /\ interactive_move' \in MoveType
         /\ interactive_move'.state # "None" => interactive_move'.window # {}
<1>1. /\ interactive_move \in MoveType
      /\ interactive_move.state # "None" => interactive_move.window # {}
  BY DEF LayoutInv
<1>2. CASE UNCHANGED interactive_move
  BY <1>1, <1>2
<1>3. CASE interactive_move' = NoMove
  BY <1>3 DEF MoveType, NoMove
<1>4. ASSUME NEW w \in Windows,
             interactive_move' = [state |-> "Starting", window |-> {w}, output |-> NoOutput]
      PROVE  interactive_move' \in MoveType /\ interactive_move'.window # {}
  BY <1>4 DEF MoveType
<1>5. ASSUME NEW o \in Outputs, interactive_move.state # "None",
             \/ interactive_move' = [interactive_move EXCEPT !.state = "Moving", !.output = o]
             \/ interactive_move' = [interactive_move EXCEPT !.output = o]
      PROVE  interactive_move' \in MoveType /\ interactive_move'.window # {}
  BY <1>1, <1>5 DEF MoveType
<1> QED
  BY <1>2, <1>3, <1>4, <1>5 DEF MoveStep

LEMMA LayoutInvStep ==
  ASSUME LayoutInv, ~Has("names_elsewhere"), Next
  PROVE  LayoutInv'
<1> DEFINE Order == InGoodOrder(monitor_set', ews_config')
           Others == UNCHANGED <<ews_config, overview_open, interactive_move>>
           Moves == UNCHANGED <<ews_config, overview_open>> /\ MoveStep
<1>1. /\ InGoodOrder(monitor_set, ews_config) /\ ews_config \in [Outputs -> BOOLEAN]
      /\ overview_open \in BOOLEAN
  BY DEF LayoutInv
<1>2. /\ scenario.outputs \subseteq Outputs /\ scenario.windows \subseteq Windows
      /\ scenario' = scenario /\ scenario \in Scenarios
  BY ScenarioFacts DEF LayoutInv, Next
<1>3. Order /\ Moves => KeepsOrder
  BY <1>1 DEF KeepsOrder
<1>4. Order /\ Others => KeepsOrder
  BY <1>1 DEF KeepsOrder, MoveStep
<1> HIDE DEF Order
<1>5. ASSUME WindowNext PROVE KeepsOrder
  <2>1. \A w : (AddWindow(w) => Others) /\ (CloseWindow(w) => Moves) /\ (ActivateWindow(w) => Others)
               /\ \A q, b : MoveWindow(w, q, b) => Others
    BY DEF AddWindow, CloseWindow, ActivateWindow, MoveWindow, MonitorsOnly, MoveStep
  <2>2. \A w \in Windows : /\ AddWindow(w) \/ CloseWindow(w) \/ ActivateWindow(w) => Order
                           /\ \A q \in Places, b \in BOOLEAN : MoveWindow(w, q, b) => Order
    BY AddWindowStep, CloseWindowStep, ActivateWindowStep, MoveWindowStep DEF Order
  <2> HIDE DEF Others, Moves
  <2> QED
    BY <1>2, <1>3, <1>4, <1>5, <2>1, <2>2 DEF WindowNext
<1>6. ASSUME SwitchNext PROVE KeepsOrder
  <2>1. \A i : (SwitchWorkspace(i) => Others) /\ (AnimationDone(i) => Others)
    BY DEF SwitchWorkspace, AnimationDone, MonitorsOnly
  <2> HIDE DEF Others
  <2> QED
    BY <1>4, <1>6, <2>1, SwitchWorkspaceStep, AnimationDoneStep DEF SwitchNext, Order
<1>7. ASSUME OutputNext PROVE KeepsOrder
  <2>1. \A o : (AddOutput(o) => Others) /\ (FocusOutput(o) => Others) /\ (RemoveOutput(o) => Others)
    BY DEF AddOutput, FocusOutput, RemoveOutput, MonitorsOnly
  <2>2. \A o \in Outputs : UpdateOptions(o) => KeepsOrder
    <3>1. \A o : UpdateOptions(o) => UNCHANGED <<overview_open, interactive_move>>
      BY DEF UpdateOptions
    <3> QED
      BY <1>1, <3>1, UpdateOptionsStep DEF KeepsOrder, MoveStep
  <2> HIDE DEF Others
  <2> QED
    BY <1>2, <1>4, <1>7, <2>1, <2>2, AddOutputStep, FocusOutputStep, RemoveOutputStep
       DEF OutputNext, Order
<1>8. ASSUME WorkspaceNext PROVE KeepsOrder
  <2>1. /\ MoveWorkspaceWithin => Others
        /\ \A p, o : MoveWorkspaceToOutput(p, o) => Others
        /\ \A C, q, b : MoveColumn(C, q, b) => Others
    BY DEF MoveWorkspaceWithin, MoveWorkspaceToOutput, MoveColumn, MonitorsOnly
  <2> HIDE DEF Others
  <2> QED
    BY <1>4, <1>8, <2>1, MoveWorkspaceWithinStep, MoveWorkspaceToOutputStep, MoveColumnStep
       DEF WorkspaceNext, Order
<1>9. ASSUME NameNext PROVE KeepsOrder
  <2>1. /\ (RemoveWorkspace => Others) /\ (UnnameAt => Others)
        /\ \A n : (AddNamedWorkspace(n) => Others) /\ (SetWorkspaceName(n) => Others)
        /\ \A n, o : EnsureNamedWorkspace(n, o) => Others
    BY DEF RemoveWorkspace, UnnameAt, AddNamedWorkspace, SetWorkspaceName, EnsureNamedWorkspace,
       MonitorsOnly
  <2> HIDE DEF Others
  <2> QED
    BY <1>4, <1>9, <2>1, RemoveWorkspaceStep, UnnameAtStep, AddNamedWorkspaceStep,
       SetWorkspaceNameStep, EnsureNamedWorkspaceStep DEF NameNext, Order
<1>10. ASSUME GestureNext PROVE KeepsOrder
  <2>1. \A o : (GestureBegin(o) => Others) /\ (GestureFinish(o) => Others)
    BY DEF GestureBegin, GestureFinish, MonitorsOnly
  <2> HIDE DEF Others
  <2> QED
    BY <1>4, <1>10, <2>1, GestureBeginStep, GestureFinishStep DEF GestureNext, Order
<1>11. ASSUME MoveNext PROVE KeepsOrder
  <2>1. /\ (DndUpdate => Others) /\ (DndEnd => Others) /\ (Refresh => Others)
        /\ InteractiveMoveEnd => Moves
        /\ \A w \in Windows : InteractiveMoveBegin(w) => Moves
    BY DEF DndUpdate, DndEnd, Refresh, InteractiveMoveEnd, InteractiveMoveBegin, MonitorsOnly, MoveStep
  <2>3. \A o \in Outputs : InteractiveMoveStart(o) \/ InteractiveMoveUpdate(o) => Moves
    BY DEF InteractiveMoveStart, InteractiveMoveUpdate, MoveStep
  <2>2. ToggleOverview => KeepsOrder
    BY <1>1 DEF ToggleOverview, KeepsOrder, MoveStep
  <2> HIDE DEF Others, Moves
  <2> QED
    BY <1>2, <1>3, <1>4, <1>11, <2>1, <2>2, <2>3, DndUpdateStep, DndEndStep, RefreshStep,
       InteractiveMoveEndStep, InteractiveMoveBeginStep, InteractiveMoveStartStep,
       InteractiveMoveUpdateStep DEF MoveNext, Order
<1>12. KeepsOrder
  BY <1>5, <1>6, <1>7, <1>8, <1>9, <1>10, <1>11 DEF Next, Step
<1>13. /\ interactive_move' \in MoveType
       /\ interactive_move'.state # "None" => interactive_move'.window # {}
  BY <1>12, MoveFacts DEF KeepsOrder
<1>14. InGoodOrder(monitor_set, ews_config)'
  BY <1>12 DEF KeepsOrder
<1> QED
  BY <1>2, <1>12, <1>13, <1>14 DEF LayoutInv, KeepsOrder

LEMMA LayoutInvTidy == LayoutInv => WorkspacesTidy
<1> SUFFICES ASSUME LayoutInv PROVE WorkspacesTidy
  OBVIOUS
<1>1. InUse(monitor_set.workspaces) /\ \A k \in MonitorIdx : Tidy(monitors[k])
  BY DEF LayoutInv, InGoodOrder, MonitorIdx, monitors
<1>2. ASSUME NEW k \in MonitorIdx
      PROVE  LET m == monitors[k]
                 n == Len(m.workspaces)
             IN /\ m.active \in 1 .. n
                /\ ~HasWindowsOrName(m.workspaces[n])
                /\ m.ews => ~HasWindowsOrName(m.workspaces[1]) /\ n # 2
                /\ m.switch = NoSwitch =>
                     \A i \in (IF m.ews THEN 2 ELSE 1) .. (n - 1) :
                       i # m.active => HasWindowsOrName(m.workspaces[i])
  BY <1>1 DEF Tidy, Ends, Vacant, NoStray, Inner
<1>3. EmptyEnds
  BY <1>2 DEF EmptyEnds
<1>4. NoStrayWorkspaces
  BY <1>1, <1>2 DEF NoStrayWorkspaces, InUse
<1> QED
  BY <1>3, <1>4 DEF WorkspacesTidy

\* LayoutInv in every scenario that does not name the first or last workspace of a monitor in
\* the background.
LEMMA LayoutInvHolds == Spec => [](~Has("names_elsewhere") => LayoutInv)
<1> DEFINE Inv == ~Has("names_elsewhere") => LayoutInv
<1>1. Init => Inv
  BY LayoutInvInit
<1>2. Inv /\ [Next]_vars => Inv'
  <2> SUFFICES ASSUME Inv, [Next]_vars, ("names_elsewhere" \notin scenario.features)' PROVE LayoutInv'
    BY DEF Has
  <2>1. scenario' = scenario
    BY DEF Next, vars
  <2>2. ~Has("names_elsewhere") /\ LayoutInv
    BY <2>1 DEF Has
  <2>3. CASE Next
    BY <2>2, <2>3, LayoutInvStep
  <2>4. CASE UNCHANGED vars
    BY <2>2, <2>4 DEF vars, LayoutInv
  <2> QED
    BY <2>3, <2>4
<1> QED
  BY <1>1, <1>2, PTL DEF Spec

\* Every monitor keeps the empty workspaces it should have and no other ones, through
\* hotplug, moves, gestures, config reloads and interactive moves, in any scenario that does
\* not name the first or last workspace of a monitor in the background
\* (Monitor::verify_invariants).
THEOREM WorkspacesStayTidy == Spec => [](~Has("names_elsewhere") => WorkspacesTidy)
BY LayoutInvHolds, LayoutInvTidy, PTL

\* In the same scenarios the primary and the active monitor exist while there are monitors,
\* every monitor runs with the configuration of its output, and a workspace-switch animation
\* ends on the active workspace whatever comes and goes around it (MonitorSet, Monitor).
THEOREM MonitorsStayConfigured ==
  Spec => [](~Has("names_elsewhere") => MonitorsConfigured /\ SwitchTargetsActive)
<1>1. LayoutInv => MonitorsConfigured
  BY DEF LayoutInv, InGoodOrder, MonitorsConfigured, MonitorIdx, monitors
<1>2. LayoutInv => SwitchTargetsActive
  BY DEF LayoutInv, InGoodOrder, Tidy, Aimed, SwitchTargetsActive, MonitorIdx, monitors
<1> QED
  BY <1>1, <1>2, LayoutInvHolds, PTL

---------------------------------------------------------------------------
(* What is on a workspace, its windows and its name, and where it goes.      *)

\* Things are windows and names, and there are none where nobody would miss the workspace.
LEMMA ThingsFacts ==
  ASSUME NEW ws
  PROVE  /\ \A w : WindowThing(w) \in Things(ws) <=> w \in ws.windows
         /\ \A n : NameThing(n) \in Things(ws) <=> n = ws.name /\ n # NoName
         /\ \A x \in Things(ws) : (\E w : x = WindowThing(w)) \/ (\E n : x = NameThing(n))
         /\ Things(ws) = {} <=> ~HasWindowsOrName(ws)
<1>1. \A w : WindowThing(w) \in Things(ws) <=> w \in ws.windows
  BY DEF Things, WindowThing, NameThing
<1>2. \A n : NameThing(n) \in Things(ws) <=> n = ws.name /\ n # NoName
  BY DEF Things, WindowThing, NameThing
<1>3. \A x \in Things(ws) : \/ \E w : x = WindowThing(w) /\ w \in ws.windows
                            \/ \E n : x = NameThing(n) /\ n = ws.name /\ n # NoName
  BY DEF Things
<1>4. Things(ws) = {} <=> ~HasWindowsOrName(ws)
  <2>1. ASSUME Things(ws) = {} PROVE ~HasWindowsOrName(ws)
    BY <1>1, <1>2, <2>1 DEF HasWindowsOrName
  <2>2. ASSUME ~HasWindowsOrName(ws) PROVE Things(ws) = {}
    BY <1>3, <2>2 DEF HasWindowsOrName
  <2> QED
    BY <2>1, <2>2
<1> QED
  BY <1>1, <1>2, <1>3, <1>4

\* What membership in the things and the origins of a list means.
LEMMA InFacts ==
  ASSUME NEW s
  PROVE  /\ \A x : x \in ThingsIn(s) <=> \E i \in DOMAIN s : x \in Things(s[i])
         /\ \A o : o \in Origins(s) <=> \E i \in DOMAIN s : o = s[i].original_output
         /\ \A i \in DOMAIN s : Things(s[i]) \subseteq ThingsIn(s) /\ s[i].original_output \in Origins(s)
BY DEF ThingsIn, Origins

\* Workspaces that come from others one by one, f says from which; those that come from none (0)
\* hold nothing, and nothing is on those that are left out.
LEMMA MappedFacts ==
  ASSUME NEW s \in Seq(Workspaces), NEW t \in Seq(Workspaces), NEW O,
         NEW f \in [1 .. Len(t) -> 0 .. Len(s)],
         \A x \in 1 .. Len(t) :
           IF f[x] = 0 THEN Things(t[x]) = {} /\ t[x].original_output \in O
                       ELSE /\ Things(t[x]) = Things(s[f[x]])
                            /\ t[x].original_output \in {s[f[x]].original_output} \cup O,
         \A x, y \in 1 .. Len(t) : f[x] = f[y] /\ f[x] # 0 => x = y,
         \A y \in 1 .. Len(s) : Things(s[y]) # {} => \E x \in 1 .. Len(t) : f[x] = y
  PROVE  Same(s, t, O)
<1>1. DOMAIN s = 1 .. Len(s) /\ DOMAIN t = 1 .. Len(t)
  OBVIOUS
<1>2. \A x \in 1 .. Len(t) : f[x] # 0 => f[x] \in 1 .. Len(s)
  OBVIOUS
<1>3. ThingsIn(t) = ThingsIn(s)
  <2>1. ASSUME NEW x \in 1 .. Len(t), NEW e \in Things(t[x])
        PROVE  \E y \in 1 .. Len(s) : e \in Things(s[y])
    <3>1. f[x] # 0
      BY <2>1
    <3>2. f[x] \in 1 .. Len(s) /\ Things(t[x]) = Things(s[f[x]])
      BY <1>2, <3>1
    <3> QED
      BY <2>1, <3>2
  <2>2. ASSUME NEW y \in 1 .. Len(s), NEW e \in Things(s[y])
        PROVE  \E x \in 1 .. Len(t) : e \in Things(t[x])
    <3>1. PICK x \in 1 .. Len(t) : f[x] = y
      BY <2>2
    <3>2. y # 0
      OBVIOUS
    <3> QED
      BY <2>2, <3>1, <3>2
  <2>3. \A e : e \in ThingsIn(t) <=> e \in ThingsIn(s)
    BY <1>1, <2>1, <2>2, InFacts
  <2> QED
    BY <2>3
<1>4. Origins(t) \subseteq Origins(s) \cup O
  <2> SUFFICES ASSUME NEW x \in 1 .. Len(t) PROVE t[x].original_output \in Origins(s) \cup O
    BY <1>1, InFacts
  <2>1. CASE f[x] = 0
    BY <2>1
  <2>2. CASE f[x] # 0
    BY <1>1, <1>2, <2>2, InFacts
  <2> QED
    BY <2>1, <2>2
<1>5. ASSUME Apart(s) PROVE Apart(t)
  <2> SUFFICES ASSUME NEW x \in 1 .. Len(t), NEW y \in 1 .. Len(t), x # y
               PROVE  Things(t[x]) \cap Things(t[y]) = {}
    BY <1>1 DEF Apart
  <2>1. CASE f[x] = 0 \/ f[y] = 0
    BY <2>1
  <2>2. CASE f[x] # 0 /\ f[y] # 0
    <3>1. f[x] \in 1 .. Len(s) /\ f[y] \in 1 .. Len(s) /\ f[x] # f[y]
      BY <1>2, <2>2
    <3> QED
      BY <1>1, <1>5, <2>2, <3>1 DEF Apart
  <2> QED
    BY <2>1, <2>2
<1> QED
  BY <1>3, <1>4, <1>5 DEF Same

\* Same is reflexive and transitive.
LEMMA SameFacts ==
  ASSUME NEW s, NEW O
  PROVE  /\ Same(s, s, O)
         /\ \A t, u : Same(s, t, O) /\ Same(t, u, O) => Same(s, u, O)
BY DEF Same

\* A trade before or after which nothing else changes.
LEMMA TradeFacts ==
  ASSUME NEW s, NEW t, NEW u, NEW A, NEW B, NEW O
  PROVE  /\ Same(s, t, O) /\ Trade(t, u, A, B, O) => Trade(s, u, A, B, O)
         /\ Trade(s, t, A, B, O) /\ Same(t, u, O) => Trade(s, u, A, B, O)
BY DEF Same, Trade

\* One workspace is replaced.
LEMMA PutThings ==
  ASSUME NEW s \in Seq(Workspaces), NEW t \in Seq(Workspaces), NEW i \in 1 .. Len(s), NEW ws,
         Len(t) = Len(s), \A k \in 1 .. Len(s) : t[k] = IF k = i THEN ws ELSE s[k],
         Apart(s), Things(ws) \cap (ThingsIn(s) \ Things(s[i])) = {}
  PROVE  Trade(s, t, Things(s[i]), Things(ws), {ws.original_output})
<1>1. DOMAIN s = 1 .. Len(s) /\ DOMAIN t = 1 .. Len(s)
  OBVIOUS
<1>2. t[i] = ws /\ \A k \in 1 .. Len(s) : k # i => t[k] = s[k]
  OBVIOUS
<1>3. \A k \in 1 .. Len(s) : k # i => Things(s[k]) \cap Things(s[i]) = {}
  BY <1>1 DEF Apart
<1>4. \A k \in 1 .. Len(s) : k # i => Things(s[k]) \cap Things(ws) = {}
  BY <1>1, <1>3, InFacts
<1>5. ThingsIn(t) = (ThingsIn(s) \ Things(s[i])) \cup Things(ws)
  <2>1. \A e : e \in ThingsIn(t) <=> e \in Things(ws) \/ \E k \in 1 .. Len(s) : k # i /\ e \in Things(s[k])
    BY <1>1, <1>2, InFacts
  <2>2. \A e : e \in ThingsIn(s) \ Things(s[i]) <=> \E k \in 1 .. Len(s) : k # i /\ e \in Things(s[k])
    BY <1>1, <1>3, InFacts
  <2> QED
    BY <2>1, <2>2
<1>6. Origins(t) \subseteq Origins(s) \cup {ws.original_output}
  <2>1. \A k \in 1 .. Len(s) : t[k].original_output \in Origins(s) \cup {ws.original_output}
    BY <1>1, <1>2, InFacts
  <2> QED
    BY <1>1, <2>1, InFacts
<1>7. Apart(t)
  BY <1>1, <1>2, <1>4 DEF Apart
<1> QED
  BY <1>5, <1>6, <1>7 DEF Trade

\* A list with one workspace more holds what that workspace holds too.
LEMMA GrownFacts ==
  ASSUME NEW s \in Seq(Workspaces), NEW i \in 1 .. Len(s) + 1, NEW ws, NEW t,
         Inserted(Workspaces, s, i, ws, t)
  PROVE  Grown(s, ws, t)
<1> DEFINE L == Len(s)
<1>1. t[i] = ws
  BY ShiftedFacts
<1>2. PICK g : Shifted(s, i, t, g)
  BY ShiftedFacts
<1>3. /\ DOMAIN s = 1 .. L /\ DOMAIN t = 1 .. L + 1 /\ i \in 1 .. L + 1
      /\ \A x \in 1 .. L : g[x] \in 1 .. L + 1 /\ g[x] # i /\ t[g[x]] = s[x]
      /\ \A x, y \in 1 .. L : g[x] = g[y] => x = y
      /\ \A y \in 1 .. L + 1 : y # i => \E x \in 1 .. L : g[x] = y
  BY <1>2 DEF Shifted
<1> HIDE DEF L
<1>4. \A y \in 1 .. L + 1 : t[y] = ws \/ \E x \in 1 .. L : t[y] = s[x]
  BY <1>1, <1>3
<1>5. \A x \in 1 .. L : \E y \in 1 .. L + 1 : t[y] = s[x]
  BY <1>3
<1>6. DOMAIN s = 1 .. L /\ DOMAIN t = 1 .. L + 1 /\ i \in 1 .. L + 1
  BY <1>3
<1>7. /\ \A e : e \in ThingsIn(s) <=> \E x \in 1 .. L : e \in Things(s[x])
      /\ \A e : e \in ThingsIn(t) <=> \E y \in 1 .. L + 1 : e \in Things(t[y])
      /\ \A o : o \in Origins(s) <=> \E x \in 1 .. L : o = s[x].original_output
      /\ \A o : o \in Origins(t) <=> \E y \in 1 .. L + 1 : o = t[y].original_output
  BY <1>6 DEF ThingsIn, Origins
<1>10. ThingsIn(t) = ThingsIn(s) \cup Things(ws)
  <2>1. \A e : e \in ThingsIn(t) => e \in ThingsIn(s) \/ e \in Things(ws)
    BY <1>4, <1>7
  <2>2. \A e : e \in ThingsIn(s) \/ e \in Things(ws) => e \in ThingsIn(t)
    BY <1>1, <1>5, <1>6, <1>7
  <2> QED
    BY <2>1, <2>2
<1>11. Origins(t) = Origins(s) \cup {ws.original_output}
  <2>1. \A o : o \in Origins(t) => o \in Origins(s) \/ o = ws.original_output
    BY <1>4, <1>7
  <2>2. \A o : o \in Origins(s) \/ o = ws.original_output => o \in Origins(t)
    BY <1>1, <1>5, <1>6, <1>7
  <2> QED
    BY <2>1, <2>2
<1>8. ASSUME Apart(t) PROVE Apart(s) /\ Things(ws) \cap ThingsIn(s) = {}
  <2>1. Apart(s)
    BY <1>3, <1>8 DEF Apart
  <2>2. \A x \in 1 .. L : Things(ws) \cap Things(s[x]) = {}
    <3> TAKE x \in 1 .. L
    <3>1. g[x] \in 1 .. L + 1 /\ g[x] # i /\ t[g[x]] = s[x] /\ i \in 1 .. L + 1
      BY <1>3
    <3> QED
      BY <1>1, <1>3, <1>8, <3>1 DEF Apart
  <2> QED
    BY <1>3, <2>1, <2>2, InFacts
<1>9. ASSUME Apart(s), Things(ws) \cap ThingsIn(s) = {} PROVE Apart(t)
  <2>1. \A x \in 1 .. L : Things(ws) \cap Things(s[x]) = {}
    BY <1>3, <1>9, InFacts
  <2> SUFFICES ASSUME NEW y \in 1 .. L + 1, NEW z \in 1 .. L + 1, y # z
               PROVE  Things(t[y]) \cap Things(t[z]) = {}
    BY <1>3 DEF Apart
  <2>2. CASE y = i
    <3>1. PICK x \in 1 .. L : g[x] = z
      BY <1>3, <2>2
    <3> QED
      BY <1>1, <1>3, <2>1, <2>2, <3>1
  <2>3. CASE z = i
    <3>1. PICK x \in 1 .. L : g[x] = y
      BY <1>3, <2>3
    <3> QED
      BY <1>1, <1>3, <2>1, <2>3, <3>1
  <2>4. CASE y # i /\ z # i
    <3>1. PICK x1 \in 1 .. L : g[x1] = y
      BY <1>3, <2>4
    <3>2. PICK x2 \in 1 .. L : g[x2] = z
      BY <1>3, <2>4
    <3>3. t[y] = s[x1] /\ t[z] = s[x2] /\ x1 # x2
      BY <1>3, <3>1, <3>2
    <3>4. Things(s[x1]) \cap Things(s[x2]) = {}
      BY <1>6, <1>9, <3>3 DEF Apart
    <3> QED
      BY <3>3, <3>4
  <2> QED
    BY <2>2, <2>3, <2>4
<1> QED
  BY <1>8, <1>9, <1>10, <1>11 DEF Grown

\* A workspace inserted brings its things in.
LEMMA InsertThings ==
  ASSUME NEW s \in Seq(Workspaces), NEW i \in 1 .. Len(s) + 1, NEW ws \in Workspaces,
         Apart(s), Things(ws) \cap ThingsIn(s) = {}
  PROVE  Trade(s, InsertAt(s, i, ws), {}, Things(ws), {ws.original_output})
<1>1. Grown(s, ws, InsertAt(s, i, ws))
  BY InsertAtFacts, GrownFacts
<1> QED
  BY <1>1 DEF Grown, Trade

\* An empty workspace without a name is inserted.
LEMMA InsertBlank ==
  ASSUME NEW s \in Seq(Workspaces), NEW i \in 1 .. Len(s) + 1, NEW ws, NEW t,
         Inserted(Workspaces, s, i, ws, t), Things(ws) = {}
  PROVE  Same(s, t, {ws.original_output})
<1>1. Grown(s, ws, t)
  BY GrownFacts
<1> QED
  BY <1>1 DEF Grown, Same

\* A list that loses a workspace.
LEMMA RemovedGrown ==
  ASSUME NEW s \in Seq(Workspaces), NEW i \in 1 .. Len(s), NEW t, Deleted(Workspaces, s, i, t)
  PROVE  Grown(t, s[i], s)
<1>1. /\ t \in Seq(Workspaces) /\ Len(t) = Len(s) - 1 /\ Len(s) \in Nat
      /\ \A j \in 1 .. Len(s) - 1 : t[j] = IF j < i THEN s[j] ELSE s[j + 1]
  BY DEF Deleted
<1>2. Inserted(Workspaces, t, i, s[i], s)
  <2> SUFFICES ASSUME NEW j \in 1 .. Len(s)
               PROVE  s[j] = IF j < i THEN t[j] ELSE IF j = i THEN s[i] ELSE t[j - 1]
    BY <1>1 DEF Inserted
  <2>1. CASE j < i
    BY <1>1, <2>1
  <2>2. CASE i < j
    <3>1. j - 1 \in 1 .. Len(s) - 1 /\ ~(j - 1 < i) /\ (j - 1) + 1 = j
      BY <1>1, <2>2
    <3>2. t[j - 1] = s[j]
      BY <1>1, <3>1
    <3> QED
      BY <2>2, <3>2
  <2> QED
    BY <2>1, <2>2
<1>3. i \in 1 .. Len(t) + 1
  BY <1>1
<1> QED
  BY <1>1, <1>2, <1>3, GrownFacts

\* A workspace removed takes its things with it.
LEMMA RemoveThings ==
  ASSUME NEW s \in Seq(Workspaces), NEW i \in 1 .. Len(s), Apart(s), NEW O
  PROVE  Trade(s, RemoveAt(s, i), Things(s[i]), {}, O)
<1>1. Grown(RemoveAt(s, i), s[i], s)
  BY RemoveAtFacts, RemovedGrown
<1> QED
  BY <1>1 DEF Grown, Trade

\* What Kept leaves holds what is at the positions that are kept.
LEMMA KeptThings ==
  ASSUME NEW s \in Seq(Workspaces), NEW K \in SUBSET DOMAIN s
  PROVE  LET t == Kept(s, K)
         IN /\ t \in Seq(Workspaces) /\ ThingsIn(t) = ThingsAt(s, K)
            /\ \A o : o \in Origins(t) <=> \E i \in K : o = s[i].original_output
            /\ Apart(s) => Apart(t)
<1> DEFINE t == Kept(s, K)
<1>1. PICK at : Keeps(Workspaces, s, K, t, at)
  BY KeptFacts
<1> HIDE DEF t
<1>2. /\ t \in Seq(Workspaces) /\ DOMAIN t = 1 .. Len(t) /\ Len(t) \in Nat
      /\ \A n \in 1 .. Len(t) : at[n] \in K /\ t[n] = s[at[n]]
      /\ \A m, n \in 1 .. Len(t) : m < n => at[m] < at[n]
      /\ \A i \in K : \E n \in 1 .. Len(t) : at[n] = i
  BY <1>1 DEF Keeps
<1>3. \A m, n \in 1 .. Len(t) : m # n => at[m] # at[n]
  <2> SUFFICES ASSUME NEW m \in 1 .. Len(t), NEW n \in 1 .. Len(t), m # n PROVE at[m] # at[n]
    OBVIOUS
  <2>1. m < n \/ n < m
    BY <1>2
  <2>2. at[m] \in Nat /\ at[n] \in Nat
    BY <1>2
  <2> QED
    BY <1>2, <2>1, <2>2
<1>4. ThingsIn(t) = ThingsAt(s, K)
  <2>1. \A e : e \in ThingsIn(t) => e \in ThingsAt(s, K)
    BY <1>2, InFacts DEF ThingsAt
  <2>2. \A e : e \in ThingsAt(s, K) => e \in ThingsIn(t)
    BY <1>2, InFacts DEF ThingsAt
  <2> QED
    BY <2>1, <2>2
<1>5. \A o : o \in Origins(t) <=> \E i \in K : o = s[i].original_output
  BY <1>2, InFacts
<1>6. Apart(s) => Apart(t)
  BY <1>2, <1>3 DEF Apart
<1> QED
  BY <1>2, <1>4, <1>5, <1>6 DEF t

\* Two lists, one behind the other.
LEMMA JoinThings ==
  ASSUME NEW s \in Seq(Workspaces), NEW t \in Seq(Workspaces)
  PROVE  /\ ThingsIn(s \o t) = ThingsIn(s) \cup ThingsIn(t)
         /\ Origins(s \o t) = Origins(s) \cup Origins(t)
         /\ Apart(s \o t) <=> Apart(s) /\ Apart(t) /\ ThingsIn(s) \cap ThingsIn(t) = {}
<1> DEFINE u == s \o t
           L == Len(s)
           N == Len(t)
<1>1. Joined(Workspaces, s, t, u)
  BY JoinedFacts
<1>2. /\ DOMAIN s = 1 .. L /\ DOMAIN t = 1 .. N /\ DOMAIN u = 1 .. L + N /\ L \in Nat /\ N \in Nat
      /\ \A j \in 1 .. L + N : u[j] = IF j <= L THEN s[j] ELSE t[j - L]
  BY <1>1 DEF Joined
<1> HIDE DEF L, N, u
<1>3. \A j \in 1 .. L : j \in 1 .. L + N /\ u[j] = s[j]
  BY <1>2
<1>4. \A j \in 1 .. N : L + j \in 1 .. L + N /\ u[L + j] = t[j]
  <2> TAKE j \in 1 .. N
  <2>1. L + j \in 1 .. L + N /\ ~(L + j <= L) /\ (L + j) - L = j
    BY <1>2
  <2> QED
    BY <1>2, <2>1
<1>5. \A y \in 1 .. L + N : y \in 1 .. L \/ \E j \in 1 .. N : y = L + j
  <2> TAKE y \in 1 .. L + N
  <2>1. y <= L \/ (y - L \in 1 .. N /\ y = L + (y - L))
    BY <1>2
  <2> QED
    BY <1>2, <2>1
<1>6. ThingsIn(u) = ThingsIn(s) \cup ThingsIn(t)
  <2>1. \A e : e \in ThingsIn(u) => e \in ThingsIn(s) \/ e \in ThingsIn(t)
    BY <1>2, <1>3, <1>4, <1>5, InFacts
  <2>2. \A e : e \in ThingsIn(s) \/ e \in ThingsIn(t) => e \in ThingsIn(u)
    BY <1>2, <1>3, <1>4, InFacts
  <2> QED
    BY <2>1, <2>2
<1>7. Origins(u) = Origins(s) \cup Origins(t)
  <2>1. \A e : e \in Origins(u) <=> \E j \in 1 .. L + N : e = u[j].original_output
    BY <1>2, InFacts
  <2>2. \A e : e \in Origins(s) <=> \E j \in 1 .. L : e = s[j].original_output
    BY <1>2, InFacts
  <2>3. \A e : e \in Origins(t) <=> \E j \in 1 .. N : e = t[j].original_output
    BY <1>2, InFacts
  <2>4. \A e \in Origins(u) : e \in Origins(s) \/ e \in Origins(t)
    <3> TAKE e \in Origins(u)
    <3>1. PICK j \in 1 .. L + N : e = u[j].original_output
      BY <2>1
    <3> QED
      BY <1>3, <1>4, <1>5, <2>2, <2>3, <3>1
  <2>5. \A e : e \in Origins(s) \/ e \in Origins(t) => e \in Origins(u)
    BY <1>3, <1>4, <2>1, <2>2, <2>3
  <2> QED
    BY <2>4, <2>5
<1>8. ASSUME Apart(u) PROVE Apart(s) /\ Apart(t) /\ ThingsIn(s) \cap ThingsIn(t) = {}
  <2>1. Apart(s)
    BY <1>2, <1>3, <1>8 DEF Apart
  <2>2. Apart(t)
    <3> SUFFICES ASSUME NEW i \in 1 .. N, NEW j \in 1 .. N, i # j
                 PROVE  Things(t[i]) \cap Things(t[j]) = {}
      BY <1>2 DEF Apart
    <3>1. L + i # L + j
      BY <1>2
    <3> QED
      BY <1>2, <1>4, <1>8, <3>1 DEF Apart
  <2>3. \A i \in 1 .. L, j \in 1 .. N : Things(s[i]) \cap Things(t[j]) = {}
    <3> TAKE i \in 1 .. L, j \in 1 .. N
    <3>1. i # L + j
      BY <1>2
    <3> QED
      BY <1>2, <1>3, <1>4, <1>8, <3>1 DEF Apart
  <2> QED
    BY <1>2, <2>1, <2>2, <2>3, InFacts
<1>9. ASSUME Apart(s), Apart(t), ThingsIn(s) \cap ThingsIn(t) = {} PROVE Apart(u)
  <2>1. \A i \in 1 .. L, j \in 1 .. N : Things(s[i]) \cap Things(t[j]) = {}
    BY <1>2, <1>9, InFacts
  <2> SUFFICES ASSUME NEW x \in 1 .. L + N, NEW y \in 1 .. L + N, x # y
               PROVE  Things(u[x]) \cap Things(u[y]) = {}
    BY <1>2 DEF Apart
  <2>2. CASE x \in 1 .. L /\ y \in 1 .. L
    BY <1>2, <1>3, <1>9, <2>2 DEF Apart
  <2>3. CASE x \in 1 .. L /\ y \notin 1 .. L
    BY <1>3, <1>4, <1>5, <2>1, <2>3
  <2>4. CASE x \notin 1 .. L /\ y \in 1 .. L
    BY <1>3, <1>4, <1>5, <2>1, <2>4
  <2>5. CASE x \notin 1 .. L /\ y \notin 1 .. L
    <3>1. PICK i \in 1 .. N : x = L + i
      BY <1>5, <2>5
    <3>2. PICK j \in 1 .. N : y = L + j
      BY <1>5, <2>5
    <3>3. i # j
      BY <3>1, <3>2
    <3> QED
      BY <1>2, <1>4, <1>9, <3>1, <3>2, <3>3 DEF Apart
  <2> QED
    BY <2>2, <2>3, <2>4, <2>5
<1> QED
  BY <1>6, <1>7, <1>8, <1>9 DEF u

\* Positions at which nothing is may be dropped.
LEMMA KeptBlank ==
  ASSUME NEW s \in Seq(Workspaces), NEW K \in SUBSET DOMAIN s, NEW O,
         \A i \in DOMAIN s \ K : Things(s[i]) = {}
  PROVE  Same(s, Kept(s, K), O)
<1> DEFINE t == Kept(s, K)
<1>1. /\ t \in Seq(Workspaces) /\ ThingsIn(t) = ThingsAt(s, K)
      /\ \A o : o \in Origins(t) <=> \E i \in K : o = s[i].original_output
      /\ Apart(s) => Apart(t)
  BY KeptThings
<1> HIDE DEF t
<1>2. ThingsAt(s, K) = ThingsIn(s)
  <2>1. \A e : e \in ThingsIn(s) <=> \E i \in DOMAIN s : e \in Things(s[i])
    BY InFacts
  <2>2. \A e : e \in ThingsAt(s, K) <=> \E i \in K : e \in Things(s[i])
    BY DEF ThingsAt
  <2>3. \A e : e \in ThingsIn(s) <=> e \in ThingsAt(s, K)
    BY <2>1, <2>2
  <2> QED
    BY <2>3
<1>3. Origins(t) \subseteq Origins(s)
  BY <1>1, InFacts
<1> QED
  BY <1>1, <1>2, <1>3 DEF Same, t

---------------------------------------------------------------------------
(* What the operators of a monitor do to what is on it.                      *)

\* Preserves is reflexive and transitive.
LEMMA PreservesFacts ==
  ASSUME NEW m, NEW n, NEW p
  PROVE  /\ m \in MonitorType => Preserves(m, m)
         /\ Preserves(m, n) /\ Preserves(n, p) => Preserves(m, p)
BY DEF Preserves, Same

\* A trade before or after a change that preserves everything is a trade.
LEMMA TradesFacts ==
  ASSUME NEW m, NEW n, NEW p, NEW A, NEW B, NEW O
  PROVE  /\ Preserves(m, n) /\ Trades(n, p, A, B, O) => Trades(m, p, A, B, O)
         /\ Trades(m, n, A, B, O) /\ Preserves(n, p) => Trades(m, p, A, B, O)
BY DEF Preserves, Trades, Same, Trade

\* The types of the fields of a monitor.
LEMMA MonitorTypeFacts ==
  ASSUME NEW m \in MonitorType
  PROVE  /\ m.workspaces \in Seq(Workspaces) /\ m.output \in Outputs /\ m.active \in Nat
         /\ m.switch \in Switches /\ m.ews \in BOOLEAN
         /\ DOMAIN m.workspaces = 1 .. Len(m.workspaces) /\ Len(m.workspaces) \in Nat
         /\ \A i \in 1 .. Len(m.workspaces) : m.workspaces[i] \in Workspaces
BY DEF MonitorType

\* The workspaces stay what they are.
LEMMA EditPreserves ==
  ASSUME NEW m \in MonitorType, NEW n, NEW a, NEW w, Changed(m, n, m.workspaces, a, w),
         w.kind = "DndScroll" => Scrolls(m)
  PROVE  Preserves(m, n)
BY SameFacts DEF Preserves, Changed, SameMonitor, Scrolls

\* A new workspace without a name holds nothing.
LEMMA BlankFacts ==
  ASSUME NEW o \in Outputs \cup {NoOutput}
  PROVE  Things(NewWorkspace(NoName, o)) = {}
<1>1. ~HasWindowsOrName(NewWorkspace(NoName, o))
  BY DEF NewWorkspace, HasWindowsOrName
<1> QED
  BY <1>1, ThingsFacts

\* add_workspace_at adds no thing.
LEMMA AddWorkspaceAtPreserves ==
  ASSUME NEW m \in MonitorType, NEW i \in 1 .. Len(m.workspaces) + 1
  PROVE  Preserves(m, AddWorkspaceAt(m, i))
<1> DEFINE n == AddWorkspaceAt(m, i)
           ws == NewWorkspace(NoName, m.output)
<1>1. WorkspaceAdded(m, i, n)
  BY AddWorkspaceAtFacts
<1>2. m.workspaces \in Seq(Workspaces) /\ m.output \in Outputs
  BY MonitorTypeFacts
<1>3. Things(ws) = {} /\ ws.original_output = m.output
  BY <1>2, BlankFacts DEF NewWorkspace
<1> HIDE DEF n, ws
<1>4. Inserted(Workspaces, m.workspaces, i, ws, n.workspaces)
  BY <1>1, MonitorTypeFacts DEF WorkspaceAdded, Inserted, ws
<1>5. Same(m.workspaces, n.workspaces, {m.output})
  BY <1>2, <1>3, <1>4, InsertBlank
<1> QED
  BY <1>1, <1>5 DEF Preserves, WorkspaceAdded, SameMonitor, SameSwitch, Scrolls, n

\* add_workspace_top and add_workspace_bottom add no thing.
LEMMA EndsPreserve ==
  ASSUME NEW m \in MonitorType
  PROVE  Preserves(m, AddTop(m)) /\ Preserves(m, AddBottom(m))
<1>1. 1 \in 1 .. Len(m.workspaces) + 1 /\ Len(m.workspaces) + 1 \in 1 .. Len(m.workspaces) + 1
  BY MonitorTypeFacts
<1> QED
  BY <1>1, AddWorkspaceAtPreserves DEF AddTop, AddBottom

\* Nor do they where a workspace at the end gets something.
LEMMA KeepEmptyEndsPreserves ==
  ASSUME NEW m \in MonitorType, NEW i
  PROVE  Preserves(m, KeepEmptyEnds(m, i))
<1> DEFINE b == IF i = Len(m.workspaces) THEN AddBottom(m) ELSE m
<1>1. Preserves(m, b)
  BY EndsPreserve, PreservesFacts
<1>2. KeepEmptyEnds(m, i) = IF m.ews /\ i = 1 THEN AddTop(b) ELSE b
  BY DEF KeepEmptyEnds
<1> HIDE DEF b
<1>3. Preserves(b, AddTop(b)) /\ Preserves(b, b)
  BY <1>1, EndsPreserve, PreservesFacts DEF Preserves
<1> QED
  BY <1>1, <1>2, <1>3, PreservesFacts

\* activate_workspace moves nothing.
LEMMA ActivateWorkspacePreserves ==
  ASSUME NEW m \in MonitorType, NEW i \in Nat
  PROVE  Preserves(m, ActivateWorkspace(m, i))
<1> DEFINE w == IF m.switch.kind = "DndScroll" \/ m.active = i THEN m.switch ELSE Animation(i)
<1>1. w \in Switches /\ (w.kind = "DndScroll" => Scrolls(m))
  BY MonitorTypeFacts DEF Switches, Animation, Scrolls
<1>2. ActivateWorkspace(m, i) = [m EXCEPT !.active = i, !.switch = w]
  BY DEF ActivateWorkspace
<1> HIDE DEF w
<1>3. Changed(m, ActivateWorkspace(m, i), m.workspaces, i, w)
  <2>1. m.workspaces \in Seq(Workspaces)
    BY MonitorTypeFacts
  <2>2. Changed(m, [m EXCEPT !.active = i, !.switch = w], m.workspaces, i, w)
    BY <1>1, <2>1, EditFacts
  <2> QED
    BY <1>2, <2>2
<1> QED
  BY <1>1, <1>3, EditPreserves

\* Of two workspaces that are both empty and unnamed, one may go.
LEMMA MergePreserves ==
  ASSUME NEW m \in MonitorType
  PROVE  Preserves(m, MergeEmptyEnds(m))
<1>1. CASE m.ews /\ Len(m.workspaces) = 2 /\ \A i \in 1 .. 2 : ~HasWindowsOrName(m.workspaces[i])
  <2> DEFINE s == m.workspaces
             t == <<m.workspaces[1]>>
             n == [m EXCEPT !.workspaces = t, !.active = 1]
             f == [x \in 1 .. 1 |-> 1]
  <2>1. MergeEmptyEnds(m) = n
    BY <1>1 DEF MergeEmptyEnds
  <2>2. s \in Seq(Workspaces) /\ t \in Seq(Workspaces) /\ Len(s) = 2 /\ Len(t) = 1 /\ t[1] = s[1]
    BY <1>1, MonitorTypeFacts
  <2>3. Things(s[1]) = {} /\ Things(s[2]) = {}
    BY <1>1, ThingsFacts
  <2>4. Changed(m, n, t, 1, m.switch)
    BY <2>2, EditFacts, MonitorTypeFacts
  <2> HIDE DEF s, t, n
  <2>5. Same(s, t, {m.output})
    <3>1. f \in [1 .. Len(t) -> 0 .. Len(s)]
      BY <2>2
    <3>2. \A x \in 1 .. Len(t) : f[x] = 1 /\ x = 1
      BY <2>2
    <3>3. \A y \in 1 .. Len(s) : Things(s[y]) = {}
      <4>1. \A y \in 1 .. Len(s) : y = 1 \/ y = 2
        BY <2>2
      <4> QED
        BY <2>3, <4>1
    <3> HIDE DEF f
    <3> QED
      BY <2>2, <3>1, <3>2, <3>3, MappedFacts
  <2> QED
    BY <2>1, <2>4, <2>5 DEF Preserves, Changed, SameMonitor, Scrolls, s
<1>2. CASE ~(m.ews /\ Len(m.workspaces) = 2 /\ \A i \in 1 .. 2 : ~HasWindowsOrName(m.workspaces[i]))
  BY <1>2, PreservesFacts DEF MergeEmptyEnds
<1> QED
  BY <1>1, <1>2

\* clean_up_workspaces removes only workspaces that hold nothing.
LEMMA CleanUpPreserves ==
  ASSUME NEW m \in MonitorType
  PROVE  Preserves(m, CleanUp(m))
<1> DEFINE s == m.workspaces
           K == {i \in DOMAIN s : \/ i = Len(s) \/ i = m.active \/ (m.ews /\ i = 1)
                                  \/ HasWindowsOrName(s[i])}
           t == Kept(s, K)
           a == Cardinality({i \in K : i <= m.active})
           c == [m EXCEPT !.workspaces = t, !.active = a]
<1>1. s \in Seq(Workspaces) /\ DOMAIN s = 1 .. Len(s) /\ Len(s) \in Nat
  BY MonitorTypeFacts
<1>2. CleanUp(m) = MergeEmptyEnds(c)
  BY DEF CleanUp
<1>3. K \in SUBSET DOMAIN s /\ \A i \in DOMAIN s \ K : Things(s[i]) = {}
  BY ThingsFacts
<1> HIDE DEF K
<1>4. a \in Nat
  BY <1>1, <1>3, CountFacts
<1> HIDE DEF s, t, a, c
<1>5. Same(s, t, {m.output}) /\ t \in Seq(Workspaces)
  BY <1>1, <1>3, KeptBlank, KeptThings DEF t
<1>6. Changed(m, c, t, a, m.switch)
  BY <1>4, <1>5, EditFacts, MonitorTypeFacts DEF c
<1>7. Preserves(m, c)
  BY <1>5, <1>6 DEF Preserves, Changed, SameMonitor, Scrolls, s
<1>8. Preserves(c, MergeEmptyEnds(c))
  BY <1>7, MergePreserves DEF Preserves
<1> QED
  BY <1>2, <1>7, <1>8, PreservesFacts

\* So it does after the switch has been stopped.
LEMMA StopAndCleanUpPreserves ==
  ASSUME NEW m \in MonitorType
  PROVE  Preserves(m, StopAndCleanUp(m))
<1> DEFINE n == [m EXCEPT !.switch = NoSwitch]
<1>1. NoSwitch \in Switches /\ NoSwitch.kind # "DndScroll"
  BY DEF NoSwitch, Switches
<1>2. Changed(m, n, m.workspaces, m.active, NoSwitch)
  BY <1>1, EditFacts, MonitorTypeFacts
<1> HIDE DEF n
<1>3. Preserves(m, n)
  BY <1>1, <1>2, EditPreserves
<1>4. Preserves(n, CleanUp(n))
  BY <1>3, CleanUpPreserves DEF Preserves
<1> QED
  BY <1>3, <1>4, PreservesFacts DEF StopAndCleanUp, n

\* And where it happens only without a switch.
LEMMA CleanUpIfStillPreserves ==
  ASSUME NEW m \in MonitorType
  PROVE  Preserves(m, CleanUpIfStill(m))
BY CleanUpPreserves, PreservesFacts DEF CleanUpIfStill

\* What a workspace holds after windows came or went.
LEMMA WindowThingsFacts ==
  ASSUME NEW ws, NEW W, NEW ts
  PROVE  /\ ts = [ws EXCEPT !.windows = ws.windows \cup W] /\ ws \in Workspaces =>
              Things(ts) = Things(ws) \cup WindowThings(W)
         /\ ts = [ws EXCEPT !.windows = ws.windows \ W] /\ ws \in Workspaces =>
              Things(ts) = Things(ws) \ WindowThings(W)
         /\ W \subseteq ws.windows => WindowThings(W) \subseteq Things(ws)
<1>1. \A w, v : WindowThing(w) = WindowThing(v) => w = v
  BY DEF WindowThing
<1>2. \A w, n : WindowThing(w) # NameThing(n)
  BY DEF WindowThing, NameThing
<1>3. /\ \A e : e \in Things(ws) <=> \/ \E w \in ws.windows : e = WindowThing(w)
                                     \/ \E n \in {ws.name} \ {NoName} : e = NameThing(n)
      /\ \A e : e \in Things(ts) <=> \/ \E w \in ts.windows : e = WindowThing(w)
                                     \/ \E n \in {ts.name} \ {NoName} : e = NameThing(n)
      /\ \A e : e \in WindowThings(W) <=> \E w \in W : e = WindowThing(w)
  BY DEF Things, WindowThings
<1>4. ASSUME ts = [ws EXCEPT !.windows = ws.windows \cup W], ws \in Workspaces
      PROVE  Things(ts) = Things(ws) \cup WindowThings(W)
  <2>1. ts.windows = ws.windows \cup W /\ ts.name = ws.name
    BY <1>4 DEF Workspaces
  <2>2. \A e : e \in Things(ts) <=> e \in Things(ws) \/ e \in WindowThings(W)
    BY <1>3, <2>1
  <2> QED
    BY <2>2
<1>5. ASSUME ts = [ws EXCEPT !.windows = ws.windows \ W], ws \in Workspaces
      PROVE  Things(ts) = Things(ws) \ WindowThings(W)
  <2>1. ts.windows = ws.windows \ W /\ ts.name = ws.name
    BY <1>5 DEF Workspaces
  <2>2. \A e : e \in Things(ts) => e \in Things(ws) /\ e \notin WindowThings(W)
    BY <1>1, <1>2, <1>3, <2>1
  <2>3. \A e : e \in Things(ws) /\ e \notin WindowThings(W) => e \in Things(ts)
    BY <1>3, <2>1
  <2> QED
    BY <2>2, <2>3
<1>6. W \subseteq ws.windows => WindowThings(W) \subseteq Things(ws)
  BY <1>3
<1> QED
  BY <1>4, <1>5, <1>6

\* One workspace of a monitor is replaced.
LEMMA PutTrades ==
  ASSUME NEW m \in MonitorType, NEW i \in 1 .. Len(m.workspaces), NEW ws \in Workspaces,
         Apart(m.workspaces),
         Things(ws) \cap (ThingsIn(m.workspaces) \ Things(m.workspaces[i])) = {},
         NEW n, Put(m, i, ws, n)
  PROVE  Trades(m, n, Things(m.workspaces[i]), Things(ws), {ws.original_output})
<1>1. n \in MonitorType /\ n.workspaces \in Seq(Workspaces) /\ m.workspaces \in Seq(Workspaces)
  BY MonitorTypeFacts DEF Put
<1>2. /\ Len(n.workspaces) = Len(m.workspaces)
      /\ \A k \in 1 .. Len(m.workspaces) : n.workspaces[k] = IF k = i THEN ws ELSE m.workspaces[k]
  BY DEF Put
<1>3. Trade(m.workspaces, n.workspaces, Things(m.workspaces[i]), Things(ws), {ws.original_output})
  BY <1>1, <1>2, PutThings
<1> QED
  BY <1>1, <1>3 DEF Trades, Trade, Put, SameMonitor, Scrolls

\* One workspace of a monitor.
LEMMA OneInFacts ==
  ASSUME NEW m \in MonitorType, NEW i \in 1 .. Len(m.workspaces)
  PROVE  /\ m.workspaces[i] \in Workspaces /\ Things(m.workspaces[i]) \subseteq ThingsIn(m.workspaces)
         /\ m.workspaces[i].original_output \in Origins(m.workspaces)
BY MonitorTypeFacts, InFacts

\* Windows leave a workspace.
LEMMA LeaveTrades ==
  ASSUME NEW m \in MonitorType, NEW i \in 1 .. Len(m.workspaces), Apart(m.workspaces),
         NEW W, W \subseteq m.workspaces[i].windows
  PROVE  Trades(m, [m EXCEPT !.workspaces[i].windows = @ \ W], WindowThings(W), {}, {})
<1> DEFINE s == m.workspaces
           V == s[i].windows \ W
           ws == [s[i] EXCEPT !.windows = V]
           n == [m EXCEPT !.workspaces[i].windows = V]
<1>1. /\ s[i] \in Workspaces /\ Things(s[i]) \subseteq ThingsIn(s)
      /\ s[i].original_output \in Origins(s)
  BY OneInFacts
<1>2. V \in SUBSET Windows
  BY <1>1 DEF Workspaces
<1>3. [m EXCEPT !.workspaces[i].windows = @ \ W] = n
  OBVIOUS
<1> HIDE DEF V, n
<1>4. Put(m, i, ws, n) /\ ws \in Workspaces
  BY <1>2, WindowsFacts DEF n
<1>5. ws.original_output = s[i].original_output
  BY <1>1 DEF Workspaces
<1> HIDE DEF ws
<1>6. Things(ws) = Things(s[i]) \ WindowThings(W) /\ WindowThings(W) \subseteq Things(s[i])
  BY <1>1, WindowThingsFacts DEF ws, V
<1>7. Trades(m, n, Things(s[i]), Things(ws), {ws.original_output})
  BY <1>4, <1>6, PutTrades
<1>8. (ThingsIn(s) \ Things(s[i])) \cup Things(ws) = ThingsIn(s) \ WindowThings(W)
  BY <1>1, <1>6
<1> QED
  BY <1>1, <1>3, <1>5, <1>7, <1>8 DEF Trades, Trade

\* Windows arrive on a workspace.
LEMMA AddWindowsTrades ==
  ASSUME NEW m \in MonitorType, NEW i \in 1 .. Len(m.workspaces), Apart(m.workspaces),
         NEW W \in SUBSET Windows, WindowThings(W) \cap ThingsIn(m.workspaces) = {}, NEW activate
  PROVE  Trades(m, AddWindows(m, i, W, activate), {}, WindowThings(W), {})
<1> DEFINE s == m.workspaces
           V == s[i].windows \cup W
           own == IF s[i].name = NoName THEN m.output ELSE s[i].original_output
           ws == [[s[i] EXCEPT !.windows = V] EXCEPT !.original_output = own]
           n == [m EXCEPT !.workspaces[i] = ws]
           padded == KeepEmptyEnds(n, i)
           j == ShiftedByTop(m, i)
<1>1. /\ s[i] \in Workspaces /\ Things(s[i]) \subseteq ThingsIn(s)
      /\ s[i].original_output \in Origins(s) /\ m.output \in Outputs
  BY OneInFacts, MonitorTypeFacts
<1>2. AddWindows(m, i, W, activate) = IF activate THEN ActivateWorkspace(padded, j) ELSE padded
  <2>1. [m EXCEPT !.workspaces[i].windows = @ \cup W,
                  !.workspaces[i].original_output = IF m.workspaces[i].name = NoName THEN m.output ELSE @] = n
    BY <1>1, MonitorTypeFacts DEF MonitorType, Workspaces
  <2> QED
    BY <2>1 DEF AddWindows
<1>3. j \in Nat
  BY DEF ShiftedByTop
<1> HIDE DEF j, padded
<1>4. ws \in Workspaces /\ ws.original_output \in Origins(s) \cup {m.output}
  BY <1>1 DEF Workspaces
<1>5. Things(ws) = Things(s[i]) \cup WindowThings(W)
  <2> DEFINE vs == [s[i] EXCEPT !.windows = V]
  <2>1. Things(vs) = Things(s[i]) \cup WindowThings(W)
    BY <1>1, WindowThingsFacts
  <2>2. Things(ws) = Things(vs)
    BY <1>1 DEF Things, Workspaces
  <2> QED
    BY <2>1, <2>2
<1> HIDE DEF ws, n
<1>6. Put(m, i, ws, n)
  BY <1>4, PutFacts DEF n
<1>7. Trades(m, n, Things(s[i]), Things(ws), {ws.original_output})
  <2>1. Things(ws) \cap (ThingsIn(s) \ Things(s[i])) = {}
    BY <1>5
  <2> QED
    BY <1>4, <1>6, <2>1, PutTrades
<1>8. Trades(m, n, {}, WindowThings(W), {})
  <2>1. (ThingsIn(s) \ Things(s[i])) \cup Things(ws) = (ThingsIn(s) \ {}) \cup WindowThings(W)
    BY <1>1, <1>5
  <2> QED
    BY <1>4, <1>7, <2>1 DEF Trades, Trade
<1>9. Preserves(n, padded)
  BY <1>8, KeepEmptyEndsPreserves DEF Trades, padded
<1>10. Preserves(padded, ActivateWorkspace(padded, j))
  BY <1>3, <1>9, ActivateWorkspacePreserves DEF Preserves
<1> QED
  BY <1>2, <1>8, <1>9, <1>10, TradesFacts

\* A workspace goes away, with what is on it.
LEMMA DropTrades ==
  ASSUME NEW m \in MonitorType, NEW i \in 1 .. Len(m.workspaces), Apart(m.workspaces), NEW a \in Nat
  PROVE  Trades(m, [m EXCEPT !.workspaces = RemoveAt(@, i), !.active = a],
                Things(m.workspaces[i]), {}, {})
<1> DEFINE s == m.workspaces
           t == RemoveAt(s, i)
           n == [m EXCEPT !.workspaces = t, !.active = a]
<1>1. s \in Seq(Workspaces) /\ m.switch \in Switches
  BY MonitorTypeFacts
<1>2. t \in Seq(Workspaces)
  BY <1>1, RemoveAtFacts DEF Deleted
<1>3. Trade(s, t, Things(s[i]), {}, {m.output})
  BY <1>1, RemoveThings
<1> HIDE DEF t
<1>4. Changed(m, n, t, a, m.switch)
  BY <1>1, <1>2, EditFacts
<1> QED
  BY <1>3, <1>4 DEF Trades, Trade, Changed, SameMonitor, Scrolls, t

\* remove_window takes the window, and perhaps workspaces that hold nothing.
LEMMA RemoveWindowTrades ==
  ASSUME NEW m \in MonitorType, NEW i \in 1 .. Len(m.workspaces), Apart(m.workspaces),
         m.active \in 1 .. Len(m.workspaces), NEW w, w \in m.workspaces[i].windows
  PROVE  Trades(m, RemoveWindow(m, i, w), WindowThings({w}), {}, {})
<1> DEFINE r == [m EXCEPT !.workspaces[i].windows = @ \ {w}]
           drop == /\ ~HasWindowsOrName(r.workspaces[i])
                   /\ i # m.active
                   /\ i # Len(m.workspaces)
                   /\ m.switch = NoSwitch
           a == IF i < r.active THEN r.active - 1 ELSE r.active
           c == IF drop THEN [r EXCEPT !.workspaces = RemoveAt(@, i), !.active = a] ELSE r
<1>1. Trades(m, r, WindowThings({w}), {}, {})
  BY LeaveTrades
<1>2. i \in 1 .. Len(r.workspaces) /\ r.active = m.active
  BY MonitorTypeFacts DEF MonitorType
<1>3. RemoveWindow(m, i, w) = IF m.switch = NoSwitch THEN MergeEmptyEnds(c) ELSE c
  BY DEF RemoveWindow
<1> HIDE DEF r
<1>4. r \in MonitorType /\ Apart(r.workspaces)
  BY <1>1 DEF Trades, Trade
<1>5. Preserves(r, c)
  <2>1. CASE drop
    <3>1. a \in Nat
      BY <1>2, MonitorTypeFacts
    <3> HIDE DEF a
    <3>2. Trades(r, c, Things(r.workspaces[i]), {}, {})
      BY <1>2, <1>4, <2>1, <3>1, DropTrades
    <3>3. Things(r.workspaces[i]) = {}
      BY <2>1, ThingsFacts
    <3> QED
      BY <3>2, <3>3 DEF Trades, Trade, Preserves, Same
  <2>2. CASE ~drop
    BY <1>4, <2>2, PreservesFacts
  <2> QED
    BY <2>1, <2>2
<1> HIDE DEF c
<1>6. Preserves(c, MergeEmptyEnds(c))
  BY <1>5, MergePreserves DEF Preserves
<1> QED
  BY <1>1, <1>3, <1>5, <1>6, TradesFacts

\* A workspace loses its name or gets another one.
LEMMA RenamedThings ==
  ASSUME NEW ws \in Workspaces, NEW name
  PROVE  Things([ws EXCEPT !.name = name])
           = (Things(ws) \ {NameThing(ws.name)}) \cup {NameThing(x) : x \in {name} \ {NoName}}
<1> DEFINE new == [ws EXCEPT !.name = name]
           N == {NameThing(x) : x \in {name} \ {NoName}}
           old == NameThing(ws.name)
<1>1. new.windows = ws.windows /\ new.name = name
  BY DEF Workspaces
<1> HIDE DEF new
<1>2. /\ \A e : e \in Things(ws) <=> \/ \E w \in ws.windows : e = WindowThing(w)
                                     \/ \E x \in {ws.name} \ {NoName} : e = NameThing(x)
      /\ \A e : e \in Things(new) <=> \/ \E w \in ws.windows : e = WindowThing(w)
                                      \/ \E x \in {name} \ {NoName} : e = NameThing(x)
      /\ \A e : e \in N <=> \E x \in {name} \ {NoName} : e = NameThing(x)
  BY <1>1 DEF Things
<1>3. \A w : WindowThing(w) # old
  BY DEF WindowThing, NameThing
<1> HIDE DEF N
<1>4. \A e : e \in Things(new) <=> (e \in Things(ws) /\ e # old) \/ e \in N
  BY <1>2, <1>3
<1> QED
  BY <1>4 DEF new, N

\* The name of a workspace.
LEMMA NameTrades ==
  ASSUME NEW m \in MonitorType, NEW i \in 1 .. Len(m.workspaces), Apart(m.workspaces),
         NEW name \in Names \cup {NoName}, NameThing(name) \notin ThingsIn(m.workspaces)
  PROVE  Trades(m, [m EXCEPT !.workspaces[i].name = name],
                {NameThing(m.workspaces[i].name)}, {NameThing(x) : x \in {name} \ {NoName}}, {})
<1> DEFINE s == m.workspaces
           ws == [s[i] EXCEPT !.name = name]
           n == [m EXCEPT !.workspaces[i] = ws]
           N == {NameThing(x) : x \in {name} \ {NoName}}
           old == NameThing(s[i].name)
<1>1. /\ s[i] \in Workspaces /\ Things(s[i]) \subseteq ThingsIn(s)
      /\ s[i].original_output \in Origins(s)
  BY OneInFacts
<1>2. [m EXCEPT !.workspaces[i].name = name] = n
  BY <1>1, MonitorTypeFacts DEF MonitorType, Workspaces
<1>3. /\ ws \in Workspaces /\ ws.original_output \in Origins(s)
      /\ ws.windows = s[i].windows /\ ws.name = name
  BY <1>1 DEF Workspaces
<1> HIDE DEF ws, n
<1>4. Put(m, i, ws, n)
  BY <1>3, PutFacts DEF n
<1>5. Things(ws) = (Things(s[i]) \ {old}) \cup N
  BY <1>1, RenamedThings DEF ws
<1>6. N \cap ThingsIn(s) = {}
  OBVIOUS
<1>7. old \in ThingsIn(s) => old \in Things(s[i])
  <2>1. old \in Things(s[i]) \/ s[i].name = NoName
    BY ThingsFacts
  <2>2. NameThing(NoName) \notin ThingsIn(s)
    BY ThingsFacts, InFacts
  <2> QED
    BY <2>1, <2>2
<1> HIDE DEF N, old
<1>8. Trades(m, n, Things(s[i]), Things(ws), {ws.original_output})
  <2>1. Things(ws) \cap (ThingsIn(s) \ Things(s[i])) = {}
    BY <1>5, <1>6
  <2> QED
    BY <1>3, <1>4, <2>1, PutTrades
<1>9. (ThingsIn(s) \ Things(s[i])) \cup Things(ws) = (ThingsIn(s) \ {old}) \cup N
  BY <1>1, <1>5, <1>7
<1>10. Trades(m, n, {old}, N, {})
  BY <1>3, <1>8, <1>9 DEF Trades, Trade
<1> QED
  BY <1>2, <1>10 DEF N, old

\* unname_workspace takes the name.
LEMMA UnnameTrades ==
  ASSUME NEW m \in MonitorType, NEW i \in 1 .. Len(m.workspaces), Apart(m.workspaces)
  PROVE  Trades(m, UnnameWorkspace(m, i), {NameThing(m.workspaces[i].name)}, {}, {})
<1> DEFINE n == [m EXCEPT !.workspaces[i].name = NoName]
<1>1. NameThing(NoName) \notin ThingsIn(m.workspaces)
  BY ThingsFacts, InFacts
<1>2. {NameThing(x) : x \in {NoName} \ {NoName}} = {}
  OBVIOUS
<1>3. Trades(m, n, {NameThing(m.workspaces[i].name)}, {}, {})
  BY <1>1, <1>2, NameTrades
<1> HIDE DEF n
<1>4. Preserves(n, CleanUpIfStill(n))
  BY <1>3, CleanUpIfStillPreserves DEF Trades
<1> QED
  BY <1>3, <1>4, TradesFacts DEF UnnameWorkspace, n

\* A new name takes the place of the old one.
LEMMA SetNameTrades ==
  ASSUME NEW m \in MonitorType, NEW i \in 1 .. Len(m.workspaces), Apart(m.workspaces),
         NEW name \in Names, NameThing(name) \notin ThingsIn(m.workspaces)
  PROVE  /\ Trades(m, SetName(m, i, name), {NameThing(m.workspaces[i].name)}, {NameThing(name)}, {})
         /\ Trades(m, [m EXCEPT !.workspaces[i].name = name],
                   {NameThing(m.workspaces[i].name)}, {NameThing(name)}, {})
<1> DEFINE n == [m EXCEPT !.workspaces[i].name = name]
<1>1. {NameThing(x) : x \in {name} \ {NoName}} = {NameThing(name)}
  BY NoneAssumption
<1>2. Trades(m, n, {NameThing(m.workspaces[i].name)}, {NameThing(name)}, {})
  BY <1>1, NameTrades
<1> HIDE DEF n
<1>3. Preserves(n, KeepEmptyEnds(n, i))
  BY <1>2, KeepEmptyEndsPreserves DEF Trades
<1> QED
  BY <1>2, <1>3, TradesFacts DEF SetName, n

\* Another workspace is active, the switch stops and the monitor is cleaned up.
LEMMA FinishPreserves ==
  ASSUME NEW m \in MonitorType, NEW a \in Nat
  PROVE  Preserves(m, StopAndCleanUp([m EXCEPT !.active = a]))
<1> DEFINE n == [m EXCEPT !.active = a]
<1>1. m.workspaces \in Seq(Workspaces) /\ m.switch \in Switches
  BY MonitorTypeFacts
<1>2. Changed(m, n, m.workspaces, a, m.switch)
  BY <1>1, EditFacts
<1> HIDE DEF n
<1>3. Preserves(m, n)
  BY <1>2, EditPreserves DEF Scrolls
<1>4. Preserves(n, StopAndCleanUp(n))
  BY <1>3, StopAndCleanUpPreserves DEF Preserves
<1> QED
  BY <1>3, <1>4, PreservesFacts DEF n

\* remove_workspace_by_idx takes what is on the workspace.
LEMMA RemoveWorkspaceByIdxTrades ==
  ASSUME NEW m, Ends(m), NEW i \in 1 .. Len(m.workspaces), Apart(m.workspaces)
  PROVE  Trades(m, RemoveWorkspaceByIdx(m, i), Things(m.workspaces[i]), {}, {})
<1> DEFINE k == KeepEmptyEnds(m, i)
           j == ShiftedByTop(m, i)
           a == IF j <= k.active /\ k.active > 1 THEN k.active - 1 ELSE k.active
           n == [k EXCEPT !.workspaces = RemoveAt(@, j), !.active = a]
<1>1. m \in MonitorType /\ EndsBut(m, i)
  BY DEF Ends, EndsBut
<1>2. j \in 1 .. Len(k.workspaces) /\ k.workspaces[j] = m.workspaces[i]
  <2>1. j \in 1 .. Len(k.workspaces) - 1 /\ k.workspaces[j] = m.workspaces[i] /\ Ends(k)
    BY <1>1, KeepEmptyEndsFacts
  <2> HIDE DEF j, k
  <2>2. Len(k.workspaces) \in Nat
    BY <2>1, MonitorTypeFacts DEF Ends
  <2> QED
    BY <2>1, <2>2
<1>3. Preserves(m, k)
  BY <1>1, KeepEmptyEndsPreserves
<1>4. RemoveWorkspaceByIdx(m, i) = StopAndCleanUp(n)
  BY DEF RemoveWorkspaceByIdx
<1> HIDE DEF k, j
<1>5. k \in MonitorType /\ Apart(k.workspaces) /\ k.active \in Nat
  BY <1>3, MonitorTypeFacts DEF Preserves, Same
<1>6. a \in Nat
  BY <1>5
<1> HIDE DEF a
<1>7. Trades(k, n, Things(m.workspaces[i]), {}, {})
  BY <1>2, <1>5, <1>6, DropTrades
<1> HIDE DEF n
<1>8. Preserves(n, StopAndCleanUp(n))
  BY <1>7, StopAndCleanUpPreserves DEF Trades
<1> QED
  BY <1>3, <1>4, <1>7, <1>8, TradesFacts

\* insert_workspace brings what is on the workspace.
LEMMA InsertWorkspaceTrades ==
  ASSUME NEW m \in MonitorType, m.workspaces # <<>>, Apart(m.workspaces), NEW ws \in Workspaces,
         NEW idx \in 1 .. Len(m.workspaces) + 1, NEW activate,
         Things(ws) \cap ThingsIn(m.workspaces) = {}
  PROVE  Trades(m, InsertWorkspace(m, ws, idx, activate), {}, Things(ws), {ws.original_output})
<1> DEFINE L == Len(m.workspaces)
           before == IF idx = L + 1 THEN idx - 1 ELSE idx
           t == IF before = 1 /\ m.ews THEN AddTop(m) ELSE m
           i == ShiftedByTop(m, before)
           s == InsertAt(t.workspaces, i, ws)
           a == IF activate THEN i ELSE IF i <= t.active THEN t.active + 1 ELSE t.active
           n == [t EXCEPT !.workspaces = s, !.active = a]
<1>1. L \in Nat \ {0}
  BY MonitorTypeFacts
<1>2. before \in 1 .. L
  BY <1>1
<1>3. Preserves(m, t)
  BY EndsPreserve, PreservesFacts
<1>4. i \in 1 .. Len(t.workspaces) + 1
  <2>1. CASE before = 1 /\ m.ews
    <3>1. 1 \in 1 .. Len(m.workspaces) + 1
      BY <1>1
    <3>2. WorkspaceAdded(m, 1, t)
      BY <2>1, <3>1, AddWorkspaceAtFacts DEF AddTop
    <3> QED
      BY <1>1, <2>1, <3>2 DEF WorkspaceAdded, ShiftedByTop
  <2>2. CASE ~(before = 1 /\ m.ews)
    BY <1>1, <1>2, <2>2 DEF ShiftedByTop
  <2> QED
    BY <2>1, <2>2
<1>5. InsertWorkspace(m, ws, idx, activate) = StopAndCleanUp(n)
  <2>1. n = [t EXCEPT !.workspaces = InsertAt(@, i, ws),
                      !.active = IF activate THEN i ELSE IF i <= @ THEN @ + 1 ELSE @]
    BY <1>3 DEF Preserves, MonitorType
  <2> QED
    BY <2>1 DEF InsertWorkspace, before
<1> HIDE DEF before, t, i
<1>6. /\ t \in MonitorType /\ Apart(t.workspaces) /\ t.workspaces \in Seq(Workspaces)
      /\ t.switch \in Switches /\ ThingsIn(t.workspaces) = ThingsIn(m.workspaces)
  BY <1>3, MonitorTypeFacts DEF Preserves, Same
<1>7. a \in Nat
  BY <1>4, <1>6, MonitorTypeFacts
<1>8. s \in Seq(Workspaces)
  BY <1>4, <1>6, InsertAtFacts DEF Inserted
<1>9. Trade(t.workspaces, s, {}, Things(ws), {ws.original_output})
  BY <1>4, <1>6, InsertThings
<1> HIDE DEF a, s
<1>10. Changed(t, n, s, a, t.switch)
  BY <1>6, <1>7, <1>8, EditFacts
<1> HIDE DEF n
<1>11. Trades(t, n, {}, Things(ws), {ws.original_output})
  BY <1>9, <1>10 DEF Trades, Trade, Changed, SameMonitor, Scrolls
<1>12. Preserves(n, StopAndCleanUp(n))
  BY <1>11, StopAndCleanUpPreserves DEF Trades
<1> QED
  BY <1>3, <1>5, <1>11, <1>12, TradesFacts

\* append_workspaces brings what is on all of them.
LEMMA AppendWorkspacesTrades ==
  ASSUME NEW m \in MonitorType, m.workspaces # <<>>, Apart(m.workspaces),
         NEW wss \in Seq(Workspaces), Apart(wss), ThingsIn(wss) \cap ThingsIn(m.workspaces) = {}
  PROVE  Trades(m, AppendWorkspaces(m, wss), {}, ThingsIn(wss), Origins(wss))
<1> DEFINE L == Len(m.workspaces)
           f == Front(m.workspaces)
           e == <<m.workspaces[L]>>
           g == f \o wss
           s == g \o e
           appended == [m EXCEPT !.workspaces = s]
           top == m.ews /\ HasWindowsOrName(appended.workspaces[1])
           topped == IF top THEN AddTop(appended) ELSE appended
           a == IF m.active = L THEN Len(topped.workspaces) ELSE topped.active
<1>1. CASE wss = <<>>
  <2>1. ThingsIn(wss) = {}
    BY <1>1 DEF ThingsIn
  <2>2. Preserves(m, AppendWorkspaces(m, wss))
    BY <1>1, PreservesFacts DEF AppendWorkspaces
  <2> QED
    BY <2>1, <2>2 DEF Preserves, Trades, Same, Trade
<1>2. CASE wss # <<>>
  <2>1. m.workspaces \in Seq(Workspaces) /\ m.switch \in Switches /\ m.active \in Nat
    BY MonitorTypeFacts
  <2>2. f \in Seq(Workspaces) /\ e \in Seq(Workspaces) /\ m.workspaces = f \o e
    BY <2>1, FrontFacts
  <2>3. AppendWorkspaces(m, wss) = StopAndCleanUp([topped EXCEPT !.active = a])
    <3>1. appended = [m EXCEPT !.workspaces = Front(@) \o wss \o <<@[L]>>]
      BY DEF MonitorType
    <3>2. [topped EXCEPT !.active = a] = [topped EXCEPT !.active = IF m.active = L THEN Len(topped.workspaces) ELSE @]
      OBVIOUS
    <3> QED
      BY <1>2, <3>1, <3>2 DEF AppendWorkspaces
  <2> HIDE DEF f, e
  <2>4. g \in Seq(Workspaces)
    BY <2>2
  <2>5. /\ ThingsIn(m.workspaces) = ThingsIn(f) \cup ThingsIn(e)
        /\ Origins(m.workspaces) = Origins(f) \cup Origins(e)
        /\ Apart(f) /\ Apart(e) /\ ThingsIn(f) \cap ThingsIn(e) = {}
    BY <2>2, JoinThings
  <2>6. /\ ThingsIn(g) = ThingsIn(f) \cup ThingsIn(wss) /\ Origins(g) = Origins(f) \cup Origins(wss)
        /\ Apart(g)
    <3>1. ThingsIn(f) \cap ThingsIn(wss) = {}
      BY <2>5
    <3> QED
      BY <2>2, <2>5, <3>1, JoinThings
  <2> HIDE DEF g
  <2>7. /\ ThingsIn(s) = ThingsIn(g) \cup ThingsIn(e) /\ Origins(s) = Origins(g) \cup Origins(e)
        /\ Apart(s)
    <3>1. ThingsIn(g) \cap ThingsIn(e) = {}
      BY <2>5, <2>6
    <3> QED
      BY <2>2, <2>4, <2>5, <2>6, <3>1, JoinThings
  <2>8. s \in Seq(Workspaces)
    BY <2>2, <2>4
  <2> HIDE DEF s
  <2>9. Trade(m.workspaces, s, {}, ThingsIn(wss), Origins(wss))
    <3>1. ThingsIn(s) = (ThingsIn(m.workspaces) \ {}) \cup ThingsIn(wss)
      BY <2>5, <2>6, <2>7
    <3>2. Origins(s) \subseteq Origins(m.workspaces) \cup Origins(wss)
      BY <2>5, <2>6, <2>7
    <3> QED
      BY <2>7, <3>1, <3>2 DEF Trade
  <2>10. Changed(m, appended, s, m.active, m.switch)
    BY <2>1, <2>8, EditFacts
  <2> HIDE DEF appended
  <2>11. Trades(m, appended, {}, ThingsIn(wss), Origins(wss))
    BY <2>9, <2>10 DEF Trades, Trade, Changed, SameMonitor, Scrolls
  <2>12. Preserves(appended, topped)
    BY <2>11, EndsPreserve, PreservesFacts DEF Trades
  <2> HIDE DEF topped
  <2>13. topped \in MonitorType /\ a \in Nat
    BY <2>12, MonitorTypeFacts DEF Preserves
  <2>14. Preserves(topped, StopAndCleanUp([topped EXCEPT !.active = a]))
    BY <2>13, FinishPreserves
  <2> QED
    BY <2>3, <2>11, <2>12, <2>14, TradesFacts
<1> QED
  BY <1>1, <1>2

\* Workspaces that change in what is not followed here.
LEMMA RelabelSame ==
  ASSUME NEW s \in Seq(Workspaces), NEW t \in Seq(Workspaces), NEW O, Len(t) = Len(s),
         \A i \in 1 .. Len(s) : Things(t[i]) = Things(s[i])
                                /\ t[i].original_output \in {s[i].original_output} \cup O
  PROVE  Same(s, t, O)
<1> DEFINE f == [x \in 1 .. Len(t) |-> x]
<1>1. Len(s) \in Nat /\ f \in [1 .. Len(t) -> 0 .. Len(s)] /\ \A x \in 1 .. Len(t) : f[x] = x /\ x # 0
  OBVIOUS
<1> HIDE DEF f
<1> QED
  BY <1>1, MappedFacts

\* Which output a workspace was last active on says nothing about what it holds.
LEMMA UnmarkedFacts ==
  ASSUME NEW ws \in Workspaces, NEW S \in SUBSET Outputs
  PROVE  LET u == [ws EXCEPT !.last = S]
         IN u \in Workspaces /\ Things(u) = Things(ws) /\ u.original_output = ws.original_output
BY DEF Workspaces, Things

\* into_workspaces drops only workspaces that hold nothing.
LEMMA IntoWorkspacesSame ==
  ASSUME NEW m \in MonitorType, m.active \in 1 .. Len(m.workspaces)
  PROVE  Same(m.workspaces, IntoWorkspaces(m), {})
<1> DEFINE s == m.workspaces
           ws == [s[m.active] EXCEPT !.last = @ \cup {m.output}]
           t == [s EXCEPT ![m.active] = ws]
           K == {i \in DOMAIN t : HasWindowsOrName(t[i])}
<1>1. s \in Seq(Workspaces) /\ s[m.active] \in Workspaces /\ m.output \in Outputs
  BY MonitorTypeFacts
<1>2. /\ ws \in Workspaces /\ Things(ws) = Things(s[m.active])
      /\ ws.original_output = s[m.active].original_output
  <2>1. s[m.active].last \cup {m.output} \in SUBSET Outputs
    BY <1>1 DEF Workspaces
  <2> QED
    BY <1>1, <2>1, UnmarkedFacts
<1>3. IntoWorkspaces(m) = Kept(t, K)
  BY DEF IntoWorkspaces, WorkspacesInUse
<1> HIDE DEF ws
<1>4. t \in Seq(Workspaces) /\ Len(t) = Len(s) /\ \A i \in 1 .. Len(s) : t[i] = IF i = m.active THEN ws ELSE s[i]
  BY <1>1, <1>2
<1> HIDE DEF t, s
<1>5. Same(s, t, {})
  BY <1>1, <1>2, <1>4, RelabelSame
<1>6. K \in SUBSET DOMAIN t /\ \A i \in DOMAIN t \ K : Things(t[i]) = {}
  BY ThingsFacts
<1> HIDE DEF K
<1>7. Same(t, Kept(t, K), {})
  BY <1>4, <1>6, KeptBlank
<1> QED
  BY <1>3, <1>5, <1>7, SameFacts DEF s

\* The same, for all the workspaces of a list.
LEMMA UnmarkedSame ==
  ASSUME NEW s \in Seq(Workspaces), NEW o, NEW O
  PROVE  LET t == [i \in DOMAIN s |-> [s[i] EXCEPT !.last = @ \ {o}]]
         IN t \in Seq(Workspaces) /\ Len(t) = Len(s) /\ Same(s, t, O)
<1> DEFINE t == [i \in DOMAIN s |-> [s[i] EXCEPT !.last = @ \ {o}]]
           L == Len(s)
<1>1. L \in Nat /\ DOMAIN s = 1 .. L
  OBVIOUS
<1>2. \A i \in 1 .. L : /\ t[i] \in Workspaces /\ Things(t[i]) = Things(s[i])
                        /\ t[i].original_output = s[i].original_output
  <2> SUFFICES ASSUME NEW i \in 1 .. L
               PROVE  LET u == [s[i] EXCEPT !.last = @ \ {o}]
                      IN u \in Workspaces /\ Things(u) = Things(s[i]) /\ u.original_output = s[i].original_output
    BY <1>1
  <2>1. s[i] \in Workspaces
    BY <1>1
  <2>2. s[i].last \ {o} \in SUBSET Outputs
    BY <2>1 DEF Workspaces
  <2> QED
    BY <2>1, <2>2, UnmarkedFacts
<1>3. t \in Seq(Workspaces) /\ Len(t) = L
  <2>1. t = [i \in 1 .. L |-> t[i]]
    BY <1>1
  <2>2. \A i \in 1 .. L : t[i] \in Workspaces
    BY <1>2
  <2> HIDE DEF t, L
  <2> QED
    BY <1>1, <2>1, <2>2
<1> HIDE DEF t
<1> QED
  BY <1>2, <1>3, RelabelSame DEF t

\* The same, for all the workspaces of a monitor.
LEMMA UnmarkPreserves ==
  ASSUME NEW m \in MonitorType, NEW o
  PROVE  Preserves(m, [m EXCEPT !.workspaces = [i \in DOMAIN m.workspaces |->
                                                  [m.workspaces[i] EXCEPT !.last = @ \ {o}]]])
<1> DEFINE s == m.workspaces
           t == [i \in DOMAIN s |-> [s[i] EXCEPT !.last = @ \ {o}]]
           n == [m EXCEPT !.workspaces = t]
<1>1. s \in Seq(Workspaces) /\ m.active \in Nat /\ m.switch \in Switches
  BY MonitorTypeFacts
<1>2. t \in Seq(Workspaces) /\ Len(t) = Len(s) /\ Same(s, t, {m.output})
  BY <1>1, UnmarkedSame
<1> HIDE DEF t
<1>3. Changed(m, n, t, m.active, m.switch)
  BY <1>1, <1>2, EditFacts
<1> QED
  BY <1>2, <1>3 DEF Preserves, Changed, SameMonitor, Scrolls, t

\* A new monitor holds the workspaces it is given, and ends of its own.
LEMMA NewMonitorSame ==
  ASSUME NEW o \in Outputs, NEW wss \in Seq(Workspaces), NEW ews
  PROVE  Same(wss, NewMonitor(o, wss, ews).workspaces, {o}) /\ ~Scrolls(NewMonitor(o, wss, ews))
<1> DEFINE top == ews /\ wss # <<>>
           new == NewWorkspace(NoName, o)
           head == IF top THEN <<new>> ELSE <<>>
           mid == [i \in DOMAIN wss |-> [wss[i] EXCEPT !.last = @ \ {o}]]
           s == head \o mid \o <<new>>
<1>1. NewMonitor(o, wss, ews).workspaces = s /\ ~Scrolls(NewMonitor(o, wss, ews))
  BY DEF NewMonitor, Scrolls, NoSwitch
<1>2. new \in Workspaces /\ new.original_output = o /\ Things(new) = {}
  BY NewWorkspaceFacts, BlankFacts
<1>3. mid \in Seq(Workspaces) /\ Len(mid) = Len(wss) /\ Same(wss, mid, {})
  BY UnmarkedSame
<1> HIDE DEF mid, new
<1>6. /\ <<new>> \in Seq(Workspaces) /\ ThingsIn(<<new>>) = {} /\ Origins(<<new>>) = {o}
      /\ Apart(<<new>>)
  BY <1>2 DEF ThingsIn, Origins, Apart
<1>7. /\ head \in Seq(Workspaces) /\ ThingsIn(head) = {} /\ Origins(head) \subseteq {o}
      /\ Apart(head)
  <2>1. CASE top
    BY <1>6, <2>1
  <2>2. CASE ~top
    BY <2>2 DEF ThingsIn, Origins, Apart
  <2> QED
    BY <2>1, <2>2
<1> HIDE DEF head
<1> DEFINE g == head \o mid
           last == <<new>>
<1> HIDE DEF last
<1>8. /\ g \in Seq(Workspaces) /\ ThingsIn(g) = ThingsIn(mid) /\ Origins(g) \subseteq Origins(mid) \cup {o}
      /\ Apart(mid) => Apart(g)
  <2>1. ThingsIn(head) \cap ThingsIn(mid) = {}
    BY <1>7
  <2>2. /\ ThingsIn(head \o mid) = ThingsIn(head) \cup ThingsIn(mid)
        /\ Origins(head \o mid) = Origins(head) \cup Origins(mid)
        /\ Apart(head \o mid) <=> Apart(head) /\ Apart(mid) /\ ThingsIn(head) \cap ThingsIn(mid) = {}
    BY <1>3, <1>7, JoinThings
  <2>3. head \o mid \in Seq(Workspaces)
    BY <1>3, <1>7
  <2> QED
    BY <1>7, <2>1, <2>2, <2>3
<1> HIDE DEF g
<1>9. /\ ThingsIn(g \o last) = ThingsIn(g) /\ Origins(g \o last) \subseteq Origins(g) \cup {o}
      /\ Apart(g) => Apart(g \o last)
  <2>1. /\ last \in Seq(Workspaces) /\ ThingsIn(last) = {} /\ Origins(last) = {o}
        /\ Apart(last)
    BY <1>6 DEF last
  <2>2. ThingsIn(g) \cap ThingsIn(last) = {}
    BY <2>1
  <2>3. /\ ThingsIn(g \o last) = ThingsIn(g) \cup ThingsIn(last)
        /\ Origins(g \o last) = Origins(g) \cup Origins(last)
        /\ Apart(g \o last) <=> Apart(g) /\ Apart(last) /\ ThingsIn(g) \cap ThingsIn(last) = {}
    BY <1>8, <2>1, JoinThings
  <2> QED
    BY <2>1, <2>2, <2>3
<1>10. s = g \o last
  BY DEF g, last
<1> QED
  BY <1>1, <1>3, <1>8, <1>9, <1>10 DEF Same

\* Workspaces in another order, with empty ends added.
LEMMA WithEndsPreserves ==
  ASSUME NEW m \in MonitorType, NEW s \in Seq(Workspaces), Same(m.workspaces, s, {m.output}),
         NEW below, NEW above
  PROVE  Preserves(m, WithEnds(m, s, below, above))
<1> DEFINE moved == [m EXCEPT !.workspaces = s]
           b == IF below THEN AddBottom(moved) ELSE moved
<1>1. WithEnds(m, s, below, above) = IF above THEN AddTop(b) ELSE b
  BY DEF WithEnds
<1>2. Changed(m, moved, s, m.active, m.switch)
  BY EditFacts, MonitorTypeFacts
<1> HIDE DEF moved
<1>3. Preserves(m, moved)
  BY <1>2 DEF Preserves, Changed, SameMonitor, Scrolls
<1>4. Preserves(moved, b)
  BY <1>3, EndsPreserve, PreservesFacts DEF Preserves
<1> HIDE DEF b
<1>5. Preserves(b, AddTop(b)) /\ Preserves(b, b)
  BY <1>4, EndsPreserve, PreservesFacts DEF Preserves
<1>6. Preserves(m, b)
  BY <1>3, <1>4, PreservesFacts
<1> QED
  BY <1>1, <1>5, <1>6, PreservesFacts

\* Two workspaces that change places.
LEMMA SwappedSame ==
  ASSUME NEW s \in Seq(Workspaces), NEW i \in 1 .. Len(s), NEW j \in 1 .. Len(s), i # j,
         NEW t, Swapped(s, i, j, t), NEW O
  PROVE  Same(s, t, O)
<1> DEFINE L == Len(s)
           f == [x \in 1 .. Len(t) |-> IF x = i THEN j ELSE IF x = j THEN i ELSE x]
<1>1. /\ L \in Nat /\ t \in Seq(Workspaces) /\ Len(t) = L
      /\ \A k \in 1 .. L : t[k] = IF k = i THEN s[j] ELSE IF k = j THEN s[i] ELSE s[k]
  BY DEF Swapped
<1>2. f \in [1 .. Len(t) -> 0 .. Len(s)]
  BY <1>1
<1>3. \A x \in 1 .. Len(t) : f[x] # 0 /\ t[x] = s[f[x]]
  BY <1>1
<1>4. \A x, y \in 1 .. Len(t) : f[x] = f[y] /\ f[x] # 0 => x = y
  BY <1>1
<1>5. \A y \in 1 .. Len(s) : \E x \in 1 .. Len(t) : f[x] = y
  <2> TAKE y \in 1 .. Len(s)
  <2>1. f[f[y]] = y /\ f[y] \in 1 .. Len(t)
    BY <1>1
  <2> HIDE DEF f
  <2> QED
    BY <2>1
<1> HIDE DEF f, L
<1>6. /\ \A x \in 1 .. Len(t) :
           IF f[x] = 0 THEN Things(t[x]) = {} /\ t[x].original_output \in O
                       ELSE /\ Things(t[x]) = Things(s[f[x]])
                            /\ t[x].original_output \in {s[f[x]].original_output} \cup O
      /\ \A y \in 1 .. Len(s) : Things(s[y]) # {} => \E x \in 1 .. Len(t) : f[x] = y
  BY <1>3, <1>5
<1>7. t \in Seq(Workspaces)
  BY <1>1
<1> QED
  BY <1>2, <1>4, <1>6, <1>7, MappedFacts

\* move_workspace_down moves workspaces and what is on them together.
LEMMA MoveWorkspaceDownPreserves ==
  ASSUME NEW m, Ends(m)
  PROVE  Preserves(m, MoveWorkspaceDown(m))
<1> DEFINE a == m.active
           L == Len(m.workspaces)
           s == Swap(m.workspaces, a, a + 1)
           below == a + 1 = L
           above == m.ews /\ a = 1
           t == WithEnds(m, s, below, above)
           to == IF above THEN a + 2 ELSE a + 1
<1>1. /\ m.workspaces \in Seq(Workspaces) /\ L \in Nat /\ a \in 1 .. L /\ m \in MonitorType
  BY DEF Ends, MonitorType
<1>2. CASE a = L
  BY <1>1, <1>2, PreservesFacts DEF MoveWorkspaceDown
<1>3. CASE a # L
  <2>1. MoveWorkspaceDown(m) = StopAndCleanUp([t EXCEPT !.active = to])
    BY <1>1, <1>3 DEF MoveWorkspaceDown, WithEnds, MonitorType
  <2>2. a + 1 \in 1 .. L /\ a # a + 1 /\ to \in Nat
    BY <1>1, <1>3
  <2>3. Swapped(m.workspaces, a, a + 1, s)
    BY <1>1, <2>2, SwapFacts
  <2> HIDE DEF s, to, below, above
  <2>4. s \in Seq(Workspaces) /\ Same(m.workspaces, s, {m.output})
    BY <1>1, <2>2, <2>3, SwappedSame DEF Swapped
  <2>5. Preserves(m, t)
    BY <1>1, <2>4, WithEndsPreserves
  <2> HIDE DEF t
  <2>6. Preserves(t, StopAndCleanUp([t EXCEPT !.active = to]))
    BY <2>2, <2>5, FinishPreserves DEF Preserves
  <2> QED
    BY <2>1, <2>5, <2>6, PreservesFacts
<1> QED
  BY <1>2, <1>3

\* So does move_workspace_up.
LEMMA MoveWorkspaceUpPreserves ==
  ASSUME NEW m, Ends(m)
  PROVE  Preserves(m, MoveWorkspaceUp(m))
<1> DEFINE a == m.active
           L == Len(m.workspaces)
           s == Swap(m.workspaces, a, a - 1)
           below == a = L
           above == m.ews /\ a = 2
           t == WithEnds(m, s, below, above)
           to == IF above THEN a ELSE a - 1
<1>1. /\ m.workspaces \in Seq(Workspaces) /\ L \in Nat /\ a \in 1 .. L /\ m \in MonitorType
  BY DEF Ends, MonitorType
<1>2. CASE a = 1
  BY <1>1, <1>2, PreservesFacts DEF MoveWorkspaceUp
<1>3. CASE a # 1
  <2>1. MoveWorkspaceUp(m) = StopAndCleanUp([t EXCEPT !.active = to])
    BY <1>1, <1>3 DEF MoveWorkspaceUp, WithEnds, MonitorType
  <2>2. a - 1 \in 1 .. L /\ a # a - 1 /\ to \in Nat
    BY <1>1, <1>3
  <2>3. Swapped(m.workspaces, a, a - 1, s)
    BY <1>1, <2>2, SwapFacts
  <2> HIDE DEF s, to, below, above
  <2>4. s \in Seq(Workspaces) /\ Same(m.workspaces, s, {m.output})
    BY <1>1, <2>2, <2>3, SwappedSame DEF Swapped
  <2>5. Preserves(m, t)
    BY <1>1, <2>4, WithEndsPreserves
  <2> HIDE DEF t
  <2>6. Preserves(t, StopAndCleanUp([t EXCEPT !.active = to]))
    BY <2>2, <2>5, FinishPreserves DEF Preserves
  <2> QED
    BY <2>1, <2>5, <2>6, PreservesFacts
<1> QED
  BY <1>2, <1>3

\* A workspace that is taken out and put in elsewhere.
LEMMA ShiftSame ==
  ASSUME NEW s \in Seq(Workspaces), NEW old \in 1 .. Len(s), NEW idx \in 1 .. Len(s), NEW O
  PROVE  LET t == InsertAt(RemoveAt(s, old), idx, s[old])
         IN t \in Seq(Workspaces) /\ Same(s, t, O)
<1> DEFINE r == RemoveAt(s, old)
           t == InsertAt(r, idx, s[old])
<1>1. s[old] \in Workspaces /\ Len(s) \in Nat
  OBVIOUS
<1>2. Deleted(Workspaces, s, old, r)
  BY RemoveAtFacts
<1> HIDE DEF r
<1>3. r \in Seq(Workspaces) /\ idx \in 1 .. Len(r) + 1
  BY <1>1, <1>2 DEF Deleted
<1>4. Inserted(Workspaces, r, idx, s[old], t)
  BY <1>1, <1>3, InsertAtFacts
<1> HIDE DEF t
<1>5. /\ ThingsIn(t) = ThingsIn(r) \cup Things(s[old])
      /\ Origins(t) = Origins(r) \cup {s[old].original_output}
      /\ Apart(t) <=> Apart(r) /\ Things(s[old]) \cap ThingsIn(r) = {}
  BY <1>3, <1>4, GrownFacts DEF Grown
<1>6. /\ ThingsIn(s) = ThingsIn(r) \cup Things(s[old])
      /\ Origins(s) = Origins(r) \cup {s[old].original_output}
      /\ Apart(s) <=> Apart(r) /\ Things(s[old]) \cap ThingsIn(r) = {}
  <2>1. Grown(r, s[old], s)
    BY <1>2, RemovedGrown
  <2> QED
    BY <2>1 DEF Grown
<1>7. t \in Seq(Workspaces)
  BY <1>4 DEF Inserted
<1> QED
  BY <1>5, <1>6, <1>7 DEF Same, t, r

\* So does move_workspace_to_idx.
LEMMA MoveWorkspaceToIdxPreserves ==
  ASSUME NEW m \in MonitorType, NEW old \in 1 .. Len(m.workspaces), NEW idx \in 1 .. Len(m.workspaces)
  PROVE  Preserves(m, MoveWorkspaceToIdx(m, old, idx))
<1> DEFINE L == Len(m.workspaces)
           s == InsertAt(RemoveAt(m.workspaces, old), idx, m.workspaces[old])
           below == L \in {old, idx}
           above == m.ews /\ 1 \in {old, idx}
           t == WithEnds(m, s, below, above)
           new == IF above THEN idx + 1 ELSE idx
           a == t.active
           to == CASE a = old -> new
                   [] a # old /\ new <= a /\ old > a -> a + 1
                   [] a # old /\ new >= a /\ old < a -> IF a = 1 THEN 1 ELSE a - 1
                   [] OTHER -> a
<1>1. m.workspaces \in Seq(Workspaces)
  BY MonitorTypeFacts
<1>2. CASE old = idx
  BY <1>2, PreservesFacts DEF MoveWorkspaceToIdx
<1>3. CASE old # idx
  <2>1. MoveWorkspaceToIdx(m, old, idx) = StopAndCleanUp([t EXCEPT !.active = to])
    BY <1>1, <1>3 DEF MoveWorkspaceToIdx, WithEnds, MonitorType
  <2>2. s \in Seq(Workspaces) /\ Same(m.workspaces, s, {m.output})
    BY <1>1, ShiftSame
  <2> HIDE DEF s
  <2>3. Preserves(m, t)
    BY <2>2, WithEndsPreserves
  <2> HIDE DEF t
  <2>4. t \in MonitorType /\ t.active \in Nat
    BY <2>3, MonitorTypeFacts DEF Preserves
  <2>5. to \in Nat
    BY <2>4
  <2> HIDE DEF to
  <2>6. Preserves(t, StopAndCleanUp([t EXCEPT !.active = to]))
    BY <2>4, <2>5, FinishPreserves
  <2> QED
    BY <2>1, <2>3, <2>6, PreservesFacts
<1> QED
  BY <1>2, <1>3

\* A new configuration adds or removes empty workspaces at the top.
LEMMA UpdateConfigPreserves ==
  ASSUME NEW m, Ends(m)
  PROVE  Preserves(m, UpdateConfig(m))
<1> DEFINE L == Len(m.workspaces)
           tail == [m EXCEPT !.workspaces = Tail(@), !.active = @ - 1]
           resized == CASE ~m.ews /\ L # 1 -> AddTop(m)
                        [] m.ews /\ L # 1 /\ m.switch = NoSwitch /\ m.active # 1 -> tail
                        [] OTHER -> m
           n == [resized EXCEPT !.ews = ~@]
<1>1. /\ m \in MonitorType /\ m.workspaces \in Seq(Workspaces) /\ L \in Nat /\ m.active \in 1 .. L
      /\ m.switch \in Switches /\ (m.ews => Vacant(m, 1))
  BY DEF Ends, MonitorType
<1>2. UpdateConfig(m) = n
  BY DEF UpdateConfig
<1>3. Preserves(m, resized)
  <2>1. CASE ~m.ews /\ L # 1
    <3>1. resized = AddTop(m)
      BY <2>1
    <3> QED
      BY <1>1, <3>1, EndsPreserve
  <2>2. CASE m.ews /\ L # 1 /\ m.switch = NoSwitch /\ m.active # 1
    <3> DEFINE s == m.workspaces
               t == Tail(s)
               a == m.active - 1
    <3>1. resized = [m EXCEPT !.workspaces = t, !.active = a]
      BY <1>1, <2>2 DEF MonitorType
    <3>2. 1 \in 1 .. Len(s) /\ a \in Nat /\ s \in Seq(Workspaces)
      BY <1>1
    <3>3. /\ t \in Seq(Workspaces) /\ Len(t) = Len(s) - 1
          /\ \A j \in 1 .. Len(s) - 1 : t[j] = s[j + 1]
      BY <1>1, <2>2
    <3>4. Deleted(Workspaces, s, 1, t)
      BY <3>3 DEF Deleted
    <3>5. Things(s[1]) = {}
      BY <1>1, <2>2, ThingsFacts DEF Vacant
    <3> HIDE DEF t, s, a, resized
    <3>6. Grown(t, s[1], s)
      BY <3>2, <3>4, RemovedGrown
    <3>7. Same(s, t, {m.output})
      BY <3>5, <3>6 DEF Grown, Same
    <3>8. Changed(m, resized, t, a, m.switch)
      BY <1>1, <3>1, <3>2, <3>3, EditFacts
    <3> QED
      BY <3>7, <3>8 DEF Preserves, Changed, SameMonitor, Scrolls, s
  <2>3. CASE ~(~m.ews /\ L # 1) /\ ~(m.ews /\ L # 1 /\ m.switch = NoSwitch /\ m.active # 1)
    <3>1. resized = m
      BY <2>3
    <3> QED
      BY <1>1, <3>1, PreservesFacts
  <2> QED
    BY <2>1, <2>2, <2>3
<1> HIDE DEF resized
<1>4. resized \in MonitorType
  BY <1>3 DEF Preserves
<1>5. /\ n \in MonitorType /\ n.output = resized.output /\ n.switch = resized.switch
      /\ n.workspaces = resized.workspaces
  BY <1>4 DEF MonitorType
<1>6. Preserves(resized, n)
  BY <1>5, SameFacts DEF Preserves, Scrolls
<1> QED
  BY <1>2, <1>3, <1>6, PreservesFacts

\* Only the switch and the active workspace change.
LEMMA SwitchPreserves ==
  ASSUME NEW m \in MonitorType
  PROVE  /\ \A i \in Nat : Preserves(m, GestureEnd(m, i)) /\ ~Scrolls(GestureEnd(m, i))
         /\ Preserves(m, [m EXCEPT !.switch = Gesture])
         /\ \A open : /\ DndBegin(m, open) \in MonitorType /\ DndBegin(m, open).output = m.output
                      /\ DndBegin(m, open).workspaces = m.workspaces
<1>1. m.workspaces \in Seq(Workspaces) /\ m.active \in Nat
  BY MonitorTypeFacts
<1>2. Gesture \in Switches /\ DndScroll \in Switches /\ Gesture.kind # "DndScroll"
  BY DEF Gesture, DndScroll, Switches
<1>3. ASSUME NEW i \in Nat PROVE Preserves(m, GestureEnd(m, i)) /\ ~Scrolls(GestureEnd(m, i))
  <2>1. Animation(i) \in Switches /\ Animation(i).kind # "DndScroll"
    BY DEF Animation, Switches
  <2>2. Changed(m, GestureEnd(m, i), m.workspaces, i, Animation(i))
    BY <1>1, <2>1, EditFacts DEF GestureEnd
  <2> QED
    BY <2>1, <2>2, EditPreserves DEF Changed, Scrolls
<1>4. Preserves(m, [m EXCEPT !.switch = Gesture])
  <2>1. Changed(m, [m EXCEPT !.switch = Gesture], m.workspaces, m.active, Gesture)
    BY <1>1, <1>2, EditFacts
  <2> QED
    BY <1>2, <2>1, EditPreserves
<1>5. ASSUME NEW open
      PROVE  /\ DndBegin(m, open) \in MonitorType /\ DndBegin(m, open).output = m.output
             /\ DndBegin(m, open).workspaces = m.workspaces
  <2>1. Changed(m, [m EXCEPT !.switch = DndScroll], m.workspaces, m.active, DndScroll)
    BY <1>1, <1>2, EditFacts
  <2> QED
    BY <2>1 DEF DndBegin, Changed, SameMonitor
<1> QED
  BY <1>3, <1>4, <1>5

\* A workspace is sent to the output it is on.
LEMMA SentPreserves ==
  ASSUME NEW m \in MonitorType, NEW i \in 1 .. Len(m.workspaces)
  PROVE  Preserves(m, [m EXCEPT !.workspaces[i] = SentWorkspace(m.workspaces[i], m.output)])
<1> DEFINE s == m.workspaces
           ws == SentWorkspace(s[i], m.output)
           n == [m EXCEPT !.workspaces[i] = ws]
<1>1. s[i] \in Workspaces /\ m.output \in Outputs /\ s \in Seq(Workspaces)
  BY MonitorTypeFacts
<1>2. ws \in Workspaces /\ Things(ws) = Things(s[i]) /\ ws.original_output = m.output
  BY <1>1 DEF SentWorkspace, Workspaces, Things
<1> HIDE DEF ws
<1>3. Put(m, i, ws, n)
  BY <1>2, PutFacts
<1> HIDE DEF n
<1>4. /\ n.workspaces \in Seq(Workspaces) /\ Len(n.workspaces) = Len(s)
      /\ \A k \in 1 .. Len(s) : n.workspaces[k] = IF k = i THEN ws ELSE s[k]
  BY <1>3, MonitorTypeFacts DEF Put
<1> HIDE DEF s
<1>5. Same(s, n.workspaces, {m.output})
  BY <1>1, <1>2, <1>4, RelabelSame
<1> QED
  BY <1>3, <1>5 DEF Preserves, Put, SameMonitor, Scrolls, n, ws, s

\* Windows are dropped on a workspace or between two.
LEMMA DroppedTrades ==
  ASSUME NEW m \in MonitorType, Apart(m.workspaces), NEW W \in SUBSET Windows,
         WindowThings(W) \cap ThingsIn(m.workspaces) = {}, NEW activate,
         NEW n \in Dropped(m, W, activate)
  PROVE  Trades(m, n, {}, WindowThings(W), {})
<1>1. CASE \E i \in DOMAIN m.workspaces : n = AddWindows(m, i, W, activate)
  BY <1>1, AddWindowsTrades, MonitorTypeFacts
<1>2. CASE \E i \in {j \in 1 .. (Len(m.workspaces) - 1) : ~(m.ews /\ j = 1)} :
             n = AddWindows(AddWorkspaceAt(m, i), i, W, activate)
  <2>1. PICK i \in 1 .. (Len(m.workspaces) - 1) : n = AddWindows(AddWorkspaceAt(m, i), i, W, activate)
    BY <1>2
  <2> DEFINE t == AddWorkspaceAt(m, i)
  <2>2. i \in 1 .. Len(m.workspaces) + 1
    BY MonitorTypeFacts
  <2>3. Preserves(m, t) /\ WorkspaceAdded(m, i, t)
    BY <2>2, AddWorkspaceAtPreserves, AddWorkspaceAtFacts
  <2>4. n = AddWindows(t, i, W, activate)
    BY <2>1
  <2> HIDE DEF t
  <2>5. t \in MonitorType /\ Apart(t.workspaces) /\ ThingsIn(t.workspaces) = ThingsIn(m.workspaces)
    BY <2>3 DEF Preserves, Same
  <2>6. i \in 1 .. Len(t.workspaces)
    BY <2>2, <2>3, MonitorTypeFacts DEF WorkspaceAdded
  <2>7. Trades(t, n, {}, WindowThings(W), {})
    BY <2>4, <2>5, <2>6, AddWindowsTrades
  <2> QED
    BY <2>3, <2>7, TradesFacts
<1> QED
  BY <1>1, <1>2 DEF Dropped

\* The workspaces that are o's own leave for the new monitor.
LEMMA TakeOwnTrades ==
  ASSUME NEW m \in MonitorType, Apart(m.workspaces), NEW o, o # m.output
  PROVE  LET own == {i \in DOMAIN m.workspaces :
                       m.workspaces[i].original_output = o /\ HasWindowsOrName(m.workspaces[i])}
             t == Kept(m.workspaces, own)
             n == TakeOwn(m, o)
         IN /\ Trades(m, n, ThingsIn(t), {}, {}) /\ o \notin Origins(n.workspaces)
            /\ t \in Seq(Workspaces) /\ Apart(t) /\ Origins(t) \subseteq {o}
            /\ ThingsIn(t) \subseteq ThingsIn(m.workspaces)
<1> DEFINE s == m.workspaces
           own == {i \in DOMAIN s : s[i].original_output = o /\ HasWindowsOrName(s[i])}
           K == {i \in DOMAIN s : s[i].original_output = o}
           D == DOMAIN s \ K
           t == Kept(s, own)
           r == Kept(s, D)
           top == IF m.ews /\ m.active > 1 THEN 2 ELSE 1
           taken == Cardinality({i \in K : i <= m.active})
           a == Max({top, m.active - taken})
           w == IF K # {} THEN NoSwitch ELSE m.switch
           rest == [m EXCEPT !.workspaces = r, !.active = a, !.switch = w]
<1>1. /\ s \in Seq(Workspaces) /\ DOMAIN s = 1 .. Len(s) /\ Len(s) \in Nat
      /\ m.active \in Nat /\ m.switch \in Switches /\ NoSwitch \in Switches
  BY MonitorTypeFacts DEF NoSwitch, Switches
<1>2. TakeOwn(m, o) = CleanUp(rest) \/ TakeOwn(m, o) = rest
  <2>1. rest = [m EXCEPT !.workspaces = Kept(@, DOMAIN @ \ K),
                         !.active = Max({top, @ - Cardinality({i \in K : i <= @})}),
                         !.switch = IF K # {} THEN NoSwitch ELSE @]
    BY <1>1 DEF MonitorType
  <2> HIDE DEF rest
  <2> QED
    BY <2>1 DEF TakeOwn
<1>3. K \in SUBSET (1 .. Len(s)) /\ own \in SUBSET DOMAIN s /\ D \in SUBSET DOMAIN s
  BY <1>1
<1>4. taken \in Nat
  BY <1>1, <1>3, CountFacts
<1>5. a \in Nat
  <2>1. top \in Int /\ m.active - taken \in Int /\ top \in Nat
    BY <1>1, <1>4
  <2> HIDE DEF top, taken
  <2>2. a = IF top >= m.active - taken THEN top ELSE m.active - taken
    BY <2>1, MaxFacts
  <2> QED
    BY <2>1, <2>2
<1>6. w \in Switches /\ (w.kind = "DndScroll" => Scrolls(m))
  BY <1>1 DEF NoSwitch, Scrolls
<1>7. \A i \in DOMAIN s : (i \in D => s[i].original_output # o)
                          /\ (i \notin D => i \in own \/ Things(s[i]) = {})
                          /\ (i \in own => i \notin D /\ s[i].original_output = o)
  BY ThingsFacts
<1> HIDE DEF s, own, D, t, r, a, w, K
<1>8. /\ t \in Seq(Workspaces) /\ ThingsIn(t) = ThingsAt(s, own) /\ Apart(t)
      /\ \A x : x \in Origins(t) <=> \E i \in own : x = s[i].original_output
  BY <1>1, <1>3, KeptThings DEF t, s
<1>9. /\ r \in Seq(Workspaces) /\ ThingsIn(r) = ThingsAt(s, D) /\ Apart(r)
      /\ \A x : x \in Origins(r) <=> \E i \in D : x = s[i].original_output
  BY <1>1, <1>3, KeptThings DEF r, s
<1>10. /\ ThingsAt(s, D) = ThingsIn(s) \ ThingsAt(s, own)
       /\ ThingsAt(s, own) \subseteq ThingsIn(s)
  <2>1. \A e : e \in ThingsIn(s) <=> \E i \in DOMAIN s : e \in Things(s[i])
    BY InFacts
  <2>2. \A K0, e : e \in ThingsAt(s, K0) <=> \E i \in K0 : e \in Things(s[i])
    BY DEF ThingsAt
  <2>3. \A i, j \in DOMAIN s : i # j => Things(s[i]) \cap Things(s[j]) = {}
    BY DEF Apart, s
  <2>4. \A e : e \in ThingsAt(s, D) => e \in ThingsIn(s) /\ e \notin ThingsAt(s, own)
    BY <1>3, <1>7, <2>1, <2>2, <2>3
  <2>5. \A e : e \in ThingsIn(s) /\ e \notin ThingsAt(s, own) => e \in ThingsAt(s, D)
    BY <1>3, <1>7, <2>1, <2>2
  <2>6. \A e : e \in ThingsAt(s, own) => e \in ThingsIn(s)
    BY <1>3, <2>1, <2>2
  <2> QED
    BY <2>4, <2>5, <2>6
<1>11. Origins(t) \subseteq {o} /\ o \notin Origins(r) /\ Origins(r) \subseteq Origins(s)
  BY <1>3, <1>7, <1>8, <1>9, InFacts
<1>12. Changed(m, rest, r, a, w)
  BY <1>5, <1>6, <1>9, EditFacts
<1> HIDE DEF rest
<1>13. Trades(m, rest, ThingsIn(t), {}, {}) /\ rest.workspaces = r
  BY <1>6, <1>8, <1>9, <1>10, <1>11, <1>12 DEF Trades, Trade, Changed, SameMonitor, Scrolls, s
<1>14. Preserves(rest, TakeOwn(m, o))
  <2>1. rest \in MonitorType
    BY <1>13 DEF Trades
  <2>2. Preserves(rest, rest) /\ Preserves(rest, CleanUp(rest))
    BY <2>1, PreservesFacts, CleanUpPreserves
  <2> QED
    BY <1>2, <2>2
<1>15. Trades(m, TakeOwn(m, o), ThingsIn(t), {}, {})
  BY <1>13, <1>14, TradesFacts
<1>16. o \notin Origins(TakeOwn(m, o).workspaces)
  BY <1>11, <1>13, <1>14 DEF Preserves, Same, Trades
<1> QED
  BY <1>8, <1>10, <1>11, <1>15, <1>16 DEF t, own, s

---------------------------------------------------------------------------
(* What is on all the monitors.                                              *)

\* The empty list holds nothing.
LEMMA NothingFacts ==
  ThingsIn(<<>>) = {} /\ Origins(<<>>) = {} /\ Apart(<<>>)
BY DEF ThingsIn, Origins, Apart

\* A thing is on a monitor or on a workspace without an output.
LEMMA HeldFacts ==
  ASSUME NEW set
  PROVE  /\ \A x : x \in ThingsOf(set) <=> \/ (\E k \in DOMAIN set.monitors : x \in Held(set, k))
                                           \/ x \in ThingsIn(set.workspaces)
         /\ \A k \in DOMAIN set.monitors : Held(set, k) \subseteq ThingsOf(set)
         /\ set.workspaces = <<>> => ThingsIn(set.workspaces) = {}
<1>1. \A x : x \in ThingsOf(set) <=> \/ (\E k \in DOMAIN set.monitors : x \in Held(set, k))
                                      \/ x \in ThingsIn(set.workspaces)
  BY DEF ThingsOf
<1>2. \A k \in DOMAIN set.monitors : Held(set, k) \subseteq ThingsOf(set)
  BY <1>1
<1>3. set.workspaces = <<>> => ThingsIn(set.workspaces) = {}
  BY NothingFacts
<1> QED
  BY <1>1, <1>2, <1>3

\* Steps one after the other.
LEMMA CarriesFacts ==
  ASSUME NEW s, NEW t, NEW u, NEW A, NEW B
  PROVE  /\ PlacedIn(s) => Carries(s, s, {}, {}) /\ Calm(s, s)
         /\ Carries(s, t, {}, {}) /\ Carries(t, u, A, B) => Carries(s, u, A, B)
         /\ Carries(s, t, A, B) /\ Carries(t, u, {}, {}) => Carries(s, u, A, B)
         /\ Carries(s, t, A, {}) /\ Carries(t, u, {}, A) /\ A \subseteq ThingsOf(s)
              => Carries(s, u, {}, {})
         /\ Calm(s, t) /\ Calm(t, u) => Calm(s, u)
<1>1. PlacedIn(s) => Carries(s, s, {}, {}) /\ Calm(s, s)
  BY DEF Carries, Calm
<1>2. Carries(s, t, {}, {}) /\ Carries(t, u, A, B) => Carries(s, u, A, B)
  BY DEF Carries
<1>3. Carries(s, t, A, B) /\ Carries(t, u, {}, {}) => Carries(s, u, A, B)
  BY DEF Carries
<1>4. Carries(s, t, A, {}) /\ Carries(t, u, {}, A) /\ A \subseteq ThingsOf(s) => Carries(s, u, {}, {})
  BY DEF Carries
<1>5. Calm(s, t) /\ Calm(t, u) => Calm(s, u)
  BY DEF Calm
<1> QED
  BY <1>1, <1>2, <1>3, <1>4, <1>5

\* Where a monitor's workspaces may come from, while the outputs stay.
LEMMA HostedFacts ==
  ASSUME NEW set, NEW new, NEW k \in DOMAIN set.monitors,
         DOMAIN new.monitors = DOMAIN set.monitors, new.primary_idx = set.primary_idx,
         \A j \in DOMAIN set.monitors : new.monitors[j].output = set.monitors[j].output
  PROVE  Hosted(new, k) = Hosted(set, k) /\ set.monitors[k].output \in Hosted(set, k)
<1>1. Plugged(new) = Plugged(set)
  BY DEF Plugged
<1> QED
  BY <1>1 DEF Hosted, Away

\* The monitors change: A leaves them all, and B comes to one of them, j.
LEMMA AllCarry ==
  ASSUME NEW set, PlacedIn(set), set.monitors # <<>>, NEW new \in MonitorSets, NEW j, NEW A, NEW B,
         DOMAIN new.monitors = DOMAIN set.monitors, new.primary_idx = set.primary_idx,
         new.workspaces = set.workspaces, j \in DOMAIN set.monitors \/ B = {},
         B \cap ThingsOf(set) = {},
         \A k \in DOMAIN set.monitors :
           /\ new.monitors[k].output = set.monitors[k].output
           /\ Trade(set.monitors[k].workspaces, new.monitors[k].workspaces, A,
                    IF k = j THEN B ELSE {}, Hosted(set, k))
  PROVE  Carries(set, new, A, B)
<1> DEFINE D == DOMAIN set.monitors
           b(k) == IF k = j THEN B ELSE {}
<1>1. set.workspaces = <<>> /\ ThingsIn(set.workspaces) = {} /\ Apart(set.workspaces)
  BY HeldFacts DEF PlacedIn
<1>2. \A k \in D : /\ Held(new, k) = (Held(set, k) \ A) \cup b(k)
                   /\ Apart(new.monitors[k].workspaces)
                   /\ Origins(new.monitors[k].workspaces)
                        \subseteq Origins(set.monitors[k].workspaces) \cup Hosted(set, k)
  BY DEF Trade, Held
<1>3. ASSUME NEW k \in D PROVE AtHome(new, k)
  <2>1. AtHome(set, k)
    BY DEF PlacedIn
  <2>2. \A i \in D : new.monitors[i].output = set.monitors[i].output
    OBVIOUS
  <2> QED
    BY <1>2, <2>1, <2>2, HostedFacts DEF AtHome
<1>4. ASSUME NEW i \in D, NEW k \in D, i # k PROVE Held(new, i) \cap Held(new, k) = {}
  <2>1. Held(set, i) \cap Held(set, k) = {} /\ Held(set, i) \cap B = {} /\ Held(set, k) \cap B = {}
    BY <1>4, HeldFacts DEF PlacedIn
  <2>2. b(i) = {} \/ b(k) = {}
    BY <1>4
  <2>3. b(i) \subseteq B /\ b(k) \subseteq B
    OBVIOUS
  <2> HIDE DEF b
  <2> QED
    BY <1>2, <2>1, <2>2, <2>3
<1>5. PlacedIn(new)
  BY <1>1, <1>2, <1>3, <1>4 DEF PlacedIn
<1>6. ThingsOf(new) = (ThingsOf(set) \ A) \cup B
  <2>1. \A x : x \in ThingsOf(new) <=> \E k \in D : x \in Held(new, k)
    BY <1>1, HeldFacts
  <2>2. \A x : x \in ThingsOf(set) <=> \E k \in D : x \in Held(set, k)
    BY <1>1, HeldFacts
  <2>3. \A k \in D : \A x : x \in Held(new, k) <=> (x \in Held(set, k) /\ x \notin A) \/ x \in b(k)
    BY <1>2
  <2>4. \A x : x \in B <=> \E k \in D : x \in b(k)
    OBVIOUS
  <2> HIDE DEF b, D
  <2>5. \A x : x \in ThingsOf(new) <=> x \in (ThingsOf(set) \ A) \cup B
    BY <2>1, <2>2, <2>3, <2>4
  <2> QED
    BY <2>5
<1> QED
  BY <1>5, <1>6 DEF Carries

\* A monitor set with the monitor k replaced.
LEMMA PutMonitorFacts ==
  ASSUME NEW set \in MonitorSets, NEW k \in DOMAIN set.monitors, NEW n \in MonitorType
  PROVE  LET new == [set EXCEPT !.monitors[k] = n]
         IN /\ new \in MonitorSets /\ DOMAIN new.monitors = DOMAIN set.monitors
            /\ Len(new.monitors) = Len(set.monitors) /\ set.monitors # <<>> /\ new.monitors # <<>>
            /\ new.primary_idx = set.primary_idx /\ new.workspaces = set.workspaces
            /\ new.active_monitor_idx = set.active_monitor_idx
            /\ \A j \in DOMAIN set.monitors : new.monitors[j] = IF j = k THEN n ELSE set.monitors[j]
            /\ set.monitors[k] \in MonitorType
<1> DEFINE ms == [set.monitors EXCEPT ![k] = n]
           new == [set EXCEPT !.monitors[k] = n]
<1>1. set.monitors \in Seq(MonitorType)
  BY DEF MonitorSets
<1>2. /\ ms \in Seq(MonitorType) /\ DOMAIN ms = DOMAIN set.monitors /\ Len(ms) = Len(set.monitors)
      /\ \A j \in DOMAIN set.monitors : ms[j] = IF j = k THEN n ELSE set.monitors[j]
      /\ ms # <<>> /\ set.monitors # <<>> /\ set.monitors[k] \in MonitorType
  BY <1>1
<1>3. new = [set EXCEPT !.monitors = ms]
  BY DEF MonitorSets
<1> HIDE DEF ms
<1>4. /\ new \in MonitorSets /\ new.monitors = ms /\ new.primary_idx = set.primary_idx
      /\ new.active_monitor_idx = set.active_monitor_idx /\ new.workspaces = set.workspaces
  BY <1>2, <1>3 DEF MonitorSets
<1> HIDE DEF new
<1>5. /\ new \in MonitorSets /\ DOMAIN new.monitors = DOMAIN set.monitors
      /\ Len(new.monitors) = Len(set.monitors) /\ set.monitors # <<>> /\ new.monitors # <<>>
      /\ new.primary_idx = set.primary_idx /\ new.workspaces = set.workspaces
      /\ new.active_monitor_idx = set.active_monitor_idx
      /\ \A j \in DOMAIN set.monitors : new.monitors[j] = IF j = k THEN n ELSE set.monitors[j]
      /\ set.monitors[k] \in MonitorType
  BY <1>2, <1>4
<1> QED
  BY <1>5 DEF new

\* One monitor trades A for B, where A is nowhere else and B is new.
LEMMA OneCarries ==
  ASSUME NEW set, PlacedIn(set), NEW k \in DOMAIN set.monitors, NEW n, NEW A, NEW B, NEW O,
         Trades(set.monitors[k], n, A, B, O), O \subseteq Hosted(set, k),
         A \cap ThingsOf(set) \subseteq Held(set, k), B \cap ThingsOf(set) = {}
  PROVE  /\ Carries(set, [set EXCEPT !.monitors[k] = n], A, B)
         /\ Calm(set, [set EXCEPT !.monitors[k] = n])
<1> DEFINE new == [set EXCEPT !.monitors[k] = n]
<1>1. set \in MonitorSets /\ n \in MonitorType
  BY DEF PlacedIn, Trades
<1>2. /\ new \in MonitorSets /\ DOMAIN new.monitors = DOMAIN set.monitors /\ set.monitors # <<>>
      /\ new.primary_idx = set.primary_idx /\ new.workspaces = set.workspaces
      /\ \A j \in DOMAIN set.monitors : new.monitors[j] = IF j = k THEN n ELSE set.monitors[j]
  BY <1>1, PutMonitorFacts
<1> HIDE DEF new
<1>3. ASSUME NEW j \in DOMAIN set.monitors
      PROVE  /\ new.monitors[j].output = set.monitors[j].output
             /\ Trade(set.monitors[j].workspaces, new.monitors[j].workspaces, A,
                      IF j = k THEN B ELSE {}, Hosted(set, j))
  <2>1. CASE j = k
    BY <1>2, <2>1 DEF Trades, Trade, Hosted
  <2>2. CASE j # k
    <3>1. Held(set, j) \cap Held(set, k) = {} /\ Held(set, j) \subseteq ThingsOf(set)
          /\ Apart(set.monitors[j].workspaces)
      BY <2>2, HeldFacts DEF PlacedIn
    <3>2. Held(set, j) = (Held(set, j) \ A) \cup {}
      BY <3>1
    <3> QED
      BY <1>2, <2>2, <3>1, <3>2 DEF Trade, Held
  <2> QED
    BY <2>1, <2>2
<1>4. Carries(set, new, A, B)
  BY <1>2, <1>3, AllCarry
<1>5. Calm(set, new)
  BY <1>2 DEF Calm, Scrolling, Trades
<1> QED
  BY <1>4, <1>5 DEF new

\* One monitor keeps what it has.
LEMMA OnePreserved ==
  ASSUME NEW set, PlacedIn(set), NEW k \in DOMAIN set.monitors, NEW n, Preserves(set.monitors[k], n)
  PROVE  /\ Carries(set, [set EXCEPT !.monitors[k] = n], {}, {})
         /\ Calm(set, [set EXCEPT !.monitors[k] = n])
<1>1. Apart(set.monitors[k].workspaces)
  BY DEF PlacedIn
<1>2. Trades(set.monitors[k], n, {}, {}, {})
  BY <1>1 DEF Preserves, Trades, Same, Trade
<1>3. {} \subseteq Hosted(set, k) /\ {} \cap ThingsOf(set) \subseteq Held(set, k)
      /\ {} \cap ThingsOf(set) = {}
  OBVIOUS
<1> QED
  BY <1>2, <1>3, OneCarries
\* The focus moves nothing.
LEMMA FocusCarries ==
  ASSUME NEW set, PlacedIn(set), NEW k \in Nat
  PROVE  /\ Carries(set, [set EXCEPT !.active_monitor_idx = k], {}, {})
         /\ Calm(set, [set EXCEPT !.active_monitor_idx = k])
         /\ \A activate : Carries(set, Focus(set, k, activate), {}, {}) /\ Calm(set, Focus(set, k, activate))
<1> DEFINE new == [set EXCEPT !.active_monitor_idx = k]
<1>1. set \in MonitorSets
  BY DEF PlacedIn
<1>2. /\ new \in MonitorSets /\ new.monitors = set.monitors /\ new.primary_idx = set.primary_idx
      /\ new.workspaces = set.workspaces
  BY <1>1 DEF MonitorSets
<1> HIDE DEF new
<1>3. /\ ThingsOf(new) = ThingsOf(set) /\ Calm(set, new)
      /\ \A i : Held(new, i) = Held(set, i) /\ AtHome(new, i) = AtHome(set, i)
  BY <1>2 DEF ThingsOf, Held, AtHome, Hosted, Away, Plugged, Calm, Scrolling
<1>7. PlacedIn(new)
  BY <1>2, <1>3 DEF PlacedIn
<1>4. Carries(set, new, {}, {}) /\ Calm(set, new)
  BY <1>3, <1>7 DEF Carries
<1>5. \A activate : Focus(set, k, activate) = IF activate THEN new ELSE set
  BY DEF Focus, new
<1>6. Carries(set, set, {}, {}) /\ Calm(set, set)
  BY CarriesFacts
<1> QED
  BY <1>4, <1>5, <1>6 DEF new

\* Every monitor keeps what it has.
LEMMA AllPreserved ==
  ASSUME NEW set, PlacedIn(set), NEW ms, DOMAIN ms = DOMAIN set.monitors,
         ms = [k \in DOMAIN ms |-> ms[k]],
         \A k \in DOMAIN set.monitors :
           /\ ms[k] \in MonitorType /\ ms[k].output = set.monitors[k].output
           /\ Same(set.monitors[k].workspaces, ms[k].workspaces, {set.monitors[k].output})
  PROVE  LET new == [set EXCEPT !.monitors = ms]
         IN Carries(set, new, {}, {}) /\ new.monitors = ms
<1> DEFINE L == Len(set.monitors)
           new == [set EXCEPT !.monitors = ms]
<1>1. set \in MonitorSets /\ set.monitors \in Seq(MonitorType) /\ L \in Nat /\ DOMAIN set.monitors = 1 .. L
  BY DEF PlacedIn, MonitorSets
<1>2. ms \in Seq(MonitorType) /\ Len(ms) = L
  <2>1. \A k \in 1 .. L : ms[k] \in MonitorType
    BY <1>1
  <2> HIDE DEF L
  <2> QED
    BY <1>1, <2>1
<1>3. /\ new \in MonitorSets /\ new.monitors = ms /\ new.workspaces = set.workspaces
      /\ new.primary_idx = set.primary_idx
  BY <1>1, <1>2 DEF MonitorSets
<1>4. CASE set.monitors = <<>>
  <2>1. ms = set.monitors
    BY <1>1, <1>2, <1>4
  <2>2. new = set
    BY <1>1, <2>1 DEF MonitorSets
  <2> QED
    BY <1>3, <2>2, CarriesFacts
<1>5. CASE set.monitors # <<>>
  <2> HIDE DEF new
  <2>1. \A k \in DOMAIN set.monitors :
          /\ new.monitors[k].output = set.monitors[k].output
          /\ Trade(set.monitors[k].workspaces, new.monitors[k].workspaces, {},
                   IF k = 0 THEN {} ELSE {}, Hosted(set, k))
    BY <1>3 DEF PlacedIn, Same, Trade, Hosted
  <2>2. Carries(set, new, {}, {})
    BY <1>3, <1>5, <2>1, AllCarry
  <2> QED
    BY <1>3, <2>2 DEF new
<1> QED
  BY <1>4, <1>5

\* Gestures end (workspace_switch_gesture_end, dnd_scroll_gesture_end): nothing moves, and on
\* those monitors nothing scrolls any more.
LEMMA EndGesturesCarries ==
  ASSUME NEW set, PlacedIn(set), NEW S \in SUBSET DOMAIN set.monitors,
         NEW ended \in EndGestures(set, S)
  PROVE  /\ Carries(set, ended, {}, {}) /\ Calm(set, ended)
         /\ \A k \in S : ~Scrolls(ended.monitors[k])
         /\ DOMAIN ended.monitors = DOMAIN set.monitors
         /\ \A k \in DOMAIN set.monitors : Preserves(set.monitors[k], ended.monitors[k])
<1>1. PICK f \in [S -> 1 .. scenario.max] :
        /\ \A k \in S : f[k] \in DOMAIN set.monitors[k].workspaces
        /\ ended = [set EXCEPT !.monitors =
                      [k \in DOMAIN @ |-> IF k \in S THEN GestureEnd(@[k], f[k]) ELSE @[k]]]
  BY DEF EndGestures
<1> DEFINE ms == [k \in DOMAIN set.monitors |->
                    IF k \in S THEN GestureEnd(set.monitors[k], f[k]) ELSE set.monitors[k]]
<1>2. set \in MonitorSets /\ \A k \in DOMAIN set.monitors : set.monitors[k] \in MonitorType
  BY DEF PlacedIn, MonitorSets
<1>3. ended = [set EXCEPT !.monitors = ms]
  BY <1>1, <1>2 DEF MonitorSets
<1>4. ASSUME NEW k \in DOMAIN set.monitors
      PROVE  Preserves(set.monitors[k], ms[k]) /\ (k \in S => ~Scrolls(ms[k]))
  <2>1. CASE k \notin S
    BY <1>2, <2>1, PreservesFacts
  <2>2. CASE k \in S
    <3>1. DOMAIN set.monitors[k].workspaces = 1 .. Len(set.monitors[k].workspaces)
      BY <1>2, MonitorTypeFacts
    <3>2. f[k] \in Nat
      BY <1>1, <2>2, <3>1
    <3>3. Preserves(set.monitors[k], GestureEnd(set.monitors[k], f[k])) /\ ~Scrolls(GestureEnd(set.monitors[k], f[k]))
      BY <1>2, <3>2, SwitchPreserves
    <3> QED
      BY <2>2, <3>3
  <2> QED
    BY <2>1, <2>2
<1>5. DOMAIN ms = DOMAIN set.monitors /\ ms = [k \in DOMAIN ms |-> ms[k]]
  OBVIOUS
<1> HIDE DEF ms
<1>6. \A k \in DOMAIN set.monitors :
        /\ ms[k] \in MonitorType /\ ms[k].output = set.monitors[k].output
        /\ Same(set.monitors[k].workspaces, ms[k].workspaces, {set.monitors[k].output})
        /\ Scrolls(ms[k]) => Scrolls(set.monitors[k])
  BY <1>4 DEF Preserves
<1>7. Carries(set, ended, {}, {}) /\ ended.monitors = ms
  BY <1>3, <1>5, <1>6, AllPreserved
<1>8. Calm(set, ended)
  BY <1>5, <1>6, <1>7 DEF Calm, Scrolling
<1> QED
  BY <1>4, <1>5, <1>7, <1>8

\* The end of a drag-and-drop scroll moves nothing and leaves no scroll.
LEMMA DndEndedCarries ==
  ASSUME NEW set, PlacedIn(set), NEW ended \in DndEnded(set)
  PROVE  Carries(set, ended, {}, {}) /\ ~Scrolling(ended)
<1>1. Swiping(set, {"DndScroll"}) \in SUBSET DOMAIN set.monitors
      /\ ended \in EndGestures(set, Swiping(set, {"DndScroll"}))
  BY DEF Swiping, DndEnded
<1>2. /\ Carries(set, ended, {}, {}) /\ DOMAIN ended.monitors = DOMAIN set.monitors
      /\ \A k \in Swiping(set, {"DndScroll"}) : ~Scrolls(ended.monitors[k])
      /\ \A k \in DOMAIN set.monitors : Preserves(set.monitors[k], ended.monitors[k])
  BY <1>1, EndGesturesCarries
<1>3. ASSUME NEW k \in DOMAIN ended.monitors, Scrolls(ended.monitors[k]) PROVE FALSE
  <2>1. k \in DOMAIN set.monitors /\ Scrolls(set.monitors[k])
    BY <1>2, <1>3 DEF Preserves
  <2>2. k \in Swiping(set, {"DndScroll"})
    BY <2>1 DEF Swiping, Scrolls
  <2> QED
    BY <1>2, <1>3, <2>2
<1> QED
  BY <1>2, <1>3 DEF Scrolling

\* Drag-and-drop scrolls begin (dnd_scroll_gesture_begin).
LEMMA DndBegunCarries ==
  ASSUME NEW set, PlacedIn(set)
  PROVE  Carries(set, DndBegun(set), {}, {})
<1> DEFINE ms == [k \in DOMAIN set.monitors |-> DndBegin(set.monitors[k], overview_open)]
<1>1. set \in MonitorSets /\ \A k \in DOMAIN set.monitors : set.monitors[k] \in MonitorType
  BY DEF PlacedIn, MonitorSets
<1>2. DndBegun(set) = [set EXCEPT !.monitors = ms]
  BY <1>1 DEF DndBegun, MonitorSets
<1>3. ASSUME NEW k \in DOMAIN set.monitors
      PROVE  /\ ms[k] \in MonitorType /\ ms[k].output = set.monitors[k].output
             /\ Same(set.monitors[k].workspaces, ms[k].workspaces, {set.monitors[k].output})
  <2>1. ms[k] = DndBegin(set.monitors[k], overview_open) /\ set.monitors[k] \in MonitorType
    BY <1>1
  <2> HIDE DEF ms
  <2>2. /\ ms[k] \in MonitorType /\ ms[k].output = set.monitors[k].output
        /\ ms[k].workspaces = set.monitors[k].workspaces
    <3> DEFINE m == set.monitors[k]
    <3>1. \A open : /\ DndBegin(m, open) \in MonitorType /\ DndBegin(m, open).output = m.output
                    /\ DndBegin(m, open).workspaces = m.workspaces
      BY <2>1, SwitchPreserves
    <3> HIDE DEF m
    <3>2. ms[k] = DndBegin(m, overview_open)
      BY <2>1 DEF m
    <3>3. /\ ms[k] \in MonitorType /\ ms[k].output = m.output
          /\ ms[k].workspaces = m.workspaces
      BY <3>1, <3>2
    <3> QED
      BY <3>3 DEF m
  <2> QED
    BY <2>2, SameFacts
<1>4. DOMAIN ms = DOMAIN set.monitors /\ ms = [k \in DOMAIN ms |-> ms[k]]
  OBVIOUS
<1> HIDE DEF ms
<1>5. Carries(set, [set EXCEPT !.monitors = ms], {}, {})
  BY <1>3, <1>4, AllPreserved
<1> QED
  BY <1>2, <1>5

\* The workspaces without an output change.
LEMMA NoOutputsCarries ==
  ASSUME NEW set, PlacedIn(set), set.monitors = <<>>, NEW wss \in Seq(Workspaces), NEW A, NEW B, NEW O,
         Trade(set.workspaces, wss, A, B, O)
  PROVE  Carries(set, [set EXCEPT !.workspaces = wss], A, B) /\ Calm(set, [set EXCEPT !.workspaces = wss])
<1> DEFINE new == [set EXCEPT !.workspaces = wss]
<1>1. set \in MonitorSets
  BY DEF PlacedIn
<1>2. /\ new \in MonitorSets /\ new.monitors = <<>> /\ new.workspaces = wss
      /\ DOMAIN set.monitors = {} /\ DOMAIN new.monitors = {}
  BY <1>1 DEF MonitorSets
<1> HIDE DEF new
<1>3. ThingsOf(set) = ThingsIn(set.workspaces) /\ ThingsOf(new) = ThingsIn(wss)
  BY <1>2 DEF ThingsOf
<1>4. PlacedIn(new) /\ Calm(set, new)
  BY <1>2 DEF PlacedIn, Trade, Calm, Scrolling
<1>5. Carries(set, new, A, B) /\ Calm(set, new)
  BY <1>3, <1>4 DEF Carries, Trade
<1> QED
  BY <1>5 DEF new

\* A workspace in a list is replaced.
LEMMA PutInListTrade ==
  ASSUME NEW s \in Seq(Workspaces), NEW i \in 1 .. Len(s), NEW ws \in Workspaces, Apart(s),
         Things(ws) \cap (ThingsIn(s) \ Things(s[i])) = {}
  PROVE  /\ [s EXCEPT ![i] = ws] \in Seq(Workspaces)
         /\ Trade(s, [s EXCEPT ![i] = ws], Things(s[i]), Things(ws), {ws.original_output})
<1> DEFINE t == [s EXCEPT ![i] = ws]
<1>1. t \in Seq(Workspaces) /\ Len(t) = Len(s) /\ \A k \in 1 .. Len(s) : t[k] = IF k = i THEN ws ELSE s[k]
  OBVIOUS
<1> HIDE DEF t
<1>2. Trade(s, t, Things(s[i]), Things(ws), {ws.original_output})
  BY <1>1, PutThings
<1> QED
  BY <1>1, <1>2 DEF t

\* Where there is no place there is no monitor.
LEMMA NoPlaceFacts ==
  ASSUME NEW s \in Seq(Workspaces), NEW w
  PROVE  /\ PlaceOf(s, w) = 0 => WindowThing(w) \notin ThingsIn(s)
         /\ PlaceOf(s, w) # 0 => PlaceOf(s, w) \in 1 .. Len(s) /\ w \in s[PlaceOf(s, w)].windows
<1> DEFINE P == {i \in 1 .. Len(s) : w \in s[i].windows}
<1>1. P \in SUBSET Nat /\ IsFiniteSet(P)
  <2>1. Len(s) \in Nat
    OBVIOUS
  <2>2. IsFiniteSet(1 .. Len(s))
    BY <2>1, FS_Interval
  <2>3. P \in SUBSET (1 .. Len(s)) /\ 1 .. Len(s) \subseteq Nat
    BY <2>1
  <2> HIDE DEF P
  <2> QED
    BY <2>2, <2>3, FS_Subset
<1>2. P # {} => Min(P) \in P /\ Min(P) # 0
  <2>1. P # {} => Min(P) \in P
    BY <1>1, SmallestFacts
  <2>2. 0 \notin P
    OBVIOUS
  <2> QED
    BY <2>1, <2>2
<1>3. PlaceOf(s, w) = 0 => P = {}
  BY <1>2 DEF PlaceOf
<1>4. P = {} => WindowThing(w) \notin ThingsIn(s)
  <2> SUFFICES ASSUME P = {}, WindowThing(w) \in ThingsIn(s) PROVE FALSE
    OBVIOUS
  <2>1. PICK i \in DOMAIN s : WindowThing(w) \in Things(s[i])
    BY InFacts
  <2>2. w \in s[i].windows /\ i \in 1 .. Len(s)
    BY <2>1, ThingsFacts
  <2> QED
    BY <2>2
<1>5. PlaceOf(s, w) # 0 => PlaceOf(s, w) \in P
  BY <1>2 DEF PlaceOf
<1> QED
  BY <1>3, <1>4, <1>5

\* A window leaves the workspaces without an output, and its workspace goes if nothing is left.
LEMMA LeaveListTrade ==
  ASSUME NEW s \in Seq(Workspaces), Apart(s), NEW w
  PROVE  LET i == PlaceOf(s, w)
             left == [s EXCEPT ![i].windows = @ \ {w}]
             t == CASE i = 0 -> s
                    [] i # 0 /\ HasWindowsOrName(left[i]) -> left
                    [] OTHER -> RemoveAt(s, i)
         IN t \in Seq(Workspaces) /\ Trade(s, t, WindowThings({w}), {}, Origins(s))
<1> DEFINE i == PlaceOf(s, w)
           ws == [s[i] EXCEPT !.windows = s[i].windows \ {w}]
           left == [s EXCEPT ![i].windows = @ \ {w}]
           t == CASE i = 0 -> s
                  [] i # 0 /\ HasWindowsOrName(left[i]) -> left
                  [] OTHER -> RemoveAt(s, i)
<1>1. i = 0 \/ (i \in 1 .. Len(s) /\ w \in s[i].windows)
  BY NoPlaceFacts
<1>2. CASE i = 0
  <2>1. WindowThing(w) \notin ThingsIn(s)
    BY <1>2, NoPlaceFacts
  <2>2. ThingsIn(s) = (ThingsIn(s) \ WindowThings({w})) \cup {}
    BY <2>1 DEF WindowThings
  <2> QED
    BY <1>2, <2>2 DEF Trade
<1>3. CASE i # 0
  <2>1. /\ i \in 1 .. Len(s) /\ w \in s[i].windows /\ s[i] \in Workspaces
        /\ Things(s[i]) \subseteq ThingsIn(s) /\ s[i].original_output \in Origins(s)
    BY <1>1, <1>3, InFacts
  <2>2. left = [s EXCEPT ![i] = ws] /\ left[i] = ws
    <3>1. left = [s EXCEPT ![i] = ws]
      OBVIOUS
    <3> HIDE DEF i, ws, left
    <3>2. i \in DOMAIN s
      BY <2>1
    <3> QED
      BY <3>1, <3>2
  <2>3. ws \in Workspaces /\ ws.original_output = s[i].original_output
    BY <2>1 DEF Workspaces
  <2>4. Things(ws) = Things(s[i]) \ WindowThings({w})
    BY <2>1, WindowThingsFacts
  <2>5. WindowThings({w}) \subseteq Things(s[i])
    <3>1. {w} \subseteq s[i].windows
      BY <2>1
    <3> QED
      BY <3>1, WindowThingsFacts
  <2>6. t = IF HasWindowsOrName(ws) THEN [s EXCEPT ![i] = ws] ELSE RemoveAt(s, i)
    BY <1>3, <2>2
  <2> HIDE DEF i, ws, t, left
  <2>7. (ThingsIn(s) \ Things(s[i])) \cup Things(ws) = ThingsIn(s) \ WindowThings({w})
    BY <2>1, <2>4, <2>5
  <2>8. CASE HasWindowsOrName(ws)
    <3>1. /\ t \in Seq(Workspaces)
          /\ Trade(s, t, Things(s[i]), Things(ws), {ws.original_output})
      BY <2>1, <2>3, <2>4, <2>6, <2>8, PutInListTrade
    <3> QED
      BY <2>1, <2>3, <2>7, <3>1 DEF Trade, t, i, left
  <2>9. CASE ~HasWindowsOrName(ws)
    <3>1. Things(ws) = {}
      BY <2>9, ThingsFacts
    <3>2. t \in Seq(Workspaces) /\ Trade(s, t, Things(s[i]), {}, Origins(s))
      <4>1. Deleted(Workspaces, s, i, RemoveAt(s, i))
        BY <2>1, RemoveAtFacts
      <4> QED
        BY <2>1, <2>6, <2>9, <4>1, RemoveThings DEF Deleted
    <3> QED
      BY <2>7, <3>1, <3>2 DEF Trade, t, i, left
  <2> QED
    BY <2>8, <2>9
<1> QED
  BY <1>2, <1>3

\* A window leaves the layout (remove_window).
LEMMA WithoutWindowCarries ==
  ASSUME NEW conf, NEW set, InGoodOrder(set, conf), PlacedIn(set), NEW w
  PROVE  /\ Carries(set, WithoutWindow(set, w), WindowThings({w}), {})
         /\ Calm(set, WithoutWindow(set, w))
<1> DEFINE L == Len(set.monitors)
           removed(m) == IF PlaceOf(m.workspaces, w) = 0 THEN m
                         ELSE RemoveWindow(m, PlaceOf(m.workspaces, w), w)
           ms == [k \in DOMAIN set.monitors |-> removed(set.monitors[k])]
           i == PlaceOf(set.workspaces, w)
           left == [set.workspaces EXCEPT ![i].windows = @ \ {w}]
           wss == CASE i = 0 -> set.workspaces
                    [] i # 0 /\ HasWindowsOrName(left[i]) -> left
                    [] OTHER -> RemoveAt(set.workspaces, i)
           new == [set EXCEPT !.monitors = ms, !.workspaces = wss]
           A == WindowThings({w})
<1>1. /\ set \in MonitorSets /\ set.monitors \in Seq(MonitorType) /\ L \in Nat /\ DOMAIN set.monitors = 1 .. L
      /\ set.workspaces \in Seq(Workspaces) /\ Apart(set.workspaces)
      /\ \A k \in 1 .. L : /\ set.monitors[k] \in MonitorType /\ Apart(set.monitors[k].workspaces)
                           /\ set.monitors[k].active \in 1 .. Len(set.monitors[k].workspaces)
  BY DEF InGoodOrder, MonitorSets, PlacedIn, Tidy, Ends
<1>2. WithoutWindow(set, w) = new
  BY <1>1 DEF WithoutWindow, PlaceOf, SelectInSeq, MonitorSets
<1>3. wss \in Seq(Workspaces) /\ Trade(set.workspaces, wss, A, {}, Origins(set.workspaces))
  BY <1>1, LeaveListTrade
<1>4. set.monitors # <<>> => wss = <<>>
  <2> SUFFICES ASSUME set.monitors # <<>> PROVE wss = <<>>
    OBVIOUS
  <2>1. set.workspaces = <<>>
    BY DEF PlacedIn
  <2>2. i = 0
    <3>1. i = 0 \/ i \in 1 .. Len(set.workspaces)
      BY <1>1, NoPlaceFacts
    <3> HIDE DEF i
    <3> QED
      BY <2>1, <3>1
  <2> QED
    BY <2>1, <2>2
<1>5. ASSUME NEW k \in 1 .. L PROVE Trades(set.monitors[k], removed(set.monitors[k]), A, {}, {})
  <2> DEFINE m == set.monitors[k]
             j == PlaceOf(m.workspaces, w)
  <2>1. m \in MonitorType /\ Apart(m.workspaces) /\ m.active \in 1 .. Len(m.workspaces)
    BY <1>1
  <2> HIDE DEF m
  <2>2. m.workspaces \in Seq(Workspaces)
    BY <2>1, MonitorTypeFacts
  <2>3. /\ j = 0 => WindowThing(w) \notin ThingsIn(m.workspaces)
        /\ j # 0 => j \in 1 .. Len(m.workspaces) /\ w \in m.workspaces[j].windows
    BY <2>2, NoPlaceFacts
  <2>4. removed(m) = IF j = 0 THEN m ELSE RemoveWindow(m, j, w)
    OBVIOUS
  <2> HIDE DEF j, removed
  <2>5. CASE j = 0
    <3>1. ThingsIn(m.workspaces) = (ThingsIn(m.workspaces) \ A) \cup {}
      BY <2>3, <2>5 DEF WindowThings
    <3> QED
      BY <2>1, <2>4, <2>5, <3>1 DEF Trades, Trade, m
  <2>6. CASE j # 0
    <3>1. Trades(m, RemoveWindow(m, j, w), A, {}, {})
      BY <2>1, <2>3, <2>6, RemoveWindowTrades
    <3> QED
      BY <2>4, <2>6, <3>1 DEF m
  <2> QED
    BY <2>5, <2>6
<1> HIDE DEF removed, A
<1>6. ms \in Seq(MonitorType) /\ Len(ms) = L /\ \A k \in 1 .. L : ms[k] = removed(set.monitors[k])
  <2>1. \A k \in 1 .. L : removed(set.monitors[k]) \in MonitorType
    BY <1>5 DEF Trades
  <2> HIDE DEF L
  <2> QED
    BY <1>1, <2>1
<1> HIDE DEF ms, wss
<1>7. /\ new \in MonitorSets /\ new.monitors = ms /\ new.workspaces = wss
      /\ new.primary_idx = set.primary_idx
  BY <1>1, <1>3, <1>6 DEF MonitorSets
<1>8. CASE set.monitors = <<>>
  <2>1. ms = set.monitors
    BY <1>1, <1>6, <1>8
  <2>2. new = [set EXCEPT !.workspaces = wss]
    BY <1>1, <2>1 DEF MonitorSets
  <2>3. /\ Carries(set, [set EXCEPT !.workspaces = wss], A, {})
        /\ Calm(set, [set EXCEPT !.workspaces = wss])
    BY <1>3, <1>8, NoOutputsCarries
  <2> QED
    BY <1>2, <2>2, <2>3 DEF A
<1>9. CASE set.monitors # <<>>
  <2> HIDE DEF new
  <2>1. new.workspaces = set.workspaces
    BY <1>4, <1>7, <1>9 DEF PlacedIn
  <2>2. \A k \in DOMAIN set.monitors :
          /\ new.monitors[k].output = set.monitors[k].output
          /\ Trade(set.monitors[k].workspaces, new.monitors[k].workspaces, A,
                   IF k = 0 THEN {} ELSE {}, Hosted(set, k))
          /\ Scrolls(new.monitors[k]) => Scrolls(set.monitors[k])
    BY <1>1, <1>5, <1>6, <1>7 DEF Trades, Trade, Hosted
  <2>3. DOMAIN new.monitors = DOMAIN set.monitors
    BY <1>1, <1>6, <1>7
  <2>4. Carries(set, new, A, {})
    BY <1>7, <1>9, <2>1, <2>2, <2>3, AllCarry
  <2>5. Calm(set, new)
    BY <2>2, <2>3 DEF Calm, Scrolling
  <2> QED
    BY <1>2, <2>4, <2>5 DEF A
<1> QED
  BY <1>8, <1>9

\* Monitor k of a well-placed set.
LEMMA PlacedMonitor ==
  ASSUME NEW set, PlacedIn(set), NEW k \in DOMAIN set.monitors
  PROVE  /\ set \in MonitorSets /\ set.monitors[k] \in MonitorType /\ Apart(set.monitors[k].workspaces)
         /\ set.monitors[k].output \in Outputs
         /\ ThingsIn(set.monitors[k].workspaces) \subseteq ThingsOf(set)
         /\ k \in Nat /\ set.monitors # <<>>
<1>1. set.monitors \in Seq(MonitorType) /\ set \in MonitorSets
  BY DEF PlacedIn, MonitorSets
<1>2. set.monitors[k] \in MonitorType /\ k \in Nat /\ set.monitors # <<>>
  BY <1>1
<1>3. Apart(set.monitors[k].workspaces) /\ ThingsIn(set.monitors[k].workspaces) \subseteq ThingsOf(set)
  BY HeldFacts DEF PlacedIn, Held
<1> QED
  BY <1>1, <1>2, <1>3, MonitorTypeFacts

\* Windows are carried from one workspace to another.
LEMMA CarriedCarries ==
  ASSUME NEW set, PlacedIn(set),
         NEW k \in DOMAIN set.monitors, NEW i \in 1 .. Len(set.monitors[k].workspaces),
         NEW l \in DOMAIN set.monitors, NEW j \in 1 .. Len(set.monitors[l].workspaces),
         NEW W \in SUBSET Windows, W \subseteq set.monitors[k].workspaces[i].windows, NEW activate
  PROVE  LET new == Carried(set, <<k, i>>, <<l, j>>, W, activate)
         IN /\ Carries(set, new, {}, {}) /\ Calm(set, new)
            /\ DOMAIN new.monitors = DOMAIN set.monitors
<1> DEFINE m == set.monitors[k]
           A == WindowThings(W)
           g == [m EXCEPT !.workspaces[i].windows = @ \ W]
           gone == [set EXCEPT !.monitors[k] = g]
           n == AddWindows(gone.monitors[l], j, W, activate)
           there == [gone EXCEPT !.monitors[l] = n]
           new == Focus(there, l, activate)
<1>1. /\ set \in MonitorSets /\ m \in MonitorType /\ Apart(m.workspaces) /\ l \in Nat
      /\ ThingsIn(m.workspaces) \subseteq ThingsOf(set)
  BY PlacedMonitor
<1>2. Carried(set, <<k, i>>, <<l, j>>, W, activate) = new
  <2>1. [set EXCEPT !.monitors[k].workspaces[i].windows = @ \ W] = gone
    BY <1>1 DEF MonitorSets, MonitorType
  <2>2. [gone EXCEPT !.monitors[l] = AddWindows(@, j, W, activate)] = there
    <3>1. gone.monitors = [set.monitors EXCEPT ![k] = g]
      BY <1>1 DEF MonitorSets
    <3> HIDE DEF g
    <3> QED
      BY <1>1, <3>1 DEF MonitorSets
  <2> HIDE DEF gone, there
  <2> QED
    BY <2>1, <2>2 DEF Carried
<1>3. Trades(m, g, A, {}, {}) /\ A \subseteq ThingsIn(m.workspaces)
  <2>1. m.workspaces[i] \in Workspaces /\ Things(m.workspaces[i]) \subseteq ThingsIn(m.workspaces)
    BY <1>1, OneInFacts
  <2>2. A \subseteq Things(m.workspaces[i])
    BY WindowThingsFacts
  <2>3. Trades(m, g, A, {}, {})
    BY <1>1, LeaveTrades
  <2> HIDE DEF A, m, g
  <2> QED
    BY <2>1, <2>2, <2>3
<1>4. \A x \in DOMAIN set.monitors :
        j \in 1 .. Len(set.monitors[x].workspaces) => j \in 1 .. Len(gone.monitors[x].workspaces)
  <2>1. Len(g.workspaces) = Len(m.workspaces) /\ g \in MonitorType
    <3>1. m.workspaces \in Seq(Workspaces)
      BY <1>1, MonitorTypeFacts
    <3>2. g.workspaces = [m.workspaces EXCEPT ![i].windows = @ \ W]
      BY <1>1 DEF MonitorType
    <3>3. Len(g.workspaces) = Len(m.workspaces)
      BY <3>1, <3>2
    <3> QED
      BY <1>3, <3>3 DEF Trades
  <2> HIDE DEF g
  <2>2. \A x \in DOMAIN set.monitors : gone.monitors[x] = IF x = k THEN g ELSE set.monitors[x]
    BY <1>1, <2>1, PutMonitorFacts
  <2> QED
    BY <2>1, <2>2
<1> HIDE DEF g
<1>5. /\ Carries(set, gone, A, {}) /\ Calm(set, gone)
      /\ DOMAIN gone.monitors = DOMAIN set.monitors /\ A \subseteq ThingsOf(set)
      /\ \A x \in DOMAIN set.monitors : gone.monitors[x] = IF x = k THEN g ELSE set.monitors[x]
  <2>1. {} \subseteq Hosted(set, k) /\ A \cap ThingsOf(set) \subseteq Held(set, k) /\ {} \cap ThingsOf(set) = {}
    BY <1>3 DEF Held
  <2>2. g \in MonitorType
    BY <1>3 DEF Trades
  <2>3. DOMAIN gone.monitors = DOMAIN set.monitors
        /\ \A x \in DOMAIN set.monitors : gone.monitors[x] = IF x = k THEN g ELSE set.monitors[x]
    BY <1>1, <2>2, PutMonitorFacts
  <2> HIDE DEF A, m, gone
  <2>4. Carries(set, gone, A, {}) /\ Calm(set, gone)
    BY <1>3, <2>1, OneCarries DEF m, gone
  <2> QED
    BY <1>1, <1>3, <2>3, <2>4
<1> HIDE DEF m, A, gone
<1>6. PlacedIn(gone) /\ A \cap ThingsOf(gone) = {} /\ l \in DOMAIN gone.monitors
  BY <1>5 DEF Carries
<1>7. /\ gone \in MonitorSets /\ gone.monitors[l] \in MonitorType /\ Apart(gone.monitors[l].workspaces)
      /\ ThingsIn(gone.monitors[l].workspaces) \subseteq ThingsOf(gone)
  BY <1>6, PlacedMonitor
<1>8. j \in 1 .. Len(gone.monitors[l].workspaces)
  BY <1>4
<1>9. Trades(gone.monitors[l], n, {}, A, {})
  <2>1. A \cap ThingsIn(gone.monitors[l].workspaces) = {}
    BY <1>6, <1>7
  <2> QED
    BY <1>7, <1>8, <2>1, AddWindowsTrades DEF A
<1> HIDE DEF n
<1>10. Carries(gone, there, {}, A) /\ Calm(gone, there) /\ DOMAIN there.monitors = DOMAIN set.monitors
  <2>1. {} \subseteq Hosted(gone, l) /\ {} \cap ThingsOf(gone) \subseteq Held(gone, l)
    OBVIOUS
  <2>2. n \in MonitorType
    BY <1>9 DEF Trades
  <2>3. DOMAIN there.monitors = DOMAIN gone.monitors
    BY <1>6, <1>7, <2>2, PutMonitorFacts
  <2>4. Carries(gone, there, {}, A) /\ Calm(gone, there)
    BY <1>6, <1>9, <2>1, OneCarries
  <2> QED
    BY <1>5, <2>3, <2>4
<1> HIDE DEF there
<1>11. Carries(set, there, {}, {}) /\ Calm(set, there)
  BY <1>5, <1>10, CarriesFacts
<1>12. Carries(there, new, {}, {}) /\ Calm(there, new)
  BY <1>1, <1>11, FocusCarries DEF Carries
<1>13. DOMAIN new.monitors = DOMAIN set.monitors
  <2>1. there \in MonitorSets
    BY <1>11 DEF Carries, PlacedIn
  <2>2. new.monitors = there.monitors
    BY <2>1 DEF Focus, MonitorSets
  <2> QED
    BY <1>10, <2>2
<1> HIDE DEF new
<1> QED
  BY <1>2, <1>11, <1>12, <1>13, CarriesFacts

\* A workspace is sent to another output (move_workspace_to_output_by_id).
LEMMA SentAwayCarries ==
  ASSUME NEW set, PlacedIn(set), NEW j \in DOMAIN set.monitors, Ends(set.monitors[j]),
         NEW i \in 1 .. Len(set.monitors[j].workspaces),
         NEW k \in DOMAIN set.monitors, k # j,
         NEW idx \in 1 .. Len(set.monitors[k].workspaces) + 1, set.monitors[k].workspaces # <<>>,
         NEW activate
  PROVE  LET ws == SentWorkspace(set.monitors[j].workspaces[i], set.monitors[k].output)
             removed == [set EXCEPT !.monitors[j] = RemoveWorkspaceByIdx(set.monitors[j], i)]
             new == [removed EXCEPT !.monitors[k] = InsertWorkspace(set.monitors[k], ws, idx, activate)]
         IN Carries(set, new, {}, {}) /\ Calm(set, new)
<1> DEFINE m == set.monitors[j]
           l == set.monitors[k]
           ws == SentWorkspace(m.workspaces[i], l.output)
           A == Things(m.workspaces[i])
           r == RemoveWorkspaceByIdx(m, i)
           removed == [set EXCEPT !.monitors[j] = r]
           n == InsertWorkspace(l, ws, idx, activate)
           new == [removed EXCEPT !.monitors[k] = n]
<1>1. /\ set \in MonitorSets /\ m \in MonitorType /\ Apart(m.workspaces) /\ l \in MonitorType
      /\ ThingsIn(m.workspaces) \subseteq ThingsOf(set) /\ l.output \in Outputs
  BY PlacedMonitor
<1>2. /\ m.workspaces[i] \in Workspaces /\ A \subseteq ThingsIn(m.workspaces)
      /\ A \subseteq ThingsOf(set)
  BY <1>1, OneInFacts
<1>3. ws \in Workspaces /\ Things(ws) = A /\ ws.original_output = l.output
  <2> DEFINE v == m.workspaces[i]
  <2>1. v \in Workspaces /\ l.output \in Outputs \cup {NoOutput} /\ ws = [v EXCEPT !.original_output = l.output]
    BY <1>1, <1>2 DEF SentWorkspace
  <2> HIDE DEF v, ws, l
  <2>2. ws \in Workspaces /\ ws.windows = v.windows /\ ws.name = v.name /\ ws.original_output = l.output
    BY <2>1 DEF Workspaces
  <2> QED
    BY <2>2 DEF Things, v
<1>4. Trades(m, r, A, {}, {})
  BY <1>1, RemoveWorkspaceByIdxTrades
<1> HIDE DEF ws, r
<1>5. /\ Carries(set, removed, A, {}) /\ Calm(set, removed)
      /\ DOMAIN removed.monitors = DOMAIN set.monitors /\ removed.monitors[k] = l
  <2>1. {} \subseteq Hosted(set, j) /\ A \cap ThingsOf(set) \subseteq Held(set, j) /\ {} \cap ThingsOf(set) = {}
    BY <1>2 DEF Held
  <2>2. r \in MonitorType
    BY <1>4 DEF Trades
  <2>3. DOMAIN removed.monitors = DOMAIN set.monitors /\ removed.monitors[k] = l
    BY <1>1, <2>2, PutMonitorFacts
  <2> HIDE DEF A, m, removed
  <2>4. Carries(set, removed, A, {}) /\ Calm(set, removed)
    BY <1>4, <2>1, OneCarries DEF m, removed
  <2> QED
    BY <2>3, <2>4
<1> HIDE DEF m, A, removed, l
<1>6. PlacedIn(removed) /\ A \cap ThingsOf(removed) = {} /\ k \in DOMAIN removed.monitors
  BY <1>5 DEF Carries
<1>7. Apart(l.workspaces) /\ ThingsIn(l.workspaces) \subseteq ThingsOf(removed)
  BY <1>5, <1>6, PlacedMonitor
<1>8. Trades(l, n, {}, A, {l.output})
  <2>1. Things(ws) \cap ThingsIn(l.workspaces) = {}
    BY <1>3, <1>6, <1>7
  <2>2. idx \in 1 .. Len(l.workspaces) + 1 /\ l.workspaces # <<>>
    BY DEF l
  <2>3. Trades(l, n, {}, Things(ws), {ws.original_output})
    BY <1>1, <1>3, <1>7, <2>1, <2>2, InsertWorkspaceTrades
  <2> HIDE DEF n
  <2> QED
    BY <1>3, <2>3
<1> HIDE DEF n
<1>9. Carries(removed, new, {}, A) /\ Calm(removed, new)
  <2> DEFINE O == {l.output}
  <2>1. O \subseteq Hosted(removed, k) /\ {} \cap ThingsOf(removed) \subseteq Held(removed, k)
    BY <1>5 DEF Hosted
  <2>2. Trades(removed.monitors[k], n, {}, A, O)
    BY <1>5, <1>8
  <2> HIDE DEF O
  <2> QED
    BY <1>6, <2>1, <2>2, OneCarries
<1> HIDE DEF new
<1>10. Carries(set, new, {}, {}) /\ Calm(set, new)
  BY <1>2, <1>5, <1>9, CarriesFacts
<1> QED
  BY <1>10 DEF new, n, removed, r, ws, l, m

\* A monitor is added that holds only workspaces of its own (add_output).
LEMMA AddedMonitorCarries ==
  ASSUME NEW set, PlacedIn(set), set.monitors # <<>>, NEW n \in MonitorType,
         set.primary_idx \in DOMAIN set.monitors,
         \A k \in DOMAIN set.monitors : /\ set.monitors[k].output # n.output
                                        /\ n.output \notin Origins(set.monitors[k].workspaces),
         Apart(n.workspaces), Origins(n.workspaces) \subseteq {n.output},
         ThingsIn(n.workspaces) \cap ThingsOf(set) = {}
  PROVE  LET new == [set EXCEPT !.monitors = set.monitors \o <<n>>]
         IN /\ Carries(set, new, {}, ThingsIn(n.workspaces))
            /\ (Scrolling(new) => Scrolling(set) \/ Scrolls(n))
<1> DEFINE L == Len(set.monitors)
           all == set.monitors \o <<n>>
           new == [set EXCEPT !.monitors = all]
           B == ThingsIn(n.workspaces)
<1>1. /\ set \in MonitorSets /\ set.monitors \in Seq(MonitorType) /\ L \in Nat \ {0}
      /\ DOMAIN set.monitors = 1 .. L /\ set.workspaces = <<>> /\ ThingsIn(<<>>) = {}
      /\ set.primary_idx \in 1 .. L
  BY NothingFacts DEF PlacedIn, MonitorSets
<1>2. all \in Seq(MonitorType) /\ Len(all) = L + 1 /\ DOMAIN all = 1 .. L + 1
      /\ \A k \in 1 .. L + 1 : all[k] = IF k <= L THEN set.monitors[k] ELSE n
  <2>1. <<n>> \in Seq(MonitorType) /\ Len(<<n>>) = 1 /\ <<n>>[1] = n
    OBVIOUS
  <2>2. Joined(MonitorType, set.monitors, <<n>>, all)
    BY <1>1, <2>1, JoinedFacts
  <2> HIDE DEF all, L
  <2>3. all \in Seq(MonitorType) /\ Len(all) = L + 1
        /\ \A k \in 1 .. L + 1 : all[k] = IF k <= L THEN set.monitors[k] ELSE <<n>>[k - L]
    BY <2>1, <2>2 DEF Joined, L
  <2>4. \A k \in 1 .. L + 1 : ~(k <= L) => k - L = 1
    BY <1>1
  <2> QED
    BY <1>1, <2>1, <2>3, <2>4
<1> HIDE DEF all
<1>3. /\ new \in MonitorSets /\ new.monitors = all /\ new.workspaces = <<>>
      /\ new.primary_idx = set.primary_idx
  BY <1>1, <1>2 DEF MonitorSets
<1> HIDE DEF new, L
<1>4. /\ DOMAIN new.monitors = 1 .. L + 1 /\ new.monitors[L + 1] = n /\ L + 1 \notin 1 .. L
      /\ \A k \in 1 .. L + 1 : k \in 1 .. L \/ k = L + 1
      /\ \A k \in 1 .. L : new.monitors[k] = set.monitors[k] /\ k \in 1 .. L + 1
  BY <1>1, <1>2, <1>3
<1>5. /\ \A k \in 1 .. L : Held(new, k) = Held(set, k)
      /\ Held(new, L + 1) = B /\ L + 1 \in 1 .. L + 1
  BY <1>1, <1>4 DEF Held
<1>6. Plugged(new) = Plugged(set) \cup {n.output}
  <2>1. \A x : x \in Plugged(new) <=> \E k \in 1 .. L + 1 : x = new.monitors[k].output
    BY <1>4 DEF Plugged
  <2>2. \A x : x \in Plugged(set) <=> \E k \in 1 .. L : x = set.monitors[k].output
    BY <1>1 DEF Plugged
  <2>3. \A x : x \in Plugged(new) <=> x \in Plugged(set) \/ x = n.output
    BY <1>4, <1>5, <2>1, <2>2
  <2> QED
    BY <2>3
<1>7. ASSUME NEW k \in 1 .. L PROVE AtHome(new, k) /\ Apart(new.monitors[k].workspaces)
  <2>1. AtHome(set, k) /\ Apart(set.monitors[k].workspaces)
    BY <1>1 DEF PlacedIn
  <2>2. n.output \notin Origins(set.monitors[k].workspaces)
    BY <1>1
  <2> QED
    BY <1>3, <1>4, <1>6, <2>1, <2>2 DEF AtHome, Hosted, Away
<1>8. AtHome(new, L + 1) /\ Apart(new.monitors[L + 1].workspaces)
  BY <1>4 DEF AtHome, Hosted
<1>9. ASSUME NEW i \in 1 .. L + 1, NEW k \in 1 .. L + 1, i # k PROVE Held(new, i) \cap Held(new, k) = {}
  <2>1. \A x \in 1 .. L : Held(new, x) \cap B = {}
    <3>1. \A x \in 1 .. L : Held(set, x) \subseteq ThingsOf(set)
      BY <1>1, HeldFacts
    <3> QED
      BY <1>5, <3>1
  <2>2. CASE i \in 1 .. L /\ k \in 1 .. L
    <3>1. Held(set, i) \cap Held(set, k) = {}
      BY <1>1, <1>9, <2>2 DEF PlacedIn
    <3> QED
      BY <1>5, <2>2, <3>1
  <2>3. CASE i = L + 1
    <3>1. k \in 1 .. L
      BY <1>4, <1>9, <2>3
    <3> QED
      BY <1>5, <2>1, <2>3, <3>1
  <2>4. CASE k = L + 1
    <3>1. i \in 1 .. L
      BY <1>4, <1>9, <2>4
    <3> QED
      BY <1>5, <2>1, <2>4, <3>1
  <2> QED
    BY <1>4, <2>2, <2>3, <2>4
<1>10. PlacedIn(new)
  <2>1. \A k \in 1 .. L + 1 : Apart(new.monitors[k].workspaces) /\ AtHome(new, k)
    BY <1>4, <1>7, <1>8
  <2> QED
    BY <1>3, <1>4, <1>9, <2>1, NothingFacts DEF PlacedIn
<1>11. ThingsOf(new) = (ThingsOf(set) \ {}) \cup B
  <2>1. \A x : x \in ThingsOf(new) <=> \E k \in 1 .. L + 1 : x \in Held(new, k)
    BY <1>1, <1>3, <1>4, HeldFacts
  <2>2. \A x : x \in ThingsOf(set) <=> \E k \in 1 .. L : x \in Held(set, k)
    BY <1>1, HeldFacts
  <2> HIDE DEF B
  <2>3. \A x : x \in ThingsOf(new) <=> x \in ThingsOf(set) \/ x \in B
    BY <1>4, <1>5, <2>1, <2>2
  <2> QED
    BY <2>3
<1>12. Scrolling(new) => Scrolling(set) \/ Scrolls(n)
  BY <1>1, <1>4 DEF Scrolling
<1>13. Carries(set, new, {}, B)
  BY <1>10, <1>11 DEF Carries
<1> QED
  BY <1>12, <1>13 DEF new, all

\* An output is plugged in when there is none (add_output).
LEMMA FirstMonitorCarries ==
  ASSUME NEW set, PlacedIn(set), set.monitors = <<>>, NEW n \in MonitorType, NEW new \in MonitorSets,
         new.monitors = <<n>>, new.primary_idx = 1, new.workspaces = <<>>,
         Same(set.workspaces, n.workspaces, {n.output}), ~Scrolls(n)
  PROVE  Carries(set, new, {}, {}) /\ Calm(set, new)
<1>1. /\ DOMAIN new.monitors = {1} /\ new.monitors[1] = n /\ DOMAIN set.monitors = {}
      /\ set.workspaces \in Seq(Workspaces)
  BY DEF PlacedIn, MonitorSets
<1>2. Origins(set.workspaces) \subseteq Outputs \cup {NoOutput}
  <2>1. \A i \in DOMAIN set.workspaces : set.workspaces[i] \in Workspaces
    BY <1>1
  <2>2. \A i \in DOMAIN set.workspaces : set.workspaces[i].original_output \in Outputs \cup {NoOutput}
    BY <2>1 DEF Workspaces
  <2> QED
    BY <2>2, InFacts
<1>3. AtHome(new, 1)
  BY <1>1, <1>2 DEF AtHome, Hosted, Away, Plugged, Same
<1>4. PlacedIn(new)
  BY <1>1, <1>3, NothingFacts DEF PlacedIn, Same
<1>5. ThingsOf(new) = ThingsOf(set)
  <2>1. \A x : x \in ThingsOf(new) <=> x \in Held(new, 1)
    BY <1>1, HeldFacts
  <2>2. \A x : x \in ThingsOf(set) <=> x \in ThingsIn(set.workspaces)
    BY <1>1, HeldFacts
  <2>3. Held(new, 1) = ThingsIn(set.workspaces)
    BY <1>1 DEF Held, Same
  <2> QED
    BY <2>1, <2>2, <2>3
<1>6. ~Scrolling(new)
  BY <1>1 DEF Scrolling
<1> QED
  BY <1>4, <1>5, <1>6 DEF Carries, Calm

\* An output is plugged in (add_output): the primary gives up what is the output's own.
LEMMA PlugCarries ==
  ASSUME NEW o \in Outputs, ews_config \in [Outputs -> BOOLEAN], NEW set,
         InGoodOrder(set, ews_config), PlacedIn(set),
         \A k \in DOMAIN set.monitors : set.monitors[k].output # o
  PROVE  Carries(set, Plug(set, o), {}, {}) /\ Calm(set, Plug(set, o))
<1>1. /\ set \in MonitorSets /\ set.monitors \in Seq(MonitorType) /\ set.workspaces \in Seq(Workspaces)
      /\ InUse(set.workspaces) /\ ews_config[o] \in BOOLEAN
  BY DEF InGoodOrder, MonitorSets
<1>2. CASE set.monitors = <<>>
  <2> DEFINE n == NewMonitor(o, set.workspaces, ews_config[o])
             new == [monitors |-> <<n>>, primary_idx |-> 1, active_monitor_idx |-> 1, workspaces |-> <<>>]
  <2>1. n \in MonitorType /\ n.output = o
    BY <1>1, NewMonitorFacts DEF Tidy, Ends
  <2>2. Same(set.workspaces, n.workspaces, {o}) /\ ~Scrolls(n)
    BY <1>1, NewMonitorSame
  <2>3. Plug(set, o) = new
    BY <1>2 DEF Plug
  <2> HIDE DEF n
  <2>4. <<n>> \in Seq(MonitorType) /\ <<>> \in Seq(Workspaces)
    BY <2>1
  <2>5. /\ new \in MonitorSets /\ new.monitors = <<n>> /\ new.primary_idx = 1 /\ new.workspaces = <<>>
    BY <2>4 DEF MonitorSets
  <2> HIDE DEF new
  <2>6. Same(set.workspaces, n.workspaces, {n.output})
    BY <2>1, <2>2
  <2>7. Carries(set, new, {}, {}) /\ Calm(set, new)
    BY <1>2, <2>1, <2>2, <2>5, <2>6, FirstMonitorCarries
  <2> QED
    BY <2>3, <2>7
<1>3. CASE set.monitors # <<>>
  <2> DEFINE L == Len(set.monitors)
             p == set.primary_idx
             wss == set.monitors[p].workspaces
             own == {i \in DOMAIN wss : wss[i].original_output = o /\ HasWindowsOrName(wss[i])}
             t == Kept(wss, own)
             A == ThingsIn(t)
             n == NewMonitor(o, t, ews_config[o])
             ms == [set.monitors EXCEPT ![p] = TakeOwn(set.monitors[p], o)]
             old == [k \in DOMAIN set.monitors |->
                       [ms[k] EXCEPT !.workspaces = [i \in DOMAIN ms[k].workspaces |->
                                                       [ms[k].workspaces[i] EXCEPT !.last = @ \ {o}]]]]
             mid == [set EXCEPT !.monitors = old]
             new == [mid EXCEPT !.monitors = old \o <<n>>]
  <2>1. /\ L \in Nat \ {0} /\ DOMAIN set.monitors = 1 .. L /\ p \in 1 .. L
        /\ set.workspaces = <<>>
        /\ \A k \in 1 .. L : set.monitors[k] \in MonitorType /\ set.monitors[k].output # o
                             /\ Apart(set.monitors[k].workspaces)
    BY <1>1, <1>3 DEF InGoodOrder, PlacedIn
  <2>2. Plug(set, o) = new
    <3> DEFINE taken == [set EXCEPT !.monitors[p] = TakeOwn(@, o)]
               direct == [set EXCEPT !.monitors = old \o <<n>>]
    <3>1. taken.monitors = ms
      BY <1>1 DEF MonitorSets
    <3> HIDE DEF taken, ms
    <3>2. direct = [set EXCEPT !.monitors =
                      [k \in DOMAIN @ |-> [taken.monitors[k] EXCEPT !.workspaces =
                                             [i \in DOMAIN taken.monitors[k].workspaces |->
                                                [taken.monitors[k].workspaces[i] EXCEPT !.last = @ \ {o}]]]]
                      \o <<n>>]
      BY <1>1, <3>1 DEF MonitorSets
    <3>3. new = direct
      <4> HIDE DEF old, n
      <4> QED
        BY <1>1 DEF MonitorSets
    <3> HIDE DEF direct, new, mid
    <3> QED
      BY <1>3, <3>2, <3>3 DEF Plug, taken
  <2>3. /\ Trades(set.monitors[p], TakeOwn(set.monitors[p], o), A, {}, {})
        /\ o \notin Origins(TakeOwn(set.monitors[p], o).workspaces)
        /\ t \in Seq(Workspaces) /\ Apart(t) /\ Origins(t) \subseteq {o}
        /\ A \subseteq ThingsIn(wss)
    <3> DEFINE m == set.monitors[p]
    <3>1. m \in MonitorType /\ Apart(m.workspaces) /\ o # m.output
      BY <2>1
    <3> HIDE DEF m
    <3>2. LET ow == {i \in DOMAIN m.workspaces :
                       m.workspaces[i].original_output = o /\ HasWindowsOrName(m.workspaces[i])}
              tt == Kept(m.workspaces, ow)
              nn == TakeOwn(m, o)
          IN /\ Trades(m, nn, ThingsIn(tt), {}, {}) /\ o \notin Origins(nn.workspaces)
             /\ tt \in Seq(Workspaces) /\ Apart(tt) /\ Origins(tt) \subseteq {o}
             /\ ThingsIn(tt) \subseteq ThingsIn(m.workspaces)
      BY <3>1, TakeOwnTrades
    <3> QED
      BY <3>2 DEF m
  <2>4. n \in MonitorType /\ n.output = o /\ ~Scrolls(n) /\ Same(t, n.workspaces, {o})
    <3>1. InUse(t)
      <4>1. wss \in Seq(Workspaces)
        BY <2>1, MonitorTypeFacts
      <4>2. own \in SUBSET DOMAIN wss /\ \A i \in own : HasWindowsOrName(wss[i])
        OBVIOUS
      <4> HIDE DEF own, wss, t
      <4>3. PICK at : Keeps(Workspaces, wss, own, t, at)
        BY <4>1, <4>2, KeptFacts DEF t
      <4>4. DOMAIN t = 1 .. Cardinality(own)
        BY <4>3 DEF Keeps
      <4> QED
        BY <4>2, <4>3, <4>4 DEF Keeps, InUse
    <3> HIDE DEF t
    <3> QED
      BY <1>1, <2>3, <3>1, NewMonitorFacts, NewMonitorSame DEF Tidy, Ends
  <2>5. /\ ThingsIn(n.workspaces) = A /\ Apart(n.workspaces) /\ Origins(n.workspaces) \subseteq {o}
    BY <2>3, <2>4 DEF Same
  <2>6. A \subseteq ThingsOf(set) /\ A \subseteq Held(set, p)
    BY <2>1, <2>3, HeldFacts DEF Held
  <2> HIDE DEF n, own, A, t
  <2>7. ASSUME NEW k \in 1 .. L
        PROVE  /\ ms[k] \in MonitorType /\ ms[k].output = set.monitors[k].output
               /\ (Scrolls(ms[k]) => Scrolls(set.monitors[k]))
               /\ Trade(set.monitors[k].workspaces, ms[k].workspaces, A, {},
                        {set.monitors[k].output})
               /\ o \notin Origins(ms[k].workspaces)
    <3>1. CASE k = p
      <4>1. ms[k] = TakeOwn(set.monitors[p], o)
        BY <1>1, <2>1, <3>1
      <4> HIDE DEF ms
      <4> QED
        BY <2>3, <3>1, <4>1 DEF Trades, Trade
    <3>2. CASE k # p
      <4>1. ms[k] = set.monitors[k]
        BY <2>1, <3>2
      <4>2. Held(set, k) \cap Held(set, p) = {}
        BY <2>1, <3>2 DEF PlacedIn
      <4>3. Held(set, k) = (Held(set, k) \ A) \cup {}
        BY <2>6, <4>2
      <4>4. o \notin Origins(set.monitors[k].workspaces)
        <5>1. AtHome(set, k)
          BY <2>1 DEF PlacedIn
        <5> QED
          BY <2>1, <3>2, <5>1 DEF AtHome, Hosted
      <4> HIDE DEF ms
      <4> QED
        BY <2>1, <4>1, <4>3, <4>4 DEF Trade, Held
    <3> QED
      BY <3>1, <3>2
  <2> HIDE DEF ms
  <2>8. ASSUME NEW k \in 1 .. L
        PROVE  /\ old[k] \in MonitorType /\ old[k].output = set.monitors[k].output
               /\ (Scrolls(old[k]) => Scrolls(set.monitors[k]))
               /\ Trade(set.monitors[k].workspaces, old[k].workspaces, A, {}, Hosted(set, k))
               /\ o \notin Origins(old[k].workspaces)
    <3>1. old[k] = [ms[k] EXCEPT !.workspaces = [i \in DOMAIN ms[k].workspaces |->
                                                   [ms[k].workspaces[i] EXCEPT !.last = @ \ {o}]]]
      BY <2>1
    <3> HIDE DEF old
    <3>2. Preserves(ms[k], old[k])
      <4> DEFINE m == ms[k]
      <4>1. m \in MonitorType
        BY <2>7
      <4> HIDE DEF m
      <4>2. Preserves(m, [m EXCEPT !.workspaces = [i \in DOMAIN m.workspaces |->
                                                     [m.workspaces[i] EXCEPT !.last = @ \ {o}]]])
        BY <4>1, UnmarkPreserves
      <4> QED
        BY <3>1, <4>2 DEF m
    <3>3. ms[k].output = set.monitors[k].output /\ set.monitors[k].output # o
          /\ Trade(set.monitors[k].workspaces, ms[k].workspaces, A, {}, {set.monitors[k].output})
          /\ o \notin Origins(ms[k].workspaces) /\ (Scrolls(ms[k]) => Scrolls(set.monitors[k]))
      BY <2>1, <2>7
    <3>4. Same(ms[k].workspaces, old[k].workspaces, {set.monitors[k].output})
      BY <3>2, <3>3 DEF Preserves
    <3>5. Trade(set.monitors[k].workspaces, old[k].workspaces, A, {}, {set.monitors[k].output})
      BY <3>3, <3>4, TradeFacts
    <3>6. o \notin Origins(old[k].workspaces)
      BY <3>3, <3>4 DEF Same
    <3>7. Trade(set.monitors[k].workspaces, old[k].workspaces, A, {}, Hosted(set, k))
      BY <3>5 DEF Trade, Hosted
    <3> QED
      BY <3>2, <3>3, <3>6, <3>7 DEF Preserves
  <2>9. old \in Seq(MonitorType) /\ Len(old) = L /\ DOMAIN old = 1 .. L /\ old # <<>>
    <3>1. old = [k \in 1 .. L |-> old[k]]
      BY <2>1
    <3> HIDE DEF old, L
    <3> QED
      BY <2>1, <2>8, <3>1
  <2> HIDE DEF old
  <2>10. /\ mid \in MonitorSets /\ mid.monitors = old /\ mid.primary_idx = p /\ mid.workspaces = set.workspaces
    BY <1>1, <2>9 DEF MonitorSets
  <2> HIDE DEF mid
  <2>11. Carries(set, mid, A, {}) /\ Calm(set, mid)
    <3>1. \A k \in DOMAIN set.monitors :
            /\ mid.monitors[k].output = set.monitors[k].output
            /\ Trade(set.monitors[k].workspaces, mid.monitors[k].workspaces, A,
                     IF k = 0 THEN {} ELSE {}, Hosted(set, k))
            /\ Scrolls(mid.monitors[k]) => Scrolls(set.monitors[k])
      BY <2>1, <2>8, <2>10
    <3>2. DOMAIN mid.monitors = DOMAIN set.monitors
      BY <2>1, <2>9, <2>10
    <3> HIDE DEF p, L
    <3>3. Carries(set, mid, A, {})
      BY <1>3, <2>10, <3>1, <3>2, AllCarry DEF p
    <3>4. Calm(set, mid)
      BY <3>1, <3>2 DEF Calm, Scrolling
    <3> QED
      BY <3>3, <3>4
  <2>12. Carries(mid, new, {}, A) /\ Calm(mid, new)
    <3>1. PlacedIn(mid) /\ A \cap ThingsOf(mid) = {}
      BY <2>11 DEF Carries
    <3>2. mid.monitors # <<>> /\ mid.primary_idx \in DOMAIN mid.monitors
          /\ new = [mid EXCEPT !.monitors = mid.monitors \o <<n>>]
      BY <2>1, <2>9, <2>10
    <3>3. \A k \in DOMAIN mid.monitors : /\ mid.monitors[k].output # n.output
                                         /\ n.output \notin Origins(mid.monitors[k].workspaces)
      BY <2>1, <2>4, <2>8, <2>9, <2>10
    <3>4. Origins(n.workspaces) \subseteq {n.output} /\ ThingsIn(n.workspaces) \cap ThingsOf(mid) = {}
      BY <2>4, <2>5, <3>1
    <3> HIDE DEF new
    <3>5. /\ Carries(mid, new, {}, ThingsIn(n.workspaces))
          /\ (Scrolling(new) => Scrolling(mid) \/ Scrolls(n))
      BY <2>4, <2>5, <3>1, <3>2, <3>3, <3>4, AddedMonitorCarries
    <3> QED
      BY <2>4, <2>5, <3>5 DEF Calm
  <2> HIDE DEF new
  <2> QED
    BY <2>2, <2>6, <2>11, <2>12, CarriesFacts
<1> QED
  BY <1>2, <1>3

\* A monitor goes, and with it what it has (remove_output).
LEMMA RemovedMonitorCarries ==
  ASSUME NEW set, PlacedIn(set), NEW k \in DOMAIN set.monitors, set.primary_idx \in DOMAIN set.monitors,
         \A i, j \in DOMAIN set.monitors : set.monitors[i].output = set.monitors[j].output => i = j,
         Len(set.monitors) > 1,
         NEW gone \in MonitorSets, gone.monitors = RemoveAt(set.monitors, k),
         gone.primary_idx = IdxAfterRemoval(set.primary_idx, k), gone.workspaces = <<>>
  PROVE  /\ Carries(set, gone, Held(set, k), {}) /\ Calm(set, gone)
         /\ gone.primary_idx \in DOMAIN gone.monitors
         /\ Hosted(set, k) \subseteq Hosted(gone, gone.primary_idx)
         /\ \A j \in DOMAIN gone.monitors : \E i \in DOMAIN set.monitors : gone.monitors[j] = set.monitors[i]
<1> DEFINE L == Len(set.monitors)
           left == gone.monitors
           P == set.primary_idx
           p == gone.primary_idx
           from(j) == IF j < k THEN j ELSE j + 1
<1>1. /\ set \in MonitorSets /\ set.monitors \in Seq(MonitorType) /\ L \in Nat /\ L > 1
      /\ DOMAIN set.monitors = 1 .. L /\ set.workspaces = <<>> /\ ThingsIn(<<>>) = {}
      /\ P \in 1 .. L /\ k \in 1 .. L
  BY NothingFacts DEF PlacedIn, MonitorSets
<1>2. Deleted(MonitorType, set.monitors, k, left)
  BY <1>1, RemoveAtFacts
<1>3. /\ left \in Seq(MonitorType) /\ Len(left) = L - 1 /\ L - 1 \in Nat /\ DOMAIN left = 1 .. L - 1
      /\ \A j \in 1 .. L - 1 : left[j] = IF j < k THEN set.monitors[j] ELSE set.monitors[j + 1]
  BY <1>1, <1>2 DEF Deleted
<1> HIDE DEF L, P
<1>4. \A j \in 1 .. L - 1 : from(j) \in 1 .. L /\ from(j) # k
  BY <1>1
<1>5. \A i, j \in 1 .. L - 1 : from(i) = from(j) => i = j
  BY <1>1
<1>6. \A i \in 1 .. L : i # k => \E j \in 1 .. L - 1 : from(j) = i
  <2> SUFFICES ASSUME NEW i \in 1 .. L, i # k PROVE \E j \in 1 .. L - 1 : from(j) = i
    OBVIOUS
  <2>1. CASE i < k
    <3>1. i \in 1 .. L - 1 /\ from(i) = i
      BY <1>1, <2>1
    <3> QED
      BY <3>1
  <2>2. CASE ~(i < k)
    <3>1. i - 1 \in 1 .. L - 1 /\ from(i - 1) = i
      BY <1>1, <2>2
    <3> QED
      BY <3>1
  <2> QED
    BY <2>1, <2>2
<1>7. p \in 1 .. L - 1 /\ (P # k => from(p) = P)
  <2>1. p = IF P >= k /\ P > 1 THEN P - 1 ELSE P
    BY DEF IdxAfterRemoval, P
  <2>2. p \in 1 .. L - 1
    BY <1>1, <2>1
  <2>3. P # k => from(p) = P
    BY <1>1, <2>1
  <2> QED
    BY <2>2, <2>3
<1>8. \A j \in 1 .. L - 1 : gone.monitors[j] = set.monitors[from(j)]
  BY <1>3
<1> HIDE DEF from, p
<1>9. \A j \in 1 .. L - 1 : /\ Held(gone, j) = Held(set, from(j))
                            /\ Apart(gone.monitors[j].workspaces)
                            /\ from(j) \in DOMAIN set.monitors
  BY <1>1, <1>4, <1>8 DEF Held, PlacedIn
<1>10. Away(set) \cup {set.monitors[k].output} \subseteq Away(gone)
  <2>1. \A j \in 1 .. L - 1 : gone.monitors[j].output \in Plugged(set)
    BY <1>8, <1>9 DEF Plugged
  <2>2. \A j \in 1 .. L - 1 : gone.monitors[j].output # set.monitors[k].output
    BY <1>4, <1>8, <1>9
  <2>3. set.monitors[k].output \in Outputs
    BY <1>1, PlacedMonitor
  <2>4. \A x \in Plugged(gone) : \E j \in 1 .. L - 1 : x = gone.monitors[j].output
    BY <1>3 DEF Plugged
  <2> QED
    BY <2>1, <2>2, <2>3, <2>4 DEF Away
<1>11. Hosted(set, k) \subseteq Hosted(gone, p)
  BY <1>10 DEF Hosted, p
<1>12. ASSUME NEW j \in 1 .. L - 1 PROVE AtHome(gone, j)
  <2>1. AtHome(set, from(j)) /\ gone.monitors[j] = set.monitors[from(j)]
    BY <1>8, <1>9 DEF PlacedIn
  <2>2. from(j) = P => j = p
    BY <1>4, <1>5, <1>7
  <2> QED
    BY <1>10, <2>1, <2>2 DEF AtHome, Hosted, p, P
<1>13. ASSUME NEW i \in 1 .. L - 1, NEW j \in 1 .. L - 1, i # j PROVE Held(gone, i) \cap Held(gone, j) = {}
  <2>1. from(i) # from(j)
    BY <1>5, <1>13
  <2>2. Held(set, from(i)) \cap Held(set, from(j)) = {}
    BY <1>9, <2>1 DEF PlacedIn
  <2> QED
    BY <1>9, <2>2
<1>14. PlacedIn(gone)
  BY <1>3, <1>9, <1>12, <1>13, NothingFacts DEF PlacedIn
<1>15. ThingsOf(gone) = (ThingsOf(set) \ Held(set, k)) \cup {}
  <2>1. \A x : x \in ThingsOf(gone) <=> \E j \in 1 .. L - 1 : x \in Held(gone, j)
    BY <1>1, <1>3, HeldFacts
  <2>2. \A x : x \in ThingsOf(set) <=> \E j \in 1 .. L : x \in Held(set, j)
    BY <1>1, HeldFacts
  <2>3. ASSUME NEW x, x \in ThingsOf(gone) PROVE x \in ThingsOf(set) /\ x \notin Held(set, k)
    <3>1. PICK j \in 1 .. L - 1 : x \in Held(gone, j)
      BY <2>1, <2>3
    <3>2. x \in Held(set, from(j)) /\ from(j) \in 1 .. L /\ from(j) # k
      BY <1>4, <1>9, <3>1
    <3>3. Held(set, from(j)) \cap Held(set, k) = {}
      BY <1>1, <3>2 DEF PlacedIn
    <3> QED
      BY <2>2, <3>2, <3>3
  <2>4. ASSUME NEW x, x \in ThingsOf(set), x \notin Held(set, k) PROVE x \in ThingsOf(gone)
    <3>1. PICK i \in 1 .. L : x \in Held(set, i)
      BY <2>2, <2>4
    <3>2. i # k
      BY <2>4, <3>1
    <3>3. PICK j \in 1 .. L - 1 : from(j) = i
      BY <1>6, <3>2
    <3> QED
      BY <1>9, <2>1, <3>1, <3>3
  <2> QED
    BY <2>3, <2>4
<1>16. Calm(set, gone)
  <2> SUFFICES ASSUME NEW j \in DOMAIN gone.monitors, Scrolls(gone.monitors[j]) PROVE Scrolling(set)
    BY DEF Calm, Scrolling
  <2>1. j \in 1 .. L - 1
    BY <1>3
  <2> QED
    BY <1>8, <1>9, <2>1 DEF Scrolling
<1>17. p \in DOMAIN gone.monitors
  BY <1>3, <1>7
<1>18. \A j \in DOMAIN left : \E i \in DOMAIN set.monitors : left[j] = set.monitors[i]
  BY <1>3, <1>8, <1>9
<1> QED
  BY <1>11, <1>14, <1>15, <1>16, <1>17, <1>18 DEF Carries, p

\* An output is unplugged (remove_output).
LEMMA UnplugCarries ==
  ASSUME NEW conf, NEW set, InGoodOrder(set, conf), PlacedIn(set), NEW o,
         \E k \in DOMAIN set.monitors : set.monitors[k].output = o
  PROVE  Carries(set, Unplug(set, o), {}, {}) /\ Calm(set, Unplug(set, o))
<1> DEFINE L == Len(set.monitors)
           k == CHOOSE j \in DOMAIN set.monitors : set.monitors[j].output = o
           left == RemoveAt(set.monitors, k)
           wss == IntoWorkspaces(set.monitors[k])
           p == IdxAfterRemoval(set.primary_idx, k)
           a == IdxAfterRemoval(set.active_monitor_idx, k)
<1>1. /\ set \in MonitorSets /\ set.monitors \in Seq(MonitorType) /\ set.monitors # <<>>
      /\ L \in Nat \ {0} /\ DOMAIN set.monitors = 1 .. L /\ k \in 1 .. L
      /\ set.primary_idx \in 1 .. L /\ set.active_monitor_idx \in 1 .. L
      /\ set.workspaces = <<>>
      /\ \A i, j \in DOMAIN set.monitors : set.monitors[i].output = set.monitors[j].output => i = j
      /\ \A j \in DOMAIN set.monitors : Ends(set.monitors[j])
  BY DEF InGoodOrder, MonitorSets, Tidy
<1> HIDE DEF k
<1>2. /\ wss \in Seq(Workspaces) /\ Same(set.monitors[k].workspaces, wss, {})
  <2>1. Ends(set.monitors[k])
    BY <1>1
  <2>2. set.monitors[k] \in MonitorType /\ set.monitors[k].active \in 1 .. Len(set.monitors[k].workspaces)
    BY <2>1 DEF Ends
  <2> QED
    BY <2>1, <2>2, IntoWorkspacesFacts, IntoWorkspacesSame
<1> HIDE DEF wss
<1>3. /\ ThingsIn(wss) = Held(set, k) /\ Apart(wss) /\ Origins(wss) \subseteq Hosted(set, k)
      /\ Held(set, k) \subseteq ThingsOf(set)
  BY <1>1, <1>2, HeldFacts DEF Same, Held, PlacedIn, AtHome
<1>4. Deleted(MonitorType, set.monitors, k, left)
  BY <1>1, RemoveAtFacts
<1>5. left \in Seq(MonitorType) /\ Len(left) = L - 1
  BY <1>1, <1>4 DEF Deleted
<1>6. Unplug(set, o) = IF left = <<>>
        THEN [monitors |-> <<>>, primary_idx |-> 1, active_monitor_idx |-> 1, workspaces |-> wss]
        ELSE [monitors |-> [left EXCEPT ![p] = AppendWorkspaces(@, wss)], primary_idx |-> p,
              active_monitor_idx |-> a, workspaces |-> <<>>]
  BY DEF Unplug, k, left, wss
<1> HIDE DEF left
<1>7. CASE left = <<>>
  <2> DEFINE new == [monitors |-> <<>>, primary_idx |-> 1, active_monitor_idx |-> 1, workspaces |-> wss]
  <2>1. new \in MonitorSets /\ new.monitors = <<>> /\ new.workspaces = wss /\ DOMAIN new.monitors = {}
    BY <1>2 DEF MonitorSets
  <2> HIDE DEF new
  <2>2. PlacedIn(new) /\ ~Scrolling(new)
    BY <1>3, <2>1 DEF PlacedIn, Scrolling
  <2>3. L = 1
    BY <1>1, <1>5, <1>7
  <2>4. ThingsOf(new) = ThingsOf(set)
    <3>1. \A x : x \in ThingsOf(new) <=> x \in ThingsIn(wss)
      BY <2>1, HeldFacts
    <3> HIDE DEF L
    <3>2. \A j \in DOMAIN set.monitors : j = k
      BY <1>1, <2>3
    <3>3. \A x : x \in ThingsOf(set) <=> x \in Held(set, k)
      BY <1>1, <3>2, HeldFacts
    <3> QED
      BY <1>3, <3>1, <3>3
  <2>5. Carries(set, new, {}, {}) /\ Calm(set, new)
    BY <2>2, <2>4 DEF Carries, Calm
  <2> QED
    BY <1>6, <1>7, <2>5 DEF new
<1>8. CASE left # <<>>
  <2> DEFINE gone == [monitors |-> left, primary_idx |-> p, active_monitor_idx |-> a, workspaces |-> <<>>]
             n == AppendWorkspaces(left[p], wss)
             new == [gone EXCEPT !.monitors[p] = n]
  <2>1. L > 1
    <3> HIDE DEF L
    <3>1. Len(left) # 0
      BY <1>5, <1>8
    <3> QED
      BY <1>1, <1>5, <3>1
  <2>2. p \in Nat /\ a \in Nat
    <3> HIDE DEF L
    <3> QED
      BY <1>1 DEF IdxAfterRemoval
  <2>3. Unplug(set, o) = new
    BY <1>6, <1>8
  <2> HIDE DEF p, a
  <2>4. gone \in MonitorSets /\ gone.monitors = left /\ gone.primary_idx = p /\ gone.workspaces = <<>>
    BY <1>5, <2>2 DEF MonitorSets
  <2> HIDE DEF gone, L
  <2>5. /\ Carries(set, gone, Held(set, k), {}) /\ Calm(set, gone)
        /\ p \in DOMAIN left /\ Hosted(set, k) \subseteq Hosted(gone, p)
        /\ \A j \in DOMAIN left : \E i \in DOMAIN set.monitors : left[j] = set.monitors[i]
    <3>1. /\ k \in DOMAIN set.monitors /\ set.primary_idx \in DOMAIN set.monitors
          /\ gone.monitors = RemoveAt(set.monitors, k) /\ Len(set.monitors) > 1
          /\ gone.primary_idx = IdxAfterRemoval(set.primary_idx, k)
      BY <1>1, <2>1, <2>4 DEF left, p, L
    <3>2. /\ Carries(set, gone, Held(set, k), {}) /\ Calm(set, gone)
          /\ gone.primary_idx \in DOMAIN gone.monitors
          /\ Hosted(set, k) \subseteq Hosted(gone, gone.primary_idx)
          /\ \A j \in DOMAIN gone.monitors : \E i \in DOMAIN set.monitors : gone.monitors[j] = set.monitors[i]
      <4>1. \A i, j \in DOMAIN set.monitors : set.monitors[i].output = set.monitors[j].output => i = j
        BY <1>1
      <4> QED
        BY <2>4, <3>1, <4>1, RemovedMonitorCarries
    <3> QED
      BY <2>4, <3>2
  <2>6. PlacedIn(gone) /\ ThingsIn(wss) \cap ThingsOf(gone) = {}
    BY <1>3, <2>5 DEF Carries
  <2>7. /\ left[p] \in MonitorType /\ Apart(left[p].workspaces) /\ left[p].workspaces # <<>>
        /\ ThingsIn(left[p].workspaces) \subseteq ThingsOf(gone)
    <3>1. left[p] \in MonitorType /\ Apart(left[p].workspaces)
          /\ ThingsIn(left[p].workspaces) \subseteq ThingsOf(gone)
      BY <2>4, <2>5, <2>6, PlacedMonitor
    <3>2. Ends(left[p])
      BY <1>1, <2>5
    <3>3. left[p].workspaces # <<>>
      BY <3>2 DEF Ends
    <3> QED
      BY <3>1, <3>3
  <2>8. Trades(left[p], n, {}, ThingsIn(wss), Origins(wss))
    <3>1. ThingsIn(wss) \cap ThingsIn(left[p].workspaces) = {}
      BY <2>6, <2>7
    <3> DEFINE m == left[p]
    <3>2. m \in MonitorType /\ Apart(m.workspaces) /\ m.workspaces # <<>> /\ ThingsIn(wss) \cap ThingsIn(m.workspaces) = {}
      BY <2>7, <3>1
    <3> HIDE DEF m
    <3>3. Trades(m, AppendWorkspaces(m, wss), {}, ThingsIn(wss), Origins(wss))
      BY <1>2, <1>3, <3>2, AppendWorkspacesTrades
    <3> QED
      BY <3>3 DEF m
  <2> HIDE DEF n
  <2>9. Carries(gone, new, {}, ThingsIn(wss)) /\ Calm(gone, new)
    <3> DEFINE O == Origins(wss)
    <3>1. /\ p \in DOMAIN gone.monitors /\ gone.monitors[p] = left[p] /\ O \subseteq Hosted(gone, p)
          /\ {} \cap ThingsOf(gone) \subseteq Held(gone, p) /\ ThingsIn(wss) \cap ThingsOf(gone) = {}
      BY <1>3, <2>4, <2>5, <2>6
    <3>2. Trades(gone.monitors[p], n, {}, ThingsIn(wss), O)
      BY <2>8, <3>1
    <3> HIDE DEF O
    <3> QED
      BY <2>6, <3>1, <3>2, OneCarries
  <2> HIDE DEF new
  <2> QED
    BY <1>3, <2>3, <2>5, <2>9, CarriesFacts
<1> QED
  BY <1>7, <1>8

---------------------------------------------------------------------------
(* Where the windows are, step by step. *)

\* Windows and names are different things, and each is told from the others.
LEMMA ThingFacts ==
  /\ \A v, w : WindowThing(v) = WindowThing(w) <=> v = w
  /\ \A m, n : NameThing(m) = NameThing(n) <=> m = n
  /\ \A w, n : WindowThing(w) # NameThing(n)
  /\ \A v, W : WindowThing(v) \in WindowThings(W) <=> v \in W
  /\ \A n, W : NameThing(n) \notin WindowThings(W)
BY DEF WindowThing, NameThing, WindowThings

\* What a step that moves no window in or out leaves.
LEMMA AccountedStill ==
  ASSUME NEW set, NEW new, NEW move, NEW windows, NEW A, NEW B, Accounted(set, move, windows),
         Carries(set, new, A, B), \A w : WindowThing(w) \notin A /\ WindowThing(w) \notin B
  PROVE  Accounted(new, move, windows)
<1>1. \A w : WindowThing(w) \in ThingsOf(new) <=> WindowThing(w) \in ThingsOf(set)
  BY DEF Carries
<1> QED
  BY <1>1 DEF Accounted

\* A step that moves no window in or out preserves the invariant.
LEMMA StillStep ==
  ASSUME Placed, NEW A, NEW B, Carries(monitor_set, monitor_set', A, B),
         Calm(monitor_set, monitor_set'),
         \A w : WindowThing(w) \notin A /\ WindowThing(w) \notin B,
         UNCHANGED <<interactive_move, dnd, mapped>>
  PROVE  Placed'
<1>1. Accounted(monitor_set', interactive_move, mapped)
  BY AccountedStill DEF Placed
<1>2. Caused(monitor_set', interactive_move, dnd)
  BY DEF Placed, Caused, Calm
<1>3. PlacedIn(monitor_set')
  BY DEF Carries
<1> QED
  BY <1>1, <1>2, <1>3 DEF Placed

\* A step that takes no name out keeps all of them.
LEMMA NamesStayFacts ==
  ASSUME NEW A, NEW B, Carries(monitor_set, monitor_set', A, B), \A n : NameThing(n) \notin A
  PROVE  NamesStay
BY DEF Carries, NamesStay

\* The step takes nothing in or out.
LEMMA QuietStep ==
  ASSUME Placed, Carries(monitor_set, monitor_set', {}, {}), Calm(monitor_set, monitor_set'),
         UNCHANGED <<interactive_move, dnd, mapped>>
  PROVE  Placed' /\ NamesStay
<1>1. \A w : WindowThing(w) \notin {} /\ NameThing(w) \notin {}
  OBVIOUS
<1>2. Placed'
  BY <1>1, StillStep
<1>3. NamesStay
  BY <1>1, NamesStayFacts
<1> QED
  BY <1>2, <1>3

\* Two changes of the monitor set after each other.
LEMMA QuietThen ==
  ASSUME NEW s, NEW t, NEW u, Carries(s, t, {}, {}), Calm(s, t), Carries(t, u, {}, {}), Calm(t, u)
  PROVE  Carries(s, u, {}, {}) /\ Calm(s, u)
BY CarriesFacts

\* One monitor is changed, and nothing goes in or out.
LEMMA OneQuietStep ==
  ASSUME Placed, NEW k \in DOMAIN monitor_set.monitors, NEW n,
         Preserves(monitor_set.monitors[k], n),
         monitor_set' = [monitor_set EXCEPT !.monitors[k] = n],
         UNCHANGED <<interactive_move, dnd, mapped>>
  PROVE  Placed' /\ NamesStay
<1> DEFINE new == [monitor_set EXCEPT !.monitors[k] = n]
<1>1. PlacedIn(monitor_set)
  BY DEF Placed
<1>2. Carries(monitor_set, new, {}, {}) /\ Calm(monitor_set, new)
  BY <1>1, OnePreserved
<1>3. Carries(monitor_set, monitor_set', {}, {}) /\ Calm(monitor_set, monitor_set')
  BY <1>2
<1> QED
  BY <1>3, QuietStep

\* The same, when the monitor may be focused.
LEMMA OneFocusedQuietStep ==
  ASSUME Placed, NEW k \in DOMAIN monitor_set.monitors, NEW n,
         Preserves(monitor_set.monitors[k], n), NEW activate,
         monitor_set' = Focus([monitor_set EXCEPT !.monitors[k] = n], k, activate),
         UNCHANGED <<interactive_move, dnd, mapped>>
  PROVE  Placed' /\ NamesStay
<1> DEFINE new == [monitor_set EXCEPT !.monitors[k] = n]
<1>1. PlacedIn(monitor_set) /\ k \in Nat
  BY PlacedMonitor DEF Placed
<1>2. Carries(monitor_set, new, {}, {}) /\ Calm(monitor_set, new)
  BY <1>1, OnePreserved
<1> HIDE DEF new
<1>3. PlacedIn(new)
  BY <1>2 DEF Carries
<1>4. Carries(new, Focus(new, k, activate), {}, {}) /\ Calm(new, Focus(new, k, activate))
  BY <1>1, <1>3, FocusCarries
<1>5. Carries(monitor_set, Focus(new, k, activate), {}, {}) /\ Calm(monitor_set, Focus(new, k, activate))
  BY <1>2, <1>4, QuietThen
<1>6. monitor_set' = Focus(new, k, activate)
  BY DEF new
<1>7. Carries(monitor_set, monitor_set', {}, {}) /\ Calm(monitor_set, monitor_set')
  BY <1>5, <1>6
<1> QED
  BY <1>7, QuietStep

\* Outputs come and go, are focused and reconfigured.
LEMMA AddOutputPlaced ==
  ASSUME LayoutInv, Placed, NEW o \in Outputs, AddOutput(o)
  PROVE  Placed' /\ NamesStay
<1>1. \A k \in DOMAIN monitor_set.monitors : monitor_set.monitors[k].output # o
  BY DEF AddOutput, Connected, MonitorIdx, monitors
<1>2. /\ InGoodOrder(monitor_set, ews_config) /\ ews_config \in [Outputs -> BOOLEAN]
      /\ PlacedIn(monitor_set)
  BY DEF LayoutInv, Placed
<1>3. Carries(monitor_set, Plug(monitor_set, o), {}, {}) /\ Calm(monitor_set, Plug(monitor_set, o))
  BY <1>1, <1>2, PlugCarries
<1>4. monitor_set' = Plug(monitor_set, o) /\ UNCHANGED <<interactive_move, dnd, mapped>>
  BY DEF AddOutput, MonitorsOnly
<1>5. Carries(monitor_set, monitor_set', {}, {}) /\ Calm(monitor_set, monitor_set')
  BY <1>3, <1>4
<1> QED
  BY <1>4, <1>5, QuietStep

LEMMA RemoveOutputPlaced ==
  ASSUME LayoutInv, Placed, NEW o, RemoveOutput(o)
  PROVE  Placed' /\ NamesStay
<1>1. \E k \in DOMAIN monitor_set.monitors : monitor_set.monitors[k].output = o
  BY DEF RemoveOutput, Connected, MonitorIdx, monitors
<1>2. InGoodOrder(monitor_set, ews_config) /\ PlacedIn(monitor_set)
  BY DEF LayoutInv, Placed
<1>3. Carries(monitor_set, Unplug(monitor_set, o), {}, {}) /\ Calm(monitor_set, Unplug(monitor_set, o))
  BY <1>1, <1>2, UnplugCarries
<1>4. monitor_set' = Unplug(monitor_set, o) /\ UNCHANGED <<interactive_move, dnd, mapped>>
  BY DEF RemoveOutput, MonitorsOnly
<1>5. Carries(monitor_set, monitor_set', {}, {}) /\ Calm(monitor_set, monitor_set')
  BY <1>3, <1>4
<1> QED
  BY <1>4, <1>5, QuietStep

\* A monitor is focused and nothing else.
LEMMA FocusStep ==
  ASSUME Placed, NEW k \in DOMAIN monitor_set.monitors, monitor_set' = Focus(monitor_set, k, TRUE)
  PROVE  Carries(monitor_set, monitor_set', {}, {}) /\ Calm(monitor_set, monitor_set')
<1>1. PlacedIn(monitor_set) /\ k \in Nat
  BY PlacedMonitor DEF Placed
<1>2. /\ Carries(monitor_set, Focus(monitor_set, k, TRUE), {}, {})
      /\ Calm(monitor_set, Focus(monitor_set, k, TRUE))
  BY <1>1, FocusCarries
<1> QED
  BY <1>2

LEMMA FocusOutputPlaced ==
  ASSUME LayoutInv, Placed, NEW o, FocusOutput(o)
  PROVE  Placed' /\ NamesStay
<1>1. /\ IdxOf(o) \in DOMAIN monitor_set.monitors /\ UNCHANGED <<interactive_move, dnd, mapped>>
      /\ monitor_set' = Focus(monitor_set, IdxOf(o), TRUE)
  BY IdxOfFacts DEF FocusOutput, MonitorsOnly
<1>2. Carries(monitor_set, monitor_set', {}, {}) /\ Calm(monitor_set, monitor_set')
  BY <1>1, FocusStep
<1> QED
  BY <1>1, <1>2, QuietStep

LEMMA UpdateOptionsPlaced ==
  ASSUME LayoutInv, Placed, NEW o \in Outputs, UpdateOptions(o)
  PROVE  Placed' /\ NamesStay
<1>1. UNCHANGED <<interactive_move, dnd, mapped>>
  BY DEF UpdateOptions
<1>2. CASE o \notin Connected
  <2>1. monitor_set' = monitor_set
    BY <1>2 DEF UpdateOptions
  <2>2. Carries(monitor_set, monitor_set, {}, {}) /\ Calm(monitor_set, monitor_set)
    BY CarriesFacts DEF Placed
  <2>3. Carries(monitor_set, monitor_set', {}, {}) /\ Calm(monitor_set, monitor_set')
    BY <2>1, <2>2
  <2> QED
    BY <1>1, <2>3, QuietStep
<1>3. CASE o \in Connected
  <2> DEFINE k == IdxOf(o)
             m == monitor_set.monitors[k]
             n == UpdateConfig(m)
  <2>1. k \in DOMAIN monitor_set.monitors /\ monitor_set' = [monitor_set EXCEPT !.monitors[k] = n]
    BY <1>3, IdxOfFacts DEF UpdateOptions
  <2>2. Ends(m)
    BY <2>1 DEF LayoutInv, InGoodOrder, Tidy
  <2> HIDE DEF k, m
  <2>3. Preserves(m, n)
    BY <2>2, UpdateConfigPreserves
  <2> HIDE DEF n
  <2> QED
    BY <1>1, <2>1, <2>3, OneQuietStep DEF m
<1> QED
  BY <1>2, <1>3

\* Workspaces are activated and moved about on their monitor.
LEMMA ActivateWindowPlaced ==
  ASSUME LayoutInv, Placed, NEW w, ActivateWindow(w)
  PROVE  Placed' /\ NamesStay
<1>1. UNCHANGED <<interactive_move, dnd, mapped>>
  BY DEF ActivateWindow, MonitorsOnly
<1>2. ASSUME NEW p \in Places,
             monitor_set' = Focus([monitor_set EXCEPT !.monitors[p[1]] = ActivateWorkspace(@, p[2])],
                                  p[1], TRUE)
      PROVE  Placed' /\ NamesStay
  <2> DEFINE k == p[1]
             m == monitor_set.monitors[k]
             n == ActivateWorkspace(m, p[2])
  <2>1. /\ k \in DOMAIN monitor_set.monitors /\ Tidy(m) /\ p[2] \in 1 .. Len(m.workspaces)
        /\ monitor_set' = Focus([monitor_set EXCEPT !.monitors[k] = n], k, TRUE)
    BY <1>2, PlacesFacts
  <2> HIDE DEF k, m
  <2>2. m \in MonitorType /\ p[2] \in Nat
    BY <2>1 DEF Tidy, Ends
  <2>3. Preserves(m, n)
    BY <2>2, ActivateWorkspacePreserves
  <2> HIDE DEF n
  <2> QED
    BY <1>1, <2>1, <2>3, OneFocusedQuietStep DEF m
<1>3. ASSUME NEW p \in Places, monitor_set' = Focus(monitor_set, p[1], TRUE)
      PROVE  Placed' /\ NamesStay
  <2>1. p[1] \in DOMAIN monitor_set.monitors
    BY PlacesFacts
  <2>2. Carries(monitor_set, monitor_set', {}, {}) /\ Calm(monitor_set, monitor_set')
    BY <1>3, <2>1, FocusStep
  <2> QED
    BY <1>1, <2>2, QuietStep
<1> QED
  BY <1>2, <1>3 DEF ActivateWindow

LEMMA SwitchWorkspacePlaced ==
  ASSUME LayoutInv, Placed, NEW i, SwitchWorkspace(i)
  PROVE  Placed' /\ NamesStay
<1> DEFINE k == monitor_set.active_monitor_idx
           m == monitor_set.monitors[k]
           n == ActivateWorkspace(m, i)
<1>1. /\ monitors # <<>> /\ i \in DOMAIN m.workspaces /\ UNCHANGED <<interactive_move, dnd, mapped>>
      /\ monitor_set' = [monitor_set EXCEPT !.monitors[k] = n]
  BY DEF SwitchWorkspace, MonitorsOnly, monitors
<1>2. k \in DOMAIN monitor_set.monitors /\ Tidy(m)
  BY <1>1, ActiveFacts
<1> HIDE DEF k, m
<1>3. m \in MonitorType /\ i \in Nat
  <2>1. m \in MonitorType
    BY <1>2 DEF Tidy, Ends
  <2> QED
    BY <1>1, <2>1, MonitorTypeFacts
<1>4. Preserves(m, n)
  BY <1>3, ActivateWorkspacePreserves
<1> HIDE DEF n
<1> QED
  BY <1>1, <1>2, <1>4, OneQuietStep DEF m

LEMMA MoveWorkspaceWithinPlaced ==
  ASSUME LayoutInv, Placed, MoveWorkspaceWithin
  PROVE  Placed' /\ NamesStay
<1> DEFINE a == monitor_set.active_monitor_idx
           m == monitor_set.monitors[a]
<1>1. UNCHANGED <<interactive_move, dnd, mapped>> /\ monitors # <<>>
  BY DEF MoveWorkspaceWithin, MonitorsOnly
<1>2. a \in DOMAIN monitor_set.monitors /\ Ends(m)
  BY <1>1, ActiveFacts DEF Tidy
<1>3. Preserves(m, MoveWorkspaceDown(m)) /\ Preserves(m, MoveWorkspaceUp(m))
  <2> HIDE DEF m
  <2> QED
    BY <1>2, MoveWorkspaceDownPreserves, MoveWorkspaceUpPreserves
<1>4. ASSUME NEW n, Preserves(m, n), monitor_set' = [monitor_set EXCEPT !.monitors[a] = n]
      PROVE  Placed' /\ NamesStay
  BY <1>1, <1>2, <1>4, OneQuietStep
<1>5. ASSUME monitor_set' = [monitor_set EXCEPT !.monitors[a] = MoveWorkspaceDown(@)]
      PROVE  Placed' /\ NamesStay
  BY <1>3, <1>4, <1>5
<1>6. ASSUME monitor_set' = [monitor_set EXCEPT !.monitors[a] = MoveWorkspaceUp(@)]
      PROVE  Placed' /\ NamesStay
  BY <1>3, <1>4, <1>6
<1>7. ASSUME NEW p \in Places, NEW idx \in DOMAIN monitor_set.monitors[p[1]].workspaces,
             monitor_set' = [monitor_set EXCEPT !.monitors[p[1]] = MoveWorkspaceToIdx(@, p[2], idx)]
      PROVE  Placed' /\ NamesStay
  <2> DEFINE k == p[1]
             l == monitor_set.monitors[k]
             n == MoveWorkspaceToIdx(l, p[2], idx)
  <2>1. /\ k \in DOMAIN monitor_set.monitors /\ Tidy(l) /\ p[2] \in 1 .. Len(l.workspaces)
        /\ monitor_set' = [monitor_set EXCEPT !.monitors[k] = n] /\ idx \in DOMAIN l.workspaces
    BY <1>7, PlacesFacts
  <2> HIDE DEF k, l
  <2>2. l \in MonitorType /\ idx \in 1 .. Len(l.workspaces)
    <3>1. l \in MonitorType
      BY <2>1 DEF Tidy, Ends
    <3> QED
      BY <2>1, <3>1, MonitorTypeFacts
  <2>3. Preserves(l, n)
    BY <2>1, <2>2, MoveWorkspaceToIdxPreserves
  <2> HIDE DEF n
  <2> QED
    BY <1>1, <2>1, <2>3, OneQuietStep DEF l
<1> QED
  BY <1>5, <1>6, <1>7 DEF MoveWorkspaceWithin, monitors

LEMMA AnimationDonePlaced ==
  ASSUME LayoutInv, Placed, NEW k, AnimationDone(k)
  PROVE  Placed' /\ NamesStay
<1> DEFINE m == monitor_set.monitors[k]
           n == StopAndCleanUp(m)
<1>1. /\ k \in DOMAIN monitor_set.monitors /\ UNCHANGED <<interactive_move, dnd, mapped>>
      /\ monitor_set' = [monitor_set EXCEPT !.monitors[k] = n]
  BY DEF AnimationDone, MonitorsOnly, MonitorIdx, monitors, AdvanceAnimations
<1>2. m \in MonitorType
  BY <1>1, PlacedMonitor DEF Placed
<1> HIDE DEF m
<1>3. Preserves(m, n)
  BY <1>2, StopAndCleanUpPreserves
<1> HIDE DEF n
<1> QED
  BY <1>1, <1>3, OneQuietStep DEF m

\* Gestures and the drag-and-drop scroll.
LEMMA GestureBeginPlaced ==
  ASSUME LayoutInv, Placed, NEW o, GestureBegin(o)
  PROVE  Placed' /\ NamesStay
<1> DEFINE k == IdxOf(o)
           S == Swiping(monitor_set, {"Gesture", "DndScroll"}) \ {k}
<1>1. o \in Connected /\ UNCHANGED <<interactive_move, dnd, mapped>>
  BY DEF GestureBegin, MonitorsOnly
<1>2. PICK ended \in EndGestures(monitor_set, S) :
        monitor_set' = [ended EXCEPT !.monitors[k].switch = Gesture]
  BY DEF GestureBegin
<1>3. /\ S \in SUBSET DOMAIN monitor_set.monitors /\ k \in DOMAIN monitor_set.monitors
      /\ PlacedIn(monitor_set)
  BY <1>1, IdxOfFacts DEF Swiping, Placed
<1> HIDE DEF S, k
<1>4. /\ Carries(monitor_set, ended, {}, {}) /\ Calm(monitor_set, ended)
      /\ DOMAIN ended.monitors = DOMAIN monitor_set.monitors
  BY <1>3, EndGesturesCarries
<1>5. PlacedIn(ended) /\ k \in DOMAIN ended.monitors
  BY <1>3, <1>4 DEF Carries
<1> DEFINE m == ended.monitors[k]
           n == [m EXCEPT !.switch = Gesture]
           new == [ended EXCEPT !.monitors[k] = n]
<1>6. monitor_set' = new
  BY <1>2
<1>7. Preserves(m, n)
  <2>1. m \in MonitorType
    BY <1>5, PlacedMonitor
  <2> HIDE DEF m
  <2> QED
    BY <2>1, SwitchPreserves
<1> HIDE DEF n
<1>8. Carries(ended, new, {}, {}) /\ Calm(ended, new)
  BY <1>5, <1>7, OnePreserved
<1> HIDE DEF new
<1>9. Carries(monitor_set, new, {}, {}) /\ Calm(monitor_set, new)
  BY <1>4, <1>8, QuietThen
<1>10. Carries(monitor_set, monitor_set', {}, {}) /\ Calm(monitor_set, monitor_set')
  BY <1>6, <1>9
<1> QED
  BY <1>1, <1>10, QuietStep

LEMMA GestureFinishPlaced ==
  ASSUME LayoutInv, Placed, NEW k, GestureFinish(k)
  PROVE  Placed' /\ NamesStay
<1>1. /\ UNCHANGED <<interactive_move, dnd, mapped>> /\ {k} \in SUBSET DOMAIN monitor_set.monitors
      /\ monitor_set' \in EndGestures(monitor_set, {k}) /\ PlacedIn(monitor_set)
  BY DEF GestureFinish, MonitorsOnly, Swiping, Placed
<1>2. Carries(monitor_set, monitor_set', {}, {}) /\ Calm(monitor_set, monitor_set')
  BY <1>1, EndGesturesCarries
<1> QED
  BY <1>1, <1>2, QuietStep

\* The drag-and-drop scroll begins with a drag or an interactive move going on, or ends.
LEMMA ScrollStep ==
  ASSUME Placed, \/ monitor_set' = DndBegun(monitor_set) /\ (dnd' \/ interactive_move' # NoMove)
                 \/ monitor_set' \in DndEnded(monitor_set),
         UNCHANGED <<interactive_move, mapped>>
  PROVE  Placed' /\ NamesStay
<1>1. PlacedIn(monitor_set) /\ Accounted(monitor_set, interactive_move, mapped)
  BY DEF Placed
<1>2. Carries(monitor_set, monitor_set', {}, {}) /\ Caused(monitor_set', interactive_move', dnd')
  <2>1. CASE monitor_set' = DndBegun(monitor_set) /\ (dnd' \/ interactive_move' # NoMove)
    <3>1. Carries(monitor_set, DndBegun(monitor_set), {}, {})
      BY <1>1, DndBegunCarries
    <3> QED
      BY <2>1, <3>1 DEF Caused
  <2>2. CASE monitor_set' \in DndEnded(monitor_set)
    <3>1. Carries(monitor_set, monitor_set', {}, {}) /\ ~Scrolling(monitor_set')
      BY <1>1, <2>2, DndEndedCarries
    <3> QED
      BY <3>1 DEF Caused
  <2> QED
    BY <2>1, <2>2
<1>3. \A w : WindowThing(w) \notin {} /\ NameThing(w) \notin {}
  OBVIOUS
<1>4. Accounted(monitor_set', interactive_move, mapped)
  BY <1>1, <1>2, <1>3, AccountedStill
<1>5. NamesStay
  BY <1>2, <1>3, NamesStayFacts
<1>6. Placed'
  BY <1>2, <1>4 DEF Placed, Carries
<1> QED
  BY <1>5, <1>6

LEMMA ToggleOverviewPlaced ==
  ASSUME LayoutInv, Placed, ToggleOverview
  PROVE  Placed' /\ NamesStay
BY DEF ToggleOverview, Placed, NamesStay

LEMMA DndUpdatePlaced ==
  ASSUME LayoutInv, Placed, DndUpdate
  PROVE  Placed' /\ NamesStay
BY ScrollStep DEF DndUpdate

LEMMA DndEndPlaced ==
  ASSUME LayoutInv, Placed, DndEnd
  PROVE  Placed' /\ NamesStay
BY ScrollStep DEF DndEnd

LEMMA RefreshPlaced ==
  ASSUME LayoutInv, Placed, Refresh
  PROVE  Placed' /\ NamesStay
BY ScrollStep DEF Refresh, MonitorsOnly

\* One monitor takes things in or gives things away, and may be focused.
LEMMA OneTraded ==
  ASSUME Placed, NEW k \in DOMAIN monitor_set.monitors, NEW n, NEW A, NEW B, NEW O, NEW activate,
         Trades(monitor_set.monitors[k], n, A, B, O), O \subseteq Hosted(monitor_set, k),
         A \cap ThingsOf(monitor_set) \subseteq Held(monitor_set, k), B \cap ThingsOf(monitor_set) = {},
         monitor_set' = Focus([monitor_set EXCEPT !.monitors[k] = n], k, activate)
  PROVE  Carries(monitor_set, monitor_set', A, B) /\ Calm(monitor_set, monitor_set')
<1> DEFINE new == [monitor_set EXCEPT !.monitors[k] = n]
<1>1. PlacedIn(monitor_set) /\ k \in Nat
  BY PlacedMonitor DEF Placed
<1>2. Carries(monitor_set, new, A, B) /\ Calm(monitor_set, new)
  BY <1>1, OneCarries
<1>3. monitor_set' = Focus(new, k, activate)
  OBVIOUS
<1> HIDE DEF new
<1>4. PlacedIn(new)
  BY <1>2 DEF Carries
<1>5. Carries(new, Focus(new, k, activate), {}, {}) /\ Calm(new, Focus(new, k, activate))
  BY <1>1, <1>4, FocusCarries
<1>6. /\ Carries(monitor_set, Focus(new, k, activate), A, B)
      /\ Calm(monitor_set, Focus(new, k, activate))
  BY <1>2, <1>5, CarriesFacts
<1> QED
  BY <1>3, <1>6

\* The same without a change of focus.
LEMMA OneTradedStill ==
  ASSUME Placed, NEW k \in DOMAIN monitor_set.monitors, NEW n, NEW A, NEW B, NEW O,
         Trades(monitor_set.monitors[k], n, A, B, O), O \subseteq Hosted(monitor_set, k),
         A \cap ThingsOf(monitor_set) \subseteq Held(monitor_set, k), B \cap ThingsOf(monitor_set) = {},
         monitor_set' = [monitor_set EXCEPT !.monitors[k] = n]
  PROVE  Carries(monitor_set, monitor_set', A, B) /\ Calm(monitor_set, monitor_set')
<1>1. PlacedIn(monitor_set)
  BY DEF Placed
<1>2. /\ Carries(monitor_set, [monitor_set EXCEPT !.monitors[k] = n], A, B)
      /\ Calm(monitor_set, [monitor_set EXCEPT !.monitors[k] = n])
  BY <1>1, OneCarries
<1> QED
  BY <1>2

\* The workspaces without an output change.
LEMMA NoOutputsTraded ==
  ASSUME Placed, monitors = <<>>, NEW wss \in Seq(Workspaces), NEW A, NEW B, NEW O,
         Trade(monitor_set.workspaces, wss, A, B, O),
         monitor_set' = [monitor_set EXCEPT !.workspaces = wss]
  PROVE  Carries(monitor_set, monitor_set', A, B) /\ Calm(monitor_set, monitor_set')
<1>1. PlacedIn(monitor_set) /\ monitor_set.monitors = <<>>
  BY DEF Placed, monitors
<1>2. /\ Carries(monitor_set, [monitor_set EXCEPT !.workspaces = wss], A, B)
      /\ Calm(monitor_set, [monitor_set EXCEPT !.workspaces = wss])
  BY <1>1, NoOutputsCarries
<1> QED
  BY <1>2

\* Windows arrive while there is no output.
LEMMA AddWithoutOutputsTrade ==
  ASSUME NEW s \in Seq(Workspaces), Apart(s), NEW i \in DOMAIN s \cup {1},
         NEW W \in SUBSET Windows, WindowThings(W) \cap ThingsIn(s) = {}
  PROVE  /\ AddWithoutOutputs(s, i, W) \in Seq(Workspaces)
         /\ \E O : Trade(s, AddWithoutOutputs(s, i, W), {}, WindowThings(W), O)
<1>1. CASE s = <<>>
  <2> DEFINE b == NewWorkspace(NoName, NoOutput)
             ws == [b EXCEPT !.windows = W]
  <2>1. b \in Workspaces /\ Things(b) = {} /\ b.windows = {}
    BY NewWorkspaceFacts, BlankFacts DEF NewWorkspace
  <2>2. ws = [b EXCEPT !.windows = b.windows \cup W]
    BY <2>1
  <2> HIDE DEF b
  <2>3. ws \in Workspaces
    BY <2>1 DEF Workspaces
  <2>4. Things(ws) = WindowThings(W)
    <3>1. Things(ws) = Things(b) \cup WindowThings(W)
      BY <2>1, <2>2, WindowThingsFacts
    <3> QED
      BY <2>1, <3>1
  <2> HIDE DEF ws
  <2> DEFINE t == <<ws>>
  <2>5. t \in Seq(Workspaces) /\ DOMAIN t = {1} /\ t[1] = ws
    BY <2>3
  <2>6. AddWithoutOutputs(s, i, W) = t
    BY <1>1 DEF AddWithoutOutputs, ws, b
  <2> HIDE DEF t
  <2>7. ThingsIn(s) = {}
    BY <1>1, NothingFacts
  <2>8. ThingsIn(t) = Things(ws) /\ Origins(t) = {ws.original_output} /\ Apart(t)
    BY <2>5 DEF ThingsIn, Origins, Apart
  <2>9. Trade(s, t, {}, WindowThings(W), {ws.original_output})
    BY <2>4, <2>7, <2>8 DEF Trade
  <2> QED
    BY <2>5, <2>6, <2>9
<1>2. CASE s # <<>>
  <2> DEFINE ws == [s[i] EXCEPT !.windows = s[i].windows \cup W]
             t == [s EXCEPT ![i] = ws]
  <2>1. i \in 1 .. Len(s) /\ s[i] \in Workspaces
    BY <1>2
  <2>2. AddWithoutOutputs(s, i, W) = t
    BY <1>2 DEF AddWithoutOutputs
  <2>3. ws \in Workspaces
    BY <2>1 DEF Workspaces
  <2>4. Things(ws) = Things(s[i]) \cup WindowThings(W)
    BY <2>1, WindowThingsFacts
  <2> HIDE DEF ws
  <2>5. Things(s[i]) \subseteq ThingsIn(s)
    BY <2>1, InFacts
  <2>6. Things(ws) \cap (ThingsIn(s) \ Things(s[i])) = {}
    BY <2>4
  <2>7. t \in Seq(Workspaces) /\ Trade(s, t, Things(s[i]), Things(ws), {ws.original_output})
    BY <2>1, <2>3, <2>6, PutInListTrade
  <2> HIDE DEF t
  <2>8. Trade(s, t, {}, WindowThings(W), {ws.original_output})
    BY <2>4, <2>5, <2>7 DEF Trade
  <2> QED
    BY <2>2, <2>7, <2>8
<1> QED
  BY <1>1, <1>2

\* Windows open and close.
LEMMA AccountedArrival ==
  ASSUME NEW set, NEW new, NEW move, NEW windows, NEW w, Accounted(set, move, windows),
         w \notin windows, Carries(set, new, {}, WindowThings({w}))
  PROVE  Accounted(new, move, windows \cup {w})
<1>1. \A v : WindowThing(v) \in ThingsOf(new) <=> WindowThing(v) \in ThingsOf(set) \/ v = w
  BY ThingFacts DEF Carries
<1> QED
  BY <1>1 DEF Accounted

\* A window that closes is gone from the workspace or from the move it was in.
LEMMA AccountedDeparture ==
  ASSUME NEW set, NEW new, NEW move, NEW windows, NEW w, Accounted(set, move, windows),
         Carries(set, new, WindowThings({w}), {})
  PROVE  /\ w \notin move.window => Accounted(new, move, windows \ {w})
         /\ w \in move.window => Accounted(new, NoMove, windows \ {w})
<1>1. \A v : WindowThing(v) \in ThingsOf(new) <=> WindowThing(v) \in ThingsOf(set) /\ v # w
  BY ThingFacts DEF Carries
<1>2. CASE w \notin move.window
  BY <1>1, <1>2 DEF Accounted
<1>3. CASE w \in move.window
  <2>1. move.window = {w}
    BY <1>3 DEF Accounted, NoMove
  <2>2. NoMove.state = "None" /\ NoMove.window = {}
    BY DEF NoMove
  <2> QED
    BY <1>1, <1>3, <2>1, <2>2 DEF Accounted
<1> QED
  BY <1>2, <1>3

\* A window that is not mapped is nowhere.
LEMMA NowhereFacts ==
  ASSUME Placed, NEW w, w \notin mapped
  PROVE  WindowThings({w}) \cap ThingsOf(monitor_set) = {}
BY DEF Placed, Accounted, WindowThings

LEMMA AddWindowPlaced ==
  ASSUME LayoutInv, Placed, NEW w \in Windows, AddWindow(w)
  PROVE  Placed' /\ NamesStay
<1> DEFINE B == WindowThings({w})
<1>1. /\ w \notin mapped /\ mapped' = mapped \cup {w} /\ UNCHANGED <<interactive_move, dnd>>
      /\ {w} \in SUBSET Windows
  BY DEF AddWindow
<1>2. B \cap ThingsOf(monitor_set) = {}
  BY <1>1, NowhereFacts
<1>3. Carries(monitor_set, monitor_set', {}, B) /\ Calm(monitor_set, monitor_set')
  <2>1. ASSUME NEW p \in Places, NEW activate \in BOOLEAN,
               monitor_set' = Focus([monitor_set EXCEPT
                                       !.monitors[p[1]] = AddWindows(@, p[2], {w}, activate)],
                                    p[1], activate)
        PROVE  Carries(monitor_set, monitor_set', {}, B) /\ Calm(monitor_set, monitor_set')
    <3> DEFINE k == p[1]
               m == monitor_set.monitors[k]
               n == AddWindows(m, p[2], {w}, activate)
    <3>1. /\ k \in DOMAIN monitor_set.monitors /\ p[2] \in 1 .. Len(m.workspaces)
          /\ monitor_set' = Focus([monitor_set EXCEPT !.monitors[k] = n], k, activate)
      BY <2>1, PlacesFacts
    <3>2. m \in MonitorType /\ Apart(m.workspaces) /\ ThingsIn(m.workspaces) \subseteq ThingsOf(monitor_set)
      BY <3>1, PlacedMonitor DEF Placed
    <3> HIDE DEF k, m
    <3>3. Trades(m, n, {}, B, {})
      BY <1>1, <1>2, <3>1, <3>2, AddWindowsTrades
    <3> HIDE DEF n, B
    <3>4. {} \subseteq Hosted(monitor_set, k) /\ {} \cap ThingsOf(monitor_set) \subseteq Held(monitor_set, k)
      OBVIOUS
    <3> QED
      BY <1>2, <3>1, <3>3, <3>4, OneTraded DEF m
  <2>2. ASSUME monitors = <<>>, NEW i \in DOMAIN monitor_set.workspaces \cup {1},
               monitor_set' = [monitor_set EXCEPT !.workspaces = AddWithoutOutputs(@, i, {w})]
        PROVE  Carries(monitor_set, monitor_set', {}, B) /\ Calm(monitor_set, monitor_set')
    <3> DEFINE s == monitor_set.workspaces
               wss == AddWithoutOutputs(s, i, {w})
    <3>1. s \in Seq(Workspaces) /\ Apart(s) /\ B \cap ThingsIn(s) = {}
      BY <1>2, UnpluggedFacts, HeldFacts DEF Placed, PlacedIn
    <3>2. monitor_set' = [monitor_set EXCEPT !.workspaces = wss]
      BY <2>2
    <3>3. wss \in Seq(Workspaces) /\ \E O : Trade(s, wss, {}, B, O)
      BY <1>1, <2>2, <3>1, AddWithoutOutputsTrade
    <3> HIDE DEF wss, B
    <3> QED
      BY <2>2, <3>2, <3>3, NoOutputsTraded
  <2> QED
    BY <2>1, <2>2 DEF AddWindow
<1>4. Accounted(monitor_set', interactive_move, mapped \cup {w})
  BY <1>1, <1>3, AccountedArrival DEF Placed
<1>5. Placed'
  BY <1>1, <1>3, <1>4 DEF Placed, Carries, Caused, Calm
<1>6. NamesStay
  BY <1>3, NamesStayFacts
<1> QED
  BY <1>5, <1>6

LEMMA CloseWindowPlaced ==
  ASSUME LayoutInv, Placed, NEW w \in Windows, CloseWindow(w)
  PROVE  Placed' /\ NamesStay
<1> DEFINE A == WindowThings({w})
<1>1. mapped' = mapped \ {w} /\ UNCHANGED dnd
  BY DEF CloseWindow
<1>2. InGoodOrder(monitor_set, ews_config) /\ PlacedIn(monitor_set)
  BY DEF LayoutInv, Placed
<1>3. ASSUME Carries(monitor_set, monitor_set', A, {}) PROVE NamesStay
  <2>1. \A n : NameThing(n) \notin A
    BY ThingFacts
  <2> QED
    BY <1>3, <2>1, NamesStayFacts
<1>4. ASSUME w \in interactive_move.window, NEW ended \in DndEnded(monitor_set),
             interactive_move' = NoMove, monitor_set' = WithoutWindow(ended, w)
      PROVE  Placed' /\ NamesStay
  <2>1. InGoodOrder(ended, ews_config)
    BY <1>2, DndEndedFacts
  <2>2. Carries(monitor_set, ended, {}, {}) /\ ~Scrolling(ended)
    BY <1>2, DndEndedCarries
  <2>3. PlacedIn(ended)
    BY <2>2 DEF Carries
  <2>4. Carries(ended, WithoutWindow(ended, w), A, {}) /\ Calm(ended, WithoutWindow(ended, w))
    BY <2>1, <2>3, WithoutWindowCarries
  <2>5. Carries(monitor_set, monitor_set', A, {}) /\ ~Scrolling(monitor_set')
    BY <1>4, <2>2, <2>4, CarriesFacts DEF Calm
  <2>6. Accounted(monitor_set', NoMove, mapped \ {w})
    BY <1>4, <2>5, AccountedDeparture DEF Placed
  <2>7. Placed'
    BY <1>1, <1>4, <2>5, <2>6 DEF Placed, Carries, Caused
  <2> QED
    BY <1>3, <2>5, <2>7
<1>5. ASSUME w \notin interactive_move.window, UNCHANGED interactive_move,
             monitor_set' = WithoutWindow(monitor_set, w)
      PROVE  Placed' /\ NamesStay
  <2>1. /\ Carries(monitor_set, WithoutWindow(monitor_set, w), A, {})
        /\ Calm(monitor_set, WithoutWindow(monitor_set, w))
    BY <1>2, WithoutWindowCarries
  <2>2. Carries(monitor_set, monitor_set', A, {}) /\ Calm(monitor_set, monitor_set')
    BY <1>5, <2>1
  <2>3. Accounted(monitor_set', interactive_move, mapped \ {w})
    BY <1>5, <2>2, AccountedDeparture DEF Placed
  <2>4. Placed'
    BY <1>1, <1>5, <2>2, <2>3 DEF Placed, Carries, Caused, Calm
  <2> QED
    BY <1>3, <2>2, <2>4
<1> QED
  BY <1>4, <1>5 DEF CloseWindow

\* Windows, columns and workspaces move.
LEMMA MoveWindowPlaced ==
  ASSUME LayoutInv, Placed, NEW w \in Windows, NEW q \in Places, NEW activate \in BOOLEAN,
         MoveWindow(w, q, activate)
  PROVE  Placed' /\ NamesStay
<1>1. UNCHANGED <<interactive_move, dnd, mapped>> /\ PlacedIn(monitor_set)
  BY DEF MoveWindow, MonitorsOnly, Placed
<1>2. PICK p \in Places :
        /\ w \in WorkspaceAt(p).windows
        /\ LET moved == Carried(monitor_set, p, q, {w}, activate)
           IN \E f \in {moved.active_monitor_idx, monitor_set.active_monitor_idx} :
                monitor_set' = [moved EXCEPT !.monitors[p[1]] = CleanUpIfStill(@), !.active_monitor_idx = f]
  BY DEF MoveWindow
<1> DEFINE moved == Carried(monitor_set, p, q, {w}, activate)
           k == p[1]
           i == p[2]
           l == q[1]
           j == q[2]
           c == CleanUpIfStill(moved.monitors[k])
<1>3. PICK f \in {moved.active_monitor_idx, monitor_set.active_monitor_idx} :
        monitor_set' = [moved EXCEPT !.monitors[k] = c, !.active_monitor_idx = f]
  BY <1>2
<1>4. /\ k \in DOMAIN monitor_set.monitors /\ i \in 1 .. Len(monitor_set.monitors[k].workspaces)
      /\ l \in DOMAIN monitor_set.monitors /\ j \in 1 .. Len(monitor_set.monitors[l].workspaces)
      /\ p = <<k, i>> /\ q = <<l, j>>
  BY PlacesFacts
<1>5. {w} \in SUBSET Windows /\ {w} \subseteq monitor_set.monitors[k].workspaces[i].windows
  BY <1>2 DEF WorkspaceAt, monitors
<1>6. moved = Carried(monitor_set, <<k, i>>, <<l, j>>, {w}, activate)
  BY <1>4
<1> HIDE DEF moved, k, i, l, j
<1>7. /\ Carries(monitor_set, moved, {}, {}) /\ Calm(monitor_set, moved)
      /\ DOMAIN moved.monitors = DOMAIN monitor_set.monitors
  BY <1>1, <1>4, <1>5, <1>6, CarriedCarries
<1>8. PlacedIn(moved) /\ k \in DOMAIN moved.monitors
  BY <1>4, <1>7 DEF Carries
<1>9. Preserves(moved.monitors[k], c)
  BY <1>8, PlacedMonitor, CleanUpIfStillPreserves
<1>10. f \in Nat
  BY <1>1, <1>8 DEF PlacedIn, MonitorSets
<1> DEFINE cleaned == [moved EXCEPT !.monitors[k] = c]
<1>11. monitor_set' = [cleaned EXCEPT !.active_monitor_idx = f]
  BY <1>3
<1> HIDE DEF c
<1>12. Carries(moved, cleaned, {}, {}) /\ Calm(moved, cleaned)
  BY <1>8, <1>9, OnePreserved
<1> HIDE DEF cleaned
<1> DEFINE new == [cleaned EXCEPT !.active_monitor_idx = f]
<1>13. PlacedIn(cleaned)
  BY <1>12 DEF Carries
<1>14. Carries(cleaned, new, {}, {}) /\ Calm(cleaned, new)
  BY <1>10, <1>13, FocusCarries
<1> HIDE DEF new
<1>15. Carries(monitor_set, cleaned, {}, {}) /\ Calm(monitor_set, cleaned)
  BY <1>7, <1>12, QuietThen
<1>16. Carries(monitor_set, new, {}, {}) /\ Calm(monitor_set, new)
  BY <1>14, <1>15, QuietThen
<1>17. Carries(monitor_set, monitor_set', {}, {}) /\ Calm(monitor_set, monitor_set')
  BY <1>11, <1>16 DEF new
<1> QED
  BY <1>1, <1>17, QuietStep

LEMMA MoveColumnPlaced ==
  ASSUME LayoutInv, Placed, NEW C \in SUBSET Windows, NEW q \in Places, NEW activate \in BOOLEAN,
         MoveColumn(C, q, activate)
  PROVE  Placed' /\ NamesStay
<1> DEFINE k == monitor_set.active_monitor_idx
           i == monitor_set.monitors[k].active
           l == q[1]
           j == q[2]
<1>1. /\ UNCHANGED <<interactive_move, dnd, mapped>> /\ PlacedIn(monitor_set) /\ monitors # <<>>
      /\ C \subseteq monitor_set.monitors[k].workspaces[i].windows
      /\ monitor_set' = Carried(monitor_set, <<k, i>>, q, C, activate)
  BY DEF MoveColumn, MonitorsOnly, Placed, monitors, WorkspaceAt
<1>2. k \in DOMAIN monitor_set.monitors /\ i \in 1 .. Len(monitor_set.monitors[k].workspaces)
  BY <1>1, ActiveFacts
<1>3. /\ l \in DOMAIN monitor_set.monitors /\ j \in 1 .. Len(monitor_set.monitors[l].workspaces)
      /\ q = <<l, j>>
  BY PlacesFacts
<1>4. monitor_set' = Carried(monitor_set, <<k, i>>, <<l, j>>, C, activate)
  BY <1>1, <1>3
<1> HIDE DEF k, i, l, j
<1> DEFINE new == Carried(monitor_set, <<k, i>>, <<l, j>>, C, activate)
<1>5. Carries(monitor_set, new, {}, {}) /\ Calm(monitor_set, new)
  BY <1>1, <1>2, <1>3, CarriedCarries
<1>6. Carries(monitor_set, monitor_set', {}, {}) /\ Calm(monitor_set, monitor_set')
  BY <1>4, <1>5
<1> QED
  BY <1>1, <1>6, QuietStep

LEMMA MoveWorkspaceToOutputPlaced ==
  ASSUME LayoutInv, Placed, NEW p \in Places, NEW o \in Outputs, MoveWorkspaceToOutput(p, o)
  PROVE  Placed' /\ NamesStay
<1> DEFINE k == IdxOf(o)
           j == p[1]
           i == p[2]
           m == monitor_set.monitors[j]
           l == monitor_set.monitors[k]
           ws == SentWorkspace(m.workspaces[i], o)
           activate == j = monitor_set.active_monitor_idx /\ i = m.active
           removed == [monitor_set EXCEPT !.monitors[j] = RemoveWorkspaceByIdx(m, i)]
<1>1. /\ UNCHANGED <<interactive_move, dnd, mapped>> /\ o \in Connected
      /\ monitor_set' = IF k = j THEN [monitor_set EXCEPT !.monitors[k].workspaces[i] = ws]
                        ELSE Focus([removed EXCEPT !.monitors[k] = InsertWorkspace(@, ws, @.active + 1, activate)],
                                   k, activate)
  BY DEF MoveWorkspaceToOutput, MonitorsOnly, monitors, WorkspaceAt
<1>2. k \in DOMAIN monitor_set.monitors /\ l.output = o
  BY <1>1, IdxOfFacts
<1>3. j \in DOMAIN monitor_set.monitors /\ Ends(m) /\ i \in 1 .. Len(m.workspaces)
  BY PlacesFacts DEF Tidy
<1>4. PlacedIn(monitor_set) /\ monitor_set \in MonitorSets /\ k \in Nat
      /\ m \in MonitorType
  BY <1>2, <1>3, PlacedMonitor DEF Placed
<1> HIDE DEF k, activate
<1>5. CASE k = j
  <2> DEFINE n == [m EXCEPT !.workspaces[i] = SentWorkspace(m.workspaces[i], m.output)]
  <2>1. Preserves(m, n)
    <3> HIDE DEF m, i
    <3> QED
      BY <1>3, <1>4, SentPreserves
  <2>2. monitor_set' = [monitor_set EXCEPT !.monitors[j] = n]
    <3>1. ws = SentWorkspace(m.workspaces[i], m.output)
      BY <1>2, <1>5
    <3>2. [monitor_set EXCEPT !.monitors[k].workspaces[i] = ws]
            = [monitor_set EXCEPT !.monitors[k] = [m EXCEPT !.workspaces[i] = ws]]
      <4> HIDE DEF ws
      <4> QED
        BY <1>4, <1>5 DEF MonitorSets, MonitorType
    <3> HIDE DEF ws
    <3> QED
      BY <1>1, <1>5, <3>1, <3>2
  <2> HIDE DEF n
  <2> QED
    BY <1>1, <1>3, <2>1, <2>2, OneQuietStep
<1>6. CASE k # j
  <2> DEFINE idx == l.active + 1
             n == InsertWorkspace(l, ws, idx, activate)
             new == [removed EXCEPT !.monitors[k] = n]
  <2>1. idx \in 1 .. Len(l.workspaces) + 1 /\ l.workspaces # <<>>
    <3>1. Ends(l)
      BY <1>2 DEF LayoutInv, InGoodOrder, Tidy
    <3> HIDE DEF l
    <3> QED
      BY <3>1 DEF Ends, MonitorType
  <2>2. removed.monitors[k] = l
    BY <1>2, <1>4, <1>6 DEF MonitorSets
  <2>3. monitor_set' = Focus(new, k, activate)
    <3>1. new = [removed EXCEPT !.monitors[k] = InsertWorkspace(@, ws, @.active + 1, activate)]
      BY <2>2
    <3> HIDE DEF removed, ws, new
    <3> QED
      BY <1>1, <1>6, <3>1
  <2>4. ws = SentWorkspace(m.workspaces[i], l.output)
    BY <1>2
  <2>5. Carries(monitor_set, new, {}, {}) /\ Calm(monitor_set, new)
    <3> HIDE DEF idx, ws, j, i
    <3> QED
      BY <1>2, <1>3, <1>4, <1>6, <2>1, <2>4, SentAwayCarries
  <2> HIDE DEF new
  <2>6. PlacedIn(new)
    BY <2>5 DEF Carries
  <2>7. Carries(new, Focus(new, k, activate), {}, {}) /\ Calm(new, Focus(new, k, activate))
    BY <1>4, <2>6, FocusCarries
  <2>8. Carries(monitor_set, Focus(new, k, activate), {}, {}) /\ Calm(monitor_set, Focus(new, k, activate))
    BY <2>5, <2>7, QuietThen
  <2>9. Carries(monitor_set, monitor_set', {}, {}) /\ Calm(monitor_set, monitor_set')
    BY <2>3, <2>8
  <2> QED
    BY <1>1, <2>9, QuietStep
<1> QED
  BY <1>5, <1>6

\* An interactive move begins, takes its window, wanders and ends.
LEMMA InteractiveMoveBeginPlaced ==
  ASSUME LayoutInv, Placed, NEW w, InteractiveMoveBegin(w)
  PROVE  Placed' /\ NamesStay
<1> DEFINE move == [state |-> "Starting", window |-> {w}, output |-> NoOutput]
<1>1. /\ interactive_move = NoMove /\ interactive_move' = move /\ UNCHANGED <<dnd, mapped>>
      /\ monitor_set' = DndBegun(monitor_set)
  BY DEF InteractiveMoveBegin
<1>2. PlacedIn(monitor_set) /\ Accounted(monitor_set, interactive_move, mapped)
  BY DEF Placed
<1>3. Carries(monitor_set, monitor_set', {}, {})
  BY <1>1, <1>2, DndBegunCarries
<1>4. WindowThing(w) \in ThingsOf(monitor_set)
  <2>1. PICK p \in Places : w \in WorkspaceAt(p).windows
    BY DEF InteractiveMoveBegin
  <2> DEFINE k == p[1]
             i == p[2]
             m == monitor_set.monitors[k]
  <2>2. k \in DOMAIN monitor_set.monitors /\ i \in 1 .. Len(m.workspaces) /\ w \in m.workspaces[i].windows
    BY <2>1, PlacesFacts DEF WorkspaceAt, monitors
  <2>3. m \in MonitorType /\ ThingsIn(m.workspaces) \subseteq ThingsOf(monitor_set)
    BY <1>2, <2>2, PlacedMonitor
  <2> HIDE DEF k, m, i
  <2>4. Things(m.workspaces[i]) \subseteq ThingsIn(m.workspaces)
    BY <2>2, <2>3, OneInFacts
  <2>5. WindowThing(w) \in Things(m.workspaces[i])
    BY <2>2, ThingsFacts
  <2> QED
    BY <2>3, <2>4, <2>5
<1>5. \A x : WindowThing(x) \in ThingsOf(monitor_set') <=> WindowThing(x) \in ThingsOf(monitor_set)
  BY <1>3 DEF Carries
<1>6. Accounted(monitor_set', move, mapped)
  BY <1>1, <1>2, <1>4, <1>5 DEF Accounted, NoMove
<1>7. move # NoMove
  BY DEF NoMove
<1> HIDE DEF move
<1>8. Placed'
  BY <1>1, <1>3, <1>6, <1>7 DEF Placed, Carries, Caused
<1>9. NamesStay
  BY <1>3, NamesStayFacts
<1> QED
  BY <1>8, <1>9

LEMMA InteractiveMoveStartPlaced ==
  ASSUME LayoutInv, Placed, NEW o, InteractiveMoveStart(o)
  PROVE  Placed' /\ NamesStay
<1> DEFINE w == CHOOSE x \in interactive_move.window : TRUE
           move == [interactive_move EXCEPT !.state = "Moving", !.output = o]
           A == WindowThings({w})
<1>1. /\ interactive_move.state = "Starting" /\ interactive_move' = move /\ UNCHANGED <<dnd, mapped>>
      /\ monitor_set' = WithoutWindow(monitor_set, w)
  BY DEF InteractiveMoveStart
<1>2. /\ PlacedIn(monitor_set) /\ Accounted(monitor_set, interactive_move, mapped)
      /\ InGoodOrder(monitor_set, ews_config) /\ interactive_move \in MoveType
  BY DEF Placed, LayoutInv
<1>3. interactive_move.window = {w}
  BY <1>1, <1>2 DEF Accounted
<1>4. move.state = "Moving" /\ move.window = {w} /\ move # NoMove
  BY <1>2, <1>3 DEF MoveType, NoMove
<1> HIDE DEF w, move
<1>5. /\ Carries(monitor_set, WithoutWindow(monitor_set, w), A, {})
  BY <1>2, WithoutWindowCarries
<1>6. Carries(monitor_set, monitor_set', A, {})
  BY <1>1, <1>5
<1>7. \A v : WindowThing(v) \in ThingsOf(monitor_set') <=> WindowThing(v) \in ThingsOf(monitor_set) /\ v # w
  BY <1>6, ThingFacts DEF Carries
<1>8. Accounted(monitor_set', move, mapped)
  BY <1>1, <1>2, <1>3, <1>4, <1>7 DEF Accounted
<1>9. Placed'
  BY <1>1, <1>4, <1>6, <1>8 DEF Placed, Carries, Caused
<1>10. \A n : NameThing(n) \notin A
  BY ThingFacts
<1>11. NamesStay
  BY <1>6, <1>10, NamesStayFacts
<1> QED
  BY <1>9, <1>11

LEMMA InteractiveMoveUpdatePlaced ==
  ASSUME LayoutInv, Placed, NEW o, InteractiveMoveUpdate(o)
  PROVE  Placed' /\ NamesStay
<1> DEFINE move == [interactive_move EXCEPT !.output = o]
<1>1. /\ interactive_move.state = "Moving" /\ interactive_move' = move /\ UNCHANGED <<dnd, mapped>>
      /\ monitor_set' = Focus(monitor_set, IdxOf(o), TRUE) /\ IdxOf(o) \in DOMAIN monitor_set.monitors
  BY IdxOfFacts DEF InteractiveMoveUpdate
<1>2. Carries(monitor_set, monitor_set', {}, {})
  BY <1>1, FocusStep
<1>3. interactive_move \in MoveType /\ Accounted(monitor_set, interactive_move, mapped)
  BY DEF LayoutInv, Placed
<1>4. move.state = "Moving" /\ move.window = interactive_move.window /\ move # NoMove
  BY <1>1, <1>3 DEF MoveType, NoMove
<1> HIDE DEF move
<1>5. \A x : WindowThing(x) \in ThingsOf(monitor_set') <=> WindowThing(x) \in ThingsOf(monitor_set)
  BY <1>2 DEF Carries
<1>6. Accounted(monitor_set', move, mapped)
  BY <1>1, <1>3, <1>4, <1>5 DEF Accounted
<1>7. Placed'
  BY <1>1, <1>2, <1>4, <1>6 DEF Placed, Carries, Caused
<1>8. NamesStay
  BY <1>2, NamesStayFacts
<1> QED
  BY <1>7, <1>8

LEMMA InteractiveMoveEndPlaced ==
  ASSUME LayoutInv, Placed, InteractiveMoveEnd
  PROVE  Placed' /\ NamesStay
<1> DEFINE W == interactive_move.window
           o == interactive_move.output
           open == ~overview_open
<1>1. /\ interactive_move # NoMove /\ interactive_move' = NoMove /\ UNCHANGED <<dnd, mapped>>
      /\ InGoodOrder(monitor_set, ews_config) /\ PlacedIn(monitor_set)
      /\ Accounted(monitor_set, interactive_move, mapped) /\ W \in SUBSET Windows
  BY DEF InteractiveMoveEnd, LayoutInv, Placed, MoveType
<1>2. PICK ended \in DndEnded(monitor_set) :
        LET a == ended.active_monitor_idx
        IN \/ /\ interactive_move.state = "Starting"
              /\ monitor_set' = ended
           \/ /\ interactive_move.state = "Moving" /\ o \in Connected
              /\ \E m \in Dropped(ended.monitors[IdxOf(o)], W, open) :
                   monitor_set' = SetMonitor(ended, IdxOf(o), m)
           \/ /\ interactive_move.state = "Moving" /\ monitors # <<>>
              /\ monitor_set' = [ended EXCEPT !.monitors[a] = AddWindows(@, 1, W, open)]
           \/ /\ interactive_move.state = "Moving" /\ monitors = <<>>
              /\ monitor_set' = [ended EXCEPT !.workspaces = AddWithoutOutputs(@, 1, W)]
  BY DEF InteractiveMoveEnd
<1>3. /\ Carries(monitor_set, ended, {}, {}) /\ ~Scrolling(ended) /\ PlacedIn(ended)
      /\ InGoodOrder(ended, ews_config) /\ SameMonitors(monitor_set, ended)
  BY <1>1, DndEndedCarries, DndEndedFacts DEF Carries
<1> HIDE DEF open
<1>4. PICK w : W = {w}
  BY <1>1 DEF Accounted
<1> DEFINE B == WindowThings(W)
<1>5. ASSUME Carries(ended, monitor_set', {}, IF interactive_move.state = "Starting" THEN {} ELSE B),
             Calm(ended, monitor_set')
      PROVE  Placed' /\ NamesStay
  <2>1. Carries(monitor_set, monitor_set', {}, IF interactive_move.state = "Starting" THEN {} ELSE B)
    BY <1>3, <1>5, CarriesFacts
  <2>2. \A x : WindowThing(x) \in B <=> x = w
    BY <1>4, ThingFacts
  <2> HIDE DEF B, W
  <2>3. \A x : WindowThing(x) \in ThingsOf(monitor_set')
                 <=> WindowThing(x) \in ThingsOf(monitor_set) \/ (x = w /\ interactive_move.state # "Starting")
    BY <2>1, <2>2 DEF Carries
  <2>4. /\ \A x : x \in mapped <=> WindowThing(x) \in ThingsOf(monitor_set) \/ x = w
        /\ WindowThing(w) \in ThingsOf(monitor_set) <=> interactive_move.state = "Starting"
    BY <1>1, <1>4 DEF Accounted, W
  <2>5. \A x : x \in mapped <=> WindowThing(x) \in ThingsOf(monitor_set')
    BY <2>3, <2>4
  <2>6. Accounted(monitor_set', NoMove, mapped)
    BY <2>5 DEF Accounted, NoMove
  <2>7. Placed'
    BY <1>1, <1>3, <1>5, <2>1, <2>6 DEF Placed, Carries, Caused, Calm
  <2>8. NamesStay
    BY <2>1, NamesStayFacts
  <2> QED
    BY <2>7, <2>8
<1>6. interactive_move.state = "Moving" => B \cap ThingsOf(ended) = {}
  <2>1. interactive_move.state = "Moving" => WindowThing(w) \notin ThingsOf(monitor_set)
    BY <1>1, <1>4 DEF Accounted
  <2>2. ThingsOf(ended) = ThingsOf(monitor_set)
    BY <1>3 DEF Carries
  <2>3. B = {WindowThing(w)}
    BY <1>4 DEF WindowThings
  <2> QED
    BY <2>1, <2>2, <2>3
<1> HIDE DEF B, W
<1>7. ASSUME interactive_move.state = "Moving", NEW k \in DOMAIN ended.monitors, NEW n,
             Trades(ended.monitors[k], n, {}, B, {}), monitor_set' = [ended EXCEPT !.monitors[k] = n]
      PROVE  Placed' /\ NamesStay
  <2>1. {} \subseteq Hosted(ended, k) /\ {} \cap ThingsOf(ended) \subseteq Held(ended, k)
    OBVIOUS
  <2>2. /\ Carries(ended, [ended EXCEPT !.monitors[k] = n], {}, B)
        /\ Calm(ended, [ended EXCEPT !.monitors[k] = n])
    BY <1>3, <1>6, <1>7, <2>1, OneCarries
  <2> QED
    BY <1>5, <1>7, <2>2
<1>8. ASSUME NEW k \in DOMAIN ended.monitors, interactive_move.state = "Moving"
      PROVE  /\ ended.monitors[k] \in MonitorType /\ Apart(ended.monitors[k].workspaces)
             /\ B \cap ThingsIn(ended.monitors[k].workspaces) = {}
             /\ 1 \in 1 .. Len(ended.monitors[k].workspaces)
  <2>1. /\ ended.monitors[k] \in MonitorType /\ Apart(ended.monitors[k].workspaces)
        /\ ThingsIn(ended.monitors[k].workspaces) \subseteq ThingsOf(ended)
    BY <1>3, PlacedMonitor
  <2>2. Ends(ended.monitors[k])
    BY <1>3 DEF InGoodOrder, Tidy
  <2>3. 1 \in 1 .. Len(ended.monitors[k].workspaces)
    BY <2>2 DEF Ends, MonitorType
  <2> QED
    BY <1>6, <1>8, <2>1, <2>3
<1>9. CASE interactive_move.state = "Starting" /\ monitor_set' = ended
  <2>1. Carries(ended, ended, {}, {}) /\ Calm(ended, ended)
    BY <1>3, CarriesFacts
  <2> QED
    BY <1>5, <1>9, <2>1
<1>10. ASSUME interactive_move.state = "Moving", o \in Connected,
              NEW n \in Dropped(ended.monitors[IdxOf(o)], W, open),
              monitor_set' = SetMonitor(ended, IdxOf(o), n)
       PROVE  Placed' /\ NamesStay
  <2> DEFINE k == IdxOf(o)
             m == ended.monitors[k]
  <2>1. k \in DOMAIN ended.monitors
    BY <1>3, <1>10, IdxOfFacts DEF SameMonitors
  <2>2. n \in Dropped(m, W, open) /\ monitor_set' = [ended EXCEPT !.monitors[k] = n]
    BY <1>10 DEF SetMonitor
  <2> HIDE DEF k
  <2>3. m \in MonitorType /\ Apart(m.workspaces) /\ WindowThings(W) \cap ThingsIn(m.workspaces) = {}
    BY <1>8, <1>10, <2>1 DEF B
  <2> HIDE DEF m
  <2>4. Trades(m, n, {}, WindowThings(W), {})
    BY <1>1, <2>2, <2>3, DroppedTrades
  <2> QED
    BY <1>7, <1>10, <2>1, <2>2, <2>4 DEF m, B
<1>11. ASSUME interactive_move.state = "Moving", monitors # <<>>,
              monitor_set' = [ended EXCEPT !.monitors[ended.active_monitor_idx] = AddWindows(@, 1, W, open)]
       PROVE  Placed' /\ NamesStay
  <2> DEFINE k == ended.active_monitor_idx
             m == ended.monitors[k]
             n == AddWindows(m, 1, W, open)
  <2>1. k \in DOMAIN ended.monitors
    BY <1>3, <1>11, ActiveFacts DEF SameMonitors
  <2>2. monitor_set' = [ended EXCEPT !.monitors[k] = n]
    BY <1>11
  <2> HIDE DEF k
  <2>3. /\ m \in MonitorType /\ Apart(m.workspaces) /\ WindowThings(W) \cap ThingsIn(m.workspaces) = {}
        /\ 1 \in 1 .. Len(m.workspaces)
    BY <1>8, <1>11, <2>1 DEF B
  <2> HIDE DEF m
  <2>4. Trades(m, n, {}, WindowThings(W), {})
    BY <1>1, <2>3, AddWindowsTrades
  <2> HIDE DEF n
  <2> QED
    BY <1>7, <1>11, <2>1, <2>2, <2>4 DEF m, B
<1>12. ASSUME interactive_move.state = "Moving", monitors = <<>>,
              monitor_set' = [ended EXCEPT !.workspaces = AddWithoutOutputs(@, 1, W)]
       PROVE  Placed' /\ NamesStay
  <2> DEFINE s == ended.workspaces
             wss == AddWithoutOutputs(s, 1, W)
  <2>1. s \in Seq(Workspaces) /\ Apart(s) /\ WindowThings(W) \cap ThingsIn(s) = {}
    BY <1>3, <1>6, <1>12, HeldFacts DEF PlacedIn, MonitorSets, B
  <2>2. ended.monitors = <<>>
    <3>1. ended.monitors \in Seq(MonitorType) /\ Len(ended.monitors) = 0
      BY <1>3, <1>12 DEF InGoodOrder, MonitorSets, SameMonitors, monitors
    <3> QED
      BY <3>1
  <2>3. monitor_set' = [ended EXCEPT !.workspaces = wss]
    BY <1>12
  <2> HIDE DEF s
  <2>4. wss \in Seq(Workspaces) /\ \E O : Trade(s, wss, {}, WindowThings(W), O)
    BY <1>1, <2>1, AddWithoutOutputsTrade
  <2> HIDE DEF wss
  <2>5. /\ Carries(ended, [ended EXCEPT !.workspaces = wss], {}, WindowThings(W))
        /\ Calm(ended, [ended EXCEPT !.workspaces = wss])
    BY <1>3, <2>2, <2>4, NoOutputsCarries DEF s
  <2> QED
    BY <1>5, <1>12, <2>3, <2>5 DEF B
<1> QED
  BY <1>2, <1>9, <1>10, <1>11, <1>12

\* The things of a monitor set are the windows and the names on its workspaces.
LEMMA SetThings ==
  ASSUME NEW set \in MonitorSets
  PROVE  /\ \A w : WindowThing(w) \in ThingsOf(set) <=> w \in WindowsOf(set)
         /\ \A n : NameThing(n) \in ThingsOf(set) <=> n \in NamesOf(set)
         /\ NameThing(NoName) \notin ThingsOf(set)
<1>1. \A x : x \in ThingsOf(set) <=> \E ws \in WorkspacesOf(set) : x \in Things(ws)
  <2>1. \A ws : ws \in WorkspacesOf(set) <=>
          \/ \E k \in DOMAIN set.monitors : \E i \in DOMAIN set.monitors[k].workspaces :
               ws = set.monitors[k].workspaces[i]
          \/ \E i \in DOMAIN set.workspaces : ws = set.workspaces[i]
    BY DEF WorkspacesOf, Range
  <2>2. \A x : x \in ThingsOf(set) <=>
          \/ \E k \in DOMAIN set.monitors : \E i \in DOMAIN set.monitors[k].workspaces :
               x \in Things(set.monitors[k].workspaces[i])
          \/ \E i \in DOMAIN set.workspaces : x \in Things(set.workspaces[i])
    BY HeldFacts, InFacts DEF Held
  <2> QED
    BY <2>1, <2>2
<1>2. \A w : w \in WindowsOf(set) <=> \E ws \in WorkspacesOf(set) : w \in ws.windows
  BY DEF WindowsOf
<1>3. \A n : n \in NamesOf(set) <=> (\E ws \in WorkspacesOf(set) : n = ws.name) /\ n # NoName
  BY DEF NamesOf
<1>4. /\ \A w, ws : WindowThing(w) \in Things(ws) <=> w \in ws.windows
      /\ \A n, ws : NameThing(n) \in Things(ws) <=> n = ws.name /\ n # NoName
  BY ThingsFacts
<1> QED
  BY <1>1, <1>2, <1>3, <1>4

\* What a workspace that was just made for a name holds.
LEMMA NamedFacts ==
  ASSUME NEW name \in Names, NEW o
  PROVE  Things(NewWorkspace(name, o)) = {NameThing(name)}
BY NoneAssumption DEF Things, NewWorkspace

\* A name nobody has is on no workspace.
LEMMA FreshFacts ==
  ASSUME Placed, NEW name, name \notin NamesOf(monitor_set)
  PROVE  {NameThing(name)} \cap ThingsOf(monitor_set) = {}
BY SetThings DEF Placed, PlacedIn

\* A workspace that holds no windows, renamed or gone: only names go in and out.
LEMMA NamesOnly ==
  ASSUME NEW ws, NEW name
  PROVE  /\ \A w : WindowThing(w) \notin {NameThing(name)}
         /\ ws.windows = {} => \A w : WindowThing(w) \notin Things(ws)
BY ThingFacts, ThingsFacts

\* A workspace is added while there is no output.
LEMMA InsertedUnplugged ==
  ASSUME LayoutInv, Placed, monitors = <<>>, NEW i \in 1 .. Len(monitor_set.workspaces) + 1,
         NEW ws \in Workspaces, Things(ws) \cap ThingsOf(monitor_set) = {},
         monitor_set' = [monitor_set EXCEPT !.workspaces = InsertAt(@, i, ws)]
  PROVE  Carries(monitor_set, monitor_set', {}, Things(ws)) /\ Calm(monitor_set, monitor_set')
<1> DEFINE s == monitor_set.workspaces
           wss == InsertAt(s, i, ws)
<1>1. s \in Seq(Workspaces) /\ Apart(s) /\ Things(ws) \cap ThingsIn(s) = {}
  BY UnpluggedFacts, HeldFacts DEF Placed, PlacedIn
<1>2. monitor_set' = [monitor_set EXCEPT !.workspaces = wss]
  OBVIOUS
<1>3. i \in 1 .. Len(s) + 1
  OBVIOUS
<1> HIDE DEF s
<1>4. Trade(s, wss, {}, Things(ws), {ws.original_output})
  BY <1>1, <1>3, InsertThings
<1>5. wss \in Seq(Workspaces)
  BY <1>1, <1>3, InsertAtFacts DEF Inserted
<1> HIDE DEF wss
<1> QED
  BY <1>2, <1>4, <1>5, NoOutputsTraded DEF s

\* Named workspaces come.
LEMMA AddNamedWorkspacePlaced ==
  ASSUME LayoutInv, Placed, NEW name \in Names, AddNamedWorkspace(name)
  PROVE  Placed' /\ NamesStay
<1> DEFINE B == {NameThing(name)}
<1>1. UNCHANGED <<interactive_move, dnd, mapped>> /\ B \cap ThingsOf(monitor_set) = {}
  BY FreshFacts DEF AddNamedWorkspace, MonitorsOnly
<1>2. ASSUME Carries(monitor_set, monitor_set', {}, B), Calm(monitor_set, monitor_set')
      PROVE  Placed' /\ NamesStay
  <2>1. \A w : WindowThing(w) \notin B /\ WindowThing(w) \notin {} /\ NameThing(w) \notin {}
    BY NamesOnly
  <2> HIDE DEF B
  <2>2. Placed'
    BY <1>1, <1>2, <2>1, StillStep
  <2>3. NamesStay
    BY <1>2, <2>1, NamesStayFacts
  <2> QED
    BY <2>2, <2>3
<1>3. ASSUME NEW k \in MonitorIdx, NEW i \in 1 .. scenario.max + 1, NEW activate \in BOOLEAN,
             i <= Len(monitors[k].workspaces) + 1,
             monitor_set' = Focus([monitor_set EXCEPT !.monitors[k] =
                                     InsertWorkspace(@, NewWorkspace(name, @.output), i, activate)],
                                  k, activate)
      PROVE  Carries(monitor_set, monitor_set', {}, B) /\ Calm(monitor_set, monitor_set')
  <2> DEFINE m == monitor_set.monitors[k]
             ws == NewWorkspace(name, m.output)
             n == InsertWorkspace(m, ws, i, activate)
  <2>1. k \in DOMAIN monitor_set.monitors /\ i <= Len(m.workspaces) + 1
    BY <1>3 DEF MonitorIdx, monitors
  <2>2. /\ m \in MonitorType /\ Apart(m.workspaces) /\ m.output \in Outputs
        /\ ThingsIn(m.workspaces) \subseteq ThingsOf(monitor_set)
    BY <2>1, PlacedMonitor DEF Placed
  <2>3. monitor_set' = Focus([monitor_set EXCEPT !.monitors[k] = n], k, activate)
    BY <1>3
  <2>4. Ends(m)
    BY <2>1 DEF LayoutInv, InGoodOrder, Tidy
  <2>5. {m.output} \subseteq Hosted(monitor_set, k)
    BY <2>1, HostedFacts
  <2> HIDE DEF m
  <2>6. m.workspaces # <<>> /\ i \in 1 .. Len(m.workspaces) + 1
    BY <2>1, <2>2, <2>4, ScenarioFacts DEF Ends, MonitorType
  <2>7. ws \in Workspaces /\ Things(ws) = B /\ ws.original_output = m.output
    BY <2>2, NewWorkspaceFacts, NamedFacts
  <2> HIDE DEF ws, B
  <2>8. Things(ws) \cap ThingsIn(m.workspaces) = {}
    BY <1>1, <2>2, <2>7
  <2>9. Trades(m, n, {}, B, {m.output})
    <3>1. Trades(m, n, {}, Things(ws), {ws.original_output})
      BY <2>2, <2>6, <2>7, <2>8, InsertWorkspaceTrades
    <3> QED
      BY <2>7, <3>1
  <2>10. {} \cap ThingsOf(monitor_set) \subseteq Held(monitor_set, k)
    OBVIOUS
  <2> HIDE DEF n
  <2> QED
    BY <1>1, <2>1, <2>3, <2>5, <2>9, <2>10, OneTraded DEF m
<1>4. ASSUME monitors = <<>>, NEW i \in 1 .. Len(monitor_set.workspaces) + 1,
             monitor_set' = [monitor_set EXCEPT !.workspaces = InsertAt(@, i, NewWorkspace(name, NoOutput))]
      PROVE  Carries(monitor_set, monitor_set', {}, B) /\ Calm(monitor_set, monitor_set')
  <2> DEFINE ws == NewWorkspace(name, NoOutput)
  <2>1. ws \in Workspaces /\ Things(ws) = B
    BY NewWorkspaceFacts, NamedFacts
  <2>2. monitor_set' = [monitor_set EXCEPT !.workspaces = InsertAt(@, i, ws)]
    BY <1>4
  <2> HIDE DEF ws, B
  <2> QED
    BY <1>1, <1>4, <2>1, <2>2, InsertedUnplugged
<1> QED
  BY <1>2, <1>3, <1>4 DEF AddNamedWorkspace

LEMMA EnsureNamedWorkspacePlaced ==
  ASSUME LayoutInv, Placed, NEW name \in Names, NEW o \in Outputs \cup {NoOutput},
         EnsureNamedWorkspace(name, o)
  PROVE  Placed' /\ NamesStay
<1> DEFINE B == {NameThing(name)}
<1>1. UNCHANGED <<interactive_move, dnd, mapped>> /\ B \cap ThingsOf(monitor_set) = {}
  BY FreshFacts DEF EnsureNamedWorkspace, MonitorsOnly
<1>2. ASSUME Carries(monitor_set, monitor_set', {}, B), Calm(monitor_set, monitor_set')
      PROVE  Placed' /\ NamesStay
  <2>1. \A w : WindowThing(w) \notin B /\ WindowThing(w) \notin {} /\ NameThing(w) \notin {}
    BY NamesOnly
  <2> HIDE DEF B
  <2>2. Placed'
    BY <1>1, <1>2, <2>1, StillStep
  <2>3. NamesStay
    BY <1>2, <2>1, NamesStayFacts
  <2> QED
    BY <2>2, <2>3
<1>3. CASE monitors = <<>>
  <2> DEFINE ws == NewWorkspace(name, o)
  <2>1. ws \in Workspaces /\ Things(ws) = B
    BY NewWorkspaceFacts, NamedFacts
  <2>2. monitor_set' = [monitor_set EXCEPT !.workspaces = InsertAt(@, 1, ws)]
    BY <1>3 DEF EnsureNamedWorkspace
  <2>3. 1 \in 1 .. Len(monitor_set.workspaces) + 1
    BY UnpluggedFacts
  <2> HIDE DEF ws, B
  <2>4. Carries(monitor_set, monitor_set', {}, B) /\ Calm(monitor_set, monitor_set')
    BY <1>1, <1>3, <2>1, <2>2, <2>3, InsertedUnplugged
  <2> QED
    BY <1>2, <2>4
<1>4. CASE monitors # <<>>
  <2> DEFINE k == CASE o = NoOutput -> monitor_set.active_monitor_idx
                    [] o \in Connected -> IdxOf(o)
                    [] OTHER -> monitor_set.primary_idx
             m == monitor_set.monitors[k]
             own == IF o = NoOutput THEN m.output ELSE o
             ws == NewWorkspace(name, own)
             n == InsertWorkspace(m, ws, 1, FALSE)
  <2>1. monitor_set' = [monitor_set EXCEPT !.monitors[k] = InsertWorkspace(@, ws, 1, FALSE)]
    BY <1>4 DEF EnsureNamedWorkspace, monitors
  <2>2. k \in DOMAIN monitor_set.monitors /\ own \in Hosted(monitor_set, k)
    <3>1. \A x \in DOMAIN monitor_set.monitors :
            monitor_set.monitors[x].output \in Outputs /\ monitor_set.monitors[x].output \in Hosted(monitor_set, x)
      BY PlacedMonitor, HostedFacts DEF Placed
    <3>2. CASE o = NoOutput
      <4>1. monitor_set.active_monitor_idx \in DOMAIN monitor_set.monitors
        BY <1>4, ActiveFacts
      <4>2. o \notin Connected
        BY <3>1, <3>2, NoneAssumption DEF Connected, MonitorIdx, monitors
      <4>3. k = monitor_set.active_monitor_idx
        BY <3>2, <4>2
      <4> QED
        BY <3>1, <3>2, <4>1, <4>3
    <3>3. CASE o # NoOutput /\ o \in Connected
      BY <3>1, <3>3, IdxOfFacts
    <3>4. CASE o # NoOutput /\ o \notin Connected
      <4>1. k = monitor_set.primary_idx /\ own = o /\ k \in DOMAIN monitor_set.monitors
        BY <1>4, <3>4, ActiveFacts
      <4>2. o \notin Plugged(monitor_set)
        BY <3>4 DEF Plugged, Connected, MonitorIdx, monitors
      <4> QED
        BY <4>1, <4>2 DEF Hosted, Away
    <3> QED
      BY <3>2, <3>3, <3>4
  <2> HIDE DEF k
  <2>3. /\ monitor_set' = [monitor_set EXCEPT !.monitors[k] = n]
        /\ m \in MonitorType /\ Apart(m.workspaces) /\ m.output \in Outputs
        /\ ThingsIn(m.workspaces) \subseteq ThingsOf(monitor_set)
    BY <2>1, <2>2, PlacedMonitor DEF Placed
  <2>4. Ends(m)
    BY <2>2 DEF LayoutInv, InGoodOrder, Tidy
  <2>5. own \in Outputs \cup {NoOutput}
    BY <2>3
  <2> HIDE DEF m, own
  <2>6. m.workspaces # <<>> /\ 1 \in 1 .. Len(m.workspaces) + 1
    BY <2>3, <2>4 DEF Ends, MonitorType
  <2>7. ws \in Workspaces /\ Things(ws) = B /\ ws.original_output = own
    BY <2>5, NewWorkspaceFacts, NamedFacts
  <2> HIDE DEF ws, B
  <2>8. Things(ws) \cap ThingsIn(m.workspaces) = {}
    BY <1>1, <2>3, <2>7
  <2>9. Trades(m, n, {}, B, {own})
    <3>1. Trades(m, n, {}, Things(ws), {ws.original_output})
      BY <2>3, <2>6, <2>7, <2>8, InsertWorkspaceTrades
    <3> QED
      BY <2>7, <3>1
  <2>10. {own} \subseteq Hosted(monitor_set, k) /\ {} \cap ThingsOf(monitor_set) \subseteq Held(monitor_set, k)
    BY <2>2
  <2> HIDE DEF n
  <2>11. Carries(monitor_set, monitor_set', {}, B) /\ Calm(monitor_set, monitor_set')
    <3> DEFINE O == {own}
    <3>1. /\ k \in DOMAIN monitor_set.monitors /\ Trades(monitor_set.monitors[k], n, {}, B, O)
          /\ monitor_set' = [monitor_set EXCEPT !.monitors[k] = n]
      BY <2>2, <2>3, <2>9 DEF m
    <3>2. /\ O \subseteq Hosted(monitor_set, k) /\ B \cap ThingsOf(monitor_set) = {}
          /\ {} \cap ThingsOf(monitor_set) \subseteq Held(monitor_set, k)
      BY <1>1, <2>10
    <3> HIDE DEF O
    <3> QED
      BY <3>1, <3>2, OneTradedStill
  <2> QED
    BY <1>2, <2>11
<1> QED
  BY <1>3, <1>4

\* Only names go and come.
LEMMA RenameStep ==
  ASSUME Placed, NEW old, NEW X, Calm(monitor_set, monitor_set'),
         Carries(monitor_set, monitor_set', {NameThing(old)}, {NameThing(x) : x \in X}),
         UNCHANGED <<interactive_move, dnd, mapped>>
  PROVE  Placed'
<1> DEFINE A == {NameThing(old)}
           B == {NameThing(x) : x \in X}
<1>1. \A w : WindowThing(w) \notin A /\ WindowThing(w) \notin B
  BY ThingFacts
<1>2. Carries(monitor_set, monitor_set', A, B)
  OBVIOUS
<1> HIDE DEF A, B
<1> QED
  BY <1>1, <1>2, StillStep

\* The name of a workspace is held where the workspace is.
LEMMA NameHeld ==
  ASSUME NEW set, PlacedIn(set), NEW k \in DOMAIN set.monitors,
         NEW i \in 1 .. Len(set.monitors[k].workspaces)
  PROVE  {NameThing(set.monitors[k].workspaces[i].name)} \cap ThingsOf(set) \subseteq Held(set, k)
<1> DEFINE m == set.monitors[k]
           ws == m.workspaces[i]
<1>1. m \in MonitorType /\ set \in MonitorSets
  BY PlacedMonitor
<1>2. ThingsIn(m.workspaces) = Held(set, k)
  BY DEF Held
<1>3. ws.name = NoName \/ NameThing(ws.name) \in Things(ws)
  BY ThingsFacts
<1> HIDE DEF m
<1>4. Things(ws) \subseteq ThingsIn(m.workspaces)
  BY <1>1, OneInFacts DEF m
<1>5. NameThing(NoName) \notin ThingsOf(set)
  BY <1>1, SetThings
<1> HIDE DEF ws
<1>6. {NameThing(ws.name)} \cap ThingsOf(set) \subseteq Held(set, k)
  BY <1>2, <1>3, <1>4, <1>5
<1> QED
  BY <1>6 DEF ws, m

\* A workspace is renamed, or loses its name, while there is no output.
LEMMA RenamedUnplugged ==
  ASSUME LayoutInv, Placed, monitors = <<>>, NEW i \in DOMAIN monitor_set.workspaces,
         NEW name \in Names \cup {NoName},
         {NameThing(x) : x \in {name} \ {NoName}} \cap ThingsOf(monitor_set) = {},
         monitor_set' = [monitor_set EXCEPT !.workspaces = [@ EXCEPT ![i].name = name]]
  PROVE  /\ Carries(monitor_set, monitor_set', {NameThing(monitor_set.workspaces[i].name)},
                    {NameThing(x) : x \in {name} \ {NoName}})
         /\ Calm(monitor_set, monitor_set')
<1> DEFINE s == monitor_set.workspaces
           old == NameThing(s[i].name)
           N == {NameThing(x) : x \in {name} \ {NoName}}
           ws == [s[i] EXCEPT !.name = name]
           wss == [s EXCEPT ![i] = ws]
<1>1. /\ s \in Seq(Workspaces) /\ Apart(s) /\ ThingsIn(s) \subseteq ThingsOf(monitor_set)
      /\ i \in 1 .. Len(s) /\ s[i] \in Workspaces /\ monitor_set \in MonitorSets
  BY UnpluggedFacts, HeldFacts DEF Placed, PlacedIn
<1>2. monitor_set' = [monitor_set EXCEPT !.workspaces = wss]
  OBVIOUS
<1>3. N \cap ThingsIn(s) = {}
  BY <1>1
<1>4. NameThing(NoName) \notin ThingsIn(s)
  BY <1>1, SetThings
<1> HIDE DEF s
<1>5. ws \in Workspaces
  BY <1>1 DEF Workspaces
<1>6. Things(ws) = (Things(s[i]) \ {old}) \cup N
  BY <1>1, RenamedThings
<1>7. Things(s[i]) \subseteq ThingsIn(s)
  BY <1>1, InFacts
<1>8. old \in ThingsIn(s) => old \in Things(s[i])
  <2>1. old \in Things(s[i]) \/ s[i].name = NoName
    BY ThingsFacts
  <2> QED
    BY <1>4, <2>1
<1> HIDE DEF ws, old, N
<1>9. Things(ws) \cap (ThingsIn(s) \ Things(s[i])) = {}
  BY <1>3, <1>6
<1>10. wss \in Seq(Workspaces) /\ Trade(s, wss, Things(s[i]), Things(ws), {ws.original_output})
  BY <1>1, <1>5, <1>9, PutInListTrade
<1> HIDE DEF wss
<1>11. (ThingsIn(s) \ Things(s[i])) \cup Things(ws) = (ThingsIn(s) \ {old}) \cup N
  BY <1>6, <1>7, <1>8
<1>12. Trade(s, wss, {old}, N, {ws.original_output})
  BY <1>10, <1>11 DEF Trade
<1>13. Carries(monitor_set, monitor_set', {old}, N) /\ Calm(monitor_set, monitor_set')
  BY <1>2, <1>10, <1>12, NoOutputsTraded DEF s
<1> QED
  BY <1>13 DEF old, N, s

\* A workspace goes while there is no output.
LEMMA RemovedUnplugged ==
  ASSUME LayoutInv, Placed, monitors = <<>>, NEW i \in DOMAIN monitor_set.workspaces,
         monitor_set' = [monitor_set EXCEPT !.workspaces = RemoveAt(@, i)]
  PROVE  /\ Carries(monitor_set, monitor_set', Things(monitor_set.workspaces[i]), {})
         /\ Calm(monitor_set, monitor_set')
<1> DEFINE s == monitor_set.workspaces
           wss == RemoveAt(s, i)
<1>1. s \in Seq(Workspaces) /\ Apart(s) /\ i \in 1 .. Len(s)
  BY UnpluggedFacts DEF Placed, PlacedIn
<1>2. monitor_set' = [monitor_set EXCEPT !.workspaces = wss]
  OBVIOUS
<1> HIDE DEF s
<1>3. wss \in Seq(Workspaces) /\ Trade(s, wss, Things(s[i]), {}, {})
  BY <1>1, RemoveAtFacts, RemoveThings DEF Deleted
<1> HIDE DEF wss
<1>4. Carries(monitor_set, monitor_set', Things(s[i]), {}) /\ Calm(monitor_set, monitor_set')
  BY <1>2, <1>3, NoOutputsTraded DEF s
<1> QED
  BY <1>4 DEF s

\* Workspaces lose their name, or go with it.
LEMMA RemoveWorkspacePlaced ==
  ASSUME LayoutInv, Placed, RemoveWorkspace
  PROVE  Placed'
<1>1. UNCHANGED <<interactive_move, dnd, mapped>>
  BY DEF RemoveWorkspace, MonitorsOnly
<1>2. ASSUME NEW ws, ws.windows = {}, Carries(monitor_set, monitor_set', Things(ws), {}),
             Calm(monitor_set, monitor_set')
      PROVE  Placed'
  <2>1. \A w : WindowThing(w) \notin Things(ws) /\ WindowThing(w) \notin {}
    BY <1>2, ThingsFacts
  <2> QED
    BY <1>1, <1>2, <2>1, StillStep
<1>3. ASSUME NEW p \in Places, WorkspaceAt(p).windows = {},
             monitor_set' = [monitor_set EXCEPT !.monitors[p[1]] = RemoveWorkspaceByIdx(@, p[2])]
      PROVE  Placed'
  <2> DEFINE k == p[1]
             i == p[2]
             m == monitor_set.monitors[k]
             ws == m.workspaces[i]
             n == RemoveWorkspaceByIdx(m, i)
  <2>1. /\ k \in DOMAIN monitor_set.monitors /\ Ends(m) /\ i \in 1 .. Len(m.workspaces)
        /\ ws.windows = {} /\ monitor_set' = [monitor_set EXCEPT !.monitors[k] = n]
    BY <1>3, PlacesFacts DEF Tidy, WorkspaceAt, monitors
  <2>2. m \in MonitorType /\ Apart(m.workspaces) /\ Held(monitor_set, k) = ThingsIn(m.workspaces)
    BY <2>1, PlacedMonitor DEF Placed, Held
  <2> HIDE DEF k, m, i
  <2>3. Trades(m, n, Things(ws), {}, {})
    BY <2>1, <2>2, RemoveWorkspaceByIdxTrades
  <2>4. Things(ws) \subseteq ThingsIn(m.workspaces)
    BY <2>1, <2>2, OneInFacts
  <2> HIDE DEF n, ws
  <2>5. /\ {} \subseteq Hosted(monitor_set, k) /\ {} \cap ThingsOf(monitor_set) = {}
        /\ Things(ws) \cap ThingsOf(monitor_set) \subseteq Held(monitor_set, k)
    BY <2>2, <2>4
  <2>6. Carries(monitor_set, monitor_set', Things(ws), {}) /\ Calm(monitor_set, monitor_set')
    BY <2>1, <2>3, <2>5, OneTradedStill DEF m
  <2> QED
    BY <1>2, <2>1, <2>6
<1>4. ASSUME NEW i \in DOMAIN monitor_set.workspaces, monitor_set.workspaces[i].windows = {},
             monitor_set' = [monitor_set EXCEPT !.workspaces = RemoveAt(@, i)]
      PROVE  Placed'
  <2> DEFINE s == monitor_set.workspaces
  <2>1. /\ Carries(monitor_set, monitor_set', Things(s[i]), {}) /\ Calm(monitor_set, monitor_set')
    BY <1>4, UnpluggedFacts, RemovedUnplugged
  <2> QED
    BY <1>2, <1>4, <2>1
<1> QED
  BY <1>3, <1>4 DEF RemoveWorkspace

LEMMA UnnameAtPlaced ==
  ASSUME LayoutInv, Placed, UnnameAt
  PROVE  Placed'
<1>1. UNCHANGED <<interactive_move, dnd, mapped>>
  BY DEF UnnameAt, MonitorsOnly
<1>2. ASSUME NEW p \in Places,
             monitor_set' = [monitor_set EXCEPT !.monitors[p[1]] = UnnameWorkspace(@, p[2])]
      PROVE  Placed'
  <2> DEFINE k == p[1]
             i == p[2]
             m == monitor_set.monitors[k]
             old == m.workspaces[i].name
             n == UnnameWorkspace(m, i)
  <2>1. /\ k \in DOMAIN monitor_set.monitors /\ i \in 1 .. Len(m.workspaces)
        /\ monitor_set' = [monitor_set EXCEPT !.monitors[k] = n] /\ PlacedIn(monitor_set)
    BY <1>2, PlacesFacts DEF Placed
  <2>2. m \in MonitorType /\ Apart(m.workspaces)
    BY <2>1, PlacedMonitor
  <2>3. {NameThing(old)} \cap ThingsOf(monitor_set) \subseteq Held(monitor_set, k)
    <3> HIDE DEF k, i
    <3> QED
      BY <2>1, NameHeld
  <2> HIDE DEF k, m, i
  <2>4. Trades(m, n, {NameThing(old)}, {}, {})
    BY <2>1, <2>2, UnnameTrades
  <2> HIDE DEF n, old
  <2>5. {} \subseteq Hosted(monitor_set, k) /\ {} \cap ThingsOf(monitor_set) = {}
    OBVIOUS
  <2>6. Carries(monitor_set, monitor_set', {NameThing(old)}, {}) /\ Calm(monitor_set, monitor_set')
    BY <2>1, <2>3, <2>4, <2>5, OneTradedStill DEF m
  <2>7. {} = {NameThing(x) : x \in {}}
    OBVIOUS
  <2> QED
    BY <1>1, <2>6, <2>7, RenameStep
<1>3. ASSUME NEW i \in DOMAIN monitor_set.workspaces,
             monitor_set' = [monitor_set EXCEPT !.workspaces =
               IF @[i].windows = {} THEN RemoveAt(@, i) ELSE [@ EXCEPT ![i].name = NoName]]
      PROVE  Placed'
  <2> DEFINE s == monitor_set.workspaces
  <2>1. monitors = <<>>
    BY <1>3, UnpluggedFacts
  <2>2. CASE s[i].windows = {}
    <3>1. monitor_set' = [monitor_set EXCEPT !.workspaces = RemoveAt(@, i)]
      BY <1>3, <2>2
    <3>2. Carries(monitor_set, monitor_set', Things(s[i]), {}) /\ Calm(monitor_set, monitor_set')
      BY <2>1, <3>1, RemovedUnplugged
    <3>3. \A w : WindowThing(w) \notin Things(s[i]) /\ WindowThing(w) \notin {}
      BY <2>2, ThingsFacts
    <3> QED
      BY <1>1, <3>2, <3>3, StillStep
  <2>3. CASE s[i].windows # {}
    <3>1. monitor_set' = [monitor_set EXCEPT !.workspaces = [@ EXCEPT ![i].name = NoName]]
      BY <1>3, <2>3
    <3>2. {NameThing(x) : x \in {NoName} \ {NoName}} \cap ThingsOf(monitor_set) = {}
      OBVIOUS
    <3>3. /\ Carries(monitor_set, monitor_set', {NameThing(s[i].name)},
                     {NameThing(x) : x \in {NoName} \ {NoName}})
          /\ Calm(monitor_set, monitor_set')
      BY <2>1, <3>1, <3>2, RenamedUnplugged
    <3> QED
      BY <1>1, <3>3, RenameStep
  <2> QED
    BY <2>2, <2>3
<1> QED
  BY <1>2, <1>3 DEF UnnameAt

LEMMA SetWorkspaceNamePlaced ==
  ASSUME LayoutInv, Placed, NEW name \in Names, SetWorkspaceName(name)
  PROVE  Placed'
<1>1. UNCHANGED <<interactive_move, dnd, mapped>> /\ {NameThing(name)} \cap ThingsOf(monitor_set) = {}
  BY FreshFacts DEF SetWorkspaceName, MonitorsOnly
<1>2. ASSUME NEW p \in Places,
             LET m == monitors[p[1]]
             IN \/ monitor_set' = SetMonitor(monitor_set, p[1], SetName(m, p[2], name))
                \/ monitor_set' = [monitor_set EXCEPT !.monitors[p[1]].workspaces[p[2]].name = name]
      PROVE  Placed'
  <2> DEFINE k == p[1]
             i == p[2]
             m == monitor_set.monitors[k]
             old == m.workspaces[i].name
  <2>1. /\ k \in DOMAIN monitor_set.monitors /\ i \in 1 .. Len(m.workspaces) /\ PlacedIn(monitor_set)
    BY PlacesFacts DEF Placed
  <2>2. PICK n \in {SetName(m, i, name), [m EXCEPT !.workspaces[i].name = name]} :
          monitor_set' = [monitor_set EXCEPT !.monitors[k] = n]
    BY <1>2 DEF SetMonitor, monitors
  <2>3. /\ m \in MonitorType /\ Apart(m.workspaces)
        /\ ThingsIn(m.workspaces) \subseteq ThingsOf(monitor_set)
    BY <2>1, PlacedMonitor
  <2>4. {NameThing(old)} \cap ThingsOf(monitor_set) \subseteq Held(monitor_set, k)
    <3> HIDE DEF k, i
    <3> QED
      BY <2>1, NameHeld
  <2> HIDE DEF k, m, i
  <2>5. NameThing(name) \notin ThingsIn(m.workspaces)
    BY <1>1, <2>3
  <2> DEFINE A == {NameThing(old)}
             B == {NameThing(name)}
  <2>6. Trades(m, n, A, B, {})
    <3>1. /\ Trades(m, SetName(m, i, name), A, B, {})
          /\ Trades(m, [m EXCEPT !.workspaces[i].name = name], A, B, {})
      BY <2>1, <2>3, <2>5, SetNameTrades
    <3> QED
      BY <2>2, <3>1
  <2>7. B \cap ThingsOf(monitor_set) = {} /\ B = {NameThing(x) : x \in {name}}
    BY <1>1
  <2> HIDE DEF A, B
  <2>8. /\ {} \subseteq Hosted(monitor_set, k) /\ A \cap ThingsOf(monitor_set) \subseteq Held(monitor_set, k)
        /\ k \in DOMAIN monitor_set.monitors /\ Trades(monitor_set.monitors[k], n, A, B, {})
    BY <2>1, <2>4, <2>6 DEF m, A
  <2>9. Carries(monitor_set, monitor_set', A, B) /\ Calm(monitor_set, monitor_set')
    BY <2>2, <2>7, <2>8, OneTradedStill
  <2>10. Carries(monitor_set, monitor_set', {NameThing(old)}, {NameThing(x) : x \in {name}})
    BY <2>7, <2>9 DEF A
  <2> HIDE DEF old
  <2> QED
    BY <1>1, <2>9, <2>10, RenameStep
<1>3. ASSUME NEW i \in DOMAIN monitor_set.workspaces,
             monitor_set' = [monitor_set EXCEPT !.workspaces[i].name = name]
      PROVE  Placed'
  <2>1. monitors = <<>> /\ monitor_set' = [monitor_set EXCEPT !.workspaces = [@ EXCEPT ![i].name = name]]
    BY <1>3, UnpluggedFacts
  <2>2. {NameThing(x) : x \in {name} \ {NoName}} = {NameThing(name)}
    BY NoneAssumption
  <2>3. {NameThing(x) : x \in {name} \ {NoName}} \cap ThingsOf(monitor_set) = {}
    BY <1>1, <2>2
  <2>4. /\ Carries(monitor_set, monitor_set', {NameThing(monitor_set.workspaces[i].name)},
                   {NameThing(x) : x \in {name} \ {NoName}})
        /\ Calm(monitor_set, monitor_set')
    BY <2>1, <2>3, RenamedUnplugged
  <2> QED
    BY <1>1, <2>4, RenameStep
<1> QED
  BY <1>2, <1>3 DEF SetWorkspaceName

---------------------------------------------------------------------------
(* The rest of the invariant. *)

LEMMA PlacedInit == Init => Placed
<1> SUFFICES ASSUME Init PROVE Placed
  OBVIOUS
<1> DEFINE set == [monitors |-> <<>>, primary_idx |-> 1, active_monitor_idx |-> 1, workspaces |-> <<>>]
<1>1. monitor_set = set /\ interactive_move = NoMove /\ mapped = {}
  BY DEF Init
<1>2. set \in MonitorSets /\ set.monitors = <<>> /\ set.workspaces = <<>> /\ DOMAIN set.monitors = {}
  BY DEF MonitorSets
<1> HIDE DEF set
<1>3. ThingsOf(set) = {}
  BY <1>2, HeldFacts, NothingFacts
<1>4. PlacedIn(set)
  BY <1>2, NothingFacts DEF PlacedIn
<1>5. Accounted(set, NoMove, {})
  BY <1>3 DEF Accounted, NoMove
<1>6. Caused(set, NoMove, dnd)
  BY <1>2 DEF Caused, Scrolling
<1> QED
  BY <1>1, <1>4, <1>5, <1>6 DEF Placed

\* Every step preserves the invariant, and takes a name away only on request.
LEMMA PlacedStep ==
  ASSUME LayoutInv, Placed, Next
  PROVE  Placed' /\ NamesHold
<1>1. scenario.outputs \subseteq Outputs /\ scenario.windows \subseteq Windows
  BY ScenarioFacts
<1>2. ASSUME WindowNext PROVE Placed' /\ NamesStay
  BY <1>1, <1>2, AddWindowPlaced, CloseWindowPlaced, ActivateWindowPlaced, MoveWindowPlaced
     DEF WindowNext
<1>3. ASSUME SwitchNext PROVE Placed' /\ NamesStay
  BY <1>3, SwitchWorkspacePlaced, AnimationDonePlaced DEF SwitchNext
<1>4. ASSUME OutputNext PROVE Placed' /\ NamesStay
  BY <1>1, <1>4, AddOutputPlaced, FocusOutputPlaced, RemoveOutputPlaced, UpdateOptionsPlaced
     DEF OutputNext
<1>5. ASSUME WorkspaceNext PROVE Placed' /\ NamesStay
  BY <1>5, MoveWorkspaceWithinPlaced, MoveWorkspaceToOutputPlaced, MoveColumnPlaced
     DEF WorkspaceNext
<1>6. ASSUME NameNext PROVE Placed' /\ NamesHold
  <2>1. CASE RemoveWorkspace
    BY <2>1, RemoveWorkspacePlaced DEF NamesHold
  <2>2. CASE UnnameAt
    BY <2>2, UnnameAtPlaced DEF NamesHold
  <2>3. ASSUME NEW n \in Names, SetWorkspaceName(n) PROVE Placed' /\ NamesHold
    BY <2>3, SetWorkspaceNamePlaced DEF NamesHold
  <2>4. ASSUME NEW n \in Names, AddNamedWorkspace(n) PROVE Placed' /\ NamesHold
    BY <2>4, AddNamedWorkspacePlaced DEF NamesHold
  <2>5. ASSUME NEW n \in Names, NEW o \in Outputs \cup {NoOutput}, EnsureNamedWorkspace(n, o)
        PROVE  Placed' /\ NamesHold
    BY <2>5, EnsureNamedWorkspacePlaced DEF NamesHold
  <2> QED
    BY <1>6, <2>1, <2>2, <2>3, <2>4, <2>5 DEF NameNext
<1>7. ASSUME GestureNext PROVE Placed' /\ NamesStay
  BY <1>7, GestureBeginPlaced, GestureFinishPlaced DEF GestureNext
<1>8. ASSUME MoveNext PROVE Placed' /\ NamesStay
  BY <1>8, ToggleOverviewPlaced, DndUpdatePlaced, DndEndPlaced, RefreshPlaced,
     InteractiveMoveEndPlaced, InteractiveMoveBeginPlaced, InteractiveMoveStartPlaced,
     InteractiveMoveUpdatePlaced DEF MoveNext
<1> QED
  BY <1>2, <1>3, <1>4, <1>5, <1>6, <1>7, <1>8 DEF Next, Step, NamesHold

\* Two workspaces that hold nothing in common have no window and no name in common.
LEMMA ApartFacts ==
  ASSUME NEW a, NEW b, Things(a) \cap Things(b) = {}
  PROVE  a.windows \cap b.windows = {} /\ (a.name = b.name => a.name = NoName)
<1>1. \A w : ~(w \in a.windows /\ w \in b.windows)
  BY ThingsFacts
<1>2. a.name = b.name => a.name = NoName
  BY ThingsFacts
<1> QED
  BY <1>1, <1>2

\* Two places of the monitors hold nothing in common.
LEMMA PlacesApart ==
  ASSUME LayoutInv, Placed, NEW p \in Places, NEW q \in Places, p # q
  PROVE  Things(WorkspaceAt(p)) \cap Things(WorkspaceAt(q)) = {}
<1> DEFINE k == p[1]
           i == p[2]
           l == q[1]
           j == q[2]
           m == monitor_set.monitors[k]
           n == monitor_set.monitors[l]
<1>1. /\ k \in DOMAIN monitor_set.monitors /\ i \in 1 .. Len(m.workspaces) /\ p = <<k, i>>
      /\ l \in DOMAIN monitor_set.monitors /\ j \in 1 .. Len(n.workspaces) /\ q = <<l, j>>
      /\ PlacedIn(monitor_set)
  BY PlacesFacts DEF Placed
<1>2. WorkspaceAt(p) = m.workspaces[i] /\ WorkspaceAt(q) = n.workspaces[j]
  BY DEF WorkspaceAt, monitors
<1>3. /\ m \in MonitorType /\ n \in MonitorType /\ Apart(m.workspaces)
      /\ Held(monitor_set, k) = ThingsIn(m.workspaces) /\ Held(monitor_set, l) = ThingsIn(n.workspaces)
  BY <1>1, PlacedMonitor DEF Held
<1>4. k # l \/ i # j
  BY <1>1
<1> HIDE DEF k, i, l, j
<1>5. CASE k = l
  <2>1. m.workspaces = n.workspaces /\ DOMAIN m.workspaces = 1 .. Len(m.workspaces)
    BY <1>3, <1>5, MonitorTypeFacts
  <2>2. i \in DOMAIN m.workspaces /\ j \in DOMAIN m.workspaces /\ i # j
    BY <1>1, <1>4, <1>5, <2>1
  <2>3. Things(m.workspaces[i]) \cap Things(m.workspaces[j]) = {}
    BY <1>3, <2>2 DEF Apart
  <2> QED
    BY <1>2, <2>1, <2>3
<1>6. CASE k # l
  <2>1. Held(monitor_set, k) \cap Held(monitor_set, l) = {}
    BY <1>1, <1>6 DEF PlacedIn
  <2> HIDE DEF m, n
  <2>2. /\ Things(m.workspaces[i]) \subseteq ThingsIn(m.workspaces)
        /\ Things(n.workspaces[j]) \subseteq ThingsIn(n.workspaces)
    BY <1>1, <1>3, OneInFacts
  <2> QED
    BY <1>2, <1>3, <2>1, <2>2
<1> QED
  BY <1>5, <1>6

\* The two invariants say that everything is where it will be looked for.
LEMMA PlacedWell == LayoutInv /\ Placed => WellPlaced
<1> SUFFICES ASSUME LayoutInv, Placed PROVE WellPlaced
  OBVIOUS
<1>1. PlacedIn(monitor_set) /\ monitor_set \in MonitorSets /\ Accounted(monitor_set, interactive_move, mapped)
  BY DEF Placed, PlacedIn
<1>2. MonitorsConfigured
  BY DEF LayoutInv, InGoodOrder, MonitorsConfigured, MonitorIdx, monitors
<1>3. OwnMonitor
  <2> SUFFICES ASSUME NEW p \in Places,
                      WorkspaceAt(p).original_output # monitors[p[1]].output
               PROVE  /\ p[1] = monitor_set.primary_idx
                      /\ WorkspaceAt(p).original_output \notin Connected
    BY DEF OwnMonitor
  <2> DEFINE k == p[1]
             i == p[2]
             m == monitor_set.monitors[k]
  <2>1. k \in DOMAIN monitor_set.monitors /\ i \in 1 .. Len(m.workspaces)
    BY PlacesFacts
  <2>2. WorkspaceAt(p).original_output = m.workspaces[i].original_output
    BY DEF WorkspaceAt, monitors
  <2>3. m \in MonitorType /\ Origins(m.workspaces) \subseteq Hosted(monitor_set, k)
    BY <1>1, <2>1, PlacedMonitor DEF PlacedIn, AtHome
  <2> HIDE DEF k, i
  <2>4. m.workspaces[i].original_output \in Hosted(monitor_set, k)
    <3> HIDE DEF m
    <3> QED
      BY <2>1, <2>3, OneInFacts
  <2>5. m.workspaces[i].original_output # m.output
    BY <2>2 DEF k, monitors
  <2>6. k = monitor_set.primary_idx /\ m.workspaces[i].original_output \notin Plugged(monitor_set)
    BY <2>4, <2>5 DEF Hosted, Away
  <2>7. Plugged(monitor_set) = Connected
    BY DEF Plugged, Connected, MonitorIdx, monitors
  <2> QED
    BY <2>2, <2>6, <2>7 DEF k
<1>4. PlacedOnce
  <2>1. mapped = WindowsOf(monitor_set) \cup interactive_move.window
    <3>1. \A w : w \in mapped <=> w \in WindowsOf(monitor_set) \/ w \in interactive_move.window
      BY <1>1, SetThings DEF Accounted
    <3> QED
      BY <3>1
  <2>2. interactive_move.state = "Moving" => interactive_move.window \cap WindowsOf(monitor_set) = {}
    BY <1>1, SetThings DEF Accounted
  <2>3. \A p, q \in Places :
          p # q => /\ WorkspaceAt(p).windows \cap WorkspaceAt(q).windows = {}
                   /\ WorkspaceAt(p).name = WorkspaceAt(q).name => WorkspaceAt(p).name = NoName
    <3> SUFFICES ASSUME NEW p \in Places, NEW q \in Places, p # q
                 PROVE  /\ WorkspaceAt(p).windows \cap WorkspaceAt(q).windows = {}
                        /\ WorkspaceAt(p).name = WorkspaceAt(q).name => WorkspaceAt(p).name = NoName
      OBVIOUS
    <3>1. Things(WorkspaceAt(p)) \cap Things(WorkspaceAt(q)) = {}
      BY PlacesApart
    <3> QED
      BY <3>1, ApartFacts
  <2>4. ASSUME NEW i \in DOMAIN monitor_set.workspaces, NEW j \in DOMAIN monitor_set.workspaces, i # j
        PROVE  LET a == monitor_set.workspaces[i]
                   b == monitor_set.workspaces[j]
               IN a.windows \cap b.windows = {} /\ (a.name = b.name => a.name = NoName)
    <3>1. Things(monitor_set.workspaces[i]) \cap Things(monitor_set.workspaces[j]) = {}
      BY <1>1, <2>4 DEF PlacedIn, Apart
    <3> QED
      BY <3>1, ApartFacts
  <2> QED
    BY <2>1, <2>2, <2>3, <2>4 DEF PlacedOnce
<1> QED
  BY <1>2, <1>3, <1>4 DEF WellPlaced

\* They say that what is under way has what it is about.
LEMMA PlacedLive == LayoutInv /\ Placed => UnderWayIsLive
<1> SUFFICES ASSUME LayoutInv, Placed PROVE UnderWayIsLive
  OBVIOUS
<1>1. SwitchTargetsActive
  BY DEF LayoutInv, InGoodOrder, Tidy, Aimed, SwitchTargetsActive, MonitorIdx, monitors
<1>2. MoveHasWindow
  BY SetThings DEF Placed, PlacedIn, Accounted, MoveHasWindow
<1>3. DndScrollHasCause
  BY DEF Placed, Caused, Scrolling, Scrolls, DndScrollHasCause, MonitorIdx, monitors
<1> QED
  BY <1>1, <1>2, <1>3 DEF UnderWayIsLive

\* Both invariants, in every scenario that does not name the first or last workspace of a
\* monitor in the background.
LEMMA PlacedHolds == Spec => [](~Has("names_elsewhere") => LayoutInv /\ Placed)
<1> DEFINE Inv == ~Has("names_elsewhere") => LayoutInv /\ Placed
<1>1. Init => Inv
  BY LayoutInvInit, PlacedInit
<1>2. Inv /\ [Next]_vars => Inv'
  <2> SUFFICES ASSUME Inv, [Next]_vars, ("names_elsewhere" \notin scenario.features)'
               PROVE  LayoutInv' /\ Placed'
    BY DEF Has
  <2>1. scenario' = scenario
    BY DEF Next, vars
  <2>2. ~Has("names_elsewhere") /\ LayoutInv /\ Placed
    BY <2>1 DEF Has
  <2>3. CASE Next
    BY <2>2, <2>3, LayoutInvStep, PlacedStep
  <2>4. CASE UNCHANGED vars
    BY <2>2, <2>4 DEF vars, LayoutInv, Placed
  <2> QED
    BY <2>3, <2>4
<1> QED
  BY <1>1, <1>2, PTL DEF Spec

\* Every mapped window is in exactly one place, on one workspace or in the interactive move,
\* every name is given once, every workspace is on the monitor of its output or on the primary
\* monitor while that output is away, and every monitor runs with the configuration of its
\* output: through hotplug, moves of windows, columns and workspaces, drops on outputs that are
\* gone, renaming and clean-ups, in the same scenarios (Layout::add_output, remove_output,
\* interactive_move_end, Monitor::clean_up_workspaces, Layout::verify_invariants).
THEOREM WindowsStayPlaced == Spec => [](~Has("names_elsewhere") => WellPlaced)
BY PlacedHolds, PlacedWell, PTL

\* In the same scenarios a workspace-switch animation ends on the active workspace, an
\* interactive move that has not taken its window yet finds it on a workspace (refresh and
\* interactive_move_update unwrap it), and a drag-and-drop scroll is left on a monitor only
\* while a drag or an interactive move goes on (Layout::dnd_update, dnd_end,
\* interactive_move_end, remove_window).
THEOREM WhatIsUnderWayStaysLive == Spec => [](~Has("names_elsewhere") => UnderWayIsLive)
BY PlacedHolds, PlacedLive, PTL

\* In the same scenarios no step takes the name of a workspace away but a request about that
\* name: closing its last window, moving it to another output, hotplug and clean-ups keep a
\* named workspace (Monitor::clean_up_workspaces, Layout::unname_workspace).
THEOREM NamedWorkspacesAreKept == Spec /\ ~Has("names_elsewhere") => NamedWorkspacesKept
<1> DEFINE Kept1 == NamesOf(monitor_set) \ NamesOf(monitor_set') # {} =>
                      RemoveWorkspace \/ UnnameAt \/ \E name \in Names : SetWorkspaceName(name)
<1>1. ~Has("names_elsewhere") /\ [Next]_vars => (~Has("names_elsewhere"))'
  BY DEF Next, vars, Has
<1>2. LayoutInv /\ Placed /\ [Next]_vars => [Kept1]_vars
  <2> SUFFICES ASSUME LayoutInv, Placed, Next PROVE Kept1
    OBVIOUS
  <2>1. NamesHold /\ Placed'
    BY PlacedStep
  <2>2. monitor_set \in MonitorSets /\ monitor_set' \in MonitorSets
    BY <2>1 DEF Placed, PlacedIn
  <2>3. NamesStay => NamesOf(monitor_set) \subseteq NamesOf(monitor_set')
    BY <2>2, SetThings DEF NamesStay
  <2> QED
    BY <2>1, <2>3 DEF NamesHold
<1> QED
  BY <1>1, <1>2, PlacedHolds, PTL DEF Spec, NamedWorkspacesKept

=============================================================================
