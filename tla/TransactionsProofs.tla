------------------------- MODULE TransactionsProofs -------------------------
(***************************************************************************)
(* Proofs about Transactions, for any number of windows, clients and       *)
(* transactions: no blocked commit is left without something that wakes    *)
(* it, and no resize is torn before its deadline.                          *)
(***************************************************************************)
EXTENDS Transactions, TLAPS

---------------------------------------------------------------------------
(* The inductive invariant. *)

\* Only created transactions are in play, and only they block commits.
InPlay ==
  /\ created \in Txns \cup {NoTxn}
  /\ \A w \in Windows : /\ next[w] <= created
                        /\ \A i \in DOMAIN pending[w] : pending[w][i] <= created
  /\ \A f \in fences : f.txn <= created
  /\ \A c \in queue : c.txn <= created /\ (c.blocked => c.txn # NoTxn)
  /\ \A t \in completed \cup timers : t <= created
  /\ \A p \in shown : p[2] <= created

\* A transaction that is complete while something still holds it met its deadline.
EarlyExpired == \A t \in completed : Held(t) => t \in expired

\* The commit of the last holder is not blocked by the transaction: all that still
\* holds it is the fence of that very commit.
LastHolder ==
  \A c \in queue :
    ~c.blocked /\ c.txn # NoTxn =>
      /\ \A w \in Windows : /\ next[w] # c.txn
                            /\ \A i \in DOMAIN pending[w] : pending[w][i] # c.txn
      /\ \A f \in fences : f.txn = c.txn => f.win = c.win /\ f.n = c.n

TxnInv == TypeOK /\ InPlay /\ EarlyExpired /\ LastHolder /\ BlockedWillWake /\ NoTornResize

\* Some window holds a clone of t, for its next configure or an unanswered one.
WindowHeld(t) ==
  \E w \in Windows : next[w] = t \/ \E i \in DOMAIN pending[w] : pending[w][i] = t

\* A transaction once let go by all windows is never given to one again.
NoNewHolders == \A t \in 1..created : WindowHeld(t)' => WindowHeld(t)

---------------------------------------------------------------------------
(* Dropping clones and applying commits. *)

\* What completes, who is notified and which timers are left when clones are dropped.
LEMMA DropFacts ==
  ASSUME TypeOK, NEW noted \in [Txns -> SUBSET Clients], NEW armed \in SUBSET Txns,
         created' \in Txns \cup {NoTxn}, DropClones(noted, armed)
  PROVE  /\ completed \subseteq completed' /\ completed' \subseteq Txns
         /\ channel \subseteq channel' /\ channel' \subseteq Clients
         /\ notifications' \in [Txns -> SUBSET Clients]
         /\ timers' \subseteq armed
         /\ \A t \in Txns : t \in completed' /\ t \notin completed =>
              t <= created' /\ ~Held(t)' /\ noted[t] \subseteq channel'
         /\ \A t \in Txns : t \notin completed' =>
              /\ notifications'[t] = noted[t]
              /\ t \in armed => t \in timers'
<1> DEFINE dropped == {t \in 1..created' : t \notin completed /\ ~Held(t)'}
<1>1. dropped \subseteq Txns /\ \A t \in dropped : t <= created' /\ ~Held(t)' /\ t \notin completed
  BY BoundAssumption DEF Txns, NoTxn
<1>2. Complete(dropped, noted) /\ timers' = armed \ dropped
  BY DEF DropClones
<1> HIDE DEF dropped
<1>3. completed' = completed \cup dropped
  BY <1>2 DEF Complete
<1>4. channel' = channel \cup UNION {noted[t] : t \in dropped}
  BY <1>2 DEF Complete
<1>5. notifications' = [t \in Txns |-> IF t \in dropped THEN {} ELSE noted[t]]
  BY <1>2 DEF Complete
<1>6. \A t \in dropped : noted[t] \subseteq channel'
  BY <1>4
<1>7. channel' \subseteq Clients
  BY <1>1, <1>4 DEF TypeOK
<1> QED
  BY <1>1, <1>2, <1>3, <1>4, <1>5, <1>6, <1>7 DEF TypeOK

\* After blocker_cleared() no commit of those clients is left that could be applied.
LEMMA NothingReadyLeft ==
  ASSUME NEW q, \A c \in q : c.n \in Nat, NEW cs, Apply(q, cs)
  PROVE  \A c \in queue' : ClientOf[c.win] \in cs =>
           \E d \in queue' : d.win = c.win /\ d.n <= c.n /\ ~Released(d)'
<1> DEFINE ready == {c \in q : /\ ClientOf[c.win] \in cs
                               /\ \A d \in q : d.win = c.win /\ d.n <= c.n => Released(d)'}
<1>1. queue' = q \ ready
  BY DEF Apply
<1> SUFFICES ASSUME NEW c \in queue', ClientOf[c.win] \in cs
             PROVE  \E d \in queue' : d.win = c.win /\ d.n <= c.n /\ ~Released(d)'
  OBVIOUS
<1>2. PICK d \in q : d.win = c.win /\ d.n <= c.n /\ ~Released(d)'
  BY <1>1
<1>3. d \notin ready
  BY <1>2
<1> QED
  BY <1>1, <1>2, <1>3

---------------------------------------------------------------------------
(* Steps that only drop clones, or add a new transaction. *)

\* A step that leaves fences alone, applies no commit and forgets commits only with
\* their whole surface keeps everything but the types and InPlay.
LEMMA QuietStep ==
  ASSUME TxnInv, NoNewHolders, created' \in Txns \cup {NoTxn},
         NEW armed \in SUBSET Txns, timers \subseteq armed,
         DropClones(notifications, armed),
         UNCHANGED <<fences, shown, expired>>, queue' \subseteq queue,
         \A c \in queue', d \in queue : d.win = c.win => d \in queue'
  PROVE  EarlyExpired' /\ LastHolder' /\ BlockedWillWake' /\ NoTornResize'
<1> USE DEF TxnInv
<1>1. \A t \in Txns : t <= created => t \in 1..created
  BY BoundAssumption DEF Txns, InPlay, NoTxn
<1>d. /\ completed \subseteq completed' /\ completed' \subseteq Txns
      /\ channel \subseteq channel'
      /\ \A t \in Txns : t \in completed' /\ t \notin completed =>
           ~Held(t)' /\ notifications[t] \subseteq channel'
      /\ \A t \in Txns : t \notin completed' =>
           notifications'[t] = notifications[t] /\ (t \in armed => t \in timers')
  BY DropFacts DEF TypeOK
<1>h. \A t \in 1..created : Held(t)' => Held(t)
  BY DEF NoNewHolders, WindowHeld, Held
<1>2. EarlyExpired'
  <2> SUFFICES ASSUME NEW t \in completed', Held(t)' PROVE t \in expired
    BY DEF EarlyExpired
  <2>1. t \in completed
    BY <1>d
  <2>2. Held(t)
    BY <2>1, <1>1, <1>h DEF InPlay, TypeOK
  <2> QED
    BY <2>1, <2>2 DEF EarlyExpired
<1>3. LastHolder'
  <2> SUFFICES ASSUME NEW c \in queue', ~c.blocked, c.txn # NoTxn
               PROVE  /\ ~WindowHeld(c.txn)'
                      /\ \A f \in fences : f.txn = c.txn => f.win = c.win /\ f.n = c.n
    BY DEF LastHolder, WindowHeld
  <2>1. c \in queue /\ c.txn \in 1..created
    BY <1>1 DEF InPlay, TypeOK
  <2>2. /\ ~WindowHeld(c.txn)
        /\ \A f \in fences : f.txn = c.txn => f.win = c.win /\ f.n = c.n
    BY <2>1 DEF LastHolder, WindowHeld
  <2> QED
    BY <2>1, <2>2 DEF NoNewHolders
<1>4. BlockedWillWake'
  <2> SUFFICES ASSUME NEW c \in queue'
               PROVE  /\ c.blocked /\ c.txn \notin completed' =>
                           c.txn \in timers' /\ ClientOf[c.win] \in notifications'[c.txn]
                      /\ (\A d \in queue' : d.win = c.win /\ d.n <= c.n => Released(d)') =>
                           ClientOf[c.win] \in channel'
    BY DEF BlockedWillWake
  <2>1. c \in queue
    OBVIOUS
  <2>2. ASSUME c.blocked, c.txn \notin completed'
        PROVE  c.txn \in timers' /\ ClientOf[c.win] \in notifications'[c.txn]
    <3>1. c.txn \in timers /\ ClientOf[c.win] \in notifications[c.txn]
      BY <2>1, <2>2, <1>d DEF BlockedWillWake
    <3> QED
      BY <3>1, <2>2, <1>d
  <2>3. ASSUME \A d \in queue' : d.win = c.win /\ d.n <= c.n => Released(d)'
        PROVE  ClientOf[c.win] \in channel'
    <3>1. CASE \A d \in queue : d.win = c.win /\ d.n <= c.n => Released(d)
      BY <3>1, <2>1, <1>d DEF BlockedWillWake
    <3>2. CASE \E d \in queue : d.win = c.win /\ d.n <= c.n /\ ~Released(d)
      <4>1. PICK d \in queue : d.win = c.win /\ d.n <= c.n /\ ~Released(d)
        BY <3>2
      <4>2. Released(d)'
        BY <4>1, <2>3
      <4>3. d.blocked /\ d.txn \in completed' /\ d.txn \notin completed
        BY <4>1, <4>2 DEF Released
      <4>4. d.txn \in Txns /\ ClientOf[d.win] \in notifications[d.txn]
        BY <4>3, <1>d DEF BlockedWillWake
      <4> QED
        BY <4>1, <4>3, <4>4, <1>d
    <3> QED
      BY <3>1, <3>2
  <2> QED
    BY <2>2, <2>3
<1>5. NoTornResize'
  <2> SUFFICES ASSUME NEW w \in Windows, NEW t \in Txns, <<w, t>> \in shown, Held(t)'
               PROVE  t \in expired
    BY DEF NoTornResize
  <2>1. t \in 1..created
    BY <1>1 DEF InPlay
  <2> QED
    BY <2>1, <1>h DEF NoTornResize
<1> QED
  BY <1>2, <1>3, <1>4, <1>5

---------------------------------------------------------------------------
(* Steps that apply commits. *)

\* What LastHolder says, of the commits q in the next state.
LastHolderNext(q) ==
  \A c \in q : ~c.blocked /\ c.txn # NoTxn =>
    /\ ~WindowHeld(c.txn)'
    /\ \A f \in fences' : f.txn = c.txn => f.win = c.win /\ f.n = c.n

\* Applying commits shows no part of a transaction that others still owe.
LEMMA ApplyTearsNothing ==
  ASSUME TxnInv, NEW q, NEW cs, Apply(q, cs), \A c \in q : c.n \in Nat,
         LastHolderNext(q), EarlyExpired', expired \subseteq expired',
         \A t \in 1..created : Held(t)' => Held(t)
  PROVE  NoTornResize'
<1> DEFINE ready == {c \in q : /\ ClientOf[c.win] \in cs
                               /\ \A d \in q : d.win = c.win /\ d.n <= c.n => Released(d)'}
<1> SUFFICES ASSUME NEW w \in Windows, NEW t \in Txns, <<w, t>> \in shown', Held(t)'
             PROVE  t \in expired'
  BY DEF NoTornResize
<1>1. CASE <<w, t>> \in shown
  <2>1. t \in 1..created
    BY <1>1, BoundAssumption DEF TxnInv, InPlay, Txns, NoTxn
  <2> QED
    BY <1>1, <2>1 DEF TxnInv, NoTornResize
<1>2. ASSUME NEW c \in ready, <<w, t>> = <<c.win, c.txn>> PROVE t \in expired'
  <2>1. Released(c)' /\ c \in q /\ c.txn = t
    BY <1>2
  <2>2. CASE c.blocked
    BY <2>1, <2>2 DEF Released, EarlyExpired
  <2>3. CASE ~c.blocked
    <3>1. t # NoTxn
      BY BoundAssumption DEF Txns, NoTxn
    <3>2. ~WindowHeld(t)' /\ \A f \in fences' : f.txn = t => f.win = c.win /\ f.n = c.n
      BY <2>1, <2>3, <3>1 DEF LastHolderNext
    <3>3. \A f \in fences' : f.txn # t
      BY <3>2, <2>1 DEF Released
    <3> QED
      BY <3>2, <3>3 DEF Held, WindowHeld
  <2> QED
    BY <2>2, <2>3
<1>3. <<w, t>> \in shown \/ \E c \in ready : <<w, t>> = <<c.win, c.txn>>
  BY DEF Apply
<1> QED
  BY <1>1, <1>2, <1>3

\* A step in which the client of w commits, or learns that a fence of w is ready: it may
\* add a commit of w and change the fences of w, and applies what the client can.
LEMMA BusyStep ==
  ASSUME TxnInv, NEW w \in Windows, NEW q,
         NEW noted \in [Txns -> SUBSET Clients], NEW armed \in SUBSET Txns,
         timers \subseteq armed, \A t \in Txns : notifications[t] \subseteq noted[t],
         UNCHANGED <<created, expired>>,
         DropClones(noted, armed), Apply(q, {ClientOf[w]}),
         queue \subseteq q, \A c \in q : c.n \in Nat,
         \A c \in q : c \notin queue => c.win = w /\
           (c.blocked => c.txn \in Txns /\ c.txn \in armed /\ ClientOf[w] \in noted[c.txn]),
         \A f : f.win # w => (f \in fences' <=> f \in fences),
         \A t \in 1..created : Held(t)' => Held(t),
         LastHolderNext(q)
  PROVE  EarlyExpired' /\ LastHolder' /\ BlockedWillWake' /\ NoTornResize'
<1> USE DEF TxnInv
<1>1. \A t \in Txns : t <= created => t \in 1..created
  BY BoundAssumption DEF Txns, InPlay, NoTxn
<1>d. /\ completed \subseteq completed' /\ completed' \subseteq Txns
      /\ channel \subseteq channel'
      /\ \A t \in Txns : t \in completed' /\ t \notin completed =>
           ~Held(t)' /\ noted[t] \subseteq channel'
      /\ \A t \in Txns : t \notin completed' =>
           notifications'[t] = noted[t] /\ (t \in armed => t \in timers')
  BY DropFacts DEF InPlay
<1>q. queue' \subseteq q
  BY DEF Apply
<1>2. EarlyExpired'
  <2> SUFFICES ASSUME NEW t \in completed', Held(t)' PROVE t \in expired
    BY DEF EarlyExpired
  <2>1. t \in completed
    BY <1>d
  <2> QED
    BY <2>1, <1>1 DEF EarlyExpired, InPlay, TypeOK
<1>3. LastHolder'
  BY <1>q DEF LastHolder, LastHolderNext, WindowHeld
<1>4. BlockedWillWake'
  <2> SUFFICES ASSUME NEW c \in queue'
               PROVE  /\ c.blocked /\ c.txn \notin completed' =>
                           c.txn \in timers' /\ ClientOf[c.win] \in notifications'[c.txn]
                      /\ (\A d \in queue' : d.win = c.win /\ d.n <= c.n => Released(d)') =>
                           ClientOf[c.win] \in channel'
    BY DEF BlockedWillWake
  <2>2. ASSUME c.blocked, c.txn \notin completed'
        PROVE  c.txn \in timers' /\ ClientOf[c.win] \in notifications'[c.txn]
    <3>1. c.txn \in Txns /\ c.txn \in armed /\ ClientOf[c.win] \in noted[c.txn]
      <4>1. CASE c \in queue
        BY <4>1, <2>2, <1>d DEF BlockedWillWake, TypeOK
      <4>2. CASE c \notin queue
        BY <4>2, <2>2, <1>q
      <4> QED
        BY <4>1, <4>2
    <3> QED
      BY <3>1, <2>2, <1>d
  <2>3. ASSUME \A d \in queue' : d.win = c.win /\ d.n <= c.n => Released(d)'
        PROVE  ClientOf[c.win] \in channel'
    <3>1. ClientOf[c.win] # ClientOf[w]
      BY <2>3, NothingReadyLeft
    <3>2. c.win # w /\ c \in queue
      BY <3>1, <1>q
    <3>3. \A d \in queue : d.win = c.win => d \in queue'
      BY <3>1 DEF Apply
    <3>4. CASE \A d \in queue : d.win = c.win /\ d.n <= c.n => Released(d)
      BY <3>2, <3>4, <1>d DEF BlockedWillWake
    <3>5. CASE \E d \in queue : d.win = c.win /\ d.n <= c.n /\ ~Released(d)
      <4>1. PICK d \in queue : d.win = c.win /\ d.n <= c.n /\ ~Released(d)
        BY <3>5
      <4>2. Released(d)'
        BY <4>1, <3>3, <2>3
      <4>3. d.blocked /\ d.txn \in completed' /\ d.txn \notin completed
        BY <4>1, <4>2, <3>2 DEF Released
      <4>4. d.txn \in Txns /\ ClientOf[d.win] \in notifications[d.txn]
        BY <4>3, <1>d DEF BlockedWillWake
      <4> QED
        BY <4>1, <4>3, <4>4, <1>d
    <3> QED
      BY <3>4, <3>5
  <2> QED
    BY <2>2, <2>3
<1>5. NoTornResize'
  BY <1>2, ApplyTearsNothing
<1> QED
  BY <1>2, <1>3, <1>4, <1>5

---------------------------------------------------------------------------
(* The actions. *)

\* A new transaction is the next number, and no window let go of anything by it.
LEMMA FreshTxn ==
  ASSUME TxnInv, NEW t \in Txns, t = created + 1
  PROVE  t \notin 1..created /\ \A k \in 1..created : k # t /\ k <= t
  BY BoundAssumption DEF TxnInv, InPlay, Txns, NoTxn

\* InPlay is kept where windows get nothing but the new transaction and what they or
\* other windows had.
LEMMA InPlayStep ==
  ASSUME TxnInv, TypeOK', created' \in Txns \cup {NoTxn}, created <= created',
         \A w \in Windows : /\ next'[w] <= created'
                            /\ \A i \in DOMAIN pending'[w] : pending'[w][i] <= created',
         UNCHANGED <<fences, shown>>, queue' \subseteq queue,
         \A t \in Txns : t \in completed' /\ t \notin completed => t <= created',
         \A t \in timers' : t \in timers \/ t <= created'
  PROVE  InPlay'
<1> USE DEF TxnInv
<1>1. created \in Nat /\ created' \in Nat
  BY BoundAssumption DEF InPlay, Txns, NoTxn
<1>2. \A k \in Txns \cup {NoTxn} : k <= created => k <= created'
  BY <1>1, BoundAssumption DEF Txns, NoTxn
<1>3. \A f \in fences' : f.txn <= created'
  BY <1>2 DEF InPlay, TypeOK
<1>4. \A c \in queue' : c.txn <= created' /\ (c.blocked => c.txn # NoTxn)
  BY <1>2 DEF InPlay, TypeOK
<1>5. \A t \in completed' \cup timers' : t <= created'
  BY <1>2 DEF InPlay, TypeOK
<1>6. \A p \in shown' : p[2] <= created'
  BY <1>2 DEF InPlay, TypeOK
<1> QED
  BY <1>3, <1>4, <1>5, <1>6 DEF InPlay

\* What the windows hold was created before.
LEMMA OlderTxns ==
  ASSUME TxnInv, created' \in Txns \cup {NoTxn}, created <= created'
  PROVE  /\ created \in Nat /\ created' \in Nat /\ NoTxn <= created'
         /\ \A k \in Txns \cup {NoTxn} : k <= created => k <= created'
         /\ \A v \in Windows : /\ next[v] <= created'
                               /\ \A i \in DOMAIN pending[v] : pending[v][i] <= created'
<1> USE DEF TxnInv
<1>1. created \in Nat /\ created' \in Nat /\ NoTxn <= created' /\ Txns \cup {NoTxn} \subseteq Nat
  BY BoundAssumption DEF InPlay, Txns, NoTxn
<1>2. \A k \in Txns \cup {NoTxn} : k <= created => k <= created'
  BY <1>1
<1>3. \A v \in Windows : /\ next[v] \in Txns \cup {NoTxn}
                        /\ \A i \in DOMAIN pending[v] : pending[v][i] \in Txns
  BY DEF TypeOK
<1> QED
  BY <1>1, <1>2, <1>3 DEF InPlay

\* Resizing windows keeps the invariant.
LEMMA ResizeStep ==
  ASSUME TxnInv, NEW S, NEW t \in Txns, Resize(S, t)
  PROVE  TxnInv'
<1> USE DEF TxnInv
<1>1. created' \in Txns \cup {NoTxn} /\ created <= created'
  BY BoundAssumption DEF Resize, InPlay, Txns, NoTxn
<1>2. NoNewHolders
  BY FreshTxn DEF Resize, NoNewHolders, WindowHeld, TypeOK
<1>3. DropClones(notifications, timers) /\ UNCHANGED <<fences, queue, shown, expired, pending, closing>>
  BY DEF Resize
<1>4. EarlyExpired' /\ LastHolder' /\ BlockedWillWake' /\ NoTornResize'
  BY <1>1, <1>2, <1>3, QuietStep DEF TypeOK
<1>5. /\ completed' \subseteq Txns /\ channel' \subseteq Clients /\ timers' \subseteq Txns
      /\ notifications' \in [Txns -> SUBSET Clients]
      /\ \A k \in Txns : k \in completed' /\ k \notin completed => k <= created'
      /\ timers' \subseteq timers
  BY <1>1, <1>3, DropFacts DEF TypeOK
<1>6. TypeOK'
  BY <1>1, <1>3, <1>5, BoundAssumption DEF Resize, TypeOK, Txns, NoTxn
<1>7. \A v \in Windows : /\ next'[v] <= created'
                          /\ \A i \in DOMAIN pending'[v] : pending'[v][i] <= created'
  <2> TAKE v \in Windows
  <2>1. next'[v] = t \/ next'[v] = next[v]
    BY DEF Resize, TypeOK
  <2>2. t <= created'
    BY BoundAssumption DEF Resize, Txns
  <2> QED
    BY <2>1, <2>2, <1>1, <1>3, OlderTxns
<1>8. InPlay'
  BY <1>1, <1>3, <1>5, <1>6, <1>7, InPlayStep
<1> QED
  BY <1>4, <1>6, <1>8

\* A window that leaves its transaction keeps the invariant.
LEMMA RequestSizeOnceStep ==
  ASSUME TxnInv, NEW w \in Windows, RequestSizeOnce(w)
  PROVE  TxnInv'
<1> USE DEF TxnInv
<1>2. NoNewHolders
  BY DEF RequestSizeOnce, NoNewHolders, WindowHeld, TypeOK, NoTxn
<1>3. DropClones(notifications, timers) /\ UNCHANGED <<fences, queue, shown, expired, pending, closing, created>>
  BY DEF RequestSizeOnce
<1>4. EarlyExpired' /\ LastHolder' /\ BlockedWillWake' /\ NoTornResize'
  BY <1>2, <1>3, QuietStep DEF TypeOK, InPlay
<1>5. /\ completed' \subseteq Txns /\ channel' \subseteq Clients /\ timers' \subseteq Txns
      /\ notifications' \in [Txns -> SUBSET Clients]
      /\ \A k \in Txns : k \in completed' /\ k \notin completed => k <= created'
      /\ timers' \subseteq timers
  BY <1>3, DropFacts DEF TypeOK, InPlay
<1>6. TypeOK'
  BY <1>3, <1>5 DEF RequestSizeOnce, TypeOK
<1>7. InPlay'
  BY <1>3, <1>5, BoundAssumption DEF RequestSizeOnce, TypeOK, InPlay, Txns, NoTxn
<1> QED
  BY <1>4, <1>6, <1>7

\* Sending a configure, or finding none is needed, keeps the invariant.
LEMMA SendPendingConfigureStep ==
  ASSUME TxnInv, NEW w \in Windows, NEW changes \in BOOLEAN, SendPendingConfigure(w, changes)
  PROVE  TxnInv'
<1> USE DEF TxnInv
<1>1. /\ pending' \in [Windows -> Seq(Txns)] /\ next' \in [Windows -> Txns \cup {NoTxn}]
      /\ \A v \in Windows : next'[v] = next[v] \/ next'[v] = NoTxn
      /\ \A v \in Windows : \A i \in DOMAIN pending'[v] :
           (i \in DOMAIN pending[v] /\ pending'[v][i] = pending[v][i]) \/ pending'[v][i] = next[v]
  BY BoundAssumption DEF SendPendingConfigure, TypeOK, Txns, NoTxn
<1>2. NoNewHolders
  <2> SUFFICES ASSUME NEW t \in 1..created, WindowHeld(t)' PROVE WindowHeld(t)
    BY DEF NoNewHolders
  <2>1. t # NoTxn
    BY DEF NoTxn
  <2>2. PICK v \in Windows : next'[v] = t \/ \E i \in DOMAIN pending'[v] : pending'[v][i] = t
    BY DEF WindowHeld
  <2>3. next[v] = t \/ \E i \in DOMAIN pending[v] : pending[v][i] = t
    BY <1>1, <2>1, <2>2
  <2> QED
    BY <2>3 DEF WindowHeld
<1>3. DropClones(notifications, timers) /\ UNCHANGED <<fences, queue, shown, expired, mapped, closing, created>>
  BY DEF SendPendingConfigure
<1>4. EarlyExpired' /\ LastHolder' /\ BlockedWillWake' /\ NoTornResize'
  BY <1>2, <1>3, QuietStep DEF TypeOK, InPlay
<1>5. /\ completed' \subseteq Txns /\ channel' \subseteq Clients /\ timers' \subseteq Txns
      /\ notifications' \in [Txns -> SUBSET Clients]
      /\ \A k \in Txns : k \in completed' /\ k \notin completed => k <= created'
      /\ timers' \subseteq timers
  BY <1>3, DropFacts DEF TypeOK, InPlay
<1>6. TypeOK'
  BY <1>1, <1>3, <1>5 DEF TypeOK
<1>7. InPlay'
  <2>1. created \in Nat /\ NoTxn <= created
    BY BoundAssumption DEF InPlay, Txns, NoTxn
  <2>2. \A v \in Windows : /\ next'[v] <= created
                            /\ \A i \in DOMAIN pending'[v] : pending'[v][i] <= created
    BY <1>1, <2>1 DEF InPlay
  <2> QED
    BY <1>3, <1>5, <1>6, <2>1, <2>2, InPlayStep DEF InPlay
<1> QED
  BY <1>4, <1>6, <1>7

\* Removing a window keeps the invariant.
LEMMA RemoveWindowStep ==
  ASSUME TxnInv, NEW w \in Windows, NEW S, NEW t \in Txns \cup {NoTxn}, RemoveWindow(w, S, t)
  PROVE  TxnInv'
<1> USE DEF TxnInv
<1> DEFINE armed == IF S = {} THEN timers ELSE RegisterDeadlineTimer(t)
<1>1. created' \in Txns \cup {NoTxn} /\ created <= created' /\ t <= created'
  BY BoundAssumption DEF RemoveWindow, InPlay, Txns, NoTxn
<1>2. \A v \in Windows : /\ next'[v] \in {next[v], t, NoTxn}
                          /\ \A i \in DOMAIN pending'[v] : /\ i \in DOMAIN pending[v]
                                                          /\ pending'[v][i] = pending[v][i]
  <2> TAKE v \in Windows
  <2>1. next'[v] \in {next[v], t, NoTxn}
    BY DEF RemoveWindow
  <2>2. CASE v = w
    BY <2>1, <2>2 DEF RemoveWindow, TypeOK
  <2>3. CASE v # w
    BY <2>1, <2>3 DEF RemoveWindow, TypeOK
  <2> QED
    BY <2>2, <2>3
<1>3. NoNewHolders
  <2> SUFFICES ASSUME NEW k \in 1..created, WindowHeld(k)' PROVE WindowHeld(k)
    BY DEF NoNewHolders
  <2>1. t = NoTxn \/ t = created + 1
    BY DEF RemoveWindow
  <2>2. created \in Nat
    BY <1>1, OlderTxns
  <2>3. k # NoTxn /\ k # t
    BY <2>1, <2>2 DEF NoTxn
  <2>4. PICK v \in Windows : next'[v] = k \/ \E i \in DOMAIN pending'[v] : pending'[v][i] = k
    BY DEF WindowHeld
  <2>5. next[v] = k \/ \E i \in DOMAIN pending[v] : pending[v][i] = k
    BY <1>2, <2>3, <2>4
  <2> QED
    BY <2>5 DEF WindowHeld
<1>4. /\ DropClones(notifications, armed) /\ UNCHANGED <<fences, shown, expired>>
      /\ queue' \subseteq queue
      /\ \A c \in queue', d \in queue : d.win = c.win => d \in queue'
  BY DEF RemoveWindow
<1>5. armed \in SUBSET Txns /\ timers \subseteq armed
  BY BoundAssumption DEF RemoveWindow, RegisterDeadlineTimer, TypeOK, InPlay, Txns, NoTxn
<1>6. EarlyExpired' /\ LastHolder' /\ BlockedWillWake' /\ NoTornResize'
  <2> HIDE DEF armed
  <2> QED
    BY <1>1, <1>3, <1>4, <1>5, QuietStep DEF TypeOK
<1>7. /\ completed' \subseteq Txns /\ channel' \subseteq Clients /\ timers' \subseteq Txns
      /\ notifications' \in [Txns -> SUBSET Clients]
      /\ \A k \in Txns : k \in completed' /\ k \notin completed => k <= created'
      /\ timers' \subseteq armed
  <2> HIDE DEF armed
  <2> QED
    BY <1>1, <1>4, <1>5, DropFacts DEF TypeOK
<1>8. TypeOK'
  <2>1. /\ mapped' \subseteq Windows /\ next' \in [Windows -> Txns \cup {NoTxn}]
        /\ pending' \in [Windows -> Seq(Txns)]
    BY DEF RemoveWindow, TypeOK
  <2>2. created' \in Nat /\ closing' \subseteq Txns
    <3>1. CASE S = {}
      BY <3>1, <1>1, OlderTxns DEF RemoveWindow, TypeOK
    <3>2. CASE S # {}
      <4>1. t \in Txns
        BY <3>2, <1>1, OlderTxns DEF RemoveWindow, NoTxn
      <4> QED
        BY <3>2, <4>1, <1>1, OlderTxns DEF RemoveWindow, TypeOK
    <3> QED
      BY <3>1, <3>2
  <2> QED
    BY <1>4, <1>7, <2>1, <2>2 DEF TypeOK
<1>9. InPlay'
  <2>1. \A v \in Windows : /\ next'[v] <= created'
                            /\ \A i \in DOMAIN pending'[v] : pending'[v][i] <= created'
    BY <1>1, <1>2, OlderTxns
  <2>2. \A k \in timers' : k \in timers \/ k <= created'
    BY <1>1, <1>7 DEF RegisterDeadlineTimer
  <2> QED
    BY <1>1, <1>4, <1>7, <1>8, <2>1, <2>2, InPlayStep
<1> QED
  BY <1>6, <1>8, <1>9

\* The commits of the clients in the channel are applied: the invariant is kept.
LEMMA NotifyBlockerClearedStep ==
  ASSUME TxnInv, NotifyBlockerCleared
  PROVE  TxnInv'
<1> USE DEF TxnInv
<1>1. /\ Apply(queue, channel) /\ channel' = {}
      /\ UNCHANGED <<mapped, next, pending, fences, created, completed, notifications,
                     timers, expired, closing>>
  BY DEF NotifyBlockerCleared, windowVars
<1>2. queue' \subseteq queue
  BY <1>1 DEF Apply
<1>3. \A c \in queue : c.n \in Nat
  BY DEF TypeOK
<1>h. \A t : Held(t)' <=> Held(t)
  BY <1>1 DEF Held
<1>r. \A d : Released(d)' <=> Released(d)
  BY <1>1 DEF Released
<1>4. \A p \in shown' : p \in shown \/ \E c \in queue : p = <<c.win, c.txn>>
  BY DEF Apply, NotifyBlockerCleared
<1>5. TypeOK'
  <2>1. shown' \subseteq Windows \X (Txns \cup {NoTxn})
    BY <1>4 DEF TypeOK
  <2> QED
    BY <1>1, <1>2, <2>1 DEF TypeOK
<1>6. InPlay'
  <2>1. \A p \in shown' : p[2] <= created
    BY <1>4 DEF InPlay
  <2> QED
    BY <1>1, <1>2, <2>1 DEF InPlay
<1>7. EarlyExpired'
  BY <1>1, <1>h DEF EarlyExpired
<1>8. LastHolderNext(queue)
  BY <1>1 DEF LastHolder, LastHolderNext, WindowHeld
<1>9. LastHolder'
  BY <1>2, <1>8 DEF LastHolder, LastHolderNext, WindowHeld
<1>10. NoTornResize'
  BY <1>1, <1>3, <1>7, <1>8, <1>h, ApplyTearsNothing
<1>11. BlockedWillWake'
  <2> SUFFICES ASSUME NEW c \in queue'
               PROVE  /\ c.blocked /\ c.txn \notin completed =>
                           c.txn \in timers /\ ClientOf[c.win] \in notifications[c.txn]
                      /\ ~(\A d \in queue' : d.win = c.win /\ d.n <= c.n => Released(d)')
    BY <1>1 DEF BlockedWillWake
  <2>1. c \in queue
    BY <1>2
  <2>2. c.blocked /\ c.txn \notin completed =>
          c.txn \in timers /\ ClientOf[c.win] \in notifications[c.txn]
    BY <2>1 DEF BlockedWillWake
  <2>3. CASE ClientOf[c.win] \in channel
    BY <2>2, <2>3, <1>1, <1>3, NothingReadyLeft
  <2>4. CASE ClientOf[c.win] \notin channel
    <3>1. PICK d \in queue : d.win = c.win /\ d.n <= c.n /\ ~Released(d)
      BY <2>1, <2>4 DEF BlockedWillWake
    <3>2. d \in queue'
      BY <3>1, <2>4, <1>1 DEF Apply
    <3> QED
      BY <2>2, <3>1, <3>2, <1>r
  <2> QED
    BY <2>3, <2>4
<1> QED
  BY <1>5, <1>6, <1>7, <1>9, <1>10, <1>11

\* A deadline keeps the invariant.
LEMMA DeadlineTimerStep ==
  ASSUME TxnInv, NEW t \in Txns, DeadlineTimer(t)
  PROVE  TxnInv'
<1> USE DEF TxnInv
<1>1. /\ UNCHANGED <<mapped, next, pending, fences, created, queue, shown, closing>>
      /\ timers' = timers \ {t} /\ expired' = expired \cup {t}
  BY DEF DeadlineTimer, windowVars
<1>2. /\ completed' = completed \cup {t}
      /\ channel' = channel \cup notifications[t]
      /\ notifications' = [k \in Txns |-> IF k \in {t} THEN {} ELSE notifications[k]]
  BY DEF DeadlineTimer, Complete
<1>h. \A k : Held(k)' <=> Held(k)
  BY <1>1 DEF Held
<1>3. TypeOK'
  BY <1>1, <1>2 DEF TypeOK
<1>4. EarlyExpired'
  BY <1>1, <1>2, <1>h DEF EarlyExpired
<1>5. LastHolder'
  BY <1>1 DEF LastHolder
<1>6. NoTornResize'
  BY <1>1, <1>h DEF NoTornResize
<1>7. BlockedWillWake'
  <2> SUFFICES ASSUME NEW c \in queue
               PROVE  /\ c.blocked /\ c.txn \notin completed' =>
                           c.txn \in timers' /\ ClientOf[c.win] \in notifications'[c.txn]
                      /\ (\A d \in queue : d.win = c.win /\ d.n <= c.n => Released(d)') =>
                           ClientOf[c.win] \in channel'
    BY <1>1 DEF BlockedWillWake
  <2>1. ASSUME c.blocked, c.txn \notin completed'
        PROVE  c.txn \in timers' /\ ClientOf[c.win] \in notifications'[c.txn]
    <3>1. c.txn \in timers /\ ClientOf[c.win] \in notifications[c.txn] /\ c.txn # t
      BY <2>1, <1>2 DEF BlockedWillWake
    <3>2. c.txn \in Txns
      BY <3>1 DEF TypeOK
    <3> QED
      BY <3>1, <3>2, <1>1, <1>2
  <2>2. ASSUME \A d \in queue : d.win = c.win /\ d.n <= c.n => Released(d)'
        PROVE  ClientOf[c.win] \in channel'
    <3>1. CASE \A d \in queue : d.win = c.win /\ d.n <= c.n => Released(d)
      BY <3>1, <1>2 DEF BlockedWillWake
    <3>2. CASE \E d \in queue : d.win = c.win /\ d.n <= c.n /\ ~Released(d)
      <4>1. PICK d \in queue : d.win = c.win /\ d.n <= c.n /\ ~Released(d)
        BY <3>2
      <4>2. d.blocked /\ d.txn = t /\ d.txn \notin completed
        BY <4>1, <2>2, <1>1, <1>2 DEF Released
      <4> QED
        BY <4>1, <4>2, <1>2 DEF BlockedWillWake
    <3> QED
      BY <3>1, <3>2
  <2> QED
    BY <2>1, <2>2
<1>8. InPlay'
  BY <1>1, <1>2 DEF DeadlineTimer, InPlay
<1> QED
  BY <1>3, <1>4, <1>5, <1>6, <1>7, <1>8

\* A fence that signals keeps the invariant.
LEMMA DmabufReadyStep ==
  ASSUME TxnInv, NEW w \in Windows, NEW n, DmabufReady(w, n)
  PROVE  TxnInv'
<1> USE DEF TxnInv
<1>1. PICK f \in fences : f.win = w /\ fences' = fences \ {f}
  BY DEF DmabufReady
<1>2. /\ UNCHANGED <<mapped, next, pending, created, expired, closing>>
      /\ DropClones(notifications, timers) /\ Apply(queue, {ClientOf[w]})
  BY DEF DmabufReady, windowVars
<1>3. \A c \in queue : c.n \in Nat
  BY DEF TypeOK
<1>4. \A t \in 1..created : Held(t)' => Held(t)
  BY <1>1, <1>2 DEF Held
<1>5. LastHolderNext(queue)
  BY <1>1, <1>2 DEF LastHolder, LastHolderNext, WindowHeld
<1>6. \A g : g.win # w => (g \in fences' <=> g \in fences)
  BY <1>1
<1>7. EarlyExpired' /\ LastHolder' /\ BlockedWillWake' /\ NoTornResize'
  BY <1>2, <1>3, <1>4, <1>5, <1>6, BusyStep DEF TypeOK
<1>8. /\ completed' \subseteq Txns /\ channel' \subseteq Clients /\ timers' \subseteq timers
      /\ notifications' \in [Txns -> SUBSET Clients]
      /\ \A k \in Txns : k \in completed' /\ k \notin completed => k <= created'
  BY <1>2, DropFacts DEF TypeOK, InPlay
<1>9. /\ queue' \subseteq queue
      /\ \A p \in shown' : p \in shown \/ \E c \in queue : p = <<c.win, c.txn>>
  BY <1>2 DEF Apply
<1>10. TypeOK'
  <2>1. shown' \subseteq Windows \X (Txns \cup {NoTxn})
    BY <1>9 DEF TypeOK
  <2> QED
    BY <1>1, <1>2, <1>8, <1>9, <2>1 DEF TypeOK
<1>11. InPlay'
  <2>1. \A p \in shown' : p[2] <= created
    BY <1>9 DEF InPlay
  <2>2. \A k \in completed' \cup timers' : k <= created
    BY <1>2, <1>8 DEF InPlay
  <2> QED
    BY <1>1, <1>2, <1>9, <2>1, <2>2 DEF InPlay
<1> QED
  BY <1>7, <1>10, <1>11

\* A commit keeps the invariant.
LEMMA CommitStep ==
  ASSUME TxnInv, NEW w \in Windows, NEW k \in Nat, NEW n \in Nat, NEW dmabuf \in BOOLEAN,
         Commit(w, k, n, dmabuf)
  PROVE  TxnInv'
<1> USE DEF TxnInv
<1> DEFINE t == Taken(w, k)
           live == t # NoTxn /\ t \notin completed
           left == [pending EXCEPT ![w] = SubSeq(@, k + 1, Len(@))]
           last == /\ \A v \in Windows : next[v] # t /\ \A i \in DOMAIN left[v] : left[v][i] # t
                   /\ \A f \in fences : f.txn # t
           blocked == live /\ ~last
           fence == [win |-> w, n |-> n, txn |-> IF live THEN t ELSE NoTxn]
           commit == [win |-> w, n |-> n, txn |-> IF live THEN t ELSE NoTxn, blocked |-> blocked]
           noted == IF blocked THEN [notifications EXCEPT ![t] = @ \cup {ClientOf[w]}]
                               ELSE notifications
           armed == IF live THEN RegisterDeadlineTimer(t) ELSE timers
           q == queue \cup {commit}
<1>1. /\ k <= Len(pending[w]) /\ pending' = left
      /\ fences' = fences \/ fences' = fences \cup {fence}
      /\ UNCHANGED <<mapped, next, created, expired, closing>>
  BY DEF Commit
<1>2. DropClones(noted, armed) /\ Apply(q, {ClientOf[w]})
  BY DEF Commit
<1>3. /\ t \in Txns \cup {NoTxn}
      /\ t # NoTxn => \E i \in DOMAIN pending[w] : pending[w][i] = t
  BY <1>1 DEF Taken, TypeOK
<1>4. /\ left \in [Windows -> Seq(Txns)]
      /\ \A v \in Windows : \A i \in DOMAIN left[v] :
           \E j \in DOMAIN pending[v] : pending[v][j] = left[v][i]
  <2>1. /\ SubSeq(pending[w], k + 1, Len(pending[w])) \in Seq(Txns)
        /\ \A i \in DOMAIN SubSeq(pending[w], k + 1, Len(pending[w])) :
             \E j \in DOMAIN pending[w] :
               pending[w][j] = SubSeq(pending[w], k + 1, Len(pending[w]))[i]
    <3>1. pending[w] \in Seq(Txns) /\ Len(pending[w]) \in Nat
      BY DEF TypeOK
    <3> QED
      BY <3>1, <1>1
  <2> QED
    BY <2>1 DEF TypeOK
<1>5. \A v \in Windows : \A i \in DOMAIN pending'[v] :
        \E j \in DOMAIN pending[v] : pending[v][j] = pending'[v][i]
  BY <1>1, <1>4
<1>6. live => WindowHeld(t) /\ t \in Txns /\ t <= created
  BY <1>3 DEF WindowHeld, InPlay
<1>7. commit \in [win : Windows, n : Nat, txn : Txns \cup {NoTxn}, blocked : BOOLEAN]
  BY <1>3
<1>8. fence \in [win : Windows, n : Nat, txn : Txns \cup {NoTxn}]
  BY <1>3
<1>9. /\ noted \in [Txns -> SUBSET Clients]
      /\ \A j \in Txns : notifications[j] \subseteq noted[j]
      /\ blocked => ClientOf[w] \in noted[t]
  BY <1>3, ClientOfAssumption DEF TypeOK
<1>10. armed \in SUBSET Txns /\ timers \subseteq armed /\ (live => t \in armed)
       /\ \A j \in armed : j \in timers \/ (live /\ j = t)
  BY <1>3 DEF RegisterDeadlineTimer, TypeOK
<1>11. LastHolderNext(q)
  <2> SUFFICES ASSUME NEW c \in q, ~c.blocked, c.txn # NoTxn
               PROVE  /\ ~WindowHeld(c.txn)'
                      /\ \A f \in fences' : f.txn = c.txn => f.win = c.win /\ f.n = c.n
    BY DEF LastHolderNext
  <2>1. CASE c \in queue
    <3>1. /\ ~WindowHeld(c.txn)
          /\ \A f \in fences : f.txn = c.txn => f.win = c.win /\ f.n = c.n
      BY <2>1 DEF LastHolder, WindowHeld
    <3>2. ~WindowHeld(c.txn)'
      BY <3>1, <1>1, <1>5 DEF WindowHeld
    <3>3. fence.txn # c.txn
      BY <3>1, <1>6
    <3> QED
      BY <3>1, <3>2, <3>3, <1>1
  <2>2. CASE c = commit
    <3>1. live /\ last /\ c.txn = t /\ c.win = w /\ c.n = n
      BY <2>2
    <3>2. ~WindowHeld(c.txn)'
      BY <3>1, <1>1 DEF WindowHeld
    <3>3. \A f \in fences' : f.txn = c.txn => f.win = w /\ f.n = n
      BY <3>1, <1>1
    <3> QED
      BY <3>1, <3>2, <3>3
  <2> QED
    BY <2>1, <2>2
<1>12. \A j \in 1..created : Held(j)' => Held(j)
  <2> SUFFICES ASSUME NEW j \in 1..created, Held(j)' PROVE Held(j)
    OBVIOUS
  <2>1. CASE WindowHeld(j)'
    BY <2>1, <1>1, <1>5 DEF WindowHeld, Held
  <2>2. ASSUME NEW f \in fences', f.txn = j PROVE Held(j)
    <3>1. CASE f \in fences
      BY <3>1, <2>2 DEF Held
    <3>2. CASE f = fence
      <4>1. j # NoTxn
        BY DEF NoTxn
      <4> QED
        BY <3>2, <2>2, <4>1, <1>6 DEF Held, WindowHeld
    <3> QED
      BY <3>1, <3>2, <1>1
  <2> QED
    BY <2>1, <2>2 DEF Held, WindowHeld
<1>13. /\ queue \subseteq q /\ \A c \in q : c.n \in Nat
       /\ \A c \in q : c \notin queue => c.win = w /\
            (c.blocked => c.txn \in Txns /\ c.txn \in armed /\ ClientOf[w] \in noted[c.txn])
  <2>1. \A c \in queue : c.n \in Nat
    BY DEF TypeOK
  <2>2. commit.blocked => commit.txn = t /\ live /\ blocked
    OBVIOUS
  <2> HIDE DEF noted, armed, live, blocked, t
  <2> QED
    BY <2>1, <2>2, <1>6, <1>9, <1>10
<1>14. \A f : f.win # w => (f \in fences' <=> f \in fences)
  BY <1>1
<1>15. /\ queue' \subseteq q
       /\ \A p \in shown' : p \in shown \/ \E c \in q : p = <<c.win, c.txn>>
  BY <1>2 DEF Apply
<1>16. commit.txn <= created /\ fence.txn <= created /\ (blocked => commit.txn # NoTxn)
  <2>1. NoTxn <= created
    BY BoundAssumption DEF InPlay, Txns, NoTxn
  <2> QED
    BY <2>1, <1>6
<1> HIDE DEF t, live, left, last, blocked, noted, armed
<1>17. EarlyExpired' /\ LastHolder' /\ BlockedWillWake' /\ NoTornResize'
  <2> HIDE DEF q
  <2> QED
    BY <1>1, <1>2, <1>9, <1>10, <1>11, <1>12, <1>13, <1>14, BusyStep
<1>18. /\ completed' \subseteq Txns /\ channel' \subseteq Clients /\ timers' \subseteq armed
       /\ notifications' \in [Txns -> SUBSET Clients]
       /\ \A j \in Txns : j \in completed' /\ j \notin completed => j <= created'
  BY <1>1, <1>2, <1>9, <1>10, DropFacts DEF InPlay
<1>19. TypeOK'
  <2> HIDE DEF commit, fence
  <2>1. shown' \subseteq Windows \X (Txns \cup {NoTxn})
    BY <1>7, <1>15 DEF TypeOK
  <2> QED
    BY <1>1, <1>4, <1>7, <1>8, <1>10, <1>15, <1>18, <2>1 DEF TypeOK
<1>20. InPlay'
  <2> HIDE DEF fence
  <2>1. \A p \in shown' : p[2] <= created
    BY <1>15, <1>16 DEF InPlay
  <2>2. \A j \in completed' \cup timers' : j <= created
    BY <1>1, <1>6, <1>10, <1>18 DEF InPlay
  <2>3. \A v \in Windows : /\ next'[v] <= created
                            /\ \A i \in DOMAIN pending'[v] : pending'[v][i] <= created
    BY <1>1, <1>5 DEF InPlay
  <2>4. \A f \in fences' : f.txn <= created
    BY <1>1, <1>16 DEF InPlay
  <2>5. \A c \in queue' : c.txn <= created /\ (c.blocked => c.txn # NoTxn)
    BY <1>15, <1>16 DEF InPlay
  <2> QED
    BY <1>1, <2>1, <2>2, <2>3, <2>4, <2>5 DEF InPlay
<1> QED
  BY <1>17, <1>19, <1>20

---------------------------------------------------------------------------
(* The theorems. *)

\* The invariant holds when the compositor starts.
LEMMA TxnInvInit == Init => TxnInv
<1> SUFFICES ASSUME Init PROVE TxnInv
  OBVIOUS
<1>1. TypeOK
  BY BoundAssumption DEF Init, TypeOK, Txns, NoTxn
<1>2. InPlay
  BY BoundAssumption DEF Init, InPlay, Txns, NoTxn
<1>3. EarlyExpired /\ LastHolder /\ BlockedWillWake /\ NoTornResize
  BY DEF Init, EarlyExpired, LastHolder, BlockedWillWake, NoTornResize
<1> QED
  BY <1>1, <1>2, <1>3 DEF TxnInv

\* Every step keeps the invariant.
LEMMA TxnInvStep == TxnInv /\ [Next]_vars => TxnInv'
<1> SUFFICES ASSUME TxnInv, [Next]_vars PROVE TxnInv'
  OBVIOUS
<1>1. CASE WindowNext
  <2>1. PICK w \in Windows :
          \/ RequestSizeOnce(w)
          \/ \E changes \in BOOLEAN : SendPendingConfigure(w, changes)
          \/ \E k \in 0..MaxTxns, n \in 1..MaxQueued, dmabuf \in BOOLEAN : Commit(w, k, n, dmabuf)
          \/ \E n \in 1..MaxQueued : DmabufReady(w, n)
          \/ \E S \in SUBSET Windows, t \in Txns \cup {NoTxn} : RemoveWindow(w, S, t)
    BY <1>1 DEF WindowNext
  <2>2. CASE RequestSizeOnce(w)
    BY <2>2, RequestSizeOnceStep
  <2>3. ASSUME NEW changes \in BOOLEAN, SendPendingConfigure(w, changes) PROVE TxnInv'
    BY <2>3, SendPendingConfigureStep
  <2>4. ASSUME NEW k \in 0..MaxTxns, NEW n \in 1..MaxQueued, NEW dmabuf \in BOOLEAN,
               Commit(w, k, n, dmabuf)
        PROVE  TxnInv'
    <3>1. k \in Nat /\ n \in Nat
      BY BoundAssumption
    <3> QED
      BY <2>4, <3>1, CommitStep
  <2>5. ASSUME NEW n \in 1..MaxQueued, DmabufReady(w, n) PROVE TxnInv'
    BY <2>5, DmabufReadyStep
  <2>6. ASSUME NEW S \in SUBSET Windows, NEW t \in Txns \cup {NoTxn}, RemoveWindow(w, S, t)
        PROVE  TxnInv'
    BY <2>6, RemoveWindowStep
  <2> QED
    BY <2>1, <2>2, <2>3, <2>4, <2>5, <2>6
<1>2. CASE TxnNext
  <2>1. ASSUME NEW t \in Txns, DeadlineTimer(t) PROVE TxnInv'
    BY <2>1, DeadlineTimerStep
  <2>2. ASSUME NEW t \in Txns, NEW S \in SUBSET Windows, Resize(S, t) PROVE TxnInv'
    BY <2>2, ResizeStep
  <2> QED
    BY <1>2, <2>1, <2>2 DEF TxnNext
<1>3. CASE NotifyBlockerCleared
  BY <1>3, NotifyBlockerClearedStep
<1>4. CASE UNCHANGED vars
  BY <1>4 DEF vars, windowVars, txnVars, TxnInv, TypeOK, InPlay, EarlyExpired, LastHolder,
              BlockedWillWake, NoTornResize, Released, Held
<1> QED
  BY <1>1, <1>2, <1>3, <1>4 DEF Next

\* The types: in particular every unanswered configure in the list has its transaction.
THEOREM TypesKept == Spec => []TypeOK
<1>1. TxnInv => TypeOK
  BY DEF TxnInv
<1> QED
  BY <1>1, TxnInvInit, TxnInvStep, PTL DEF Spec

\* In every behaviour, a commit that is held back has something that wakes it: a timer and
\* a notification, or its client in the channel.
THEOREM BlockedCommitsWoken == Spec => []BlockedWillWake
<1>1. TxnInv => BlockedWillWake
  BY DEF TxnInv
<1> QED
  BY <1>1, TxnInvInit, TxnInvStep, PTL DEF Spec

\* In every behaviour, whatever the clients and the GPU do, no window shows its part of
\* a transaction before the others are ready, until the deadline.
THEOREM ResizesNotTorn == Spec => []NoTornResize
<1>1. TxnInv => NoTornResize
  BY DEF TxnInv
<1> QED
  BY <1>1, TxnInvInit, TxnInvStep, PTL DEF Spec
===========================================================================
