--------------------------- MODULE Transactions ---------------------------
(***************************************************************************)
(* Transactions between windows (src/utils/transaction.rs), from the       *)
(* resize that creates one to the commits it holds back.                   *)
(*                                                                         *)
(* A resize gives every window of a column a clone of a Transaction.  The  *)
(* clone travels with the window: to the next configure, to the list of    *)
(* configures not answered yet, to the commit that answers, and with it    *)
(* into the dma-buf fence the commit has to wait for.  The last clone      *)
(* dropped completes the transaction; a deadline timer completes it when   *)
(* a client is slow.  Until then the commits of the other windows are      *)
(* blocked; a client whose blockers cleared is told so through a channel   *)
(* that State::refresh drains.                                             *)
(*                                                                         *)
(* Clones are not counted: a transaction lives while one of the places     *)
(* above holds it.  The commit queue of a client belongs to the wayland    *)
(* library and is modelled from how the code uses it: commits of a surface *)
(* are applied in order, each once its blockers are released, when the     *)
(* client commits or blocker_cleared() is called for it.                   *)
(***************************************************************************)
EXTENDS Naturals, Sequences, FiniteSets

CONSTANTS
  Windows, Clients,
  ClientOf,     \* the client of each window
  GpuWindows,   \* windows that commit dma-bufs (the others use shared memory)
  MaxTxns,      \* bound on the transactions
  MaxQueued     \* bound on the commits that are waiting

ASSUME ClientOfAssumption == ClientOf \in [Windows -> Clients]
ASSUME BoundAssumption == MaxTxns \in Nat /\ MaxQueued \in Nat

\* Transactions are numbered in the order of their creation.
Txns == 1..MaxTxns
NoTxn == 0

VARIABLES
  mapped,         \* windows in the layout
  next,           \* Mapped::transaction_for_next_configure
  pending,        \* Mapped::pending_transactions, by configure serial
  fences,         \* dma-buf event sources and the transaction_for_dmabuf they own
  created,        \* the last transaction created
  completed,      \* Inner::completed
  notifications,  \* Inner::notifications
  timers,         \* deadline timers on the event loop
  channel,        \* blocker_cleared_tx / _rx
  queue,          \* commits the wayland library holds back
  shown,          \* history: windows that applied their commit of a transaction still held
  expired,        \* history: transactions completed by their deadline
  closing         \* transactions a closing animation waits for

windowVars == <<mapped, next, pending>>
txnVars == <<created, completed, notifications, channel>>
vars == <<windowVars, fences, txnVars, timers, queue, shown, expired, closing>>

\* Something still holds a clone of t (Arc::strong_count > 0).
Held(t) ==
  \/ \E w \in Windows : next[w] = t \/ \E i \in DOMAIN pending[w] : pending[w][i] = t
  \/ \E f \in fences : f.txn = t

---------------------------------------------------------------------------
(* Completing. *)

\* Mutant: nobody is told.
CompleteSilently(S, noted) ==
  /\ completed' = completed \cup S
  /\ channel' = channel
  /\ notifications' = [t \in Txns |-> IF t \in S THEN {} ELSE noted[t]]

\* The transactions S complete, with the notifications noted: Inner::complete.
Complete(S, noted) ==
  /\ completed' = completed \cup S
  /\ channel' = channel \cup UNION {noted[t] : t \in S}
  /\ notifications' = [t \in Txns |-> IF t \in S THEN {} ELSE noted[t]]

\* Mutant: no timer.
RegisterNothing(t) == timers

\* register_deadline_timer: the timers with the one of t among them.
RegisterDeadlineTimer(t) == timers \cup {t}

\* Mutant: the first window to take its clone out completes the transaction.
DropAnyClone(noted, armed) ==
  LET taken(t) == \E w \in Windows : /\ pending[w] # <<>> /\ pending[w][1] = t
                                     /\ pending'[w] # pending[w]
      dropped == {t \in 1..created' : t \notin completed /\ (~Held(t)' \/ taken(t))}
  IN Complete(dropped, noted) /\ timers' = armed \ dropped

\* Drop for Transaction, for every clone the step gives up, with the notifications
\* noted and the timers armed by then: the last clone completes the transaction and
\* pings its timer away.  A timer that fires before the ping is handled finds the
\* transaction gone and does nothing, so it is removed at once.
DropClones(noted, armed) ==
  LET dropped == {t \in 1..created' : t \notin completed /\ ~Held(t)'}
  IN Complete(dropped, noted) /\ timers' = armed \ dropped

---------------------------------------------------------------------------
(* The commit queue. *)

\* Blocker::state of every blocker of commit c.
Released(c) ==
  /\ c.blocked => c.txn \in completed
  /\ ~\E f \in fences : f.win = c.win /\ f.n = c.n

\* blocker_cleared() for the clients cs, with the commits q in the queue.
Apply(q, cs) ==
  LET ready == {c \in q : /\ ClientOf[c.win] \in cs
                          /\ \A d \in q : d.win = c.win /\ d.n <= c.n => Released(d)'}
  IN /\ queue' = q \ ready
     /\ shown' = {p \in shown \cup {<<c.win, c.txn>> : c \in ready} : Held(p[2])'}

\* State::notify_blocker_cleared, at the start of State::refresh.
NotifyBlockerCleared ==
  /\ channel # {}
  /\ channel' = {}
  /\ UNCHANGED <<windowVars, fences, created, completed, notifications, timers, expired,
                 closing>>
  /\ Apply(queue, channel)

---------------------------------------------------------------------------
(* Windows. *)

\* update_tile_sizes_with_transaction: the windows S get a clone of the new t, which
\* replaces the one they had for the next configure (Mapped::request_size).
Resize(S, t) ==
  /\ S # {} /\ S \subseteq mapped
  /\ t = created + 1
  /\ created' = t
  /\ next' = [w \in Windows |-> IF w \in S THEN t ELSE next[w]]
  /\ UNCHANGED <<mapped, pending, fences, queue, shown, expired, closing>>
  /\ DropClones(notifications, timers)

\* Mapped::request_size_once: a window that goes floating leaves the transaction.
RequestSizeOnce(w) ==
  /\ w \in mapped
  /\ next[w] # NoTxn
  /\ next' = [next EXCEPT ![w] = NoTxn]
  /\ UNCHANGED <<mapped, pending, fences, queue, shown, expired, closing, created>>
  /\ DropClones(notifications, timers)

\* Mapped::send_pending_configure of a window that has a transaction for it, with and
\* without pending changes.  (Other configures do nothing here.)
SendPendingConfigure(w, changes) ==
  /\ w \in mapped
  /\ next[w] # NoTxn
  /\ pending' = IF changes THEN [pending EXCEPT ![w] = Append(@, next[w])] ELSE pending
  /\ next' = [next EXCEPT ![w] = NoTxn]
  /\ UNCHANGED <<mapped, fences, queue, shown, expired, closing, created>>
  /\ DropClones(notifications, timers)

\* Mapped::take_pending_transaction, for a commit that answers the first k of the
\* configures with a transaction: it returns the last of them, and drops the others.
Taken(w, k) == IF k = 0 THEN NoTxn ELSE pending[w][k]

\* n numbers the next commit of w: they are in order, and used again when all are gone.
NextNumber(w, n) ==
  LET used == {c.n : c \in {d \in queue \cup fences : d.win = w}}
  IN (\A k \in used : k < n) /\ (n = 1 \/ n - 1 \in used)

\* A client commits window w, answering k configures: the pre-commit hook of mapped
\* toplevels, then the library queues the commit and applies what it can.
Commit(w, k, n, dmabuf) ==
  LET t == Taken(w, k)
      live == t # NoTxn /\ t \notin completed
      left == [pending EXCEPT ![w] = SubSeq(@, k + 1, Len(@))]
      last == /\ \A v \in Windows : next[v] # t /\ \A i \in DOMAIN left[v] : left[v][i] # t
              /\ \A f \in fences : f.txn # t
      blocked == live /\ ~last
  IN /\ w \in mapped
     /\ k <= Len(pending[w])
     /\ dmabuf => w \in GpuWindows
     /\ NextNumber(w, n)
     /\ Cardinality({<<c.win, c.n>> : c \in queue \cup fences}) < MaxQueued
     /\ pending' = left
     /\ fences' = IF dmabuf
                    THEN fences \cup {[win |-> w, n |-> n, txn |-> IF live THEN t ELSE NoTxn]}
                    ELSE fences
     /\ UNCHANGED <<mapped, next, created, expired, closing>>
     /\ DropClones(IF blocked
                     THEN [notifications EXCEPT ![t] = @ \cup {ClientOf[w]}]
                     ELSE notifications,
                   IF live THEN RegisterDeadlineTimer(t) ELSE timers)
     /\ Apply(queue \cup {[win |-> w, n |-> n, txn |-> IF live THEN t ELSE NoTxn,
                         blocked |-> blocked]}, {ClientOf[w]})

\* The dma-buf of commit n of w is ready: its event source drops the transaction and
\* clears the blockers of the client.
DmabufReady(w, n) ==
  \E f \in fences :
    /\ f.win = w /\ f.n = n
    /\ fences' = fences \ {f}
    /\ UNCHANGED <<windowVars, created, expired, closing>>
    /\ DropClones(notifications, timers)
    /\ Apply(queue, {ClientOf[w]})

\* toplevel_destroyed, and a commit that unmaps the window: the windows S left in its
\* column are resized in the new transaction t, which the closing animation waits
\* for.  The surface may be gone too, and its commits with it.
RemoveWindow(w, S, t) ==
  /\ w \in mapped
  /\ S \subseteq mapped \ {w}
  /\ IF S = {}
       THEN /\ t = NoTxn      \* the last clone is dropped at once
            /\ UNCHANGED <<created, closing>>
       ELSE /\ t = created + 1
            /\ created' = t
            /\ closing' = (closing \ completed) \cup {t}
  /\ mapped' = mapped \ {w}
  /\ next' = [v \in Windows |-> IF v = w THEN NoTxn ELSE IF v \in S THEN t ELSE next[v]]
  /\ pending' = [pending EXCEPT ![w] = <<>>]
  /\ \E gone \in BOOLEAN : queue' = {c \in queue : gone => c.win # w}
  /\ UNCHANGED <<fences, shown, expired>>
  /\ DropClones(notifications, IF S = {} THEN timers ELSE RegisterDeadlineTimer(t))

---------------------------------------------------------------------------
(* Timers. *)

\* The deadline timer of a transaction that something still holds.
DeadlineTimer(t) ==
  /\ t \in timers
  /\ timers' = timers \ {t}
  /\ Complete({t}, notifications)
  /\ expired' = expired \cup {t}
  /\ UNCHANGED <<windowVars, fences, created, queue, shown, closing>>

---------------------------------------------------------------------------
Init ==
  /\ mapped = Windows
  /\ next = [w \in Windows |-> NoTxn]
  /\ pending = [w \in Windows |-> <<>>]
  /\ notifications = [t \in Txns |-> {}]
  /\ created = 0
  /\ fences = {} /\ completed = {} /\ timers = {}
  /\ channel = {} /\ queue = {} /\ shown = {} /\ expired = {} /\ closing = {}

WindowNext ==
  \E w \in Windows :
    \/ RequestSizeOnce(w)
    \/ \E changes \in BOOLEAN : SendPendingConfigure(w, changes)
    \/ \E k \in 0..MaxTxns, n \in 1..MaxQueued, dmabuf \in BOOLEAN : Commit(w, k, n, dmabuf)
    \/ \E n \in 1..MaxQueued : DmabufReady(w, n)
    \/ \E S \in SUBSET Windows, t \in Txns \cup {NoTxn} : RemoveWindow(w, S, t)

TxnNext ==
  \E t \in Txns : DeadlineTimer(t) \/ \E S \in SUBSET Windows : Resize(S, t)

Next == WindowNext \/ TxnNext \/ NotifyBlockerCleared

Spec == Init /\ [][Next]_vars

\* Timers fire, the GPU finishes the buffers it was given, and every iteration of the
\* event loop ends with State::refresh.  Clients promise nothing.
Fairness ==
  /\ WF_vars(NotifyBlockerCleared)
  /\ \A t \in Txns : WF_vars(DeadlineTimer(t))
  /\ \A w \in Windows, n \in 1..MaxQueued : WF_vars(DmabufReady(w, n))

LiveSpec == Spec /\ Fairness

---------------------------------------------------------------------------
(* Properties. *)

\* Types.
TypeOK ==
  /\ mapped \subseteq Windows
  /\ next \in [Windows -> Txns \cup {NoTxn}]
  /\ pending \in [Windows -> Seq(Txns)]
  /\ fences \subseteq [win : Windows, n : Nat, txn : Txns \cup {NoTxn}]
  /\ created \in Nat /\ completed \subseteq Txns
  /\ notifications \in [Txns -> SUBSET Clients]
  /\ timers \subseteq Txns
  /\ channel \subseteq Clients
  /\ queue \subseteq [win : Windows, n : Nat, txn : Txns \cup {NoTxn}, blocked : BOOLEAN]
  /\ shown \subseteq Windows \X (Txns \cup {NoTxn})
  /\ expired \subseteq Txns /\ closing \subseteq Txns

\* Whatever holds a commit back will let it go: a transaction that is not complete has
\* its deadline timer running and this client to notify, and a commit with nothing left
\* to wait for has its client in the channel.  (A fence calls blocker_cleared itself.)
\* Otherwise the window would hang.
BlockedWillWake ==
  \A c \in queue :
    /\ c.blocked /\ c.txn \notin completed =>
         c.txn \in timers /\ ClientOf[c.win] \in notifications[c.txn]
    /\ (\A d \in queue : d.win = c.win /\ d.n <= c.n => Released(d)) =>
         ClientOf[c.win] \in channel

\* All or nothing: no window shows its part of a transaction while another window still
\* owes its own, unless the deadline has passed.
NoTornResize ==
  \A w \in Windows, t \in Txns : <<w, t>> \in shown /\ Held(t) => t \in expired

\* Every commit that is held back is applied in the end, or its surface goes away,
\* however slow the other clients of the transaction are.
CommitsApplied ==
  \A w \in Windows, n \in 1..MaxQueued :
    (\E c \in queue : c.win = w /\ c.n = n) ~> ~(\E c \in queue : c.win = w /\ c.n = n)

\* Every closing animation starts: the transaction it waits for completes.
ClosingStarts == \A t \in Txns : (t \in closing) ~> (t \in completed)

\* Whoever waits for a transaction goes on: commits that are held back and closing
\* animations, however slow or dead the clients of the transaction are.
WaitsEnd == CommitsApplied /\ ClosingStarts
===========================================================================
