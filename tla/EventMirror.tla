---------------------------- MODULE EventMirror ----------------------------
(***************************************************************************)
(* What the event stream promises a client: from the moment it connects,   *)
(* its copy of the state goes through the states the compositor went       *)
(* through, one after the other and up to the present one, until its       *)
(* stream is closed.  All clients see the same sequence.                   *)
(***************************************************************************)
EXTENDS Integers, SequencesExt

CONSTANTS Clients, Blank, Closed

VARIABLES
  state,  \* of the compositor, as far as it has been announced
  copy,   \* copy[c]: of client c
  coming  \* coming[c]: the states its copy has yet to go through, or Closed

vars == <<state, copy, coming>>

Open(c) == coming[c] # Closed

Init ==
  /\ copy = [c \in Clients |-> Blank]
  /\ coming = [c \in Clients |-> Closed]

Appended(old, new) == SubSeq(new, Len(old) + 1, Len(new))

\* A change adds the same states to every stream that stays open, the last of which is
\* the new state of the compositor.
Change ==
  /\ UNCHANGED copy
  /\ \E now \in {coming}, then \in {coming'} :
       LET stay == {c \in Clients : now[c] # Closed /\ then[c] # Closed}
       IN /\ \A c \in Clients \ stay : then[c] = Closed
          /\ \A c \in stay :
               /\ then[c] = now[c] \o Appended(now[c], then[c])
               /\ state' = Last(<<copy[c]>> \o then[c])
          /\ \A c, d \in stay : Appended(now[c], then[c]) = Appended(now[d], then[d])

Connect(c) ==
  /\ ~Open(c)
  /\ \E then \in {coming'[c]} :
       /\ then # Closed /\ Last(<<Blank>> \o then) = state
       /\ coming' = [coming EXCEPT ![c] = then]
  /\ copy' = [copy EXCEPT ![c] = Blank]
  /\ UNCHANGED state

See(c) ==
  /\ Open(c) /\ coming[c] # <<>>
  /\ copy' = [copy EXCEPT ![c] = Head(coming[c])]
  /\ coming' = [coming EXCEPT ![c] = Tail(@)]
  /\ UNCHANGED state

Close(c) ==
  /\ coming' = [coming EXCEPT ![c] = Closed]
  /\ UNCHANGED <<state, copy>>

Next == (\E c \in Clients : See(c) \/ Connect(c) \/ Close(c)) \/ Change

Spec == Init /\ [][Next]_vars

=============================================================================
