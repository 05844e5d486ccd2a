----------------------------- MODULE Retaining -----------------------------
(***************************************************************************)
(* The part of a sequence that Vec::retain leaves (SelectSeq of the        *)
(* standard modules), without recursion, so that it can be reasoned about. *)
(***************************************************************************)
EXTENDS Naturals, Sequences, FiniteSets, SequencesExt

\* The numbers of a finite set, in increasing order.
InOrder(P) ==
  [n \in 1 .. Cardinality(P) |-> CHOOSE i \in P : Cardinality({j \in P : j <= i}) = n]

\* The elements of s at the positions K, in order.
Kept(s, K) == LET at == InOrder(K) IN [n \in DOMAIN at |-> s[at[n]]]

\* The elements of s that are in S, in the order of s.
Retained(s, S) == Kept(s, {i \in DOMAIN s : s[i] \in S})
=============================================================================
