-------------------------- MODULE RetainingProofs --------------------------
(***************************************************************************)
(* What the operators of Retaining return, for all finite sets of numbers  *)
(* and all sequences, and the operators of the library that stand for      *)
(* Vec::insert, remove and extend and for the first or last index of a     *)
(* search.                                                                 *)
(***************************************************************************)
EXTENDS Retaining, FiniteSetTheorems, TLAPS

\* InOrder(P) has every number of P once, at the place that is its rank, and increases.
LEMMA InOrderFacts ==
  ASSUME NEW P \in SUBSET Nat, IsFiniteSet(P)
  PROVE  /\ Cardinality(P) \in Nat
         /\ InOrder(P) \in [1 .. Cardinality(P) -> P]
         /\ \A i \in P : \E n \in 1 .. Cardinality(P) : InOrder(P)[n] = i
         /\ \A m, n \in 1 .. Cardinality(P) : m < n => InOrder(P)[m] < InOrder(P)[n]
         /\ \A n \in 1 .. Cardinality(P) : Cardinality({j \in P : j <= InOrder(P)[n]}) = n
<1> DEFINE below(i) == {j \in P : j <= i}
           rank == [i \in P |-> Cardinality(below(i))]
           C == Cardinality(P)
<1>1. C \in Nat
  BY FS_CardinalityType
<1>2. \A i \in P : IsFiniteSet(below(i)) /\ Cardinality(below(i)) \in 1 .. C
  <2> SUFFICES ASSUME NEW i \in P
               PROVE  IsFiniteSet(below(i)) /\ Cardinality(below(i)) \in 1 .. C
    OBVIOUS
  <2>1. below(i) \in SUBSET P /\ i \in below(i)
    OBVIOUS
  <2>2. IsFiniteSet(below(i)) /\ Cardinality(below(i)) <= C
    BY <2>1, FS_Subset
  <2>3. Cardinality(below(i)) \in Nat /\ Cardinality(below(i)) # 0
    BY <2>1, <2>2, FS_CardinalityType, FS_EmptySet
  <2> QED
    BY <1>1, <2>2, <2>3
<1>3. \A i, k \in P : i < k => rank[i] < rank[k]
  <2> SUFFICES ASSUME NEW i \in P, NEW k \in P, i < k PROVE rank[i] < rank[k]
    OBVIOUS
  <2>0. \A j \in P : j \in Nat /\ (j <= i => j <= k) /\ ~(k <= i)
    OBVIOUS
  <2>1. below(i) \subseteq below(k) /\ k \notin below(i)
    BY <2>0
  <2>4. k \in below(k)
    OBVIOUS
  <2>2. Cardinality(below(i)) <= Cardinality(below(k))
        /\ (Cardinality(below(k)) = Cardinality(below(i)) => below(k) = below(i))
    BY <1>2, <2>1, FS_Subset
  <2>3. Cardinality(below(i)) < Cardinality(below(k))
    BY <1>2, <2>1, <2>2, <2>4
  <2> QED
    BY <2>3
<1>4. rank \in Surjection(P, 1 .. C)
  <2>1. rank \in [P -> 1 .. C]
    BY <1>2
  <2>2. \A i, k \in P : rank[i] = rank[k] => i = k
    <3> SUFFICES ASSUME NEW i \in P, NEW k \in P, rank[i] = rank[k], i # k PROVE FALSE
      OBVIOUS
    <3>1. i < k \/ k < i
      OBVIOUS
    <3> HIDE DEF rank
    <3> QED
      BY <1>3, <2>1, <3>1
  <2>3. rank \in Injection(P, 1 .. C)
    BY <2>1, <2>2 DEF Injection, IsInjective
  <2>4. IsFiniteSet(1 .. C) /\ Cardinality(1 .. C) = C
    BY <1>1, FS_Interval
  <2> QED
    BY <2>3, <2>4, FS_Injection
<1>5. \A n \in 1 .. C : InOrder(P)[n] \in P /\ rank[InOrder(P)[n]] = n
  <2> SUFFICES ASSUME NEW n \in 1 .. C
               PROVE  InOrder(P)[n] \in P /\ rank[InOrder(P)[n]] = n
    OBVIOUS
  <2>1. \E i \in P : Cardinality(below(i)) = n
    BY <1>4 DEF Surjection
  <2>2. InOrder(P)[n] = CHOOSE i \in P : Cardinality(below(i)) = n
    BY DEF InOrder
  <2> QED
    BY <2>1, <2>2
<1>6. InOrder(P) \in [1 .. C -> P]
  BY <1>5 DEF InOrder
<1>7. \A i \in P : \E n \in 1 .. C : InOrder(P)[n] = i
  <2> SUFFICES ASSUME NEW i \in P PROVE InOrder(P)[rank[i]] = i /\ rank[i] \in 1 .. C
    OBVIOUS
  <2>1. rank[i] \in 1 .. C
    BY <1>2
  <2>2. InOrder(P)[rank[i]] \in P /\ rank[InOrder(P)[rank[i]]] = rank[i]
    BY <1>5, <2>1
  <2>3. \A k \in P : ~(i < k) /\ ~(k < i) => i = k
    OBVIOUS
  <2>4. \A k \in P : rank[k] = rank[i] => ~(i < k) /\ ~(k < i)
    <3> HIDE DEF rank
    <3> QED
      BY <1>3, <2>1
  <2> HIDE DEF rank
  <2> QED
    BY <2>1, <2>2, <2>3, <2>4
<1>8. \A m, n \in 1 .. C : m < n => InOrder(P)[m] < InOrder(P)[n]
  <2> SUFFICES ASSUME NEW m \in 1 .. C, NEW n \in 1 .. C, m < n
               PROVE  InOrder(P)[m] < InOrder(P)[n]
    OBVIOUS
  <2> DEFINE i == InOrder(P)[m]
             k == InOrder(P)[n]
  <2>1. i \in P /\ k \in P /\ rank[i] = m /\ rank[k] = n
    BY <1>5
  <2> HIDE DEF i, k, rank
  <2>2. ~(k < i) /\ k # i
    BY <1>3, <2>1
  <2>3. i < k
    BY <2>1, <2>2
  <2> QED
    BY <2>3 DEF i, k
<1>9. \A n \in 1 .. C : Cardinality({j \in P : j <= InOrder(P)[n]}) = n
  <2> SUFFICES ASSUME NEW n \in 1 .. C PROVE Cardinality({j \in P : j <= InOrder(P)[n]}) = n
    OBVIOUS
  <2> DEFINE i == InOrder(P)[n]
  <2>1. i \in P /\ rank[i] = n
    BY <1>5
  <2> QED
    BY <2>1
<1> QED
  BY <1>1, <1>6, <1>7, <1>8, <1>9

\* u is s followed by t.
Joined(T, s, t, u) ==
  /\ u \in Seq(T) /\ Len(u) = Len(s) + Len(t)
  /\ \A j \in 1 .. Len(s) + Len(t) : u[j] = IF j <= Len(s) THEN s[j] ELSE t[j - Len(s)]

\* Two sequences, one after the other (Vec::extend).
LEMMA JoinedFacts ==
  ASSUME NEW T, NEW s \in Seq(T), NEW t \in Seq(T)
  PROVE  Joined(T, s, t, s \o t)
BY DEF Joined

\* t is s with e inserted at i; t is s without what was at i.
Inserted(T, s, i, e, t) ==
  /\ t \in Seq(T) /\ Len(t) = Len(s) + 1
  /\ \A j \in 1 .. Len(s) + 1 : t[j] = IF j < i THEN s[j] ELSE IF j = i THEN e ELSE s[j - 1]

Deleted(T, s, i, t) ==
  /\ t \in Seq(T) /\ Len(t) = Len(s) - 1
  /\ \A j \in 1 .. Len(s) - 1 : t[j] = IF j < i THEN s[j] ELSE s[j + 1]

\* What is inserted is where it was inserted, and the rest is around it (Vec::insert).
LEMMA InsertAtFacts ==
  ASSUME NEW T, NEW s \in Seq(T), NEW i \in 1 .. Len(s) + 1, NEW e \in T
  PROVE  Inserted(T, s, i, e, InsertAt(s, i, e))
<1> DEFINE a == SubSeq(s, 1, i - 1)
           b == SubSeq(s, i, Len(s))
<1>1. a \in Seq(T) /\ Len(a) = i - 1 /\ \A j \in 1 .. i - 1 : a[j] = s[j]
  OBVIOUS
<1>2. b \in Seq(T) /\ Len(b) = Len(s) - i + 1 /\ \A j \in 1 .. Len(s) - i + 1 : b[j] = s[i + j - 1]
  OBVIOUS
<1> HIDE DEF a, b
<1>3. /\ a \o <<e>> \in Seq(T) /\ Len(a \o <<e>>) = i /\ (a \o <<e>>)[i] = e
      /\ \A j \in 1 .. i - 1 : (a \o <<e>>)[j] = s[j]
  BY <1>1
<1>4. InsertAt(s, i, e) = (a \o <<e>>) \o b
  BY DEF InsertAt, a, b
<1> DEFINE c == a \o <<e>>
<1> HIDE DEF c
<1>5. c \o b \in Seq(T) /\ Len(c \o b) = Len(s) + 1
  BY <1>2, <1>3 DEF c
<1>6. \A j \in 1 .. Len(s) + 1 : (c \o b)[j] = IF j <= i THEN c[j] ELSE b[j - i]
  BY <1>2, <1>3 DEF c
<1> DEFINE d == c \o b
<1> HIDE DEF d
<1>7. /\ \A j \in 1 .. i - 1 : c[j] = s[j]
      /\ c[i] = e /\ \A j \in i + 1 .. Len(s) + 1 : b[j - i] = s[j - 1]
  <2>1. \A j \in i + 1 .. Len(s) + 1 : j - i \in 1 .. Len(s) - i + 1 /\ i + (j - i) - 1 = j - 1
    OBVIOUS
  <2> QED
    BY <1>2, <1>3, <2>1 DEF c
<1>8. \A j \in 1 .. Len(s) + 1 : d[j] = IF j < i THEN s[j] ELSE IF j = i THEN e ELSE s[j - 1]
  <2> SUFFICES ASSUME NEW j \in 1 .. Len(s) + 1
               PROVE  d[j] = IF j < i THEN s[j] ELSE IF j = i THEN e ELSE s[j - 1]
    OBVIOUS
  <2>1. d[j] = IF j <= i THEN c[j] ELSE b[j - i]
    BY <1>6 DEF d
  <2>2. CASE j < i
    <3>1. c[j] = s[j]
      BY <1>7, <2>2
    <3> QED
      BY <2>1, <2>2, <3>1
  <2>3. CASE j = i
    BY <1>7, <2>1, <2>3
  <2>4. CASE i < j
    <3>1. b[j - i] = s[j - 1]
      BY <1>7, <2>4
    <3> QED
      BY <2>1, <2>4, <3>1
  <2> QED
    BY <2>2, <2>3, <2>4
<1> QED
  BY <1>4, <1>5, <1>8 DEF c, d, Inserted

\* What is left of a sequence without one of its elements (Vec::remove).
LEMMA RemoveAtFacts ==
  ASSUME NEW T, NEW s \in Seq(T), NEW i \in 1 .. Len(s)
  PROVE  Deleted(T, s, i, RemoveAt(s, i))
<1> DEFINE a == SubSeq(s, 1, i - 1)
           b == SubSeq(s, i + 1, Len(s))
<1>1. a \in Seq(T) /\ Len(a) = i - 1 /\ \A j \in 1 .. i - 1 : a[j] = s[j]
  OBVIOUS
<1>2. b \in Seq(T) /\ Len(b) = Len(s) - i /\ \A j \in 1 .. Len(s) - i : b[j] = s[i + j]
  OBVIOUS
<1>3. RemoveAt(s, i) = a \o b
  BY DEF RemoveAt
<1> HIDE DEF a, b
<1>4. /\ a \o b \in Seq(T) /\ Len(a \o b) = Len(a) + Len(b)
      /\ \A j \in 1 .. Len(a) + Len(b) : (a \o b)[j] = IF j <= Len(a) THEN a[j] ELSE b[j - Len(a)]
  BY <1>1, <1>2, JoinedFacts DEF Joined
<1>5. Len(a) + Len(b) = Len(s) - 1 /\ Len(a) = i - 1
  BY <1>1, <1>2
<1>6. \A j \in 1 .. Len(s) - 1 : (a \o b)[j] = IF j < i THEN s[j] ELSE s[j + 1]
  <2> SUFFICES ASSUME NEW j \in 1 .. Len(s) - 1
               PROVE  (a \o b)[j] = IF j < i THEN s[j] ELSE s[j + 1]
    OBVIOUS
  <2>1. CASE j < i
    BY <1>1, <1>4, <1>5, <2>1
  <2>2. CASE i <= j
    <3> DEFINE n == j - (i - 1)
    <3>1. n \in 1 .. Len(s) - i /\ i + n = j + 1 /\ n = j - Len(a) /\ ~(j <= Len(a))
      BY <1>5, <2>2
    <3>2. (a \o b)[j] = b[n]
      BY <1>4, <1>5, <3>1
    <3> HIDE DEF n
    <3>3. b[n] = s[i + n]
      BY <1>2, <3>1
    <3> QED
      BY <2>2, <3>1, <3>2, <3>3
  <2>3. j < i \/ i <= j
    OBVIOUS
  <2> QED
    BY <2>1, <2>2, <2>3
<1> QED
  BY <1>3, <1>4, <1>5, <1>6 DEF Deleted

\* The smallest index that passes a test, if there is any (Iterator::position).
LEMMA SmallestFacts ==
  ASSUME NEW P \in SUBSET Nat, IsFiniteSet(P), P # {}
  PROVE  Min(P) \in P /\ \A i \in P : Min(P) <= i
<1>1. /\ Cardinality(P) \in Nat /\ InOrder(P) \in [1 .. Cardinality(P) -> P]
      /\ \A i \in P : \E n \in 1 .. Cardinality(P) : InOrder(P)[n] = i
      /\ \A m, n \in 1 .. Cardinality(P) : m < n => InOrder(P)[m] < InOrder(P)[n]
  BY InOrderFacts
<1>2. 1 \in 1 .. Cardinality(P)
  <2>1. PICK i \in P : TRUE
    OBVIOUS
  <2>2. PICK n \in 1 .. Cardinality(P) : InOrder(P)[n] = i
    BY <1>1
  <2> QED
    BY <1>1
<1>3. \A i \in P : InOrder(P)[1] <= i
  <2> SUFFICES ASSUME NEW n \in 1 .. Cardinality(P) PROVE InOrder(P)[1] <= InOrder(P)[n]
    BY <1>1
  <2>1. n = 1 \/ 1 < n
    OBVIOUS
  <2>2. InOrder(P)[1] \in Nat /\ InOrder(P)[n] \in Nat
    BY <1>1, <1>2
  <2> QED
    BY <1>1, <1>2, <2>1, <2>2
<1>4. \E x \in P : \A y \in P : x =< y
  BY <1>1, <1>2, <1>3
<1> QED
  BY <1>4 DEF Min

\* A number of P that no other exceeds is Max(P); and a finite set has one.
LEMMA LargestIs ==
  ASSUME NEW P \in SUBSET Nat, NEW m \in P, \A i \in P : i <= m
  PROVE  Max(P) = m
<1>1. \E x \in P : \A y \in P : x >= y
  OBVIOUS
<1>2. Max(P) \in P /\ \A y \in P : Max(P) >= y
  BY <1>1 DEF Max
<1>3. Max(P) \in Nat /\ m \in Nat /\ Max(P) >= m /\ Max(P) <= m
  BY <1>2
<1> QED
  BY <1>3

\* Max of a finite set of numbers with something in it.
LEMMA LargestFacts ==
  ASSUME NEW P \in SUBSET Nat, IsFiniteSet(P), P # {}
  PROVE  Max(P) \in P /\ \A i \in P : i <= Max(P)
<1> DEFINE C == Cardinality(P)
<1>1. /\ C \in Nat /\ InOrder(P) \in [1 .. C -> P]
      /\ \A i \in P : \E n \in 1 .. C : InOrder(P)[n] = i
      /\ \A m, n \in 1 .. C : m < n => InOrder(P)[m] < InOrder(P)[n]
  BY InOrderFacts
<1> HIDE DEF C
<1>2. C \in 1 .. C
  <2>1. PICK i \in P : TRUE
    OBVIOUS
  <2>2. PICK n \in 1 .. C : InOrder(P)[n] = i
    BY <1>1
  <2> QED
    BY <1>1
<1>3. \A n \in 1 .. C : InOrder(P)[n] <= InOrder(P)[C]
  <2> TAKE n \in 1 .. C
  <2>1. n = C \/ n < C
    BY <1>1
  <2>2. InOrder(P)[n] \in Nat /\ InOrder(P)[C] \in Nat
    BY <1>1, <1>2
  <2> QED
    BY <1>1, <1>2, <2>1, <2>2
<1>4. InOrder(P)[C] \in P /\ \A i \in P : i <= InOrder(P)[C]
  BY <1>1, <1>2, <1>3
<1> QED
  BY <1>4, LargestIs

\* t is what is left of s when only the positions K are kept; `at` says where its elements
\* were, and what was at i comes after what is kept before it.
Keeps(T, s, K, t, at) ==
  /\ t \in Seq(T) /\ Cardinality(K) \in Nat /\ Len(t) = Cardinality(K)
  /\ at \in [1 .. Cardinality(K) -> K]
  /\ \A n \in 1 .. Cardinality(K) : t[n] = s[at[n]]
  /\ \A m, n \in 1 .. Cardinality(K) : m < n => at[m] < at[n]
  /\ \A i \in K : \E n \in 1 .. Cardinality(K) : at[n] = i
  /\ \A i \in K : /\ Cardinality({j \in K : j <= i}) \in 1 .. Cardinality(K)
                  /\ at[Cardinality({j \in K : j <= i})] = i

\* What is kept is there, each element once and in order (Vec::retain).
LEMMA KeptFacts ==
  ASSUME NEW T, NEW s \in Seq(T), NEW K \in SUBSET DOMAIN s
  PROVE  \E at : Keeps(T, s, K, Kept(s, K), at)
<1> DEFINE at == InOrder(K)
           C == Cardinality(K)
           rank(i) == Cardinality({j \in K : j <= i})
<1>1. DOMAIN s = 1 .. Len(s) /\ Len(s) \in Nat /\ \A i \in DOMAIN s : s[i] \in T
  OBVIOUS
<1>2. K \in SUBSET Nat /\ IsFiniteSet(K)
  <2>1. IsFiniteSet(1 .. Len(s))
    BY <1>1, FS_Interval
  <2> QED
    BY <1>1, <2>1, FS_Subset
<1>3. /\ C \in Nat /\ at \in [1 .. C -> K]
      /\ \A i \in K : \E n \in 1 .. C : at[n] = i
      /\ \A m, n \in 1 .. C : m < n => at[m] < at[n]
      /\ \A n \in 1 .. C : rank(at[n]) = n
  BY <1>2, InOrderFacts
<1>4. \A i \in K : rank(i) \in 1 .. C /\ at[rank(i)] = i
  <2> SUFFICES ASSUME NEW i \in K PROVE rank(i) \in 1 .. C /\ at[rank(i)] = i
    OBVIOUS
  <2>1. PICK n \in 1 .. C : at[n] = i
    BY <1>3
  <2>2. rank(at[n]) = n
    BY <1>3
  <2> QED
    BY <2>1, <2>2
<1> HIDE DEF at, C
<1>5. Kept(s, K) = [n \in 1 .. C |-> s[at[n]]]
  BY <1>3 DEF Kept, at
<1>6. Kept(s, K) \in Seq(T) /\ Len(Kept(s, K)) = C
  BY <1>1, <1>3, <1>5
<1>7. \A n \in 1 .. C : Kept(s, K)[n] = s[at[n]]
  BY <1>5
<1>8. Keeps(T, s, K, Kept(s, K), at)
  BY <1>3, <1>4, <1>6, <1>7 DEF C, Keeps
<1> QED
  BY <1>8

\* An end that is kept is an end of what is left.
LEMMA KeptEnds ==
  ASSUME NEW T, NEW s \in Seq(T), NEW K \in SUBSET DOMAIN s, NEW t, NEW at, Keeps(T, s, K, t, at),
         s # <<>>
  PROVE  /\ Len(s) \in K => Len(t) \in Nat \ {0} /\ at[Len(t)] = Len(s)
         /\ 1 \in K => Len(t) \in Nat \ {0} /\ at[1] = 1
<1>1. DOMAIN s = 1 .. Len(s) /\ Len(s) \in Nat /\ Len(s) # 0
  OBVIOUS
<1>2. Len(t) = Cardinality(K) /\ Len(t) \in Nat
  BY DEF Keeps
<1>3. /\ \A n \in 1 .. Len(t) : at[n] \in 1 .. Len(s)
      /\ \A m, n \in 1 .. Len(t) : m < n => at[m] < at[n]
      /\ \A i \in K : \E n \in 1 .. Len(t) : at[n] = i
  BY <1>1, <1>2 DEF Keeps
<1>4. ASSUME Len(s) \in K PROVE Len(t) # 0 /\ at[Len(t)] = Len(s)
  <2>1. PICK n \in 1 .. Len(t) : at[n] = Len(s)
    BY <1>3, <1>4
  <2>2. n < Len(t) => at[n] < at[Len(t)] /\ at[Len(t)] <= Len(s)
    BY <1>2, <1>3
  <2> QED
    BY <1>1, <1>2, <1>3, <2>1, <2>2
<1>5. ASSUME 1 \in K PROVE Len(t) # 0 /\ at[1] = 1
  <2>1. PICK n \in 1 .. Len(t) : at[n] = 1
    BY <1>3, <1>5
  <2>2. 1 < n => at[1] < at[n] /\ 1 <= at[1]
    BY <1>2, <1>3
  <2> QED
    BY <1>1, <1>2, <1>3, <2>1, <2>2
<1> QED
  BY <1>2, <1>4, <1>5

\* Parts of an interval have a size, which clean_up_workspaces counts with.
LEMMA CountFacts ==
  ASSUME NEW L \in Nat, NEW K \in SUBSET (1 .. L)
  PROVE  Cardinality(K) \in Nat /\ \A a : Cardinality({i \in K : i <= a}) \in Nat
<1>1. IsFiniteSet(1 .. L)
  BY FS_Interval
<1>2. \A S \in SUBSET (1 .. L) : Cardinality(S) \in Nat
  BY <1>1, FS_Subset, FS_CardinalityType
<1> QED
  BY <1>2

\* The last element, and the others.
LEMMA FrontFacts ==
  ASSUME NEW T, NEW s \in Seq(T), s # <<>>
  PROVE  LET f == Front(s)
             e == <<s[Len(s)]>>
         IN f \in Seq(T) /\ e \in Seq(T) /\ s = f \o e
<1> DEFINE f == Front(s)
           e == <<s[Len(s)]>>
           L == Len(s)
<1>1. L \in Nat \ {0} /\ DOMAIN s = 1 .. L
  OBVIOUS
<1>2. f \in Seq(T) /\ Len(f) = L - 1 /\ \A k \in 1 .. L - 1 : f[k] = s[k]
  BY <1>1 DEF Front
<1>3. e \in Seq(T) /\ Len(e) = 1 /\ e[1] = s[L]
  BY <1>1
<1> HIDE DEF f, e, L
<1> DEFINE g == f \o e
<1>4. Joined(T, f, e, g)
  BY <1>2, <1>3, JoinedFacts
<1> HIDE DEF g
<1>5. g \in Seq(T) /\ Len(g) = L
  BY <1>1, <1>2, <1>3, <1>4 DEF Joined
<1>6. \A k \in 1 .. L : g[k] = s[k]
  <2> TAKE k \in 1 .. L
  <2>1. k \in 1 .. Len(f) + Len(e) /\ (k <= L - 1 => k \in 1 .. L - 1) /\ (~(k <= L - 1) => k = L /\ k - Len(f) = 1)
    BY <1>1, <1>2, <1>3
  <2>2. g[k] = IF k <= Len(f) THEN f[k] ELSE e[k - Len(f)]
    BY <1>4, <2>1 DEF Joined
  <2> QED
    BY <1>2, <1>3, <2>1, <2>2
<1>7. s = g
  BY <1>1, <1>5, <1>6 DEF L
<1> QED
  BY <1>2, <1>3, <1>7 DEF f, e, g, L

\* Where the others are after one element is inserted.
Shifted(s, i, t, g) ==
  /\ DOMAIN s = 1 .. Len(s) /\ DOMAIN t = 1 .. Len(s) + 1 /\ i \in 1 .. Len(s) + 1
  /\ \A x \in 1 .. Len(s) : g[x] \in 1 .. Len(s) + 1 /\ g[x] # i /\ t[g[x]] = s[x]
  /\ \A x, y \in 1 .. Len(s) : g[x] = g[y] => x = y
  /\ \A y \in 1 .. Len(s) + 1 : y # i => \E x \in 1 .. Len(s) : g[x] = y

\* Insertion in the middle, as where each of the old elements goes.
LEMMA ShiftedFacts ==
  ASSUME NEW T, NEW s \in Seq(T), NEW i \in 1 .. Len(s) + 1, NEW ws, NEW t,
         Inserted(T, s, i, ws, t)
  PROVE  t[i] = ws /\ \E g : Shifted(s, i, t, g)
<1> DEFINE L == Len(s)
           g == [x \in 1 .. L |-> IF x < i THEN x ELSE x + 1]
<1>1. L \in Nat /\ DOMAIN s = 1 .. L /\ DOMAIN t = 1 .. L + 1 /\ i \in 1 .. L + 1
  BY DEF Inserted
<1>2. t[i] = ws
  BY DEF Inserted
<1> HIDE DEF L
<1>3. /\ \A x \in 1 .. L : g[x] \in 1 .. L + 1 /\ g[x] # i
      /\ \A x, y \in 1 .. L : g[x] = g[y] => x = y
  BY <1>1
<1>4. \A x \in 1 .. L : t[g[x]] = s[x]
  <2> TAKE x \in 1 .. L
  <2>1. \A j \in 1 .. L + 1 : t[j] = IF j < i THEN s[j] ELSE IF j = i THEN ws ELSE s[j - 1]
    BY DEF Inserted, L
  <2>2. CASE x < i
    BY <1>1, <2>1, <2>2
  <2>3. CASE i <= x
    <3>1. g[x] = x + 1 /\ x + 1 \in 1 .. L + 1 /\ ~(x + 1 < i) /\ x + 1 # i /\ (x + 1) - 1 = x
      BY <1>1, <2>3
    <3> HIDE DEF g
    <3> QED
      BY <2>1, <3>1
  <2> QED
    BY <1>1, <2>2, <2>3
<1>5. \A y \in 1 .. L + 1 : y # i => \E x \in 1 .. L : g[x] = y
  <2> SUFFICES ASSUME NEW y \in 1 .. L + 1, y # i PROVE \E x \in 1 .. L : g[x] = y
    OBVIOUS
  <2>1. CASE y < i
    BY <1>1, <2>1
  <2>2. CASE i < y
    <3>1. y - 1 \in 1 .. L /\ g[y - 1] = y
      BY <1>1, <2>2
    <3> HIDE DEF g
    <3> QED
      BY <3>1
  <2> QED
    BY <1>1, <2>1, <2>2
<1> HIDE DEF g
<1>6. Shifted(s, i, t, g)
  BY <1>1, <1>3, <1>4, <1>5 DEF Shifted, L
<1> QED
  BY <1>2, <1>6

\* Retained(s, S) has the elements of s that are in S, in the order of s: its n-th element
\* is one of s, those that come later come from later.
LEMMA RetainedFacts ==
  ASSUME NEW T, NEW s \in Seq(T), NEW S
  PROVE  /\ Retained(s, S) \in Seq(T)
         /\ ToSet(Retained(s, S)) = ToSet(s) \cap S
         /\ \E at \in [DOMAIN Retained(s, S) -> {i \in DOMAIN s : s[i] \in S}] :
              /\ \A n \in DOMAIN at : Retained(s, S)[n] = s[at[n]]
              /\ \A i \in DOMAIN s : s[i] \in S => \E n \in DOMAIN at : at[n] = i
              /\ \A m, n \in DOMAIN at : m < n => at[m] < at[n]
<1> DEFINE P == {i \in DOMAIN s : s[i] \in S}
           at == InOrder(P)
           C == Cardinality(P)
<1>1. DOMAIN s = 1 .. Len(s) /\ Len(s) \in Nat /\ \A i \in DOMAIN s : s[i] \in T
  OBVIOUS
<1>2. IsFiniteSet(1 .. Len(s))
  BY <1>1, FS_Interval
<1>3. P \in SUBSET (1 .. Len(s)) /\ P \in SUBSET Nat
  BY <1>1
<1>4. IsFiniteSet(P)
  BY <1>2, <1>3, FS_Subset
<1>5. /\ C \in Nat /\ at \in [1 .. C -> P]
      /\ \A i \in P : \E n \in 1 .. C : at[n] = i
      /\ \A m, n \in 1 .. C : m < n => at[m] < at[n]
  BY <1>3, <1>4, InOrderFacts
<1> HIDE DEF at, C
<1>6. Retained(s, S) = [n \in 1 .. C |-> s[at[n]]]
  BY <1>5 DEF Retained, Kept, at
<1>7. \A n \in 1 .. C : at[n] \in DOMAIN s /\ s[at[n]] \in S /\ s[at[n]] \in T
  BY <1>1, <1>5
<1>8. Retained(s, S) \in Seq(T)
  BY <1>5, <1>6, <1>7
<1>9. ToSet(Retained(s, S)) = ToSet(s) \cap S
  <2>1. \A x \in ToSet(Retained(s, S)) : x \in ToSet(s) \cap S
    BY <1>6, <1>7 DEF ToSet
  <2>2. \A x \in ToSet(s) \cap S : x \in ToSet(Retained(s, S))
    <3> SUFFICES ASSUME NEW i \in DOMAIN s, s[i] \in S
                 PROVE  \E n \in DOMAIN Retained(s, S) : Retained(s, S)[n] = s[i]
      BY DEF ToSet
    <3>1. PICK n \in 1 .. C : at[n] = i
      BY <1>5
    <3> QED
      BY <1>6, <3>1
  <2> QED
    BY <2>1, <2>2
<1>10. DOMAIN Retained(s, S) = 1 .. C
  BY <1>6
<1> QED
  BY <1>5, <1>6, <1>8, <1>9, <1>10

\* What is left of a sequence without repetitions has none either.
LEMMA RetainedDistinct ==
  ASSUME NEW T, NEW s \in Seq(T), NEW S,
         \A i, j \in DOMAIN s : s[i] = s[j] => i = j
  PROVE  \A m, n \in DOMAIN Retained(s, S) : Retained(s, S)[m] = Retained(s, S)[n] => m = n
<1> DEFINE r == Retained(s, S)
<1>1. PICK at \in [DOMAIN r -> {i \in DOMAIN s : s[i] \in S}] :
        /\ \A n \in DOMAIN at : r[n] = s[at[n]]
        /\ \A m, n \in DOMAIN at : m < n => at[m] < at[n]
  BY RetainedFacts
<1>2. r \in Seq(T)
  BY RetainedFacts
<1> HIDE DEF r
<1> SUFFICES ASSUME NEW m \in DOMAIN r, NEW n \in DOMAIN r, r[m] = r[n], m < n PROVE FALSE
  BY <1>2 DEF r
<1> QED
  BY <1>1, <1>2

=============================================================================
