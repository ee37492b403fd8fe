---------------------------- MODULE CommonLemmas ----------------------------
(***************************************************************************)
(* Lemmas that the proofs about several components rest on: induction      *)
(* over the naturals stated with sets, sums, and what an LRU cache relies  *)
(* on -- the order of use of finitely many entries has a first and a last  *)
(* one, promoting an entry keeps it an order, and a cache that gives one   *)
(* entry up for another when it is full never outgrows its capacity.       *)
(***************************************************************************)
EXTENDS FiniteSetTheorems, TLAPS

-----------------------------------------------------------------------------
(* Induction, with sets: a set of naturals that is not empty has a least   *)
(* member.                                                                 *)

Below == OpToRel(<, Nat)

LEMMA LeastMember ==
  ASSUME NEW T \in SUBSET Nat, T # {}
  PROVE  \E n \in T : \A k \in T : n <= k
<1>1. IsWellFoundedOn(Below, Nat)
  BY NatLessThanWellFounded DEF Below
<1>2. PICK n \in T : \A k \in T : <<k, n>> \notin Below
  BY <1>1, WFMin
<1>3. \A k \in T : ~(k < n)
  BY <1>2 DEF Below, OpToRel
<1> QED BY <1>3

LEMMA AllNaturals ==
  ASSUME NEW T, 0 \in T, \A n \in Nat : n \in T => n + 1 \in T
  PROVE  Nat \subseteq T
<1> SUFFICES ASSUME Nat \ T # {} PROVE FALSE
  OBVIOUS
<1>1. PICK n \in Nat \ T : \A k \in Nat \ T : n <= k
  BY LeastMember
<1>2. n - 1 \in Nat /\ n - 1 \in T
  BY <1>1
<1> QED BY <1>1, <1>2

-----------------------------------------------------------------------------
(* Sums.                                                                   *)

\* The sums of the first members of f, each from the one before.
IsSums(g, f, N) ==
    /\ f \in [0..N - 1 -> Nat]
    /\ g = [n \in 0..N |-> IF n = 0 THEN 0 ELSE g[n - 1] + f[n - 1]]

LEMMA SumsExist ==
  ASSUME NEW N \in Nat, NEW f \in [0..N - 1 -> Nat]
  PROVE  \E g \in [0..N -> Nat] : IsSums(g, f, N)
<1> DEFINE Sum(g, n) == \A k \in 0..n : g[k] = IF k = 0 THEN 0 ELSE g[k - 1] + f[k - 1]
           T == {n \in Nat : n <= N => \E g \in [0..n -> Nat] : Sum(g, n)}
<1>1. 0 \in T
  <2> DEFINE g == [k \in 0..0 |-> 0]
  <2>1. g \in [0..0 -> Nat] /\ Sum(g, 0)
    OBVIOUS
  <2> QED BY <2>1
<1>2. ASSUME NEW n \in Nat, n \in T PROVE n + 1 \in T
  <2> SUFFICES ASSUME n + 1 <= N PROVE \E g \in [0..n + 1 -> Nat] : Sum(g, n + 1)
    <3> HIDE DEF Sum
    <3> QED OBVIOUS
  <2>0. n <= N
    OBVIOUS
  <2>1. PICK h \in [0..n -> Nat] : Sum(h, n)
    <3> HIDE DEF Sum
    <3> QED BY <1>2, <2>0
  <2> DEFINE g == [k \in 0..n + 1 |-> IF k <= n THEN h[k] ELSE h[n] + f[n]]
  <2>2. g \in [0..n + 1 -> Nat]
    OBVIOUS
  <2>3. Sum(g, n + 1)
    <3> SUFFICES ASSUME NEW k \in 0..n + 1 PROVE g[k] = IF k = 0 THEN 0 ELSE g[k - 1] + f[k - 1]
      OBVIOUS
    <3>1. CASE k <= n
      BY <2>1, <3>1
    <3>2. CASE k = n + 1
      BY <3>2
    <3> QED BY <3>1, <3>2
  <2> QED BY <2>2, <2>3
<1>3. Nat \subseteq T
  <2> HIDE DEF T
  <2> QED BY <1>1, <1>2, AllNaturals
<1>4. PICK g \in [0..N -> Nat] : Sum(g, N)
  <2>1. N \in T
    BY <1>3
  <2> HIDE DEF Sum
  <2> QED BY <2>1
<1>5. IsSums(g, f, N)
  BY <1>4 DEF IsSums
<1> QED BY <1>5

LEMMA SumsTyped ==
  ASSUME NEW N \in Nat, NEW f, NEW g, IsSums(g, f, N)
  PROVE  /\ f \in [0..N - 1 -> Nat] /\ g \in [0..N -> Nat] /\ g[0] = 0
         /\ \A n \in 1..N : g[n] = g[n - 1] + f[n - 1]
<1> DEFINE T == {n \in Nat : n <= N => g[n] \in Nat}
<1>0. f \in [0..N - 1 -> Nat]
  BY DEF IsSums
<1>1. \A n \in 0..N : g[n] = IF n = 0 THEN 0 ELSE g[n - 1] + f[n - 1]
  BY DEF IsSums
<1>2. 0 \in T
  BY <1>1
<1>3. ASSUME NEW n \in Nat, n \in T PROVE n + 1 \in T
  <2> SUFFICES ASSUME n + 1 <= N PROVE g[n + 1] \in Nat
    OBVIOUS
  <2>1. g[n] \in Nat /\ f[n] \in Nat /\ n + 1 \in 0..N
    BY <1>0, <1>3
  <2> QED BY <1>1, <2>1
<1>4. Nat \subseteq T
  <2> HIDE DEF T
  <2> QED BY <1>2, <1>3, AllNaturals
<1>5. \A n \in 0..N : g[n] \in Nat
  BY <1>4
<1>6. g = [n \in 0..N |-> g[n]]
  BY DEF IsSums
<1>7. g \in [0..N -> Nat]
  BY <1>5, <1>6
<1> QED BY <1>0, <1>1, <1>7

\* The members of f move up by one and make room for a zero.
Shifted(h, f, N) == \A a \in 0..N - 1 : h[a] = IF a = 0 THEN 0 ELSE f[a - 1]

\* The first member is one more than that of f.
OneMore(h, f, N) == \A a \in 0..N - 1 : h[a] = IF a = 0 THEN f[0] + 1 ELSE f[a]

LEMMA SumsShift ==
  ASSUME NEW N \in Nat, NEW f, NEW h, Shifted(h, f, N), NEW g, IsSums(g, f, N),
         NEW s, IsSums(s, h, N)
  PROVE  \A n \in 0..N - 1 : s[n + 1] = g[n]
<1> DEFINE T == {k \in Nat : k < N => s[k + 1] = g[k]}
<1>0. /\ g[0] = 0 /\ \A k \in 1..N : g[k] = g[k - 1] + f[k - 1]
      /\ s[0] = 0 /\ \A k \in 1..N : s[k] = s[k - 1] + h[k - 1]
  BY SumsTyped
<1>1. \A k \in 1..N : g[k] = g[k - 1] + f[k - 1] /\ s[k] = s[k - 1] + h[k - 1]
  BY <1>0
<1>2. g[0] = 0 /\ s[0] = 0
  BY <1>0
<1>3. 0 \in T
  BY <1>1, <1>2 DEF Shifted
<1>4. ASSUME NEW k \in Nat, k \in T PROVE k + 1 \in T
  <2> SUFFICES ASSUME k + 1 < N PROVE s[k + 1 + 1] = g[k + 1]
    OBVIOUS
  <2>1. s[k + 1 + 1] = s[k + 1] + h[k + 1] /\ g[k + 1] = g[k] + f[k]
    BY <1>1
  <2>2. h[k + 1] = f[k] /\ s[k + 1] = g[k]
    BY <1>4 DEF Shifted
  <2> QED BY <2>1, <2>2
<1>5. Nat \subseteq T
  <2> HIDE DEF T
  <2> QED BY <1>3, <1>4, AllNaturals
<1> QED BY <1>5

LEMMA SumsAfterOneMore ==
  ASSUME NEW N \in Nat, NEW f, NEW h, OneMore(h, f, N), NEW g, IsSums(g, f, N),
         NEW s, IsSums(s, h, N)
  PROVE  \A n \in 1..N : s[n] = g[n] + 1
<1> DEFINE T == {k \in Nat : k < N => s[k + 1] = g[k + 1] + 1}
<1>0. /\ g[0] = 0 /\ \A k \in 1..N : g[k] = g[k - 1] + f[k - 1]
      /\ s[0] = 0 /\ \A k \in 1..N : s[k] = s[k - 1] + h[k - 1]
      /\ f \in [0..N - 1 -> Nat] /\ g \in [0..N -> Nat]
  BY SumsTyped
<1>1. \A k \in 1..N : g[k] = g[k - 1] + f[k - 1] /\ s[k] = s[k - 1] + h[k - 1]
  BY <1>0
<1>2. g[0] = 0 /\ s[0] = 0 /\ \A k \in 0..N : g[k] \in Nat
  BY <1>0
<1>3. 0 \in T
  BY <1>0, <1>1, <1>2 DEF OneMore
<1>4. ASSUME NEW k \in Nat, k \in T PROVE k + 1 \in T
  <2> SUFFICES ASSUME k + 1 < N PROVE s[k + 1 + 1] = g[k + 1 + 1] + 1
    OBVIOUS
  <2>1. s[k + 1 + 1] = s[k + 1] + h[k + 1] /\ g[k + 1 + 1] = g[k + 1] + f[k + 1]
    BY <1>1
  <2>2. h[k + 1] = f[k + 1] /\ s[k + 1] = g[k + 1] + 1 /\ f[k + 1] \in Nat /\ g[k + 1] \in Nat
    BY <1>0, <1>2, <1>4 DEF OneMore
  <2> QED BY <2>1, <2>2
<1>5. Nat \subseteq T
  <2> HIDE DEF T
  <2> QED BY <1>3, <1>4, AllNaturals
<1> SUFFICES ASSUME NEW n \in 1..N PROVE s[n] = g[n] + 1
  OBVIOUS
<1>6. n - 1 \in T /\ n - 1 + 1 = n
  <2> HIDE DEF T
  <2> QED BY <1>5
<1> QED BY <1>6

\* A sum of fewer members is no larger.
LEMMA SumsGrow ==
  ASSUME NEW N \in Nat, NEW f, NEW g, IsSums(g, f, N),
         NEW m \in 0..N, NEW n \in 0..N, m <= n
  PROVE  g[m] <= g[n]
<1> DEFINE T == {k \in Nat : m + k <= N => g[m] <= g[m + k]}
<1>0. f \in [0..N - 1 -> Nat] /\ g \in [0..N -> Nat] /\ \A k \in 1..N : g[k] = g[k - 1] + f[k - 1]
  BY SumsTyped
<1>1. 0 \in T
  BY <1>0
<1>2. ASSUME NEW k \in Nat, k \in T PROVE k + 1 \in T
  <2> SUFFICES ASSUME m + (k + 1) <= N PROVE g[m] <= g[m + (k + 1)]
    OBVIOUS
  <2>1. m + k \in 0..N - 1 /\ m + (k + 1) \in 1..N /\ m + (k + 1) - 1 = m + k
    OBVIOUS
  <2>2. g[m + (k + 1)] = g[m + k] + f[m + k] /\ f[m + k] \in Nat /\ g[m + k] \in Nat
    BY <1>0, <2>1
  <2>3. g[m] <= g[m + k] /\ g[m] \in Nat
    BY <1>0, <1>2, <2>1
  <2> QED BY <2>2, <2>3
<1>3. Nat \subseteq T
  <2> HIDE DEF T
  <2> QED BY <1>1, <1>2, AllNaturals
<1>4. n - m \in T /\ m + (n - m) = n
  <2> HIDE DEF T
  <2> QED BY <1>3
<1> QED BY <1>4

-----------------------------------------------------------------------------
(* Orders of use.                                                          *)

\* R, pairs <<x, y>> of which x was used later than y, orders the members of S.
Orders(R, S) ==
    /\ \A x, y \in S : x # y => (<<x, y>> \in R) # (<<y, x>> \in R)
    /\ \A x, y, z \in S : <<x, y>> \in R /\ <<y, z>> \in R /\ x # y /\ y # z /\ x # z
                             => <<x, z>> \in R

LastUsed(R, S, x)  == x \in S /\ \A y \in S \ {x} : <<x, y>> \in R
FirstUsed(R, S, x) == x \in S /\ \A y \in S \ {x} : <<y, x>> \in R

\* One more member keeps an order's ends, or is one of them.
LEMMA EndsOfOneMore ==
  ASSUME NEW R, NEW S, Orders(R, S), NEW x \in S,
         \E n : LastUsed(R, S \ {x}, n), \E n : FirstUsed(R, S \ {x}, n)
  PROVE  (\E n : LastUsed(R, S, n)) /\ (\E n : FirstUsed(R, S, n))
<1>1. PICK n : LastUsed(R, S \ {x}, n)
  OBVIOUS
<1>2. PICK o : FirstUsed(R, S \ {x}, o)
  OBVIOUS
<1>3. LastUsed(R, S, n) \/ LastUsed(R, S, x)
  <2>1. CASE <<n, x>> \in R
    BY <1>1, <2>1 DEF LastUsed
  <2>2. CASE <<x, n>> \in R
    <3>1. ASSUME NEW y \in S \ {x}, y # n PROVE <<x, y>> \in R
      BY <1>1, <2>2, <3>1 DEF LastUsed, Orders
    <3> QED BY <2>2, <3>1 DEF LastUsed
  <2> QED BY <1>1, <2>1, <2>2 DEF LastUsed, Orders
<1>4. FirstUsed(R, S, o) \/ FirstUsed(R, S, x)
  <2>1. CASE <<x, o>> \in R
    BY <1>2, <2>1 DEF FirstUsed
  <2>2. CASE <<o, x>> \in R
    <3>1. ASSUME NEW y \in S \ {x}, y # o PROVE <<y, x>> \in R
      BY <1>2, <2>2, <3>1 DEF FirstUsed, Orders
    <3> QED BY <2>2, <3>1 DEF FirstUsed
  <2> QED BY <1>2, <2>1, <2>2 DEF FirstUsed, Orders
<1> QED BY <1>3, <1>4

\* Of finitely many entries one was used last and one first.
LEMMA OrderHasEnds ==
  ASSUME NEW R, NEW S, Orders(R, S), IsFiniteSet(S), S # {}
  PROVE  (\E n : LastUsed(R, S, n)) /\ (\E n : FirstUsed(R, S, n))
<1> DEFINE HasEnds(H) == (\E n : LastUsed(R, H, n)) /\ (\E n : FirstUsed(R, H, n))
           T == {k \in Nat : \A H \in SUBSET S : Cardinality(H) = k + 1 => HasEnds(H)}
<1>1. \A H \in SUBSET S : IsFiniteSet(H) /\ Cardinality(H) \in Nat /\ Orders(R, H)
  BY FS_Subset, FS_CardinalityType DEF Orders
<1>2. 0 \in T
  <2> SUFFICES ASSUME NEW H \in SUBSET S, Cardinality(H) = 1 PROVE HasEnds(H)
    OBVIOUS
  <2>1. PICK x : H = {x}
    BY <1>1, FS_Singleton
  <2> QED BY <2>1 DEF LastUsed, FirstUsed
<1>3. ASSUME NEW k \in Nat, k \in T PROVE k + 1 \in T
  <2> SUFFICES ASSUME NEW H \in SUBSET S, Cardinality(H) = k + 1 + 1 PROVE HasEnds(H)
    OBVIOUS
  <2>1. PICK x : x \in H
    BY FS_EmptySet
  <2>2. Cardinality(H \ {x}) = k + 1
    BY <1>1, <2>1, FS_RemoveElement
  <2>3. HasEnds(H \ {x})
    BY <1>3, <2>2
  <2> QED BY <1>1, <2>1, <2>3, EndsOfOneMore
<1>4. Nat \subseteq T
  <2> HIDE DEF T
  <2> QED BY <1>2, <1>3, AllNaturals
<1>5. Cardinality(S) \in Nat \ {0}
  BY <1>1, FS_EmptySet
<1>6. Cardinality(S) - 1 \in T /\ Cardinality(S) = (Cardinality(S) - 1) + 1
  BY <1>4, <1>5
<1> QED BY <1>6

\* On H, Q is R but for t, which has become the entry used last.
Promotes(Q, R, t, H) ==
    \A x, y \in H : <<x, y>> \in Q <=> \/ x # t /\ y # t /\ <<x, y>> \in R
                                       \/ x = t /\ y # t

LEMMA OrderAfterUse ==
  ASSUME NEW R, NEW S, Orders(R, S), NEW t, NEW H, H \subseteq S \cup {t}, NEW Q, Promotes(Q, R, t, H)
  PROVE  Orders(Q, H)
<1>0. \A x, y \in H : <<x, y>> \in Q <=> \/ x # t /\ y # t /\ <<x, y>> \in R
                                         \/ x = t /\ y # t
  BY DEF Promotes
<1>1. ASSUME NEW x \in H, NEW y \in H, x # y
      PROVE  (<<x, y>> \in Q) # (<<y, x>> \in Q)
  <2>1. CASE x = t
    BY <1>0, <1>1, <2>1
  <2>2. CASE y = t
    BY <1>0, <1>1, <2>2
  <2>3. CASE x # t /\ y # t
    <3>1. x \in S /\ y \in S
      BY <2>3
    <3>2. (<<x, y>> \in R) # (<<y, x>> \in R)
      BY <1>1, <3>1 DEF Orders
    <3>3. (<<x, y>> \in Q <=> <<x, y>> \in R) /\ (<<y, x>> \in Q <=> <<y, x>> \in R)
      BY <1>0, <2>3
    <3> QED BY <3>2, <3>3
  <2> QED BY <2>1, <2>2, <2>3
<1>2. ASSUME NEW x \in H, NEW y \in H, NEW z \in H,
             <<x, y>> \in Q, <<y, z>> \in Q, x # y, y # z, x # z
      PROVE  <<x, z>> \in Q
  BY <1>0, <1>2 DEF Orders
<1> QED BY <1>1, <1>2 DEF Orders

-----------------------------------------------------------------------------
(* Capacities.                                                             *)

\* A store of at most C entries that takes in x, and lets one go for it when it
\* is full, holds at most C.
LEMMA CapacityKept ==
  ASSUME NEW C \in Nat, NEW S, IsFiniteSet(S), Cardinality(S) <= C,
         NEW x, NEW H \in SUBSET (S \cup {x}),
         x \in S \/ Cardinality(S) < C \/ \E v \in S : v \notin H
  PROVE  IsFiniteSet(H) /\ Cardinality(H) <= C
<1>1. /\ IsFiniteSet(S \cup {x}) /\ Cardinality(S) \in Nat
      /\ Cardinality(S \cup {x}) = IF x \in S THEN Cardinality(S) ELSE Cardinality(S) + 1
  BY FS_AddElement, FS_CardinalityType
<1>2. IsFiniteSet(H) /\ Cardinality(H) \in Nat /\ Cardinality(H) <= Cardinality(S \cup {x})
  BY <1>1, FS_Subset, FS_CardinalityType
<1>3. ASSUME NEW v \in S, v \notin H
      PROVE  Cardinality(H) <= C
  <2>1. /\ IsFiniteSet((S \cup {x}) \ {v})
        /\ Cardinality((S \cup {x}) \ {v}) = Cardinality(S \cup {x}) - 1
    BY <1>1, FS_RemoveElement
  <2>2. H \in SUBSET ((S \cup {x}) \ {v})
    BY <1>3
  <2>3. Cardinality(H) <= Cardinality((S \cup {x}) \ {v})
    BY <2>1, <2>2, FS_Subset
  <2> QED BY <1>1, <1>2, <2>1, <2>3
<1> QED BY <1>1, <1>2, <1>3
=============================================================================
