------------------------------- MODULE SumsProofs -------------------------------
(***************************************************************************)
(* Lemmas about running sums, for sequences of any length.  Induction is a *)
(* theorem about sets here: it rests on strict inclusion of finite sets    *)
(* being well-founded.                                                     *)
(***************************************************************************)
EXTENDS Sums, FiniteSetTheorems, SequenceTheorems, TLAPS

-----------------------------------------------------------------------------
(* Induction                                                               *)

(* Every set of natural numbers has a least member.                        *)
LEMMA LeastNatural ==
    ASSUME NEW T \in SUBSET Nat, T # {}
    PROVE  \E m \in T : \A k \in T : m <= k
<1> DEFINE R == StrictSubsetOrdering(Nat)
           S == FiniteSubsetsOf(Nat)
           U == {0..k-1 : k \in T}
<1>1. IsWellFoundedOn(R, S)
  BY FS_StrictSubsetOrderingWellFounded
<1>2. U \subseteq S
  <2>1. \A k \in T : 0..k-1 \in SUBSET Nat /\ IsFiniteSet(0..k-1)
    BY FS_Interval
  <2> QED
    BY <2>1 DEF FiniteSubsetsOf
<1>3. U # {}
  OBVIOUS
<1>4. PICK u \in U : \A v \in U : ~(<<v, u>> \in R)
  <2> HIDE DEF R, S, U
  <2> QED
    BY <1>1, <1>2, <1>3, WFMin
<1>5. PICK m \in T : u = 0..m-1
  OBVIOUS
<1>6. ASSUME NEW k \in T, k < m PROVE FALSE
  <2>1. 0..k-1 \in U
    OBVIOUS
  <2>2. 0..k-1 \subseteq 0..m-1 /\ 0..k-1 # 0..m-1
    BY <1>6
  <2>3. <<0..k-1, 0..m-1>> \in R
    BY <2>2, SMTT(30) DEF StrictSubsetOrdering
  <2> QED
    BY <1>4, <1>5, <2>1, <2>3
<1> QED
  BY <1>6

(* Induction: what is in S with 0, and with n + 1 whenever with n, is Nat.  *)
LEMMA Induction ==
    ASSUME NEW S, 0 \in S, \A n \in Nat : n \in S => n + 1 \in S
    PROVE  \A n \in Nat : n \in S
<1> DEFINE T == {n \in Nat : n \notin S}
<1> SUFFICES ASSUME T # {} PROVE FALSE
  OBVIOUS
<1>1. PICK m \in T : \A k \in T : m <= k
  <2>1. T \in SUBSET Nat
    OBVIOUS
  <2> HIDE DEF T
  <2> QED
    BY <2>1, LeastNatural
<1>2. m \in Nat /\ m # 0 /\ m - 1 \in Nat
  OBVIOUS
<1>3. m - 1 \in S
  BY <1>1, <1>2
<1>4. (m - 1) + 1 \in S
  BY <1>2, <1>3
<1> QED
  BY <1>2, <1>4

-----------------------------------------------------------------------------
(* What a sum is                                                           *)

IsSum(f, n, g) == g = [j \in 0..n |-> IF j = 0 THEN 0 ELSE g[j - 1] + f[j]]

LEMMA SumExists ==
    ASSUME NEW f
    PROVE  \A n \in Nat : \E g : IsSum(f, n, g)
<1> DEFINE S == {n \in Nat : \E g : IsSum(f, n, g)}
<1>1. 0 \in S
  <2>1. IsSum(f, 0, [j \in 0..0 |-> 0])
    BY DEF IsSum
  <2> QED
    BY <2>1
<1>2. ASSUME NEW n \in Nat, n \in S PROVE n + 1 \in S
  <2>1. PICK g : IsSum(f, n, g)
    BY <1>2
  <2> DEFINE h == [j \in 0..n + 1 |-> IF j = n + 1 THEN g[n] + f[n + 1] ELSE g[j]]
  <2>2. \A j \in 0..n : g[j] = IF j = 0 THEN 0 ELSE g[j - 1] + f[j]
    BY <2>1 DEF IsSum
  <2>3. ASSUME NEW j \in 0..n + 1
        PROVE  h[j] = IF j = 0 THEN 0 ELSE h[j - 1] + f[j]
    <3>1. CASE j = n + 1
      BY <3>1
    <3>2. CASE j # n + 1
      <4>1. j \in 0..n /\ (j # 0 => j - 1 \in 0..n /\ j - 1 # n + 1)
        BY <3>2
      <4>2. h[j] = g[j]
        BY <3>2
      <4>3. j # 0 => h[j - 1] = g[j - 1]
        BY <4>1
      <4> QED
        BY <2>2, <4>1, <4>2, <4>3
    <3> QED
      BY <3>1, <3>2
  <2>4. h = [j \in 0..n + 1 |-> h[j]]
    OBVIOUS
  <2>5. IsSum(f, n + 1, h)
    <3> HIDE DEF h
    <3> QED
      BY <2>3, <2>4 DEF IsSum
  <2> QED
    BY <2>5
<1> HIDE DEF S
<1>3. \A n \in Nat : n \in S
  BY <1>1, <1>2, Induction
<1> QED
  BY <1>3 DEF S

LEMMA SumUnique ==
    ASSUME NEW f, NEW m \in Nat, NEW n \in Nat, m <= n,
           NEW g, NEW h, IsSum(f, m, g), IsSum(f, n, h)
    PROVE  \A j \in 0..m : g[j] = h[j]
<1> DEFINE S == {j \in Nat : j <= m => g[j] = h[j]}
<1>1. /\ \A j \in 0..m : g[j] = IF j = 0 THEN 0 ELSE g[j - 1] + f[j]
      /\ \A j \in 0..n : h[j] = IF j = 0 THEN 0 ELSE h[j - 1] + f[j]
  BY DEF IsSum
<1>2. 0 \in S
  BY <1>1
<1>3. ASSUME NEW j \in Nat, j \in S PROVE j + 1 \in S
  <2> SUFFICES ASSUME j + 1 <= m PROVE g[j + 1] = h[j + 1]
    OBVIOUS
  <2>1. j + 1 \in 0..m /\ j + 1 \in 0..n /\ j + 1 # 0 /\ (j + 1) - 1 = j
    OBVIOUS
  <2>2. g[j] = h[j]
    BY <1>3
  <2> QED
    BY <1>1, <2>1, <2>2
<1> HIDE DEF S
<1>4. \A j \in Nat : j \in S
  BY <1>2, <1>3, Induction
<1> QED
  BY <1>4 DEF S

(* What the recursion says: the sum of nothing is 0, and every further
   member is added.                                                        *)
LEMMA SumSteps ==
    ASSUME NEW f
    PROVE  /\ SumTo(f, 0) = 0
           /\ \A n \in Nat : SumTo(f, n + 1) = SumTo(f, n) + f[n + 1]
<1> DEFINE g(n) == CHOOSE g : IsSum(f, n, g)
<1>1. \A n \in Nat : IsSum(f, n, g(n)) /\ SumTo(f, n) = g(n)[n]
  BY SumExists DEF SumTo, IsSum
<1> HIDE DEF g
<1>2. SumTo(f, 0) = 0
  BY <1>1 DEF IsSum
<1>3. ASSUME NEW n \in Nat PROVE SumTo(f, n + 1) = SumTo(f, n) + f[n + 1]
  <2>1. IsSum(f, n, g(n)) /\ IsSum(f, n + 1, g(n + 1))
    BY <1>1
  <2>2. g(n)[n] = g(n + 1)[n]
    <3>1. n <= n + 1 /\ n \in 0..n
      OBVIOUS
    <3> QED
      BY <2>1, <3>1, SumUnique
  <2>3. \A j \in 0..n + 1 : g(n + 1)[j] = IF j = 0 THEN 0 ELSE g(n + 1)[j - 1] + f[j]
    BY <2>1 DEF IsSum
  <2>4. g(n + 1)[n + 1] = g(n + 1)[n] + f[n + 1]
    BY <2>3
  <2> QED
    BY <1>1, <2>2, <2>4
<1> QED
  BY <1>2, <1>3

-----------------------------------------------------------------------------
(* What sums have in common                                                *)

LEMMA SumInt ==
    ASSUME NEW f, NEW n \in Nat, \A j \in 1..n : f[j] \in Int
    PROVE  \A k \in 0..n : SumTo(f, k) \in Int
<1> DEFINE S == {k \in Nat : k <= n => SumTo(f, k) \in Int}
<1>1. 0 \in S
  BY SumSteps
<1>2. ASSUME NEW k \in Nat, k \in S PROVE k + 1 \in S
  <2> SUFFICES ASSUME k + 1 <= n PROVE SumTo(f, k + 1) \in Int
    OBVIOUS
  <2>1. SumTo(f, k) \in Int /\ f[k + 1] \in Int
    BY <1>2
  <2> QED
    BY <2>1, SumSteps
<1> HIDE DEF S
<1>3. \A k \in Nat : k \in S
  BY <1>1, <1>2, Induction
<1> QED
  BY <1>3 DEF S

(* f has m members, g has n, and the l members of f behind the a-th are those
   of g behind the b-th.                                                   *)
Alike(f, m, a, g, n, b, l) ==
    /\ m \in Nat /\ a \in 0..m /\ \A j \in 1..m : f[j] \in Int
    /\ n \in Nat /\ b \in 0..n /\ \A j \in 1..n : g[j] \in Int
    /\ l \in Nat /\ a + l <= m /\ b + l <= n
    /\ \A j \in 1..l : f[a + j] = g[b + j]

(* Where two sequences agree, their sums grow alike.                       *)
LEMMA SumsGrowAlike ==
    ASSUME NEW f, NEW m, NEW a, NEW g, NEW n, NEW b, NEW l, Alike(f, m, a, g, n, b, l)
    PROVE  \A k \in 0..l : SumTo(f, a + k) - SumTo(f, a) = SumTo(g, b + k) - SumTo(g, b)
<1> USE DEF Alike
<1> DEFINE F(k) == SumTo(f, a + k)
           G(k) == SumTo(g, b + k)
           S == {k \in Nat : k <= l => F(k) - F(0) = G(k) - G(0)}
<1>1. \A k \in 0..l : F(k) \in Int /\ G(k) \in Int
  <2>1. \A k \in 0..l : a + k \in 0..m /\ b + k \in 0..n
    OBVIOUS
  <2> QED
    BY <2>1, SumInt
<1>2. 0 \in S
  BY <1>1
<1>3. ASSUME NEW k \in Nat, k \in S PROVE k + 1 \in S
  <2> SUFFICES ASSUME k + 1 <= l PROVE F(k + 1) - F(0) = G(k + 1) - G(0)
    OBVIOUS
  <2>1. F(k) - F(0) = G(k) - G(0)
    BY <1>3
  <2>2. k \in 0..l /\ k + 1 \in 1..l /\ 0 \in 0..l /\ k + 1 \in 0..l
    OBVIOUS
  <2>3. F(k + 1) = F(k) + f[a + k + 1] /\ G(k + 1) = G(k) + g[b + k + 1]
    <3>1. /\ a + k \in Nat /\ b + k \in Nat
          /\ a + (k + 1) = (a + k) + 1 /\ b + (k + 1) = (b + k) + 1
      OBVIOUS
    <3> QED
      BY <3>1, SumSteps
  <2>4. f[a + k + 1] = g[b + k + 1] /\ f[a + k + 1] \in Int
    <3>1. a + (k + 1) = a + k + 1 /\ b + (k + 1) = b + k + 1 /\ a + k + 1 \in 1..m
      BY <2>2
    <3> QED
      BY <2>2, <3>1
  <2> HIDE DEF F, G
  <2> QED
    BY <1>1, <2>1, <2>2, <2>3, <2>4
<1> HIDE DEF S
<1>4. \A k \in Nat : k \in S
  BY <1>2, <1>3, Induction
<1>5. a + 0 = a /\ b + 0 = b
  OBVIOUS
<1> QED
  BY <1>4, <1>5 DEF S

(* A sum of natural numbers grows with every further one.                  *)
LEMMA SumMonotonic ==
    ASSUME NEW f, NEW n \in Nat, \A j \in 1..n : f[j] \in Nat
    PROVE  /\ \A k \in 0..n : SumTo(f, k) \in Nat
           /\ \A k \in 0..n : \A i \in 0..k : SumTo(f, i) <= SumTo(f, k)
<1> DEFINE S == {k \in Nat : k <= n => /\ SumTo(f, k) \in Nat
                                      /\ \A i \in 0..k : SumTo(f, i) <= SumTo(f, k)}
<1>1. 0 \in S
  BY SumSteps
<1>2. ASSUME NEW k \in Nat, k \in S PROVE k + 1 \in S
  <2> SUFFICES ASSUME k + 1 <= n
               PROVE  /\ SumTo(f, k + 1) \in Nat
                      /\ \A i \in 0..k + 1 : SumTo(f, i) <= SumTo(f, k + 1)
    OBVIOUS
  <2>1. /\ SumTo(f, k) \in Nat /\ f[k + 1] \in Nat
        /\ SumTo(f, k + 1) = SumTo(f, k) + f[k + 1]
    BY <1>2, SumSteps
  <2>2. ASSUME NEW i \in 0..k PROVE SumTo(f, i) <= SumTo(f, k + 1)
    <3>1. i \in 0..n
      OBVIOUS
    <3>2. SumTo(f, i) \in Int
      BY <3>1, SumInt
    <3>3. SumTo(f, i) <= SumTo(f, k)
      BY <1>2
    <3> QED
      BY <2>1, <3>2, <3>3
  <2>3. \A i \in 0..k + 1 : i \in 0..k \/ i = k + 1
    OBVIOUS
  <2> QED
    BY <2>1, <2>2, <2>3
<1> HIDE DEF S
<1>3. \A k \in Nat : k \in S
  BY <1>1, <1>2, Induction
<1> QED
  BY <1>3 DEF S

-----------------------------------------------------------------------------
(* Recursive functions                                                     *)

(* G[f] is computed at d from what f has at the members of lower rank.     *)
Descends(D, V, rank, G) ==
    \A f, g \in [D -> V] : \A d \in D :
        (\A e \in D : rank[e] < rank[d] => f[e] = g[e]) => G[f][d] = G[g][d]

(* f is as G says up to rank n.                                            *)
FollowsTo(D, rank, G, f, n) == \A d \in D : rank[d] < n => f[d] = G[f][d]

LEMMA FollowersAgree ==
    ASSUME NEW D, NEW V, NEW rank \in [D -> Nat], NEW G, Descends(D, V, rank, G),
           NEW n \in Nat, NEW f \in [D -> V], NEW g \in [D -> V],
           FollowsTo(D, rank, G, f, n), FollowsTo(D, rank, G, g, n)
    PROVE  \A d \in D : rank[d] < n => f[d] = g[d]
<1> DEFINE S == {k \in Nat : \A d \in D : rank[d] < n /\ rank[d] < k => f[d] = g[d]}
<1>1. 0 \in S
  OBVIOUS
<1>2. ASSUME NEW k \in Nat, k \in S PROVE k + 1 \in S
  <2> SUFFICES ASSUME NEW d \in D, rank[d] < n, rank[d] < k + 1 PROVE f[d] = g[d]
    OBVIOUS
  <2>1. \A e \in D : rank[e] < rank[d] => f[e] = g[e]
    <3> SUFFICES ASSUME NEW e \in D, rank[e] < rank[d] PROVE f[e] = g[e]
      OBVIOUS
    <3>1. rank[e] < n /\ rank[e] < k
      OBVIOUS
    <3> QED
      BY <1>2, <3>1
  <2>2. G[f][d] = G[g][d]
    BY <2>1 DEF Descends
  <2> QED
    BY <2>2 DEF FollowsTo
<1> HIDE DEF S
<1>3. \A k \in Nat : k \in S
  BY <1>1, <1>2, Induction
<1>4. n \in S
  BY <1>3
<1> QED
  BY <1>4 DEF S

(* A definition by recursion that descends defines a function.             *)
Recursive(D, V, rank, G, start) ==
    /\ rank \in [D -> Nat] /\ start \in [D -> V]
    /\ G \in [[D -> V] -> [D -> V]] /\ Descends(D, V, rank, G)

LEMMA Recursion ==
    ASSUME NEW D, NEW V, NEW rank, NEW G, NEW start, Recursive(D, V, rank, G, start)
    PROVE  \E f \in [D -> V] : f = G[f]
<1>0. /\ rank \in [D -> Nat] /\ start \in [D -> V]
      /\ G \in [[D -> V] -> [D -> V]] /\ Descends(D, V, rank, G)
  BY DEF Recursive
<1> USE <1>0
<1> DEFINE S == {n \in Nat : \E f \in [D -> V] : FollowsTo(D, rank, G, f, n)}
<1>1. 0 \in S
  <2>1. FollowsTo(D, rank, G, start, 0)
    BY DEF FollowsTo
  <2> QED
    BY <2>1
<1>2. ASSUME NEW n \in Nat, n \in S PROVE n + 1 \in S
  <2>1. PICK f \in [D -> V] : FollowsTo(D, rank, G, f, n)
    BY <1>2
  <2>2. G[f] \in [D -> V]
    OBVIOUS
  <2>3. ASSUME NEW d \in D, rank[d] < n + 1 PROVE G[f][d] = G[G[f]][d]
    <3>1. \A e \in D : rank[e] < rank[d] => f[e] = G[f][e]
      <4> SUFFICES ASSUME NEW e \in D, rank[e] < rank[d] PROVE f[e] = G[f][e]
        OBVIOUS
      <4>1. rank[e] < n
        BY <2>3
      <4> QED
        BY <2>1, <4>1 DEF FollowsTo
    <3> QED
      BY <2>2, <3>1 DEF Descends
  <2>4. FollowsTo(D, rank, G, G[f], n + 1)
    BY <2>3 DEF FollowsTo
  <2> QED
    BY <2>2, <2>4
<1> HIDE DEF S
<1>3. \A n \in Nat : n \in S
  BY <1>1, <1>2, Induction
<1> DEFINE F == [n \in Nat |-> CHOOSE f \in [D -> V] : FollowsTo(D, rank, G, f, n)]
           h == [d \in D |-> F[rank[d] + 1][d]]
<1>4. \A n \in Nat : F[n] \in [D -> V] /\ FollowsTo(D, rank, G, F[n], n)
  BY <1>3 DEF S
<1> HIDE DEF F
<1>5. h \in [D -> V]
  <2> SUFFICES ASSUME NEW d \in D PROVE F[rank[d] + 1][d] \in V
    OBVIOUS
  <2>1. rank[d] + 1 \in Nat
    OBVIOUS
  <2> QED
    BY <1>4, <2>1
<1>6. ASSUME NEW d \in D PROVE h[d] = G[h][d]
  <2> DEFINE n == rank[d] + 1
             f == F[n]
  <2>1. n \in Nat /\ rank[d] < n
    OBVIOUS
  <2>2. f \in [D -> V] /\ FollowsTo(D, rank, G, f, n)
    BY <1>4, <2>1
  <2>3. h[d] = f[d]
    OBVIOUS
  <2>4. ASSUME NEW e \in D, rank[e] < rank[d] PROVE h[e] = f[e]
    <3> DEFINE m == rank[e] + 1
               g == F[m]
    <3>1. m \in Nat /\ rank[e] < m /\ m <= n
      BY <2>4
    <3>2. g \in [D -> V] /\ FollowsTo(D, rank, G, g, m)
      BY <1>4, <3>1
    <3>3. h[e] = g[e]
      OBVIOUS
    <3> HIDE DEF m, g, f, n, h
    <3>4. FollowsTo(D, rank, G, f, m)
      <4> SUFFICES ASSUME NEW c \in D, rank[c] < m PROVE f[c] = G[f][c]
        BY DEF FollowsTo
      <4>1. rank[c] < n
        BY <2>1, <3>1
      <4> QED
        BY <2>2, <4>1 DEF FollowsTo
    <3>5. g[e] = f[e]
      BY <2>2, <3>1, <3>2, <3>4, FollowersAgree
    <3> QED
      BY <3>3, <3>5
  <2> HIDE DEF f, n, h
  <2>5. G[h][d] = G[f][d]
    BY <1>5, <2>2, <2>4 DEF Descends
  <2>6. f[d] = G[f][d]
    BY <2>1, <2>2 DEF FollowsTo
  <2> QED
    BY <2>3, <2>5, <2>6
<1>7. h = G[h]
  <2> HIDE DEF h
  <2>1. G[h] \in [D -> V]
    BY <1>5
  <2> QED
    BY <1>5, <1>6, <2>1
<1> QED
  BY <1>5, <1>7

=============================================================================
