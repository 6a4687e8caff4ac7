--------------------------- MODULE CoapMessagesProofs ---------------------------
(***************************************************************************)
(* Proofs about CoapMessages, for every set of messages and sessions, every*)
(* NSTART, MAX_RETRANSMIT and timeout, whatever the network answers.       *)
(***************************************************************************)
EXTENDS CoapMessages, SumsProofs

-----------------------------------------------------------------------------
(* Nodes and when they are due                                             *)

Node == [mid : Messages, t : Nat, timeout : Timeouts, cnt : 0..MaxRetransmit]

TimesOf(q) == [j \in 1..Len(q) |-> q[j].t]

LEMMA NodeFields ==
    ASSUME NEW q \in Seq(Node)
    PROVE  /\ Len(q) \in Nat
           /\ \A i \in 1..Len(q) : /\ q[i] \in Node /\ q[i].t \in Nat
                                   /\ q[i].mid \in Messages
           /\ \A i \in 1..Len(q) : TimesOf(q)[i] = q[i].t /\ TimesOf(q)[i] \in Nat
<1>1. Len(q) \in Nat /\ \A i \in 1..Len(q) : q[i] \in Node
  BY LenProperties, ElementOfSeq
<1>2. \A i \in 1..Len(q) : q[i].t \in Nat /\ q[i].mid \in Messages
  BY <1>1 DEF Node
<1> QED
  BY <1>1, <1>2 DEF TimesOf

LEMMA DueSteps ==
    ASSUME NEW q \in Seq(Node)
    PROVE  /\ DueAt(q, 0) = 0
           /\ \A i \in 0..Len(q) : DueAt(q, i) \in Nat
           /\ \A i \in 1..Len(q) : DueAt(q, i) = DueAt(q, i - 1) + q[i].t
           /\ \A i \in 0..Len(q) : \A h \in 0..i : DueAt(q, h) <= DueAt(q, i)
<1>1. \A i : DueAt(q, i) = SumTo(TimesOf(q), i)
  BY DEF DueAt, TimesOf
<1>2. Len(q) \in Nat /\ \A i \in 1..Len(q) : TimesOf(q)[i] = q[i].t /\ TimesOf(q)[i] \in Nat
  BY NodeFields
<1>3. /\ \A i \in 0..Len(q) : SumTo(TimesOf(q), i) \in Nat
      /\ \A i \in 0..Len(q) : \A h \in 0..i : SumTo(TimesOf(q), h) <= SumTo(TimesOf(q), i)
  BY <1>2, SumMonotonic
<1>4. ASSUME NEW i \in 1..Len(q)
      PROVE  SumTo(TimesOf(q), i) = SumTo(TimesOf(q), i - 1) + q[i].t
  <2>1. i - 1 \in Nat /\ (i - 1) + 1 = i
    BY <1>2
  <2> QED
    BY <1>2, <2>1, SumSteps
<1> QED
  BY <1>1, <1>3, <1>4, SumSteps

(* The l nodes of q behind the a-th have the times of those of r behind the
   b-th.                                                                   *)
SameTimes(q, a, r, b, l) ==
    /\ q \in Seq(Node) /\ a \in 0..Len(q) /\ a + l <= Len(q)
    /\ r \in Seq(Node) /\ b \in 0..Len(r) /\ b + l <= Len(r)
    /\ l \in Nat
    /\ \A j \in 1..l : q[a + j].t = r[b + j].t

LEMMA DueAlike ==
    ASSUME NEW q, NEW a, NEW r, NEW b, NEW l, SameTimes(q, a, r, b, l)
    PROVE  \A k \in 0..l : DueAt(q, a + k) - DueAt(q, a) = DueAt(r, b + k) - DueAt(r, b)
<1>1. /\ q \in Seq(Node) /\ a \in 0..Len(q) /\ a + l <= Len(q)
      /\ r \in Seq(Node) /\ b \in 0..Len(r) /\ b + l <= Len(r)
      /\ l \in Nat
      /\ \A j \in 1..l : q[a + j].t = r[b + j].t
  BY DEF SameTimes
<1>2. /\ Len(q) \in Nat
      /\ \A i \in 1..Len(q) : TimesOf(q)[i] = q[i].t /\ TimesOf(q)[i] \in Int
  BY <1>1, NodeFields
<1>3. /\ Len(r) \in Nat
      /\ \A i \in 1..Len(r) : TimesOf(r)[i] = r[i].t /\ TimesOf(r)[i] \in Int
  BY <1>1, NodeFields
<1>4. \A j \in 1..l : TimesOf(q)[a + j] = TimesOf(r)[b + j]
  <2> SUFFICES ASSUME NEW j \in 1..l
               PROVE  TimesOf(q)[a + j] = TimesOf(r)[b + j]
    OBVIOUS
  <2>1. a + j \in 1..Len(q) /\ b + j \in 1..Len(r)
    BY <1>1, <1>2, <1>3
  <2> QED
    BY <1>1, <1>2, <1>3, <2>1
<1>5. Alike(TimesOf(q), Len(q), a, TimesOf(r), Len(r), b, l)
  BY <1>1, <1>2, <1>3, <1>4 DEF Alike
<1>6. \A i : DueAt(q, i) = SumTo(TimesOf(q), i) /\ DueAt(r, i) = SumTo(TimesOf(r), i)
  BY DEF DueAt, TimesOf
<1> QED
  BY <1>5, <1>6, SumsGrowAlike

(* The nodes that stay in front of one that is due at t: those due by then. *)
LEMMA PositionProperties ==
    ASSUME NEW q \in Seq(Node), NEW t \in Nat
    PROVE  /\ Position(q, t) \in 0..Len(q)
           /\ \A i \in 1..Len(q) : DueAt(q, i) <= t <=> i <= Position(q, t)
<1> DEFINE P == {i \in 1..Len(q) : DueAt(q, i) <= t}
           T == {i \in Nat : i >= 1 /\ (i \in 1..Len(q) => DueAt(q, i) > t)}
<1>1. Len(q) \in Nat
  BY NodeFields
<1>2. Len(q) + 1 \in T /\ T \in SUBSET Nat
  BY <1>1
<1>3. PICK m \in T : \A k \in T : m <= k
  <2> HIDE DEF T
  <2> QED
    BY <1>2, LeastNatural
<1>4. m \in 1..Len(q) + 1
  BY <1>1, <1>2, <1>3
<1>5. ASSUME NEW i \in 1..Len(q) PROVE DueAt(q, i) <= t <=> i <= m - 1
  <2>0. DueAt(q, i) \in Nat /\ i \in Nat /\ m \in Nat
    BY <1>1, <1>4, DueSteps
  <2>1. CASE i < m
    <3>1. i \notin T
      BY <1>3, <1>4, <2>1
    <3>2. ~(DueAt(q, i) > t)
      BY <3>1
    <3> QED
      BY <2>0, <2>1, <3>2
  <2>2. CASE i >= m
    <3>1. m \in 1..Len(q) /\ m \in 0..i /\ i \in 0..Len(q)
      BY <1>4, <2>2
    <3>2. DueAt(q, m) > t
      BY <1>3, <3>1
    <3>3. DueAt(q, m) <= DueAt(q, i) /\ DueAt(q, m) \in Nat
      BY <1>4, <3>1, DueSteps
    <3> QED
      BY <2>0, <2>2, <3>2, <3>3
  <2> QED
    BY <2>0, <2>1, <2>2
<1>6. P = 1..m-1
  BY <1>1, <1>4, <1>5
<1>7. Position(q, t) = m - 1
  <2>1. Position(q, t) = Cardinality(1..m-1)
    BY <1>6 DEF Position
  <2>2. 1 \in Int /\ m - 1 \in Int /\ (IF 1 > m - 1 THEN 0 ELSE (m - 1) - 1 + 1) = m - 1
    BY <1>1, <1>4
  <2> QED
    BY <2>1, <2>2, FS_Interval
<1> QED
  BY <1>1, <1>4, <1>5, <1>7

-----------------------------------------------------------------------------
(* Putting a node into the queue                                           *)

LEMMA LaterNode ==
    ASSUME NEW n \in Node, NEW d \in Int, n.t + d >= 0
    PROVE  /\ Later(n, d) \in Node
           /\ Later(n, d).t = n.t + d /\ Later(n, d).mid = n.mid
           /\ Later(n, d).cnt = n.cnt /\ Later(n, d).timeout = n.timeout
<1>1. n.t \in Nat
  BY DEF Node
<1>2. n.t + d \in Nat
  BY <1>1
<1> QED
  BY <1>2 DEF Later, Node

(* The nodes behind the new one: the first of them becomes relative to it. *)
Behind(q, k, d) ==
    IF k = Len(q) THEN <<>>
    ELSE <<Later(q[k + 1], -d)>> \o SubSeq(q, k + 2, Len(q))

LEMMA BehindProperties ==
    ASSUME NEW q \in Seq(Node), NEW k \in 0..Len(q), NEW d \in Nat,
           k < Len(q) => d <= q[k + 1].t
    PROVE  /\ Behind(q, k, d) \in Seq(Node)
           /\ Len(Behind(q, k, d)) = Len(q) - k
           /\ k < Len(q) => Behind(q, k, d)[1] = Later(q[k + 1], -d)
           /\ \A j \in 2..Len(q) - k : Behind(q, k, d)[j] = q[k + j]
<1>1. Len(q) \in Nat /\ \A i \in 1..Len(q) : q[i] \in Node /\ q[i].t \in Nat
  BY NodeFields
<1>2. CASE k = Len(q)
  <2>1. Behind(q, k, d) = <<>>
    BY <1>2 DEF Behind
  <2> QED
    BY <1>1, <1>2, <2>1
<1>3. CASE k < Len(q)
  <2> DEFINE a == Later(q[k + 1], -d)
             b == SubSeq(q, k + 2, Len(q))
  <2>0. k + 1 \in 1..Len(q) /\ k + 2 \in 1..Len(q) + 1
    BY <1>1, <1>3
  <2>1. a \in Node
    <3>1. q[k + 1] \in Node /\ q[k + 1].t \in Nat /\ -d \in Int /\ q[k + 1].t + (-d) >= 0
      BY <1>1, <1>3, <2>0
    <3> QED
      BY <3>1, LaterNode
  <2>2. b \in Seq(Node) /\ Len(b) = Len(q) - (k + 1)
        /\ \A j \in 1..Len(q) - (k + 1) : b[j] = q[k + 1 + j]
    <3>1. \A i \in k + 2..Len(q) : q[i] \in Node
      BY <1>1, <2>0
    <3>2. Len(b) = IF k + 2 <= Len(q) THEN Len(q) - (k + 2) + 1 ELSE 0
      BY <1>1, <2>0, <3>1, SubSeqProperties
    <3>3. b \in Seq(Node) /\ \A j \in 1..Len(q) - (k + 2) + 1 : b[j] = q[(k + 2) + j - 1]
      BY <1>1, <2>0, <3>1, SubSeqProperties
    <3>4. \A j \in 1..Len(q) - (k + 1) :
             j \in 1..Len(q) - (k + 2) + 1 /\ (k + 2) + j - 1 = k + 1 + j
      BY <1>1, <2>0
    <3> QED
      BY <1>1, <2>0, <3>2, <3>3, <3>4
  <2>3. Behind(q, k, d) = <<a>> \o b
    BY <1>1, <1>3 DEF Behind
  <2> HIDE DEF a, b
  <2>4. <<a>> \in Seq(Node) /\ Len(<<a>>) = 1 /\ <<a>>[1] = a
    BY <2>1
  <2>5. /\ <<a>> \o b \in Seq(Node) /\ Len(<<a>> \o b) = 1 + Len(b)
        /\ \A j \in 1..1 + Len(b) : (<<a>> \o b)[j] = IF j <= 1 THEN <<a>>[j] ELSE b[j - 1]
    BY <2>2, <2>4, ConcatProperties
  <2>6. ASSUME NEW j \in 2..Len(q) - k PROVE (<<a>> \o b)[j] = q[k + j]
    <3>1. j - 1 \in 1..Len(q) - (k + 1) /\ k + 1 + (j - 1) = k + j /\ ~(j <= 1)
          /\ j \in 1..1 + Len(b)
      BY <1>1, <2>0, <2>2
    <3>2. b[j - 1] = q[k + 1 + (j - 1)]
      BY <2>2, <3>1
    <3> QED
      BY <2>5, <3>1, <3>2
  <2>7. (<<a>> \o b)[1] = a
    <3>1. 1 \in 1..1 + Len(b)
      BY <1>1, <2>0, <2>2
    <3> QED
      BY <2>4, <2>5, <3>1
  <2> QED
    BY <1>1, <2>0, <2>2, <2>3, <2>5, <2>6, <2>7 DEF a
<1> QED
  BY <1>1, <1>2, <1>3

LEMMA ThreeParts ==
    ASSUME NEW S, NEW a \in Seq(S), NEW x \in S, NEW b \in Seq(S)
    PROVE  /\ a \o <<x>> \o b \in Seq(S)
           /\ Len(a \o <<x>> \o b) = Len(a) + 1 + Len(b)
           /\ \A j \in 1..Len(a) : (a \o <<x>> \o b)[j] = a[j]
           /\ (a \o <<x>> \o b)[Len(a) + 1] = x
           /\ \A j \in 1..Len(b) : (a \o <<x>> \o b)[Len(a) + 1 + j] = b[j]
<1>1. Len(a) \in Nat /\ Len(b) \in Nat
  BY LenProperties
<1>2. <<x>> \in Seq(S) /\ Len(<<x>>) = 1 /\ <<x>>[1] = x
  OBVIOUS
<1> DEFINE c == a \o <<x>>
<1>3. /\ c \in Seq(S) /\ Len(c) = Len(a) + 1
      /\ \A j \in 1..Len(a) + 1 : c[j] = IF j <= Len(a) THEN a[j] ELSE <<x>>[j - Len(a)]
  BY <1>2, ConcatProperties
<1>4. /\ \A j \in 1..Len(a) : c[j] = a[j]
      /\ c[Len(a) + 1] = x
  <2>1. \A j \in 1..Len(a) : j <= Len(a) /\ j \in 1..Len(a) + 1
    BY <1>1
  <2>2. Len(a) + 1 \in 1..Len(a) + 1 /\ ~(Len(a) + 1 <= Len(a)) /\ (Len(a) + 1) - Len(a) = 1
    BY <1>1
  <2> HIDE DEF c
  <2> QED
    BY <1>2, <1>3, <2>1, <2>2
<1> HIDE DEF c
<1>5. /\ c \o b \in Seq(S) /\ Len(c \o b) = Len(c) + Len(b)
      /\ \A j \in 1..Len(c) + Len(b) : (c \o b)[j] = IF j <= Len(c) THEN c[j] ELSE b[j - Len(c)]
  <2>1. c \in Seq(S)
    BY <1>3
  <2> QED
    BY <2>1, ConcatProperties
<1>6. ASSUME NEW j \in 1..Len(a) PROVE (c \o b)[j] = a[j]
  <2>1. j \in 1..Len(c) + Len(b) /\ j <= Len(c)
    BY <1>1, <1>3
  <2> QED
    BY <1>4, <1>5, <2>1
<1>7. (c \o b)[Len(a) + 1] = x
  <2>1. Len(a) + 1 \in 1..Len(c) + Len(b) /\ Len(a) + 1 <= Len(c)
    BY <1>1, <1>3
  <2> QED
    BY <1>4, <1>5, <2>1
<1>8. ASSUME NEW j \in 1..Len(b) PROVE (c \o b)[Len(a) + 1 + j] = b[j]
  <2>1. /\ Len(a) + 1 + j \in 1..Len(c) + Len(b) /\ ~(Len(a) + 1 + j <= Len(c))
        /\ Len(a) + 1 + j - Len(c) = j
    BY <1>1, <1>3
  <2> QED
    BY <1>5, <2>1
<1> QED
  BY <1>3, <1>5, <1>6, <1>7, <1>8 DEF c

(* Where coap_insert_node puts a node n, and what it changes of the others. *)
LEMMA InsertShape ==
    ASSUME NEW q \in Seq(Node), NEW n \in Node
    PROVE  \E k \in 0..Len(q) :
             LET r == InsertNode(q, n)
                 d == n.t - DueAt(q, k)
             IN  /\ d \in Nat
                 /\ r \in Seq(Node) /\ Len(r) = Len(q) + 1
                 /\ \A j \in 1..k : r[j] = q[j]
                 /\ r[k + 1] = Later(n, -DueAt(q, k))
                 /\ k < Len(q) => /\ d <= q[k + 1].t
                                  /\ r[k + 2] = Later(q[k + 1], -d)
                 /\ \A j \in k + 2..Len(q) : r[j + 1] = q[j]
<1> DEFINE k == Position(q, n.t)
           a == SubSeq(q, 1, k)
           new == Later(n, -DueAt(q, k))
           d == n.t - DueAt(q, k)
           b == Behind(q, k, d)
<1>1. /\ Len(q) \in Nat /\ n.t \in Nat
      /\ \A i \in 1..Len(q) : q[i] \in Node /\ q[i].t \in Nat
  BY NodeFields DEF Node
<1>2. k \in 0..Len(q) /\ \A i \in 1..Len(q) : DueAt(q, i) <= n.t <=> i <= k
  BY <1>1, PositionProperties
<1>3. DueAt(q, k) \in Nat /\ d \in Nat
  <2>1. DueAt(q, k) \in Nat
    BY <1>2, DueSteps
  <2>2. DueAt(q, k) <= n.t
    <3>1. CASE k = 0
      BY <1>1, <3>1, DueSteps
    <3>2. CASE k # 0
      <4>1. k \in 1..Len(q) /\ k <= k
        BY <1>1, <1>2, <3>2
      <4> QED
        BY <1>2, <4>1
    <3> QED
      BY <3>1, <3>2
  <2> QED
    BY <1>1, <2>1, <2>2
<1>4. k < Len(q) => d <= q[k + 1].t
  <2> SUFFICES ASSUME k < Len(q) PROVE d <= q[k + 1].t
    OBVIOUS
  <2>1. k + 1 \in 1..Len(q) /\ ~(k + 1 <= k) /\ (k + 1) - 1 = k
    BY <1>1, <1>2
  <2>2. ~(DueAt(q, k + 1) <= n.t) /\ DueAt(q, k + 1) = DueAt(q, k) + q[k + 1].t
    BY <1>2, <2>1, DueSteps
  <2>3. q[k + 1].t \in Nat
    BY <1>1, <2>1
  <2> HIDE DEF k
  <2> QED
    BY <1>1, <1>3, <2>2, <2>3
<1>5. new \in Node /\ new.t = d
  <2>1. -DueAt(q, k) \in Int /\ n.t + (-DueAt(q, k)) = d /\ d >= 0
    BY <1>1, <1>3
  <2> HIDE DEF d, k
  <2> QED
    BY <2>1, LaterNode
<1>6. a \in Seq(Node) /\ Len(a) = k /\ \A j \in 1..k : a[j] = q[j]
  <2>1. \A i \in 1..k : q[i] \in Node
    BY <1>1, <1>2
  <2>2. 1 \in 1..Len(q) + 1 /\ k \in 0..Len(q) /\ Len(q) \in Nat
    BY <1>1, <1>2
  <2> HIDE DEF k
  <2>3. a \in Seq(Node) /\ Len(a) = IF 1 <= k THEN k - 1 + 1 ELSE 0
    BY <2>1, <2>2, SubSeqProperties
  <2>4. \A j \in 1..k - 1 + 1 : a[j] = q[1 + j - 1]
    BY <2>1, <2>2, SubSeqProperties
  <2>5. \A j \in 1..k : j \in 1..k - 1 + 1 /\ 1 + j - 1 = j
    BY <2>2
  <2> HIDE DEF a
  <2> QED
    BY <2>2, <2>3, <2>4, <2>5
<1>7. /\ b \in Seq(Node) /\ Len(b) = Len(q) - k
      /\ k < Len(q) => b[1] = Later(q[k + 1], -d)
      /\ \A j \in 2..Len(q) - k : b[j] = q[k + j]
  <2> HIDE DEF k, d
  <2> QED
    BY <1>2, <1>3, <1>4, BehindProperties
<1>8. InsertNode(q, n) = a \o <<new>> \o b
  BY <1>5 DEF InsertNode, Behind
<1> HIDE DEF k, a, new, d, b
<1> DEFINE r == InsertNode(q, n)
<1>9. /\ r \in Seq(Node) /\ Len(r) = Len(q) + 1
      /\ \A j \in 1..k : r[j] = q[j]
      /\ r[k + 1] = new
      /\ \A j \in 1..Len(q) - k : r[k + 1 + j] = b[j]
  <2>1. /\ a \o <<new>> \o b \in Seq(Node)
        /\ Len(a \o <<new>> \o b) = Len(a) + 1 + Len(b)
        /\ \A j \in 1..Len(a) : (a \o <<new>> \o b)[j] = a[j]
        /\ (a \o <<new>> \o b)[Len(a) + 1] = new
        /\ \A j \in 1..Len(b) : (a \o <<new>> \o b)[Len(a) + 1 + j] = b[j]
    <3>1. a \in Seq(Node) /\ new \in Node /\ b \in Seq(Node)
      BY <1>5, <1>6, <1>7
    <3> QED
      BY <3>1, ThreeParts
  <2>2. k + 1 + (Len(q) - k) = Len(q) + 1
    BY <1>1, <1>2
  <2> QED
    BY <1>6, <1>7, <1>8, <2>1, <2>2
<1> HIDE DEF r
<1>10. k < Len(q) => r[k + 2] = Later(q[k + 1], -d)
  <2> SUFFICES ASSUME k < Len(q) PROVE r[k + 2] = Later(q[k + 1], -d)
    OBVIOUS
  <2>1. 1 \in 1..Len(q) - k /\ k + 1 + 1 = k + 2
    BY <1>1, <1>2
  <2> QED
    BY <1>7, <1>9, <2>1
<1>11. ASSUME NEW j \in k + 2..Len(q) PROVE r[j + 1] = q[j]
  <2>1. /\ j - k \in 1..Len(q) - k /\ j - k \in 2..Len(q) - k
        /\ k + 1 + (j - k) = j + 1 /\ k + (j - k) = j
    BY <1>1, <1>2
  <2> QED
    BY <1>7, <1>9, <2>1
<1>12. /\ d \in Nat
       /\ r \in Seq(Node) /\ Len(r) = Len(q) + 1
       /\ \A j \in 1..k : r[j] = q[j]
       /\ r[k + 1] = Later(n, -DueAt(q, k))
       /\ k < Len(q) => /\ d <= q[k + 1].t
                        /\ r[k + 2] = Later(q[k + 1], -d)
       /\ \A j \in k + 2..Len(q) : r[j + 1] = q[j]
  BY <1>3, <1>4, <1>9, <1>10, <1>11 DEF new
<1> QED
  BY <1>2, <1>12 DEF d, r

(* What the rest of the system sees of a queue: which messages wait in it,
   since how many transmissions, and when each is due.                     *)
Entry(q, i) == [mid |-> q[i].mid, cnt |-> q[i].cnt, timeout |-> q[i].timeout,
                due |-> DueAt(q, i)]
Entries(q) == {Entry(q, i) : i \in 1..Len(q)}
NewEntry(n, due) == [mid |-> n.mid, cnt |-> n.cnt, timeout |-> n.timeout, due |-> due]

(* No message waits twice.                                                 *)
Apart(q) == \A i, j \in 1..Len(q) : q[i].mid = q[j].mid => i = j

(* The nodes of r are those of q, in order, with n as the (k+1)-th.         *)
WithOne(q, n, k, r) ==
    /\ k \in 0..Len(q) /\ Len(r) = Len(q) + 1
    /\ \A j \in 1..k : Entry(r, j) = Entry(q, j)
    /\ Entry(r, k + 1) = NewEntry(n, n.t)
    /\ \A j \in k + 1..Len(q) : Entry(r, j + 1) = Entry(q, j)

LEMMA InsertEntries ==
    ASSUME NEW q \in Seq(Node), NEW n \in Node
    PROVE  /\ InsertNode(q, n) \in Seq(Node)
           /\ \E k : WithOne(q, n, k, InsertNode(q, n))
<1> DEFINE r == InsertNode(q, n)
<1>1. PICK k \in 0..Len(q) :
         LET d == n.t - DueAt(q, k)
         IN  /\ d \in Nat
             /\ r \in Seq(Node) /\ Len(r) = Len(q) + 1
             /\ \A j \in 1..k : r[j] = q[j]
             /\ r[k + 1] = Later(n, -DueAt(q, k))
             /\ k < Len(q) => /\ d <= q[k + 1].t
                              /\ r[k + 2] = Later(q[k + 1], -d)
             /\ \A j \in k + 2..Len(q) : r[j + 1] = q[j]
  BY InsertShape
<1> DEFINE d == n.t - DueAt(q, k)
<1>2. /\ Len(q) \in Nat /\ n.t \in Nat /\ d \in Nat /\ DueAt(q, k) \in Nat
      /\ \A i \in 1..Len(q) : q[i] \in Node /\ q[i].t \in Nat
      /\ r \in Seq(Node) /\ Len(r) = Len(q) + 1
  BY <1>1, NodeFields, DueSteps DEF Node
<1>b. k < Len(q) => d <= q[k + 1].t /\ r[k + 2] = Later(q[k + 1], -d)
  BY <1>1
<1> HIDE DEF r
<1>3. \A j \in 0..k : DueAt(r, j) = DueAt(q, j)
  <2>1. SameTimes(q, 0, r, 0, k)
    <3>1. \A j \in 1..k : q[0 + j].t = r[0 + j].t
      <4>1. \A j \in 1..k : 0 + j = j
        BY <1>2
      <4> QED
        BY <1>1, <4>1
    <3>2. /\ 0 \in 0..Len(q) /\ 0 + k <= Len(q) /\ 0 \in 0..Len(r) /\ 0 + k <= Len(r)
          /\ k \in Nat
      BY <1>2
    <3> QED
      BY <1>2, <3>1, <3>2 DEF SameTimes
  <2>2. \A j \in 0..k : DueAt(q, 0 + j) - DueAt(q, 0) = DueAt(r, 0 + j) - DueAt(r, 0)
    BY <2>1, DueAlike
  <2>3. ASSUME NEW j \in 0..k PROVE DueAt(r, j) = DueAt(q, j)
    <3>1. j \in 0..Len(q) /\ j \in 0..Len(r) /\ 0 + j = j
      BY <1>2
    <3>2. DueAt(q, j) \in Nat /\ DueAt(r, j) \in Nat /\ DueAt(q, 0) = 0 /\ DueAt(r, 0) = 0
      BY <1>2, <3>1, DueSteps
    <3> QED
      BY <2>2, <3>1, <3>2
  <2> QED
    BY <2>3
<1>4. /\ r[k + 1] = Later(n, -DueAt(q, k))
      /\ r[k + 1].t = d /\ r[k + 1].mid = n.mid
      /\ r[k + 1].cnt = n.cnt /\ r[k + 1].timeout = n.timeout
  <2>1. -DueAt(q, k) \in Int /\ n.t + (-DueAt(q, k)) = d /\ d >= 0
    BY <1>2
  <2> HIDE DEF d
  <2> QED
    BY <1>1, <2>1, LaterNode
<1>5. DueAt(r, k + 1) = n.t
  <2>1. k + 1 \in 1..Len(r) /\ (k + 1) - 1 = k
    BY <1>2
  <2>2. DueAt(r, k + 1) = DueAt(r, k) + d
    BY <1>2, <1>4, <2>1, DueSteps
  <2>3. k \in 0..k
    BY <1>2
  <2> QED
    BY <1>2, <1>3, <2>2, <2>3
<1>6. ASSUME k < Len(q)
      PROVE  /\ r[k + 2].mid = q[k + 1].mid /\ r[k + 2].cnt = q[k + 1].cnt
             /\ r[k + 2].timeout = q[k + 1].timeout
             /\ DueAt(r, k + 2) = DueAt(q, k + 1)
  <2>1. /\ k + 1 \in 1..Len(q) /\ (k + 1) - 1 = k
        /\ k + 2 \in 1..Len(r) /\ (k + 2) - 1 = k + 1
    BY <1>2, <1>6
  <2>2. /\ q[k + 1] \in Node /\ q[k + 1].t \in Nat /\ -d \in Int
        /\ q[k + 1].t + (-d) >= 0 /\ r[k + 2] = Later(q[k + 1], -d)
    <3> HIDE DEF d
    <3>1. d <= q[k + 1].t /\ r[k + 2] = Later(q[k + 1], -d)
      BY <1>b, <1>6
    <3>2. d \in Nat /\ q[k + 1] \in Node /\ q[k + 1].t \in Nat
      BY <1>2, <2>1
    <3> QED
      BY <3>1, <3>2
  <2> HIDE DEF d
  <2>3. /\ r[k + 2].t = q[k + 1].t + (-d)
        /\ r[k + 2].mid = q[k + 1].mid /\ r[k + 2].cnt = q[k + 1].cnt
        /\ r[k + 2].timeout = q[k + 1].timeout
    BY <2>2, LaterNode
  <2>4. DueAt(r, k + 2) = n.t + (q[k + 1].t + (-d))
    BY <1>2, <1>5, <2>1, <2>3, DueSteps
  <2>5. DueAt(q, k + 1) = DueAt(q, k) + q[k + 1].t
    BY <2>1, DueSteps
  <2>6. d = n.t - DueAt(q, k)
    BY DEF d
  <2>7. n.t \in Nat /\ DueAt(q, k) \in Nat /\ q[k + 1].t \in Nat
    BY <1>2, <2>2
  <2>8. n.t + (q[k + 1].t + (-(n.t - DueAt(q, k)))) = DueAt(q, k) + q[k + 1].t
    BY <2>7
  <2>9. DueAt(r, k + 2) = DueAt(q, k + 1)
    BY <2>4, <2>5, <2>6, <2>8
  <2> QED
    BY <2>3, <2>9
<1>7. ASSUME k < Len(q), NEW j \in k + 1..Len(q) PROVE DueAt(r, j + 1) = DueAt(q, j)
  <2> DEFINE l == Len(q) - (k + 1)
  <2>1. SameTimes(q, k + 1, r, k + 2, l)
    <3>1. ASSUME NEW i \in 1..l PROVE q[(k + 1) + i].t = r[(k + 2) + i].t
      <4>1. (k + 1) + i \in k + 2..Len(q) /\ ((k + 1) + i) + 1 = (k + 2) + i
        BY <1>2
      <4> QED
        BY <1>1, <4>1
    <3>2. /\ k + 1 \in 0..Len(q) /\ (k + 1) + l <= Len(q)
          /\ k + 2 \in 0..Len(r) /\ (k + 2) + l <= Len(r) /\ l \in Nat
      BY <1>2, <1>7, SMTT(30)
    <3> HIDE DEF l
    <3> QED
      BY <1>2, <3>1, <3>2 DEF SameTimes
  <2>2. \A i \in 0..l : DueAt(q, (k + 1) + i) - DueAt(q, k + 1)
                        = DueAt(r, (k + 2) + i) - DueAt(r, k + 2)
    <3> HIDE DEF l
    <3> QED
      BY <2>1, DueAlike
  <2>3. /\ j - (k + 1) \in 0..l /\ (k + 1) + (j - (k + 1)) = j
        /\ (k + 2) + (j - (k + 1)) = j + 1
        /\ j \in 0..Len(q) /\ j + 1 \in 0..Len(r) /\ k + 1 \in 0..Len(q)
    <3>1. Len(q) \in Nat /\ Len(r) = Len(q) + 1 /\ k \in Nat /\ j \in Int
          /\ k + 1 <= j /\ j <= Len(q)
      BY <1>2, <1>7
    <3> DEFINE m == Len(q)
               M == Len(r)
    <3>2. m \in Nat /\ M = m + 1 /\ l = m - (k + 1)
      BY <3>1
    <3> HIDE DEF l, m, M
    <3>3. j <= m
      BY <3>1 DEF m
    <3>4. /\ j - (k + 1) \in 0..l /\ (k + 1) + (j - (k + 1)) = j
          /\ (k + 2) + (j - (k + 1)) = j + 1
      BY ONLY <3>1, <3>2, <3>3
    <3>5. j \in 0..m /\ j + 1 \in 0..M /\ k + 1 \in 0..m
      BY ONLY <3>1, <3>2, <3>3
    <3> QED
      BY <3>4, <3>5 DEF m, M
  <2>4. DueAt(q, j) - DueAt(q, k + 1) = DueAt(r, j + 1) - DueAt(r, k + 2)
    BY <2>2, <2>3
  <2>5. DueAt(q, j) \in Nat /\ DueAt(q, k + 1) \in Nat /\ DueAt(r, j + 1) \in Nat
    BY <1>2, <2>3, DueSteps
  <2> QED
    BY <1>6, <1>7, <2>4, <2>5
<1>8. ASSUME NEW j \in 1..k PROVE Entry(r, j) = Entry(q, j)
  <2>1. j \in 0..k
    OBVIOUS
  <2> QED
    BY <1>1, <1>3, <2>1 DEF Entry, r
<1>9. Entry(r, k + 1) = NewEntry(n, n.t)
  BY <1>4, <1>5 DEF Entry, NewEntry
<1>10. ASSUME NEW j \in k + 1..Len(q) PROVE Entry(r, j + 1) = Entry(q, j)
  <2>0. k < Len(q)
    BY <1>2
  <2>1. DueAt(r, j + 1) = DueAt(q, j)
    BY <1>7, <2>0
  <2>2. CASE j = k + 1
    <3>1. j + 1 = k + 2
      BY <1>2, <2>2
    <3>2. /\ r[j + 1].mid = q[j].mid /\ r[j + 1].cnt = q[j].cnt
          /\ r[j + 1].timeout = q[j].timeout
      BY <1>6, <2>0, <2>2, <3>1
    <3> QED
      BY <2>1, <3>2 DEF Entry
  <2>3. CASE j # k + 1
    <3>1. j \in k + 2..Len(q)
      BY <1>2, <2>3
    <3>2. r[j + 1] = q[j]
      BY <1>1, <3>1 DEF r
    <3> QED
      BY <2>1, <3>2 DEF Entry
  <2> QED
    BY <2>2, <2>3
<1>11. WithOne(q, n, k, r)
  BY <1>2, <1>8, <1>9, <1>10 DEF WithOne
<1> QED
  BY <1>2, <1>11 DEF r

-----------------------------------------------------------------------------
(* Taking a node out of the queue                                          *)

LEMMA RemoveShape ==
    ASSUME NEW S, NEW s \in Seq(S), NEW i \in 1..Len(s)
    PROVE  /\ RemoveAt(s, i) \in Seq(S) /\ Len(RemoveAt(s, i)) = Len(s) - 1
           /\ \A j \in 1..i - 1 : RemoveAt(s, i)[j] = s[j]
           /\ \A j \in i..Len(s) - 1 : RemoveAt(s, i)[j] = s[j + 1]
<1> DEFINE a == SubSeq(s, 1, i - 1)
           b == SubSeq(s, i + 1, Len(s))
<1>1. Len(s) \in Nat /\ i \in Nat /\ \A j \in 1..Len(s) : s[j] \in S
  BY LenProperties, ElementOfSeq
<1>2. a \in Seq(S) /\ Len(a) = i - 1 /\ \A j \in 1..i - 1 : a[j] = s[j]
  <2>1. \A j \in 1..i - 1 : s[j] \in S
    BY <1>1
  <2>2. 1 \in 1..Len(s) + 1 /\ i - 1 \in 0..Len(s)
    BY <1>1
  <2>3. a \in Seq(S) /\ Len(a) = IF 1 <= i - 1 THEN (i - 1) - 1 + 1 ELSE 0
    BY <2>1, <2>2, SubSeqProperties
  <2>4. \A j \in 1..(i - 1) - 1 + 1 : a[j] = s[1 + j - 1]
    BY <2>1, <2>2, SubSeqProperties
  <2>5. \A j \in 1..i - 1 : j \in 1..(i - 1) - 1 + 1 /\ 1 + j - 1 = j
    BY <1>1
  <2> HIDE DEF a
  <2> QED
    BY <1>1, <2>3, <2>4, <2>5
<1>3. b \in Seq(S) /\ Len(b) = Len(s) - i /\ \A j \in 1..Len(s) - i : b[j] = s[i + j]
  <2>1. \A j \in i + 1..Len(s) : s[j] \in S
    BY <1>1
  <2>2. i + 1 \in 1..Len(s) + 1 /\ Len(s) \in 0..Len(s)
    BY <1>1
  <2>3. b \in Seq(S) /\ Len(b) = IF i + 1 <= Len(s) THEN Len(s) - (i + 1) + 1 ELSE 0
    BY <2>1, <2>2, SubSeqProperties
  <2>4. \A j \in 1..Len(s) - (i + 1) + 1 : b[j] = s[(i + 1) + j - 1]
    BY <2>1, <2>2, SubSeqProperties
  <2>5. \A j \in 1..Len(s) - i : j \in 1..Len(s) - (i + 1) + 1 /\ (i + 1) + j - 1 = i + j
    BY <1>1
  <2> HIDE DEF b
  <2> QED
    BY <1>1, <2>3, <2>4, <2>5
<1>4. RemoveAt(s, i) = a \o b
  BY DEF RemoveAt
<1> HIDE DEF a, b
<1>5. /\ a \o b \in Seq(S) /\ Len(a \o b) = Len(a) + Len(b)
      /\ \A j \in 1..Len(a) + Len(b) : (a \o b)[j] = IF j <= Len(a) THEN a[j] ELSE b[j - Len(a)]
  <2>1. a \in Seq(S) /\ b \in Seq(S)
    BY <1>2, <1>3
  <2> QED
    BY <2>1, ConcatProperties
<1>6. ASSUME NEW j \in 1..i - 1 PROVE (a \o b)[j] = s[j]
  <2>1. j \in 1..Len(a) + Len(b) /\ j <= Len(a)
    BY <1>1, <1>2, <1>3
  <2> QED
    BY <1>2, <1>5, <2>1
<1>7. ASSUME NEW j \in i..Len(s) - 1 PROVE (a \o b)[j] = s[j + 1]
  <2>1. /\ j \in 1..Len(a) + Len(b) /\ ~(j <= Len(a)) /\ j - Len(a) = j - (i - 1)
        /\ j - (i - 1) \in 1..Len(s) - i /\ i + (j - (i - 1)) = j + 1
    BY <1>1, <1>2, <1>3
  <2> QED
    BY <1>3, <1>5, <2>1
<1>8. Len(a) + Len(b) = Len(s) - 1
  BY <1>1, <1>2, <1>3
<1> QED
  BY <1>4, <1>5, <1>6, <1>7, <1>8

(* The nodes of r are those of q, in order, but for the i-th, and those behind
   it are due d earlier than they were.                                    *)
WithoutOne(q, i, d, r) ==
    /\ Len(r) = Len(q) - 1
    /\ \A j \in 1..i - 1 : Entry(r, j) = Entry(q, j)
    /\ \A j \in i + 1..Len(q) :
          Entry(r, j - 1) = [Entry(q, j) EXCEPT !.due = @ - d]

LEMMA SameStart ==
    ASSUME NEW q \in Seq(Node), NEW r \in Seq(Node), NEW i \in Nat,
           i <= Len(q), i <= Len(r), \A j \in 1..i : r[j] = q[j]
    PROVE  /\ \A j \in 0..i : DueAt(r, j) = DueAt(q, j)
           /\ \A j \in 1..i : Entry(r, j) = Entry(q, j)
<1>1. Len(q) \in Nat /\ Len(r) \in Nat
  BY NodeFields
<1>2. SameTimes(q, 0, r, 0, i)
  <2>1. \A j \in 1..i : q[0 + j].t = r[0 + j].t
    <3>1. \A j \in 1..i : 0 + j = j
      OBVIOUS
    <3> QED
      BY <3>1
  <2>2. 0 \in 0..Len(q) /\ 0 + i <= Len(q) /\ 0 \in 0..Len(r) /\ 0 + i <= Len(r)
    BY <1>1
  <2> QED
    BY <2>1, <2>2 DEF SameTimes
<1>3. \A j \in 0..i : DueAt(q, 0 + j) - DueAt(q, 0) = DueAt(r, 0 + j) - DueAt(r, 0)
  BY <1>2, DueAlike
<1>4. ASSUME NEW j \in 0..i PROVE DueAt(r, j) = DueAt(q, j)
  <2>1. j \in 0..Len(q) /\ j \in 0..Len(r) /\ 0 + j = j
    BY <1>1
  <2>2. DueAt(q, j) \in Nat /\ DueAt(r, j) \in Nat /\ DueAt(q, 0) = 0 /\ DueAt(r, 0) = 0
    BY <2>1, DueSteps
  <2> QED
    BY <1>3, <2>1, <2>2
<1>5. ASSUME NEW j \in 1..i PROVE Entry(r, j) = Entry(q, j)
  <2>1. j \in 0..i
    OBVIOUS
  <2> QED
    BY <1>4, <2>1 DEF Entry
<1> QED
  BY <1>4, <1>5

(* Behind the i-th node of q: r has them from its own i-th on, and the first
   of them may be e later than it was.                                     *)
LEMMA SameEnd ==
    ASSUME NEW q \in Seq(Node), NEW i \in 1..Len(q), NEW r \in Seq(Node),
           Len(r) = Len(q) - 1, \A j \in 1..i - 1 : r[j] = q[j],
           NEW e \in Nat,
           i < Len(q) => r[i] = Later(q[i + 1], e),
           \A j \in i + 1..Len(q) - 1 : r[j] = q[j + 1],
           e <= q[i].t
    PROVE  WithoutOne(q, i, q[i].t - e, r)
<1> DEFINE d == q[i].t - e
<1>1. /\ Len(q) \in Nat /\ Len(r) \in Nat /\ i \in Nat
      /\ \A j \in 1..Len(q) : q[j] \in Node /\ q[j].t \in Nat
      /\ d \in Nat
  <2>1. /\ Len(q) \in Nat /\ Len(r) \in Nat /\ i \in Nat
        /\ \A j \in 1..Len(q) : q[j] \in Node /\ q[j].t \in Nat
    BY NodeFields
  <2> DEFINE x == q[i].t
  <2>2. x \in Nat /\ e <= x
    BY <2>1
  <2> HIDE DEF x
  <2>3. x - e \in Nat
    BY <2>2
  <2> QED
    BY <2>1, <2>3 DEF x
<1>2. /\ \A j \in 0..i - 1 : DueAt(r, j) = DueAt(q, j)
      /\ \A j \in 1..i - 1 : Entry(r, j) = Entry(q, j)
  <2>1. i - 1 \in Nat /\ i - 1 <= Len(q) /\ i - 1 <= Len(r)
    BY <1>1
  <2> HIDE DEF d
  <2> QED
    BY <2>1, SameStart
<1>3. ASSUME i < Len(q)
      PROVE  /\ DueAt(r, i) = DueAt(q, i + 1) - d
             /\ r[i].mid = q[i + 1].mid /\ r[i].cnt = q[i + 1].cnt
             /\ r[i].timeout = q[i + 1].timeout
  <2>1. /\ i \in 1..Len(q) /\ i + 1 \in 1..Len(q) /\ i \in 1..Len(r)
        /\ (i + 1) - 1 = i /\ i - 1 \in 0..i - 1 /\ i - 1 \in 0..Len(q)
    BY <1>1, <1>3
  <2>2. /\ r[i].t = q[i + 1].t + e /\ r[i].mid = q[i + 1].mid
        /\ r[i].cnt = q[i + 1].cnt /\ r[i].timeout = q[i + 1].timeout
    <3>1. q[i + 1] \in Node /\ q[i + 1].t + e >= 0 /\ e \in Int
      <4> DEFINE z == q[i + 1].t
      <4> HIDE DEF d
      <4>1. q[i + 1] \in Node /\ z \in Nat
        BY <1>1, <2>1
      <4> HIDE DEF z
      <4>2. z + e >= 0 /\ e \in Int
        BY ONLY e \in Nat, <4>1
      <4> QED
        BY <4>1, <4>2 DEF z
    <3> QED
      BY <1>3, <3>1, LaterNode
  <2>3. DueAt(r, i) = DueAt(q, i - 1) + (q[i + 1].t + e)
    BY <1>2, <2>1, <2>2, DueSteps
  <2>4. DueAt(q, i + 1) = DueAt(q, i) + q[i + 1].t /\ DueAt(q, i) = DueAt(q, i - 1) + q[i].t
    BY <2>1, DueSteps
  <2>5. DueAt(q, i - 1) \in Nat /\ q[i].t \in Nat /\ q[i + 1].t \in Nat
    BY <1>1, <2>1, DueSteps
  <2>6. DueAt(q, i - 1) + (q[i + 1].t + e)
        = ((DueAt(q, i - 1) + q[i].t) + q[i + 1].t) - (q[i].t - e)
    <3> DEFINE x == DueAt(q, i - 1)
               y == q[i].t
               z == q[i + 1].t
    <3>1. x \in Nat /\ y \in Nat /\ z \in Nat
      BY <2>5
    <3> HIDE DEF x, y, z, d
    <3>2. x + (z + e) = ((x + y) + z) - (y - e)
      BY ONLY e \in Nat, <3>1
    <3> QED
      BY ONLY <3>2 DEF x, y, z
  <2> QED
    BY <2>2, <2>3, <2>4, <2>6
<1>4. ASSUME NEW j \in i + 1..Len(q)
      PROVE  DueAt(r, j - 1) = DueAt(q, j) - d
  <2> DEFINE l == Len(q) - (i + 1)
  <2>1. SameTimes(q, i + 1, r, i, l)
    <3>1. ASSUME NEW h \in 1..l PROVE q[(i + 1) + h].t = r[i + h].t
      <4>1. i + h \in i + 1..Len(q) - 1 /\ (i + h) + 1 = (i + 1) + h
        <5>1. h \in 1..Len(q) - (i + 1) /\ Len(q) \in Nat /\ i \in Nat
          BY <1>1
        <5> HIDE DEF d, l
        <5> QED
          BY ONLY <5>1
      <4>2. r[i + h] = q[(i + h) + 1]
        BY <4>1
      <4> QED
        BY <4>1, <4>2
    <3>2. /\ i + 1 \in 0..Len(q) /\ (i + 1) + l <= Len(q)
          /\ i \in 0..Len(r) /\ i + l <= Len(r) /\ l \in Nat
      BY <1>1
    <3> HIDE DEF l, d
    <3> QED
      BY <3>1, <3>2 DEF SameTimes
  <2>2. \A h \in 0..l : DueAt(q, (i + 1) + h) - DueAt(q, i + 1) = DueAt(r, i + h) - DueAt(r, i)
    <3> HIDE DEF l
    <3> QED
      BY <2>1, DueAlike
  <2>3. /\ j - (i + 1) \in 0..l /\ (i + 1) + (j - (i + 1)) = j
        /\ i + (j - (i + 1)) = j - 1 /\ i < Len(q)
        /\ j \in 0..Len(q) /\ j - 1 \in 0..Len(r) /\ i + 1 \in 0..Len(q)
    <3>1. /\ Len(q) \in Nat /\ i \in 1..Len(q) /\ Len(r) = Len(q) - 1
          /\ j \in i + 1..Len(q)
      BY <1>1
    <3> QED
      BY ONLY <3>1
  <2> HIDE DEF l
  <2>4. DueAt(q, j) - DueAt(q, i + 1) = DueAt(r, j - 1) - DueAt(r, i)
    BY <2>2, <2>3
  <2>5. DueAt(q, j) \in Nat /\ DueAt(q, i + 1) \in Nat /\ DueAt(r, j - 1) \in Nat
    BY <2>3, DueSteps
  <2>6. DueAt(r, i) = DueAt(q, i + 1) - d
    BY <1>3, <2>3
  <2> HIDE DEF d
  <2>7. \A w, x, y \in Nat : w - x = y - (x - d) => y = w - d
    BY <1>1
  <2> QED
    BY <2>4, <2>5, <2>6, <2>7
<1>5. ASSUME NEW j \in i + 1..Len(q)
      PROVE  Entry(r, j - 1) = [Entry(q, j) EXCEPT !.due = @ - d]
  <2>1. /\ r[j - 1].mid = q[j].mid /\ r[j - 1].cnt = q[j].cnt
        /\ r[j - 1].timeout = q[j].timeout
    <3>1. CASE j = i + 1
      <4>1. j - 1 = i /\ i < Len(q)
        BY <1>1, <3>1
      <4> QED
        BY <1>3, <3>1, <4>1
    <3>2. CASE j # i + 1
      <4>1. j - 1 \in i + 1..Len(q) - 1 /\ (j - 1) + 1 = j
        BY <1>1, <3>2
      <4>2. r[j - 1] = q[j]
        BY <4>1
      <4> QED
        BY <4>2
    <3> QED
      BY <3>1, <3>2
  <2>2. DueAt(r, j - 1) = DueAt(q, j) - d
    BY <1>4
  <2> HIDE DEF d
  <2> QED
    BY <2>1, <2>2 DEF Entry
<1> QED
  BY <1>2, <1>5 DEF WithoutOne

-----------------------------------------------------------------------------
(* What the messages see of it: a message has one place in the queue       *)

LEMMA PlaceOf ==
    ASSUME NEW q \in Seq(Node), NEW x \in Mids(q)
    PROVE  Index(q, x) \in 1..Len(q) /\ q[Index(q, x)].mid = x
BY DEF Mids, Index

LEMMA OnePlace ==
    ASSUME NEW q \in Seq(Node), Apart(q), NEW i \in 1..Len(q)
    PROVE  q[i].mid \in Mids(q) /\ Index(q, q[i].mid) = i
<1>1. q[i].mid \in Mids(q)
  BY DEF Mids
<1>2. Index(q, q[i].mid) \in 1..Len(q) /\ q[Index(q, q[i].mid)].mid = q[i].mid
  BY <1>1, PlaceOf
<1> QED
  BY <1>1, <1>2 DEF Apart

LEMMA MidsFinite ==
    ASSUME NEW q \in Seq(Node)
    PROVE  IsFiniteSet(Mids(q)) /\ Mids(q) \subseteq Messages
<1> DEFINE f == [i \in 1..Len(q) |-> q[i].mid]
<1>1. Len(q) \in Nat /\ \A i \in 1..Len(q) : q[i].mid \in Messages
  BY NodeFields
<1>2. f \in Surjection(1..Len(q), Mids(q))
  BY DEF Surjection, Mids
<1>3. IsFiniteSet(1..Len(q))
  BY <1>1, FS_Interval
<1>4. IsFiniteSet(Mids(q))
  <2> HIDE DEF f
  <2> QED
    BY <1>2, <1>3, FS_Surjection
<1> QED
  BY <1>1, <1>4 DEF Mids

LEMMA CountOnce ==
    ASSUME NEW q \in Seq(Node), Apart(q), NEW m
    PROVE  Cardinality({i \in 1..Len(q) : q[i].mid = m}) = IF m \in Mids(q) THEN 1 ELSE 0
<1>1. CASE m \in Mids(q)
  <2>1. Index(q, m) \in 1..Len(q) /\ q[Index(q, m)].mid = m
    BY <1>1, PlaceOf
  <2>2. {i \in 1..Len(q) : q[i].mid = m} = {Index(q, m)}
    BY <2>1 DEF Apart
  <2> QED
    BY <1>1, <2>2, FS_Singleton
<1>2. CASE m \notin Mids(q)
  <2>1. {i \in 1..Len(q) : q[i].mid = m} = {}
    BY <1>2 DEF Mids
  <2> QED
    BY <1>2, <2>1, FS_EmptySet
<1> QED
  BY <1>1, <1>2

(* The entry of message x.                                                 *)
At(q, x) == Entry(q, Index(q, x))

LEMMA OneMore ==
    ASSUME NEW q \in Seq(Node), NEW n \in Node, Apart(q), n.mid \notin Mids(q),
           NEW r \in Seq(Node), NEW k, WithOne(q, n, k, r)
    PROVE  /\ Apart(r)
           /\ Mids(r) = Mids(q) \cup {n.mid}
           /\ \A x \in Mids(q) : At(r, x) = At(q, x)
           /\ At(r, n.mid) = NewEntry(n, n.t)
<1> DEFINE at(j) == IF j <= k THEN j ELSE j + 1
<1>1. /\ Len(q) \in Nat /\ k \in 0..Len(q) /\ Len(r) = Len(q) + 1
      /\ \A j \in 1..k : Entry(r, j) = Entry(q, j)
      /\ Entry(r, k + 1) = NewEntry(n, n.t)
      /\ \A j \in k + 1..Len(q) : Entry(r, j + 1) = Entry(q, j)
  BY NodeFields DEF WithOne
<1>2. \A j \in 1..Len(q) : /\ at(j) \in 1..Len(r) /\ at(j) # k + 1
                           /\ Entry(r, at(j)) = Entry(q, j)
  <2> SUFFICES ASSUME NEW j \in 1..Len(q)
               PROVE  /\ at(j) \in 1..Len(r) /\ at(j) # k + 1
                      /\ Entry(r, at(j)) = Entry(q, j)
    OBVIOUS
  <2>1. CASE j <= k
    BY <1>1, <2>1
  <2>2. CASE ~(j <= k)
    <3>1. j \in k + 1..Len(q)
      BY <1>1, <2>2
    <3> QED
      BY <1>1, <2>2, <3>1
  <2> QED
    BY <2>1, <2>2
<1>3. \A i \in 1..Len(r) : i # k + 1 => \E j \in 1..Len(q) : i = at(j)
  <2> SUFFICES ASSUME NEW i \in 1..Len(r), i # k + 1
               PROVE  \E j \in 1..Len(q) : i = at(j)
    OBVIOUS
  <2>1. CASE i <= k
    BY <1>1, <2>1
  <2>2. CASE i > k
    <3>1. i - 1 \in 1..Len(q) /\ ~(i - 1 <= k) /\ (i - 1) + 1 = i
      BY <1>1, <2>2
    <3> QED
      BY <3>1
  <2> QED
    BY <1>1, <2>1, <2>2
<1> HIDE DEF at
<1>4. /\ \A j \in 1..Len(q) : r[at(j)].mid = q[j].mid
      /\ r[k + 1].mid = n.mid /\ k + 1 \in 1..Len(r)
  <2>1. \A j \in 1..Len(q) : r[at(j)].mid = q[j].mid
    <3> SUFFICES ASSUME NEW j \in 1..Len(q) PROVE r[at(j)].mid = q[j].mid
      OBVIOUS
    <3>1. Entry(r, at(j)) = Entry(q, j)
      BY <1>2
    <3> QED
      BY <3>1 DEF Entry
  <2>2. r[k + 1].mid = n.mid
    BY <1>1 DEF Entry, NewEntry
  <2>3. k + 1 \in 1..Len(r)
    BY <1>1
  <2> QED
    BY <2>1, <2>2, <2>3
<1>5. \A j \in 1..Len(q) : q[j].mid # n.mid
  BY DEF Mids
<1>6. ASSUME NEW i \in 1..Len(r), NEW h \in 1..Len(r), r[i].mid = r[h].mid PROVE i = h
  <2>1. CASE i = k + 1 \/ h = k + 1
    BY <1>3, <1>4, <1>5, <1>6, <2>1
  <2>2. CASE i # k + 1 /\ h # k + 1
    <3>1. PICK a \in 1..Len(q) : i = at(a)
      BY <1>3, <2>2
    <3>2. PICK b \in 1..Len(q) : h = at(b)
      BY <1>3, <2>2
    <3>3. a = b
      BY <1>4, <1>6, <3>1, <3>2 DEF Apart
    <3> QED
      BY <3>1, <3>2, <3>3
  <2> QED
    BY <2>1, <2>2
<1>7. Apart(r)
  BY <1>6 DEF Apart
<1>8. Mids(r) = Mids(q) \cup {n.mid}
  <2>1. \A x \in Mids(r) : x \in Mids(q) \cup {n.mid}
    <3> SUFFICES ASSUME NEW i \in 1..Len(r) PROVE r[i].mid \in Mids(q) \cup {n.mid}
      BY DEF Mids
    <3> QED
      BY <1>3, <1>4 DEF Mids
  <2>2. \A j \in 1..Len(q) : q[j].mid \in Mids(r)
    BY <1>2, <1>4 DEF Mids
  <2>3. n.mid \in Mids(r)
    BY <1>4 DEF Mids
  <2> QED
    BY <2>1, <2>2, <2>3 DEF Mids
<1>9. ASSUME NEW x \in Mids(q) PROVE At(r, x) = At(q, x)
  <2>1. Index(q, x) \in 1..Len(q) /\ q[Index(q, x)].mid = x
    BY PlaceOf
  <2>2. at(Index(q, x)) \in 1..Len(r) /\ r[at(Index(q, x))].mid = x
    BY <1>2, <1>4, <2>1
  <2>3. Index(r, x) = at(Index(q, x))
    BY <1>7, <2>2, OnePlace
  <2> QED
    BY <1>2, <2>1, <2>3 DEF At
<1>10. At(r, n.mid) = NewEntry(n, n.t)
  <2>1. Index(r, n.mid) = k + 1
    BY <1>4, <1>7, OnePlace
  <2> QED
    BY <1>1, <2>1 DEF At
<1> QED
  BY <1>7, <1>8, <1>9, <1>10

LEMMA OneFewer ==
    ASSUME NEW q \in Seq(Node), Apart(q), NEW i \in 1..Len(q), NEW d \in Nat,
           NEW r \in Seq(Node), WithoutOne(q, i, d, r)
    PROVE  /\ Apart(r)
           /\ Mids(r) = Mids(q) \ {q[i].mid}
           /\ \A x \in Mids(r) : /\ At(r, x).cnt = At(q, x).cnt
                                 /\ At(r, x).timeout = At(q, x).timeout
                                 /\ At(r, x).due <= At(q, x).due
                                 /\ d = 0 \/ i = Len(q) => At(r, x).due = At(q, x).due
<1> DEFINE at(j) == IF j < i THEN j ELSE j - 1
<1>1. /\ Len(q) \in Nat /\ Len(r) = Len(q) - 1
      /\ \A j \in 1..i - 1 : Entry(r, j) = Entry(q, j)
      /\ \A j \in i + 1..Len(q) : Entry(r, j - 1) = [Entry(q, j) EXCEPT !.due = @ - d]
  BY NodeFields DEF WithoutOne
<1>2. \A j \in 1..Len(q) : j # i =>
         /\ at(j) \in 1..Len(r)
         /\ Entry(r, at(j)).mid = Entry(q, j).mid
         /\ Entry(r, at(j)).cnt = Entry(q, j).cnt
         /\ Entry(r, at(j)).timeout = Entry(q, j).timeout
         /\ Entry(r, at(j)).due = IF j < i THEN Entry(q, j).due ELSE Entry(q, j).due - d
  <2> SUFFICES ASSUME NEW j \in 1..Len(q), j # i
               PROVE  /\ at(j) \in 1..Len(r)
                      /\ Entry(r, at(j)).mid = Entry(q, j).mid
                      /\ Entry(r, at(j)).cnt = Entry(q, j).cnt
                      /\ Entry(r, at(j)).timeout = Entry(q, j).timeout
                      /\ Entry(r, at(j)).due = IF j < i THEN Entry(q, j).due
                                               ELSE Entry(q, j).due - d
    OBVIOUS
  <2>1. CASE j < i
    <3>1. j \in 1..i - 1 /\ at(j) = j /\ j \in 1..Len(r)
      BY <1>1, <2>1
    <3>2. Entry(r, at(j)) = Entry(q, j)
      BY <1>1, <3>1
    <3> QED
      BY <2>1, <3>1, <3>2
  <2>2. CASE ~(j < i)
    <3>1. j \in i + 1..Len(q) /\ at(j) = j - 1 /\ j - 1 \in 1..Len(r)
      BY <1>1, <2>2
    <3>2. Entry(r, at(j)) = [Entry(q, j) EXCEPT !.due = @ - d]
      BY <1>1, <3>1
    <3> HIDE DEF at
    <3> QED
      BY <2>2, <3>1, <3>2 DEF Entry
  <2> QED
    BY <2>1, <2>2
<1>3. \A h \in 1..Len(r) : \E j \in 1..Len(q) : j # i /\ h = at(j)
  <2> SUFFICES ASSUME NEW h \in 1..Len(r)
               PROVE  \E j \in 1..Len(q) : j # i /\ h = at(j)
    OBVIOUS
  <2>1. CASE h < i
    BY <1>1, <2>1
  <2>2. CASE ~(h < i)
    <3>1. h + 1 \in 1..Len(q) /\ h + 1 # i /\ ~(h + 1 < i) /\ (h + 1) - 1 = h
      BY <1>1, <2>2
    <3> QED
      BY <3>1
  <2> QED
    BY <2>1, <2>2
<1> HIDE DEF at
<1>4. \A j \in 1..Len(q) : j # i => r[at(j)].mid = q[j].mid
  BY <1>2 DEF Entry
<1>5. ASSUME NEW g \in 1..Len(r), NEW h \in 1..Len(r), r[g].mid = r[h].mid PROVE g = h
  <2>1. PICK a \in 1..Len(q) : a # i /\ g = at(a)
    BY <1>3
  <2>2. PICK b \in 1..Len(q) : b # i /\ h = at(b)
    BY <1>3
  <2>3. a = b
    BY <1>4, <1>5, <2>1, <2>2 DEF Apart
  <2> QED
    BY <2>1, <2>2, <2>3
<1>6. Apart(r)
  BY <1>5 DEF Apart
<1>7. Mids(r) = Mids(q) \ {q[i].mid}
  <2>1. \A h \in 1..Len(r) : r[h].mid \in Mids(q) \ {q[i].mid}
    <3> SUFFICES ASSUME NEW h \in 1..Len(r)
                 PROVE  r[h].mid \in Mids(q) \ {q[i].mid}
      OBVIOUS
    <3>1. PICK j \in 1..Len(q) : j # i /\ h = at(j)
      BY <1>3
    <3>2. r[h].mid = q[j].mid /\ q[j].mid # q[i].mid
      BY <1>4, <3>1 DEF Apart
    <3>3. q[j].mid \in Mids(q)
      BY DEF Mids
    <3> QED
      BY <3>2, <3>3
  <2>2. \A j \in 1..Len(q) : j # i => q[j].mid \in Mids(r)
    BY <1>2, <1>4 DEF Mids
  <2> QED
    BY <2>1, <2>2 DEF Mids
<1>8. ASSUME NEW x \in Mids(r)
      PROVE  /\ At(r, x).cnt = At(q, x).cnt
             /\ At(r, x).timeout = At(q, x).timeout
             /\ At(r, x).due <= At(q, x).due
             /\ d = 0 \/ i = Len(q) => At(r, x).due = At(q, x).due
  <2> DEFINE j == Index(q, x)
  <2>1. j \in 1..Len(q) /\ q[j].mid = x /\ j # i
    <3>1. x \in Mids(q) /\ x # q[i].mid
      BY <1>7
    <3> QED
      BY <3>1, PlaceOf
  <2> HIDE DEF j
  <2>2. at(j) \in 1..Len(r) /\ r[at(j)].mid = x
    BY <1>2, <1>4, <2>1
  <2>3. At(r, x) = Entry(r, at(j))
    BY <1>6, <2>2, OnePlace DEF At
  <2>4. At(q, x) = Entry(q, j)
    BY DEF At, j
  <2>5. Entry(q, j).due \in Nat
    <3>1. j \in 0..Len(q)
      BY <2>1
    <3> QED
      BY <3>1, DueSteps DEF Entry
  <2>6. Entry(r, at(j)).due = IF j < i THEN Entry(q, j).due ELSE Entry(q, j).due - d
    BY <1>2, <2>1
  <2>7. i = Len(q) => j < i
    BY <1>1, <2>1
  <2>8. /\ Entry(r, at(j)).due <= Entry(q, j).due
        /\ d = 0 \/ i = Len(q) => Entry(r, at(j)).due = Entry(q, j).due
    BY <2>5, <2>6, <2>7
  <2>9. Entry(r, at(j)).cnt = Entry(q, j).cnt /\ Entry(r, at(j)).timeout = Entry(q, j).timeout
    BY <1>2, <2>1
  <2> QED
    BY <2>3, <2>4, <2>8, <2>9
<1> QED
  BY <1>6, <1>7, <1>8

-----------------------------------------------------------------------------
(* The two ways of taking a node out                                       *)

(* coap_remove_from_queue: nothing changes for the nodes that stay.        *)
LEMMA RemoveEntries ==
    ASSUME NEW q \in Seq(Node), NEW i \in 1..Len(q)
    PROVE  /\ RemoveNode(q, i) \in Seq(Node)
           /\ WithoutOne(q, i, 0, RemoveNode(q, i))
<1> DEFINE s == [j \in 1..Len(q) |-> IF j = i + 1 THEN Later(q[j], q[i].t) ELSE q[j]]
           r == RemoveAt(s, i)
           e == q[i].t
<1>1. /\ Len(q) \in Nat /\ i \in Nat /\ e \in Nat
      /\ \A j \in 1..Len(q) : q[j] \in Node /\ q[j].t \in Nat
  BY NodeFields
<1>2. \A j \in 1..Len(q) : Later(q[j], e) \in Node
  <2> SUFFICES ASSUME NEW j \in 1..Len(q) PROVE Later(q[j], e) \in Node
    OBVIOUS
  <2> HIDE DEF e
  <2>1. q[j] \in Node /\ e \in Int /\ q[j].t + e >= 0
    BY <1>1
  <2> QED
    BY <2>1, LaterNode
<1>3. s \in Seq(Node) /\ Len(s) = Len(q)
  <2>1. \A j \in 1..Len(q) : s[j] \in Node
    BY <1>1, <1>2
  <2>2. s = [j \in 1..Len(q) |-> s[j]]
    OBVIOUS
  <2> HIDE DEF s
  <2>3. s \in [1..Len(q) -> Node]
    BY <2>1, <2>2
  <2> QED
    BY <1>1, <2>3, SeqDef, LenProperties
<1>4. /\ r \in Seq(Node) /\ Len(r) = Len(q) - 1
      /\ \A j \in 1..i - 1 : r[j] = s[j]
      /\ \A j \in i..Len(q) - 1 : r[j] = s[j + 1]
  <2> HIDE DEF s
  <2>1. s \in Seq(Node) /\ i \in 1..Len(s)
    BY <1>3
  <2> QED
    BY <1>3, <2>1, RemoveShape
<1>5. \A j \in 1..i - 1 : r[j] = q[j]
  <2> SUFFICES ASSUME NEW j \in 1..i - 1 PROVE r[j] = q[j]
    OBVIOUS
  <2>1. j \in 1..Len(q) /\ j # i + 1
    BY <1>1
  <2>2. s[j] = q[j]
    BY <2>1
  <2> HIDE DEF r, s
  <2> QED
    BY <1>4, <2>2
<1>6. i < Len(q) => r[i] = Later(q[i + 1], e)
  <2> SUFFICES ASSUME i < Len(q) PROVE r[i] = Later(q[i + 1], e)
    OBVIOUS
  <2>1. i + 1 \in 1..Len(q) /\ i \in i..Len(q) - 1
    BY <1>1
  <2>2. s[i + 1] = Later(q[i + 1], e)
    BY <2>1
  <2> HIDE DEF r, s
  <2> QED
    BY <1>4, <2>1, <2>2
<1>7. \A j \in i + 1..Len(q) - 1 : r[j] = q[j + 1]
  <2> SUFFICES ASSUME NEW j \in i + 1..Len(q) - 1 PROVE r[j] = q[j + 1]
    OBVIOUS
  <2>1. j + 1 \in 1..Len(q) /\ j + 1 # i + 1 /\ j \in i..Len(q) - 1
    BY <1>1
  <2>2. s[j + 1] = q[j + 1]
    BY <2>1
  <2> HIDE DEF r, s
  <2> QED
    BY <1>4, <2>1, <2>2
<1>8. r = RemoveNode(q, i)
  BY DEF RemoveNode
<1> HIDE DEF r, s
<1>9. WithoutOne(q, i, q[i].t - e, r)
  <2>1. e <= q[i].t
    BY <1>1
  <2> HIDE DEF e
  <2> QED
    BY <1>1, <1>4, <1>5, <1>6, <1>7, <2>1, SameEnd
<1>10. q[i].t - e = 0
  BY <1>1
<1> QED
  BY <1>4, <1>8, <1>9, <1>10

(* coap_cancel_all_messages: those behind are due earlier, by its time.    *)
LEMMA UnlinkEntries ==
    ASSUME NEW q \in Seq(Node), NEW i \in 1..Len(q)
    PROVE  /\ UnlinkNode(q, i) \in Seq(Node)
           /\ q[i].t \in Nat /\ WithoutOne(q, i, q[i].t, UnlinkNode(q, i))
<1> DEFINE r == RemoveAt(q, i)
<1>1. /\ Len(q) \in Nat /\ i \in Nat /\ q[i].t \in Nat
      /\ \A j \in 1..Len(q) : q[j] \in Node /\ q[j].t \in Nat
  BY NodeFields
<1>2. /\ r \in Seq(Node) /\ Len(r) = Len(q) - 1
      /\ \A j \in 1..i - 1 : r[j] = q[j]
      /\ \A j \in i..Len(q) - 1 : r[j] = q[j + 1]
  BY RemoveShape
<1> HIDE DEF r
<1>3. i < Len(q) => r[i] = Later(q[i + 1], 0)
  <2> SUFFICES ASSUME i < Len(q) PROVE r[i] = Later(q[i + 1], 0)
    OBVIOUS
  <2>1. i + 1 \in 1..Len(q) /\ i \in i..Len(q) - 1
    BY <1>1
  <2>2. Later(q[i + 1], 0) = q[i + 1]
    <3>1. q[i + 1].t + 0 = q[i + 1].t
      BY <1>1, <2>1
    <3> QED
      BY <1>1, <2>1, <3>1 DEF Later, Node
  <2> QED
    BY <1>2, <2>1, <2>2
<1>4. \A j \in i + 1..Len(q) - 1 : r[j] = q[j + 1]
  <2>1. \A j \in i + 1..Len(q) - 1 : j \in i..Len(q) - 1
    BY <1>1
  <2> QED
    BY <1>2, <2>1
<1>5. WithoutOne(q, i, q[i].t - 0, r)
  <2>1. 0 <= q[i].t /\ 0 \in Nat
    BY <1>1
  <2> QED
    BY <1>1, <1>2, <1>3, <1>4, <2>1, SameEnd
<1>6. q[i].t - 0 = q[i].t
  BY <1>1
<1> QED
  BY <1>1, <1>2, <1>5, <1>6 DEF UnlinkNode, r

-----------------------------------------------------------------------------
(* How long a message waits for its answer                                 *)

IsShift(n, f) ==
    f = [k \in 0..n.cnt |-> IF k = 0 THEN n.timeout ELSE 2 * f[k - 1]]

LEMMA BackoffIsNat ==
    ASSUME NEW n, n.cnt \in Nat, n.timeout \in Nat
    PROVE  Backoff(n) \in Nat
<1> DEFINE c == n.cnt
           T == n.timeout
           S == {k \in Nat : \E f : /\ f = [j \in 0..k |-> IF j = 0 THEN T ELSE 2 * f[j - 1]]
                                    /\ \A j \in 0..k : f[j] \in Nat}
<1>1. 0 \in S
  <2> DEFINE f == [j \in 0..0 |-> T]
  <2>1. f = [j \in 0..0 |-> IF j = 0 THEN T ELSE 2 * f[j - 1]]
    OBVIOUS
  <2>2. \A j \in 0..0 : f[j] \in Nat
    OBVIOUS
  <2> HIDE DEF f
  <2> QED
    BY <2>1, <2>2
<1>2. ASSUME NEW k \in Nat, k \in S PROVE k + 1 \in S
  <2>1. PICK f : /\ f = [j \in 0..k |-> IF j = 0 THEN T ELSE 2 * f[j - 1]]
                 /\ \A j \in 0..k : f[j] \in Nat
    BY <1>2
  <2> DEFINE h == [j \in 0..k + 1 |-> IF j = k + 1 THEN 2 * f[k] ELSE f[j]]
  <2>2. \A j \in 0..k : f[j] = IF j = 0 THEN T ELSE 2 * f[j - 1]
    BY <2>1
  <2>3. ASSUME NEW j \in 0..k + 1 PROVE h[j] = IF j = 0 THEN T ELSE 2 * h[j - 1]
    <3>1. CASE j = k + 1
      BY <3>1
    <3>2. CASE j # k + 1
      <4>1. j \in 0..k /\ (j # 0 => j - 1 \in 0..k /\ j - 1 # k + 1)
        BY <3>2
      <4>2. h[j] = f[j]
        BY <3>2
      <4>3. j # 0 => h[j - 1] = f[j - 1]
        BY <4>1
      <4> HIDE DEF h, T
      <4> QED
        BY <2>2, <4>1, <4>2, <4>3
    <3> QED
      BY <3>1, <3>2
  <2>4. h = [j \in 0..k + 1 |-> h[j]]
    OBVIOUS
  <2>5. \A j \in 0..k + 1 : h[j] \in Nat
    <3>1. f[k] \in Nat
      BY <2>1
    <3>2. 2 * f[k] \in Nat
      BY <3>1
    <3> QED
      BY <2>1, <3>2
  <2> HIDE DEF h
  <2>6. h = [j \in 0..k + 1 |-> IF j = 0 THEN T ELSE 2 * h[j - 1]]
    BY <2>3, <2>4
  <2> QED
    BY <2>5, <2>6
<1> HIDE DEF S
<1>3. c \in S
  BY <1>1, <1>2, Induction
<1>4. PICK f : /\ f = [j \in 0..c |-> IF j = 0 THEN T ELSE 2 * f[j - 1]]
               /\ \A j \in 0..c : f[j] \in Nat
  BY <1>3 DEF S
<1>5. IsShift(n, f)
  BY <1>4 DEF IsShift
<1> DEFINE g == CHOOSE g : IsShift(n, g)
<1>6. IsShift(n, g) /\ Backoff(n) = g[n.cnt]
  BY <1>5 DEF IsShift, Backoff
<1> HIDE DEF g
<1>7. /\ \A j \in 0..c : g[j] = IF j = 0 THEN T ELSE 2 * g[j - 1]
  BY <1>6 DEF IsShift
<1> DEFINE P == {j \in Nat : j <= c => g[j] \in Nat}
<1>8. 0 \in P
  BY <1>7
<1>9. ASSUME NEW j \in Nat, j \in P PROVE j + 1 \in P
  <2> SUFFICES ASSUME j + 1 <= c PROVE g[j + 1] \in Nat
    OBVIOUS
  <2>1. g[j] \in Nat /\ j + 1 \in 0..c /\ j + 1 # 0 /\ (j + 1) - 1 = j
    BY <1>9
  <2>2. g[j + 1] = 2 * g[j]
    BY <1>7, <2>1
  <2> QED
    BY <2>1, <2>2
<1> HIDE DEF P
<1>10. c \in P
  BY <1>8, <1>9, Induction
<1> QED
  BY <1>6, <1>10 DEF P

LEMMA BackoffAlike ==
    ASSUME NEW n, NEW p, n.cnt = p.cnt, n.timeout = p.timeout
    PROVE  Backoff(n) = Backoff(p)
BY DEF Backoff

-----------------------------------------------------------------------------
(* The code's state as the functions of CoapMessages see it                *)

IoType == [queue : Seq(Node), elapsed : Nat, delayed : [Sessions -> Seq(Node)],
           active : [Sessions -> Nat]]

(* No message waits twice, and one that is delayed is with its own session. *)
Orderly(io) ==
    /\ io \in IoType
    /\ Apart(io.queue)
    /\ \A s \in Sessions :
          /\ Apart(io.delayed[s])
          /\ \A i \in 1..Len(io.delayed[s]) : /\ Owner[io.delayed[s][i].mid] = s
                                              /\ io.delayed[s][i].mid \notin Mids(io.queue)

(* The messages that have been sent and have not come to an end.           *)
Pending(io) == {m \in Messages : m \in Mids(io.queue) \/ m \in Mids(io.delayed[Owner[m]])}

(* How far con_active is from the number of messages under way.            *)
Out(io, s) == {m \in Mids(io.queue) : Owner[m] = s}
Balance(io, s) == io.active[s] - Cardinality(Out(io, s))

(* A message that waits, and how long it still has to wait.                *)
View(io, x) == [cnt |-> At(io.queue, x).cnt, timeout |-> At(io.queue, x).timeout,
                rest |-> At(io.queue, x).due - io.elapsed]

(* What coap_wait_ack does: n enters with its full time, and nothing changes
   for the others.                                                         *)
Enters(io, n, a) ==
    /\ a \in IoType /\ a.delayed = io.delayed /\ a.active = io.active
    /\ Apart(a.queue) /\ Mids(a.queue) = Mids(io.queue) \cup {n.mid}
    /\ \A x \in Mids(io.queue) : View(a, x) = View(io, x)
    /\ View(a, n.mid) = [cnt |-> n.cnt, timeout |-> n.timeout, rest |-> Backoff(n)]

LEMMA NodeTimes ==
    ASSUME NEW n \in Node
    PROVE  /\ n.cnt \in Nat /\ n.timeout \in Nat /\ n.mid \in Messages
           /\ Backoff(n) \in Nat
           /\ \A t \in Nat : /\ [n EXCEPT !.t = t] \in Node
                             /\ [n EXCEPT !.t = t].mid = n.mid
                             /\ [n EXCEPT !.t = t].cnt = n.cnt
                             /\ [n EXCEPT !.t = t].timeout = n.timeout
                             /\ [n EXCEPT !.t = t].t = t
<1>1. n.cnt \in Nat /\ n.timeout \in Nat /\ n.mid \in Messages
  <2>1. n.cnt \in 0..MaxRetransmit /\ n.timeout \in Timeouts /\ n.mid \in Messages
    BY DEF Node
  <2>2. MaxRetransmit \in Nat /\ \A t \in Timeouts : t \in Nat
    BY MessagesAssumption DEF MessagesAssumption
  <2> QED
    BY <2>1, <2>2
<1>2. Backoff(n) \in Nat
  BY <1>1, BackoffIsNat
<1> QED
  BY <1>1, <1>2 DEF Node

LEMMA WaitAckEffect ==
    ASSUME NEW io \in IoType, Apart(io.queue), NEW n \in Node, n.mid \notin Mids(io.queue)
    PROVE  Enters(io, n, WaitAck(io, n))
<1> DEFINE a == WaitAck(io, n)
           q == io.queue
           B == Backoff(n)
<1>1. /\ q \in Seq(Node) /\ io.elapsed \in Nat /\ B \in Nat
      /\ n.cnt \in Nat /\ n.timeout \in Nat /\ n.mid \in Messages
  BY NodeTimes DEF IoType
<1>2. CASE q = <<>>
  <2> DEFINE p == [n EXCEPT !.t = B]
             r == <<p>>
  <2>1. a = [io EXCEPT !.queue = r, !.elapsed = 0]
    BY <1>2 DEF WaitAck
  <2>2. p \in Node /\ p.mid = n.mid /\ p.cnt = n.cnt /\ p.timeout = n.timeout /\ p.t = B
    <3> HIDE DEF B
    <3> QED
      BY <1>1, NodeTimes
  <2> HIDE DEF p
  <2>3. r \in Seq(Node) /\ Len(r) = 1 /\ r[1] = p
    BY <2>2
  <2> HIDE DEF r
  <2>4. /\ a \in IoType /\ a.queue = r /\ a.elapsed = 0
        /\ a.delayed = io.delayed /\ a.active = io.active
    <3> HIDE DEF a
    <3> QED
      BY <2>1, <2>3 DEF IoType
  <2> HIDE DEF a
  <2>5. Mids(q) = {}
    BY <1>2 DEF Mids
  <2>6. Apart(r) /\ Mids(r) = {n.mid}
    BY <2>2, <2>3 DEF Apart, Mids
  <2>7. Index(r, n.mid) = 1
    <3>1. 1 \in 1..Len(r) /\ r[1].mid = n.mid
      BY <2>2, <2>3
    <3> QED
      BY <2>3, <2>6, <3>1, OnePlace
  <2>8. DueAt(r, 1) = B
    <3>1. 1 \in 1..Len(r) /\ 1 - 1 = 0
      BY <2>3
    <3>2. DueAt(r, 1) = 0 + r[1].t
      BY <2>3, <3>1, DueSteps
    <3> HIDE DEF B
    <3> QED
      BY <1>1, <2>2, <2>3, <3>2
  <2>9. View(a, n.mid) = [cnt |-> n.cnt, timeout |-> n.timeout, rest |-> B]
    <3>1. At(r, n.mid).cnt = n.cnt /\ At(r, n.mid).timeout = n.timeout /\ At(r, n.mid).due = B
      BY <2>2, <2>3, <2>7, <2>8 DEF At, Entry
    <3>2. B - 0 = B
      BY <1>1
    <3> HIDE DEF B
    <3> QED
      BY <2>4, <3>1, <3>2 DEF View
  <2>10. Enters(io, n, a)
    BY <1>2, <2>4, <2>5, <2>6, <2>9 DEF Enters
  <2> QED
    BY <2>10 DEF a
<1>3. CASE q # <<>>
  <2> DEFINE p == [n EXCEPT !.t = io.elapsed + B]
             r == InsertNode(q, p)
  <2>1. a = [io EXCEPT !.queue = r]
    BY <1>3 DEF WaitAck
  <2>2. /\ p \in Node /\ p.mid = n.mid /\ p.cnt = n.cnt /\ p.timeout = n.timeout
        /\ p.t = io.elapsed + B
    <3>1. io.elapsed + B \in Nat
      BY <1>1
    <3> HIDE DEF B
    <3> QED
      BY <3>1, NodeTimes
  <2> HIDE DEF p
  <2>3. r \in Seq(Node) /\ \E k : WithOne(q, p, k, r)
    BY <1>1, <2>2, InsertEntries
  <2>4. PICK k : WithOne(q, p, k, r)
    BY <2>3
  <2> HIDE DEF r
  <2>5. /\ Apart(r)
        /\ Mids(r) = Mids(q) \cup {p.mid}
        /\ \A x \in Mids(q) : At(r, x) = At(q, x)
        /\ At(r, p.mid) = NewEntry(p, p.t)
    <3>1. Apart(q) /\ p.mid \notin Mids(q)
      BY <2>2
    <3> HIDE DEF q
    <3> QED
      BY <1>1, <2>2, <2>3, <2>4, <3>1, OneMore
  <2>6. /\ a \in IoType /\ a.queue = r /\ a.elapsed = io.elapsed
        /\ a.delayed = io.delayed /\ a.active = io.active
    <3> HIDE DEF a
    <3> QED
      BY <2>1, <2>3 DEF IoType
  <2> HIDE DEF a
  <2>7. \A x \in Mids(q) : View(a, x) = View(io, x)
    BY <2>5, <2>6 DEF View
  <2>8. View(a, n.mid) = [cnt |-> n.cnt, timeout |-> n.timeout, rest |-> B]
    <3>1. /\ At(r, n.mid).cnt = n.cnt /\ At(r, n.mid).timeout = n.timeout
          /\ At(r, n.mid).due = io.elapsed + B
      BY <2>2, <2>5 DEF NewEntry
    <3>2. (io.elapsed + B) - io.elapsed = B
      BY <1>1
    <3> HIDE DEF B
    <3> QED
      BY <2>6, <3>1, <3>2 DEF View
  <2>9. Enters(io, n, a)
    BY <2>2, <2>5, <2>6, <2>7, <2>8 DEF Enters
  <2> QED
    BY <2>9 DEF a
<1> QED
  BY <1>2, <1>3

LEMMA EntryTypes ==
    ASSUME NEW q \in Seq(Node), NEW x \in Mids(q)
    PROVE  /\ At(q, x).due \in Nat /\ At(q, x).cnt \in 0..MaxRetransmit
           /\ At(q, x).timeout \in Timeouts
           /\ At(q, x).cnt = q[Index(q, x)].cnt
           /\ At(q, x).timeout = q[Index(q, x)].timeout
           /\ At(q, x).due = DueAt(q, Index(q, x))
<1> DEFINE i == Index(q, x)
<1>1. i \in 1..Len(q)
  BY PlaceOf
<1> HIDE DEF i
<1>2. Len(q) \in Nat /\ q[i] \in Node
  BY <1>1, NodeFields
<1>3. i \in 0..Len(q)
  BY <1>1, <1>2
<1>4. DueAt(q, i) \in Nat
  BY <1>3, DueSteps
<1>5. At(q, x) = [mid |-> q[i].mid, cnt |-> q[i].cnt, timeout |-> q[i].timeout,
                  due |-> DueAt(q, i)]
  BY DEF At, Entry, i
<1>6. q[i].cnt \in 0..MaxRetransmit /\ q[i].timeout \in Timeouts
  BY <1>2 DEF Node
<1> QED
  BY <1>4, <1>5, <1>6 DEF i

(* What taking m out of the queue does: nothing changes for the others, but
   that they may be due earlier, unless exact.                             *)
Leaves(io, m, exact, a) ==
    /\ a \in IoType /\ a.delayed = io.delayed /\ a.active = io.active
    /\ Apart(a.queue) /\ Mids(a.queue) = Mids(io.queue) \ {m}
    /\ \A x \in Mids(a.queue) : /\ View(a, x).cnt = View(io, x).cnt
                                /\ View(a, x).timeout = View(io, x).timeout
                                /\ View(a, x).rest <= View(io, x).rest
                                /\ exact => View(a, x).rest = View(io, x).rest

LEMMA TakenOut ==
    ASSUME NEW io \in IoType, Apart(io.queue), NEW i \in 1..Len(io.queue), NEW d \in Nat,
           NEW r \in Seq(Node), WithoutOne(io.queue, i, d, r)
    PROVE  Leaves(io, io.queue[i].mid, d = 0 \/ i = Len(io.queue), [io EXCEPT !.queue = r])
<1> DEFINE q == io.queue
           a == [io EXCEPT !.queue = r]
<1>1. q \in Seq(Node) /\ io.elapsed \in Nat
  BY DEF IoType
<1>2. a \in IoType /\ a.delayed = io.delayed /\ a.active = io.active
      /\ a.queue = r /\ a.elapsed = io.elapsed
  BY DEF IoType
<1> HIDE DEF q, a
<1>3. /\ Apart(r)
      /\ Mids(r) = Mids(q) \ {q[i].mid}
      /\ \A x \in Mids(r) : /\ At(r, x).cnt = At(q, x).cnt
                            /\ At(r, x).timeout = At(q, x).timeout
                            /\ At(r, x).due <= At(q, x).due
                            /\ d = 0 \/ i = Len(q) => At(r, x).due = At(q, x).due
  <2>1. Apart(q) /\ i \in 1..Len(q) /\ WithoutOne(q, i, d, r)
    BY DEF q
  <2> QED
    BY <1>1, <2>1, OneFewer
<1>4. ASSUME NEW x \in Mids(r)
      PROVE  /\ View(a, x).cnt = View(io, x).cnt
             /\ View(a, x).timeout = View(io, x).timeout
             /\ View(a, x).rest <= View(io, x).rest
             /\ d = 0 \/ i = Len(q) => View(a, x).rest = View(io, x).rest
  <2> DEFINE u == At(r, x).due
             v == At(q, x).due
             e == io.elapsed
  <2>1. u \in Nat /\ v \in Nat /\ e \in Nat
    BY <1>1, <1>3, EntryTypes
  <2>2. u <= v /\ (d = 0 \/ i = Len(q) => u = v)
    BY <1>3
  <2>3. View(a, x).rest = u - e /\ View(io, x).rest = v - e
    BY <1>2 DEF View, q
  <2>4. View(a, x).cnt = View(io, x).cnt /\ View(a, x).timeout = View(io, x).timeout
    BY <1>2, <1>3 DEF View, q
  <2> HIDE DEF u, v, e
  <2>5. u - e <= v - e
    BY <2>1, <2>2
  <2> QED
    BY <2>2, <2>3, <2>4, <2>5
<1>5. Leaves(io, q[i].mid, d = 0 \/ i = Len(q), a)
  BY <1>2, <1>3, <1>4 DEF Leaves, q
<1> QED
  BY <1>5 DEF q, a

LEMMA RemoveEffect ==
    ASSUME NEW io \in IoType, Apart(io.queue), NEW m \in Mids(io.queue)
    PROVE  Leaves(io, m, TRUE, [io EXCEPT !.queue = RemoveNode(@, Index(@, m))])
<1> DEFINE i == Index(io.queue, m)
           r == RemoveNode(io.queue, i)
<1>1. io.queue \in Seq(Node)
  BY DEF IoType
<1>2. i \in 1..Len(io.queue) /\ io.queue[i].mid = m
  BY <1>1, PlaceOf
<1> HIDE DEF i
<1>3. r \in Seq(Node) /\ WithoutOne(io.queue, i, 0, r)
  BY <1>1, <1>2, RemoveEntries
<1> HIDE DEF r
<1>4. Leaves(io, io.queue[i].mid, 0 = 0 \/ i = Len(io.queue), [io EXCEPT !.queue = r])
  BY <1>2, <1>3, TakenOut
<1>5. Leaves(io, m, TRUE, [io EXCEPT !.queue = r])
  BY <1>2, <1>4 DEF Leaves
<1> QED
  BY <1>5 DEF r, i

LEMMA UnlinkEffect ==
    ASSUME NEW io \in IoType, Apart(io.queue), NEW m \in Mids(io.queue)
    PROVE  Leaves(io, m, Index(io.queue, m) = Len(io.queue),
                  [io EXCEPT !.queue = UnlinkNode(@, Index(io.queue, m))])
<1> DEFINE i == Index(io.queue, m)
           r == UnlinkNode(io.queue, i)
<1>1. io.queue \in Seq(Node)
  BY DEF IoType
<1>2. i \in 1..Len(io.queue) /\ io.queue[i].mid = m
  BY <1>1, PlaceOf
<1> HIDE DEF i
<1>3. r \in Seq(Node) /\ io.queue[i].t \in Nat /\ WithoutOne(io.queue, i, io.queue[i].t, r)
  BY <1>1, <1>2, UnlinkEntries
<1> HIDE DEF r
<1>4. Leaves(io, io.queue[i].mid, io.queue[i].t = 0 \/ i = Len(io.queue),
             [io EXCEPT !.queue = r])
  BY <1>2, <1>3, TakenOut
<1>5. Leaves(io, m, i = Len(io.queue), [io EXCEPT !.queue = r])
  BY <1>2, <1>4 DEF Leaves
<1> QED
  BY <1>5 DEF r, i

-----------------------------------------------------------------------------
(* What that means for what is pending and for what is counted             *)

LEMMA OwnerType ==
    ASSUME NEW m \in Messages
    PROVE  Owner[m] \in Sessions
BY MessagesAssumption DEF MessagesAssumption

LEMMA OutFinite ==
    ASSUME NEW io \in IoType, NEW s
    PROVE  IsFiniteSet(Out(io, s)) /\ Cardinality(Out(io, s)) \in Nat
<1>1. io.queue \in Seq(Node)
  BY DEF IoType
<1>2. IsFiniteSet(Mids(io.queue))
  BY <1>1, MidsFinite
<1>3. Out(io, s) \in SUBSET Mids(io.queue)
  BY DEF Out
<1>4. IsFiniteSet(Out(io, s))
  BY <1>2, <1>3, FS_Subset
<1> QED
  BY <1>4, FS_CardinalityType

LEMMA LeavesOrderly ==
    ASSUME NEW io, Orderly(io), NEW m \in Mids(io.queue), NEW e, NEW a, Leaves(io, m, e, a)
    PROVE  /\ Orderly(a)
           /\ Pending(a) = Pending(io) \ {m}
           /\ \A z \in Sessions : Balance(a, z) = Balance(io, z) + (IF z = Owner[m] THEN 1 ELSE 0)
<1>1. /\ io \in IoType /\ a \in IoType
      /\ a.delayed = io.delayed /\ a.active = io.active
      /\ Apart(a.queue) /\ Mids(a.queue) = Mids(io.queue) \ {m}
  BY DEF Orderly, Leaves
<1>2. Orderly(a)
  BY <1>1 DEF Orderly
<1>3. m \in Messages /\ Owner[m] \in Sessions
  <2>1. io.queue \in Seq(Node)
    BY <1>1 DEF IoType
  <2>2. m \in Messages
    BY <2>1, MidsFinite
  <2> QED
    BY <2>2, OwnerType
<1>4. m \notin Mids(io.delayed[Owner[m]])
  BY <1>3 DEF Orderly, Mids
<1>5. Pending(a) = Pending(io) \ {m}
  BY <1>1, <1>4 DEF Pending
<1>6. ASSUME NEW z \in Sessions
      PROVE  Balance(a, z) = Balance(io, z) + (IF z = Owner[m] THEN 1 ELSE 0)
  <2>1. IsFiniteSet(Out(io, z)) /\ Cardinality(Out(io, z)) \in Nat
    BY <1>1, OutFinite
  <2>2. io.active[z] \in Nat /\ a.active[z] = io.active[z]
    BY <1>1 DEF IoType
  <2>3. CASE z = Owner[m]
    <3>1. Out(a, z) = Out(io, z) \ {m} /\ m \in Out(io, z)
      BY <1>1, <2>3 DEF Out
    <3>2. Cardinality(Out(io, z) \ {m}) = Cardinality(Out(io, z)) - 1
      BY <2>1, <3>1, FS_RemoveElement
    <3> QED
      BY <2>1, <2>2, <2>3, <3>1, <3>2 DEF Balance
  <2>4. CASE z # Owner[m]
    <3>1. Out(a, z) = Out(io, z)
      BY <1>1, <2>4 DEF Out
    <3> QED
      BY <2>1, <2>2, <2>4, <3>1 DEF Balance
  <2> QED
    BY <2>3, <2>4
<1> QED
  BY <1>2, <1>5, <1>6

LEMMA EntersOrderly ==
    ASSUME NEW io, Orderly(io), NEW n \in Node, n.mid \notin Pending(io),
           NEW a, Enters(io, n, a)
    PROVE  /\ Orderly(a)
           /\ Pending(a) = Pending(io) \cup {n.mid}
           /\ \A z \in Sessions :
                 Balance(a, z) = Balance(io, z) - (IF z = Owner[n.mid] THEN 1 ELSE 0)
<1> DEFINE m == n.mid
<1>1. /\ io \in IoType /\ a \in IoType
      /\ a.delayed = io.delayed /\ a.active = io.active
      /\ Apart(a.queue) /\ Mids(a.queue) = Mids(io.queue) \cup {m}
  BY DEF Orderly, Enters
<1>2. m \in Messages /\ Owner[m] \in Sessions
  BY NodeTimes, OwnerType
<1>3. m \notin Mids(io.queue) /\ m \notin Mids(io.delayed[Owner[m]])
  BY <1>2 DEF Pending
<1> HIDE DEF m
<1>4. Orderly(a)
  <2>1. ASSUME NEW s \in Sessions, NEW i \in 1..Len(io.delayed[s])
        PROVE  io.delayed[s][i].mid \notin Mids(io.queue) \cup {m}
    <3>1. Owner[io.delayed[s][i].mid] = s /\ io.delayed[s][i].mid \notin Mids(io.queue)
      BY DEF Orderly
    <3>2. io.delayed[s][i].mid \in Mids(io.delayed[s])
      BY DEF Mids
    <3> QED
      BY <1>3, <3>1, <3>2
  <2> QED
    BY <1>1, <2>1 DEF Orderly
<1>5. Pending(a) = Pending(io) \cup {m}
  BY <1>1, <1>2 DEF Pending
<1>6. ASSUME NEW z \in Sessions
      PROVE  Balance(a, z) = Balance(io, z) - (IF z = Owner[m] THEN 1 ELSE 0)
  <2>1. IsFiniteSet(Out(io, z)) /\ Cardinality(Out(io, z)) \in Nat
    BY <1>1, OutFinite
  <2>2. io.active[z] \in Nat /\ a.active[z] = io.active[z]
    BY <1>1 DEF IoType
  <2>3. CASE z = Owner[m]
    <3>1. Out(a, z) = Out(io, z) \cup {m} /\ m \notin Out(io, z)
      BY <1>1, <1>3, <2>3 DEF Out
    <3>2. Cardinality(Out(io, z) \cup {m}) = Cardinality(Out(io, z)) + 1
      BY <2>1, <3>1, FS_AddElement
    <3> QED
      BY <2>1, <2>2, <2>3, <3>1, <3>2 DEF Balance
  <2>4. CASE z # Owner[m]
    <3>1. Out(a, z) = Out(io, z)
      BY <1>1, <2>4 DEF Out
    <3> QED
      BY <2>1, <2>2, <2>4, <3>1 DEF Balance
  <2> QED
    BY <2>3, <2>4
<1> QED
  BY <1>4, <1>5, <1>6 DEF m

-----------------------------------------------------------------------------
(* Releasing delayed messages                                              *)

(* b without the first message that is delayed for s, which is counted.    *)
Taken(b, s) == [b EXCEPT !.delayed[s] = Tail(@), !.active[s] = @ + 1]

LEMMA TakenOrderly ==
    ASSUME NEW b, Orderly(b), NEW s \in Sessions, b.delayed[s] # <<>>
    PROVE  LET n == b.delayed[s][1]
               c == Taken(b, s)
           IN  /\ n \in Node /\ Owner[n.mid] = s
               /\ n.mid \in Pending(b) /\ n.mid \notin Mids(b.queue)
               /\ Orderly(c) /\ c.queue = b.queue /\ c.elapsed = b.elapsed
               /\ c.delayed = [b.delayed EXCEPT ![s] = Tail(@)]
               /\ c.active = [b.active EXCEPT ![s] = @ + 1]
               /\ Pending(c) = Pending(b) \ {n.mid}
               /\ \A z \in Sessions : Balance(c, z) = Balance(b, z) + (IF z = s THEN 1 ELSE 0)
<1> DEFINE D == b.delayed[s]
           n == D[1]
           c == Taken(b, s)
<1>1. /\ b \in IoType /\ b.queue \in Seq(Node) /\ b.elapsed \in Nat
      /\ b.delayed \in [Sessions -> Seq(Node)] /\ b.active \in [Sessions -> Nat]
      /\ D \in Seq(Node)
  BY DEF Orderly, IoType
<1>2. /\ Apart(D)
      /\ \A i \in 1..Len(D) : Owner[D[i].mid] = s /\ D[i].mid \notin Mids(b.queue)
  BY DEF Orderly
<1>3. D # <<>>
  OBVIOUS
<1>4. c.queue = b.queue /\ c.elapsed = b.elapsed
      /\ c.delayed = [b.delayed EXCEPT ![s] = Tail(@)]
      /\ c.active = [b.active EXCEPT ![s] = @ + 1]
      /\ c = [queue |-> b.queue, elapsed |-> b.elapsed,
              delayed |-> [b.delayed EXCEPT ![s] = Tail(@)],
              active |-> [b.active EXCEPT ![s] = @ + 1]]
  <2> DEFINE X == [b.delayed EXCEPT ![s] = Tail(@)]
             Y == [b.active EXCEPT ![s] = @ + 1]
  <2>1. c = [b EXCEPT !.delayed = X, !.active = Y]
    BY DEF Taken
  <2> HIDE DEF X, Y, c
  <2>2. c = [queue |-> b.queue, elapsed |-> b.elapsed, delayed |-> X, active |-> Y]
    BY <1>1, <2>1 DEF IoType
  <2>3. c.queue = b.queue /\ c.elapsed = b.elapsed /\ c.delayed = X /\ c.active = Y
    BY <2>2
  <2> QED
    BY <2>2, <2>3 DEF X, Y
<1> HIDE DEF c
<1>5. /\ Tail(D) \in Seq(Node) /\ Len(D) \in Nat \ {0} /\ Len(Tail(D)) = Len(D) - 1
      /\ \A i \in 1..Len(Tail(D)) : Tail(D)[i] = D[i + 1]
  <2> HIDE DEF D
  <2> QED
    BY <1>1, <1>3, HeadTailProperties, LenProperties, EmptySeq
<1>6. 1 \in 1..Len(D) /\ \A i \in 1..Len(Tail(D)) : i + 1 \in 1..Len(D) /\ i + 1 # 1
  BY <1>5
<1>7. n \in Node /\ Owner[n.mid] = s /\ n.mid \notin Mids(b.queue) /\ n.mid \in Messages
  <2>1. D[1] \in Node /\ D[1].mid \in Messages
    <3> HIDE DEF D
    <3> QED
      BY <1>1, <1>6, NodeFields
  <2> QED
    BY <1>2, <1>6, <2>1
<1>8. n.mid \in Pending(b)
  <2>1. n.mid \in Mids(D)
    BY <1>6 DEF Mids
  <2> QED
    BY <1>7, <2>1 DEF Pending
<1>9. c \in IoType
  <2>1. [b.delayed EXCEPT ![s] = Tail(@)] \in [Sessions -> Seq(Node)]
    BY <1>1, <1>5
  <2>2. [b.active EXCEPT ![s] = @ + 1] \in [Sessions -> Nat]
    BY <1>1
  <2> QED
    BY <1>1, <1>4, <2>1, <2>2 DEF IoType
<1> HIDE DEF D
<1>10. Apart(Tail(D)) /\ Mids(Tail(D)) = Mids(D) \ {n.mid}
  <2>1. Apart(Tail(D))
    <3> SUFFICES ASSUME NEW i \in 1..Len(Tail(D)), NEW h \in 1..Len(Tail(D)),
                        Tail(D)[i].mid = Tail(D)[h].mid
                 PROVE  i = h
      BY DEF Apart
    <3>1. i + 1 \in 1..Len(D) /\ h + 1 \in 1..Len(D) /\ D[i + 1].mid = D[h + 1].mid
      BY <1>5, <1>6
    <3>2. i + 1 = h + 1
      BY <1>2, <3>1 DEF Apart
    <3> QED
      BY <1>5, <3>2
  <2>2. \A i \in 1..Len(Tail(D)) : Tail(D)[i].mid \in Mids(D) \ {n.mid}
    <3> SUFFICES ASSUME NEW i \in 1..Len(Tail(D))
                 PROVE  Tail(D)[i].mid \in Mids(D) \ {n.mid}
      OBVIOUS
    <3>1. i + 1 \in 1..Len(D) /\ i + 1 # 1 /\ Tail(D)[i] = D[i + 1]
      BY <1>5, <1>6
    <3>2. D[i + 1].mid # D[1].mid
      BY <1>2, <1>6, <3>1 DEF Apart
    <3>3. D[i + 1].mid \in Mids(D)
      BY <3>1 DEF Mids
    <3> QED
      BY <3>1, <3>2, <3>3
  <2>3. \A j \in 1..Len(D) : j # 1 => D[j].mid \in Mids(Tail(D))
    <3> SUFFICES ASSUME NEW j \in 1..Len(D), j # 1 PROVE D[j].mid \in Mids(Tail(D))
      OBVIOUS
    <3>1. j - 1 \in 1..Len(Tail(D)) /\ (j - 1) + 1 = j
      BY <1>5
    <3>2. Tail(D)[j - 1] = D[j]
      BY <1>5, <3>1
    <3> QED
      BY <3>1, <3>2 DEF Mids
  <2> QED
    BY <2>1, <2>2, <2>3 DEF Mids
<1>11. Orderly(c)
  <2> SUFFICES ASSUME NEW z \in Sessions
               PROVE  /\ Apart(c.delayed[z])
                      /\ \A i \in 1..Len(c.delayed[z]) :
                            /\ Owner[c.delayed[z][i].mid] = z
                            /\ c.delayed[z][i].mid \notin Mids(c.queue)
    BY <1>4, <1>9 DEF Orderly
  <2>1. CASE z = s
    <3>1. c.delayed[z] = Tail(D)
      BY <1>1, <1>4, <2>1 DEF D
    <3>2. ASSUME NEW i \in 1..Len(Tail(D))
          PROVE  /\ Owner[Tail(D)[i].mid] = s
                 /\ Tail(D)[i].mid \notin Mids(b.queue)
      <4>1. i + 1 \in 1..Len(D) /\ Tail(D)[i] = D[i + 1]
        BY <1>5, <1>6
      <4> QED
        BY <1>2, <4>1
    <3> QED
      BY <1>4, <1>10, <2>1, <3>1, <3>2
  <2>2. CASE z # s
    <3>1. c.delayed[z] = b.delayed[z]
      BY <1>1, <1>4, <2>2
    <3> QED
      BY <1>4, <3>1 DEF Orderly
  <2> QED
    BY <2>1, <2>2
<1>12. Pending(c) = Pending(b) \ {n.mid}
  <2> SUFFICES ASSUME NEW x \in Messages
               PROVE  x \in Pending(c) <=> x \in Pending(b) /\ x # n.mid
    BY DEF Pending
  <2>0. Owner[x] \in Sessions
    BY OwnerType
  <2>1. CASE Owner[x] = s
    <3>1. c.delayed[s] = Tail(D) /\ b.delayed[s] = D
      BY <1>1, <1>4 DEF D
    <3> QED
      BY <1>4, <1>7, <1>10, <2>1, <3>1 DEF Pending
  <2>2. CASE Owner[x] # s
    <3>1. c.delayed[Owner[x]] = b.delayed[Owner[x]]
      BY <1>1, <1>4, <2>0, <2>2
    <3> QED
      BY <1>4, <1>7, <2>2, <3>1 DEF Pending
  <2> QED
    BY <2>1, <2>2
<1>13. ASSUME NEW z \in Sessions
       PROVE  Balance(c, z) = Balance(b, z) + (IF z = s THEN 1 ELSE 0)
  <2>1. Out(c, z) = Out(b, z)
    BY <1>4 DEF Out
  <2>2. Cardinality(Out(b, z)) \in Nat /\ b.active[z] \in Nat
    BY <1>1, OutFinite
  <2>3. c.active[z] = b.active[z] + (IF z = s THEN 1 ELSE 0)
    BY <1>1, <1>4
  <2> QED
    BY <2>1, <2>2, <2>3 DEF Balance
<1> QED
  BY <1>4, <1>7, <1>8, <1>11, <1>12, <1>13 DEF c, D

(* What the first j turns of coap_session_connected's loop for s do.       *)
Flow(io, s, j, b) ==
    /\ Orderly(b) /\ Pending(b) = Pending(io)
    /\ \A z \in Sessions : Balance(b, z) = Balance(io, z)
    /\ \A z \in Sessions \ {s} : b.active[z] = io.active[z] /\ b.delayed[z] = io.delayed[z]
    /\ b.active[s] = io.active[s] + j
    /\ Len(b.delayed[s]) = Len(io.delayed[s]) - j
    /\ \A i \in 1..Len(b.delayed[s]) : b.delayed[s][i] = io.delayed[s][i + j]
    /\ Mids(io.queue) \subseteq Mids(b.queue)
    /\ \A x \in Mids(io.queue) : View(b, x) = View(io, x)
    /\ \A x \in Mids(b.queue) \ Mids(io.queue) : View(b, x).rest = Backoff(View(b, x))

LEMMA OneTurn ==
    ASSUME NEW io, Orderly(io), NEW s \in Sessions, NEW j \in Nat, j < Len(io.delayed[s]),
           NEW b, Flow(io, s, j, b)
    PROVE  Flow(io, s, j + 1, WaitAck(Taken(b, s), io.delayed[s][j + 1]))
<1> DEFINE D == io.delayed[s]
           E == b.delayed[s]
           n == E[1]
           c == Taken(b, s)
           a == WaitAck(c, n)
<1>1. /\ Orderly(b) /\ Pending(b) = Pending(io)
      /\ \A z \in Sessions : Balance(b, z) = Balance(io, z)
      /\ \A z \in Sessions \ {s} : b.active[z] = io.active[z] /\ b.delayed[z] = io.delayed[z]
      /\ b.active[s] = io.active[s] + j
      /\ Len(E) = Len(D) - j
      /\ \A i \in 1..Len(E) : E[i] = D[i + j]
      /\ Mids(io.queue) \subseteq Mids(b.queue)
      /\ \A x \in Mids(io.queue) : View(b, x) = View(io, x)
      /\ \A x \in Mids(b.queue) \ Mids(io.queue) : View(b, x).rest = Backoff(View(b, x))
  BY DEF Flow
<1>2. /\ D \in Seq(Node) /\ E \in Seq(Node) /\ Len(D) \in Nat
      /\ io.active \in [Sessions -> Nat] /\ b.active \in [Sessions -> Nat]
      /\ b.delayed \in [Sessions -> Seq(Node)] /\ j < Len(D)
  BY <1>1, LenProperties DEF Orderly, IoType
<1>3. 1 \in 1..Len(E) /\ 1 + j = j + 1 /\ n = D[j + 1] /\ E # <<>>
  <2> HIDE DEF D, E
  <2>1. 1 \in 1..Len(E) /\ 1 + j = j + 1
    BY <1>1, <1>2
  <2> QED
    BY <1>1, <1>2, <2>1, EmptySeq
<1>4. /\ n \in Node /\ Owner[n.mid] = s
      /\ n.mid \in Pending(b) /\ n.mid \notin Mids(b.queue)
      /\ Orderly(c) /\ c.queue = b.queue /\ c.elapsed = b.elapsed
      /\ c.delayed = [b.delayed EXCEPT ![s] = Tail(@)]
      /\ c.active = [b.active EXCEPT ![s] = @ + 1]
      /\ Pending(c) = Pending(b) \ {n.mid}
      /\ \A z \in Sessions : Balance(c, z) = Balance(b, z) + (IF z = s THEN 1 ELSE 0)
  BY <1>1, <1>3, TakenOrderly, ZenonT(60)
<1> HIDE DEF c
<1>5. Enters(c, n, a)
  <2>1. c \in IoType /\ Apart(c.queue) /\ n.mid \notin Mids(c.queue)
    BY <1>4 DEF Orderly
  <2> HIDE DEF n
  <2> QED
    BY <1>4, <2>1, WaitAckEffect
<1> HIDE DEF a, n
<1>6. /\ Orderly(a)
      /\ Pending(a) = Pending(c) \cup {n.mid}
      /\ \A z \in Sessions : Balance(a, z) = Balance(c, z) - (IF z = Owner[n.mid] THEN 1 ELSE 0)
  <2>1. n.mid \notin Pending(c)
    BY <1>4
  <2> QED
    BY <1>4, <1>5, <2>1, EntersOrderly
<1>7. /\ a.delayed = c.delayed /\ a.active = c.active
      /\ Mids(a.queue) = Mids(b.queue) \cup {n.mid}
      /\ \A x \in Mids(b.queue) : View(a, x) = View(c, x)
      /\ View(a, n.mid) = [cnt |-> n.cnt, timeout |-> n.timeout, rest |-> Backoff(n)]
  BY <1>4, <1>5 DEF Enters
<1>8. Pending(a) = Pending(io)
  BY <1>1, <1>4, <1>6
<1>9. ASSUME NEW z \in Sessions PROVE Balance(a, z) = Balance(io, z)
  <2>1. Balance(b, z) \in Int
    <3>1. Cardinality(Out(b, z)) \in Nat /\ b.active[z] \in Nat
      BY <1>1, <1>2, OutFinite DEF Orderly
    <3> QED
      BY <3>1 DEF Balance
  <2>2. Balance(c, z) = Balance(b, z) + (IF z = s THEN 1 ELSE 0)
    BY <1>4
  <2>3. Balance(a, z) = Balance(c, z) - (IF z = s THEN 1 ELSE 0)
    BY <1>4, <1>6
  <2>4. Balance(b, z) = Balance(io, z)
    BY <1>1
  <2> QED
    BY <2>1, <2>2, <2>3, <2>4
<1>10. \A z \in Sessions \ {s} : a.active[z] = io.active[z] /\ a.delayed[z] = io.delayed[z]
  BY <1>1, <1>2, <1>4, <1>7
<1>11. a.active[s] = io.active[s] + (j + 1)
  <2>1. a.active[s] = b.active[s] + 1
    BY <1>2, <1>4, <1>7
  <2>2. b.active[s] = io.active[s] + j /\ io.active[s] \in Nat
    BY <1>1, <1>2
  <2> QED
    BY <2>1, <2>2
<1>12. /\ Len(a.delayed[s]) = Len(D) - (j + 1)
       /\ \A i \in 1..Len(a.delayed[s]) : a.delayed[s][i] = D[i + (j + 1)]
  <2>1. a.delayed[s] = Tail(E)
    BY <1>2, <1>4, <1>7
  <2> HIDE DEF D, E
  <2>2. Len(Tail(E)) = Len(E) - 1 /\ \A i \in 1..Len(Tail(E)) : Tail(E)[i] = E[i + 1]
    BY <1>2, <1>3, HeadTailProperties
  <2> DEFINE e == Len(E)
             f == Len(Tail(E))
             L == Len(D)
  <2>3. e \in Nat /\ L \in Nat /\ e = L - j /\ f = e - 1
    BY <1>1, <1>2, <2>2, LenProperties
  <2>4. \A i \in 1..f : Tail(E)[i] = E[i + 1]
    BY <2>2
  <2>5. \A i \in 1..e : E[i] = D[i + j]
    BY <1>1
  <2> HIDE DEF e, f, L
  <2>6. f = L - (j + 1)
    BY ONLY j \in Nat, <2>3
  <2>7. \A i \in 1..f : i + 1 \in 1..e /\ (i + 1) + j = i + (j + 1)
    BY ONLY j \in Nat, <2>3
  <2>8. \A i \in 1..f : Tail(E)[i] = D[i + (j + 1)]
    BY <2>4, <2>5, <2>7
  <2> QED
    BY <2>1, <2>6, <2>8 DEF f, L
<1>13. Mids(io.queue) \subseteq Mids(a.queue)
  BY <1>1, <1>7
<1>14. \A x \in Mids(b.queue) : View(a, x) = View(b, x)
  <2>1. \A x : View(c, x) = View(b, x)
    BY <1>4 DEF View
  <2> QED
    BY <1>7, <2>1
<1>15. \A x \in Mids(io.queue) : View(a, x) = View(io, x)
  BY <1>1, <1>14
<1>16. ASSUME NEW x \in Mids(a.queue) \ Mids(io.queue)
       PROVE  View(a, x).rest = Backoff(View(a, x))
  <2>1. CASE x \in Mids(b.queue)
    BY <1>1, <1>14, <2>1
  <2>2. CASE x = n.mid
    <3>1. View(a, x).cnt = n.cnt /\ View(a, x).timeout = n.timeout
          /\ View(a, x).rest = Backoff(n)
      BY <1>7, <2>2
    <3> QED
      BY <3>1, BackoffAlike
  <2> QED
    BY <1>7, <2>1, <2>2
<1>17. Flow(io, s, j + 1, a)
  BY <1>6, <1>8, <1>9, <1>10, <1>11, <1>12, <1>13, <1>15, <1>16 DEF Flow
<1> QED
  BY <1>3, <1>17 DEF a, c

(* How many messages coap_session_connected releases, of those that are
   delayed for s: it stops at NSTART, at the last one, or at the first write
   that fails.                                                             *)
LEMMA ReleasedProperties ==
    ASSUME NEW io, Orderly(io), NEW s \in Sessions, io.active[s] <= NStart, NEW w \in Nat
    PROVE  LET out == Released(io, s, w)
               L == Len(out)
           IN  /\ L \in Nat /\ L <= Len(io.delayed[s]) /\ io.active[s] + L <= NStart
               /\ \A i \in 1..L : out[i] = io.delayed[s][i]
               /\ L <= w => io.active[s] + L = NStart \/ L = Len(io.delayed[s])
<1> DEFINE D == io.delayed[s]
           u == NStart - io.active[s]
           v == Len(D)
           l == Min({u, v, w + 1})
<1>1. D \in Seq(Node) /\ v \in Nat /\ io.active[s] \in Nat /\ NStart \in Nat
  BY LenProperties, MessagesAssumption DEF Orderly, IoType, MessagesAssumption
<1>2. u \in Nat
  BY <1>1
<1>3. l \in {u, v, w + 1} /\ l <= u /\ l <= v /\ l <= w + 1
  <2> HIDE DEF u, v
  <2>1. \E x \in {u, v, w + 1} : \A y \in {u, v, w + 1} : x <= y
    <3>1. CASE u <= v /\ u <= w + 1
      BY <1>1, <1>2, <3>1
    <3>2. CASE v <= u /\ v <= w + 1
      BY <1>1, <1>2, <3>2
    <3>3. CASE w + 1 <= u /\ w + 1 <= v
      BY <1>1, <1>2, <3>3
    <3> QED
      BY <1>1, <1>2, <3>1, <3>2, <3>3
  <2> QED
    BY <2>1 DEF Min
<1> HIDE DEF l
<1>4. l \in Nat
  BY <1>1, <1>2, <1>3
<1>5. Released(io, s, w) = SubSeq(D, 1, l)
  BY DEF Released, l
<1>6. /\ Len(SubSeq(D, 1, l)) = l
      /\ \A i \in 1..l : SubSeq(D, 1, l)[i] = D[i]
  <2>1. 1 \in 1..Len(D) + 1 /\ l \in 0..Len(D)
    BY <1>1, <1>3, <1>4
  <2>2. \A i \in 1..l : D[i] \in Node
    BY <1>1, <2>1, NodeFields
  <2> HIDE DEF D
  <2>3. Len(SubSeq(D, 1, l)) = IF 1 <= l THEN l - 1 + 1 ELSE 0
    BY <2>1, <2>2, SubSeqProperties
  <2>4. \A i \in 1..l - 1 + 1 : SubSeq(D, 1, l)[i] = D[1 + i - 1]
    BY <2>1, <2>2, SubSeqProperties
  <2>5. \A i \in 1..l : i \in 1..l - 1 + 1 /\ 1 + i - 1 = i
    BY <1>4
  <2> QED
    BY <1>4, <2>3, <2>4, <2>5
<1>7. l <= v /\ io.active[s] + l <= NStart
  BY <1>1, <1>3, <1>4
<1>8. l <= w => io.active[s] + l = NStart \/ l = v
  BY <1>1, <1>3, <1>4
<1> QED
  BY <1>4, <1>5, <1>6, <1>7, <1>8

IsLoop(io, s, out, n, f) ==
    f = [j \in 0..n |-> IF j = 0 THEN io ELSE WaitAck(Taken(f[j - 1], s), out[j])]

LEMMA LoopExists ==
    ASSUME NEW io, NEW s, NEW out
    PROVE  \A n \in Nat : \E f : IsLoop(io, s, out, n, f)
<1> DEFINE S == {n \in Nat : \E f : IsLoop(io, s, out, n, f)}
           turn(b, j) == WaitAck(Taken(b, s), out[j])
<1>1. 0 \in S
  <2> DEFINE g == [j \in 0..0 |-> io]
  <2>1. g = [j \in 0..0 |-> IF j = 0 THEN io ELSE turn(g[j - 1], j)]
    OBVIOUS
  <2>2. IsLoop(io, s, out, 0, g)
    <3> HIDE DEF g
    <3> QED
      BY <2>1 DEF IsLoop
  <2> QED
    BY <2>2
<1> HIDE DEF turn
<1>2. ASSUME NEW n \in Nat, n \in S PROVE n + 1 \in S
  <2>1. PICK g : IsLoop(io, s, out, n, g)
    BY <1>2
  <2> DEFINE h == [j \in 0..n + 1 |-> IF j = n + 1 THEN turn(g[n], n + 1) ELSE g[j]]
  <2>2. \A j \in 0..n : g[j] = IF j = 0 THEN io ELSE turn(g[j - 1], j)
    BY <2>1 DEF IsLoop, turn
  <2>3. ASSUME NEW j \in 0..n + 1
        PROVE  h[j] = IF j = 0 THEN io ELSE turn(h[j - 1], j)
    <3>1. CASE j = n + 1
      <4>1. h[j] = turn(g[n], n + 1) /\ j # 0 /\ j - 1 = n /\ n \in 0..n + 1 /\ n # n + 1
        BY <3>1
      <4>2. h[n] = g[n]
        BY <4>1
      <4> HIDE DEF h
      <4> QED
        BY <3>1, <4>1, <4>2
    <3>2. CASE j # n + 1
      <4>1. j \in 0..n /\ (j # 0 => j - 1 \in 0..n /\ j - 1 # n + 1)
        BY <3>2
      <4>2. h[j] = g[j]
        BY <3>2
      <4>3. j # 0 => h[j - 1] = g[j - 1]
        BY <4>1
      <4> HIDE DEF h
      <4> QED
        BY <2>2, <4>1, <4>2, <4>3
    <3> QED
      BY <3>1, <3>2
  <2>4. h = [j \in 0..n + 1 |-> h[j]]
    OBVIOUS
  <2>5. IsLoop(io, s, out, n + 1, h)
    <3> HIDE DEF h
    <3> QED
      BY <2>3, <2>4 DEF IsLoop, turn
  <2> QED
    BY <2>5
<1> HIDE DEF S
<1>3. \A n \in Nat : n \in S
  BY <1>1, <1>2, Induction
<1> QED
  BY <1>3 DEF S

LEMMA FlowStarts ==
    ASSUME NEW io, Orderly(io), NEW s \in Sessions
    PROVE  Flow(io, s, 0, io)
<1> DEFINE D == io.delayed[s]
           A == io.active[s]
<1>1. D \in Seq(Node) /\ Len(D) \in Nat /\ A \in Nat
  BY LenProperties DEF Orderly, IoType
<1>2. A = A + 0 /\ Len(D) = Len(D) - 0 /\ \A i \in 1..Len(D) : D[i] = D[i + 0]
  <2> HIDE DEF A, D
  <2>1. \A i \in 1..Len(D) : i + 0 = i
    BY <1>1
  <2> QED
    BY <1>1, <2>1
<1> QED
  BY <1>2 DEF Flow

LEMMA ConnectedEffect ==
    ASSUME NEW io, Orderly(io), NEW s \in Sessions, io.active[s] <= NStart, NEW w \in Nat
    PROVE  Flow(io, s, Len(Released(io, s, w)), Connected(io, s, w))
<1> DEFINE out == Released(io, s, w)
           L == Len(out)
           f == CHOOSE f : IsLoop(io, s, out, L, f)
<1>1. /\ L \in Nat /\ L <= Len(io.delayed[s])
      /\ \A i \in 1..L : out[i] = io.delayed[s][i]
  BY ReleasedProperties
<1>2. Connected(io, s, w) = f[L]
  BY DEF Connected, IsLoop, Taken
<1> HIDE DEF out
<1>3. IsLoop(io, s, out, L, f)
  <2> HIDE DEF L
  <2>1. \E g : IsLoop(io, s, out, L, g)
    BY <1>1, LoopExists
  <2> QED
    BY <2>1
<1> HIDE DEF f, L
<1>4. \A j \in 0..L : f[j] = IF j = 0 THEN io ELSE WaitAck(Taken(f[j - 1], s), out[j])
  BY <1>3 DEF IsLoop
<1> DEFINE S == {j \in Nat : j <= L => Flow(io, s, j, f[j])}
<1>5. 0 \in S
  <2>1. f[0] = io
    BY <1>1, <1>4
  <2>2. Flow(io, s, 0, f[0])
    BY <2>1, FlowStarts
  <2> QED
    BY <2>2
<1>6. ASSUME NEW j \in Nat, j \in S PROVE j + 1 \in S
  <2> SUFFICES ASSUME j + 1 <= L PROVE Flow(io, s, j + 1, f[j + 1])
    OBVIOUS
  <2>1. /\ j <= L /\ j + 1 \in 0..L /\ j + 1 \in 1..L /\ j + 1 # 0 /\ (j + 1) - 1 = j
        /\ j < Len(io.delayed[s])
    <3>1. Len(io.delayed[s]) \in Nat
      BY LenProperties DEF Orderly, IoType
    <3> QED
      BY <1>1, <3>1
  <2>2. Flow(io, s, j, f[j])
    BY <1>6, <2>1
  <2>3. f[j + 1] = WaitAck(Taken(f[j], s), io.delayed[s][j + 1])
    <3>1. f[j + 1] = WaitAck(Taken(f[j], s), out[j + 1])
      BY <1>4, <2>1
    <3>2. out[j + 1] = io.delayed[s][j + 1]
      BY <1>1, <2>1
    <3> QED
      BY <3>1, <3>2
  <2>4. Flow(io, s, j + 1, WaitAck(Taken(f[j], s), io.delayed[s][j + 1]))
    BY <2>1, <2>2, OneTurn
  <2> QED
    BY <2>3, <2>4
<1> HIDE DEF S
<1>7. L \in S
  BY <1>1, <1>5, <1>6, Induction
<1>8. Flow(io, s, L, f[L])
  BY <1>1, <1>7 DEF S
<1> QED
  BY <1>2, <1>8 DEF L, out

LEMMA Recount ==
    ASSUME NEW b, Orderly(b), NEW act \in [Sessions -> Nat]
    PROVE  LET c == [b EXCEPT !.active = act]
           IN  /\ Orderly(c) /\ Pending(c) = Pending(b)
               /\ c.queue = b.queue /\ c.elapsed = b.elapsed /\ c.delayed = b.delayed
               /\ c.active = act
               /\ \A x : View(c, x) = View(b, x)
               /\ \A z \in Sessions : /\ Balance(b, z) \in Int
                                      /\ Balance(c, z) = Balance(b, z) + (act[z] - b.active[z])
<1> DEFINE c == [b EXCEPT !.active = act]
<1>1. /\ c.queue = b.queue /\ c.elapsed = b.elapsed /\ c.delayed = b.delayed
      /\ c.active = act /\ c \in IoType /\ b \in IoType
      /\ b.active \in [Sessions -> Nat]
  BY DEF Orderly, IoType
<1> HIDE DEF c
<1>2. Orderly(c) /\ Pending(c) = Pending(b) /\ \A x : View(c, x) = View(b, x)
  BY <1>1 DEF Orderly, Pending, View
<1>3. ASSUME NEW z \in Sessions
      PROVE  Balance(b, z) \in Int /\ Balance(c, z) = Balance(b, z) + (act[z] - b.active[z])
  <2>1. Out(c, z) = Out(b, z) /\ Cardinality(Out(b, z)) \in Nat
    BY <1>1, OutFinite DEF Out
  <2>2. act[z] \in Nat /\ b.active[z] \in Nat
    BY <1>1
  <2>3. Balance(c, z) = act[z] - Cardinality(Out(b, z))
    BY <1>1, <2>1 DEF Balance
  <2>4. Balance(b, z) = b.active[z] - Cardinality(Out(b, z))
    BY DEF Balance
  <2> QED
    BY <2>1, <2>2, <2>3, <2>4
<1> QED
  BY <1>1, <1>2, <1>3 DEF c

LEMMA OneLessEffect ==
    ASSUME NEW b, Orderly(b), NEW s \in Sessions
    PROVE  LET c == OneLess(b, s)
               d == IF b.active[s] > 0 THEN 1 ELSE 0
           IN  /\ Orderly(c) /\ Pending(c) = Pending(b)
               /\ c.queue = b.queue /\ c.elapsed = b.elapsed /\ c.delayed = b.delayed
               /\ c.active \in [Sessions -> Nat]
               /\ c.active[s] = b.active[s] - d
               /\ \A z \in Sessions \ {s} : c.active[z] = b.active[z]
               /\ \A x : View(c, x) = View(b, x)
               /\ \A z \in Sessions :
                     /\ Balance(b, z) \in Int
                     /\ Balance(c, z) = Balance(b, z) - (IF z = s THEN d ELSE 0)
<1> DEFINE A == b.active
           d == IF A[s] > 0 THEN 1 ELSE 0
           act == [A EXCEPT ![s] = IF @ > 0 THEN @ - 1 ELSE 0]
           c == [b EXCEPT !.active = act]
<1>1. A \in [Sessions -> Nat]
  BY DEF Orderly, IoType
<1>2. /\ act \in [Sessions -> Nat] /\ act[s] = A[s] - d
      /\ \A z \in Sessions \ {s} : act[z] = A[z]
  <2> HIDE DEF A
  <2>1. A[s] \in Nat
    BY <1>1
  <2> QED
    BY <1>1, <2>1
<1>3. OneLess(b, s) = c
  BY DEF OneLess
<1> HIDE DEF act
<1>4. /\ Orderly(c) /\ Pending(c) = Pending(b)
      /\ c.queue = b.queue /\ c.elapsed = b.elapsed /\ c.delayed = b.delayed
      /\ c.active = act
      /\ \A x : View(c, x) = View(b, x)
      /\ \A z \in Sessions : /\ Balance(b, z) \in Int
                             /\ Balance(c, z) = Balance(b, z) + (act[z] - A[z])
  BY <1>2, Recount
<1> HIDE DEF c, A
<1>5. ASSUME NEW z \in Sessions
      PROVE  act[z] - A[z] = - (IF z = s THEN d ELSE 0)
  BY <1>1, <1>2
<1>6. d \in Nat
  OBVIOUS
<1> HIDE DEF d
<1>7. ASSUME NEW z \in Sessions
      PROVE  Balance(c, z) = Balance(b, z) - (IF z = s THEN d ELSE 0)
  <2>1. Balance(b, z) \in Int /\ Balance(c, z) = Balance(b, z) + (act[z] - A[z])
    BY <1>4
  <2>2. act[z] - A[z] = - (IF z = s THEN d ELSE 0)
    BY <1>5
  <2> QED
    BY <1>6, <2>1, <2>2
<1> QED
  BY <1>2, <1>3, <1>4, <1>7 DEF d, A

(* What it does when one message of s is over, and the write number w + 1
   fails: the counter goes down, and delayed messages take its place.      *)
Settles(io, s, w, a) ==
    /\ Orderly(a) /\ Pending(a) = Pending(io)
    /\ \A z \in Sessions : a.active[z] <= NStart
    /\ \A z \in Sessions :
          Balance(a, z) = Balance(io, z) - (IF z = s /\ io.active[s] > 0 THEN 1 ELSE 0)
    /\ \A z \in Sessions \ {s} : a.active[z] = io.active[z] /\ a.delayed[z] = io.delayed[z]
    /\ io.active[s] > 0 /\ Failed(Flushed(io, s, w), w) = {}
          => a.delayed[s] = <<>> \/ a.active[s] = NStart
    /\ Mids(io.queue) \subseteq Mids(a.queue)
    /\ \A x \in Mids(io.queue) : View(a, x) = View(io, x)
    /\ \A x \in Mids(a.queue) \ Mids(io.queue) : View(a, x).rest = Backoff(View(a, x))

LEMMA FinishedEffect ==
    ASSUME NEW io, Orderly(io), \A z \in Sessions : io.active[z] <= NStart,
           NEW s \in Sessions, NEW w \in Nat
    PROVE  Settles(io, s, w, Finished(io, s, w))
<1>0. io \in IoType /\ io.active \in [Sessions -> Nat] /\ NStart \in Nat
  BY MessagesAssumption DEF Orderly, IoType, MessagesAssumption
<1>1. CASE ~(io.active[s] > 0)
  <2>1. Finished(io, s, w) = io
    BY <1>1 DEF Finished
  <2>2. \A z \in Sessions : Balance(io, z) \in Int
    BY <1>0, OneLessEffect
  <2>3. \A z \in Sessions :
          Balance(io, z) = Balance(io, z) - (IF z = s /\ io.active[s] > 0 THEN 1 ELSE 0)
    BY <1>1, <2>2
  <2>4. Settles(io, s, w, io)
    BY <1>1, <2>3 DEF Settles
  <2> QED
    BY <2>1, <2>4
<1>2. CASE io.active[s] > 0
  <2> DEFINE o == OneLess(io, s)
             out == Released(o, s, w)
             L == Len(out)
             a == Connected(o, s, w)
  <2>1. Finished(io, s, w) = a /\ Flushed(io, s, w) = out
    BY <1>2 DEF Finished, Flushed
  <2>2. /\ Orderly(o) /\ Pending(o) = Pending(io)
        /\ o.queue = io.queue /\ o.elapsed = io.elapsed /\ o.delayed = io.delayed
        /\ o.active \in [Sessions -> Nat]
        /\ o.active[s] = io.active[s] - 1
        /\ \A z \in Sessions \ {s} : o.active[z] = io.active[z]
        /\ \A x : View(o, x) = View(io, x)
        /\ \A z \in Sessions :
              /\ Balance(io, z) \in Int
              /\ Balance(o, z) = Balance(io, z) - (IF z = s THEN 1 ELSE 0)
    BY <1>2, OneLessEffect
  <2> HIDE DEF o
  <2>3. o.active[s] <= NStart /\ o.active[s] \in Nat
    BY <1>0, <2>2
  <2>4. /\ L \in Nat /\ L <= Len(o.delayed[s]) /\ o.active[s] + L <= NStart
        /\ L <= w => o.active[s] + L = NStart \/ L = Len(o.delayed[s])
    BY <2>2, <2>3, ReleasedProperties
  <2>5. Flow(o, s, L, a)
    BY <2>2, <2>3, ConnectedEffect
  <2> HIDE DEF out, L, a
  <2>6. /\ Orderly(a) /\ Pending(a) = Pending(o)
        /\ \A z \in Sessions : Balance(a, z) = Balance(o, z)
        /\ \A z \in Sessions \ {s} : a.active[z] = o.active[z] /\ a.delayed[z] = o.delayed[z]
        /\ a.active[s] = o.active[s] + L
        /\ Len(a.delayed[s]) = Len(o.delayed[s]) - L
        /\ Mids(o.queue) \subseteq Mids(a.queue)
        /\ \A x \in Mids(o.queue) : View(a, x) = View(o, x)
        /\ \A x \in Mids(a.queue) \ Mids(o.queue) : View(a, x).rest = Backoff(View(a, x))
    BY <2>5 DEF Flow
  <2>7. ASSUME NEW z \in Sessions PROVE a.active[z] <= NStart
    BY <2>2, <2>4, <2>6
  <2>8. Failed(out, w) = {} => a.delayed[s] = <<>> \/ a.active[s] = NStart
    <3> SUFFICES ASSUME Failed(out, w) = {}, a.active[s] # NStart
                 PROVE  a.delayed[s] = <<>>
      OBVIOUS
    <3>1. L <= w
      BY <2>4 DEF Failed, L
    <3>2. L = Len(o.delayed[s])
      BY <2>4, <2>6, <3>1
    <3>3. Len(a.delayed[s]) = 0 /\ a.delayed[s] \in Seq(Node)
      BY <2>4, <2>6, <3>2 DEF Orderly, IoType
    <3> QED
      BY <3>3, EmptySeq
  <2>9. \A z \in Sessions :
           Balance(a, z) = Balance(io, z) - (IF z = s /\ io.active[s] > 0 THEN 1 ELSE 0)
    BY <1>2, <2>2, <2>6
  <2>10. Settles(io, s, w, a)
    BY <2>1, <2>2, <2>6, <2>7, <2>8, <2>9 DEF Settles
  <2> QED
    BY <2>1, <2>10
<1> QED
  BY <1>1, <1>2

(* What the flush writes had been delayed.                                 *)
LEMMA FlushedWaited ==
    ASSUME NEW io, Orderly(io), \A z \in Sessions : io.active[z] <= NStart,
           NEW s \in Sessions, NEW w \in Nat
    PROVE  Written(Flushed(io, s, w), w) \subseteq Pending(io)
<1> DEFINE c == OneLess(io, s)
           D == io.delayed[s]
           out == Flushed(io, s, w)
           l == Min({w, Len(out)})
<1>1. /\ Len(out) \in Nat /\ Len(out) <= Len(D)
      /\ \A i \in 1..Len(out) : out[i] = D[i]
  <2>1. /\ Orderly(c) /\ c.delayed = io.delayed
        /\ c.active[s] = io.active[s] - (IF io.active[s] > 0 THEN 1 ELSE 0)
    BY OneLessEffect
  <2>2. io.active[s] \in Nat /\ NStart \in Nat /\ Len(D) \in Nat
    BY MessagesAssumption, LenProperties DEF Orderly, IoType, MessagesAssumption
  <2>3. c.active[s] <= NStart
    BY <2>1, <2>2
  <2> HIDE DEF c
  <2>4. CASE io.active[s] > 0
    <3>1. out = Released(c, s, w)
      BY <2>4 DEF Flushed, c
    <3> QED
      BY <2>1, <2>3, <3>1, ReleasedProperties
  <2>5. CASE ~(io.active[s] > 0)
    BY <2>2, <2>5 DEF Flushed
  <2> QED
    BY <2>4, <2>5
<1>2. l \in Nat /\ l <= Len(out)
  <2> HIDE DEF out
  <2>1. \E x \in {w, Len(out)} : \A y \in {w, Len(out)} : x <= y
    BY <1>1
  <2> QED
    BY <1>1, <2>1 DEF Min
<1>3. Written(out, w) = {out[i].mid : i \in 1..l}
  BY DEF Written
<1> HIDE DEF l, out
<1>4. ASSUME NEW i \in 1..l PROVE out[i].mid \in Pending(io)
  <2>1. i \in 1..Len(out) /\ i \in 1..Len(D)
    <3>1. Len(D) \in Nat
      BY LenProperties DEF Orderly, IoType
    <3> HIDE DEF D
    <3> QED
      BY <1>1, <1>2, <3>1
  <2>2. out[i].mid = D[i].mid /\ D[i].mid \in Messages /\ Owner[D[i].mid] = s
    <3>1. D \in Seq(Node)
      BY DEF Orderly, IoType
    <3>2. D[i].mid \in Messages
      BY <2>1, <3>1, NodeFields
    <3> QED
      BY <1>1, <2>1, <3>2 DEF Orderly
  <2>3. D[i].mid \in Mids(D)
    BY <2>1 DEF Mids
  <2> QED
    BY <2>2, <2>3 DEF Pending
<1> QED
  BY <1>3, <1>4 DEF out

-----------------------------------------------------------------------------
(* The inductive invariant                                                 *)

(* The messages that wait or are delayed are those that nothing has ended. *)
Once == \A m \in Messages : fate[m] = "sent" <=> m \in Pending(Io)

(* How often memory was missing for a message of s that had been counted.  *)
Leak(s) == Cardinality(Leaked(s))

(* What has not been sent has not been written, and what was lost was lost
   to a non-confirmable answer.                                            *)
Recorded ==
    /\ onWire \subseteq Messages
    /\ \A m \in Messages : /\ fate[m] = "new" => m \notin onWire
                           /\ fate[m] = "lost" => "echo" \in odd

(* con_active is right, apart from that, as long as only separate responses
   have cancelled something, and what is delayed has no room.              *)
Counted ==
    odd \subseteq {"cancel", "memory"} =>
        \A s \in Sessions :
            Balance(Io, s) = Leak(s) /\ (delayqueue[s] # <<>> => conActive[s] = NStart)

(* What a message still has to wait in the queue is what it should.        *)
Timed ==
    \A x \in Mids(sendqueue) :
        /\ View(Io, x).rest <= left[x]
        /\ "cancel" \notin odd => View(Io, x).rest = left[x]

IInv ==
    /\ Orderly(Io) /\ \A z \in Sessions : conActive[z] <= NStart
    /\ sendqueue = <<>> => elapsed = 0
    /\ fate \in [Messages -> Ends \cup {"new", "sent"}]
    /\ left \in [Messages -> Int]
    /\ Once /\ Recorded /\ Counted /\ Timed

LEMMA IoFields ==
    /\ Io.queue = sendqueue /\ Io.elapsed = elapsed
    /\ Io.delayed = delayqueue /\ Io.active = conActive
BY DEF Io

LEMMA IoNextFields ==
    /\ (Io').queue = sendqueue' /\ (Io').elapsed = elapsed'
    /\ (Io').delayed = delayqueue' /\ (Io').active = conActive'
BY DEF Io

LEMMA InitIInv == Init => IInv
<1> SUFFICES ASSUME Init PROVE IInv
  OBVIOUS
<1>1. /\ sendqueue = <<>> /\ elapsed = 0
      /\ delayqueue = [s \in Sessions |-> <<>>]
      /\ conActive = [s \in Sessions |-> 0]
      /\ fate = [m \in Messages |-> "new"]
      /\ left = [m \in Messages |-> 0]
  BY DEF Init
<1>2. /\ <<>> \in Seq(Node) /\ Len(<<>>) = 0 /\ 1..0 = {}
      /\ Mids(<<>>) = {} /\ Apart(<<>>)
  BY DEF Mids, Apart
<1>3. Io \in IoType
  BY <1>1, <1>2 DEF Io, IoType
<1>4. Orderly(Io)
  BY <1>1, <1>2, <1>3, IoFields DEF Orderly
<1>5. Pending(Io) = {}
  <2>1. \A m \in Messages : delayqueue[Owner[m]] = <<>>
    BY <1>1, OwnerType
  <2> QED
    BY <1>1, <1>2, <2>1, IoFields DEF Pending
<1>6. Once /\ Recorded
  BY <1>1, <1>5 DEF Once, Recorded, Init
<1>7. Counted
  <2>1. ASSUME NEW s \in Sessions PROVE Balance(Io, s) = Leak(s)
    <3>1. Out(Io, s) = {} /\ Io.active[s] = 0 /\ Leaked(s) = {}
      BY <1>1, <1>2, IoFields DEF Out, Leaked, Init
    <3> QED
      BY <3>1, FS_EmptySet DEF Balance, Leak
  <2> QED
    BY <1>1, <2>1 DEF Counted
<1>8. Timed
  BY <1>1, <1>2 DEF Timed
<1>9. 0 <= NStart
  BY MessagesAssumption DEF MessagesAssumption
<1> QED
  BY <1>1, <1>4, <1>6, <1>7, <1>8, <1>9 DEF IInv

(* A step makes io the state of the code.                                  *)
LEMMA BecomesIo ==
    ASSUME NEW io, Orderly(io), Becomes(io)
    PROVE  /\ Orderly(Io') /\ Pending(Io') = Pending(io)
           /\ sendqueue' = io.queue /\ delayqueue' = io.delayed /\ conActive' = io.active
           /\ sendqueue' = <<>> => elapsed' = 0
           /\ \A s : Balance(Io', s) = Balance(io, s)
           /\ \A x \in Mids(io.queue) : View(Io', x) = View(io, x)
<1>1. /\ sendqueue' = io.queue /\ elapsed' = IF io.queue = <<>> THEN 0 ELSE io.elapsed
      /\ delayqueue' = io.delayed /\ conActive' = io.active
  BY DEF Becomes
<1>2. Io' \in IoType
  <2>1. /\ io.queue \in Seq(Node) /\ io.elapsed \in Nat
        /\ io.delayed \in [Sessions -> Seq(Node)] /\ io.active \in [Sessions -> Nat]
    BY DEF Orderly, IoType
  <2>2. elapsed' \in Nat
    BY <1>1, <2>1
  <2> QED
    BY <1>1, <2>1, <2>2 DEF Io, IoType
<1>3. Orderly(Io') /\ Pending(Io') = Pending(io)
  BY <1>1, <1>2, IoNextFields DEF Orderly, Pending
<1>4. \A s : Balance(Io', s) = Balance(io, s)
  BY <1>1, IoNextFields DEF Balance, Out
<1>5. ASSUME NEW x \in Mids(io.queue) PROVE View(Io', x) = View(io, x)
  <2>1. io.queue # <<>>
    <3>1. Mids(<<>>) = {}
      BY DEF Mids
    <3> QED
      BY <3>1
  <2> QED
    BY <1>1, <2>1, IoNextFields DEF View
<1> QED
  BY <1>1, <1>3, <1>4, <1>5

(* In io, x still has to wait what it had, or it starts anew.              *)
Timely(io, x, what) ==
    \/ /\ x \in Mids(sendqueue) /\ View(io, x).cnt = View(Io, x).cnt
       /\ View(io, x).rest <= View(Io, x).rest
       /\ "cancel" \notin what => View(io, x).rest = View(Io, x).rest
    \/ /\ ~(x \in Mids(sendqueue) /\ View(io, x).cnt = View(Io, x).cnt)
       /\ View(io, x).rest = Backoff(View(io, x))

(* Counted, but refused, with these fates and these messages written.      *)
Refused(fates, written, s) == {x \in written : Owner[x] = s /\ fates[x] = "refused"}

(* What a step that leads to io, to these fates and to these writes has to
   show.                                                                   *)
LandsAs(io, fates, written, what) ==
    /\ Orderly(io) /\ \A z \in Sessions : io.active[z] <= NStart
    /\ fates \in [Messages -> Ends \cup {"new", "sent"}]
    /\ \A x \in Messages : fates[x] = "sent" <=> x \in Pending(io)
    /\ written \subseteq Messages
    /\ \A x \in Messages : /\ fates[x] = "new" => x \notin onWire \cup written
                           /\ fates[x] = "lost" => "echo" \in odd \cup what
    /\ odd \cup what \subseteq {"cancel", "memory"} =>
          \A s \in Sessions :
              /\ Balance(io, s) = Cardinality(Refused(fates, onWire \cup written, s))
              /\ io.delayed[s] # <<>> => io.active[s] = NStart
    /\ \A x \in Mids(io.queue) : Timely(io, x, what)

(* The same of a step that leads to io and changes the fate of m alone.    *)
Lands(io, m, f, written, what) ==
    /\ Orderly(io) /\ \A z \in Sessions : io.active[z] <= NStart
    /\ \/ f = fate[m]
       \/ f \in {"sent", "answered", "reset", "failed", "lost"} /\ fate[m] # "refused"
    /\ f = "lost" => "echo" \in odd \cup what
    /\ Pending(io) = IF f = "sent" THEN Pending(Io) \cup {m} ELSE Pending(Io) \ {m}
    /\ \A x \in written : x \in Pending(Io) \/ (x = m /\ f = "sent")
    /\ odd \cup what \subseteq {"cancel", "memory"} =>
          \A s \in Sessions :
              Balance(io, s) = Leak(s) /\ (io.delayed[s] # <<>> => io.active[s] = NStart)
    /\ \A x \in Mids(io.queue) : Timely(io, x, what)

LEMMA LeftNext ==
    ASSUME NEW io, Orderly(io), IInv, Becomes(io),
           NEW fates, NEW written, NEW what, NoteAll(fates, written, what)
    PROVE  /\ left' \in [Messages -> Int]
           /\ \A x \in Mids(io.queue) :
                 left'[x] = IF x \in Mids(sendqueue) /\ View(io, x).cnt = View(Io, x).cnt
                            THEN left[x] ELSE Backoff(View(io, x))
<1>1. /\ Orderly(Io') /\ sendqueue' = io.queue
      /\ \A x \in Mids(io.queue) : View(Io', x) = View(io, x)
  BY BecomesIo
<1>2. /\ io.queue \in Seq(Node) /\ sendqueue \in Seq(Node) /\ left \in [Messages -> Int]
  BY IoFields DEF IInv, Orderly, IoType
<1> DEFINE r == io.queue
           new(x) == IF x \notin Mids(r) THEN 0
                     ELSE IF x \in Mids(sendqueue) /\ sendqueue[Index(sendqueue, x)].cnt
                                                     = r[Index(r, x)].cnt
                          THEN left[x] ELSE Backoff(r[Index(r, x)])
<1>3. left' = [x \in Messages |-> new(x)]
  BY <1>1 DEF NoteAll
<1>4. \A x \in Mids(sendqueue) : View(Io, x).cnt = sendqueue[Index(sendqueue, x)].cnt
  BY <1>2, EntryTypes, IoFields DEF View
<1>5. ASSUME NEW x \in Mids(r)
      PROVE  /\ View(io, x).cnt = r[Index(r, x)].cnt
             /\ Backoff(r[Index(r, x)]) = Backoff(View(io, x))
             /\ Backoff(r[Index(r, x)]) \in Nat
  <2>1. At(r, x).cnt = r[Index(r, x)].cnt /\ At(r, x).timeout = r[Index(r, x)].timeout
    BY <1>2, EntryTypes
  <2>2. View(io, x).cnt = At(r, x).cnt /\ View(io, x).timeout = At(r, x).timeout
    BY DEF View
  <2>3. r[Index(r, x)] \in Node
    <3> HIDE DEF r
    <3>1. r \in Seq(Node)
      BY <1>2 DEF r
    <3>2. Index(r, x) \in 1..Len(r)
      BY <3>1, PlaceOf
    <3> QED
      BY <3>1, <3>2, NodeFields
  <2> HIDE DEF r
  <2>4. Backoff(r[Index(r, x)]) \in Nat
    BY <2>3, NodeTimes
  <2>5. Backoff(r[Index(r, x)]) = Backoff(View(io, x))
    BY <2>1, <2>2, BackoffAlike
  <2> QED
    BY <2>1, <2>2, <2>4, <2>5
<1> HIDE DEF r
<1>6. ASSUME NEW x \in Messages PROVE new(x) \in Int
  <2>1. CASE x \notin Mids(r)
    BY <2>1
  <2>2. CASE x \in Mids(r)
    BY <1>2, <1>5, <2>2
  <2> QED
    BY <2>1, <2>2
<1>7. ASSUME NEW x \in Mids(r)
      PROVE  new(x) = IF x \in Mids(sendqueue) /\ View(io, x).cnt = View(Io, x).cnt
                      THEN left[x] ELSE Backoff(View(io, x))
  BY <1>4, <1>5
<1>8. Mids(r) \subseteq Messages
  BY <1>2, MidsFinite DEF r
<1> QED
  BY <1>3, <1>6, <1>7, <1>8 DEF r

LEMMA LandingAs ==
    ASSUME IInv, NEW io, NEW fates, NEW what, NEW written,
           LandsAs(io, fates, written, what), Becomes(io), NoteAll(fates, written, what)
    PROVE  IInv'
<1>1. /\ Orderly(io) /\ \A z \in Sessions : io.active[z] <= NStart
      /\ fates \in [Messages -> Ends \cup {"new", "sent"}]
      /\ \A x \in Messages : fates[x] = "sent" <=> x \in Pending(io)
      /\ written \subseteq Messages
      /\ \A x \in Messages : /\ fates[x] = "new" => x \notin onWire \cup written
                             /\ fates[x] = "lost" => "echo" \in odd \cup what
      /\ odd \cup what \subseteq {"cancel", "memory"} =>
            \A s \in Sessions :
                /\ Balance(io, s) = Cardinality(Refused(fates, onWire \cup written, s))
                /\ io.delayed[s] # <<>> => io.active[s] = NStart
      /\ \A x \in Mids(io.queue) : Timely(io, x, what)
  BY DEF LandsAs
<1>2. /\ Orderly(Io') /\ Pending(Io') = Pending(io)
      /\ sendqueue' = io.queue /\ delayqueue' = io.delayed /\ conActive' = io.active
      /\ sendqueue' = <<>> => elapsed' = 0
      /\ \A s : Balance(Io', s) = Balance(io, s)
      /\ \A x \in Mids(io.queue) : View(Io', x) = View(io, x)
  BY <1>1, BecomesIo
<1>3. /\ left' \in [Messages -> Int]
      /\ \A x \in Mids(io.queue) :
            left'[x] = IF x \in Mids(sendqueue) /\ View(io, x).cnt = View(Io, x).cnt
                       THEN left[x] ELSE Backoff(View(io, x))
  BY <1>1, LeftNext
<1>4. fate' = fates /\ odd' = odd \cup what /\ onWire' = onWire \cup written
  BY DEF NoteAll
<1>5. fate' \in [Messages -> Ends \cup {"new", "sent"}]
  BY <1>1, <1>4
<1>6. \A z \in Sessions : conActive'[z] <= NStart
  BY <1>1, <1>2
<1>7. \A x \in Messages : fate'[x] = "sent" <=> x \in Pending(Io')
  BY <1>1, <1>2, <1>4
<1>8. odd' \subseteq {"cancel", "memory"} =>
        \A s \in Sessions :
            Balance(Io', s) = Leak(s)' /\ (delayqueue'[s] # <<>> => conActive'[s] = NStart)
  <2>1. \A s : Leak(s)' = Cardinality(Refused(fates, onWire \cup written, s))
    BY <1>4 DEF Leak, Leaked, Refused
  <2> QED
    BY <1>1, <1>2, <1>4, <2>1
<1>9. ASSUME NEW x \in Mids(sendqueue')
      PROVE  /\ View(Io', x).rest <= left'[x]
             /\ "cancel" \notin odd' => View(Io', x).rest = left'[x]
  <2>1. x \in Mids(io.queue) /\ View(Io', x) = View(io, x) /\ Timely(io, x, what)
    BY <1>1, <1>2
  <2> DEFINE u == View(io, x).rest
             v == View(Io, x).rest
  <2>2. u \in Int
    <3>1. io.queue \in Seq(Node) /\ io.elapsed \in Nat
      BY <1>1 DEF Orderly, IoType
    <3>2. At(io.queue, x).due \in Nat
      BY <2>1, <3>1, EntryTypes
    <3> QED
      BY <3>1, <3>2 DEF View
  <2>3. CASE x \in Mids(sendqueue) /\ View(io, x).cnt = View(Io, x).cnt
    <3>1. left'[x] = left[x]
      BY <1>3, <2>1, <2>3
    <3>2. u <= v /\ ("cancel" \notin what => u = v)
      BY <2>1, <2>3 DEF Timely
    <3>3. v <= left[x] /\ ("cancel" \notin odd => v = left[x])
      BY <2>3 DEF IInv, Timed
    <3>4. v \in Int /\ left[x] \in Int
      <4>1. sendqueue \in Seq(Node) /\ elapsed \in Nat /\ left \in [Messages -> Int]
        BY IoFields DEF IInv, Orderly, IoType
      <4>2. At(sendqueue, x).due \in Nat /\ x \in Messages
        BY <2>3, <4>1, EntryTypes, MidsFinite
      <4> QED
        BY <4>1, <4>2, IoFields DEF View
    <3> HIDE DEF u, v
    <3>5. u <= left[x]
      BY <2>2, <3>2, <3>3, <3>4
    <3>6. "cancel" \notin odd' => u = left[x]
      BY <1>4, <3>2, <3>3
    <3> QED
      BY <2>1, <3>1, <3>5, <3>6 DEF u
  <2>4. CASE ~(x \in Mids(sendqueue) /\ View(io, x).cnt = View(Io, x).cnt)
    <3>1. left'[x] = Backoff(View(io, x))
      BY <1>3, <2>1, <2>4
    <3>2. u = Backoff(View(io, x))
      BY <2>1, <2>4 DEF Timely
    <3> HIDE DEF u
    <3>3. u <= left'[x] /\ u = left'[x]
      BY <2>2, <3>1, <3>2
    <3> QED
      BY <2>1, <3>3 DEF u
  <2> QED
    BY <2>3, <2>4
<1>10. Once' /\ Counted' /\ Timed'
  BY <1>7, <1>8, <1>9 DEF Once, Counted, Timed
<1>11. Recorded'
  BY <1>1, <1>4 DEF Recorded, IInv
<1> QED
  BY <1>2, <1>3, <1>5, <1>6, <1>10, <1>11 DEF IInv

LEMMA Landing ==
    ASSUME IInv, NEW m \in Messages, NEW io, NEW f, NEW what, NEW written,
           Lands(io, m, f, written, what), Becomes(io), Note(m, f, written, what)
    PROVE  IInv'
<1> DEFINE fates == [fate EXCEPT ![m] = f]
<1>1. /\ Orderly(io) /\ \A z \in Sessions : io.active[z] <= NStart
      /\ \/ f = fate[m]
         \/ f \in {"sent", "answered", "reset", "failed", "lost"} /\ fate[m] # "refused"
      /\ f = "lost" => "echo" \in odd \cup what
      /\ Pending(io) = IF f = "sent" THEN Pending(Io) \cup {m} ELSE Pending(Io) \ {m}
      /\ \A x \in written : x \in Pending(Io) \/ (x = m /\ f = "sent")
      /\ odd \cup what \subseteq {"cancel", "memory"} =>
            \A s \in Sessions :
                Balance(io, s) = Leak(s) /\ (io.delayed[s] # <<>> => io.active[s] = NStart)
      /\ \A x \in Mids(io.queue) : Timely(io, x, what)
  BY DEF Lands
<1>2. /\ fate \in [Messages -> Ends \cup {"new", "sent"}] /\ onWire \subseteq Messages
      /\ \A x \in Messages : /\ fate[x] = "sent" <=> x \in Pending(Io)
                             /\ fate[x] = "new" => x \notin onWire
                             /\ fate[x] = "lost" => "echo" \in odd
  BY DEF IInv, Once, Recorded
<1>3. Pending(Io) \subseteq Messages
  BY DEF Pending
<1>4. /\ fates[m] = f /\ \A x \in Messages \ {m} : fates[x] = fate[x]
      /\ fates \in [Messages -> Ends \cup {"new", "sent"}]
  <2>1. f \in Ends \cup {"new", "sent"}
    BY <1>1, <1>2 DEF Ends
  <2> QED
    BY <1>2, <2>1
<1> HIDE DEF fates
<1>5. \A x \in Messages : fates[x] = "sent" <=> x \in Pending(io)
  BY <1>1, <1>2, <1>4
<1>6. written \subseteq Messages
  BY <1>1, <1>3
<1>7. \A x \in written : fates[x] # "new" /\ fates[x] # "refused"
  BY <1>1, <1>2, <1>3, <1>4
<1>8. \A x \in Messages : /\ fates[x] = "new" => x \notin onWire \cup written
                          /\ fates[x] = "lost" => "echo" \in odd \cup what
  BY <1>1, <1>2, <1>4, <1>7
<1>9. \A s : Refused(fates, onWire \cup written, s) = Leaked(s)
  <2>1. \A x \in onWire : fates[x] = "refused" <=> fate[x] = "refused"
    BY <1>1, <1>2, <1>4
  <2> QED
    BY <1>7, <2>1 DEF Refused, Leaked
<1>10. LandsAs(io, fates, written, what)
  BY <1>1, <1>4, <1>5, <1>6, <1>8, <1>9 DEF LandsAs, Leak
<1>11. NoteAll(fates, written, what)
  BY DEF Note, fates
<1> QED
  BY <1>10, <1>11, LandingAs

-----------------------------------------------------------------------------
(* Each action preserves it                                                *)

(* The invariant, as the operators above take it.                          *)
LEMMA IInvFacts ==
    ASSUME IInv
    PROVE  /\ Orderly(Io) /\ Io \in IoType /\ Apart(sendqueue)
           /\ sendqueue \in Seq(Node) /\ elapsed \in Nat
           /\ delayqueue \in [Sessions -> Seq(Node)] /\ conActive \in [Sessions -> Nat]
           /\ \A z \in Sessions : Io.active[z] <= NStart
           /\ Mids(sendqueue) \subseteq Messages
           /\ NStart \in Nat /\ NStart > 0
           /\ Writes \subseteq Nat
           /\ \A m \in Messages : fate[m] = "sent" <=> m \in Pending(Io)
           /\ odd \subseteq {"cancel", "memory"} =>
                \A s \in Sessions :
                    Balance(Io, s) = Leak(s) /\ (delayqueue[s] # <<>> => conActive[s] = NStart)
           /\ odd \subseteq {"cancel", "memory"} =>
                \A m \in Mids(sendqueue) : conActive[Owner[m]] > 0
           /\ \A s : Leak(s) \in Nat
           /\ \A m \in Mids(sendqueue) : m \in Pending(Io) /\ fate[m] = "sent"
<1>1. /\ Orderly(Io) /\ Io \in IoType /\ Apart(sendqueue)
      /\ sendqueue \in Seq(Node) /\ elapsed \in Nat
      /\ delayqueue \in [Sessions -> Seq(Node)] /\ conActive \in [Sessions -> Nat]
      /\ \A z \in Sessions : Io.active[z] <= NStart
  BY IoFields DEF IInv, Orderly, IoType
<1>2. Mids(sendqueue) \subseteq Messages
  BY <1>1, MidsFinite
<1>3. NStart \in Nat /\ NStart > 0
  BY MessagesAssumption DEF MessagesAssumption
<1>4. Writes \subseteq Nat
  BY <1>3 DEF Writes
<1>5. /\ \A m \in Messages : fate[m] = "sent" <=> m \in Pending(Io)
      /\ odd \subseteq {"cancel", "memory"} =>
           \A s \in Sessions :
               Balance(Io, s) = Leak(s) /\ (delayqueue[s] # <<>> => conActive[s] = NStart)
  BY DEF IInv, Once, Counted
<1>6. ASSUME NEW s PROVE Leak(s) \in Nat
  <2>1. IsFiniteSet(Messages) /\ Leaked(s) \subseteq Messages
    BY MessagesAssumption DEF MessagesAssumption, IInv, Recorded, Leaked
  <2>2. IsFiniteSet(Leaked(s))
    BY <2>1, FS_Subset
  <2> QED
    BY <2>2, FS_CardinalityType DEF Leak
<1>7. \A m \in Mids(sendqueue) : m \in Pending(Io) /\ fate[m] = "sent"
  BY <1>2, <1>5, IoFields DEF Pending
<1>8. ASSUME odd \subseteq {"cancel", "memory"}, NEW m \in Mids(sendqueue)
      PROVE  conActive[Owner[m]] > 0
  <2> DEFINE s == Owner[m]
  <2>1. s \in Sessions /\ m \in Out(Io, s)
    BY <1>2, OwnerType, IoFields DEF Out
  <2>2. IsFiniteSet(Out(Io, s)) /\ Cardinality(Out(Io, s)) \in Nat
    BY <1>1, OutFinite
  <2>3. Cardinality(Out(Io, s)) # 0
    BY <2>1, <2>2, FS_EmptySet
  <2>4. conActive[s] - Cardinality(Out(Io, s)) = Leak(s) /\ conActive[s] \in Nat
    BY <1>1, <1>5, <1>8, <2>1, IoFields DEF Balance
  <2>5. Leak(s) \in Nat
    BY <1>6
  <2> QED
    BY <2>2, <2>3, <2>4, <2>5
<1> QED
  BY <1>1, <1>2, <1>3, <1>4, <1>5, <1>6, <1>7, <1>8

LEMMA FailedIsWrite ==
    ASSUME NEW flushed, NEW w, NEW what, what \cup Failed(flushed, w) \subseteq {"cancel", "memory"}
    PROVE  what \subseteq {"cancel", "memory"} /\ Failed(flushed, w) = {}
<1>1. Failed(flushed, w) \subseteq {"write"} /\ Failed(flushed, w) \subseteq {"cancel", "memory"}
  BY DEF Failed
<1> QED
  BY <1>1

(* What ends a message that is taken out of the queue before the others are
   flushed: its acknowledgement, a separate response, and the last timeout. *)
LEMMA EndedStep ==
    ASSUME IInv, NEW m \in Mids(sendqueue), NEW e \in BOOLEAN, NEW a, Leaves(Io, m, e, a),
           NEW f \in {"answered", "failed"}, NEW what, e \/ "cancel" \in what,
           Ended(a, m, f, what)
    PROVE  IInv'
<1> DEFINE s == Owner[m]
           writes(w) == Written(Flushed(a, s, w), w)
<1>1. PICK w \in Writes :
         /\ Becomes(Finished(a, s, w))
         /\ Note(m, f, writes(w), what \cup Failed(Flushed(a, s, w), w))
  BY DEF Ended
<1> DEFINE b == Finished(a, s, w)
           written == writes(w)
           fails == Failed(Flushed(a, s, w), w)
<1>2. m \in Messages /\ s \in Sessions /\ w \in Nat /\ m \in Mids(Io.queue)
  BY IInvFacts, OwnerType, IoFields
<1>3. /\ Orderly(a) /\ Pending(a) = Pending(Io) \ {m}
      /\ \A z \in Sessions : Balance(a, z) = Balance(Io, z) + (IF z = s THEN 1 ELSE 0)
  <2>1. Orderly(Io)
    BY IInvFacts
  <2> QED
    BY <1>2, <2>1, LeavesOrderly
<1>4. /\ a.delayed = delayqueue /\ a.active = conActive
      /\ Mids(a.queue) = Mids(sendqueue) \ {m}
      /\ \A x \in Mids(a.queue) : /\ View(a, x).cnt = View(Io, x).cnt
                                  /\ View(a, x).rest <= View(Io, x).rest
                                  /\ e => View(a, x).rest = View(Io, x).rest
  BY IoFields DEF Leaves
<1>5. Settles(a, s, w, b) /\ written \subseteq Pending(a)
  <2>1. \A z \in Sessions : a.active[z] <= NStart
    BY <1>4, IInvFacts, IoFields
  <2> HIDE DEF s
  <2> QED
    BY <1>2, <1>3, <2>1, FinishedEffect, FlushedWaited
<1> HIDE DEF b, writes, written
<1>6. /\ Orderly(b) /\ Pending(b) = Pending(a)
      /\ \A z \in Sessions : b.active[z] <= NStart
      /\ \A z \in Sessions :
            Balance(b, z) = Balance(a, z) - (IF z = s /\ a.active[s] > 0 THEN 1 ELSE 0)
      /\ \A z \in Sessions \ {s} : b.active[z] = a.active[z] /\ b.delayed[z] = a.delayed[z]
      /\ a.active[s] > 0 /\ fails = {} => b.delayed[s] = <<>> \/ b.active[s] = NStart
      /\ Mids(a.queue) \subseteq Mids(b.queue)
      /\ \A x \in Mids(a.queue) : View(b, x) = View(a, x)
      /\ \A x \in Mids(b.queue) \ Mids(a.queue) : View(b, x).rest = Backoff(View(b, x))
  BY <1>5 DEF Settles
<1> HIDE DEF s
<1>7. /\ Pending(b) = IF f = "sent" THEN Pending(Io) \cup {m} ELSE Pending(Io) \ {m}
      /\ \A x \in written : x \in Pending(Io)
      /\ f \in {"answered", "failed"} /\ fate[m] # "refused"
  BY <1>3, <1>5, <1>6, IInvFacts
<1>8. ASSUME odd \cup (what \cup fails) \subseteq {"cancel", "memory"}, NEW z \in Sessions
      PROVE  Balance(b, z) = Leak(z) /\ (b.delayed[z] # <<>> => b.active[z] = NStart)
  <2>1. odd \subseteq {"cancel", "memory"} /\ fails = {}
    BY <1>8, FailedIsWrite
  <2>2. Balance(Io, z) = Leak(z) /\ (delayqueue[z] # <<>> => conActive[z] = NStart)
    BY <2>1, IInvFacts
  <2>3. a.active[s] > 0
    BY <1>4, <2>1, IInvFacts DEF s
  <2> HIDE DEF fails
  <2>4. Balance(b, z) = Leak(z)
    <3>1. Leak(z) \in Nat
      BY IInvFacts
    <3>2. /\ Balance(a, z) = Leak(z) + (IF z = s THEN 1 ELSE 0)
          /\ Balance(b, z) = Balance(a, z) - (IF z = s THEN 1 ELSE 0)
      BY <1>3, <1>6, <2>2, <2>3
    <3> QED
      BY <3>1, <3>2
  <2>5. b.delayed[z] # <<>> => b.active[z] = NStart
    BY <1>4, <1>6, <2>1, <2>2, <2>3
  <2> QED
    BY <2>4, <2>5
<1>9. ASSUME NEW x \in Mids(b.queue) PROVE Timely(b, x, what \cup fails)
  <2>1. CASE x \in Mids(a.queue)
    <3>1. /\ x \in Mids(sendqueue) /\ View(b, x).cnt = View(Io, x).cnt
          /\ View(b, x).rest <= View(Io, x).rest
          /\ e => View(b, x).rest = View(Io, x).rest
      BY <1>4, <1>6, <2>1
    <3> HIDE DEF fails
    <3>2. "cancel" \notin what \cup fails => e
      OBVIOUS
    <3> QED
      BY <3>1, <3>2 DEF Timely
  <2>2. CASE x \notin Mids(a.queue)
    <3>1. View(b, x).rest = Backoff(View(b, x))
      BY <1>6, <2>2
    <3>2. x # m
      <4>1. b.queue \in Seq(Node)
        BY <1>6 DEF Orderly, IoType
      <4>2. x \in Pending(b)
        BY <4>1, MidsFinite DEF Pending
      <4> QED
        BY <1>3, <1>6, <4>2
    <3>3. x \notin Mids(sendqueue)
      BY <1>4, <2>2, <3>2
    <3> QED
      BY <3>1, <3>3 DEF Timely
  <2> QED
    BY <2>1, <2>2
<1>10. Lands(b, m, f, written, what \cup fails)
  <2> HIDE DEF fails
  <2> QED
    BY <1>6, <1>7, <1>8, <1>9 DEF Lands
<1> QED
  BY <1>1, <1>2, <1>10, Landing DEF b, s, written

LEMMA AckStep ==
    ASSUME IInv, NEW m \in Messages, ReceiveAck(m)
    PROVE  IInv'
<1>1. m \in Mids(sendqueue) /\ Ended(Without(m), m, "answered", {})
  BY DEF ReceiveAck, Waits
<1>2. Leaves(Io, m, TRUE, Without(m))
  <2>1. Io \in IoType /\ Apart(Io.queue) /\ m \in Mids(Io.queue)
    BY <1>1, IInvFacts, IoFields
  <2> QED
    BY <2>1, RemoveEffect DEF Without
<1> QED
  BY <1>1, <1>2, EndedStep

LEMMA SeparateStep ==
    ASSUME IInv, NEW m \in Messages, ReceiveSeparate(m)
    PROVE  IInv'
<1> DEFINE i == Index(sendqueue, m)
           a == Unlinked(Io, m)
           what == Cancels(Io, m)
<1>1. m \in Mids(sendqueue) /\ Ended(a, m, "answered", what)
  BY DEF ReceiveSeparate, Waits
<1>2. Leaves(Io, m, i = Len(sendqueue), a)
  <2>1. Io \in IoType /\ Apart(Io.queue) /\ m \in Mids(Io.queue)
    BY <1>1, IInvFacts, IoFields
  <2> QED
    BY <2>1, UnlinkEffect, IoFields DEF Unlinked
<1>3. i = Len(sendqueue) \/ "cancel" \in what
  <2>1. sendqueue \in Seq(Node)
    BY IInvFacts
  <2>2. i \in 1..Len(sendqueue) /\ Len(sendqueue) \in Nat
    BY <1>1, <2>1, PlaceOf, LenProperties
  <2>3. what = IF i < Len(sendqueue) THEN {"cancel"} ELSE {}
    BY IoFields DEF Cancels
  <2> HIDE DEF i, what
  <2> QED
    BY <2>2, <2>3
<1>4. (i = Len(sendqueue)) \in BOOLEAN
  OBVIOUS
<1> HIDE DEF i, a, what
<1> QED
  BY <1>1, <1>2, <1>3, <1>4, EndedStep

(* The node that is due first.                                             *)
LEMMA HeadWaits ==
    ASSUME IInv, sendqueue # <<>>
    PROVE  LET n == Head(sendqueue)
           IN  /\ n \in Node /\ n.mid \in Mids(sendqueue) /\ n.mid \in Messages
               /\ n.cnt \in Nat /\ View(Io, n.mid).cnt = n.cnt
<1> DEFINE n == sendqueue[1]
<1>1. sendqueue \in Seq(Node) /\ Apart(sendqueue)
  BY IInvFacts
<1>2. Head(sendqueue) = n
  BY <1>1
<1>3. 1 \in 1..Len(sendqueue)
  BY <1>1, LenProperties, EmptySeq
<1>4. n \in Node /\ n.mid \in Messages
  BY <1>1, <1>3, NodeFields
<1>5. n.mid \in Mids(sendqueue) /\ Index(sendqueue, n.mid) = 1
  BY <1>1, <1>3, OnePlace
<1>6. n.cnt \in Nat
  BY <1>4, NodeTimes
<1>7. At(sendqueue, n.mid).cnt = n.cnt
  BY <1>5 DEF At, Entry
<1>8. View(Io, n.mid).cnt = n.cnt
  BY <1>7, IoFields DEF View
<1> QED
  BY <1>2, <1>4, <1>5, <1>6, <1>8

LEMMA GiveUpStep ==
    ASSUME IInv, GiveUp
    PROVE  IInv'
<1> DEFINE m == Head(sendqueue).mid
<1>1. sendqueue # <<>> /\ Ended(Without(m), m, "failed", {})
  BY DEF GiveUp, HeadDue
<1>2. m \in Mids(sendqueue)
  BY <1>1, HeadWaits
<1> HIDE DEF m
<1>3. Leaves(Io, m, TRUE, Without(m))
  <2>1. Io \in IoType /\ Apart(Io.queue) /\ m \in Mids(Io.queue)
    BY <1>2, IInvFacts, IoFields
  <2> QED
    BY <2>1, RemoveEffect DEF Without
<1> QED
  BY <1>1, <1>2, <1>3, EndedStep

(* The message is still in the queue when the others are flushed.          *)
LEMMA ResetOfOneThatWaits ==
    ASSUME IInv, NEW m \in Mids(sendqueue), NEW w \in Writes,
           Becomes([Finished(Io, Owner[m], w) EXCEPT !.queue = RemoveNode(@, Index(@, m))]),
           Note(m, "reset", Written(Flushed(Io, Owner[m], w), w),
                Failed(Flushed(Io, Owner[m], w), w))
    PROVE  IInv'
<1> DEFINE s == Owner[m]
           a == Finished(Io, s, w)
           b == [a EXCEPT !.queue = RemoveNode(@, Index(@, m))]
           written == Written(Flushed(Io, s, w), w)
           fails == Failed(Flushed(Io, s, w), w)
<1>1. /\ m \in Messages /\ s \in Sessions /\ w \in Nat
      /\ Orderly(Io) /\ \A z \in Sessions : Io.active[z] <= NStart
  BY IInvFacts, OwnerType
<1>2. Settles(Io, s, w, a) /\ written \subseteq Pending(Io)
  <2> HIDE DEF s
  <2> QED
    BY <1>1, FinishedEffect, FlushedWaited
<1> HIDE DEF a, written
<1>3. /\ Orderly(a) /\ Pending(a) = Pending(Io)
      /\ \A z \in Sessions : a.active[z] <= NStart
      /\ \A z \in Sessions :
            Balance(a, z) = Balance(Io, z) - (IF z = s /\ conActive[s] > 0 THEN 1 ELSE 0)
      /\ \A z \in Sessions \ {s} : a.active[z] = conActive[z] /\ a.delayed[z] = delayqueue[z]
      /\ conActive[s] > 0 /\ fails = {} => a.delayed[s] = <<>> \/ a.active[s] = NStart
      /\ Mids(sendqueue) \subseteq Mids(a.queue)
      /\ \A x \in Mids(sendqueue) : View(a, x) = View(Io, x)
      /\ \A x \in Mids(a.queue) \ Mids(sendqueue) : View(a, x).rest = Backoff(View(a, x))
  BY <1>2, IoFields DEF Settles
<1>4. Leaves(a, m, TRUE, b)
  <2>1. a \in IoType /\ Apart(a.queue) /\ m \in Mids(a.queue)
    BY <1>3 DEF Orderly
  <2> QED
    BY <2>1, RemoveEffect
<1> HIDE DEF b
<1>5. /\ Orderly(b) /\ Pending(b) = Pending(a) \ {m}
      /\ \A z \in Sessions : Balance(b, z) = Balance(a, z) + (IF z = s THEN 1 ELSE 0)
  <2>1. Orderly(a) /\ m \in Mids(a.queue)
    BY <1>3
  <2>2. PICK e : Leaves(a, m, e, b)
    BY <1>4
  <2> HIDE DEF s
  <2>3. /\ Orderly(b) /\ Pending(b) = Pending(a) \ {m}
        /\ \A z \in Sessions : Balance(b, z) = Balance(a, z) + (IF z = Owner[m] THEN 1 ELSE 0)
    BY <2>1, <2>2, LeavesOrderly
  <2> QED
    BY <2>3 DEF s
<1>6. /\ b.delayed = a.delayed /\ b.active = a.active
      /\ Mids(b.queue) = Mids(a.queue) \ {m}
      /\ \A x \in Mids(b.queue) : /\ View(b, x).cnt = View(a, x).cnt
                                  /\ View(b, x).timeout = View(a, x).timeout
                                  /\ View(b, x).rest = View(a, x).rest
  BY <1>4 DEF Leaves
<1> HIDE DEF s
<1>7. ASSUME odd \cup fails \subseteq {"cancel", "memory"}, NEW z \in Sessions
      PROVE  Balance(b, z) = Leak(z) /\ (b.delayed[z] # <<>> => b.active[z] = NStart)
  <2>1. odd \subseteq {"cancel", "memory"} /\ fails = {}
    <3>1. odd \subseteq {"cancel", "memory"} /\ {} \cup fails \subseteq {"cancel", "memory"}
      BY <1>7
    <3> QED
      BY <3>1, FailedIsWrite
  <2>2. Balance(Io, z) = Leak(z) /\ (delayqueue[z] # <<>> => conActive[z] = NStart)
    BY <2>1, IInvFacts
  <2>3. conActive[s] > 0
    BY <2>1, IInvFacts DEF s
  <2> HIDE DEF fails
  <2>4. Balance(b, z) = Leak(z)
    BY <1>3, <1>5, <2>2, <2>3, IInvFacts
  <2>5. b.delayed[z] # <<>> => b.active[z] = NStart
    BY <1>3, <1>6, <2>1, <2>2, <2>3
  <2> QED
    BY <2>4, <2>5
<1>8. ASSUME NEW x \in Mids(b.queue) PROVE Timely(b, x, fails)
  <2>0. x \in Mids(a.queue) /\ x # m
    BY <1>6
  <2>1. CASE x \in Mids(sendqueue)
    <3>1. View(b, x).cnt = View(Io, x).cnt /\ View(b, x).rest = View(Io, x).rest
      BY <1>3, <1>6, <2>1
    <3>2. View(Io, x).rest \in Int
      <4>1. sendqueue \in Seq(Node) /\ elapsed \in Nat
        BY IInvFacts
      <4>2. At(sendqueue, x).due \in Nat
        BY <2>1, <4>1, EntryTypes
      <4> QED
        BY <4>1, <4>2, IoFields DEF View
    <3>3. View(b, x).rest <= View(Io, x).rest
      BY <3>1, <3>2
    <3> QED
      BY <2>1, <3>1, <3>3 DEF Timely
  <2>2. CASE x \notin Mids(sendqueue)
    <3>1. View(a, x).rest = Backoff(View(a, x))
      BY <1>3, <2>0, <2>2
    <3>2. Backoff(View(b, x)) = Backoff(View(a, x))
      BY <1>6, BackoffAlike
    <3> QED
      BY <1>6, <2>2, <3>1, <3>2 DEF Timely
  <2> QED
    BY <2>1, <2>2
<1>9. Lands(b, m, "reset", written, fails)
  <2>1. Pending(b) = Pending(Io) \ {m} /\ \A z \in Sessions : b.active[z] <= NStart
    BY <1>3, <1>5, <1>6
  <2>2. fate[m] # "refused"
    BY IInvFacts
  <2> HIDE DEF fails
  <2> QED
    BY <1>2, <1>5, <1>7, <1>8, <2>1, <2>2 DEF Lands
<1> QED
  BY <1>1, <1>9, Landing DEF b, a, s, written

(* A reset for a message that does not wait: only the counter and what is
   delayed are touched.                                                    *)
LEMMA ResetOfAnother ==
    ASSUME IInv, NEW m \in Messages, Ended(Io, m, fate[m], {"reset"})
    PROVE  IInv'
<1> DEFINE s == Owner[m]
<1>1. PICK w \in Writes :
         /\ Becomes(Finished(Io, s, w))
         /\ Note(m, fate[m], Written(Flushed(Io, s, w), w),
                 {"reset"} \cup Failed(Flushed(Io, s, w), w))
  BY DEF Ended
<1> DEFINE a == Finished(Io, s, w)
           written == Written(Flushed(Io, s, w), w)
           what == {"reset"} \cup Failed(Flushed(Io, s, w), w)
<1>2. /\ s \in Sessions /\ w \in Nat
      /\ Orderly(Io) /\ \A z \in Sessions : Io.active[z] <= NStart
  BY IInvFacts, OwnerType
<1>3. Settles(Io, s, w, a) /\ written \subseteq Pending(Io)
  <2> HIDE DEF s
  <2> QED
    BY <1>2, FinishedEffect, FlushedWaited
<1> HIDE DEF a, written
<1>4. /\ Orderly(a) /\ Pending(a) = Pending(Io)
      /\ \A z \in Sessions : a.active[z] <= NStart
      /\ Mids(sendqueue) \subseteq Mids(a.queue)
      /\ \A x \in Mids(sendqueue) : View(a, x) = View(Io, x)
      /\ \A x \in Mids(a.queue) \ Mids(sendqueue) : View(a, x).rest = Backoff(View(a, x))
  BY <1>3, IoFields DEF Settles
<1>5. ASSUME NEW x \in Mids(a.queue) PROVE Timely(a, x, what)
  <2>1. CASE x \in Mids(sendqueue)
    <3>1. View(a, x) = View(Io, x)
      BY <1>4, <2>1
    <3>2. View(Io, x).rest \in Int
      <4>1. sendqueue \in Seq(Node) /\ elapsed \in Nat
        BY IInvFacts
      <4>2. At(sendqueue, x).due \in Nat
        BY <2>1, <4>1, EntryTypes
      <4> QED
        BY <4>1, <4>2, IoFields DEF View
    <3>3. View(a, x).rest <= View(Io, x).rest
      BY <3>1, <3>2
    <3> QED
      BY <2>1, <3>1, <3>3 DEF Timely
  <2>2. CASE x \notin Mids(sendqueue)
    BY <1>4, <2>2 DEF Timely
  <2> QED
    BY <2>1, <2>2
<1>6. ~(odd \cup what \subseteq {"cancel", "memory"})
  OBVIOUS
<1>7. fate[m] = "lost" => "echo" \in odd
  BY DEF IInv, Recorded
<1>8. Pending(a) = IF fate[m] = "sent" THEN Pending(Io) \cup {m} ELSE Pending(Io) \ {m}
  BY <1>4, IInvFacts
<1> HIDE DEF what
<1>9. Lands(a, m, fate[m], written, what)
  BY <1>3, <1>4, <1>5, <1>6, <1>7, <1>8 DEF Lands
<1> QED
  BY <1>1, <1>9, Landing DEF a, what, written

LEMMA ResetStep ==
    ASSUME IInv, NEW m \in Messages, ReceiveReset(m)
    PROVE  IInv'
<1>1. CASE m \in Mids(sendqueue)
           /\ \E w \in Writes :
                 /\ Becomes([Finished(Io, Owner[m], w) EXCEPT
                                !.queue = RemoveNode(@, Index(@, m))])
                 /\ Note(m, "reset", Written(Flushed(Io, Owner[m], w), w),
                         Failed(Flushed(Io, Owner[m], w), w))
  BY <1>1, ResetOfOneThatWaits
<1>2. CASE Ended(Io, m, fate[m], {"reset"})
  BY <1>2, ResetOfAnother
<1> QED
  BY <1>1, <1>2 DEF ReceiveReset, Waits

(* A non-confirmable answer takes the message whose id it has out of the
   queue, and counts nothing.                                              *)
LEMMA EchoTakesOut ==
    ASSUME IInv, NEW m \in Mids(sendqueue), NEW f \in {"answered", "lost"},
           Becomes(Without(m)), Note(m, f, {}, {"echo"})
    PROVE  IInv'
<1> DEFINE a == Without(m)
           what == {"echo"}
<1>1. Leaves(Io, m, TRUE, a)
  <2>1. Io \in IoType /\ Apart(Io.queue) /\ m \in Mids(Io.queue)
    BY IInvFacts, IoFields
  <2> QED
    BY <2>1, RemoveEffect DEF Without
<1> HIDE DEF a
<1>2. Orderly(a) /\ Pending(a) = Pending(Io) \ {m}
  <2>1. Orderly(Io) /\ m \in Mids(Io.queue)
    BY IInvFacts, IoFields
  <2> QED
    BY <1>1, <2>1, LeavesOrderly
<1>3. /\ a.active = conActive /\ Mids(a.queue) = Mids(sendqueue) \ {m}
      /\ \A x \in Mids(a.queue) : /\ View(a, x).cnt = View(Io, x).cnt
                                  /\ View(a, x).rest <= View(Io, x).rest
                                  /\ View(a, x).rest = View(Io, x).rest
  BY <1>1, IoFields DEF Leaves
<1>4. \A x \in Mids(a.queue) : Timely(a, x, what)
  BY <1>3 DEF Timely
<1>5. ~(odd \cup what \subseteq {"cancel", "memory"}) /\ "echo" \in odd \cup what
  OBVIOUS
<1>6. \A z \in Sessions : a.active[z] <= NStart
  BY <1>3, IInvFacts, IoFields
<1>7. m \in Messages /\ fate[m] = "sent"
  BY IInvFacts
<1> HIDE DEF what
<1>8. Lands(a, m, f, {}, what)
  BY <1>2, <1>4, <1>5, <1>6, <1>7 DEF Lands
<1> QED
  BY <1>7, <1>8, Landing DEF a, what

LEMMA RestIsInt ==
    ASSUME NEW io \in IoType, NEW x \in Mids(io.queue)
    PROVE  View(io, x).rest \in Int
<1>1. io.queue \in Seq(Node) /\ io.elapsed \in Nat
  BY DEF IoType
<1>2. At(io.queue, x).due \in Nat
  BY <1>1, EntryTypes
<1> QED
  BY <1>1, <1>2 DEF View

(* It takes one message out of the queue by its id, and then another one by
   its token; that one is counted, and the flush takes its turn.           *)
LEMMA EchoTakesTwo ==
    ASSUME IInv, NEW m \in Mids(sendqueue), NEW x \in Mids(sendqueue), x # m,
           NEW w \in Writes,
           Becomes(Finished(Unlinked(Without(x), m), Owner[m], w)),
           NoteAll([fate EXCEPT ![x] = "lost", ![m] = "answered"],
                   Written(Flushed(Unlinked(Without(x), m), Owner[m], w), w),
                   {"echo"} \cup Cancels(Without(x), m)
                      \cup Failed(Flushed(Unlinked(Without(x), m), Owner[m], w), w))
    PROVE  IInv'
<1> DEFINE s == Owner[m]
           r == Without(x)
           a == Unlinked(r, m)
           b == Finished(a, s, w)
           fates == [fate EXCEPT ![x] = "lost", ![m] = "answered"]
           written == Written(Flushed(a, s, w), w)
           what == {"echo"} \cup Cancels(r, m) \cup Failed(Flushed(a, s, w), w)
           e == Index(r.queue, m) = Len(r.queue)
<1>1. /\ m \in Messages /\ x \in Messages /\ s \in Sessions /\ w \in Nat
      /\ Orderly(Io) /\ Io \in IoType /\ \A z \in Sessions : conActive[z] <= NStart
      /\ fate[m] = "sent" /\ fate[x] = "sent"
  BY IInvFacts, IoFields, OwnerType
<1>2. Leaves(Io, x, TRUE, r)
  <2>1. Apart(Io.queue) /\ x \in Mids(Io.queue)
    BY <1>1, IoFields DEF Orderly
  <2> QED
    BY <1>1, <2>1, RemoveEffect DEF Without
<1> HIDE DEF r
<1>3. Orderly(r) /\ Pending(r) = Pending(Io) \ {x}
  <2>1. x \in Mids(Io.queue)
    BY IoFields
  <2> QED
    BY <1>1, <1>2, <2>1, LeavesOrderly
<1>4. /\ r \in IoType /\ r.delayed = delayqueue /\ r.active = conActive
      /\ Mids(r.queue) = Mids(sendqueue) \ {x} /\ m \in Mids(r.queue)
      /\ \A y \in Mids(r.queue) : /\ View(r, y).cnt = View(Io, y).cnt
                                  /\ View(r, y).rest = View(Io, y).rest
  BY <1>2, IoFields DEF Leaves
<1>5. Leaves(r, m, e, a)
  <2>1. Apart(r.queue)
    BY <1>3 DEF Orderly
  <2> QED
    BY <1>4, <2>1, UnlinkEffect DEF Unlinked
<1> HIDE DEF a
<1>6. e \/ "cancel" \in Cancels(r, m)
  <2>1. r.queue \in Seq(Node)
    BY <1>4 DEF IoType
  <2>2. Index(r.queue, m) \in 1..Len(r.queue) /\ Len(r.queue) \in Nat
    BY <1>4, <2>1, PlaceOf, LenProperties
  <2>3. Index(r.queue, m) = Len(r.queue) \/ Index(r.queue, m) < Len(r.queue)
    BY <2>2
  <2> QED
    BY <2>3 DEF Cancels
<1> HIDE DEF e
<1>7. Orderly(a) /\ Pending(a) = Pending(r) \ {m}
  BY <1>3, <1>4, <1>5, LeavesOrderly
<1>8. /\ a \in IoType /\ a.delayed = delayqueue /\ a.active = conActive
      /\ Mids(a.queue) = (Mids(sendqueue) \ {x}) \ {m}
      /\ \A y \in Mids(a.queue) : /\ View(a, y).cnt = View(Io, y).cnt
                                  /\ View(a, y).rest <= View(Io, y).rest
                                  /\ e => View(a, y).rest = View(Io, y).rest
  BY <1>4, <1>5 DEF Leaves
<1>9. Settles(a, s, w, b) /\ written \subseteq Pending(a)
  <2>1. \A z \in Sessions : a.active[z] <= NStart
    BY <1>1, <1>8
  <2> HIDE DEF s
  <2> QED
    BY <1>1, <1>7, <2>1, FinishedEffect, FlushedWaited
<1> HIDE DEF b, s, written
<1>10. /\ Orderly(b) /\ Pending(b) = Pending(a)
       /\ \A z \in Sessions : b.active[z] <= NStart
       /\ Mids(a.queue) \subseteq Mids(b.queue)
       /\ \A y \in Mids(a.queue) : View(b, y) = View(a, y)
       /\ \A y \in Mids(b.queue) \ Mids(a.queue) : View(b, y).rest = Backoff(View(b, y))
  BY <1>9 DEF Settles
<1>11. ASSUME NEW y \in Mids(b.queue) PROVE Timely(b, y, what)
  <2>1. "cancel" \notin what => e
    BY <1>6
  <2> HIDE DEF what
  <2>2. CASE y \in Mids(a.queue)
    <3>1. /\ y \in Mids(sendqueue) /\ View(b, y).cnt = View(Io, y).cnt
          /\ View(b, y).rest <= View(Io, y).rest
          /\ e => View(b, y).rest = View(Io, y).rest
      BY <1>8, <1>10, <2>2
    <3> QED
      BY <2>1, <3>1 DEF Timely
  <2>3. CASE y \notin Mids(a.queue)
    <3>1. b.queue \in Seq(Node)
      BY <1>10 DEF Orderly, IoType
    <3>2. y \in Pending(b)
      BY <3>1, MidsFinite DEF Pending
    <3>3. y \notin Mids(sendqueue)
      BY <1>3, <1>7, <1>8, <1>10, <2>3, <3>2
    <3> QED
      BY <1>10, <2>3, <3>3 DEF Timely
  <2> QED
    BY <2>2, <2>3
<1>12. /\ fates[x] = "lost" /\ fates[m] = "answered"
       /\ \A y \in Messages : y # x /\ y # m => fates[y] = fate[y]
       /\ fates \in [Messages -> Ends \cup {"new", "sent"}]
  <2>1. fate \in [Messages -> Ends \cup {"new", "sent"}]
    BY DEF IInv
  <2>2. "lost" \in Ends /\ "answered" \in Ends
    BY DEF Ends
  <2> QED
    BY <1>1, <2>1, <2>2
<1> HIDE DEF fates
<1>13. \A y \in Messages : fates[y] = "sent" <=> y \in Pending(b)
  BY <1>3, <1>7, <1>10, <1>12, IInvFacts
<1>14. written \subseteq Messages /\ \A y \in written : fates[y] = "sent"
  BY <1>9, <1>10, <1>13 DEF Pending
<1>15. ~(odd \cup what \subseteq {"cancel", "memory"}) /\ "echo" \in odd \cup what
  OBVIOUS
<1>16. \A y \in Messages : /\ fates[y] = "new" => y \notin onWire \cup written
                           /\ fates[y] = "lost" => "echo" \in odd \cup what
  <2>1. \A y \in Messages : fate[y] = "new" => y \notin onWire
    BY DEF IInv, Recorded
  <2> QED
    BY <1>12, <1>14, <1>15, <2>1
<1> HIDE DEF what
<1>17. LandsAs(b, fates, written, what)
  BY <1>10, <1>11, <1>12, <1>13, <1>14, <1>15, <1>16 DEF LandsAs
<1> QED
  BY <1>17, LandingAs DEF b, a, r, s, fates, written, what

LEMMA EchoStep ==
    ASSUME IInv, NEW m \in Messages, NEW x \in Messages, ReceiveEcho(m, x)
    PROVE  IInv'
<1>1. x \in Mids(sendqueue)
  BY DEF ReceiveEcho, Waits
<1>2. CASE Becomes(Without(x)) /\ Note(x, "answered", {}, {"echo"})
  BY <1>1, <1>2, EchoTakesOut
<1>3. CASE Becomes(Without(x)) /\ Note(x, "lost", {}, {"echo"})
  BY <1>1, <1>3, EchoTakesOut
<1>4. CASE /\ x # m /\ m \in Mids(sendqueue)
           /\ \E w \in Writes :
                 /\ Becomes(Finished(Unlinked(Without(x), m), Owner[m], w))
                 /\ NoteAll([fate EXCEPT ![x] = "lost", ![m] = "answered"],
                            Written(Flushed(Unlinked(Without(x), m), Owner[m], w), w),
                            {"echo"} \cup Cancels(Without(x), m)
                               \cup Failed(Flushed(Unlinked(Without(x), m), Owner[m], w), w))
  BY <1>1, <1>4, EchoTakesTwo
<1> QED
  BY <1>2, <1>3, <1>4 DEF ReceiveEcho, Waits

-----------------------------------------------------------------------------
(* Sending                                                                 *)

(* The node of a message that is sent for the first time.                  *)
NewNode(m, timeout) == [mid |-> m, t |-> 0, timeout |-> timeout, cnt |-> 0]

LEMMA NewNodeType ==
    ASSUME NEW m \in Messages, NEW timeout \in Timeouts
    PROVE  NewNode(m, timeout) \in Node /\ NewNode(m, timeout).mid = m
<1>1. 0 \in 0..MaxRetransmit
  BY MessagesAssumption DEF MessagesAssumption
<1> QED
  BY <1>1 DEF NewNode, Node

LEMMA DelaysOrderly ==
    ASSUME NEW b, Orderly(b), NEW n \in Node, n.mid \notin Pending(b)
    PROVE  LET s == Owner[n.mid]
               c == [b EXCEPT !.delayed[s] = Append(@, n)]
           IN  /\ Orderly(c) /\ Pending(c) = Pending(b) \cup {n.mid}
               /\ c.queue = b.queue /\ c.active = b.active
               /\ \A z \in Sessions \ {s} : c.delayed[z] = b.delayed[z]
               /\ \A x : View(c, x) = View(b, x)
               /\ \A z : Balance(c, z) = Balance(b, z)
<1> DEFINE m == n.mid
           s == Owner[m]
           D == b.delayed[s]
           E == Append(D, n)
           c == [b EXCEPT !.delayed[s] = Append(@, n)]
<1>1. m \in Messages /\ s \in Sessions
  BY NodeTimes, OwnerType
<1>2. /\ b \in IoType /\ b.delayed \in [Sessions -> Seq(Node)]
      /\ D \in Seq(Node) /\ Len(D) \in Nat
      /\ Apart(D) /\ \A i \in 1..Len(D) : Owner[D[i].mid] = s /\ D[i].mid \notin Mids(b.queue)
  BY <1>1, LenProperties DEF Orderly, IoType
<1>3. /\ E \in Seq(Node) /\ Len(E) = Len(D) + 1
      /\ \A i \in 1..Len(D) : E[i] = D[i]
      /\ E[Len(D) + 1] = n
  <2> HIDE DEF D
  <2> QED
    BY <1>2, AppendProperties
<1>4. /\ c.queue = b.queue /\ c.active = b.active /\ c.elapsed = b.elapsed
      /\ c.delayed = [b.delayed EXCEPT ![s] = E] /\ c \in IoType
  <2> DEFINE X == [b.delayed EXCEPT ![s] = E]
  <2>1. X \in [Sessions -> Seq(Node)]
    <3> HIDE DEF E, s
    <3> QED
      BY <1>2, <1>3
  <2>2. c = [b EXCEPT !.delayed = X]
    OBVIOUS
  <2> HIDE DEF X, c
  <2>3. c.queue = b.queue /\ c.active = b.active /\ c.elapsed = b.elapsed
        /\ c.delayed = X /\ c \in IoType
    BY <1>2, <2>1, <2>2 DEF IoType
  <2> QED
    BY <2>3 DEF X
<1> HIDE DEF c, E
<1>5. c.delayed[s] = E /\ \A z \in Sessions \ {s} : c.delayed[z] = b.delayed[z]
  <2> HIDE DEF s
  <2> QED
    BY <1>1, <1>2, <1>4
<1>6. m \notin Mids(b.queue) /\ m \notin Mids(D)
  BY <1>1 DEF Pending
<1> HIDE DEF D
<1>7. Mids(E) = Mids(D) \cup {m} /\ Apart(E)
  <2>1. \A i \in 1..Len(E) : i \in 1..Len(D) \/ i = Len(D) + 1
    BY <1>2, <1>3
  <2>2. \A i \in 1..Len(D) : i \in 1..Len(E) /\ E[i].mid = D[i].mid /\ D[i].mid # m
    BY <1>2, <1>3, <1>6 DEF Mids
  <2>3. Len(D) + 1 \in 1..Len(E) /\ E[Len(D) + 1].mid = m
    BY <1>2, <1>3
  <2>4. Mids(E) = Mids(D) \cup {m}
    <3>1. \A i \in 1..Len(E) : E[i].mid \in Mids(D) \cup {m}
      BY <2>1, <2>2, <2>3 DEF Mids
    <3>2. \A i \in 1..Len(D) : D[i].mid \in Mids(E)
      <4> SUFFICES ASSUME NEW i \in 1..Len(D) PROVE D[i].mid \in Mids(E)
        OBVIOUS
      <4>1. i \in 1..Len(E) /\ E[i].mid = D[i].mid
        BY <2>2
      <4> QED
        BY <4>1 DEF Mids
    <3>3. m \in Mids(E)
      BY <2>3 DEF Mids
    <3> QED
      BY <3>1, <3>2, <3>3 DEF Mids
  <2>5. Apart(E)
    BY <1>2, <2>1, <2>2, <2>3 DEF Apart
  <2> QED
    BY <2>4, <2>5
<1>8. Orderly(c)
  <2> SUFFICES ASSUME NEW z \in Sessions
               PROVE  /\ Apart(c.delayed[z])
                      /\ \A i \in 1..Len(c.delayed[z]) :
                            /\ Owner[c.delayed[z][i].mid] = z
                            /\ c.delayed[z][i].mid \notin Mids(c.queue)
    BY <1>4 DEF Orderly
  <2>1. CASE z = s
    <3>1. ASSUME NEW i \in 1..Len(E)
          PROVE  Owner[E[i].mid] = s /\ E[i].mid \notin Mids(b.queue)
      <4>1. CASE i \in 1..Len(D)
        BY <1>2, <1>3, <4>1
      <4>2. CASE i = Len(D) + 1
        BY <1>3, <1>6, <4>2
      <4> QED
        BY <1>2, <1>3, <4>1, <4>2
    <3> HIDE DEF s
    <3> QED
      BY <1>4, <1>5, <1>7, <2>1, <3>1
  <2>2. CASE z # s
    <3>1. c.delayed[z] = b.delayed[z]
      BY <1>5, <2>2
    <3> QED
      BY <1>4, <3>1 DEF Orderly
  <2> QED
    BY <2>1, <2>2
<1>9. Pending(c) = Pending(b) \cup {m}
  <2> SUFFICES ASSUME NEW x \in Messages
               PROVE  x \in Pending(c) <=> x \in Pending(b) \/ x = m
    BY <1>1 DEF Pending
  <2>0. Owner[x] \in Sessions
    BY OwnerType
  <2>1. CASE Owner[x] = s
    <3>1. b.delayed[Owner[x]] = D
      BY <2>1 DEF D
    <3>2. c.delayed[Owner[x]] = E
      BY <1>5, <2>1
    <3> QED
      BY <1>4, <1>7, <3>1, <3>2 DEF Pending
  <2>2. CASE Owner[x] # s
    <3>1. c.delayed[Owner[x]] = b.delayed[Owner[x]] /\ x # m
      BY <1>5, <2>0, <2>2
    <3> QED
      BY <1>4, <3>1 DEF Pending
  <2> QED
    BY <2>1, <2>2
<1>10. \A x : View(c, x) = View(b, x)
  BY <1>4 DEF View
<1>11. \A z : Balance(c, z) = Balance(b, z)
  BY <1>4 DEF Balance, Out
<1> QED
  BY <1>4, <1>5, <1>8, <1>9, <1>10, <1>11 DEF c, m, s

LEMMA ViewTimely ==
    ASSUME IInv, NEW b, NEW x \in Mids(sendqueue), View(b, x) = View(Io, x), NEW what
    PROVE  Timely(b, x, what)
<1>1. View(Io, x).rest \in Int
  <2>1. sendqueue \in Seq(Node) /\ elapsed \in Nat
    BY IInvFacts
  <2>2. At(sendqueue, x).due \in Nat
    BY <2>1, EntryTypes
  <2> QED
    BY <2>1, <2>2, IoFields DEF View
<1>2. View(b, x).rest <= View(Io, x).rest
  BY <1>1
<1> QED
  BY <1>2 DEF Timely

LEMMA SendDelayed ==
    ASSUME IInv, NEW m \in Messages, fate[m] = "new", NEW timeout \in Timeouts,
           conActive[Owner[m]] >= NStart,
           Becomes([Io EXCEPT !.delayed[Owner[m]] = Append(@, NewNode(m, timeout))]),
           Note(m, "sent", {}, {})
    PROVE  IInv'
<1> DEFINE n == NewNode(m, timeout)
           s == Owner[m]
           c == [Io EXCEPT !.delayed[s] = Append(@, n)]
<1>1. n \in Node /\ n.mid = m
  BY NewNodeType
<1>2. m \notin Pending(Io) /\ Orderly(Io) /\ s \in Sessions
  BY IInvFacts, OwnerType
<1> HIDE DEF n
<1>3. /\ Orderly(c) /\ Pending(c) = Pending(Io) \cup {m}
      /\ c.queue = sendqueue /\ c.active = conActive
      /\ \A z \in Sessions \ {s} : c.delayed[z] = delayqueue[z]
      /\ \A x : View(c, x) = View(Io, x)
      /\ \A z : Balance(c, z) = Balance(Io, z)
  <2> DEFINE d == [Io EXCEPT !.delayed[Owner[n.mid]] = Append(@, n)]
  <2>1. n.mid \notin Pending(Io)
    BY <1>1, <1>2
  <2>2. /\ Orderly(d) /\ Pending(d) = Pending(Io) \cup {n.mid}
        /\ d.queue = Io.queue /\ d.active = Io.active
        /\ \A z \in Sessions \ {Owner[n.mid]} : d.delayed[z] = Io.delayed[z]
        /\ \A x : View(d, x) = View(Io, x)
        /\ \A z : Balance(d, z) = Balance(Io, z)
    BY <1>1, <1>2, <2>1, DelaysOrderly
  <2>3. d = c
    BY <1>1
  <2> HIDE DEF c, d
  <2> QED
    BY <1>1, <2>2, <2>3, IoFields
<1> HIDE DEF c
<1>4. ASSUME odd \cup {} \subseteq {"cancel", "memory"}, NEW z \in Sessions
      PROVE  Balance(c, z) = Leak(z) /\ (c.delayed[z] # <<>> => c.active[z] = NStart)
  <2>1. Balance(Io, z) = Leak(z) /\ (delayqueue[z] # <<>> => conActive[z] = NStart)
    <3>1. odd \subseteq {"cancel", "memory"}
      BY <1>4
    <3> QED
      BY <3>1, IInvFacts
  <2>2. z = s => conActive[z] = NStart
    <3>1. conActive[s] <= NStart /\ conActive[s] \in Nat /\ NStart \in Nat
      BY <1>2, IInvFacts, IoFields
    <3> QED
      BY <3>1
  <2> QED
    BY <1>3, <2>1, <2>2
<1>5. \A x \in Mids(c.queue) : Timely(c, x, {})
  BY <1>3, ViewTimely
<1>6. \A z \in Sessions : c.active[z] <= NStart
  BY <1>3, IInvFacts, IoFields
<1>7. Lands(c, m, "sent", {}, {})
  BY <1>3, <1>4, <1>5, <1>6 DEF Lands
<1> QED
  BY <1>7, Landing DEF c, n

LEMMA SendAtOnce ==
    ASSUME IInv, NEW m \in Messages, fate[m] = "new", NEW timeout \in Timeouts,
           conActive[Owner[m]] < NStart,
           Becomes(WaitAck([Io EXCEPT !.active[Owner[m]] = @ + 1], NewNode(m, timeout))),
           Note(m, "sent", {m}, {})
    PROVE  IInv'
<1> DEFINE n == NewNode(m, timeout)
           s == Owner[m]
           act == [conActive EXCEPT ![s] = @ + 1]
           b == [Io EXCEPT !.active = act]
           c == WaitAck(b, n)
<1>1. n \in Node /\ n.mid = m
  BY NewNodeType
<1>2. /\ m \notin Pending(Io) /\ Orderly(Io) /\ s \in Sessions
      /\ conActive \in [Sessions -> Nat] /\ NStart \in Nat
      /\ \A z \in Sessions : conActive[z] <= NStart
  BY IInvFacts, OwnerType, IoFields
<1>3. /\ act \in [Sessions -> Nat] /\ act[s] = conActive[s] + 1
      /\ \A z \in Sessions \ {s} : act[z] = conActive[z]
  BY <1>2
<1>4. b = [Io EXCEPT !.active[s] = @ + 1]
  BY IoFields
<1> HIDE DEF n, act
<1>5. /\ Orderly(b) /\ Pending(b) = Pending(Io)
      /\ b.queue = sendqueue /\ b.delayed = delayqueue /\ b.active = act
      /\ \A x : View(b, x) = View(Io, x)
      /\ \A z \in Sessions : /\ Balance(Io, z) \in Int
                             /\ Balance(b, z) = Balance(Io, z) + (act[z] - conActive[z])
  BY <1>2, <1>3, Recount, IoFields
<1> HIDE DEF b
<1>6. Enters(b, n, c)
  <2>1. b \in IoType /\ Apart(b.queue) /\ n.mid \notin Mids(b.queue)
    BY <1>1, <1>2, <1>5 DEF Orderly, Pending
  <2> QED
    BY <1>1, <2>1, WaitAckEffect
<1> HIDE DEF c
<1>7. /\ Orderly(c) /\ Pending(c) = Pending(Io) \cup {m}
      /\ \A z \in Sessions : Balance(c, z) = Balance(b, z) - (IF z = s THEN 1 ELSE 0)
  <2>1. n.mid \notin Pending(b)
    BY <1>1, <1>2, <1>5
  <2> QED
    BY <1>1, <1>5, <1>6, <2>1, EntersOrderly
<1>8. /\ c.delayed = delayqueue /\ c.active = act
      /\ Mids(c.queue) = Mids(sendqueue) \cup {m}
      /\ \A x \in Mids(sendqueue) : View(c, x) = View(Io, x)
      /\ View(c, m).cnt = n.cnt /\ View(c, m).timeout = n.timeout
      /\ View(c, m).rest = Backoff(n)
  BY <1>1, <1>5, <1>6 DEF Enters
<1> HIDE DEF s
<1>9. ASSUME odd \cup {} \subseteq {"cancel", "memory"}, NEW z \in Sessions
      PROVE  Balance(c, z) = Leak(z) /\ (c.delayed[z] # <<>> => c.active[z] = NStart)
  <2>1. Balance(Io, z) = Leak(z) /\ (delayqueue[z] # <<>> => conActive[z] = NStart)
    <3>1. odd \subseteq {"cancel", "memory"}
      BY <1>9
    <3> QED
      BY <3>1, IInvFacts
  <2>2. act[z] - conActive[z] = IF z = s THEN 1 ELSE 0
    BY <1>2, <1>3
  <2>3. Balance(c, z) = Leak(z)
    BY <1>5, <1>7, <2>1, <2>2
  <2>4. c.delayed[z] # <<>> => c.active[z] = NStart
    <3>1. CASE z = s
      <4>1. conActive[s] # NStart
        BY <1>2 DEF s
      <4> QED
        BY <1>8, <2>1, <3>1, <4>1
    <3>2. CASE z # s
      BY <1>3, <1>8, <2>1, <3>2
    <3> QED
      BY <3>1, <3>2
  <2> QED
    BY <2>3, <2>4
<1>10. ASSUME NEW x \in Mids(c.queue) PROVE Timely(c, x, {})
  <2>1. CASE x \in Mids(sendqueue)
    BY <1>8, <2>1, ViewTimely
  <2>2. CASE x \notin Mids(sendqueue)
    <3>1. x = m
      BY <1>8, <2>2
    <3>2. Backoff(View(c, m)) = Backoff(n)
      BY <1>8, BackoffAlike
    <3> QED
      BY <1>8, <2>2, <3>1, <3>2 DEF Timely
  <2> QED
    BY <2>1, <2>2
<1>11. ASSUME NEW z \in Sessions PROVE c.active[z] <= NStart
  <2>1. conActive[s] < NStart /\ conActive[s] \in Nat
    BY <1>2 DEF s
  <2> QED
    BY <1>2, <1>3, <1>8, <2>1
<1>12. Lands(c, m, "sent", {m}, {})
  BY <1>7, <1>9, <1>10, <1>11 DEF Lands
<1> QED
  BY <1>4, <1>12, Landing DEF c, n, s

(* A message that is refused at once leaves everything as it is.           *)
LEMMA SendRefused ==
    ASSUME IInv, NEW m \in Messages, fate[m] = "new", UNCHANGED ioVars,
           NEW what \in SUBSET {"write"}, Note(m, "refused", {}, what)
    PROVE  IInv'
<1> DEFINE fates == [fate EXCEPT ![m] = "refused"]
<1>1. Becomes(Io)
  <2>1. elapsed = IF sendqueue = <<>> THEN 0 ELSE elapsed
    BY DEF IInv
  <2> QED
    BY <2>1, IoFields DEF Becomes, ioVars
<1>2. /\ fate \in [Messages -> Ends \cup {"new", "sent"}] /\ onWire \subseteq Messages
      /\ \A x \in Messages : /\ fate[x] = "sent" <=> x \in Pending(Io)
                             /\ fate[x] = "new" => x \notin onWire
                             /\ fate[x] = "lost" => "echo" \in odd
  BY DEF IInv, Once, Recorded
<1>3. /\ fates[m] = "refused" /\ \A x \in Messages \ {m} : fates[x] = fate[x]
      /\ fates \in [Messages -> Ends \cup {"new", "sent"}]
  BY <1>2 DEF Ends
<1> HIDE DEF fates
<1>4. \A s : Refused(fates, onWire \cup {}, s) = Leaked(s)
  <2>1. m \notin onWire
    BY <1>2
  <2> QED
    BY <1>2, <1>3, <2>1 DEF Refused, Leaked
<1>5. odd \cup what \subseteq {"cancel", "memory"} =>
        \A s \in Sessions :
            /\ Balance(Io, s) = Cardinality(Refused(fates, onWire \cup {}, s))
            /\ delayqueue[s] # <<>> => conActive[s] = NStart
  BY <1>4, IInvFacts DEF Leak
<1>6. \A x \in Mids(Io.queue) : Timely(Io, x, what)
  BY ViewTimely, IoFields
<1>7. /\ Orderly(Io) /\ \A z \in Sessions : Io.active[z] <= NStart
      /\ \A x \in Messages : fates[x] = "sent" <=> x \in Pending(Io)
      /\ \A x \in Messages : /\ fates[x] = "new" => x \notin onWire \cup {}
                             /\ fates[x] = "lost" => "echo" \in odd \cup what
  BY <1>2, <1>3, IInvFacts
<1>8. LandsAs(Io, fates, {}, what)
  BY <1>3, <1>5, <1>6, <1>7, IoFields DEF LandsAs
<1>9. NoteAll(fates, {}, what)
  BY DEF Note, fates
<1> QED
  BY <1>1, <1>8, <1>9, LandingAs

(* One that has been written and counted when memory is missing is counted
   for good.                                                               *)
LEMMA SendForgotten ==
    ASSUME IInv, NEW m \in Messages, fate[m] = "new", conActive[Owner[m]] < NStart,
           Becomes([Io EXCEPT !.active[Owner[m]] = @ + 1]),
           Note(m, "refused", {m}, {"memory"})
    PROVE  IInv'
<1> DEFINE s == Owner[m]
           act == [conActive EXCEPT ![s] = @ + 1]
           b == [Io EXCEPT !.active = act]
           fates == [fate EXCEPT ![m] = "refused"]
           what == {"memory"}
<1>1. /\ Orderly(Io) /\ s \in Sessions
      /\ conActive \in [Sessions -> Nat] /\ NStart \in Nat
      /\ \A z \in Sessions : conActive[z] <= NStart
  BY IInvFacts, OwnerType, IoFields
<1>2. /\ act \in [Sessions -> Nat] /\ act[s] = conActive[s] + 1
      /\ \A z \in Sessions \ {s} : act[z] = conActive[z]
  BY <1>1
<1>3. b = [Io EXCEPT !.active[s] = @ + 1]
  BY IoFields
<1> HIDE DEF act
<1>4. /\ Orderly(b) /\ Pending(b) = Pending(Io)
      /\ b.queue = sendqueue /\ b.delayed = delayqueue /\ b.active = act
      /\ \A x : View(b, x) = View(Io, x)
      /\ \A z \in Sessions : /\ Balance(Io, z) \in Int
                             /\ Balance(b, z) = Balance(Io, z) + (act[z] - conActive[z])
  BY <1>1, <1>2, Recount, IoFields
<1> HIDE DEF b
<1>5. /\ fate \in [Messages -> Ends \cup {"new", "sent"}] /\ onWire \subseteq Messages
      /\ \A x \in Messages : /\ fate[x] = "sent" <=> x \in Pending(Io)
                             /\ fate[x] = "new" => x \notin onWire
                             /\ fate[x] = "lost" => "echo" \in odd
  BY DEF IInv, Once, Recorded
<1>6. /\ fates[m] = "refused" /\ \A x \in Messages \ {m} : fates[x] = fate[x]
      /\ fates \in [Messages -> Ends \cup {"new", "sent"}]
  BY <1>5 DEF Ends
<1> HIDE DEF fates
<1>7. \A z \in Sessions : Cardinality(Refused(fates, onWire \cup {m}, z))
                            = Leak(z) + (IF z = s THEN 1 ELSE 0)
  <2>1. TAKE z \in Sessions
  <2>2. m \notin onWire
    BY <1>5
  <2>3. IsFiniteSet(Leaked(z)) /\ m \notin Leaked(z)
    <3>1. IsFiniteSet(Messages) /\ Leaked(z) \subseteq Messages
      BY <1>5, MessagesAssumption DEF MessagesAssumption, Leaked
    <3> QED
      BY <2>2, <3>1, FS_Subset DEF Leaked
  <2>4. Refused(fates, onWire \cup {m}, z) = Leaked(z) \cup (IF z = s THEN {m} ELSE {})
    BY <1>5, <1>6, <2>2 DEF Refused, Leaked
  <2>5. Leak(z) \in Nat
    BY IInvFacts
  <2>6. CASE z = s
    <3>1. Cardinality(Leaked(z) \cup {m}) = Cardinality(Leaked(z)) + 1
      BY <2>3, FS_AddElement
    <3> QED
      BY <2>4, <2>6, <3>1 DEF Leak
  <2>7. CASE z # s
    <3>1. Refused(fates, onWire \cup {m}, z) = Leaked(z)
      BY <2>4, <2>7
    <3> QED
      BY <2>5, <2>7, <3>1 DEF Leak
  <2> QED
    BY <2>6, <2>7
<1>8. ASSUME odd \cup what \subseteq {"cancel", "memory"}, NEW z \in Sessions
      PROVE  /\ Balance(b, z) = Cardinality(Refused(fates, onWire \cup {m}, z))
             /\ b.delayed[z] # <<>> => b.active[z] = NStart
  <2>1. /\ Balance(Io, z) = Leak(z) /\ (delayqueue[z] # <<>> => conActive[z] = NStart)
        /\ Leak(z) \in Nat
    <3>1. odd \subseteq {"cancel", "memory"}
      BY <1>8
    <3> QED
      BY <3>1, IInvFacts
  <2>2. act[z] - conActive[z] = IF z = s THEN 1 ELSE 0
    BY <1>1, <1>2
  <2>3. Balance(b, z) = Leak(z) + (IF z = s THEN 1 ELSE 0)
    BY <1>4, <2>1, <2>2
  <2>4. z # s \/ delayqueue[z] = <<>>
    <3>1. conActive[s] < NStart /\ conActive[s] \in Nat
      BY <1>1
    <3> QED
      BY <1>1, <2>1, <3>1
  <2> QED
    BY <1>2, <1>4, <1>7, <2>1, <2>3, <2>4
<1>9. \A x \in Mids(b.queue) : Timely(b, x, what)
  BY <1>4, ViewTimely
<1>10. ASSUME NEW z \in Sessions PROVE b.active[z] <= NStart
  <2>1. conActive[s] < NStart /\ conActive[s] \in Nat
    BY <1>1
  <2> QED
    BY <1>1, <1>2, <1>4, <2>1
<1>11. /\ \A x \in Messages : fates[x] = "sent" <=> x \in Pending(b)
       /\ \A x \in Messages : /\ fates[x] = "new" => x \notin onWire \cup {m}
                              /\ fates[x] = "lost" => "echo" \in odd \cup what
  BY <1>4, <1>5, <1>6
<1> HIDE DEF what, s
<1>12. LandsAs(b, fates, {m}, what)
  BY <1>4, <1>6, <1>8, <1>9, <1>10, <1>11 DEF LandsAs
<1>13. NoteAll(fates, {m}, what)
  BY DEF Note, fates, what
<1> QED
  BY <1>3, <1>12, <1>13, LandingAs DEF s

LEMMA SendStep ==
    ASSUME IInv, NEW m \in Messages, Send(m)
    PROVE  IInv'
<1>1. ASSUME fate[m] = "new", NEW timeout \in Timeouts, conActive[Owner[m]] >= NStart,
             Becomes([Io EXCEPT !.delayed[Owner[m]] = Append(@, NewNode(m, timeout))]),
             Note(m, "sent", {}, {})
      PROVE  IInv'
  BY <1>1, SendDelayed
<1>2. ASSUME fate[m] = "new", NEW timeout \in Timeouts, conActive[Owner[m]] < NStart,
             Becomes(WaitAck([Io EXCEPT !.active[Owner[m]] = @ + 1], NewNode(m, timeout))),
             Note(m, "sent", {m}, {})
      PROVE  IInv'
  BY <1>2, SendAtOnce
<1>3. ASSUME fate[m] = "new", UNCHANGED ioVars, NEW what, what \in SUBSET {"write"},
             Note(m, "refused", {}, what)
      PROVE  IInv'
  BY <1>3, SendRefused
<1>4. ASSUME fate[m] = "new", conActive[Owner[m]] < NStart,
             Becomes([Io EXCEPT !.active[Owner[m]] = @ + 1]),
             Note(m, "refused", {m}, {"memory"})
      PROVE  IInv'
  BY <1>4, SendForgotten
<1> QED
  BY <1>1, <1>2, <1>3, <1>4 DEF Send, NewNode

LEMMA RetransmitStep ==
    ASSUME IInv, Retransmit
    PROVE  IInv'
<1> DEFINE head == Head(sendqueue)
           node == [head EXCEPT !.cnt = @ + 1]
           m == head.mid
           s == Owner[m]
           a == Without(m)
           b == WaitAck(a, node)
           o == OneLess(b, s)
           c == [o EXCEPT !.active[s] = @ + 1]
<1>1. sendqueue # <<>> /\ MayRetry(head)
  BY DEF Retransmit, HeadDue
<1>2. /\ head \in Node /\ m \in Mids(sendqueue) /\ m \in Messages
      /\ head.cnt \in Nat /\ View(Io, m).cnt = head.cnt
  BY <1>1, HeadWaits
<1>3. /\ node \in Node /\ node.mid = m /\ node.cnt = head.cnt + 1
  <2> HIDE DEF head
  <2>1. head.cnt + 1 \in 0..MaxRetransmit
    <3>1. MaxRetransmit \in Nat
      BY MessagesAssumption DEF MessagesAssumption
    <3> QED
      BY <1>1, <1>2, <3>1 DEF MayRetry
  <2> QED
    BY <1>2, <2>1 DEF Node
<1>4. \/ Becomes(c) /\ Note(m, "sent", {m}, {})
      \/ Becomes(o) /\ Note(m, "sent", {}, {"write"})
  <2>1. \/ /\ Becomes([OneLess(WaitAck(Without(node.mid), node), Owner[node.mid])
                          EXCEPT !.active[Owner[node.mid]] = @ + 1])
           /\ Note(node.mid, "sent", {node.mid}, {})
        \/ /\ Becomes(OneLess(WaitAck(Without(node.mid), node), Owner[node.mid]))
           /\ Note(node.mid, "sent", {}, {"write"})
    BY DEF Retransmit
  <2>2. node.mid = m
    BY <1>3
  <2> HIDE DEF node, m
  <2> QED
    BY <2>1, <2>2
<1> HIDE DEF node, m, head
<1>5. /\ Orderly(Io) /\ Io \in IoType /\ Apart(Io.queue) /\ m \in Mids(Io.queue)
      /\ s \in Sessions /\ conActive \in [Sessions -> Nat]
      /\ \A z \in Sessions : conActive[z] <= NStart
      /\ NStart \in Nat /\ NStart > 0
  BY <1>2, IInvFacts, IoFields, OwnerType
<1>6. Leaves(Io, m, TRUE, a)
  BY <1>5, RemoveEffect DEF Without
<1> HIDE DEF a
<1>7. /\ Orderly(a) /\ Pending(a) = Pending(Io) \ {m}
      /\ \A z \in Sessions : Balance(a, z) = Balance(Io, z) + (IF z = s THEN 1 ELSE 0)
  <2>1. PICK e : Leaves(Io, m, e, a)
    BY <1>6
  <2> QED
    BY <1>5, <2>1, LeavesOrderly
<1>8. /\ a.delayed = delayqueue /\ a.active = conActive
      /\ Mids(a.queue) = Mids(sendqueue) \ {m}
      /\ \A x \in Mids(a.queue) : /\ View(a, x).cnt = View(Io, x).cnt
                                  /\ View(a, x).rest = View(Io, x).rest
                                  /\ View(a, x).rest <= View(Io, x).rest
  BY <1>6, IoFields DEF Leaves
<1>9. Enters(a, node, b)
  <2>1. a \in IoType /\ Apart(a.queue) /\ node.mid \notin Mids(a.queue)
    BY <1>3, <1>7, <1>8 DEF Orderly
  <2> QED
    BY <1>3, <2>1, WaitAckEffect
<1> HIDE DEF b
<1>10. /\ Orderly(b) /\ Pending(b) = Pending(a) \cup {m}
       /\ \A z \in Sessions : Balance(b, z) = Balance(a, z) - (IF z = s THEN 1 ELSE 0)
  <2>1. node.mid \notin Pending(a)
    BY <1>3, <1>7
  <2> QED
    BY <1>3, <1>7, <1>9, <2>1, EntersOrderly
<1>11. /\ b.delayed = delayqueue /\ b.active = conActive
       /\ Mids(b.queue) = Mids(a.queue) \cup {m}
       /\ \A x \in Mids(a.queue) : View(b, x) = View(a, x)
       /\ View(b, m).cnt = node.cnt /\ View(b, m).timeout = node.timeout
       /\ View(b, m).rest = Backoff(node)
  BY <1>3, <1>8, <1>9 DEF Enters
<1> HIDE DEF s
<1> DEFINE d == IF conActive[s] > 0 THEN 1 ELSE 0
<1>12. /\ Orderly(o) /\ Pending(o) = Pending(b)
       /\ o.queue = b.queue /\ o.delayed = delayqueue
       /\ o.active \in [Sessions -> Nat]
       /\ o.active[s] = conActive[s] - d
       /\ \A z \in Sessions \ {s} : o.active[z] = conActive[z]
       /\ \A x : View(o, x) = View(b, x)
       /\ \A z \in Sessions : /\ Balance(b, z) \in Int
                              /\ Balance(o, z) = Balance(b, z) - (IF z = s THEN d ELSE 0)
  BY <1>5, <1>10, <1>11, OneLessEffect
<1> HIDE DEF o
<1> DEFINE act == [o.active EXCEPT ![s] = @ + 1]
<1>13. /\ act \in [Sessions -> Nat] /\ act[s] = (conActive[s] - d) + 1
       /\ \A z \in Sessions \ {s} : act[z] = conActive[z]
       /\ c = [o EXCEPT !.active = act]
  BY <1>5, <1>12
<1> HIDE DEF act, c
<1>14. /\ Orderly(c) /\ Pending(c) = Pending(o)
       /\ c.queue = o.queue /\ c.delayed = o.delayed /\ c.active = act
       /\ \A x : View(c, x) = View(o, x)
       /\ \A z \in Sessions : /\ Balance(o, z) \in Int
                              /\ Balance(c, z) = Balance(o, z) + (act[z] - o.active[z])
  BY <1>12, <1>13, Recount
<1>15. Pending(o) = Pending(Io) \cup {m}
  BY <1>7, <1>10, <1>12
<1>16. ASSUME NEW z \in Sessions PROVE o.active[z] <= NStart /\ act[z] <= NStart
  <2>1. conActive[s] \in Nat /\ conActive[s] <= NStart /\ conActive[z] <= NStart
    BY <1>5
  <2>2. CASE z = s
    BY <1>5, <1>12, <1>13, <2>1, <2>2
  <2>3. CASE z # s
    BY <1>12, <1>13, <2>1, <2>3
  <2> QED
    BY <2>2, <2>3
<1>17. ASSUME NEW x \in Mids(b.queue), NEW what PROVE Timely(b, x, what)
  <2>1. CASE x = m
    <3>1. View(b, x).cnt # View(Io, x).cnt
      BY <1>2, <1>3, <1>11, <2>1
    <3>2. Backoff(View(b, x)) = Backoff(node)
      BY <1>11, <2>1, BackoffAlike
    <3> QED
      BY <1>11, <2>1, <3>1, <3>2 DEF Timely
  <2>2. CASE x # m
    <3>1. x \in Mids(a.queue) /\ x \in Mids(sendqueue)
      BY <1>8, <1>11, <2>2
    <3> QED
      BY <1>8, <1>11, <3>1 DEF Timely
  <2> QED
    BY <2>1, <2>2
<1>18. ASSUME NEW x \in Mids(b.queue), NEW what
       PROVE  Timely(o, x, what) /\ Timely(c, x, what)
  BY <1>12, <1>14, <1>17 DEF Timely
<1>19. CASE Becomes(c) /\ Note(m, "sent", {m}, {})
  <2>1. ASSUME odd \cup {} \subseteq {"cancel", "memory"}, NEW z \in Sessions
        PROVE  Balance(c, z) = Leak(z) /\ (c.delayed[z] # <<>> => c.active[z] = NStart)
    <3>0. odd \subseteq {"cancel", "memory"}
      BY <2>1
    <3>1. Balance(Io, z) = Leak(z) /\ (delayqueue[z] # <<>> => conActive[z] = NStart)
      BY <3>0, IInvFacts
    <3>2. conActive[s] > 0
      BY <1>2, <3>0, IInvFacts DEF s
    <3>3. d = 1 /\ act[z] = conActive[z] /\ o.active[z] = conActive[z] - (IF z = s THEN 1 ELSE 0)
      BY <1>5, <1>12, <1>13, <3>2
    <3>4. /\ Balance(b, z) = Leak(z)
          /\ Balance(o, z) = Leak(z) - (IF z = s THEN 1 ELSE 0)
          /\ Leak(z) \in Nat
      BY <1>7, <1>10, <1>12, <3>1, <3>3, IInvFacts
    <3>5. Balance(c, z) = Balance(o, z) + (act[z] - o.active[z]) /\ conActive[z] \in Nat
      BY <1>5, <1>14
    <3>6. Balance(c, z) = Leak(z)
      <4> DEFINE k == IF z = s THEN 1 ELSE 0
      <4>1. k \in Nat
        OBVIOUS
      <4>2. /\ Balance(o, z) = Leak(z) - k /\ o.active[z] = conActive[z] - k
            /\ act[z] = conActive[z]
        BY <3>3, <3>4
      <4> HIDE DEF k
      <4> QED
        BY <3>4, <3>5, <4>1, <4>2
    <3> QED
      BY <1>12, <1>14, <3>1, <3>3, <3>6
  <2>2. Lands(c, m, "sent", {m}, {})
    BY <1>2, <1>12, <1>14, <1>15, <1>16, <1>18, <2>1, IInvFacts DEF Lands
  <2> QED
    BY <1>2, <1>19, <2>2, Landing
<1>20. CASE Becomes(o) /\ Note(m, "sent", {}, {"write"})
  <2> DEFINE what == {"write"}
  <2>1. ~(odd \cup what \subseteq {"cancel", "memory"})
    OBVIOUS
  <2> HIDE DEF what
  <2>2. Lands(o, m, "sent", {}, what)
    BY <1>2, <1>12, <1>15, <1>16, <1>18, <2>1, IInvFacts DEF Lands
  <2> QED
    BY <1>2, <1>20, <2>2, Landing DEF what
<1> QED
  BY <1>4, <1>19, <1>20

LEMMA TickStep ==
    ASSUME IInv, Tick
    PROVE  IInv'
<1>1. /\ elapsed' = elapsed + 1 /\ sendqueue # <<>>
      /\ left' = [m \in Messages |-> IF Waits(m) THEN left[m] - 1 ELSE 0]
      /\ sendqueue' = sendqueue /\ delayqueue' = delayqueue /\ conActive' = conActive
      /\ fate' = fate /\ odd' = odd /\ onWire' = onWire
  BY DEF Tick
<1>2. /\ sendqueue \in Seq(Node) /\ elapsed \in Nat
      /\ delayqueue \in [Sessions -> Seq(Node)] /\ conActive \in [Sessions -> Nat]
      /\ left \in [Messages -> Int] /\ Mids(sendqueue) \subseteq Messages
      /\ Orderly(Io)
  BY IInvFacts DEF IInv
<1>3. Io' \in IoType
  <2>1. elapsed' \in Nat
    BY <1>1, <1>2
  <2> QED
    BY <1>1, <1>2, <2>1 DEF Io, IoType
<1>4. Orderly(Io') /\ Pending(Io') = Pending(Io) /\ \A s : Balance(Io', s) = Balance(Io, s)
  BY <1>1, <1>2, <1>3, IoFields, IoNextFields DEF Orderly, Pending, Balance, Out
<1>5. ASSUME NEW x \in Mids(sendqueue)
      PROVE  /\ View(Io', x).rest <= left'[x]
             /\ "cancel" \notin odd' => View(Io', x).rest = left'[x]
  <2> DEFINE u == At(sendqueue, x).due
  <2>1. u \in Nat /\ x \in Messages
    BY <1>2, EntryTypes
  <2>2. View(Io', x).rest = u - (elapsed + 1) /\ View(Io, x).rest = u - elapsed
    BY <1>1, IoFields, IoNextFields DEF View
  <2>3. left'[x] = left[x] - 1 /\ left[x] \in Int
    BY <1>1, <1>2, <2>1 DEF Waits
  <2>4. View(Io, x).rest <= left[x] /\ ("cancel" \notin odd => View(Io, x).rest = left[x])
    BY DEF IInv, Timed
  <2> HIDE DEF u
  <2>5. u - elapsed <= left[x] /\ ("cancel" \notin odd => u - elapsed = left[x])
    BY <2>2, <2>4
  <2>6. /\ u - (elapsed + 1) <= left[x] - 1
        /\ "cancel" \notin odd => u - (elapsed + 1) = left[x] - 1
    BY <1>2, <2>1, <2>3, <2>5
  <2> QED
    BY <1>1, <2>2, <2>3, <2>6
<1>6. Timed' /\ Once' /\ Counted' /\ Recorded'
  <2>1. \A s : Leak(s)' = Leak(s)
    BY <1>1 DEF Leak, Leaked
  <2> QED
    BY <1>1, <1>4, <1>5, <2>1 DEF Timed, Once, Counted, Recorded, IInv
<1>7. left' \in [Messages -> Int]
  BY <1>1, <1>2
<1> QED
  BY <1>1, <1>4, <1>6, <1>7 DEF IInv

LEMMA Unmoved ==
    ASSUME IInv, UNCHANGED vars
    PROVE  IInv'
<1>1. /\ sendqueue' = sendqueue /\ elapsed' = elapsed /\ delayqueue' = delayqueue
      /\ conActive' = conActive /\ fate' = fate /\ left' = left /\ odd' = odd
      /\ onWire' = onWire
  BY DEF vars, ioVars
<1>2. Io' = Io /\ \A s : Leak(s)' = Leak(s)
  BY <1>1 DEF Io, Leak, Leaked
<1> QED
  BY <1>1, <1>2 DEF IInv, Once, Counted, Timed, Recorded

LEMMA NextIInv ==
    ASSUME IInv, [Next]_vars
    PROVE  IInv'
<1>1. CASE Tick
  BY <1>1, TickStep
<1>2. CASE Retransmit
  BY <1>2, RetransmitStep
<1>3. CASE GiveUp
  BY <1>3, GiveUpStep
<1>4. CASE \E m \in Messages : Send(m)
  BY <1>4, SendStep
<1>5. CASE \E m \in Messages : Receive(m)
  BY <1>5, AckStep, ResetStep, SeparateStep, EchoStep DEF Receive
<1>6. CASE UNCHANGED vars
  BY <1>6, Unmoved
<1> QED
  BY <1>1, <1>2, <1>3, <1>4, <1>5, <1>6 DEF Next

-----------------------------------------------------------------------------
(* The theorems                                                            *)

(* What is pending, counted and timed is so in every state that coap_send,
   coap_retransmit, coap_dispatch and the clock can lead to.               *)
THEOREM MessagesInvariance == Spec => []IInv
<1>1. Init => IInv
  BY InitIInv
<1>2. IInv /\ [Next]_vars => IInv'
  BY NextIInv
<1> QED
  BY <1>1, <1>2, PTL DEF Spec

(* No session ever counts more than NSTART messages under way, and no node
   is sent more often than max_retransmit allows (coap_send_internal,
   coap_session_connected, coap_retransmit).                               *)
THEOREM TypeCorrect == Spec => []TypeOK
<1>1. IInv => TypeOK
  <2> SUFFICES ASSUME IInv PROVE TypeOK
    OBVIOUS
  <2>1. /\ sendqueue \in Seq(Node) /\ elapsed \in Nat
        /\ delayqueue \in [Sessions -> Seq(Node)] /\ conActive \in [Sessions -> Nat]
        /\ \A z \in Sessions : conActive[z] <= NStart
        /\ NStart \in Nat /\ Orderly(Io)
    BY IInvFacts, IoFields
  <2>2. \A i \in 1..Len(sendqueue) : sendqueue[i] \in Node
    BY <2>1, NodeFields
  <2>3. ASSUME NEW s \in Sessions, NEW i \in 1..Len(delayqueue[s])
        PROVE  delayqueue[s][i].mid \in Messages /\ Owner[delayqueue[s][i].mid] = s
    <3>1. delayqueue[s] \in Seq(Node)
      BY <2>1
    <3>2. delayqueue[s][i].mid \in Messages
      BY <3>1, NodeFields
    <3>3. Owner[delayqueue[s][i].mid] = s
      BY <2>1, IoFields DEF Orderly
    <3> QED
      BY <3>2, <3>3
  <2>4. conActive \in [Sessions -> 0..NStart]
    BY <2>1
  <2> QED
    BY <2>1, <2>2, <2>3, <2>4 DEF TypeOK, IInv, Node
<1> QED
  BY <1>1, MessagesInvariance, PTL

(* A message that has been sent is in one queue, once, until something ends
   it, and then in none (coap_wait_ack, coap_session_delay_pdu,
   coap_remove_from_queue, coap_cancel_all_messages); and it is lost without
   an end only to a non-confirmable answer to another message, which has its
   message id (coap_dispatch).                                             *)
THEOREM SentIsQueuedOnce == Spec => []QueuedOnce
<1>1. IInv => QueuedOnce
  <2>0. IInv => \A m \in Messages : fate[m] = "lost" => "echo" \in odd
    BY DEF IInv, Recorded
  <2> SUFFICES ASSUME IInv, NEW m \in Messages
               PROVE  Cardinality({i \in 1..Len(sendqueue) : sendqueue[i].mid = m})
                        + Cardinality({i \in 1..Len(delayqueue[Owner[m]]) :
                                          delayqueue[Owner[m]][i].mid = m})
                      = IF fate[m] = "sent" THEN 1 ELSE 0
    BY <2>0 DEF QueuedOnce
  <2> DEFINE D == delayqueue[Owner[m]]
  <2>1. /\ sendqueue \in Seq(Node) /\ Apart(sendqueue)
        /\ D \in Seq(Node) /\ Apart(D)
        /\ \A i \in 1..Len(D) : D[i].mid \notin Mids(sendqueue)
    BY IInvFacts, IoFields, OwnerType DEF Orderly
  <2>2. fate[m] = "sent" <=> m \in Mids(sendqueue) \/ m \in Mids(D)
    BY IInvFacts, IoFields DEF Pending
  <2> HIDE DEF D
  <2>3. ~(m \in Mids(sendqueue) /\ m \in Mids(D))
    BY <2>1 DEF Mids
  <2>4. Cardinality({i \in 1..Len(sendqueue) : sendqueue[i].mid = m})
        = IF m \in Mids(sendqueue) THEN 1 ELSE 0
    BY <2>1, CountOnce
  <2>5. Cardinality({i \in 1..Len(D) : D[i].mid = m}) = IF m \in Mids(D) THEN 1 ELSE 0
    BY <2>1, CountOnce
  <2> QED
    BY <2>2, <2>3, <2>4, <2>5 DEF D
<1> QED
  BY <1>1, MessagesInvariance, PTL

(* con_active is the number of the session's messages in the send queue and
   of those it forgot for want of memory, and only at NSTART is anything
   delayed, until a write fails, a reset comes for a message that does not
   wait, or a non-confirmable answer has the id of one that does.          *)
THEOREM CountedRight == Spec => []CountsOutstanding
<1>1. IInv => CountsOutstanding
  <2> SUFFICES ASSUME IInv, odd \subseteq {"cancel", "memory"}, NEW s \in Sessions
               PROVE  /\ conActive[s] = Cardinality(Outstanding(s))
                                          + Cardinality(Leaked(s))
                      /\ delayqueue[s] # <<>> => conActive[s] = NStart
    BY DEF CountsOutstanding
  <2>1. Balance(Io, s) = Leak(s) /\ (delayqueue[s] # <<>> => conActive[s] = NStart)
    BY IInvFacts
  <2>2. Outstanding(s) = Out(Io, s)
    BY IoFields DEF Outstanding, Out
  <2>3. conActive[s] \in Nat /\ Cardinality(Out(Io, s)) \in Nat /\ Leak(s) \in Nat
    BY IInvFacts, OutFinite
  <2>4. conActive[s] - Cardinality(Out(Io, s)) = Leak(s)
    BY <2>1, IoFields DEF Balance
  <2>5. conActive[s] = Cardinality(Out(Io, s)) + Leak(s)
    BY <2>3, <2>4
  <2> QED
    BY <2>1, <2>2, <2>5 DEF Leak
<1> QED
  BY <1>1, MessagesInvariance, PTL

(* Inserting, removing and flushing move no other message's time, although
   every node's t is relative to the one before it; only the cancelling of a
   separate response does, and it makes them earlier (coap_insert_node,
   coap_remove_from_queue, coap_cancel_all_messages).                      *)
THEOREM SentInTime == Spec => []TimesKept
<1>1. IInv => TimesKept
  <2> SUFFICES ASSUME IInv, NEW i \in 1..Len(sendqueue)
               PROVE  LET due == DueAt(sendqueue, i) - elapsed
                          time == left[sendqueue[i].mid]
                      IN  due <= time /\ ("cancel" \notin odd => due = time)
    BY DEF TimesKept
  <2> DEFINE x == sendqueue[i].mid
  <2>1. sendqueue \in Seq(Node) /\ Apart(sendqueue)
    BY IInvFacts
  <2>2. x \in Mids(sendqueue) /\ Index(sendqueue, x) = i
    BY <2>1, OnePlace
  <2> HIDE DEF x
  <2>3. View(Io, x).rest = DueAt(sendqueue, i) - elapsed
    BY <2>2, IoFields DEF View, At, Entry
  <2>4. View(Io, x).rest <= left[x] /\ ("cancel" \notin odd => View(Io, x).rest = left[x])
    BY <2>2 DEF IInv, Timed
  <2> QED
    BY <2>3, <2>4 DEF x
<1> QED
  BY <1>1, MessagesInvariance, PTL

=============================================================================
