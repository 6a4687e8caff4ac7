------------------------------ MODULE UartProofs ------------------------------
(***************************************************************************)
(* Proofs about Uart, for every length of the queue, size of the buffer    *)
(* and number of bytes per interrupt: the types; that whatever is lost in  *)
(* between the callback is given bytes in the order in which they came;    *)
(* and that the task reads without waiting what an event announces, which  *)
(* are the event's own bytes while everything in the buffer is announced.  *)
(***************************************************************************)
EXTENDS Uart, SumsProofs

-----------------------------------------------------------------------------
(* Sequences of bytes                                                      *)

Up(s) == \A i, j \in 1..Len(s) : i < j => s[i] < s[j]
Below(s, t) == \A i \in 1..Len(s) : \A j \in 1..Len(t) : s[i] < t[j]
Above(s, x) == \A i \in 1..Len(s) : x < s[i]
AtMost(s, x) == \A i \in 1..Len(s) : s[i] <= x

LEMMA NoBytes ==
    /\ <<>> \in Seq(Nat) /\ Len(<<>>) = 0 /\ Up(<<>>)
    /\ \A x : Above(<<>>, x) /\ AtMost(<<>>, x)
    /\ \A s : Below(<<>>, s) /\ Below(s, <<>>)
<1>1. <<>> \in Seq(Nat) /\ Len(<<>>) = 0
  OBVIOUS
<1> QED
  BY <1>1 DEF Up, Above, AtMost, Below

(* What an interrupt takes from the hardware.                              *)
LEMMA BytesProperties ==
    ASSUME NEW from \in Nat, NEW n \in Nat
    PROVE  /\ Bytes(from, n) \in Seq(Nat) /\ Len(Bytes(from, n)) = n
           /\ \A i \in 1..n : Bytes(from, n)[i] = from + i
           /\ Up(Bytes(from, n))
           /\ Above(Bytes(from, n), from) /\ AtMost(Bytes(from, n), from + n)
<1>1. /\ Bytes(from, n) \in Seq(Nat) /\ Len(Bytes(from, n)) = n
      /\ \A i \in 1..n : Bytes(from, n)[i] = from + i
  BY DEF Bytes
<1> QED
  BY <1>1 DEF Up, Above, AtMost

LEMMA Joined ==
    ASSUME NEW s \in Seq(Nat), NEW t \in Seq(Nat), Up(s), Up(t), Below(s, t)
    PROVE  /\ s \o t \in Seq(Nat) /\ Len(s \o t) = Len(s) + Len(t)
           /\ Up(s \o t)
           /\ \A x : Above(s, x) /\ Above(t, x) => Above(s \o t, x)
           /\ \A x : AtMost(s, x) /\ AtMost(t, x) => AtMost(s \o t, x)
           /\ \A u : Below(u, s) /\ Below(u, t) => Below(u, s \o t)
<1>1. /\ s \o t \in Seq(Nat) /\ Len(s \o t) = Len(s) + Len(t)
      /\ Len(s) \in Nat /\ Len(t) \in Nat
      /\ \A i \in 1..Len(s) + Len(t) :
            (s \o t)[i] = IF i <= Len(s) THEN s[i] ELSE t[i - Len(s)]
  BY ConcatProperties, LenProperties
<1>2. Up(s \o t)
  <2> SUFFICES ASSUME NEW i \in 1..Len(s) + Len(t), NEW j \in 1..Len(s) + Len(t), i < j
               PROVE  (s \o t)[i] < (s \o t)[j]
    BY <1>1 DEF Up
  <2>1. CASE j <= Len(s)
    BY <1>1, <2>1 DEF Up
  <2>2. CASE i <= Len(s) /\ j > Len(s)
    BY <1>1, <2>2 DEF Below
  <2>3. CASE i > Len(s)
    <3> DEFINE k == i - Len(s)
               l == j - Len(s)
    <3>1. k \in 1..Len(t) /\ l \in 1..Len(t) /\ k < l
      BY <1>1, <2>3
    <3>2. (s \o t)[i] = t[k] /\ (s \o t)[j] = t[l]
      BY <1>1, <2>3
    <3> QED
      BY <3>1, <3>2 DEF Up
  <2> QED
    BY <1>1, <2>1, <2>2, <2>3
<1> QED
  BY <1>1, <1>2 DEF Above, AtMost, Below

(* The first n bytes, and the others.                                      *)
LEMMA Split ==
    ASSUME NEW s \in Seq(Nat), NEW n \in Nat, n <= Len(s), Up(s)
    PROVE  LET a == SubSeq(s, 1, n)
               b == SubSeq(s, n + 1, Len(s))
           IN  /\ a \in Seq(Nat) /\ Len(a) = n /\ Up(a)
               /\ b \in Seq(Nat) /\ Len(b) = Len(s) - n /\ Up(b)
               /\ Below(a, b)
               /\ \A x : Above(s, x) => Above(a, x) /\ Above(b, x)
               /\ \A x : AtMost(s, x) => AtMost(a, x) /\ AtMost(b, x)
               /\ \A u : Below(s, u) => Below(a, u) /\ Below(b, u)
<1> DEFINE a == SubSeq(s, 1, n)
           b == SubSeq(s, n + 1, Len(s))
<1>1. Len(s) \in Nat /\ \A i \in 1..Len(s) : s[i] \in Nat
  BY LenProperties, ElementOfSeq
<1>2. /\ a \in Seq(Nat) /\ Len(a) = n
      /\ \A i \in 1..n : a[i] = s[i]
  BY <1>1, SubSeqProperties
<1>3. /\ b \in Seq(Nat) /\ Len(b) = Len(s) - n
      /\ \A i \in 1..Len(s) - n : b[i] = s[n + i]
  BY <1>1, SubSeqProperties
<1> HIDE DEF a, b
<1>p. /\ \A i \in 1..Len(a) : i \in 1..Len(s) /\ i <= n /\ a[i] = s[i]
      /\ \A i \in 1..Len(b) : n + i \in 1..Len(s) /\ b[i] = s[n + i]
  BY <1>1, <1>2, <1>3
<1>4. Up(a) /\ Up(b) /\ Below(a, b)
  <2>1. Up(a)
    BY <1>p DEF Up
  <2>2. ASSUME NEW i \in 1..Len(b), NEW j \in 1..Len(b), i < j PROVE b[i] < b[j]
    <3>1. n + i < n + j /\ n + i \in 1..Len(s) /\ n + j \in 1..Len(s)
      BY <1>p, <2>2
    <3> QED
      BY <1>p, <3>1 DEF Up
  <2>3. ASSUME NEW i \in 1..Len(a), NEW j \in 1..Len(b) PROVE a[i] < b[j]
    <3>1. i < n + j /\ i \in 1..Len(s) /\ n + j \in 1..Len(s)
      BY <1>p, <2>3
    <3> QED
      BY <1>p, <3>1 DEF Up
  <2> QED
    BY <2>1, <2>2, <2>3 DEF Up, Below
<1>5. /\ \A x : Above(s, x) => Above(a, x) /\ Above(b, x)
      /\ \A x : AtMost(s, x) => AtMost(a, x) /\ AtMost(b, x)
      /\ \A u : Below(s, u) => Below(a, u) /\ Below(b, u)
  BY <1>p DEF Above, AtMost, Below
<1> QED
  BY <1>2, <1>3, <1>4, <1>5 DEF a, b

-----------------------------------------------------------------------------
(* Types                                                                   *)

Event == [type : Overflows \cup {"UART_DATA", Logged}, size : 0..BufferSize, first : Nat]

QueueTypes ==
    /\ events \in Seq(Event) /\ Len(events) <= QueueLength
    /\ event \in Seq(Event) /\ Len(event) <= 1
    /\ uartPc \in {"receive", "read", "call", "flush", "reset"}
    /\ uartPc = "read" => event # <<>>
    /\ callback \in BOOLEAN

ByteTypes ==
    /\ buffer \in Seq(Nat) /\ Len(buffer) <= BufferSize
    /\ stash \in Seq(Nat) /\ Len(stash) <= BufferSize
    /\ handed \in Seq(Nat) /\ past \in Nat
    /\ received \in 0..MaxBytes

(* What was handed over came before what is in the buffer, and that before
   what is stashed.                                                        *)
Order ==
    /\ Up(handed) /\ Up(buffer) /\ Up(stash)
    /\ Below(handed, buffer) /\ Below(handed, stash) /\ Below(buffer, stash)
    /\ Above(handed, past) /\ Above(buffer, past) /\ Above(stash, past)
    /\ AtMost(handed, received) /\ AtMost(buffer, received) /\ AtMost(stash, received)
    /\ past <= received

UartInv == QueueTypes /\ ByteTypes /\ Order

LEMMA NoEvents == <<>> \in Seq(Event) /\ Len(<<>>) = 0
  OBVIOUS

LEMMA Bounds ==
    /\ QueueLength \in Nat /\ QueueLength >= 1
    /\ BufferSize \in Nat /\ MaxBytes \in Nat
    /\ \A n \in ChunkSizes : n \in Nat /\ n <= BufferSize
  BY UartAssumption

LEMMA NoticeType ==
    ASSUME NEW t \in Overflows \cup {Logged}
    PROVE  Notice(t) \in Event
  BY Bounds DEF Notice, Event

LEMMA PostType ==
    ASSUME QueueTypes, NEW e \in Event, Post(e)
    PROVE  events' \in Seq(Event) /\ Len(events') <= QueueLength
  BY Bounds, AppendProperties, LenProperties DEF QueueTypes, Post

LEMMA UartInitInv == UartInit => UartInv
<1> SUFFICES ASSUME UartInit PROVE UartInv
  OBVIOUS
<1>0. 0 <= QueueLength /\ 0 <= 1
  BY Bounds
<1>1. QueueTypes
  BY <1>0, NoEvents DEF UartInit, QueueTypes
<1>2. ByteTypes
  BY NoBytes, Bounds DEF UartInit, ByteTypes
<1>3. Order
  BY NoBytes DEF UartInit, Order
<1> QED
  BY <1>1, <1>2, <1>3 DEF UartInv

-----------------------------------------------------------------------------
(* What the queue announces                                                *)

Total(es) == SumTo(SizesOf(es), Len(es))

(* Every event finds its first byte in the buffer b behind the d bytes of
   the event in hand and those of the events before it.                    *)
Marked(b, es, d) ==
    \A i \in 1..Len(es) :
        es[i].size > 0 => b[d + SumTo(SizesOf(es), i - 1) + 1] = es[i].first

LEMMA SizesProperties ==
    ASSUME NEW es \in Seq(Event)
    PROVE  /\ Len(es) \in Nat
           /\ \A i \in 1..Len(es) : /\ es[i].size \in Nat
                                     /\ SizesOf(es)[i] = es[i].size
                                     /\ SizesOf(es)[i] \in Nat
           /\ Total(es) \in Nat
           /\ \A i \in 1..Len(es) :
                 /\ SumTo(SizesOf(es), i - 1) \in Nat
                 /\ SumTo(SizesOf(es), i) = SumTo(SizesOf(es), i - 1) + es[i].size
                 /\ SumTo(SizesOf(es), i) <= Total(es)
<1>1. Len(es) \in Nat /\ \A i \in 1..Len(es) : es[i].size \in Nat
  <2>1. \A i \in 1..Len(es) : es[i] \in Event
    BY ElementOfSeq
  <2> QED
    BY <2>1, LenProperties, Bounds DEF Event
<1>2. \A i \in 1..Len(es) : SizesOf(es)[i] = es[i].size /\ SizesOf(es)[i] \in Nat
  BY <1>1 DEF SizesOf
<1>3. /\ \A k \in 0..Len(es) : SumTo(SizesOf(es), k) \in Nat
      /\ \A k \in 0..Len(es) : \A i \in 0..k : SumTo(SizesOf(es), i) <= SumTo(SizesOf(es), k)
  BY <1>1, <1>2, SumMonotonic
<1>4. ASSUME NEW i \in 1..Len(es)
      PROVE  /\ SumTo(SizesOf(es), i - 1) \in Nat
             /\ SumTo(SizesOf(es), i) = SumTo(SizesOf(es), i - 1) + es[i].size
             /\ SumTo(SizesOf(es), i) <= Total(es)
  <2>1. i - 1 \in Nat /\ i - 1 \in 0..Len(es) /\ (i - 1) + 1 = i
    BY <1>1
  <2>2. SumTo(SizesOf(es), i) = SumTo(SizesOf(es), i - 1) + SizesOf(es)[i]
    BY <2>1, SumSteps
  <2>3. i \in 0..Len(es) /\ Len(es) \in 0..Len(es)
    BY <1>1
  <2> QED
    BY <1>2, <1>3, <2>1, <2>2, <2>3 DEF Total
<1> QED
  BY <1>1, <1>2, <1>3, <1>4 DEF Total

LEMMA OffsetProperties ==
    ASSUME NEW es \in Seq(Event), NEW i \in 1..Len(es)
    PROVE  /\ SumTo(SizesOf(es), i - 1) \in Nat /\ es[i].size \in Nat /\ Total(es) \in Nat
           /\ SumTo(SizesOf(es), i - 1) + es[i].size <= Total(es)
<1>1. /\ SumTo(SizesOf(es), i - 1) \in Nat /\ es[i].size \in Nat /\ Total(es) \in Nat
      /\ SumTo(SizesOf(es), i) = SumTo(SizesOf(es), i - 1) + es[i].size
      /\ SumTo(SizesOf(es), i) <= Total(es)
  BY SizesProperties
<1> QED
  BY <1>1

LEMMA NothingAnnounced == Total(<<>>) = 0 /\ \A b, d : Marked(b, <<>>, d)
<1>1. Len(<<>>) = 0
  OBVIOUS
<1> QED
  BY <1>1, SumSteps DEF Total, Marked

(* One event more at the end.                                              *)
LEMMA AnnouncedMore ==
    ASSUME NEW es \in Seq(Event), NEW e \in Event
    PROVE  /\ Append(es, e) \in Seq(Event) /\ Len(Append(es, e)) = Len(es) + 1
           /\ Append(es, e)[Len(es) + 1] = e
           /\ \A i \in 1..Len(es) : Append(es, e)[i] = es[i]
           /\ Total(Append(es, e)) = Total(es) + e.size
           /\ \A i \in 1..Len(es) + 1 :
                 SumTo(SizesOf(Append(es, e)), i - 1) = SumTo(SizesOf(es), i - 1)
<1> DEFINE new == Append(es, e)
<1>1. /\ new \in Seq(Event) /\ Len(new) = Len(es) + 1 /\ Len(es) \in Nat
      /\ new[Len(es) + 1] = e
      /\ \A i \in 1..Len(es) : new[i] = es[i]
  BY AppendProperties, LenProperties
<1> HIDE DEF new
<1>2. /\ \A j \in 1..Len(new) : SizesOf(new)[j] = new[j].size /\ SizesOf(new)[j] \in Int
      /\ \A j \in 1..Len(es) : SizesOf(es)[j] = es[j].size /\ SizesOf(es)[j] \in Int
  BY <1>1, SizesProperties
<1>3. \A j \in 1..Len(es) : SizesOf(new)[0 + j] = SizesOf(es)[0 + j]
  <2> SUFFICES ASSUME NEW j \in 1..Len(es)
               PROVE  SizesOf(new)[0 + j] = SizesOf(es)[0 + j]
    OBVIOUS
  <2>1. 0 + j = j /\ j \in 1..Len(new)
    BY <1>1
  <2> QED
    BY <1>1, <1>2, <2>1
<1>4. \A k \in 0..Len(es) : SumTo(SizesOf(new), k) = SumTo(SizesOf(es), k)
  <2>1. \A k \in 0..Len(es) : SumTo(SizesOf(new), 0 + k) - SumTo(SizesOf(new), 0)
                            = SumTo(SizesOf(es), 0 + k) - SumTo(SizesOf(es), 0)
    <3>1. 0 \in 0..Len(new) /\ 0 \in 0..Len(es) /\ 0 + Len(es) <= Len(new)
          /\ 0 + Len(es) <= Len(es) /\ Len(new) \in Nat /\ Len(es) \in Nat
      BY <1>1
    <3>2. \A j \in 1..Len(new) : SizesOf(new)[j] \in Int
      BY <1>2
    <3>3. \A j \in 1..Len(es) : SizesOf(es)[j] \in Int
      BY <1>2
    <3>4. Alike(SizesOf(new), Len(new), 0, SizesOf(es), Len(es), 0, Len(es))
      BY <1>3, <3>1, <3>2, <3>3 DEF Alike
    <3> QED
      BY <3>4, SumsGrowAlike
  <2>2. ASSUME NEW k \in 0..Len(es) PROVE SumTo(SizesOf(new), k) = SumTo(SizesOf(es), k)
    <3>1. 0 + k = k /\ k \in 0..Len(new) /\ Len(new) \in Nat
      BY <1>1
    <3>2. SumTo(SizesOf(new), k) \in Int /\ SumTo(SizesOf(es), k) \in Int
      BY <1>1, <1>2, <3>1, SumInt
    <3>3. SumTo(SizesOf(new), 0) = 0 /\ SumTo(SizesOf(es), 0) = 0
      BY SumSteps
    <3> QED
      BY <2>1, <3>1, <3>2, <3>3
  <2> QED
    BY <2>2
<1>5. Total(new) = Total(es) + e.size
  <2>1. Len(new) \in 1..Len(new) /\ Len(new) - 1 = Len(es) /\ Len(es) \in 0..Len(es)
    BY <1>1
  <2>2. SumTo(SizesOf(new), Len(new)) = SumTo(SizesOf(new), Len(es)) + e.size
    BY <1>1, <2>1, SizesProperties
  <2> QED
    BY <1>4, <2>1, <2>2 DEF Total
<1>6. ASSUME NEW i \in 1..Len(es) + 1
      PROVE  SumTo(SizesOf(new), i - 1) = SumTo(SizesOf(es), i - 1)
  <2>1. i - 1 \in 0..Len(es)
    BY <1>1
  <2> QED
    BY <1>4, <2>1
<1> QED
  BY <1>1, <1>5, <1>6 DEF new

(* The first event taken from the queue.                                   *)
LEMMA AnnouncedFewer ==
    ASSUME NEW es \in Seq(Event), es # <<>>
    PROVE  /\ Head(es) \in Event /\ Tail(es) \in Seq(Event)
           /\ Len(Tail(es)) = Len(es) - 1 /\ Len(es) \in Nat \ {0}
           /\ Head(es) = es[1]
           /\ \A i \in 1..Len(es) - 1 : Tail(es)[i] = es[i + 1]
           /\ Total(es) = Head(es).size + Total(Tail(es))
           /\ \A i \in 1..Len(es) - 1 :
                 SumTo(SizesOf(es), i) = Head(es).size + SumTo(SizesOf(Tail(es)), i - 1)
<1> DEFINE new == Tail(es)
<1>1. /\ Head(es) \in Event /\ new \in Seq(Event) /\ Len(new) = Len(es) - 1
      /\ Head(es) = es[1] /\ Len(es) \in Nat \ {0}
      /\ \A i \in 1..Len(es) - 1 : new[i] = es[i + 1]
  <2>1. Len(es) \in Nat /\ Len(es) # 0
    BY LenProperties, EmptySeq
  <2>2. Len(new) = Len(es) - 1 /\ new \in Seq(Event) /\ Head(es) \in Event
    BY HeadTailProperties
  <2>3. \A i \in 1..Len(es) - 1 : new[i] = es[i + 1]
    BY <2>1, <2>2, HeadTailProperties
  <2> QED
    BY <2>1, <2>2, <2>3
<1> HIDE DEF new
<1>2. /\ \A j \in 1..Len(new) : SizesOf(new)[j] = new[j].size /\ SizesOf(new)[j] \in Int
      /\ \A j \in 1..Len(es) : SizesOf(es)[j] = es[j].size /\ SizesOf(es)[j] \in Int
  <2>1. new \in Seq(Event)
    BY <1>1
  <2>2. \A j \in 1..Len(new) : SizesOf(new)[j] = new[j].size /\ SizesOf(new)[j] \in Int
    BY <2>1, SizesProperties
  <2>3. \A j \in 1..Len(es) : SizesOf(es)[j] = es[j].size /\ SizesOf(es)[j] \in Int
    BY SizesProperties
  <2> QED
    BY <2>2, <2>3
<1>3. \A j \in 1..Len(new) : SizesOf(es)[1 + j] = SizesOf(new)[0 + j]
  <2> SUFFICES ASSUME NEW j \in 1..Len(new)
               PROVE  SizesOf(es)[1 + j] = SizesOf(new)[0 + j]
    OBVIOUS
  <2>1. 0 + j = j /\ 1 + j = j + 1 /\ j + 1 \in 1..Len(es) /\ j \in 1..Len(es) - 1
    BY <1>1
  <2> QED
    BY <1>1, <1>2, <2>1
<1>4. \A k \in 0..Len(new) : SumTo(SizesOf(es), k + 1) = Head(es).size + SumTo(SizesOf(new), k)
  <2>1. \A k \in 0..Len(new) : SumTo(SizesOf(es), 1 + k) - SumTo(SizesOf(es), 1)
                             = SumTo(SizesOf(new), 0 + k) - SumTo(SizesOf(new), 0)
    <3>1. 1 \in 0..Len(es) /\ 0 \in 0..Len(new) /\ 1 + Len(new) <= Len(es)
          /\ 0 + Len(new) <= Len(new) /\ Len(new) \in Nat /\ Len(es) \in Nat
      BY <1>1
    <3>2. \A j \in 1..Len(new) : SizesOf(new)[j] \in Int
      BY <1>2
    <3>3. \A j \in 1..Len(es) : SizesOf(es)[j] \in Int
      BY <1>2
    <3>4. Alike(SizesOf(es), Len(es), 1, SizesOf(new), Len(new), 0, Len(new))
      BY <1>3, <3>1, <3>2, <3>3 DEF Alike
    <3> QED
      BY <3>4, SumsGrowAlike
  <2>2. ASSUME NEW k \in 0..Len(new)
        PROVE  SumTo(SizesOf(es), k + 1) = Head(es).size + SumTo(SizesOf(new), k)
    <3>1. 0 + k = k /\ 1 + k = k + 1 /\ k + 1 \in 0..Len(es) /\ Len(new) \in Nat
      BY <1>1
    <3>2. SumTo(SizesOf(new), k) \in Int /\ SumTo(SizesOf(es), k + 1) \in Int
      BY <1>1, <1>2, <3>1, SumInt
    <3>3. SumTo(SizesOf(new), 0) = 0
      BY SumSteps
    <3>4. SumTo(SizesOf(es), 1) = Head(es).size /\ Head(es).size \in Nat
      <4>1. 1 \in 1..Len(es) /\ 1 - 1 = 0
        BY <1>1
      <4>2. SumTo(SizesOf(es), 1) = SumTo(SizesOf(es), 0) + es[1].size /\ es[1].size \in Nat
        BY <4>1, SizesProperties
      <4>3. SumTo(SizesOf(es), 0) = 0 /\ Head(es) = es[1]
        BY <1>1, SumSteps
      <4> QED
        BY <4>2, <4>3
    <3> QED
      BY <2>1, <3>1, <3>2, <3>3, <3>4
  <2> QED
    BY <2>2
<1>5. Total(es) = Head(es).size + Total(new)
  <2>1. Len(new) \in 0..Len(new) /\ Len(new) + 1 = Len(es)
    BY <1>1
  <2> QED
    BY <1>4, <2>1 DEF Total
<1>6. ASSUME NEW i \in 1..Len(es) - 1
      PROVE  SumTo(SizesOf(es), i) = Head(es).size + SumTo(SizesOf(new), i - 1)
  <2>1. i - 1 \in 0..Len(new) /\ (i - 1) + 1 = i
    BY <1>1
  <2> QED
    BY <1>4, <2>1
<1> QED
  BY <1>1, <1>5, <1>6 DEF new

(* The marks stay when bytes are put behind those in the buffer.           *)
LEMMA MarkedWithMore ==
    ASSUME NEW b \in Seq(Nat), NEW c \in Seq(Nat), NEW es \in Seq(Event), NEW d \in Nat,
           d + Total(es) <= Len(b), Marked(b, es, d)
    PROVE  Marked(b \o c, es, d)
<1> SUFFICES ASSUME NEW i \in 1..Len(es), es[i].size > 0
             PROVE  (b \o c)[d + SumTo(SizesOf(es), i - 1) + 1] = es[i].first
  BY DEF Marked
<1> DEFINE before == SumTo(SizesOf(es), i - 1)
           n == es[i].size
           total == Total(es)
           length == Len(b)
           k == d + before + 1
<1>0. /\ before \in Nat /\ n \in Nat /\ total \in Nat /\ before + n <= total
      /\ length \in Nat /\ n > 0 /\ d + total <= length
  BY OffsetProperties, LenProperties
<1>1. k \in 1..Len(b)
  <2> HIDE DEF before, n, total, length
  <2>1. k \in 1..length
    BY <1>0
  <2> QED
    BY <2>1 DEF length
<1>2. b[k] = es[i].first
  BY DEF Marked
<1> HIDE DEF k
<1>3. (b \o c)[k] = b[k]
  BY <1>1, ConcatProperties, LenProperties
<1> QED
  BY <1>2, <1>3 DEF k

(* A new event finds its first byte behind everything announced before it. *)
LEMMA MarkedByNew ==
    ASSUME NEW b, NEW es \in Seq(Event), NEW e \in Event, NEW d \in Nat,
           Marked(b, es, d), e.size > 0 => b[d + Total(es) + 1] = e.first
    PROVE  Marked(b, Append(es, e), d)
<1> DEFINE new == Append(es, e)
<1>1. /\ Len(new) = Len(es) + 1 /\ new[Len(es) + 1] = e /\ Len(es) \in Nat
      /\ \A i \in 1..Len(es) : new[i] = es[i]
      /\ \A i \in 1..Len(es) + 1 : SumTo(SizesOf(new), i - 1) = SumTo(SizesOf(es), i - 1)
  BY AnnouncedMore, LenProperties
<1> HIDE DEF new
<1> SUFFICES ASSUME NEW i \in 1..Len(es) + 1, new[i].size > 0
             PROVE  b[d + SumTo(SizesOf(new), i - 1) + 1] = new[i].first
  BY <1>1 DEF Marked, new
<1>2. CASE i \in 1..Len(es)
  BY <1>1, <1>2 DEF Marked
<1>3. CASE i = Len(es) + 1
  <2>1. i - 1 = Len(es)
    BY <1>1, <1>3
  <2>2. SumTo(SizesOf(new), i - 1) = Total(es)
    BY <1>1, <2>1 DEF Total
  <2> QED
    BY <1>1, <1>3, <2>2
<1> QED
  BY <1>1, <1>2, <1>3

(* The event in hand has the bytes in front of the others.                 *)
LEMMA MarkedInHand ==
    ASSUME NEW b, NEW es \in Seq(Event), es # <<>>, Marked(b, es, 0)
    PROVE  /\ Marked(b, Tail(es), Head(es).size)
           /\ Head(es).size > 0 => b[1] = Head(es).first
<1> DEFINE new == Tail(es)
<1>1. /\ Head(es) \in Event /\ Head(es) = es[1] /\ Len(es) \in Nat \ {0}
      /\ new \in Seq(Event) /\ Len(new) = Len(es) - 1
      /\ \A i \in 1..Len(es) - 1 : new[i] = es[i + 1]
      /\ \A i \in 1..Len(es) - 1 :
            SumTo(SizesOf(es), i) = Head(es).size + SumTo(SizesOf(new), i - 1)
  BY AnnouncedFewer
<1> HIDE DEF new
<1>2. Head(es).size > 0 => b[1] = Head(es).first
  <2>1. 1 \in 1..Len(es) /\ 1 - 1 = 0
    BY <1>1
  <2>2. es[1].size > 0 => b[0 + SumTo(SizesOf(es), 0) + 1] = es[1].first
    BY <2>1 DEF Marked
  <2> QED
    BY <1>1, <2>2, SumSteps, SMTT(30)
<1>3. ASSUME NEW i \in 1..Len(new), new[i].size > 0
      PROVE  b[Head(es).size + SumTo(SizesOf(new), i - 1) + 1] = new[i].first
  <2>1. i \in 1..Len(es) - 1 /\ i + 1 \in 1..Len(es) /\ (i + 1) - 1 = i
    BY <1>1
  <2>2. b[0 + SumTo(SizesOf(es), i) + 1] = es[i + 1].first
    BY <1>1, <1>3, <2>1 DEF Marked
  <2>3. SumTo(SizesOf(es), i) = Head(es).size + SumTo(SizesOf(new), i - 1)
    BY <1>1, <2>1
  <2>4. Head(es).size \in Nat /\ SumTo(SizesOf(new), i - 1) \in Nat
    <3>1. i \in 1..Len(new)
      BY <1>1
    <3>2. SumTo(SizesOf(new), i - 1) \in Nat
      BY <1>1, <3>1, OffsetProperties
    <3>3. Head(es).size \in Nat
      BY <1>1, Bounds DEF Event
    <3> QED
      BY <3>2, <3>3
  <2>5. 0 + SumTo(SizesOf(es), i) + 1 = Head(es).size + SumTo(SizesOf(new), i - 1) + 1
    BY <2>3, <2>4
  <2> QED
    BY <1>1, <2>1, <2>2, <2>5
<1> QED
  BY <1>2, <1>3 DEF Marked, new

(* Its bytes are read, and the others move up.                             *)
LEMMA MarkedAfterRead ==
    ASSUME NEW b \in Seq(Nat), NEW es \in Seq(Event), NEW d \in Nat,
           d + Total(es) <= Len(b), Marked(b, es, d)
    PROVE  Marked(SubSeq(b, d + 1, Len(b)), es, 0)
<1> DEFINE rest == SubSeq(b, d + 1, Len(b))
<1> SUFFICES ASSUME NEW i \in 1..Len(es), es[i].size > 0
             PROVE  rest[0 + SumTo(SizesOf(es), i - 1) + 1] = es[i].first
  BY DEF Marked
<1> DEFINE before == SumTo(SizesOf(es), i - 1)
           n == es[i].size
           total == Total(es)
           length == Len(b)
           k == before + 1
<1>0. /\ before \in Nat /\ n \in Nat /\ total \in Nat /\ before + n <= total
      /\ length \in Nat /\ n > 0 /\ d + total <= length
  BY OffsetProperties, LenProperties
<1>1. k \in 1..Len(b) - d /\ 0 + SumTo(SizesOf(es), i - 1) + 1 = k
      /\ d + SumTo(SizesOf(es), i - 1) + 1 = d + k
  <2> HIDE DEF before, n, total, length
  <2>1. k \in 1..length - d /\ 0 + before + 1 = k /\ d + before + 1 = d + k
    BY <1>0
  <2> QED
    BY <2>1 DEF length, before
<1>2. b[d + k] = es[i].first
  <2>1. b[d + SumTo(SizesOf(es), i - 1) + 1] = es[i].first
    BY DEF Marked
  <2> QED
    BY <1>1, <2>1
<1> HIDE DEF k
<1>3. rest[k] = b[d + k]
  <2>1. Len(b) \in Nat /\ d <= Len(b)
    BY <1>1, LenProperties
  <2>2. \A j \in 1..Len(b) - d : rest[j] = b[d + j]
    BY <2>1, SubSeqProperties
  <2> QED
    BY <1>1, <2>2
<1> QED
  BY <1>1, <1>2, <1>3

-----------------------------------------------------------------------------
(* What is announced is in the buffer                                      *)

(* The d bytes due for the event in hand, the first of them f, and those the
   events es announce are in the buffer b; where b holds no others, each
   event finds its own.                                                    *)
Backed(b, es, d, f) ==
    /\ d + Total(es) <= Len(b)
    /\ d + Total(es) = Len(b) => Marked(b, es, d) /\ (d > 0 => b[1] = f)

(* Only data has a size, and the task reads only for data.                 *)
Labelled ==
    /\ \A i \in 1..Len(events) : events[i].size > 0 <=> events[i].type = "UART_DATA"
    /\ uartPc = "read" => Head(event).size > 0

AnnounceInv ==
    /\ Labelled
    /\ uartPc # "reset" => Backed(buffer, events, Due, Head(event).first)

LEMMA BackedByNothing ==
    ASSUME NEW b \in Seq(Nat), NEW f
    PROVE  Backed(b, <<>>, 0, f)
  BY NothingAnnounced, LenProperties DEF Backed

LEMMA BackedAnyFirst ==
    ASSUME NEW b, NEW es, NEW f, NEW g, Backed(b, es, 0, f)
    PROVE  Backed(b, es, 0, g)
  BY DEF Backed

(* Bytes come into the buffer that no event announces.                     *)
LEMMA BackedWithMore ==
    ASSUME NEW b \in Seq(Nat), NEW c \in Seq(Nat), NEW es \in Seq(Event),
           NEW d \in Nat, NEW f, Backed(b, es, d, f)
    PROVE  Backed(b \o c, es, d, f)
<1>1. /\ Len(b \o c) = Len(b) + Len(c) /\ Len(b) \in Nat /\ Len(c) \in Nat
      /\ Total(es) \in Nat
  BY ConcatProperties, LenProperties, SizesProperties
<1>2. d + Total(es) <= Len(b)
  BY DEF Backed
<1>3. CASE Len(c) = 0
  <2>1. b \o c = b
    BY <1>3, EmptySeq, ConcatEmptySeq
  <2> QED
    BY <2>1
<1>4. CASE Len(c) # 0
  <2>1. d + Total(es) < Len(b \o c)
    BY <1>1, <1>2, <1>4
  <2> QED
    BY <1>1, <2>1 DEF Backed
<1> QED
  BY <1>3, <1>4

(* Bytes come into the buffer with the event that announces them.          *)
LEMMA BackedByNew ==
    ASSUME NEW b \in Seq(Nat), NEW c \in Seq(Nat), NEW es \in Seq(Event),
           NEW e \in Event, NEW d \in Nat, NEW f,
           Backed(b, es, d, f), Len(c) = e.size, e.size > 0 => c[1] = e.first
    PROVE  Backed(b \o c, Append(es, e), d, f)
<1>1. /\ Len(b \o c) = Len(b) + e.size /\ Len(b) \in Nat /\ e.size \in Nat
      /\ Total(es) \in Nat /\ Total(Append(es, e)) = Total(es) + e.size
  <2>1. Len(b \o c) = Len(b) + Len(c) /\ Len(b) \in Nat
    BY ConcatProperties, LenProperties
  <2>2. Total(es) \in Nat /\ Total(Append(es, e)) = Total(es) + e.size
    BY SizesProperties, AnnouncedMore
  <2>3. e.size \in Nat
    BY Bounds DEF Event
  <2> QED
    BY <2>1, <2>2, <2>3
<1>2. d + Total(es) <= Len(b)
  BY DEF Backed
<1>3. d + Total(Append(es, e)) <= Len(b \o c)
  BY <1>1, <1>2
<1>4. ASSUME d + Total(Append(es, e)) = Len(b \o c)
      PROVE  Marked(b \o c, Append(es, e), d) /\ (d > 0 => (b \o c)[1] = f)
  <2>1. d + Total(es) = Len(b)
    BY <1>1, <1>4
  <2>2. Marked(b, es, d) /\ (d > 0 => b[1] = f)
    BY <2>1 DEF Backed
  <2>3. Marked(b \o c, es, d)
    BY <1>2, <2>2, MarkedWithMore
  <2>4. e.size > 0 => (b \o c)[d + Total(es) + 1] = e.first
    <3> SUFFICES ASSUME e.size > 0 PROVE (b \o c)[Len(b) + 1] = e.first
      BY <2>1
    <3>1. (b \o c)[Len(b) + 1] = c[(Len(b) + 1) - Len(b)]
      BY <1>1, ConcatProperties
    <3>2. (Len(b) + 1) - Len(b) = 1
      BY <1>1
    <3> QED
      BY <3>1, <3>2
  <2>5. Marked(b \o c, Append(es, e), d)
    BY <2>3, <2>4, MarkedByNew
  <2>6. d > 0 => (b \o c)[1] = f
    <3> SUFFICES ASSUME d > 0 PROVE (b \o c)[1] = b[1]
      BY <2>2
    <3>1. 1 <= Len(b) /\ 1 \in 1..Len(b) + Len(c) /\ Len(c) \in Nat
      BY <1>1, <1>2
    <3> QED
      BY <3>1, ConcatProperties
  <2> QED
    BY <2>5, <2>6
<1> QED
  BY <1>3, <1>4 DEF Backed

(* The task takes the first event in hand.                                 *)
LEMMA BackedInHand ==
    ASSUME NEW b, NEW es \in Seq(Event), es # <<>>, NEW f, Backed(b, es, 0, f)
    PROVE  Backed(b, Tail(es), Head(es).size, Head(es).first)
<1>1. /\ Total(es) = Head(es).size + Total(Tail(es)) /\ Total(es) \in Nat
  BY AnnouncedFewer, SizesProperties
<1> QED
  BY <1>1, MarkedInHand DEF Backed

(* The bytes of the event in hand are read.                                *)
LEMMA BackedAfterRead ==
    ASSUME NEW b \in Seq(Nat), NEW es \in Seq(Event), NEW d \in Nat,
           NEW f, NEW g, Backed(b, es, d, f)
    PROVE  Backed(SubSeq(b, d + 1, Len(b)), es, 0, g)
<1>1. d + Total(es) <= Len(b) /\ Len(b) \in Nat /\ Total(es) \in Nat
  BY LenProperties, SizesProperties DEF Backed
<1>2. Len(SubSeq(b, d + 1, Len(b))) = Len(b) - d
  BY <1>1, SubSeqProperties
<1>3. d + Total(es) = Len(b) => Marked(SubSeq(b, d + 1, Len(b)), es, 0)
  BY <1>1, MarkedAfterRead DEF Backed
<1> QED
  BY <1>1, <1>2, <1>3, SMTT(30) DEF Backed

-----------------------------------------------------------------------------
(* Steps                                                                   *)

LEMMA ArriveInv ==
    ASSUME UartInv, NEW n \in ChunkSizes, Arrive(n)
    PROVE  UartInv'
<1> USE DEF UartInv
<1>1. n \in Nat /\ n <= BufferSize /\ received \in Nat
  BY Bounds DEF ByteTypes
<1> DEFINE new == Bytes(received, n)
<1>2. /\ new \in Seq(Nat) /\ Len(new) = n /\ Up(new)
      /\ Above(new, received) /\ AtMost(new, received + n)
  BY <1>1, BytesProperties
<1>3. received' = received + n /\ received' \in 0..MaxBytes /\ received <= received'
  BY <1>1, Bounds DEF Arrive
<1>4. /\ AtMost(handed, received') /\ AtMost(buffer, received') /\ past <= received'
      /\ AtMost(new, received')
  <2>1. \A s \in Seq(Nat) : AtMost(s, received) => AtMost(s, received')
    <3> SUFFICES ASSUME NEW s \in Seq(Nat), AtMost(s, received), NEW i \in 1..Len(s)
                 PROVE  s[i] <= received'
      BY DEF AtMost
    <3>1. s[i] \in Nat /\ s[i] <= received
      BY ElementOfSeq DEF AtMost
    <3> QED
      BY <1>1, <1>3, <3>1
  <2>2. past <= received'
    BY <1>1, <1>3 DEF ByteTypes, Order
  <2> QED
    BY <1>2, <1>3, <2>1, <2>2 DEF ByteTypes, Order
<1>5. Above(new, past) /\ Below(handed, new) /\ Below(buffer, new)
  <2>1. \A s \in Seq(Nat) : AtMost(s, received) => Below(s, new)
    <3> SUFFICES ASSUME NEW s \in Seq(Nat), AtMost(s, received),
                        NEW i \in 1..Len(s), NEW j \in 1..Len(new)
                 PROVE  s[i] < new[j]
      BY DEF Below
    <3>1. s[i] \in Nat /\ s[i] <= received /\ new[j] \in Nat /\ received < new[j]
      BY <1>2, ElementOfSeq DEF AtMost, Above
    <3> HIDE DEF new
    <3> QED
      BY <1>1, <3>1
  <2>2. Above(new, past)
    <3> SUFFICES ASSUME NEW i \in 1..Len(new) PROVE past < new[i]
      BY DEF Above
    <3>1. new[i] \in Nat /\ received < new[i] /\ past <= received /\ past \in Nat
      BY <1>2, ElementOfSeq DEF Above, Order, ByteTypes
    <3> HIDE DEF new
    <3> QED
      BY <1>1, <3>1
  <2> QED
    BY <2>1, <2>2 DEF ByteTypes, Order
<1>6. stash = <<>> /\ UNCHANGED <<uartPc, event, callback, handed, past>>
  BY DEF Arrive
<1>7. CASE Len(buffer) + n <= BufferSize
  <2>1. buffer' = buffer \o new /\ stash' = <<>> /\ Post(Data(n, received + 1))
    BY <1>6, <1>7 DEF Arrive
  <2>2. Data(n, received + 1) \in Event
    BY <1>1, Bounds DEF Data, Event
  <2>3. QueueTypes'
    BY <1>6, <2>1, <2>2, PostType DEF QueueTypes
  <2> HIDE DEF new
  <2>4. /\ buffer' \in Seq(Nat) /\ Len(buffer') <= BufferSize /\ Up(buffer')
        /\ Above(buffer', past) /\ AtMost(buffer', received') /\ Below(handed, buffer')
    BY <1>2, <1>4, <1>5, <1>7, <2>1, Joined DEF ByteTypes, Order
  <2>5. ByteTypes'
    BY <1>3, <1>6, <2>1, <2>4, NoBytes, Bounds DEF ByteTypes
  <2>6. Order'
    BY <1>4, <1>6, <2>1, <2>4, NoBytes DEF Order
  <2> QED
    BY <2>3, <2>5, <2>6
<1>8. CASE ~(Len(buffer) + n <= BufferSize)
  <2>1. buffer' = buffer /\ stash' = new /\ Post(Notice("UART_BUFFER_FULL"))
    BY <1>8 DEF Arrive
  <2>2. Notice("UART_BUFFER_FULL") \in Event
    BY NoticeType DEF Overflows
  <2>3. QueueTypes'
    BY <1>6, <2>1, <2>2, PostType DEF QueueTypes
  <2> HIDE DEF new
  <2>4. ByteTypes'
    BY <1>1, <1>2, <1>3, <1>6, <2>1 DEF ByteTypes
  <2>5. Order'
    BY <1>2, <1>4, <1>5, <1>6, <2>1 DEF Order
  <2> QED
    BY <2>3, <2>4, <2>5
<1> QED
  BY <1>7, <1>8

(* Only the queue, the event in hand and the callback change.              *)
LEMMA BytesStay ==
    ASSUME UartInv, UNCHANGED <<buffer, stash, received, handed, past>>
    PROVE  ByteTypes' /\ Order'
  BY DEF UartInv, ByteTypes, Order

LEMMA ReadInv ==
    ASSUME UartInv, ReadBytes
    PROVE  UartInv'
<1> USE DEF UartInv
<1> DEFINE n == Head(event).size
           out == SubSeq(buffer, 1, n)
           rest == SubSeq(buffer, n + 1, Len(buffer))
<1>1. n \in Nat /\ n <= Len(buffer)
  <2>1. event # <<>>
    BY DEF ReadBytes, QueueTypes
  <2>2. Head(event) \in Event
    BY <2>1, HeadTailProperties DEF QueueTypes
  <2>3. Head(event).size \in 0..BufferSize
    BY <2>2 DEF Event
  <2> QED
    BY <2>3, Bounds DEF ReadBytes
<1>2. /\ out \in Seq(Nat) /\ Up(out)
      /\ rest \in Seq(Nat) /\ Len(rest) = Len(buffer) - n /\ Up(rest)
      /\ Below(out, rest)
      /\ Above(out, past) /\ Above(rest, past)
      /\ AtMost(out, received) /\ AtMost(rest, received)
      /\ Below(out, stash) /\ Below(rest, stash)
  BY <1>1, Split DEF ByteTypes, Order
<1>3. \A x : Above(buffer, x) => Above(out, x) /\ Above(rest, x)
  BY <1>1, Split DEF ByteTypes, Order
<1>4. /\ handed' = out
      /\ past' = IF handed = <<>> THEN past ELSE Last(handed)
      /\ \/ buffer' = rest \o stash /\ stash' = <<>> /\ Len(rest) + Len(stash) <= BufferSize
         \/ buffer' = rest /\ stash' = stash
      /\ UNCHANGED <<events, event, callback, received>> /\ uartPc' = "call"
  BY DEF ReadBytes
<1>5. /\ past' \in Nat /\ past' <= received
      /\ Above(buffer, past') /\ Above(stash, past')
  <2>1. CASE handed = <<>>
    BY <1>4, <2>1 DEF ByteTypes, Order
  <2>2. CASE handed # <<>>
    <3>1. Len(handed) \in 1..Len(handed)
      BY <2>2, EmptySeq DEF ByteTypes
    <3>2. past' = handed[Len(handed)] /\ past' \in Nat
      BY <1>4, <2>2, <3>1, ElementOfSeq DEF Last, ByteTypes
    <3>3. past' <= received
      BY <3>1, <3>2 DEF Order, AtMost
    <3>4. Above(buffer, past') /\ Above(stash, past')
      BY <3>1, <3>2 DEF Order, Below, Above
    <3> QED
      BY <3>2, <3>3, <3>4
  <2> QED
    BY <2>1, <2>2
<1>6. Above(out, past') /\ Above(rest, past')
  BY <1>3, <1>5
<1> HIDE DEF n, out, rest
<1>7. QueueTypes'
  BY <1>4 DEF QueueTypes
<1>8. CASE buffer' = rest \o stash /\ stash' = <<>> /\ Len(rest) + Len(stash) <= BufferSize
  <2>1. /\ buffer' \in Seq(Nat) /\ Len(buffer') <= BufferSize /\ Up(buffer')
        /\ Above(buffer', past') /\ AtMost(buffer', received) /\ Below(out, buffer')
    BY <1>2, <1>5, <1>6, <1>8, Joined DEF ByteTypes, Order
  <2>2. ByteTypes'
    BY <1>2, <1>4, <1>5, <1>8, <2>1, NoBytes, Bounds DEF ByteTypes
  <2>3. Order'
    BY <1>2, <1>4, <1>5, <1>6, <1>8, <2>1, NoBytes DEF Order
  <2> QED
    BY <1>7, <2>2, <2>3
<1>9. CASE buffer' = rest /\ stash' = stash
  <2>1. Len(rest) <= BufferSize
    BY <1>1, <1>2, LenProperties, Bounds DEF ByteTypes
  <2>2. ByteTypes'
    BY <1>2, <1>4, <1>5, <1>9, <2>1 DEF ByteTypes
  <2>3. Order'
    BY <1>2, <1>4, <1>5, <1>6, <1>9 DEF Order
  <2> QED
    BY <1>7, <2>2, <2>3
<1> QED
  BY <1>4, <1>8, <1>9

LEMMA StepInv == UartInv /\ [UartNext]_uartVars => UartInv'
<1> SUFFICES ASSUME UartInv, [UartNext]_uartVars PROVE UartInv'
  OBVIOUS
<1>1. ASSUME NEW n \in ChunkSizes, Arrive(n) PROVE UartInv'
  BY <1>1, ArriveInv
<1>2. CASE HardwareOverflow \/ LineNotice
  <2>1. PICK t \in Overflows \cup {Logged} : Post(Notice(t))
    BY <1>2 DEF HardwareOverflow, LineNotice, Overflows
  <2>2. QueueTypes'
    BY <1>2, <2>1, NoticeType, PostType
       DEF HardwareOverflow, LineNotice, UartInv, QueueTypes
  <2> QED
    BY <1>2, <2>2, BytesStay DEF HardwareOverflow, LineNotice, UartInv
<1>3. CASE SetCallback
  BY <1>3, BytesStay DEF SetCallback, UartInv, QueueTypes
<1>4. CASE TakeEvent
  <2>1. /\ Head(events) \in Event /\ Tail(events) \in Seq(Event)
        /\ Len(Tail(events)) <= QueueLength
    BY <1>4, HeadTailProperties, LenProperties, Bounds DEF TakeEvent, UartInv, QueueTypes
  <2>2. <<Head(events)>> \in Seq(Event) /\ Len(<<Head(events)>>) = 1
        /\ <<Head(events)>> # <<>>
    BY <2>1
  <2>3. QueueTypes'
    BY <1>4, <2>1, <2>2 DEF TakeEvent, UartInv, QueueTypes
  <2> QED
    BY <1>4, <2>3, BytesStay DEF TakeEvent, UartInv
<1>5. CASE ReadBytes
  BY <1>5, ReadInv
<1>6. CASE CallBack
  <2>1. CASE callback
    <3>1. QueueTypes'
      BY <1>6, <2>1, NoEvents DEF CallBack, UartInv, QueueTypes
    <3> QED
      BY <1>6, <2>1, <3>1, BytesStay DEF CallBack, UartInv
  <2>2. CASE ~callback
    <3>0. 0 <= QueueLength /\ 0 <= 1 /\ 0 <= BufferSize /\ 0 \in 0..MaxBytes
      BY Bounds
    <3>1. QueueTypes'
      BY <1>6, <2>2, <3>0, NoEvents DEF CallBack, QueueTypes
    <3>n. <<>> \in Seq(Nat) /\ Len(<<>>) = 0
      BY NoBytes
    <3>2. ByteTypes'
      <4>1. /\ buffer' = <<>> /\ stash' = <<>> /\ handed' = <<>>
            /\ past' = 0 /\ received' = 0
        BY <1>6, <2>2 DEF CallBack
      <4>2. 0 \in Nat
        OBVIOUS
      <4>3. Len(buffer') <= BufferSize /\ Len(stash') <= BufferSize
        BY <3>0, <3>n, <4>1
      <4> QED
        BY <3>0, <3>n, <4>1, <4>2, <4>3 DEF ByteTypes
    <3>3. Order'
      BY <1>6, <2>2, NoBytes DEF CallBack, Order
    <3> QED
      BY <3>1, <3>2, <3>3 DEF UartInv
  <2> QED
    BY <2>1, <2>2
<1>7. CASE Flush
  <2>1. QueueTypes'
    BY <1>7 DEF Flush, UartInv, QueueTypes
  <2>2. 0 <= BufferSize
    BY Bounds
  <2>3. ByteTypes' /\ Order'
    BY <1>7, <2>2, NoBytes DEF Flush, UartInv, ByteTypes, Order
  <2> QED
    BY <2>1, <2>3 DEF UartInv
<1>8. CASE ResetQueue
  <2>0. 0 <= QueueLength /\ 0 <= 1
    BY Bounds
  <2>1. QueueTypes'
    BY <1>8, <2>0, NoEvents DEF ResetQueue, UartInv, QueueTypes
  <2> QED
    BY <1>8, <2>1, BytesStay DEF ResetQueue, UartInv
<1>9. CASE UNCHANGED uartVars
  BY <1>9, BytesStay DEF uartVars, UartInv, QueueTypes
<1> QED
  BY <1>1, <1>2, <1>3, <1>4, <1>5, <1>6, <1>7, <1>8, <1>9
     DEF UartNext, Driver, UartTask

(* The bytes in hand, in the buffer and in the stash are later ones in this
   order, and the event queue and the buffer hold what they have room for. *)
THEOREM UartInvariance == UartSpec => []UartInv
  BY UartInitInv, StepInv, PTL DEF UartSpec

(* The types, and that neither the driver's buffer nor the event queue ever
   holds more than it has room for.                                        *)
THEOREM UartTypeCorrect == UartSpec => []UartTypeOK
<1>1. UartInv => UartTypeOK
  <2> SUFFICES ASSUME UartInv PROVE UartTypeOK
    OBVIOUS
  <2>1. \A i \in 1..Len(buffer) : buffer[i] \in 1..received
    <3> SUFFICES ASSUME NEW i \in 1..Len(buffer) PROVE buffer[i] \in 1..received
      OBVIOUS
    <3>1. /\ buffer[i] \in Nat /\ past \in Nat /\ received \in Nat
          /\ past < buffer[i] /\ buffer[i] <= received
      BY ElementOfSeq, Bounds DEF UartInv, ByteTypes, Order, Above, AtMost
    <3> QED
      BY <3>1
  <2>2. \A i \in 1..Len(events) : events[i].size \in 0..BufferSize
    <3>1. \A i \in 1..Len(events) : events[i] \in Event
      BY ElementOfSeq DEF UartInv, QueueTypes
    <3> QED
      BY <3>1 DEF Event
  <2> QED
    BY <2>1, <2>2 DEF UartInv, QueueTypes, ByteTypes, UartTypeOK
<1> QED
  BY <1>1, UartInvariance, PTL

(* Whatever events and bytes are lost or flushed, the callback is given
   bytes in the order in which they arrived, and none twice.               *)
THEOREM BytesStayInOrder == UartSpec => []BytesInOrder
<1>1. UartInv => BytesInOrder
  <2> SUFFICES ASSUME UartInv, NEW i \in 1..Len(handed)
               PROVE  handed[i] > (IF i = 1 THEN past ELSE handed[i - 1])
    BY DEF BytesInOrder
  <2>1. \A j \in 1..Len(handed) : handed[j] \in Nat
    BY ElementOfSeq DEF UartInv, ByteTypes
  <2>2. CASE i = 1
    BY <2>1, <2>2 DEF UartInv, ByteTypes, Order, Above
  <2>3. CASE i # 1
    <3>1. i - 1 \in 1..Len(handed) /\ i - 1 < i
      BY <2>3, LenProperties DEF UartInv, ByteTypes
    <3> QED
      BY <2>1, <2>3, <3>1 DEF UartInv, Order, Up
  <2> QED
    BY <2>2, <2>3
<1> QED
  BY <1>1, UartInvariance, PTL

-----------------------------------------------------------------------------
(* What is announced, step by step                                         *)

(* As long as neither the event in hand nor the place of the task changes. *)
LEMMA HandStays ==
    ASSUME UNCHANGED <<uartPc, event>>
    PROVE  Due' = Due
  BY DEF Due

LEMMA DueTypes ==
    ASSUME UartInv, AnnounceInv
    PROVE  /\ Due \in Nat
           /\ uartPc = "read" => Due = Head(event).size /\ Due > 0
           /\ uartPc # "read" => Due = 0
<1>1. CASE uartPc = "read"
  <2>1. event # <<>> /\ event \in Seq(Event)
    BY <1>1 DEF UartInv, QueueTypes
  <2>2. Head(event) \in Event
    BY <2>1, HeadTailProperties
  <2>3. Head(event).size \in Nat
    BY <2>2, Bounds DEF Event
  <2> QED
    BY <1>1, <2>3 DEF Due, AnnounceInv, Labelled
<1>2. CASE uartPc # "read"
  BY <1>2 DEF Due
<1> QED
  BY <1>1, <1>2

LEMMA PostLabelled ==
    ASSUME UartInv, AnnounceInv, UNCHANGED <<uartPc, event>>,
           NEW e \in Event, e.size > 0 <=> e.type = "UART_DATA", Post(e)
    PROVE  Labelled'
<1>1. \A i \in 1..Len(events) : events[i].size > 0 <=> events[i].type = "UART_DATA"
  BY DEF AnnounceInv, Labelled
<1>2. events \in Seq(Event)
  BY DEF UartInv, QueueTypes
<1>3. CASE events' = Append(events, e)
  <2>1. /\ Len(events') = Len(events) + 1 /\ events'[Len(events) + 1] = e
        /\ Len(events) \in Nat
        /\ \A i \in 1..Len(events) : events'[i] = events[i]
    BY <1>2, <1>3, AnnouncedMore, LenProperties
  <2>2. ASSUME NEW i \in 1..Len(events')
        PROVE  events'[i].size > 0 <=> events'[i].type = "UART_DATA"
    <3>1. CASE i \in 1..Len(events)
      BY <1>1, <2>1, <3>1
    <3>2. CASE i = Len(events) + 1
      BY <2>1, <3>2
    <3> QED
      BY <2>1, <3>1, <3>2
  <2> QED
    BY <2>2 DEF AnnounceInv, Labelled
<1>4. CASE events' = events
  BY <1>1, <1>4 DEF AnnounceInv, Labelled
<1> QED
  BY <1>3, <1>4 DEF Post

(* The interrupt: bytes c come into the buffer, and the event e for them into
   the queue if that has room.                                             *)
LEMMA PostAnnounce ==
    ASSUME UartInv, AnnounceInv, UNCHANGED <<uartPc, event>>,
           NEW e \in Event, e.size > 0 <=> e.type = "UART_DATA", Post(e),
           NEW c \in Seq(Nat), Len(c) = e.size, e.size > 0 => c[1] = e.first,
           buffer' = buffer \o c
    PROVE  AnnounceInv'
<1>1. /\ events \in Seq(Event) /\ buffer \in Seq(Nat) /\ Due \in Nat /\ Due' = Due
      /\ Head(event)' = Head(event)
  BY DueTypes, HandStays DEF UartInv, QueueTypes, ByteTypes
<1>2. Labelled'
  BY PostLabelled
<1>3. ASSUME uartPc # "reset"
      PROVE  Backed(buffer', events', Due, Head(event).first)
  <2>1. Backed(buffer, events, Due, Head(event).first)
    BY <1>3 DEF AnnounceInv
  <2>2. Backed(buffer \o c, events, Due, Head(event).first)
    BY <1>1, <2>1, BackedWithMore
  <2>3. Backed(buffer \o c, Append(events, e), Due, Head(event).first)
    BY <1>1, <2>1, BackedByNew
  <2> QED
    BY <2>2, <2>3 DEF Post
<1> QED
  BY <1>1, <1>2, <1>3 DEF AnnounceInv

LEMMA NoticeAnnounce ==
    ASSUME UartInv, AnnounceInv, UNCHANGED <<buffer, uartPc, event>>,
           NEW t \in Overflows \cup {Logged}, Post(Notice(t))
    PROVE  AnnounceInv'
<1>1. /\ Notice(t) \in Event /\ Notice(t).size = 0
      /\ ~(Notice(t).size > 0) /\ Notice(t).type # "UART_DATA"
  BY NoticeType DEF Notice, Overflows, Logged
<1>2. /\ <<>> \in Seq(Nat) /\ Len(<<>>) = 0 /\ buffer \o <<>> = buffer
  BY NoBytes, ConcatEmptySeq DEF UartInv, ByteTypes
<1> QED
  BY <1>1, <1>2, PostAnnounce

LEMMA ArriveAnnounce ==
    ASSUME UartInv, AnnounceInv, NEW n \in ChunkSizes, Arrive(n)
    PROVE  AnnounceInv'
<1>1. n \in Nat /\ n > 0 /\ n <= BufferSize /\ received \in Nat
  BY UartAssumption DEF UartInv, ByteTypes
<1>2. UNCHANGED <<uartPc, event>>
  BY DEF Arrive
<1>3. CASE Len(buffer) + n <= BufferSize
  <2> DEFINE c == Bytes(received, n)
             e == Data(n, received + 1)
  <2>1. c \in Seq(Nat) /\ Len(c) = n /\ c[1] = received + 1
    <3>1. c \in Seq(Nat) /\ Len(c) = n /\ \A i \in 1..n : c[i] = received + i
      BY <1>1, BytesProperties
    <3>2. 1 \in 1..n
      BY <1>1
    <3> HIDE DEF c
    <3> QED
      BY <3>1, <3>2
  <2>2. e \in Event /\ e.size = n /\ e.first = received + 1 /\ e.type = "UART_DATA"
    BY <1>1, Bounds DEF Data, Event
  <2>3. buffer' = buffer \o c /\ Post(e)
    BY <1>3 DEF Arrive
  <2> HIDE DEF c, e
  <2> QED
    BY <1>1, <1>2, <2>1, <2>2, <2>3, PostAnnounce
<1>4. CASE ~(Len(buffer) + n <= BufferSize)
  <2>1. UNCHANGED buffer /\ Post(Notice("UART_BUFFER_FULL"))
    BY <1>4 DEF Arrive
  <2> QED
    BY <1>2, <2>1, NoticeAnnounce DEF Overflows
<1> QED
  BY <1>3, <1>4

LEMMA TakeAnnounce ==
    ASSUME UartInv, AnnounceInv, TakeEvent
    PROVE  AnnounceInv'
<1> DEFINE e == Head(events)
<1>1. /\ events \in Seq(Event) /\ events # <<>> /\ uartPc = "receive"
      /\ events' = Tail(events) /\ event' = <<e>> /\ buffer' = buffer
      /\ uartPc' \in {"read", "flush", "receive"}
      /\ uartPc' = "read" <=> e.type = "UART_DATA"
  BY DEF TakeEvent, UartInv, QueueTypes, Overflows
<1>2. /\ e \in Event /\ e = events[1] /\ Len(events) \in Nat \ {0}
      /\ Tail(events) \in Seq(Event) /\ Len(Tail(events)) = Len(events) - 1
      /\ \A i \in 1..Len(events) - 1 : Tail(events)[i] = events[i + 1]
  BY <1>1, AnnouncedFewer
<1>3. \A i \in 1..Len(events) : events[i].size > 0 <=> events[i].type = "UART_DATA"
  BY DEF AnnounceInv, Labelled
<1>4. e.size \in Nat /\ (e.size > 0 <=> e.type = "UART_DATA")
  BY <1>2, <1>3, Bounds DEF Event
<1>5. Head(event') = e
  BY <1>1
<1>6. Labelled'
  <2>1. ASSUME NEW i \in 1..Len(events')
        PROVE  events'[i].size > 0 <=> events'[i].type = "UART_DATA"
    <3>1. i \in 1..Len(events) - 1 /\ i + 1 \in 1..Len(events)
      BY <1>1, <1>2
    <3> QED
      BY <1>1, <1>2, <1>3, <3>1
  <2>2. uartPc' = "read" => Head(event').size > 0
    BY <1>1, <1>4, <1>5
  <2> QED
    BY <2>1, <2>2 DEF Labelled
<1>7. Due' = e.size
  BY <1>1, <1>4, <1>5 DEF Due
<1>8. Backed(buffer, events, 0, Head(event).first)
  BY <1>1, DueTypes DEF AnnounceInv
<1>9. Backed(buffer, Tail(events), e.size, e.first)
  BY <1>1, <1>8, BackedInHand
<1> QED
  BY <1>1, <1>5, <1>6, <1>7, <1>9 DEF AnnounceInv

LEMMA ReadAnnounce ==
    ASSUME UartInv, AnnounceInv, ReadBytes
    PROVE  AnnounceInv'
<1> DEFINE rest == SubSeq(buffer, Due + 1, Len(buffer))
<1>1. /\ Due \in Nat /\ Due = Head(event).size /\ uartPc = "read"
      /\ events \in Seq(Event) /\ buffer \in Seq(Nat) /\ stash \in Seq(Nat)
  BY DueTypes DEF ReadBytes, UartInv, QueueTypes, ByteTypes
<1>2. /\ uartPc' = "call" /\ UNCHANGED <<events, event>>
      /\ buffer' = rest \o stash \/ buffer' = rest
  BY <1>1 DEF ReadBytes
<1>3. Backed(buffer, events, Due, Head(event).first)
  BY <1>1 DEF AnnounceInv
<1>4. Backed(rest, events, 0, Head(event).first) /\ rest \in Seq(Nat)
  <2>1. Backed(rest, events, 0, Head(event).first)
    BY <1>1, <1>3, BackedAfterRead
  <2>2. rest \in Seq(Nat)
    <3>1. \A i \in Due + 1..Len(buffer) : buffer[i] \in Nat
      BY <1>1, ElementOfSeq, LenProperties
    <3> QED
      BY <1>1, <3>1, SubSeqProperties, LenProperties
  <2> QED
    BY <2>1, <2>2
<1> HIDE DEF rest
<1>5. Backed(buffer', events, 0, Head(event).first)
  BY <1>1, <1>2, <1>4, BackedWithMore
<1>6. Due' = 0 /\ Labelled'
  BY <1>2 DEF Due, AnnounceInv, Labelled
<1> QED
  BY <1>2, <1>5, <1>6 DEF AnnounceInv

(* After a reset of the queue.                                             *)
LEMMA EmptyAnnounce ==
    ASSUME events' = <<>>, uartPc' = "receive", buffer' \in Seq(Nat)
    PROVE  AnnounceInv'
<1>1. Due' = 0 /\ Labelled'
  BY DEF Due, Labelled
<1> QED
  BY <1>1, BackedByNothing DEF AnnounceInv

LEMMA StepAnnounce ==
    UartInv /\ UartInv' /\ AnnounceInv /\ [UartNext]_uartVars => AnnounceInv'
<1> SUFFICES ASSUME UartInv, UartInv', AnnounceInv, [UartNext]_uartVars
             PROVE  AnnounceInv'
  OBVIOUS
<1>0. buffer' \in Seq(Nat)
  BY DEF UartInv, ByteTypes
<1>1. ASSUME NEW n \in ChunkSizes, Arrive(n) PROVE AnnounceInv'
  BY <1>1, ArriveAnnounce
<1>2. CASE HardwareOverflow \/ LineNotice
  <2>1. PICK t \in Overflows \cup {Logged} : Post(Notice(t))
    BY <1>2 DEF HardwareOverflow, LineNotice, Overflows
  <2>2. UNCHANGED <<buffer, uartPc, event>>
    BY <1>2 DEF HardwareOverflow, LineNotice
  <2> QED
    BY <2>1, <2>2, NoticeAnnounce
<1>3. CASE SetCallback \/ UNCHANGED uartVars
  BY <1>3, HandStays DEF SetCallback, uartVars, AnnounceInv, Labelled
<1>4. CASE TakeEvent
  BY <1>4, TakeAnnounce
<1>5. CASE ReadBytes
  BY <1>5, ReadAnnounce
<1>6. CASE CallBack
  <2>1. CASE callback
    <3>1. uartPc = "call" /\ uartPc' = "receive" /\ UNCHANGED <<buffer, events>>
      BY <1>6, <2>1 DEF CallBack
    <3>2. Due = 0 /\ Due' = 0
      BY <3>1 DEF Due
    <3>3. Labelled'
      BY <3>1 DEF AnnounceInv, Labelled
    <3>4. Backed(buffer, events, 0, Head(event).first)
      BY <3>1, <3>2 DEF AnnounceInv
    <3>5. Backed(buffer, events, 0, Head(event').first)
      BY <3>4, BackedAnyFirst
    <3> QED
      BY <3>1, <3>2, <3>3, <3>5 DEF AnnounceInv
  <2>2. CASE ~callback
    <3>1. events' = <<>> /\ uartPc' = "receive"
      BY <1>6, <2>2 DEF CallBack
    <3> QED
      BY <1>0, <3>1, EmptyAnnounce
  <2> QED
    BY <2>1, <2>2
<1>7. CASE Flush
  BY <1>7 DEF Flush, AnnounceInv, Labelled
<1>8. CASE ResetQueue
  <2>1. events' = <<>> /\ uartPc' = "receive"
    BY <1>8 DEF ResetQueue
  <2> QED
    BY <1>0, <2>1, EmptyAnnounce
<1> QED
  BY <1>1, <1>2, <1>3, <1>4, <1>5, <1>6, <1>7, <1>8 DEF UartNext, Driver, UartTask

(* What is announced and not yet read is in the buffer, and as long as
   nothing else is, every event finds its own bytes there.                 *)
THEOREM AnnounceInvariance == UartSpec => [](UartInv /\ AnnounceInv)
<1>1. UartInit => AnnounceInv
  <2> SUFFICES ASSUME UartInit PROVE AnnounceInv
    OBVIOUS
  <2>1. events = <<>> /\ uartPc = "receive" /\ buffer \in Seq(Nat)
    BY UartInitInv DEF UartInit, UartInv, ByteTypes
  <2>2. Due = 0 /\ Labelled
    BY <2>1 DEF Due, Labelled
  <2> QED
    BY <2>1, <2>2, BackedByNothing DEF AnnounceInv
<1> QED
  BY <1>1, UartInitInv, StepInv, StepAnnounce, PTL DEF UartSpec

(* uart_read_bytes, which waits without limit, never has to wait: the bytes
   of the event in hand and of those in the queue are there, except between
   a flush and the reset of the queue that follows.                        *)
THEOREM NeverWaits == UartSpec => []ReadNeverWaits
<1>1. AnnounceInv => ReadNeverWaits
  BY DEF AnnounceInv, Backed, ReadNeverWaits, Announced, Total
<1> QED
  BY <1>1, AnnounceInvariance, PTL

(* While everything in the buffer is announced, the bytes read for an event
   begin with the byte it was posted for.                                  *)
THEOREM EventsFindTheirBytes == UartSpec => []EventsMatchBytes
<1>1. UartInv /\ AnnounceInv => EventsMatchBytes
  <2> SUFFICES ASSUME UartInv, AnnounceInv, uartPc = "read", Due + Announced = Len(buffer)
               PROVE  Head(buffer) = Head(event).first
    BY DEF EventsMatchBytes
  <2>1. Due > 0 /\ Due \in Nat
    BY DueTypes
  <2>2. buffer[1] = Head(event).first
    BY <2>1 DEF AnnounceInv, Backed, Announced, Total
  <2>3. buffer \in Seq(Nat) /\ buffer # <<>>
    <3>1. Due + Total(events) <= Len(buffer) /\ Total(events) \in Nat
      BY SizesProperties DEF Announced, Total, UartInv, QueueTypes
    <3>2. Len(buffer) \in Nat /\ Len(buffer) # 0
      BY <2>1, <3>1, LenProperties DEF UartInv, ByteTypes
    <3> QED
      BY <3>2, NoBytes DEF UartInv, ByteTypes
  <2>4. Head(buffer) = buffer[1]
    BY <2>3, HeadTailProperties
  <2> QED
    BY <2>2, <2>4
<1> QED
  BY <1>1, AnnounceInvariance, PTL

=============================================================================
