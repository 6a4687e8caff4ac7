----------------------------- MODULE CoapPduProofs -----------------------------
(***************************************************************************)
(* What holds of a message under construction for every number, value,     *)
(* payload and size.  First of the headers of options: a receiver reads    *)
(* what was written, and the bytes that are patched when an option comes   *)
(* or goes are the ones that would have been written anew.  Then of the    *)
(* whole message: it is laid out as token, options and payload, one behind *)
(* the other, the walk over the options finds them, and every call keeps   *)
(* it so, whether it succeeds or not.                                      *)
(***************************************************************************)
EXTENDS CoapPdu, SumsProofs

LEMMA NibbleSmall == \A n \in Nat : Nibble(n) \in 0..14
  BY DEF Nibble

(* The first byte, taken apart again.                                      *)
LEMMA Halves ==
    ASSUME NEW a \in 0..14, NEW b \in 0..14
    PROVE  /\ (16 * a + b) \div 16 = a
           /\ (16 * a + b) % 16 = b
  OBVIOUS

LEMMA FirstHalves ==
    ASSUME NEW d \in Nat, NEW l \in Nat
    PROVE  /\ First(d, l) \div 16 = Nibble(d)
           /\ First(d, l) % 16 = Nibble(l)
<1>1. Nibble(d) \in 0..14 /\ Nibble(l) \in 0..14
  BY NibbleSmall
<1> QED
  BY <1>1, Halves, Zenon DEF First

LEMMA FirstType ==
    ASSUME NEW d \in Nat, NEW l \in Nat
    PROVE  First(d, l) \in Byte
<1> DEFINE a == Nibble(d)
           b == Nibble(l)
<1>1. a \in 0..14 /\ b \in 0..14
  BY NibbleSmall
<1> HIDE DEF a, b
<1>2. 16 * a + b \in 0..255
  BY <1>1
<1> QED
  BY <1>2 DEF First, Byte, a, b

-----------------------------------------------------------------------------
(* Patching the next option                                                *)

(* coap_insert_option: whatever the differences are, the patched bytes are
   the header that belongs to the smaller one.                             *)
THEOREM LoweredIsWritten ==
    ASSUME NEW old \in Nat, NEW new \in Nat, new <= old, NEW length \in Nat
    PROVE  Lowered(First(old, length), old, new) = <<First(new, length)>> \o Extension(new)
<1>1. First(old, length) % 16 = Nibble(length)
  BY FirstHalves, Zenon
<1>2. Nibble(length) \in 0..14
  BY NibbleSmall
<1>3. CASE new < 13
  <2>1. Lowered(First(old, length), old, new) = <<Nibble(length) + 16 * new>>
    BY <1>1, <1>3 DEF Lowered
  <2>2. First(new, length) = Nibble(length) + 16 * new
    BY <1>2, <1>3 DEF First, Nibble
  <2>3. Extension(new) = <<>>
    BY <1>3 DEF Extension
  <2> QED
    BY <2>1, <2>2, <2>3
<1>4. CASE new >= 13 /\ old < 269
  <2>1. Lowered(First(old, length), old, new) = <<First(old, length), new - 13>>
    BY <1>4 DEF Lowered
  <2>2. First(new, length) = First(old, length)
    BY <1>4 DEF First, Nibble
  <2>3. Extension(new) = <<new - 13>>
    BY <1>4 DEF Extension
  <2> QED
    BY <2>1, <2>2, <2>3
<1>5. CASE new >= 13 /\ new < 269 /\ old >= 269
  <2>1. Lowered(First(old, length), old, new) = <<Nibble(length) + 208, new - 13>>
    BY <1>1, <1>5 DEF Lowered
  <2>2. First(new, length) = Nibble(length) + 208
    BY <1>2, <1>5 DEF First, Nibble
  <2>3. Extension(new) = <<new - 13>>
    BY <1>5 DEF Extension
  <2> QED
    BY <2>1, <2>2, <2>3
<1>6. CASE new >= 269
  <2>1. Lowered(First(old, length), old, new)
          = <<First(old, length), ((new - 269) \div 256) % 256, (new - 269) % 256>>
    BY <1>6 DEF Lowered
  <2>2. First(new, length) = First(old, length)
    BY <1>6 DEF First, Nibble
  <2>3. Extension(new) = <<((new - 269) \div 256) % 256, (new - 269) % 256>>
    BY <1>6 DEF Extension
  <2> QED
    BY <2>1, <2>2, <2>3
<1> QED
  BY <1>3, <1>4, <1>5, <1>6

(* coap_remove_option: the same for the greater difference.                *)
THEOREM RaisedIsWritten ==
    ASSUME NEW old \in Nat, NEW new \in Nat, old <= new, NEW length \in Nat
    PROVE  Raised(First(old, length), old, new) = <<First(new, length)>> \o Extension(new)
<1>1. First(old, length) % 16 = Nibble(length)
  BY FirstHalves, Zenon
<1>2. Nibble(length) \in 0..14
  BY NibbleSmall
<1>3. CASE new < 13
  <2>1. Raised(First(old, length), old, new) = <<Nibble(length) + 16 * new>>
    BY <1>1, <1>3 DEF Raised
  <2>2. First(new, length) = Nibble(length) + 16 * new
    BY <1>2, <1>3 DEF First, Nibble
  <2>3. Extension(new) = <<>>
    BY <1>3 DEF Extension
  <2> QED
    BY <2>1, <2>2, <2>3
<1>4. CASE new >= 13 /\ new < 269
  <2>1. First(new, length) = Nibble(length) + 208
    BY <1>2, <1>4 DEF First, Nibble
  <2>2. Extension(new) = <<new - 13>>
    BY <1>4 DEF Extension
  <2>3. CASE old < 13
    <3>1. Raised(First(old, length), old, new) = <<Nibble(length) + 208, new - 13>>
      BY <1>1, <1>4, <2>3 DEF Raised
    <3> QED
      BY <2>1, <2>2, <3>1
  <2>4. CASE old >= 13
    <3>1. Raised(First(old, length), old, new) = <<First(old, length), new - 13>>
      BY <1>4, <2>4 DEF Raised
    <3>2. First(old, length) = First(new, length)
      BY <1>4, <2>4 DEF First, Nibble
    <3> QED
      BY <2>2, <3>1, <3>2
  <2> QED
    BY <2>3, <2>4
<1>5. CASE new >= 269
  <2> DEFINE high == ((new - 269) \div 256) % 256
             low == (new - 269) % 256
  <2>1. First(new, length) = Nibble(length) + 224
    BY <1>2, <1>5 DEF First, Nibble
  <2>2. Extension(new) = <<high, low>>
    BY <1>5 DEF Extension
  <2>3. CASE old < 269
    <3>1. Raised(First(old, length), old, new) = <<Nibble(length) + 224, high, low>>
      BY <1>1, <1>5, <2>3 DEF Raised
    <3> HIDE DEF high, low
    <3> QED
      BY <2>1, <2>2, <3>1
  <2>4. CASE old >= 269
    <3>1. Raised(First(old, length), old, new) = <<First(old, length), high, low>>
      BY <1>5, <2>4 DEF Raised
    <3>2. First(old, length) = First(new, length)
      BY <1>5, <2>4 DEF First, Nibble
    <3> HIDE DEF high, low
    <3> QED
      BY <2>2, <3>1, <3>2
  <2> QED
    BY <2>3, <2>4
<1> QED
  BY <1>3, <1>4, <1>5

(* coap_remove_option writes the longer header of the next option over the
   end of the one that goes, which is always long enough for it: the branch
   that first makes room by moving everything up is never taken.           *)
THEOREM RaisedFits ==
    ASSUME NEW this \in Nat, NEW next \in Nat, NEW length \in Nat
    PROVE  ExtensionSize(this + next) <= ExtensionSize(next) + EncodeSize(this, length)
  BY DEF ExtensionSize, EncodeSize

-----------------------------------------------------------------------------
(* Reading what was written                                                *)

LEMMA TwoBytes ==
    ASSUME NEW m \in Nat, m <= 65535
    PROVE  /\ (m \div 256) % 256 = m \div 256
           /\ m \div 256 \in 0..255 /\ m % 256 \in 0..255
           /\ 256 * (m \div 256) + (m % 256) = m
<1> DEFINE h == m \div 256
<1>1. h \in Int /\ m % 256 \in 0..255 /\ 256 * h + (m % 256) = m
  OBVIOUS
<1>2. h >= 0 /\ h <= 255
  BY <1>1
<1>3. (m \div 256) % 256 = m \div 256
  <2> HIDE DEF h
  <2>1. h % 256 = h
    BY <1>1, <1>2
  <2> QED
    BY <2>1 DEF h
<1> QED
  BY <1>1, <1>2, <1>3

LEMMA ExtensionType ==
    ASSUME NEW n \in Nat, n <= 65804
    PROVE  /\ Extension(n) \in Seq(Byte)
           /\ Len(Extension(n)) = ExtensionSize(n)
           /\ Follow(Nibble(n)) = ExtensionSize(n)
<1>1. CASE n < 13
  BY <1>1 DEF Extension, ExtensionSize, Follow, Nibble
<1>2. CASE n >= 13 /\ n < 269
  <2>1. Extension(n) = <<n - 13>> /\ n - 13 \in Byte
    BY <1>2 DEF Extension, Byte
  <2>2. Extension(n) \in Seq(Byte) /\ Len(Extension(n)) = 1
    BY <2>1
  <2> QED
    BY <1>2, <2>2 DEF ExtensionSize, Follow, Nibble
<1>3. CASE n >= 269
  <2> DEFINE high == ((n - 269) \div 256) % 256
             low == (n - 269) % 256
  <2>1. n - 269 \in Nat /\ n - 269 <= 65535
    BY <1>3
  <2>2. high \in Byte /\ low \in Byte
    BY <2>1, TwoBytes DEF Byte
  <2>3. Extension(n) = <<high, low>>
    BY <1>3 DEF Extension
  <2> HIDE DEF high, low
  <2>4. Extension(n) \in Seq(Byte) /\ Len(Extension(n)) = 2
    BY <2>2, <2>3
  <2> QED
    BY <1>3, <2>4 DEF ExtensionSize, Follow, Nibble
<1> QED
  BY <1>1, <1>2, <1>3

(* Wherever the extension of n stands, behind its nibble it means n.       *)
LEMMA ExtensionRead ==
    ASSUME NEW n \in Nat, n <= 65804, NEW bytes, NEW i \in Nat,
           \A k \in 1..ExtensionSize(n) : bytes[i + k] = Extension(n)[k]
    PROVE  Extended(Nibble(n), bytes, i) = n
<1>1. CASE n < 13
  BY <1>1 DEF Extended, Nibble
<1>2. CASE n >= 13 /\ n < 269
  <2>1. bytes[i + 1] = n - 13
    BY <1>2 DEF ExtensionSize, Extension
  <2> QED
    BY <1>2, <2>1 DEF Extended, Nibble
<1>3. CASE n >= 269
  <2> DEFINE m == n - 269
  <2>1. m \in Nat /\ m <= 65535
    BY <1>3
  <2>2. Extension(n) = <<(m \div 256) % 256, m % 256>>
    BY <1>3 DEF Extension
  <2>3. bytes[i + 1] = Extension(n)[1] /\ bytes[i + 2] = Extension(n)[2]
    BY <1>3 DEF ExtensionSize
  <2>4. Extended(Nibble(n), bytes, i) = 269 + 256 * bytes[i + 1] + bytes[i + 2]
    BY <1>3 DEF Extended, Nibble
  <2>5. m + 269 = n
    BY <1>3
  <2> HIDE DEF m
  <2>6. bytes[i + 1] = m \div 256 /\ bytes[i + 2] = m % 256
    BY <2>1, <2>2, <2>3, TwoBytes
  <2>7. 269 + 256 * (m \div 256) + (m % 256) = m + 269
    BY <2>1, TwoBytes
  <2> QED
    BY <2>4, <2>5, <2>6, <2>7
<1> QED
  BY <1>1, <1>2, <1>3

(* Where the elements of two sequences are in their concatenation.         *)
LEMMA Cat ==
    ASSUME NEW s \in Seq(Byte), NEW t \in Seq(Byte)
    PROVE  /\ s \o t \in Seq(Byte)
           /\ Len(s \o t) = Len(s) + Len(t)
           /\ \A k \in 1..Len(s) : (s \o t)[k] = s[k]
           /\ \A k \in 1..Len(t) : (s \o t)[Len(s) + k] = t[k]
<1>1. Len(s) \in Nat /\ Len(t) \in Nat
  OBVIOUS
<1>2. /\ s \o t \in Seq(Byte)
      /\ Len(s \o t) = Len(s) + Len(t)
      /\ \A i \in 1..(Len(s) + Len(t)) :
            (s \o t)[i] = IF i <= Len(s) THEN s[i] ELSE t[i - Len(s)]
  BY ConcatProperties, Zenon
<1> DEFINE c == s \o t
<1> HIDE DEF c
<1>3. \A i \in 1..(Len(s) + Len(t)) : c[i] = IF i <= Len(s) THEN s[i] ELSE t[i - Len(s)]
  BY <1>2 DEF c
<1>4. \A k \in 1..Len(s) : c[k] = s[k]
  BY <1>1, <1>3
<1>5. ASSUME NEW k \in 1..Len(t) PROVE c[Len(s) + k] = t[k]
  <2>1. Len(s) + k \in 1..(Len(s) + Len(t)) /\ ~(Len(s) + k <= Len(s))
    BY <1>1
  <2>2. (Len(s) + k) - Len(s) = k
    BY <1>1
  <2> QED
    BY <1>3, <2>1, <2>2
<1> QED
  BY <1>2, <1>4, <1>5 DEF c

(* A byte and four sequences, one behind the other.                        *)
Joined(f, a, b, c, d) == (((<<f>> \o a) \o b) \o c) \o d

(* The first three of them are where they ought to be.                     *)
FoundIn(s, f, a, b, c, d) ==
    /\ s \in Seq(Byte)
    /\ Len(s) = 1 + Len(a) + Len(b) + Len(c) + Len(d)
    /\ s[1] = f
    /\ \A k \in 1..Len(a) : s[1 + k] = a[k]
    /\ \A k \in 1..Len(b) : s[1 + Len(a) + k] = b[k]

(* The two parts that are read byte by byte.                               *)
LEMMA FoundFirst ==
    ASSUME NEW s, NEW f, NEW a, NEW b, NEW c, NEW d, FoundIn(s, f, a, b, c, d)
    PROVE  \A k \in 1..Len(a) : s[1 + k] = a[k]
BY DEF FoundIn

LEMMA FoundSecond ==
    ASSUME NEW s, NEW f, NEW a, NEW b, NEW c, NEW d, FoundIn(s, f, a, b, c, d)
    PROVE  \A k \in 1..Len(b) : s[1 + Len(a) + k] = b[k]
BY DEF FoundIn

(* The parts of a sequence, where they are.                                *)
LEMMA Parts ==
    ASSUME NEW f \in Byte, NEW a \in Seq(Byte), NEW b \in Seq(Byte),
           NEW c \in Seq(Byte), NEW d \in Seq(Byte),
           NEW s, s = Joined(f, a, b, c, d)
    PROVE  FoundIn(s, f, a, b, c, d)
<1> DEFINE e == <<f>>
           p == e \o a
           q == p \o b
           r == q \o c
<1>0. e \in Seq(Byte) /\ Len(e) = 1 /\ e[1] = f
  OBVIOUS
<1> HIDE DEF e
<1>1. /\ p \in Seq(Byte) /\ Len(p) = 1 + Len(a) /\ p[1] = f
      /\ \A k \in 1..Len(a) : p[1 + k] = a[k]
  <2>1. /\ p \in Seq(Byte) /\ Len(p) = Len(e) + Len(a)
        /\ \A k \in 1..Len(e) : p[k] = e[k]
        /\ \A k \in 1..Len(a) : p[Len(e) + k] = a[k]
    BY <1>0, Cat, Zenon
  <2> HIDE DEF p
  <2> QED
    BY <1>0, <2>1
<1> HIDE DEF p
<1>2. /\ q \in Seq(Byte) /\ Len(q) = Len(p) + Len(b)
      /\ \A k \in 1..Len(p) : q[k] = p[k]
      /\ \A k \in 1..Len(b) : q[Len(p) + k] = b[k]
  BY <1>1, Cat, Zenon
<1> HIDE DEF q
<1>3. /\ r \in Seq(Byte) /\ Len(r) = Len(q) + Len(c)
      /\ \A k \in 1..Len(q) : r[k] = q[k]
  BY <1>2, Cat, Zenon
<1> HIDE DEF r
<1>4. /\ s \in Seq(Byte) /\ Len(s) = Len(r) + Len(d)
      /\ \A k \in 1..Len(r) : s[k] = r[k]
  <2>1. s = r \o d
    BY DEF e, p, q, r, Joined
  <2>2. /\ r \o d \in Seq(Byte) /\ Len(r \o d) = Len(r) + Len(d)
        /\ \A k \in 1..Len(r) : (r \o d)[k] = r[k]
    BY <1>3, Cat
  <2> QED
    BY <2>1, <2>2, Zenon
<1>n. /\ Len(a) \in Nat /\ Len(b) \in Nat /\ Len(c) \in Nat /\ Len(d) \in Nat
      /\ Len(p) \in Nat /\ Len(q) \in Nat /\ Len(r) \in Nat
  BY <1>1, <1>2, <1>3
<1>5. \A k \in 1..Len(q) : s[k] = q[k]
  <2>1. ASSUME NEW k \in 1..Len(q) PROVE s[k] = q[k]
    <3>1. k \in 1..Len(r)
      BY <1>3, <1>n
    <3> QED
      BY <1>3, <1>4, <3>1, Zenon
  <2> QED
    BY <2>1
<1>6. \A k \in 1..Len(p) : s[k] = p[k]
  <2>1. ASSUME NEW k \in 1..Len(p) PROVE s[k] = p[k]
    <3>1. k \in 1..Len(q)
      BY <1>2, <1>n
    <3> QED
      BY <1>2, <1>5, <3>1, Zenon
  <2> QED
    BY <2>1
<1>7. s[1] = f
  <2>1. 1 \in 1..Len(p)
    BY <1>1, <1>n
  <2> QED
    BY <1>1, <1>6, <2>1, Zenon
<1>9. \A k \in 1..Len(a) : s[1 + k] = a[k]
  <2>1. ASSUME NEW k \in 1..Len(a) PROVE s[1 + k] = a[k]
    <3>1. 1 + k \in 1..Len(p)
      BY <1>1, <1>n
    <3> QED
      BY <1>1, <1>6, <3>1, Zenon
  <2> QED
    BY <2>1
<1>10. \A k \in 1..Len(b) : s[1 + Len(a) + k] = b[k]
  <2>1. ASSUME NEW k \in 1..Len(b) PROVE s[1 + Len(a) + k] = b[k]
    <3>1. Len(p) + k \in 1..Len(q) /\ Len(p) + k = 1 + Len(a) + k
      BY <1>1, <1>2, <1>n
    <3>2. q[Len(p) + k] = b[k]
      BY <1>2, Zenon
    <3> QED
      BY <1>5, <3>1, <3>2, Zenon
  <2> QED
    BY <2>1
<1>8. Len(s) = 1 + Len(a) + Len(b) + Len(c) + Len(d)
  BY <1>1, <1>2, <1>3, <1>4, <1>n
<1> QED
  BY <1>4, <1>7, <1>8, <1>9, <1>10 DEF FoundIn

(* An encoded option, and where its parts are.                             *)
LEMMA EncodedFound ==
    ASSUME NEW delta \in Nat, delta <= 65535,
           NEW value \in Seq(Byte), Len(value) <= 65804,
           NEW rest \in Seq(Byte)
    PROVE  FoundIn(Encode(delta, value) \o rest, First(delta, Len(value)),
                   Extension(delta), Extension(Len(value)), value, rest)
<1>1. Len(value) \in Nat /\ delta <= 65804
  OBVIOUS
<1>2. Extension(delta) \in Seq(Byte) /\ Extension(Len(value)) \in Seq(Byte)
  BY <1>1, ExtensionType
<1>3. First(delta, Len(value)) \in Byte
  BY <1>1, FirstType
<1>4. Encode(delta, value) \o rest
         = Joined(First(delta, Len(value)), Extension(delta), Extension(Len(value)),
                  value, rest)
  BY DEF Encode, SetHeader, Joined
<1> QED
  BY <1>2, <1>3, <1>4, Parts

(* Where the parts are found, coap_opt_parse reads what they stand for.    *)
LEMMA FoundIsRead ==
    ASSUME NEW delta \in Nat, delta <= 65535,
           NEW value \in Seq(Byte), NEW rest \in Seq(Byte),
           NEW len, len = Len(value), len <= 65804,
           NEW a, a = Extension(delta), NEW b, b = Extension(len),
           NEW s, FoundIn(s, First(delta, len), a, b, value, rest)
    PROVE  Parse(s) = [delta |-> delta, length |-> len, size |-> EncodeSize(delta, len)]
<1> DEFINE d == s[1] \div 16
           l == s[1] % 16
           header == 1 + Follow(d) + Follow(l)
<1>1. delta <= 65804 /\ len \in Nat
  OBVIOUS
<1>f. s \in Seq(Byte) /\ s[1] = First(delta, len)
  BY DEF FoundIn
<1>l. Len(s) = 1 + Len(a) + Len(b) + len + Len(rest)
  BY DEF FoundIn
<1>a. \A k \in 1..Len(a) : s[1 + k] = a[k]
  BY FoundFirst
<1>b. \A k \in 1..Len(b) : s[1 + Len(a) + k] = b[k]
  BY FoundSecond
<1>2. /\ a \in Seq(Byte) /\ Len(a) = ExtensionSize(delta) /\ Follow(Nibble(delta)) = Len(a)
      /\ b \in Seq(Byte) /\ Len(b) = ExtensionSize(len) /\ Follow(Nibble(len)) = Len(b)
  BY <1>1, ExtensionType
<1>3. Nibble(delta) \in 0..14 /\ Nibble(len) \in 0..14
  BY <1>1, NibbleSmall
<1>4. d = Nibble(delta) /\ l = Nibble(len)
  BY <1>1, <1>f, FirstHalves
<1>5. header = 1 + Len(a) + Len(b) /\ Len(a) \in Nat /\ Len(b) \in Nat
  BY <1>2, <1>4
<1> HIDE DEF d, l, header
<1>6. Extended(d, s, 1) = delta
  <2>1. \A k \in 1..ExtensionSize(delta) : s[1 + k] = Extension(delta)[k]
    BY <1>2, <1>a
  <2>2. Extended(Nibble(delta), s, 1) = delta
    BY <1>1, <2>1, ExtensionRead
  <2> QED
    BY <1>4, <2>2
<1>7. Extended(l, s, 1 + Follow(d)) = len
  <2>1. 1 + Len(a) \in Nat
    BY <1>5
  <2>2. \A k \in 1..ExtensionSize(len) : s[1 + Len(a) + k] = Extension(len)[k]
    BY <1>2, <1>b
  <2>3. Extended(Nibble(len), s, 1 + Len(a)) = len
    BY <1>1, <2>1, <2>2, ExtensionRead
  <2> QED
    BY <1>2, <1>4, <2>3
<1>8. ~(d = 14 /\ s[2] = 255)
  <2>1. CASE delta < 269
    BY <1>4, <2>1 DEF Nibble
  <2>2. CASE delta >= 269
    <3> DEFINE high == ((delta - 269) \div 256) % 256
               low == (delta - 269) % 256
    <3>1. delta - 269 \in Nat /\ delta - 269 <= 65266
      BY <2>2
    <3>2. high <= 254
      <4> DEFINE m == delta - 269
      <4> HIDE DEF m
      <4>1. m \in Nat /\ m <= 65266
        BY <3>1 DEF m
      <4>2. (m \div 256) % 256 = m \div 256
        BY <4>1, TwoBytes
      <4>3. m \div 256 <= 254
        BY <4>1
      <4> QED
        BY <4>2, <4>3 DEF m
    <3>3. a = <<high, low>>
      BY <2>2 DEF Extension
    <3>4. Len(a) = 2
      BY <1>2, <2>2 DEF ExtensionSize
    <3> HIDE DEF high, low
    <3>5. s[1 + 1] = a[1]
      <4>1. 1 \in 1..Len(a)
        BY <3>4
      <4> QED
        BY <1>a, <4>1
    <3>6. a[1] = high
      BY <3>3
    <3>7. high # 255
      BY <3>2
    <3> QED
      BY <3>5, <3>6, <3>7
  <2> QED
    BY <2>1, <2>2
<1>9. s # <<>> /\ d # 15 /\ l # 15 /\ ~(Len(s) < header) /\ ~(Len(s) < header + len)
  <2>1. d # 15 /\ l # 15
    BY <1>3, <1>4, SMTT(30)
  <2>2. Len(s) = header + len + Len(rest) /\ header \in Nat /\ header >= 1
    BY <1>1, <1>5, <1>l
  <2>3. s # <<>>
    BY <1>1, <2>2
  <2> QED
    BY <1>1, <2>1, <2>2, <2>3
<1>10. delta % 65536 = delta
  OBVIOUS
<1>11. header + len = EncodeSize(delta, len)
  BY <1>1, <1>2, <1>5 DEF EncodeSize
<1>12. Parse(s) = [delta |-> Extended(d, s, 1) % 65536, length |-> Extended(l, s, 1 + Follow(d)),
                   size |-> header + Extended(l, s, 1 + Follow(d))]
  <2>1. ~(Len(s) < header + Extended(l, s, 1 + Follow(d)))
    BY <1>7, <1>9
  <2> QED
    BY <1>8, <1>9, <2>1 DEF Parse, d, l, header
<1> QED
  BY <1>6, <1>7, <1>10, <1>11, <1>12, SMTT(30)

(* coap_opt_parse reads what coap_opt_encode wrote, whatever follows: every
   difference an option number can have, every length the header can say.  *)
THEOREM WrittenIsRead ==
    ASSUME NEW delta \in Nat, delta <= 65535,
           NEW value \in Seq(Byte), Len(value) <= 65804,
           NEW rest \in Seq(Byte)
    PROVE  Parse(Encode(delta, value) \o rest)
              = [delta |-> delta, length |-> Len(value),
                 size |-> EncodeSize(delta, Len(value))]
<1>1. FoundIn(Encode(delta, value) \o rest, First(delta, Len(value)),
              Extension(delta), Extension(Len(value)), value, rest)
  BY EncodedFound
<1> QED
  BY <1>1, FoundIsRead

-----------------------------------------------------------------------------
(* Parts of sequences                                                      *)

(* What stands between two others.                                         *)
LEMMA Window ==
    ASSUME NEW S, NEW a \in Seq(S), NEW m \in Seq(S), NEW c \in Seq(S)
    PROVE  SubSeq((a \o m) \o c, Len(a) + 1, Len(a) + Len(m)) = m
<1> DEFINE b == a \o m
           s == b \o c
           w == SubSeq(s, Len(a) + 1, Len(a) + Len(m))
<1>1. Len(a) \in Nat /\ Len(m) \in Nat /\ Len(c) \in Nat
  BY LenProperties
<1>2. /\ b \in Seq(S) /\ Len(b) = Len(a) + Len(m)
      /\ \A i \in 1..Len(a) + Len(m) : b[i] = IF i <= Len(a) THEN a[i] ELSE m[i - Len(a)]
  BY ConcatProperties
<1> HIDE DEF b
<1>3. /\ s \in Seq(S) /\ Len(s) = Len(b) + Len(c)
      /\ \A i \in 1..Len(b) + Len(c) : s[i] = IF i <= Len(b) THEN b[i] ELSE c[i - Len(b)]
  <2>1. b \in Seq(S)
    BY <1>2
  <2> QED
    BY <2>1, ConcatProperties
<1> HIDE DEF s
<1> DEFINE x == Len(a)
           y == Len(m)
           z == Len(c)
<1>4. x \in Nat /\ y \in Nat /\ z \in Nat /\ Len(b) = x + y
  BY <1>1, <1>2
<1>5. \A i \in 1..x + y : b[i] = IF i <= x THEN a[i] ELSE m[i - x]
  BY <1>2
<1>6. \A i \in 1..(x + y) + z : s[i] = IF i <= x + y THEN b[i] ELSE c[i - (x + y)]
  BY <1>3, <1>4
<1>7. Len(s) = (x + y) + z
  BY <1>3, <1>4
<1> HIDE DEF x, y, z
<1>8. \A i \in 1..y : s[x + i] = m[i]
  <2> SUFFICES ASSUME NEW i \in 1..y PROVE s[x + i] = m[i]
    OBVIOUS
  <2>1. /\ x + i \in 1..(x + y) + z /\ x + i \in 1..x + y /\ x + i <= x + y
        /\ ~(x + i <= x) /\ (x + i) - x = i
    BY <1>4
  <2> QED
    BY <1>5, <1>6, <2>1
<1>9. \A i \in x + 1..x + y : s[i] \in S
  <2> SUFFICES ASSUME NEW i \in x + 1..x + y PROVE s[i] \in S
    OBVIOUS
  <2>1. i \in 1..Len(s)
    BY <1>4, <1>7
  <2> QED
    BY <1>3, <2>1, ElementOfSeq
<1>10. /\ SubSeq(s, x + 1, x + y) \in Seq(S)
       /\ Len(SubSeq(s, x + 1, x + y)) = y
       /\ \A i \in 1..y : SubSeq(s, x + 1, x + y)[i] = s[x + i]
  <2>1. x + 1 \in Int /\ x + y \in Int
    BY <1>4
  <2>2. /\ SubSeq(s, x + 1, x + y) \in Seq(S)
        /\ Len(SubSeq(s, x + 1, x + y))
              = IF x + 1 <= x + y THEN (x + y) - (x + 1) + 1 ELSE 0
        /\ \A i \in 1..(x + y) - (x + 1) + 1 :
              SubSeq(s, x + 1, x + y)[i] = s[(x + 1) + i - 1]
    BY <1>9, <2>1, SubSeqProperties
  <2>3. /\ (IF x + 1 <= x + y THEN (x + y) - (x + 1) + 1 ELSE 0) = y
        /\ (x + y) - (x + 1) + 1 = y
    BY <1>4
  <2>4. \A i \in 1..y : (x + 1) + i - 1 = x + i
    BY <1>4
  <2> QED
    BY <2>2, <2>3, <2>4
<1>11. SubSeq(s, x + 1, x + y) = m
  <2> DEFINE u == SubSeq(s, x + 1, x + y)
  <2>1. u \in Seq(S) /\ Len(u) = Len(m) /\ \A i \in 1..Len(u) : u[i] = m[i]
    BY <1>8, <1>10 DEF y
  <2> HIDE DEF u
  <2> QED
    BY <2>1, SeqEqual DEF u
<1> QED
  BY <1>11 DEF x, y, s, b

(* The two parts of a concatenation.                                       *)
LEMMA Halved ==
    ASSUME NEW S, NEW a \in Seq(S), NEW b \in Seq(S)
    PROVE  /\ SubSeq(a \o b, 1, Len(a)) = a
           /\ SubSeq(a \o b, Len(a) + 1, Len(a) + Len(b)) = b
<1>1. <<>> \in Seq(S) /\ Len(<<>>) = 0
  BY EmptySeq
<1>2. (<<>> \o a) \o b = a \o b /\ (a \o b) \o <<>> = a \o b
  BY ConcatProperties, ConcatEmptySeq
<1>3. SubSeq((<<>> \o a) \o b, Len(<<>>) + 1, Len(<<>>) + Len(a)) = a
  BY <1>1, Window
<1>4. SubSeq((a \o b) \o <<>>, Len(a) + 1, Len(a) + Len(b)) = b
  BY <1>1, Window
<1>5. Len(<<>>) + 1 = 1 /\ Len(<<>>) + Len(a) = Len(a)
  BY <1>1, LenProperties
<1> QED
  BY <1>2, <1>3, <1>4, <1>5

(* The three parts of one.                                                 *)
LEMMA ThreeParts ==
    ASSUME NEW S, NEW a \in Seq(S), NEW m \in Seq(S), NEW c \in Seq(S),
           NEW s, s = (a \o m) \o c
    PROVE  /\ s \in Seq(S) /\ Len(s) = (Len(a) + Len(m)) + Len(c)
           /\ SubSeq(s, 1, Len(a)) = a
           /\ SubSeq(s, Len(a) + 1, Len(a) + Len(m)) = m
           /\ SubSeq(s, (Len(a) + Len(m)) + 1, Len(s)) = c
           /\ SubSeq(s, Len(a) + 1, Len(s)) = m \o c
<1>1. /\ a \o m \in Seq(S) /\ Len(a \o m) = Len(a) + Len(m)
      /\ m \o c \in Seq(S) /\ Len(m \o c) = Len(m) + Len(c)
      /\ s \in Seq(S) /\ Len(s) = (Len(a) + Len(m)) + Len(c)
  BY ConcatProperties
<1>2. s = a \o (m \o c)
  BY ConcatAssociative
<1>3. SubSeq(s, 1, Len(a)) = a /\ SubSeq(s, Len(a) + 1, Len(a) + Len(m \o c)) = m \o c
  BY <1>1, <1>2, Halved, SMTT(30)
<1>4. SubSeq(s, Len(a \o m) + 1, Len(a \o m) + Len(c)) = c
  BY <1>1, Halved
<1>5. Len(a) + (Len(m) + Len(c)) = (Len(a) + Len(m)) + Len(c)
  BY LenProperties
<1> QED
  BY <1>1, <1>3, <1>4, <1>5, Window, SMTT(30)

-----------------------------------------------------------------------------
(* Options, one behind the other                                           *)

Item == {o \in [number : 0..MaxOpt, value : Seq(Byte)] : Len(o.value) <= LongestValue}

(* The number in front of option i, and the last number, of options behind
   the number lo.                                                          *)
Before(lo, os, i) == IF i = 1 THEN lo ELSE os[i - 1].number

End(lo, os) == IF os = <<>> THEN lo ELSE os[Len(os)].number

Ascending(lo, os) == \A i \in 1..Len(os) : Before(lo, os, i) <= os[i].number

Run(lo, os) == lo \in 0..MaxOpt /\ os \in Seq(Item) /\ Ascending(lo, os)

(* The bytes of an option behind the number lo, and of a run of them.      *)
One(lo, o) == Encode(o.number - lo, o.value)

IsFlat(lo, os, f) ==
    f = [i \in 0..Len(os) |->
            IF i = 0 THEN <<>> ELSE f[i - 1] \o One(Before(lo, os, i), os[i])]

Flat(lo, os) == (CHOOSE f : IsFlat(lo, os, f))[Len(os)]

LEMMA MaxOptNat == MaxOpt \in Nat
  BY DEF MaxOpt

LEMMA SizeNat ==
    ASSUME NEW d \in Nat, NEW l \in Nat
    PROVE  EncodeSize(d, l) \in Nat \ {0} /\ ExtensionSize(d) \in 0..2
  BY DEF EncodeSize, ExtensionSize

LEMMA EncodeType ==
    ASSUME NEW d \in 0..MaxOpt, NEW v \in Seq(Byte), Len(v) <= LongestValue
    PROVE  Encode(d, v) \in Seq(Byte) /\ Len(Encode(d, v)) = EncodeSize(d, Len(v))
<1> DEFINE l == Len(v)
           f == <<First(d, l)>>
           x == Extension(d)
           y == Extension(l)
<1>1. d \in Nat /\ d <= 65804 /\ l \in Nat /\ l <= 65804
  BY LenProperties, SMTT(30) DEF LongestValue, MaxOpt
<1>2. First(d, l) \in Byte
  BY <1>1, FirstType
<1>3. f \in Seq(Byte) /\ Len(f) = 1
  BY <1>2
<1>4. x \in Seq(Byte) /\ Len(x) = ExtensionSize(d) /\ y \in Seq(Byte) /\ Len(y) = ExtensionSize(l)
  BY <1>1, ExtensionType
<1>5. Encode(d, v) = ((f \o x) \o y) \o v
  BY DEF Encode, SetHeader
<1> HIDE DEF f, x, y
<1>6. f \o x \in Seq(Byte) /\ Len(f \o x) = 1 + ExtensionSize(d)
  <2>1. f \o x \in Seq(Byte) /\ Len(f \o x) = Len(f) + Len(x)
    BY <1>3, <1>4, Cat, Zenon
  <2> QED
    BY <1>3, <1>4, <2>1
<1>7. (f \o x) \o y \in Seq(Byte)
      /\ Len((f \o x) \o y) = 1 + ExtensionSize(d) + ExtensionSize(l)
  BY <1>4, <1>6, Cat
<1>8. ((f \o x) \o y) \o v \in Seq(Byte)
      /\ Len(((f \o x) \o y) \o v) = 1 + ExtensionSize(d) + ExtensionSize(l) + l
  BY <1>7, Cat
<1> QED
  BY <1>5, <1>8 DEF EncodeSize

LEMMA ItemType ==
    ASSUME NEW o \in Item
    PROVE  o.number \in 0..MaxOpt /\ o.value \in Seq(Byte) /\ Len(o.value) <= LongestValue
  BY DEF Item

(* An option is not empty, and a receiver reads it.                        *)
LEMMA OneType ==
    ASSUME NEW lo \in 0..MaxOpt, NEW o \in Item, lo <= o.number
    PROVE  /\ o.number - lo \in 0..MaxOpt
           /\ One(lo, o) \in Seq(Byte)
           /\ Len(One(lo, o)) = EncodeSize(o.number - lo, Len(o.value))
           /\ Len(One(lo, o)) \in Nat \ {0}
<1>1. o.number - lo \in 0..MaxOpt
  BY ItemType, MaxOptNat
<1>2. One(lo, o) \in Seq(Byte) /\ Len(One(lo, o)) = EncodeSize(o.number - lo, Len(o.value))
  BY <1>1, ItemType, EncodeType DEF One
<1>3. EncodeSize(o.number - lo, Len(o.value)) \in Nat \ {0}
  <2>1. Len(o.value) \in Nat
    BY ItemType, LenProperties
  <2>2. o.number - lo \in Nat
    BY <1>1, MaxOptNat
  <2> QED
    BY <1>1, <2>1, <2>2, SizeNat
<1> QED
  BY <1>1, <1>2, <1>3

LEMMA RunType ==
    ASSUME NEW lo, NEW os, Run(lo, os), NEW i \in 1..Len(os)
    PROVE  /\ os[i] \in Item /\ Before(lo, os, i) \in 0..MaxOpt
           /\ Before(lo, os, i) <= os[i].number
           /\ One(Before(lo, os, i), os[i]) \in Seq(Byte)
<1>1. os[i] \in Item /\ Before(lo, os, i) <= os[i].number
  BY ElementOfSeq DEF Run, Ascending
<1>2. Before(lo, os, i) \in 0..MaxOpt
  <2>1. CASE i = 1
    BY <2>1 DEF Before, Run
  <2>2. CASE i # 1
    <3>1. i - 1 \in 1..Len(os)
      BY <2>2, LenProperties DEF Run
    <3>2. os[i - 1] \in Item
      BY <3>1, ElementOfSeq DEF Run
    <3> QED
      BY <2>2, <3>2, ItemType DEF Before
  <2> QED
    BY <2>1, <2>2
<1> QED
  BY <1>1, <1>2, OneType

LEMMA EndType ==
    ASSUME NEW lo, NEW os, Run(lo, os)
    PROVE  End(lo, os) \in 0..MaxOpt
<1>1. CASE os = <<>>
  BY <1>1 DEF End, Run
<1>2. CASE os # <<>>
  <2>1. Len(os) \in 1..Len(os)
    BY <1>2, EmptySeq, LenProperties DEF Run
  <2> QED
    BY <1>2, <2>1, RunType, ItemType DEF End
<1> QED
  BY <1>1, <1>2

LEMMA FlatExists ==
    ASSUME NEW lo, NEW os, Run(lo, os)
    PROVE  \E f \in [0..Len(os) -> Seq(Byte)] : IsFlat(lo, os, f)
<1>a. \A k \in 1..Len(os) : One(Before(lo, os, k), os[k]) \in Seq(Byte)
  BY RunType, SMT
<1> DEFINE D == 0..Len(os)
           V == Seq(Byte)
           rank == [i \in D |-> i]
           Step(f, i) == IF i = 0 THEN <<>> ELSE f[i - 1] \o One(Before(lo, os, i), os[i])
           G == [f \in [D -> V] |-> [i \in D |-> Step(f, i)]]
           start == [i \in D |-> <<>>]
<1>0. Len(os) \in Nat
  BY LenProperties DEF Run
<1>1. rank \in [D -> Nat] /\ start \in [D -> V]
  BY EmptySeq
<1>2. \A i \in D \ {0} : i - 1 \in D /\ i \in 1..Len(os)
  BY <1>0
<1>3. G \in [[D -> V] -> [D -> V]]
  <2>1. ASSUME NEW h \in [D -> V], NEW k \in D PROVE Step(h, k) \in V
    <3>1. CASE k = 0
      BY <3>1, EmptySeq
    <3>2. CASE k # 0
      <4>1. k - 1 \in D /\ k \in 1..Len(os)
        BY <1>2, <3>2
      <4>2. h[k - 1] \in V
        BY <4>1
      <4>3. One(Before(lo, os, k), os[k]) \in V
        BY <1>a, <4>1
      <4>4. h[k - 1] \o One(Before(lo, os, k), os[k]) \in V
        BY <4>2, <4>3, Cat
      <4> QED
        BY <3>2, <4>4
    <3> QED
      BY <3>1, <3>2
  <2> HIDE DEF Step, V, D
  <2> QED
    BY <2>1
<1>4. Descends(D, V, rank, G)
  <2> SUFFICES ASSUME NEW f \in [D -> V], NEW g \in [D -> V], NEW d \in D,
                      \A e \in D : rank[e] < rank[d] => f[e] = g[e]
               PROVE  G[f][d] = G[g][d]
    BY DEF Descends
  <2>1. G[f][d] = Step(f, d) /\ G[g][d] = Step(g, d)
    OBVIOUS
  <2>2. d # 0 => f[d - 1] = g[d - 1]
    <3> SUFFICES ASSUME d # 0 PROVE f[d - 1] = g[d - 1]
      OBVIOUS
    <3>1. d - 1 \in D /\ rank[d - 1] < rank[d]
      BY <1>0
    <3> QED
      BY <3>1
  <2> QED
    BY <2>1, <2>2
<1> HIDE DEF rank, start
<1>5. \E f \in [D -> V] : f = G[f]
  <2> HIDE DEF G, D, V, Step
  <2>1. Recursive(D, V, rank, G, start)
    BY <1>1, <1>3, <1>4 DEF Recursive
  <2> QED
    BY <2>1, Recursion
<1>6. PICK f \in [D -> V] : f = G[f]
  BY <1>5
<1>7. G[f] = [i \in D |-> Step(f, i)]
  OBVIOUS
<1> QED
  BY <1>6, <1>7 DEF IsFlat

LEMMA FlatFollows ==
    ASSUME NEW lo, NEW os, Run(lo, os)
    PROVE  \E f \in [0..Len(os) -> Seq(Byte)] :
              /\ Flat(lo, os) = f[Len(os)]
              /\ f[0] = <<>>
              /\ \A i \in 1..Len(os) : f[i] = f[i - 1] \o One(Before(lo, os, i), os[i])
<1> DEFINE g == CHOOSE g : IsFlat(lo, os, g)
<1>1. PICK f \in [0..Len(os) -> Seq(Byte)] : IsFlat(lo, os, f)
  BY FlatExists
<1>2. IsFlat(lo, os, g)
  BY <1>1
<1>3. Len(os) \in Nat
  BY LenProperties DEF Run
<1>4. Flat(lo, os) = g[Len(os)]
  BY DEF Flat
<1> HIDE DEF g
<1>5. /\ g[0] = <<>> /\ f[0] = <<>>
      /\ \A i \in 1..Len(os) : /\ g[i] = g[i - 1] \o One(Before(lo, os, i), os[i])
                               /\ f[i] = f[i - 1] \o One(Before(lo, os, i), os[i])
  BY <1>1, <1>2, <1>3 DEF IsFlat
<1>6. \A i \in Nat : i <= Len(os) => g[i] = f[i]
  <2> DEFINE S == {i \in Nat : i <= Len(os) => g[i] = f[i]}
  <2>1. 0 \in S
    BY <1>5
  <2>2. ASSUME NEW n \in Nat, n \in S PROVE n + 1 \in S
    <3> SUFFICES ASSUME n + 1 <= Len(os) PROVE g[n + 1] = f[n + 1]
      OBVIOUS
    <3>1. n + 1 \in 1..Len(os) /\ (n + 1) - 1 = n /\ g[n] = f[n]
      BY <1>3, <2>2
    <3> QED
      BY <1>5, <3>1
  <2> HIDE DEF S
  <2>3. \A n \in Nat : n \in S
    BY <2>1, <2>2, Induction
  <2> QED
    BY <2>3 DEF S
<1>7. g[Len(os)] = f[Len(os)]
  BY <1>3, <1>6
<1> QED
  BY <1>4, <1>5, <1>7

(* Where the elements of any two sequences are.                            *)
LEMMA Places ==
    ASSUME NEW S, NEW s \in Seq(S), NEW t \in Seq(S)
    PROVE  /\ s \o t \in Seq(S) /\ Len(s) \in Nat /\ Len(t) \in Nat
           /\ Len(s \o t) = Len(s) + Len(t)
           /\ \A k \in 1..Len(s) : (s \o t)[k] = s[k]
           /\ \A k \in 1..Len(t) : (s \o t)[Len(s) + k] = t[k]
<1> DEFINE c == s \o t
           m == Len(s)
           n == Len(t)
<1>1. m \in Nat /\ n \in Nat
  BY LenProperties
<1>2. /\ c \in Seq(S) /\ Len(c) = m + n
      /\ \A i \in 1..m + n : c[i] = IF i <= m THEN s[i] ELSE t[i - m]
  BY ConcatProperties
<1> HIDE DEF c, m, n
<1>3. \A k \in 1..m : c[k] = s[k]
  BY <1>1, <1>2
<1>4. ASSUME NEW k \in 1..n PROVE c[m + k] = t[k]
  <2>1. m + k \in 1..m + n /\ ~(m + k <= m) /\ (m + k) - m = k
    BY <1>1
  <2> QED
    BY <1>2, <2>1
<1> QED
  BY <1>1, <1>2, <1>3, <1>4 DEF c, m, n

LEMMA BeforeIn ==
    ASSUME NEW lo, NEW a \in Seq(Item), NEW b \in Seq(Item)
    PROVE  /\ \A i \in 1..Len(a) : Before(lo, a \o b, i) = Before(lo, a, i)
           /\ \A k \in 1..Len(b) :
                 Before(lo, a \o b, Len(a) + k) = Before(End(lo, a), b, k)
<1> DEFINE c == a \o b
           m == Len(a)
           n == Len(b)
<1>1. /\ m \in Nat /\ n \in Nat
      /\ \A k \in 1..m : c[k] = a[k]
      /\ \A k \in 1..n : c[m + k] = b[k]
  BY Places
<1>2. a = <<>> <=> m = 0
  BY EmptySeq
<1> HIDE DEF c
<1>3. ASSUME NEW i \in 1..m PROVE Before(lo, c, i) = Before(lo, a, i)
  <2>1. i # 1 => i - 1 \in 1..m
    BY <1>1
  <2> QED
    BY <1>1, <2>1 DEF Before
<1>4. ASSUME NEW k \in 1..n PROVE Before(lo, c, m + k) = Before(End(lo, a), b, k)
  <2>1. CASE k # 1
    <3>1. k - 1 \in 1..n /\ m + (k - 1) = (m + k) - 1 /\ m + k # 1
      BY <1>1, <2>1
    <3>2. c[m + (k - 1)] = b[k - 1]
      BY <1>1, <3>1
    <3> QED
      BY <2>1, <3>1, <3>2 DEF Before
  <2>2. CASE k = 1 /\ m = 0
    <3>1. m + k = 1
      BY <2>2
    <3> QED
      BY <1>2, <2>2, <3>1 DEF Before, End
  <2>3. CASE k = 1 /\ m # 0
    <3>1. m + k # 1 /\ (m + k) - 1 = m /\ m \in 1..m
      BY <1>1, <2>3
    <3>2. c[m] = a[m] /\ a # <<>>
      BY <1>1, <1>2, <2>3, <3>1
    <3> QED
      BY <2>3, <3>1, <3>2 DEF Before, End
  <2> QED
    BY <2>1, <2>2, <2>3
<1> QED
  BY <1>3, <1>4 DEF c

LEMMA EndOf ==
    ASSUME NEW lo, NEW a \in Seq(Item), NEW b \in Seq(Item)
    PROVE  End(lo, a \o b) = End(End(lo, a), b)
<1>1. CASE b = <<>>
  <2>1. a \o b = a
    BY <1>1, ConcatEmptySeq
  <2> QED
    BY <1>1, <2>1 DEF End
<1>2. CASE b # <<>>
  <2> DEFINE c == a \o b
             m == Len(a)
             n == Len(b)
  <2>1. /\ m \in Nat /\ n \in Nat /\ c \in Seq(Item) /\ Len(c) = m + n
        /\ \A k \in 1..n : c[m + k] = b[k]
    BY Places
  <2>2. n # 0
    BY <1>2, EmptySeq
  <2> HIDE DEF c
  <2>3. n \in 1..n /\ Len(c) # 0
    BY <2>1, <2>2
  <2>4. c # <<>> /\ c[Len(c)] = b[n]
    BY <2>1, <2>3, EmptySeq
  <2>5. End(lo, c) = b[n] .number /\ End(End(lo, a), b) = b[n].number
    BY <1>2, <2>4 DEF End
  <2> QED
    BY <2>5 DEF c
<1> QED
  BY <1>1, <1>2

LEMMA RunOf ==
    ASSUME NEW lo, NEW a \in Seq(Item), NEW b \in Seq(Item)
    PROVE  Run(lo, a \o b) <=> Run(lo, a) /\ Run(End(lo, a), b)
<1> DEFINE c == a \o b
           m == Len(a)
           n == Len(b)
<1>1. /\ c \in Seq(Item) /\ m \in Nat /\ n \in Nat /\ Len(c) = m + n
      /\ \A k \in 1..m : c[k] = a[k]
      /\ \A k \in 1..n : c[m + k] = b[k]
  BY Places
<1>2. /\ \A i \in 1..m : Before(lo, c, i) = Before(lo, a, i)
      /\ \A k \in 1..n : Before(lo, c, m + k) = Before(End(lo, a), b, k)
  BY BeforeIn
<1> HIDE DEF c
<1>3. Ascending(lo, c) => Ascending(lo, a) /\ Ascending(End(lo, a), b)
  <2> SUFFICES ASSUME Ascending(lo, c)
               PROVE  /\ \A i \in 1..m : Before(lo, a, i) <= a[i].number
                      /\ \A k \in 1..n : Before(End(lo, a), b, k) <= b[k].number
    BY DEF Ascending
  <2>1. \A i \in 1..m + n : Before(lo, c, i) <= c[i].number
    BY <1>1 DEF Ascending
  <2>2. \A i \in 1..m : i \in 1..m + n
    BY <1>1
  <2>3. \A k \in 1..n : m + k \in 1..m + n
    BY <1>1
  <2> HIDE DEF m, n
  <2> QED
    BY <1>1, <1>2, <2>1, <2>2, <2>3
<1>4. Ascending(lo, a) /\ Ascending(End(lo, a), b) => Ascending(lo, c)
  <2> SUFFICES ASSUME Ascending(lo, a), Ascending(End(lo, a), b), NEW i \in 1..Len(c)
               PROVE  Before(lo, c, i) <= c[i].number
    BY DEF Ascending
  <2>1. CASE i <= m
    <3>1. i \in 1..m
      BY <1>1, <2>1
    <3> QED
      BY <1>1, <1>2, <3>1 DEF Ascending
  <2>2. CASE i > m
    <3>1. i - m \in 1..n /\ m + (i - m) = i
      BY <1>1, <2>2
    <3>2. Before(End(lo, a), b, i - m) <= b[i - m].number
      BY <3>1 DEF Ascending
    <3> QED
      BY <1>1, <1>2, <3>1, <3>2
  <2> QED
    BY <1>1, <2>1, <2>2
<1>5. Run(lo, a) => End(lo, a) \in 0..MaxOpt
  BY EndType
<1> QED
  BY <1>1, <1>3, <1>4, <1>5 DEF Run, c

LEMMA RunOne ==
    ASSUME NEW lo \in 0..MaxOpt, NEW o \in Item, lo <= o.number
    PROVE  Run(lo, <<o>>) /\ End(lo, <<o>>) = o.number
<1>1. <<o>> \in Seq(Item) /\ Len(<<o>>) = 1 /\ <<o>>[1] = o /\ <<o>> # <<>>
  OBVIOUS
<1>2. \A i \in 1..1 : i = 1
  OBVIOUS
<1>3. Ascending(lo, <<o>>)
  BY <1>1, <1>2 DEF Ascending, Before
<1> QED
  BY <1>1, <1>3 DEF Run, End

LEMMA FlatEmpty ==
    ASSUME NEW lo \in 0..MaxOpt
    PROVE  Run(lo, <<>>) /\ Flat(lo, <<>>) = <<>> /\ End(lo, <<>>) = lo
<1>1. <<>> \in Seq(Item) /\ Len(<<>>) = 0
  BY EmptySeq
<1>2. Run(lo, <<>>)
  BY <1>1 DEF Run, Ascending
<1>3. PICK f \in [0..Len(<<>>) -> Seq(Byte)] : Flat(lo, <<>>) = f[Len(<<>>)] /\ f[0] = <<>>
  BY <1>2, FlatFollows, ZenonT(60)
<1> QED
  BY <1>1, <1>2, <1>3 DEF End

LEMMA FlatType ==
    ASSUME NEW lo, NEW os, Run(lo, os)
    PROVE  Flat(lo, os) \in Seq(Byte) /\ Len(Flat(lo, os)) \in Nat
<1>1. PICK f \in [0..Len(os) -> Seq(Byte)] : Flat(lo, os) = f[Len(os)]
  BY FlatFollows
<1>2. Len(os) \in 0..Len(os)
  BY LenProperties DEF Run
<1>3. f[Len(os)] \in Seq(Byte)
  BY <1>2
<1> QED
  BY <1>1, <1>3, LenProperties

(* One option more.                                                        *)
LEMMA FlatAppend ==
    ASSUME NEW lo, NEW a \in Seq(Item), NEW o \in Item, Run(lo, a \o <<o>>)
    PROVE  Flat(lo, a \o <<o>>) = Flat(lo, a) \o One(End(lo, a), o)
<1> DEFINE c == a \o <<o>>
           m == Len(a)
<1>1. /\ <<o>> \in Seq(Item) /\ Len(<<o>>) = 1 /\ <<o>>[1] = o
  OBVIOUS
<1>2. /\ c \in Seq(Item) /\ m \in Nat /\ Len(c) = m + 1
      /\ \A k \in 1..m : c[k] = a[k]
      /\ \A k \in 1..1 : c[m + k] = <<o>>[k]
  <2>1. /\ a \o <<o>> \in Seq(Item) /\ m \in Nat /\ Len(a \o <<o>>) = m + Len(<<o>>)
        /\ \A k \in 1..m : (a \o <<o>>)[k] = a[k]
        /\ \A k \in 1..Len(<<o>>) : (a \o <<o>>)[m + k] = <<o>>[k]
    BY <1>1, Places
  <2> QED
    BY <1>1, <2>1
<1>3. c[m + 1] = o
  BY <1>1, <1>2
<1>4. /\ \A i \in 1..m : Before(lo, c, i) = Before(lo, a, i)
      /\ Before(lo, c, m + 1) = End(lo, a)
  <2>1. /\ \A i \in 1..m : Before(lo, c, i) = Before(lo, a, i)
        /\ \A k \in 1..Len(<<o>>) : Before(lo, c, m + k) = Before(End(lo, a), <<o>>, k)
    BY <1>1, BeforeIn
  <2>2. 1 \in 1..Len(<<o>>)
    BY <1>1
  <2> QED
    BY <2>1, <2>2 DEF Before
<1>5. Run(lo, a) /\ Run(lo, c)
  BY <1>1, RunOf
<1> HIDE DEF c
<1>6. PICK f \in [0..m -> Seq(Byte)] :
         /\ Flat(lo, a) = f[m] /\ f[0] = <<>>
         /\ \A i \in 1..m : f[i] = f[i - 1] \o One(Before(lo, a, i), a[i])
  BY <1>5, FlatFollows
<1>7. PICK g \in [0..Len(c) -> Seq(Byte)] :
         /\ Flat(lo, c) = g[Len(c)] /\ g[0] = <<>>
         /\ \A i \in 1..Len(c) : g[i] = g[i - 1] \o One(Before(lo, c, i), c[i])
  BY <1>5, FlatFollows
<1>8. \A i \in Nat : i <= m => g[i] = f[i]
  <2> DEFINE S == {i \in Nat : i <= m => g[i] = f[i]}
  <2>1. 0 \in S
    BY <1>6, <1>7
  <2>2. ASSUME NEW n \in Nat, n \in S PROVE n + 1 \in S
    <3> SUFFICES ASSUME n + 1 <= m PROVE g[n + 1] = f[n + 1]
      OBVIOUS
    <3>1. n + 1 \in 1..m /\ n + 1 \in 1..Len(c) /\ (n + 1) - 1 = n /\ g[n] = f[n]
      BY <1>2, <2>2
    <3> QED
      BY <1>2, <1>4, <1>6, <1>7, <3>1, ZenonT(60)
  <2> HIDE DEF S
  <2>3. \A n \in Nat : n \in S
    BY <2>1, <2>2, Induction
  <2> QED
    BY <2>3 DEF S
<1>9. g[m + 1] = g[m] \o One(End(lo, a), o)
  <2>1. m + 1 \in 1..Len(c) /\ (m + 1) - 1 = m
    BY <1>2
  <2> QED
    BY <1>3, <1>4, <1>7, <2>1
<1>10. g[m] = f[m]
  BY <1>2, <1>8
<1>11. Flat(lo, c) = Flat(lo, a) \o One(End(lo, a), o)
  BY <1>2, <1>6, <1>7, <1>9, <1>10
<1> QED
  BY <1>11 DEF c

LEMMA FlatOne ==
    ASSUME NEW lo \in 0..MaxOpt, NEW o \in Item, lo <= o.number
    PROVE  Flat(lo, <<o>>) = One(lo, o)
<1>1. /\ <<>> \in Seq(Item) /\ <<>> \o <<o>> = <<o>>
  BY EmptySeq
<1>2. Run(lo, <<>> \o <<o>>)
  BY <1>1, RunOne
<1>3. Flat(lo, <<>> \o <<o>>) = Flat(lo, <<>>) \o One(End(lo, <<>>), o)
  BY <1>1, <1>2, FlatAppend
<1>4. One(lo, o) \in Seq(Byte)
  BY OneType
<1>5. <<>> \o One(lo, o) = One(lo, o)
  BY <1>4, ConcatEmptySeq
<1> QED
  BY <1>1, <1>3, <1>5, FlatEmpty

(* A sequence that is not empty has a last element.                        *)
LEMMA LastSplit ==
    ASSUME NEW S, NEW b \in Seq(S), NEW n \in Nat, Len(b) = n + 1
    PROVE  /\ SubSeq(b, 1, n) \in Seq(S) /\ Len(SubSeq(b, 1, n)) = n
           /\ b[n + 1] \in S
           /\ b = SubSeq(b, 1, n) \o <<b[n + 1]>>
<1> DEFINE c == SubSeq(b, 1, n)
           d == SubSeq(b, n + 1, n + 1)
<1>1. \A i \in 1..n + 1 : b[i] \in S
  BY ElementOfSeq
<1>2. c \in Seq(S) /\ Len(c) = IF 1 <= n THEN n - 1 + 1 ELSE 0
  <2>1. \A i \in 1..n : b[i] \in S
    BY <1>1
  <2> QED
    BY <2>1, SubSeqProperties
<1>3. Len(c) = n
  BY <1>2
<1>4. n + 1 \in 1..Len(b) /\ 1 \in 1..Len(b) + 1 /\ n \in 1 - 1..Len(b) /\ n + 1 \in n..Len(b)
  OBVIOUS
<1>5. c \o d = SubSeq(b, 1, n + 1)
  BY <1>4, ConcatAdjacentSubSeq
<1>6. SubSeq(b, 1, n + 1) = b
  BY SubSeqFull
<1>7. d = <<b[n + 1]>>
  <2> DEFINE k == n + 1
  <2>1. k \in Int /\ \A i \in k..k : b[i] \in S
    BY <1>1
  <2> HIDE DEF k
  <2>2. /\ SubSeq(b, k, k) \in Seq(S)
        /\ Len(SubSeq(b, k, k)) = IF k <= k THEN k - k + 1 ELSE 0
        /\ \A i \in 1..k - k + 1 : SubSeq(b, k, k)[i] = b[k + i - 1]
    BY <2>1, SubSeqProperties
  <2>3. Len(SubSeq(b, k, k)) = 1 /\ SubSeq(b, k, k)[1] = b[k]
    BY <2>1, <2>2
  <2>4. b[k] \in S
    BY <2>1
  <2>5. <<b[k]>> \in Seq(S) /\ Len(<<b[k]>>) = 1 /\ <<b[k]>>[1] = b[k]
    BY <2>4
  <2>6. \A i \in 1..Len(SubSeq(b, k, k)) : SubSeq(b, k, k)[i] = <<b[k]>>[i]
    <3> SUFFICES ASSUME NEW i \in 1..Len(SubSeq(b, k, k))
                 PROVE  SubSeq(b, k, k)[i] = <<b[k]>>[i]
      OBVIOUS
    <3>1. i = 1
      BY <2>3
    <3> QED
      BY <2>3, <2>5, <3>1
  <2> QED
    BY <2>2, <2>3, <2>5, <2>6, SeqEqual DEF k
<1> QED
  BY <1>1, <1>2, <1>3, <1>4, <1>5, <1>6, <1>7

(* Runs behind one another.                                                *)
LEMMA FlatConcat ==
    ASSUME NEW lo, NEW a \in Seq(Item), NEW b \in Seq(Item), Run(lo, a \o b)
    PROVE  Flat(lo, a \o b) = Flat(lo, a) \o Flat(End(lo, a), b)
<1> DEFINE P(x) == Run(lo, a \o x) => Flat(lo, a \o x) = Flat(lo, a) \o Flat(End(lo, a), x)
           T == {n \in Nat : \A x \in Seq(Item) : Len(x) = n => P(x)}
<1>1. 0 \in T
  <2> SUFFICES ASSUME NEW x \in Seq(Item), Len(x) = 0, Run(lo, a \o x)
               PROVE  Flat(lo, a \o x) = Flat(lo, a) \o Flat(End(lo, a), x)
    OBVIOUS
  <2>1. x = <<>> /\ a \o x = a
    BY EmptySeq, ConcatEmptySeq
  <2>2. Run(lo, a)
    BY <2>1
  <2>3. Flat(End(lo, a), x) = <<>>
    BY <2>1, <2>2, EndType, FlatEmpty
  <2>4. Flat(lo, a) \in Seq(Byte)
    BY <2>2, FlatType
  <2> QED
    BY <2>1, <2>3, <2>4, ConcatEmptySeq
<1>2. ASSUME NEW n \in Nat, n \in T PROVE n + 1 \in T
  <2> SUFFICES ASSUME NEW x \in Seq(Item), Len(x) = n + 1, Run(lo, a \o x)
               PROVE  Flat(lo, a \o x) = Flat(lo, a) \o Flat(End(lo, a), x)
    OBVIOUS
  <2>0. /\ SubSeq(x, 1, n) \in Seq(Item) /\ Len(SubSeq(x, 1, n)) = n
        /\ x[n + 1] \in Item /\ x = SubSeq(x, 1, n) \o <<x[n + 1]>>
    <3> HIDE DEF P, T
    <3> QED
      BY LastSplit
  <2>1. PICK c \in Seq(Item), o \in Item : Len(c) = n /\ x = c \o <<o>>
    <3> HIDE DEF P, T
    <3> QED
      BY <2>0
  <2> DEFINE ac == a \o c
             m == End(lo, a)
  <2>2. <<o>> \in Seq(Item)
    OBVIOUS
  <2>3. ac \in Seq(Item) /\ a \o x = ac \o <<o>>
    BY <2>1, <2>2, ConcatProperties, ConcatAssociative
  <2>4. Run(lo, ac \o <<o>>)
    BY <2>3
  <2>5. Run(lo, ac) /\ Run(End(lo, ac), <<o>>)
    BY <2>2, <2>3, <2>4, RunOf
  <2>6. Run(lo, a) /\ Run(m, x) /\ Run(m, c)
    BY <2>5, RunOf
  <2>7. Flat(lo, ac \o <<o>>) = Flat(lo, ac) \o One(End(lo, ac), o)
    BY <2>3, <2>4, FlatAppend
  <2>8. Flat(lo, ac) = Flat(lo, a) \o Flat(m, c)
    BY <1>2, <2>1, <2>5
  <2>9. End(lo, ac) = End(m, c)
    BY EndOf
  <2>10. Flat(m, x) = Flat(m, c) \o One(End(m, c), o)
    BY <2>1, <2>6, FlatAppend
  <2>11. /\ Flat(lo, a) \in Seq(Byte) /\ Flat(m, c) \in Seq(Byte)
         /\ One(End(m, c), o) \in Seq(Byte)
    <3>1. 1 \in 1..Len(<<o>>) /\ <<o>>[1] = o
      OBVIOUS
    <3>2. Run(End(m, c), <<o>>)
      BY <2>5, <2>9
    <3>3. One(Before(End(m, c), <<o>>, 1), <<o>>[1]) \in Seq(Byte)
      BY <3>1, <3>2, RunType
    <3>4. Before(End(m, c), <<o>>, 1) = End(m, c)
      BY DEF Before
    <3> QED
      BY <2>6, <3>1, <3>3, <3>4, FlatType
  <2> HIDE DEF ac, m
  <2>12. (Flat(lo, a) \o Flat(m, c)) \o One(End(m, c), o)
            = Flat(lo, a) \o (Flat(m, c) \o One(End(m, c), o))
    BY <2>11, ConcatAssociative, SMTT(30)
  <2>13. Flat(lo, a \o x) = Flat(lo, a) \o Flat(m, x)
    BY <2>3, <2>7, <2>8, <2>9, <2>10, <2>12
  <2> QED
    BY <2>13 DEF m
<1> HIDE DEF T
<1>3. \A n \in Nat : n \in T
  BY <1>1, <1>2, Induction
<1>4. Len(b) \in T
  BY <1>3, LenProperties
<1> QED
  BY <1>4 DEF T

(* An option in the middle of a run.                                       *)
LEMMA FlatMiddle ==
    ASSUME NEW lo, NEW a \in Seq(Item), NEW o \in Item, NEW b \in Seq(Item),
           Run(lo, (a \o <<o>>) \o b)
    PROVE  /\ End(lo, a) \in 0..MaxOpt /\ End(lo, a) <= o.number
           /\ Run(lo, a) /\ Run(lo, a \o <<o>>) /\ Run(o.number, b)
           /\ End(lo, a \o <<o>>) = o.number
           /\ Flat(lo, a \o <<o>>) = Flat(lo, a) \o One(End(lo, a), o)
           /\ Flat(lo, (a \o <<o>>) \o b)
                 = Flat(lo, a) \o (One(End(lo, a), o) \o Flat(o.number, b))
<1> DEFINE ao == a \o <<o>>
           e == End(lo, a)
<1>1. <<o>> \in Seq(Item) /\ Len(<<o>>) = 1 /\ <<o>>[1] = o /\ <<o>> # <<>>
  OBVIOUS
<1>2. ao \in Seq(Item)
  BY <1>1, ConcatProperties
<1>3. Run(lo, ao) /\ Run(End(lo, ao), b)
  BY <1>2, RunOf
<1>4. Run(lo, a) /\ Run(e, <<o>>)
  BY <1>1, <1>3, RunOf
<1>5. e \in 0..MaxOpt /\ e <= o.number
  <2>1. e \in 0..MaxOpt
    BY <1>4, EndType
  <2>2. 1 \in 1..Len(<<o>>)
    BY <1>1
  <2>3. Before(e, <<o>>, 1) <= <<o>>[1].number
    BY <1>4, <2>2, RunType
  <2> QED
    BY <1>1, <2>1, <2>3 DEF Before
<1>6. End(lo, ao) = o.number
  <2>1. End(lo, ao) = End(e, <<o>>)
    BY <1>1, EndOf
  <2> QED
    BY <1>1, <2>1 DEF End
<1>7. Flat(lo, ao) = Flat(lo, a) \o One(e, o)
  BY <1>3, FlatAppend
<1>8. Flat(lo, ao \o b) = Flat(lo, ao) \o Flat(o.number, b)
  <2>1. Run(lo, ao \o b)
    OBVIOUS
  <2> HIDE DEF ao
  <2>2. Flat(lo, ao \o b) = Flat(lo, ao) \o Flat(End(lo, ao), b)
    BY <1>2, <2>1, FlatConcat
  <2> QED
    BY <1>6, <2>2
<1>9. Flat(lo, a) \in Seq(Byte) /\ Flat(o.number, b) \in Seq(Byte) /\ One(e, o) \in Seq(Byte)
  BY <1>3, <1>4, <1>5, <1>6, FlatType, OneType
<1>10. (Flat(lo, a) \o One(e, o)) \o Flat(o.number, b)
          = Flat(lo, a) \o (One(e, o) \o Flat(o.number, b))
  BY <1>9, ConcatAssociative, SMTT(30)
<1> QED
  BY <1>3, <1>4, <1>5, <1>6, <1>7, <1>8, <1>10

-----------------------------------------------------------------------------
(* Walking through the options                                             *)

LEMMA ExtendedType ==
    ASSUME NEW nibble \in Nat, NEW bytes, NEW i \in Nat,
           nibble >= 13 => bytes[i + 1] \in Nat,
           nibble >= 14 => bytes[i + 2] \in Nat
    PROVE  Extended(nibble, bytes, i) \in Nat
  BY DEF Extended

LEMMA ParseType ==
    ASSUME NEW bytes \in Seq(Byte)
    PROVE  /\ Parse(bytes).delta \in Nat /\ Parse(bytes).length \in Nat
           /\ Parse(bytes).size \in 0..Len(bytes)
<1> DEFINE d == bytes[1] \div 16
           l == bytes[1] % 16
           header == 1 + Follow(d) + Follow(l)
           length == Extended(l, bytes, 1 + Follow(d))
           none == bytes = <<>> \/ d = 15 \/ l = 15 \/ Len(bytes) < header
                      \/ (d = 14 /\ bytes[2] = 255) \/ Len(bytes) < header + length
<1>0. Len(bytes) \in Nat /\ \A i \in 1..Len(bytes) : bytes[i] \in Byte
  BY LenProperties, ElementOfSeq
<1>n. \A i \in 1..Len(bytes) : bytes[i] \in Nat
  <2>1. \A b \in Byte : b \in Nat
    BY DEF Byte
  <2> QED
    BY <1>0, <2>1, Zenon
<1>1. CASE none
  <2>1. Parse(bytes) = NoOption
    BY <1>1, SMTT(30) DEF Parse
  <2> QED
    BY <1>0, <2>1 DEF NoOption
<1>2. CASE ~none
  <2>1. Parse(bytes) = [delta |-> Extended(d, bytes, 1) % 65536,
                        length |-> length, size |-> header + length]
    BY <1>2, SMTT(30) DEF Parse
  <2>2. Len(bytes) # 0
    BY <1>2, EmptySeq
  <2>3. bytes[1] \in 0..255
    BY <1>0, <2>2 DEF Byte
  <2>4. d \in 0..15 /\ l \in 0..15
    <3>1. \A b \in 0..255 : b \div 16 \in 0..15 /\ b % 16 \in 0..15
      OBVIOUS
    <3> QED
      BY ONLY <2>3, <3>1
  <2>5. /\ ~(d = 15) /\ ~(l = 15) /\ ~(Len(bytes) < header) /\ ~(Len(bytes) < header + length)
    BY <1>2
  <2> HIDE DEF d, l, header, length, none
  <2>6. /\ Follow(d) \in 0..2 /\ Follow(l) \in 0..2
        /\ d >= 13 => Follow(d) >= 1
        /\ d >= 14 => Follow(d) = 2
        /\ l >= 13 => Follow(l) >= 1
        /\ l >= 14 => Follow(l) = 2
    BY <2>4, <2>5 DEF Follow
  <2>7. header \in Nat /\ header <= Len(bytes) /\ header = 1 + Follow(d) + Follow(l)
    BY <1>0, <2>5, <2>6 DEF header
  <2>8. Extended(d, bytes, 1) \in Nat
    <3>1. d >= 13 => 1 + 1 \in 1..Len(bytes)
      BY <1>0, <2>6, <2>7
    <3>2. d >= 14 => 1 + 2 \in 1..Len(bytes)
      BY <1>0, <2>6, <2>7
    <3>3. /\ d >= 13 => bytes[1 + 1] \in Nat
          /\ d >= 14 => bytes[1 + 2] \in Nat
      BY <1>n, <3>1, <3>2, Zenon
    <3> QED
      BY <2>4, <3>3, ExtendedType
  <2>9. length \in Nat
    <3>1. l >= 13 => 1 + Follow(d) + 1 \in 1..Len(bytes)
      BY <1>0, <2>6, <2>7
    <3>2. l >= 14 => 1 + Follow(d) + 2 \in 1..Len(bytes)
      BY <1>0, <2>6, <2>7
    <3>3. /\ l >= 13 => bytes[1 + Follow(d) + 1] \in Nat
          /\ l >= 14 => bytes[1 + Follow(d) + 2] \in Nat
      BY <1>n, <3>1, <3>2, Zenon
    <3>5. 1 + Follow(d) \in Nat
      BY <2>6
    <3>4. Extended(l, bytes, 1 + Follow(d)) \in Nat
      BY <2>4, <3>3, <3>5, ExtendedType
    <3> QED
      BY <3>4 DEF length
  <2>10. header + length \in 0..Len(bytes)
    BY <1>0, <2>5, <2>7, <2>9
  <2>11. Extended(d, bytes, 1) % 65536 \in Nat
    BY <2>8
  <2> QED
    BY <2>1, <2>9, <2>10, <2>11
<1> QED
  BY <1>1, <1>2

(* The option at a place, and the steps of the iterator.                   *)
OptionAt(p, at) == Parse(SubSeq(p.buf, at, Used(p)))

Stops(p, at) == at > Used(p) \/ p.buf[at] = Marker \/ OptionAt(p, at).size = 0

Number(p, at, number) == (number + OptionAt(p, at).delta) % 65536

EntryAt(p, at, number) ==
    [at |-> at, number |-> Number(p, at, number), delta |-> OptionAt(p, at).delta,
     length |-> OptionAt(p, at).length, size |-> OptionAt(p, at).size]

Spots(p) == (1..Used(p) + 1) \X (0..MaxOpt)

Walks(p, f, x) ==
    IF Stops(p, x[1]) THEN <<>>
    ELSE <<EntryAt(p, x[1], x[2])>>
            \o f[<<x[1] + OptionAt(p, x[1]).size, Number(p, x[1], x[2])>>]

IsWalk(p, f) == f = [x \in Spots(p) |-> Walks(p, f, x)]

Entry == [at : Nat, number : Nat, delta : Nat, length : Nat, size : Nat]

LEMMA EntriesChosen ==
    ASSUME NEW p
    PROVE  Entries(p) = (CHOOSE f : IsWalk(p, f))[<<p.etok + 1, 0>>]
  BY DEF Entries, IsWalk, Walks, Spots, EntryAt, Number, Stops, OptionAt

LEMMA OptionAtType ==
    ASSUME NEW p, p.buf \in Seq(Byte), NEW at \in 1..Used(p)
    PROVE  /\ OptionAt(p, at).delta \in Nat /\ OptionAt(p, at).length \in Nat
           /\ OptionAt(p, at).size \in Nat
           /\ at + OptionAt(p, at).size <= Used(p) + 1
<1> DEFINE u == Used(p)
           s == SubSeq(p.buf, at, u)
<1>1. u \in Nat /\ \A i \in 1..u : p.buf[i] \in Byte
  BY LenProperties, ElementOfSeq DEF Used
<1>2. s \in Seq(Byte) /\ Len(s) = IF at <= u THEN u - at + 1 ELSE 0
  <2>1. \A i \in at..u : p.buf[i] \in Byte
    BY <1>1
  <2>2. at \in Int /\ u \in Int
    BY <1>1
  <2> HIDE DEF u
  <2> QED
    BY <2>1, <2>2, SubSeqProperties
<1>3. /\ OptionAt(p, at).delta \in Nat /\ OptionAt(p, at).length \in Nat
      /\ OptionAt(p, at).size \in 0..Len(s)
  <2>1. OptionAt(p, at) = Parse(s)
    BY DEF OptionAt
  <2> HIDE DEF s
  <2> QED
    BY <1>2, <2>1, ParseType
<1> HIDE DEF s
<1>4. Len(s) = u - at + 1
  BY <1>1, <1>2
<1> QED
  BY <1>1, <1>3, <1>4

LEMMA NumberType ==
    ASSUME NEW m \in Nat
    PROVE  m % 65536 \in 0..MaxOpt
<1>1. \A k \in Nat \ {0} : m % k \in 0..k - 1
  BY ONLY m \in Nat
<1>2. 65536 = MaxOpt + 1
  BY ONLY TRUE DEF MaxOpt
<1>3. m % (MaxOpt + 1) \in 0..MaxOpt
  BY ONLY MaxOpt \in Nat, <1>1, MaxOptNat
<1> QED
  BY ONLY <1>2, <1>3

LEMMA NextSpot ==
    ASSUME NEW p, p.buf \in Seq(Byte), NEW x \in Spots(p), ~Stops(p, x[1])
    PROVE  /\ <<x[1] + OptionAt(p, x[1]).size, Number(p, x[1], x[2])>> \in Spots(p)
           /\ x[1] \in 1..Used(p) /\ OptionAt(p, x[1]).size \in Nat \ {0}
           /\ EntryAt(p, x[1], x[2]) \in Entry
<1> DEFINE at == x[1]
           o == OptionAt(p, at)
<1>1. Used(p) \in Nat
  BY LenProperties DEF Used
<1>2. at \in 1..Used(p) + 1 /\ x[2] \in 0..MaxOpt
  BY DEF Spots
<1>3. ~(at > Used(p)) /\ o.size # 0
  BY DEF Stops
<1>4. at \in 1..Used(p)
  BY <1>1, <1>2, <1>3
<1>5. o.delta \in Nat /\ o.length \in Nat /\ o.size \in Nat /\ at + o.size <= Used(p) + 1
  BY <1>4, OptionAtType
<1>6. at + o.size \in 1..Used(p) + 1
  BY <1>1, <1>4, <1>5
<1>7. Number(p, at, x[2]) \in 0..MaxOpt
  <2>1. x[2] + o.delta \in Nat
    BY <1>2, <1>5, MaxOptNat
  <2> QED
    BY <2>1, NumberType DEF Number
<1> QED
  BY <1>1, <1>3, <1>4, <1>5, <1>6, <1>7, MaxOptNat DEF Spots, EntryAt, Entry

LEMMA WalkExists ==
    ASSUME NEW p, p.buf \in Seq(Byte)
    PROVE  \E f \in [Spots(p) -> Seq(Entry)] : IsWalk(p, f)
<1> DEFINE D == Spots(p)
           V == Seq(Entry)
           rank == [x \in D |-> Used(p) + 1 - x[1]]
           G == [f \in [D -> V] |-> [x \in D |-> Walks(p, f, x)]]
           start == [x \in D |-> <<>>]
<1>0. Used(p) \in Nat
  BY LenProperties DEF Used
<1>1. rank \in [D -> Nat] /\ start \in [D -> V]
  <2>1. \A x \in D : Used(p) + 1 - x[1] \in Nat
    BY <1>0 DEF Spots
  <2>2. <<>> \in V
    BY EmptySeq
  <2> HIDE DEF D, V
  <2> QED
    BY <2>1, <2>2
<1>2. G \in [[D -> V] -> [D -> V]]
  <2>1. ASSUME NEW f \in [D -> V], NEW x \in D PROVE Walks(p, f, x) \in V
    <3>1. CASE Stops(p, x[1])
      BY <3>1, EmptySeq DEF Walks
    <3>2. CASE ~Stops(p, x[1])
      <4> DEFINE y == <<x[1] + OptionAt(p, x[1]).size, Number(p, x[1], x[2])>>
                 e == EntryAt(p, x[1], x[2])
      <4>1. y \in D /\ e \in Entry
        BY <3>2, NextSpot
      <4>2. Walks(p, f, x) = <<e>> \o f[y]
        BY <3>2 DEF Walks
      <4> HIDE DEF y, e, D
      <4>3. f[y] \in Seq(Entry) /\ <<e>> \in Seq(Entry)
        BY <4>1
      <4> QED
        BY <4>2, <4>3, ConcatProperties
    <3> QED
      BY <3>1, <3>2
  <2> HIDE DEF D, V
  <2> QED
    BY <2>1
<1>3. Descends(D, V, rank, G)
  <2> SUFFICES ASSUME NEW f \in [D -> V], NEW g \in [D -> V], NEW x \in D,
                      \A e \in D : rank[e] < rank[x] => f[e] = g[e]
               PROVE  G[f][x] = G[g][x]
    BY DEF Descends
  <2>1. G[f][x] = Walks(p, f, x) /\ G[g][x] = Walks(p, g, x)
    OBVIOUS
  <2>2. CASE Stops(p, x[1])
    BY <2>1, <2>2 DEF Walks
  <2>3. CASE ~Stops(p, x[1])
    <3> DEFINE y == <<x[1] + OptionAt(p, x[1]).size, Number(p, x[1], x[2])>>
    <3>1. y \in D /\ x[1] \in 1..Used(p) /\ OptionAt(p, x[1]).size \in Nat \ {0}
      BY <2>3, NextSpot
    <3>2. rank[y] < rank[x]
      BY <1>0, <3>1
    <3>3. f[y] = g[y]
      BY <3>1, <3>2
    <3> QED
      BY <2>1, <2>3, <3>3 DEF Walks
  <2> QED
    BY <2>2, <2>3
<1> HIDE DEF rank, start
<1>4. \E f \in [D -> V] : f = G[f]
  <2> HIDE DEF G, D, V
  <2>1. Recursive(D, V, rank, G, start)
    BY <1>1, <1>2, <1>3 DEF Recursive
  <2> QED
    BY <2>1, Recursion
<1>5. PICK f \in [D -> V] : f = G[f]
  BY <1>4
<1>6. G[f] = [x \in D |-> Walks(p, f, x)]
  OBVIOUS
<1> QED
  BY <1>5, <1>6 DEF IsWalk

(* What Entries finds from a place on.                                     *)
LEMMA EntriesWalk ==
    ASSUME NEW p, p.buf \in Seq(Byte)
    PROVE  \E f : /\ Entries(p) = f[<<p.etok + 1, 0>>]
                  /\ \A x \in Spots(p) : f[x] = Walks(p, f, x)
<1> DEFINE f == CHOOSE f : IsWalk(p, f)
<1>1. IsWalk(p, f)
  BY WalkExists
<1>2. Entries(p) = f[<<p.etok + 1, 0>>]
  BY EntriesChosen
<1> HIDE DEF f
<1>3. \A x \in Spots(p) : f[x] = Walks(p, f, x)
  BY <1>1 DEF IsWalk
<1> QED
  BY <1>2, <1>3

-----------------------------------------------------------------------------
(* How a message lies in its buffer                                        *)

PduType == [buf : Seq(Byte), etok : Nat, token : Nat, data : Nat,
            maxOpt : 0..MaxOpt, alloc : 0..MaxSize, memory : Nat]

(* The token, the options, and then nothing or the marker and a payload.   *)
Laid(p, t, os, tail) ==
    /\ p \in PduType
    /\ t \in Seq(Byte) /\ Len(t) = p.etok
    /\ Run(0, os)
    /\ tail \in Seq(Byte) /\ (tail = <<>> \/ (tail[1] = Marker /\ Len(tail) > 1))
    /\ p.buf = (t \o Flat(0, os)) \o tail
    /\ p.data = IF tail = <<>> THEN 0 ELSE Len(t) + Len(Flat(0, os)) + 1
    /\ p.maxOpt = End(0, os)
    /\ Used(p) <= p.alloc

(* Where the options behind a begin, and what the iterator says of one.    *)
Spot(t, a) == Len(t) + Len(Flat(0, a)) + 1

TheOption(at, lo, o) ==
    [at |-> at, number |-> o.number, delta |-> o.number - lo, length |-> Len(o.value),
     size |-> EncodeSize(o.number - lo, Len(o.value))]

(* An element in the middle.                                               *)
LEMMA Split ==
    ASSUME NEW S, NEW s \in Seq(S), NEW k \in 1..Len(s)
    PROVE  /\ SubSeq(s, 1, k - 1) \in Seq(S) /\ Len(SubSeq(s, 1, k - 1)) = k - 1
           /\ s[k] \in S
           /\ SubSeq(s, k + 1, Len(s)) \in Seq(S)
           /\ Len(SubSeq(s, k + 1, Len(s))) = Len(s) - k
           /\ SubSeq(s, 1, k) = SubSeq(s, 1, k - 1) \o <<s[k]>>
           /\ s = (SubSeq(s, 1, k - 1) \o <<s[k]>>) \o SubSeq(s, k + 1, Len(s))
<1> DEFINE n == Len(s)
           c == SubSeq(s, 1, k)
           d == SubSeq(s, k + 1, n)
<1>1. n \in Nat /\ k \in 1..n /\ \A i \in 1..n : s[i] \in S
  BY LenProperties, ElementOfSeq
<1>2. c \in Seq(S) /\ Len(c) = k /\ \A i \in 1..k : c[i] = s[i]
  <2>1. \A i \in 1..k : s[i] \in S
    BY <1>1
  <2>2. /\ SubSeq(s, 1, k) \in Seq(S)
        /\ Len(SubSeq(s, 1, k)) = IF 1 <= k THEN k - 1 + 1 ELSE 0
        /\ \A i \in 1..k - 1 + 1 : SubSeq(s, 1, k)[i] = s[1 + i - 1]
    BY <2>1, SubSeqProperties
  <2>3. k - 1 + 1 = k /\ 1 <= k /\ \A i \in 1..k : 1 + i - 1 = i
    BY <1>1
  <2> QED
    BY <2>2, <2>3
<1>3. d \in Seq(S) /\ Len(d) = n - k
  <2>1. \A i \in k + 1..n : s[i] \in S
    BY <1>1
  <2>2. k + 1 \in Int /\ n \in Int
    BY <1>1
  <2> HIDE DEF n
  <2>3. /\ SubSeq(s, k + 1, n) \in Seq(S)
        /\ Len(SubSeq(s, k + 1, n)) = IF k + 1 <= n THEN n - (k + 1) + 1 ELSE 0
    BY <2>1, <2>2, SubSeqProperties
  <2>4. (IF k + 1 <= n THEN n - (k + 1) + 1 ELSE 0) = n - k
    BY <1>1
  <2> QED
    BY <2>3, <2>4
<1>4. c \o d = s
  <2>1. 1 \in 1..n + 1 /\ k \in 1 - 1..n /\ n \in k..n
    BY <1>1
  <2>2. c \o d = SubSeq(s, 1, n)
    BY <2>1, ConcatAdjacentSubSeq
  <2> QED
    BY <2>2, SubSeqFull
<1>5. k - 1 \in Nat /\ (k - 1) + 1 = k
  BY <1>1
<1>6. /\ SubSeq(c, 1, k - 1) \in Seq(S) /\ Len(SubSeq(c, 1, k - 1)) = k - 1
      /\ c = SubSeq(c, 1, k - 1) \o <<c[k]>>
  <2> HIDE DEF c
  <2>1. Len(c) = (k - 1) + 1
    BY <1>2, <1>5
  <2>2. /\ SubSeq(c, 1, k - 1) \in Seq(S) /\ Len(SubSeq(c, 1, k - 1)) = k - 1
        /\ c = SubSeq(c, 1, k - 1) \o <<c[(k - 1) + 1]>>
    BY <1>2, <1>5, <2>1, LastSplit
  <2> QED
    BY <1>5, <2>2
<1>7. SubSeq(c, 1, k - 1) = SubSeq(s, 1, k - 1)
  <2>1. k = 1 => SubSeq(c, 1, k - 1) = <<>> /\ SubSeq(s, 1, k - 1) = <<>>
    BY SubSeqEmpty
  <2>2. ASSUME k # 1 PROVE SubSeq(c, 1, k - 1) = SubSeq(s, 1, k - 1)
    <3> HIDE DEF c, d
    <3>1. 1 \in 1..Len(c) /\ k - 1 \in 1..Len(c)
      BY <1>1, <1>2, <2>2
    <3>2. SubSeq(c \o d, 1, k - 1) = SubSeq(c, 1, k - 1)
      BY <1>2, <1>3, <3>1, SubSeqOfConcat1
    <3> QED
      BY <1>4, <3>2
  <2> QED
    BY <2>1, <2>2
<1>8. c[k] = s[k]
  BY <1>1, <1>2
<1> HIDE DEF c, d
<1>9. SubSeq(s, 1, k) = c /\ SubSeq(s, k + 1, Len(s)) = d
  BY DEF c, d
<1> QED
  BY <1>1, <1>3, <1>4, <1>6, <1>7, <1>8, <1>9

(* A sequence that is told from its end.                                   *)
Unrolls(S, m, e, h) ==
    /\ m \in Nat /\ \A i \in 1..m : e[i] \in S
    /\ h[m] = <<>> /\ \A k \in 0..m - 1 : h[k] = <<e[k + 1]>> \o h[k + 1]
LEMMA Unrolled ==
    ASSUME NEW S, NEW m, NEW e, NEW h, Unrolls(S, m, e, h)
    PROVE  h[0] \in Seq(S) /\ Len(h[0]) = m /\ \A i \in 1..m : h[0][i] = e[i]
<1> USE DEF Unrolls
<1> DEFINE P(j) == /\ h[m - j] \in Seq(S) /\ Len(h[m - j]) = j
                   /\ \A i \in 1..j : h[m - j][i] = e[(m - j) + i]
           T == {j \in Nat : j <= m => P(j)}
<1>1. 0 \in T
  <2>1. m - 0 = m /\ 1..0 = {}
    OBVIOUS
  <2>2. <<>> \in Seq(S) /\ Len(<<>>) = 0
    BY EmptySeq
  <2>3. P(0)
    BY <2>1, <2>2
  <2> QED
    BY <2>3
<1>2. ASSUME NEW j \in Nat, j \in T PROVE j + 1 \in T
  <2> SUFFICES ASSUME j + 1 <= m PROVE P(j + 1)
    OBVIOUS
  <2> DEFINE k == m - (j + 1)
             g == h[k + 1]
             x == <<e[k + 1]>>
  <2>1. k \in 0..m - 1 /\ k + 1 = m - j /\ k + 1 \in 1..m /\ j <= m
    OBVIOUS
  <2>2. h[k] = x \o g
    BY <2>1
  <2>3. g \in Seq(S) /\ Len(g) = j /\ \A i \in 1..j : g[i] = e[(k + 1) + i]
    BY <1>2, <2>1
  <2>4. e[k + 1] \in S
    BY <2>1
  <2>5. x \in Seq(S) /\ Len(x) = 1 /\ x[1] = e[k + 1]
    BY <2>4
  <2> HIDE DEF x, g, k
  <2>6. /\ x \o g \in Seq(S) /\ Len(x \o g) = 1 + j
        /\ \A i \in 1..1 : (x \o g)[i] = x[i]
        /\ \A i \in 1..j : (x \o g)[1 + i] = g[i]
    <3>1. x \in Seq(S) /\ g \in Seq(S)
      BY <2>3, <2>5
    <3>2. /\ x \o g \in Seq(S) /\ Len(x \o g) = Len(x) + Len(g)
          /\ \A i \in 1..Len(x) : (x \o g)[i] = x[i]
          /\ \A i \in 1..Len(g) : (x \o g)[Len(x) + i] = g[i]
      BY <3>1, Places
    <3> QED
      BY <2>3, <2>5, <3>2
  <2>7. \A i \in 1..j + 1 : (x \o g)[i] = e[k + i]
    <3> SUFFICES ASSUME NEW i \in 1..j + 1 PROVE (x \o g)[i] = e[k + i]
      OBVIOUS
    <3>1. CASE i = 1
      BY <2>5, <2>6, <3>1
    <3>2. CASE i # 1
      <4>1. i - 1 \in 1..j /\ 1 + (i - 1) = i /\ (k + 1) + (i - 1) = k + i
        BY <2>1, <3>2
      <4> QED
        BY <2>3, <2>6, <4>1
    <3> QED
      BY <3>1, <3>2
  <2>8. 1 + j = j + 1
    OBVIOUS
  <2>9. h[k] \in Seq(S) /\ Len(h[k]) = j + 1 /\ \A i \in 1..j + 1 : h[k][i] = e[k + i]
    BY <2>2, <2>6, <2>7, <2>8
  <2> QED
    BY <2>9 DEF k
<1> HIDE DEF T
<1>3. \A j \in Nat : j \in T
  BY <1>1, <1>2, Induction
<1>4. P(m)
  BY <1>3 DEF T
<1>5. m - m = 0 /\ \A i \in 1..m : (m - m) + i = i
  OBVIOUS
<1> QED
  BY <1>4, <1>5

(* Whatever an option may have, its header can say.                        *)
LEMMA Limits ==
    ASSUME NEW d \in 0..MaxOpt, NEW l \in Nat, l <= LongestValue
    PROVE  d \in Nat /\ d <= 65535 /\ d <= 65804 /\ l <= 65804
<1>1. d \in Nat /\ d <= MaxOpt
  BY MaxOptNat
<1>2. MaxOpt <= 65535 /\ MaxOpt <= 65804 /\ MaxOpt \in Nat
  BY ONLY TRUE, SMTT(60) DEF MaxOpt
<1>3. l <= 65804
  BY ONLY l \in Nat, l <= LongestValue DEF LongestValue
<1>4. \A h \in Nat : MaxOpt <= h => d <= h
  BY ONLY <1>1, MaxOptNat
<1> QED
  BY ONLY <1>1, <1>2, <1>3, <1>4

LEMMA Glue ==
    ASSUME NEW a \in Seq(Byte), NEW b \in Seq(Byte), NEW c \in Seq(Byte)
    PROVE  (a \o b) \o c = a \o (b \o c)
  BY ConcatAssociative

(* The bytes of an option in two parts: what changes with the number in
   front of it, and what does not.                                         *)
Top(lo, o) == <<First(o.number - lo, Len(o.value))>> \o Extension(o.number - lo)

Bottom(o) == Extension(Len(o.value)) \o o.value

LEMMA OneParts ==
    ASSUME NEW lo \in 0..MaxOpt, NEW o \in Item, lo <= o.number
    PROVE  /\ Top(lo, o) \in Seq(Byte) /\ Len(Top(lo, o)) = 1 + ExtensionSize(o.number - lo)
           /\ Bottom(o) \in Seq(Byte)
           /\ One(lo, o) = Top(lo, o) \o Bottom(o)
           /\ Top(lo, o)[1] = First(o.number - lo, Len(o.value))
           /\ First(o.number - lo, Len(o.value)) # Marker
<1> DEFINE d == o.number - lo
           l == Len(o.value)
           f == First(d, l)
           x == Extension(d)
           y == Extension(l)
<1>1. d \in Nat /\ d <= 65804 /\ l \in Nat /\ l <= 65804
  <2>1. d \in 0..MaxOpt
    BY OneType
  <2>2. l <= LongestValue /\ l \in Nat
    BY ItemType, LenProperties
  <2> HIDE DEF d, l
  <2> QED
    BY <2>1, <2>2, Limits
<1>2. f \in Byte
  BY <1>1, FirstType
<1>3. x \in Seq(Byte) /\ Len(x) = ExtensionSize(d) /\ y \in Seq(Byte)
  BY <1>1, ExtensionType
<1>4. o.value \in Seq(Byte)
  BY ItemType
<1>5. One(lo, o) = ((<<f>> \o x) \o y) \o o.value
  BY DEF One, Encode, SetHeader
<1>6. f # Marker
  <2>1. Nibble(d) \in 0..14 /\ Nibble(l) \in 0..14
    BY <1>1, NibbleSmall, SMTT(30)
  <2>2. f = 16 * Nibble(d) + Nibble(l)
    BY DEF First
  <2>3. \A i, j \in 0..14 : 16 * i + j # 255
    OBVIOUS
  <2> HIDE DEF d, l, f
  <2> QED
    BY <2>1, <2>2, <2>3, Zenon DEF Marker
<1>7. Top(lo, o) = <<f>> \o x /\ Bottom(o) = y \o o.value
  BY DEF Top, Bottom
<1> HIDE DEF d, l, f, x, y
<1>8. <<f>> \in Seq(Byte) /\ Len(<<f>>) = 1 /\ <<f>>[1] = f
  BY <1>2
<1>9. /\ <<f>> \o x \in Seq(Byte) /\ Len(<<f>> \o x) = 1 + Len(x) /\ (<<f>> \o x)[1] = f
  <2>1. /\ <<f>> \o x \in Seq(Byte) /\ Len(<<f>> \o x) = Len(<<f>>) + Len(x)
        /\ \A k \in 1..Len(<<f>>) : (<<f>> \o x)[k] = <<f>>[k]
    BY <1>3, <1>8, Cat
  <2>2. 1 \in 1..Len(<<f>>)
    BY <1>8
  <2> QED
    BY <1>8, <2>1, <2>2
<1>10. y \o o.value \in Seq(Byte)
  BY <1>3, <1>4, Cat
<1>11. ((<<f>> \o x) \o y) \o o.value = (<<f>> \o x) \o (y \o o.value)
  BY <1>3, <1>4, <1>9, Glue
<1> QED
  BY <1>3, <1>5, <1>6, <1>7, <1>9, <1>10, <1>11 DEF d, l, f

(* The message around one of its options.                                  *)
Around(p, t, tail, a, o, b) ==
    /\ End(0, a) \in 0..MaxOpt /\ End(0, a) <= o.number
    /\ End(0, a \o <<o>>) = o.number
    /\ Run(0, a) /\ Run(0, a \o <<o>>) /\ Run(o.number, b)
    /\ t \o Flat(0, a) \in Seq(Byte) /\ Len(t \o Flat(0, a)) + 1 = Spot(t, a)
    /\ One(End(0, a), o) \in Seq(Byte)
    /\ Flat(o.number, b) \o tail \in Seq(Byte)
    /\ p.buf = ((t \o Flat(0, a)) \o One(End(0, a), o)) \o (Flat(o.number, b) \o tail)
    /\ Spot(t, a \o <<o>>)
          = Spot(t, a) + EncodeSize(o.number - End(0, a), Len(o.value))
LEMMA LaidAround ==
    ASSUME NEW p, NEW t, NEW tail, NEW a \in Seq(Item), NEW o \in Item, NEW b \in Seq(Item),
           Laid(p, t, (a \o <<o>>) \o b, tail)
    PROVE  Around(p, t, tail, a, o, b)
<1> DEFINE e == End(0, a)
           n == o.number
           A == Flat(0, a)
           B == Flat(n, b)
           M == One(e, o)
<1>1. /\ t \in Seq(Byte) /\ tail \in Seq(Byte) /\ Run(0, (a \o <<o>>) \o b)
      /\ p.buf = (t \o Flat(0, (a \o <<o>>) \o b)) \o tail
  BY DEF Laid
<1>2. /\ e \in 0..MaxOpt /\ e <= n /\ Run(0, a) /\ Run(0, a \o <<o>>) /\ Run(n, b)
      /\ End(0, a \o <<o>>) = n
      /\ Flat(0, a \o <<o>>) = A \o M
      /\ Flat(0, (a \o <<o>>) \o b) = A \o (M \o B)
  BY <1>1, FlatMiddle
<1>3. /\ A \in Seq(Byte) /\ B \in Seq(Byte) /\ M \in Seq(Byte)
      /\ Len(M) = EncodeSize(n - e, Len(o.value))
  BY <1>2, FlatType, OneType
<1> HIDE DEF A, B, M, e, n
<1>4. t \o A \in Seq(Byte) /\ Len(t \o A) = Len(t) + Len(A)
  BY <1>1, <1>3, Cat
<1>5. B \o tail \in Seq(Byte)
  BY <1>1, <1>3, Cat
<1>6. (t \o (A \o (M \o B))) \o tail = ((t \o A) \o M) \o (B \o tail)
  <2>1. M \o B \in Seq(Byte) /\ (t \o A) \o M \in Seq(Byte)
    BY <1>3, <1>4, Cat
  <2>2. t \o (A \o (M \o B)) = (t \o A) \o (M \o B)
    BY <1>1, <1>3, <2>1, Glue, ZenonT(60)
  <2>3. (t \o A) \o (M \o B) = ((t \o A) \o M) \o B
    BY <1>3, <1>4, Glue
  <2>4. (((t \o A) \o M) \o B) \o tail = ((t \o A) \o M) \o (B \o tail)
    <3>1. (t \o A) \o M \in Seq(Byte) /\ B \in Seq(Byte) /\ tail \in Seq(Byte)
      BY <1>1, <1>3, <2>1
    <3> QED
      BY <3>1, Glue
  <2> QED
    BY <2>2, <2>3, <2>4
<1>7. Len(A \o M) = Len(A) + Len(M)
  BY <1>3, Cat
<1>8. Len(t) \in Nat /\ Len(A) \in Nat /\ Len(M) \in Nat
  BY <1>1, <1>3, LenProperties
<1>9. Spot(t, a) = Len(t) + Len(A) + 1 /\ Spot(t, a \o <<o>>) = Len(t) + Len(A \o M) + 1
  BY <1>2 DEF Spot, A
<1>10. Spot(t, a \o <<o>>) = Spot(t, a) + Len(M)
  BY <1>7, <1>8, <1>9
<1>11. Len(t \o A) + 1 = Spot(t, a)
  BY <1>4, <1>9
<1>12. p.buf = ((t \o A) \o M) \o (B \o tail)
  BY <1>1, <1>2, <1>6
<1> QED
  BY <1>2, <1>3, <1>4, <1>5, <1>10, <1>11, <1>12 DEF A, B, M, e, n, Around

(* Where a run of bytes stands, and what is behind it.                     *)
FoundAt(h, m, r, s) ==
    /\ Len(h) + 1 \in 1..Len(s)
    /\ s[Len(h) + 1] = m[1]
    /\ SubSeq(s, Len(h) + 1, Len(s)) = m \o r
    /\ Len(s) = (Len(h) + Len(m)) + Len(r)
LEMMA Found ==
    ASSUME NEW h \in Seq(Byte), NEW m \in Seq(Byte), NEW r \in Seq(Byte),
           NEW s, s = (h \o m) \o r, Len(m) # 0
    PROVE  FoundAt(h, m, r, s)
<1>1. /\ Len(s) = (Len(h) + Len(m)) + Len(r)
      /\ SubSeq(s, Len(h) + 1, Len(s)) = m \o r
  BY ThreeParts
<1>2. Len(h) \in Nat /\ Len(m) \in Nat /\ Len(r) \in Nat
  BY LenProperties
<1>3. /\ h \o m \in Seq(Byte) /\ Len(h \o m) = Len(h) + Len(m)
      /\ \A k \in 1..Len(m) : (h \o m)[Len(h) + k] = m[k]
  BY Cat
<1>4. \A k \in 1..Len(h \o m) : ((h \o m) \o r)[k] = (h \o m)[k]
  BY <1>3, Cat
<1>5. 1 \in 1..Len(m) /\ Len(h) + 1 \in 1..Len(h) + Len(m)
  BY <1>2
<1>6. s[Len(h) + 1] = m[1]
  BY <1>3, <1>4, <1>5
<1> QED
  BY <1>1, <1>2, <1>6, SMTT(30) DEF FoundAt

LEMMA OptionIsRead ==
    ASSUME NEW d \in 0..MaxOpt, NEW v \in Seq(Byte), Len(v) <= LongestValue,
           NEW rest \in Seq(Byte)
    PROVE  Parse(Encode(d, v) \o rest)
              = [delta |-> d, length |-> Len(v), size |-> EncodeSize(d, Len(v))]
<1>1. Len(v) \in Nat
  BY LenProperties
<1>2. d \in Nat /\ d <= 65535 /\ Len(v) <= 65804
  BY <1>1, Limits
<1> QED
  BY <1>2, WrittenIsRead

LEMMA NumberSame ==
    ASSUME NEW n \in 0..MaxOpt
    PROVE  n % 65536 = n
<1>1. n \in Nat /\ n < 65536
  <2>1. n \in Nat /\ n < MaxOpt + 1
    BY MaxOptNat
  <2>2. MaxOpt + 1 = 65536
    BY ONLY TRUE DEF MaxOpt
  <2> QED
    BY ONLY <2>1, <2>2
<1>2. \A i \in Nat : i < 65536 => i % 65536 = i
  OBVIOUS
<1> QED
  BY <1>1, <1>2

(* The iterator at an option finds it, and goes on behind it.              *)
Stepped(p, t, a, o) ==
    /\ <<Spot(t, a), End(0, a)>> \in Spots(p)
    /\ ~Stops(p, Spot(t, a))
    /\ EntryAt(p, Spot(t, a), End(0, a)) = TheOption(Spot(t, a), End(0, a), o)
    /\ Spot(t, a) + OptionAt(p, Spot(t, a)).size = Spot(t, a \o <<o>>)
    /\ Number(p, Spot(t, a), End(0, a)) = End(0, a \o <<o>>)
    /\ p.buf[Spot(t, a)] = First(o.number - End(0, a), Len(o.value))
LEMMA WalkStep ==
    ASSUME NEW p, NEW t, NEW tail, NEW a \in Seq(Item), NEW o \in Item, NEW b \in Seq(Item),
           Laid(p, t, (a \o <<o>>) \o b, tail)
    PROVE  Stepped(p, t, a, o)
<1> DEFINE e == End(0, a)
           n == o.number
           at == Spot(t, a)
           H == t \o Flat(0, a)
           M == One(e, o)
           R == Flat(n, b) \o tail
           d == n - e
           l == Len(o.value)
<1>1. /\ e \in 0..MaxOpt /\ e <= n /\ End(0, a \o <<o>>) = n
      /\ H \in Seq(Byte) /\ Len(H) + 1 = at
      /\ M \in Seq(Byte) /\ R \in Seq(Byte)
      /\ p.buf = (H \o M) \o R
      /\ Spot(t, a \o <<o>>) = at + EncodeSize(d, l)
  <2>1. /\ End(0, a) \in 0..MaxOpt /\ End(0, a) <= o.number
        /\ End(0, a \o <<o>>) = o.number
        /\ t \o Flat(0, a) \in Seq(Byte) /\ Len(t \o Flat(0, a)) + 1 = Spot(t, a)
        /\ One(End(0, a), o) \in Seq(Byte)
        /\ Flat(o.number, b) \o tail \in Seq(Byte)
        /\ p.buf = ((t \o Flat(0, a)) \o One(End(0, a), o)) \o (Flat(o.number, b) \o tail)
        /\ Spot(t, a \o <<o>>)
              = Spot(t, a) + EncodeSize(o.number - End(0, a), Len(o.value))
    <3> HIDE DEF e, n, at, H, M, R, d, l
    <3>1. Around(p, t, tail, a, o, b)
      BY LaidAround
    <3> QED
      BY <3>1 DEF Around
  <2> QED
    BY <2>1
<1>2. d \in 0..MaxOpt /\ Len(M) \in Nat \ {0} /\ Len(M) = EncodeSize(d, l)
  BY <1>1, OneType
<1>3. n \in 0..MaxOpt /\ o.value \in Seq(Byte) /\ l <= LongestValue /\ l \in Nat
  BY ItemType, LenProperties
<1>4. M = Encode(d, o.value)
  BY DEF One
<1>5. M[1] = First(d, l) /\ First(d, l) # Marker
  <2> DEFINE x == Top(e, o)
             y == Bottom(o)
  <2>1. /\ x \in Seq(Byte) /\ Len(x) = 1 + ExtensionSize(d) /\ y \in Seq(Byte)
        /\ M = x \o y /\ x[1] = First(d, l) /\ First(d, l) # Marker
    BY <1>1, OneParts
  <2>2. Len(x) \in Nat \ {0}
    <3>1. d \in Nat
      BY <1>2, MaxOptNat
    <3> HIDE DEF x, y, d
    <3>2. ExtensionSize(d) \in Nat
      BY <3>1 DEF ExtensionSize
    <3> QED
      BY <2>1, <3>2
  <2> HIDE DEF x, y, M
  <2>3. \A k \in 1..Len(x) : (x \o y)[k] = x[k]
    BY <2>1, Cat
  <2>4. 1 \in 1..Len(x)
    BY <2>2
  <2> QED
    BY <2>1, <2>3, <2>4
<1> HIDE DEF M, H, R, d, l, at, e, n
<1>6. /\ Len(H) + 1 \in 1..Len(p.buf)
      /\ p.buf[Len(H) + 1] = M[1]
      /\ SubSeq(p.buf, Len(H) + 1, Len(p.buf)) = M \o R
  <2>1. Len(M) # 0
    BY <1>2
  <2>2. H \in Seq(Byte) /\ M \in Seq(Byte) /\ R \in Seq(Byte)
    BY <1>1
  <2>3. FoundAt(H, M, R, (H \o M) \o R)
    BY <2>1, <2>2, Found
  <2> QED
    BY <1>1, <2>3 DEF FoundAt
<1>7. at \in 1..Used(p) /\ p.buf[at] = First(d, l) /\ SubSeq(p.buf, at, Used(p)) = M \o R
  BY <1>1, <1>5, <1>6 DEF Used
<1>8. OptionAt(p, at) = [delta |-> d, length |-> l, size |-> EncodeSize(d, l)]
  <2>1. Len(o.value) <= LongestValue
    BY <1>3 DEF l
  <2>2. Parse(Encode(d, o.value) \o R)
           = [delta |-> d, length |-> Len(o.value), size |-> EncodeSize(d, Len(o.value))]
    BY <1>1, <1>2, <1>3, <2>1, OptionIsRead
  <2> QED
    BY <1>4, <1>7, <2>2 DEF OptionAt, l
<1>9. Number(p, at, e) = n
  <2>1. e + d = n
    BY <1>1, <1>3, MaxOptNat DEF d
  <2>2. n % 65536 = n
    BY <1>3, NumberSame
  <2> QED
    BY <1>8, <2>1, <2>2 DEF Number
<1>u. Used(p) \in Nat
  <2>1. p.buf \in Seq(Byte)
    BY DEF Laid, PduType
  <2> QED
    BY <2>1, LenProperties DEF Used
<1>10. ~Stops(p, at)
  <2>1. Used(p) \in Nat
    BY <1>u
  <2>2. ~(at > Used(p))
    BY <1>7, <2>1
  <2>3. OptionAt(p, at).size # 0
    BY <1>2, <1>8
  <2> QED
    BY <1>5, <1>7, <2>2, <2>3 DEF Stops
<1>11. at \in 1..Used(p) + 1
  BY <1>7, <1>u
<1>12. EntryAt(p, at, e) = TheOption(at, e, o)
  BY <1>8, <1>9 DEF EntryAt, TheOption, n, d, l
<1>13. at + OptionAt(p, at).size = Spot(t, a \o <<o>>)
  BY <1>1, <1>8
<1> QED
  BY <1>1, <1>7, <1>9, <1>10, <1>11, <1>12, <1>13 DEF Spots, Stepped, at, e, n, d, l

(* It stops behind the last one.                                           *)
LEMMA WalkEnd ==
    ASSUME NEW p, NEW t, NEW os, NEW tail, Laid(p, t, os, tail)
    PROVE  <<Spot(t, os), End(0, os)>> \in Spots(p) /\ Stops(p, Spot(t, os))
<1> DEFINE F == Flat(0, os)
           at == Spot(t, os)
<1>1. /\ t \in Seq(Byte) /\ tail \in Seq(Byte) /\ Run(0, os)
      /\ (tail = <<>> \/ (tail[1] = Marker /\ Len(tail) > 1))
      /\ p.buf = (t \o F) \o tail
  BY DEF Laid
<1>2. F \in Seq(Byte)
  BY <1>1, FlatType
<1>3. at = Len(t) + Len(F) + 1
  BY DEF Spot
<1>e. End(0, os) \in 0..MaxOpt
  BY <1>1, EndType
<1> HIDE DEF F, at
<1>4. t \o F \in Seq(Byte) /\ Len(t \o F) = Len(t) + Len(F)
  BY <1>1, <1>2, Cat
<1>5. /\ Len(p.buf) = Len(t \o F) + Len(tail)
      /\ \A k \in 1..Len(tail) : p.buf[Len(t \o F) + k] = tail[k]
  BY <1>1, <1>4, Cat
<1>6. Len(t) \in Nat /\ Len(F) \in Nat /\ Len(tail) \in Nat
  BY <1>1, <1>2, LenProperties
<1>7. at \in 1..Used(p) + 1
  BY <1>3, <1>4, <1>5, <1>6 DEF Used
<1>8. CASE tail = <<>>
  <2>1. Len(tail) = 0
    BY <1>8, EmptySeq
  <2>2. at > Used(p)
    BY <1>3, <1>4, <1>5, <1>6, <2>1 DEF Used
  <2> QED
    BY <1>e, <1>7, <2>2 DEF Stops, Spots, at
<1>9. CASE tail # <<>>
  <2>1. 1 \in 1..Len(tail)
    BY <1>1, <1>6, <1>9
  <2>2. p.buf[Len(t \o F) + 1] = Marker
    BY <1>1, <1>5, <1>9, <2>1
  <2>3. p.buf[at] = Marker
    BY <1>3, <1>4, <2>2
  <2> QED
    BY <1>e, <1>7, <2>3 DEF Stops, Spots, at
<1> QED
  BY <1>8, <1>9

(* The iterator finds the options that were written: one for each, at its
   place, with its number, its difference and its length.                  *)
Listed(t, os, es) ==
    /\ es \in Seq(Entry) /\ Len(es) = Len(os)
    /\ \A i \in 1..Len(os) :
          es[i] = TheOption(Spot(t, SubSeq(os, 1, i - 1)), End(0, SubSeq(os, 1, i - 1)), os[i])

LEMMA EntriesFound ==
    ASSUME NEW p, NEW t, NEW os, NEW tail, Laid(p, t, os, tail)
    PROVE  Listed(t, os, Entries(p))
<1> DEFINE m == Len(os)
           a(k) == SubSeq(os, 1, k)
           x(k) == <<Spot(t, a(k)), End(0, a(k))>>
           e == [i \in 1..m |-> TheOption(Spot(t, a(i - 1)), End(0, a(i - 1)), os[i])]
<1>1. os \in Seq(Item) /\ p.buf \in Seq(Byte) /\ Len(t) = p.etok
  BY DEF Laid, PduType, Run
<1>2. m \in Nat
  BY <1>1, LenProperties
<1>3. PICK f : /\ Entries(p) = f[<<p.etok + 1, 0>>]
               /\ \A y \in Spots(p) : f[y] = Walks(p, f, y)
  BY <1>1, EntriesWalk
<1> DEFINE h == [k \in 0..m |-> f[x(k)]]
<1>4. a(0) = <<>> /\ a(m) = os
  BY <1>1, SubSeqEmpty, SubSeqFull
<1>5. x(0) = <<p.etok + 1, 0>>
  <2>1. Flat(0, <<>>) = <<>> /\ End(0, <<>>) = 0
    <3>1. 0 \in 0..MaxOpt
      BY MaxOptNat
    <3> QED
      BY <3>1, FlatEmpty
  <2>2. Len(<<>>) = 0 /\ Len(t) \in Nat
    BY EmptySeq, LenProperties DEF Laid
  <2>3. Spot(t, <<>>) = Len(t) + 1
    BY <2>1, <2>2 DEF Spot
  <2> QED
    BY <1>1, <1>4, <2>1, <2>3
<1>6. h[m] = <<>>
  <2>1. <<Spot(t, os), End(0, os)>> \in Spots(p) /\ Stops(p, Spot(t, os))
    BY WalkEnd
  <2>2. f[<<Spot(t, os), End(0, os)>>] = <<>>
    BY <1>3, <2>1 DEF Walks
  <2>3. m \in 0..m
    BY <1>2
  <2> QED
    BY <1>4, <2>2, <2>3
<1>7. ASSUME NEW k \in 0..m - 1
      PROVE  e[k + 1] \in Entry /\ h[k] = <<e[k + 1]>> \o h[k + 1]
  <2> DEFINE o == os[k + 1]
             b == SubSeq(os, (k + 1) + 1, m)
  <2>1. k + 1 \in 1..m /\ (k + 1) - 1 = k /\ k \in 0..m /\ k + 1 \in 0..m
    BY <1>2
  <2>2. /\ a(k) \in Seq(Item) /\ o \in Item /\ b \in Seq(Item)
        /\ a(k + 1) = a(k) \o <<o>> /\ os = (a(k) \o <<o>>) \o b
    <3>1. /\ SubSeq(os, 1, (k + 1) - 1) \in Seq(Item)
          /\ os[k + 1] \in Item
          /\ SubSeq(os, (k + 1) + 1, Len(os)) \in Seq(Item)
          /\ SubSeq(os, 1, k + 1) = SubSeq(os, 1, (k + 1) - 1) \o <<os[k + 1]>>
          /\ os = (SubSeq(os, 1, (k + 1) - 1) \o <<os[k + 1]>>)
                     \o SubSeq(os, (k + 1) + 1, Len(os))
      BY <1>1, <2>1, Split
    <3> QED
      BY <2>1, <3>1
  <2> DEFINE c == a(k)
             at == Spot(t, c)
             n == End(0, c)
  <2>3. Laid(p, t, (c \o <<o>>) \o b, tail)
    BY <2>2
  <2>4. c \in Seq(Item) /\ o \in Item /\ b \in Seq(Item)
    BY <2>2
  <2> HIDE DEF b, o, c
  <2>5. /\ <<at, n>> \in Spots(p) /\ ~Stops(p, at)
        /\ EntryAt(p, at, n) = TheOption(at, n, o)
        /\ at + OptionAt(p, at).size = Spot(t, c \o <<o>>)
        /\ Number(p, at, n) = End(0, c \o <<o>>)
    <3> HIDE DEF at, n
    <3>1. Stepped(p, t, c, o)
      BY <2>3, <2>4, WalkStep
    <3> QED
      BY <3>1 DEF Stepped, at, n
  <2>6. f[<<at, n>>] = Walks(p, f, <<at, n>>)
    BY <1>3, <2>5
  <2> HIDE DEF at, n
  <2>7. f[<<at, n>>] = <<TheOption(at, n, o)>>
                          \o f[<<Spot(t, c \o <<o>>), End(0, c \o <<o>>)>>]
    BY <2>5, <2>6 DEF Walks
  <2>8. TheOption(at, n, o) \in Entry
    <3>1. <<at, n>>[1] = at /\ <<at, n>>[2] = n
      OBVIOUS
    <3>2. EntryAt(p, at, n) \in Entry
      BY <1>1, <2>5, <3>1, NextSpot
    <3> QED
      BY <2>5, <3>2
  <2>9. e[k + 1] = TheOption(at, n, o)
    BY <2>1 DEF at, n, c, o
  <2>10. h[k] = f[<<at, n>>] /\ h[k + 1] = f[<<Spot(t, c \o <<o>>), End(0, c \o <<o>>)>>]
    BY <2>1, <2>2 DEF at, n, c, o
  <2> QED
    BY <2>7, <2>8, <2>9, <2>10
<1> HIDE DEF h, e
<1>8. \A i \in 1..m : e[i] \in Entry
  <2> SUFFICES ASSUME NEW i \in 1..m PROVE e[i] \in Entry
    OBVIOUS
  <2>1. i - 1 \in 0..m - 1 /\ (i - 1) + 1 = i
    BY <1>2
  <2> QED
    BY <1>7, <2>1
<1>9. h[0] \in Seq(Entry) /\ Len(h[0]) = m /\ \A i \in 1..m : h[0][i] = e[i]
  <2>1. \A k \in 0..m - 1 : h[k] = <<e[k + 1]>> \o h[k + 1]
    BY <1>7
  <2> HIDE DEF m
  <2>2. Unrolls(Entry, m, e, h)
    BY <1>2, <1>6, <1>8, <2>1 DEF Unrolls
  <2> QED
    BY <2>2, Unrolled
<1>10. h[0] = Entries(p)
  <2>1. 0 \in 0..m
    BY <1>2
  <2> QED
    BY <1>3, <1>5, <2>1 DEF h
<1> QED
  BY <1>9, <1>10 DEF e, Listed

(* ... and its value.                                                      *)
LEMMA ValueFound ==
    ASSUME NEW p, NEW t, NEW os, NEW tail, Laid(p, t, os, tail), NEW i \in 1..Len(os)
    PROVE  ValueOf(p, Entries(p)[i]) = os[i].value
<1> DEFINE a == SubSeq(os, 1, i - 1)
           o == os[i]
           b == SubSeq(os, i + 1, Len(os))
           at == Spot(t, a)
           lo == End(0, a)
           H == t \o Flat(0, a)
           R == Flat(o.number, b) \o tail
           d == o.number - lo
           v == o.value
           l == Len(v)
           N == SetHeader(d, l)
<1>1. Entries(p)[i] = TheOption(at, lo, o)
  BY EntriesFound DEF Listed
<1>2. a \in Seq(Item) /\ o \in Item /\ b \in Seq(Item) /\ os = (a \o <<o>>) \o b
  <2>1. os \in Seq(Item)
    BY DEF Laid, Run
  <2> QED
    BY <2>1, Split
<1> HIDE DEF a, o, b
<1>3. Around(p, t, tail, a, o, b)
  <2>1. Laid(p, t, (a \o <<o>>) \o b, tail)
    BY <1>2
  <2> QED
    BY <1>2, <2>1, LaidAround
<1>4. /\ lo \in 0..MaxOpt /\ lo <= o.number
      /\ H \in Seq(Byte) /\ Len(H) + 1 = at
      /\ R \in Seq(Byte) /\ p.buf = (H \o One(lo, o)) \o R
  BY <1>3 DEF Around
<1>5. v \in Seq(Byte) /\ l \in Nat /\ l <= LongestValue /\ d \in 0..MaxOpt
  BY <1>2, <1>4, ItemType, OneType, LenProperties
<1> HIDE DEF lo, H, R, at
<1>6. One(lo, o) = N \o v
  BY DEF One, Encode
<1>7. N \in Seq(Byte) /\ Len(N) = 1 + ExtensionSize(d) + ExtensionSize(l)
  <2> DEFINE f == <<First(d, l)>>
             x == Extension(d)
             y == Extension(l)
  <2>1. d \in Nat /\ d <= 65804 /\ l <= 65804
    BY <1>5, Limits
  <2>2. f \in Seq(Byte) /\ Len(f) = 1
    <3>1. First(d, l) \in Byte
      BY <1>5, <2>1, FirstType
    <3> QED
      BY <3>1
  <2>3. x \in Seq(Byte) /\ Len(x) = ExtensionSize(d) /\ y \in Seq(Byte) /\ Len(y) = ExtensionSize(l)
    BY <1>5, <2>1, ExtensionType
  <2>4. N = (f \o x) \o y
    BY DEF SetHeader
  <2> HIDE DEF f, x, y
  <2>5. f \o x \in Seq(Byte) /\ Len(f \o x) = Len(f) + Len(x)
    BY <2>2, <2>3, Cat
  <2>6. (f \o x) \o y \in Seq(Byte) /\ Len((f \o x) \o y) = Len(f \o x) + Len(y)
    BY <2>3, <2>5, Cat
  <2> QED
    BY <2>2, <2>3, <2>4, <2>5, <2>6
<1> HIDE DEF N, d, v, l
<1>8. EncodeSize(d, l) = Len(N) + l /\ Len(N) \in Nat
  <2>1. d \in Nat
    BY <1>5, MaxOptNat
  <2> QED
    BY <1>5, <1>7, <2>1 DEF EncodeSize, ExtensionSize
<1>9. H \o N \in Seq(Byte) /\ Len(H \o N) = Len(H) + Len(N) /\ Len(H) \in Nat
  BY <1>4, <1>7, Cat, LenProperties
<1>10. p.buf = ((H \o N) \o v) \o R
  <2>1. H \o (N \o v) = (H \o N) \o v
    BY <1>4, <1>5, <1>7, Glue
  <2> QED
    BY <1>4, <1>6, <2>1
<1>11. SubSeq(p.buf, Len(H \o N) + 1, Len(H \o N) + l) = v
  <2>1. SubSeq(((H \o N) \o v) \o R, Len(H \o N) + 1, Len(H \o N) + Len(v)) = v
    BY <1>4, <1>5, <1>9, Window
  <2> QED
    BY <1>10, <2>1 DEF l
<1>12. ValueOf(p, Entries(p)[i]) = SubSeq(p.buf, at + EncodeSize(d, l) - l,
                                               at + EncodeSize(d, l) - 1)
  <2>1. /\ Entries(p)[i].at = at /\ Entries(p)[i].length = l
        /\ Entries(p)[i].size = EncodeSize(d, l)
    BY <1>1 DEF TheOption, d, v, l
  <2> QED
    BY <2>1 DEF ValueOf
<1>13. /\ at + EncodeSize(d, l) - l = Len(H \o N) + 1
       /\ at + EncodeSize(d, l) - 1 = Len(H \o N) + l
  <2>1. \A h, k, j \in Nat : /\ (h + 1) + (k + j) - j = (h + k) + 1
                             /\ (h + 1) + (k + j) - 1 = (h + k) + j
    OBVIOUS
  <2>2. /\ (Len(H) + 1) + (Len(N) + l) - l = (Len(H) + Len(N)) + 1
        /\ (Len(H) + 1) + (Len(N) + l) - 1 = (Len(H) + Len(N)) + l
    BY <1>5, <1>8, <1>9, <2>1
  <2> QED
    BY <1>4, <1>8, <1>9, <2>2, Zenon
<1> QED
  BY <1>11, <1>12, <1>13 DEF v, o

-----------------------------------------------------------------------------
(* Room                                                                    *)

LEMMA SizesNat == MaxSize \in Nat /\ Chunk \in Nat \ {0}
  BY PduAssumption

LEMMA DoubledType ==
    ASSUME NEW alloc \in Nat, NEW size \in Nat
    PROVE  Doubled(alloc, size) \in 0..MaxSize
<1> DEFINE D == Nat \ {0}
           Step(f, n) == IF n >= size THEN n ELSE f[2 * n]
           Is(f) == f = [n \in D |-> Step(f, n)]
           first == IF 2 * alloc < Chunk THEN Chunk ELSE 2 * alloc
           double == CHOOSE f : Is(f)
           enough == double[first]
<1>1. \E f \in [D -> Nat] : Is(f)
  <2> DEFINE V == Nat
             rank == [n \in D |-> IF n >= size THEN 0 ELSE size - n]
             G == [f \in [D -> V] |-> [n \in D |-> Step(f, n)]]
             start == [n \in D |-> 0]
  <2>1. rank \in [D -> Nat] /\ start \in [D -> V]
    OBVIOUS
  <2>2. \A n \in D : 2 * n \in D
    OBVIOUS
  <2>3. G \in [[D -> V] -> [D -> V]]
    <3>1. ASSUME NEW f \in [D -> V], NEW n \in D PROVE Step(f, n) \in V
      <4>1. f[2 * n] \in V
        BY <2>2
      <4> QED
        BY <4>1
    <3> HIDE DEF D, V, Step
    <3> QED
      BY <3>1
  <2>4. Descends(D, V, rank, G)
    <3> SUFFICES ASSUME NEW f \in [D -> V], NEW g \in [D -> V], NEW n \in D,
                        \A e \in D : rank[e] < rank[n] => f[e] = g[e]
                 PROVE  G[f][n] = G[g][n]
      BY DEF Descends
    <3>1. G[f][n] = Step(f, n) /\ G[g][n] = Step(g, n)
      OBVIOUS
    <3>2. CASE n >= size
      BY <3>1, <3>2
    <3>3. CASE ~(n >= size)
      <4>1. 2 * n \in D /\ rank[2 * n] < rank[n]
        BY <3>3
      <4> QED
        BY <3>1, <3>3, <4>1
    <3> QED
      BY <3>2, <3>3
  <2> HIDE DEF rank, start
  <2>5. \E f \in [D -> V] : f = G[f]
    <3> HIDE DEF G, D, V, Step
    <3>1. Recursive(D, V, rank, G, start)
      BY <2>1, <2>3, <2>4 DEF Recursive
    <3> QED
      BY <3>1, Recursion
  <2>6. PICK f \in [D -> V] : f = G[f]
    BY <2>5
  <2>7. G[f] = [n \in D |-> Step(f, n)]
    OBVIOUS
  <2> QED
    BY <2>6, <2>7
<1>2. first \in D
  BY SizesNat
<1>3. Doubled(alloc, size) = IF enough > MaxSize THEN MaxSize ELSE enough
  BY DEF Doubled
<1>4. Is(double)
  <2> HIDE DEF Is, D
  <2> QED
    BY <1>1
<1> HIDE DEF double, first
<1>5. PICK f \in [D -> Nat] : Is(f)
  BY <1>1
<1>6. \A k \in Nat : \A n \in D : size - n <= k => double[n] = f[n]
  <2> DEFINE S == {k \in Nat : \A n \in D : size - n <= k => double[n] = f[n]}
  <2>1. \A n \in D : /\ double[n] = IF n >= size THEN n ELSE double[2 * n]
                     /\ f[n] = IF n >= size THEN n ELSE f[2 * n]
    BY <1>4, <1>5
  <2>2. 0 \in S
    <3> SUFFICES ASSUME NEW n \in D, size - n <= 0 PROVE double[n] = f[n]
      OBVIOUS
    <3>1. n >= size
      OBVIOUS
    <3> QED
      BY <2>1, <3>1
  <2>3. ASSUME NEW k \in Nat, k \in S PROVE k + 1 \in S
    <3> SUFFICES ASSUME NEW n \in D, size - n <= k + 1 PROVE double[n] = f[n]
      OBVIOUS
    <3>1. CASE n >= size
      BY <2>1, <3>1
    <3>2. CASE ~(n >= size)
      <4>1. 2 * n \in D /\ size - 2 * n <= k
        OBVIOUS
      <4>2. double[2 * n] = f[2 * n]
        BY <2>3, <4>1
      <4> QED
        BY <2>1, <3>2, <4>2
    <3> QED
      BY <3>1, <3>2
  <2> HIDE DEF S
  <2>4. \A k \in Nat : k \in S
    BY <2>2, <2>3, Induction
  <2> QED
    BY <2>4 DEF S
<1>7. enough \in Nat
  <2>1. size - first <= size
    BY <1>2
  <2>2. double[first] = f[first]
    BY <1>2, <1>6, <2>1
  <2> QED
    BY <1>2, <1>5, <2>2
<1> HIDE DEF enough
<1> QED
  BY <1>3, <1>7, SizesNat

(* Only how much is allocated differs, and what may still be.              *)
Same(p, q) ==
    /\ p \in PduType /\ q \in PduType
    /\ q.buf = p.buf /\ q.etok = p.etok /\ q.token = p.token
    /\ q.data = p.data /\ q.maxOpt = p.maxOpt

LEMMA Resized ==
    ASSUME NEW p \in PduType, NEW size \in Nat
    PROVE  /\ Same(p, Resize(p, size).pdu) /\ Resize(p, size).ok \in BOOLEAN
           /\ Resize(p, size).ok => Resize(p, size).pdu.alloc = size
           /\ ~Resize(p, size).ok => Resize(p, size).pdu = p
<1>1. p.alloc \in 0..MaxSize /\ p.memory \in Nat /\ MaxSize \in Nat
  BY SizesNat DEF PduType
<1>2. CASE size <= p.alloc
  <2>1. [p EXCEPT !.alloc = size] \in PduType
    BY <1>1, <1>2 DEF PduType
  <2> QED
    BY <1>2, <2>1 DEF Resize, Done, Same, PduType
<1>3. CASE ~(size <= p.alloc) /\ (size > MaxSize \/ p.memory = 0)
  BY <1>3 DEF Resize, Fail, Same
<1>4. CASE ~(size <= p.alloc) /\ ~(size > MaxSize \/ p.memory = 0)
  <2>1. size \in 0..MaxSize /\ p.memory - 1 \in Nat
    BY <1>1, <1>4
  <2>2. [p EXCEPT !.alloc = size, !.memory = @ - 1] \in PduType
    BY <2>1 DEF PduType
  <2> QED
    BY <1>4, <2>2 DEF Resize, Done, Same, PduType
<1> QED
  BY <1>2, <1>3, <1>4

LEMMA RoomChecked ==
    ASSUME NEW p \in PduType, NEW size \in Nat
    PROVE  /\ Same(p, CheckResize(p, size).pdu) /\ CheckResize(p, size).ok \in BOOLEAN
           /\ CheckResize(p, size).pdu.alloc >= p.alloc
           /\ CheckResize(p, size).ok => size <= CheckResize(p, size).pdu.alloc
           /\ ~CheckResize(p, size).ok => CheckResize(p, size).pdu = p
<1> DEFINE new == Doubled(p.alloc, size)
<1>1. p.alloc \in Nat /\ MaxSize \in Nat
  BY SizesNat DEF PduType
<1>2. new \in Nat
  <2>1. new \in 0..MaxSize
    BY <1>1, DoubledType
  <2> QED
    BY <1>1, <2>1
<1> HIDE DEF new
<1>3. CASE size <= p.alloc
  BY <1>1, <1>3 DEF CheckResize, Done, Same
<1>4. CASE ~(size <= p.alloc) /\ new < size
  BY <1>1, <1>4 DEF CheckResize, Fail, Same, new
<1>5. CASE ~(size <= p.alloc) /\ ~(new < size)
  <2>1. CheckResize(p, size) = Resize(p, new)
    BY <1>5 DEF CheckResize, new
  <2>2. /\ Same(p, Resize(p, new).pdu) /\ Resize(p, new).ok \in BOOLEAN
        /\ Resize(p, new).ok => Resize(p, new).pdu.alloc = new
        /\ ~Resize(p, new).ok => Resize(p, new).pdu = p
    BY <1>2, Resized
  <2>3. size <= new /\ p.alloc <= new
    BY <1>1, <1>2, <1>5
  <2> QED
    BY <1>1, <2>1, <2>2, <2>3
<1> QED
  BY <1>3, <1>4, <1>5

LEMMA LaidSame ==
    ASSUME NEW p, NEW q, NEW t, NEW os, NEW tail,
           Laid(p, t, os, tail), Same(p, q), Used(p) <= q.alloc
    PROVE  Laid(q, t, os, tail)
  BY DEF Laid, Same, Used

-----------------------------------------------------------------------------
(* Moving what is behind a place                                           *)

(* The buffer is h, m and r, and m is what goes.                           *)
Replaces(p, h, m, r, from, rest) ==
    /\ h \in Seq(Byte) /\ m \in Seq(Byte) /\ r \in Seq(Byte)
    /\ p.buf = (h \o m) \o r
    /\ from = Len(h) + 1 /\ rest = from + Len(m)

Shifted(p, h, m, new, r) ==
    [p EXCEPT !.buf = (h \o new) \o r,
              !.data = IF p.data = 0 THEN 0 ELSE p.data + Len(new) - Len(m)]

LEMMA Spliced ==
    ASSUME NEW p, NEW h, NEW m, NEW r, NEW new, NEW from, NEW rest,
           Replaces(p, h, m, r, from, rest)
    PROVE  Splice(p, from, new, rest) = Shifted(p, h, m, new, r)
<1> USE DEF Replaces
<1>1. /\ SubSeq(p.buf, 1, Len(h)) = h
      /\ SubSeq(p.buf, (Len(h) + Len(m)) + 1, Len(p.buf)) = r
  BY ThreeParts
<1>2. Len(h) \in Nat /\ Len(m) \in Nat
  BY LenProperties
<1>3. \A i, j \in Nat : (i + 1) - 1 = i /\ (i + 1) + j = (i + j) + 1 /\ ((i + 1) + j) - (i + 1) = j
  OBVIOUS
<1>4. /\ from - 1 = Len(h) /\ rest = (Len(h) + Len(m)) + 1
      /\ rest - from = Len(m)
  BY <1>2, <1>3
<1>5. SubSeq(p.buf, 1, from - 1) \o new \o SubSeq(p.buf, rest, Len(p.buf)) = (h \o new) \o r
  BY <1>1, <1>4
<1> QED
  BY <1>4, <1>5 DEF Splice, Shifted

(* Of the options behind x, whose bytes begin with m, others are made whose
   bytes begin with new.                                                   *)
Exchange(p, t, tail, x, z, y, m, new, r) ==
    /\ Laid(p, t, x \o z, tail)
    /\ x \in Seq(Item) /\ z \in Seq(Item) /\ y \in Seq(Item) /\ Run(0, x \o y)
    /\ m \in Seq(Byte) /\ new \in Seq(Byte) /\ r \in Seq(Byte)
    /\ Flat(End(0, x), z) = m \o r /\ Flat(End(0, x), y) = new \o r
    /\ Used(p) + Len(new) - Len(m) <= p.alloc

Moved(p, from, new, rest, maxOpt) ==
    [Splice(p, from, new, rest) EXCEPT !.maxOpt = maxOpt]

LEMMA Exchanged ==
    ASSUME NEW p, NEW t, NEW tail, NEW x, NEW z, NEW y, NEW m, NEW new, NEW r,
           Exchange(p, t, tail, x, z, y, m, new, r),
           NEW from, from = Spot(t, x), NEW rest, rest = from + Len(m)
    PROVE  Laid(Moved(p, from, new, rest, End(0, x \o y)), t, x \o y, tail)
<1> DEFINE X == Flat(0, x)
           h == t \o X
           s == r \o tail
           q == [Splice(p, from, new, rest) EXCEPT !.maxOpt = End(0, x \o y)]
           data == IF p.data = 0 THEN 0 ELSE p.data + Len(new) - Len(m)
<1>1. /\ p \in PduType /\ t \in Seq(Byte) /\ Len(t) = p.etok
      /\ Run(0, x \o z) /\ Run(0, x \o y)
      /\ tail \in Seq(Byte) /\ (tail = <<>> \/ (tail[1] = Marker /\ Len(tail) > 1))
      /\ p.buf = (t \o Flat(0, x \o z)) \o tail
      /\ p.data = IF tail = <<>> THEN 0 ELSE Len(t) + Len(Flat(0, x \o z)) + 1
      /\ Used(p) + Len(new) - Len(m) <= p.alloc
      /\ m \in Seq(Byte) /\ new \in Seq(Byte) /\ r \in Seq(Byte)
      /\ x \in Seq(Item) /\ z \in Seq(Item) /\ y \in Seq(Item)
      /\ Flat(End(0, x), z) = m \o r /\ Flat(End(0, x), y) = new \o r
  BY DEF Exchange, Laid
<1>2. Flat(0, x \o z) = X \o (m \o r) /\ Flat(0, x \o y) = X \o (new \o r)
  <2>1. x \in Seq(Item) /\ z \in Seq(Item) /\ Run(0, x \o z)
    BY <1>1
  <2>2. x \in Seq(Item) /\ y \in Seq(Item) /\ Run(0, x \o y)
    BY <1>1
  <2>3. Flat(0, x \o z) = X \o Flat(End(0, x), z)
    BY <2>1, FlatConcat
  <2>4. Flat(0, x \o y) = X \o Flat(End(0, x), y)
    BY <2>2, FlatConcat
  <2> QED
    BY <1>1, <2>3, <2>4
<1>3. X \in Seq(Byte)
  <2>1. Run(0, x)
    BY <1>1, RunOf
  <2> QED
    BY <2>1, FlatType
<1>4. from = Len(t) + Len(X) + 1
  BY DEF Spot
<1> HIDE DEF X
<1>5. \A b \in Seq(Byte) : /\ X \o (b \o r) \in Seq(Byte)
                           /\ Len(X \o (b \o r)) = Len(X) + (Len(b) + Len(r))
                           /\ (t \o (X \o (b \o r))) \o tail = (h \o b) \o s
                           /\ Len((h \o b) \o s) = Len(h) + Len(b) + Len(s)
                           /\ (h \o b) \o s \in Seq(Byte)
  <2> SUFFICES ASSUME NEW b \in Seq(Byte)
               PROVE  /\ X \o (b \o r) \in Seq(Byte)
                      /\ Len(X \o (b \o r)) = Len(X) + (Len(b) + Len(r))
                      /\ (t \o (X \o (b \o r))) \o tail = (h \o b) \o s
                      /\ Len((h \o b) \o s) = Len(h) + Len(b) + Len(s)
                      /\ (h \o b) \o s \in Seq(Byte)
    OBVIOUS
  <2>1. b \o r \in Seq(Byte) /\ Len(b \o r) = Len(b) + Len(r)
    BY <1>1, Cat
  <2>2. X \o (b \o r) \in Seq(Byte) /\ Len(X \o (b \o r)) = Len(X) + Len(b \o r)
    BY <1>3, <2>1, Cat
  <2>3. h \in Seq(Byte) /\ s \in Seq(Byte)
    BY <1>1, <1>3, Cat
  <2>4. h \o b \in Seq(Byte) /\ Len(h \o b) = Len(h) + Len(b)
    <3> HIDE DEF h
    <3> QED
      BY <2>3, Cat
  <2>5. (h \o b) \o s \in Seq(Byte) /\ Len((h \o b) \o s) = Len(h \o b) + Len(s)
    <3> HIDE DEF h, s
    <3> QED
      BY <2>3, <2>4, Cat
  <2>6. t \o (X \o (b \o r)) = h \o (b \o r)
    <3>1. t \in Seq(Byte) /\ X \in Seq(Byte) /\ b \o r \in Seq(Byte)
      BY <1>1, <1>3, <2>1
    <3> QED
      BY <3>1, Glue
  <2>7. (h \o (b \o r)) \o tail = h \o ((b \o r) \o tail)
    <3> HIDE DEF h
    <3>1. h \in Seq(Byte) /\ b \o r \in Seq(Byte) /\ tail \in Seq(Byte)
      BY <1>1, <2>1, <2>3
    <3> QED
      BY <3>1, Glue, SMTT(30)
  <2>8. (b \o r) \o tail = b \o s
    BY <1>1, Glue
  <2>9. h \o (b \o s) = (h \o b) \o s
    <3> HIDE DEF h, s
    <3> QED
      BY <2>3, Glue
  <2> HIDE DEF h, s
  <2> QED
    BY <2>1, <2>2, <2>4, <2>5, <2>6, <2>7, <2>8, <2>9
<1>6. h \in Seq(Byte) /\ s \in Seq(Byte) /\ Len(h) = Len(t) + Len(X)
  BY <1>1, <1>3, Cat
<1>7. /\ Len(t) \in Nat /\ Len(X) \in Nat /\ Len(m) \in Nat /\ Len(new) \in Nat
      /\ Len(r) \in Nat /\ Len(h) \in Nat /\ Len(s) \in Nat /\ Len(tail) \in Nat
  <2> HIDE DEF h, s
  <2> QED
    BY <1>1, <1>3, <1>6, LenProperties
<1> HIDE DEF h, s
<1>8. p.buf = (h \o m) \o s
  BY <1>1, <1>2, <1>5
<1>9. Splice(p, from, new, rest) = [p EXCEPT !.buf = (h \o new) \o s, !.data = data]
  <2>1. from = Len(h) + 1
    BY <1>4, <1>6
  <2>2. /\ h \in Seq(Byte) /\ m \in Seq(Byte) /\ s \in Seq(Byte) /\ new \in Seq(Byte)
        /\ p.buf = (h \o m) \o s
    BY <1>1, <1>6, <1>8
  <2>3. Splice(p, from, new, rest) = Shifted(p, h, m, new, s)
    <3>1. Replaces(p, h, m, s, from, rest)
      BY <2>1, <2>2 DEF Replaces
    <3> QED
      BY <3>1, Spliced
  <2> QED
    BY <2>3 DEF Shifted
<1>10. data = IF tail = <<>> THEN 0 ELSE Len(t) + Len(Flat(0, x \o y)) + 1
  <2>1. Len(X \o (m \o r)) = Len(X) + (Len(m) + Len(r))
    BY <1>1, <1>5
  <2>2. Len(X \o (new \o r)) = Len(X) + (Len(new) + Len(r))
    BY <1>1, <1>5
  <2>3. p.data = IF tail = <<>> THEN 0 ELSE Len(t) + (Len(X) + (Len(m) + Len(r))) + 1
    BY <1>1, <1>2, <2>1
  <2>4. data = IF tail = <<>> THEN 0 ELSE Len(t) + (Len(X) + (Len(new) + Len(r))) + 1
    <3>1. CASE tail = <<>>
      BY <2>3, <3>1
    <3>2. CASE tail # <<>>
      <4> DEFINE i == Len(t)
                 j == Len(X)
                 k == Len(m)
                 l == Len(r)
                 n == Len(new)
      <4>1. i \in Nat /\ j \in Nat /\ k \in Nat /\ l \in Nat /\ n \in Nat
        BY <1>7
      <4>2. p.data = i + (j + (k + l)) + 1
        BY <2>3, <3>2
      <4>3. data = IF p.data = 0 THEN 0 ELSE p.data + n - k
        OBVIOUS
      <4> HIDE DEF i, j, k, l, n, data
      <4>4. data = i + (j + (n + l)) + 1
        BY <4>1, <4>2, <4>3
      <4> QED
        BY <3>2, <4>4 DEF i, j, k, l, n
    <3> QED
      BY <3>1, <3>2
  <2> QED
    BY <1>2, <2>2, <2>4
<1>11. data \in Nat
  <2>1. Len(Flat(0, x \o y)) \in Nat
    BY <1>1, FlatType
  <2> QED
    BY <1>7, <1>10, <2>1
<1>12. /\ (h \o new) \o s \in Seq(Byte)
       /\ Len((h \o new) \o s) = Used(p) + Len(new) - Len(m)
  <2>1. /\ (h \o new) \o s \in Seq(Byte)
        /\ Len((h \o new) \o s) = Len(h) + Len(new) + Len(s)
        /\ Len((h \o m) \o s) = Len(h) + Len(m) + Len(s)
    BY <1>1, <1>5
  <2> QED
    BY <1>7, <1>8, <2>1 DEF Used
<1>13. End(0, x \o y) \in 0..MaxOpt
  BY <1>1, EndType
<1>14. (h \o new) \o s = (t \o Flat(0, x \o y)) \o tail
  BY <1>1, <1>2, <1>5
<1> DEFINE B == (h \o new) \o s
           F == Flat(0, x \o y)
           e == End(0, x \o y)
<1>15. q = [p EXCEPT !.buf = B, !.data = data, !.maxOpt = e]
  BY <1>9
<1>16. B \in Seq(Byte) /\ data \in Nat /\ e \in 0..MaxOpt /\ Len(B) <= p.alloc
  BY <1>1, <1>11, <1>12, <1>13
<1> HIDE DEF B, data, e, q
<1>17. /\ q \in PduType /\ q.buf = B /\ q.data = data /\ q.maxOpt = e
       /\ q.etok = p.etok /\ q.alloc = p.alloc
  BY <1>1, <1>15, <1>16 DEF PduType
<1>18. Laid(q, t, x \o y, tail)
  BY <1>1, <1>10, <1>14, <1>16, <1>17 DEF Laid, Used, B, e
<1> QED
  BY <1>18 DEF q, Moved

(* ... and max_opt is right as it is.                                      *)
LEMMA ExchangedInside ==
    ASSUME NEW p, NEW t, NEW tail, NEW x, NEW z, NEW y, NEW m, NEW new, NEW r,
           Exchange(p, t, tail, x, z, y, m, new, r), End(0, x \o y) = End(0, x \o z),
           NEW from, from = Spot(t, x), NEW rest, rest = from + Len(m)
    PROVE  Laid(Splice(p, from, new, rest), t, x \o y, tail)
<1> DEFINE e == End(0, x \o y)
<1>1. Laid(Moved(p, from, new, rest, e), t, x \o y, tail)
  BY Exchanged
<1>2. p \in PduType /\ p.maxOpt = e
  BY DEF Exchange, Laid
<1> HIDE DEF e
<1>3. Moved(p, from, new, rest, e) = Splice(p, from, new, rest)
  BY <1>2 DEF Moved, Splice, PduType
<1> QED
  BY <1>1, <1>3

-----------------------------------------------------------------------------
(* One option in front of others                                           *)

LEMMA RunCons ==
    ASSUME NEW lo \in 0..MaxOpt, NEW o \in Item, lo <= o.number, NEW z, Run(o.number, z)
    PROVE  Run(lo, <<o>> \o z)
<1>1. <<o>> \in Seq(Item) /\ z \in Seq(Item)
  BY DEF Run
<1>2. Run(lo, <<o>>) /\ End(lo, <<o>>) = o.number
  BY RunOne
<1> QED
  BY <1>1, <1>2, RunOf

LEMMA FlatCons ==
    ASSUME NEW lo, NEW o \in Item, NEW z \in Seq(Item), Run(lo, <<o>> \o z)
    PROVE  /\ lo \in 0..MaxOpt /\ lo <= o.number /\ Run(o.number, z)
           /\ Flat(lo, <<o>> \o z) = One(lo, o) \o Flat(o.number, z)
           /\ End(lo, <<o>> \o z) = End(o.number, z)
<1>1. <<o>> \in Seq(Item) /\ Len(<<o>>) = 1 /\ <<o>>[1] = o
  OBVIOUS
<1>2. Run(lo, <<o>>) /\ Run(End(lo, <<o>>), z)
  BY <1>1, RunOf
<1>3. lo \in 0..MaxOpt
  BY <1>2 DEF Run
<1>4. lo <= o.number
  <2>1. 1 \in 1..Len(<<o>>)
    BY <1>1
  <2>2. Before(lo, <<o>>, 1) <= <<o>>[1].number
    BY <1>2, <2>1, RunType
  <2> QED
    BY <1>1, <2>2 DEF Before
<1>5. End(lo, <<o>>) = o.number /\ Flat(lo, <<o>>) = One(lo, o)
  BY <1>3, <1>4, RunOne, FlatOne
<1>6. Flat(lo, <<o>> \o z) = Flat(lo, <<o>>) \o Flat(End(lo, <<o>>), z)
  BY <1>1, FlatConcat
<1>7. End(lo, <<o>> \o z) = End(End(lo, <<o>>), z)
  BY <1>1, EndOf
<1> QED
  BY <1>2, <1>3, <1>4, <1>5, <1>6, <1>7

-----------------------------------------------------------------------------
(* What every call keeps: the message is laid out as it should be, and the
   token is what it was.                                                   *)
Good(p) == \E t, os, tail : Laid(p, t, os, tail)

(* What is in front of the options.                                        *)
TokenPart(p) == SubSeq(p.buf, 1, p.etok)

Keeps(p, q) == /\ Good(q) /\ q.etok = p.etok /\ q.token = p.token
               /\ TokenPart(q) = TokenPart(p)

LEMMA GoodKeeps == \A p : Good(p) => Keeps(p, p)
  BY DEF Keeps

LEMMA LaidToken ==
    ASSUME NEW p, NEW t, NEW os, NEW tail, Laid(p, t, os, tail)
    PROVE  TokenPart(p) = t
<1> DEFINE F == Flat(0, os)
           rest == F \o tail
<1>1. /\ t \in Seq(Byte) /\ Len(t) = p.etok /\ F \in Seq(Byte) /\ tail \in Seq(Byte)
      /\ p.buf = (t \o F) \o tail
  BY FlatType DEF Laid
<1> HIDE DEF F
<1>2. rest \in Seq(Byte) /\ p.buf = t \o rest
  BY <1>1, Cat, Glue
<1> HIDE DEF rest
<1>3. <<>> \in Seq(Byte) /\ <<>> \o t = t /\ Len(<<>>) = 0 /\ Len(t) \in Nat
  BY <1>1, EmptySeq, ConcatEmptySeq, LenProperties
<1>4. SubSeq((<<>> \o t) \o rest, Len(<<>>) + 1, Len(<<>>) + Len(t)) = t
  BY <1>1, <1>2, <1>3, Window
<1>5. Len(<<>>) + 1 = 1 /\ Len(<<>>) + Len(t) = p.etok
  BY <1>1, <1>3
<1> QED
  BY <1>2, <1>3, <1>4, <1>5 DEF TokenPart

(* Another message behind the same token.                                  *)
LEMMA LaidKeeps ==
    ASSUME NEW p, NEW q, NEW t, NEW os, NEW tail, NEW us, NEW end,
           Laid(p, t, os, tail), Laid(q, t, us, end), q.token = p.token
    PROVE  Keeps(p, q)
<1>1. TokenPart(p) = t /\ TokenPart(q) = t
  BY LaidToken
<1>2. q.etok = p.etok
  BY DEF Laid
<1> QED
  BY <1>1, <1>2 DEF Keeps, Good

LEMMA AddAtEndKeeps ==
    ASSUME NEW p, Good(p), NEW o \in Item, p.maxOpt <= o.number
    PROVE  Keeps(p, AddAtEnd(p, o.number, o.value).pdu)
<1>1. PICK t, os, tail : Laid(p, t, os, tail)
  BY DEF Good
<1> DEFINE n == o.number
           v == o.value
           e == EncodeSize(n - p.maxOpt, Len(v))
           c == CheckResize(p, Used(p) + e)
           r == c.pdu
           end == IF p.data = 0 THEN Used(p) + 1 ELSE p.data
           q == Moved(r, end, Encode(n - p.maxOpt, v), end, n)
<1>2. /\ p \in PduType /\ t \in Seq(Byte) /\ Run(0, os) /\ os \in Seq(Item)
      /\ tail \in Seq(Byte) /\ p.maxOpt = End(0, os)
      /\ p.buf = (t \o Flat(0, os)) \o tail
      /\ p.data = IF tail = <<>> THEN 0 ELSE Len(t) + Len(Flat(0, os)) + 1
  BY <1>1 DEF Laid, Run
<1>3. p.maxOpt \in 0..MaxOpt /\ n \in 0..MaxOpt
  BY <1>2, EndType, ItemType
<1>4. /\ One(p.maxOpt, o) \in Seq(Byte) /\ Len(One(p.maxOpt, o)) = e
      /\ e \in Nat
  BY <1>3, OneType
<1>5. Used(p) \in Nat
  BY <1>2, LenProperties DEF PduType, Used
<1>6. AddAtEnd(p, n, v).pdu = IF ~c.ok THEN p ELSE q
  BY DEF AddAtEnd, Fail, Done, Moved
<1> HIDE DEF e
<1>7. /\ Same(p, r) /\ c.ok \in BOOLEAN /\ (c.ok => Used(p) + e <= r.alloc)
  <2>1. Used(p) + e \in Nat
    BY <1>4, <1>5
  <2> QED
    BY <1>2, <2>1, RoomChecked
<1> HIDE DEF c
<1>8. CASE ~c.ok
  BY <1>6, <1>8, GoodKeeps
<1>9. CASE c.ok
  <2> DEFINE x == os
             y == <<o>>
             new == One(p.maxOpt, o)
  <2>1. y \in Seq(Item) /\ x \o <<>> = x /\ <<>> \in Seq(Item) /\ <<>> \in Seq(Byte)
    BY <1>2, ConcatEmptySeq, EmptySeq
  <2>2. Laid(r, t, x \o <<>>, tail)
    <3>1. Used(p) <= r.alloc
      BY <1>4, <1>5, <1>7, <1>9 DEF Same, PduType
    <3> QED
      BY <1>1, <1>7, <2>1, <3>1, LaidSame
  <2>3. Run(p.maxOpt, y) /\ End(p.maxOpt, y) = n
    BY <1>3, RunOne
  <2>4. Run(0, x \o y) /\ End(0, x \o y) = n
    <3>1. x \in Seq(Item) /\ y \in Seq(Item) /\ Run(End(0, x), y)
      BY <1>2, <2>1, <2>3
    <3>2. Run(0, x \o y)
      BY <1>2, <3>1, RunOf
    <3>3. End(0, x \o y) = End(End(0, x), y)
      BY <3>1, EndOf
    <3> QED
      BY <1>2, <2>3, <3>2, <3>3
  <2>5. Flat(End(0, x), <<>>) = <<>> \o <<>>
    <3>1. <<>> \o <<>> = <<>>
      BY <2>1, ConcatEmptySeq
    <3> QED
      BY <1>2, <1>3, <3>1, FlatEmpty
  <2>6. Flat(End(0, x), y) = new \o <<>>
    <3>1. new \o <<>> = new
      BY <1>4, ConcatEmptySeq
    <3> QED
      BY <1>2, <1>3, <3>1, FlatOne
  <2>7. Used(r) + Len(new) - Len(<<>>) <= r.alloc
    <3>1. Used(r) = Used(p) /\ Len(<<>>) = 0
      BY <1>7, EmptySeq DEF Same, Used
    <3> QED
      BY <1>4, <1>5, <1>7, <1>9, <3>1
  <2>8. Exchange(r, t, tail, x, <<>>, y, <<>>, new, <<>>)
    BY <1>2, <1>4, <2>1, <2>2, <2>4, <2>5, <2>6, <2>7 DEF Exchange
  <2>9. end = Spot(t, x) /\ end = end + Len(<<>>)
    <3> DEFINE F == Flat(0, os)
    <3>1. F \in Seq(Byte)
      BY <1>2, FlatType
    <3>2. /\ Len(F) \in Nat /\ Len(t) \in Nat /\ Len(tail) \in Nat /\ Len(<<>>) = 0
          /\ tail = <<>> => Len(tail) = 0
      BY <1>2, <3>1, LenProperties, EmptySeq
    <3> HIDE DEF F
    <3>3. Used(p) = (Len(t) + Len(F)) + Len(tail)
      BY <1>2, <3>1, ThreeParts DEF Used, F
    <3>4. p.data = IF tail = <<>> THEN 0 ELSE Len(t) + Len(F) + 1
      BY <1>2 DEF F
    <3>5. end = Len(t) + Len(F) + 1
      BY <3>2, <3>3, <3>4
    <3> QED
      BY <3>2, <3>5 DEF Spot, F
  <2> HIDE DEF end
  <2>10. Laid(Moved(r, end, new, end, n), t, x \o y, tail)
    BY <2>4, <2>8, <2>9, Exchanged
  <2>11. Encode(n - p.maxOpt, v) = new
    BY DEF One
  <2>12. Laid(q, t, x \o y, tail)
    BY <2>10, <2>11
  <2>13. q.etok = p.etok /\ q.token = p.token
    BY <1>7 DEF Moved, Splice, Same, PduType
  <2> QED
    BY <1>1, <1>6, <1>9, <2>12, <2>13, LaidKeeps
<1> QED
  BY <1>7, <1>8, <1>9

(* The option y of a message, between x and w.                             *)
Inside(p, t, tail, x, y, w) ==
    /\ x \in Seq(Item) /\ y \in Item /\ w \in Seq(Item)
    /\ Laid(p, t, x \o (<<y>> \o w), tail)

LEMMA InsideParts ==
    ASSUME NEW p, NEW t, NEW tail, NEW x, NEW y, NEW w, Inside(p, t, tail, x, y, w)
    PROVE  /\ Laid(p, t, (x \o <<y>>) \o w, tail)
           /\ End(0, x) \in 0..MaxOpt /\ y.number \in 0..MaxOpt /\ End(0, x) <= y.number
           /\ Run(0, x) /\ Run(End(0, x), <<y>> \o w) /\ Run(y.number, w)
           /\ <<y>> \o w \in Seq(Item)
           /\ Around(p, t, tail, x, y, w) /\ Stepped(p, t, x, y)
<1>1. x \in Seq(Item) /\ y \in Item /\ w \in Seq(Item) /\ <<y>> \in Seq(Item)
  BY DEF Inside
<1>2. (x \o <<y>>) \o w = x \o (<<y>> \o w)
  BY <1>1, ConcatAssociative
<1>3. Laid(p, t, (x \o <<y>>) \o w, tail)
  BY <1>2 DEF Inside
<1>4. Around(p, t, tail, x, y, w)
  BY <1>1, <1>3, LaidAround
<1>5. Stepped(p, t, x, y)
  BY <1>1, <1>3, WalkStep
<1>6. <<y>> \o w \in Seq(Item)
  BY <1>1, ConcatProperties
<1>7. Run(0, x \o (<<y>> \o w))
  BY DEF Inside, Laid
<1>8. Run(End(0, x), <<y>> \o w)
  BY <1>1, <1>6, <1>7, RunOf
<1>9. y.number \in 0..MaxOpt
  BY <1>1, ItemType
<1> QED
  BY <1>3, <1>4, <1>5, <1>6, <1>8, <1>9 DEF Around

(* The first byte and the extension of what goes and comes.                *)
LEMMA ExtensionGrows ==
    ASSUME NEW d \in Nat, NEW e \in Nat, d <= e
    PROVE  ExtensionSize(d) <= ExtensionSize(e)
  BY DEF ExtensionSize

(* In front of y.                                                          *)
LEMMA PutBeforeKeeps ==
    ASSUME NEW p, NEW t, NEW tail, NEW x, NEW y, NEW w, Inside(p, t, tail, x, y, w),
           NEW o \in Item, End(0, x) <= o.number, o.number <= y.number
    PROVE  Keeps(p, PutBefore(p, TheOption(Spot(t, x), End(0, x), y), o.number, o.value).pdu)
<1> DEFINE lo == End(0, x)
           at == Spot(t, x)
           next == TheOption(at, lo, y)
           n == o.number
           k == y.number
           l == Len(y.value)
           e == EncodeSize(n - lo, Len(o.value))
           c == CheckResize(p, Used(p) + e)
           r == c.pdu
           new == One(lo, o) \o Top(n, y)
           z == <<y>> \o w
           F == Flat(k, w)
           R == Bottom(y) \o F
<1>0. x \in Seq(Item) /\ y \in Item /\ w \in Seq(Item) /\ Laid(p, t, x \o z, tail)
  BY DEF Inside
<1>1. /\ lo \in 0..MaxOpt /\ k \in 0..MaxOpt /\ lo <= k
      /\ Run(0, x) /\ Run(lo, z) /\ Run(k, w) /\ z \in Seq(Item)
      /\ Around(p, t, tail, x, y, w) /\ Stepped(p, t, x, y)
  BY InsideParts
<1>2. n \in 0..MaxOpt /\ lo <= n /\ n <= k
  BY ItemType
<1>3. p \in PduType /\ Used(p) \in Nat
  BY <1>0, LenProperties DEF Laid, PduType, Used
<1>4. One(lo, o) \in Seq(Byte) /\ Len(One(lo, o)) = e /\ e \in Nat /\ n - lo \in 0..MaxOpt
  BY <1>1, <1>2, OneType
<1>5. /\ Top(lo, y) \in Seq(Byte) /\ Len(Top(lo, y)) = 1 + ExtensionSize(k - lo)
      /\ One(lo, y) = Top(lo, y) \o Bottom(y) /\ Bottom(y) \in Seq(Byte)
  BY <1>0, <1>1, OneParts
<1>6. /\ Top(n, y) \in Seq(Byte) /\ Len(Top(n, y)) = 1 + ExtensionSize(k - n)
      /\ One(n, y) = Top(n, y) \o Bottom(y)
  BY <1>0, <1>2, OneParts
<1>7. next.at = at /\ next.number = k /\ next.delta = k - lo
  BY DEF TheOption
<1>8. n - (next.number - next.delta) = n - lo /\ next.number - n = k - n
  <2>1. \A i, j \in Int : i - (i - j) = j
    OBVIOUS
  <2> QED
    BY <1>1, <1>2, <1>7, <2>1, MaxOptNat
<1>9. Lowered(p.buf[next.at], next.delta, next.number - n) = Top(n, y)
  <2>1. p.buf[at] = First(k - lo, l)
    BY <1>1 DEF Stepped
  <2>2. k - lo \in Nat /\ k - n \in Nat /\ k - n <= k - lo /\ l \in Nat
    <3>1. y.value \in Seq(Byte)
      BY <1>0, ItemType
    <3> QED
      BY <1>1, <1>2, <3>1, MaxOptNat, LenProperties
  <2>3. Lowered(First(k - lo, l), k - lo, k - n) = <<First(k - n, l)>> \o Extension(k - n)
    <3> HIDE DEF k, lo, n, l
    <3> QED
      BY <2>2, LoweredIsWritten
  <2> QED
    BY <1>7, <1>8, <2>1, <2>3 DEF Top
<1>10. Encode(n - lo, o.value) = One(lo, o)
  BY DEF One
<1> DEFINE rest == at + 1 + ExtensionSize(k - lo)
           q == Splice(r, at, new, rest)
<1>11. PutBefore(p, next, n, o.value).pdu = IF ~c.ok THEN p ELSE q
  <2> HIDE DEF next
  <2> QED
    BY <1>7, <1>8, <1>9, <1>10 DEF PutBefore, Fail, Done
<1>12. /\ Same(p, r) /\ c.ok \in BOOLEAN /\ (c.ok => Used(p) + e <= r.alloc)
  <2>1. Used(p) + e \in Nat
    BY <1>3, <1>4
  <2> HIDE DEF e
  <2> QED
    BY <1>3, <2>1, RoomChecked
<1> HIDE DEF c, e, next
<1>13. CASE ~c.ok
  BY <1>0, <1>11, <1>13, LaidKeeps DEF next
<1>14. CASE c.ok
  <2>1. F \in Seq(Byte) /\ R \in Seq(Byte)
    <3>1. F \in Seq(Byte)
      BY <1>1, FlatType
    <3> HIDE DEF F
    <3> QED
      BY <1>5, <3>1, Cat
  <2>2. Run(n, z) /\ Run(lo, <<o>> \o z) /\ <<o>> \o z \in Seq(Item)
    <3>1. Run(n, z)
      BY <1>0, <1>1, <1>2, RunCons
    <3>2. Run(lo, <<o>> \o z)
      BY <1>1, <1>2, <3>1, RunCons
    <3> QED
      BY <3>1, <3>2 DEF Run
  <2>3. Flat(lo, z) = One(lo, y) \o F /\ End(lo, z) = End(k, w)
    BY <1>0, <1>1, FlatCons
  <2>4. Flat(n, z) = One(n, y) \o F /\ End(n, z) = End(k, w)
    BY <1>0, <2>2, FlatCons
  <2>5. Flat(lo, <<o>> \o z) = One(lo, o) \o Flat(n, z) /\ End(lo, <<o>> \o z) = End(n, z)
    <3> HIDE DEF z
    <3> QED
      BY <1>1, <2>2, FlatCons
  <2> DEFINE Y == <<o>> \o z
  <2> HIDE DEF F
  <2>6. Flat(lo, z) = Top(lo, y) \o R
    <3>1. Top(lo, y) \in Seq(Byte) /\ Bottom(y) \in Seq(Byte) /\ F \in Seq(Byte)
      BY <1>5, <2>1
    <3>2. (Top(lo, y) \o Bottom(y)) \o F = Top(lo, y) \o (Bottom(y) \o F)
      BY <3>1, Glue
    <3> QED
      BY <1>5, <2>3, <3>2
  <2>7. Flat(n, z) = Top(n, y) \o R
    <3>1. Top(n, y) \in Seq(Byte) /\ Bottom(y) \in Seq(Byte) /\ F \in Seq(Byte)
      BY <1>5, <1>6, <2>1
    <3>2. (Top(n, y) \o Bottom(y)) \o F = Top(n, y) \o (Bottom(y) \o F)
      BY <3>1, Glue
    <3> QED
      BY <1>6, <2>4, <3>2
  <2> HIDE DEF R
  <2>8. Flat(lo, Y) = new \o R
    <3>1. One(lo, o) \in Seq(Byte) /\ Top(n, y) \in Seq(Byte) /\ R \in Seq(Byte)
      BY <1>4, <1>6, <2>1
    <3>2. (One(lo, o) \o Top(n, y)) \o R = One(lo, o) \o (Top(n, y) \o R)
      BY <3>1, Glue
    <3> QED
      BY <2>5, <2>7, <3>2
  <2>9. new \in Seq(Byte) /\ Len(new) = Len(One(lo, o)) + Len(Top(n, y))
    BY <1>4, <1>6, Cat
  <2>10. Run(0, x \o Y) /\ End(0, x \o Y) = End(0, x \o z)
    <3> HIDE DEF z
    <3>1. Run(lo, Y) /\ Y \in Seq(Item)
      BY <2>2
    <3>2. End(0, x \o Y) = End(lo, Y) /\ End(0, x \o z) = End(lo, z)
      BY <1>0, <1>1, <3>1, EndOf, ZenonT(60)
    <3>3. Run(0, x \o Y)
      BY <1>0, <1>1, <3>1, RunOf
    <3> QED
      BY <2>3, <2>4, <2>5, <3>2, <3>3
  <2>11. Used(r) + Len(new) - Len(Top(lo, y)) <= r.alloc
    <3>1. Used(r) = Used(p)
      BY <1>12 DEF Same, Used
    <3>2. k - lo \in Nat /\ k - n \in Nat /\ k - n <= k - lo
      BY <1>1, <1>2, MaxOptNat
    <3> DEFINE i == ExtensionSize(k - n)
               j == ExtensionSize(k - lo)
    <3>3. i \in Nat /\ j \in Nat /\ i <= j
      <4> HIDE DEF k, n, lo
      <4> QED
        BY <3>2, ExtensionGrows DEF ExtensionSize
    <3>4. r.alloc \in Nat
      BY <1>12, SizesNat DEF Same, PduType
    <3>5. Len(new) = e + (1 + i) /\ Len(Top(lo, y)) = 1 + j
      BY <1>4, <1>5, <1>6, <2>9
    <3>6. Used(p) + e <= r.alloc
      BY <1>12, <1>14
    <3> HIDE DEF i, j, new, k, n, lo, r
    <3> QED
      BY <1>3, <1>4, <3>1, <3>3, <3>4, <3>5, <3>6
  <2>12. Laid(r, t, x \o z, tail)
    <3>1. Used(p) <= r.alloc
      BY <1>3, <1>4, <1>12, <1>14, SizesNat DEF Same, PduType
    <3> QED
      BY <1>0, <1>12, <3>1, LaidSame
  <2>13. Exchange(r, t, tail, x, z, Y, Top(lo, y), new, R)
    <3> HIDE DEF z, new
    <3> QED
      BY <1>0, <1>1, <1>5, <2>1, <2>2, <2>6, <2>8, <2>9, <2>10, <2>11, <2>12 DEF Exchange
  <2>14. rest = at + Len(Top(lo, y))
    <3>1. at \in Nat
      <4>1. Flat(0, x) \in Seq(Byte)
        BY <1>1, FlatType
      <4>2. t \in Seq(Byte)
        BY <1>0 DEF Laid
      <4> QED
        BY <4>1, <4>2, LenProperties DEF Spot
    <3>2. ExtensionSize(k - lo) \in Nat
      BY DEF ExtensionSize
    <3> HIDE DEF at, k, lo
    <3> QED
      BY <1>5, <3>1, <3>2
  <2>15. Laid(q, t, x \o Y, tail)
    <3> HIDE DEF rest, z, new, Y, R
    <3> QED
      BY <2>10, <2>13, <2>14, ExchangedInside
  <2>16. q.etok = p.etok /\ q.token = p.token
    BY <1>12 DEF Splice, Same, PduType
  <2> QED
    BY <1>0, <1>11, <1>14, <2>15, <2>16, LaidKeeps DEF next
<1> QED
  BY <1>12, <1>13, <1>14

-----------------------------------------------------------------------------
(* Looking for an option                                                   *)

LEMMA MinIs ==
    ASSUME NEW S \in SUBSET Nat, S # {}
    PROVE  Min(S) \in S /\ \A k \in S : Min(S) <= k
<1>1. \E m \in S : \A k \in S : m <= k
  BY LeastNatural
<1> QED
  BY <1>1 DEF Min

(* What is at an index, and in front of it.                                *)
AtIndex(p, t, os, tail, i) ==
    /\ Inside(p, t, tail, SubSeq(os, 1, i - 1), os[i], SubSeq(os, i + 1, Len(os)))
    /\ os = SubSeq(os, 1, i - 1) \o (<<os[i]>> \o SubSeq(os, i + 1, Len(os)))
    /\ Len(SubSeq(os, 1, i - 1)) = i - 1 /\ Len(SubSeq(os, i + 1, Len(os))) = Len(os) - i
    /\ Entries(p)[i] = TheOption(Spot(t, SubSeq(os, 1, i - 1)),
                                 End(0, SubSeq(os, 1, i - 1)), os[i])
    /\ End(0, SubSeq(os, 1, i - 1)) = Before(0, os, i)
    /\ Entries(p)[i].number = os[i].number
    /\ os[i].number \in 0..MaxOpt

LEMMA IndexIs ==
    ASSUME NEW p, NEW t, NEW os, NEW tail, Laid(p, t, os, tail), NEW i \in 1..Len(os)
    PROVE  AtIndex(p, t, os, tail, i)
<1> DEFINE x == SubSeq(os, 1, i - 1)
           y == os[i]
           w == SubSeq(os, i + 1, Len(os))
<1>1. os \in Seq(Item)
  BY DEF Laid, Run
<1>2. /\ x \in Seq(Item) /\ Len(x) = i - 1 /\ y \in Item /\ w \in Seq(Item)
      /\ Len(w) = Len(os) - i /\ os = (x \o <<y>>) \o w
  BY <1>1, Split
<1>3. Entries(p)[i] = TheOption(Spot(t, x), End(0, x), y)
  BY EntriesFound DEF Listed
<1> HIDE DEF x, y, w
<1>4. <<y>> \in Seq(Item) /\ Len(<<y>>) = 1
  BY <1>2
<1>5. os = x \o (<<y>> \o w)
  BY <1>2, <1>4, ConcatAssociative
<1>6. Inside(p, t, tail, x, y, w)
  BY <1>2, <1>5 DEF Inside
<1>7. End(0, x) = Before(0, os, i)
  <2> DEFINE b == <<y>> \o w
  <2>1. b \in Seq(Item) /\ Len(b) = 1 + Len(w)
    BY <1>2, <1>4, ConcatProperties
  <2>2. Len(w) \in Nat /\ Len(x) \in Nat
    BY <1>2, LenProperties
  <2> HIDE DEF b
  <2>3. 1 \in 1..Len(b) /\ Len(x) + 1 = i
    BY <1>2, <2>1, <2>2
  <2>4. Before(0, x \o b, Len(x) + 1) = Before(End(0, x), b, 1)
    BY <1>2, <2>1, <2>3, BeforeIn
  <2>5. Before(End(0, x), b, 1) = End(0, x)
    BY DEF Before
  <2> QED
    BY <1>5, <2>3, <2>4, <2>5 DEF b
<1>8. Entries(p)[i].number = y.number /\ y.number \in 0..MaxOpt
  BY <1>2, <1>3, ItemType DEF TheOption
<1> QED
  BY <1>2, <1>3, <1>5, <1>6, <1>7, <1>8 DEF AtIndex, x, y, w

(* There are as many entries as options.                                   *)
LEMMA EntriesLength ==
    ASSUME NEW p, NEW t, NEW os, NEW tail, Laid(p, t, os, tail)
    PROVE  /\ DOMAIN Entries(p) = 1..Len(os) /\ Len(Entries(p)) = Len(os)
           /\ Len(os) \in Nat /\ os \in Seq(Item)
<1>1. Listed(t, os, Entries(p))
  BY EntriesFound
<1>2. os \in Seq(Item)
  BY DEF Laid, Run
<1> QED
  BY <1>1, <1>2, LenProperties DEF Listed

LEMMA InsertInsideKeeps ==
    ASSUME NEW p, Good(p), NEW o \in Item, o.number < p.maxOpt
    PROVE  Keeps(p, InsertInside(p, o.number, o.value).pdu)
<1>1. PICK t, os, tail : Laid(p, t, os, tail)
  BY DEF Good
<1> DEFINE n == o.number
           es == Entries(p)
           S == {i \in DOMAIN es : es[i].number > n}
           i == Min(S)
           x == SubSeq(os, 1, i - 1)
           y == os[i]
           w == SubSeq(os, i + 1, Len(os))
<1>2. DOMAIN es = 1..Len(os) /\ Len(os) \in Nat /\ os \in Seq(Item)
  BY <1>1, EntriesLength
<1>3. n \in 0..MaxOpt
  BY ItemType
<1>4. \A j \in 1..Len(os) : AtIndex(p, t, os, tail, j)
  BY <1>1, IndexIs
<1> HIDE DEF es
<1>5. os # <<>>
  <2>1. p.maxOpt = End(0, os)
    BY <1>1 DEF Laid
  <2>2. os = <<>> => p.maxOpt = 0
    BY <2>1 DEF End
  <2> QED
    BY <1>3, <2>2, MaxOptNat
<1>6. Len(os) \in 1..Len(os)
  BY <1>2, <1>5, EmptySeq
<1>7. Len(os) \in S
  <2>1. p.maxOpt = os[Len(os)].number
    BY <1>1, <1>5 DEF Laid, End
  <2>2. es[Len(os)].number = os[Len(os)].number
    BY <1>4, <1>6 DEF AtIndex, es
  <2>3. os[Len(os)].number > n
    <3>1. os[Len(os)].number \in 0..MaxOpt
      BY <1>4, <1>6 DEF AtIndex
    <3> QED
      BY <1>3, <2>1, <3>1, MaxOptNat
  <2> QED
    BY <1>2, <1>6, <2>2, <2>3
<1>8. i \in S /\ \A k \in S : i <= k
  <2>1. S \in SUBSET Nat /\ S # {}
    BY <1>2, <1>7
  <2> HIDE DEF S
  <2> QED
    BY <2>1, MinIs
<1> HIDE DEF i
<1>9. i \in 1..Len(os) /\ es[i].number > n
  BY <1>2, <1>8
<1>10. AtIndex(p, t, os, tail, i)
  BY <1>4, <1>9
<1>11. n <= y.number
  <2>1. es[i].number = y.number /\ y.number \in 0..MaxOpt
    BY <1>10 DEF AtIndex, es
  <2> HIDE DEF y, n
  <2> QED
    BY <1>3, <1>9, <2>1, MaxOptNat
<1>12. End(0, x) <= n
  <2>1. End(0, x) = Before(0, os, i)
    BY <1>10 DEF AtIndex
  <2>2. CASE i = 1
    BY <1>3, <2>1, <2>2, MaxOptNat DEF Before
  <2>3. CASE i # 1
    <3>1. i - 1 \in 1..Len(os) /\ ~(i <= i - 1)
      BY <1>2, <1>9, <2>3
    <3>2. ~(es[i - 1].number > n)
      BY <1>2, <1>8, <3>1
    <3>3. es[i - 1].number = os[i - 1].number /\ os[i - 1].number \in 0..MaxOpt
      BY <1>4, <3>1 DEF AtIndex, es
    <3>4. Before(0, os, i) = os[i - 1].number
      BY <2>3 DEF Before
    <3> QED
      BY <1>3, <2>1, <3>2, <3>3, <3>4, MaxOptNat
  <2> QED
    BY <2>2, <2>3
<1>13. es[i] = TheOption(Spot(t, x), End(0, x), y) /\ Inside(p, t, tail, x, y, w)
  BY <1>10 DEF AtIndex, es
<1>14. Keeps(p, PutBefore(p, TheOption(Spot(t, x), End(0, x), y), n, o.value).pdu)
  <2> HIDE DEF x, y, w
  <2> QED
    BY <1>11, <1>12, <1>13, PutBeforeKeeps
<1>15. InsertInside(p, n, o.value) = PutBefore(p, es[i], n, o.value)
  BY DEF InsertInside, i, es
<1> QED
  BY <1>13, <1>14, <1>15

-----------------------------------------------------------------------------
(* Adding options                                                          *)

LEMMA KeepsTwice ==
    ASSUME NEW p, NEW q, NEW r, Keeps(p, q), Keeps(q, r)
    PROVE  Keeps(p, r)
  BY DEF Keeps

LEMMA GoodType ==
    ASSUME NEW p, Good(p)
    PROVE  p \in PduType /\ p.maxOpt \in 0..MaxOpt
  BY DEF Good, Laid, PduType

LEMMA PlaceKeeps ==
    ASSUME NEW p, Good(p), NEW o \in Item
    PROVE  Keeps(p, Place(p, o.number, o.value).pdu)
<1>1. p.maxOpt \in 0..MaxOpt /\ o.number \in 0..MaxOpt
  BY GoodType, ItemType
<1>2. CASE o.number < p.maxOpt
  BY <1>2, InsertInsideKeeps DEF Place
<1>3. CASE ~(o.number < p.maxOpt)
  <2>1. p.maxOpt <= o.number
    BY <1>1, <1>3, MaxOptNat
  <2> QED
    BY <1>3, <2>1, AddAtEndKeeps DEF Place
<1> QED
  BY <1>2, <1>3

LEMMA HopLimitKeeps ==
    ASSUME NEW p, Good(p)
    PROVE  Keeps(p, AddHopLimit(p).pdu)
<1> DEFINE o == [number |-> HopLimit, value |-> <<16>>]
<1>1. HopLimit \in 0..MaxOpt
  BY DEF HopLimit, MaxOpt
<1>2. <<16>> \in Seq(Byte) /\ Len(<<16>>) = 1
  BY DEF Byte
<1>3. 1 <= LongestValue
  BY DEF LongestValue
<1>4. o \in Item
  BY <1>1, <1>2, <1>3 DEF Item
<1>5. o.number = HopLimit /\ o.value = <<16>>
  OBVIOUS
<1> HIDE DEF o
<1>6. Keeps(p, Place(p, o.number, o.value).pdu)
  BY <1>4, PlaceKeeps
<1> QED
  BY <1>5, <1>6, GoodKeeps DEF AddHopLimit, Fail

LEMMA AddOptionKeeps ==
    ASSUME NEW p, Good(p), NEW o \in Item
    PROVE  Keeps(p, AddOption(p, o.number, o.value).pdu)
<1> DEFINE n == o.number
           q == IF n \in Proxies /\ ~HasNumber(Entries(p), HopLimit)
                THEN AddHopLimit(p).pdu ELSE p
<1>1. Keeps(p, q)
  BY HopLimitKeeps, GoodKeeps
<1> HIDE DEF q
<1>2. Keeps(q, Place(q, n, o.value).pdu)
  BY <1>1, PlaceKeeps DEF Keeps
<1>3. Keeps(p, Place(q, n, o.value).pdu)
  BY <1>1, <1>2, KeepsTwice
<1>4. AddOption(p, n, o.value) = IF Refused(p, n) THEN Fail(p) ELSE Place(q, n, o.value)
  BY DEF AddOption, q
<1> QED
  BY <1>3, <1>4, GoodKeeps DEF Fail

LEMMA InsertOptionKeeps ==
    ASSUME NEW p, Good(p), NEW o \in Item
    PROVE  Keeps(p, InsertOption(p, o.number, o.value).pdu)
<1>1. p.maxOpt \in 0..MaxOpt /\ o.number \in 0..MaxOpt
  BY GoodType, ItemType
<1>2. CASE o.number >= p.maxOpt
  BY <1>2, AddOptionKeeps DEF InsertOption
<1>3. CASE ~(o.number >= p.maxOpt)
  <2>1. o.number < p.maxOpt
    BY <1>1, <1>3, MaxOptNat
  <2> QED
    BY <1>3, <2>1, InsertInsideKeeps DEF InsertOption
<1> QED
  BY <1>2, <1>3

-----------------------------------------------------------------------------
(* Removing and changing options                                           *)

(* Between x and y, both of which stay.                                    *)
LEMMA RemoveInsideKeeps ==
    ASSUME NEW p, NEW t, NEW tail, NEW x, NEW o, NEW y, NEW w,
           Inside(p, t, tail, x, o, <<y>> \o w), y \in Item, w \in Seq(Item),
           NEW this, this = TheOption(Spot(t, x), End(0, x), o),
           NEW next, next = TheOption(Spot(t, x \o <<o>>), End(0, x \o <<o>>), y)
    PROVE  Keeps(p, Splice(p, this.at,
                           Raised(p.buf[next.at], next.delta, this.delta + next.delta),
                           next.at + 1 + ExtensionSize(next.delta)))
<1> DEFINE lo == End(0, x)
           n == o.number
           k == y.number
           at == Spot(t, x)
           xo == x \o <<o>>
           v == <<y>> \o w
           z == <<o>> \o v
           F == Flat(k, w)
           R == Bottom(y) \o F
           m == One(lo, o) \o Top(n, y)
           l == Len(y.value)
<1>1. /\ x \in Seq(Item) /\ o \in Item /\ v \in Seq(Item) /\ Laid(p, t, x \o z, tail)
  BY DEF Inside
<1>2. /\ lo \in 0..MaxOpt /\ n \in 0..MaxOpt /\ lo <= n
      /\ Run(0, x) /\ Run(lo, z) /\ Run(n, v) /\ z \in Seq(Item)
      /\ Laid(p, t, xo \o v, tail) /\ Around(p, t, tail, x, o, v)
  BY InsideParts
<1>3. xo \in Seq(Item)
  <2>1. <<o>> \in Seq(Item)
    BY <1>1
  <2> QED
    BY <1>1, <2>1, ConcatProperties
<1>4. k \in 0..MaxOpt /\ n <= k /\ Run(k, w)
      /\ Flat(n, v) = One(n, y) \o F /\ End(n, v) = End(k, w)
  BY <1>2, FlatCons, ItemType
<1>5. Flat(lo, z) = One(lo, o) \o Flat(n, v) /\ End(lo, z) = End(n, v)
  <2> HIDE DEF v
  <2> QED
    BY <1>1, <1>2, FlatCons
<1>6. lo <= k
  BY <1>2, <1>4, MaxOptNat
<1>7. Run(lo, v) /\ Flat(lo, v) = One(lo, y) \o F /\ End(lo, v) = End(k, w)
  <2>1. Run(lo, v)
    BY <1>2, <1>4, <1>6, RunCons
  <2> QED
    BY <2>1, FlatCons
<1>8. /\ One(lo, o) \in Seq(Byte) /\ Len(One(lo, o)) = EncodeSize(n - lo, Len(o.value))
      /\ Len(One(lo, o)) \in Nat
  BY <1>1, <1>2, OneType
<1>9. /\ Top(lo, y) \in Seq(Byte) /\ Len(Top(lo, y)) = 1 + ExtensionSize(k - lo)
      /\ One(lo, y) = Top(lo, y) \o Bottom(y) /\ Bottom(y) \in Seq(Byte)
  BY <1>2, <1>4, <1>6, OneParts
<1>10. /\ Top(n, y) \in Seq(Byte) /\ Len(Top(n, y)) = 1 + ExtensionSize(k - n)
       /\ One(n, y) = Top(n, y) \o Bottom(y)
  BY <1>2, <1>4, OneParts
<1>11. F \in Seq(Byte)
  BY <1>4, FlatType
<1> HIDE DEF F
<1>12. R \in Seq(Byte)
  BY <1>9, <1>11, Cat
<1>13. Flat(lo, v) = Top(lo, y) \o R
  <2>1. (Top(lo, y) \o Bottom(y)) \o F = Top(lo, y) \o (Bottom(y) \o F)
    BY <1>9, <1>11, Glue
  <2> QED
    BY <1>7, <1>9, <2>1
<1>14. Flat(n, v) = Top(n, y) \o R
  <2>1. Top(n, y) \in Seq(Byte) /\ Bottom(y) \in Seq(Byte) /\ F \in Seq(Byte)
    BY <1>9, <1>10, <1>11
  <2>2. (Top(n, y) \o Bottom(y)) \o F = Top(n, y) \o (Bottom(y) \o F)
    BY <2>1, Glue
  <2> QED
    BY <1>4, <1>10, <2>2
<1> HIDE DEF R
<1>15. Flat(lo, z) = m \o R
  <2>1. One(lo, o) \in Seq(Byte) /\ Top(n, y) \in Seq(Byte) /\ R \in Seq(Byte)
    BY <1>8, <1>10, <1>12
  <2>2. (One(lo, o) \o Top(n, y)) \o R = One(lo, o) \o (Top(n, y) \o R)
    BY <2>1, Glue
  <2> QED
    BY <1>5, <1>14, <2>2
<1>16. m \in Seq(Byte) /\ Len(m) = Len(One(lo, o)) + Len(Top(n, y))
  BY <1>8, <1>10, Cat
<1>17. Run(0, x \o v) /\ End(0, x \o v) = End(0, x \o z)
  <2> HIDE DEF v, z
  <2>1. End(0, x \o v) = End(lo, v) /\ End(0, x \o z) = End(lo, z)
    BY <1>1, <1>2, EndOf
  <2>2. Run(0, x \o v)
    BY <1>1, <1>2, <1>7, RunOf
  <2> QED
    BY <1>4, <1>5, <1>7, <2>1, <2>2
<1>18. Used(p) + Len(Top(lo, y)) - Len(m) <= p.alloc
  <2> DEFINE i == ExtensionSize(k - lo)
             j == ExtensionSize(k - n)
             e == EncodeSize(n - lo, Len(o.value))
  <2>1. i <= j + e /\ i \in Nat /\ j \in Nat /\ e \in Nat
    <3>1. n - lo \in Nat /\ k - n \in Nat /\ (n - lo) + (k - n) = k - lo
      BY <1>2, <1>4, MaxOptNat
    <3>2. Len(o.value) \in Nat
      BY <1>1, ItemType, LenProperties
    <3> HIDE DEF n, lo, k
    <3>3. ExtensionSize((n - lo) + (k - n)) <= ExtensionSize(k - n)
                                                + EncodeSize(n - lo, Len(o.value))
      BY <3>1, <3>2, RaisedFits
    <3> QED
      BY <1>8, <3>1, <3>3 DEF ExtensionSize
  <2>2. Used(p) <= p.alloc /\ Used(p) \in Nat /\ p.alloc \in Nat
    BY <1>1, SizesNat, LenProperties DEF Laid, PduType, Used
  <2>3. Len(Top(lo, y)) = 1 + i /\ Len(m) = e + (1 + j)
    BY <1>8, <1>9, <1>10, <1>16
  <2> HIDE DEF i, j, e, m, lo
  <2> QED
    BY <2>1, <2>2, <2>3
<1>19. Exchange(p, t, tail, x, z, v, m, Top(lo, y), R)
  <2> HIDE DEF v, z, m
  <2> QED
    BY <1>1, <1>2, <1>9, <1>12, <1>13, <1>15, <1>16, <1>17, <1>18 DEF Exchange
<1>20. this.at = at /\ this.delta = n - lo /\ next.delta = k - n /\ next.at = Spot(t, xo)
  <2>1. End(0, xo) = n
    BY <1>2 DEF Around
  <2> QED
    BY <2>1 DEF TheOption
<1>21. Raised(p.buf[next.at], next.delta, this.delta + next.delta) = Top(lo, y)
  <2>1. Stepped(p, t, xo, y)
    <3>1. (xo \o <<y>>) \o w = xo \o v
      <4>1. <<y>> \in Seq(Item)
        OBVIOUS
      <4> HIDE DEF xo
      <4> QED
        BY <1>3, <4>1, ConcatAssociative
    <3>2. Laid(p, t, (xo \o <<y>>) \o w, tail)
      BY <1>2, <3>1
    <3> HIDE DEF xo
    <3> QED
      BY <1>3, <3>2, WalkStep
  <2>2. End(0, xo) = n
    BY <1>2 DEF Around
  <2>3. p.buf[next.at] = First(k - n, l)
    BY <1>20, <2>1, <2>2 DEF Stepped
  <2>4. k - n \in Nat /\ k - lo \in Nat /\ k - n <= k - lo /\ l \in Nat
    <3>1. y.value \in Seq(Byte)
      BY ItemType
    <3> QED
      BY <1>2, <1>4, <3>1, MaxOptNat, LenProperties
  <2>5. Raised(First(k - n, l), k - n, k - lo) = <<First(k - lo, l)>> \o Extension(k - lo)
    <3> HIDE DEF k, lo, n, l
    <3> QED
      BY <2>4, RaisedIsWritten
  <2>6. this.delta + next.delta = k - lo
    <3>1. n \in Int /\ lo \in Int /\ k \in Int
      BY <1>2, <1>4, MaxOptNat
    <3>2. \A i, j, h \in Int : (i - h) + (j - i) = j - h
      OBVIOUS
    <3>3. (n - lo) + (k - n) = k - lo
      <4> HIDE DEF n, lo, k
      <4> QED
        BY <3>1, <3>2
    <3> QED
      BY <1>20, <3>3
  <2> QED
    BY <1>20, <2>3, <2>5, <2>6 DEF Top
<1> DEFINE rest == next.at + 1 + ExtensionSize(next.delta)
<1>22. rest = at + Len(m)
  <2>1. Spot(t, xo) = at + Len(One(lo, o))
    BY <1>2, <1>8 DEF Around
  <2>2. at \in Nat
    <3>1. Flat(0, x) \in Seq(Byte)
      BY <1>2, FlatType
    <3>2. t \in Seq(Byte)
      BY <1>1 DEF Laid
    <3> QED
      BY <3>1, <3>2, LenProperties DEF Spot
  <2>3. ExtensionSize(next.delta) \in Nat
    BY DEF ExtensionSize
  <2>4. Len(m) = Len(One(lo, o)) + (1 + ExtensionSize(next.delta))
    BY <1>10, <1>16, <1>20
  <2>5. next.at = at + Len(One(lo, o))
    BY <1>20, <2>1
  <2> HIDE DEF at, m, lo
  <2> QED
    BY <1>8, <2>2, <2>3, <2>4, <2>5
<1> DEFINE q == Splice(p, at, Top(lo, y), rest)
<1>23. Laid(q, t, x \o v, tail)
  <2> HIDE DEF rest, z, v, m, R
  <2> QED
    BY <1>17, <1>19, <1>22, ExchangedInside
<1>24. q.etok = p.etok /\ q.token = p.token
  BY <1>1 DEF Splice, Laid, PduType
<1>25. Keeps(p, q)
  BY <1>1, <1>23, <1>24, LaidKeeps
<1> HIDE DEF lo, at
<1> QED
  BY <1>20, <1>21, <1>25

(* The last one: no option is behind x then.                               *)
LEMMA RemoveLastKeeps ==
    ASSUME NEW p, NEW t, NEW tail, NEW x, NEW o, Inside(p, t, tail, x, o, <<>>),
           NEW this, this = TheOption(Spot(t, x), End(0, x), o)
    PROVE  Keeps(p, Moved(p, this.at, <<>>, this.at + EncodeSize(this.delta, this.length),
                          p.maxOpt - this.delta))
<1> DEFINE lo == End(0, x)
           n == o.number
           at == Spot(t, x)
           z == <<o>> \o <<>>
           m == One(lo, o)
           rest == at + Len(m)
           q == Moved(p, at, <<>>, rest, lo)
<1>1. /\ x \in Seq(Item) /\ o \in Item /\ <<>> \in Seq(Item) /\ <<>> \in Seq(Byte)
      /\ Laid(p, t, x \o z, tail)
  BY EmptySeq DEF Inside
<1>2. /\ lo \in 0..MaxOpt /\ n \in 0..MaxOpt /\ lo <= n
      /\ Run(0, x) /\ Run(lo, z) /\ z \in Seq(Item)
  BY InsideParts
<1>3. m \in Seq(Byte) /\ Len(m) = EncodeSize(n - lo, Len(o.value)) /\ Len(m) \in Nat
  BY <1>1, <1>2, OneType
<1>4. z = <<o>>
  <2>1. <<o>> \in Seq(Item)
    BY <1>1
  <2> QED
    BY <2>1, ConcatEmptySeq
<1>5. Flat(lo, z) = m \o <<>> /\ End(lo, z) = n
  <2>1. m \o <<>> = m
    BY <1>3, ConcatEmptySeq
  <2>2. Flat(lo, <<o>>) = One(lo, o) /\ End(lo, <<o>>) = n
    BY <1>1, <1>2, FlatOne, RunOne
  <2> QED
    BY <1>4, <2>1, <2>2
<1>6. Flat(lo, <<>>) = <<>> \o <<>> /\ End(lo, <<>>) = lo
  <2>1. <<>> \o <<>> = <<>>
    BY <1>1, ConcatEmptySeq
  <2>2. Flat(lo, <<>>) = <<>>
    BY <1>2, FlatEmpty
  <2> QED
    BY <2>1, <2>2 DEF End
<1>7. x \o <<>> = x
  BY <1>1, ConcatEmptySeq
<1>8. p.maxOpt = n
  <2>1. End(0, x \o z) = End(lo, z)
    BY <1>1, <1>2, EndOf
  <2>2. p.maxOpt = End(0, x \o z)
    BY <1>1 DEF Laid
  <2> QED
    BY <1>5, <2>1, <2>2
<1>9. Used(p) + Len(<<>>) - Len(m) <= p.alloc
  <2>1. Used(p) <= p.alloc /\ Used(p) \in Nat /\ p.alloc \in Nat
    BY <1>1, SizesNat, LenProperties DEF Laid, PduType, Used
  <2>2. Len(<<>>) = 0
    BY EmptySeq
  <2> HIDE DEF m
  <2> QED
    BY <1>3, <2>1, <2>2
<1>10. Exchange(p, t, tail, x, z, <<>>, m, <<>>, <<>>)
  <2> HIDE DEF z, m, lo
  <2> QED
    BY <1>1, <1>2, <1>3, <1>5, <1>6, <1>7, <1>9 DEF Exchange, lo
<1>11. Laid(q, t, x, tail)
  <2> HIDE DEF z, m
  <2>1. Laid(Moved(p, at, <<>>, rest, End(0, x \o <<>>)), t, x \o <<>>, tail)
    BY <1>10, Exchanged
  <2> QED
    BY <1>7, <2>1
<1>12. q.etok = p.etok /\ q.token = p.token
  BY <1>1 DEF Moved, Splice, Laid, PduType
<1>13. Keeps(p, q)
  BY <1>1, <1>11, <1>12, LaidKeeps
<1>14. this.at = at /\ this.delta = n - lo /\ this.length = Len(o.value)
  BY DEF TheOption
<1>15. p.maxOpt - this.delta = lo
  <2>1. n \in Int /\ lo \in Int
    BY <1>2, MaxOptNat
  <2>2. \A i, j \in Int : i - (i - j) = j
    OBVIOUS
  <2>3. n - (n - lo) = lo
    <3> HIDE DEF n, lo
    <3> QED
      BY <2>1, <2>2
  <2> QED
    BY <1>8, <1>14, <2>3
<1>16. this.at + EncodeSize(this.delta, this.length) = rest
  BY <1>3, <1>14
<1> HIDE DEF q, rest, at
<1> QED
  BY <1>13, <1>14, <1>15, <1>16 DEF q

(* The first entry with a number.                                          *)
LEMMA FirstIs ==
    ASSUME NEW p, NEW t, NEW os, NEW tail, Laid(p, t, os, tail), NEW n,
           HasNumber(Entries(p), n)
    PROVE  /\ FirstWith(Entries(p), n) \in 1..Len(os)
           /\ os[FirstWith(Entries(p), n)].number = n
           /\ AtIndex(p, t, os, tail, FirstWith(Entries(p), n))
<1> DEFINE es == Entries(p)
           S == {i \in DOMAIN es : es[i].number = n}
           k == Min(S)
<1>1. DOMAIN es = 1..Len(os) /\ Len(os) \in Nat
  BY EntriesLength
<1> HIDE DEF es
<1>2. S \in SUBSET Nat /\ S # {}
  BY <1>1 DEF HasNumber, es
<1>3. k \in S
  <2> HIDE DEF S
  <2> QED
    BY <1>2, MinIs
<1>4. k = FirstWith(Entries(p), n)
  BY DEF FirstWith, es
<1> HIDE DEF k
<1>5. k \in 1..Len(os) /\ es[k].number = n
  BY <1>1, <1>3
<1>6. AtIndex(p, t, os, tail, k)
  BY <1>5, IndexIs
<1>7. os[k].number = n
  BY <1>5, <1>6 DEF AtIndex, es
<1> QED
  BY <1>4, <1>5, <1>6, <1>7

LEMMA RemoveOptionKeeps ==
    ASSUME NEW p, Good(p), NEW n
    PROVE  Keeps(p, RemoveOption(p, n).pdu)
<1>1. PICK t, os, tail : Laid(p, t, os, tail)
  BY DEF Good
<1> DEFINE es == Entries(p)
           k == FirstWith(es, n)
           this == es[k]
           next == es[k + 1]
           x == SubSeq(os, 1, k - 1)
           w == SubSeq(os, k + 1, Len(os))
<1>2. Len(es) = Len(os) /\ Len(os) \in Nat /\ os \in Seq(Item)
  BY <1>1, EntriesLength
<1>3. CASE ~HasNumber(es, n)
  BY <1>3, GoodKeeps DEF RemoveOption, Fail
<1>4. CASE HasNumber(es, n)
  <2>1. k \in 1..Len(os) /\ AtIndex(p, t, os, tail, k)
    BY <1>1, <1>4, FirstIs
  <2> HIDE DEF es, k
  <2>2. Inside(p, t, tail, x, os[k], w) /\ this = TheOption(Spot(t, x), End(0, x), os[k])
    BY <2>1 DEF AtIndex, es
  <2>3. CASE k < Len(es)
    <3>1. k + 1 \in 1..Len(os) /\ (k + 1) - 1 = k
      BY <1>2, <2>1, <2>3
    <3> DEFINE y == os[k + 1]
               v == SubSeq(os, (k + 1) + 1, Len(os))
               xo == x \o <<os[k]>>
    <3>2. AtIndex(p, t, os, tail, k + 1)
      BY <1>1, <3>1, IndexIs
    <3>3. SubSeq(os, 1, k) = xo
      BY <1>2, <2>1, Split
    <3>4. next = TheOption(Spot(t, xo), End(0, xo), y)
      <4>1. Entries(p)[k + 1] = TheOption(Spot(t, SubSeq(os, 1, (k + 1) - 1)),
                                          End(0, SubSeq(os, 1, (k + 1) - 1)), os[k + 1])
        BY <3>2 DEF AtIndex
      <4> QED
        BY <3>1, <3>3, <4>1 DEF es
    <3>5. w = <<y>> \o v /\ y \in Item /\ v \in Seq(Item)
      <4>1. /\ w \in Seq(Item) /\ x \in Seq(Item) /\ <<os[k]>> \in Seq(Item)
            /\ os = (x \o <<os[k]>>) \o w
        <5>1. /\ SubSeq(os, k + 1, Len(os)) \in Seq(Item) /\ SubSeq(os, 1, k - 1) \in Seq(Item)
              /\ os[k] \in Item
              /\ os = (SubSeq(os, 1, k - 1) \o <<os[k]>>) \o SubSeq(os, k + 1, Len(os))
          BY <1>2, <2>1, Split
        <5>2. \A a \in Item : <<a>> \in Seq(Item)
          OBVIOUS
        <5> QED
          BY ONLY <5>1, <5>2 DEF w, x
      <4>2. y \in Item /\ v \in Seq(Item) /\ os = SubSeq(os, 1, (k + 1) - 1) \o (<<y>> \o v)
        BY <3>2 DEF AtIndex, Inside
      <4> HIDE DEF y, v, w, x
      <4>3. os = xo \o (<<y>> \o v) /\ os = xo \o w /\ xo \in Seq(Item)
        BY <3>1, <3>3, <4>1, <4>2, ConcatProperties
      <4>4. <<y>> \o v \in Seq(Item)
        BY <4>2, ConcatProperties
      <4> DEFINE c == <<y>> \o v
      <4> HIDE DEF c, xo
      <4>5. c = w
        <5>1. xo \in Seq(Item) /\ w \in Seq(Item) /\ c \in Seq(Item)
          BY <4>1, <4>3, <4>4 DEF c
        <5>2. xo \o w = xo \o c
          BY <4>3 DEF c
        <5> QED
          BY <5>1, <5>2, ConcatSimplifications
      <4> QED
        BY <4>2, <4>5 DEF c
    <3> DEFINE q == Splice(p, this.at,
                           Raised(p.buf[next.at], next.delta, this.delta + next.delta),
                           next.at + 1 + ExtensionSize(next.delta))
    <3>6. Keeps(p, q)
      <4> HIDE DEF x, w, v, y, this, next
      <4>1. Inside(p, t, tail, x, os[k], <<y>> \o v)
        BY <2>2, <3>5
      <4> QED
        BY <2>2, <3>4, <3>5, <4>1, RemoveInsideKeeps
    <3>7. RemoveOption(p, n).pdu = q
      BY <1>4, <2>3 DEF RemoveOption, Done, es, k
    <3> QED
      BY <3>6, <3>7
  <2>4. CASE ~(k < Len(es))
    <3>1. w = <<>>
      <4>1. w \in Seq(Item) /\ Len(w) = Len(os) - k
        <5>1. Len(SubSeq(os, k + 1, Len(os))) = Len(os) - k
          BY <2>1 DEF AtIndex
        <5> QED
          BY <2>2, <5>1 DEF Inside
      <4>2. Len(w) = 0
        BY <1>2, <2>1, <2>4, <4>1
      <4> HIDE DEF w
      <4> QED
        BY <4>1, <4>2, EmptySeq
    <3> DEFINE q == Moved(p, this.at, <<>>, this.at + EncodeSize(this.delta, this.length),
                          p.maxOpt - this.delta)
    <3>2. Keeps(p, q)
      <4> HIDE DEF x, w, this
      <4>1. Inside(p, t, tail, x, os[k], <<>>)
        BY <2>2, <3>1
      <4> QED
        BY <2>2, <4>1, RemoveLastKeeps
    <3>3. RemoveOption(p, n).pdu = q
      BY <1>4, <2>4 DEF RemoveOption, Done, Moved, Splice, es, k
    <3> QED
      BY <3>2, <3>3
  <2> QED
    BY <2>3, <2>4
<1> QED
  BY <1>3, <1>4

LEMMA UpdateOptionKeeps ==
    ASSUME NEW p, Good(p), NEW c \in Item
    PROVE  Keeps(p, UpdateOption(p, c.number, c.value).pdu)
<1>1. PICK t, os, tail : Laid(p, t, os, tail)
  BY DEF Good
<1> DEFINE n == c.number
           v == c.value
           es == Entries(p)
           i == FirstWith(es, n)
           this == es[i]
           x == SubSeq(os, 1, i - 1)
           o == os[i]
           w == SubSeq(os, i + 1, Len(os))
           lo == End(0, x)
           at == Spot(t, x)
           size == EncodeSize(this.delta, Len(v))
           check == CheckResize(p, Used(p) + size - this.size)
           r == IF size <= this.size THEN Done(p) ELSE check
           u == r.pdu
           z == <<o>> \o w
           y == <<c>> \o w
           m == One(lo, o)
           new == One(lo, c)
           F == Flat(n, w)
           q == Splice(u, this.at, Encode(this.delta, v), this.at + this.size)
<1>2. CASE ~HasNumber(es, n)
  BY <1>2, InsertOptionKeeps DEF UpdateOption
<1>3. CASE HasNumber(es, n)
  <2>1. o.number = n /\ AtIndex(p, t, os, tail, i)
    BY <1>1, <1>3, FirstIs
  <2> HIDE DEF es, i
  <2>2. Inside(p, t, tail, x, o, w) /\ this = TheOption(at, lo, o)
    BY <2>1 DEF AtIndex, es
  <2>3. UpdateOption(p, n, v).pdu = IF r.ok THEN q ELSE p
    BY <1>3 DEF UpdateOption, Fail, Done, es, i
  <2> HIDE DEF this, x, o, w
  <2>4. /\ x \in Seq(Item) /\ o \in Item /\ w \in Seq(Item) /\ z \in Seq(Item)
        /\ lo \in 0..MaxOpt /\ n \in 0..MaxOpt /\ lo <= n
        /\ Run(0, x) /\ Run(lo, z) /\ Run(n, w) /\ Laid(p, t, x \o z, tail)
    BY <2>1, <2>2, InsideParts DEF Inside
  <2>5. /\ this.at = at /\ this.delta = n - lo
        /\ this.size = EncodeSize(n - lo, Len(o.value))
    BY <2>1, <2>2 DEF TheOption
  <2>6. /\ m \in Seq(Byte) /\ Len(m) = this.size /\ this.size \in Nat
        /\ new \in Seq(Byte) /\ Len(new) = size /\ size \in Nat
    <3>1. m \in Seq(Byte) /\ Len(m) = EncodeSize(n - lo, Len(o.value)) /\ Len(m) \in Nat
      BY <2>1, <2>4, OneType
    <3>2. new \in Seq(Byte) /\ Len(new) = EncodeSize(n - lo, Len(v)) /\ Len(new) \in Nat
      BY <2>4, OneType
    <3> QED
      BY <2>5, <3>1, <3>2
  <2>7. p \in PduType /\ Used(p) \in Nat /\ Used(p) <= p.alloc /\ p.alloc \in Nat
    BY <2>4, SizesNat, LenProperties DEF Laid, PduType, Used
  <2> HIDE DEF size
  <2>8. /\ r.ok \in BOOLEAN /\ Same(p, u) /\ u.alloc \in Nat
        /\ r.ok => Used(p) <= u.alloc /\ Used(p) + size - this.size <= u.alloc
    <3>1. CASE size <= this.size
      <4>1. r.ok = TRUE /\ u = p
        BY <3>1 DEF Done
      <4> QED
        <5>1. Same(p, u)
          BY <2>7, <4>1 DEF Same
        <5> HIDE DEF u
        <5>2. Used(p) + size - this.size <= p.alloc
          <6> DEFINE d == this.size
          <6>1. d \in Nat /\ size <= d
            BY <2>6, <3>1
          <6> HIDE DEF d
          <6>2. Used(p) + size - d <= p.alloc
            BY <2>6, <2>7, <6>1
          <6> QED
            BY <6>2 DEF d
        <5> QED
          BY <2>7, <4>1, <5>1, <5>2
    <3>2. CASE ~(size <= this.size)
      <4>1. r = check
        BY <3>2
      <4> HIDE DEF r
      <4>2. Used(p) + size - this.size \in Nat
        BY <2>6, <2>7, <3>2
      <4>3. /\ Same(p, check.pdu) /\ check.ok \in BOOLEAN /\ check.pdu.alloc >= p.alloc
            /\ check.ok => Used(p) + size - this.size <= check.pdu.alloc
        BY <2>7, <4>2, RoomChecked
      <4>4. check.pdu.alloc \in Nat
        BY <4>3, SizesNat DEF Same, PduType
      <4> HIDE DEF check
      <4> QED
        BY <2>7, <4>1, <4>3, <4>4
    <3> QED
      BY <3>1, <3>2
  <2> HIDE DEF r
  <2>9. CASE ~r.ok
    BY <1>1, <2>3, <2>9, GoodKeeps
  <2>10. CASE r.ok
    <3>1. F \in Seq(Byte)
      BY <2>4, FlatType
    <3>2. Run(lo, y) /\ y \in Seq(Item)
      <4>1. Run(lo, y)
        BY <2>4, RunCons
      <4> QED
        BY <4>1 DEF Run
    <3>3. Flat(lo, z) = m \o F /\ End(lo, z) = End(n, w)
      <4> HIDE DEF lo
      <4>1. /\ Flat(lo, <<o>> \o w) = One(lo, o) \o Flat(o.number, w)
            /\ End(lo, <<o>> \o w) = End(o.number, w)
        BY <2>4, FlatCons
      <4> QED
        BY <2>1, <4>1
    <3>4. Flat(lo, y) = new \o F /\ End(lo, y) = End(n, w)
      BY <2>4, <3>2, FlatCons
    <3> HIDE DEF F, m, new, z, y
    <3>5. Run(0, x \o y) /\ End(0, x \o y) = End(0, x \o z)
      <4>1. End(0, x \o y) = End(lo, y) /\ End(0, x \o z) = End(lo, z)
        BY <2>4, <3>2, EndOf
      <4>2. Run(0, x \o y)
        BY <2>4, <3>2, RunOf
      <4> QED
        BY <3>3, <3>4, <4>1, <4>2
    <3>6. Laid(u, t, x \o z, tail)
      BY <2>4, <2>8, <2>10, LaidSame
    <3>7. Used(u) + Len(new) - Len(m) <= u.alloc
      BY <2>6, <2>8, <2>10 DEF Same, Used
    <3>8. Exchange(u, t, tail, x, z, y, m, new, F)
      <4> HIDE DEF u, lo
      <4> QED
        BY <2>4, <2>6, <3>1, <3>2, <3>3, <3>4, <3>5, <3>6, <3>7 DEF Exchange, lo
    <3>9. Encode(this.delta, v) = new
      BY <2>5 DEF One, new
    <3>10. Laid(Splice(u, at, new, at + Len(m)), t, x \o y, tail)
      BY <3>5, <3>8, ExchangedInside
    <3>11. Laid(q, t, x \o y, tail)
      BY <2>5, <2>6, <3>9, <3>10
    <3>12. q.etok = p.etok /\ q.token = p.token
      BY <2>8 DEF Splice, Same, PduType
    <3> QED
      BY <1>1, <2>3, <2>10, <3>11, <3>12, LaidKeeps
  <2> QED
    BY <2>8, <2>9, <2>10
<1> QED
  BY <1>2, <1>3

-----------------------------------------------------------------------------
(* The payload and the token                                               *)

LEMMA AddDataKeeps ==
    ASSUME NEW p, Good(p), NEW bytes \in Seq(Byte), bytes # <<>>
    PROVE  Keeps(p, AddData(p, bytes).pdu)
<1>1. PICK t, os, tail : Laid(p, t, os, tail)
  BY DEF Good
<1> DEFINE size == Used(p) + Len(bytes) + 1
           c == Resize(p, size)
           r == c.pdu
           end == <<Marker>> \o bytes
           F == Flat(0, os)
           q == [r EXCEPT !.buf = @ \o <<Marker>> \o bytes, !.data = Used(p) + 1]
<1>2. /\ p \in PduType /\ t \in Seq(Byte) /\ Run(0, os) /\ tail \in Seq(Byte)
      /\ F \in Seq(Byte) /\ p.buf = (t \o F) \o tail /\ p.buf \in Seq(Byte)
      /\ p.data = IF tail = <<>> THEN 0 ELSE Len(t) + Len(F) + 1
  BY <1>1, FlatType DEF Laid, PduType
<1>3. Used(p) \in Nat /\ Len(bytes) \in Nat /\ Len(t) \in Nat /\ Len(F) \in Nat
  BY <1>2, LenProperties DEF Used
<1>4. AddData(p, bytes).pdu = IF p.data # 0 \/ ~c.ok THEN p ELSE q
  BY DEF AddData, Fail, Done
<1>5. CASE p.data # 0 \/ ~c.ok
  BY <1>4, <1>5, GoodKeeps
<1>6. CASE ~(p.data # 0 \/ ~c.ok)
  <2> HIDE DEF F
  <2>1. tail = <<>>
    BY <1>2, <1>3, <1>6
  <2>2. p.buf = t \o F /\ Used(p) = Len(t) + Len(F)
    <3>1. t \o F \in Seq(Byte) /\ Len(t \o F) = Len(t) + Len(F)
      BY <1>2, Cat
    <3>2. (t \o F) \o <<>> = t \o F
      BY <3>1, ConcatEmptySeq
    <3> QED
      BY <1>2, <2>1, <3>1, <3>2 DEF Used
  <2>3. Same(p, r) /\ r.alloc = size
    <3>1. size \in Nat
      BY <1>3
    <3> HIDE DEF size
    <3> QED
      BY <1>2, <1>6, <3>1, Resized
  <2>4. /\ <<Marker>> \in Seq(Byte) /\ Len(<<Marker>>) = 1
        /\ end \in Seq(Byte) /\ Len(end) = 1 + Len(bytes) /\ end[1] = Marker
    <3>1. <<Marker>> \in Seq(Byte) /\ Len(<<Marker>>) = 1 /\ <<Marker>>[1] = Marker
      BY DEF Marker, Byte
    <3>2. 1 \in 1..Len(<<Marker>>)
      BY <3>1
    <3> QED
      BY <3>1, <3>2, Cat
  <2>5. (p.buf \o <<Marker>>) \o bytes = (t \o F) \o end
    <3>1. (p.buf \o <<Marker>>) \o bytes = p.buf \o end
      BY <1>2, <2>4, Glue, SMTT(30)
    <3> QED
      BY <2>2, <3>1
  <2>6. Len(end) > 1 /\ end # <<>>
    <3>1. Len(bytes) # 0
      BY EmptySeq
    <3>2. Len(<<>>) = 0
      BY EmptySeq
    <3> HIDE DEF end
    <3> QED
      BY <1>3, <2>4, <3>1, <3>2
  <2> DEFINE B == (t \o F) \o end
  <2>7. B \in Seq(Byte) /\ Len(B) = (Len(t) + Len(F)) + Len(end)
    <3> DEFINE a == t \o F
    <3>1. a \in Seq(Byte) /\ Len(a) = Len(t) + Len(F)
      BY <1>2, Cat
    <3> HIDE DEF end, a
    <3>2. a \o end \in Seq(Byte) /\ Len(a \o end) = Len(a) + Len(end)
      BY <2>4, <3>1, Cat
    <3> QED
      BY <3>1, <3>2 DEF a
  <2>8. q = [r EXCEPT !.buf = B, !.data = Used(p) + 1]
    BY <2>3, <2>5 DEF Same
  <2>9. Len(B) <= r.alloc
    <3> HIDE DEF B, end
    <3> QED
      BY <1>3, <2>2, <2>3, <2>4, <2>7
  <2> HIDE DEF q, B, end
  <2>10. /\ q \in PduType /\ q.buf = B /\ q.data = Used(p) + 1 /\ q.etok = p.etok
         /\ q.token = p.token /\ q.maxOpt = p.maxOpt /\ q.alloc = r.alloc
    <3> HIDE DEF r
    <3>1. /\ r \in PduType /\ r.etok = p.etok /\ r.token = p.token /\ r.maxOpt = p.maxOpt
          /\ B \in Seq(Byte) /\ Used(p) + 1 \in Nat
      BY <1>3, <2>3, <2>7 DEF Same
    <3> QED
      BY <2>8, <3>1 DEF PduType
  <2>11. Used(q) <= q.alloc
    BY <2>9, <2>10 DEF Used
  <2>12. Laid(q, t, os, end)
    <3>1. Len(t) = p.etok /\ p.maxOpt = End(0, os)
      BY <1>1 DEF Laid
    <3> QED
      BY <1>2, <2>2, <2>4, <2>6, <2>10, <2>11, <3>1 DEF Laid, B, F
  <2> QED
    BY <1>1, <1>4, <1>6, <2>10, <2>12, LaidKeeps
<1> QED
  BY <1>5, <1>6

LEMMA SpaceType ==
    ASSUME NEW t \in Seq(Byte), Len(t) <= 254
    PROVE  /\ TokenSpace(t) \in Seq(Byte)
           /\ Len(TokenSpace(t)) = ExtensionSize(Len(t)) + Len(t)
           /\ Len(TokenSpace(t)) \in 0..255
<1>1. Len(t) \in Nat /\ Len(t) <= 65804
  BY LenProperties
<1>2. /\ Extension(Len(t)) \in Seq(Byte)
      /\ Len(Extension(Len(t))) = ExtensionSize(Len(t))
  BY <1>1, ExtensionType
<1>3. /\ TokenSpace(t) \in Seq(Byte)
      /\ Len(TokenSpace(t)) = Len(Extension(Len(t))) + Len(t)
  BY <1>2, Cat DEF TokenSpace
<1>4. ExtensionSize(Len(t)) + Len(t) \in 0..255
  <2>1. \A i \in Nat : i <= 254 => ExtensionSize(i) \in 0..1
    BY DEF ExtensionSize
  <2>2. \A i \in Nat, j \in 0..1 : i <= 254 => j + i \in 0..255
    OBVIOUS
  <2> DEFINE i == Len(t)
             j == ExtensionSize(i)
  <2>3. i \in Nat /\ i <= 254 /\ j \in 0..1
    BY <1>1, <2>1
  <2> HIDE DEF i, j
  <2>4. j + i \in 0..255
    BY ONLY <2>2, <2>3
  <2> QED
    BY <2>4 DEF i, j
<1> QED
  BY <1>2, <1>3, <1>4

(* A message that consists of a token.                                     *)
LEMMA TokenAlone ==
    ASSUME NEW p \in PduType, NEW t, p.buf = t, p.etok = Len(t), p.data = 0,
           p.maxOpt = 0, Used(p) <= p.alloc
    PROVE  Laid(p, t, <<>>, <<>>)
<1>1. t \in Seq(Byte)
  BY DEF PduType
<1>2. Run(0, <<>>) /\ Flat(0, <<>>) = <<>> /\ End(0, <<>>) = 0
  <2>1. 0 \in 0..MaxOpt
    BY MaxOptNat
  <2> QED
    BY <2>1, FlatEmpty
<1>3. (t \o <<>>) \o <<>> = t /\ <<>> \in Seq(Byte)
  BY <1>1, ConcatEmptySeq, EmptySeq
<1> QED
  BY <1>1, <1>2, <1>3 DEF Laid

LEMMA AddTokenLays ==
    ASSUME NEW p, NEW s, NEW os, NEW tail, Laid(p, s, os, tail), p.buf = <<>>,
           NEW t \in Seq(Byte), Len(t) <= 254,
           NEW r, r = AddToken(p, t)
    PROVE  /\ r.ok \in BOOLEAN
           /\ r.ok => /\ Laid(r.pdu, TokenSpace(t), <<>>, <<>>)
                      /\ r.pdu.etok = Len(TokenSpace(t)) /\ r.pdu.token = Len(t)
           /\ ~r.ok => Laid(r.pdu, s, os, tail)
<1> DEFINE q == [p EXCEPT !.token = Len(t)]
           space == TokenSpace(t)
           c == CheckResize(q, Len(space))
           g == [c.pdu EXCEPT !.buf = space, !.etok = Len(space), !.maxOpt = 0, !.data = 0]
<1>1. p \in PduType /\ Len(t) \in Nat
  BY LenProperties DEF Laid
<1>2. space \in Seq(Byte) /\ Len(space) \in Nat
  <2>1. Len(space) \in 0..255
    BY SpaceType
  <2> QED
    BY <2>1, SpaceType, SMTT(30)
<1>3. /\ q \in PduType /\ q.buf = p.buf /\ q.etok = p.etok /\ q.token = Len(t)
      /\ q.data = p.data /\ q.maxOpt = p.maxOpt /\ q.alloc = p.alloc
  BY <1>1 DEF PduType
<1>4. r = IF ~c.ok THEN Fail(q) ELSE Done(g)
  BY DEF AddToken
<1> HIDE DEF q, space
<1>5. /\ Same(q, c.pdu) /\ c.ok \in BOOLEAN
      /\ c.ok => Len(space) <= c.pdu.alloc
  BY <1>2, <1>3, RoomChecked
<1>6. Laid(q, s, os, tail)
  BY <1>3 DEF Laid, Used
<1>7. ASSUME c.ok
      PROVE  /\ Laid(g, space, <<>>, <<>>)
             /\ g.etok = Len(space) /\ g.token = Len(t)
  <2> HIDE DEF c
  <2>1. c.pdu \in PduType /\ c.pdu.token = Len(t)
    BY <1>3, <1>5 DEF Same
  <2>2. 0 \in 0..MaxOpt
    BY MaxOptNat
  <2> HIDE DEF g
  <2>3. /\ g \in PduType /\ g.buf = space /\ g.etok = Len(space) /\ g.data = 0
        /\ g.maxOpt = 0 /\ g.alloc = c.pdu.alloc /\ g.token = Len(t)
    BY <1>2, <2>1, <2>2 DEF g, PduType
  <2>4. Used(g) <= g.alloc
    BY <1>5, <1>7, <2>3 DEF Used
  <2> QED
    BY <2>3, <2>4, TokenAlone
<1> HIDE DEF c, g
<1> QED
  BY <1>4, <1>5, <1>6, <1>7 DEF Fail, Done, space

(* What setting a token brings about.                                      *)
TokenSet(p, t, r) ==
    /\ Good(r.pdu) /\ r.ok \in BOOLEAN
    /\ r.ok => /\ r.pdu.etok = Len(TokenSpace(t)) /\ r.pdu.token = Len(t)
               /\ TokenPart(r.pdu) = TokenSpace(t)
    /\ ~r.ok /\ p.buf # <<>> => r.pdu = p

LEMMA AddTokenSets ==
    ASSUME NEW p, Good(p), NEW t \in Seq(Byte), Len(t) <= 254
    PROVE  TokenSet(p, t, AddToken(p, t))
<1> DEFINE r == AddToken(p, t)
<1>1. PICK s, os, tail : Laid(p, s, os, tail)
  BY DEF Good
<1>2. CASE p.buf # <<>>
  <2>1. r = Fail(p)
    BY <1>2 DEF AddToken
  <2> QED
    BY <2>1 DEF Fail, TokenSet
<1>3. CASE p.buf = <<>>
  <2> HIDE DEF r
  <2>1. /\ r.ok \in BOOLEAN
        /\ r.ok => /\ Laid(r.pdu, TokenSpace(t), <<>>, <<>>)
                   /\ r.pdu.etok = Len(TokenSpace(t)) /\ r.pdu.token = Len(t)
        /\ ~r.ok => Laid(r.pdu, s, os, tail)
    BY <1>1, <1>3, AddTokenLays DEF r
  <2>2. Good(r.pdu)
    BY <2>1 DEF Good
  <2>3. r.ok => TokenPart(r.pdu) = TokenSpace(t)
    BY <2>1, LaidToken
  <2> QED
    BY <1>3, <2>1, <2>2, <2>3 DEF TokenSet, r
<1> QED
  BY <1>2, <1>3

LEMMA UpdateTokenSets ==
    ASSUME NEW p, Good(p), NEW t \in Seq(Byte), Len(t) <= 254
    PROVE  TokenSet(p, t, UpdateToken(p, t))
<1>1. PICK s, os, tail : Laid(p, s, os, tail)
  BY DEF Good
<1> DEFINE space == TokenSpace(t)
           check == CheckResize(p, Used(p) + Len(space) - p.etok)
           c == IF Len(space) <= p.etok THEN Done(p) ELSE check
           u == c.pdu
           F == Flat(0, os)
           b == F \o tail
           q == [Splice(u, 1, space, p.etok + 1)
                   EXCEPT !.token = Len(t), !.etok = Len(space) % 256]
           r == UpdateToken(p, t)
<1>2. CASE p.buf = <<>>
  BY <1>2, AddTokenSets DEF UpdateToken
<1>3. CASE p.buf # <<>>
  <2>1. r = IF ~c.ok THEN Fail(p) ELSE Done(q)
    BY <1>3 DEF UpdateToken
  <2>2. space \in Seq(Byte) /\ Len(space) \in Nat /\ Len(space) % 256 = Len(space)
    <3>1. space \in Seq(Byte) /\ Len(space) \in 0..255
      BY SpaceType
    <3> HIDE DEF space
    <3>2. \A i \in 0..255 : i \in Nat /\ i % 256 = i
      OBVIOUS
    <3> QED
      BY <3>1, <3>2
  <2> HIDE DEF space
  <2>3. /\ p \in PduType /\ s \in Seq(Byte) /\ Run(0, os) /\ tail \in Seq(Byte)
        /\ F \in Seq(Byte) /\ p.buf = (s \o F) \o tail /\ p.etok = Len(s)
        /\ p.data = IF tail = <<>> THEN 0 ELSE Len(s) + Len(F) + 1
        /\ Used(p) <= p.alloc
    BY <1>1, FlatType DEF Laid
  <2> HIDE DEF F
  <2>4. /\ Len(s) \in Nat /\ Len(F) \in Nat /\ Len(tail) \in Nat /\ Len(t) \in Nat
        /\ Used(p) \in Nat /\ p.alloc \in Nat /\ p.etok \in Nat
    BY <2>3, SizesNat, LenProperties DEF PduType, Used
  <2>5. b \in Seq(Byte) /\ Len(b) = Len(F) + Len(tail)
    BY <2>3, Cat
  <2>6. \A a \in Seq(Byte) : /\ (a \o F) \o tail = (<<>> \o a) \o b
                             /\ (a \o F) \o tail \in Seq(Byte)
                             /\ Len((a \o F) \o tail) = Len(a) + Len(b)
    <3> SUFFICES ASSUME NEW a \in Seq(Byte)
                 PROVE  /\ (a \o F) \o tail = (<<>> \o a) \o b
                        /\ (a \o F) \o tail \in Seq(Byte)
                        /\ Len((a \o F) \o tail) = Len(a) + Len(b)
      OBVIOUS
    <3>1. (a \o F) \o tail = a \o b
      BY <2>3, Glue
    <3>2. <<>> \o a = a
      BY ConcatEmptySeq
    <3> HIDE DEF b
    <3>3. a \o b \in Seq(Byte) /\ Len(a \o b) = Len(a) + Len(b)
      BY <2>5, Cat
    <3> QED
      BY <3>1, <3>2, <3>3
  <2> HIDE DEF b
  <2>7. Used(p) = Len(s) + Len(b)
    BY <2>3, <2>6 DEF Used
  <2>8. /\ c.ok \in BOOLEAN /\ Same(p, u)
        /\ c.ok => Len(space) + Len(b) <= u.alloc
    <3>0. Len(b) \in Nat
      BY <2>5, LenProperties
    <3>1. CASE Len(space) <= p.etok
      <4>1. c.ok = TRUE /\ u = p
        BY <3>1 DEF Done
      <4>2. Len(space) + Len(b) <= p.alloc
        <5>1. Len(space) <= Len(s) /\ Len(s) + Len(b) <= p.alloc
          BY <2>3, <2>7, <3>1
        <5>2. \A h, i, j, k \in Nat : h <= i /\ i + j <= k => h + j <= k
          OBVIOUS
        <5> QED
          BY <2>2, <2>4, <3>0, <5>1, <5>2
      <4>3. Same(p, u)
        BY <2>3, <4>1 DEF Same
      <4> HIDE DEF c
      <4> QED
        BY <4>1, <4>2, <4>3
    <3>2. CASE ~(Len(space) <= p.etok)
      <4>1. c = check
        BY <3>2
      <4>2. /\ Used(p) + Len(space) - p.etok \in Nat
            /\ Used(p) + Len(space) - p.etok = Len(space) + Len(b)
        BY <2>2, <2>3, <2>4, <2>7, <3>0
      <4>3. /\ Same(p, check.pdu) /\ check.ok \in BOOLEAN
            /\ check.ok => Used(p) + Len(space) - p.etok <= check.pdu.alloc
        BY <2>3, <4>2, RoomChecked
      <4> HIDE DEF check
      <4> QED
        BY <4>1, <4>2, <4>3
    <3> QED
      BY <3>1, <3>2
  <2> HIDE DEF c
  <2>9. CASE ~c.ok
    BY <1>3, <2>1, <2>9 DEF Fail, TokenSet
  <2>10. CASE c.ok
    <3> DEFINE data == IF p.data = 0 THEN 0 ELSE p.data + Len(space) - Len(s)
               B == (<<>> \o space) \o b
    <3>1. Splice(u, 1, space, p.etok + 1) = Shifted(u, <<>>, s, space, b)
      <4>1. /\ <<>> \in Seq(Byte) /\ Len(<<>>) + 1 = 1 /\ p.etok + 1 = 1 + Len(s)
        BY <2>3, <2>4, EmptySeq
      <4>2. u.buf = (<<>> \o s) \o b
        BY <2>3, <2>6, <2>8 DEF Same
      <4>3. Replaces(u, <<>>, s, b, 1, p.etok + 1)
        BY <2>3, <2>5, <4>1, <4>2 DEF Replaces
      <4> QED
        BY <4>3, Spliced
    <3>2. q = [u EXCEPT !.buf = B, !.data = data, !.token = Len(t), !.etok = Len(space)]
      <4>1. u.data = p.data
        BY <2>8 DEF Same
      <4> QED
        BY <2>2, <3>1, <4>1 DEF Shifted
    <3>3. data = IF tail = <<>> THEN 0 ELSE Len(space) + Len(F) + 1
      BY <2>2, <2>3, <2>4
    <3>4. data \in Nat
      BY <2>2, <2>4, <3>3
    <3>5. B \in Seq(Byte) /\ Len(B) <= u.alloc /\ B = (space \o F) \o tail
      BY <2>2, <2>6, <2>8, <2>10
    <3> HIDE DEF q, data, B
    <3>6. /\ q \in PduType /\ q.buf = B /\ q.data = data /\ q.token = Len(t)
          /\ q.etok = Len(space) /\ q.maxOpt = p.maxOpt /\ q.alloc = u.alloc
      BY <2>2, <2>4, <2>8, <3>2, <3>4, <3>5 DEF Same, PduType
    <3>7. Laid(q, space, os, tail)
      <4>1. Used(q) <= q.alloc
        BY <3>5, <3>6 DEF Used
      <4>2. /\ tail = <<>> \/ (tail[1] = Marker /\ Len(tail) > 1)
            /\ p.maxOpt = End(0, os)
        BY <1>1 DEF Laid
      <4> QED
        BY <2>2, <2>3, <3>3, <3>5, <3>6, <4>1, <4>2 DEF Laid, F
    <3> HIDE DEF r
    <3>8. r.ok = TRUE /\ r.pdu = q
      BY <2>1, <2>10 DEF Done
    <3>9. Good(q) /\ TokenPart(q) = space
      BY <3>7, LaidToken DEF Good
    <3>10. TokenSet(p, t, r)
      BY <3>6, <3>8, <3>9 DEF TokenSet, space
    <3> QED
      BY <3>10 DEF r
  <2> QED
    BY <2>8, <2>9, <2>10
<1> QED
  BY <1>2, <1>3

-----------------------------------------------------------------------------
(* Adding a list of options                                                *)

LEMMA GreatestBelow ==
    ASSUME NEW n \in Nat, NEW S \in SUBSET (0..n), S # {}
    PROVE  \E m \in S : \A k \in S : k <= m
<1> DEFINE T == {n - i : i \in S}
<1>1. T \in SUBSET Nat /\ T # {}
  <2>1. \A i \in S : n - i \in Nat
    OBVIOUS
  <2>2. PICK i \in S : TRUE
    OBVIOUS
  <2>3. n - i \in T
    BY <2>2
  <2> QED
    BY <2>1, <2>3
<1>2. PICK c \in T : \A k \in T : c <= k
  <2> HIDE DEF T
  <2> QED
    BY <1>1, LeastNatural
<1>3. PICK m \in S : c = n - m
  BY <1>2
<1>4. ASSUME NEW k \in S PROVE k <= m
  <2>1. n - m <= n - k
    BY <1>2, <1>3
  <2> QED
    BY <2>1
<1> QED
  BY <1>4

(* The last of the options with the greatest number.                       *)
LEMMA LastIs ==
    ASSUME NEW list \in Seq(Item), NEW S \in SUBSET (1..Len(list)), S # {}
    PROVE  Max({i \in S : \A j \in S : list[j].number <= list[i].number}) \in S
<1> DEFINE T == {i \in S : \A j \in S : list[j].number <= list[i].number}
           N == {list[i].number : i \in S}
<1>1. Len(list) \in Nat /\ \A i \in S : list[i] \in Item /\ list[i].number \in 0..MaxOpt
  <2>1. Len(list) \in Nat /\ \A i \in 1..Len(list) : list[i] \in Item
    BY LenProperties, ElementOfSeq
  <2> QED
    BY <2>1, ItemType
<1>2. T # {}
  <2>1. N \in SUBSET (0..MaxOpt) /\ N # {}
    BY <1>1
  <2>2. PICK m \in N : \A k \in N : k <= m
    <3> HIDE DEF N
    <3> QED
      BY <2>1, MaxOptNat, GreatestBelow
  <2>3. PICK i \in S : m = list[i].number
    OBVIOUS
  <2>4. i \in T
    BY <2>2, <2>3
  <2> QED
    BY <2>4
<1>3. T \in SUBSET (0..Len(list))
  <2>1. T \subseteq S
    OBVIOUS
  <2> HIDE DEF T
  <2> DEFINE n == Len(list)
  <2>2. S \subseteq 1..n /\ n \in Nat
    BY <1>1
  <2> HIDE DEF n
  <2>3. 1..n \subseteq 0..n
    BY <2>2
  <2> QED
    BY <2>1, <2>2, <2>3 DEF n
<1> HIDE DEF T
<1>4. PICK m \in T : \A k \in T : k <= m
  BY <1>1, <1>2, <1>3, GreatestBelow
<1>5. \A k \in T : m >= k
  BY <1>1, <1>3, <1>4
<1>6. Max(T) \in T
  BY <1>4, <1>5 DEF Max
<1> QED
  BY <1>6 DEF T

LEMMA AddOptionListKeeps ==
    ASSUME NEW p, Good(p), NEW list \in Seq(Item)
    PROVE  Keeps(p, AddOptionList(p, list).pdu)
<1> DEFINE LastOf(S) == Max({i \in S : \A j \in S : list[j].number <= list[i].number})
           D == SUBSET DOMAIN list
           Step(f, S) == IF S = {} THEN p
                         ELSE AddOption(f[S \ {LastOf(S)}],
                                        list[LastOf(S)].number, list[LastOf(S)].value).pdu
           Is(f) == f = [S \in D |-> Step(f, S)]
           added == CHOOSE f : Is(f)
           V == {q \in PduType : Keeps(p, q)}
           rank == [S \in D |-> Cardinality(S)]
           G == [f \in [D -> V] |-> [S \in D |-> Step(f, S)]]
           start == [S \in D |-> p]
<1>1. AddOptionList(p, list).pdu = IF p.data # 0 THEN p ELSE added[DOMAIN list]
  BY SMTT(30) DEF AddOptionList, Fail, Done
<1>2. /\ DOMAIN list = 1..Len(list) /\ Len(list) \in Nat
      /\ \A i \in DOMAIN list : list[i] \in Item
  BY LenProperties, ElementOfSeq
<1>3. p \in V
  BY GoodType, GoodKeeps
<1>4. ASSUME NEW S \in D, S # {}
      PROVE  /\ LastOf(S) \in S /\ LastOf(S) \in DOMAIN list /\ S \ {LastOf(S)} \in D
             /\ list[LastOf(S)] \in Item
  <2>1. LastOf(S) \in S
    BY <1>2, <1>4, LastIs
  <2> HIDE DEF LastOf
  <2> QED
    BY <1>2, <2>1
<1>5. ASSUME NEW S \in D
      PROVE  /\ IsFiniteSet(S) /\ Cardinality(S) \in Nat
             /\ S # {} => Cardinality(S \ {LastOf(S)}) = Cardinality(S) - 1
             /\ Cardinality(S) = 0 <=> S = {}
  <2>1. IsFiniteSet(S)
    <3>1. IsFiniteSet(1..Len(list))
      BY <1>2, FS_Interval
    <3> QED
      BY <1>2, <3>1, FS_Subset
  <2> QED
    BY <1>4, <2>1, FS_CardinalityType, FS_RemoveElement, FS_EmptySet
<1>6. ASSUME NEW q \in V, NEW i \in DOMAIN list
      PROVE  AddOption(q, list[i].number, list[i].value).pdu \in V
  <2>1. Keeps(p, q) /\ Good(q) /\ list[i] \in Item
    BY <1>2 DEF Keeps
  <2> DEFINE r == AddOption(q, list[i].number, list[i].value).pdu
  <2>2. Keeps(q, r)
    BY <2>1, AddOptionKeeps
  <2> HIDE DEF r
  <2>3. Keeps(p, r) /\ r \in PduType
    BY <2>1, <2>2, KeepsTwice, GoodType DEF Keeps
  <2> QED
    BY <2>3 DEF r
<1> HIDE DEF LastOf, V
<1>7. ASSUME NEW f \in [D -> V], NEW S \in D
      PROVE  Step(f, S) \in V
  <2>1. CASE S = {}
    BY <1>3, <2>1
  <2>2. CASE S # {}
    <3>1. LastOf(S) \in DOMAIN list /\ f[S \ {LastOf(S)}] \in V
      BY <1>4, <2>2
    <3> QED
      BY <1>6, <2>2, <3>1
  <2> QED
    BY <2>1, <2>2
<1>8. \E f \in [D -> V] : Is(f)
  <2>1. rank \in [D -> Nat] /\ start \in [D -> V]
    BY <1>3, <1>5
  <2>2. G \in [[D -> V] -> [D -> V]]
    <3> HIDE DEF D, Step
    <3> QED
      BY <1>7
  <2>3. Descends(D, V, rank, G)
    <3> SUFFICES ASSUME NEW f \in [D -> V], NEW g \in [D -> V], NEW S \in D,
                        \A e \in D : rank[e] < rank[S] => f[e] = g[e]
                 PROVE  G[f][S] = G[g][S]
      BY DEF Descends
    <3>1. G[f][S] = Step(f, S) /\ G[g][S] = Step(g, S)
      <4> HIDE DEF D, Step
      <4> QED
        OBVIOUS
    <3>2. CASE S = {}
      BY <3>1, <3>2
    <3>3. CASE S # {}
      <4> DEFINE R == S \ {LastOf(S)}
      <4>1. R \in D
        BY <1>4, <3>3
      <4>2. rank[R] < rank[S]
        <5>1. rank[R] = Cardinality(R) /\ rank[S] = Cardinality(S)
          BY <4>1
        <5>2. Cardinality(R) = Cardinality(S) - 1 /\ Cardinality(S) \in Nat
          BY <1>5, <3>3
        <5> HIDE DEF R, rank
        <5> QED
          BY <5>1, <5>2
      <4>3. f[R] = g[R]
        BY <4>1, <4>2
      <4> QED
        BY <3>1, <3>3, <4>3
    <3> QED
      BY <3>2, <3>3
  <2> HIDE DEF rank, start
  <2>4. \E f \in [D -> V] : f = G[f]
    <3> HIDE DEF G, D, Step
    <3>1. Recursive(D, V, rank, G, start)
      BY <2>1, <2>2, <2>3 DEF Recursive
    <3> QED
      BY <3>1, Recursion
  <2>5. PICK f \in [D -> V] : f = G[f]
    BY <2>4
  <2>6. G[f] = [S \in D |-> Step(f, S)]
    <3> HIDE DEF D, Step
    <3> QED
      OBVIOUS
  <2> QED
    BY <2>5, <2>6
<1>9. Is(added)
  <2> HIDE DEF Is, D
  <2> QED
    BY <1>8
<1> HIDE DEF added
<1>10. \A S \in D : added[S] = Step(added, S)
  <2> HIDE DEF D, Step
  <2> QED
    BY <1>9
<1> DEFINE P == {k \in Nat : \A S \in D : Cardinality(S) <= k => added[S] \in V}
<1>11. 0 \in P
  <2> SUFFICES ASSUME NEW S \in D, Cardinality(S) <= 0 PROVE added[S] \in V
    OBVIOUS
  <2>1. S = {}
    <3>1. Cardinality(S) \in Nat /\ (Cardinality(S) = 0 <=> S = {})
      BY <1>5
    <3>2. Cardinality(S) = 0
      BY <3>1
    <3> QED
      BY <3>1, <3>2
  <2> QED
    BY <1>3, <1>10, <2>1
<1>12. ASSUME NEW k \in Nat, k \in P PROVE k + 1 \in P
  <2> SUFFICES ASSUME NEW S \in D, Cardinality(S) <= k + 1 PROVE added[S] \in V
    BY <1>12
  <2>1. CASE S = {}
    BY <1>3, <1>10, <2>1
  <2>2. CASE S # {}
    <3> DEFINE R == S \ {LastOf(S)}
    <3>1. R \in D /\ LastOf(S) \in DOMAIN list
      BY <1>4, <2>2
    <3>2. Cardinality(R) <= k
      <4>1. Cardinality(R) = Cardinality(S) - 1 /\ Cardinality(S) \in Nat
        BY <1>5, <2>2
      <4> HIDE DEF R
      <4> QED
        BY <4>1
    <3>3. added[R] \in V
      BY <1>12, <3>1, <3>2
    <3>4. added[S] = AddOption(added[R], list[LastOf(S)].number, list[LastOf(S)].value).pdu
      BY <1>10, <2>2
    <3> QED
      BY <1>6, <3>1, <3>3, <3>4
  <2> QED
    BY <2>1, <2>2
<1> HIDE DEF P
<1>13. \A k \in Nat : k \in P
  BY <1>11, <1>12, Induction
<1>14. added[DOMAIN list] \in V
  <2>1. DOMAIN list \in D
    OBVIOUS
  <2>2. Cardinality(DOMAIN list) \in Nat
    BY <1>5, <2>1
  <2>3. Cardinality(DOMAIN list) \in P
    BY <1>13, <2>2
  <2> QED
    BY <2>1, <2>2, <2>3 DEF P
<1> QED
  BY <1>1, <1>3, <1>14 DEF V

-----------------------------------------------------------------------------
(* Copies                                                                  *)

LEMMA FreshLaid ==
    ASSUME NEW m \in Nat
    PROVE  Laid([Fresh EXCEPT !.memory = m], <<>>, <<>>, <<>>)
<1> DEFINE p == [Fresh EXCEPT !.memory = m]
           alloc == IF MaxSize < Chunk THEN MaxSize ELSE Chunk
<1>1. alloc \in 0..MaxSize
  BY SizesNat
<1>2. p = [buf |-> <<>>, etok |-> 0, token |-> 0, data |-> 0, maxOpt |-> 0,
           alloc |-> alloc, memory |-> m]
  BY DEF Fresh
<1>3. 0 \in 0..MaxOpt /\ <<>> \in Seq(Byte) /\ Len(<<>>) = 0
  BY MaxOptNat, EmptySeq
<1> HIDE DEF p, alloc
<1>4. /\ p \in PduType /\ p.buf = <<>> /\ p.etok = 0 /\ p.data = 0 /\ p.maxOpt = 0
      /\ p.alloc \in Nat
  BY <1>1, <1>2, <1>3, SizesNat DEF PduType
<1>5. Used(p) <= p.alloc
  BY <1>3, <1>4 DEF Used
<1>6. Laid(p, <<>>, <<>>, <<>>)
  BY <1>3, <1>4, <1>5, TokenAlone
<1> QED
  BY <1>6 DEF p

(* The options as they are, behind a token.                                *)
LEMMA BodyCopied ==
    ASSUME NEW p, Good(p), NEW q, NEW u, Laid(q, u, <<>>, <<>>),
           NEW body, body = SubSeq(p.buf, p.etok + 1, IF p.data = 0 THEN Used(p) ELSE p.data - 1),
           NEW r, r = Resize(q, Len(body) + q.etok), r.ok
    PROVE  Keeps(q, [r.pdu EXCEPT !.buf = @ \o body, !.maxOpt = p.maxOpt])
<1>1. PICK t, os, tail : Laid(p, t, os, tail)
  BY DEF Good
<1> DEFINE F == Flat(0, os)
           c == [r.pdu EXCEPT !.buf = @ \o body, !.maxOpt = p.maxOpt]
           e == IF p.data = 0 THEN Used(p) ELSE p.data - 1
<1>2. /\ p \in PduType /\ t \in Seq(Byte) /\ Run(0, os) /\ tail \in Seq(Byte)
      /\ F \in Seq(Byte) /\ p.buf = (t \o F) \o tail /\ p.etok = Len(t)
      /\ p.data = IF tail = <<>> THEN 0 ELSE Len(t) + Len(F) + 1
      /\ p.maxOpt = End(0, os)
  BY <1>1, FlatType DEF Laid
<1> HIDE DEF F
<1>3. Len(t) \in Nat /\ Len(F) \in Nat /\ Len(tail) \in Nat /\ Len(<<>>) = 0
  BY <1>2, LenProperties, EmptySeq
<1>4. body = F
  <2>1. /\ SubSeq(p.buf, Len(t) + 1, Len(t) + Len(F)) = F
        /\ Len(p.buf) = (Len(t) + Len(F)) + Len(tail)
    BY <1>2, ThreeParts
  <2>2. e = Len(t) + Len(F)
    <3> DEFINE i == Len(t)
               j == Len(F)
    <3>1. CASE tail = <<>>
      BY <1>2, <1>3, <2>1, <3>1 DEF Used
    <3>2. CASE tail # <<>>
      <4>1. p.data = i + j + 1 /\ i \in Nat /\ j \in Nat
        BY <1>2, <1>3, <3>2
      <4> HIDE DEF i, j
      <4>2. e = i + j
        BY <4>1
      <4> QED
        BY <4>2 DEF i, j
    <3> QED
      BY <3>1, <3>2
  <2> HIDE DEF e
  <2>3. body = SubSeq(p.buf, p.etok + 1, e)
    BY DEF e
  <2> QED
    BY <1>2, <2>1, <2>2, <2>3
<1>5. q \in PduType /\ u \in Seq(Byte) /\ q.buf = u /\ q.etok = Len(u) /\ q.data = 0
  <2>1. /\ q \in PduType /\ u \in Seq(Byte) /\ q.etok = Len(u) /\ q.data = 0
        /\ q.buf = (u \o Flat(0, <<>>)) \o <<>>
    BY DEF Laid
  <2>2. Flat(0, <<>>) = <<>>
    <3>1. 0 \in 0..MaxOpt
      BY MaxOptNat
    <3> QED
      BY <3>1, FlatEmpty
  <2>3. (u \o <<>>) \o <<>> = u
    BY <2>1, ConcatEmptySeq
  <2> QED
    BY <2>1, <2>2, <2>3
<1>6. Same(q, r.pdu) /\ r.pdu.alloc = Len(F) + Len(u)
  <2>1. Len(F) + Len(u) \in Nat
    BY <1>2, <1>5, LenProperties
  <2>2. r = Resize(q, Len(F) + Len(u))
    BY <1>4, <1>5
  <2> DEFINE size == Len(F) + Len(u)
  <2> HIDE DEF size
  <2>3. Same(q, Resize(q, size).pdu) /\ (Resize(q, size).ok => Resize(q, size).pdu.alloc = size)
    BY <1>5, <2>1, Resized DEF size
  <2> QED
    BY <2>2, <2>3 DEF size
<1> DEFINE B == u \o F
           d == r.pdu
<1>7. B \in Seq(Byte) /\ Len(B) = Len(u) + Len(F) /\ B = B \o <<>>
  BY <1>2, <1>5, Cat, ConcatEmptySeq
<1>8. c = [d EXCEPT !.buf = B, !.maxOpt = p.maxOpt]
  BY <1>4, <1>5, <1>6 DEF Same
<1> HIDE DEF B, c, d
<1>9. /\ d \in PduType /\ d.etok = q.etok /\ d.token = q.token /\ d.data = 0
      /\ d.alloc = Len(F) + Len(u) /\ p.maxOpt \in 0..MaxOpt
  BY <1>2, <1>5, <1>6 DEF Same, PduType, d
<1>10. /\ c \in PduType /\ c.buf = B /\ c.maxOpt = p.maxOpt /\ c.etok = q.etok
       /\ c.token = q.token /\ c.data = 0 /\ c.alloc = d.alloc
  BY <1>7, <1>8, <1>9 DEF PduType
<1>11. Used(c) <= c.alloc
  <2>1. Len(u) \in Nat
    BY <1>5, LenProperties
  <2>2. Len(u) + Len(F) <= Len(F) + Len(u)
    BY <1>3, <2>1
  <2> QED
    BY <1>7, <1>9, <1>10, <2>2 DEF Used
<1>12. Laid(c, u, os, <<>>)
  <2>1. <<>> \in Seq(Byte)
    BY EmptySeq
  <2> QED
    BY <1>2, <1>5, <1>7, <1>10, <1>11, <2>1 DEF Laid, B, F
<1>13. Keeps(q, c)
  BY <1>10, <1>12, LaidKeeps
<1> QED
  BY <1>13 DEF c

(* What a function that adds an option returns.                            *)
Outcome == [ok : BOOLEAN, pdu : PduType]

LEMMA AddOptionOutcome ==
    ASSUME NEW p, Good(p), NEW o \in Item
    PROVE  AddOption(p, o.number, o.value) \in Outcome
<1> DEFINE n == o.number
           v == o.value
           r == AddOption(p, n, v)
           Is(a) == a = Done(a.pdu) \/ a = Fail(a.pdu)
<1>1. \A a : Is(Fail(a)) /\ Is(Done(a))
  BY DEF Done, Fail
<1>2. \A q : Is(AddAtEnd(q, n, v))
  <2> HIDE DEF Is
  <2> QED
    BY <1>1 DEF AddAtEnd
<1>3. \A q, e : Is(PutBefore(q, e, n, v))
  <2> HIDE DEF Is
  <2> QED
    BY <1>1 DEF PutBefore
<1>4. \A q : Is(Place(q, n, v))
  <2> HIDE DEF Is
  <2> QED
    BY <1>2, <1>3 DEF Place, InsertInside
<1>5. Is(r)
  <2> HIDE DEF Is
  <2> QED
    BY <1>1, <1>4 DEF AddOption
<1>6. r.pdu \in PduType
  BY AddOptionKeeps, GoodType DEF Keeps
<1> HIDE DEF r
<1>7. r \in Outcome
  <2>1. \A a \in PduType : Done(a) \in Outcome /\ Fail(a) \in Outcome
    BY DEF Done, Fail, Outcome
  <2> QED
    BY <1>5, <1>6, <2>1
<1> QED
  BY <1>7 DEF r

(* The options that are not dropped, one by one.                           *)
CopiedTo(p, q, dropped) ==
    LET es == Entries(p)
        copied[i \in 0..Len(es)] ==
            IF i = 0 THEN Done(q)
            ELSE IF ~copied[i - 1].ok \/ es[i].number \in dropped THEN copied[i - 1]
            ELSE AddOption(copied[i - 1].pdu, es[i].number, ValueOf(p, es[i]))
    IN  copied[Len(es)]

LEMMA OptionsCopied ==
    ASSUME NEW p, Good(p), NEW q, Good(q), NEW dropped
    PROVE  Keeps(q, CopiedTo(p, q, dropped).pdu)
<1>1. PICK t, os, tail : Laid(p, t, os, tail)
  BY DEF Good
<1> DEFINE es == Entries(p)
           n == Len(es)
           D == 0..n
           Step(f, i) == IF i = 0 THEN Done(q)
                         ELSE IF ~f[i - 1].ok \/ es[i].number \in dropped THEN f[i - 1]
                         ELSE AddOption(f[i - 1].pdu, es[i].number, ValueOf(p, es[i]))
           Is(f) == f = [i \in D |-> Step(f, i)]
           copied == CHOOSE f : Is(f)
           V == {c \in Outcome : Keeps(q, c.pdu)}
           rank == [i \in D |-> i]
           G == [f \in [D -> V] |-> [i \in D |-> Step(f, i)]]
           start == [i \in D |-> Done(q)]
<1>2. CopiedTo(p, q, dropped) = copied[n]
  BY DEF CopiedTo
<1> HIDE DEF copied
<1>3. /\ n = Len(os) /\ n \in Nat
      /\ \A i \in 1..n : es[i].number = os[i].number /\ ValueOf(p, es[i]) = os[i].value
                         /\ os[i] \in Item
  <2>1. n = Len(os) /\ n \in Nat /\ os \in Seq(Item)
    BY <1>1, EntriesLength
  <2> SUFFICES ASSUME NEW i \in 1..Len(os)
               PROVE  /\ es[i].number = os[i].number /\ ValueOf(p, es[i]) = os[i].value
                      /\ os[i] \in Item
    BY <2>1
  <2>2. AtIndex(p, t, os, tail, i)
    BY <1>1, IndexIs
  <2>3. es[i].number = os[i].number /\ os[i] \in Item
    BY <2>1, <2>2, ElementOfSeq DEF AtIndex
  <2>4. ValueOf(p, es[i]) = os[i].value
    BY <1>1, ValueFound
  <2> QED
    BY <2>3, <2>4
<1> HIDE DEF n
<1>4. Done(q) \in V
  BY GoodType, GoodKeeps DEF Done, Outcome
<1>5. ASSUME NEW c \in V, NEW i \in 1..n
      PROVE  AddOption(c.pdu, es[i].number, ValueOf(p, es[i])) \in V
  <2> DEFINE a == AddOption(c.pdu, os[i].number, os[i].value)
  <2>1. Keeps(q, c.pdu) /\ Good(c.pdu) /\ os[i] \in Item
    BY <1>3 DEF Keeps
  <2>2. Keeps(c.pdu, a.pdu) /\ a \in Outcome
    BY <2>1, AddOptionKeeps, AddOptionOutcome
  <2>3. a = AddOption(c.pdu, es[i].number, ValueOf(p, es[i]))
    BY <1>3
  <2> HIDE DEF a
  <2>4. Keeps(q, a.pdu)
    BY <2>1, <2>2, KeepsTwice
  <2> QED
    BY <2>2, <2>3, <2>4
<1> HIDE DEF V
<1>6. ASSUME NEW f \in [D -> V], NEW i \in D
      PROVE  Step(f, i) \in V
  <2>1. CASE i = 0
    BY <1>4, <2>1
  <2>2. CASE i # 0
    <3>1. i \in 1..n /\ i - 1 \in D
      BY <1>3, <2>2
    <3>2. f[i - 1] \in V
      BY <3>1
    <3>3. AddOption(f[i - 1].pdu, es[i].number, ValueOf(p, es[i])) \in V
      BY <1>5, <3>1, <3>2
    <3> QED
      BY <2>2, <3>2, <3>3
  <2> QED
    BY <2>1, <2>2
<1>7. \E f \in [D -> V] : Is(f)
  <2>1. rank \in [D -> Nat] /\ start \in [D -> V]
    BY <1>3, <1>4
  <2>2. G \in [[D -> V] -> [D -> V]]
    <3> HIDE DEF D, Step
    <3> QED
      BY <1>6
  <2>3. Descends(D, V, rank, G)
    <3> SUFFICES ASSUME NEW f \in [D -> V], NEW g \in [D -> V], NEW i \in D,
                        \A e \in D : rank[e] < rank[i] => f[e] = g[e]
                 PROVE  G[f][i] = G[g][i]
      BY DEF Descends
    <3>1. G[f][i] = Step(f, i) /\ G[g][i] = Step(g, i)
      <4> HIDE DEF D, Step
      <4> QED
        OBVIOUS
    <3>2. CASE i = 0
      BY <3>1, <3>2
    <3>3. CASE i # 0
      <4>1. i - 1 \in D /\ rank[i - 1] < rank[i]
        BY <1>3, <3>3
      <4>2. f[i - 1] = g[i - 1]
        BY <4>1
      <4> QED
        BY <3>1, <3>3, <4>2
    <3> QED
      BY <3>2, <3>3
  <2> HIDE DEF rank, start
  <2>4. \E f \in [D -> V] : f = G[f]
    <3> HIDE DEF G, D, Step
    <3>1. Recursive(D, V, rank, G, start)
      BY <2>1, <2>2, <2>3 DEF Recursive
    <3> QED
      BY <3>1, Recursion
  <2>5. PICK f \in [D -> V] : f = G[f]
    BY <2>4
  <2>6. G[f] = [i \in D |-> Step(f, i)]
    <3> HIDE DEF D, Step
    <3> QED
      OBVIOUS
  <2> QED
    BY <2>5, <2>6
<1>8. Is(copied)
  <2> HIDE DEF Is, D
  <2> QED
    BY <1>7 DEF copied
<1>9. \A i \in D : copied[i] = Step(copied, i)
  <2> HIDE DEF D, Step
  <2> QED
    BY <1>8
<1> DEFINE P == {k \in Nat : k \in D => copied[k] \in V}
<1>10. 0 \in P
  <2>1. 0 \in D
    BY <1>3
  <2> QED
    BY <1>4, <1>9, <2>1
<1>11. ASSUME NEW k \in Nat, k \in P PROVE k + 1 \in P
  <2> SUFFICES ASSUME k + 1 \in D PROVE copied[k + 1] \in V
    OBVIOUS
  <2>1. k \in D /\ k + 1 \in 1..n /\ (k + 1) - 1 = k /\ k + 1 # 0
    BY <1>3
  <2>2. copied[k] \in V
    BY <1>11, <2>1
  <2>3. copied[k + 1] = Step(copied, k + 1)
    BY <1>9
  <2>4. AddOption(copied[k].pdu, es[k + 1].number, ValueOf(p, es[k + 1])) \in V
    BY <1>5, <2>1, <2>2
  <2> HIDE DEF D
  <2> QED
    BY <2>1, <2>2, <2>3, <2>4
<1> HIDE DEF P
<1>12. \A k \in Nat : k \in P
  BY <1>10, <1>11, Induction
<1>13. copied[n] \in V
  <2>1. n \in D /\ n \in P
    BY <1>3, <1>12
  <2> HIDE DEF D
  <2> QED
    BY <2>1 DEF P
<1> QED
  BY <1>2, <1>13 DEF V

(* The copy has the token, if it fits.                                     *)
TokenOnly(p, t) == AddToken([Fresh EXCEPT !.memory = p.memory], t)

LEMMA DuplicateKeeps ==
    ASSUME NEW p, Good(p), NEW t \in Seq(Byte), Len(t) <= 254, NEW dropped
    PROVE  /\ TokenOnly(p, t).ok \in BOOLEAN
           /\ Keeps(TokenOnly(p, t).pdu, Duplicate(p, t, dropped).pdu)
           /\ TokenOnly(p, t).ok => /\ TokenOnly(p, t).pdu.etok = Len(TokenSpace(t))
                                    /\ TokenOnly(p, t).pdu.token = Len(t)
                                    /\ TokenPart(TokenOnly(p, t).pdu) = TokenSpace(t)
<1> DEFINE f == [Fresh EXCEPT !.memory = p.memory]
           a == TokenOnly(p, t)
           q == a.pdu
           body == SubSeq(p.buf, p.etok + 1, IF p.data = 0 THEN Used(p) ELSE p.data - 1)
           r == Resize(q, Len(body) + q.etok)
           c == CopiedTo(p, q, dropped)
           d == [r.pdu EXCEPT !.buf = @ \o body, !.maxOpt = p.maxOpt]
<1>1. Laid(f, <<>>, <<>>, <<>>) /\ f.buf = <<>>
  <2>1. p.memory \in Nat
    BY GoodType DEF PduType
  <2> QED
    BY <2>1, FreshLaid DEF Fresh
<1>2. Duplicate(p, t, dropped).pdu = IF dropped # {} THEN c.pdu ELSE IF ~r.ok THEN q ELSE d
  <2>1. CASE dropped # {}
    <3>1. Duplicate(p, t, dropped) = CopiedTo(p, AddToken(f, t).pdu, dropped)
      <4> HIDE DEF f
      <4> QED
        BY <2>1, Zenon DEF Duplicate, CopiedTo, f
    <3> QED
      BY <2>1, <3>1 DEF TokenOnly
  <2>2. CASE dropped = {}
    BY <2>2 DEF Duplicate, TokenOnly, Fail, Done
  <2> QED
    BY <2>1, <2>2
<1> HIDE DEF f, c
<1>3. /\ a.ok \in BOOLEAN
      /\ a.ok => /\ Laid(q, TokenSpace(t), <<>>, <<>>)
                 /\ q.etok = Len(TokenSpace(t)) /\ q.token = Len(t)
      /\ ~a.ok => Laid(q, <<>>, <<>>, <<>>)
  BY <1>1, AddTokenLays DEF f, TokenOnly
<1>4. PICK u : Laid(q, u, <<>>, <<>>)
  BY <1>3
<1>5. Good(q)
  BY <1>4 DEF Good
<1> HIDE DEF q
<1>6. Keeps(q, c.pdu)
  BY <1>5, OptionsCopied DEF c
<1>7. r.ok => Keeps(q, d)
  <2> HIDE DEF body, r
  <2> QED
    BY <1>4, BodyCopied DEF body, r
<1>8. Keeps(q, q)
  BY <1>5, GoodKeeps
<1> HIDE DEF d, r
<1>9. Keeps(q, Duplicate(p, t, dropped).pdu)
  BY <1>2, <1>6, <1>7, <1>8
<1>10. a.ok => TokenPart(q) = TokenSpace(t)
  BY <1>3, LaidToken
<1> QED
  BY <1>3, <1>9, <1>10 DEF q

-----------------------------------------------------------------------------
(* The invariant                                                           *)

(* In front of the options is the space of a token that has the length from
   which the header is made.                                               *)
HoldsToken(p, t) ==
    /\ p.etok = Len(TokenSpace(t)) /\ p.token = Len(t)
    /\ TokenPart(p) = TokenSpace(t)

Announced(p) == \E t \in Seq(Byte) : Len(t) <= 254 /\ HoldsToken(p, t)

(* The message is laid out as it should be, and begins with the token that
   it announces.                                                           *)
PduInv ==
    /\ Good(pdu) /\ pdu.memory = 0
    /\ said = Message(pdu)
    /\ tokenRefused \in BOOLEAN
    /\ tokenRefused \/ Announced(pdu)

(* Tokens whose length and their own bytes fit into 255 bytes; of a longer
   one UpdateToken forgets where it ends.                                  *)
TokensFit == \A t \in Tokens : Len(t) <= 254

LEMMA Inputs ==
    /\ \A t \in Tokens : t \in Seq(Byte)
    /\ \A bytes \in Payloads : bytes \in Seq(Byte) /\ bytes # <<>>
    /\ \A n \in Numbers, v \in Values : [number |-> n, value |-> v] \in Item
    /\ \A list \in Lists : list \in Seq(Item)
    /\ Reallocs \in Nat
<1>1. \A i \in 1..MaxOpt : i \in 0..MaxOpt
  BY MaxOptNat
<1>2. \A n \in Numbers : n \in 1..MaxOpt
  BY PduAssumption
<1>3. \A v \in Values : v \in Seq(Byte) /\ Len(v) <= LongestValue
  BY PduAssumption
<1>4. ASSUME NEW n \in Numbers, NEW v \in Values
      PROVE  [number |-> n, value |-> v] \in Item
  BY <1>1, <1>2, <1>3 DEF Item
<1>5. ASSUME NEW list \in Lists PROVE list \in Seq(Item)
  <2> DEFINE A == [number : 1..MaxOpt, value : Seq(Byte)]
  <2>1. list \in Seq(A) /\ \A i \in DOMAIN list : Len(list[i].value) <= LongestValue
    BY PduAssumption
  <2>2. DOMAIN list = 1..Len(list) /\ Len(list) \in Nat
    BY <2>1, LenProperties
  <2>3. \A i \in DOMAIN list : list[i] \in A
    <3> HIDE DEF A
    <3> QED
      BY <2>1, <2>2, ElementOfSeq
  <2>4. \A i \in DOMAIN list : list[i] \in Item
    BY <1>1, <2>1, <2>3 DEF Item
  <2>5. list = [i \in 1..Len(list) |-> list[i]]
    <3> HIDE DEF A
    <3> QED
      BY <2>1, <2>2
  <2>6. list \in [1..Len(list) -> Item]
    BY <2>2, <2>4, <2>5
  <2> QED
    BY <2>2, <2>6, SeqDef
<1> QED
  BY <1>4, <1>5, PduAssumption

(* How much memory a call may get makes no difference to the message.      *)
LEMMA MemoryFree ==
    ASSUME NEW p, Good(p), NEW m \in Nat
    PROVE  /\ Keeps(p, [p EXCEPT !.memory = m])
           /\ [p EXCEPT !.memory = m].buf = p.buf /\ [p EXCEPT !.memory = m].memory = m
<1> DEFINE q == [p EXCEPT !.memory = m]
<1>1. p \in PduType
  BY GoodType
<1>2. /\ q \in PduType /\ q.buf = p.buf /\ q.etok = p.etok /\ q.token = p.token
      /\ q.data = p.data /\ q.maxOpt = p.maxOpt /\ q.alloc = p.alloc /\ q.memory = m
  BY <1>1 DEF PduType
<1> HIDE DEF q
<1>3. Good(q)
  BY <1>2 DEF Good, Laid, Used
<1>4. Keeps(p, q) /\ q.buf = p.buf /\ q.memory = m
  BY <1>2, <1>3 DEF Keeps, TokenPart
<1> QED
  BY <1>4 DEF q

(* What a call leaves behind.                                              *)
LEMMA Becoming ==
    ASSUME NEW p, Good(p), Becomes(p)
    PROVE  /\ Good(pdu') /\ pdu'.memory = 0 /\ said' = Message(pdu')
           /\ pdu'.etok = p.etok /\ pdu'.token = p.token
           /\ TokenPart(pdu') = TokenPart(p)
<1>1. pdu' = [p EXCEPT !.memory = 0] /\ said' = Message(pdu')
  BY DEF Becomes
<1>2. 0 \in Nat
  OBVIOUS
<1> QED
  BY <1>1, <1>2, MemoryFree DEF Keeps

(* A call that does not touch the token keeps the invariant.               *)
LEMMA KeepsInv ==
    ASSUME PduInv, NEW m \in Nat, NEW q, Keeps(With(m), q), Becomes(q), UNCHANGED tokenRefused
    PROVE  PduInv'
<1>1. Keeps(pdu, With(m))
  BY MemoryFree DEF PduInv, With
<1>2. /\ Good(q) /\ q.etok = pdu.etok /\ q.token = pdu.token
      /\ TokenPart(q) = TokenPart(pdu)
  BY <1>1 DEF Keeps
<1>3. /\ Good(pdu') /\ pdu'.memory = 0 /\ said' = Message(pdu')
      /\ pdu'.etok = q.etok /\ pdu'.token = q.token /\ TokenPart(pdu') = TokenPart(q)
  BY <1>2, Becoming
<1>4. Announced(pdu) => Announced(pdu')
  BY <1>2, <1>3 DEF Announced, HoldsToken
<1> QED
  BY <1>3, <1>4 DEF PduInv

LEMMA PduInitially == PduInit => PduInv
<1> SUFFICES ASSUME PduInit PROVE PduInv
  OBVIOUS
<1>1. Fresh = [Fresh EXCEPT !.memory = 0]
  BY DEF Fresh
<1>2. Good(Fresh)
  <2>1. 0 \in Nat
    OBVIOUS
  <2>2. Laid([Fresh EXCEPT !.memory = 0], <<>>, <<>>, <<>>)
    BY <2>1, FreshLaid
  <2> QED
    BY <1>1, <2>2 DEF Good
<1>3. Announced(Fresh)
  <2>1. /\ <<>> \in Seq(Byte) /\ Len(<<>>) = 0
        /\ TokenSpace(<<>>) = <<>>
    <3>1. <<>> \in Seq(Byte) /\ Len(<<>>) = 0
      BY EmptySeq
    <3>2. Extension(0) = <<>>
      BY DEF Extension
    <3> QED
      BY <3>1, <3>2, ConcatEmptySeq DEF TokenSpace
  <2>2. Fresh.buf = <<>> /\ Fresh.etok = 0 /\ Fresh.token = 0
    BY DEF Fresh
  <2>3. SubSeq(<<>>, 1, 0) = <<>>
    BY <2>1, SubSeqFull
  <2>4. HoldsToken(Fresh, <<>>)
    BY <2>1, <2>2, <2>3 DEF HoldsToken, TokenPart
  <2>5. <<>> \in Seq(Byte) /\ Len(<<>>) <= 254
    BY <2>1
  <2> QED
    BY <2>4, <2>5, Zenon DEF Announced
<1>4. pdu = Fresh /\ said = Message(pdu) /\ tokenRefused = FALSE
  BY DEF PduInit
<1>5. Fresh.memory = 0
  BY DEF Fresh
<1> QED
  BY <1>2, <1>3, <1>4, <1>5 DEF PduInv

LEMMA PduStep ==
    ASSUME TokensFit, PduInv, [PduNext]_pduVars
    PROVE  PduInv'
<1>1. CASE UNCHANGED pduVars
  BY <1>1 DEF pduVars, PduInv
<1>2. CASE PduNext
  <2>1. PICK m \in 0..Reallocs :
           \/ \E t \in Tokens : SetToken(t, m) \/ Copy(t, m)
           \/ ChangeOptions(m)
           \/ SetPayload(m)
    BY <1>2 DEF PduNext
  <2>2. m \in Nat
    BY Inputs
  <2> DEFINE w == With(m)
  <2>3. /\ Keeps(pdu, w) /\ Good(w) /\ w.buf = pdu.buf /\ w.memory = m
    BY <2>2, MemoryFree DEF PduInv, With, Keeps
  <2> HIDE DEF w
  <2>4. \A t \in Tokens : t \in Seq(Byte) /\ Len(t) <= 254
    BY Inputs DEF TokensFit
  <2>5. ASSUME NEW t \in Tokens, SetToken(t, m) PROVE PduInv'
    <3>1. PICK r \in {AddToken(w, t), UpdateToken(w, t)} :
             /\ Becomes(r.pdu)
             /\ tokenRefused' = IF r.ok THEN FALSE ELSE tokenRefused \/ pdu.buf = <<>>
      BY <2>5 DEF SetToken, w
    <3>2. TokenSet(w, t, r)
      BY <2>3, <2>4, <3>1, AddTokenSets, UpdateTokenSets
    <3>3. /\ Good(pdu') /\ pdu'.memory = 0 /\ said' = Message(pdu')
          /\ pdu'.etok = r.pdu.etok /\ pdu'.token = r.pdu.token
          /\ TokenPart(pdu') = TokenPart(r.pdu)
      BY <3>1, <3>2, Becoming DEF TokenSet
    <3>4. CASE r.ok
      <4>1. tokenRefused' = FALSE
        BY <3>1, <3>4
      <4>2. HoldsToken(pdu', t)
        BY <3>2, <3>3, <3>4 DEF TokenSet, HoldsToken
      <4>3. Announced(pdu')
        BY <2>4, <4>2 DEF Announced
      <4> QED
        BY <3>3, <4>1, <4>3 DEF PduInv
    <3>5. CASE ~r.ok /\ pdu.buf = <<>>
      <4>1. tokenRefused' = TRUE
        BY <3>1, <3>5 DEF PduInv
      <4> QED
        BY <3>3, <4>1 DEF PduInv
    <3>6. CASE ~r.ok /\ pdu.buf # <<>>
      <4>1. r.pdu = w
        BY <2>3, <3>2, <3>6 DEF TokenSet
      <4>2. tokenRefused' = tokenRefused
        BY <3>1, <3>6 DEF PduInv
      <4>3. Keeps(w, w)
        BY <2>3, GoodKeeps
      <4> QED
        BY <2>2, <3>1, <4>1, <4>2, <4>3, KeepsInv DEF w
    <3> QED
      BY <3>4, <3>5, <3>6
  <2>6. ASSUME NEW t \in Tokens, Copy(t, m) PROVE PduInv'
    <3> DEFINE a == TokenOnly(w, t)
    <3>1. a = AddToken([Fresh EXCEPT !.memory = m], t)
      BY <2>3 DEF TokenOnly
    <3>2. PICK dropped \in Filters :
             /\ Becomes(Duplicate(w, t, dropped).pdu)
             /\ tokenRefused' = ~a.ok
      BY <2>6, <3>1 DEF Copy, w
    <3> DEFINE q == Duplicate(w, t, dropped).pdu
    <3>3. /\ a.ok \in BOOLEAN /\ Keeps(a.pdu, q)
          /\ a.ok => /\ a.pdu.etok = Len(TokenSpace(t)) /\ a.pdu.token = Len(t)
                     /\ TokenPart(a.pdu) = TokenSpace(t)
      BY <2>3, <2>4, DuplicateKeeps
    <3> HIDE DEF a, q
    <3>4. /\ Good(pdu') /\ pdu'.memory = 0 /\ said' = Message(pdu')
          /\ pdu'.etok = a.pdu.etok /\ pdu'.token = a.pdu.token
          /\ TokenPart(pdu') = TokenPart(a.pdu)
      BY <3>2, <3>3, Becoming DEF Keeps, q
    <3>5. a.ok => Announced(pdu')
      BY <2>4, <3>3, <3>4 DEF Announced, HoldsToken
    <3> QED
      BY <3>2, <3>3, <3>4, <3>5 DEF PduInv
  <2>7. CASE ChangeOptions(m)
    <3>1. UNCHANGED tokenRefused
      BY <2>7 DEF ChangeOptions
    <3>2. ASSUME NEW n \in Numbers, NEW v \in Values
          PROVE  /\ Keeps(w, AddOption(w, n, v).pdu)
                 /\ Keeps(w, InsertOption(w, n, v).pdu)
                 /\ Keeps(w, UpdateOption(w, n, v).pdu)
      <4> DEFINE o == [number |-> n, value |-> v]
      <4>1. o \in Item /\ o.number = n /\ o.value = v
        BY Inputs
      <4> HIDE DEF o
      <4>2. Keeps(w, AddOption(w, o.number, o.value).pdu)
        BY <2>3, <4>1, AddOptionKeeps
      <4>3. Keeps(w, InsertOption(w, o.number, o.value).pdu)
        BY <2>3, <4>1, InsertOptionKeeps
      <4>4. Keeps(w, UpdateOption(w, o.number, o.value).pdu)
        BY <2>3, <4>1, UpdateOptionKeeps
      <4> QED
        BY <4>1, <4>2, <4>3, <4>4
    <3>3. \A n \in Numbers : Keeps(w, RemoveOption(w, n).pdu)
      BY <2>3, RemoveOptionKeeps
    <3>4. \A list \in Lists : Keeps(w, AddOptionList(w, list).pdu)
      BY <2>3, Inputs, AddOptionListKeeps
    <3>5. PICK q : Becomes(q) /\ Keeps(w, q)
      BY <2>7, <3>2, <3>3, <3>4 DEF ChangeOptions, Calls, w
    <3> QED
      BY <2>2, <3>1, <3>5, KeepsInv DEF w
  <2>8. CASE SetPayload(m)
    <3>1. PICK bytes \in Payloads : Becomes(AddData(w, bytes).pdu)
      BY <2>8 DEF SetPayload, Calls, w
    <3>2. Keeps(w, AddData(w, bytes).pdu)
      BY <2>3, Inputs, AddDataKeeps
    <3>3. UNCHANGED tokenRefused
      BY <2>8 DEF SetPayload
    <3> QED
      BY <2>2, <3>1, <3>2, <3>3, KeepsInv DEF w
  <2> QED
    BY <2>1, <2>5, <2>6, <2>7, <2>8
<1> QED
  BY <1>1, <1>2

(* For tokens that fit, the layout of the message is kept by every call,
   whatever comes of it.                                                   *)
THEOREM PduInvariance ==
    ASSUME TokensFit
    PROVE  PduSpec => []PduInv
<1>1. PduInv /\ [PduNext]_pduVars => PduInv'
  BY PduStep
<1> QED
  BY <1>1, PduInitially, PTL DEF PduSpec

-----------------------------------------------------------------------------
(* What follows from it                                                    *)

LEMMA InvType == PduInv => PduTypeOK /\ NeverOverruns
<1> SUFFICES ASSUME PduInv PROVE PduTypeOK /\ NeverOverruns
  OBVIOUS
<1>1. PICK t, os, tail : Laid(pdu, t, os, tail)
  BY DEF PduInv, Good
<1> DEFINE F == Flat(0, os)
<1>2. /\ pdu \in PduType /\ t \in Seq(Byte) /\ Run(0, os) /\ tail \in Seq(Byte)
      /\ tail = <<>> \/ (tail[1] = Marker /\ Len(tail) > 1)
      /\ F \in Seq(Byte) /\ pdu.buf = (t \o F) \o tail /\ pdu.etok = Len(t)
      /\ pdu.data = IF tail = <<>> THEN 0 ELSE Len(t) + Len(F) + 1
      /\ Used(pdu) <= pdu.alloc
  BY <1>1, FlatType DEF Laid
<1> HIDE DEF F
<1>3. Len(t) \in Nat /\ Len(F) \in Nat /\ Len(tail) \in Nat
  BY <1>2, LenProperties
<1>4. Used(pdu) = (Len(t) + Len(F)) + Len(tail)
  BY <1>2, ThreeParts DEF Used
<1>5. pdu.etok \in 0..Used(pdu)
  BY <1>2, <1>3, <1>4
<1>6. pdu.data \in 0..Used(pdu)
  <2>1. CASE tail = <<>>
    <3>1. pdu.data = 0
      BY <1>2, <2>1
    <3> QED
      BY <1>3, <1>4, <3>1
  <2>2. CASE tail # <<>>
    <3>1. pdu.data = Len(t) + Len(F) + 1 /\ Len(tail) > 1
      BY <1>2, <2>2
    <3> QED
      BY <1>3, <1>4, <3>1
  <2> QED
    BY <2>1, <2>2
<1>7. PduTypeOK
  BY <1>2, <1>5, <1>6 DEF PduTypeOK, PduType, PduInv
<1> QED
  BY <1>2, <1>7 DEF NeverOverruns

(* A receiver finds the options and the payload of a message that is laid
   out as it should be.                                                    *)
LEMMA ReceiverFinds ==
    ASSUME NEW p, NEW t, NEW os, NEW tail, Laid(p, t, os, tail)
    PROVE  /\ ParseOptions(p).good
           /\ ParseOptions(p).maxOpt = p.maxOpt /\ ParseOptions(p).data = p.data
<1> DEFINE es == Entries(p)
           n == Len(os)
           end == IF es = <<>> THEN p.etok + 1 ELSE Last(es).at + Last(es).size
           F == Flat(0, os)
<1>1. /\ DOMAIN es = 1..n /\ Len(es) = n /\ n \in Nat /\ os \in Seq(Item)
      /\ es = <<>> <=> n = 0
      /\ os = <<>> <=> n = 0
  <2>1. Listed(t, os, es)
    BY EntriesFound
  <2> QED
    BY <2>1, EntriesLength, EmptySeq DEF Listed
<1>2. /\ p \in PduType /\ t \in Seq(Byte) /\ Run(0, os) /\ tail \in Seq(Byte)
      /\ tail = <<>> \/ (tail[1] = Marker /\ Len(tail) > 1)
      /\ F \in Seq(Byte) /\ p.buf = (t \o F) \o tail /\ p.etok = Len(t)
      /\ p.data = IF tail = <<>> THEN 0 ELSE Len(t) + Len(F) + 1
      /\ p.maxOpt = End(0, os)
  BY FlatType DEF Laid
<1> HIDE DEF es
<1>3. ASSUME NEW i \in 1..n PROVE es[i].number >= es[i].delta
  <2>1. AtIndex(p, t, os, tail, i)
    BY IndexIs
  <2> DEFINE x == SubSeq(os, 1, i - 1)
  <2>2. es[i] = TheOption(Spot(t, x), End(0, x), os[i]) /\ os[i].number \in 0..MaxOpt
    BY <2>1 DEF AtIndex, es
  <2>3. End(0, x) \in 0..MaxOpt
    BY <2>1, InsideParts DEF AtIndex
  <2>4. es[i].number = os[i].number /\ es[i].delta = os[i].number - End(0, x)
    BY <2>2 DEF TheOption
  <2> HIDE DEF x
  <2> QED
    BY <2>2, <2>3, <2>4, MaxOptNat
<1>4. end = Spot(t, os) /\ (es # <<>> => Last(es).number = p.maxOpt)
  <2>1. CASE n = 0
    <3>1. F = <<>> /\ Len(<<>>) = 0
      <4>1. 0 \in 0..MaxOpt /\ os = <<>>
        BY <1>1, <2>1, MaxOptNat
      <4> QED
        BY <4>1, FlatEmpty, EmptySeq
    <3>2. Len(t) \in Nat
      BY <1>2, LenProperties
    <3>3. Spot(t, os) = Len(t) + 1
      BY <3>1, <3>2 DEF Spot
    <3> QED
      BY <1>1, <1>2, <2>1, <3>3
  <2>2. CASE n # 0
    <3>1. n \in 1..n
      BY <1>1, <2>2
    <3> DEFINE x == SubSeq(os, 1, n - 1)
               w == SubSeq(os, n + 1, Len(os))
               o == os[n]
    <3>2. AtIndex(p, t, os, tail, n)
      BY <3>1, IndexIs
    <3>3. es[n] = TheOption(Spot(t, x), End(0, x), o) /\ Inside(p, t, tail, x, o, w)
      BY <3>2 DEF AtIndex, es
    <3>4. os = x \o <<o>>
      <4>1. SubSeq(os, 1, n) = SubSeq(os, 1, n - 1) \o <<os[n]>>
        <5>1. os \in Seq(Item) /\ n \in 1..Len(os)
          BY <1>1, <3>1
        <5> HIDE DEF n
        <5> QED
          BY <5>1, Split
      <4>2. SubSeq(os, 1, n) = os
        BY <1>1, SubSeqFull
      <4> QED
        BY <4>1, <4>2
    <3> HIDE DEF x, w, o
    <3>5. Around(p, t, tail, x, o, w)
      BY <3>3, InsideParts
    <3>6. Spot(t, os) = Spot(t, x) + EncodeSize(o.number - End(0, x), Len(o.value))
      BY <3>4, <3>5 DEF Around
    <3>7. End(0, os) = o.number
      BY <3>4, <3>5 DEF Around
    <3>8. Last(es) = TheOption(Spot(t, x), End(0, x), o) /\ es # <<>>
      BY <1>1, <2>2, <3>3 DEF Last
    <3> QED
      BY <1>2, <3>6, <3>7, <3>8 DEF TheOption
  <2> QED
    BY <2>1, <2>2
<1> HIDE DEF end
<1>5. end = Len(t) + Len(F) + 1
  BY <1>4 DEF Spot
<1> HIDE DEF F
<1>6. /\ Len(t) \in Nat /\ Len(F) \in Nat /\ Len(tail) \in Nat
      /\ tail = <<>> => Len(tail) = 0
  BY <1>2, LenProperties, EmptySeq
<1>7. Used(p) = (Len(t) + Len(F)) + Len(tail)
  BY <1>2, ThreeParts DEF Used
<1>8. end = Used(p) + 1 \/ (end < Used(p) /\ p.buf[end] = Marker)
  <2>1. CASE tail = <<>>
    BY <1>5, <1>6, <1>7, <2>1
  <2>2. CASE tail # <<>>
    <3> DEFINE a == t \o F
    <3>1. a \in Seq(Byte) /\ Len(a) = Len(t) + Len(F)
      BY <1>2, Cat
    <3>2. p.buf = a \o tail /\ Len(tail) > 1 /\ tail[1] = Marker
      BY <1>2, <2>2
    <3> HIDE DEF a
    <3>3. \A k \in 1..Len(tail) : p.buf[Len(a) + k] = tail[k]
      BY <1>2, <3>1, <3>2, Cat, SMTT(30)
    <3>4. 1 \in 1..Len(tail)
      BY <1>6, <3>2
    <3>5. p.buf[end] = Marker
      BY <1>5, <3>1, <3>2, <3>3, <3>4
    <3>6. end < Used(p)
      BY <1>5, <1>6, <1>7, <3>2
    <3> QED
      BY <3>5, <3>6
  <2> QED
    BY <2>1, <2>2
<1>9. p.data = IF end > Used(p) THEN 0 ELSE end
  <2>1. CASE tail = <<>>
    <3>1. end > Used(p) /\ p.data = 0
      BY <1>2, <1>5, <1>6, <1>7, <2>1
    <3> QED
      BY <3>1
  <2>2. CASE tail # <<>>
    <3>1. Len(tail) > 1 /\ p.data = end
      BY <1>2, <1>5, <2>2
    <3>2. ~(end > Used(p))
      BY <1>5, <1>6, <1>7, <3>1
    <3> QED
      BY <3>1, <3>2
  <2> QED
    BY <2>1, <2>2
<1>10. p.maxOpt = IF es = <<>> THEN 0 ELSE Last(es).number
  BY <1>1, <1>2, <1>4 DEF End
<1>11. ParseOptions(p) =
         [good |-> /\ \A i \in DOMAIN es : es[i].number >= es[i].delta
                   /\ end = Used(p) + 1 \/ (end < Used(p) /\ p.buf[end] = Marker),
          maxOpt |-> IF es = <<>> THEN 0 ELSE Last(es).number,
          data |-> IF end > Used(p) THEN 0 ELSE end]
  BY DEF ParseOptions, es, end
<1>12. \A i \in DOMAIN es : es[i].number >= es[i].delta
  BY <1>1, <1>3
<1> QED
  BY <1>8, <1>9, <1>10, <1>11, <1>12

(* The header and the first bytes say where the token ends.                *)
LEMMA AnnouncedIsRead ==
    ASSUME NEW p \in PduType, p.etok \in 0..Used(p), Announced(p)
    PROVE  ReceivedSpace(p) = p.etok /\ Len(TokenOf(p)) = p.token
<1>1. PICK t \in Seq(Byte) : Len(t) <= 254 /\ HoldsToken(p, t)
  BY DEF Announced
<1> DEFINE n == Len(t)
           x == Extension(n)
           b == ExtensionSize(n)
           space == TokenSpace(t)
<1>2. /\ n \in Nat /\ n <= 65804
      /\ p.buf \in Seq(Byte) /\ Used(p) \in Nat /\ Used(p) = Len(p.buf)
  <2>1. n \in Nat /\ n <= 254 /\ p.buf \in Seq(Byte)
    BY <1>1, LenProperties DEF PduType
  <2> HIDE DEF n
  <2> QED
    BY <2>1, LenProperties DEF Used
<1>3. x \in Seq(Byte) /\ Len(x) = b /\ Follow(Nibble(n)) = b /\ b \in Nat
  <2> HIDE DEF n
  <2>1. x \in Seq(Byte) /\ Len(x) = b /\ Follow(Nibble(n)) = b
    BY <1>2, ExtensionType
  <2> QED
    BY <2>1 DEF ExtensionSize
<1>4. /\ space = x \o t
      /\ p.etok = Len(space) /\ p.token = n /\ SubSeq(p.buf, 1, p.etok) = space
  BY <1>1 DEF HoldsToken, TokenPart, TokenSpace
<1> HIDE DEF n, x, b, space
<1>5. Len(space) = b + Len(t) /\ \A k \in 1..Len(x) : space[k] = x[k]
  <2>1. t \in Seq(Byte)
    OBVIOUS
  <2>2. Len(x \o t) = Len(x) + Len(t) /\ \A k \in 1..Len(x) : (x \o t)[k] = x[k]
    BY <1>3, <2>1, Cat
  <2> QED
    BY <1>3, <1>4, <2>2
<1>6. p.etok = b + n /\ b + n <= Used(p)
  BY <1>4, <1>5 DEF n
<1>7. \A k \in 1..b : p.buf[k] = x[k]
  <2>1. \A k \in 1..p.etok : SubSeq(p.buf, 1, p.etok)[k] = p.buf[k]
    <3>1. \A i \in 1..p.etok : p.buf[i] \in Byte
      <4>1. \A i \in 1..p.etok : i \in 1..Len(p.buf)
        BY <1>2
      <4> QED
        BY <1>2, <4>1, ElementOfSeq
    <3>2. \A k \in 1..p.etok - 1 + 1 : SubSeq(p.buf, 1, p.etok)[k] = p.buf[1 + k - 1]
      <4>1. 1 \in Int /\ p.etok \in Int
        OBVIOUS
      <4> QED
        BY <3>1, <4>1, SubSeqProperties
    <3>3. \A k \in 1..p.etok : k \in 1..p.etok - 1 + 1 /\ 1 + k - 1 = k
      OBVIOUS
    <3> QED
      BY <3>2, <3>3
  <2>2. \A k \in 1..b : k \in 1..p.etok /\ k \in 1..Len(x)
    BY <1>2, <1>3, <1>6
  <2> QED
    BY <1>4, <1>5, <2>1, <2>2
<1>8. Extended(Nibble(n), p.buf, 0) = n
  <2>1. \A k \in 1..ExtensionSize(n) : p.buf[0 + k] = Extension(n)[k]
    <3>1. \A k \in 1..b : 0 + k = k
      BY <1>3
    <3> QED
      BY <1>7, <3>1 DEF b, x
  <2> QED
    BY <1>2, <2>1, ExtensionRead
<1>9. ReceivedSpace(p) = p.etok
  <2>1. ~(Used(p) < b)
    BY <1>2, <1>3, <1>6
  <2> QED
    BY <1>3, <1>4, <1>6, <1>8, <2>1 DEF ReceivedSpace
<1>10. TokenOf(p) = SubSeq(p.buf, b + 1, b + n)
  BY <1>4, <1>6 DEF TokenOf, b
<1>11. Len(SubSeq(p.buf, b + 1, b + n)) = n
  <2> DEFINE i == b + 1
             j == b + n
  <2>1. /\ i \in Int /\ j \in Int
        /\ (IF i <= j THEN j - i + 1 ELSE 0) = n
    BY <1>2, <1>3
  <2>2. \A k \in i..j : p.buf[k] \in Byte
    <3>1. \A k \in i..j : k \in 1..Len(p.buf)
      BY <1>2, <1>3, <1>6
    <3> QED
      BY <1>2, <3>1, ElementOfSeq
  <2> HIDE DEF i, j
  <2>3. Len(SubSeq(p.buf, i, j)) = IF i <= j THEN j - i + 1 ELSE 0
    BY <2>1, <2>2, SubSeqProperties
  <2>4. Len(SubSeq(p.buf, i, j)) = n
    BY <2>1, <2>3
  <2> QED
    BY <2>4 DEF i, j
<1> QED
  BY <1>4, <1>9, <1>10, <1>11

LEMMA InvReceiver == PduInv => ReceiverAgrees
<1> SUFFICES ASSUME PduInv, ~tokenRefused PROVE ReceiverAgrees
  BY DEF ReceiverAgrees
<1>1. PICK t, os, tail : Laid(pdu, t, os, tail)
  BY DEF PduInv, Good
<1>2. pdu \in PduType /\ pdu.etok \in 0..Used(pdu) /\ Used(pdu) \in Nat
  BY <1>1, InvType, LenProperties DEF Laid, PduType, PduTypeOK, Used
<1>3. ReceivedSpace(pdu) = pdu.etok
  BY <1>2, AnnouncedIsRead DEF PduInv
<1>4. Received(pdu) = pdu
  BY <1>2, <1>3 DEF Received, PduType
<1>5. ReceivedSpace(pdu) <= Used(pdu)
  BY <1>2, <1>3
<1> QED
  BY <1>1, <1>4, <1>5, ReceiverFinds DEF ReceiverAgrees

LEMMA InvToken == PduInv => TokenAgrees
<1> SUFFICES ASSUME PduInv, ~tokenRefused PROVE TokenAgrees
  BY DEF TokenAgrees
<1>1. pdu \in PduType /\ pdu.etok \in 0..Used(pdu)
  BY InvType, GoodType DEF PduInv, PduTypeOK
<1>2. said.token = TokenOf(pdu)
  BY DEF PduInv, Message
<1> QED
  BY <1>1, <1>2, AnnouncedIsRead DEF PduInv, TokenAgrees

(* The fields of a message have their types.                               *)
THEOREM TypeCorrect ==
    ASSUME TokensFit
    PROVE  PduSpec => []PduTypeOK
  BY PduInvariance, InvType, PTL

(* No call writes behind what has been allocated: what coap_pdu_check_resize
   and coap_pdu_resize make room for is what is written.                   *)
THEOREM WithinAllocated ==
    ASSUME TokensFit
    PROVE  PduSpec => []NeverOverruns
  BY PduInvariance, InvType, PTL

(* However options were added, put in between, changed and removed, the
   receiver, who has the header and the bytes, finds the same last option
   and the same payload, unless a token was refused.                       *)
THEOREM ReceiverUnderstands ==
    ASSUME TokensFit
    PROVE  PduSpec => []ReceiverAgrees
  BY PduInvariance, InvReceiver, PTL

(* The receiver sees the token end where the sender's options begin, and it
   is as long as the header says, unless one was refused.                  *)
THEOREM TokenIsAsLong ==
    ASSUME TokensFit
    PROVE  PduSpec => []TokenAgrees
  BY PduInvariance, InvToken, PTL

=============================================================================
