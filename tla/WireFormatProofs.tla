-------------------------- MODULE WireFormatProofs --------------------------
(***************************************************************************)
(* encode and decodeMessage agree, for every message that fits the buffer: *)
(* whatever its members, its broadcast and the length of IP addresses.     *)
(***************************************************************************)
EXTENDS WireFormat, SequenceTheorems, WellFoundedInduction, TLAPS

-----------------------------------------------------------------------------
(* Induction *)

\* A set that has 0 and the successor of each of its numbers has all of them: were
\* one missing, there would be a smallest.
LEMMA Induction ==
    ASSUME NEW S, 0 \in S, \A n \in Nat : n \in S => n + 1 \in S
    PROVE  Nat \subseteq S
<1> SUFFICES ASSUME Nat \ S # {} PROVE FALSE
    OBVIOUS
<1> DEFINE R == OpToRel(<, Nat)
<1>1. IsWellFoundedOn(R, Nat)
      BY NatLessThanWellFounded, Zenon
<1>2. \A x, y \in Nat : x < y => <<x, y>> \in R
      BY DEF OpToRel
<1> HIDE DEF R
<1>3. PICK x \in Nat \ S : \A y \in Nat \ S : ~(<<y, x>> \in R)
      BY <1>1, WFMin, Zenon
<1>4. x # 0 /\ x - 1 \in Nat /\ x - 1 < x
      OBVIOUS
<1>5. x - 1 \in S
      BY <1>2, <1>3, <1>4, Zenon
<1>6. (x - 1) + 1 \in S
      BY <1>4, <1>5
<1> QED BY <1>3, <1>6

-----------------------------------------------------------------------------
(* Sums *)

\* f[n] is the sum of the first n elements of s.
Prefixes(f, s, k) ==
    /\ f \in [0 .. k -> Int]
    /\ f[0] = 0
    /\ \A i \in 1 .. k : f[i] = f[i - 1] + s[i]

LEMMA PrefixesExist ==
    ASSUME NEW s \in Seq(Int)
    PROVE  \E f : Prefixes(f, s, Len(s))
<1> DEFINE Have(n) == \E f : Prefixes(f, s, n)
           S == {n \in Nat : n <= Len(s) => Have(n)}
<1>1. Len(s) \in Nat /\ \A i \in 1 .. Len(s) : s[i] \in Int
      OBVIOUS
<1>2. Have(0)
  <2> DEFINE f == [i \in 0 .. 0 |-> 0]
  <2>1. Prefixes(f, s, 0)
        BY DEF Prefixes
  <2> QED BY <2>1
<1>3. ASSUME NEW n \in Nat, n + 1 <= Len(s), Have(n) PROVE Have(n + 1)
  <2>1. PICK f : Prefixes(f, s, n)
        BY <1>3
  <2> DEFINE g == [i \in 0 .. n + 1 |-> IF i = n + 1 THEN f[n] + s[n + 1] ELSE f[i]]
  <2>2. \A i \in 0 .. n + 1 : g[i] = IF i = n + 1 THEN f[n] + s[n + 1] ELSE f[i]
        OBVIOUS
  <2>3. g \in [0 .. n + 1 -> Int]
    <3>1. f[n] \in Int /\ s[n + 1] \in Int
          BY <1>1, <1>3, <2>1 DEF Prefixes
    <3> QED BY <2>1, <3>1 DEF Prefixes
  <2> HIDE DEF g
  <2>4. ASSUME NEW i \in 1 .. n + 1 PROVE g[i] = g[i - 1] + s[i]
    <3>1. CASE i = n + 1
          BY <2>2, <3>1
    <3>2. CASE i # n + 1
      <4>1. i \in 1 .. n /\ i \in 0 .. n + 1 /\ i - 1 \in 0 .. n + 1 /\ i - 1 # n + 1
            BY <3>2
      <4> QED BY <2>1, <2>2, <3>2, <4>1 DEF Prefixes
    <3> QED BY <3>1, <3>2
  <2>5. Prefixes(g, s, n + 1)
        BY <2>1, <2>2, <2>3, <2>4 DEF Prefixes
  <2> QED BY <2>5
<1> HIDE DEF Have
<1>4. 0 \in S /\ \A n \in Nat : n \in S => n + 1 \in S
      BY <1>1, <1>2, <1>3
<1> HIDE DEF S
<1>5. Nat \subseteq S
      BY <1>4, Induction, Zenon
<1> QED BY <1>1, <1>5 DEF S, Have

\* t adds up the elements of s by halves, as Total does.
Halves(t, s) ==
    t = [r \in (1 .. Len(s)) \X (1 .. Len(s)) |->
            LET mid == (r[1] + r[2]) \div 2
            IN  IF r[1] >= r[2] THEN s[r[1]] ELSE t[<<r[1], mid>>] + t[<<mid + 1, r[2]>>]]

LEMMA HalvesExist ==
    ASSUME NEW s \in Seq(Int)
    PROVE  \E t : Halves(t, s)
<1> DEFINE k == Len(s)
<1>1. k \in Nat /\ \A i \in 1 .. k : s[i] \in Int
      OBVIOUS
<1>2. PICK f : Prefixes(f, s, k)
      BY PrefixesExist
<1> DEFINE t == [r \in (1 .. k) \X (1 .. k) |->
                    IF r[1] >= r[2] THEN s[r[1]] ELSE f[r[2]] - f[r[1] - 1]]
<1>3. \A from, to \in 1 .. k :
         t[<<from, to>>] = IF from >= to THEN s[from] ELSE f[to] - f[from - 1]
      OBVIOUS
<1>4. t = [r \in (1 .. k) \X (1 .. k) |-> t[r]]
      OBVIOUS
<1> HIDE DEF t, k
<1>5. ASSUME NEW from \in 1 .. k, NEW to \in 1 .. k, from < to,
             NEW mid, mid = (from + to) \div 2
      PROVE  f[to] - f[from - 1] = t[<<from, mid>>] + t[<<mid + 1, to>>]
  <2>1. mid \in Int /\ from <= mid /\ mid < to
        BY <1>1, <1>5
  <2>2. f[from - 1] \in Int /\ f[mid] \in Int /\ f[to] \in Int
    <3>1. from - 1 \in 0 .. k /\ mid \in 0 .. k /\ to \in 0 .. k
          BY <1>1, <2>1
    <3>2. \A i \in 0 .. k : f[i] \in Int
          BY <1>2, Zenon DEF Prefixes
    <3> QED BY <3>1, <3>2, Zenon
  <2>3. f[from] = f[from - 1] + s[from] /\ f[to] = f[to - 1] + s[to]
        BY <1>2 DEF Prefixes
  <2>4. t[<<from, mid>>] = f[mid] - f[from - 1]
    <3>1. mid \in 1 .. k
          BY <1>1, <2>1
    <3>2. CASE from = mid
          BY <1>1, <1>3, <2>2, <2>3, <3>1, <3>2, SMTT(30)
    <3>3. CASE from # mid
          BY <1>1, <1>3, <2>1, <3>1, <3>3
    <3> QED BY <3>2, <3>3
  <2>5. t[<<mid + 1, to>>] = f[to] - f[mid]
    <3>1. mid + 1 \in 1 .. k
          BY <1>1, <2>1
    <3>2. CASE mid + 1 = to
      <4>1. mid = to - 1
            BY <2>1, <3>2
      <4> QED BY <1>1, <1>3, <2>2, <2>3, <3>1, <3>2, <4>1, SMTT(30)
    <3>3. CASE mid + 1 # to
      <4>1. mid + 1 < to /\ (mid + 1) - 1 = mid
            BY <2>1, <3>3
      <4> QED BY <1>1, <1>3, <3>1, <4>1
    <3> QED BY <3>2, <3>3
  <2> QED BY <2>2, <2>4, <2>5
<1>6. ASSUME NEW r \in (1 .. k) \X (1 .. k)
      PROVE  t[r] = LET mid == (r[1] + r[2]) \div 2
                    IN  IF r[1] >= r[2] THEN s[r[1]]
                        ELSE t[<<r[1], mid>>] + t[<<mid + 1, r[2]>>]
  <2>1. r = <<r[1], r[2]>> /\ r[1] \in 1 .. k /\ r[2] \in 1 .. k
        OBVIOUS
  <2>2. t[r] = IF r[1] >= r[2] THEN s[r[1]] ELSE f[r[2]] - f[r[1] - 1]
        BY <1>3, <2>1
  <2>3. CASE r[1] >= r[2]
        BY <2>2, <2>3
  <2>4. CASE ~(r[1] >= r[2])
    <3>1. r[1] < r[2]
          BY <1>1, <2>1, <2>4
    <3> QED BY <1>5, <2>1, <2>2, <2>4, <3>1
  <2> QED BY <2>3, <2>4
<1>7. Halves(t, s)
      BY <1>4, <1>6, Zenon DEF Halves, k
<1> QED BY <1>7

LEMMA TotalType == ASSUME NEW s \in Seq(Int) PROVE Total(s) \in Int
<1> DEFINE k == Len(s)
           t == CHOOSE x : Halves(x, s)
<1>1. k \in Nat /\ \A i \in 1 .. k : s[i] \in Int
      OBVIOUS
<1>2. Total(s) = IF s = <<>> THEN 0 ELSE t[<<1, k>>]
      BY DEF Total, Halves
<1>3. s # <<>> => k # 0
      OBVIOUS
<1>4. Halves(t, s)
      BY HalvesExist
<1> HIDE DEF t, k
<1>5. ASSUME NEW from \in 1 .. k, NEW to \in 1 .. k, NEW mid, mid = (from + to) \div 2
      PROVE  t[<<from, to>>] = IF from >= to THEN s[from]
                               ELSE t[<<from, mid>>] + t[<<mid + 1, to>>]
      BY <1>4, <1>5, Zenon DEF Halves, k
<1> DEFINE Narrow(n) == \A from, to \in 1 .. k : to - from <= n => t[<<from, to>>] \in Int
           S == {n \in Nat : Narrow(n)}
<1>6. Narrow(0)
  <2> SUFFICES ASSUME NEW from \in 1 .. k, NEW to \in 1 .. k, to - from <= 0
               PROVE  t[<<from, to>>] \in Int
      OBVIOUS
  <2>1. from >= to
        BY <1>1
  <2> QED BY <1>1, <1>5, <2>1, Zenon
<1>7. ASSUME NEW n \in Nat, Narrow(n) PROVE Narrow(n + 1)
  <2> SUFFICES ASSUME NEW from \in 1 .. k, NEW to \in 1 .. k, to - from <= n + 1
               PROVE  t[<<from, to>>] \in Int
      OBVIOUS
  <2> DEFINE mid == (from + to) \div 2
  <2>1. CASE from >= to
        BY <1>1, <1>5, <2>1, Zenon
  <2>2. CASE from < to
    <3>1. /\ mid \in 1 .. k /\ mid + 1 \in 1 .. k
          /\ mid - from <= n /\ to - (mid + 1) <= n
          BY <1>1, <2>2
    <3>2. ~(from >= to)
          BY <1>1, <2>2
    <3>3. t[<<from, to>>] = t[<<from, mid>>] + t[<<mid + 1, to>>]
          BY <1>5, <3>2
    <3> HIDE DEF mid
    <3>4. t[<<from, mid>>] \in Int /\ t[<<mid + 1, to>>] \in Int
          BY <1>7, <3>1
    <3> QED BY <3>3, <3>4
  <2> QED BY <1>1, <2>1, <2>2
<1> HIDE DEF Narrow
<1>8. 0 \in S /\ \A n \in Nat : n \in S => n + 1 \in S
      BY <1>6, <1>7
<1> HIDE DEF S
<1>9. Nat \subseteq S
      BY <1>8, Induction, Zenon
<1>10. Narrow(k)
       BY <1>1, <1>9 DEF S
<1>11. k # 0 => t[<<1, k>>] \in Int
       BY <1>1, <1>10 DEF Narrow
<1> QED BY <1>2, <1>3, <1>11

-----------------------------------------------------------------------------
(* Pieces of a sequence *)

\* The elements of s after the first p begin with those of t.
Has(s, p, t) == \A j \in 1 .. Len(t) : s[p + j] = t[j]

LEMMA Join ==
    ASSUME NEW S, NEW a \in Seq(S), NEW b \in Seq(S)
    PROVE  /\ a \o b \in Seq(S) /\ Len(a \o b) = Len(a) + Len(b)
           /\ Has(a \o b, 0, a) /\ Has(a \o b, Len(a), b)
           /\ Len(a) \in Nat /\ Len(b) \in Nat
<1>1. Len(a) \in Nat /\ Len(b) \in Nat
      BY LenProperties
<1>2. /\ a \o b \in Seq(S) /\ Len(a \o b) = Len(a) + Len(b)
      /\ \A i \in 1 .. Len(a) + Len(b) :
            (a \o b)[i] = IF i <= Len(a) THEN a[i] ELSE b[i - Len(a)]
      BY ConcatProperties
<1>3. ASSUME NEW j \in 1 .. Len(a) PROVE (a \o b)[0 + j] = a[j]
      BY <1>1, <1>2
<1>4. ASSUME NEW j \in 1 .. Len(b) PROVE (a \o b)[Len(a) + j] = b[j]
  <2>1. /\ Len(a) + j \in 1 .. Len(a) + Len(b) /\ ~(Len(a) + j <= Len(a))
        /\ (Len(a) + j) - Len(a) = j
        BY <1>1
  <2> QED BY <1>2, <2>1
<1> QED BY <1>1, <1>2, <1>3, <1>4 DEF Has

\* A piece of a piece.
LEMMA Within ==
    ASSUME NEW s, NEW t, NEW u, NEW p \in Nat, NEW q \in Nat,
           Len(t) \in Nat, Len(u) \in Nat, q + Len(u) <= Len(t),
           Has(s, p, t), Has(t, q, u)
    PROVE  Has(s, p + q, u)
<1> SUFFICES ASSUME NEW j \in 1 .. Len(u) PROVE s[(p + q) + j] = u[j]
    BY DEF Has
<1>1. q + j \in 1 .. Len(t) /\ (p + q) + j = p + (q + j)
      OBVIOUS
<1>2. s[p + (q + j)] = t[q + j] /\ t[q + j] = u[j]
      BY <1>1 DEF Has
<1> QED BY <1>1, <1>2

LEMMA JoinFour ==
    ASSUME NEW S, NEW a \in Seq(S), NEW b \in Seq(S), NEW c \in Seq(S), NEW d \in Seq(S)
    PROVE  /\ a \o b \o c \o d \in Seq(S)
           /\ Len(a \o b \o c \o d) = Len(a) + Len(b) + Len(c) + Len(d)
           /\ Has(a \o b \o c \o d, 0, a)
           /\ Has(a \o b \o c \o d, Len(a), b)
           /\ Has(a \o b \o c \o d, Len(a) + Len(b), c)
           /\ Has(a \o b \o c \o d, Len(a) + Len(b) + Len(c), d)
<1> DEFINE x == a \o b
           y == x \o c
           s == a \o b \o c \o d
<1>1. /\ x \in Seq(S) /\ Len(x) = Len(a) + Len(b) /\ Has(x, 0, a) /\ Has(x, Len(a), b)
      /\ Len(a) \in Nat /\ Len(b) \in Nat
      BY Join
<1> HIDE DEF x
<1>2. /\ y \in Seq(S) /\ Len(y) = Len(x) + Len(c) /\ Has(y, 0, x) /\ Has(y, Len(x), c)
      /\ Len(c) \in Nat
      BY <1>1, Join, Zenon
<1> HIDE DEF y
<1>3. /\ s \in Seq(S) /\ Len(s) = Len(y) + Len(d) /\ Has(s, 0, y) /\ Has(s, Len(y), d)
      /\ Len(d) \in Nat
  <2>1. s = y \o d
        BY DEF x, y
  <2> HIDE DEF s
  <2>2. y \o d \in Seq(S) /\ Len(y \o d) = Len(y) + Len(d) /\ Has(y \o d, 0, y)
        /\ Has(y \o d, Len(y), d) /\ Len(d) \in Nat
        BY <1>2, Join, Zenon
  <2> QED BY <2>1, <2>2
<1> HIDE DEF s
<1>4. Has(y, 0 + 0, a) /\ Has(y, 0 + Len(a), b)
      BY <1>1, <1>2, Within
<1>5. Has(y, 0, a) /\ Has(y, Len(a), b)
      BY <1>1, <1>4
<1>6. Len(y) \in Nat /\ Len(y) = Len(a) + Len(b) + Len(c)
      BY <1>1, <1>2
<1>7. Has(s, 0 + 0, a) /\ Has(s, 0 + Len(a), b) /\ Has(s, 0 + Len(x), c)
      BY <1>1, <1>2, <1>3, <1>5, <1>6, Within, SMTT(30)
<1>8. /\ s \in Seq(S) /\ Len(s) = Len(a) + Len(b) + Len(c) + Len(d)
      /\ Has(s, 0, a) /\ Has(s, Len(a), b) /\ Has(s, Len(a) + Len(b), c)
      /\ Has(s, Len(a) + Len(b) + Len(c), d)
      BY <1>1, <1>2, <1>3, <1>6, <1>7
<1> QED BY <1>8 DEF s

\* A slice reads a piece.
LEMMA SliceOf ==
    ASSUME NEW S, NEW s, NEW t \in Seq(S), NEW p \in Nat, Has(s, p, t)
    PROVE  Slice(s, p, p + Len(t)) = t
<1>1. Len(t) \in Nat /\ \A j \in 1 .. Len(t) : t[j] \in S
      BY LenProperties
<1> DEFINE m == p + 1
           n == p + Len(t)
<1>2. ASSUME NEW i \in m .. n PROVE s[i] \in S
  <2>1. i - p \in 1 .. Len(t) /\ p + (i - p) = i
        BY <1>1
  <2> QED BY <1>1, <2>1, Zenon DEF Has
<1>3. m \in Int /\ n \in Int /\ (n - m) + 1 = Len(t)
      BY <1>1
<1>4. (IF m <= n THEN n - m + 1 ELSE 0) = Len(t)
      BY <1>1
<1> HIDE DEF m, n
<1>5. /\ SubSeq(s, m, n) \in Seq(S)
      /\ Len(SubSeq(s, m, n)) = IF m <= n THEN n - m + 1 ELSE 0
      /\ \A i \in 1 .. n - m + 1 : SubSeq(s, m, n)[i] = s[m + i - 1]
      BY <1>2, <1>3, SubSeqProperties
<1>6. ASSUME NEW i \in 1 .. Len(t) PROVE SubSeq(s, m, n)[i] = t[i]
  <2>1. m + i - 1 = p + i
        BY <1>1 DEF m
  <2>2. SubSeq(s, m, n)[i] = s[p + i]
        BY <1>3, <1>5, <2>1
  <2> QED BY <2>2 DEF Has
<1>7. SubSeq(s, m, n) = t
      BY <1>4, <1>5, <1>6, SeqEqual, Zenon
<1> QED BY <1>7 DEF Slice, m, n

-----------------------------------------------------------------------------
(* Integers *)

LEMMA Uint16Type ==
    ASSUME NEW n \in Nat
    PROVE  encodeUint16(n) \in Seq(Byte) /\ Len(encodeUint16(n)) = 2
<1>1. ToByte(n) \in Byte /\ ToByte(n \div 256) \in Byte
      BY DEF ToByte, Byte
<1> QED BY <1>1 DEF encodeUint16

LEMMA Uint32Type ==
    ASSUME NEW n \in Nat
    PROVE  encodeUint32(n) \in Seq(Byte) /\ Len(encodeUint32(n)) = 4
<1>1. /\ ToByte(n) \in Byte /\ ToByte(n \div 256) \in Byte
      /\ ToByte(n \div 65536) \in Byte /\ ToByte(n \div 16777216) \in Byte
      BY SMT DEF ToByte, Byte
<1> QED BY <1>1, SMT DEF encodeUint32

\* What encodeUint16 writes, decodeUint16 reads.
LEMMA Uint16Read ==
    ASSUME NEW n \in Uint16, NEW bytes, NEW p \in Nat, Has(bytes, p, encodeUint16(n))
    PROVE  decodeUint16(bytes, p) = n
<1>1. bytes[p + 1] = encodeUint16(n)[1] /\ bytes[p + 2] = encodeUint16(n)[2]
  <2>1. Len(encodeUint16(n)) = 2
        BY Uint16Type, SMT DEF Uint16
  <2> QED BY <2>1, SMT DEF Has
<1>2. bytes[p + 1] = n % 256 /\ bytes[p + 2] = (n \div 256) % 256
      BY <1>1, SMT DEF encodeUint16, ToByte
<1>3. n \in Nat /\ n \div 256 \in 0 .. 255
      BY SMT DEF Uint16, Byte
<1>4. \A q \in 0 .. 255 : q % 256 = q
      BY SMT
<1>5. n = (n \div 256) * 256 + (n % 256)
      BY <1>3, SMT
<1> QED BY <1>2, <1>3, <1>4, <1>5, SMT DEF decodeUint16

LEMMA Uint32Read ==
    ASSUME NEW n \in Uint32, NEW bytes, NEW p \in Nat, Has(bytes, p, encodeUint32(n))
    PROVE  decodeUint32(bytes, p) = n
<1> DEFINE n1 == n \div 256
           n2 == n1 \div 256
           n3 == n2 \div 256
<1>1. /\ bytes[p + 1] = encodeUint32(n)[1] /\ bytes[p + 2] = encodeUint32(n)[2]
      /\ bytes[p + 3] = encodeUint32(n)[3] /\ bytes[p + 4] = encodeUint32(n)[4]
  <2>1. n \in Nat
        BY SMT DEF Uint32
  <2>2. Len(encodeUint32(n)) = 4
        BY <2>1, Uint32Type, SMT
  <2> QED BY <2>2, SMT DEF Has
<1>2. /\ bytes[p + 1] = n % 256 /\ bytes[p + 2] = (n \div 256) % 256
      /\ bytes[p + 3] = (n \div 65536) % 256 /\ bytes[p + 4] = (n \div 16777216) % 256
      BY <1>1, SMT DEF encodeUint32, ToByte
<1>3. n \in Nat /\ n \div 16777216 \in 0 .. 255
      BY SMT DEF Uint32, Byte
<1>4. n \div 65536 = n2 /\ n \div 16777216 = n3
      BY <1>3, SMT
<1>5. n1 \in Nat /\ n2 \in Nat /\ n3 \in Nat
      BY <1>3, SMT
<1>6. /\ n = n1 * 256 + (n % 256) /\ n1 = n2 * 256 + (n1 % 256) /\ n2 = n3 * 256 + (n2 % 256)
      /\ n3 % 256 = n3
      BY <1>3, <1>4, <1>5, SMT
<1>7. /\ n % 256 \in Nat /\ n1 % 256 \in Nat /\ n2 % 256 \in Nat
      BY <1>3, <1>5, SMT
<1> HIDE DEF n1, n2, n3
<1>8. n = n3 * 16777216 + (n2 % 256) * 65536 + (n1 % 256) * 256 + (n % 256)
      BY <1>3, <1>5, <1>6, <1>7, SMT
<1>9. /\ bytes[p + 1] = n % 256 /\ bytes[p + 2] = n1 % 256 /\ bytes[p + 3] = n2 % 256
      /\ bytes[p + 4] = n3
      BY <1>2, <1>4, <1>6, SMT DEF n1
<1> QED BY <1>8, <1>9, SMT DEF decodeUint32

LEMMA ChecksumType ==
    ASSUME NEW bytes \in Seq(Byte)
    PROVE  Checksum(bytes) \in Seq(Byte) /\ Len(Checksum(bytes)) = 4
<1> DEFINE n == Len(bytes)
           weighted == [i \in 1 .. n |-> ((n + 1) - i) * bytes[i]]
           low == (1 + Total(bytes)) % 65521
           high == (n + Total(weighted)) % 65521
<1>1. n \in Nat /\ bytes \in Seq(Int) /\ \A i \in 1 .. n : bytes[i] \in Int
  <2>1. Byte \subseteq Int
        BY DEF Byte
  <2> QED BY <2>1, SeqMonotonic, LenProperties, Zenon
<1>2. weighted \in Seq(Int)
  <2>1. \A i \in 1 .. n : ((n + 1) - i) * bytes[i] \in Int
        BY <1>1
  <2> QED BY <1>1, <2>1
<1>3. Total(bytes) \in Int /\ Total(weighted) \in Int
      BY <1>1, <1>2, TotalType
<1> HIDE DEF weighted, n
<1>4. low \in Nat /\ high \in Nat
      BY <1>1, <1>3
<1>5. Checksum(bytes) = encodeUint16(low) \o encodeUint16(high)
      BY DEF Checksum, weighted, n
<1> HIDE DEF low, high
<1>6. /\ encodeUint16(low) \in Seq(Byte) /\ Len(encodeUint16(low)) = 2
      /\ encodeUint16(high) \in Seq(Byte) /\ Len(encodeUint16(high)) = 2
      BY <1>4, Uint16Type
<1>7. /\ encodeUint16(low) \o encodeUint16(high) \in Seq(Byte)
      /\ Len(encodeUint16(low) \o encodeUint16(high)) =
            Len(encodeUint16(low)) + Len(encodeUint16(high))
      BY <1>6, Join, Zenon
<1>8. Len(encodeUint16(low) \o encodeUint16(high)) = 4
      BY <1>6, <1>7
<1> QED BY <1>5, <1>7, <1>8, Zenon

-----------------------------------------------------------------------------
(* Nodes and members *)

LEMMA NodeType ==
    ASSUME NEW n \in NodeAddress
    PROVE  /\ encodeNode(n) \in Seq(Byte) /\ Len(encodeNode(n)) = ipLen + 2
           /\ Has(encodeNode(n), 0, n.ip) /\ Has(encodeNode(n), ipLen, encodeUint16(n.port))
<1>1. n.ip \in Seq(Byte) /\ Len(n.ip) = ipLen /\ n.port \in Nat
      BY DEF NodeAddress, Uint16
<1>2. encodeUint16(n.port) \in Seq(Byte) /\ Len(encodeUint16(n.port)) = 2
      BY <1>1, Uint16Type
<1> DEFINE a == n.ip
           b == encodeUint16(n.port)
<1>3. a \in Seq(Byte) /\ b \in Seq(Byte) /\ Len(a) = ipLen /\ Len(b) = 2
      BY <1>1, <1>2
<1>4. encodeNode(n) = a \o b
      BY DEF encodeNode
<1> HIDE DEF a, b
<1>5. /\ a \o b \in Seq(Byte) /\ Len(a \o b) = Len(a) + Len(b)
      /\ Has(a \o b, 0, a) /\ Has(a \o b, Len(a), b)
      BY <1>3, Join, Zenon
<1> QED BY <1>3, <1>4, <1>5 DEF a, b

\* What encodeNode writes, decodeNode reads.
LEMMA NodeRead ==
    ASSUME NEW n \in NodeAddress, NEW bytes, NEW p \in Nat, Has(bytes, p, encodeNode(n))
    PROVE  decodeNode(bytes, p) = n
<1>1. /\ n.ip \in Seq(Byte) /\ Len(n.ip) = ipLen /\ n.port \in Uint16 /\ ipLen \in Nat
      /\ n = [ip |-> n.ip, port |-> n.port]
      BY SizesAssumption DEF NodeAddress
<1>2. /\ Len(encodeNode(n)) = ipLen + 2 /\ Len(encodeUint16(n.port)) = 2
      /\ Has(encodeNode(n), 0, n.ip) /\ Has(encodeNode(n), ipLen, encodeUint16(n.port))
      BY <1>1, NodeType, Uint16Type DEF Uint16
<1>3. Has(bytes, p + 0, n.ip) /\ Has(bytes, p + ipLen, encodeUint16(n.port))
  <2>1. /\ 0 \in Nat /\ 0 + Len(n.ip) <= Len(encodeNode(n)) /\ Len(n.ip) \in Nat
        /\ ipLen + Len(encodeUint16(n.port)) <= Len(encodeNode(n))
        /\ Len(encodeNode(n)) \in Nat /\ Len(encodeUint16(n.port)) \in Nat
        BY <1>1, <1>2
  <2>2. Has(bytes, p + 0, n.ip)
        BY <1>2, <2>1, Within, Zenon
  <2>3. Has(bytes, p + ipLen, encodeUint16(n.port))
        BY <1>1, <1>2, <2>1, Within, Zenon
  <2> QED BY <2>2, <2>3
<1>4. Slice(bytes, p, p + ipLen) = n.ip
  <2>1. Has(bytes, p, n.ip)
        BY <1>3
  <2> QED BY <1>1, <2>1, SliceOf
<1>5. decodeUint16(bytes, p + ipLen) = n.port
  <2>1. p + ipLen \in Nat
        BY <1>1
  <2> QED BY <1>1, <1>3, <2>1, Uint16Read
<1> QED BY <1>1, <1>4, <1>5 DEF decodeNode

\* The node 0.0.0.0:0, which a nil source is read as.
ZeroNode == [ip |-> [j \in 1 .. ipLen |-> 0], port |-> 0]

LEMMA ZeroNodeType == ZeroNode \in NodeAddress
<1>1. [j \in 1 .. ipLen |-> 0] \in Seq(Byte) /\ Len([j \in 1 .. ipLen |-> 0]) = ipLen
      BY SizesAssumption DEF Byte
<1>2. 0 \in Uint16
      BY DEF Uint16, Byte
<1> QED BY <1>1, <1>2, Zenon DEF ZeroNode, NodeAddress

LEMMA ZeroNodeBytes == encodeNode(ZeroNode) = [i \in 1 .. ipLen + 2 |-> 0]
<1> DEFINE a == [j \in 1 .. ipLen |-> 0]
           b == encodeUint16(0)
           s == encodeNode(ZeroNode)
           z == [i \in 1 .. ipLen + 2 |-> 0]
<1>1. /\ s \in Seq(Byte) /\ Len(s) = ipLen + 2 /\ Has(s, 0, a) /\ Has(s, ipLen, b)
      /\ ipLen \in Nat
  <2>1. ZeroNode.ip = a /\ ZeroNode.port = 0
        BY DEF ZeroNode
  <2> QED BY <2>1, ZeroNodeType, NodeType, SizesAssumption
<1>2. Len(a) = ipLen /\ Len(b) = 2 /\ b[1] = 0 /\ b[2] = 0
      BY <1>1 DEF encodeUint16, ToByte
<1>3. \A j \in 1 .. ipLen : a[j] = 0
      OBVIOUS
<1>4. z \in Seq(Byte) /\ Len(z) = ipLen + 2 /\ \A i \in 1 .. ipLen + 2 : z[i] = 0
      BY <1>1 DEF Byte
<1> HIDE DEF a, b, s, z
<1>5. ASSUME NEW i \in 1 .. ipLen + 2 PROVE s[i] = 0
  <2>1. CASE i <= ipLen
    <3>1. i \in 1 .. ipLen /\ 0 + i = i
          BY <1>1, <2>1
    <3> QED BY <1>1, <1>2, <1>3, <3>1 DEF Has
  <2>2. CASE ~(i <= ipLen)
    <3>1. i = ipLen + 1 \/ i = ipLen + 2
          BY <1>1, <2>2
    <3>2. s[ipLen + 1] = b[1] /\ s[ipLen + 2] = b[2]
          BY <1>1, <1>2 DEF Has
    <3> QED BY <1>2, <3>1, <3>2
  <2> QED BY <2>1, <2>2
<1>6. s = z
      BY <1>1, <1>4, <1>5, SeqEqual
<1> QED BY <1>6 DEF s, z

\* A member as decodeMembers returns it.
Arrived(m) == IF m.source = NoNode THEN [m EXCEPT !.source = ZeroNode] ELSE m

LEMMA ArrivedType ==
    ASSUME NEW m \in Member
    PROVE  /\ m.status \in Byte /\ m.node \in NodeAddress /\ m.heartbeat \in Uint32
           /\ Arrived(m).source \in NodeAddress
           /\ Arrived(m) = [status |-> m.status, node |-> m.node, heartbeat |-> m.heartbeat,
                            source |-> Arrived(m).source]
           /\ encodeMember(m) = <<m.status>> \o encodeNode(m.node) \o
                                   encodeUint32(m.heartbeat) \o encodeNode(Arrived(m).source)
<1>1. /\ m.status \in Byte /\ m.node \in NodeAddress /\ m.heartbeat \in Uint32
      /\ m.source \in NodeAddress \cup {NoNode}
      /\ m = [status |-> m.status, node |-> m.node, heartbeat |-> m.heartbeat,
              source |-> m.source]
      BY DEF Member
<1>2. CASE m.source = NoNode
  <2>1. Arrived(m) = [status |-> m.status, node |-> m.node, heartbeat |-> m.heartbeat,
                      source |-> ZeroNode]
        BY <1>1, <1>2 DEF Arrived
  <2>2. Arrived(m).source = ZeroNode
        BY <2>1
  <2> QED BY <1>1, <1>2, <2>1, <2>2, ZeroNodeType, ZeroNodeBytes, Zenon DEF encodeMember
<1>3. CASE m.source # NoNode
  <2>1. Arrived(m) = m
        BY <1>3 DEF Arrived
  <2> QED BY <1>1, <1>3, <2>1 DEF encodeMember
<1> QED BY <1>2, <1>3

LEMMA MemberType ==
    ASSUME NEW m \in Member
    PROVE  /\ encodeMember(m) \in Seq(Byte) /\ Len(encodeMember(m)) = 9 + ipLen + ipLen
           /\ Has(encodeMember(m), 0, <<m.status>>)
           /\ Has(encodeMember(m), 1, encodeNode(m.node))
           /\ Has(encodeMember(m), 3 + ipLen, encodeUint32(m.heartbeat))
           /\ Has(encodeMember(m), 7 + ipLen, encodeNode(Arrived(m).source))
<1> DEFINE a == <<m.status>>
           b == encodeNode(m.node)
           c == encodeUint32(m.heartbeat)
           d == encodeNode(Arrived(m).source)
           s == a \o b \o c \o d
<1>1. a \in Seq(Byte) /\ Len(a) = 1
  <2>1. m.status \in Byte
        BY ArrivedType, Zenon
  <2> QED BY <2>1
<1>2. /\ b \in Seq(Byte) /\ Len(b) = ipLen + 2 /\ d \in Seq(Byte) /\ Len(d) = ipLen + 2
      BY ArrivedType, NodeType, Zenon
<1>3. c \in Seq(Byte) /\ Len(c) = 4
  <2>1. m.heartbeat \in Uint32
        BY ArrivedType, Zenon
  <2>2. m.heartbeat \in Nat
        BY <2>1, SMT DEF Uint32
  <2> QED BY <2>2, Uint32Type
<1>4. encodeMember(m) = s
      BY ArrivedType
<1> HIDE DEF a, b, c, d
<1>5. /\ s \in Seq(Byte) /\ Len(s) = Len(a) + Len(b) + Len(c) + Len(d)
      /\ Has(s, 0, a) /\ Has(s, Len(a), b) /\ Has(s, Len(a) + Len(b), c)
      /\ Has(s, Len(a) + Len(b) + Len(c), d)
  <2>1. a \in Seq(Byte) /\ b \in Seq(Byte) /\ c \in Seq(Byte) /\ d \in Seq(Byte)
        BY <1>1, <1>2, <1>3
  <2> QED BY <2>1, JoinFour
<1> HIDE DEF s
<1>6. /\ Len(a) + Len(b) = 3 + ipLen /\ Len(a) + Len(b) + Len(c) = 7 + ipLen
      /\ Len(a) + Len(b) + Len(c) + Len(d) = 9 + ipLen + ipLen
      BY <1>1, <1>2, <1>3, SizesAssumption
<1>7. /\ s \in Seq(Byte) /\ Len(s) = 9 + ipLen + ipLen /\ Has(s, 0, a) /\ Has(s, 1, b)
      /\ Has(s, 3 + ipLen, c) /\ Has(s, 7 + ipLen, d)
      BY <1>1, <1>5, <1>6
<1> QED BY <1>4, <1>7 DEF a, b, c, d

\* What encodeMember writes, decodeMembers reads.
LEMMA MemberRead ==
    ASSUME NEW m \in Member, NEW bytes, NEW p \in Nat, Has(bytes, p, encodeMember(m))
    PROVE  [status |-> decodeByte(bytes, p),
            node |-> decodeNode(bytes, p + 1),
            heartbeat |-> decodeUint32(bytes, p + 3 + ipLen),
            source |-> decodeNode(bytes, p + 7 + ipLen)] = Arrived(m)
<1> DEFINE s == encodeMember(m)
           a == <<m.status>>
           b == encodeNode(m.node)
           c == encodeUint32(m.heartbeat)
           d == encodeNode(Arrived(m).source)
<1>1. /\ Len(s) = 9 + ipLen + ipLen /\ Has(s, 0, a) /\ Has(s, 1, b)
      /\ Has(s, 3 + ipLen, c) /\ Has(s, 7 + ipLen, d)
      BY MemberType, Zenon
<1>2. /\ m.node \in NodeAddress /\ m.heartbeat \in Uint32 /\ Arrived(m).source \in NodeAddress
      /\ Arrived(m) = [status |-> m.status, node |-> m.node, heartbeat |-> m.heartbeat,
                       source |-> Arrived(m).source]
      BY ArrivedType, Zenon
<1>3. Len(a) = 1 /\ Len(b) = ipLen + 2 /\ Len(d) = ipLen + 2
      BY <1>2, NodeType
<1>4. Len(c) = 4
  <2>1. m.heartbeat \in Nat
        BY <1>2, SMT DEF Uint32
  <2> QED BY <2>1, Uint32Type
<1>5. a[1] = m.status
      OBVIOUS
<1>6. Has(bytes, p, s)
      OBVIOUS
<1> HIDE DEF a, b, c, d, s
<1>7. /\ ipLen \in Nat /\ 0 \in Nat /\ 1 \in Nat /\ 3 + ipLen \in Nat /\ 7 + ipLen \in Nat
      /\ Len(s) \in Nat /\ Len(a) \in Nat /\ Len(b) \in Nat /\ Len(c) \in Nat /\ Len(d) \in Nat
      /\ 0 + Len(a) <= Len(s) /\ 1 + Len(b) <= Len(s) /\ (3 + ipLen) + Len(c) <= Len(s)
      /\ (7 + ipLen) + Len(d) <= Len(s)
      BY <1>1, <1>3, <1>4, SizesAssumption
<1>8. Has(bytes, p + 0, a)
      BY <1>1, <1>6, <1>7, Within, Zenon
<1>9. Has(bytes, p + 1, b)
      BY <1>1, <1>6, <1>7, Within, Zenon
<1>10. Has(bytes, p + (3 + ipLen), c)
      BY <1>1, <1>6, <1>7, Within, Zenon
<1>11. Has(bytes, p + (7 + ipLen), d)
      BY <1>1, <1>6, <1>7, Within, Zenon
<1>12. decodeByte(bytes, p) = m.status
  <2>1. bytes[(p + 0) + 1] = a[1]
        BY <1>3, <1>8 DEF Has
  <2> QED BY <1>5, <2>1 DEF decodeByte
<1>13. decodeNode(bytes, p + 1) = m.node
      BY <1>2, <1>9, NodeRead DEF b
<1>14. decodeUint32(bytes, p + 3 + ipLen) = m.heartbeat
  <2>1. p + (3 + ipLen) \in Nat /\ p + 3 + ipLen = p + (3 + ipLen)
        BY <1>7
  <2> QED BY <1>2, <1>10, <2>1, Uint32Read DEF c
<1>15. decodeNode(bytes, p + 7 + ipLen) = Arrived(m).source
  <2>1. p + (7 + ipLen) \in Nat /\ p + 7 + ipLen = p + (7 + ipLen)
        BY <1>7
  <2> QED BY <1>2, <1>11, <2>1, NodeRead DEF d
<1> QED BY <1>2, <1>12, <1>13, <1>14, <1>15, Zenon

-----------------------------------------------------------------------------
(* Members one after the other *)

MemberWidth == 9 + ipLen + ipLen

\* f[i] are the bytes of the first i members, as encodeMembers builds them.
Rows(f, members, k) ==
    f = [i \in 0 .. k |-> IF i = 0 THEN <<>> ELSE f[i - 1] \o encodeMember(members[i])]

LEMMA RowsExist ==
    ASSUME NEW members, NEW k \in Nat
    PROVE  \E f : Rows(f, members, k)
<1> DEFINE Have(n) == \E f : Rows(f, members, n)
           S == {n \in Nat : Have(n)}
<1>1. Have(0)
  <2> DEFINE f == [i \in 0 .. 0 |-> <<>>]
  <2>1. Rows(f, members, 0)
        BY DEF Rows
  <2> QED BY <2>1
<1>2. ASSUME NEW n \in Nat, Have(n) PROVE Have(n + 1)
  <2>1. PICK f : Rows(f, members, n)
        BY <1>2
  <2> DEFINE last == f[n] \o encodeMember(members[n + 1])
             g == [i \in 0 .. n + 1 |-> IF i = n + 1 THEN last ELSE f[i]]
  <2>2. \A i \in 0 .. n : f[i] = IF i = 0 THEN <<>> ELSE f[i - 1] \o encodeMember(members[i])
        BY <2>1, Zenon DEF Rows
  <2>3. \A i \in 0 .. n + 1 : g[i] = IF i = n + 1 THEN last ELSE f[i]
        OBVIOUS
  <2>4. g = [i \in 0 .. n + 1 |-> g[i]]
        OBVIOUS
  <2> HIDE DEF g
  <2>5. ASSUME NEW i \in 0 .. n + 1
        PROVE  g[i] = IF i = 0 THEN <<>> ELSE g[i - 1] \o encodeMember(members[i])
    <3>1. i = 0 \/ (i - 1 \in 0 .. n + 1 /\ i - 1 # n + 1)
          OBVIOUS
    <3>2. i = 0 \/ g[i - 1] = f[i - 1]
          BY <2>3, <3>1
    <3>3. CASE i = n + 1
      <4>1. i - 1 = n /\ i # 0
            BY <3>3
      <4>2. g[i] = last
            BY <2>3, <3>3, Zenon
      <4> QED BY <3>2, <3>3, <4>1, <4>2, Zenon
    <3>4. CASE i # n + 1
      <4>1. i \in 0 .. n
            BY <3>4
      <4>2. g[i] = f[i]
            BY <2>3, <3>4
      <4> QED BY <2>2, <3>2, <4>1, <4>2
    <3> QED BY <3>3, <3>4
  <2>6. Rows(g, members, n + 1)
        BY <2>4, <2>5, Zenon DEF Rows
  <2> QED BY <2>6
<1> HIDE DEF Have
<1>3. 0 \in S /\ \A n \in Nat : n \in S => n + 1 \in S
      BY <1>1, <1>2
<1> HIDE DEF S
<1>4. Nat \subseteq S
      BY <1>3, Induction
<1> QED BY <1>4 DEF S, Have

LEMMA Multiples ==
    ASSUME NEW w \in Nat, NEW i \in Nat
    PROVE  /\ i * w \in Nat /\ (i + 1) * w = i * w + w /\ 0 * w = 0
           /\ \A j \in 1 .. i : (j - 1) * w \in Nat /\ (j - 1) * w + w <= i * w
<1>1. i * w \in Nat /\ (i + 1) * w = i * w + w /\ 0 * w = 0
      OBVIOUS
<1>2. ASSUME NEW j \in 1 .. i PROVE (j - 1) * w \in Nat /\ (j - 1) * w + w <= i * w
  <2>1. PICK d \in Nat : i = j + d
    <3>1. i - j \in Nat /\ i = j + (i - j)
          OBVIOUS
    <3> QED BY <3>1
  <2>2. i * w = j * w + d * w /\ d * w \in Nat
        BY <2>1
  <2>3. PICK e \in Nat : j = e + 1
    <3>1. j - 1 \in Nat /\ j = (j - 1) + 1
          OBVIOUS
    <3> QED BY <3>1
  <2>4. j * w = e * w + w /\ e * w \in Nat /\ j - 1 = e
        BY <2>3
  <2> QED BY <2>2, <2>4
<1> QED BY <1>1, <1>2

\* The j-th member begins after (j - 1) * MemberWidth bytes.
LEMMA MembersType ==
    ASSUME NEW members \in Seq(Member)
    PROVE  /\ encodeMembers(members) \in Seq(Byte)
           /\ Len(encodeMembers(members)) = Len(members) * MemberWidth
           /\ \A j \in 1 .. Len(members) :
                 Has(encodeMembers(members), (j - 1) * MemberWidth, encodeMember(members[j]))
<1> DEFINE k == Len(members)
           w == MemberWidth
           f == CHOOSE x : Rows(x, members, k)
           Right(x, i) == /\ x \in Seq(Byte) /\ Len(x) = i * w
                          /\ \A j \in 1 .. i : Has(x, (j - 1) * w, encodeMember(members[j]))
           S == {n \in Nat : n <= k => Right(f[n], n)}
<1>1. /\ k \in Nat /\ w \in Nat
      /\ \A j \in 1 .. k : members[j] \in Member
  <2>1. k \in Nat /\ \A j \in 1 .. k : members[j] \in Member
        BY LenProperties, ElementOfSeq
  <2>2. w \in Nat
        BY SizesAssumption DEF MemberWidth
  <2> QED BY <2>1, <2>2, Zenon
<1>2. \A j \in 1 .. k : encodeMember(members[j]) \in Seq(Byte) /\ Len(encodeMember(members[j])) = w
      BY <1>1, MemberType, Zenon DEF MemberWidth
<1>3. encodeMembers(members) = f[k]
      BY Zenon DEF encodeMembers, Rows
<1>4. Rows(f, members, k)
      BY <1>1, RowsExist, Zenon
<1> HIDE DEF f, k, w
<1>5. \A i \in 0 .. k : f[i] = IF i = 0 THEN <<>> ELSE f[i - 1] \o encodeMember(members[i])
      BY <1>4, Zenon DEF Rows
<1>6. Right(f[0], 0)
  <2>1. f[0] = <<>> /\ 0 * w = 0
        BY <1>1, <1>5, Multiples
  <2> QED BY <2>1
<1>7. ASSUME NEW i \in Nat, i + 1 <= k, Right(f[i], i) PROVE Right(f[i + 1], i + 1)
  <2> DEFINE a == f[i]
             b == encodeMember(members[i + 1])
             c == a \o b
  <2>1. i + 1 \in 0 .. k /\ i + 1 \in 1 .. k /\ i + 1 # 0 /\ (i + 1) - 1 = i
        BY <1>1, <1>7
  <2>2. f[i + 1] = c
        BY <1>5, <2>1, Zenon
  <2>3. /\ i * w \in Nat /\ (i + 1) * w = i * w + w
        /\ \A j \in 1 .. i : (j - 1) * w \in Nat /\ (j - 1) * w + w <= i * w
        BY <1>1, Multiples, Zenon
  <2>4. a \in Seq(Byte) /\ Len(a) = i * w /\ b \in Seq(Byte) /\ Len(b) = w
        BY <1>2, <1>7, <2>1, Zenon
  <2>5. \A j \in 1 .. i : Has(a, (j - 1) * w, encodeMember(members[j]))
        BY <1>7, Zenon
  <2> HIDE DEF a, b
  <2>6. c \in Seq(Byte) /\ Len(c) = Len(a) + Len(b) /\ Has(c, 0, a) /\ Has(c, Len(a), b)
        BY <2>4, Join, Zenon
  <2> HIDE DEF c
  <2>7. ASSUME NEW j \in 1 .. i PROVE Has(c, (j - 1) * w, encodeMember(members[j]))
    <3> DEFINE q == (j - 1) * w
               t == encodeMember(members[j])
    <3>1. j \in 1 .. k
          BY <1>1, <1>7
    <3>2. q \in Nat /\ q + Len(t) <= Len(a) /\ Len(a) \in Nat /\ Len(t) \in Nat /\ Has(a, q, t)
          BY <1>1, <1>2, <2>3, <2>4, <2>5, <3>1, Zenon
    <3> HIDE DEF q, t
    <3>3. Has(c, 0 + q, t)
      <4>1. 0 \in Nat
            OBVIOUS
      <4> QED BY <2>6, <3>2, <4>1, Within, Zenon
    <3>4. 0 + q = q
          BY <3>2
    <3>5. Has(c, q, t)
          BY <3>3, <3>4, Zenon
    <3> QED BY <3>5 DEF q, t
  <2>8. ASSUME NEW j \in 1 .. i + 1 PROVE Has(c, (j - 1) * w, encodeMember(members[j]))
    <3>1. CASE j = i + 1
          BY <2>1, <2>4, <2>6, <3>1, Zenon DEF b
    <3>2. CASE j # i + 1
      <4>1. j \in 1 .. i
            BY <3>2
      <4> QED BY <2>7, <4>1
    <3> QED BY <3>1, <3>2
  <2>9. c \in Seq(Byte) /\ Len(c) = (i + 1) * w
        BY <2>3, <2>4, <2>6, Zenon
  <2> QED BY <2>2, <2>8, <2>9, Zenon
<1> HIDE DEF Right
<1>8. 0 \in S
      BY <1>6
<1>9. ASSUME NEW n \in Nat, n \in S PROVE n + 1 \in S
      BY <1>1, <1>7, <1>9
<1> HIDE DEF S
<1>10. Nat \subseteq S
      BY <1>8, <1>9, Induction, Zenon
<1>11. Right(f[k], k)
  <2>1. k \in S /\ k <= k
        BY <1>1, <1>10
  <2> QED BY <2>1 DEF S
<1> QED BY <1>3, <1>11, Zenon DEF Right, k, w

-----------------------------------------------------------------------------
(* Broadcasts *)

\* A broadcast whose payload has a length that a uint16 can tell.
Sendable == {b \in [origin : NodeAddress, index : Uint32, bytes : Seq(Byte)] :
                Len(b.bytes) \in Uint16}

LEMMA BroadcastType ==
    ASSUME NEW b \in Sendable
    PROVE  /\ encodeBroadcast(b) \in Seq(Byte)
           /\ Len(encodeBroadcast(b)) = 8 + ipLen + Len(b.bytes)
           /\ Has(encodeBroadcast(b), 0, encodeNode(b.origin))
           /\ Has(encodeBroadcast(b), ipLen + 2, encodeUint32(b.index))
           /\ Has(encodeBroadcast(b), ipLen + 6, encodeUint16(Len(b.bytes)))
           /\ Has(encodeBroadcast(b), ipLen + 8, b.bytes)
<1> DEFINE x == encodeNode(b.origin)
           y == encodeUint32(b.index)
           z == encodeUint16(Len(b.bytes))
           t == b.bytes
           s == x \o y \o z \o t
<1>1. b.origin \in NodeAddress /\ b.index \in Uint32 /\ t \in Seq(Byte) /\ Len(t) \in Uint16
      BY DEF Sendable
<1>2. x \in Seq(Byte) /\ Len(x) = ipLen + 2
      BY <1>1, NodeType
<1>3. y \in Seq(Byte) /\ Len(y) = 4
  <2>1. b.index \in Nat
        BY <1>1, SMT DEF Uint32
  <2> QED BY <2>1, Uint32Type
<1>4. z \in Seq(Byte) /\ Len(z) = 2 /\ Len(t) \in Nat
      BY <1>1, Uint16Type DEF Uint16
<1>5. encodeBroadcast(b) = s
      BY DEF encodeBroadcast
<1> HIDE DEF x, y, z, t
<1>6. /\ s \in Seq(Byte) /\ Len(s) = Len(x) + Len(y) + Len(z) + Len(t)
      /\ Has(s, 0, x) /\ Has(s, Len(x), y) /\ Has(s, Len(x) + Len(y), z)
      /\ Has(s, Len(x) + Len(y) + Len(z), t)
  <2>1. x \in Seq(Byte) /\ y \in Seq(Byte) /\ z \in Seq(Byte) /\ t \in Seq(Byte)
        BY <1>1, <1>2, <1>3, <1>4
  <2> QED BY <2>1, JoinFour
<1> HIDE DEF s
<1>7. /\ Len(x) + Len(y) = ipLen + 6 /\ Len(x) + Len(y) + Len(z) = ipLen + 8
      /\ Len(x) + Len(y) + Len(z) + Len(t) = 8 + ipLen + Len(t)
      BY <1>2, <1>3, <1>4, SizesAssumption
<1>8. /\ s \in Seq(Byte) /\ Len(s) = 8 + ipLen + Len(t) /\ Has(s, 0, x)
      /\ Has(s, ipLen + 2, y) /\ Has(s, ipLen + 6, z) /\ Has(s, ipLen + 8, t)
      BY <1>2, <1>6, <1>7
<1> QED BY <1>5, <1>8 DEF x, y, z, t

\* What encodeBroadcast writes, decodeBroadcast reads.
LEMMA BroadcastRead ==
    ASSUME NEW b \in Sendable
    PROVE  decodeBroadcast(encodeBroadcast(b)) = b
<1> DEFINE s == encodeBroadcast(b)
<1>1. /\ b.origin \in NodeAddress /\ b.index \in Uint32 /\ b.bytes \in Seq(Byte)
      /\ Len(b.bytes) \in Uint16
      /\ b = [origin |-> b.origin, index |-> b.index, bytes |-> b.bytes]
      BY DEF Sendable
<1>2. /\ Has(s, 0, encodeNode(b.origin)) /\ Has(s, ipLen + 2, encodeUint32(b.index))
      /\ Has(s, ipLen + 6, encodeUint16(Len(b.bytes))) /\ Has(s, ipLen + 8, b.bytes)
      BY BroadcastType, Zenon
<1> HIDE DEF s
<1>3. ipLen + 2 \in Nat /\ ipLen + 6 \in Nat /\ ipLen + 8 \in Nat
      BY SizesAssumption
<1>4. decodeNode(s, 0) = b.origin
      BY <1>1, <1>2, NodeRead
<1>5. decodeUint32(s, ipLen + 2) = b.index
      BY <1>1, <1>2, <1>3, Uint32Read
<1>6. decodeUint16(s, ipLen + 6) = Len(b.bytes)
      BY <1>1, <1>2, <1>3, Uint16Read
<1>7. Slice(s, ipLen + 8, ipLen + 8 + Len(b.bytes)) = b.bytes
      BY <1>1, <1>2, <1>3, SliceOf
<1>8. decodeBroadcast(s) = [origin |-> b.origin, index |-> b.index, bytes |-> b.bytes]
      BY <1>4, <1>5, <1>6, <1>7 DEF decodeBroadcast
<1> QED BY <1>1, <1>8 DEF s

-----------------------------------------------------------------------------
(* Messages *)

\* The messages that encode can write.
Writable == {m \in Message : /\ Len(m.members) <= 63
                             /\ m.broadcast # NoBroadcast => m.broadcast \in Sendable}

MemberBytes(m) == encodeMembers(m.members)

BroadcastPart(m) == IF m.broadcast = NoBroadcast THEN <<>> ELSE encodeBroadcast(m.broadcast)

HeadPart(m) ==
    <<VerbByte(m)>> \o encodeUint16(m.port) \o encodeUint32(m.heartbeat) \o MemberBytes(m)

Body(m) == HeadPart(m) \o BroadcastPart(m)

\* Where the broadcast begins.
Last(m) == 11 + Len(m.members) * MemberWidth

LEMMA WritableFields ==
    ASSUME NEW m \in Writable
    PROVE  /\ m.verb \in Verb /\ m.port \in Uint16 /\ m.port \in Nat
           /\ m.heartbeat \in Uint32 /\ m.heartbeat \in Nat
           /\ m.members \in Seq(Member) /\ Len(m.members) \in 0 .. 63
           /\ DOMAIN m.members = 1 .. Len(m.members)
           /\ \A i \in 1 .. Len(m.members) : m.members[i] \in Member
           /\ m.broadcast # NoBroadcast => m.broadcast \in Sendable
           /\ m = [verb |-> m.verb, port |-> m.port, heartbeat |-> m.heartbeat,
                   members |-> m.members, broadcast |-> m.broadcast]
<1>1. /\ m \in Message /\ Len(m.members) <= 63
      /\ m.broadcast # NoBroadcast => m.broadcast \in Sendable
      BY Zenon DEF Writable
<1>2. /\ m.verb \in Verb /\ m.port \in Uint16 /\ m.heartbeat \in Uint32
      /\ m.members \in Seq(Member)
      /\ m = [verb |-> m.verb, port |-> m.port, heartbeat |-> m.heartbeat,
              members |-> m.members, broadcast |-> m.broadcast]
      BY <1>1, SMT DEF Message
<1>3. m.port \in Nat /\ m.heartbeat \in Nat
      BY <1>2, SMT DEF Uint16, Uint32
<1>4. /\ Len(m.members) \in Nat /\ DOMAIN m.members = 1 .. Len(m.members)
      /\ \A i \in 1 .. Len(m.members) : m.members[i] \in Member
      BY <1>2, LenProperties, ElementOfSeq
<1>5. Len(m.members) \in 0 .. 63
  <2>1. \A n \in Nat : n <= 63 => n \in 0 .. 63
        OBVIOUS
  <2> QED BY <1>1, <1>4, <2>1, Zenon
<1> QED BY <1>1, <1>2, <1>3, <1>4, <1>5, Zenon

\* The count and the verb share a byte.
LEMMA VerbByteRead ==
    ASSUME NEW m \in Writable
    PROVE  /\ VerbByte(m) \in Byte
           /\ VerbByte(m) \div 4 = Len(m.members) /\ VerbByte(m) % 4 = m.verb
<1>1. Len(m.members) \in 0 .. 63 /\ m.verb \in 0 .. 3
      BY WritableFields, Zenon DEF Verb
<1>2. ASSUME NEW k \in 0 .. 63, NEW v \in 0 .. 3
      PROVE  /\ ToByte(k * 4) + v \in Byte
             /\ (ToByte(k * 4) + v) \div 4 = k /\ (ToByte(k * 4) + v) % 4 = v
  <2>1. ToByte(k * 4) = k * 4
        BY SMT DEF ToByte
  <2>2. (k * 4 + v) \div 4 = k /\ (k * 4 + v) % 4 = v /\ k * 4 + v \in Byte
        BY SMT DEF Byte
  <2> QED BY <2>1, <2>2, Zenon
<1> QED BY <1>1, <1>2, Zenon DEF VerbByte

LEMMA MemberBytesType ==
    ASSUME NEW m \in Writable
    PROVE  /\ MemberBytes(m) \in Seq(Byte)
           /\ Len(MemberBytes(m)) = Len(m.members) * MemberWidth
           /\ \A i \in 1 .. Len(m.members) :
                 Has(MemberBytes(m), (i - 1) * MemberWidth, encodeMember(m.members[i]))
<1>1. m.members \in Seq(Member)
      BY WritableFields, Zenon
<1> QED BY <1>1, MembersType, Zenon DEF MemberBytes

LEMMA BodyType ==
    ASSUME NEW m \in Writable
    PROVE  /\ Body(m) \in Seq(Byte)
           /\ Len(Body(m)) + 4 = Size(m)
           /\ Len(Body(m)) + 4 = Last(m) + Len(BroadcastPart(m))
           /\ Last(m) = 11 + Len(MemberBytes(m))
           /\ Len(MemberBytes(m)) \in Nat /\ Len(BroadcastPart(m)) \in Nat
           /\ Has(Body(m), 0, <<VerbByte(m)>>)
           /\ Has(Body(m), 1, encodeUint16(m.port))
           /\ Has(Body(m), 3, encodeUint32(m.heartbeat))
           /\ Has(Body(m), 7, MemberBytes(m))
           /\ Has(Body(m), 7 + Len(MemberBytes(m)), BroadcastPart(m))
<1> DEFINE a == <<VerbByte(m)>>
           b == encodeUint16(m.port)
           c == encodeUint32(m.heartbeat)
           d == MemberBytes(m)
           e == BroadcastPart(m)
           h == a \o b \o c \o d
           s == h \o e
<1>1. a \in Seq(Byte) /\ Len(a) = 1
  <2>1. VerbByte(m) \in Byte
        BY VerbByteRead
  <2> QED BY <2>1
<1>2. b \in Seq(Byte) /\ Len(b) = 2
  <2>1. m.port \in Nat
        BY WritableFields, Zenon
  <2> QED BY <2>1, Uint16Type
<1>3. c \in Seq(Byte) /\ Len(c) = 4
  <2>1. m.heartbeat \in Nat
        BY WritableFields, Zenon
  <2> QED BY <2>1, Uint32Type
<1>4. d \in Seq(Byte) /\ Len(d) = Len(m.members) * MemberWidth /\ Len(d) \in Nat
  <2>1. d \in Seq(Byte) /\ Len(d) = Len(m.members) * MemberWidth
        BY MemberBytesType, Zenon
  <2> QED BY <2>1, LenProperties
<1>5. /\ e \in Seq(Byte) /\ Len(e) \in Nat
      /\ Len(e) = IF m.broadcast = NoBroadcast THEN 0 ELSE 8 + ipLen + Len(m.broadcast.bytes)
  <2>1. CASE m.broadcast = NoBroadcast
        BY <2>1 DEF BroadcastPart
  <2>2. CASE m.broadcast # NoBroadcast
    <3>1. m.broadcast \in Sendable
          BY <2>2, WritableFields, Zenon
    <3>2. e \in Seq(Byte) /\ Len(e) = 8 + ipLen + Len(m.broadcast.bytes)
          BY <2>2, <3>1, BroadcastType, Zenon DEF BroadcastPart
    <3> QED BY <2>2, <3>2, LenProperties
  <2> QED BY <2>1, <2>2
<1>6. Body(m) = s
      BY DEF Body, HeadPart
<1>7. Size(m) = 11 + Len(d) + Len(e) /\ Last(m) = 11 + Len(d)
      BY <1>4, <1>5, Zenon DEF Size, Last, MemberWidth
<1> HIDE DEF a, b, c, d, e
<1>8. /\ h \in Seq(Byte) /\ Len(h) = Len(a) + Len(b) + Len(c) + Len(d)
      /\ Has(h, 0, a) /\ Has(h, Len(a), b) /\ Has(h, Len(a) + Len(b), c)
      /\ Has(h, Len(a) + Len(b) + Len(c), d)
  <2>1. a \in Seq(Byte) /\ b \in Seq(Byte) /\ c \in Seq(Byte) /\ d \in Seq(Byte)
        BY <1>1, <1>2, <1>3, <1>4
  <2> QED BY <2>1, JoinFour
<1> HIDE DEF h
<1>9. /\ s \in Seq(Byte) /\ Len(s) = Len(h) + Len(e)
      /\ Has(s, 0, h) /\ Has(s, Len(h), e)
  <2>1. h \in Seq(Byte) /\ e \in Seq(Byte)
        BY <1>5, <1>8, Zenon
  <2> QED BY <2>1, Join, Zenon
<1> HIDE DEF s
<1>10. /\ Has(h, 0, a) /\ Has(h, 1, b) /\ Has(h, 3, c) /\ Has(h, 7, d)
       /\ Len(h) = 7 + Len(d)
  <2>1. /\ Len(a) + Len(b) = 3 /\ Len(a) + Len(b) + Len(c) = 7
        /\ Len(a) + Len(b) + Len(c) + Len(d) = 7 + Len(d)
        BY <1>1, <1>2, <1>3, <1>4
  <2> QED BY <1>1, <1>8, <2>1
<1>11. Has(s, 0, a) /\ Has(s, 1, b) /\ Has(s, 3, c) /\ Has(s, 7, d)
  <2>1. /\ Len(h) \in Nat /\ Len(a) \in Nat /\ Len(b) \in Nat /\ Len(c) \in Nat /\ Len(d) \in Nat
        /\ 0 \in Nat /\ 1 \in Nat /\ 3 \in Nat /\ 7 \in Nat
        /\ 0 + Len(a) <= Len(h) /\ 1 + Len(b) <= Len(h) /\ 3 + Len(c) <= Len(h)
        /\ 7 + Len(d) <= Len(h)
        BY <1>1, <1>2, <1>3, <1>4, <1>10
  <2>2. Has(s, 0 + 0, a)
        BY <1>9, <1>10, <2>1, Within, Zenon
  <2>3. Has(s, 0 + 1, b)
        BY <1>9, <1>10, <2>1, Within, Zenon
  <2>4. Has(s, 0 + 3, c)
        BY <1>9, <1>10, <2>1, Within, Zenon
  <2>5. Has(s, 0 + 7, d)
        BY <1>9, <1>10, <2>1, Within, Zenon
  <2> QED BY <2>2, <2>3, <2>4, <2>5
<1>12. Len(s) + 4 = 11 + Len(d) + Len(e) /\ Has(s, 7 + Len(d), e)
  <2>1. Has(s, 7 + Len(d), e) /\ Len(s) = (7 + Len(d)) + Len(e)
        BY <1>9, <1>10, Zenon
  <2>2. Len(d) \in Nat /\ Len(e) \in Nat
        BY <1>4, <1>5, Zenon
  <2> QED BY <2>1, <2>2
<1>13. Len(s) + 4 = Size(m) /\ Len(s) + 4 = Last(m) + Len(e)
      BY <1>7, <1>12
<1> QED BY <1>4, <1>5, <1>6, <1>7, <1>9, <1>11, <1>12, <1>13, ZenonT(60) DEF a, b, c, d, e

\* encode writes Size(m) bytes: the checksum, and then the parts in their places.
LEMMA EncodeType ==
    ASSUME NEW m \in Writable
    PROVE  /\ encode(m) \in Seq(Byte) /\ Len(encode(m)) = Size(m)
           /\ Slice(encode(m), 0, 4) = Checksum(Body(m))
           /\ Slice(encode(m), 4, Len(encode(m))) = Body(m)
           /\ Len(encode(m)) = Last(m) + Len(BroadcastPart(m))
           /\ Has(encode(m), 4, <<VerbByte(m)>>)
           /\ Has(encode(m), 5, encodeUint16(m.port))
           /\ Has(encode(m), 7, encodeUint32(m.heartbeat))
           /\ Has(encode(m), 11, MemberBytes(m))
           /\ Has(encode(m), Last(m), BroadcastPart(m))
<1> DEFINE c == Checksum(Body(m))
           t == Body(m)
           s == c \o t
           d == MemberBytes(m)
           e == BroadcastPart(m)
<1>1. /\ t \in Seq(Byte) /\ Len(t) + 4 = Size(m) /\ Len(t) + 4 = Last(m) + Len(e)
      /\ Last(m) = 11 + Len(d) /\ Len(d) \in Nat /\ Len(e) \in Nat
      /\ Has(t, 0, <<VerbByte(m)>>) /\ Has(t, 1, encodeUint16(m.port))
      /\ Has(t, 3, encodeUint32(m.heartbeat)) /\ Has(t, 7, d) /\ Has(t, 7 + Len(d), e)
      BY BodyType, Zenon
<1>2. c \in Seq(Byte) /\ Len(c) = 4
      BY <1>1, ChecksumType
<1>3. encode(m) = s
      BY Zenon DEF encode, Body, HeadPart, MemberBytes, BroadcastPart
<1> HIDE DEF c, t, d, e
<1>4. /\ s \in Seq(Byte) /\ Len(s) = 4 + Len(t) /\ Has(s, 0, c) /\ Has(s, 4, t) /\ Len(t) \in Nat
  <2>1. c \in Seq(Byte) /\ t \in Seq(Byte)
        BY <1>1, <1>2, Zenon
  <2>2. /\ s \in Seq(Byte) /\ Len(s) = Len(c) + Len(t) /\ Has(s, 0, c) /\ Has(s, Len(c), t)
        /\ Len(t) \in Nat
        BY <2>1, Join, Zenon
  <2> QED BY <1>2, <2>2, Zenon
<1> HIDE DEF s
<1>5. Slice(s, 0, 4) = c
  <2>1. c \in Seq(Byte) /\ Has(s, 0, c) /\ 0 \in Nat /\ 0 + Len(c) = 4
        BY <1>2, <1>4
  <2> QED BY <2>1, SliceOf, Zenon
<1>6. Slice(s, 4, Len(s)) = t
  <2>1. t \in Seq(Byte) /\ Has(s, 4, t) /\ 4 \in Nat /\ Len(s) = 4 + Len(t)
        BY <1>1, <1>4
  <2> QED BY <2>1, SliceOf
<1>7. Len(s) = Size(m) /\ Len(s) = Last(m) + Len(e)
  <2>1. Len(s) = Len(t) + 4
        BY <1>4
  <2> QED BY <1>1, <2>1, Zenon
<1>8. /\ Len(<<VerbByte(m)>>) = 1 /\ Len(encodeUint16(m.port)) = 2
      /\ Len(encodeUint32(m.heartbeat)) = 4
  <2>1. m.port \in Nat /\ m.heartbeat \in Nat
        BY WritableFields, Zenon
  <2> QED BY <2>1, Uint16Type, Uint32Type
<1>9. /\ Len(<<VerbByte(m)>>) \in Nat /\ Len(encodeUint16(m.port)) \in Nat
      /\ Len(encodeUint32(m.heartbeat)) \in Nat /\ Len(d) \in Nat /\ Len(e) \in Nat
      /\ 0 \in Nat /\ 1 \in Nat /\ 3 \in Nat /\ 4 \in Nat /\ 7 \in Nat /\ 7 + Len(d) \in Nat
      /\ 0 + Len(<<VerbByte(m)>>) <= Len(t) /\ 1 + Len(encodeUint16(m.port)) <= Len(t)
      /\ 3 + Len(encodeUint32(m.heartbeat)) <= Len(t)
      /\ 7 + Len(d) <= Len(t) /\ (7 + Len(d)) + Len(e) <= Len(t)
  <2>1. Len(t) = 7 + Len(d) + Len(e) /\ Len(d) \in Nat /\ Len(e) \in Nat
    <3>1. Len(t) + 4 = (11 + Len(d)) + Len(e) /\ Len(d) \in Nat /\ Len(e) \in Nat
          BY <1>1, Zenon
    <3> QED BY <1>4, <3>1
  <2> QED BY <1>8, <2>1
<1>10. Has(s, 4 + 0, <<VerbByte(m)>>)
      BY <1>1, <1>4, <1>9, Within, Zenon
<1>11. Has(s, 4 + 1, encodeUint16(m.port))
      BY <1>1, <1>4, <1>9, Within, Zenon
<1>12. Has(s, 4 + 3, encodeUint32(m.heartbeat))
      BY <1>1, <1>4, <1>9, Within, Zenon
<1>13. Has(s, 4 + 7, d)
      BY <1>1, <1>4, <1>9, Within, Zenon
<1>14. Has(s, 4 + (7 + Len(d)), e)
      BY <1>1, <1>4, <1>9, Within, Zenon
<1>15. /\ 4 + 0 = 4 /\ 4 + 1 = 5 /\ 4 + 3 = 7 /\ 4 + 7 = 11 /\ 4 + (7 + Len(d)) = 11 + Len(d)
      BY <1>9
<1>16. /\ Has(s, 4, <<VerbByte(m)>>) /\ Has(s, 5, encodeUint16(m.port))
       /\ Has(s, 7, encodeUint32(m.heartbeat)) /\ Has(s, 11, d) /\ Has(s, Last(m), e)
      BY <1>1, <1>10, <1>11, <1>12, <1>13, <1>14, <1>15
<1> QED BY <1>3, <1>4, <1>5, <1>6, <1>7, <1>16, Zenon DEF c, t, d, e

\* Delivered, field by field.
LEMMA DeliveredFields ==
    ASSUME NEW m \in Writable
    PROVE  Delivered(m) = [verb |-> m.verb, port |-> m.port, heartbeat |-> m.heartbeat,
                           members |-> [i \in 1 .. Len(m.members) |-> Arrived(m.members[i])],
                           broadcast |-> m.broadcast]
<1> DEFINE all == [i \in DOMAIN m.members |->
                      IF m.members[i].source = NoNode
                      THEN [m.members[i] EXCEPT !.source = [ip |-> [j \in 1 .. ipLen |-> 0],
                                                            port |-> 0]]
                      ELSE m.members[i]]
<1>1. /\ DOMAIN m.members = 1 .. Len(m.members)
      /\ m = [verb |-> m.verb, port |-> m.port, heartbeat |-> m.heartbeat,
              members |-> m.members, broadcast |-> m.broadcast]
      BY WritableFields, Zenon
<1>2. Delivered(m) = [m EXCEPT !.members = all]
      BY DEF Delivered
<1>3. all = [i \in 1 .. Len(m.members) |-> Arrived(m.members[i])]
      BY <1>1, Zenon DEF Arrived, ZeroNode
<1> HIDE DEF all
<1>4. [m EXCEPT !.members = all] =
          [verb |-> m.verb, port |-> m.port, heartbeat |-> m.heartbeat, members |-> all,
           broadcast |-> m.broadcast]
      BY <1>1
<1> QED BY <1>2, <1>3, <1>4, Zenon

\* decodeMembers reads the members one by one.
LEMMA MembersRead ==
    ASSUME NEW m \in Writable
    PROVE  decodeMembers(MemberBytes(m)) =
               [i \in 1 .. Len(m.members) |-> Arrived(m.members[i])]
<1> DEFINE k == Len(m.members)
           w == 9 + ipLen + ipLen
           d == MemberBytes(m)
<1>1. k \in 0 .. 63 /\ \A i \in 1 .. k : m.members[i] \in Member
      BY WritableFields, Zenon
<1>2. Len(d) = k * w /\ \A i \in 1 .. k : Has(d, (i - 1) * w, encodeMember(m.members[i]))
      BY MemberBytesType, Zenon DEF MemberWidth
<1>3. w \in Nat \ {0}
      BY SizesAssumption
<1> DEFINE read(i) == [status |-> decodeByte(d, (i - 1) * w),
                       node |-> decodeNode(d, (i - 1) * w + 1),
                       heartbeat |-> decodeUint32(d, (i - 1) * w + 3 + ipLen),
                       source |-> decodeNode(d, (i - 1) * w + 7 + ipLen)]
<1>4. ASSUME NEW i \in 1 .. k PROVE read(i) = Arrived(m.members[i])
  <2> DEFINE p == (i - 1) * w
  <2>1. p \in Nat
    <3>1. k \in Nat /\ w \in Nat
          BY <1>1, <1>3
    <3> HIDE DEF w, k
    <3> QED BY <3>1, Multiples
  <2>2. m.members[i] \in Member /\ Has(d, p, encodeMember(m.members[i]))
        BY <1>1, <1>2, Zenon
  <2> HIDE DEF p
  <2>3. [status |-> decodeByte(d, p), node |-> decodeNode(d, p + 1),
         heartbeat |-> decodeUint32(d, p + 3 + ipLen),
         source |-> decodeNode(d, p + 7 + ipLen)] = Arrived(m.members[i])
        BY <2>1, <2>2, MemberRead, Zenon
  <2> QED BY <2>3, Zenon DEF p
<1>5. Len(d) \div w = k
  <2>1. ASSUME NEW x \in Nat, NEW y \in Nat \ {0} PROVE (x * y) \div y = x
        BY SMT
  <2>2. k \in Nat
        BY <1>1
  <2> HIDE DEF w, k, d
  <2> QED BY <1>2, <1>3, <2>1, <2>2
<1>6. decodeMembers(d) = [i \in 1 .. Len(d) \div w |-> read(i)]
      BY Zenon DEF decodeMembers
<1> HIDE DEF read
<1> QED BY <1>4, <1>5, <1>6, Zenon

\* decodeMessage returns what was encoded, unless it refuses the broadcast.
LEMMA MessageRead ==
    ASSUME NEW m \in Writable
    PROVE  decodeMessage(encode(m)) =
               IF m.broadcast # NoBroadcast /\ Refused(m.broadcast)
               THEN [error |-> "broadcast"]
               ELSE [error |-> "none", message |-> Delivered(m)]
<1> DEFINE s == encode(m)
           v == decodeByte(s, 4)
           last == 11 + (v \div 4) * (9 + ipLen + ipLen)
           bc == IF Len(s) > last THEN decodeBroadcast(Slice(s, last, Len(s))) ELSE NoBroadcast
           mem == IF Len(s) > 11 THEN decodeMembers(Slice(s, 11, last)) ELSE <<>>
           d == MemberBytes(m)
           e == BroadcastPart(m)
           k == Len(m.members)
           all == [i \in 1 .. k |-> Arrived(m.members[i])]
<1>1. /\ Slice(s, 0, 4) = Checksum(Slice(s, 4, Len(s)))
      /\ Len(s) = Last(m) + Len(e)
      /\ Has(s, 4, <<VerbByte(m)>>) /\ Has(s, 5, encodeUint16(m.port))
      /\ Has(s, 7, encodeUint32(m.heartbeat)) /\ Has(s, 11, d) /\ Has(s, Last(m), e)
      BY EncodeType, Zenon
<1>2. decodeMessage(s) =
          IF Slice(s, 0, 4) # Checksum(Slice(s, 4, Len(s))) THEN [error |-> "checksum failure"]
          ELSE IF bc # NoBroadcast /\ Refused(bc) THEN [error |-> "broadcast"]
          ELSE [error |-> "none",
                message |-> [verb |-> v % 4, port |-> decodeUint16(s, 5),
                             heartbeat |-> decodeUint32(s, 7), members |-> mem,
                             broadcast |-> bc]]
      BY Zenon DEF decodeMessage
<1> HIDE DEF s
<1>3. /\ d \in Seq(Byte) /\ Len(d) = k * MemberWidth /\ Last(m) = 11 + Len(d)
      /\ Len(d) \in Nat /\ Len(e) \in Nat
      BY MemberBytesType, BodyType, Zenon
<1>4. v = VerbByte(m)
  <2>1. s[4 + 1] = <<VerbByte(m)>>[1]
        BY <1>1 DEF Has
  <2> QED BY <2>1 DEF decodeByte
<1>5. v % 4 = m.verb /\ last = Last(m)
  <2>1. v % 4 = m.verb /\ v \div 4 = k
        BY <1>4, VerbByteRead, Zenon
  <2> QED BY <2>1, Zenon DEF Last, MemberWidth
<1> HIDE DEF v, last
<1>6. decodeUint16(s, 5) = m.port
  <2>1. m.port \in Uint16
        BY WritableFields, Zenon
  <2> QED BY <1>1, <2>1, Uint16Read
<1>7. decodeUint32(s, 7) = m.heartbeat
  <2>1. m.heartbeat \in Uint32
        BY WritableFields, Zenon
  <2> QED BY <1>1, <2>1, Uint32Read
<1>8. mem = all
  <2>1. Slice(s, 11, last) = d
    <3> HIDE DEF d
    <3>1. Slice(s, 11, 11 + Len(d)) = d
          BY <1>1, <1>3, SliceOf
    <3> QED BY <1>3, <1>5, <3>1, Zenon
  <2>2. decodeMembers(d) = all
        BY MembersRead
  <2>3. ASSUME ~(Len(s) > 11) PROVE all = <<>>
    <3>1. Len(d) = 0
      <4>1. Len(s) = (11 + Len(d)) + Len(e) /\ Len(d) \in Nat /\ Len(e) \in Nat
            BY <1>1, <1>3, Zenon
      <4> QED BY <2>3, <4>1
    <3>2. k = 0
      <4>1. k \in 0 .. 63
            BY WritableFields, Zenon
      <4>2. MemberWidth \in Nat \ {0}
            BY SizesAssumption DEF MemberWidth
      <4>3. ASSUME NEW x \in Nat, NEW y \in Nat \ {0}, x * y = 0 PROVE x = 0
            BY <4>3, SMT
      <4>4. k \in Nat /\ k * MemberWidth = 0
            BY <1>3, <3>1, <4>1
      <4> QED BY <4>2, <4>3, <4>4
    <3> QED BY <3>2
  <2> QED BY <2>1, <2>2, <2>3, Zenon
<1>9. bc = m.broadcast
  <2>1. CASE m.broadcast = NoBroadcast
    <3>1. Len(e) = 0
          BY <2>1 DEF BroadcastPart
    <3>2. ~(Len(s) > last)
      <4>1. Len(s) = last + Len(e) /\ last = 11 + Len(d) /\ Len(d) \in Nat
            BY <1>1, <1>3, <1>5, Zenon
      <4> QED BY <3>1, <4>1
    <3> QED BY <2>1, <3>2, Zenon
  <2>2. CASE m.broadcast # NoBroadcast
    <3>1. m.broadcast \in Sendable
          BY <2>2, WritableFields, Zenon
    <3>2. e = encodeBroadcast(m.broadcast)
          BY <2>2, Zenon DEF BroadcastPart
    <3>3. e \in Seq(Byte) /\ Len(e) > 0
      <4>1. e \in Seq(Byte) /\ Len(e) = 8 + ipLen + Len(m.broadcast.bytes)
            BY <3>1, <3>2, BroadcastType, Zenon
      <4>2. Len(m.broadcast.bytes) \in Nat
            BY <3>1 DEF Sendable, Uint16
      <4>3. ipLen \in Nat /\ \A x, y \in Nat : 8 + x + y > 0
            BY SizesAssumption
      <4> QED BY <4>1, <4>2, <4>3, Zenon
    <3>4. Len(s) = last + Len(e) /\ last \in Nat /\ Has(s, last, e)
      <4>1. Len(s) = last + Len(e) /\ last = 11 + Len(d) /\ Len(d) \in Nat /\ Has(s, last, e)
            BY <1>1, <1>3, <1>5, Zenon
      <4> QED BY <4>1
    <3>5. Slice(s, last, Len(s)) = e
      <4> HIDE DEF e
      <4>1. Slice(s, last, last + Len(e)) = e
            BY <3>3, <3>4, SliceOf
      <4> QED BY <3>4, <4>1, Zenon
    <3>6. Len(s) > last
          BY <1>3, <3>3, <3>4
    <3>7. decodeBroadcast(e) = m.broadcast
          BY <3>1, <3>2, BroadcastRead, Zenon
    <3> QED BY <3>5, <3>6, <3>7, Zenon
  <2> QED BY <2>1, <2>2
<1> HIDE DEF bc, mem, all
<1>10. decodeMessage(s) =
          IF m.broadcast # NoBroadcast /\ Refused(m.broadcast) THEN [error |-> "broadcast"]
          ELSE [error |-> "none",
                message |-> [verb |-> m.verb, port |-> m.port, heartbeat |-> m.heartbeat,
                             members |-> all, broadcast |-> m.broadcast]]
      BY <1>1, <1>2, <1>5, <1>6, <1>7, <1>8, <1>9, ZenonT(60)
<1> QED BY <1>10, DeliveredFields, Zenon DEF s, all

-----------------------------------------------------------------------------
(* The invariant *)

\* The messages that transmitVerbGenericUDP builds.
Ready == {m \in Message : /\ Len(m.members) <= 63
                          /\ m.broadcast # NoBroadcast =>
                                Len(m.broadcast.bytes) <= MaxBroadcastBytes}

\* What decodeMessage gets of the bytes.
Cut(bytes) == IF Len(bytes) <= BufferSize THEN bytes ELSE Slice(bytes, 0, BufferSize)

WInv ==
    /\ msg # NoMessage => msg \in Ready
    /\ sent # NoMessage => msg # NoMessage /\ sent = encode(msg)
    /\ received # NoMessage => sent # NoMessage /\ received = decodeMessage(Cut(sent))

LEMMA ReadyIsWritable == ASSUME NEW m \in Ready PROVE m \in Writable
<1>1. /\ m \in Message /\ Len(m.members) <= 63
      /\ m.broadcast # NoBroadcast => Len(m.broadcast.bytes) <= MaxBroadcastBytes
      BY Zenon DEF Ready
<1>2. ASSUME m.broadcast # NoBroadcast PROVE m.broadcast \in Sendable
  <2> DEFINE b == m.broadcast
  <2>1. b \in [origin : Address, index : Heartbeat, bytes : Payload]
        BY <1>1, <1>2, SMT DEF Message
  <2>2. Len(b.bytes) <= MaxBroadcastBytes
        BY <1>1, <1>2, Zenon
  <2> HIDE DEF b
  <2>3. b \in [origin : NodeAddress, index : Uint32, bytes : Seq(Byte)]
        BY <2>1, DataAssumption
  <2>4. Len(b.bytes) \in Nat
        BY <2>3, LenProperties
  <2>5. Len(b.bytes) \in Uint16
    <3>1. ASSUME NEW x \in Nat, NEW y \in Uint16, x <= y PROVE x \in Uint16
          BY <3>1, SMT DEF Uint16, Byte
    <3> QED BY <2>2, <2>4, <3>1, SizesAssumption
  <2>6. b \in Sendable
        BY <2>3, <2>5, Zenon DEF Sendable
  <2> QED BY <2>6 DEF b
<1> QED BY <1>1, <1>2, Zenon DEF Writable

LEMMA NewMessageKeeps == ASSUME WInv, NewMessage PROVE WInv'
<1>1. msg = NoMessage /\ sent' = sent /\ received' = received
      BY Zenon DEF NewMessage
<1>2. sent = NoMessage /\ received = NoMessage
      BY <1>1, Zenon DEF WInv
<1>3. PICK verb \in Verb, sender \in Address, code \in Heartbeat,
           forward \in {<<>>} \cup {<<x>> : x \in Gossip(1)} :
           msg' = [verb |-> verb, port |-> sender.port, heartbeat |-> code,
                   members |-> [i \in DOMAIN forward |->
                                   [forward[i] EXCEPT !.status = StatusForwardTo,
                                                      !.heartbeat = code]],
                   broadcast |-> NoBroadcast]
      BY Zenon DEF NewMessage
<1> DEFINE mem == [i \in DOMAIN forward |-> [forward[i] EXCEPT !.status = StatusForwardTo,
                                                               !.heartbeat = code]]
<1>4. sender.port \in Uint16 /\ code \in Uint32
  <2>1. sender \in NodeAddress /\ code \in Uint32
        BY DataAssumption, Zenon
  <2> QED BY <2>1 DEF NodeAddress
<1>5. mem \in Seq(Member) /\ Len(mem) <= 63
  <2>1. CASE forward = <<>>
    <3>1. mem = <<>>
          BY <2>1
    <3> QED BY <3>1
  <2>2. CASE forward # <<>>
    <3>1. PICK x \in Gossip(1) : forward = <<x>>
          BY <2>2
    <3> DEFINE y == [x EXCEPT !.status = StatusForwardTo, !.heartbeat = code]
    <3>2. x \in Member
          BY DataAssumption
    <3>3. y \in Member
      <4>1. StatusForwardTo \in Byte
            BY DEF StatusForwardTo, Byte
      <4> QED BY <1>4, <3>2, <4>1, ZenonT(60) DEF Member
    <3>4. DOMAIN forward = 1 .. 1 /\ forward[1] = x
          BY <3>1
    <3>5. mem = [i \in 1 .. 1 |-> y]
      <4>1. ASSUME NEW i \in DOMAIN forward PROVE i = 1
            BY <3>4
      <4> QED BY <3>4, <4>1, Zenon
    <3> HIDE DEF y, mem
    <3> QED BY <3>3, <3>5
  <2> QED BY <2>1, <2>2, Zenon
<1> HIDE DEF mem
<1>6. msg' = [verb |-> verb, port |-> sender.port, heartbeat |-> code, members |-> mem,
              broadcast |-> NoBroadcast]
      BY <1>3, Zenon DEF mem
<1>7. msg' \in Message /\ msg'.members = mem /\ msg'.broadcast = NoBroadcast
      BY <1>4, <1>5, <1>6 DEF Message
<1>8. msg' \in Ready
      BY <1>5, <1>7, Zenon DEF Ready
<1> QED BY <1>1, <1>2, <1>8, Zenon DEF WInv

LEMMA AddMemberKeeps == ASSUME WInv, AddMember PROVE WInv'
<1>1. msg # NoMessage /\ sent = NoMessage /\ sent' = sent /\ received' = received
      BY Zenon DEF AddMember
<1>2. msg \in Ready /\ received = NoMessage
      BY <1>1, Zenon DEF WInv
<1>3. ASSUME msg' # NoMessage PROVE msg' \in Ready
  <2>1. ~(Len(msg.members) >= 63)
        BY <1>3, Zenon DEF AddMember
  <2>2. PICK x \in Gossip(Len(msg.members) + 1) :
             msg' = [msg EXCEPT !.members = Append(msg.members, x)]
        BY <2>1, Zenon DEF AddMember
  <2>3. /\ msg \in Message
        /\ msg.broadcast # NoBroadcast => Len(msg.broadcast.bytes) <= MaxBroadcastBytes
        BY <1>2, Zenon DEF Ready
  <2> DEFINE mem == Append(msg.members, x)
  <2>4. mem \in Seq(Member) /\ Len(mem) <= 63
    <3>1. msg.members \in Seq(Member)
          BY <2>3, SMT DEF Message
    <3>2. Len(msg.members) \in Nat
          BY <3>1, LenProperties
    <3>3. Len(msg.members) + 1 \in 1 .. 63 /\ Len(msg.members) + 1 <= 63
      <4>1. \A n \in Nat : ~(n >= 63) => n + 1 \in 1 .. 63 /\ n + 1 <= 63
            OBVIOUS
      <4> QED BY <2>1, <3>2, <4>1, Zenon
    <3>4. x \in Member
          BY <3>3, DataAssumption, Zenon
    <3>5. mem \in Seq(Member) /\ Len(mem) = Len(msg.members) + 1
          BY <3>1, <3>4, AppendProperties
    <3> QED BY <3>3, <3>5, Zenon
  <2> HIDE DEF mem
  <2>5. msg' = [msg EXCEPT !.members = mem]
        BY <2>2, Zenon DEF mem
  <2>6. /\ msg' \in Message /\ msg'.members = mem /\ msg'.broadcast = msg.broadcast
        BY <2>3, <2>4, <2>5, SMT DEF Message
  <2> QED BY <2>3, <2>4, <2>6, Zenon DEF Ready
<1> QED BY <1>1, <1>2, <1>3, Zenon DEF WInv

LEMMA WriteKeeps == ASSUME WInv, Write PROVE WInv'
<1>1. /\ msg # NoMessage /\ sent = NoMessage /\ sent' = encode(msg') /\ received' = received
      BY Zenon DEF Write
<1>2. msg \in Ready /\ received = NoMessage
      BY <1>1, Zenon DEF WInv
<1>3. PICK b \in {NoBroadcast} \cup [origin : Address, index : Heartbeat, bytes : Payload] :
           /\ b # NoBroadcast => Len(b.bytes) <= MaxBroadcastBytes
           /\ msg' = [msg EXCEPT !.broadcast = b]
      BY Zenon DEF Write
<1>4. msg \in Message /\ Len(msg.members) <= 63
      BY <1>2, Zenon DEF Ready
<1>5. msg' \in Message /\ msg'.members = msg.members /\ msg'.broadcast = b
      BY <1>3, <1>4, SMT DEF Message
<1>6. msg' \in Ready
      BY <1>3, <1>4, <1>5, Zenon DEF Ready
<1>7. msg' # NoMessage
      BY <1>5, NilAssumption, Zenon
<1> QED BY <1>1, <1>2, <1>6, <1>7, Zenon DEF WInv

\* The invariant is inductive.
LEMMA WInvKept == WInv /\ [WNext]_wvars => WInv'
<1> SUFFICES ASSUME WInv, [WNext]_wvars PROVE WInv'
    OBVIOUS
<1>1. CASE NewMessage
      BY <1>1, NewMessageKeeps
<1>2. CASE AddMember
      BY <1>2, AddMemberKeeps
<1>3. CASE Write
      BY <1>3, WriteKeeps
<1>4. CASE Receive
      BY <1>4, Zenon DEF WInv, Receive, Cut
<1>5. CASE Done
      BY <1>5, Zenon DEF WInv, Done
<1>6. CASE UNCHANGED wvars
      BY <1>6, Zenon DEF WInv, wvars
<1> QED BY <1>1, <1>2, <1>3, <1>4, <1>5, <1>6, Zenon DEF WNext

LEMMA WInvHolds == WSpec => []WInv
<1>1. WInit => WInv
      BY Zenon DEF WInit, WInv
<1> QED BY <1>1, WInvKept, PTL DEF WSpec

-----------------------------------------------------------------------------
(* The theorems *)

\* What transmitVerbGenericUDP builds is a message of at most 63 members, and what
\* encode makes of it are bytes.
THEOREM WireTypeCorrect == WSpec => []WTypeOK
<1>1. ASSUME WInv PROVE WTypeOK
  <2>1. ASSUME msg # NoMessage PROVE msg \in Message /\ Len(msg.members) <= 63
        BY <1>1, <2>1, Zenon DEF WInv, Ready
  <2>2. ASSUME sent # NoMessage PROVE sent \in Seq(Byte)
    <3>1. msg \in Writable /\ sent = encode(msg)
          BY <1>1, <2>2, ReadyIsWritable, Zenon DEF WInv
    <3> QED BY <3>1, EncodeType, Zenon
  <2> QED BY <2>1, <2>2, Zenon DEF WTypeOK
<1> QED BY <1>1, WInvHolds, PTL

\* The size that encode allocates is the number of bytes it writes, for any number
\* of members, any broadcast and any length of an IP address.
THEOREM SizeCorrect == WSpec => []SizeIsExact
<1>1. ASSUME WInv PROVE SizeIsExact
  <2> SUFFICES ASSUME sent # NoMessage PROVE Len(sent) = Size(msg)
      BY Zenon DEF SizeIsExact
  <2>1. msg \in Writable /\ sent = encode(msg)
        BY <1>1, ReadyIsWritable, Zenon DEF WInv
  <2> QED BY <2>1, EncodeType, Zenon
<1> QED BY <1>1, WInvHolds, PTL

\* What is received of a message that fits the buffer.
LEMMA ReceivedWhole ==
    ASSUME WInv, received # NoMessage, Len(sent) <= BufferSize
    PROVE  /\ msg \in Ready
           /\ received = IF msg.broadcast # NoBroadcast /\ Refused(msg.broadcast)
                         THEN [error |-> "broadcast"]
                         ELSE [error |-> "none", message |-> Delivered(msg)]
<1>1. msg \in Ready /\ sent = encode(msg) /\ received = decodeMessage(sent)
      BY Zenon DEF WInv, Cut
<1>2. msg \in Writable
      BY <1>1, ReadyIsWritable
<1> QED BY <1>1, <1>2, MessageRead, Zenon

\* decodeMessage takes every message that fits the buffer, unless its broadcast
\* comes from an address that begins with a zero byte: the limit that
\* BroadcastBytes enforces is the one that decodeMessage enforces.
THEOREM AcceptedCorrect == WSpec => []Accepted
<1>1. ASSUME WInv PROVE Accepted
  <2> SUFFICES ASSUME received # NoMessage, Len(sent) <= BufferSize,
                      msg.broadcast # NoBroadcast => msg.broadcast.origin.ip[1] # 0
               PROVE  received.error = "none"
      BY Zenon DEF Accepted
  <2>1. /\ msg \in Ready
        /\ received = IF msg.broadcast # NoBroadcast /\ Refused(msg.broadcast)
                      THEN [error |-> "broadcast"]
                      ELSE [error |-> "none", message |-> Delivered(msg)]
        BY <1>1, ReceivedWhole, Zenon
  <2>2. ASSUME msg.broadcast # NoBroadcast PROVE ~Refused(msg.broadcast)
    <3> DEFINE b == msg.broadcast
    <3>1. msg \in Message /\ Len(b.bytes) <= MaxBroadcastBytes /\ b.origin.ip[1] # 0
          BY <2>1, <2>2, Zenon DEF Ready
    <3>2. b \in [origin : Address, index : Heartbeat, bytes : Payload]
          BY <2>2, <3>1, SMT DEF Message
    <3>3. b.origin.port # 0 /\ b.bytes \in Seq(Byte)
          BY <3>2, DataAssumption
    <3>4. Len(b.bytes) \in Nat /\ MaxBroadcastBytes \in Nat
          BY <3>3, SizesAssumption, LenProperties DEF Uint16
    <3>5. ~(Len(b.bytes) > MaxBroadcastBytes)
      <4>1. \A x, y \in Nat : x <= y => ~(x > y)
            OBVIOUS
      <4> QED BY <3>1, <3>4, <4>1, Zenon
    <3> QED BY <3>1, <3>3, <3>5, Zenon DEF Refused
  <2>3. received = [error |-> "none", message |-> Delivered(msg)]
        BY <2>1, <2>2, Zenon
  <2> QED BY <2>3
<1> QED BY <1>1, WInvHolds, PTL

\* decodeMessage never misreads a message that fits the buffer.
THEOREM WholeRoundTrip == WSpec => [](Len(sent) <= BufferSize => RoundTrip)
<1>1. ASSUME WInv PROVE Len(sent) <= BufferSize => RoundTrip
  <2> SUFFICES ASSUME Len(sent) <= BufferSize, received # NoMessage, received.error = "none"
               PROVE  received.message = Delivered(msg)
      BY Zenon DEF RoundTrip
  <2>1. received = IF msg.broadcast # NoBroadcast /\ Refused(msg.broadcast)
                   THEN [error |-> "broadcast"]
                   ELSE [error |-> "none", message |-> Delivered(msg)]
        BY <1>1, ReceivedWhole, Zenon
  <2>2. CASE received = [error |-> "broadcast"]
    <3>1. received.error = "broadcast"
          BY <2>2
    <3> QED BY <3>1
  <2>3. CASE received = [error |-> "none", message |-> Delivered(msg)]
        BY <2>3
  <2> QED BY <2>1, <2>2, <2>3, Zenon
<1> QED BY <1>1, WInvHolds, PTL

\* The longest message fits the buffer.
LargestFits == 11 + 63 * (9 + ipLen + ipLen) + 8 + ipLen + MaxBroadcastBytes <= BufferSize

LEMMA FitsAlways ==
    ASSUME LargestFits, NEW m \in Ready
    PROVE  Len(encode(m)) <= BufferSize
<1> DEFINE k == Len(m.members)
           w == 9 + ipLen + ipLen
           n == IF m.broadcast = NoBroadcast THEN 0 ELSE 8 + ipLen + Len(m.broadcast.bytes)
<1>1. m \in Writable /\ ipLen \in Nat /\ MaxBroadcastBytes \in Nat /\ BufferSize \in Nat
      BY ReadyIsWritable, SizesAssumption DEF Uint16
<1>2. Len(encode(m)) = 11 + k * w + n
      BY <1>1, EncodeType, Zenon DEF Size
<1>3. k \in 0 .. 63
      BY <1>1, WritableFields, Zenon
<1>4. n \in Nat /\ n <= 8 + ipLen + MaxBroadcastBytes
  <2>1. CASE m.broadcast = NoBroadcast
        BY <1>1, <2>1
  <2>2. CASE m.broadcast # NoBroadcast
    <3>1. Len(m.broadcast.bytes) <= MaxBroadcastBytes
          BY <2>2, Zenon DEF Ready
    <3>2. m.broadcast \in Sendable
          BY <1>1, <2>2, WritableFields, Zenon
    <3>3. Len(m.broadcast.bytes) \in Nat
          BY <3>2 DEF Sendable, Uint16
    <3>4. \A x \in Nat : x <= MaxBroadcastBytes =>
             8 + ipLen + x \in Nat /\ 8 + ipLen + x <= 8 + ipLen + MaxBroadcastBytes
          BY <1>1
    <3> QED BY <2>2, <3>1, <3>3, <3>4, Zenon
  <2> QED BY <2>1, <2>2
<1>5. w \in Nat
      BY <1>1
<1>6. 11 + 63 * w + 8 + ipLen + MaxBroadcastBytes <= BufferSize
      BY Zenon DEF LargestFits
<1> HIDE DEF k, w, n
<1>7. k * w \in Nat /\ k * w <= 63 * w
      BY <1>3, <1>5
<1>8. 63 * w \in Nat
      BY <1>5
<1>9. 11 + k * w + n <= BufferSize
      BY <1>1, <1>4, <1>6, <1>7, <1>8
<1> QED BY <1>2, <1>9

\* Where the buffer holds the longest message, as with IPv4 addresses and the limit
\* of 256 bytes on a broadcast, decodeMessage never misreads.
THEOREM RoundTripCorrect == LargestFits => (WSpec => []RoundTrip)
<1> SUFFICES ASSUME LargestFits PROVE WSpec => []RoundTrip
    OBVIOUS
<1>1. ASSUME WInv, Len(sent) <= BufferSize => RoundTrip PROVE RoundTrip
  <2> SUFFICES ASSUME received # NoMessage PROVE RoundTrip
      BY Zenon DEF RoundTrip
  <2>1. msg \in Ready /\ sent = encode(msg)
        BY <1>1, Zenon DEF WInv
  <2>2. Len(sent) <= BufferSize
        BY <2>1, FitsAlways, Zenon
  <2> QED BY <1>1, <2>2
<1> QED BY <1>1, WInvHolds, WholeRoundTrip, PTL

=============================================================================
