--------------------------- MODULE Packet_proofs ---------------------------
(***************************************************************************)
(* Every request whose packet has a length of 16 bits makes a frame that   *)
(* is the request's and whose checksums its receiver accepts: FrameIsValid.*)
(* The sum of the code goes over words, that of the receiver over bytes    *)
(* and the checksum, and both are written in halves; the lemmas turn them  *)
(* into running sums (TotalAdds), compare these word by word               *)
(* (BytesAreWords), and show what the carries leave (ChecksumVerifies).    *)
(***************************************************************************)
EXTENDS Packet, SequenceTheorems, WellFoundedInduction, TLAPS

-----------------------------------------------------------------------------
(* Induction over the numbers, stated for sets: a smallest number for      *)
(* which a claim fails is neither 0 nor the successor of one for which it  *)
(* holds.                                                                  *)

\* A set of natural numbers that is not empty has a least element.
LEMMA LeastNumber ==
  ASSUME NEW T \in SUBSET Nat, T # {}
  PROVE  \E x \in T : \A y \in T : x <= y
<1> DEFINE R == OpToRel(<, Nat)
<1>1. IsWellFoundedOn(R, Nat)
  BY NatLessThanWellFounded
<1>2. \A x, y \in Nat : <<y, x>> \in R <=> y < x
  BY DEF OpToRel
<1> HIDE DEF R
<1>3. \E x \in T : \A y \in T : ~ (<<y, x>> \in R)
  BY <1>1, WFMin
<1>4. \A x, y \in T : x <= y \/ y < x
  OBVIOUS
<1>5. \A x \in T : x \in Nat
  OBVIOUS
<1> QED
  BY <1>2, <1>3, <1>4, <1>5

\* A set that holds 0 and, with every number below m, its successor holds m.
LEMMA UpTo ==
  ASSUME NEW m \in Nat, NEW S, 0 \in S, \A x \in 1 .. m : x - 1 \in S => x \in S
  PROVE  m \in S
<1> DEFINE T == (0 .. m) \ S
<1>1. T = {}
  <2> SUFFICES ASSUME T # {} PROVE FALSE
    OBVIOUS
  <2>1. T \in SUBSET Nat
    OBVIOUS
  <2>2. PICK x \in T : \A y \in T : x <= y
    BY <2>1, LeastNumber
  <2>3. x \in 1 .. m /\ x - 1 \in 0 .. m /\ ~ (x <= x - 1)
    OBVIOUS
  <2>4. x - 1 \in S
    BY <2>2, <2>3
  <2> QED
    BY <2>3, <2>4
<1> QED
  BY <1>1

-----------------------------------------------------------------------------
(* Sums in halves.                                                         *)


\* The equation of the recursive function in Total, for the sums of n numbers.
Halves(f, g, n) ==
  [k \in Nat |-> IF n = 0 THEN 0
                 ELSE IF n = 1 THEN f[k]
                 ELSE g[n \div 2][k] + g[n - (n \div 2)][k + (n \div 2)]]

\* It speaks of shorter sums only.
LEMMA HalvesOfShorter ==
  ASSUME NEW f, NEW g, NEW h, NEW n \in Nat, \A i \in 0 .. n - 1 : g[i] = h[i]
  PROVE  Halves(f, g, n) = Halves(f, h, n)
<1>1. CASE n <= 1
  BY <1>1 DEF Halves
<1>2. CASE n > 1
  <2>1. n \div 2 \in 0 .. n - 1 /\ n - (n \div 2) \in 0 .. n - 1
    BY <1>2
  <2>2. g[n \div 2] = h[n \div 2] /\ g[n - (n \div 2)] = h[n - (n \div 2)]
    BY <2>1
  <2> QED  BY <1>2, <2>2 DEF Halves
<1> QED  BY <1>1, <1>2

\* The equation has a solution, for any numbers f.
LEMMA HalvesExist ==
  ASSUME NEW f, NEW m \in Nat
  PROVE  \E g : g = [n \in 0 .. m |-> Halves(f, g, n)]
<1> DEFINE Fine(g, j) == \A n \in 0 .. j : g[n] = Halves(f, g, n)
           Has(j) == \E g : Fine(g, j)
           S == {j \in 0 .. m : Has(j)}
<1>1. Has(0)
  <2> DEFINE g == [n \in 0 .. 0 |-> [k \in Nat |-> 0]]
  <2>1. Fine(g, 0)
    BY DEF Halves
  <2> HIDE DEF Fine, g
  <2> QED  BY <2>1
<1>2. ASSUME NEW j \in 1 .. m, Has(j - 1)
      PROVE  Has(j)
  <2>1. PICK g : Fine(g, j - 1)
    BY <1>2
  <2> DEFINE h == [n \in 0 .. j |-> IF n = j THEN Halves(f, g, n) ELSE g[n]]
  <2>2. h[j] = Halves(f, g, j) /\ \A n \in 0 .. j - 1 : h[n] = g[n]
    OBVIOUS
  <2> HIDE DEF h
  <2>3. ASSUME NEW n \in 0 .. j
        PROVE  h[n] = Halves(f, h, n)
    <3>1. h[n] = Halves(f, g, n)
      BY <2>1, <2>2
    <3>2. \A i \in 0 .. n - 1 : g[i] = h[i]
      BY <2>2
    <3>3. Halves(f, g, n) = Halves(f, h, n)
      BY <3>2, HalvesOfShorter
    <3> QED  BY <3>1, <3>3
  <2>4. Fine(h, j)
    BY <2>3
  <2> HIDE DEF Fine
  <2> QED  BY <2>4
<1>3. m \in S
  <2>1. 0 \in S
    BY <1>1
  <2>2. \A j \in 1 .. m : j - 1 \in S => j \in S
    BY <1>2
  <2> HIDE DEF S
  <2> QED  BY <2>1, <2>2, UpTo
<1>4. PICK g : Fine(g, m)
  BY <1>3
<1> DEFINE h == [n \in 0 .. m |-> g[n]]
<1>5. \A n \in 0 .. m : h[n] = g[n]
  OBVIOUS
<1>6. ASSUME NEW n \in 0 .. m
      PROVE  g[n] = Halves(f, h, n)
  <2>1. g[n] = Halves(f, g, n)
    BY <1>4
  <2> HIDE DEF h
  <2>2. \A i \in 0 .. n - 1 : g[i] = h[i]
    BY <1>5
  <2>3. Halves(f, g, n) = Halves(f, h, n)
    BY <2>2, HalvesOfShorter
  <2> QED  BY <2>1, <2>3
<1>7. h = [n \in 0 .. m |-> Halves(f, h, n)]
  BY <1>6
<1> HIDE DEF h
<1> QED  BY <1>7

\* T holds the sums of the first 0, 1, ..., m elements of f.
Adds(f, T, m) == T[0] = 0 /\ \A n \in 1 .. m : T[n] = T[n - 1] + f[n - 1]

\* In halves or one after the other, the sum is the same.
LEMMA TotalAdds ==
  ASSUME NEW m \in Nat, NEW f \in [0 .. m - 1 -> Int]
  PROVE  \E T \in [0 .. m -> Int] : Adds(f, T, m) /\ T[m] = Total(f, m)
<1> DEFINE sum == CHOOSE g : g = [n \in 0 .. m |-> Halves(f, g, n)]
<1>1. sum = [n \in 0 .. m |-> Halves(f, sum, n)]
  BY HalvesExist
<1>2. Total(f, m) = sum[m][0]
  BY DEF Total, Halves
<1> HIDE DEF sum
<1>3. ASSUME NEW n \in 0 .. m, NEW k \in Nat
      PROVE  sum[n][k] = IF n = 0 THEN 0
                         ELSE IF n = 1 THEN f[k]
                         ELSE sum[n \div 2][k] + sum[n - (n \div 2)][k + (n \div 2)]
  <2>1. sum[n] = Halves(f, sum, n)
    BY <1>1
  <2> QED  BY <2>1 DEF Halves
\* A sum may be cut anywhere.
<1> DEFINE Good(n) == \A k \in Nat : k + n <= m =>
                        /\ sum[n][k] \in Int
                        /\ \A h \in 0 .. n : sum[n][k] = sum[h][k] + sum[n - h][k + h]
           S == {n \in 0 .. m : \A i \in 0 .. n : Good(i)}
<1>4. Good(0)
  BY <1>3
<1>5. ASSUME NEW n \in 1 .. m, \A i \in 0 .. n - 1 : Good(i)
      PROVE  Good(n)
  <2> SUFFICES ASSUME NEW k \in Nat, k + n <= m
               PROVE  /\ sum[n][k] \in Int
                      /\ \A h \in 0 .. n : sum[n][k] = sum[h][k] + sum[n - h][k + h]
    OBVIOUS
  <2> DEFINE d == n \div 2
  <2>1. sum[0][k] = 0 /\ sum[0][k + n] = 0
    BY <1>3
  <2>2. CASE n = 1
    <3>1. k \in 0 .. m - 1
      BY <2>2
    <3>2. sum[n][k] = f[k] /\ f[k] \in Int
      BY <1>3, <2>2, <3>1
    <3> QED  BY <2>1, <2>2, <3>2
  <2>3. CASE n > 1
    <3>1. /\ d \in 1 .. n - 1 /\ n - d \in 1 .. n - 1
          /\ k + d \in Nat /\ k + d + (n - d) <= m /\ k + d <= m
      BY <2>3
    <3>2. sum[n][k] = sum[d][k] + sum[n - d][k + d]
      <4>1. n \in 0 .. m /\ n # 0 /\ n # 1
        BY <2>3
      <4> QED  BY <1>3, <4>1
    <3> HIDE DEF d
    <3>3. Good(d) /\ Good(n - d)
      BY <1>5, <3>1
    <3>4. sum[d][k] \in Int /\ sum[n - d][k + d] \in Int
      BY <3>1, <3>3
    <3>5. ASSUME NEW h \in 0 .. n
          PROVE  sum[n][k] = sum[h][k] + sum[n - h][k + h]
      <4>1. CASE h = 0 \/ h = n
        BY <2>1, <3>2, <3>4, <4>1
      <4>2. CASE h > 0 /\ h <= d
        <5>1. /\ n - h \in 0 .. n - 1 /\ d - h \in 0 .. n - h /\ d - h \in 0 .. d /\ h \in 0 .. d
              /\ k + h \in Nat /\ k + h + (n - h) <= m
              /\ (n - h) - (d - h) = n - d /\ (k + h) + (d - h) = k + d
          BY <3>1, <4>2
        <5>2. sum[d][k] = sum[h][k] + sum[d - h][k + h]
          BY <3>1, <3>3, <5>1
        <5>3. Good(n - h) /\ Good(h) /\ Good(d - h)
          <6>1. d - h \in 0 .. n - 1 /\ h \in 0 .. n - 1
            BY <3>1, <4>2
          <6> HIDE DEF Good
          <6> QED  BY <1>5, <5>1, <6>1
        <5>4. sum[n - h][k + h] = sum[d - h][k + h] + sum[n - d][k + d]
          <6>1. sum[n - h][k + h] =
                  sum[d - h][k + h] + sum[(n - h) - (d - h)][(k + h) + (d - h)]
            BY <5>1, <5>3
          <6> QED  BY <5>1, <6>1
        <5>5. sum[h][k] \in Int /\ sum[d - h][k + h] \in Int
          <6>1. k + h <= m /\ (k + h) + (d - h) <= m
            BY <3>1, <5>1
          <6> QED  BY <5>1, <5>3, <6>1
        <5> QED  BY <3>2, <3>4, <5>2, <5>4, <5>5
      <4>3. CASE h > d /\ h < n
        <5>1. /\ h \in 0 .. n - 1 /\ h - d \in 0 .. n - d /\ d \in 0 .. h /\ n - h \in 0 .. n - 1
              /\ k + h \in Nat /\ k + h <= m /\ k + d + (h - d) <= m /\ k + h + (n - h) <= m
              /\ (n - d) - (h - d) = n - h /\ (k + d) + (h - d) = k + h
              /\ h - d \in 0 .. n - 1
          BY <3>1, <4>3
        <5>2. Good(h) /\ Good(n - h) /\ Good(h - d)
          BY <1>5, <5>1
        <5>3. sum[n - d][k + d] = sum[h - d][k + d] + sum[n - h][k + h]
          BY <3>1, <3>3, <5>1
        <5>4. sum[h][k] = sum[d][k] + sum[h - d][k + d]
          BY <5>1, <5>2
        <5>5. sum[h - d][k + d] \in Int /\ sum[n - h][k + h] \in Int
          BY <3>1, <5>1, <5>2
        <5> QED  BY <3>2, <3>4, <5>3, <5>4, <5>5
      <4> QED  BY <3>1, <4>1, <4>2, <4>3
    <3> QED  BY <3>2, <3>4, <3>5
  <2> QED  BY <2>2, <2>3
<1>6. m \in S
  <2> HIDE DEF Good
  <2>1. 0 \in S
    BY <1>4
  <2>2. ASSUME NEW n \in 1 .. m, n - 1 \in S
        PROVE  n \in S
    <3>1. Good(n)
      BY <1>5, <2>2
    <3> QED  BY <2>2, <3>1
  <2> HIDE DEF S
  <2> QED  BY <2>1, <2>2, UpTo
<1>7. \A n \in 0 .. m : Good(n)
  <2> HIDE DEF Good
  <2> QED  BY <1>6
<1> DEFINE T == [n \in 0 .. m |-> sum[n][0]]
<1>8. T \in [0 .. m -> Int]
  BY <1>7
<1>9. T[0] = 0
  BY <1>3
<1>10. ASSUME NEW n \in 1 .. m
       PROVE  T[n] = T[n - 1] + f[n - 1]
  <2>1. n - 1 \in 0 .. n /\ n - 1 \in 0 .. m - 1 /\ n - (n - 1) = 1 /\ 0 + (n - 1) = n - 1
    OBVIOUS
  <2>2. sum[n][0] = sum[n - 1][0] + sum[1][n - 1]
    BY <1>7, <2>1
  <2>3. sum[1][n - 1] = f[n - 1]
    BY <1>3
  <2> QED  BY <2>1, <2>2, <2>3
<1>11. T[m] = Total(f, m)
  BY <1>2
<1> HIDE DEF T
<1> QED  BY <1>8, <1>9, <1>10, <1>11 DEF Adds

-----------------------------------------------------------------------------
(* The checksums.                                                          *)

\* The sums of the code are uint32s.
Uint32s == {x \in Nat : x < 65536 * 65536}

\* Adding the carries takes multiples of 65535 away; of 32 bits, two rounds leave 16.
LEMMA FoldKeepsRest ==
  ASSUME NEW x \in Uint32s, 0 < x
  PROVE  \E y, q \in Nat :
           Fold(Fold(x)) = y /\ 0 < y /\ y < 65536 /\ x = y + 65535 * q
<1> DEFINE y == Fold(x)
<1>1. y \in Nat /\ 0 < y /\ y < 131071 /\ x = y + 65535 * (x \div 65536)
  BY DEF Fold, Uint32s
<1> HIDE DEF y
<1>2. Fold(y) \in Nat /\ 0 < Fold(y) /\ Fold(y) < 65536 /\ y = Fold(y) + 65535 * (y \div 65536)
  BY <1>1 DEF Fold
<1> DEFINE q == (x \div 65536) + (y \div 65536)
<1>3. x = Fold(y) + 65535 * q
  BY <1>1, <1>2 DEF Uint32s
<1>4. q \in Nat
  BY <1>1 DEF Uint32s
<1> HIDE DEF q
<1> QED  BY <1>2, <1>3, <1>4 DEF y

\* What was summed verifies once the checksum is added, that of UDP too, which is
\* never zero.
LEMMA ChecksumVerifies ==
  ASSUME NEW x \in Uint32s, 0 < x
  PROVE  /\ Checksum(x) \in Nat /\ Checksum(x) < 65535
         /\ Verifies(x + Checksum(x))
         /\ NonZero(Checksum(x)) \in Nat
         /\ 0 < NonZero(Checksum(x)) /\ NonZero(Checksum(x)) < 65536
         /\ Verifies(x + NonZero(Checksum(x)))
<1>1. PICK y, q \in Nat : Fold(Fold(x)) = y /\ 0 < y /\ y < 65536 /\ x = y + 65535 * q
  BY FoldKeepsRest
<1> DEFINE c == Checksum(x)
<1>2. c = 65535 - y
  BY <1>1 DEF Checksum
<1> HIDE DEF c
<1>3. c \in Nat /\ c < 65535 /\ x + c = 65535 * (q + 1)
  BY <1>1, <1>2
<1>4. \A k \in Nat : (65535 * (k + 1)) % 65535 = 0 /\ 65535 * (k + 1) > 0
  OBVIOUS
<1>5. Verifies(x + c)
  BY <1>3, <1>4 DEF Verifies
<1>6. CASE c = 0
  <2>1. NonZero(c) = 65535 /\ x + 65535 = 65535 * ((q + 1) + 1)
    BY <1>3, <1>6 DEF NonZero, Uint32s
  <2>2. Verifies(x + 65535)
    BY <1>4, <2>1 DEF Verifies
  <2> QED  BY <1>3, <1>5, <2>1, <2>2 DEF c
<1>7. CASE c # 0
  BY <1>3, <1>5, <1>7 DEF NonZero, c
<1> QED  BY <1>6, <1>7

\* The addresses of a request, as four bytes each.
LEMMA AddressBytes ==
  ASSUME NEW a \in Addresses
  PROVE  To4(a) \in [1 .. 4 -> Bytes]
<1>1. CASE a = <<>>
  BY <1>1 DEF To4, Bytes
<1>2. CASE a # <<>>
  BY <1>2 DEF To4, Addresses
<1> QED  BY <1>1, <1>2

\* A number of 16 bits in two bytes.
LEMMA TwoBytes ==
  ASSUME NEW v \in Nat, v < 65536
  PROVE  /\ v \div 256 \in Bytes /\ v % 256 \in Bytes
         /\ 256 * (v \div 256) + (v % 256) = v
BY DEF Bytes

\* What an IPv4 header may be written with.
HeaderFields(n, c, s, d) ==
  /\ n \in Nat /\ c \in Nat /\ n < 65536 /\ c < 65536
  /\ s \in [1 .. 4 -> Bytes] /\ d \in [1 .. 4 -> Bytes]

\* The sum of its words but the checksum.
WordsOfHeader(n, s, d) ==
  17664 + 16401 + n + (s[1] * 256 + s[2]) + (s[3] * 256 + s[4])
    + (d[1] * 256 + d[2]) + (d[3] * 256 + d[4])

\* What an IPv4 header of these fields is made of.
LEMMA HeaderBytes ==
  ASSUME NEW n, NEW c, NEW s, NEW d, HeaderFields(n, c, s, d)
  PROVE  LET h == WriteIPv4(n, c, s, d)
         IN  /\ h \in Seq(Bytes) /\ Len(h) = 20
             /\ HeaderSum(h) = WordsOfHeader(n, s, d) + c
             /\ c = 0 => IPv4Sum(h) = WordsOfHeader(n, s, d)
             /\ WordsOfHeader(n, s, d) \in Uint32s /\ 0 < WordsOfHeader(n, s, d)
             /\ Uint16(h, 2) = n
             /\ \A i \in 1 .. 4 : h[12 + i] = s[i] /\ h[16 + i] = d[i]
<1>0. /\ n \in Nat /\ c \in Nat /\ n < 65536 /\ c < 65536
      /\ s \in [1 .. 4 -> Bytes] /\ d \in [1 .. 4 -> Bytes]
  BY DEF HeaderFields
<1> USE <1>0
<1> DEFINE h == WriteIPv4(n, c, s, d)
           n1 == n \div 256
           n2 == n % 256
           c1 == c \div 256
           c2 == c % 256
<1>1. n1 \in Bytes /\ n2 \in Bytes /\ 256 * n1 + n2 = n
  BY TwoBytes
<1>2. c1 \in Bytes /\ c2 \in Bytes /\ 256 * c1 + c2 = c
  BY TwoBytes
<1>3. /\ s[1] \in Bytes /\ s[2] \in Bytes /\ s[3] \in Bytes /\ s[4] \in Bytes
      /\ d[1] \in Bytes /\ d[2] \in Bytes /\ d[3] \in Bytes /\ d[4] \in Bytes
  OBVIOUS
<1>4. h = <<69, 0, n1, n2, 0, 0, 0, 0, 64, 17, c1, c2,
            s[1], s[2], s[3], s[4], d[1], d[2], d[3], d[4]>>
  BY DEF WriteIPv4
<1> HIDE DEF h, n1, n2, c1, c2
<1>5. h \in Seq(Bytes) /\ Len(h) = 20
  <2>1. 69 \in Bytes /\ 0 \in Bytes /\ 64 \in Bytes /\ 17 \in Bytes
    BY DEF Bytes
  <2> HIDE DEF Bytes
  <2> QED  BY <1>1, <1>2, <1>3, <1>4, <2>1
<1>6. /\ h[1] = 69 /\ h[2] = 0 /\ h[3] = n1 /\ h[4] = n2 /\ h[5] = 0 /\ h[6] = 0
      /\ h[7] = 0 /\ h[8] = 0 /\ h[9] = 64 /\ h[10] = 17 /\ h[11] = c1 /\ h[12] = c2
      /\ h[13] = s[1] /\ h[14] = s[2] /\ h[15] = s[3] /\ h[16] = s[4]
      /\ h[17] = d[1] /\ h[18] = d[2] /\ h[19] = d[3] /\ h[20] = d[4]
  BY <1>4
<1> DEFINE x == 17664 + 16401 + n + (s[1] * 256 + s[2]) + (s[3] * 256 + s[4])
                  + (d[1] * 256 + d[2]) + (d[3] * 256 + d[4])
\* All of them are numbers below 256.
<1>7. /\ n1 \in Nat /\ n2 \in Nat /\ c1 \in Nat /\ c2 \in Nat
      /\ s[1] \in Nat /\ s[2] \in Nat /\ s[3] \in Nat /\ s[4] \in Nat
      /\ d[1] \in Nat /\ d[2] \in Nat /\ d[3] \in Nat /\ d[4] \in Nat
      /\ s[1] < 256 /\ s[2] < 256 /\ s[3] < 256 /\ s[4] < 256
      /\ d[1] < 256 /\ d[2] < 256 /\ d[3] < 256 /\ d[4] < 256
  <2>1. \A b \in Bytes : b \in Nat /\ b < 256
    BY DEF Bytes
  <2> QED  BY <1>1, <1>2, <1>3, <2>1
<1>8. HeaderSum(h) = x + c
  <2>1. HeaderSum(h) = 256 * (69 + n1 + 0 + 0 + 64 + c1 + s[1] + s[3] + d[1] + d[3])
                         + (0 + n2 + 0 + 0 + 17 + c2 + s[2] + s[4] + d[2] + d[4])
    BY <1>6 DEF HeaderSum
  <2> QED  BY <1>1, <1>2, <1>7, <2>1
<1>9. c = 0 => IPv4Sum(h) = x
  <2>1. IPv4Sum(h) = (69 * 256 + 0) + (n1 * 256 + n2) + (0 * 256 + 0) + (0 * 256 + 0)
                       + (64 * 256 + 17) + (c1 * 256 + c2) + (s[1] * 256 + s[2])
                       + (s[3] * 256 + s[4]) + (d[1] * 256 + d[2]) + (d[3] * 256 + d[4])
    BY <1>6 DEF IPv4Sum, Uint16
  <2> QED  BY <1>1, <1>2, <1>7, <2>1
<1>10. x \in Uint32s /\ 0 < x
  BY <1>7 DEF Uint32s
<1>12. Uint16(h, 2) = n
  BY <1>1, <1>6, <1>7 DEF Uint16
<1>11. \A i \in 1 .. 4 : h[12 + i] = s[i] /\ h[16 + i] = d[i]
  BY <1>6
<1>13. x = WordsOfHeader(n, s, d)
  BY DEF WordsOfHeader
<1> HIDE DEF x
<1> QED  BY <1>5, <1>8, <1>9, <1>10, <1>11, <1>12, <1>13 DEF h

-----------------------------------------------------------------------------
(* The sums of a datagram.                                                 *)

\* A byte is a number of 8 bits.
LEMMA ByteRange == \A b \in Bytes : b \in Nat /\ b < 256
BY DEF Bytes

\* Two bytes make a number of 16 bits.
LEMMA WordRange ==
  ASSUME NEW a \in Bytes, NEW b \in Bytes
  PROVE  a * 256 + b \in Nat /\ a * 256 + b < 65536
<1>1. a \in Nat /\ b \in Nat /\ a < 256 /\ b < 256
  BY ByteRange
<1> QED  BY <1>1

\* A function is of its domain and any set that holds its values.
LEMMA ValuesType ==
  ASSUME NEW D, NEW V, NEW f, f = [x \in D |-> f[x]], \A x \in D : f[x] \in V
  PROVE  f \in [D -> V]
OBVIOUS

\* T holds the sums of the first 0, 1, ..., m words of the segment.
SumsOfWords(T, S, m) ==
  /\ T[0] = 0
  /\ T[m] = UDPWords(S, Len(S))
  /\ \A k \in 1 .. m : T[k] = T[k - 1] + UDPWord(S, Len(S), 2 * (k - 1))
  /\ \A k \in 0 .. m : 0 <= T[k] /\ T[k] <= 65535 * k

\* There are such sums, and words do not add up to more than 16 bits each.
LEMMA WordsAdd ==
  ASSUME NEW L \in Nat, L < 65536, NEW S \in Seq(Bytes), Len(S) = L,
         NEW m, m = (L + 1) \div 2
  PROVE  \E T \in [0 .. m -> Int] : SumsOfWords(T, S, m)
<1> DEFINE f == [k \in 0 .. m - 1 |-> UDPWord(S, L, 2 * k)]
<1>1. m \in Nat /\ \A k \in 0 .. m - 1 : 2 * k + 1 \in 1 .. L
  OBVIOUS
<1>2. ASSUME NEW k \in 0 .. m - 1
      PROVE  f[k] \in Nat /\ f[k] <= 65535
  <2>1. f[k] = UDPWord(S, L, 2 * k) /\ S[2 * k + 1] \in Bytes
    BY <1>1
  <2>2. S[2 * k + 1] \in Nat /\ S[2 * k + 1] < 256
    BY <2>1, ByteRange
  <2>3. CASE 2 * k + 1 < L
    <3>1. S[2 * k + 2] \in Bytes
      BY <2>3
    <3>2. f[k] = S[2 * k + 1] * 256 + S[2 * k + 2]
      BY <2>1, <2>3 DEF UDPWord, Uint16
    <3> HIDE DEF f
    <3> QED  BY <2>1, <3>1, <3>2, WordRange
  <2>4. CASE ~ (2 * k + 1 < L)
    <3>1. f[k] = S[2 * k + 1] * 256
      BY <2>1, <2>4 DEF UDPWord
    <3> HIDE DEF f
    <3> QED  BY <2>2, <3>1
  <2> QED  BY <2>3, <2>4
<1>3. f \in [0 .. m - 1 -> Int]
  <2>1. f = [k \in 0 .. m - 1 |-> f[k]]
    OBVIOUS
  <2> HIDE DEF f
  <2>2. \A k \in 0 .. m - 1 : f[k] \in Int
    BY <1>2
  <2> QED  BY <2>1, <2>2, ValuesType
<1>4. UDPWords(S, L) = Total(f, m)
  BY DEF UDPWords
<1>5. PICK T \in [0 .. m -> Int] : Adds(f, T, m) /\ T[m] = Total(f, m)
  <2> HIDE DEF f
  <2>1. m \in Nat
    BY <1>1
  <2> QED  BY ONLY <2>1, <1>3, TotalAdds
<1>6. T[0] = 0 /\ \A k \in 1 .. m : T[k] = T[k - 1] + f[k - 1]
  BY <1>5 DEF Adds
<1>7. \A k \in 1 .. m : T[k] = T[k - 1] + UDPWord(S, L, 2 * (k - 1))
  <2>1. \A k \in 0 .. m - 1 : f[k] = UDPWord(S, L, 2 * k)
    OBVIOUS
  <2> HIDE DEF f
  <2>2. ASSUME NEW k \in 1 .. m
        PROVE  T[k] = T[k - 1] + UDPWord(S, L, 2 * (k - 1))
    <3>1. k - 1 \in 0 .. m - 1
      BY <1>1
    <3>2. f[k - 1] = UDPWord(S, L, 2 * (k - 1))
      BY <2>1, <3>1
    <3> QED  BY <1>6, <3>2
  <2> QED  BY <2>2
<1> HIDE DEF f
<1>8. ASSUME NEW j \in 0 .. m
      PROVE  0 <= T[j] /\ T[j] <= 65535 * j
  <2> DEFINE B == {k \in 0 .. m : 0 <= T[k] /\ T[k] <= 65535 * k}
  <2>1. 0 \in B
    BY <1>1, <1>6
  <2>2. ASSUME NEW k \in 1 .. j, k - 1 \in B
        PROVE  k \in B
    <3>1. k \in 1 .. m /\ k - 1 \in 0 .. m - 1
      BY <1>1
    <3>2. T[k] = T[k - 1] + f[k - 1] /\ f[k - 1] \in Nat /\ f[k - 1] <= 65535
      BY <1>2, <1>6, <3>1
    <3>3. 0 <= T[k - 1] /\ T[k - 1] <= 65535 * (k - 1) /\ T[k - 1] \in Int
      BY <2>2, <3>1
    <3> QED  BY <3>1, <3>2, <3>3
  <2> HIDE DEF B
  <2>3. j \in B
    BY <2>1, <2>2, <1>1, UpTo
  <2> QED  BY <2>3 DEF B
<1>9. SumsOfWords(T, S, m)
  <2>1. T[0] = 0 /\ T[m] = UDPWords(S, Len(S))
    BY <1>4, <1>5, <1>6
  <2> QED  BY <2>1, <1>7, <1>8 DEF SumsOfWords
<1> QED  BY <1>5, <1>9

\* The words of the pseudo header.
WordsOfPseudo(P) ==
  Uint16(P, 0) + Uint16(P, 2) + Uint16(P, 4) + Uint16(P, 6) + Uint16(P, 8) + Uint16(P, 10)

\* U is S with the word c in place of its fourth, which is zero.
Checksummed(U, S, c) ==
  /\ Len(U) = Len(S)
  /\ S[7] = 0 /\ S[8] = 0 /\ U[7] * 256 + U[8] = c
  /\ \A i \in 1 .. Len(S) : i # 7 /\ i # 8 => U[i] = S[i]

\* R holds the sums of the first 0, 1, ..., Len(Q) bytes, every second one a high byte.
SumsOfBytes(R, Q) ==
  /\ R[0] = 0
  /\ R[Len(Q)] = BytesSum(Q)
  /\ \A n \in 0 .. Len(Q) - 1 :
       R[n + 1] = R[n] + (IF n % 2 = 0 THEN Q[n + 1] * 256 ELSE Q[n + 1])

\* There are such sums.
LEMMA BytesAdd ==
  ASSUME NEW Q \in Seq(Bytes)
  PROVE  \E R \in [0 .. Len(Q) -> Int] : SumsOfBytes(R, Q)
<1> DEFINE N == Len(Q)
           f == [i \in 0 .. N - 1 |-> IF i % 2 = 0 THEN 256 * Q[i + 1] ELSE Q[i + 1]]
<1>1. N \in Nat
  OBVIOUS
<1>2. ASSUME NEW i \in 0 .. N - 1
      PROVE  f[i] \in Int /\ f[i] = IF i % 2 = 0 THEN Q[i + 1] * 256 ELSE Q[i + 1]
  <2>1. i + 1 \in 1 .. Len(Q)
    BY <1>1
  <2>2. Q[i + 1] \in Bytes
    BY <2>1
  <2>3. Q[i + 1] \in Nat
    BY <2>2, ByteRange
  <2>4. f[i] = IF i % 2 = 0 THEN 256 * Q[i + 1] ELSE Q[i + 1]
    OBVIOUS
  <2> HIDE DEF f
  <2> QED  BY <2>3, <2>4
<1>3. f = [i \in 0 .. N - 1 |-> f[i]]
  OBVIOUS
<1>4. BytesSum(Q) = Total(f, N)
  BY DEF BytesSum
<1> HIDE DEF f, N
<1>5. f \in [0 .. N - 1 -> Int]
  BY <1>2, <1>3, ValuesType
<1>6. PICK R \in [0 .. N -> Int] : Adds(f, R, N) /\ R[N] = Total(f, N)
  BY <1>1, <1>5, TotalAdds
<1>7. ASSUME NEW n \in 0 .. N - 1
      PROVE  R[n + 1] = R[n] + (IF n % 2 = 0 THEN Q[n + 1] * 256 ELSE Q[n + 1])
  <2>1. n + 1 \in 1 .. N /\ (n + 1) - 1 = n
    BY <1>1
  <2>2. R[n + 1] = R[n] + f[n]
    BY <1>6, <2>1 DEF Adds
  <2> QED  BY <1>2, <2>2
<1>8. R[0] = 0
  BY <1>6 DEF Adds
<1>9. SumsOfBytes(R, Q)
  BY <1>4, <1>6, <1>7, <1>8 DEF SumsOfBytes, N
<1> QED  BY <1>6, <1>9 DEF N

\* Two bytes of a sequence of bytes are a word.
LEMMA WordOfBytes ==
  ASSUME NEW Q \in Seq(Bytes), NEW n \in Nat, n + 2 <= Len(Q)
  PROVE  Uint16(Q, n) \in Nat /\ Uint16(Q, n) < 65536
<1> DEFINE a == Q[n + 1]
           b == Q[n + 2]
<1>1. n + 1 \in 1 .. Len(Q) /\ n + 2 \in 1 .. Len(Q)
  OBVIOUS
<1>2. a \in Bytes /\ b \in Bytes
  BY <1>1
<1>3. Uint16(Q, n) = a * 256 + b
  BY DEF Uint16
<1> HIDE DEF a, b
<1>4. a * 256 + b \in Nat /\ a * 256 + b < 65536
  BY <1>2, WordRange
<1> QED  BY <1>3, <1>4

\* Two more bytes from an even place are a word.
LEMMA TwoMore ==
  ASSUME NEW Q \in Seq(Bytes), NEW R \in [0 .. Len(Q) -> Int], SumsOfBytes(R, Q),
         NEW n \in Nat, n % 2 = 0, n + 2 <= Len(Q)
  PROVE  R[n + 2] = R[n] + Uint16(Q, n)
<1>1. n \in 0 .. Len(Q) - 1 /\ n + 1 \in 0 .. Len(Q) - 1 /\ (n + 1) % 2 # 0
  OBVIOUS
<1>2. R[n + 1] = R[n] + Q[n + 1] * 256
  BY <1>1 DEF SumsOfBytes
<1>3. R[(n + 1) + 1] = R[n + 1] + Q[(n + 1) + 1]
  BY <1>1 DEF SumsOfBytes
<1>4. Q[n + 1] \in Nat /\ Q[n + 2] \in Nat
  <2>1. n + 1 \in 1 .. Len(Q) /\ n + 2 \in 1 .. Len(Q)
    OBVIOUS
  <2>2. Q[n + 1] \in Bytes /\ Q[n + 2] \in Bytes
    BY <2>1
  <2> QED  BY <2>2, ByteRange
<1>5. R[n] \in Int
  BY <1>1
<1>6. (n + 1) + 1 = n + 2
  OBVIOUS
<1> QED  BY <1>2, <1>3, <1>4, <1>5, <1>6 DEF Uint16

\* One more byte from an even place is a high byte.
LEMMA OneMore ==
  ASSUME NEW Q \in Seq(Bytes), NEW R, SumsOfBytes(R, Q),
         NEW n \in Nat, n % 2 = 0, n < Len(Q)
  PROVE  R[n + 1] = R[n] + Q[n + 1] * 256
<1>1. n \in 0 .. Len(Q) - 1
  OBVIOUS
<1> QED  BY <1>1 DEF SumsOfBytes

\* The pseudo header is six words.
LEMMA PseudoAdds ==
  ASSUME NEW Q \in Seq(Bytes), NEW R \in [0 .. Len(Q) -> Int], SumsOfBytes(R, Q),
         12 <= Len(Q)
  PROVE  R[12] = WordsOfPseudo(Q) /\ R[12] \in Nat
<1>1. ASSUME NEW n \in {0, 2, 4, 6, 8, 10}
      PROVE  R[n + 2] = R[n] + Uint16(Q, n) /\ Uint16(Q, n) \in Nat
  <2>1. n \in Nat /\ n % 2 = 0 /\ n + 2 <= Len(Q)
    OBVIOUS
  <2>2. R[n + 2] = R[n] + Uint16(Q, n)
    BY <2>1, TwoMore
  <2>3. Uint16(Q, n) \in Nat
    BY <2>1, WordOfBytes
  <2> QED  BY <2>2, <2>3
<1>2. /\ R[2] = R[0] + Uint16(Q, 0) /\ R[4] = R[2] + Uint16(Q, 2)
      /\ R[6] = R[4] + Uint16(Q, 4)
  <2>1. 0 + 2 = 2 /\ 2 + 2 = 4 /\ 4 + 2 = 6
    OBVIOUS
  <2> QED  BY <1>1, <2>1
<1>3. /\ R[8] = R[6] + Uint16(Q, 6) /\ R[10] = R[8] + Uint16(Q, 8)
      /\ R[12] = R[10] + Uint16(Q, 10)
  <2>1. 6 + 2 = 8 /\ 8 + 2 = 10 /\ 10 + 2 = 12
    OBVIOUS
  <2> QED  BY <1>1, <2>1
<1>4. R[0] = 0
  BY DEF SumsOfBytes
<1>5. /\ Uint16(Q, 0) \in Nat /\ Uint16(Q, 2) \in Nat /\ Uint16(Q, 4) \in Nat
      /\ Uint16(Q, 6) \in Nat /\ Uint16(Q, 8) \in Nat /\ Uint16(Q, 10) \in Nat
  BY <1>1
<1>6. WordsOfPseudo(Q) = Uint16(Q, 0) + Uint16(Q, 2) + Uint16(Q, 4)
                          + Uint16(Q, 6) + Uint16(Q, 8) + Uint16(Q, 10)
  BY DEF WordsOfPseudo
<1> QED  BY ONLY <1>2, <1>3, <1>4, <1>5, <1>6

\* What the checksum has added by word k.
More(k, c) == IF k > 3 THEN c ELSE 0

\* Word k of U is word k of S, and the checksum if it is the fourth.
LEMMA WordOfChecksummed ==
  ASSUME NEW S \in Seq(Bytes), NEW U \in Seq(Bytes), NEW c \in Nat, Checksummed(U, S, c),
         NEW n \in Nat, NEW k \in Nat, n = 2 * (k - 1), 1 <= k, 2 * k <= Len(S)
  PROVE  /\ UDPWord(S, Len(S), n) \in Nat
         /\ Uint16(U, n) + More(k - 1, c) = UDPWord(S, Len(S), n) + More(k, c)
<1>1. /\ n + 1 \in 1 .. Len(S) /\ n + 2 \in 1 .. Len(S) /\ n + 1 < Len(S)
      /\ n + 2 <= Len(S)
  OBVIOUS
<1>2. UDPWord(S, Len(S), n) = Uint16(S, n) /\ Uint16(S, n) \in Nat
  BY <1>1, WordOfBytes DEF UDPWord
<1>3. CASE k = 4
  <2>1. n + 1 = 7 /\ n + 2 = 8 /\ More(k - 1, c) = 0 /\ More(k, c) = c
    BY <1>3 DEF More
  <2>2. Uint16(U, n) = c /\ Uint16(S, n) = 0
    BY <2>1 DEF Checksummed, Uint16
  <2> QED  BY <1>2, <2>1, <2>2
<1>4. CASE k # 4
  <2>1. n + 1 # 7 /\ n + 1 # 8 /\ n + 2 # 7 /\ n + 2 # 8
    BY <1>4
  <2>2. U[n + 1] = S[n + 1] /\ U[n + 2] = S[n + 2]
    BY <1>1, <2>1 DEF Checksummed
  <2>3. Uint16(U, n) = Uint16(S, n)
    BY <2>2 DEF Uint16
  <2>4. More(k, c) = More(k - 1, c)
    BY <1>4 DEF More
  <2> QED  BY <1>2, <2>3, <2>4
<1> QED  BY <1>3, <1>4

\* After twelve bytes, Q goes on with U.
GoesOn(Q, U) == Len(Q) = 12 + Len(U) /\ \A i \in 1 .. Len(U) : Q[12 + i] = U[i]

\* T holds the sums of the words of S, R those of the bytes of Q, which goes on with U.
Sums(S, U, c, m, T, Q, R) ==
  /\ S \in Seq(Bytes) /\ U \in Seq(Bytes) /\ c \in Nat /\ Checksummed(U, S, c)
  /\ m \in Nat /\ T \in [0 .. m -> Int] /\ SumsOfWords(T, S, m)
  /\ Q \in Seq(Bytes) /\ GoesOn(Q, U)
  /\ R \in [0 .. Len(Q) -> Int] /\ SumsOfBytes(R, Q) /\ R[12] \in Nat

\* Up to word w of the segment, the bytes add up to the words and the checksum.
LEMMA BytesUpTo ==
  ASSUME NEW S, NEW U, NEW c, NEW m, NEW T, NEW Q, NEW R, Sums(S, U, c, m, T, Q, R)
  PROVE  \A w \in 0 .. m :
           2 * w <= Len(S) => R[12 + 2 * w] = R[12] + T[w] + More(w, c)
<1>0. /\ S \in Seq(Bytes) /\ U \in Seq(Bytes) /\ c \in Nat /\ Checksummed(U, S, c)
      /\ m \in Nat /\ T \in [0 .. m -> Int] /\ SumsOfWords(T, S, m)
      /\ Q \in Seq(Bytes) /\ GoesOn(Q, U)
      /\ R \in [0 .. Len(Q) -> Int] /\ SumsOfBytes(R, Q) /\ R[12] \in Nat
  BY DEF Sums
<1> USE <1>0
<1> SUFFICES ASSUME NEW w \in 0 .. m, 2 * w <= Len(S)
             PROVE  R[12 + 2 * w] = R[12] + T[w] + More(w, c)
  OBVIOUS
<1> DEFINE Holds(k) == R[12 + 2 * k] = R[12] + T[k] + More(k, c)
           G == {k \in 0 .. w : Holds(k)}
<1>1. Holds(0)
  <2>1. T[0] = 0 /\ More(0, c) = 0 /\ 12 + 2 * 0 = 12
    BY DEF More, SumsOfWords
  <2> QED  BY <2>1
<1>2. ASSUME NEW k \in 1 .. w, Holds(k - 1)
      PROVE  Holds(k)
  <2> DEFINE a == 12 + 2 * (k - 1)
             n == 2 * (k - 1)
             v == UDPWord(S, Len(S), n)
  <2>1. k \in 1 .. m /\ 2 * k <= Len(S) /\ Len(Q) = 12 + Len(S) /\ Len(U) = Len(S)
    BY DEF GoesOn, Checksummed
  <2>2. /\ k \in Nat /\ 1 <= k /\ n \in Nat /\ n + 2 <= Len(S)
        /\ a \in Nat /\ a % 2 = 0 /\ a + 2 <= Len(Q) /\ a + 2 = 12 + 2 * k
        /\ a + 1 = 12 + (n + 1) /\ a + 2 = 12 + (n + 2)
        /\ n + 1 \in 1 .. Len(U) /\ n + 2 \in 1 .. Len(U)
    BY <2>1
  <2>3. R[12 + 2 * k] = R[a] + Uint16(Q, a)
    <3> HIDE DEF a
    <3> QED  BY <2>2, TwoMore
  <2>4. Uint16(Q, a) = Uint16(U, n)
    <3>1. Q[a + 1] = U[n + 1] /\ Q[a + 2] = U[n + 2]
      BY <2>2 DEF GoesOn
    <3> QED  BY <3>1 DEF Uint16
  <2>5. v \in Nat /\ Uint16(U, n) + More(k - 1, c) = v + More(k, c)
    <3>1. n = 2 * (k - 1) /\ 2 * k <= Len(S)
      BY <2>1
    <3> HIDE DEF n
    <3> QED  BY <2>2, <3>1, WordOfChecksummed
  <2>6. T[k] = T[k - 1] + v
    BY <2>1 DEF SumsOfWords
  <2>7. T[k - 1] \in Int /\ R[12] \in Int
    BY <2>1
  <2>8. Uint16(U, n) \in Nat
    BY <2>1, <2>2, WordOfBytes
  <2>9. More(k, c) \in Nat /\ More(k - 1, c) \in Nat
    BY DEF More
  <2>10. R[a] = R[12] + T[k - 1] + More(k - 1, c)
    BY <1>2
  <2> HIDE DEF v, n, a
  <2>11. R[12 + 2 * k] = R[12] + T[k - 1] + More(k - 1, c) + Uint16(U, n)
    BY <2>3, <2>4, <2>10
  <2>12. (R[12] + T[k - 1] + More(k - 1, c)) + Uint16(U, n)
            = R[12] + (T[k - 1] + v) + More(k, c)
    <3> DEFINE p == R[12]
               q == T[k - 1]
               o == More(k - 1, c)
               u == Uint16(U, n)
               x == More(k, c)
    <3>1. /\ p \in Int /\ q \in Int /\ o \in Int /\ u \in Int /\ v \in Int /\ x \in Int
          /\ u + o = v + x
      BY <2>5, <2>7, <2>8, <2>9
    <3> HIDE DEF p, q, o, u, x
    <3>2. (p + q + o) + u = p + (q + v) + x
      BY <3>1
    <3> QED  BY <3>2 DEF p, q, o, u, x
  <2> QED  BY <2>6, <2>11, <2>12
<1> HIDE DEF Holds
<1>3. 0 \in G
  BY <1>1
<1>4. \A k \in 1 .. w : k - 1 \in G => k \in G
  BY <1>2
<1> HIDE DEF G
<1>5. w \in G
  BY <1>3, <1>4, UpTo
<1> QED  BY <1>5 DEF G, Holds

\* And to the last byte, which may be one alone.
LEMMA BytesToTheEnd ==
  ASSUME NEW S, NEW U, NEW c, NEW m, NEW T, NEW Q, NEW R, Sums(S, U, c, m, T, Q, R)
  PROVE  (Len(S) = 2 * m \/ Len(S) = 2 * m - 1) /\ 8 <= Len(S)
           => R[12 + Len(S)] = R[12] + T[m] + c
<1> SUFFICES ASSUME Len(S) = 2 * m \/ Len(S) = 2 * m - 1, 8 <= Len(S)
             PROVE  R[12 + Len(S)] = R[12] + T[m] + c
  OBVIOUS
<1> DEFINE L == Len(S)
<1>0. L \in Nat /\ L = Len(S) /\ (L = 2 * m \/ L = 2 * m - 1) /\ 8 <= L
  BY DEF Sums
<1> HIDE DEF L
<1>1. m \in Nat /\ 4 <= m /\ c \in Nat /\ T \in [0 .. m -> Int] /\ R[12] \in Nat
  BY <1>0 DEF Sums
<1>2. SumsOfWords(T, S, m) /\ SumsOfBytes(R, Q) /\ Q \in Seq(Bytes) /\ S \in Seq(Bytes)
  BY DEF Sums
<1>3. Len(Q) = 12 + L /\ Len(U) = L
  BY <1>0 DEF Sums, GoesOn, Checksummed
<1>4. \A w \in 0 .. m : 2 * w <= L => R[12 + 2 * w] = R[12] + T[w] + More(w, c)
  <2>1. Sums(S, U, c, m, T, Q, R)
    OBVIOUS
  <2>2. \A w \in 0 .. m : 2 * w <= Len(S) => R[12 + 2 * w] = R[12] + T[w] + More(w, c)
    BY ONLY <2>1, BytesUpTo
  <2> QED  BY <1>0, <2>2
<1>5. CASE L = 2 * m
  <2>1. m \in 0 .. m /\ 2 * m <= L
    BY <1>1, <1>5
  <2>2. R[12 + 2 * m] = R[12] + T[m] + More(m, c)
    BY <1>4, <2>1
  <2>3. More(m, c) = c
    BY <1>1 DEF More
  <2> QED  BY <1>5, <2>2, <2>3 DEF L
<1>6. CASE L = 2 * m - 1
  <2> DEFINE w == m - 1
             e == 12 + 2 * w
  <2>1. w \in Nat /\ w \in 0 .. m /\ 4 <= w /\ 2 * w + 1 = L /\ m \in 1 .. m /\ 2 * w <= L
    BY <1>0, <1>1, <1>6
  <2>2. e \in Nat /\ e < Len(Q) /\ e % 2 = 0 /\ e + 1 = 12 + L
    BY <1>1, <1>3, <1>6
  <2>3. R[e] = R[12] + T[w] + c
    <3>1. More(w, c) = c
      BY <2>1 DEF More
    <3> HIDE DEF w
    <3>2. R[12 + 2 * w] = R[12] + T[w] + More(w, c)
      BY <1>4, <2>1
    <3> QED  BY <3>1, <3>2
  <2>4. T[m] = T[w] + UDPWord(S, L, 2 * w)
    BY <1>0, <1>2, <2>1 DEF SumsOfWords
  <2>5. UDPWord(S, L, 2 * w) = S[L] * 256
    <3> HIDE DEF w
    <3>1. ~ (2 * w + 1 < L)
      BY <2>1
    <3> QED  BY <2>1, <3>1 DEF UDPWord
  <2>6. R[12 + L] = R[e] + Q[12 + L] * 256
    <3> HIDE DEF e
    <3>1. R[e + 1] = R[e] + Q[e + 1] * 256
      BY <1>2, <2>2, OneMore
    <3> QED  BY <2>2, <3>1
  <2>7. Q[12 + L] = S[L] /\ S[L] \in Nat
    <3>1. L \in 1 .. L /\ L # 7 /\ L # 8
      BY <1>6, <2>1
    <3>2. U[L] = S[L]
      BY <1>0, <3>1 DEF Sums, Checksummed
    <3>3. S[L] \in Bytes
      BY <1>0, <1>2, <3>1
    <3>4. Q[12 + L] = U[L]
      BY <1>3, <3>1 DEF Sums, GoesOn
    <3> QED  BY <3>2, <3>3, <3>4, ByteRange
  <2>8. T[w] \in Int
    BY <1>1, <2>1
  <2> DEFINE p == R[12]
             q == T[w]
             h == S[L] * 256
  <2>9. p \in Int /\ q \in Int /\ h \in Int
    BY <1>1, <2>7, <2>8
  <2>10. T[m] = q + h /\ R[12 + L] = (p + q + c) + h
    BY <2>3, <2>4, <2>5, <2>6, <2>7
  <2> HIDE DEF p, q, h
  <2>11. (p + q + c) + h = p + (q + h) + c
    BY <1>1, <2>9
  <2>12. R[12 + L] = p + T[m] + c
    BY <2>10, <2>11
  <2> QED  BY <2>12 DEF p, L
<1> QED  BY <1>0, <1>5, <1>6

\* The length of a datagram has 16 bits.
DatagramLen(n) == n \in Nat /\ 8 <= n /\ n < 65536

\* The words of a segment of 16 bits of length do not overflow 32 bits.
LEMMA WordsRange ==
  ASSUME NEW S, S \in Seq(Bytes), DatagramLen(Len(S))
  PROVE  UDPWords(S, Len(S)) \in Nat /\ UDPWords(S, Len(S)) <= 65535 * 32768
<1> DEFINE L == Len(S)
           m == (L + 1) \div 2
<1>1. m \in Nat /\ m <= 32768 /\ L \in Nat /\ L < 65536
  BY DEF DatagramLen
<1>2. m = (L + 1) \div 2
  OBVIOUS
<1> HIDE DEF m
<1>3. PICK T : T \in [0 .. m -> Int] /\ SumsOfWords(T, S, m)
  BY <1>1, <1>2, WordsAdd
<1>4. m \in 0 .. m
  BY <1>1
<1>5. T[m] \in Int /\ T[m] = UDPWords(S, L) /\ 0 <= T[m] /\ T[m] <= 65535 * m
  BY <1>3, <1>4 DEF SumsOfWords
<1>6. T[m] <= 65535 * 32768
  BY <1>1, <1>5
<1> QED  BY <1>5, <1>6

\* The bytes of a pseudo header and a segment add up to what was summed, and the
\* checksum, however many bytes there are.
LEMMA BytesAreWords ==
  ASSUME NEW S, NEW U, NEW c, NEW Q, S \in Seq(Bytes), U \in Seq(Bytes), c \in Nat,
         Q \in Seq(Bytes), Checksummed(U, S, c), DatagramLen(Len(S)), GoesOn(Q, U)
  PROVE  BytesSum(Q) = WordsOfPseudo(Q) + UDPWords(S, Len(S)) + c
<1> DEFINE L == Len(S)
           m == (L + 1) \div 2
<1>1. /\ m \in Nat /\ (L = 2 * m \/ L = 2 * m - 1) /\ L \in Nat /\ 8 <= L
  <2>1. L \in Nat /\ 8 <= L
    BY DEF DatagramLen
  <2> HIDE DEF L
  <2> QED  BY <2>1
<1>2. PICK T : T \in [0 .. m -> Int] /\ SumsOfWords(T, S, m)
  <2>1. L < 65536 /\ m = (L + 1) \div 2
    BY DEF DatagramLen
  <2> HIDE DEF m
  <2> QED  BY <1>1, <2>1, WordsAdd
<1> HIDE DEF m
<1>3. PICK R : R \in [0 .. Len(Q) -> Int] /\ SumsOfBytes(R, Q)
  BY BytesAdd
<1>4. T[m] = UDPWords(S, L)
  BY <1>2 DEF SumsOfWords
<1>5. Len(Q) = 12 + L
  BY DEF GoesOn, Checksummed
<1>6. R[12] = WordsOfPseudo(Q) /\ R[12] \in Nat
  <2>1. 12 <= Len(Q)
    BY <1>1, <1>5
  <2> QED  BY <1>3, <2>1, PseudoAdds
<1>7. R[12 + L] = BytesSum(Q)
  BY <1>3, <1>5 DEF SumsOfBytes
<1>8. Sums(S, U, c, m, T, Q, R)
  BY <1>1, <1>2, <1>3, <1>6 DEF Sums
<1>9. R[12 + L] = R[12] + T[m] + c
  <2>1. (Len(S) = 2 * m \/ Len(S) = 2 * m - 1) /\ 8 <= Len(S)
    BY <1>1
  <2>2. (Len(S) = 2 * m \/ Len(S) = 2 * m - 1) /\ 8 <= Len(S)
          => R[12 + Len(S)] = R[12] + T[m] + c
    BY ONLY <1>8, BytesToTheEnd
  <2> QED  BY <2>1, <2>2
<1> QED  BY <1>4, <1>6, <1>7, <1>9

-----------------------------------------------------------------------------
(* The headers and the segment of a request.                               *)

\* A request whose packet has a length of 16 bits.
Sized(r) ==
  /\ r \in GeneratorRequest
  /\ ~ Panics(r)
  /\ PacketSize(r) < 65536

\* c is a, then b.
Joins(c, a, b) ==
  /\ c \in Seq(Bytes)
  /\ Len(c) = Len(a) + Len(b)
  /\ \A i \in 1 .. Len(a) : c[i] = a[i]
  /\ \A i \in 1 .. Len(b) : c[Len(a) + i] = b[i]

\* The concatenation is a, then b.
LEMMA Joined ==
  ASSUME NEW a, NEW b, a \in Seq(Bytes), b \in Seq(Bytes)
  PROVE  Joins(a \o b, a, b)
BY DEF Joins

\* What is known of the fields.
LEMMA Fields ==
  ASSUME NEW r, Sized(r)
  PROVE  /\ r.PayloadSize \in Nat /\ r.PayloadSize < 65494
         /\ IPTotalLen(r) = 28 + r.PayloadSize
         /\ UDPLen(r) = 8 + r.PayloadSize
         /\ r.SrcPort \in Nat /\ r.SrcPort < 65536
         /\ r.DstPort \in Nat /\ r.DstPort < 65536
         /\ To4(r.SrcIP) \in [1 .. 4 -> Bytes] /\ To4(r.DstIP) \in [1 .. 4 -> Bytes]
         /\ r.DeviceMacAddr \in Seq(Bytes) /\ 6 <= Len(r.DeviceMacAddr)
<1>1. r \in GeneratorRequest /\ ~ Panics(r) /\ PacketSize(r) < 65536
  BY DEF Sized
<1>2. /\ r.PayloadSize \in Int /\ r.SrcPort \in Uint16s /\ r.DstPort \in Uint16s
      /\ r.SrcIP \in Addresses /\ r.DstIP \in Addresses /\ r.DeviceMacAddr \in Seq(Bytes)
  BY <1>1 DEF GeneratorRequest
<1>3. r.PayloadSize \in Nat /\ r.PayloadSize < 65494
  BY <1>1, <1>2 DEF Panics, PacketSize
<1>4. IPTotalLen(r) = 28 + r.PayloadSize /\ UDPLen(r) = 8 + r.PayloadSize
  BY <1>3 DEF IPTotalLen, UDPLen
<1>5. \A v \in Uint16s : v \in Nat /\ v < 65536
  BY DEF Uint16s
<1>6. 6 <= Len(r.DeviceMacAddr)
  BY <1>1, <1>2 DEF Panics
<1> QED  BY <1>2, <1>3, <1>4, <1>5, <1>6, AddressBytes

\* The IPv4 header of any request that does not panic carries its addresses and its
\* length, as much of it as 16 bits hold, and verifies.
LEMMA AnyHeaderIsValid ==
  ASSUME NEW r, r \in GeneratorRequest, ~ Panics(r)
  PROVE  LET h == IPv4Header(r)
         IN  /\ h \in Seq(Bytes) /\ Len(h) = 20
             /\ Verifies(HeaderSum(h))
             /\ Uint16(h, 2) = IPTotalLen(r)
             /\ \A i \in 1 .. 4 : h[12 + i] = To4(r.SrcIP)[i] /\ h[16 + i] = To4(r.DstIP)[i]
<1> DEFINE n == IPTotalLen(r)
           s == To4(r.SrcIP)
           d == To4(r.DstIP)
           x == WordsOfHeader(n, s, d)
           c == Checksum(IPv4Sum(WriteIPv4(n, 0, s, d)))
           h == WriteIPv4(n, c, s, d)
<1>1. n \in Nat /\ n < 65536 /\ s \in [1 .. 4 -> Bytes] /\ d \in [1 .. 4 -> Bytes]
  <2>1. r.PayloadSize \in Int /\ r.SrcIP \in Addresses /\ r.DstIP \in Addresses
    BY DEF GeneratorRequest
  <2> QED  BY <2>1, AddressBytes DEF IPTotalLen
<1>2. IPv4Header(r) = h
  BY DEF IPv4Header, HeaderWith
<1> HIDE DEF n, s, d
<1>3. IPv4Sum(WriteIPv4(n, 0, s, d)) = x /\ x \in Uint32s /\ 0 < x
  <2>1. HeaderFields(n, 0, s, d)
    BY <1>1 DEF HeaderFields
  <2> QED  BY ONLY <2>1, HeaderBytes
<1>4. c = Checksum(x)
  BY <1>3
<1> HIDE DEF c, x
<1>5. c \in Nat /\ c < 65536 /\ Verifies(x + c)
  BY <1>3, <1>4, ChecksumVerifies
<1>6. /\ h \in Seq(Bytes) /\ Len(h) = 20 /\ HeaderSum(h) = x + c /\ Uint16(h, 2) = n
      /\ \A i \in 1 .. 4 : h[12 + i] = s[i] /\ h[16 + i] = d[i]
  <2>1. HeaderFields(n, c, s, d)
    BY <1>1, <1>5 DEF HeaderFields
  <2> QED  BY ONLY <2>1, HeaderBytes DEF x
<1> HIDE DEF h
<1> QED  BY <1>1, <1>2, <1>5, <1>6 DEF n, s, d

\* And the whole length, if the packet's has 16 bits.
LEMMA HeaderIsValid ==
  ASSUME NEW r, Sized(r)
  PROVE  LET h == IPv4Header(r)
         IN  /\ h \in Seq(Bytes) /\ Len(h) = 20
             /\ Verifies(HeaderSum(h))
             /\ Uint16(h, 2) = 28 + r.PayloadSize
             /\ \A i \in 1 .. 4 : h[12 + i] = To4(r.SrcIP)[i] /\ h[16 + i] = To4(r.DstIP)[i]
BY AnyHeaderIsValid, Fields DEF Sized

\* What a segment may be written with.
SegmentFields(sp, dp, len, c, n) ==
  /\ sp \in Nat /\ dp \in Nat /\ len \in Nat /\ c \in Nat /\ n \in Nat
  /\ sp < 65536 /\ dp < 65536 /\ len < 65536 /\ c < 65536

\* The payload is as many bytes as were asked for.
LEMMA PayloadType ==
  ASSUME NEW n \in Nat
  PROVE  Payload(n) \in Seq(Bytes) /\ Len(Payload(n)) = n
<1>1. \A i \in 1 .. n : (i - 1) % 256 \in Bytes
  BY DEF Bytes
<1> QED  BY <1>1 DEF Payload

\* A number of 16 bits as two bytes.
LEMMA TwoBytesType ==
  ASSUME NEW v \in Nat, v < 65536
  PROVE  /\ PutUint16(v) \in Seq(Bytes) /\ Len(PutUint16(v)) = 2
         /\ PutUint16(v)[1] = v \div 256 /\ PutUint16(v)[2] = v % 256
<1>1. v \div 256 \in Bytes /\ v % 256 \in Bytes
  BY TwoBytes
<1> DEFINE a == v \div 256
           b == v % 256
<1>2. PutUint16(v) = <<a, b>>
  BY DEF PutUint16
<1> HIDE DEF a, b
<1>3. <<a, b>> \in Seq(Bytes) /\ Len(<<a, b>>) = 2 /\ <<a, b>>[1] = a /\ <<a, b>>[2] = b
  BY <1>1 DEF a, b
<1> QED  BY <1>2, <1>3 DEF a, b

\* The UDP header, byte by byte.
LEMMA UDPHeaderBytes ==
  ASSUME NEW sp, NEW dp, NEW len, NEW c, NEW n, SegmentFields(sp, dp, len, c, n)
  PROVE  LET w == WriteUDP(sp, dp, len, c)
         IN  /\ w \in Seq(Bytes) /\ Len(w) = 8
             /\ w[1] = sp \div 256 /\ w[2] = sp % 256 /\ w[3] = dp \div 256 /\ w[4] = dp % 256
             /\ w[5] = len \div 256 /\ w[6] = len % 256
             /\ w[7] = c \div 256 /\ w[8] = c % 256
<1> DEFINE p1 == PutUint16(sp)
           p2 == PutUint16(dp)
           p3 == PutUint16(len)
           p4 == PutUint16(c)
           a == p1 \o p2
           b == a \o p3
           w == b \o p4
<1>1. p1 \in Seq(Bytes) /\ Len(p1) = 2 /\ p1[1] = sp \div 256 /\ p1[2] = sp % 256
  BY TwoBytesType DEF SegmentFields
<1>2. p2 \in Seq(Bytes) /\ Len(p2) = 2 /\ p2[1] = dp \div 256 /\ p2[2] = dp % 256
  BY TwoBytesType DEF SegmentFields
<1>3. p3 \in Seq(Bytes) /\ Len(p3) = 2 /\ p3[1] = len \div 256 /\ p3[2] = len % 256
  BY TwoBytesType DEF SegmentFields
<1>4. p4 \in Seq(Bytes) /\ Len(p4) = 2 /\ p4[1] = c \div 256 /\ p4[2] = c % 256
  BY TwoBytesType DEF SegmentFields
<1>5. WriteUDP(sp, dp, len, c) = w
  BY DEF WriteUDP
<1> HIDE DEF p1, p2, p3, p4
<1>6. /\ a \in Seq(Bytes) /\ Len(a) = 4
      /\ a[1] = p1[1] /\ a[2] = p1[2] /\ a[3] = p2[1] /\ a[4] = p2[2]
  <2>1. Joins(a, p1, p2)
    BY <1>1, <1>2, Joined
  <2> HIDE DEF a
  <2> QED  BY <1>1, <1>2, <2>1 DEF Joins
<1> HIDE DEF a
<1>7. /\ b \in Seq(Bytes) /\ Len(b) = 6
      /\ b[1] = a[1] /\ b[2] = a[2] /\ b[3] = a[3] /\ b[4] = a[4]
      /\ b[5] = p3[1] /\ b[6] = p3[2]
  <2>1. Joins(b, a, p3)
    BY <1>3, <1>6, Joined
  <2> HIDE DEF b
  <2> QED  BY <1>3, <1>6, <2>1 DEF Joins
<1> HIDE DEF b
<1>8. /\ w \in Seq(Bytes) /\ Len(w) = 8
      /\ w[1] = b[1] /\ w[2] = b[2] /\ w[3] = b[3] /\ w[4] = b[4] /\ w[5] = b[5] /\ w[6] = b[6]
      /\ w[7] = p4[1] /\ w[8] = p4[2]
  <2>1. Joins(w, b, p4)
    BY <1>4, <1>7, Joined
  <2> HIDE DEF w
  <2> QED  BY <1>4, <1>7, <2>1 DEF Joins
<1> HIDE DEF w
<1> QED  BY <1>1, <1>2, <1>3, <1>4, <1>5, <1>6, <1>7, <1>8

\* A segment: the ports, the length, the checksum and the payload.
SegmentIs(s, sp, dp, len, c, n) ==
  /\ s \in Seq(Bytes) /\ Len(s) = 8 + n
  /\ s[1] = sp \div 256 /\ s[2] = sp % 256 /\ s[3] = dp \div 256 /\ s[4] = dp % 256
  /\ s[5] = len \div 256 /\ s[6] = len % 256
  /\ s[7] = c \div 256 /\ s[8] = c % 256
  /\ \A i \in 1 .. n : s[8 + i] = Payload(n)[i]

\* The segment, byte by byte: the header and then the payload.
LEMMA SegmentBytes ==
  ASSUME NEW sp, NEW dp, NEW len, NEW c, NEW n, SegmentFields(sp, dp, len, c, n)
  PROVE  SegmentIs(WriteUDP(sp, dp, len, c) \o Payload(n), sp, dp, len, c, n)
<1> DEFINE w == WriteUDP(sp, dp, len, c)
           p == Payload(n)
           s == w \o p
<1>1. w \in Seq(Bytes) /\ Len(w) = 8
  BY ONLY SegmentFields(sp, dp, len, c, n), UDPHeaderBytes
<1>2. p \in Seq(Bytes) /\ Len(p) = n
  BY PayloadType DEF SegmentFields
<1>3. /\ w[1] = sp \div 256 /\ w[2] = sp % 256 /\ w[3] = dp \div 256 /\ w[4] = dp % 256
      /\ w[5] = len \div 256 /\ w[6] = len % 256 /\ w[7] = c \div 256 /\ w[8] = c % 256
  BY ONLY SegmentFields(sp, dp, len, c, n), UDPHeaderBytes
<1> HIDE DEF w, p
<1>4. /\ s \in Seq(Bytes) /\ Len(s) = 8 + n
      /\ \A i \in 1 .. 8 : s[i] = w[i]
      /\ \A i \in 1 .. n : s[8 + i] = p[i]
  <2>1. Joins(s, w, p)
    BY <1>1, <1>2, Joined
  <2> HIDE DEF s
  <2> QED  BY <1>1, <1>2, <2>1 DEF Joins
<1> HIDE DEF s
<1>5. /\ s[1] = w[1] /\ s[2] = w[2] /\ s[3] = w[3] /\ s[4] = w[4]
      /\ s[5] = w[5] /\ s[6] = w[6] /\ s[7] = w[7] /\ s[8] = w[8]
  BY <1>4
<1>6. s = WriteUDP(sp, dp, len, c) \o Payload(n)
  BY DEF s, w, p
<1>7. SegmentIs(s, sp, dp, len, c, n)
  BY ONLY <1>3, <1>4, <1>5 DEF p, SegmentIs
<1> QED  BY ONLY <1>6, <1>7

\* c is what a holds from place m to place n.
Cuts(c, a, m, n) ==
  /\ c \in Seq(Bytes)
  /\ Len(c) = n - m + 1
  /\ \A i \in 1 .. n - m + 1 : c[i] = a[m - 1 + i]

\* A subsequence is what it was cut from holds there.
LEMMA Cut ==
  ASSUME NEW a, NEW m, NEW n, a \in Seq(Bytes), m \in Nat, n \in Nat, 1 <= m, m <= n + 1,
         n <= Len(a)
  PROVE  Cuts(SubSeq(a, m, n), a, m, n)
<1>1. SubSeq(a, m, n) = [i \in 1 .. n - m + 1 |-> a[m - 1 + i]]
  <2>1. \A i \in 1 .. n - m + 1 : i + m - 1 = m - 1 + i
    OBVIOUS
  <2> QED  BY <2>1
<1>2. n - m + 1 \in Nat /\ \A i \in 1 .. n - m + 1 : m - 1 + i \in 1 .. Len(a)
  OBVIOUS
<1> DEFINE c == [i \in 1 .. n - m + 1 |-> a[m - 1 + i]]
<1>3. c \in Seq(Bytes) /\ Len(c) = n - m + 1 /\ \A i \in 1 .. n - m + 1 : c[i] = a[m - 1 + i]
  BY <1>2
<1> QED  BY <1>1, <1>3 DEF Cuts

\* Sequences of the same bytes are the same.
LEMMA SameBytes ==
  ASSUME NEW a, NEW b, a \in Seq(Bytes), b \in Seq(Bytes), Len(a) = Len(b),
         \A i \in 1 .. Len(a) : a[i] = b[i]
  PROVE  a = b
BY SeqEqual

\* The pseudo header of a datagram, and the datagram.
WithPseudo(h, u) == SubSeq(h, 13, 20) \o <<0, 17>> \o PutUint16(Len(u)) \o u

\* It is six words that add up to the addresses, the protocol and the length, and then
\* the datagram.
LEMMA PseudoHeader ==
  ASSUME NEW h, NEW u, h \in Seq(Bytes), Len(h) = 20, u \in Seq(Bytes), DatagramLen(Len(u))
  PROVE  /\ WithPseudo(h, u) \in Seq(Bytes)
         /\ GoesOn(WithPseudo(h, u), u)
         /\ WordsOfPseudo(WithPseudo(h, u)) =
              Uint16(h, 12) + Uint16(h, 14) + Uint16(h, 16) + Uint16(h, 18) + 17 + Len(u)
<1> DEFINE a == SubSeq(h, 13, 20)
           b == <<0, 17>>
           p == PutUint16(Len(u))
           ab == a \o b
           abp == ab \o p
           q == abp \o u
<1>1. a \in Seq(Bytes) /\ Len(a) = 8 /\ \A i \in 1 .. 8 : a[i] = h[12 + i]
  <2>1. Cuts(a, h, 13, 20)
    <3>1. 13 \in Nat /\ 20 \in Nat /\ 1 <= 13 /\ 13 <= 20 + 1 /\ 20 <= Len(h) /\ h \in Seq(Bytes)
      OBVIOUS
    <3> QED  BY ONLY <3>1, Cut
  <2> HIDE DEF a
  <2> QED  BY <2>1 DEF Cuts
<1>2. b \in Seq(Bytes) /\ Len(b) = 2 /\ b[1] = 0 /\ b[2] = 17
  <2>1. 0 \in Bytes /\ 17 \in Bytes
    BY DEF Bytes
  <2> QED  BY <2>1
<1>3. /\ p \in Seq(Bytes) /\ Len(p) = 2
      /\ p[1] * 256 + p[2] = Len(u)
  <2> DEFINE n == Len(u)
  <2>1. n \in Nat /\ n < 65536
    BY DEF DatagramLen
  <2>2. p \in Seq(Bytes) /\ Len(p) = 2 /\ p[1] = n \div 256 /\ p[2] = n % 256
    BY <2>1, TwoBytesType
  <2>3. (n \div 256) * 256 + (n % 256) = n
    <3> HIDE DEF n
    <3> QED  BY <2>1
  <2> QED  BY <2>2, <2>3
<1> HIDE DEF a, b, p
<1>4. Joins(ab, a, b)
  BY <1>1, <1>2, Joined
<1> HIDE DEF ab
<1>5. Len(ab) = 10 /\ ab \in Seq(Bytes)
  BY <1>1, <1>2, <1>4 DEF Joins
<1>6. Joins(abp, ab, p)
  BY <1>3, <1>5, Joined
<1> HIDE DEF abp
<1>7. Len(abp) = 12 /\ abp \in Seq(Bytes)
  BY <1>3, <1>5, <1>6 DEF Joins
<1>8. Joins(q, abp, u)
  BY <1>7, Joined
<1>9. q = WithPseudo(h, u)
  BY DEF q, abp, ab, a, b, p, WithPseudo
<1> HIDE DEF q
<1>10. q \in Seq(Bytes) /\ GoesOn(q, u)
  BY <1>7, <1>8 DEF Joins, GoesOn
<1>11. \A i \in 1 .. 12 : q[i] = abp[i]
  BY <1>7, <1>8 DEF Joins
<1>12. (\A i \in 1 .. 10 : abp[i] = ab[i]) /\ abp[11] = p[1] /\ abp[12] = p[2]
  BY <1>3, <1>5, <1>6 DEF Joins
<1>13. (\A i \in 1 .. 8 : ab[i] = a[i]) /\ ab[9] = 0 /\ ab[10] = 17
  BY <1>1, <1>2, <1>4 DEF Joins
<1>14. \A i \in 1 .. 8 : q[i] = h[12 + i]
  <2> SUFFICES ASSUME NEW i \in 1 .. 8 PROVE q[i] = h[12 + i]
    OBVIOUS
  <2>1. i \in 1 .. 12 /\ i \in 1 .. 10
    OBVIOUS
  <2>2. q[i] = abp[i]
    BY ONLY <1>11, <2>1
  <2>3. abp[i] = ab[i]
    BY ONLY <1>12, <2>1
  <2>4. ab[i] = a[i]
    BY <1>13
  <2>5. a[i] = h[12 + i]
    BY <1>1
  <2> QED  BY ONLY <2>2, <2>3, <2>4, <2>5
<1>15. /\ Uint16(q, 0) = Uint16(h, 12) /\ Uint16(q, 2) = Uint16(h, 14)
       /\ Uint16(q, 4) = Uint16(h, 16) /\ Uint16(q, 6) = Uint16(h, 18)
  BY <1>14 DEF Uint16
<1>16. Uint16(q, 8) = 17 /\ Uint16(q, 10) = Len(u)
  <2>1. q[9] = 0 /\ q[10] = 17 /\ q[11] = p[1] /\ q[12] = p[2]
    BY <1>11, <1>12, <1>13
  <2> QED  BY <1>3, <2>1 DEF Uint16
<1>17. WordsOfPseudo(q) =
         Uint16(h, 12) + Uint16(h, 14) + Uint16(h, 16) + Uint16(h, 18) + 17 + Len(u)
  BY <1>15, <1>16 DEF WordsOfPseudo
<1> QED  BY <1>9, <1>10, <1>17

\* The segment of a request, without its checksum and with it.
LEMMA SegmentsDiffer ==
  ASSUME NEW r, Sized(r), NEW c, c \in Nat, c < 65536
  PROVE  LET S == SegmentWith(r, 0)
             U == SegmentWith(r, c)
         IN  /\ S \in Seq(Bytes) /\ U \in Seq(Bytes)
             /\ Len(S) = 8 + r.PayloadSize /\ Len(U) = 8 + r.PayloadSize
             /\ DatagramLen(Len(S))
             /\ Checksummed(U, S, c)
<1> DEFINE n == r.PayloadSize
           sp == r.SrcPort
           dp == r.DstPort
           len == UDPLen(r)
           S == SegmentWith(r, 0)
           U == SegmentWith(r, c)
           P == Payload(n)
<1>1. SegmentFields(sp, dp, len, 0, n) /\ SegmentFields(sp, dp, len, c, n)
  BY Fields DEF SegmentFields
<1>2. n \in Nat /\ n < 65494
  BY Fields
<1> HIDE DEF sp, dp, len, n
<1>3. S = WriteUDP(sp, dp, len, 0) \o P /\ U = WriteUDP(sp, dp, len, c) \o P
  BY DEF SegmentWith, sp, dp, len, n
<1> HIDE DEF S, U, P
<1>4. /\ S \in Seq(Bytes) /\ Len(S) = 8 + n
      /\ S[1] = sp \div 256 /\ S[2] = sp % 256 /\ S[3] = dp \div 256 /\ S[4] = dp % 256
      /\ S[5] = len \div 256 /\ S[6] = len % 256
      /\ S[7] = 0 \div 256 /\ S[8] = 0 % 256
      /\ \A i \in 1 .. n : S[8 + i] = P[i]
  <2>1. SegmentIs(S, sp, dp, len, 0, n)
    BY <1>1, <1>3, SegmentBytes DEF P
  <2> QED  BY <2>1 DEF SegmentIs, P
<1>5. /\ U \in Seq(Bytes) /\ Len(U) = 8 + n
      /\ U[1] = sp \div 256 /\ U[2] = sp % 256 /\ U[3] = dp \div 256 /\ U[4] = dp % 256
      /\ U[5] = len \div 256 /\ U[6] = len % 256
      /\ U[7] = c \div 256 /\ U[8] = c % 256
      /\ \A i \in 1 .. n : U[8 + i] = P[i]
  <2>1. SegmentIs(U, sp, dp, len, c, n)
    BY <1>1, <1>3, SegmentBytes DEF P
  <2> QED  BY <2>1 DEF SegmentIs, P
<1>6. DatagramLen(Len(S))
  BY <1>2, <1>4 DEF DatagramLen
<1>7. 0 \div 256 = 0 /\ 0 % 256 = 0 /\ (c \div 256) * 256 + (c % 256) = c
  OBVIOUS
<1>8. \A i \in 1 .. Len(S) : i # 7 /\ i # 8 => U[i] = S[i]
  <2> SUFFICES ASSUME NEW i \in 1 .. 8 + n, i # 7, i # 8 PROVE U[i] = S[i]
    BY <1>4
  <2>1. CASE i <= 8
    <3>1. i \in {1, 2, 3, 4, 5, 6}
      BY <1>2, <2>1
    <3> QED  BY <1>4, <1>5, <3>1
  <2>2. CASE i > 8
    <3> DEFINE j == i - 8
    <3>1. j \in 1 .. n /\ i = 8 + j
      BY <1>2, <2>2
    <3> HIDE DEF j
    <3> QED  BY <1>4, <1>5, <3>1
  <2> QED  BY <1>2, <2>1, <2>2
<1>9. Checksummed(U, S, c)
  BY <1>4, <1>5, <1>7, <1>8 DEF Checksummed
<1> QED  BY <1>4, <1>5, <1>6, <1>9 DEF S, U, n

\* What a receiver finds in a segment.
Parts(U, r, c) ==
  /\ SubSeq(U, 1, 4) = PutUint16(r.SrcPort) \o PutUint16(r.DstPort)
  /\ SubSeq(U, 9, Len(U)) = Payload(r.PayloadSize)
  /\ Uint16(U, 4) = Len(U)
  /\ Uint16(U, 6) = c

\* The segment of a request has the parts of the request, whatever its checksum.
LEMMA SegmentParts ==
  ASSUME NEW r, Sized(r), NEW c, c \in Nat, c < 65536
  PROVE  Parts(SegmentWith(r, c), r, c)
<1> DEFINE n == r.PayloadSize
           sp == r.SrcPort
           dp == r.DstPort
           len == UDPLen(r)
           U == SegmentWith(r, c)
           P == Payload(n)
           a == PutUint16(sp)
           b == PutUint16(dp)
           ab == a \o b
           x == SubSeq(U, 1, 4)
           y == SubSeq(U, 9, Len(U))
<1>1. /\ SegmentFields(sp, dp, len, c, n) /\ n \in Nat /\ len = 8 + n /\ len \in Nat
      /\ sp \in Nat /\ dp \in Nat /\ sp < 65536 /\ dp < 65536
  BY Fields DEF SegmentFields
<1> HIDE DEF sp, dp, len, n
<1>2. U = WriteUDP(sp, dp, len, c) \o P
  BY DEF SegmentWith, sp, dp, len, n
<1>3. P \in Seq(Bytes) /\ Len(P) = n
  BY <1>1, PayloadType
<1> HIDE DEF U, P
<1>4. /\ U \in Seq(Bytes) /\ Len(U) = 8 + n
      /\ U[1] = sp \div 256 /\ U[2] = sp % 256 /\ U[3] = dp \div 256 /\ U[4] = dp % 256
      /\ U[5] = len \div 256 /\ U[6] = len % 256
      /\ U[7] = c \div 256 /\ U[8] = c % 256
      /\ \A i \in 1 .. n : U[8 + i] = P[i]
  <2>1. SegmentIs(U, sp, dp, len, c, n)
    BY <1>1, <1>2, SegmentBytes DEF P
  <2> QED  BY <2>1 DEF SegmentIs, P
<1>5. a \in Seq(Bytes) /\ Len(a) = 2 /\ a[1] = sp \div 256 /\ a[2] = sp % 256
  BY <1>1, TwoBytesType
<1>6. b \in Seq(Bytes) /\ Len(b) = 2 /\ b[1] = dp \div 256 /\ b[2] = dp % 256
  BY <1>1, TwoBytesType
<1> HIDE DEF a, b
<1>7. Joins(ab, a, b)
  BY <1>5, <1>6, Joined
<1> HIDE DEF ab
<1>8. ab \in Seq(Bytes) /\ Len(ab) = 4 /\ ab[1] = a[1] /\ ab[2] = a[2] /\ ab[3] = b[1] /\ ab[4] = b[2]
  BY <1>5, <1>6, <1>7 DEF Joins
<1>9. x = ab
  <2>1. 1 \in Nat /\ 4 \in Nat /\ 1 <= 1 /\ 1 <= 4 + 1 /\ 4 <= Len(U) /\ U \in Seq(Bytes)
    BY <1>1, <1>4
  <2>2. Cuts(x, U, 1, 4)
    BY ONLY <2>1, Cut
  <2> HIDE DEF x
  <2>3. x \in Seq(Bytes) /\ Len(x) = 4 /\ \A i \in 1 .. 4 : x[i] = U[i]
    BY <2>2 DEF Cuts
  <2>4. x[1] = ab[1] /\ x[2] = ab[2] /\ x[3] = ab[3] /\ x[4] = ab[4]
    BY <1>4, <1>5, <1>6, <1>8, <2>3
  <2>5. \A i \in 1 .. 4 : x[i] = ab[i]
    BY <2>4
  <2> QED  BY <1>8, <2>3, <2>5, SameBytes
<1>10. y = P
  <2>1. 9 \in Nat /\ Len(U) \in Nat /\ 1 <= 9 /\ 9 <= Len(U) + 1 /\ Len(U) <= Len(U) /\ U \in Seq(Bytes)
    BY <1>1, <1>4
  <2>2. Cuts(y, U, 9, Len(U))
    BY ONLY <2>1, Cut
  <2> HIDE DEF y
  <2>3. y \in Seq(Bytes) /\ Len(y) = n /\ \A i \in 1 .. n : y[i] = U[8 + i]
    <3>1. Len(U) - 9 + 1 = n /\ 9 - 1 = 8
      BY <1>1, <1>4
    <3> QED  BY <2>2, <3>1 DEF Cuts
  <2>4. ASSUME NEW i \in 1 .. n
        PROVE  y[i] = P[i]
    <3>1. y[i] = U[8 + i]
      BY ONLY <2>3, i \in 1 .. n
    <3>2. U[8 + i] = P[i]
      BY <1>4
    <3> QED  BY ONLY <3>1, <3>2
  <2>5. y \in Seq(Bytes) /\ P \in Seq(Bytes) /\ Len(y) = Len(P)
    BY ONLY <1>3, <2>3
  <2>6. \A i \in 1 .. Len(y) : y[i] = P[i]
    BY ONLY <2>3, <2>4
  <2> QED  BY ONLY <2>5, <2>6, SameBytes
<1>11. Uint16(U, 4) = Len(U)
  <2>1. (len \div 256) * 256 + (len % 256) = len
    BY <1>1
  <2>2. Uint16(U, 4) = U[5] * 256 + U[6] /\ U[5] = len \div 256 /\ U[6] = len % 256
    BY <1>4 DEF Uint16
  <2>3. Len(U) = len
    BY <1>1, <1>4
  <2> QED  BY <2>1, <2>2, <2>3
<1>12. Uint16(U, 6) = c
  <2>1. (c \div 256) * 256 + (c % 256) = c
    OBVIOUS
  <2> QED  BY <1>4, <2>1 DEF Uint16
<1>13. x = PutUint16(r.SrcPort) \o PutUint16(r.DstPort)
  BY <1>9 DEF ab, a, b, sp, dp
<1>14. y = Payload(r.PayloadSize)
  BY <1>10 DEF P, n
<1>15. Parts(U, r, c)
  BY ONLY <1>11, <1>12, <1>13, <1>14, Zenon DEF Parts
<1> QED  BY <1>15 DEF U

\* The words of the addresses in an IPv4 header.
LEMMA AddressWords ==
  ASSUME NEW h, h \in Seq(Bytes), Len(h) = 20
  PROVE  /\ Uint16(h, 12) \in Nat /\ Uint16(h, 14) \in Nat
         /\ Uint16(h, 16) \in Nat /\ Uint16(h, 18) \in Nat
         /\ Uint16(h, 12) < 65536 /\ Uint16(h, 14) < 65536
         /\ Uint16(h, 16) < 65536 /\ Uint16(h, 18) < 65536
<1>1. /\ h[13] \in Bytes /\ h[14] \in Bytes /\ h[15] \in Bytes /\ h[16] \in Bytes
      /\ h[17] \in Bytes /\ h[18] \in Bytes /\ h[19] \in Bytes /\ h[20] \in Bytes
  <2>1. ASSUME NEW i \in 1 .. 20
        PROVE  h[i] \in Bytes
    <3>1. h \in Seq(Bytes) /\ i \in 1 .. Len(h)
      OBVIOUS
    <3> QED  BY <3>1, ElementOfSeq
  <2> QED  BY ONLY <2>1
<1>2. /\ Uint16(h, 12) = h[13] * 256 + h[14] /\ Uint16(h, 14) = h[15] * 256 + h[16]
      /\ Uint16(h, 16) = h[17] * 256 + h[18] /\ Uint16(h, 18) = h[19] * 256 + h[20]
  BY DEF Uint16
<1> DEFINE a1 == h[13]  a2 == h[14]  a3 == h[15]  a4 == h[16]
           b1 == h[17]  b2 == h[18]  b3 == h[19]  b4 == h[20]
<1>3. /\ a1 \in Bytes /\ a2 \in Bytes /\ a3 \in Bytes /\ a4 \in Bytes
      /\ b1 \in Bytes /\ b2 \in Bytes /\ b3 \in Bytes /\ b4 \in Bytes
      /\ Uint16(h, 12) = a1 * 256 + a2 /\ Uint16(h, 14) = a3 * 256 + a4
      /\ Uint16(h, 16) = b1 * 256 + b2 /\ Uint16(h, 18) = b3 * 256 + b4
  BY <1>1, <1>2
<1> HIDE DEF a1, a2, a3, a4, b1, b2, b3, b4
<1>4. /\ a1 * 256 + a2 \in Nat /\ a1 * 256 + a2 < 65536
      /\ a3 * 256 + a4 \in Nat /\ a3 * 256 + a4 < 65536
  BY ONLY <1>3, WordRange
<1>5. /\ b1 * 256 + b2 \in Nat /\ b1 * 256 + b2 < 65536
      /\ b3 * 256 + b4 \in Nat /\ b3 * 256 + b4 < 65536
  BY ONLY <1>3, WordRange
<1> QED  BY ONLY <1>3, <1>4, <1>5

\* The datagram of a request is one that its receiver accepts.
LEMMA DatagramIsValid ==
  ASSUME NEW r, Sized(r)
  PROVE  /\ UDPSegment(r) \in Seq(Bytes) /\ Len(UDPSegment(r)) = 8 + r.PayloadSize
         /\ ValidUDP(IPv4Header(r), UDPSegment(r), r)
<1> DEFINE h == IPv4Header(r)
           S == SegmentWith(r, 0)
           L == UDPLen(r)
           x == UDPSum(h, S, L)
           c == NonZero(Checksum(x))
           U == SegmentWith(r, c)
<1>1. h \in Seq(Bytes) /\ Len(h) = 20
  BY HeaderIsValid
<1>2. S \in Seq(Bytes) /\ Len(S) = L /\ L \in Nat /\ L < 65536 /\ DatagramLen(Len(S))
  <2>1. 0 \in Nat /\ 0 < 65536
    OBVIOUS
  <2>2. S \in Seq(Bytes) /\ Len(S) = 8 + r.PayloadSize /\ DatagramLen(Len(S))
    BY <2>1, SegmentsDiffer
  <2>3. L = 8 + r.PayloadSize /\ r.PayloadSize \in Nat /\ r.PayloadSize < 65494
    BY Fields
  <2> HIDE DEF S, L
  <2> QED  BY <2>2, <2>3
<1>3. UDPSegment(r) = U
  BY DEF UDPSegment
<1> HIDE DEF h, S, L
<1> DEFINE words == UDPWords(S, L)
           pseudo == Uint16(h, 12) + Uint16(h, 14) + Uint16(h, 16) + Uint16(h, 18) + 17 + L
<1>4. words \in Nat /\ words <= 65535 * 32768
  <2>1. UDPWords(S, Len(S)) \in Nat /\ UDPWords(S, Len(S)) <= 65535 * 32768
    BY <1>2, WordsRange
  <2> QED  BY <1>2, <2>1
<1>5. x = pseudo + words
  BY DEF UDPSum
<1>6. pseudo \in Nat /\ 17 <= pseudo /\ pseudo < 65536 * 6
  <2>1. /\ Uint16(h, 12) \in Nat /\ Uint16(h, 14) \in Nat
        /\ Uint16(h, 16) \in Nat /\ Uint16(h, 18) \in Nat
        /\ Uint16(h, 12) < 65536 /\ Uint16(h, 14) < 65536
        /\ Uint16(h, 16) < 65536 /\ Uint16(h, 18) < 65536
    BY ONLY <1>1, AddressWords
  <2> DEFINE a == Uint16(h, 12)  b == Uint16(h, 14)  d == Uint16(h, 16)  e == Uint16(h, 18)
  <2>2. a \in Nat /\ b \in Nat /\ d \in Nat /\ e \in Nat /\ a < 65536 /\ b < 65536 /\ d < 65536 /\ e < 65536
    BY <2>1
  <2>3. pseudo = a + b + d + e + 17 + L
    OBVIOUS
  <2> HIDE DEF a, b, d, e, pseudo
  <2> QED  BY <1>2, <2>2, <2>3
<1> HIDE DEF words, pseudo, x
<1>7. x \in Uint32s /\ 0 < x
  BY <1>4, <1>5, <1>6 DEF Uint32s
<1>8. c \in Nat /\ 0 < c /\ c < 65536 /\ Verifies(x + c)
  BY <1>7, ChecksumVerifies
<1> HIDE DEF c
<1>9. U \in Seq(Bytes) /\ Len(U) = L /\ Checksummed(U, S, c)
  <2>1. U \in Seq(Bytes) /\ Len(U) = Len(S) /\ Checksummed(U, SegmentWith(r, 0), c)
    BY <1>8, SegmentsDiffer DEF S
  <2> HIDE DEF U
  <2> QED  BY <1>2, <2>1 DEF S
<1>10. Parts(U, r, c)
  BY <1>8, SegmentParts
<1> HIDE DEF U
<1> DEFINE Q == WithPseudo(h, U)
<1>11. DatagramLen(Len(U))
  BY <1>2, <1>9
<1>12. Q \in Seq(Bytes) /\ GoesOn(Q, U) /\ WordsOfPseudo(Q) = pseudo
  <2>1. /\ WithPseudo(h, U) \in Seq(Bytes)
        /\ GoesOn(WithPseudo(h, U), U)
        /\ WordsOfPseudo(WithPseudo(h, U)) =
             Uint16(h, 12) + Uint16(h, 14) + Uint16(h, 16) + Uint16(h, 18) + 17 + Len(U)
    BY ONLY <1>1, <1>9, <1>11, PseudoHeader
  <2> QED  BY <1>9, <2>1 DEF pseudo
<1> HIDE DEF Q
<1>13. BytesSum(Q) = x + c
  <2>1. BytesSum(Q) = WordsOfPseudo(Q) + UDPWords(S, Len(S)) + c
    <3>1. S \in Seq(Bytes) /\ U \in Seq(Bytes) /\ c \in Nat /\ Q \in Seq(Bytes)
      BY <1>2, <1>8, <1>9, <1>12
    <3> QED  BY ONLY <1>2, <1>9, <1>12, <3>1, BytesAreWords
  <2>2. UDPWords(S, Len(S)) = words
    BY <1>2 DEF words
  <2> QED  BY <1>5, <1>12, <2>1, <2>2
<1>14. Verifies(BytesSum(SubSeq(h, 13, 20) \o <<0, 17>> \o PutUint16(Len(U)) \o U))
  BY <1>8, <1>13 DEF Q, WithPseudo
<1>15. Uint16(U, 6) # 0
  BY <1>8, <1>10 DEF Parts
<1>16. ValidUDP(h, U, r)
  BY <1>10, <1>14, <1>15 DEF ValidUDP, Parts
<1>17. L = 8 + r.PayloadSize
  BY Fields DEF L
<1> QED  BY <1>3, <1>9, <1>16, <1>17 DEF h

\* The Ethernet header, with the address of the request for its source.
LEMMA EthernetBytes ==
  ASSUME NEW mac, mac \in Seq(Bytes), 6 <= Len(mac)
  PROVE  /\ WriteEthernet(mac) \in Seq(Bytes) /\ Len(WriteEthernet(mac)) = 14
         /\ \A i \in 1 .. 6 : WriteEthernet(mac)[6 + i] = SubSeq(mac, 1, 6)[i]
         /\ SubSeq(mac, 1, 6) \in Seq(Bytes) /\ Len(SubSeq(mac, 1, 6)) = 6
<1> DEFINE d == dstMAC
           s == SubSeq(mac, 1, 6)
           e == <<8, 0>>
           ds == d \o s
           w == ds \o e
<1>1. d \in Seq(Bytes) /\ Len(d) = 6
  <2>1. 64 \in Bytes /\ 166 \in Bytes /\ 183 \in Bytes /\ 130 \in Bytes /\ 205 \in Bytes /\ 216 \in Bytes
    BY DEF Bytes
  <2> QED  BY <2>1 DEF dstMAC
<1>2. s \in Seq(Bytes) /\ Len(s) = 6
  <2>1. 1 \in Nat /\ 6 \in Nat /\ 1 <= 1 /\ 1 <= 6 + 1 /\ 6 <= Len(mac) /\ mac \in Seq(Bytes)
    OBVIOUS
  <2>2. Cuts(s, mac, 1, 6)
    BY ONLY <2>1, Cut
  <2> HIDE DEF s
  <2> QED  BY <2>2 DEF Cuts
<1>3. e \in Seq(Bytes) /\ Len(e) = 2
  <2>1. 8 \in Bytes /\ 0 \in Bytes
    BY DEF Bytes
  <2> QED  BY <2>1
<1> HIDE DEF d, s, e
<1>4. Joins(ds, d, s)
  BY <1>1, <1>2, Joined
<1> HIDE DEF ds
<1>5. ds \in Seq(Bytes) /\ Len(ds) = 12 /\ \A i \in 1 .. 6 : ds[6 + i] = s[i]
  BY <1>1, <1>2, <1>4 DEF Joins
<1>6. Joins(w, ds, e)
  BY <1>3, <1>5, Joined
<1>7. w = WriteEthernet(mac)
  BY DEF WriteEthernet, ds, d, s, e
<1> HIDE DEF w
<1>8. w \in Seq(Bytes) /\ Len(w) = 14 /\ \A i \in 1 .. 12 : w[i] = ds[i]
  BY <1>3, <1>5, <1>6 DEF Joins
<1>9. \A i \in 1 .. 6 : w[6 + i] = s[i]
  <2> SUFFICES ASSUME NEW i \in 1 .. 6 PROVE w[6 + i] = s[i]
    OBVIOUS
  <2>1. 6 + i \in 1 .. 12
    OBVIOUS
  <2> QED  BY <1>5, <1>8, <2>1
<1> QED  BY <1>2, <1>7, <1>8, <1>9 DEF s

\* c holds b after n elements.
Holds(c, b, n) == \A i \in 1 .. Len(b) : c[n + i] = b[i]

\* And then b can be cut from it.
LEMMA CutOut ==
  ASSUME NEW c, NEW b, NEW m, NEW n, c \in Seq(Bytes), b \in Seq(Bytes), m \in Nat, n \in Nat,
         1 <= m, n <= Len(c), n = m - 1 + Len(b), Holds(c, b, m - 1)
  PROVE  SubSeq(c, m, n) = b
<1> DEFINE s == SubSeq(c, m, n)
<1>1. m <= n + 1 /\ n - m + 1 = Len(b)
  OBVIOUS
<1>2. Cuts(s, c, m, n)
  BY <1>1, Cut
<1> HIDE DEF s
<1>3. s \in Seq(Bytes) /\ Len(s) = Len(b) /\ \A i \in 1 .. Len(b) : s[i] = c[m - 1 + i]
  BY <1>1, <1>2 DEF Cuts
<1>4. \A i \in 1 .. Len(s) : s[i] = b[i]
  BY <1>3 DEF Holds
<1>5. s = b
  BY <1>3, <1>4, SameBytes
<1> QED  BY <1>5 DEF s

\* A segment with whatever checksum is a sequence of numbers and what the checksum is.
LEMMA SegmentIsSeq ==
  ASSUME NEW r, r \in GeneratorRequest, ~ Panics(r), NEW c
  PROVE  \E S : Bytes \subseteq S /\ SegmentWith(r, c) \in Seq(S)
<1> DEFINE S == Bytes \cup {c \div 256, c % 256}
           a == PutUint16(r.SrcPort)
           b == PutUint16(r.DstPort)
           l == PutUint16(UDPLen(r))
           k == PutUint16(c)
           p == Payload(r.PayloadSize)
<1>1. /\ r.SrcPort \in Nat /\ r.SrcPort < 65536 /\ r.DstPort \in Nat /\ r.DstPort < 65536
      /\ r.PayloadSize \in Nat
      /\ UDPLen(r) \in Nat /\ UDPLen(r) < 65536
  <2>1. r.SrcPort \in Uint16s /\ r.DstPort \in Uint16s /\ r.PayloadSize \in Int
    BY DEF GeneratorRequest
  <2>2. r.PayloadSize \in Nat
    BY <2>1 DEF Panics
  <2>3. \A v \in Uint16s : v \in Nat /\ v < 65536
    BY DEF Uint16s
  <2>4. \A m \in Nat : (8 + m) % 65536 \in Nat /\ (8 + m) % 65536 < 65536
    OBVIOUS
  <2>5. UDPLen(r) \in Nat /\ UDPLen(r) < 65536
    BY <2>2, <2>4 DEF UDPLen
  <2> QED  BY <2>1, <2>2, <2>3, <2>5
<1>2. a \in Seq(Bytes) /\ b \in Seq(Bytes) /\ l \in Seq(Bytes) /\ p \in Seq(Bytes)
  <2>1. a \in Seq(Bytes)
    BY <1>1, TwoBytesType
  <2>2. b \in Seq(Bytes)
    BY <1>1, TwoBytesType
  <2>3. l \in Seq(Bytes)
    BY <1>1, TwoBytesType
  <2>4. p \in Seq(Bytes)
    BY <1>1, PayloadType
  <2> QED  BY <2>1, <2>2, <2>3, <2>4
<1>3. k \in Seq(S)
  <2> DEFINE x == c \div 256
             y == c % 256
  <2>1. k = <<x, y>> /\ x \in S /\ y \in S
    BY DEF PutUint16
  <2> HIDE DEF x, y, k, S
  <2> QED  BY <2>1
<1>4. SegmentWith(r, c) = a \o b \o l \o k \o p
  BY DEF SegmentWith, WriteUDP
<1>5. Bytes \subseteq S
  OBVIOUS
<1> HIDE DEF S, a, b, l, k, p
<1>6. ASSUME NEW q \in Seq(Bytes)
      PROVE  q \in Seq(S)
  <2>1. Len(q) \in Nat /\ q \in [1 .. Len(q) -> Bytes]
    BY LenProperties
  <2>2. q \in [1 .. Len(q) -> S]
    BY <1>5, <2>1
  <2> QED  BY <2>1, <2>2
<1>7. a \o b \o l \o k \o p \in Seq(S)
  <2>1. a \in Seq(S) /\ b \in Seq(S) /\ l \in Seq(S) /\ p \in Seq(S)
    BY <1>2, <1>6
  <2>2. a \o b \in Seq(S)
    BY <2>1, ConcatProperties
  <2>3. a \o b \o l \in Seq(S)
    BY <2>1, <2>2, ConcatProperties
  <2>4. a \o b \o l \o k \in Seq(S)
    BY <1>3, <2>3, ConcatProperties
  <2> QED  BY <2>1, <2>4, ConcatProperties
<1> QED  BY <1>4, <1>5, <1>7

\* In the packet of any request that does not panic the IPv4 header follows the Ethernet
\* header.
LEMMA PacketHeader ==
  ASSUME NEW r, r \in GeneratorRequest, ~ Panics(r)
  PROVE  \A i \in 1 .. 20 : BuildSimpleUDPPacket(r)[14 + i] = IPv4Header(r)[i]
<1> DEFINE w == WriteEthernet(r.DeviceMacAddr)
           h == IPv4Header(r)
           u == UDPSegment(r)
           wh == w \o h
<1>1. w \in Seq(Bytes) /\ Len(w) = 14
  <2>1. r.DeviceMacAddr \in Seq(Bytes) /\ 6 <= Len(r.DeviceMacAddr)
    <3>1. r.DeviceMacAddr \in Seq(Bytes)
      BY DEF GeneratorRequest
    <3> QED  BY <3>1 DEF Panics
  <2> QED  BY <2>1, EthernetBytes
<1>2. h \in Seq(Bytes) /\ Len(h) = 20
  BY AnyHeaderIsValid
<1>3. PICK S : Bytes \subseteq S /\ u \in Seq(S)
  BY SegmentIsSeq DEF UDPSegment
<1>4. BuildSimpleUDPPacket(r) = wh \o u
  BY DEF BuildSimpleUDPPacket
<1> HIDE DEF w, h, u
<1>5. Joins(wh, w, h)
  BY <1>1, <1>2, Joined
<1> HIDE DEF wh
<1>6. wh \in Seq(Bytes) /\ Len(wh) = 34 /\ \A i \in 1 .. 20 : wh[14 + i] = h[i]
  BY <1>1, <1>2, <1>5 DEF Joins
<1>7. wh \in Seq(S)
  <2>1. Len(wh) \in Nat /\ wh \in [1 .. Len(wh) -> Bytes]
    BY <1>6, LenProperties
  <2>2. wh \in [1 .. Len(wh) -> S]
    BY <1>3, <2>1
  <2> QED  BY <2>1, <2>2
<1>8. ASSUME NEW i \in 1 .. 20
      PROVE  (wh \o u)[14 + i] = h[i]
  <2>1. Len(u) \in Nat
    BY <1>3, LenProperties
  <2>2. ASSUME NEW l \in Nat
        PROVE  14 + i \in 1 .. 34 + l /\ 14 + i <= 34
    OBVIOUS
  <2>3. 14 + i \in 1 .. Len(wh) + Len(u) /\ 14 + i <= Len(wh)
    BY <1>6, <2>1, <2>2
  <2>4. (wh \o u)[14 + i] = wh[14 + i]
    BY <1>3, <1>7, <2>3, ConcatProperties
  <2> QED  BY <1>6, <2>4
<1> QED  BY <1>4, <1>8 DEF h

\* Every request whose packet has a length of 16 bits makes a frame that a router and
\* its receiver accept, and that is the request's.
THEOREM FrameIsValid ==
  ASSUME NEW r, Sized(r)
  PROVE  /\ BuildSimpleUDPPacket(r) \in Seq(Bytes)
         /\ Len(BuildSimpleUDPPacket(r)) = PacketSize(r)
         /\ ValidHeaders(BuildSimpleUDPPacket(r), r)
         /\ ValidUDP(IPv4Of(BuildSimpleUDPPacket(r)), UDPOf(BuildSimpleUDPPacket(r)), r)
<1> DEFINE w == WriteEthernet(r.DeviceMacAddr)
           mac == SubSeq(r.DeviceMacAddr, 1, 6)
           h == IPv4Header(r)
           u == UDPSegment(r)
           n == r.PayloadSize
           wh == w \o h
           f == wh \o u
           s == To4(r.SrcIP)
           d == To4(r.DstIP)
           sd == s \o d
<1>1. /\ w \in Seq(Bytes) /\ Len(w) = 14 /\ \A i \in 1 .. 6 : w[6 + i] = mac[i]
      /\ mac \in Seq(Bytes) /\ Len(mac) = 6
  BY Fields, EthernetBytes
<1>2. /\ h \in Seq(Bytes) /\ Len(h) = 20
      /\ Verifies(HeaderSum(h))
      /\ Uint16(h, 2) = 28 + n
      /\ \A i \in 1 .. 4 : h[12 + i] = s[i] /\ h[16 + i] = d[i]
  BY HeaderIsValid
<1>3. u \in Seq(Bytes) /\ Len(u) = 8 + n /\ ValidUDP(h, u, r)
  BY DatagramIsValid
<1>4. n \in Nat /\ s \in Seq(Bytes) /\ Len(s) = 4 /\ d \in Seq(Bytes) /\ Len(d) = 4
  <2>1. n \in Nat /\ s \in [1 .. 4 -> Bytes] /\ d \in [1 .. 4 -> Bytes]
    BY Fields
  <2> HIDE DEF n, s, d
  <2>2. ASSUME NEW a \in [1 .. 4 -> Bytes] PROVE a \in Seq(Bytes) /\ Len(a) = 4
    <3>1. 4 \in Nat
      OBVIOUS
    <3>2. a \in Seq(Bytes)
      BY ONLY <3>1, a \in [1 .. 4 -> Bytes], SeqDef
    <3> QED  BY ONLY <3>1, <3>2, a \in [1 .. 4 -> Bytes], LenProperties
  <2> QED  BY <2>1, <2>2
<1>5. f = BuildSimpleUDPPacket(r)
  BY DEF BuildSimpleUDPPacket
<1>6. PacketSize(r) = 42 + n
  BY <1>4 DEF PacketSize
<1> HIDE DEF w, mac, h, u, n, s, d
<1>7. Joins(wh, w, h)
  BY <1>1, <1>2, Joined
<1> HIDE DEF wh
<1>8. wh \in Seq(Bytes) /\ Len(wh) = 34
  BY <1>1, <1>2, <1>7 DEF Joins
<1>9. Joins(f, wh, u)
  BY <1>3, <1>8, Joined
<1> HIDE DEF f
<1>10. f \in Seq(Bytes) /\ Len(f) = 42 + n
  BY <1>3, <1>4, <1>8, <1>9 DEF Joins
<1>11. \A i \in 1 .. 34 : f[i] = wh[i]
  BY <1>8, <1>9 DEF Joins
<1>12. Holds(f, u, 34)
  BY <1>8, <1>9 DEF Joins, Holds
<1>13. Holds(f, h, 14)
  <2> SUFFICES ASSUME NEW i \in 1 .. 20 PROVE f[14 + i] = h[i]
    BY <1>2 DEF Holds
  <2>1. 14 + i \in 1 .. 34
    OBVIOUS
  <2>2. wh[14 + i] = h[i]
    BY <1>1, <1>2, <1>7 DEF Joins
  <2> QED  BY <1>11, <2>1, <2>2
<1>14. Holds(f, mac, 6)
  <2> SUFFICES ASSUME NEW i \in 1 .. 6 PROVE f[6 + i] = mac[i]
    BY <1>1 DEF Holds
  <2>1. 6 + i \in 1 .. 34 /\ 6 + i \in 1 .. 14
    OBVIOUS
  <2>2. wh[6 + i] = w[6 + i]
    BY <1>1, <1>7, <2>1 DEF Joins
  <2> QED  BY <1>1, <1>11, <2>1, <2>2
<1>15. IPv4Of(f) = h
  <2>1. /\ 15 \in Nat /\ 34 \in Nat /\ 1 <= 15 /\ 34 <= Len(f) /\ 34 = 15 - 1 + Len(h)
        /\ 15 - 1 = 14 /\ Holds(f, h, 15 - 1) /\ f \in Seq(Bytes) /\ h \in Seq(Bytes)
    BY <1>2, <1>4, <1>10, <1>13
  <2>2. SubSeq(f, 15, 34) = h
    BY ONLY <2>1, CutOut
  <2> QED  BY <2>2 DEF IPv4Of
<1>16. UDPOf(f) = u
  <2>1. /\ 35 \in Nat /\ Len(f) \in Nat /\ 1 <= 35 /\ Len(f) <= Len(f)
        /\ Len(f) = 35 - 1 + Len(u) /\ Holds(f, u, 35 - 1) /\ f \in Seq(Bytes) /\ u \in Seq(Bytes)
    BY <1>3, <1>4, <1>10, <1>12
  <2>2. SubSeq(f, 35, Len(f)) = u
    BY ONLY <2>1, CutOut
  <2> QED  BY <2>2 DEF UDPOf
<1>17. SubSeq(f, 7, 12) = mac
  <2>1. /\ 7 \in Nat /\ 12 \in Nat /\ 1 <= 7 /\ 12 <= Len(f) /\ 12 = 7 - 1 + Len(mac)
        /\ Holds(f, mac, 7 - 1) /\ f \in Seq(Bytes) /\ mac \in Seq(Bytes)
    BY <1>1, <1>4, <1>10, <1>14
  <2> QED  BY ONLY <2>1, CutOut
<1>18. SubSeq(f, 27, 34) = sd
  <2>1. Joins(sd, s, d)
    BY <1>4, Joined
  <2> HIDE DEF sd
  <2>2. /\ sd \in Seq(Bytes) /\ Len(sd) = 8
        /\ \A i \in 1 .. 4 : sd[i] = s[i] /\ sd[4 + i] = d[i]
    BY <1>4, <2>1 DEF Joins
  <2>3. ASSUME NEW i \in 1 .. 8
        PROVE  f[26 + i] = sd[i]
    <3>1. f[26 + i] = h[12 + i]
      <4>1. 12 + i \in 1 .. Len(h) /\ 14 + (12 + i) = 26 + i
        BY <1>2
      <4> QED  BY <1>13, <4>1 DEF Holds
    <3>2. CASE i <= 4
      <4>1. i \in 1 .. 4
        BY <3>2
      <4> QED  BY <1>2, <2>2, <3>1, <4>1
    <3>3. CASE i > 4
      <4> DEFINE j == i - 4
      <4>1. j \in 1 .. 4 /\ i = 4 + j /\ 12 + i = 16 + j
        BY <3>3
      <4> HIDE DEF j
      <4> QED  BY <1>2, <2>2, <3>1, <4>1
    <3> QED  BY <3>2, <3>3
  <2>4. /\ 27 \in Nat /\ 34 \in Nat /\ 1 <= 27 /\ 34 <= Len(f) /\ 34 = 27 - 1 + Len(sd)
        /\ Holds(f, sd, 27 - 1) /\ f \in Seq(Bytes) /\ sd \in Seq(Bytes)
    BY <1>4, <1>10, <2>2, <2>3 DEF Holds
  <2> QED  BY ONLY <2>4, CutOut
<1>19. ValidHeaders(f, r)
  <2>1. Len(f) = 42 + r.PayloadSize
    BY <1>10 DEF n
  <2>2. Uint16(IPv4Of(f), 2) = Len(f) - 14
    BY <1>2, <1>4, <1>10, <1>15
  <2>3. SubSeq(f, 7, 12) = SubSeq(r.DeviceMacAddr, 1, 6)
    BY <1>17 DEF mac
  <2>4. SubSeq(f, 27, 34) = To4(r.SrcIP) \o To4(r.DstIP)
    BY <1>18 DEF s, d
  <2>5. Verifies(HeaderSum(IPv4Of(f)))
    BY <1>2, <1>15
  <2> QED  BY ONLY <2>1, <2>2, <2>3, <2>4, <2>5 DEF ValidHeaders
<1>20. ValidUDP(IPv4Of(f), UDPOf(f), r)
  BY <1>3, <1>15, <1>16
<1> QED  BY <1>5, <1>6, <1>10, <1>19, <1>20
=============================================================================
