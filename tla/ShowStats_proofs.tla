-------------------------- MODULE ShowStats_proofs --------------------------
(***************************************************************************)
(* Theorems about ShowStats, for any number of CPUs: its types, and that   *)
(* the rates printed add up to totals the counters really had.             *)
(*                                                                         *)
(* The sum over the CPUs is a recursive function.  What it computes is     *)
(* proved by the least-number principle, stated for a set (LeastNumber):   *)
(* a smallest n for which the claim fails is neither 0 nor the successor   *)
(* of an n for which it holds.                                             *)
(***************************************************************************)
EXTENDS ShowStats, WellFoundedInduction, TLAPS

-----------------------------------------------------------------------------
(* Sums.                                                                   *)

\* A set of natural numbers that is not empty has a least element.
LEMMA LeastNumber ==
  ASSUME NEW T \in SUBSET Nat, T # {}
  PROVE  \E x \in T : \A y \in T : x <= y
<1> DEFINE R == OpToRel(<, Nat)
<1>1. IsWellFoundedOn(R, Nat)
  BY NatLessThanWellFounded
<1>2. \A x, y \in Nat : <<y, x>> \in R <=> y < x
  BY DEF OpToRel
<1> HIDE DEF R
<1>3. \E x \in T : \A y \in T : ~ (<<y, x>> \in R)
  BY <1>1, WFMin
<1>4. \A x, y \in T : x <= y \/ y < x
  OBVIOUS
<1>5. \A x \in T : x \in Nat
  OBVIOUS
<1> QED
  BY <1>2, <1>3, <1>4, <1>5

\* A set that holds 0 and, with every number, its successor holds NumCPU.
LEMMA UpToNumCPU ==
  ASSUME NEW S, 0 \in S, \A x \in 1 .. NumCPU : x - 1 \in S => x \in S
  PROVE  NumCPU \in S
<1> DEFINE T == (0 .. NumCPU) \ S
<1>1. NumCPU \in Nat
  BY StatsAssumption
<1>2. T = {}
  <2> SUFFICES ASSUME T # {} PROVE FALSE
    OBVIOUS
  <2>1. T \in SUBSET Nat
    BY <1>1
  <2>2. PICK x \in T : \A y \in T : x <= y
    BY <2>1, LeastNumber
  <2>3. x \in 1 .. NumCPU /\ x - 1 \in 0 .. NumCPU /\ ~ (x <= x - 1)
    BY <1>1
  <2>4. x - 1 \in S
    BY <2>2, <2>3
  <2> QED
    BY <2>3, <2>4
<1> QED
  BY <1>1, <1>2

\* g holds the sums of the first 0, 1, ..., m elements of f.
Adds(f, g, m) == g[0] = 0 /\ \A n \in 1 .. m : g[n] = g[n - 1] + f[n - 1]

\* There are such sums for every m up to the number of CPUs.
LEMMA SumsExist ==
  ASSUME NEW f \in [CPUs -> Nat]
  PROVE  \E g \in [0 .. NumCPU -> Nat] : Adds(f, g, NumCPU)
<1> DEFINE Has(m) == \E g \in [0 .. m -> Nat] : Adds(f, g, m)
<1>1. NumCPU \in Nat /\ NumCPU > 0
  BY StatsAssumption
<1>2. Has(0)
  <2>1. [i \in 0 .. 0 |-> 0] \in [0 .. 0 -> Nat] /\ Adds(f, [i \in 0 .. 0 |-> 0], 0)
    BY DEF Adds
  <2> QED
    BY <2>1
<1>3. ASSUME NEW x \in 1 .. NumCPU, Has(x - 1)
      PROVE  Has(x)
  <2>1. PICK g \in [0 .. x - 1 -> Nat] : Adds(f, g, x - 1)
    BY <1>3
  <2>2. x \in Nat /\ x >= 1 /\ x - 1 \in 0 .. x - 1 /\ f[x - 1] \in Nat /\ g[x - 1] \in Nat
    BY <1>1 DEF CPUs
  <2> DEFINE h == [n \in 0 .. x |-> IF n = x THEN g[x - 1] + f[x - 1] ELSE g[n]]
  <2>3. h \in [0 .. x -> Nat]
    BY <2>2
  <2>4. h[0] = 0
    BY <2>1, <2>2 DEF Adds
  <2>5. ASSUME NEW n \in 1 .. x
        PROVE  h[n] = h[n - 1] + f[n - 1]
    <3>1. CASE n = x
      BY <2>2, <3>1
    <3>2. CASE n # x
      <4>1. n \in 1 .. x - 1 /\ n - 1 \in 0 .. x - 1 /\ n - 1 # x /\ n \in 0 .. x /\ n - 1 \in 0 .. x
        BY <2>2, <3>2
      <4> QED
        BY <2>1, <3>2, <4>1 DEF Adds
    <3> QED
      BY <3>1, <3>2
  <2>6. Adds(f, h, x)
    BY <2>4, <2>5 DEF Adds
  <2> QED
    BY <2>3, <2>6
<1> HIDE DEF Has
<1> DEFINE S == {m \in 0 .. NumCPU : Has(m)}
<1>4. 0 \in S /\ \A x \in 1 .. NumCPU : x - 1 \in S => x \in S
  <2>1. \A x \in 1 .. NumCPU : x - 1 \in 0 .. NumCPU /\ x \in 0 .. NumCPU
    BY <1>1
  <2>2. 0 \in 0 .. NumCPU
    BY <1>1
  <2> QED
    BY <1>2, <1>3, <2>1, <2>2
<1> HIDE DEF S
<1>5. NumCPU \in S
  BY <1>4, UpToNumCPU
<1> QED
  BY <1>5 DEF Has, S

\* The recursive function of the model is these sums.
LEMMA PrefixAdds ==
  ASSUME NEW f \in [CPUs -> Nat]
  PROVE  Adds(f, Prefix(f), NumCPU)
<1>1. NumCPU \in Nat
  BY StatsAssumption
<1>2. PICK g \in [0 .. NumCPU -> Nat] : Adds(f, g, NumCPU)
  BY SumsExist
<1>3. g = [n \in 0 .. NumCPU |-> IF n = 0 THEN 0 ELSE g[n - 1] + f[n - 1]]
  BY <1>1, <1>2 DEF Adds
<1>4. Prefix(f) = [n \in 0 .. NumCPU |-> IF n = 0 THEN 0 ELSE Prefix(f)[n - 1] + f[n - 1]]
  BY <1>3 DEF Prefix
<1> DEFINE p == Prefix(f)
<1> HIDE DEF p
<1>5. p = [n \in 0 .. NumCPU |-> IF n = 0 THEN 0 ELSE p[n - 1] + f[n - 1]]
  BY <1>4 DEF p
<1>6. p[0] = 0
  BY <1>1, <1>5
<1>7. \A n \in 1 .. NumCPU : p[n] = p[n - 1] + f[n - 1]
  BY <1>1, <1>5
<1> QED
  BY <1>6, <1>7 DEF Adds, p

\* A sum of larger numbers is larger, at every length.
LEMMA SumsGrow ==
  ASSUME NEW f \in [CPUs -> Nat], NEW g \in [CPUs -> Nat], \A c \in CPUs : f[c] <= g[c]
  PROVE  /\ Prefix(f)[NumCPU] \in Nat
         /\ Prefix(g)[NumCPU] \in Nat
         /\ Prefix(f)[NumCPU] <= Prefix(g)[NumCPU]
<1> DEFINE p == Prefix(f)
           q == Prefix(g)
           Ok(m) == p[m] \in Nat /\ q[m] \in Nat /\ p[m] <= q[m]
<1>1. NumCPU \in Nat
  BY StatsAssumption
<1>2. Adds(f, p, NumCPU) /\ Adds(g, q, NumCPU)
  BY PrefixAdds
<1> HIDE DEF p, q
<1>3. Ok(0)
  BY <1>2 DEF Adds
<1>4. ASSUME NEW x \in 1 .. NumCPU, Ok(x - 1)
      PROVE  Ok(x)
  <2>1. p[x] = p[x - 1] + f[x - 1] /\ q[x] = q[x - 1] + g[x - 1]
    BY <1>2 DEF Adds
  <2>2. x - 1 \in CPUs
    BY <1>1 DEF CPUs
  <2>3. f[x - 1] \in Nat /\ g[x - 1] \in Nat /\ f[x - 1] <= g[x - 1]
    BY <2>2
  <2> QED
    BY <1>4, <2>1, <2>3
<1> HIDE DEF Ok
<1> DEFINE S == {m \in 0 .. NumCPU : Ok(m)}
<1>5. 0 \in S /\ \A x \in 1 .. NumCPU : x - 1 \in S => x \in S
  <2>1. \A x \in 1 .. NumCPU : x - 1 \in 0 .. NumCPU /\ x \in 0 .. NumCPU
    BY <1>1
  <2>2. 0 \in 0 .. NumCPU
    BY <1>1
  <2> QED
    BY <1>3, <1>4, <2>1, <2>2
<1> HIDE DEF S
<1>6. NumCPU \in S
  BY <1>5, UpToNumCPU
<1> QED
  BY <1>6 DEF Ok, S, p, q

\* A sum of numbers below b is below NumCPU times b.
LEMMA SumsBounded ==
  ASSUME NEW f \in [CPUs -> Nat], NEW b \in Nat, \A c \in CPUs : f[c] <= b
  PROVE  Prefix(f)[NumCPU] \in Nat /\ Prefix(f)[NumCPU] <= NumCPU * b
<1> DEFINE p == Prefix(f)
           Ok(m) == p[m] \in Nat /\ p[m] <= m * b
<1>1. NumCPU \in Nat
  BY StatsAssumption
<1>2. Adds(f, p, NumCPU)
  BY PrefixAdds
<1> HIDE DEF p
<1>3. Ok(0)
  BY <1>2 DEF Adds
<1>4. ASSUME NEW x \in 1 .. NumCPU, Ok(x - 1)
      PROVE  Ok(x)
  <2>1. p[x] = p[x - 1] + f[x - 1]
    BY <1>2 DEF Adds
  <2>2. x - 1 \in CPUs
    BY <1>1 DEF CPUs
  <2>3. f[x - 1] \in Nat /\ f[x - 1] <= b
    BY <2>2
  <2>4. x * b = (x - 1) * b + b
    BY <1>1
  <2>5. (x - 1) * b \in Nat
    BY <1>1
  <2> QED
    BY <1>4, <2>1, <2>3, <2>4, <2>5
<1> HIDE DEF Ok
<1> DEFINE S == {m \in 0 .. NumCPU : Ok(m)}
<1>5. 0 \in S /\ \A x \in 1 .. NumCPU : x - 1 \in S => x \in S
  <2>1. \A x \in 1 .. NumCPU : x - 1 \in 0 .. NumCPU /\ x \in 0 .. NumCPU
    BY <1>1
  <2>2. 0 \in 0 .. NumCPU
    BY <1>1
  <2> QED
    BY <1>3, <1>4, <2>1, <2>2
<1> HIDE DEF S
<1>6. NumCPU \in S
  BY <1>5, UpToNumCPU
<1> QED
  BY <1>6 DEF Ok, S, p

-----------------------------------------------------------------------------
(* The totals of the counters.                                             *)

\* A sum over the CPUs is again a pair of counters.
LEMMA SumOfType ==
  ASSUME NEW r \in [CPUs -> datarec]
  PROVE  SumOf(r) \in datarec
<1>1. CounterMod \in Nat \ {0}
  <2>1. NumCPU * FrameBound * FrameLen \in Nat
    BY StatsAssumption
  <2> QED
    BY <2>1, StatsAssumption
<1>2. ASSUME NEW w \in Words
      PROVE  Prefix([c \in CPUs |-> r[c][w]])[NumCPU] % CounterMod \in Nat
  <2>1. [c \in CPUs |-> r[c][w]] \in [CPUs -> Nat]
    BY DEF datarec
  <2>2. \A c \in CPUs : [d \in CPUs |-> r[d][w]][c] <= [d \in CPUs |-> r[d][w]][c]
    BY <2>1
  <2>3. Prefix([c \in CPUs |-> r[c][w]])[NumCPU] \in Nat
    BY <2>1, <2>2, SumsGrow
  <2> QED
    BY <1>1, <2>3
<1> QED
  BY <1>2 DEF SumOf, datarec

\* Smaller counters have a smaller total, as long as no total can wrap.
LEMMA SumOfGrows ==
  ASSUME NEW r \in [CPUs -> datarec], NEW s \in [CPUs -> datarec], NEW w \in Words,
         \A c \in CPUs : r[c][w] <= s[c][w] /\ s[c][w] <= FrameBound * FrameLen
  PROVE  SumOf(r)[w] <= SumOf(s)[w] /\ SumOf(s)[w] < CounterMod
<1> DEFINE f == [c \in CPUs |-> r[c][w]]
           g == [c \in CPUs |-> s[c][w]]
<1>1. f \in [CPUs -> Nat] /\ g \in [CPUs -> Nat] /\ \A c \in CPUs : f[c] <= g[c]
  BY DEF datarec
<1>2. FrameBound * FrameLen \in Nat /\ \A c \in CPUs : g[c] <= FrameBound * FrameLen
  BY StatsAssumption
<1>3. SumOf(r)[w] = Prefix(f)[NumCPU] % CounterMod /\ SumOf(s)[w] = Prefix(g)[NumCPU] % CounterMod
  BY DEF SumOf
<1> HIDE DEF f, g
<1>4. /\ Prefix(f)[NumCPU] \in Nat /\ Prefix(g)[NumCPU] \in Nat
      /\ Prefix(f)[NumCPU] <= Prefix(g)[NumCPU]
  BY <1>1, SumsGrow
<1>5. Prefix(g)[NumCPU] <= NumCPU * (FrameBound * FrameLen)
  BY <1>1, <1>2, SumsBounded
<1>6. NumCPU * (FrameBound * FrameLen) = NumCPU * FrameBound * FrameLen
  BY StatsAssumption
<1>7. Prefix(g)[NumCPU] < CounterMod /\ CounterMod \in Nat
  <2>1. NumCPU * FrameBound * FrameLen \in Nat
    BY StatsAssumption
  <2> QED
    BY <1>4, <1>5, <1>6, <2>1, StatsAssumption
<1>8. /\ Prefix(f)[NumCPU] % CounterMod = Prefix(f)[NumCPU]
      /\ Prefix(g)[NumCPU] % CounterMod = Prefix(g)[NumCPU]
  BY <1>4, <1>7
<1> QED
  BY <1>3, <1>4, <1>7, <1>8

\* If b is short of k times f by k at most on each CPU, its sum is short of k times that
\* of f by k for each CPU at most.
LEMMA SumsShort ==
  ASSUME NEW f \in [CPUs -> Nat], NEW b \in [CPUs -> Nat], NEW k \in Nat,
         \A c \in CPUs : k * (f[c] - 1) <= b[c]
  PROVE  k * (Prefix(f)[NumCPU] - NumCPU) <= Prefix(b)[NumCPU]
<1> DEFINE p == Prefix(f)
           q == Prefix(b)
           Ok(m) == p[m] \in Nat /\ q[m] \in Nat /\ k * (p[m] - m) <= q[m]
<1>1. NumCPU \in Nat
  BY StatsAssumption
<1>2. Adds(f, p, NumCPU) /\ Adds(b, q, NumCPU)
  BY PrefixAdds
<1> HIDE DEF p, q
<1>3. Ok(0)
  <2>1. p[0] = 0 /\ q[0] = 0
    BY <1>2 DEF Adds
  <2>2. k * (0 - 0) = 0
    OBVIOUS
  <2> QED
    BY <2>1, <2>2
<1>4. ASSUME NEW x \in 1 .. NumCPU, Ok(x - 1)
      PROVE  Ok(x)
  <2>1. p[x] = p[x - 1] + f[x - 1] /\ q[x] = q[x - 1] + b[x - 1]
    BY <1>2 DEF Adds
  <2>2. x - 1 \in CPUs /\ x \in Int
    BY <1>1 DEF CPUs
  <2>3. f[x - 1] \in Nat /\ b[x - 1] \in Nat /\ k * (f[x - 1] - 1) <= b[x - 1]
    BY <2>2
  <2>4. p[x - 1] \in Nat /\ q[x - 1] \in Nat /\ k * (p[x - 1] - (x - 1)) <= q[x - 1]
    BY <1>4
  <2>5. ASSUME NEW m \in Int, NEW n \in Int
        PROVE  k * m + k * n = k * (m + n) /\ k * m \in Int /\ k * n \in Int
    OBVIOUS
  <2>6. /\ k * (p[x - 1] - (x - 1)) + k * (f[x - 1] - 1)
            = k * ((p[x - 1] - (x - 1)) + (f[x - 1] - 1))
        /\ k * (p[x - 1] - (x - 1)) \in Int /\ k * (f[x - 1] - 1) \in Int
    BY <2>2, <2>3, <2>4, <2>5
  <2>7. p[x] - x = (p[x - 1] - (x - 1)) + (f[x - 1] - 1)
    <3>1. \A m, n, i \in Int : (m + n) - i = (m - (i - 1)) + (n - 1)
      OBVIOUS
    <3>2. p[x - 1] \in Int /\ f[x - 1] \in Int
      BY <2>3, <2>4
    <3>3. (p[x - 1] + f[x - 1]) - x = (p[x - 1] - (x - 1)) + (f[x - 1] - 1)
      BY ONLY <2>2, <3>1, <3>2
    <3> QED
      BY ONLY <2>1, <3>3
  <2>8. k * (p[x] - x) = k * (p[x - 1] - (x - 1)) + k * (f[x - 1] - 1)
    BY <2>6, <2>7
  <2>9. k * (p[x] - x) <= q[x]
    BY <2>1, <2>3, <2>4, <2>6, <2>8
  <2> QED
    BY <2>1, <2>3, <2>4, <2>9
<1> HIDE DEF Ok
<1> DEFINE S == {m \in 0 .. NumCPU : Ok(m)}
<1>5. 0 \in S /\ \A x \in 1 .. NumCPU : x - 1 \in S => x \in S
  <2>1. \A x \in 1 .. NumCPU : x - 1 \in 0 .. NumCPU /\ x \in 0 .. NumCPU
    BY <1>1
  <2>2. 0 \in 0 .. NumCPU
    BY <1>1
  <2> QED
    BY <1>3, <1>4, <2>1, <2>2
<1> HIDE DEF S
<1>6. NumCPU \in S
  BY <1>5, UpToNumCPU
<1> QED
  BY <1>6 DEF Ok, S, p, q

\* A total that cannot wrap is the sum.
LEMMA TotalIsSum ==
  ASSUME NEW r \in [CPUs -> datarec], NEW w \in Words,
         \A c \in CPUs : r[c][w] <= FrameBound * FrameLen
  PROVE  SumOf(r)[w] = Prefix([c \in CPUs |-> r[c][w]])[NumCPU]
<1> DEFINE f == [c \in CPUs |-> r[c][w]]
<1>1. f \in [CPUs -> Nat] /\ \A c \in CPUs : f[c] <= FrameBound * FrameLen
  BY DEF datarec
<1>2. FrameBound * FrameLen \in Nat /\ NumCPU * FrameBound * FrameLen \in Nat
      /\ NumCPU * (FrameBound * FrameLen) = NumCPU * FrameBound * FrameLen
  BY StatsAssumption
<1>3. SumOf(r)[w] = Prefix(f)[NumCPU] % CounterMod
  BY DEF SumOf
<1> HIDE DEF f
<1>4. Prefix(f)[NumCPU] \in Nat /\ Prefix(f)[NumCPU] <= NumCPU * (FrameBound * FrameLen)
  BY <1>1, <1>2, SumsBounded
<1>5. Prefix(f)[NumCPU] < CounterMod /\ CounterMod \in Nat
  BY <1>2, <1>4, StatsAssumption
<1> QED
  BY <1>3, <1>4, <1>5 DEF f

\* Counters that agree are within the bound that keeps the totals from wrapping.
LEMMA RecordBounded ==
  ASSUME NEW n \in Nat, n <= FrameBound, NEW b \in {FrameLen * n, FrameLen * (n - 1)}
  PROVE  n <= FrameBound * FrameLen /\ b <= FrameBound * FrameLen
<1>1. FrameLen \in Nat /\ FrameLen >= 1 /\ FrameBound \in Nat
  BY StatsAssumption
<1>2. /\ n <= FrameBound * FrameLen
      /\ FrameLen * n <= FrameBound * FrameLen
      /\ FrameLen * (n - 1) <= FrameLen * n
  BY <1>1
<1> QED
  BY <1>1, <1>2

\* Every counter of every CPU is.
LEMMA CountersBounded ==
  ASSUME TypeOK, CountersInv, NEW c \in CPUs, NEW w \in Words
  PROVE  stats_map[c][w] <= FrameBound * FrameLen
<1> DEFINE n == stats_map[c]["rx_packets"]
           b == stats_map[c]["rx_bytes"]
<1>1. n \in Nat /\ n <= FrameBound
  BY DEF TypeOK, CountersInv, datarec, Words
<1>2. n - 0 = n
  BY <1>1
<1>3. b \in {FrameLen * n, FrameLen * (n - 1)}
  BY <1>2 DEF CountersInv
<1> HIDE DEF n, b
<1>4. n <= FrameBound * FrameLen /\ b <= FrameBound * FrameLen
  BY <1>1, <1>3, RecordBounded
<1> QED
  BY <1>4 DEF n, b, Words

-----------------------------------------------------------------------------
(* Types and the counters.                                                 *)

\* Every step keeps the types.
LEMMA TypesKept ==
  ASSUME TypeOK, [Next]_statsVars
  PROVE  TypeOK'
<1> USE DEF TypeOK, kernelVars, envVars
<1>1. ASSUME NEW c \in CPUs, count_packet(c) \/ count_bytes(c)
      PROVE  TypeOK'
  <2>1. \A w \in Words : stats_map[c][w] + 1 \in Nat /\ stats_map[c][w] + FrameLen \in Nat
    BY StatsAssumption DEF datarec
  <2>2. stats_map' \in [CPUs -> datarec]
    BY <1>1, <2>1 DEF count_packet, count_bytes, datarec, Words
  <2> QED
    BY <1>1, <2>2 DEF count_packet, count_bytes
<1>2. CASE tick
  BY <1>2 DEF tick
<1>3. CASE lookup_word
  <2>1. PICK c \in CPUs, w \in Words :
          /\ recs' = [recs EXCEPT ![c][w] = stats_map[c][w]]
          /\ copied' = copied \cup {<<c, w>>}
          /\ spc' \in {"sum", "lookup"}
    BY <1>3 DEF lookup_word
  <2>2. recs' \in [CPUs -> datarec]
    BY <2>1 DEF datarec
  <2> QED
    BY <1>3, <2>1, <2>2 DEF lookup_word
<1>4. CASE lookup_failed
  BY <1>4 DEF lookup_failed
<1>5. CASE print_rate
  <2>1. SumOf(recs) \in datarec /\ SumOf(start) \in datarec
    BY SumOfType
  <2>2. CounterMod \in Nat /\ CounterMod > 0
    <3>1. NumCPU * FrameBound * FrameLen \in Nat
      BY StatsAssumption
    <3> QED
      BY <3>1, StatsAssumption
  <2>3. ASSUME NEW w \in Words
        PROVE  reported[w] + ((SumOf(recs)[w] - prev[w]) % CounterMod) \in Nat
    <3>1. reported[w] \in Nat /\ SumOf(recs)[w] \in Nat /\ prev[w] \in Nat
      BY <2>1 DEF datarec
    <3>2. SumOf(recs)[w] - prev[w] \in Int
      BY <3>1
    <3>3. (SumOf(recs)[w] - prev[w]) % CounterMod \in Nat
      BY <2>2, <3>2
    <3> QED
      BY <3>1, <3>3
  <2>4. reported' \in datarec
    BY <1>5, <2>3 DEF print_rate, datarec
  <2> QED
    BY <1>5, <2>1, <2>4 DEF print_rate
<1>6. CASE return \/ cancel \/ close_map \/ UNCHANGED statsVars
  BY <1>6 DEF return, cancel, close_map, statsVars
<1> QED
  BY <1>1, <1>2, <1>3, <1>4, <1>5, <1>6 DEF Next, Step

\* Only the program changes the counters.
LEMMA OthersKeepCounters ==
  ASSUME tick \/ Step \/ return \/ cancel \/ close_map \/ UNCHANGED statsVars
  PROVE  UNCHANGED <<stats_map, counting>>
BY DEF tick, Step, lookup_word, lookup_failed, print_rate, return, cancel, close_map,
       statsVars, kernelVars

\* Every step keeps the counters in agreement, and lets none of them fall.
LEMMA CountersKept ==
  ASSUME TypeOK, CountersInv, [Next]_statsVars
  PROVE  CountersInv' /\ \A c \in CPUs, w \in Words : stats_map[c][w] <= stats_map'[c][w]
<1> DEFINE Up == \A c \in CPUs, w \in Words : stats_map[c][w] <= stats_map'[c][w]
<1>0. \A c \in CPUs, w \in Words : stats_map[c][w] \in Nat
  BY DEF TypeOK, datarec
<1>1. ASSUME NEW c \in CPUs, count_packet(c)
      PROVE  CountersInv' /\ Up
  <2>1. /\ stats_map'[c]["rx_packets"] = stats_map[c]["rx_packets"] + 1
        /\ stats_map'[c]["rx_bytes"] = stats_map[c]["rx_bytes"]
        /\ \A d \in CPUs \ {c} : stats_map'[d] = stats_map[d]
        /\ stats_map[c]["rx_packets"] < FrameBound
        /\ c \notin counting /\ counting' = counting \cup {c}
    BY <1>1 DEF count_packet, TypeOK, datarec, Words
  <2>2. stats_map[c]["rx_packets"] \in Nat /\ FrameBound \in Nat /\ FrameLen \in Nat
    BY <1>0, StatsAssumption DEF Words
  <2>3. stats_map[c]["rx_packets"] + 1 - 1 = stats_map[c]["rx_packets"] - 0
    BY <2>2
  <2>4. CountersInv'
    <3> SUFFICES ASSUME NEW d \in CPUs
                 PROVE  /\ stats_map'[d]["rx_packets"] <= FrameBound
                        /\ stats_map'[d]["rx_bytes"] = FrameLen * (stats_map'[d]["rx_packets"]
                                                        - (IF d \in counting' THEN 1 ELSE 0))
                        /\ d \in counting' => stats_map'[d]["rx_packets"] > 0
      BY DEF CountersInv
    <3>1. CASE d = c
      BY <2>1, <2>2, <2>3, <3>1 DEF CountersInv
    <3>2. CASE d # c
      BY <2>1, <3>2 DEF CountersInv
    <3> QED
      BY <3>1, <3>2
  <2> QED
    BY <1>0, <2>1, <2>4 DEF Words
<1>2. ASSUME NEW c \in CPUs, count_bytes(c)
      PROVE  CountersInv' /\ Up
  <2>1. /\ stats_map'[c]["rx_packets"] = stats_map[c]["rx_packets"]
        /\ stats_map'[c]["rx_bytes"] = stats_map[c]["rx_bytes"] + FrameLen
        /\ \A d \in CPUs \ {c} : stats_map'[d] = stats_map[d]
        /\ c \in counting /\ counting' = counting \ {c}
    BY <1>2 DEF count_bytes, TypeOK, datarec, Words
  <2>2. stats_map[c]["rx_packets"] \in Nat /\ stats_map[c]["rx_bytes"] \in Nat
        /\ FrameLen \in Nat
    BY <1>0, StatsAssumption DEF Words
  <2>3. FrameLen * (stats_map[c]["rx_packets"] - 1) + FrameLen
          = FrameLen * (stats_map[c]["rx_packets"] - 0)
    BY <2>2
  <2>4. CountersInv'
    <3> SUFFICES ASSUME NEW d \in CPUs
                 PROVE  /\ stats_map'[d]["rx_packets"] <= FrameBound
                        /\ stats_map'[d]["rx_bytes"] = FrameLen * (stats_map'[d]["rx_packets"]
                                                        - (IF d \in counting' THEN 1 ELSE 0))
                        /\ d \in counting' => stats_map'[d]["rx_packets"] > 0
      BY DEF CountersInv
    <3>1. CASE d = c
      BY <2>1, <2>2, <2>3, <3>1 DEF CountersInv
    <3>2. CASE d # c
      BY <2>1, <3>2 DEF CountersInv
    <3> QED
      BY <3>1, <3>2
  <2> QED
    BY <1>0, <2>1, <2>2, <2>4 DEF Words
<1>3. CASE UNCHANGED <<stats_map, counting>>
  BY <1>0, <1>3 DEF CountersInv
<1> QED
  BY <1>1, <1>2, <1>3, OthersKeepCounters DEF Next

-----------------------------------------------------------------------------
(* The copy.                                                               *)

\* A product grows with its factor.
LEMMA Product ==
  ASSUME NEW k \in Nat, NEW a \in Int, NEW b \in Int, a <= b
  PROVE  k * a <= k * b
OBVIOUS

\* The bytes a CPU has counted are one frame short of its packets at most.
LEMMA BytesFollow ==
  ASSUME TypeOK, CountersInv, NEW c \in CPUs
  PROVE  stats_map[c]["rx_bytes"] >= FrameLen * (stats_map[c]["rx_packets"] - 1)
<1>1. stats_map[c]["rx_packets"] \in Nat /\ FrameLen \in Nat
  BY StatsAssumption DEF TypeOK, datarec, Words
<1>2. /\ FrameLen * (stats_map[c]["rx_packets"] - 1) <= FrameLen * (stats_map[c]["rx_packets"] - 0)
      /\ FrameLen * (stats_map[c]["rx_packets"] - 1) \in Int
  BY <1>1, Product
<1> QED
  BY <1>1, <1>2 DEF CountersInv

\* Every step keeps what is known of the words that were copied.
LEMMA CopyKept ==
  ASSUME TypeOK, CountersInv, CopyInv, [Next]_statsVars
  PROVE  CopyInv'
<1>1. \A c \in CPUs, w \in Words : stats_map[c][w] <= stats_map'[c][w]
  BY CountersKept
<1>2. \A c \in CPUs, w \in Words :
        stats_map[c][w] \in Nat /\ recs[c][w] \in Nat /\ start[c][w] \in Nat
  BY DEF TypeOK, datarec
<1>3. "rx_bytes" \in Words /\ "rx_packets" \in Words
  BY DEF Words
<1>4. ASSUME NEW c \in CPUs, count_packet(c) \/ count_bytes(c)
      PROVE  CopyInv'
  <2>1. UNCHANGED <<spc, copied, recs, start>>
    BY <1>4 DEF count_packet, count_bytes
  <2>2. \A d \in CPUs, w \in Words : stats_map'[d][w] \in Nat
    BY TypesKept DEF TypeOK, datarec
  <2> QED
    BY <1>1, <1>2, <2>1, <2>2 DEF CopyInv
<1>5. CASE tick
  BY <1>2, <1>5 DEF tick, CopyInv, kernelVars
<1>6. CASE lookup_word
  <2>1. PICK c \in CPUs, w \in Words :
          /\ NextWord(c, w)
          /\ recs' = [recs EXCEPT ![c][w] = stats_map[c][w]]
          /\ copied' = copied \cup {<<c, w>>}
          /\ spc' = IF copied' = CPUs \X Words THEN "sum" ELSE "lookup"
    BY <1>6 DEF lookup_word
  <2>2. spc = "lookup" /\ UNCHANGED <<stats_map, start>>
    BY <1>6 DEF lookup_word, kernelVars
  <2>3. \A d \in CPUs, v \in Words :
          recs'[d][v] = IF d = c /\ v = w THEN stats_map[c][w] ELSE recs[d][v]
    BY <2>1 DEF TypeOK, datarec
  <2>4. \A d \in CPUs, v \in Words :
          <<d, v>> \in copied' <=> <<d, v>> \in copied \/ (d = c /\ v = w)
    BY <2>1
  <2>5. <<c, "rx_bytes">> \notin copied /\ (w = "rx_bytes" => <<c, "rx_packets">> \in copied)
    BY <1>3, <2>1, <2>2 DEF NextWord, CopyInv, Words
  <2>6. ASSUME NEW d \in CPUs, NEW v \in Words
        PROVE  /\ start'[d][v] <= stats_map'[d][v]
               /\ <<d, v>> \in copied' =>
                    start'[d][v] <= recs'[d][v] /\ recs'[d][v] <= stats_map'[d][v]
    <3>1. /\ start[d][v] <= stats_map[d][v]
          /\ <<d, v>> \in copied => start[d][v] <= recs[d][v] /\ recs[d][v] <= stats_map[d][v]
      BY <2>2 DEF CopyInv
    <3>2. start'[d][v] = start[d][v] /\ stats_map'[d][v] = stats_map[d][v]
      BY <2>2
    <3>3. CASE d = c /\ v = w
      <4>1. recs'[d][v] = stats_map[d][v] /\ stats_map[d][v] \in Nat
        BY <1>2, <2>3, <3>3
      <4> QED
        BY <3>1, <3>2, <4>1
    <3>4. CASE ~ (d = c /\ v = w)
      <4>1. recs'[d][v] = recs[d][v] /\ (<<d, v>> \in copied' => <<d, v>> \in copied)
        BY <2>3, <2>4, <3>4
      <4> QED
        BY <3>1, <3>2, <4>1
    <3> QED
      BY <3>3, <3>4
  <2>7. ASSUME NEW d \in CPUs, <<d, "rx_bytes">> \in copied'
        PROVE  /\ <<d, "rx_packets">> \in copied'
               /\ recs'[d]["rx_bytes"] >= FrameLen * (recs'[d]["rx_packets"] - 1)
    <3>1. CASE d # c
      BY <1>3, <2>2, <2>3, <2>4, <2>7, <3>1 DEF CopyInv
    <3>2. CASE d = c
      <4>1. w = "rx_bytes" /\ <<c, "rx_packets">> \in copied
        BY <1>3, <2>4, <2>5, <2>7, <3>2
      <4>2. recs'[c]["rx_bytes"] = stats_map[c]["rx_bytes"]
            /\ recs'[c]["rx_packets"] = recs[c]["rx_packets"]
        BY <1>3, <2>3, <4>1
      <4>3. recs[c]["rx_packets"] <= stats_map[c]["rx_packets"]
        BY <1>3, <2>2, <4>1 DEF CopyInv
      <4>4. recs[c]["rx_packets"] - 1 \in Int /\ stats_map[c]["rx_packets"] - 1 \in Int
            /\ recs[c]["rx_packets"] - 1 <= stats_map[c]["rx_packets"] - 1
            /\ FrameLen \in Nat /\ stats_map[c]["rx_bytes"] \in Nat
        BY <1>2, <1>3, <4>3, StatsAssumption
      <4>5. FrameLen * (recs[c]["rx_packets"] - 1) <= FrameLen * (stats_map[c]["rx_packets"] - 1)
        BY <4>4, Product
      <4>6. stats_map[c]["rx_bytes"] >= FrameLen * (stats_map[c]["rx_packets"] - 1)
        BY BytesFollow
      <4>7. stats_map[c]["rx_bytes"] >= FrameLen * (recs[c]["rx_packets"] - 1)
        BY <4>4, <4>5, <4>6
      <4> QED
        BY <1>3, <2>4, <3>2, <4>1, <4>2, <4>7
    <3> QED
      BY <3>1, <3>2
  <2>8. spc' = "sum" => copied' = CPUs \X Words
    BY <2>1
  <2> QED
    BY <2>6, <2>7, <2>8 DEF CopyInv
<1>7. CASE lookup_failed \/ print_rate \/ return
  <2>1. spc' \in {"select", "returned"}
    BY <1>7 DEF lookup_failed, print_rate, return
  <2> QED
    BY <2>1 DEF CopyInv
<1>8. CASE cancel \/ close_map \/ UNCHANGED statsVars
  <2>1. UNCHANGED <<stats_map, spc, copied, recs, start>>
    BY <1>8 DEF cancel, close_map, statsVars, kernelVars
  <2> QED
    BY <2>1 DEF CopyInv
<1> QED
  BY <1>4, <1>5, <1>6, <1>7, <1>8 DEF Next, Step

-----------------------------------------------------------------------------
(* What was printed.                                                       *)

\* When the copy is complete the sums of the code lie between the totals at the start
\* of the lookup and the totals now.
LEMMA CopiedSums ==
  ASSUME TypeOK, CountersInv, CopyInv, spc = "sum", NEW w \in Words
  PROVE  SumOf(start)[w] <= SumOf(recs)[w] /\ SumOf(recs)[w] <= SumOf(stats_map)[w]
         /\ SumOf(recs)[w] < CounterMod
<1>1. /\ stats_map \in [CPUs -> datarec]
      /\ recs \in [CPUs -> datarec]
      /\ start \in [CPUs -> datarec]
  BY DEF TypeOK
<1>2. \A c \in CPUs : /\ start[c][w] <= recs[c][w]
                      /\ recs[c][w] <= stats_map[c][w]
                      /\ stats_map[c][w] <= FrameBound * FrameLen
  BY CountersBounded DEF CopyInv
<1>3. \A c \in CPUs : recs[c][w] \in Nat /\ stats_map[c][w] \in Nat /\ FrameBound * FrameLen \in Nat
  BY <1>1, StatsAssumption DEF datarec
<1>4. \A c \in CPUs : recs[c][w] <= FrameBound * FrameLen
  BY <1>2, <1>3
<1> QED
  BY <1>1, <1>2, <1>4, SumOfGrows

\* And the bytes among them are short of the packets by one frame per CPU at most.
LEMMA CopiedBytes ==
  ASSUME TypeOK, CountersInv, CopyInv, spc = "sum"
  PROVE  SumOf(recs)["rx_bytes"] >= FrameLen * (SumOf(recs)["rx_packets"] - NumCPU)
<1> DEFINE f == [c \in CPUs |-> recs[c]["rx_packets"]]
           b == [c \in CPUs |-> recs[c]["rx_bytes"]]
<1>1. recs \in [CPUs -> datarec] /\ FrameLen \in Nat
  BY StatsAssumption DEF TypeOK
<1>2. f \in [CPUs -> Nat] /\ b \in [CPUs -> Nat]
  BY <1>1 DEF datarec, Words
<1>3. \A c \in CPUs : FrameLen * (f[c] - 1) <= b[c]
  <2> SUFFICES ASSUME NEW c \in CPUs
               PROVE  FrameLen * (recs[c]["rx_packets"] - 1) <= recs[c]["rx_bytes"]
    OBVIOUS
  <2>1. <<c, "rx_bytes">> \in copied
    BY DEF CopyInv, Words
  <2>2. recs[c]["rx_bytes"] >= FrameLen * (recs[c]["rx_packets"] - 1)
    BY <2>1 DEF CopyInv, Words
  <2> QED
    BY <2>2
<1>4. ASSUME NEW c \in CPUs, NEW w \in Words
      PROVE  recs[c][w] <= FrameBound * FrameLen
  <2>1. recs[c][w] <= stats_map[c][w]
    BY DEF CopyInv
  <2>2. stats_map[c][w] <= FrameBound * FrameLen
    BY CountersBounded
  <2>3. recs[c][w] \in Nat /\ stats_map[c][w] \in Nat /\ FrameBound * FrameLen \in Nat
    BY StatsAssumption DEF TypeOK, datarec
  <2> QED
    BY <2>1, <2>2, <2>3
<1>5. SumOf(recs)["rx_bytes"] = Prefix(b)[NumCPU] /\ SumOf(recs)["rx_packets"] = Prefix(f)[NumCPU]
  BY <1>1, <1>4, TotalIsSum DEF Words
<1> HIDE DEF f, b
<1>6. FrameLen * (Prefix(f)[NumCPU] - NumCPU) <= Prefix(b)[NumCPU]
  BY <1>1, <1>2, <1>3, SumsShort
<1> QED
  BY <1>5, <1>6

\* No total ever falls.
LEMMA TotalsGrow ==
  ASSUME TypeOK, CountersInv, [Next]_statsVars, NEW w \in Words
  PROVE  SumOf(stats_map)[w] <= SumOf(stats_map')[w]
<1>1. stats_map \in [CPUs -> datarec] /\ stats_map' \in [CPUs -> datarec]
  BY TypesKept DEF TypeOK
<1>2. \A c \in CPUs : stats_map[c][w] <= stats_map'[c][w]
  BY CountersKept
<1>3. TypeOK' /\ CountersInv'
  BY TypesKept, CountersKept
<1>4. ASSUME NEW c \in CPUs
      PROVE  stats_map'[c][w] <= FrameBound * FrameLen
  <2> DEFINE n == stats_map'[c]["rx_packets"]
             b == stats_map'[c]["rx_bytes"]
  <2>1. n \in Nat /\ n <= FrameBound
    BY <1>3 DEF TypeOK, CountersInv, datarec, Words
  <2>2. n - 0 = n
    BY <2>1
  <2>3. b \in {FrameLen * n, FrameLen * (n - 1)}
    BY <1>3, <2>2 DEF CountersInv
  <2> HIDE DEF n, b
  <2>4. n <= FrameBound * FrameLen /\ b <= FrameBound * FrameLen
    BY <2>1, <2>3, RecordBounded
  <2> QED
    BY <2>4 DEF n, b, Words
<1> QED
  BY <1>1, <1>2, <1>4, SumOfGrows

\* A step that leaves what was printed and the start of the lookup alone, or begins a
\* lookup, keeps the totals ahead of the previous sums.
LEMMA OthersKeepPrev ==
  ASSUME TypeOK, CountersInv, PrevInv, [Next]_statsVars,
         UNCHANGED <<prev, reported, floor>>,
         \/ UNCHANGED start /\ (spc' \in {"lookup", "sum"} => spc \in {"lookup", "sum"})
         \/ start' = stats_map
  PROVE  PrevInv'
<1>1. ASSUME NEW w \in Words
      PROVE  SumOf(stats_map)[w] \in Nat /\ SumOf(stats_map')[w] \in Nat /\ prev[w] \in Nat
  <2>1. stats_map \in [CPUs -> datarec] /\ stats_map' \in [CPUs -> datarec] /\ prev \in datarec
    BY TypesKept DEF TypeOK
  <2>2. SumOf(stats_map) \in datarec /\ SumOf(stats_map') \in datarec
    BY <2>1, SumOfType
  <2> QED
    BY <2>1, <2>2 DEF datarec
<1>2. \A w \in Words : SumOf(stats_map)[w] <= SumOf(stats_map')[w]
  BY TotalsGrow
<1>3. ASSUME NEW w \in Words
      PROVE  /\ floor'[w] <= prev'[w]
             /\ prev'[w] <= SumOf(stats_map')[w]
             /\ spc' \in {"lookup", "sum"} => prev'[w] <= SumOf(start')[w]
  BY <1>1, <1>2 DEF PrevInv
<1>4. SumOf(stats_map') = SumOf(stats_map)' /\ SumOf(start') = SumOf(start)'
  BY DEF SumOf
<1> QED
  BY <1>3, <1>4 DEF PrevInv

\* Every step keeps what was printed between the totals.
LEMMA PrevKept ==
  ASSUME TypeOK, CountersInv, CopyInv, PrevInv, [Next]_statsVars
  PROVE  PrevInv'
<1>1. CASE print_rate
  <2>1. /\ spc = "sum" /\ spc' = "select"
        /\ prev' = SumOf(recs) /\ floor' = SumOf(start)
        /\ reported' = [w \in Words |-> reported[w] + ((SumOf(recs)[w] - prev[w]) % CounterMod)]
        /\ UNCHANGED stats_map
    BY <1>1 DEF print_rate, kernelVars
  <2>2. ASSUME NEW w \in Words
        PROVE  /\ SumOf(start)[w] <= SumOf(recs)[w]
               /\ SumOf(recs)[w] <= SumOf(stats_map)[w]
               /\ reported[w] + ((SumOf(recs)[w] - prev[w]) % CounterMod) = SumOf(recs)[w]
    <3>1. /\ SumOf(start)[w] <= SumOf(recs)[w] /\ SumOf(recs)[w] <= SumOf(stats_map)[w]
          /\ SumOf(recs)[w] < CounterMod
      BY <2>1, CopiedSums
    <3>2. /\ SumOf(recs) \in datarec /\ SumOf(start) \in datarec
          /\ prev \in datarec /\ CounterMod \in Nat
      BY SumOfType, StatsAssumption DEF TypeOK
    <3>3. SumOf(recs)[w] \in Nat /\ SumOf(start)[w] \in Nat /\ prev[w] \in Nat
      BY <3>2 DEF datarec
    <3>4. reported[w] = prev[w] /\ prev[w] <= SumOf(start)[w]
      BY <2>1 DEF PrevInv
    <3>5. SumOf(recs)[w] - prev[w] \in 0 .. CounterMod - 1
      BY <3>1, <3>2, <3>3, <3>4
    <3>6. (SumOf(recs)[w] - prev[w]) % CounterMod = SumOf(recs)[w] - prev[w]
      BY <3>2, <3>5
    <3> QED
      BY <3>1, <3>3, <3>4, <3>6
  <2>3. reported' = prev'
    <3>1. SumOf(recs) = [w \in Words |-> SumOf(recs)[w]]
      BY DEF SumOf
    <3> HIDE DEF SumOf
    <3> QED
      BY <2>1, <2>2, <3>1
  <2>4. SumOf(stats_map)' = SumOf(stats_map)
    BY <2>1 DEF SumOf
  <2>5. prev'["rx_bytes"] >= FrameLen * (prev'["rx_packets"] - NumCPU)
    BY <2>1, CopiedBytes
  <2> QED
    BY <2>1, <2>2, <2>3, <2>4, <2>5 DEF PrevInv
<1>2. ASSUME NEW c \in CPUs, count_packet(c) \/ count_bytes(c)
      PROVE  PrevInv'
  BY <1>2, OthersKeepPrev DEF count_packet, count_bytes
<1>3. CASE tick
  BY <1>3, OthersKeepPrev DEF tick
<1>4. CASE lookup_word
  BY <1>4, OthersKeepPrev DEF lookup_word
<1>5. CASE lookup_failed
  BY <1>5, OthersKeepPrev DEF lookup_failed
<1>6. CASE return
  BY <1>6, OthersKeepPrev DEF return
<1>7. CASE cancel \/ close_map \/ UNCHANGED statsVars
  BY <1>7, OthersKeepPrev DEF cancel, close_map, statsVars
<1> QED
  BY <1>1, <1>2, <1>3, <1>4, <1>5, <1>6, <1>7 DEF Next, Step

-----------------------------------------------------------------------------
(* The invariant of every behaviour, and what follows from it.             *)

\* Nothing was counted, copied or printed.
LEMMA InitialInvariant ==
  ASSUME Init
  PROVE  TypeOK /\ StatsInv
<1>1. ZeroRec \in datarec /\ \A w \in Words : ZeroRec[w] = 0
  BY DEF ZeroRec, datarec
<1>2. TypeOK
  BY <1>1 DEF Init, InitRecs, TypeOK
<1>3. CountersInv
  <2>1. FrameLen \in Nat /\ FrameBound \in Nat /\ FrameLen * (0 - 0) = 0
    BY StatsAssumption
  <2> QED
    BY <1>1, <2>1 DEF Init, CountersInv, Words
<1>4. CopyInv
  BY DEF Init, CopyInv
<1>5. PrevInv
  <2>1. SumOf(stats_map) \in datarec
    BY <1>2, SumOfType DEF TypeOK
  <2>2. \A w \in Words : SumOf(stats_map)[w] \in Nat
    BY <2>1 DEF datarec
  <2>3. 0 >= FrameLen * (0 - NumCPU)
    BY StatsAssumption
  <2> QED
    BY <1>1, <2>2, <2>3 DEF Init, PrevInv, Words
<1> QED
  BY <1>2, <1>3, <1>4, <1>5 DEF StatsInv

\* The types, the agreement of the two counters of each CPU, what was copied and what
\* was printed hold together, for any number of CPUs.
THEOREM StatsInvariant == Spec => [](TypeOK /\ StatsInv)
<1>1. Init => TypeOK /\ StatsInv
  BY InitialInvariant
<1>2. TypeOK /\ StatsInv /\ [Next]_statsVars => (TypeOK /\ StatsInv)'
  BY TypesKept, CountersKept, CopyKept, PrevKept DEF StatsInv
<1> QED
  BY <1>1, <1>2, PTL DEF Spec

\* Every variable of the reporter keeps its type.
THEOREM StatsTypeCorrect == Spec => []TypeOK
BY StatsInvariant, PTL

\* The rates printed add up to a total that the counters had between the start of the
\* last lookup and now, for any number of CPUs: nothing is printed twice or lost.
THEOREM RatesAreReal == Spec => []ReportedIsReal
<1>1. PrevInv => ReportedIsReal
  BY DEF PrevInv, ReportedIsReal
<1> QED
  BY <1>1, StatsInvariant, PTL DEF StatsInv

\* All the bytes printed so far are short of all the packets printed so far by one frame
\* per CPU at most, for any number of CPUs.
THEOREM BytesFollowPackets == Spec => []BytesKeepUp
<1>1. PrevInv => BytesKeepUp
  BY DEF PrevInv, BytesKeepUp
<1> QED
  BY <1>1, StatsInvariant, PTL DEF StatsInv
=============================================================================
