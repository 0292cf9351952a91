-------------------------- MODULE Timestamp_proofs --------------------------
(***************************************************************************)
(* With the constants of the code every clock and every instant of 64 bits *)
(* is covered, which TLC cannot reach.                                     *)
(***************************************************************************)
EXTENDS Timestamp, TLAPS

\* The switch takes the first of its cases that holds: if the case of unit u holds and
\* no earlier one does, it is the one.
LEMMA OrderIs ==
  ASSUME NEW ts \in Int, NEW now \in Int, NEW u \in Units,
         IsOrder(ts, u, now), \A j \in 1 .. u - 1 : ~ IsOrder(ts, j, now)
  PROVE  Order(ts, now) = u
<1> DEFINE First(i) == IsOrder(ts, i, now) /\ \A j \in 1 .. i - 1 : ~ IsOrder(ts, j, now)
<1>1. \A i \in Units : First(i) => i = u
  BY DEF Units
<1>2. First(u)
  OBVIOUS
<1> HIDE DEF First
<1>3. u = CHOOSE i \in Units : First(i)
  BY <1>1, <1>2
<1> QED  BY <1>3 DEF Order, First

\* parseTimestamp rounds an instant down to the unit it was counted in.
LEMMA Rounds ==
  ASSUME K = 1000, G = 100, NEW now \in Clocks, NEW t \in Instants, NEW u \in Units,
         t > now \div G + Unit[4]
  PROVE  parseTimestamp(t \div Unit[u], now) = t - (t % Unit[u])
<1> DEFINE ts == t \div Unit[u]
<1>1. /\ now \in Int /\ t \in Int /\ W \in Nat
      /\ 0 <= now /\ 0 <= t /\ t < W \div 2 /\ now * 1000 >= (W \div 2) * 100
  BY TimestampAssumption, ClocksAssumption
<1>2. Unit[1] = 1 /\ Unit[2] = 1000 /\ Unit[3] = 1000000 /\ Unit[4] = 1000000000
  BY DEF Unit
<1>3. t < 10 * now + 10
  BY <1>1
<1>4. ts \in Int /\ 0 <= ts /\ ts * Unit[u] = t - (t % Unit[u]) /\ ts * Unit[u] <= t
  BY <1>1, <1>2 DEF Units
<1>5. IsOrder(ts, u, now)
  BY <1>1, <1>2 DEF Units, IsOrder
<1>6. \A j \in 1 .. u - 1 : ~ IsOrder(ts, j, now)
  BY <1>1, <1>2, <1>3 DEF Units, IsOrder
<1>7. Order(ts, now) = u
  BY <1>1, <1>4, <1>5, <1>6, OrderIs
<1> QED
  BY <1>1, <1>2, <1>4, <1>7 DEF parseTimestamp, int64, Units

\* What is printed was computed from the report, and the report is one the plugin can
\* make.
PrintedIsParsed ==
  /\ clock \in Clocks
  /\ reported = {} => metric = {}
  /\ \A r \in reported :
       /\ r.instant \in Instants /\ r.unit \in Units
       /\ \A time \in metric : time = parseTimestamp(r.instant \div Unit[r.unit], clock)

\* Of every behaviour.
LEMMA PrintedIsParsedInv == MetricSpec => []PrintedIsParsed
<1>1. MetricInit => PrintedIsParsed
  BY DEF MetricInit, PrintedIsParsed
<1>2. PrintedIsParsed /\ [MetricNext]_metricVars => PrintedIsParsed'
  <2> SUFFICES ASSUME PrintedIsParsed, [MetricNext]_metricVars  PROVE PrintedIsParsed'
    OBVIOUS
  <2>1. CASE MetricNext
    <3>1. PICK t \in Instants, unit \in Units : host_report_metric(t, unit)
      BY <2>1 DEF MetricNext
    <3> DEFINE read == parseTimestamp(t \div Unit[unit], clock)
    <3>2. metric' \subseteq {read}
      BY <2>1, <3>1 DEF MetricNext, host_report_metric, PrintedIsParsed
    <3> HIDE DEF read
    <3>3. /\ clock' = clock /\ reported' = {[instant |-> t, unit |-> unit]}
          /\ clock \in Clocks
      BY <3>1 DEF host_report_metric, PrintedIsParsed
    <3>4. \A r \in reported' : r.instant = t /\ r.unit = unit
      BY <3>3
    <3>5. \A time \in metric' : time = parseTimestamp(t \div Unit[unit], clock')
      BY <3>2, <3>3 DEF read
    <3> QED
      BY <3>3, <3>4, <3>5 DEF PrintedIsParsed
  <2>2. CASE UNCHANGED metricVars
    BY <2>2 DEF metricVars, PrintedIsParsed
  <2> QED  BY <2>1, <2>2
<1> QED  BY <1>1, <1>2, PTL DEF MetricSpec

\* With the constants of the code, every instant of 64 bits is printed as what it is,
\* whatever unit it is counted in.
THEOREM TimeIsReadThm ==
  ASSUME K = 1000, G = 100
  PROVE  MetricSpec => []TimeIsRead
<1>1. PrintedIsParsed => TimeIsRead
  BY Rounds DEF PrintedIsParsed, TimeIsRead
<1> QED  BY <1>1, PrintedIsParsedInv, PTL
=============================================================================
