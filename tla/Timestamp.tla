----------------------------- MODULE Timestamp -----------------------------
(***************************************************************************)
(* The time of a metric: the host function host_report_metric and the      *)
(* guess parseTimestamp makes of the unit a plugin counts in               *)
(* (pkg/plugin/manager.go).  Instants are nanoseconds since the epoch.     *)
(***************************************************************************)
EXTENDS Integers, Sequences

CONSTANTS
  K,         \* 1000, from one unit to the next
  G,         \* 100: a time in nanoseconds is above the clock's hundredth part
  W,         \* 2^64
  Clocks,    \* what time.Now().UnixNano() may be
  Instants   \* what a plugin may report

ASSUME TimestampAssumption ==
  /\ K \in Nat /\ G \in Nat /\ 0 < G /\ G < K
  /\ W \in Nat /\ W % 2 = 0
  /\ Clocks \subseteq 0 .. W \div 2 - 1
  /\ Instants \subseteq 0 .. W \div 2 - 1

\* Nanoseconds, microseconds, milliseconds, seconds.
Unit == <<1, K, K * K, K * K * K>>
Units == 1 .. 4

VARIABLES
  clock,     \* the host's clock when the plugin reports
  reported,  \* history: the instant and the unit it is reported in
  metric     \* the instants printed

metricVars == <<clock, reported, metric>>

int64(x) == IF x < W \div 2 THEN x ELSE x - W

\* Mutant: the threshold is the clock and not its hundredth part.
IsOrder_clock(ts, i, now) == i = 4 \/ ts > now \div Unit[i]

\* The cases of the switch, the last being the default.
IsOrder(ts, i, now) == i = 4 \/ ts > now \div (G * Unit[i])

\* The first case that holds.
Order(ts, now) ==
  CHOOSE i \in Units : IsOrder(ts, i, now) /\ \A j \in 1 .. i - 1 : ~ IsOrder(ts, j, now)

\* A clock is late enough if no instant of int64 counted in one unit looks like the
\* next finer one: it is after April 1999.
ASSUME ClocksAssumption == \A now \in Clocks : now * K >= (W \div 2) * G

\* The product with the unit is one of uint64, converted to int64; seconds are not
\* multiplied.
parseTimestamp(ts, now) ==
  LET i == Order(ts, now)
  IN IF i = 4 THEN ts * Unit[4] ELSE int64((ts * Unit[i]) % W)

\* The name of the metric may lie outside the memory, and then nothing is printed.
host_report_metric(t, unit) ==
  /\ reported' = {[instant |-> t, unit |-> unit]}
  /\ \/ metric' = {parseTimestamp(t \div Unit[unit], clock)}
     \/ UNCHANGED metric
  /\ UNCHANGED clock

MetricInit == clock \in Clocks /\ reported = {} /\ metric = {}

\* One report (for TLC): the next one depends on nothing of it.
MetricNext == reported = {} /\ \E t \in Instants, unit \in Units : host_report_metric(t, unit)

MetricSpec == MetricInit /\ [][MetricNext]_metricVars

-----------------------------------------------------------------------------
\* Whatever the unit a plugin counts in, an instant more than a second after a
\* hundredth of the clock's and before 2262, which is where int64 ends, is printed as
\* the instant it is, to the precision of that unit: no guess is wrong, and no product
\* is cut.
TimeIsRead ==
  \A r \in reported, time \in metric :
    r.instant > clock \div G + Unit[4] => time = r.instant - (r.instant % Unit[r.unit])
=============================================================================
