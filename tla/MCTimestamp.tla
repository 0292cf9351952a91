---------------------------- MODULE MCTimestamp ----------------------------
(***************************************************************************)
(* An instance of Timestamp with the proportions of the program, scaled to *)
(* the integers of TLC: a unit is ten times the guess (1000 to 100), and   *)
(* int64 ends at five times the clock.                                     *)
(***************************************************************************)
EXTENDS Timestamp

EightMillion == 8388608

MCClocks == {419431, 800000, 799999, 4100000}

\* Every 1234th instant, and those about the thresholds and the end of int64.
MCInstants ==
  {1234 * n : n \in 0 .. 3398}
  \cup UNION {now \div G - 20 .. now \div G + 20 : now \in MCClocks}
  \cup UNION {{now \div G + Unit[4] + n : n \in 0 .. 20} : now \in MCClocks}
  \cup 4194290 .. 4194303
=============================================================================
