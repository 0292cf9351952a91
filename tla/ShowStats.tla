----------------------------- MODULE ShowStats -----------------------------
(***************************************************************************)
(* The goroutine that prints the rate once a second (pkg/xdperf/stats.go), *)
(* against the program that keeps the counters (src/xdp_prog.c, 67-72).    *)
(*                                                                         *)
(* XdpTx takes a run of the program as one step.  Seen from the CPU of the *)
(* reader it is not: the two counters are written one after the other, and *)
(* the kernel copies stats_map to user space one 64-bit word at a time     *)
(* while every CPU keeps counting.  This module is about that race.        *)
(***************************************************************************)
EXTENDS Integers

CONSTANTS
  NumCPU,      \* ebpf.MustPossibleCPU()
  FrameLen,    \* bytes of every frame that is sent
  CounterMod,  \* the counters are unsigned: 2^64 in the code
  FrameBound   \* bound on the frames counted per CPU (for TLC)

ASSUME StatsAssumption ==
  /\ NumCPU \in Nat \ {0}
  /\ FrameLen \in Nat \ {0}
  /\ FrameBound \in Nat
  /\ CounterMod \in Nat
  /\ CounterMod > NumCPU * FrameBound * FrameLen

CPUs == 0 .. NumCPU - 1
Words == {"rx_packets", "rx_bytes"}
datarec == [Words -> Nat]

VARIABLES
  stats_map,   \* CPU -> datarec
  counting,    \* the CPUs between their two counter updates
  spc,         \* where ShowStats is: select, lookup, sum or returned
  recs,        \* the slice the lookup fills
  copied,      \* the words of it the running lookup has filled
  prev,        \* prevPackets and prevBytes
  ctxDone,     \* the context is cancelled
  mapOpen,     \* StatsMap is open: Xdperf.Close closes it
  floor,       \* history: the totals when the last complete lookup began
  start,       \* history: the counters when the running lookup began
  reported     \* history: the sum of every delta printed

kernelVars == <<stats_map, counting>>
envVars == <<ctxDone, mapOpen>>
statsVars == <<kernelVars, envVars, spc, recs, copied, prev, floor, start, reported>>

ZeroRec == [w \in Words |-> 0]

\* The sum of the first n elements, as the loop over recs builds it.
Prefix(f) ==
  LET sum[n \in 0 .. NumCPU] == IF n = 0 THEN 0 ELSE sum[n - 1] + f[n - 1]
  IN sum

\* A counter summed over all CPUs, unsigned.
SumOf(r) ==
  [w \in Words |-> Prefix([c \in CPUs |-> r[c][w]])[NumCPU] % CounterMod]

\* Mutant: the slice has no room for one of the possible CPUs.
InitRecs_short == [c \in CPUs \ {0} |-> ZeroRec]

\* recs, as it is made.
InitRecs == [c \in CPUs |-> ZeroRec]

Init ==
  /\ stats_map = [c \in CPUs |-> ZeroRec]
  /\ counting = {}
  /\ spc = "select"
  /\ recs = InitRecs
  /\ copied = {}
  /\ prev = ZeroRec
  /\ ctxDone = FALSE
  /\ mapOpen = TRUE
  /\ floor = ZeroRec
  /\ start = [c \in CPUs |-> ZeroRec]
  /\ reported = ZeroRec

-----------------------------------------------------------------------------
(* The program on CPU c.                                                   *)

count_packet(c) ==
  /\ c \notin counting
  /\ stats_map[c]["rx_packets"] < FrameBound
  /\ stats_map' = [stats_map EXCEPT ![c]["rx_packets"] = @ + 1]
  /\ counting' = counting \cup {c}
  /\ UNCHANGED <<envVars, spc, recs, copied, prev, floor, start, reported>>

count_bytes(c) ==
  /\ c \in counting
  /\ stats_map' = [stats_map EXCEPT ![c]["rx_bytes"] = @ + FrameLen]
  /\ counting' = counting \ {c}
  /\ UNCHANGED <<envVars, spc, recs, copied, prev, floor, start, reported>>

-----------------------------------------------------------------------------
(* ShowStats.  The select picks at random when both cases are ready.       *)

\* case <-ticker.C: the lookup begins.
tick ==
  /\ spc = "select"
  /\ spc' = "lookup"
  /\ copied' = {}
  /\ start' = stats_map
  /\ UNCHANGED <<kernelVars, envVars, recs, prev, floor, reported>>

\* The kernel copies the CPUs in order, and of each the packets first.
NextWord(c, w) ==
  /\ <<c, w>> \notin copied
  /\ \A d \in 0 .. c - 1 : {d} \X Words \subseteq copied
  /\ w = "rx_bytes" => <<c, "rx_packets">> \in copied

lookup_word ==
  /\ spc = "lookup"
  /\ mapOpen
  /\ \E c \in CPUs, w \in Words :
       /\ NextWord(c, w)
       /\ recs' = [recs EXCEPT ![c][w] = stats_map[c][w]]
       /\ copied' = copied \cup {<<c, w>>}
       /\ spc' = IF copied' = CPUs \X Words THEN "sum" ELSE "lookup"
  /\ UNCHANGED <<kernelVars, envVars, prev, floor, start, reported>>

\* The lookup returns an error: nothing was unmarshalled, and the loop continues.
lookup_failed ==
  /\ spc = "lookup"
  /\ copied = {}
  /\ spc' = "select"
  /\ UNCHANGED <<kernelVars, envVars, recs, copied, prev, floor, start, reported>>

\* Mutant: the previous sums are not updated.
print_rate_keepPrev ==
  LET sum == SumOf(recs)
  IN /\ spc = "sum"
     /\ reported' = [w \in Words |-> reported[w] + ((sum[w] - prev[w]) % CounterMod)]
     /\ floor' = SumOf(start)
     /\ spc' = "select"
     /\ UNCHANGED <<kernelVars, envVars, recs, copied, prev, start>>

\* Mutant: a second without a packet prints no line.
print_rate_idle ==
  LET sum == SumOf(recs)
  IN /\ spc = "sum"
     /\ reported' = [w \in Words |-> IF sum["rx_packets"] = prev["rx_packets"] THEN reported[w]
                                     ELSE reported[w] + ((sum[w] - prev[w]) % CounterMod)]
     /\ prev' = sum
     /\ floor' = SumOf(start)
     /\ spc' = "select"
     /\ UNCHANGED <<kernelVars, envVars, recs, copied, start>>

\* The deltas, unsigned, are printed, and the sums become the previous ones.
print_rate ==
  LET sum == SumOf(recs)
  IN /\ spc = "sum"
     /\ reported' = [w \in Words |-> reported[w] + ((sum[w] - prev[w]) % CounterMod)]
     /\ prev' = sum
     /\ floor' = SumOf(start)
     /\ spc' = "select"
     /\ UNCHANGED <<kernelVars, envVars, recs, copied, start>>

\* Mutant: a break instead of the return leaves the select and not the loop.
return_break ==
  /\ spc = "select"
  /\ ctxDone
  /\ UNCHANGED statsVars

\* case <-ctx.Done()
return ==
  /\ spc = "select"
  /\ ctxDone
  /\ spc' = "returned"
  /\ UNCHANGED <<kernelVars, envVars, recs, copied, prev, floor, start, reported>>

-----------------------------------------------------------------------------
(* What runTXPacket and Xdperf.Close do to ShowStats; neither waits for it. *)

cancel ==
  /\ ~ ctxDone
  /\ ctxDone' = TRUE
  /\ UNCHANGED <<kernelVars, mapOpen, spc, recs, copied, prev, floor, start, reported>>

\* A system call that has the map pinned completes: it does not see the close.
close_map ==
  /\ ctxDone
  /\ mapOpen
  /\ copied = {} \/ spc # "lookup"
  /\ mapOpen' = FALSE
  /\ UNCHANGED <<kernelVars, ctxDone, spc, recs, copied, prev, floor, start, reported>>

Step == lookup_word \/ lookup_failed \/ print_rate
Next ==
  \/ \E c \in CPUs : count_packet(c) \/ count_bytes(c)
  \/ tick \/ Step \/ return
  \/ cancel \/ close_map

\* A system call ends, and the select that finds both cases ready over and over
\* does not choose the same one for ever.  Nothing makes the program send.
Fairness == WF_statsVars(Step) /\ SF_statsVars(return)

Spec == Init /\ [][Next]_statsVars /\ Fairness

-----------------------------------------------------------------------------
(* Properties                                                              *)

TypeOK ==
  /\ stats_map \in [CPUs -> datarec]
  /\ counting \subseteq CPUs
  /\ spc \in {"select", "lookup", "sum", "returned"}
  /\ recs \in [CPUs -> datarec]
  /\ copied \subseteq CPUs \X Words
  /\ start \in [CPUs -> datarec]
  /\ {prev, floor, reported} \subseteq datarec
  /\ ctxDone \in BOOLEAN
  /\ mapOpen \in BOOLEAN

\* All the rates printed so far add up to a total the counters really had between
\* the start of the last lookup and now: no frame is printed twice, none that was
\* counted before the lookup is missed, and no unsigned difference wraps.
ReportedIsReal ==
  \A w \in Words :
    /\ floor[w] <= reported[w]
    /\ reported[w] <= SumOf(stats_map)[w]

\* However the lookups and the counting interleave, all the bytes printed so far are
\* those of all the packets printed so far, short of one frame per CPU at most.  This is
\* no claim about a single line: what one prints early or late the next makes up for,
\* so a line may show packets and no bytes.
BytesKeepUp ==
  reported["rx_bytes"] >= FrameLen * (reported["rx_packets"] - NumCPU)

\* A cancelled context ends the goroutine, even if the map is closed under it and
\* every further lookup fails.
CancelEndsShowStats == ctxDone ~> spc = "returned"

-----------------------------------------------------------------------------
(* The inductive invariant behind ReportedIsReal and BytesKeepUp           *)
(* (ShowStats_proofs.tla).                                                 *)

\* A CPU is one frame of bytes behind while it is between its two updates.
CountersInv ==
  \A c \in CPUs :
    /\ stats_map[c]["rx_packets"] <= FrameBound
    /\ stats_map[c]["rx_bytes"] =
         FrameLen * (stats_map[c]["rx_packets"] - (IF c \in counting THEN 1 ELSE 0))
    /\ c \in counting => stats_map[c]["rx_packets"] > 0

\* A copied word lies between what it was when the lookup began and what it is now.
CopyInv ==
  /\ spc = "sum" => copied = CPUs \X Words
  /\ spc \in {"lookup", "sum"} =>
       \A c \in CPUs, w \in Words :
         /\ start[c][w] <= stats_map[c][w]
         /\ <<c, w>> \in copied => start[c][w] <= recs[c][w] /\ recs[c][w] <= stats_map[c][w]
         /\ <<c, "rx_bytes">> \in copied =>
              /\ <<c, "rx_packets">> \in copied
              /\ recs[c]["rx_bytes"] >= FrameLen * (recs[c]["rx_packets"] - 1)

\* What was printed adds up to the previous sums, which the counters have reached.
PrevInv ==
  /\ reported = prev
  /\ prev["rx_bytes"] >= FrameLen * (prev["rx_packets"] - NumCPU)
  /\ \A w \in Words :
       /\ floor[w] <= prev[w]
       /\ prev[w] <= SumOf(stats_map)[w]
       /\ spc \in {"lookup", "sum"} => prev[w] <= SumOf(start)[w]

StatsInv == CountersInv /\ CopyInv /\ PrevInv
=============================================================================
