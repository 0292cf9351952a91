---------------------------- MODULE Client_proofs ----------------------------
(***************************************************************************)
(* Theorems about Client, for every plugin response, any number of CPUs    *)
(* and workers and any bounds: its type invariant, that no two Runs meet   *)
(* on a CPU, what a Run without an error has sent, and that the client     *)
(* uses the maps and the program only as XdpTx allows, so that everything  *)
(* XdpTx_proofs shows of the datapath holds of the running client.         *)
(***************************************************************************)
EXTENDS Client, XdpTx_proofs, FiniteSetTheorems

\* The tuples of variables that actions leave unchanged.
USE DEF startVars, workerVars, signalVars

-----------------------------------------------------------------------------
(* The helpers.                                                            *)

\* The share of a worker is a positive number that does not exceed Count, and the
\* kernel is never asked for more than it: a repetition count is cut to 32 bits,
\* and only a count that was cut to zero is raised to one.
LEMMA ShareFacts ==
  ASSUME NEW n \in Nat, NEW p \in Nat \ {0}, n >= p, NEW m \in Nat \ {0}
  PROVE  /\ n \div p \in Nat
         /\ n \div p >= 1
         /\ n \div p <= n
         /\ KernelRepeat((n \div p) % m) \in Nat
         /\ KernelRepeat((n \div p) % m) <= n \div p
<1>1. n \div p \in Nat /\ n \div p >= 1 /\ n \div p <= n
  OBVIOUS
<1>2. ASSUME NEW q \in Nat, q >= 1
      PROVE  KernelRepeat(q % m) \in Nat /\ KernelRepeat(q % m) <= q
  <2>1. q % m \in Nat /\ q % m <= q
    OBVIOUS
  <2> QED
    BY <1>2, <2>1 DEF KernelRepeat
<1> QED
  BY <1>1, <1>2

\* Nothing that leaves the variables of XdpTx alone changes their types.
LEMMA DatapathTypesKept ==
  ASSUME TypeOK, UNCHANGED xdpVars
  PROVE  TypeOK'
BY DEF TypeOK, xdpVars, mapVars

-----------------------------------------------------------------------------
(* Type correctness.                                                       *)

Cleanups == {"logger", "pm.Close", "obj.Close"}

\* NewXdperf makes five calls, and each registers a list of cleanup functions.
LEMMA CallFacts ==
  /\ Len(Calls) = 5
  /\ \A i \in 1 .. 5 : Registers[i] \in Seq(Cleanups)
<1>1. Len(Calls) = 5
  BY DEF Calls
<1>2. /\ <<"logger">> \in Seq(Cleanups)
      /\ <<"pm.Close">> \in Seq(Cleanups)
      /\ <<"obj.Close">> \in Seq(Cleanups)
      /\ <<>> \in Seq(Cleanups)
  BY EmptySeq DEF Cleanups
<1>3. /\ Registers[1] = <<"logger">>
      /\ Registers[2] = <<>>
      /\ Registers[3] = <<"pm.Close">>
      /\ Registers[4] = <<"obj.Close">>
      /\ Registers[5] = <<>>
  BY DEF Registers
<1>4. \A i \in 1 .. 5 : i = 1 \/ i = 2 \/ i = 3 \/ i = 4 \/ i = 5
  OBVIOUS
<1> QED
  BY <1>1, <1>2, <1>3, <1>4

\* The initial state has the types.
LEMMA InitialTypes ==
  ASSUME ClientInit
  PROVE  ClientTypeOK
<1>1. TypeOK
  BY InitialTypeOK DEF ClientInit
<1>2. flags \in [Count : Nat, Parallelism : 1 .. MaxParallelism, server : BOOLEAN]
  BY ClientAssumption DEF ClientInit, Validate
<1>3. cpu \in [Workers -> CPUs]
  BY SizesAssumption DEF ClientInit, CPUs
<1>4. step \in 0 .. Len(Calls) /\ cleanupFnList \in Seq(Cleanups) /\ cleaned \in Seq(Cleanups)
  BY CallFacts, EmptySeq DEF ClientInit
<1>5. spawned \in 0 .. flags.Parallelism
  BY <1>2 DEF ClientInit
<1>6. interrupts \in [Workers -> 0 .. InterruptBound]
  BY ClientAssumption DEF ClientInit
<1> QED
  BY <1>1, <1>2, <1>3, <1>4, <1>5, <1>6 DEF ClientInit, ClientTypeOK, Cleanups

\* The steps of the main goroutine.
LEMMA MainKeepsTypes ==
  ASSUME ClientTypeOK, ClientInv, Main
  PROVE  ClientTypeOK'
<1> USE DEF ClientTypeOK, Goto, Return
<1>1. CASE NewXdperf
  <2>1. TypeOK'
    BY <1>1, DatapathTypesKept DEF NewXdperf
  <2>2. step' \in 0 .. Len(Calls) /\ cleanupFnList' \in Seq(Cleanups)
    <3>1. CASE UNCHANGED <<step, cleanupFnList>>
      BY <3>1 DEF Cleanups
    <3>2. CASE step' = step + 1 /\ cleanupFnList' = cleanupFnList \o Registers[step + 1]
      <4>1. step + 1 \in 1 .. 5
        BY <1>1, CallFacts DEF NewXdperf, ClientInv, DriverInv
      <4>2. Registers[step + 1] \in Seq(Cleanups)
        BY <4>1, CallFacts
      <4>3. cleanupFnList \in Seq(Cleanups)
        BY DEF Cleanups
      <4> HIDE DEF ClientTypeOK, Cleanups
      <4> QED
        BY <3>2, <4>1, <4>2, <4>3, CallFacts, ConcatProperties
    <3> QED
      BY <1>1, <3>1, <3>2 DEF NewXdperf
  <2> QED
    BY <1>1, <2>1, <2>2 DEF NewXdperf, Cleanups
<1>2. CASE loadConfig
  BY <1>2, DatapathTypesKept DEF loadConfig
<1>3. CASE callPlugin
  BY <1>3, DatapathTypesKept DEF callPlugin
<1>4. CASE convToTxOverrideEntry
  BY <1>4, DatapathTypesKept DEF convToTxOverrideEntry
<1>5. CASE initEbpfMap
  <2>1. resp \in EntryLists
    BY <1>5, ClientAssumption DEF initEbpfMap, ClientInv, DriverInv
  <2>2. TypeOK'
    BY <1>5, <2>1, FillKeepsTypes DEF initEbpfMap
  <2> QED
    BY <1>5, <2>2 DEF initEbpfMap
<1>6. CASE BuildSamplePacket
  BY <1>6, DatapathTypesKept DEF BuildSamplePacket
<1>7. CASE spawn
  <2>1. TypeOK'
    BY <1>7, DatapathTypesKept DEF spawn
  <2>2. /\ outer' \in [Workers -> {"none", "waiting", "done"}]
        /\ inner' \in [Workers -> {"none", "started", "locked", "pinned", "running",
                                   "failed", "ok"}]
    BY <1>7 DEF spawn
  <2>3. spawned' \in 0 .. flags'.Parallelism
    <3>1. spawned < flags.Parallelism
      BY <1>7 DEF spawn, ClientInv, DriverInv
    <3>2. spawned' \in {spawned, spawned + 1} /\ flags' = flags
      BY <1>7 DEF spawn
    <3> QED
      BY <3>1, <3>2
  <2> QED
    BY <1>7, <2>1, <2>2, <2>3 DEF spawn
<1>8. CASE Notify
  BY <1>8, DatapathTypesKept DEF Notify
<1>9. CASE receive_and_cancel
  BY <1>9, DatapathTypesKept DEF receive_and_cancel
<1>10. CASE wg_Wait
  BY <1>10, DatapathTypesKept DEF wg_Wait
<1>11. ASSUME NEW err \in BOOLEAN, Close(err)
       PROVE  ClientTypeOK'
  <2>1. TypeOK'
    BY <1>11, DatapathTypesKept DEF Close
  <2>2. cleaned' \in Seq(Cleanups)
    <3>1. CASE Len(cleaned) < Len(cleanupFnList)
      <4>1. Len(cleaned) + 1 \in 1 .. Len(cleanupFnList)
        BY <3>1 DEF Cleanups
      <4>2. cleanupFnList[Len(cleaned) + 1] \in Cleanups
        BY <4>1, ElementOfSeq DEF Cleanups
      <4>3. cleaned' = Append(cleaned, cleanupFnList[Len(cleaned) + 1])
        BY <1>11, <3>1 DEF Close
      <4>4. cleaned \in Seq(Cleanups)
        BY DEF Cleanups
      <4> HIDE DEF ClientTypeOK, Cleanups
      <4> QED
        BY <4>2, <4>3, <4>4
    <3>2. CASE ~ (Len(cleaned) < Len(cleanupFnList))
      BY <1>11, <3>2 DEF Close, Cleanups
    <3> QED
      BY <3>1, <3>2
  <2> QED
    BY <1>11, <2>1, <2>2 DEF Close, Cleanups
<1> QED
  BY <1>1, <1>2, <1>3, <1>4, <1>5, <1>6, <1>7, <1>8, <1>9, <1>10, <1>11 DEF Main

\* The repetitions a Run asks for are within its share.
LEMMA RepeatFacts ==
  ASSUME ClientTypeOK, DriverInv
  PROVE  /\ Share \in Nat
         /\ Share <= MaxCount
         /\ Asked \in Nat
         /\ Asked <= Share
<1>1. /\ flags.Count \in Nat
      /\ flags.Parallelism \in Nat \ {0}
      /\ flags.Count >= flags.Parallelism
      /\ flags.Count <= MaxCount
  BY DEF ClientTypeOK, DriverInv, Validate
<1> DEFINE q == flags.Count \div flags.Parallelism
<1>2. /\ q \in Nat
      /\ q <= flags.Count
      /\ KernelRepeat(q % RepeatModulus) \in Nat
      /\ KernelRepeat(q % RepeatModulus) <= q
  BY <1>1, ShareFacts, ClientAssumption
<1>3. Share = q /\ Asked = KernelRepeat(q % RepeatModulus)
  BY DEF Share, Repeat, Asked
<1> HIDE DEF q
<1> QED
  BY <1>1, <1>2, <1>3, ClientAssumption

\* The room of a worker: a share for each time its Run was begun.
LEMMA RoomFacts ==
  ASSUME ClientTypeOK, DriverInv, NEW w \in Workers
  PROVE  /\ Room(w) \in Nat
         /\ Share <= Room(w)
         /\ Room(w) <= (InterruptBound + 1) * Share
         /\ Room(w) <= FrameBound
         /\ (interrupts[w] + 2) * Share = Room(w) + Share
<1>1. ASSUME NEW a \in Nat, NEW b \in Nat, NEW x \in Nat, NEW y \in Nat, a <= b, x <= y
      PROVE  a * x <= b * y /\ a * x \in Nat /\ b * y \in Nat /\ b * x \in Nat /\ a * x <= b * x
  <2>1. b * x = a * x + (b - a) * x /\ b * y = b * x + b * (y - x)
    OBVIOUS
  <2>2. (b - a) * x \in Nat /\ b * (y - x) \in Nat /\ a * x \in Nat /\ b * x \in Nat /\ b * y \in Nat
    BY <1>1
  <2> QED
    BY <2>1, <2>2
<1> DEFINE a == interrupts[w] + 1
           b == InterruptBound + 1
<1>2. /\ a \in Nat /\ b \in Nat /\ 1 <= a /\ a <= b
      /\ Share \in Nat /\ MaxCount \in Nat /\ Share <= MaxCount
      /\ b * MaxCount <= FrameBound /\ FrameBound \in Nat
  <2>1. interrupts[w] \in 0 .. InterruptBound /\ InterruptBound \in Nat
    BY ClientAssumption DEF ClientTypeOK
  <2>2. Share \in Nat /\ Share <= MaxCount
    BY RepeatFacts
  <2>3. MaxCount \in Nat /\ b * MaxCount <= FrameBound /\ FrameBound \in Nat
    BY ClientAssumption, SizesAssumption
  <2>4. a \in Nat /\ b \in Nat /\ 1 <= a /\ a <= b
    BY <2>1
  <2> QED
    BY <2>2, <2>3, <2>4
<1>3. Room(w) = a * Share
  BY DEF Room
<1>4. interrupts[w] + 2 = a + 1
  BY ClientAssumption DEF ClientTypeOK
<1> HIDE DEF a, b
<1>5. a * Share <= b * Share /\ a * Share \in Nat
  BY <1>1, <1>2
<1>6. b * Share <= b * MaxCount /\ b * Share \in Nat /\ b * MaxCount \in Nat
  BY <1>1, <1>2
<1>7. 1 * Share <= a * Share
  BY <1>1, <1>2
<1>8. (a + 1) * Share = a * Share + Share /\ 1 * Share = Share
  BY <1>2
<1>9. (interrupts[w] + 2) * Share = Room(w) + Share
  BY <1>3, <1>4, <1>8
<1>10. Room(w) \in Nat /\ Share <= Room(w) /\ Room(w) <= b * Share
  BY <1>3, <1>5, <1>7, <1>8
<1>11. Room(w) <= FrameBound
  BY <1>2, <1>6, <1>10
<1> QED
  BY <1>9, <1>10, <1>11 DEF b

\* The steps of an inner goroutine.
LEMMA InnerKeepsTypes ==
  ASSUME ClientTypeOK, ClientInv, NEW w \in Workers, Inner(w)
  PROVE  ClientTypeOK'
<1> USE DEF ClientTypeOK, InnerUnchanged
<1>1. CASE LockOSThread(w)
  BY <1>1, DatapathTypesKept DEF LockOSThread
<1>2. CASE SchedSetaffinity(w)
  BY <1>2, DatapathTypesKept DEF SchedSetaffinity
<1>3. CASE Run(w)
  <2>1. Asked \in Nat
    BY RepeatFacts DEF ClientInv
  <2>2. \A c \in IF w \in wired THEN {w} ELSE OnlineCPUs : c \in CPUs
    BY <1>3, ClientAssumption DEF Run, ClientInv, WorkerInv
  <2>3. cpu' \in [Workers -> CPUs]
    BY <1>3, <2>2 DEF Run
  <2>4. left' \in [Workers -> Nat]
    BY <1>3, <2>1 DEF Run
  <2>5. TypeOK'
    BY <1>3, DatapathTypesKept DEF Run
  <2>6. inner' \in [Workers -> {"none", "started", "locked", "pinned", "running",
                              "failed", "ok"}]
    BY <1>3 DEF Run
  <2> QED
    BY <1>3, <2>3, <2>4, <2>5, <2>6 DEF Run
<1>4. CASE Run_repetition(w)
  <2>1. TypeOK'
    BY <1>4, RunKeepsTypes DEF Run_repetition
  <2> QED
    BY <1>4, <2>1 DEF Run_repetition
<1>5. CASE Run_return(w)
  <2>1. TypeOK'
    BY <1>5, DatapathTypesKept DEF Run_return
  <2>2. inner' \in [Workers -> {"none", "started", "locked", "pinned", "running",
                              "failed", "ok"}]
    BY <1>5 DEF Run_return
  <2> QED
    BY <1>5, <2>1, <2>2 DEF Run_return
<1>6. CASE Run_interrupted(w)
  <2>1. TypeOK'
    BY <1>6, DatapathTypesKept DEF Run_interrupted
  <2>2. left' \in [Workers -> Nat]
    BY <1>6, RepeatFacts DEF Run_interrupted, ClientInv
  <2>3. interrupts' \in [Workers -> 0 .. InterruptBound]
    BY <1>6, ClientAssumption DEF Run_interrupted
  <2> QED
    BY <1>6, <2>1, <2>2, <2>3 DEF Run_interrupted
<1> QED
  BY <1>1, <1>2, <1>3, <1>4, <1>5, <1>6 DEF Inner

\* Every other step.
LEMMA RestKeepsTypes ==
  ASSUME ClientTypeOK, \/ \E w \in Workers : outer_done(w)
                       \/ Signal
                       \/ UNCHANGED clientVars
  PROVE  ClientTypeOK'
<1> USE DEF ClientTypeOK
<1>1. CASE \E w \in Workers : outer_done(w)
  BY <1>1, DatapathTypesKept DEF outer_done
<1>2. CASE Signal
  <2>1. TypeOK'
    BY <1>2, DatapathTypesKept DEF Signal
  <2>2. pc' = pc \/ pc' = "exited"
    BY <1>2 DEF Signal
  <2>3. exitCode' = exitCode \/ exitCode' = "killed"
    BY <1>2 DEF Signal
  <2>4. sig' = sig \/ sig' = TRUE
    BY <1>2 DEF Signal
  <2>5. sig' \in BOOLEAN
    BY <2>4
  <2>6. signals' \in Nat
    BY <1>2 DEF Signal
  <2>7. UNCHANGED <<startVars, cleaned, spawned, ctxDone, workerVars, notified>>
    BY <1>2 DEF Signal
  <2> QED
    BY <2>1, <2>2, <2>3, <2>5, <2>6, <2>7
<1>3. CASE UNCHANGED clientVars
  BY <1>3, DatapathTypesKept DEF clientVars
<1> QED
  BY <1>1, <1>2, <1>3

-----------------------------------------------------------------------------
(* The invariant: no worker before the maps are filled.                    *)

\* In the initial state there is no worker and nothing was sent.
LEMMA InitialInvariant ==
  ASSUME ClientInit
  PROVE  ClientInv
<1>1. DriverInv
  BY CallFacts DEF ClientInit, Init, DriverInv, Validate
<1>2. WorkerInv
  BY DEF ClientInit, WorkerInv
<1>3. SentInv
  BY DEF ClientInit, Init, SentInv
<1>4. RepeatInv /\ OkRunHasSent
  BY DEF ClientInit, RepeatInv, OkRunHasSent
<1> QED
  BY <1>1, <1>2, <1>3, <1>4 DEF ClientInv

\* Every step keeps the part of the invariant about the main goroutine.
LEMMA DriverKept ==
  ASSUME ClientTypeOK, ClientInv, [ClientNext]_clientVars
  PROVE  DriverInv'
<1> USE DEF DriverInv, Validate, Goto, Return
<1> SUFFICES ASSUME DriverInv PROVE DriverInv'
  BY DEF ClientInv
<1>1. CASE NewXdperf
  BY <1>1, CallFacts DEF NewXdperf, xdpVars, ClientTypeOK
<1>2. CASE loadConfig
  BY <1>2 DEF loadConfig, xdpVars
<1>3. CASE callPlugin
  BY <1>3 DEF callPlugin, xdpVars
<1>4. CASE convToTxOverrideEntry
  BY <1>4 DEF convToTxOverrideEntry, xdpVars
<1>5. CASE initEbpfMap
  BY <1>5 DEF initEbpfMap, initSeqStateMap, initTxOverrideMap, ClientTypeOK
<1>6. CASE BuildSamplePacket
  BY <1>6, ClientAssumption DEF BuildSamplePacket, xdpVars, ClientTypeOK
<1>7. CASE spawn
  <2>1. spawned \in Nat /\ flags.Parallelism \in Nat /\ spawned < flags.Parallelism
    BY <1>7 DEF spawn, ClientTypeOK
  <2>2. \/ pc' = "spawn" /\ spawned' = spawned + 1 /\ spawned + 1 # flags.Parallelism
        \/ pc' = "notify"
        \/ pc' = "Close"
    BY <1>7 DEF spawn
  <2>3. UNCHANGED <<flags, step, resp, phase>> /\ phase = "ready"
    BY <1>7 DEF spawn, xdpVars
  <2> QED
    BY <2>1, <2>2, <2>3
<1>8. CASE Notify \/ receive_and_cancel \/ wg_Wait \/ Signal
  BY <1>8 DEF Notify, receive_and_cancel, wg_Wait, Signal, xdpVars
<1>9. CASE \E err \in BOOLEAN : Close(err)
  BY <1>9 DEF Close, xdpVars
<1>10. ASSUME NEW w \in Workers, outer_done(w)
       PROVE  DriverInv'
  BY <1>10 DEF outer_done, xdpVars
<1>11. ASSUME NEW w \in Workers, Inner(w)
       PROVE  DriverInv'
  <2>1. UNCHANGED <<flags, pc, step, resp, spawned, phase>>
    BY <1>11 DEF Inner, LockOSThread, SchedSetaffinity, Run, Run_repetition, Run_interrupted, Run_return,
                 xdp_tx, InnerUnchanged, xdpVars
  <2> QED
    BY <2>1
<1>12. CASE UNCHANGED clientVars
  BY <1>12 DEF clientVars, xdpVars
<1> QED
  BY <1>1, <1>2, <1>3, <1>4, <1>5, <1>6, <1>7, <1>8, <1>9, <1>10, <1>11, <1>12
  DEF ClientNext, Main, Exited

-----------------------------------------------------------------------------
(* The invariant: a worker past SchedSetaffinity stays on its own CPU, and *)
(* what it sends is within its share.                                      *)

\* The steps that concern neither a worker nor what it has sent.
LEMMA OthersKeepWorkers ==
  ASSUME ClientTypeOK, ClientInv,
         UNCHANGED <<flags, spawned, inner, wired, cpu, left, interrupts, sent>>
  PROVE  WorkerInv' /\ SentInv'
BY DEF ClientInv, WorkerInv, SentInv, Room, Share

\* The loop of runTXPacket starts a worker that was not there.
LEMMA SpawnKeepsWorkers ==
  ASSUME ClientTypeOK, ClientInv, spawn
  PROVE  WorkerInv' /\ SentInv'
<1>1. UNCHANGED <<flags, wired, cpu, left, interrupts, sent>>
  BY DEF spawn, xdpVars
<1>2. CASE UNCHANGED <<inner, spawned>>
  BY <1>1, <1>2, OthersKeepWorkers
<1>3. CASE inner' = [inner EXCEPT ![spawned] = "started"] /\ spawned' = spawned + 1
  <2>1. spawned \in Nat /\ spawned \in Workers /\ MaxParallelism \in Nat
    BY ClientAssumption DEF spawn, ClientInv, DriverInv, ClientTypeOK, Workers
  <2>2. inner[spawned] = "none"
    BY <2>1 DEF ClientInv, WorkerInv
  <2>3. \A w \in Workers : inner'[w] = IF w = spawned THEN "started" ELSE inner[w]
    BY <1>3 DEF ClientTypeOK
  <2>4. WorkerInv'
    BY <1>1, <1>3, <2>1, <2>3 DEF ClientInv, WorkerInv, Workers
  <2>5. SentInv'
    BY <1>1, <2>2, <2>3 DEF ClientInv, SentInv, Room, Share
  <2> QED
    BY <2>4, <2>5
<1> QED
  BY <1>2, <1>3 DEF spawn

\* The worker's own steps up to the one that enters the kernel.
LEMMA PreparationKeepsWorkers ==
  ASSUME ClientTypeOK, ClientInv, NEW w \in Workers,
         LockOSThread(w) \/ SchedSetaffinity(w) \/ Run(w)
  PROVE  WorkerInv' /\ SentInv'
<1>1. UNCHANGED <<flags, spawned, interrupts, sent>>
  BY DEF LockOSThread, SchedSetaffinity, Run, InnerUnchanged, xdpVars
<1>2. inner[w] \in {"started", "locked", "pinned"}
  BY DEF LockOSThread, SchedSetaffinity, Run
<1>3. w \in CPUs => sent[w] = <<>>
  BY <1>2 DEF ClientInv, SentInv
<1>4. ~ (w >= spawned)
  BY <1>2 DEF ClientInv, WorkerInv
<1>5. CASE LockOSThread(w)
  <2>1. /\ inner' = [inner EXCEPT ![w] = "locked"]
        /\ wired' = wired \cup {w}
        /\ UNCHANGED <<cpu, left>>
    BY <1>5 DEF LockOSThread
  <2>2. WorkerInv'
    BY <1>1, <1>4, <2>1 DEF ClientInv, WorkerInv, ClientTypeOK
  <2>3. SentInv'
    BY <1>1, <1>3, <2>1 DEF ClientInv, SentInv, Room, Share, ClientTypeOK
  <2> QED
    BY <2>2, <2>3
<1>6. CASE SchedSetaffinity(w)
  <2>1. /\ inner' = [inner EXCEPT ![w] = IF w \in OnlineCPUs THEN "pinned" ELSE "failed"]
        /\ UNCHANGED <<wired, cpu, left>>
        /\ w \in wired
    BY <1>6 DEF SchedSetaffinity, ClientInv, WorkerInv
  <2>2. WorkerInv'
    BY <1>1, <1>4, <2>1 DEF ClientInv, WorkerInv, ClientTypeOK
  <2>3. w \in CPUs => Len(sent[w]) = 0 /\ 0 <= Room(w)
    BY <1>3, EmptySeq, RoomFacts DEF ClientInv
  <2>4. SentInv'
    BY <1>1, <1>3, <2>1, <2>3 DEF ClientInv, SentInv, Room, Share, ClientTypeOK
  <2> QED
    BY <2>2, <2>4
<1>7. CASE Run(w)
  <2>1. w \in wired /\ w \in OnlineCPUs
    BY <1>7 DEF Run, ClientInv, WorkerInv
  <2>2. /\ inner' = [inner EXCEPT ![w] = "running"]
        /\ cpu' = [cpu EXCEPT ![w] = w]
        /\ left' = [left EXCEPT ![w] = Asked]
        /\ UNCHANGED wired
    BY <1>7, <2>1 DEF Run
  <2>3. WorkerInv'
    BY <1>1, <1>4, <2>1, <2>2 DEF ClientInv, WorkerInv, ClientTypeOK
  <2>4. w \in CPUs => Len(sent[w]) + Asked <= Room(w)
    BY <1>3, EmptySeq, RepeatFacts, RoomFacts DEF ClientInv
  <2>5. SentInv'
    BY <1>1, <2>2, <2>4 DEF ClientInv, SentInv, Room, Share, ClientTypeOK
  <2> QED
    BY <2>3, <2>5
<1> QED
  BY <1>5, <1>6, <1>7

\* The worker's steps in the kernel.
LEMMA KernelKeepsWorkers ==
  ASSUME ClientTypeOK, ClientInv, NEW w \in Workers,
         Run_repetition(w) \/ Run_interrupted(w) \/ Run_return(w)
  PROVE  WorkerInv' /\ SentInv'
<1>1. UNCHANGED <<flags, spawned, wired, cpu>>
  BY DEF Run_repetition, Run_interrupted, Run_return, InnerUnchanged
<1>2. inner[w] = "running" /\ cpu[w] = w /\ w \in CPUs /\ ~ (w >= spawned)
  BY ClientAssumption DEF Run_repetition, Run_interrupted, Run_return, ClientInv, WorkerInv
<1>3. /\ Len(sent[w]) + left[w] <= Room(w) /\ Room(w) \in Nat
      /\ Len(sent[w]) \in Nat /\ left[w] \in Nat
  BY <1>2, RoomFacts DEF ClientInv, SentInv, ClientTypeOK, TypeOK
<1>4. CASE Run_repetition(w)
  <2>1. UNCHANGED <<inner, interrupts>> /\ left' = [left EXCEPT ![w] = @ - 1]
    BY <1>4 DEF Run_repetition
  <2>2. xdp_tx(w)
    BY <1>2, <1>4 DEF Run_repetition
  <2>3. \A c \in CPUs \ {w} : sent'[c] = sent[c]
    BY <2>2 DEF xdp_tx, xdp_tx_aborted, xdp_tx_sent, ClientTypeOK, TypeOK
  <2>4. Len(sent'[w]) \in {Len(sent[w]), Len(sent[w]) + 1}
    <3>1. CASE xdp_tx_aborted(w)
      BY <3>1 DEF xdp_tx_aborted
    <3>2. CASE xdp_tx_sent(w)
      <4>1. TemplateAt(w) \in pkt_template
        BY <1>2, SlotFacts DEF ClientTypeOK, TypeOK, TemplateAt
      <4>2. FrameOf(TemplateAt(w)) \in Seq(Byte)
        BY <4>1, FrameType
      <4>3. sent[w] \in Seq(Seq(Byte))
        BY <1>2 DEF ClientTypeOK, TypeOK
      <4>4. sent'[w] = Append(sent[w], FrameOf(TemplateAt(w)))
        BY <1>2, <3>2 DEF xdp_tx_sent, ClientTypeOK, TypeOK
      <4> QED
        BY <4>2, <4>3, <4>4
    <3> QED
      BY <2>2, <3>1, <3>2 DEF xdp_tx
  <2>5. WorkerInv'
    BY <1>1, <2>1 DEF ClientInv, WorkerInv
  <2>6. left'[w] = left[w] - 1 /\ \A v \in Workers \ {w} : left'[v] = left[v]
    BY <2>1 DEF ClientTypeOK
  <2>7. Len(sent'[w]) + left'[w] <= Room(w)
    BY <1>3, <2>4, <2>6
  <2>8. SentInv'
    BY <1>1, <1>2, <2>1, <2>3, <2>6, <2>7 DEF ClientInv, SentInv, Room, Share
  <2> QED
    BY <2>5, <2>8
<1>5. CASE Run_return(w)
  <2>1. UNCHANGED <<left, interrupts, sent>>
    BY <1>5 DEF Run_return, xdpVars
  <2>2. inner'[w] \in {"ok", "failed"} /\ \A v \in Workers \ {w} : inner'[v] = inner[v]
    BY <1>5 DEF Run_return, ClientTypeOK
  <2>3. WorkerInv'
    BY <1>1, <1>2, <2>2 DEF ClientInv, WorkerInv
  <2>4. Len(sent[w]) <= Room(w)
    BY <1>3
  <2>5. SentInv'
    BY <1>1, <1>2, <2>1, <2>2, <2>4 DEF ClientInv, SentInv, Room, Share
  <2> QED
    BY <2>3, <2>5
<1>6. CASE Run_interrupted(w)
  <2>1. /\ UNCHANGED <<inner, sent>>
        /\ left'[w] = Asked /\ interrupts'[w] = interrupts[w] + 1 /\ interrupts[w] \in Nat
        /\ \A v \in Workers \ {w} : left'[v] = left[v] /\ interrupts'[v] = interrupts[v]
    BY <1>6, ClientAssumption DEF Run_interrupted, xdpVars, ClientTypeOK
  <2>2. WorkerInv'
    BY <1>1, <2>1 DEF ClientInv, WorkerInv
  <2>3. Room(w)' = Room(w) + Share
    <3>1. interrupts'[w] + 1 = interrupts[w] + 2
      BY <2>1
    <3>2. Room(w)' = (interrupts[w] + 2) * Share
      BY <1>1, <3>1 DEF Room, Share
    <3> QED
      BY <3>2, RoomFacts DEF ClientInv
  <2>4. Len(sent[w]) + Asked <= Room(w)'
    BY <1>3, <2>3, RepeatFacts DEF ClientInv
  <2>5. ASSUME NEW c \in CPUs, c # w
        PROVE  /\ c \notin Workers \/ inner'[c] \notin {"running", "failed", "ok"} => sent'[c] = <<>>
               /\ c \in Workers /\ inner'[c] = "running" => Len(sent'[c]) + left'[c] <= Room(c)'
               /\ c \in Workers /\ inner'[c] \in {"failed", "ok"} => Len(sent'[c]) <= Room(c)'
    BY <1>1, <2>1, <2>5 DEF ClientInv, SentInv, Room, Share
  <2>6. SentInv'
    BY <1>2, <2>1, <2>4, <2>5 DEF SentInv
  <2> QED
    BY <2>2, <2>6
<1> QED
  BY <1>4, <1>5, <1>6

-----------------------------------------------------------------------------
(* The invariant: what was sent and what is left are what was asked for.   *)

\* A worker in the kernel has sent and has left what it asked for, or more if it was
\* interrupted, or its CPU has aborted; and one that is back has sent it.
Underway(w) ==
  \/ /\ Asked <= Len(sent[w]) + left[w]
     /\ interrupts[w] = 0 => Len(sent[w]) + left[w] = Asked
  \/ aborted[w]

HasSent(w) ==
  \/ Asked <= Len(sent[w]) /\ (interrupts[w] = 0 => Len(sent[w]) = Asked)
  \/ aborted[w]

\* A step keeps both of a worker it does not concern.
LEMMA OthersAreUnderway ==
  ASSUME UNCHANGED flags, NEW w,
         sent'[w] = sent[w], aborted'[w] = aborted[w],
         left'[w] = left[w], interrupts'[w] = interrupts[w]
  PROVE  Asked' = Asked /\ (Underway(w) => Underway(w)') /\ (HasSent(w) => HasSent(w)')
<1>1. Asked' = Asked
  BY DEF Asked, KernelRepeat, Repeat
<1> QED
  BY <1>1 DEF Underway, HasSent

\* A step that concerns no worker in the kernel, and none that has left it.
LEMMA OthersKeepRepeats ==
  ASSUME ClientInv,
         UNCHANGED <<flags, sent, aborted>>,
         \A w \in Workers : inner'[w] \in {"running", "ok"} =>
           inner'[w] = inner[w] /\ left'[w] = left[w] /\ interrupts'[w] = interrupts[w]
  PROVE  RepeatInv' /\ OkRunHasSent'
<1>1. RepeatInv'
  <2> SUFFICES ASSUME NEW v \in Workers, inner'[v] = "running" PROVE Underway(v)'
    BY DEF RepeatInv, Underway
  <2>1. Underway(v)
    BY DEF ClientInv, RepeatInv, Underway
  <2> QED
    BY <2>1, OthersAreUnderway
<1>2. OkRunHasSent'
  <2> SUFFICES ASSUME NEW v \in Workers, inner'[v] = "ok" PROVE HasSent(v)'
    BY DEF OkRunHasSent, HasSent
  <2>1. HasSent(v)
    BY DEF ClientInv, OkRunHasSent, HasSent
  <2> QED
    BY <2>1, OthersAreUnderway
<1> QED
  BY <1>1, <1>2

\* A step of one worker in the kernel, which stays there.
LEMMA OneWorkerKeepsRepeats ==
  ASSUME ClientInv, UNCHANGED flags, NEW w \in Workers,
         inner'[w] = "running", Underway(w)',
         \A v \in Workers \ {w} : inner'[v] = inner[v],
         \A v \in Workers \ {w} : inner[v] \in {"running", "ok"} =>
           /\ sent'[v] = sent[v] /\ aborted'[v] = aborted[v]
           /\ left'[v] = left[v] /\ interrupts'[v] = interrupts[v]
  PROVE  RepeatInv' /\ OkRunHasSent'
<1>1. ASSUME NEW v \in Workers, inner'[v] = "running"
      PROVE  Underway(v)'
  <2>1. CASE v # w
    <3>1. Underway(v)
      BY <1>1, <2>1 DEF ClientInv, RepeatInv, Underway
    <3>2. /\ sent'[v] = sent[v] /\ aborted'[v] = aborted[v]
          /\ left'[v] = left[v] /\ interrupts'[v] = interrupts[v]
      BY <1>1, <2>1
    <3> QED
      BY <3>1, <3>2, OthersAreUnderway
  <2> QED
    BY <2>1
<1>2. ASSUME NEW v \in Workers, inner'[v] = "ok"
      PROVE  HasSent(v)'
  <2>1. v \in Workers \ {w} /\ inner[v] = "ok"
    BY <1>2
  <2>2. HasSent(v)
    BY <2>1 DEF ClientInv, OkRunHasSent, HasSent
  <2>3. /\ sent'[v] = sent[v] /\ aborted'[v] = aborted[v]
        /\ left'[v] = left[v] /\ interrupts'[v] = interrupts[v]
    BY <2>1
  <2> QED
    BY <2>2, <2>3, OthersAreUnderway
<1>3. RepeatInv'
  BY <1>1 DEF RepeatInv, Underway
<1>4. OkRunHasSent'
  BY <1>2 DEF OkRunHasSent, HasSent
<1> QED
  BY <1>3, <1>4

\* One repetition on the worker's own CPU: the frame is sent, or the CPU has aborted.
LEMMA RepetitionKeepsRepeats ==
  ASSUME ClientTypeOK, ClientInv, NEW w \in Workers, Run_repetition(w)
  PROVE  RepeatInv' /\ OkRunHasSent'
<1>1. UNCHANGED <<flags, inner, interrupts>> /\ left' = [left EXCEPT ![w] = @ - 1]
  BY DEF Run_repetition, InnerUnchanged
<1>2. Asked' = Asked /\ Asked \in Nat
  BY <1>1, RepeatFacts DEF Asked, KernelRepeat, Repeat, ClientInv
<1>3. inner[w] = "running" /\ cpu[w] = w /\ w \in CPUs /\ xdp_tx(w)
  BY ClientAssumption DEF Run_repetition, ClientInv, WorkerInv
<1>4. \A v \in Workers : inner[v] \in {"running", "ok"} => v \in CPUs
  BY ClientAssumption DEF ClientInv, WorkerInv
<1>5. \A c \in CPUs \ {w} : sent'[c] = sent[c] /\ aborted'[c] = aborted[c]
  BY <1>3 DEF xdp_tx, xdp_tx_aborted, xdp_tx_sent, ClientTypeOK, TypeOK
<1>6. \A v \in Workers \ {w} : left'[v] = left[v]
  BY <1>1 DEF ClientTypeOK
<1>7. Underway(w)'
  <2>1. CASE xdp_tx_aborted(w)
    BY <1>3, <2>1 DEF xdp_tx_aborted, ClientTypeOK, TypeOK, Underway
  <2>2. CASE xdp_tx_sent(w)
    <3>1. Underway(w)
      BY <1>3 DEF ClientInv, RepeatInv, Underway
    <3>2. TemplateAt(w) \in pkt_template
      BY <1>3, SlotFacts DEF ClientTypeOK, TypeOK, TemplateAt
    <3>3. FrameOf(TemplateAt(w)) \in Seq(Byte) /\ sent[w] \in Seq(Seq(Byte))
      BY <1>3, <3>2, FrameType DEF ClientTypeOK, TypeOK
    <3>4. sent'[w] = Append(sent[w], FrameOf(TemplateAt(w))) /\ aborted' = aborted
      BY <1>3, <2>2 DEF xdp_tx_sent, ClientTypeOK, TypeOK
    <3>5. Len(sent'[w]) = Len(sent[w]) + 1 /\ Len(sent[w]) \in Nat
      BY <3>3, <3>4
    <3>6. left'[w] = left[w] - 1 /\ left[w] \in Nat
      BY <1>1 DEF ClientTypeOK
    <3>7. Len(sent'[w]) + left'[w] = Len(sent[w]) + left[w]
      BY <3>5, <3>6
    <3>8. interrupts'[w] = interrupts[w] /\ aborted'[w] = aborted[w]
      BY <1>1, <3>4
    <3> QED
      BY <1>2, <3>1, <3>7, <3>8 DEF Underway
  <2> QED
    BY <1>3, <2>1, <2>2 DEF xdp_tx
<1> QED
  BY <1>1, <1>3, <1>4, <1>5, <1>6, <1>7, OneWorkerKeepsRepeats

\* The steps of an inner goroutine: before it enters the kernel its CPU has sent
\* nothing, and without an error it leaves with nothing left to do.
LEMMA InnerKeepsRepeats ==
  ASSUME ClientTypeOK, ClientInv, NEW w \in Workers, Inner(w)
  PROVE  RepeatInv' /\ OkRunHasSent'
<1>1. UNCHANGED flags
  BY DEF Inner, LockOSThread, SchedSetaffinity, Run, Run_repetition, Run_interrupted,
         Run_return, InnerUnchanged
<1>2. Asked' = Asked /\ Asked \in Nat
  BY <1>1, RepeatFacts DEF Asked, KernelRepeat, Repeat, ClientInv
<1>3. CASE LockOSThread(w) \/ SchedSetaffinity(w)
  <2>1. /\ UNCHANGED <<left, interrupts, sent, aborted>>
        /\ inner'[w] \notin {"running", "ok"}
        /\ \A v \in Workers \ {w} : inner'[v] = inner[v]
    BY <1>3 DEF LockOSThread, SchedSetaffinity, xdpVars, ClientTypeOK
  <2> QED
    BY <1>1, <2>1, OthersKeepRepeats
<1>4. CASE Run(w)
  <2>1. /\ UNCHANGED <<interrupts, sent, aborted>>
        /\ inner[w] = "pinned" /\ inner'[w] = "running"
        /\ left'[w] = Asked
        /\ \A v \in Workers \ {w} : inner'[v] = inner[v] /\ left'[v] = left[v]
    BY <1>4 DEF Run, xdpVars, ClientTypeOK
  <2>2. sent[w] = <<>>
    BY <2>1, ClientAssumption DEF ClientInv, WorkerInv, SentInv
  <2>3. Len(sent'[w]) + left'[w] = Asked
    BY <1>2, <2>1, <2>2, EmptySeq
  <2>4. Underway(w)'
    BY <1>2, <2>3 DEF Underway
  <2> QED
    BY <1>1, <2>1, <2>4, OneWorkerKeepsRepeats
<1>5. CASE Run_repetition(w)
  BY <1>5, RepetitionKeepsRepeats
<1>6. CASE Run_interrupted(w)
  <2>1. /\ UNCHANGED <<inner, sent, aborted>>
        /\ inner[w] = "running"
        /\ left'[w] = Asked
        /\ interrupts[w] \in Nat /\ interrupts'[w] = interrupts[w] + 1
        /\ \A v \in Workers \ {w} : left'[v] = left[v] /\ interrupts'[v] = interrupts[v]
    BY <1>6, ClientAssumption DEF Run_interrupted, xdpVars, ClientTypeOK
  <2>2. Len(sent[w]) \in Nat
    BY <2>1, ClientAssumption DEF ClientInv, WorkerInv, ClientTypeOK, TypeOK
  <2>3. Asked <= Len(sent'[w]) + left'[w] /\ interrupts'[w] # 0
    BY <1>2, <2>1, <2>2
  <2>4. Underway(w)'
    BY <1>2, <2>3 DEF Underway
  <2> QED
    BY <1>1, <2>1, <2>4, OneWorkerKeepsRepeats
<1>7. CASE Run_return(w)
  <2>1. /\ UNCHANGED <<left, interrupts, sent, aborted>>
        /\ inner[w] = "running"
        /\ inner'[w] = "failed" \/ (inner'[w] = "ok" /\ left[w] = 0)
        /\ \A v \in Workers \ {w} : inner'[v] = inner[v]
    BY <1>7 DEF Run_return, xdpVars, ClientTypeOK
  <2>2. RepeatInv'
    BY <1>2, <2>1 DEF ClientInv, RepeatInv
  <2>3. OkRunHasSent'
    <3> SUFFICES ASSUME NEW v \in Workers, inner'[v] = "ok"
                 PROVE  HasSent(v)
      BY <1>2, <2>1 DEF OkRunHasSent, HasSent
    <3>1. CASE v # w
      BY <2>1, <3>1 DEF ClientInv, OkRunHasSent, HasSent
    <3>2. CASE v = w
      <4>1. left[w] = 0 /\ w \in CPUs
        BY <2>1, <3>2, ClientAssumption DEF ClientInv, WorkerInv
      <4>2. Len(sent[w]) \in Nat
        BY <4>1 DEF ClientTypeOK, TypeOK
      <4>3. Len(sent[w]) + left[w] = Len(sent[w])
        BY <4>1, <4>2
      <4>4. Underway(w)
        BY <2>1 DEF ClientInv, RepeatInv, Underway
      <4> QED
        BY <3>2, <4>3, <4>4 DEF Underway, HasSent
    <3> QED
      BY <3>1, <3>2
  <2> QED
    BY <2>2, <2>3
<1> QED
  BY <1>3, <1>4, <1>5, <1>6, <1>7 DEF Inner

-----------------------------------------------------------------------------
(* The theorems.                                                           *)

\* One step keeps the type invariant and the inductive invariant.
LEMMA StepKeepsInvariant ==
  ASSUME ClientTypeOK, ClientInv, [ClientNext]_clientVars
  PROVE  ClientTypeOK' /\ ClientInv'
<1>1. ClientTypeOK'
  BY MainKeepsTypes, InnerKeepsTypes, RestKeepsTypes DEF ClientNext, Exited
<1>2. DriverInv'
  BY DriverKept
<1>3. CASE spawn
  <2>1. /\ UNCHANGED <<flags, left, interrupts, sent, aborted>>
        /\ \A w \in Workers : inner'[w] = inner[w] \/ inner'[w] = "started"
    BY <1>3 DEF spawn, xdpVars, ClientTypeOK
  <2>2. RepeatInv' /\ OkRunHasSent'
    BY <2>1, OthersKeepRepeats
  <2> QED
    BY <1>1, <1>2, <1>3, <2>2, SpawnKeepsWorkers DEF ClientInv
<1>4. CASE Main /\ ~ spawn
  <2>1. UNCHANGED <<flags, spawned, inner, wired, cpu, left, interrupts, sent, aborted>>
    BY <1>4 DEF Main, NewXdperf, loadConfig, callPlugin, convToTxOverrideEntry, initEbpfMap,
                BuildSamplePacket, Notify, receive_and_cancel, wg_Wait, Close, xdpVars,
                initSeqStateMap, initTxOverrideMap
  <2>2. RepeatInv' /\ OkRunHasSent'
    BY <2>1, OthersKeepRepeats
  <2> QED
    BY <1>1, <1>2, <2>1, <2>2, OthersKeepWorkers DEF ClientInv
<1>5. ASSUME NEW w \in Workers, Inner(w)
      PROVE  ClientInv'
  BY <1>2, <1>5, PreparationKeepsWorkers, KernelKeepsWorkers, InnerKeepsRepeats
  DEF Inner, ClientInv
<1>6. CASE (\E w \in Workers : outer_done(w)) \/ Signal \/ UNCHANGED clientVars
  <2>1. UNCHANGED <<flags, spawned, inner, wired, cpu, left, interrupts, sent, aborted>>
    BY <1>6 DEF outer_done, Signal, clientVars, xdpVars
  <2>2. RepeatInv' /\ OkRunHasSent'
    BY <2>1, OthersKeepRepeats
  <2> QED
    BY <1>1, <1>2, <2>1, <2>2, OthersKeepWorkers DEF ClientInv
<1> QED
  BY <1>1, <1>3, <1>4, <1>5, <1>6 DEF ClientNext, Exited

\* Types of the client, and the invariant that ties the main goroutine, the workers
\* and the maps together.
THEOREM ClientInvariant == ClientSpec => [](ClientTypeOK /\ ClientInv)
<1>1. ClientInit => ClientTypeOK /\ ClientInv
  BY InitialTypes, InitialInvariant
<1>2. (ClientTypeOK /\ ClientInv) /\ [ClientNext]_clientVars => (ClientTypeOK /\ ClientInv)'
  BY StepKeepsInvariant
<1> QED
  BY <1>1, <1>2, PTL DEF ClientSpec

\* Every variable of the client keeps its type.
THEOREM ClientTypeCorrect == ClientSpec => []ClientTypeOK
BY ClientInvariant, PTL

\* No two workers ever execute the program on one CPU.
THEOREM RunsAreApart == ClientSpec => []OneRunPerCPU
<1>1. ClientInv => OneRunPerCPU
  BY DEF ClientInv, WorkerInv, OneRunPerCPU
<1> QED
  BY <1>1, ClientInvariant, PTL

\* A worker whose Run reported no error has sent all its repetitions, or its CPU aborted.
THEOREM OkRunsHaveSent == ClientSpec => []OkRunHasSent
<1>1. ClientInv => OkRunHasSent
  BY DEF ClientInv
<1> QED
  BY <1>1, ClientInvariant, PTL

\* Only the CPUs of the workers send, and each within its room.
LEMMA RoomIsKept ==
  ASSUME ClientTypeOK, ClientInv, NEW c \in CPUs
  PROVE  /\ c < flags.Parallelism => c \in Workers
         /\ c < flags.Parallelism => Len(sent[c]) <= Room(c)
         /\ ~ (c < flags.Parallelism) => Len(sent[c]) = 0
<1>1. /\ c \in Nat /\ spawned \in Nat /\ flags.Parallelism \in Nat
      /\ spawned <= flags.Parallelism /\ flags.Parallelism <= MaxParallelism
  BY SizesAssumption, ClientAssumption DEF ClientTypeOK, CPUs
<1>2. c < flags.Parallelism => c \in Workers
  BY <1>1, ClientAssumption DEF Workers
<1>3. CASE sent[c] = <<>>
  BY <1>2, <1>3, EmptySeq, RoomFacts DEF ClientInv
<1>4. CASE sent[c] # <<>>
  <2>1. c \in Workers /\ inner[c] \in {"running", "failed", "ok"}
    BY <1>4 DEF ClientInv, SentInv
  <2>2. c < flags.Parallelism
    <3>1. ~ (c >= spawned)
      BY <2>1 DEF ClientInv, WorkerInv
    <3> QED
      BY <1>1, <3>1
  <2>3. Len(sent[c]) <= Room(c)
    BY <2>1, RoomFacts DEF ClientInv, SentInv, ClientTypeOK, TypeOK
  <2> QED
    BY <2>1, <2>2, <2>3
<1> QED
  BY <1>3, <1>4

\* Where the n-th frame of CPU c is when shares of s are laid end to end.
Offset(c, n, s) == c * s + n - 1

\* p shares of s, laid end to end: each number below p * s is in one place of one share.
LEMMA EndToEnd ==
  ASSUME NEW p \in Nat, NEW s \in Nat
  PROVE  /\ \A c \in 0 .. p - 1, n \in 1 .. s : Offset(c, n, s) \in 0 .. p * s - 1
         /\ \A c, d \in 0 .. p - 1, n, m \in 1 .. s :
              Offset(c, n, s) = Offset(d, m, s) => c = d /\ n = m
         /\ \A k \in 0 .. p * s - 1 : \E c \in 0 .. p - 1, n \in 1 .. s : k = Offset(c, n, s)
<1>1. ASSUME NEW c \in Nat, NEW d \in Nat, c < d
      PROVE  c * s + s <= d * s /\ c * s \in Nat /\ d * s \in Nat
  <2>1. d * s = (c + 1) * s + (d - (c + 1)) * s
    OBVIOUS
  <2>2. (d - (c + 1)) * s \in Nat /\ (c + 1) * s = c * s + s
    BY <1>1
  <2>3. c * s \in Nat /\ d * s \in Nat
    OBVIOUS
  <2> QED
    BY <2>1, <2>2, <2>3
<1>2. \A c \in 0 .. p - 1, n \in 1 .. s : c * s + n - 1 \in 0 .. p * s - 1
  <2> SUFFICES ASSUME NEW c \in 0 .. p - 1, NEW n \in 1 .. s
               PROVE  c * s + n - 1 \in 0 .. p * s - 1
    OBVIOUS
  <2>1. c * s + s <= p * s /\ c * s \in Nat /\ p * s \in Nat
    BY <1>1
  <2> QED
    BY <2>1
<1>3. ASSUME NEW c \in 0 .. p - 1, NEW d \in 0 .. p - 1, NEW n \in 1 .. s, NEW m \in 1 .. s,
             c * s + n - 1 = d * s + m - 1
      PROVE  c = d /\ n = m
  <2>1. c * s \in Nat /\ d * s \in Nat
    OBVIOUS
  <2>2. ~ (c < d)
    BY <1>1, <1>3, <2>1
  <2>3. ~ (d < c)
    BY <1>1, <1>3, <2>1
  <2>4. c = d
    BY <2>2, <2>3
  <2> QED
    BY <1>3, <2>1, <2>4
<1>4. ASSUME NEW k \in 0 .. p * s - 1
      PROVE  \E c \in 0 .. p - 1, n \in 1 .. s : k = c * s + n - 1
  <2>1. p * s \in Nat /\ p * s > 0
    OBVIOUS
  <2>2. s > 0
    BY <2>1
  <2>3. /\ k \div s \in Nat /\ k % s \in 0 .. s - 1
        /\ k = s * (k \div s) + (k % s)
    BY <2>2
  <2>4. k \div s < p
    <3> SUFFICES ASSUME p <= k \div s PROVE FALSE
      BY <2>3
    <3>1. p * s <= (k \div s) * s
      BY <1>1, <2>3
    <3> QED
      BY <2>1, <2>3, <3>1
  <2> QED
    BY <2>2, <2>3, <2>4
<1> QED
  BY <1>2, <1>3, <1>4 DEF Offset

\* The frames of the CPUs when CPU c has sent len[c], and the place of each of them when
\* each CPU has room for a share of s.
FramesOf(len) == UNION {{c} \X (1 .. len[c]) : c \in CPUs}
Place(len, s) == [f \in FramesOf(len) |-> Offset(f[1], f[2], s)]

\* If p CPUs send s frames at most and the others none, there are p * s at most, and
\* exactly as many if each of the p sends s.
LEMMA FramesAreShares ==
  ASSUME NEW p \in Nat, NEW s \in Nat, NEW len \in [CPUs -> Nat],
         \A c \in CPUs : len[c] <= IF c < p THEN s ELSE 0
  PROVE  /\ IsFiniteSet(FramesOf(len))
         /\ Cardinality(FramesOf(len)) <= p * s
         /\ (\A c \in 0 .. p - 1 : c \in CPUs /\ len[c] = s) => Cardinality(FramesOf(len)) = p * s
<1> DEFINE T == 0 .. p * s - 1
           f == Place(len, s)
<1>1. p * s \in Nat
  OBVIOUS
<1>2. IsFiniteSet(T) /\ Cardinality(T) = p * s
  <2>1. ASSUME NEW q \in Nat
        PROVE  IsFiniteSet(0 .. q - 1) /\ Cardinality(0 .. q - 1) = q
    <3>1. q - 1 \in Int /\ 0 \in Int
      OBVIOUS
    <3>2. /\ IsFiniteSet(0 .. q - 1)
          /\ Cardinality(0 .. q - 1) = IF 0 > q - 1 THEN 0 ELSE (q - 1) - 0 + 1
      BY <3>1, FS_Interval
    <3> QED
      BY <3>2
  <2> QED
    BY <1>1, <2>1
<1>3. \A c \in CPUs : c \in Nat /\ len[c] \in Nat
  BY SizesAssumption DEF CPUs
<1>4. \A x : x \in FramesOf(len) <=> \E c \in CPUs : \E n \in 1 .. len[c] : x = <<c, n>>
  BY DEF FramesOf
<1>5. ASSUME NEW x \in FramesOf(len)
      PROVE  x[1] \in 0 .. p - 1 /\ x[2] \in 1 .. s /\ x = <<x[1], x[2]>>
  <2>1. PICK c \in CPUs : \E n \in 1 .. len[c] : x = <<c, n>>
    BY <1>4
  <2>2. PICK n \in 1 .. len[c] : x = <<c, n>>
    BY <2>1
  <2>3. c \in 0 .. p - 1 /\ n \in 1 .. s
    BY <1>3
  <2> QED
    BY <2>2, <2>3
<1>6. /\ \A c, d \in 0 .. p - 1, n, m \in 1 .. s :
           Offset(c, n, s) = Offset(d, m, s) => c = d /\ n = m
      /\ \A k \in T : \E c \in 0 .. p - 1, n \in 1 .. s : k = Offset(c, n, s)
  BY EndToEnd
<1>7. f \in Injection(FramesOf(len), T)
  <2>1. f \in [FramesOf(len) -> T]
    BY <1>5, EndToEnd DEF Place
  <2>2. ASSUME NEW x \in FramesOf(len), NEW y \in FramesOf(len), f[x] = f[y]
        PROVE  x = y
    <3>1. Offset(x[1], x[2], s) = Offset(y[1], y[2], s)
      BY <2>2 DEF Place
    <3>2. /\ x[1] \in 0 .. p - 1 /\ x[2] \in 1 .. s
          /\ y[1] \in 0 .. p - 1 /\ y[2] \in 1 .. s
      BY <1>5
    <3>3. x[1] = y[1] /\ x[2] = y[2]
      BY ONLY <1>6, <3>1, <3>2
    <3> QED
      BY <1>5, <3>3
  <2> QED
    BY <2>1, <2>2 DEF Injection, IsInjective
<1>8. /\ IsFiniteSet(FramesOf(len))
      /\ Cardinality(FramesOf(len)) <= p * s
      /\ Cardinality(FramesOf(len)) = p * s <=> f \in Surjection(FramesOf(len), T)
  BY <1>2, <1>7, FS_Injection
<1>9. ASSUME \A c \in 0 .. p - 1 : c \in CPUs /\ len[c] = s
      PROVE  f \in Surjection(FramesOf(len), T)
  <2>1. ASSUME NEW k \in T
        PROVE  \E x \in FramesOf(len) : f[x] = k
    <3>1. PICK c \in 0 .. p - 1, n \in 1 .. s : k = Offset(c, n, s)
      BY <1>6
    <3>2. <<c, n>> \in FramesOf(len)
      BY <1>4, <1>9
    <3> QED
      BY <3>1, <3>2 DEF Place
  <2>2. f \in [FramesOf(len) -> T]
    BY <1>7 DEF Injection
  <2> QED
    BY <2>1, <2>2 DEF Surjection
<1> QED
  BY <1>8, <1>9

\* The shares of all workers add up to Count less the remainder of the division.
LEMMA SharesOfCount ==
  ASSUME NEW n \in Nat, NEW p \in Nat \ {0}
  PROVE  p * (n \div p) = n - (n % p)
<1>1. n \div p \in Nat /\ n % p \in 0 .. p - 1 /\ n = p * (n \div p) + (n % p)
  OBVIOUS
<1> QED
  BY <1>1

\* When every Run has ended without an error and no CPU has aborted, the frames of all
\* CPUs add up to the shares of the workers, and exceed them only by what was sent again
\* after an interrupted system call.
THEOREM SharesAddUp == ClientSpec => []SharesAreSent
<1>1. ClientTypeOK /\ ClientInv => SharesAreSent
  <2> DEFINE p == flags.Parallelism
             shares == flags.Count - (flags.Count % p)
             len == [c \in CPUs |-> Len(sent[c])]
             first == [c \in CPUs |-> IF c < p THEN Share ELSE 0]
  <2> SUFFICES ASSUME ClientTypeOK, ClientInv, AllWorkersOk, Share < RepeatModulus,
                      \A c \in CPUs : ~ aborted[c]
               PROVE  /\ shares <= Cardinality(Frames)
                      /\ (\A w \in Workers : interrupts[w] = 0) => Cardinality(Frames) = shares
    BY DEF SharesAreSent
  <2>1. /\ Share \in Nat /\ p \in Nat \ {0} /\ flags.Count \in Nat /\ p <= MaxParallelism
        /\ InterruptBound \in Nat
    BY RepeatFacts, ClientAssumption DEF ClientInv, ClientTypeOK
  <2>2. Asked = Share
    <3>1. Share >= 1
      BY <2>1, ShareFacts, ClientAssumption DEF Share, ClientInv, DriverInv, Validate
    <3>2. Share % RepeatModulus = Share
      BY <2>1, ClientAssumption
    <3> QED
      BY <2>1, <3>1, <3>2 DEF Asked, KernelRepeat, Repeat, Share
  <2>3. ASSUME NEW c \in 0 .. p - 1
        PROVE  /\ c \in CPUs /\ c \in Workers
               /\ Share <= Len(sent[c])
               /\ interrupts[c] = 0 => Len(sent[c]) = Share
    <3>1. c \in Workers /\ inner[c] = "ok"
      BY <2>1, ClientAssumption DEF Workers, AllWorkersOk
    <3>2. c \in CPUs
      BY <3>1, ClientAssumption DEF ClientInv, WorkerInv
    <3> QED
      BY <2>2, <3>1, <3>2 DEF ClientInv, OkRunHasSent
  <2>4. \A c \in CPUs : c \in Nat /\ Len(sent[c]) \in Nat
    BY SizesAssumption DEF CPUs, ClientTypeOK, TypeOK
  <2>5. len \in [CPUs -> Nat] /\ first \in [CPUs -> Nat]
    BY <2>1, <2>4
  <2>6. Frames = FramesOf(len)
    BY DEF Frames, FramesOf
  <2>7. IsFiniteSet(Frames)
    <3> DEFINE room == (InterruptBound + 1) * Share
    <3>1. room \in Nat
      BY <2>1
    <3>2. \A c \in CPUs : len[c] <= IF c < p THEN room ELSE 0
      <4> SUFFICES ASSUME NEW c \in CPUs
                   PROVE  Len(sent[c]) <= IF c < p THEN room ELSE 0
        OBVIOUS
      <4>1. CASE c < p
        <5>1. c \in Workers /\ Len(sent[c]) <= Room(c)
          BY <4>1, RoomIsKept
        <5>2. Room(c) \in Nat /\ Room(c) <= room
          BY <5>1, RoomFacts DEF ClientInv
        <5> HIDE DEF room
        <5> QED
          BY <2>4, <3>1, <4>1, <5>1, <5>2
      <4>2. CASE ~ (c < p)
        BY <4>2, RoomIsKept
      <4> QED
        BY <4>1, <4>2
    <3> HIDE DEF room, len, p
    <3> QED
      BY <2>1, <2>5, <2>6, <3>1, <3>2, FramesAreShares
  <2>8. IsFiniteSet(FramesOf(first)) /\ Cardinality(FramesOf(first)) = p * Share
    <3>1. \A c \in CPUs : first[c] <= IF c < p THEN Share ELSE 0
      BY <2>1
    <3>2. \A c \in 0 .. p - 1 : c \in CPUs /\ first[c] = Share
      BY <2>1, <2>3
    <3> HIDE DEF first, p
    <3> QED
      BY <2>1, <2>5, <3>1, <3>2, FramesAreShares
  <2>9. p * Share = shares
    BY <2>1, SharesOfCount DEF Share
  <2>10. shares <= Cardinality(Frames)
    <3>1. \A c \in CPUs : first[c] \in Nat /\ len[c] \in Nat /\ first[c] <= len[c]
      BY <2>1, <2>3, <2>4
    <3>2. FramesOf(first) \subseteq FramesOf(len)
      <4> HIDE DEF first, len
      <4>1. \A c \in CPUs : 1 .. first[c] \subseteq 1 .. len[c]
        BY <3>1
      <4> QED
        BY <4>1 DEF FramesOf
    <3> HIDE DEF first, len, p
    <3>3. Cardinality(FramesOf(first)) <= Cardinality(Frames)
      BY <2>6, <2>7, <3>2, FS_Subset
    <3> QED
      BY <2>8, <2>9, <3>3
  <2>11. ASSUME \A w \in Workers : interrupts[w] = 0
         PROVE  Cardinality(Frames) = shares
    <3>1. \A c \in CPUs : first[c] = len[c]
      <4> SUFFICES ASSUME NEW c \in CPUs
                   PROVE  (IF c < p THEN Share ELSE 0) = Len(sent[c])
        OBVIOUS
      <4>1. c < p => c \in 0 .. p - 1
        BY <2>1, <2>4
      <4> QED
        BY <2>3, <2>11, <4>1, RoomIsKept
    <3>2. first = len
      BY <3>1
    <3> QED
      BY <2>6, <2>8, <2>9, <3>2
  <2> QED
    BY <2>10, <2>11
<1> QED
  BY <1>1, ClientInvariant, PTL

\* The client uses the maps and the program as XdpTx allows: it fills them once,
\* before any worker runs, and only with entries that were checked.
THEOREM ClientUsesTheDatapath == ClientSpec => Spec
<1>1. ClientInit => Init
  BY DEF ClientInit
<1>2. ClientTypeOK /\ ClientInv /\ [ClientNext]_clientVars => [Next]_xdpVars
  <2> SUFFICES ASSUME ClientTypeOK, ClientInv, [ClientNext]_clientVars, ~ UNCHANGED xdpVars
               PROVE  Next
    OBVIOUS
  <2>1. CASE initEbpfMap
    <3>1. resp \in EntryLists
      BY <2>1, ClientAssumption DEF initEbpfMap, ClientInv, DriverInv
    <3> QED
      BY <2>1, <3>1 DEF initEbpfMap, Next
  <2>2. ASSUME NEW w \in Workers, Run_repetition(w)
        PROVE  Next
    <3>1. inner[w] = "running" /\ cpu[w] = w /\ w \in CPUs /\ left[w] > 0 /\ xdp_tx(w)
      BY <2>2, ClientAssumption DEF Run_repetition, ClientInv, WorkerInv
    <3>2. phase = "ready"
      BY <3>1, ClientAssumption DEF ClientInv, DriverInv, WorkerInv, ClientTypeOK, Workers
    <3>3. Len(sent[w]) < FrameBound
      <4>1. Len(sent[w]) + left[w] <= Room(w)
        BY <3>1 DEF ClientInv, SentInv
      <4>2. Len(sent[w]) \in Nat /\ left[w] \in Nat
        BY <3>1 DEF ClientTypeOK, TypeOK
      <4>3. Room(w) \in Nat /\ Room(w) <= FrameBound
        BY RoomFacts DEF ClientInv
      <4> QED
        BY <3>1, <4>1, <4>2, <4>3, SizesAssumption
    <3> QED
      BY <3>1, <3>2, <3>3 DEF Next
  <2>3. CASE Main /\ ~ initEbpfMap
    BY <2>3 DEF Main, NewXdperf, loadConfig, callPlugin, convToTxOverrideEntry, spawn,
                BuildSamplePacket, Notify, receive_and_cancel, wg_Wait, Close
  <2>4. ASSUME NEW w \in Workers, Inner(w) /\ ~ Run_repetition(w)
        PROVE  FALSE
    BY <2>4 DEF Inner, LockOSThread, SchedSetaffinity, Run, Run_interrupted, Run_return
  <2>5. CASE (\E w \in Workers : outer_done(w)) \/ Signal \/ UNCHANGED clientVars
    BY <2>5 DEF outer_done, Signal, clientVars
  <2> QED
    BY <2>1, <2>2, <2>3, <2>4, <2>5 DEF ClientNext, Exited
<1> QED
  BY <1>1, <1>2, ClientInvariant, PTL DEF ClientSpec, Spec

\* So whatever the workers and the signals do, the running client sends the packets
\* of the plugin and nothing else, and one frame per CPU at most.
THEOREM ClientSendsTheEntries ==
  ClientSpec => [](FramesAreTheEntry /\ OneFramePerCPU)
BY ClientUsesTheDatapath, EveryFrameIsTheEntry, AtMostOneFrame, PTL

\* And the statistics its reporter reads count exactly those frames, though the workers,
\* the signals and the shutdown interleave with the runs of the program.
THEOREM ClientStatisticsAreExact == ClientSpec => []StatsCountTransmits
BY ClientUsesTheDatapath, StatisticsAreExact, PTL

\* A CPU that aborted under its worker sends nothing more, whatever is left of the Run.
THEOREM ClientAbortsAreFinal == ClientSpec => AbortIsFinal
BY ClientUsesTheDatapath, AbortsAreFinal, PTL

\* The whole client is a stream of one frame per CPU, assigned once: the abstract
\* specification of the datapath is also one of the process that drives it.
THEOREM ClientIsAStream == ClientSpec => StreamSpec
BY ClientUsesTheDatapath, DatapathIsAStream, PTL

-----------------------------------------------------------------------------
(* The way out.                                                            *)

\* Nothing is cancelled, spawned or cleaned up yet.
LEMMA InitialShutdown ==
  ASSUME ClientInit
  PROVE  ShutdownInv
<1>1. ExitInv
  BY ClientAssumption DEF ClientInit, ExitInv, Workers
<1>2. CleanupInv
  BY DEF ClientInit, CleanupInv
<1> QED
  BY <1>1, <1>2 DEF ShutdownInv

\* Every step keeps the part about the context, the wait group and the exit code.
LEMMA ExitKept ==
  ASSUME ClientTypeOK, ClientInv, ExitInv, [ClientNext]_clientVars
  PROVE  ExitInv'
<1> USE DEF ExitInv, Goto, Return
<1>1. CASE NewXdperf \/ loadConfig \/ callPlugin \/ convToTxOverrideEntry \/ initEbpfMap
           \/ BuildSamplePacket \/ Notify
  BY <1>1 DEF NewXdperf, loadConfig, callPlugin, convToTxOverrideEntry, initEbpfMap,
              BuildSamplePacket, Notify
<1>2. CASE spawn
  <2>1. spawned \in Nat /\ spawned < flags.Parallelism /\ flags.Parallelism \in Nat
        /\ MaxParallelism \in Nat /\ spawned \in Workers
    BY <1>2, ClientAssumption DEF spawn, ClientInv, DriverInv, ClientTypeOK, Workers
  <2>2. CASE UNCHANGED <<outer, inner, spawned>>
    BY <1>2, <2>2 DEF spawn
  <2>3. CASE outer' = [outer EXCEPT ![spawned] = "waiting"] /\ spawned' = spawned + 1
    <3>1. \A w \in Workers : outer'[w] = IF w = spawned THEN "waiting" ELSE outer[w]
      BY <2>3 DEF ClientTypeOK
    <3>2. \A w \in Workers : w \in Nat
      BY ClientAssumption DEF Workers
    <3>3. \A w \in Workers : outer'[w] = "none" <=> w >= spawned'
      BY <2>1, <2>3, <3>1, <3>2
    <3>4. /\ pc = "spawn" /\ UNCHANGED <<flags, exitCode>> /\ ~ ctxDone
          /\ \/ pc' = "spawn"
             \/ pc' = "notify" /\ spawned' = flags.Parallelism
          /\ UNCHANGED ctxDone
      BY <1>2, <2>1, <2>3 DEF spawn
    <3> QED
      BY <3>3, <3>4
  <2> QED
    BY <1>2, <2>2, <2>3 DEF spawn
<1>3. CASE receive_and_cancel \/ wg_Wait
  BY <1>3 DEF receive_and_cancel, wg_Wait
<1>4. CASE \E err \in BOOLEAN : Close(err)
  BY <1>4 DEF Close
<1>5. ASSUME NEW w \in Workers, outer_done(w)
      PROVE  ExitInv'
  <2>1. /\ outer' = [outer EXCEPT ![w] = "done"] /\ outer[w] = "waiting"
        /\ UNCHANGED <<pc, flags, spawned, ctxDone, exitCode>>
    BY <1>5 DEF outer_done
  <2>2. \A v \in Workers : outer'[v] = IF v = w THEN "done" ELSE outer[v]
    BY <2>1 DEF ClientTypeOK
  <2> QED
    BY <2>1, <2>2
<1>6. ASSUME NEW w \in Workers, Inner(w)
      PROVE  ExitInv'
  <2>1. UNCHANGED <<pc, flags, spawned, ctxDone, exitCode, outer>>
    BY <1>6 DEF Inner, LockOSThread, SchedSetaffinity, Run, Run_repetition, Run_interrupted, Run_return,
                InnerUnchanged
  <2> QED
    BY <2>1
<1>7. CASE Signal
  BY <1>7 DEF Signal
<1>8. CASE UNCHANGED clientVars
  BY <1>8 DEF clientVars
<1> QED
  BY <1>1, <1>2, <1>3, <1>4, <1>5, <1>6, <1>7, <1>8 DEF ClientNext, Main, Exited

\* Every step keeps the part about the cleanup functions.
LEMMA CleanupKept ==
  ASSUME ClientTypeOK, ClientInv, CleanupInv, [ClientNext]_clientVars
  PROVE  CleanupInv'
<1> USE DEF CleanupInv, Goto, Return
<1>1. CASE NewXdperf
  <2>1. /\ step < 5 /\ step \in Nat
        /\ cleaned' = cleaned /\ cleaned = <<>>
        /\ pc' \in {"NewXdperf", "loadConfig", "exited"}
        /\ pc' = "exited" => step' = step
    BY <1>1, CallFacts DEF NewXdperf, ClientInv, DriverInv, ClientTypeOK
  <2>2. Len(cleanupFnList') \in Nat
    BY <1>1, MainKeepsTypes DEF Main, ClientTypeOK
  <2>3. Len(<<>>) = 0
    BY EmptySeq
  <2>4. Len(Calls') = 5
    BY CallFacts DEF Calls
  <2> HIDE DEF CleanupInv
  <2>5. cleaned' = <<>> /\ Len(cleaned') = 0
    BY <2>1, <2>3
  <2>6. \A i \in 1 .. Len(cleaned') : cleaned'[i] = cleanupFnList'[i]
    BY <2>5
  <2>7. Len(cleaned') <= Len(cleanupFnList')
    BY <2>2, <2>5
  <2>8. ~ (pc' = "exited" /\ step' = Len(Calls'))
    BY <2>1, <2>4
  <2> QED
    BY <2>5, <2>6, <2>7, <2>8 DEF CleanupInv
<1>2. CASE \E err \in BOOLEAN : Close(err)
  <2>1. /\ pc = "Close" /\ UNCHANGED <<cleanupFnList, step, exitCode>>
        /\ cleaned \in Seq(Cleanups) /\ cleanupFnList \in Seq(Cleanups)
    BY <1>2 DEF Close, ClientTypeOK, Cleanups
  <2>2. CASE Len(cleaned) < Len(cleanupFnList)
    <3>1. cleaned' = Append(cleaned, cleanupFnList[Len(cleaned) + 1]) /\ pc' = "Close"
      BY <1>2, <2>1, <2>2 DEF Close
    <3> HIDE DEF Cleanups
    <3>2. /\ Len(cleaned') = Len(cleaned) + 1
          /\ \A i \in 1 .. Len(cleaned) : cleaned'[i] = cleaned[i]
          /\ cleaned'[Len(cleaned) + 1] = cleanupFnList[Len(cleaned) + 1]
      BY <2>1, <3>1
    <3> QED
      BY <2>1, <2>2, <3>1, <3>2
  <2>3. CASE ~ (Len(cleaned) < Len(cleanupFnList))
    BY <1>2, <2>1, <2>3 DEF Close
  <2> QED
    BY <2>2, <2>3
<1>3. CASE \/ loadConfig \/ callPlugin \/ convToTxOverrideEntry \/ initEbpfMap
           \/ BuildSamplePacket \/ spawn \/ Notify \/ receive_and_cancel \/ wg_Wait
  <2>1. pc \notin {"Close", "exited"} /\ pc' # "exited" /\ UNCHANGED <<cleaned, cleanupFnList, step>>
    BY <1>3 DEF loadConfig, callPlugin, convToTxOverrideEntry, initEbpfMap, BuildSamplePacket,
                spawn, Notify, receive_and_cancel, wg_Wait
  <2> QED
    BY <2>1
<1>4. ASSUME NEW w \in Workers, outer_done(w) \/ Inner(w)
      PROVE  CleanupInv'
  <2>1. UNCHANGED <<pc, cleaned, cleanupFnList, step, exitCode>>
    BY <1>4 DEF outer_done, Inner, LockOSThread, SchedSetaffinity, Run, Run_repetition, Run_interrupted,
                Run_return, InnerUnchanged
  <2> QED
    BY <2>1
<1>5. CASE Signal
  BY <1>5 DEF Signal
<1>6. CASE UNCHANGED clientVars
  BY <1>6 DEF clientVars
<1> QED
  BY <1>1, <1>2, <1>3, <1>4, <1>5, <1>6 DEF ClientNext, Main, Exited

\* The context, the wait group, the exit code and the cleanup list of every behaviour.
THEOREM ShutdownInvariant == ClientSpec => []ShutdownInv
<1>1. ClientInit => ShutdownInv
  BY InitialShutdown
<1>2. ClientTypeOK /\ ClientInv /\ ShutdownInv /\ [ClientNext]_clientVars => ShutdownInv'
  BY ExitKept, CleanupKept DEF ShutdownInv
<1> QED
  BY <1>1, <1>2, ClientInvariant, PTL DEF ClientSpec

\* A client that ends without an error has cancelled its workers and has seen every
\* outer goroutine end.
THEOREM ReturnIsClean == ClientSpec => []CleanReturn
<1>1. ClientTypeOK /\ ShutdownInv => CleanReturn
  <2> SUFFICES ASSUME ClientTypeOK, ExitInv, exitCode = "ok", ~ flags.server, NEW w \in Workers
               PROVE  outer[w] = (IF w < flags.Parallelism THEN "done" ELSE "none")
    BY DEF CleanReturn, ShutdownInv, ExitInv
  <2>1. w \in Int /\ flags.Parallelism \in Int /\ spawned = flags.Parallelism
    BY ClientAssumption DEF Workers, ClientTypeOK, ExitInv
  <2>2. outer[w] \in {"none", "done"} /\ (outer[w] = "none" <=> w >= spawned)
    BY DEF ExitInv, ClientTypeOK
  <2> QED
    BY <2>1, <2>2
<1> QED
  BY <1>1, ClientInvariant, ShutdownInvariant, PTL

\* A process that was not killed releases everything it has registered, in order.
THEOREM CleanupIsComplete == ClientSpec => []EverythingCleaned
<1>1. ClientTypeOK /\ ShutdownInv => EverythingCleaned
  <2> SUFFICES ASSUME ClientTypeOK, CleanupInv,
                      pc = "exited", exitCode # "killed", step = Len(Calls)
               PROVE  cleaned = cleanupFnList
    BY DEF EverythingCleaned, ShutdownInv
  <2>1. /\ cleaned \in Seq(Cleanups) /\ cleanupFnList \in Seq(Cleanups)
        /\ Len(cleaned) = Len(cleanupFnList)
        /\ \A i \in 1 .. Len(cleaned) : cleaned[i] = cleanupFnList[i]
    BY DEF ClientTypeOK, CleanupInv, Cleanups
  <2> QED
    BY <2>1, SeqEqual
<1> QED
  BY <1>1, ClientInvariant, ShutdownInvariant, PTL
=============================================================================
