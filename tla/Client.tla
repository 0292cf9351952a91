------------------------------- MODULE Client -------------------------------
(***************************************************************************)
(* One run of `xdperf -d DEV -c COUNT -l PARALLELISM` in client mode, from *)
(* the validated flags to the end of the process: run in                   *)
(* cmd/xdperf/main.go, and NewXdperf, StartClient, runTXPacket, run and    *)
(* Close in pkg/xdperf/xdperf.go, over the maps and the program of XdpTx.  *)
(*                                                                         *)
(* Processes: the main goroutine; for each worker the goroutine the wait   *)
(* group counts (outer) and the one that runs the program (inner); and the *)
(* environment, which delivers SIGINT and SIGTERM.  ShowStats, which       *)
(* changes no state of these and which nobody waits for, has its own       *)
(* module.                                                                 *)
(***************************************************************************)
EXTENDS XdpTx, FiniteSets

CONSTANTS
  MaxCount,         \* bound on the flag --count
  MaxParallelism,   \* bound on the flag --parallelism
  OnlineCPUs,       \* the CPUs a thread can be pinned to
  RepeatModulus,    \* 2^32: RunOptions.Repeat is a uint32
  Responses,        \* what the plugin may answer: lists of [Data, Length]
  SignalBound,      \* bound on the signals delivered
  InterruptBound    \* bound on how often the Run of a worker is interrupted

Workers == 0 .. MaxParallelism - 1

\* convToTxOverrideEntry refuses a response with a length its data does not have.
Convertible(r) == \A i \in 1 .. Len(r) : Len(r[i].Data) >= r[i].Length

ASSUME ClientAssumption ==
  /\ MaxCount \in Nat
  /\ MaxParallelism \in Nat
  /\ SignalBound \in Nat
  /\ InterruptBound \in Nat
  /\ RepeatModulus \in Nat \ {0}
  /\ OnlineCPUs \subseteq CPUs
  /\ (InterruptBound + 1) * MaxCount <= FrameBound
  /\ Responses \subseteq Seq(TxOverrideEntry)
  /\ \A r \in Responses : Convertible(r) => r \in EntryLists

VARIABLES
  flags,          \* the flags that matter: Count, Parallelism and server
  pc,             \* where the main goroutine is
  step,           \* how many of the calls of NewXdperf have succeeded
  cleanupFnList,  \* the cleanup functions registered so far
  cleaned,        \* the cleanup functions Close has called
  resp,           \* the plugin's response
  spawned,        \* how many workers the loop of runTXPacket has started
  ctxDone,        \* the context of runTXPacket is cancelled
  outer,          \* worker -> none, waiting or done
  inner,          \* worker -> none, started, locked, pinned, running, failed or ok
  wired,          \* the workers whose goroutine is wired to its thread
  cpu,            \* worker -> the CPU its Run executes on
  left,           \* worker -> the repetitions its Run still has to do
  interrupts,     \* worker -> how often its Run was interrupted and begun again
  notified,       \* signal.Notify was called
  sig,            \* the channel sig, of capacity one, holds a signal
  signals,        \* how many signals were delivered
  exitCode        \* none, and then ok, error or killed

workerVars == <<outer, inner, wired, cpu, left, interrupts>>
signalVars == <<notified, sig, signals>>
startVars == <<flags, step, cleanupFnList, resp>>
clientVars == <<xdpVars, pc, startVars, cleaned, spawned, ctxDone, workerVars,
                signalVars, exitCode>>

\* Mutants: a check of Config.Validate is missing.
Validate_anyParallelism(f) == f.Count > 0 /\ f.Count >= f.Parallelism
Validate_anyCount(f) == f.Parallelism > 0 /\ f.Count > 0

\* Config.Validate, on the fields that are numbers.
Validate(f) ==
  /\ f.Parallelism > 0
  /\ f.Count > 0
  /\ f.Count >= f.Parallelism

ClientInit ==
  /\ Init
  /\ flags \in {f \in [Count : 0 .. MaxCount, Parallelism : 0 .. MaxParallelism,
                       server : BOOLEAN] : Validate(f)}
  /\ pc = "NewXdperf"
  /\ step = 0
  /\ cleanupFnList = <<>>
  /\ cleaned = <<>>
  /\ resp = <<>>
  /\ spawned = 0
  /\ ctxDone = FALSE
  /\ outer = [w \in Workers |-> "none"]
  /\ inner = [w \in Workers |-> "none"]
  /\ wired = {}
  /\ cpu = [w \in Workers |-> 0]
  /\ left = [w \in Workers |-> 0]
  /\ interrupts = [w \in Workers |-> 0]
  /\ notified = FALSE
  /\ sig = FALSE
  /\ signals = 0
  /\ exitCode = "none"

-----------------------------------------------------------------------------
(* The main goroutine.                                                     *)

Goto(l) == pc' = l /\ UNCHANGED exitCode

\* run returns, which runs its deferred Close; cancel is deferred in runTXPacket.
Return(code) == pc' = "Close" /\ exitCode' = code

\* The calls of NewXdperf, and what each of them adds to the cleanup list.
Calls == <<"NewLogger", "NewManager", "LoadPlugin", "ReadCollection", "InterfaceByName">>
Registers == <<<<"logger">>, <<>>, <<"pm.Close">>, <<"obj.Close">>, <<>>>>

\* A call that fails ends the process at once: run has not deferred Close yet.
NewXdperf ==
  /\ pc = "NewXdperf"
  /\ \/ /\ step' = step + 1
        /\ cleanupFnList' = cleanupFnList \o Registers[step + 1]
        /\ Goto(IF step + 1 = Len(Calls) THEN "loadConfig" ELSE "NewXdperf")
     \/ /\ pc' = "exited"
        /\ exitCode' = "error"
        /\ UNCHANGED <<step, cleanupFnList>>
  /\ UNCHANGED <<xdpVars, flags, resp, cleaned, spawned, ctxDone, workerVars, signalVars>>

\* The plugin's configuration file is read, and the server mode is left at once.
loadConfig ==
  /\ pc = "loadConfig"
  /\ \/ Return("error")
     \/ flags.server /\ Return("ok")
     \/ ~ flags.server /\ Goto("callPlugin")
  /\ UNCHANGED <<xdpVars, startVars, cleaned, spawned, ctxDone, workerVars, signalVars>>

callPlugin ==
  /\ pc = "callPlugin"
  /\ \/ Return("error") /\ UNCHANGED resp
     \/ resp' \in Responses /\ Goto("convToTxOverrideEntry")
  /\ UNCHANGED <<xdpVars, flags, step, cleanupFnList, cleaned, spawned, ctxDone,
                 workerVars, signalVars>>

convToTxOverrideEntry ==
  /\ pc = "convToTxOverrideEntry"
  /\ IF Convertible(resp) THEN Goto("initEbpfMap") ELSE Return("error")
  /\ UNCHANGED <<xdpVars, startVars, cleaned, spawned, ctxDone, workerVars, signalVars>>

\* Mutant: the error of initEbpfMap is logged and not returned.
initEbpfMap_ignored ==
  /\ pc = "initEbpfMap"
  /\ initSeqStateMap \/ initTxOverrideMap(resp)
  /\ Goto(IF phase' \in {"failed", "ready"} THEN "BuildSamplePacket" ELSE "initEbpfMap")
  /\ UNCHANGED <<startVars, cleaned, spawned, ctxDone, workerVars, signalVars>>

\* The two writes of XdpTx, each of which may fail.
initEbpfMap ==
  /\ pc = "initEbpfMap"
  /\ initSeqStateMap \/ initTxOverrideMap(resp)
  /\ \/ phase' = "failed" /\ Return("error")
     \/ phase' = "seq" /\ Goto("initEbpfMap")
     \/ phase' = "ready" /\ Goto("BuildSamplePacket")
  /\ UNCHANGED <<startVars, cleaned, spawned, ctxDone, workerVars, signalVars>>

BuildSamplePacket ==
  /\ pc = "BuildSamplePacket"
  /\ Return("error") \/ Goto("spawn")
  /\ UNCHANGED <<xdpVars, startVars, cleaned, spawned, ctxDone, workerVars, signalVars>>

\* RunOptions.Repeat of every worker.
Repeat == (flags.Count \div flags.Parallelism) % RepeatModulus

\* One round of the loop: the program is cloned for the next worker, which starts.
\* A failed clone returns, and the deferred cancel runs.
spawn ==
  /\ pc = "spawn"
  /\ \/ /\ outer' = [outer EXCEPT ![spawned] = "waiting"]
        /\ inner' = [inner EXCEPT ![spawned] = "started"]
        /\ spawned' = spawned + 1
        /\ Goto(IF spawned + 1 = flags.Parallelism THEN "notify" ELSE "spawn")
        /\ UNCHANGED ctxDone
     \/ /\ Return("error")
        /\ ctxDone' = TRUE
        /\ UNCHANGED <<outer, inner, spawned>>
  /\ UNCHANGED <<xdpVars, startVars, cleaned, wired, cpu, left, interrupts,
                 signalVars>>

Notify ==
  /\ pc = "notify"
  /\ notified' = TRUE
  /\ Goto("wait")
  /\ UNCHANGED <<xdpVars, startVars, cleaned, spawned, ctxDone, workerVars, sig, signals>>

\* <-sig, then cancel()
receive_and_cancel ==
  /\ pc = "wait"
  /\ sig
  /\ sig' = FALSE
  /\ ctxDone' = TRUE
  /\ Goto("wg.Wait")
  /\ UNCHANGED <<xdpVars, startVars, cleaned, spawned, workerVars, notified, signals>>

\* Mutant: wg.Wait is missing.
wg_Wait_missing ==
  /\ pc = "wg.Wait"
  /\ Return("ok")
  /\ UNCHANGED <<xdpVars, startVars, cleaned, spawned, ctxDone, workerVars, signalVars>>

\* The wait group counts the outer goroutines that have not ended.
wg_Wait ==
  /\ pc = "wg.Wait"
  /\ \A w \in Workers : outer[w] # "waiting"
  /\ Return("ok")
  /\ UNCHANGED <<xdpVars, startVars, cleaned, spawned, ctxDone, workerVars, signalVars>>

\* Mutant: the first error ends the loop.
Close_firstError(err) ==
  /\ pc = "Close"
  /\ IF Len(cleaned) < Len(cleanupFnList)
     THEN /\ cleaned' = Append(cleaned, cleanupFnList[Len(cleaned) + 1])
          /\ pc' = IF err THEN "exited" ELSE pc
     ELSE pc' = "exited" /\ UNCHANGED cleaned
  /\ UNCHANGED <<xdpVars, startVars, spawned, ctxDone, workerVars, signalVars, exitCode>>

\* The next cleanup function is called: err, whether it fails, is only logged.
\* After the last one the process ends, and with it every goroutine.
Close(err) ==
  /\ pc = "Close"
  /\ IF Len(cleaned) < Len(cleanupFnList)
     THEN /\ cleaned' = Append(cleaned, cleanupFnList[Len(cleaned) + 1])
          /\ UNCHANGED pc
     ELSE pc' = "exited" /\ UNCHANGED cleaned
  /\ UNCHANGED <<xdpVars, startVars, spawned, ctxDone, workerVars, signalVars, exitCode>>

Main ==
  \/ NewXdperf \/ loadConfig \/ callPlugin \/ convToTxOverrideEntry \/ initEbpfMap
  \/ BuildSamplePacket \/ spawn \/ Notify \/ receive_and_cancel \/ wg_Wait
  \/ \E err \in BOOLEAN : Close(err)

-----------------------------------------------------------------------------
(* The goroutines of worker w.  They live as long as the process does.     *)

Alive == pc # "exited"

\* Mutant: the outer goroutine also waits for the inner one.
outer_done_joins(w) ==
  /\ Alive
  /\ outer[w] = "waiting"
  /\ ctxDone
  /\ inner[w] \in {"ok", "failed"}
  /\ outer' = [outer EXCEPT ![w] = "done"]
  /\ UNCHANGED <<xdpVars, pc, startVars, cleaned, spawned, ctxDone, inner, wired, cpu,
                 left, interrupts, signalVars, exitCode>>

\* The outer goroutine waits for the context, and never for the inner one.
outer_done(w) ==
  /\ Alive
  /\ outer[w] = "waiting"
  /\ ctxDone
  /\ outer' = [outer EXCEPT ![w] = "done"]
  /\ UNCHANGED <<xdpVars, pc, startVars, cleaned, spawned, ctxDone, inner, wired, cpu,
                 left, interrupts, signalVars, exitCode>>

\* What no step of an inner goroutine changes.
InnerUnchanged ==
  UNCHANGED <<pc, startVars, cleaned, spawned, ctxDone, outer, signalVars, exitCode>>

\* Mutant: the goroutine is not wired to its thread.
LockOSThread_missing(w) ==
  /\ Alive
  /\ inner[w] = "started"
  /\ inner' = [inner EXCEPT ![w] = "locked"]
  /\ UNCHANGED <<xdpVars, wired, cpu, left, interrupts>>
  /\ InnerUnchanged

LockOSThread(w) ==
  /\ Alive
  /\ inner[w] = "started"
  /\ inner' = [inner EXCEPT ![w] = "locked"]
  /\ wired' = wired \cup {w}
  /\ UNCHANGED <<xdpVars, cpu, left, interrupts>>
  /\ InnerUnchanged

\* Worker w pins its thread to CPU w; the error of a missing CPU is only printed.
SchedSetaffinity(w) ==
  /\ Alive
  /\ inner[w] = "locked"
  /\ inner' = [inner EXCEPT ![w] = IF w \in OnlineCPUs THEN "pinned" ELSE "failed"]
  /\ UNCHANGED <<xdpVars, wired, cpu, left, interrupts>>
  /\ InnerUnchanged

\* BPF_PROG_TEST_RUN treats a repetition count of zero as one.
KernelRepeat(r) == IF r = 0 THEN 1 ELSE r

\* The repetitions every Run asks for, as the kernel takes them.
Asked == KernelRepeat(Repeat)

\* Run enters the kernel, on the CPU its thread is pinned to; a goroutine that is
\* not wired to that thread may be on any other.
Run(w) ==
  /\ Alive
  /\ inner[w] = "pinned"
  /\ inner' = [inner EXCEPT ![w] = "running"]
  /\ cpu' \in {[cpu EXCEPT ![w] = c] : c \in IF w \in wired THEN {w} ELSE OnlineCPUs}
  /\ left' = [left EXCEPT ![w] = Asked]
  /\ UNCHANGED <<xdpVars, wired, interrupts>>
  /\ InnerUnchanged

\* One repetition.  A frame that is aborted counts as a repetition like any other.
Run_repetition(w) ==
  /\ Alive
  /\ inner[w] = "running"
  /\ left[w] > 0
  /\ xdp_tx(cpu[w])
  /\ left' = [left EXCEPT ![w] = @ - 1]
  /\ UNCHANGED <<inner, wired, cpu, interrupts>>
  /\ InnerUnchanged

\* A signal interrupts the system call between two repetitions, and the library issues
\* it again with the whole Repeat.
Run_interrupted(w) ==
  /\ Alive
  /\ inner[w] = "running"
  /\ interrupts[w] < InterruptBound
  /\ 0 < left[w] /\ left[w] < Asked
  /\ left' = [left EXCEPT ![w] = Asked]
  /\ interrupts' = [interrupts EXCEPT ![w] = @ + 1]
  /\ UNCHANGED <<xdpVars, inner, wired, cpu>>
  /\ InnerUnchanged

\* The system call returns 0 after the last repetition, and another error at any time.
Run_return(w) ==
  /\ Alive
  /\ inner[w] = "running"
  /\ \/ left[w] = 0 /\ inner' = [inner EXCEPT ![w] = "ok"]
     \/ inner' = [inner EXCEPT ![w] = "failed"]
  /\ UNCHANGED <<xdpVars, wired, cpu, left, interrupts>>
  /\ InnerUnchanged

Inner(w) ==
  \/ LockOSThread(w) \/ SchedSetaffinity(w) \/ Run(w)
  \/ Run_repetition(w) \/ Run_interrupted(w) \/ Run_return(w)

-----------------------------------------------------------------------------
(* SIGINT or SIGTERM: it ends the process until Notify was called; from    *)
(* then on it goes to the channel, and is dropped if that is full.         *)

Signal ==
  /\ Alive
  /\ signals < SignalBound
  /\ signals' = signals + 1
  /\ IF notified
     THEN sig' = TRUE /\ UNCHANGED <<pc, exitCode>>
     ELSE pc' = "exited" /\ exitCode' = "killed" /\ UNCHANGED sig
  /\ UNCHANGED <<xdpVars, startVars, cleaned, spawned, ctxDone, workerVars, notified>>

\* The process has ended; everything else that stops is a deadlock.
Exited == pc = "exited" /\ UNCHANGED clientVars

ClientNext ==
  \/ Main
  \/ \E w \in Workers : outer_done(w) \/ Inner(w)
  \/ Signal
  \/ Exited

\* The Go scheduler runs a goroutine that can run.  The inner goroutines are left
\* out: a Run in the kernel may last as long as it likes.  No signal has to come.
ClientFairness ==
  /\ WF_clientVars(Main)
  /\ \A w \in Workers : WF_clientVars(outer_done(w))

ClientSpec == ClientInit /\ [][ClientNext]_clientVars /\ ClientFairness

-----------------------------------------------------------------------------
(* Properties.  The client is also one of the users XdpTx has in mind: its *)
(* runs check XdpTx's Spec as a property of ClientSpec.                    *)

ClientTypeOK ==
  /\ TypeOK
  /\ flags \in [Count : Nat, Parallelism : 1 .. MaxParallelism, server : BOOLEAN]
  /\ pc \in {"NewXdperf", "loadConfig", "callPlugin", "convToTxOverrideEntry",
             "initEbpfMap", "BuildSamplePacket", "spawn", "notify", "wait",
             "wg.Wait", "Close", "exited"}
  /\ step \in 0 .. Len(Calls)
  /\ cleanupFnList \in Seq({"logger", "pm.Close", "obj.Close"})
  /\ cleaned \in Seq({"logger", "pm.Close", "obj.Close"})
  /\ resp \in Responses \cup {<<>>}
  /\ spawned \in 0 .. flags.Parallelism
  /\ ctxDone \in BOOLEAN
  /\ outer \in [Workers -> {"none", "waiting", "done"}]
  /\ inner \in [Workers -> {"none", "started", "locked", "pinned", "running",
                            "failed", "ok"}]
  /\ wired \subseteq Workers
  /\ cpu \in [Workers -> CPUs]
  /\ left \in [Workers -> Nat]
  /\ interrupts \in [Workers -> 0 .. InterruptBound]
  /\ notified \in BOOLEAN
  /\ sig \in BOOLEAN
  /\ signals \in Nat
  /\ exitCode \in {"none", "ok", "error", "killed"}

\* Two Runs never execute on one CPU: they would share its slot index, and each
\* would take frames from the entry the other was dealt.
OneRunPerCPU ==
  \A v, w \in Workers :
    inner[v] = "running" /\ inner[w] = "running" /\ cpu[v] = cpu[w] => v = w

\* The frames on the wire: the n-th of CPU c.
Frames == UNION {{c} \X (1 .. Len(sent[c])) : c \in CPUs}

\* A worker whose Run reports no error has sent every repetition it asked for, exactly
\* if nothing interrupted it, or its CPU has met a frame that it could not resize: no
\* error means nothing more than that.
OkRunHasSent ==
  \A w \in Workers :
    inner[w] = "ok" =>
      \/ Asked <= Len(sent[w]) /\ (interrupts[w] = 0 => Len(sent[w]) = Asked)
      \/ aborted[w]

AllWorkersOk == \A w \in 0 .. flags.Parallelism - 1 : inner[w] = "ok"

Share == flags.Count \div flags.Parallelism

\* What becomes of Count when every Run ends without an error, no CPU has aborted and the
\* share fits the 32 bits of Repeat: the frames on the wire, those of all CPUs together,
\* are Count less the remainder of the division, or more if a system call was
\* interrupted after it had sent some.
SharesAreSent ==
  AllWorkersOk /\ Share < RepeatModulus /\ (\A c \in CPUs : ~ aborted[c]) =>
    LET shares == flags.Count - (flags.Count % flags.Parallelism)
    IN /\ shares <= Cardinality(Frames)
       /\ (\A w \in Workers : interrupts[w] = 0) => Cardinality(Frames) = shares

\* A client that returns without an error from runTXPacket has told its goroutines
\* to stop and has seen every one it counts stop, whatever the kernel still does.
CleanReturn ==
  exitCode = "ok" /\ ~ flags.server =>
    /\ ctxDone
    /\ \A w \in Workers : outer[w] = (IF w < flags.Parallelism THEN "done" ELSE "none")

\* Unless a signal came too early, the process releases everything NewXdperf has
\* registered once NewXdperf has returned, in that order, even if a release fails.
EverythingCleaned ==
  pc = "exited" /\ exitCode # "killed" /\ step = Len(Calls) => cleaned = cleanupFnList

\* Every signal ends the process, whatever it meets: before Notify, before the receive,
\* or with workers in the kernel.
SignalEndsTheClient == signals > 0 ~> pc = "exited"

-----------------------------------------------------------------------------
(* What the documentation says and the code does not do.                   *)

\* pkg/xdperf/config.go:38: count is the number of packets sent in total.  So when
\* every worker has done its Run without an error, Count frames have been sent.
\* Stated for a Count that the workers share evenly.
EvenCountIsSent ==
  pc # "NewXdperf" /\ AllWorkersOk /\ flags.Count % flags.Parallelism = 0 =>
    \A c \in 0 .. flags.Parallelism - 1 :
      Len(sent[c]) = flags.Count \div flags.Parallelism

\* The same of the repetitions that are asked of the kernel, for every Count: they
\* add up to it.
RepeatsCoverCount ==
  pc = "notify" => flags.Parallelism * Repeat = flags.Count

-----------------------------------------------------------------------------
(* The inductive invariant behind OneRunPerCPU, OkRunHasSent and           *)
(* SharesAreSent (Client_proofs.tla).                                      *)

\* Where the main goroutine is tells how far the maps are filled, and no worker
\* exists before they are.
DriverInv ==
  /\ Validate(flags) /\ flags.Count <= MaxCount
  /\ pc \in {"NewXdperf", "loadConfig", "callPlugin", "convToTxOverrideEntry"} =>
       phase = "fresh"
  /\ pc = "initEbpfMap" => phase \in {"fresh", "seq"} /\ Convertible(resp)
  /\ pc \in {"convToTxOverrideEntry", "initEbpfMap"} => resp \in Responses
  /\ pc \in {"BuildSamplePacket", "spawn", "notify", "wait", "wg.Wait"} => phase = "ready"
  /\ pc = "NewXdperf" => step < Len(Calls)
  /\ pc = "BuildSamplePacket" => spawned = 0
  /\ pc = "spawn" => spawned < flags.Parallelism
  /\ spawned > 0 => phase = "ready"

\* A worker that is past SchedSetaffinity is wired to a thread on its own CPU.
WorkerInv ==
  \A w \in Workers :
    /\ w >= spawned => inner[w] = "none"
    /\ inner[w] \in {"locked", "pinned", "running"} => w \in wired
    /\ inner[w] \in {"pinned", "running", "ok"} => w \in OnlineCPUs
    /\ inner[w] = "running" => cpu[w] = w

\* What a CPU has sent and what its worker still has to do are within one share for
\* each time the system call was issued.
Room(w) == (interrupts[w] + 1) * Share

SentInv ==
  \A c \in CPUs :
    /\ c \notin Workers \/ inner[c] \notin {"running", "failed", "ok"} => sent[c] = <<>>
    /\ c \in Workers /\ inner[c] = "running" => Len(sent[c]) + left[c] <= Room(c)
    /\ c \in Workers /\ inner[c] \in {"failed", "ok"} => Len(sent[c]) <= Room(c)

\* As long as no run of the program was aborted, what a CPU has sent and what its
\* worker still has to do are the repetitions that were asked for, or more if it was
\* interrupted.
RepeatInv ==
  \A w \in Workers :
    inner[w] = "running" =>
      \/ /\ Asked <= Len(sent[w]) + left[w]
         /\ interrupts[w] = 0 => Len(sent[w]) + left[w] = Asked
      \/ aborted[w]

ClientInv == DriverInv /\ WorkerInv /\ SentInv /\ RepeatInv /\ OkRunHasSent

-----------------------------------------------------------------------------
(* And the one behind CleanReturn and EverythingCleaned.                   *)

\* The end of runTXPacket: the context is cancelled only on the way out, and no error
\* is only answered after the wait group has seen every outer goroutine end.
ExitInv ==
  /\ ctxDone => pc \in {"wg.Wait", "Close", "exited"}
  /\ pc = "wg.Wait" => ctxDone
  /\ pc \notin {"Close", "exited"} => exitCode = "none"
  /\ pc \in {"notify", "wait", "wg.Wait"} => spawned = flags.Parallelism
  /\ \A w \in Workers : outer[w] = "none" <=> w >= spawned
  /\ exitCode = "ok" /\ ~ flags.server =>
       ctxDone /\ spawned = flags.Parallelism /\ \A w \in Workers : outer[w] # "waiting"

\* What Close has called is the beginning of the cleanup list, and in the end all of it.
CleanupInv ==
  /\ pc \notin {"Close", "exited"} => cleaned = <<>>
  /\ Len(cleaned) <= Len(cleanupFnList)
  /\ \A i \in 1 .. Len(cleaned) : cleaned[i] = cleanupFnList[i]
  /\ pc = "exited" /\ exitCode # "killed" /\ step = Len(Calls) =>
       Len(cleaned) = Len(cleanupFnList)

ShutdownInv == ExitInv /\ CleanupInv
=============================================================================
